\* Two pods, two callers and two forwards, with fairness.
SPECIFICATION FairSpec
CONSTANTS
  Pods = {p1, p2}
  Callers = {g1, g2}
  Conns = {c1, c2}
  None = None
INVARIANTS
  TypeOK
  OneForward
  Reachable
  EntryFits
PROPERTIES
  Returns
  ImplementsTable

