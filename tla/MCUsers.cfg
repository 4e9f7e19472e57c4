\* Three pods, two requests at a time of two users, one of them with a tenant and
\* a customised quota; one failure, no sweep.
SPECIFICATION RequestsOnly
CONSTANTS
  PulseIDs = {p1, p2, p3}
  Users = {u1, u2}
  Handlers = {h1, h2}
  None = None
  Namespaces = {n1}
  NamespaceOf <- MCNamespaceOf
  Customised = {u2}
  Tenanted = {u2}
  Sizes = {"small"}
  MaxPods <- MCMaxPods
  Admits <- MCAdmits
  MaxFaults = 1
  MaxStops = 0
SYMMETRY MCSymmetry
INVARIANTS
  OwnRowsOnly
  QuotaBound
  QuotaRowBound
PROPERTIES
  ImplementsLeases
