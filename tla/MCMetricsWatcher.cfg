\* Two pods and 3 changes of them, with fairness.
SPECIFICATION WatcherFairSpec
CONSTANTS
  Pods = {p1, p2}
  None = None
  MaxRev = 3
INVARIANTS
  WatcherTypeOK
  NoGhosts
  NoneMissed
PROPERTIES
  CatchesUp
  ShowsLiving
  AllStop
CHECK_DEADLOCK FALSE
