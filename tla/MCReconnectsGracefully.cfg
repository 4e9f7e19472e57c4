\* Two pods and 3 changes of them, with fairness.
SPECIFICATION FairSpec
CONSTANTS
  Pods = {p1, p2}
  MaxRev = 3
PROPERTIES
  ReconnectsGracefully
CHECK_DEADLOCK FALSE
