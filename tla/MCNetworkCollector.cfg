\* Two nodes and answers of one receiving and at most
\* two transmitting series, with fairness.
\* After Stop the loop has ended.
SPECIFICATION FairSpec
CONSTANTS
  p1 = p1
  p2 = p2
  Nodes = {n1, n2}
  Pods = {p1, p2}
  Own = Own
  Other = Other
  None = None
  Series <- ManySeries
  MaxReceived = 1
  MaxSeries = 2
INVARIANTS TypeOK AllTried PodTotals
PROPERTIES Ends KeepsCollecting
CHECK_DEADLOCK FALSE
