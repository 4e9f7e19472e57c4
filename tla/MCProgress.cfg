\* Two pods of a user with a customised quota, one request at a time, one failure or
\* one stop, with fairness.
SPECIFICATION FewFairSpec
CONSTANTS
  PulseIDs = {p1, p2}
  Users = {u1}
  Handlers = {h1}
  None = None
  Namespaces = {n1}
  NamespaceOf <- MCNamespaceOf
  Customised = {u1}
  Tenanted = {}
  Sizes = {"small"}
  MaxPods <- MCMaxPods
  Admits <- MCAdmits
  MaxFaults = 1
  MaxStops = 1
PROPERTIES
  ReapedOrUsed
  Answered
