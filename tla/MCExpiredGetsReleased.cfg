\* One pod and no failure at all.
SPECIFICATION FairSpec
CONSTANTS
  PulseIDs = {p1}
  Users = {u1}
  Handlers = {h1}
  None = None
  Namespaces = {n1}
  NamespaceOf <- MCNamespaceOf
  Customised = {}
  Tenanted = {}
  Sizes = {"small"}
  MaxPods <- MCMaxPods
  Admits <- MCAdmits
  MaxFaults = 0
  MaxStops = 0
PROPERTIES
  ExpiredGetsReleased
