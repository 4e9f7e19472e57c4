\* Two concurrent provisions of a user with a quota of one pod.
SPECIFICATION Spec
CONSTANTS
  PulseIDs = {p1, p2}
  Users = {u1}
  Handlers = {h1, h2}
  None = None
  Namespaces = {n1}
  NamespaceOf <- MCNamespaceOf
  Customised = {}
  Tenanted = {}
  Sizes = {"small"}
  MaxPods <- MCMaxPods
  Admits <- MCAdmits
  MaxFaults = 0
  MaxStops = 0
SYMMETRY MCSymmetry
INVARIANTS
  QuotaRespected
