\* A tenanted user without a customised quota, no failure.
SPECIFICATION Spec
CONSTANTS
  PulseIDs = {p1}
  Users = {u1}
  Handlers = {h1}
  None = None
  Namespaces = {n1}
  NamespaceOf <- MCNamespaceOf
  Customised = {}
  Tenanted = {u1}
  Sizes = {"small"}
  MaxPods <- MCMaxPods
  Admits <- MCAdmits
  MaxFaults = 0
  MaxStops = 0
SYMMETRY MCSymmetry
INVARIANTS
  UndoneOnlyAfterFailure
