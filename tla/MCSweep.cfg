\* Two pods of a user with a customised quota, the sweep and one request at a time,
\* one failure.
SPECIFICATION Spec
CONSTANTS
  PulseIDs = {p1, p2}
  Users = {u1}
  Handlers = {h1}
  None = None
  Namespaces = {n1}
  NamespaceOf <- MCNamespaceOf
  Customised = {u1}
  Tenanted = {}
  Sizes = {"small"}
  MaxPods <- MCMaxPods
  Admits <- MCAdmits
  MaxFaults = 1
  MaxStops = 0
SYMMETRY MCSymmetry
INVARIANTS
  Backed
  NothingForgotten
  BilledOncePerFailure
PROPERTIES
  ImplementsLeases
