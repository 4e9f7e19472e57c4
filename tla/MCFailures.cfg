\* Two requests about one pod, two failures, or one and a stop.
SPECIFICATION Spec
CONSTANTS
  PulseIDs = {p1}
  Users = {u1}
  Handlers = {h1, h2}
  None = None
  Namespaces = {n1}
  NamespaceOf <- MCNamespaceOf
  Customised = {}
  Tenanted = {}
  Sizes = {"small", "large"}
  MaxPods <- MCMaxPods
  Admits <- MCAdmits
  MaxFaults = 2
  MaxStops = 1
SYMMETRY MCSymmetry
CONSTRAINT MCTwoMishaps
INVARIANTS
  TypeOK
  Backed
  NothingForgotten
  AuditComplete
  BilledOncePerFailure
