\* Two pulses and two users, each with all tokens, paths and methods.
SPECIFICATION Spec
CONSTANTS
  p1 = p1
  p2 = p2
  u1 = u1
  u2 = u2
  Pulses = {p1, p2}
  Users = {u1, u2}
  Nobody = Nobody
SYMMETRY Symmetry
INVARIANTS TypeOK OwnPodsOnly OnlyHeartbeatShadowed
PROPERTY ChangesOwnOnly
