---------------------------- MODULE MCRequestPath ----------------------------
EXTENDS RequestPath, TLC

CONSTANTS p1, p2, u1, u2

\* Neither pulses nor users are told apart by any definition.
Symmetry == Permutations({p1, p2}) \cup Permutations({u1, u2})
=============================================================================
