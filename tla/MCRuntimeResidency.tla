------------------------- MODULE MCRuntimeResidency -------------------------
(* Instances of RuntimeResidency for TLC. *)
EXTENDS RuntimeResidency

CONSTANTS a, b, home, u1, u2, m1, n1, s1, s2, s3, s4
=============================================================================
