------------------------ MODULE MCAdapterConnections ------------------------
(* A memory library and two ids of knowledge bases, one of them free. *)
EXTENDS AdapterConnections, TLC

CONSTANTS m, k, n, i1, i2, h1, h2, a1

Symmetry == Permutations({i1, i2}) \union Permutations({h1, h2})
=============================================================================
