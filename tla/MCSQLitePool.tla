---------------------------- MODULE MCSQLitePool ----------------------------
(* Instances of SQLitePool for TLC. *)
EXTENDS SQLitePool

CONSTANTS c1, c2, c3, p1, k1, k2, k3
=============================================================================
