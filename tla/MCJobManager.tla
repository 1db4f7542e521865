---------------------------- MODULE MCJobManager ----------------------------
(* Instances of JobManager for TLC. *)
EXTENDS JobManager, TLC

CONSTANTS j1, j2, j3, c1, c2, d1, rebuild, import, copy

\* One resumable job.
OneDatabaseOf == (j1 :> d1)
OneKindOf     == (j1 :> rebuild)

\* Two resumable jobs of different kinds on one database.
TwoDatabaseOf == (j1 :> d1) @@ (j2 :> d1)
TwoKindOf     == (j1 :> rebuild) @@ (j2 :> import)

\* A resumable job, a long job that is not, and a short one, on one database.
LaneDatabaseOf == (j1 :> d1) @@ (j2 :> d1) @@ (j3 :> d1)
LaneKindOf     == (j1 :> rebuild) @@ (j2 :> import) @@ (j3 :> copy)

\* Two jobs of one kind on one database.
SameKindOf     == (j1 :> rebuild) @@ (j2 :> rebuild)
=============================================================================
