---------------------------- MODULE MCMemoryIndex ----------------------------
(* Instances of MemoryIndex for TLC. *)
EXTENDS MemoryIndex

CONSTANTS r1, r2   \* two records of a manifest

TwoRecords == <<r1, r2>>

\* What a behaviour is about: requests, tasks, ids at first and in all, records, faults.
World(kinds, tasks, f, l, r, n) ==
  [kinds |-> kinds, tasks |-> tasks, first |-> f, last |-> l, records |-> r, faults |-> n,
   old |-> FALSE]
Older(w) == [w EXCEPT !.old = TRUE]

AllKinds == {"create", "edit", "archive", "restore", "delete"}

\* Every request alone; requests beside a rebuild and its rollback; requests beside an
\* import, which rolls back where it fails; the two tasks in turn, with one fault over
\* two records and with two over one, so that a rollback fails as well.
StoreWorlds ==
  { Older(World(AllKinds, {}, 1, 2, 0, 1)),
    World({"create"}, {"rebuild"}, 1, 2, 0, 1),
    World({"edit"}, {"rebuild"}, 1, 2, 0, 1),
    World({"archive", "restore"}, {"rebuild"}, 1, 1, 0, 1),
    World({"delete"}, {"rebuild"}, 2, 2, 0, 1),
    World({"edit"}, {"import"}, 1, 3, 1, 0),
    World({"delete"}, {"import"}, 1, 2, 1, 0),
    World({}, {"rebuild", "import"}, 1, 3, 2, 1),
    World({}, {"rebuild", "import"}, 1, 2, 1, 2) }
=============================================================================
