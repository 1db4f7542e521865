------------------------ MODULE MCKnowledgeLibraries ------------------------
(* Instances of KnowledgeLibraries for TLC. *)
EXTENDS KnowledgeLibraries

CONSTANT c1   \* a client

\* Requests, tasks, registered ids at first, bounds on what begins and what fails.
World(requests, tasks, first, begun, faults) ==
  [requests |-> requests, tasks |-> tasks, first |-> first, begun |-> begun, faults |-> faults]

KeptWorlds ==
  { World({"delete", "edit"}, {"mutation", "removal", "rebuild"}, {1}, 3, 1),
    World({"create"}, {"mutation", "rebuild"}, {1}, 2, 2),
    World({"create", "delete"}, {"import"}, {}, 3, 1),
    World({"create", "rename"}, {"copy"}, {1}, 3, 1),
    World({"rename"}, {"mutation", "import"}, {1}, 3, 1),
    World({}, {"mutation", "removal", "rebuild"}, {1}, 1, 3),
    World({}, {"import"}, {}, 1, 3) }

\* A task, and nobody but searches beside it.
SearchedWorlds == { World({}, {"mutation"}, {1}, 1, 1) }
=============================================================================
