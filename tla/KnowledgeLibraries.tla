-------------------------- MODULE KnowledgeLibraries --------------------------
(***************************************************************************)
(* The knowledge libraries of type text_media_v1 as directories and        *)
(* catalog rows: the requests that create, delete, rename and edit one, the*)
(* tasks that switch a library to a changed copy of itself, import or copy *)
(* libraries, their rollback, the runtimes that searches load meanwhile,   *)
(* and crashes.                                                            *)
(*                                                                         *)
(* A directory is absent, hollow (an empty database that opening a missing *)
(* one leaves behind) or the content of a library.  A rename of a directory*)
(* and a row of the catalog cannot change together, and neither can two    *)
(* directories; a step is one of these, and anything else that is awaited  *)
(* may fall between two steps.                                             *)
(*                                                                         *)
(* An operator that no action uses is a faulty variant of the definition   *)
(* after it, kept to show which property would notice that fault.          *)
(***************************************************************************)
EXTENDS Naturals, FiniteSets

CONSTANTS
  MaxId,      \* library ids
  MaxBorn,    \* bound on the libraries ever made
  Clients,    \* requests that may be under way at once
  Worlds,     \* what a behaviour is about: kinds of requests and of tasks, ids to begin
              \* with, and a bound on failures, pauses and crashes
  Absent,     \* no directory
  Hollow      \* a directory with an empty database

Ids    == 1..MaxId
Births == 1..MaxBorn
Switch == {"mutation", "removal", "rebuild"}

ASSUME KnowledgeAssumption ==
  /\ MaxId \in Nat \ {0} /\ MaxBorn \in Nat /\ MaxBorn >= MaxId
  /\ \A w \in Worlds :
       /\ w.requests \subseteq {"create", "delete", "rename", "edit"}
       /\ w.tasks \subseteq Switch \cup {"import", "copy"}
       /\ w.first \subseteq Ids /\ w.begun \in Nat /\ w.faults \in Nat

\* A library: who it is, and what became of it ("owner" is the marker of an import).
Contents == [of : Births, has : SUBSET {"task", "edit", "owner"}]
ASSUME AbsentAssumption == Absent \notin Contents /\ Hollow \notin Contents /\ Absent # Hollow
Places   == Contents \cup {Absent, Hollow}

VARIABLES
  world,     \* the element of Worlds this behaviour is about
  live,      \* directory of each id
  trash,     \* libraries whose directory was moved to the trash or quarantined
  catalog,   \* registered ids
  resident,  \* runtime of each id: none, here, or stale when its directory was moved away
  up,        \* the service runs
  job,       \* the task: kind, ids, step, and what its row and its state.json say
  work,      \* its workspace
  req,       \* the request of each client
  born,      \* libraries made so far
  kept,      \* history: libraries acknowledged and not asked to be deleted
  spoiled,   \* history: <<kind of request, kind of task or of another request>> that were
             \* under way over one id, a crash, a rename whose undoing failed, and
             \* <<"search", "hollow">>: a task took an empty directory for the library it
             \* put there
  spent      \* requests and tasks begun, and failures, pauses and crashes, so far

vars == <<world, live, trash, catalog, resident, up, job, work, req, born, kept, spoiled, spent>>
disk == <<live, trash, catalog>>

NoJob  == [kind |-> "none", ids |-> {}, state |-> "", at |-> "", todo |-> {}, phase |-> "",
           to |-> 0, base |-> {}, end |-> ""]
NoWork == [stage |-> Absent, previous |-> Absent, failed |-> Absent,
           prepared |-> [l \in Ids |-> Absent], moved |-> {}]
NoReq  == [op |-> "", id |-> 0, to |-> 0, at |-> ""]

Full(l) == live[l] \notin {Absent, Hollow}
New(n)  == [of |-> n, has |-> {}]
Least(S) == CHOOSE l \in S : \A m \in S : l <= m

Meet(ops, kind) == spoiled' = spoiled \cup {<<op, kind>> : op \in ops}

Begun == spent.begun < world.begun /\ spent' = [spent EXCEPT !.begun = @ + 1]
Fault == spent.faults < world.faults /\ spent' = [spent EXCEPT !.faults = @ + 1]

-----------------------------------------------------------------------------
(* Runtimes.  Opening the database of a missing directory makes it, and     *)
(* loading then fails for want of metadata; a resident runtime is returned  *)
(* as it is.                                                                *)

Works(l) == resident[l] # "none" \/ Full(l)

Touch(S) ==
  /\ live' = [l \in Ids |-> IF l \in S /\ resident[l] = "none" /\ live[l] = Absent
                            THEN Hollow ELSE live[l]]
  /\ resident' = [l \in Ids |-> IF l \in S /\ resident[l] = "none" /\ Full(l)
                                THEN "here" ELSE resident[l]]

\* The directory of l is moved or removed: a runtime that has it open goes with it.
Leave(l) == resident' = [resident EXCEPT ![l] = IF @ = "here" THEN "stale" ELSE @]
Unload(l) == resident' = [resident EXCEPT ![l] = "none"]

\* A search or a page of a registered library.
Visit(l) ==
  /\ up /\ l \in catalog /\ resident[l] = "none"
  /\ Touch({l})
  /\ UNCHANGED <<world, trash, catalog, up, job, work, req, born, kept, spoiled, spent>>

\* The sweeper.
Evict(l) ==
  /\ up /\ resident[l] # "none" /\ Unload(l)
  /\ UNCHANGED <<world, disk, up, job, work, req, born, kept, spoiled, spent>>

-----------------------------------------------------------------------------
(* Requests.  A guard is looked at once, before the first await.            *)

Busy(l)    == job.kind \in Switch \cup {"copy"} /\ l \in job.ids
At(c, op, s) == req[c].op = op /\ req[c].at = s
Next2(c, s) == req' = [req EXCEPT ![c].at = s]
Ends(c)    == req' = [req EXCEPT ![c] = NoReq]
Begins(c, op, l, m, s) == req' = [req EXCEPT ![c] = [op |-> op, id |-> l, to |-> m, at |-> s]]

\* Kinds of the requests under way over ids of S.
Met(S) == {req[c].op : c \in {d \in Clients : {req[d].id, req[d].to} \cap S # {}}}

\* The same, and the kind of the task if it is about one of them.
Beside(S) == Met(S) \cup IF S \cap (job.ids \cup {job.to}) # {} THEN {job.kind} ELSE {}

\* create and rename do not ask what the tasks are about to make, and no request asks
\* for another one.
Ask(c, op, l, m) ==
  /\ up /\ req[c] = NoReq /\ op \in world.requests /\ Begun
  /\ CASE op = "create" -> live[l] = Absent /\ m = l /\ Begins(c, op, l, m, "register")
       [] op = "delete" -> l \in catalog /\ ~Busy(l) /\ m = l /\ Begins(c, op, l, m, "unload")
       [] op = "rename" -> /\ l \in catalog /\ ~Busy(l) /\ live[l] # Absent
                           /\ m \notin catalog /\ live[m] = Absent
                           /\ Begins(c, op, l, m, "unload")
       [] op = "edit"   -> l \in catalog /\ ~Busy(l) /\ m = l /\ Begins(c, op, l, m, "write")
  /\ kept' = IF op = "delete" /\ Full(l) THEN kept \ {live[l].of} ELSE kept
  /\ spoiled' = spoiled \cup ({op} \X Beside({l, m}))
  /\ UNCHANGED <<world, disk, resident, up, job, work, born>>

\* create_library: the catalog first, then the directory, its metadata, its runtime.
Register(c) ==
  /\ At(c, "create", "register")
  /\ IF req[c].id \in catalog THEN Ends(c) /\ UNCHANGED catalog
     ELSE catalog' = catalog \cup {req[c].id} /\ Next2(c, "open")
  /\ UNCHANGED <<world, live, trash, resident, up, job, work, born, kept, spoiled, spent>>

Open(c) ==
  /\ At(c, "create", "open")
  /\ live' = [live EXCEPT ![req[c].id] = IF @ = Absent THEN Hollow ELSE @]
  /\ Next2(c, "fill")
  /\ UNCHANGED <<world, trash, catalog, resident, up, job, work, born, kept, spoiled, spent>>

\* A row of metadata that is there already is a conflict.
Fill(c) ==
  /\ At(c, "create", "fill") /\ born < MaxBorn
  /\ IF live[req[c].id] = Hollow
     THEN /\ live' = [live EXCEPT ![req[c].id] = New(born + 1)] /\ born' = born + 1
          /\ Next2(c, "load")
     ELSE Next2(c, "unregister") /\ UNCHANGED <<live, born>>
  /\ UNCHANGED <<world, trash, catalog, resident, up, job, work, kept, spoiled, spent>>

Load(c) ==
  /\ At(c, "create", "load")
  /\ Touch({req[c].id})
  /\ IF Works(req[c].id)
     THEN Ends(c) /\ kept' = IF Full(req[c].id) THEN kept \cup {live[req[c].id].of} ELSE kept
     ELSE Next2(c, "unregister") /\ UNCHANGED kept
  /\ UNCHANGED <<world, trash, catalog, up, job, work, born, spoiled, spent>>

\* Any await of create_library fails.
CreateFault(c) ==
  /\ req[c].op = "create" /\ req[c].at \in {"open", "fill", "load"}
  /\ Fault /\ Next2(c, "unregister")
  /\ UNCHANGED <<world, disk, resident, up, job, work, born, kept, spoiled>>

Unregister(c) ==
  /\ At(c, "create", "unregister")
  /\ catalog' = catalog \ {req[c].id} /\ Next2(c, "erase")
  /\ UNCHANGED <<world, live, trash, resident, up, job, work, born, kept, spoiled, spent>>

Erase(c) ==
  /\ At(c, "create", "erase")
  /\ live' = [live EXCEPT ![req[c].id] = Absent] /\ Leave(req[c].id) /\ Ends(c)
  /\ UNCHANGED <<world, trash, catalog, up, job, work, born, kept, spoiled, spent>>

\* delete_library and the renaming of update_library release the runtime first.
Released(c) ==
  /\ req[c].op \in {"delete", "rename"} /\ req[c].at = "unload"
  /\ Unload(req[c].id) /\ Next2(c, "move")
  /\ UNCHANGED <<world, disk, up, job, work, born, kept, spoiled, spent>>

ToTrash(c) ==
  /\ At(c, "delete", "move")
  /\ LET l == req[c].id
     IN IF live[l] = Absent THEN Ends(c) /\ UNCHANGED <<live, trash, resident>>
        ELSE /\ trash' = IF Full(l) THEN trash \cup {live[l].of} ELSE trash
             /\ live' = [live EXCEPT ![l] = Absent] /\ Leave(l) /\ Next2(c, "drop")
  /\ UNCHANGED <<world, catalog, up, job, work, born, kept, spoiled, spent>>

Drop(c) ==
  /\ At(c, "delete", "drop")
  /\ catalog' = catalog \ {req[c].id} /\ Ends(c)
  /\ UNCHANGED <<world, live, trash, resident, up, job, work, born, kept, spoiled, spent>>

\* update_library with another id: the directory, then the catalog.
Rename(c) ==
  /\ At(c, "rename", "move")
  /\ LET l == req[c].id  m == req[c].to
     IN IF live[l] = Absent \/ live[m] # Absent
        THEN Ends(c) /\ UNCHANGED <<live, resident>>
        ELSE /\ live' = [live EXCEPT ![m] = live[l], ![l] = Absent]
             /\ Leave(l) /\ Next2(c, "name")
  /\ UNCHANGED <<world, trash, catalog, up, job, work, born, kept, spoiled, spent>>

Name(c) ==
  /\ At(c, "rename", "name")
  /\ LET l == req[c].id  m == req[c].to
     IN IF l \in catalog /\ m \notin catalog
        THEN catalog' = (catalog \ {l}) \cup {m} /\ Ends(c)
        ELSE Next2(c, "back") /\ UNCHANGED catalog
  /\ UNCHANGED <<world, live, trash, resident, up, job, work, born, kept, spoiled, spent>>

NameFault(c) ==
  /\ At(c, "rename", "name") /\ Fault /\ Next2(c, "back")
  /\ UNCHANGED <<world, disk, resident, up, job, work, born, kept, spoiled>>

NameBackNothing(c) ==
  /\ At(c, "rename", "back") /\ Ends(c)
  /\ UNCHANGED <<world, disk, resident, up, job, work, born, kept, spoiled, spent>>

NameBack(c) ==
  /\ At(c, "rename", "back")
  /\ LET l == req[c].id  m == req[c].to
     IN IF live[m] = Absent \/ live[l] # Absent THEN UNCHANGED <<live, resident>>
        ELSE live' = [live EXCEPT ![l] = live[m], ![m] = Absent] /\ Leave(m)
  /\ Meet(IF live[req[c].id] = Hollow THEN {"search"} ELSE {}, "rename")
  /\ Ends(c)
  /\ UNCHANGED <<world, trash, catalog, up, job, work, born, kept, spent>>

\* The undoing opens the moved directory first, which may fail as well.
NameBackFault(c) ==
  /\ At(c, "rename", "back") /\ Fault /\ Meet({"fault"}, "rename") /\ Ends(c)
  /\ UNCHANGED <<world, disk, resident, up, job, work, born, kept>>

\* update_library in place: a stale runtime writes into a directory nobody reads, or
\* through a connection it opens anew.
Write(c) ==
  /\ At(c, "edit", "write")
  /\ LET l == req[c].id
     IN \/ /\ resident[l] # "none" \/ ~Full(l)
           /\ resident[l] # "here" /\ Touch({l})
        \/ /\ Full(l)
           /\ live' = [live EXCEPT ![l].has = @ \cup {"edit"}]
           /\ resident' = [resident EXCEPT ![l] = IF @ = "none" THEN "here" ELSE @]
  /\ Ends(c)
  /\ UNCHANGED <<world, trash, catalog, up, job, work, born, kept, spoiled, spent>>

-----------------------------------------------------------------------------
(* The task.  One at a time has the worker, and a parked one keeps it.      *)

Id         == Least(job.ids)
On(kinds, s) == job.kind \in kinds /\ job.state = "run" /\ job.at = s
Goto(s)    == job' = [job EXCEPT !.at = s]
Raise      == job' = [job EXCEPT !.state = "back", !.at = "unload", !.todo = job.ids]
\* The task puts the previous library back itself before it raises.
Restore    == job' = [job EXCEPT !.state = "inner", !.at = "unload"]
\* A rollback that fails waits for help; where the task tried, the rollback is next.
Fail       == IF job.state = "inner" THEN Raise ELSE job' = [job EXCEPT !.state = "parked"]
Complete   == job' = [NoJob EXCEPT !.end = "completed"] /\ work' = NoWork
UndoneDirty == job' = [NoJob EXCEPT !.end = "undone"] /\ UNCHANGED work
Undone     == job' = [NoJob EXCEPT !.end = "undone"] /\ work' = NoWork

Submit(kind, ids) ==
  /\ up /\ job.kind = "none" /\ kind \in world.tasks /\ Begun
  /\ IF kind = "import" THEN ids # {} ELSE \E l \in catalog : ids = {l}
  /\ job' = [NoJob EXCEPT !.kind = kind, !.ids = ids, !.state = "run", !.at = "begin",
               !.base = [dirs |-> live, names |-> catalog]]
  /\ Meet(Met(ids), kind)
  /\ UNCHANGED <<world, disk, resident, up, work, req, born, kept>>

\* The shape of the directories after both renames.
Switched == work.previous # Absent /\ live[Id] # Absent /\ work.stage = Absent
Taken    == Meet(IF Switched /\ live[Id] = Hollow THEN {"search"} ELSE {}, "hollow")

\* _run_mutation, _run_index_rebuild: a task begins, or goes on where state.json says.
Begin ==
  /\ On(Switch, "begin")
  /\ CASE job.kind = "rebuild" -> Goto("target")
       [] job.kind # "rebuild" /\ Switched -> Goto("seal")
       [] job.kind = "mutation" /\ ~Switched -> Goto("bind")
       [] job.kind = "removal" /\ ~Switched ->
            IF job.phase = "ready" THEN Goto("unload") ELSE Goto("cut")
  /\ Taken /\ UNCHANGED <<world, disk, resident, up, work, req, born, kept, spent>>

\* The provider of a rebuild: the one that was asked for, or the one bound now.
Target ==
  /\ On({"rebuild"}, "target")
  /\ LET next == IF job.phase = "ready" \/ Switched THEN "recheck" ELSE "cut"
     IN \/ Goto(next) /\ UNCHANGED <<live, resident>>
        \/ Touch({Id}) /\ IF Works(Id) THEN Goto(next) ELSE Raise
  /\ UNCHANGED <<world, trash, catalog, up, work, req, born, kept, spoiled, spent>>

\* The provider a mutation needs is read from the live directory.
Bind ==
  /\ On({"mutation"}, "bind")
  /\ live' = [live EXCEPT ![Id] = IF @ = Absent THEN Hollow ELSE @]
  /\ IF ~Full(Id) THEN Raise ELSE IF job.phase = "ready" THEN Goto("recheck") ELSE Goto("cut")
  /\ UNCHANGED <<world, trash, catalog, resident, up, work, req, born, kept, spoiled, spent>>

\* _copy_library_snapshot.
Cut ==
  /\ On(Switch, "cut")
  /\ IF ~Full(Id) THEN Raise /\ UNCHANGED work
     ELSE /\ work' = [work EXCEPT !.stage = live[Id]]
          /\ job' = [job EXCEPT !.phase = "cut", !.at = "apply"]
  /\ UNCHANGED <<world, disk, resident, up, req, born, kept, spoiled, spent>>

\* The operation changes the copy; state.json says so when all of it is done.
Apply ==
  /\ On(Switch, "apply")
  /\ work' = [work EXCEPT !.stage.has = @ \cup {"task"}]
  /\ job' = [job EXCEPT !.phase = "ready",
               !.at = IF job.kind = "removal" THEN "unload" ELSE "recheck"]
  /\ UNCHANGED <<world, disk, resident, up, req, born, kept, spoiled, spent>>

\* The provider is still the same (otherwise: JobFault).
Recheck ==
  /\ On(Switch, "recheck") /\ Goto("unload")
  /\ UNCHANGED <<world, disk, resident, up, work, req, born, kept, spoiled, spent>>

\* _activate_stage.
Release ==
  /\ On(Switch, "unload")
  /\ IF Switched THEN Goto("seal") /\ UNCHANGED resident
     ELSE Unload(Id) /\ Goto("out")
  /\ Taken /\ UNCHANGED <<world, disk, up, work, req, born, kept, spent>>

MoveOut ==
  /\ On(Switch, "out")
  /\ CASE work.previous # Absent -> Goto("in") /\ UNCHANGED <<live, resident, work>>
       [] work.previous = Absent /\ live[Id] = Absent -> Raise /\ UNCHANGED <<live, resident, work>>
       [] work.previous = Absent /\ live[Id] # Absent ->
            /\ work' = [work EXCEPT !.previous = live[Id]]
            /\ live' = [live EXCEPT ![Id] = Absent] /\ Leave(Id) /\ Goto("in")
  /\ UNCHANGED <<world, trash, catalog, up, req, born, kept, spoiled, spent>>

MoveIn ==
  /\ On(Switch, "in")
  /\ IF (work.stage = Absent) = (live[Id] = Absent)
     THEN Raise /\ UNCHANGED <<live, work>>
     ELSE /\ live' = [live EXCEPT ![Id] = IF work.stage = Absent THEN @ ELSE work.stage]
          /\ work' = [work EXCEPT !.stage = Absent] /\ Goto("note")
  /\ UNCHANGED <<world, trash, catalog, resident, up, req, born, kept, spoiled, spent>>

Note ==
  /\ On(Switch, "note") /\ job' = [job EXCEPT !.phase = "swapped", !.at = "check"]
  /\ UNCHANGED <<world, disk, resident, up, work, req, born, kept, spoiled, spent>>

\* The new library is loaded and validated.
Check ==
  /\ On(Switch, "check")
  /\ Touch({Id}) /\ IF Works(Id) THEN Goto("seal") ELSE Restore
  /\ UNCHANGED <<world, trash, catalog, up, work, req, born, kept, spoiled, spent>>

\* A rebuild asks the runtime whether it has the new provider; a stale one has the old.
Seal ==
  /\ On(Switch, "seal")
  /\ IF job.kind = "rebuild"
     THEN /\ Touch({Id}) /\ UNCHANGED work
          /\ \/ ~Works(Id) /\ Raise
             \/ Works(Id) /\ Goto("end")
             \/ resident[Id] = "stale" /\ Restore
     ELSE Goto("end") /\ UNCHANGED <<live, resident, work>>
  /\ UNCHANGED <<world, trash, catalog, up, req, born, kept, spoiled, spent>>

\* The directories this import put in place, and the directories without its marker.
Owned(l) == Full(l) /\ "owner" \in live[l].has
Plain == [l \in Ids |-> IF l \in job.ids /\ Owned(l)
                        THEN [live[l] EXCEPT !.has = @ \ {"owner"}] ELSE live[l]]

\* The job is completed, and _finalize_completed removes the workspace; a marker that is
\* left names a job that is over.
Finish ==
  /\ On(Switch \cup {"import"}, "end") /\ Complete /\ live' = Plain
  /\ kept' = IF job.kind = "import" THEN kept \cup {live[l].of : l \in {m \in job.ids : Full(m)}}
             ELSE kept
  /\ UNCHANGED <<world, trash, catalog, resident, up, req, born, spoiled, spent>>

-----------------------------------------------------------------------------
(* The import of one package or of several, all or none.                    *)

ImportBegin ==
  /\ On({"import"}, "begin")
  /\ job' = [job EXCEPT !.todo = job.ids,
       !.at = CASE job.phase = "installed" -> "answer"
                [] job.phase \in {"ready", "moving"} -> "move"
                [] OTHER -> "prepare"]
  /\ UNCHANGED <<world, disk, resident, up, work, req, born, kept, spoiled, spent>>

\* Every package is unpacked in the workspace and marked as this task's.
Prepare ==
  /\ On({"import"}, "prepare") /\ born + Cardinality(job.ids) <= MaxBorn
  /\ IF \E l \in job.ids : l \in catalog \/ live[l] # Absent
     THEN Raise /\ UNCHANGED <<work, born>>
     ELSE /\ work' = [work EXCEPT !.prepared = [l \in Ids |->
                IF l \in job.ids
                THEN [of |-> born + Cardinality({m \in job.ids : m <= l}), has |-> {"owner"}]
                ELSE Absent]]
          /\ born' = born + Cardinality(job.ids)
          /\ job' = [job EXCEPT !.phase = "ready", !.at = "move"]
  /\ UNCHANGED <<world, disk, resident, up, req, kept, spoiled, spent>>

\* A target that is there must be this task's own.
Move ==
  /\ On({"import"}, "move") /\ job.todo # {}
  /\ LET l == Least(job.todo)
     IN CASE Owned(l) -> Goto("moved") /\ UNCHANGED <<live, work>>
          [] live[l] = Absent /\ work.prepared[l] # Absent ->
               /\ live' = [live EXCEPT ![l] = work.prepared[l]]
               /\ work' = [work EXCEPT !.prepared[l] = Absent] /\ Goto("moved")
          [] OTHER -> Raise /\ UNCHANGED <<live, work>>
  /\ UNCHANGED <<world, trash, catalog, resident, up, req, born, kept, spoiled, spent>>

Moved ==
  /\ On({"import"}, "moved")
  /\ work' = [work EXCEPT !.moved = @ \cup {Least(job.todo)}]
  /\ job' = [job EXCEPT !.phase = "moving", !.todo = @ \ {Least(job.todo)}, !.at = "move"]
  /\ UNCHANGED <<world, disk, resident, up, req, born, kept, spoiled, spent>>

\* Once all are in place, one transaction registers them.
Enroll ==
  /\ On({"import"}, "move") /\ job.todo = {}
  /\ IF job.ids \cap catalog # {} /\ ~(job.ids \subseteq catalog)
     THEN Raise /\ UNCHANGED catalog
     ELSE /\ catalog' = catalog \cup job.ids
          /\ job' = [job EXCEPT !.phase = "installed", !.at = "show"]
  /\ UNCHANGED <<world, live, trash, resident, up, work, req, born, kept, spoiled, spent>>

Show ==
  /\ On({"import"}, "show") \/ On({"import"}, "answer")
  /\ Touch(job.ids)
  /\ IF \A l \in job.ids : Works(l)
     THEN Goto(IF job.at = "show" THEN "unmark" ELSE "end") ELSE Raise
  /\ UNCHANGED <<world, trash, catalog, up, work, req, born, kept, spoiled, spent>>

Unmark ==
  /\ On({"import"}, "unmark")
  /\ live' = Plain /\ Goto("end")
  /\ UNCHANGED <<world, trash, catalog, resident, up, work, req, born, kept, spoiled, spent>>

-----------------------------------------------------------------------------
(* The copy of a library: a short task, without a workspace and a rollback. *)

CopyBegin ==
  /\ On({"copy"}, "begin") /\ born < MaxBorn
  /\ Touch({Id})
  /\ IF Works(Id)
     THEN \E m \in Ids \ catalog :
            /\ live[m] = Absent
            /\ work' = [work EXCEPT !.prepared[m] = New(born + 1)] /\ born' = born + 1
            /\ job' = [job EXCEPT !.to = m, !.at = "register"] /\ Meet(Met({m}), "copy")
     ELSE Undone /\ UNCHANGED <<born, spoiled>>
  /\ UNCHANGED <<world, trash, catalog, up, req, kept, spent>>

CopyRegister ==
  /\ On({"copy"}, "register")
  /\ IF job.to \in catalog THEN Undone /\ UNCHANGED catalog
     ELSE catalog' = catalog \cup {job.to} /\ Goto("place") /\ UNCHANGED work
  /\ UNCHANGED <<world, live, trash, resident, up, req, born, kept, spoiled, spent>>

CopyPlace ==
  /\ On({"copy"}, "place")
  /\ IF live[job.to] = Absent
     THEN /\ live' = [live EXCEPT ![job.to] = work.prepared[job.to]]
          /\ Goto("show") /\ UNCHANGED catalog
     ELSE catalog' = catalog \ {job.to} /\ Goto("erase") /\ UNCHANGED live
  /\ UNCHANGED <<world, trash, resident, up, work, req, born, kept, spoiled, spent>>

\* The finally clause of install_tmkb.
CopyErase ==
  /\ On({"copy"}, "erase")
  /\ IF job.to \in catalog THEN UNCHANGED <<live, resident>>
     ELSE live' = [live EXCEPT ![job.to] = Absent] /\ Leave(job.to)
  /\ Undone
  /\ UNCHANGED <<world, trash, catalog, up, req, born, kept, spoiled, spent>>

CopyShow ==
  /\ On({"copy"}, "show")
  /\ Touch({job.to})
  /\ IF Works(job.to)
     THEN Complete /\ kept' = IF Full(job.to) THEN kept \cup {live[job.to].of} ELSE kept
     ELSE Undone /\ UNCHANGED kept
  /\ UNCHANGED <<world, trash, catalog, up, req, born, spoiled, spent>>

-----------------------------------------------------------------------------
(* Rollback, pause, resume, stop.                                           *)

Back(kinds, s) == job.kind \in kinds /\ job.state \in {"inner", "back"} /\ job.at = s

\* _restore_previous.
BackUnload ==
  /\ Back(Switch, "unload") /\ Unload(Id)
  /\ IF work.previous = Absent THEN Goto("tidy") ELSE Goto("away")
  /\ UNCHANGED <<world, disk, up, work, req, born, kept, spoiled, spent>>

BackAway ==
  /\ Back(Switch, "away")
  /\ work' = [work EXCEPT !.failed = live[Id]]
  /\ live' = [live EXCEPT ![Id] = Absent] /\ Leave(Id) /\ Goto("return")
  /\ UNCHANGED <<world, trash, catalog, up, req, born, kept, spoiled, spent>>

\* A rename onto a directory that is not empty fails, and the task waits for help.
BackReturn ==
  /\ Back(Switch, "return")
  /\ IF live[Id] # Absent THEN Fail /\ UNCHANGED <<live, work>>
     ELSE /\ live' = [live EXCEPT ![Id] = work.previous]
          /\ work' = [work EXCEPT !.previous = Absent] /\ Goto("tidy")
  /\ UNCHANGED <<world, trash, catalog, resident, up, req, born, kept, spoiled, spent>>

BackTidy ==
  /\ Back(Switch, "tidy")
  /\ IF live[Id] = Absent THEN UNCHANGED <<live, resident>> ELSE Touch({Id})
  /\ IF job.state = "back" /\ (live[Id] = Absent \/ Works(Id)) THEN Undone
     ELSE /\ IF live[Id] = Absent \/ Works(Id)
             THEN job' = [job EXCEPT !.state = "back", !.at = "unload", !.phase = "rolled_back"]
             ELSE Fail
          /\ work' = [work EXCEPT !.stage = Absent, !.failed = Absent]
  /\ UNCHANGED <<world, trash, catalog, up, req, born, kept, spoiled, spent>>

\* _rollback_import, one target after the other.
MineMoved(l) == l \in work.moved
Mine(l) == l \in work.moved \/ Owned(l)

Disown ==
  /\ Back({"import"}, "unload")
  /\ LET mine == {l \in job.todo : Mine(l)}
     IN IF mine = {} THEN Undone /\ UNCHANGED <<catalog, resident>>
        ELSE /\ Unload(Least(mine)) /\ catalog' = catalog \ {Least(mine)}
             /\ job' = [job EXCEPT !.to = Least(mine), !.at = "remove"]
             /\ UNCHANGED work
  /\ UNCHANGED <<world, live, trash, up, req, born, kept, spoiled, spent>>

Remove ==
  /\ Back({"import"}, "remove")
  /\ live' = [live EXCEPT ![job.to] = Absent] /\ Leave(job.to)
  /\ job' = [job EXCEPT !.todo = @ \ {job.to}, !.at = "unload"]
  /\ UNCHANGED <<world, trash, catalog, up, work, req, born, kept, spoiled, spent>>

\* Any await of the task fails, or a stop is heeded: it is rolled back, except a copy.
JobFault ==
  /\ job.state = "run" /\ Fault
  /\ CASE job.kind # "copy" -> /\ IF job.at = "check" THEN Restore ELSE Raise
                              /\ UNCHANGED <<catalog, work>>
       [] job.kind = "copy" /\ job.at = "place" ->
            catalog' = catalog \ {job.to} /\ Goto("erase") /\ UNCHANGED work
       [] job.kind = "copy" /\ job.at # "place" -> Undone /\ UNCHANGED catalog
  /\ UNCHANGED <<world, live, trash, resident, up, req, born, kept, spoiled>>

\* Any await of the rollback fails; the removal of a directory ignores its errors.
RollbackFault ==
  /\ job.state \in {"inner", "back"} /\ job.at # "remove" /\ Fault /\ Fail
  /\ UNCHANGED <<world, disk, resident, up, work, req, born, kept, spoiled>>

\* A control point between batches, targets or packages.
Pause ==
  /\ On(Switch \cup {"import"}, job.at) /\ job.at \in {"apply", "prepare", "move", "end"} /\ Fault
  /\ job' = [job EXCEPT !.state = "parked"]
  /\ UNCHANGED <<world, disk, resident, up, work, req, born, kept, spoiled>>

Resume ==
  /\ up /\ job.state = "parked"
  /\ job' = [job EXCEPT !.state = "run", !.at = "begin"]
  /\ UNCHANGED <<world, disk, resident, up, work, req, born, kept, spoiled, spent>>

Stop ==
  /\ up /\ job.state = "parked" /\ Raise
  /\ UNCHANGED <<world, disk, resident, up, work, req, born, kept, spoiled, spent>>

-----------------------------------------------------------------------------
(* Crash and restart.                                                       *)

Crash ==
  /\ up /\ Fault /\ up' = FALSE
  /\ resident' = [l \in Ids |-> "none"] /\ req' = [c \in Clients |-> NoReq]
  /\ IF job.kind = "copy" THEN Undone
     ELSE /\ job' = IF job.kind = "none" THEN job ELSE [job EXCEPT !.state = "parked"]
          /\ UNCHANGED work
  /\ Meet({"crash"}, "") /\ UNCHANGED <<world, disk, born, kept>>

\* initialize: a directory that is not registered is quarantined, and a registered
\* one is opened, which raises where it is hollow.
RestartErases ==
  /\ ~up
  /\ live' = [l \in Ids |-> IF l \in catalog THEN live[l] ELSE Absent]
  /\ up' = (\A l \in catalog : live[l] # Hollow)
  /\ UNCHANGED <<world, trash, catalog, resident, job, work, req, born, kept, spoiled, spent>>

Restart ==
  /\ ~up
  /\ trash' = trash \cup {live[l].of : l \in {m \in Ids \ catalog : Full(m)}}
  /\ live' = [l \in Ids |-> IF l \in catalog THEN live[l] ELSE Absent]
  /\ up' = (\A l \in catalog : live[l] # Hollow)
  /\ UNCHANGED <<world, catalog, resident, job, work, req, born, kept, spoiled, spent>>

-----------------------------------------------------------------------------
Init ==
  /\ world \in Worlds
  /\ live = [l \in Ids |-> IF l \in world.first THEN New(l) ELSE Absent]
  /\ trash = {} /\ catalog = world.first
  /\ resident = [l \in Ids |-> "none"] /\ up = TRUE
  /\ job = NoJob /\ work = NoWork
  /\ req = [c \in Clients |-> NoReq]
  /\ born = MaxId /\ kept = world.first /\ spoiled = {} /\ spent = [begun |-> 0, faults |-> 0]

Requests == \E c \in Clients :
  \/ \E op \in world.requests, l, m \in Ids : Ask(c, op, l, m)
  \/ Register(c) \/ Open(c) \/ Fill(c) \/ Load(c) \/ CreateFault(c) \/ Unregister(c) \/ Erase(c)
  \/ Released(c) \/ ToTrash(c) \/ Drop(c)
  \/ Rename(c) \/ Name(c) \/ NameFault(c) \/ NameBack(c) \/ NameBackFault(c)
  \/ Write(c)

Switching == Begin \/ Target \/ Bind \/ Cut \/ Apply \/ Recheck \/ Release \/ MoveOut \/ MoveIn
             \/ Note \/ Check \/ Seal \/ Finish
Importing == ImportBegin \/ Prepare \/ Move \/ Moved \/ Enroll \/ Show \/ Unmark
Copying   == CopyBegin \/ CopyRegister \/ CopyPlace \/ CopyErase \/ CopyShow
Undoing   == BackUnload \/ BackAway \/ BackReturn \/ BackTidy \/ Disown \/ Remove

Next ==
  \/ \E l \in Ids : Visit(l) \/ Evict(l)
  \/ Requests
  \/ \E kind \in Switch \cup {"import", "copy"}, ids \in SUBSET Ids : Submit(kind, ids)
  \/ Switching \/ Importing \/ Copying \/ Undoing
  \/ JobFault \/ RollbackFault \/ Pause \/ Resume \/ Stop
  \/ Crash \/ Restart

Spec == Init /\ [][Next]_vars

-----------------------------------------------------------------------------
\* Directories, catalog, runtimes and workspaces stay what their types say, only a task that
\* has not ended keeps a workspace, and nobody acknowledges a library that was never made.
TypeOK ==
  /\ live \in [Ids -> Places] /\ trash \subseteq Births /\ catalog \subseteq Ids
  /\ resident \in [Ids -> {"none", "here", "stale"}]
  /\ {work.stage, work.previous, work.failed} \subseteq Places
  /\ \A l \in Ids : work.prepared[l] \in Contents \cup {Absent}
  /\ job.kind = "none" => work = NoWork
  /\ born \in Births /\ kept \subseteq 1..born
  /\ spent \in [begun : 0..world.begun, faults : 0..world.faults]

\* Behaviours in which no request shared an id with a task, and no search got in the way
\* of a rename of directories.
Apart == spoiled \subseteq {<<"crash", "">>}
Library(d) == IF d = Hollow THEN Absent ELSE d

\* A task that switches a library ends with all of it changed or with none of it: what
\* was there when the task was submitted, edits included, is there with the change of the
\* task when it completed and without it when it was rolled back, whatever failed,
\* crashed, was paused, resumed, stopped or searched between the two renames.
WholeSwitch ==
  [][job.kind \in Switch /\ job'.kind = "none" /\ Apart =>
       Library(live'[Id]) = IF job'.end = "completed"
                            THEN [job.base.dirs[Id] EXCEPT !.has = @ \cup {"task"}]
                            ELSE Library(job.base.dirs[Id])]_vars

\* An import puts all its packages in the catalog and in place, or leaves the directories
\* and the catalog as they were, also where it failed between the two or was taken up
\* again after a crash.
AllOrNone ==
  [][job.kind = "import" /\ job'.kind = "none" /\ Apart =>
       IF job'.end = "completed"
       THEN job.ids \subseteq catalog' /\ \A l \in job.ids : Full(l)'
       ELSE \A l \in job.ids : /\ Library(live'[l]) = Library(job.base.dirs[l])
                               /\ l \in catalog' <=> l \in job.base.names]_vars

\* Both: no task, once over, has done half of its work.
AllOrNothing == WholeSwitch /\ AllOrNone

\* A library that was acknowledged and that nobody asked to delete is live, in the trash,
\* in quarantine or the previous one of a task: no request, task, rollback or start erases it.
There == {live[l].of : l \in {m \in Ids : Full(m)}} \cup trash
         \cup IF work.previous \in {Absent, Hollow} THEN {} ELSE {work.previous.of}
NeverErased == kept \subseteq There

\* The same, except where two that must not meet met (see the README): edits beside any
\* task, deletions beside a copy and crashes are all right.
Harmless == ({"edit"} \X (Switch \cup {"copy"}))
            \cup {<<"delete", "copy">>, <<"crash", "">>, <<"fault", "rename">>}
NothingLost == spoiled \subseteq Harmless => NeverErased

\* When nothing is under way the catalog and the directories tell the same, whichever
\* await of a request, a task or a rollback failed: the registered ids are those with a library.
Quiet == up /\ job.kind = "none" /\ \A c \in Clients : req[c] = NoReq
CatalogMatches == Quiet /\ spoiled = {} => catalog = {l \in Ids : Full(l)}

=============================================================================
