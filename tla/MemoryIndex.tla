----------------------------- MODULE MemoryIndex -----------------------------
(***************************************************************************)
(* A memory store of type livingmemory_v8: its database, the vector index  *)
(* kept beside it, the requests that change both, the shadow rebuild, the  *)
(* resumable rebuild and import tasks with their rollback, and crashes.    *)
(*                                                                         *)
(* A memory is its id: the text of an id never changes, an edit writes a   *)
(* new id.  Graph and full-text entries are the set of ids that have them. *)
(* The database and the index cannot be changed in one transaction.  Each  *)
(* request runs a list of steps and, when one fails, a list that undoes    *)
(* what was done; a step is one transaction or one swap of the index.      *)
(*                                                                         *)
(* An operator that no action uses is a faulty variant of the definition   *)
(* after it, kept to show which property would notice that fault.          *)
(***************************************************************************)
EXTENDS Naturals, FiniteSets, Sequences

CONSTANTS
  MaxId,      \* bound on the ids the database hands out
  Records,    \* the records of a transfer manifest, in order
  Batch,      \* records between two checkpoints of the import
  Worlds,     \* what a behaviour is about: kinds of requests, tasks, memories at first
              \* and in all, records of the manifest, a bound on failures, cancellations,
              \* crashes, unloads, stops and pauses, and whether the database is older
  Nothing     \* no record, no snapshot, no checkpoint

Ids       == 1..MaxId
RecordSet == {Records[k] : k \in 1..Len(Records)}
Indexes   == [docs : SUBSET Ids, graph : SUBSET Ids]
Databases == [rows : SUBSET Ids, archived : SUBSET Ids, derived : SUBSET Ids,
              next : 1..MaxId + 1]
Snapshots == [index : Indexes, journal : {Nothing} \cup Indexes,
              db : {Nothing} \cup Databases, cut : SUBSET Ids]

\* A manifest that skips duplicates has none of its own: the commit of an import
\* leaves out every record whose key it has seen.
ASSUME MemoryAssumption ==
  /\ MaxId \in Nat \ {0} /\ Batch \in Nat \ {0}
  /\ \A w \in Worlds :
       /\ w.kinds \subseteq {"create", "edit", "archive", "restore", "delete"}
       /\ w.tasks \subseteq {"rebuild", "import"} /\ w.last \in 1..MaxId /\ w.first \in 1..w.last
       /\ w.records \in 0..Len(Records) /\ w.faults \in Nat /\ w.old \in BOOLEAN
  /\ Records \in Seq(RecordSet)
  /\ \A j, k \in 1..Len(Records) : Records[j] = Records[k] => j = k
  /\ Nothing \notin RecordSet \cup Snapshots

VARIABLES
  world,    \* the element of Worlds this behaviour is about
  db,       \* livingmemory.db: rows, the archived ones, those with derivatives, next id
  index,    \* the generation in memory, or on disk without a runtime: ids with document
            \* and graph vectors
  behind,   \* the generation CURRENT names where a rollback set it under a loaded
            \* runtime, else Nothing: it names index
  journal,  \* activation journal: the candidate in phase database_replaced, the only
            \* phase a restart acts on, or Nothing
  shadow,   \* work directories of the startup check and of the task: database, index, fingerprint
  saved,    \* prestate of the task, what a stop restores: the index when the task began, the
            \* database a little later, and which edits that copy falls among
  task,     \* the resumable task that has not ended: none, rebuild or import
  undoing,  \* where its rollback is: off, or the step it is before
  cursor,   \* transfer-state.json: records done
  up,       \* the runtime is loaded
  todo,     \* of the request under _mutation_lock and of the import: steps left
  call,     \* and what it holds on to
  rebuild,  \* _continuous_rebuild: who runs it, its stage, the derivatives it may put back
  root,     \* history: the id an edited memory began with
  record,   \* history: the record a row was imported from
  acked,    \* history: memories whose creation was acknowledged and no deletion asked
  cut,      \* history: memories whose edit a crash or a failed rollback cut off
  torn,     \* history: what may have left index and database apart
  faults    \* failures, cancellations, crashes, unloads, stops and pauses so far

data == <<db, index, behind>>
disk == <<world, journal, shadow, saved, task, undoing, cursor>>
work == <<todo, call, rebuild>>
past == <<root, record, acked, cut>>
vars == <<world, db, index, behind, journal, shadow, saved, task, undoing, cursor, up, todo,
          call, rebuild, root, record, acked, cut, torn, faults>>

Active(d)   == d.rows \ d.archived
Graph(d)    == d.derived \cap Active(d)
Expected(d) == [docs |-> Active(d), graph |-> Graph(d)]
Consistent  == index = Expected(db) /\ db.derived = Active(db)
Empty       == [docs |-> {}, graph |-> {}]
Current     == IF behind = Nothing THEN index ELSE behind

-----------------------------------------------------------------------------
(* Storage: each is one transaction. *)

Stored(d, i, shelved) ==
  [d EXCEPT !.rows = @ \cup {i}, !.next = i + 1,
            !.archived = IF shelved THEN @ \cup {i} ELSE @,
            !.derived = IF shelved THEN @ ELSE @ \cup {i}]

DroppedHalf(d, ids) == [d EXCEPT !.rows = @ \ ids, !.derived = @ \ ids]
Dropped(d, ids) ==
  [d EXCEPT !.rows = @ \ ids, !.archived = @ \ ids, !.derived = @ \ ids]

Shelved(d, ids)   == [d EXCEPT !.archived = @ \cup (ids \cap d.rows), !.derived = @ \ ids]
Unshelved(d, ids) == [d EXCEPT !.archived = @ \ ids, !.derived = @ \cup ids]

(* IndexManager: a request for a change is the id sets before and after it. *)

Upsert(d, ids) ==
  [before |-> [docs |-> Active(d) \ ids, graph |-> Graph(d) \ ids], after |-> Expected(d)]

Removal(d, ids) ==
  [before |-> [docs |-> Active(d) \cup ids, graph |-> Graph(d) \cup ids],
   after  |-> [docs |-> Active(d) \ ids, graph |-> Graph(d) \ ids]]

-----------------------------------------------------------------------------
(* Requests: PersonalityRAGService.create_memory, update_memory, ...  and   *)
(* one batch of the import, which runs beside them.                         *)

User == "user"
Import == "import"
\* keys: contents known when the import began; left: records of its batch to do.
Idle == [kind |-> "", ids |-> {}, new |-> {}, want |-> Nothing, undo |-> FALSE,
         keys |-> {}, left |-> <<>>]

Plan(kind) ==
  CASE kind = "create"  -> <<"store", "ask_new", "swap", "mark">>
    [] kind = "edit"    -> <<"store", "ask_new", "swap", "mark", "ask_out", "swap", "drop">>
    [] kind = "archive" -> <<"ask_out", "swap", "shelve">>
    [] kind = "restore" -> <<"unshelve", "ask_in", "swap">>
    [] kind = "delete"  -> <<"ask_out", "swap", "drop">>
    [] kind = "import"  -> <<"store", "ask_new", "swap", "mark", "save">>

\* What the except clause of a request does after step s of it failed.
Undo(kind, s) ==
  CASE kind = "edit" -> <<"back", "repair">>
    [] kind = "create" /\ s # "store" -> <<"drop_new">>
    [] kind = "import" /\ s \in {"ask_new", "swap"} -> <<"drop_new", "raise">>
    [] kind = "import" /\ s \in {"mark", "save"} -> <<"raise">>
    [] kind \in {"archive", "delete"} /\ s \in {"shelve", "drop"} -> <<"ask_in", "swap">>
    [] kind = "restore" /\ s \in {"ask_in", "swap"} -> <<"shelve">>
    [] OTHER -> <<>>

Barrier == {"swap", "journal", "activate", "seal"}
Locked  == todo[User] # <<>> \/ rebuild.stage \in Barrier

\* A step of the import falls beside a request or a rebuild.
Beside == IF Locked \/ rebuild.stage # "off" THEN torn \cup {"import"} ELSE torn

\* The request of p goes on with steps ss, which end it when there are none.
Continue(p, ss, c) ==
  /\ todo' = [todo EXCEPT ![p] = ss]
  /\ call' = [call EXCEPT ![p] = IF ss = <<>> THEN Idle ELSE c]

Request(kind, ids) ==
  /\ up /\ ~Locked
  /\ CASE kind = "create"  -> ids = {} /\ db.next <= world.last
       [] kind = "edit"    -> /\ \E i \in db.rows : ids = {i}
                              /\ db.next <= world.last
       [] kind = "archive" -> ids \subseteq Active(db) /\ ids # {}
       [] kind = "restore" -> \E i \in db.archived : ids = {i}
       [] kind = "delete"  -> ids \subseteq db.rows /\ ids # {}
  /\ Continue(User, Plan(kind), [Idle EXCEPT !.kind = kind, !.ids = ids])
  /\ acked' = IF kind = "delete" THEN acked \ {root[i] : i \in ids} ELSE acked
  /\ torn' = IF todo[Import] = <<>> THEN torn ELSE torn \cup {"import"}
  /\ UNCHANGED <<data, disk, up, rebuild, root, record, cut, faults>>

\* The effect of a step on database and index.
BackNever(c)   == UNCHANGED data
Back(c) == /\ db' = IF c.ids \cap db.rows # {} THEN Dropped(db, c.new) ELSE db
           /\ UNCHANGED <<index, behind>>

\* A generation is written: the one in memory and the one CURRENT names.
Write(g) == index' = g /\ behind' = Nothing

Repair == Write(Expected(db)) /\ UNCHANGED db

Effect(s, c) ==
  CASE s \in {"ask_new", "ask_in", "ask_out", "mark"} -> UNCHANGED data
    [] s = "drop"     -> db' = Dropped(db, c.ids) /\ UNCHANGED <<index, behind>>
    [] s = "drop_new" -> db' = Dropped(db, c.new) /\ UNCHANGED <<index, behind>>
    [] s = "shelve"   -> db' = Shelved(db, c.ids) /\ UNCHANGED <<index, behind>>
    [] s = "unshelve" -> db' = Unshelved(db, c.ids) /\ UNCHANGED <<index, behind>>
    [] s = "back"     -> Back(c)
    [] s = "repair"   -> Repair
    [] s = "swap"     -> index = c.want.before /\ Write(c.want.after) /\ UNCHANGED db

Asked(s, c) ==
  CASE s = "ask_new" -> [c EXCEPT !.want = Upsert(db, c.new)]
    [] s = "ask_in"  -> [c EXCEPT !.want = Upsert(db, c.ids)]
    [] s = "ask_out" -> [c EXCEPT !.want = Removal(db, c.ids)]
    [] OTHER -> [c EXCEPT !.want = Nothing]

Acknowledged(p, s, c) ==
  IF Tail(todo[p]) = <<>> /\ ~c.undo /\ c.kind \in {"create", "import"}
  THEN acked \cup {root[i] : i \in c.new \cap db.rows} ELSE acked

\* The rows a step is about are gone: deleted by an import that undoes its batch.
Missed(p) == /\ Head(todo[p]) \in {"shelve", "unshelve", "drop"}
             /\ call[p].kind # "delete" /\ ~call[p].undo
             /\ ~(call[p].ids \subseteq db.rows)

\* Every step but the insertion of rows and the checkpoint of the import.
Step(p) ==
  /\ todo[p] # <<>> /\ Head(todo[p]) \notin {"store", "save", "raise"} /\ ~Missed(p)
  /\ LET s == Head(todo[p])  c == call[p]
     IN /\ Effect(s, c)
        /\ Continue(p, Tail(todo[p]), Asked(s, c))
        /\ acked' = Acknowledged(p, s, c)
  /\ torn' = IF p = Import THEN Beside ELSE torn
  /\ UNCHANGED <<disk, up, rebuild, root, record, cut, faults>>

\* The user's row: the edited one stays archived when it was.
Store ==
  /\ todo[User] # <<>> /\ Head(todo[User]) = "store" /\ db.next <= world.last
  /\ LET c == call[User]  i == db.next
     IN /\ db' = Stored(db, i, c.ids \cap db.archived # {})
        /\ root' = [root EXCEPT ![i] = IF c.ids = {} THEN i ELSE root[CHOOSE o \in c.ids : TRUE]]
        /\ record' = [record EXCEPT ![i] = Nothing]
        /\ Continue(User, Tail(todo[User]), [c EXCEPT !.new = {i}])
  /\ UNCHANGED <<index, behind, disk, up, rebuild, acked, cut, torn, faults>>

Tears(why) == torn' = IF Consistent THEN torn ELSE torn \cup {why}

Edited == IF call[User].kind = "edit" THEN {root[i] : i \in call[User].ids} ELSE {}

Raised(p) == IF p = Import THEN <<"raise">> ELSE <<>>

\* A step fails: the request goes on with its except clause, or raises.  Index and
\* database stay apart when the undoing fails too, and after mark_memory_indexed:
\* create_memory then deletes the row and leaves its vectors.
Fails(p, s, c) ==
  /\ Continue(p, IF c.undo THEN Raised(p) ELSE Undo(c.kind, s), [c EXCEPT !.undo = TRUE])
  /\ IF c.undo THEN Tears("fault")
     ELSE torn' = IF s = "mark" /\ c.kind = "create" THEN torn \cup {"fault"} ELSE torn
  /\ cut' = IF c.undo THEN cut \cup Edited ELSE cut
  /\ UNCHANGED <<index, behind, disk, up, rebuild, root, record, acked>>

\* apply_delta refuses a change that does not start from the index there is, and a
\* request fails when its rows are gone.
Refuse(p) ==
  /\ todo[p] # <<>>
  /\ \/ Head(todo[p]) = "swap" /\ index # call[p].want.before /\ UNCHANGED db
     \/ Missed(p) /\ db' = IF Head(todo[p]) = "shelve" THEN Shelved(db, call[p].ids) ELSE db
  /\ Fails(p, Head(todo[p]), call[p])
  /\ UNCHANGED faults

\* The provider, the disk or the database fails.
Fault(p) ==
  /\ todo[p] # <<>> /\ faults < world.faults
  /\ p = Import => Head(todo[p]) \notin {"store", "raise"}
  /\ Fails(p, Head(todo[p]), call[p])
  /\ UNCHANGED db /\ faults' = faults + 1

\* CancelledError passes every except clause but those of update_memory, which
\* finishes the step under way and rolls back whatever else is cancelled.
Cancel ==
  /\ todo[User] # <<>> /\ faults < world.faults
  /\ LET c == call[User]
     IN IF c.kind = "edit"
        THEN ~c.undo /\ Fails(User, Head(todo[User]), c) /\ UNCHANGED db
        ELSE /\ Continue(User, <<>>, Idle)
             /\ Tears("fault")
             /\ UNCHANGED <<data, disk, up, rebuild, past>>
  /\ faults' = faults + 1

-----------------------------------------------------------------------------
(* The import of a transfer manifest: it writes without _mutation_lock, so  *)
(* its steps may fall among those of a request or of the startup check.     *)

Doomed    == IF call[User].kind = "delete" THEN call[User].ids ELSE {}
TaskIdle  == /\ undoing = "off" /\ todo[Import] = <<>>
             /\ (rebuild.stage = "off" \/ rebuild.kind = "check")
Prestate  == [index |-> Current, journal |-> journal, db |-> Nothing, cut |-> {}]
UpTo(n) == IF n < world.records THEN n ELSE world.records
NextBatch(from) == SubSeq(Records, from + 1, UpTo(from + Batch))

\* A task of the memory store: one at a time.
TaskBegin(kind) ==
  /\ task = "none" /\ kind \in world.tasks
  /\ task' = kind /\ saved' = Prestate /\ cursor' = 0
  /\ UNCHANGED <<world, data, journal, shadow, undoing, up, work, past, torn, faults>>

\* _prepare_prestate notes the generation when a task begins, _ensure_database_snapshots
\* copies the database later, and neither takes the lock.
Snapshot ==
  /\ task # "none" /\ undoing = "off" /\ saved.db = Nothing
  /\ saved' = [saved EXCEPT !.db = db, !.cut = Edited]
  /\ UNCHANGED <<world, data, journal, shadow, task, undoing, cursor, up, work, past, torn, faults>>

\* The import begins, or goes on at its checkpoint: what is there is read again.
Known == {record[i] : i \in db.rows} \ {Nothing}

ImportBegin ==
  /\ up /\ TaskIdle /\ task = "import" /\ saved.db # Nothing
  /\ Continue(Import, Plan("import"),
              [Idle EXCEPT !.kind = "import", !.keys = Known, !.left = NextBatch(cursor)])
  /\ UNCHANGED <<data, disk, up, rebuild, past, torn, faults>>

\* One record: skipped as a duplicate, inserted, or noted as an error.
ImportRecord(r) ==
  \/ r \in call[Import].keys /\ UNCHANGED <<db, root, record, faults>>
     /\ call' = [call EXCEPT ![Import].left = Tail(@)]
  \/ /\ r \notin call[Import].keys /\ db.next <= world.last
     /\ db' = Stored(db, db.next, FALSE)
     /\ root' = [root EXCEPT ![db.next] = db.next]
     /\ record' = [record EXCEPT ![db.next] = r]
     /\ call' = [call EXCEPT ![Import].left = Tail(@), ![Import].new = @ \cup {db.next}]
     /\ UNCHANGED faults
  \/ /\ r \notin call[Import].keys /\ faults < world.faults /\ faults' = faults + 1
     /\ call' = [call EXCEPT ![Import].left = Tail(@)]
     /\ UNCHANGED <<db, root, record>>

ImportStore ==
  /\ todo[Import] # <<>> /\ Head(todo[Import]) = "store"
  /\ LET c == call[Import]
     IN IF c.left # <<>>
        THEN ImportRecord(Head(c.left)) /\ UNCHANGED todo
        ELSE /\ Continue(Import, IF c.new = {} THEN <<"save">> ELSE Tail(todo[Import]), c)
             /\ UNCHANGED <<db, root, record, faults>>
  /\ torn' = Beside
  /\ UNCHANGED <<index, behind, disk, up, rebuild, acked, cut>>

\* The checkpoint; then the next batch, a pause at the control point, or the end.
ImportSave ==
  /\ todo[Import] # <<>> /\ Head(todo[Import]) = "save"
  /\ LET done == UpTo(cursor + Batch)  c == call[Import]
     IN \/ /\ done < world.records /\ cursor' = done
           /\ Continue(Import, Plan("import"),
                [Idle EXCEPT !.kind = "import", !.left = NextBatch(done),
                   !.keys = c.keys \cup {record[i] : i \in c.new}])
           /\ UNCHANGED <<task, saved, faults>>
        \/ /\ done < world.records /\ cursor' = done
           /\ faults < world.faults /\ faults' = faults + 1
           /\ Continue(Import, <<>>, Idle) /\ UNCHANGED <<task, saved>>
        \/ /\ done = world.records /\ cursor' = 0
           /\ Continue(Import, <<>>, Idle) /\ task' = "none" /\ saved' = Nothing
           /\ UNCHANGED faults
     /\ acked' = acked \cup {root[i] : i \in (c.new \cap db.rows) \ Doomed}
  /\ UNCHANGED <<world, data, journal, shadow, undoing, up, rebuild, root, record, cut, torn>>

\* The import raises: its job rolls back.
ImportRaise ==
  /\ todo[Import] = <<"raise">>
  /\ Continue(Import, <<>>, Idle) /\ undoing' = "unload"
  /\ UNCHANGED <<world, data, journal, shadow, saved, task, cursor, up, rebuild, past, torn, faults>>

-----------------------------------------------------------------------------
(* The shadow rebuild: a startup check or a task of its own.                *)

Off     == [kind |-> "check", stage |-> "off", derived |-> {}]
At(st)  == rebuild' = [rebuild EXCEPT !.stage = st]
Mine    == shadow[rebuild.kind]
Ends    == rebuild' = Off
NoWork(kind) == [shadow EXCEPT ![kind] = Nothing]

\* The task goes on, for the first time or resumed; it cancels the startup check, behind
\* its barrier too, where nothing is undone.
RebuildBegin ==
  /\ up /\ TaskIdle /\ task = "rebuild" /\ saved.db # Nothing
  /\ rebuild' = [kind |-> "task", stage |-> "copy", derived |-> {}]
  /\ shadow' = NoWork("check")
  /\ torn' = IF rebuild.stage = "off" THEN torn ELSE torn \cup {"fault"}
  /\ UNCHANGED <<world, data, journal, saved, task, undoing, cursor, up, todo, call, past, faults>>

\* _startup_index_check: a rebuild only where something differs.  It looks without the
\* lock, so what it finds beside a request may hold by chance.
DiffersByIds == index # Expected(db)
Differs == ~Consistent
Reason ==
  /\ rebuild.stage = "reason"
  /\ IF Differs THEN At("copy") ELSE Ends
  /\ torn' = IF todo[Import] # <<>> THEN torn \cup {"import"}
             ELSE IF Differs THEN torn
             ELSE IF todo[User] = <<>> THEN {} ELSE torn \cup {"check"}
  /\ UNCHANGED <<data, disk, up, todo, call, past, faults>>

\* The database is copied and graph and full text are derived again in the copy.
Copy ==
  /\ rebuild.stage = "copy" /\ (Mine # Nothing \/ ~Locked)
  /\ shadow' = [shadow EXCEPT ![rebuild.kind] =
       IF Mine # Nothing THEN Mine
       ELSE [db |-> [db EXCEPT !.derived = Active(db)], index |-> Empty, print |-> Nothing]]
  /\ At("build")
  /\ UNCHANGED <<world, data, journal, saved, task, undoing, cursor, up, todo, call, past, torn, faults>>

SourceChanged == Mine.print \notin {Nothing, Expected(Mine.db)}

\* All vectors, or those the checkpoint lacks; its fingerprint is the copy's.
Build ==
  /\ rebuild.stage = "build" /\ ~SourceChanged
  /\ shadow' = [shadow EXCEPT ![rebuild.kind].print = Expected(Mine.db),
                              ![rebuild.kind].index = Expected(Mine.db)]
  /\ At("replay")
  /\ UNCHANGED <<world, data, journal, saved, task, undoing, cursor, up, todo, call, past, torn, faults>>

\* JobInterrupted or a pause: the task keeps its work directory and waits.
Interrupt ==
  /\ rebuild.kind = "task" /\ rebuild.stage = "build"
  /\ faults < world.faults /\ faults' = faults + 1
  /\ Ends
  /\ UNCHANGED <<data, disk, up, todo, call, past, torn>>

\* _reconcile_shadow: what was written since the copy, once more under the lock.
Replayed ==
  LET d == [db EXCEPT !.derived = Active(db)]
  IN [shadow EXCEPT ![rebuild.kind].db = d, ![rebuild.kind].index = Expected(d)]

Replay ==
  /\ rebuild.stage = "replay"
  /\ shadow' = Replayed /\ At("wait")
  /\ UNCHANGED <<world, data, journal, saved, task, undoing, cursor, up, todo, call, past, torn, faults>>

CloseBarrierEarly ==
  /\ rebuild.stage = "wait" /\ ~Locked
  /\ rebuild' = [rebuild EXCEPT !.stage = "swap", !.derived = db.derived]
  /\ UNCHANGED <<data, disk, up, todo, call, past, torn, faults>>
CloseBarrier ==
  /\ rebuild.stage = "wait" /\ ~Locked
  /\ shadow' = Replayed
  /\ rebuild' = [rebuild EXCEPT !.stage = "swap", !.derived = db.derived]
  /\ UNCHANGED <<world, data, journal, saved, task, undoing, cursor, up, todo, call, past, torn, faults>>

SwapDerivatives ==
  /\ rebuild.stage = "swap"
  /\ db' = [db EXCEPT !.derived = Mine.db.derived]
  /\ At("journal")
  /\ UNCHANGED <<index, behind, disk, up, todo, call, past, torn, faults>>

Note ==
  /\ rebuild.stage = "journal"
  /\ journal' = Mine.index
  /\ At("activate")
  /\ UNCHANGED <<world, data, shadow, saved, task, undoing, cursor, up, todo, call, past, torn, faults>>

Activate ==
  /\ rebuild.stage = "activate"
  /\ Write(Mine.index) /\ At("seal")
  /\ UNCHANGED <<db, disk, up, todo, call, past, torn, faults>>

Done ==
  /\ rebuild.stage = "seal"
  /\ journal' = Nothing
  /\ shadow' = NoWork(rebuild.kind) /\ Ends
  /\ IF rebuild.kind = "task" THEN task' = "none" /\ saved' = Nothing
     ELSE UNCHANGED <<task, saved>>
  /\ torn' = IF todo[Import] = <<>> /\ Consistent THEN {} ELSE torn
  /\ UNCHANGED <<world, data, undoing, cursor, up, todo, call, past, faults>>

PutBack == IF rebuild.stage \in {"journal", "activate"}
           THEN db' = [db EXCEPT !.derived = rebuild.derived] ELSE UNCHANGED db

\* A stage raises: derivatives are put back once they were replaced.  The task rolls
\* back, except when the embedding service fails, which interrupts it.
RebuildFails ==
  /\ rebuild.stage \notin {"off", "seal"} /\ faults < world.faults /\ faults' = faults + 1
  /\ PutBack
  /\ journal' = IF rebuild.stage \in {"swap", "journal", "activate"}
                THEN Nothing ELSE journal
  /\ undoing' = IF rebuild.kind = "task" /\ rebuild.stage # "build" THEN "unload" ELSE undoing
  /\ Ends
  /\ shadow' = NoWork("check")
  /\ torn' = torn \cup {"fault"}
  /\ UNCHANGED <<world, index, behind, saved, task, cursor, up, todo, call, past>>

-----------------------------------------------------------------------------
(* Stop, unload, crash and restart.                                         *)

\* ResumableMemoryStoreTasks._rollback, in the steps between its awaits: a request may
\* load the runtime again before any of them, and a crash or a failure end it between two.
Stop ==
  /\ task # "none" /\ TaskIdle /\ undoing' = "unload"
  /\ faults < world.faults /\ faults' = faults + 1
  /\ UNCHANGED <<world, data, journal, shadow, saved, task, cursor, up, work, past, torn>>

\* unload_runtime waits for requests and cancels the startup check.
Unload ==
  /\ undoing = "unload" /\ todo[User] = <<>> /\ undoing' = "database"
  /\ up' = FALSE /\ rebuild' = Off /\ shadow' = NoWork("check")
  /\ index' = Current /\ behind' = Nothing
  /\ UNCHANGED <<world, db, journal, saved, task, cursor, todo, call, past, torn, faults>>

\* The copy of the database, if one was made, takes the place of its file.  Where a
\* request has loaded the runtime since the unload, what SQLite makes of an open file
\* that is replaced is not defined, and an edit under way may drop the only row there
\* is: nothing is said of what follows (Replaced).
RestoreDatabase ==
  /\ undoing = "database" /\ undoing' = "pointer"
  /\ IF saved.db = Nothing THEN UNCHANGED <<db, acked, cut, torn>>
     ELSE /\ db' = saved.db /\ cut' = cut \cup saved.cut
          /\ acked' = acked \cap {root[i] : i \in saved.db.rows}
          /\ torn' = IF up THEN torn \cup {"replaced"} ELSE torn
  /\ UNCHANGED <<world, index, behind, journal, shadow, saved, task, cursor, up, work, root,
                 record, faults>>

\* CURRENT names the earlier generation; those made since are deleted, with a journal
\* of theirs and the work of a check that is under way.
RestoreIndex ==
  /\ undoing = "pointer" /\ undoing' = "load"
  /\ IF up THEN behind' = saved.index /\ UNCHANGED index
     ELSE index' = saved.index /\ UNCHANGED behind
  /\ journal' = IF journal = saved.journal THEN journal ELSE Nothing
  /\ shadow' = NoWork("check")
  /\ IF rebuild.stage \in {"off", "reason", "seal"} THEN UNCHANGED <<db, rebuild, torn>>
     ELSE PutBack /\ Ends /\ torn' = torn \cup {"fault"}
  /\ UNCHANGED <<world, saved, task, cursor, up, todo, call, past, faults>>

\* get_runtime, which Restart is unless a request has loaded it, and the workspace goes.
RolledBack ==
  /\ undoing = "load" /\ up /\ undoing' = "off"
  /\ task' = "none" /\ saved' = Nothing /\ cursor' = 0 /\ shadow' = NoWork("task")
  /\ UNCHANGED <<world, data, journal, up, work, past, torn, faults>>

\* A step of it raises: the job is interrupted, to be resumed or stopped again.
RollbackFails ==
  /\ undoing # "off" /\ faults < world.faults /\ faults' = faults + 1
  /\ undoing' = "off"
  /\ UNCHANGED <<world, data, journal, shadow, saved, task, cursor, up, work, past, torn>>

Rollback == Stop \/ Unload \/ RestoreDatabase \/ RestoreIndex \/ RolledBack

\* Nothing that runs survives a crash, a rollback included; an unload waits for requests
\* and tasks, cancels the startup check and leaves a rollback as it is.
Down ==
  /\ up /\ faults < world.faults /\ faults' = faults + 1
  /\ up' = FALSE
  /\ todo' = [p \in {User, Import} |-> <<>>] /\ call' = [p \in {User, Import} |-> Idle]
  /\ rebuild' = Off
  /\ shadow' = NoWork("check")
  /\ cut' = cut \cup Edited
  /\ index' = Current /\ behind' = Nothing
  /\ undoing' = "off" \/ (todo[User] = <<>> /\ UNCHANGED undoing)
  /\ UNCHANGED <<world, db, journal, saved, task, cursor, root, record, acked, torn>>

\* initialize(): an activation that was cut after the database is finished, and the
\* startup check begins.
Restart ==
  /\ ~up /\ up' = TRUE
  /\ index' = IF journal = Nothing THEN index ELSE journal
  /\ journal' = Nothing
  /\ rebuild' = [kind |-> "check", stage |-> "reason", derived |-> {}]
  /\ UNCHANGED <<world, db, behind, shadow, saved, task, undoing, cursor, todo, call, past, torn, faults>>

-----------------------------------------------------------------------------
\* The first memories of the world, all active; an older database may lack their
\* derivatives or an index.
Init ==
  /\ world \in Worlds
  /\ \E g \in {{}, 1..world.first} :
       db = [rows |-> 1..world.first, archived |-> {}, derived |-> g, next |-> world.first + 1]
  /\ index \in {Empty, Expected(db)} /\ behind = Nothing
  /\ Consistent \/ world.old
  /\ journal = Nothing
  /\ shadow = [k \in {"check", "task"} |-> Nothing]
  /\ saved = Nothing /\ task = "none" /\ undoing = "off" /\ cursor = 0
  /\ up = FALSE
  /\ todo = [p \in {User, Import} |-> <<>>] /\ call = [p \in {User, Import} |-> Idle]
  /\ rebuild = Off
  /\ root = [i \in Ids |-> i] /\ record = [i \in Ids |-> Nothing]
  /\ acked = 1..world.first /\ cut = {} /\ torn = {} /\ faults = 0

Requests == \E kind \in world.kinds, ids \in SUBSET Ids : Request(kind, ids)
Serve    == Step(User) \/ Store \/ Refuse(User)
Imports  == Step(Import) \/ Refuse(Import) \/ ImportStore \/ ImportSave \/ ImportRaise
Rebuilds == Reason \/ Copy \/ Build \/ Replay \/ CloseBarrier \/ SwapDerivatives \/ Note
            \/ Activate \/ Done
Breaks   == Fault(User) \/ Fault(Import) \/ Cancel \/ RebuildFails \/ RollbackFails \/ Down

Replaced == "replaced" \in torn

Steps == \/ Requests \/ Serve \/ Imports \/ Rebuilds \/ Breaks
         \/ (\E kind \in {"rebuild", "import"} : TaskBegin(kind))
         \/ Snapshot \/ ImportBegin \/ RebuildBegin \/ Interrupt \/ Rollback \/ Restart

Next == ~Replaced /\ Steps

Spec == Init /\ [][Next]_vars

\* Requests and stages go on; the barrier gets the lock among requests because
\* asyncio.Lock is fair.
FairSpec == Spec /\ WF_vars(Serve) /\ WF_vars(Imports) /\ WF_vars(Restart)
                 /\ SF_vars(Rebuilds)

-----------------------------------------------------------------------------
(* Properties.                                                              *)

\* Rows, archived ids and index stay what their types say, every row has an id
\* already handed out, and only a task that has not ended keeps a prestate.
TypeOK ==
  /\ db \in Databases /\ db.archived \subseteq db.rows /\ \A i \in db.rows : i < db.next
  /\ index \in Indexes /\ behind \in {Nothing} \cup Indexes /\ journal \in {Nothing} \cup Indexes
  /\ task \in {"none", "rebuild", "import"} /\ cursor \in 0..Len(Records)
  /\ (task = "none") = (saved = Nothing)
  /\ acked \subseteq Ids /\ faults \in 0..world.faults

Quiet == up /\ todo[User] = <<>> /\ todo[Import] = <<>> /\ rebuild.stage = "off"

\* When nothing runs, the generation in memory holds the vectors of just the active
\* rows and every active row has its graph and full-text entries: requests, their except
\* clauses, the shadow rebuild, the journal's recovery and a rollback, finished or cut
\* off between any two of its awaits, keep the two stores in step, unless a failed undo
\* or an import tore them or a rollback put back the database under a loaded runtime.
Settled == Quiet /\ torn = {} => Consistent

\* An acknowledged memory is there in exactly one copy, whatever edits, rebuilds,
\* rollbacks and crashes followed: update_memory writes the new row before it drops
\* the old one, and may leave both only where a crash or a failed undo cut it off.
Copies(r) == {i \in db.rows : root[i] = r}
OneCopy == ~Replaced => \A r \in acked :
             /\ Copies(r) # {}
             /\ (Cardinality(Copies(r)) = 1 \/ r \in cut \cup Edited)

\* No record of a manifest is stored twice: a resumed import counts on its checkpoint
\* and on the contents it reads again.
RecordOnce == ~Replaced => \A i, j \in db.rows :
                record[i] = record[j] /\ record[i] # Nothing => i = j

\* Both: what was acknowledged or imported is stored once.
StoredOnce == OneCopy /\ RecordOnce

\* Once no task is left, index and database agree again and again: the startup check
\* repairs what a crash or a failed activation left apart.
Converges == <>[](task = "none") => []<>(Consistent \/ torn # {})

=============================================================================
