-------------------------- MODULE JobManager_proofs --------------------------
(***************************************************************************)
(* Theorems of JobManager for any jobs, databases, clients and switches.   *)
(*                                                                         *)
(* TypeOK is inductive by itself: an update writes one of the statuses and *)
(* reasons of jobs.py over a row that is well-formed (UpdateType).         *)
(* Exclusion needs one thing more, HoldsLock: a runner that works on a     *)
(* database is the one its execution lock names.  Every step either keeps  *)
(* the holders or lets one runner take a free lock (Dichotomy), and both   *)
(* the invariant and the refinement follow from that.                      *)
(*                                                                         *)
(* OutcomesTrue: what a terminal row says of the database of its job is    *)
(* true.  A row travels: a caller reads it from memory or the table,       *)
(* _update puts it into both, and a write in flight, one that the shutdown *)
(* abandons or one that a crash cuts off may bring an old row back.  So    *)
(* the invariant is about every row under which a job is known (Seen):     *)
(*   Honest  each of them says the truth about the database;               *)
(*   Ends    none of them says anything while the operation may still run; *)
(*   Ended   an operation that reached its end has done its work.          *)
(* It needs the books of the manager: who has which job, where an update   *)
(* may be under way, and that a job is queued once and never while it is   *)
(* served or on its way into the queue.                                    *)
(*                                                                         *)
(* Almost every step is Calm: one process goes on with its job, no row     *)
(* claims what none claimed before, and only the job that is served has    *)
(* its database touched.  The others are the three announcements of the    *)
(* worker, a job's way into the queue and to the worker, the end of the    *)
(* process and its restart.                                                *)
(*                                                                         *)
(* The last part is about order: which of the rows under which a job is    *)
(* known will have the last word.  Nobody overtakes the runner of a job    *)
(* where Orderly holds; then Manager is an invariant.  Of a service that   *)
(* is open, or that shuts down gently (Ready), it says:                    *)
(*   RowsOf   writes in flight are lined up, a terminal row is behind all  *)
(*            others, nothing follows one that the table has, and the      *)
(*            terminal rows of one job agree;                              *)
(*   InPlace  the status of the job a runner has suits where it is;        *)
(*   Waiting  what nobody has begun is queued still;                       *)
(*   Missing  an operation that a runner will not find was cancelled.      *)
(* From it follow QuietWhilePaused, that an active job that left the queue *)
(* is Attended, which is ServedOnce, and OneRow, which is deduplication.   *)
(* The same steps are Firm and Lasting: what is terminal in memory or in   *)
(* the table stays so.  With Sealed, the lock under which a completion is  *)
(* decided, they give the action properties.                               *)
(*                                                                         *)
(* At the end the short lane, over a shutdown: of a job there one update   *)
(* at most is under way, memory says what it says (OneWriter), and a job   *)
(* that has not ended has its task or is being inserted (Tended).          *)
(***************************************************************************)
EXTENDS JobManager, FiniteSetTheorems, SequenceTheorems, TLAPS

-----------------------------------------------------------------------------
\* Types: rows and updates.

\* The job a resting process refers to is one of the jobs.
LEMMA AnyJobType == AnyJob \in Jobs
BY JobsAssumption DEF AnyJob

\* The row a caller reads, from the pending write or the table (get), is a row or none.
LEMMA RowType ==
  ASSUME TypeOK, NEW j \in Jobs
  PROVE  /\ Row(j) \in Rows \cup {NoRow}
         /\ Row(j).reason \in Reasons /\ Row(j).started \in BOOLEAN
         /\ Status(j) \in Active \cup Terminal \cup {"absent"}
         /\ Status(j) # "absent" => Row(j) \in Rows
         /\ Row(j).started => Row(j) \in Rows
<1>1. Row(j) \in Rows \cup {NoRow}
  BY DEF TypeOK, Row
<1>2. CASE Row(j) \in Rows
  BY <1>2 DEF Rows, Status
<1>3. CASE Row(j) = NoRow
  <2>1. NoRow.status = "absent" /\ NoRow.reason = "" /\ NoRow.started = FALSE
    BY DEF NoRow
  <2> QED BY <1>1, <1>3, <2>1 DEF Reasons, Status
<1> QED BY <1>1, <1>2, <1>3

RowsType == /\ mem \in [Jobs -> Rows \cup {NoRow}]
            /\ upd \in [Procs -> [stage : {"none", "capture", "write", "written", "lost"},
                                  row   : Rows \cup {NoRow}]]

\* _update leaves rows and pending writes well-formed, given a known status and reason.
LEMMA UpdateType ==
  ASSUME TypeOK, NEW p \in Procs, NEW j \in Jobs, NEW rs \in Reasons,
         NEW st \in Active \cup Terminal \cup {"absent"},
         st = "absent" => st = Status(j) /\ rs = Row(j).reason,
         Update(p, j, st, rs)
  PROVE  RowsType'
<1> DEFINE row == [status |-> st, reason |-> rs, started |-> Row(j).started \/ st = "running"]
<1>0. Row(j).started \in BOOLEAN /\ Row(j) \in Rows \cup {NoRow}
  BY RowType
<1>1. st # "absent" => row \in Rows
  BY <1>0 DEF Rows
<1>2. CASE /\ <<Status(j), Row(j).reason>> # <<st, rs>>
           /\ MayCapture(j, st)
           /\ mem' = [mem EXCEPT ![j] = [Row(j) EXCEPT !.started = row.started]]
           /\ upd' = [upd EXCEPT ![p] = [stage |-> "capture", row |-> row]]
  <2>1. Row(j) \in Rows /\ st # "absent"
    BY <1>2, RowType DEF MayCapture, Active, Terminal, Paused
  <2>2. [Row(j) EXCEPT !.started = row.started] \in Rows
    BY <2>1, <1>1 DEF Rows
  <2> QED BY <1>1, <1>2, <2>1, <2>2 DEF TypeOK, RowsType
<1>3. CASE /\ <<Status(j), Row(j).reason>> # <<st, rs>>
           /\ mem' = [mem EXCEPT ![j] = row]
           /\ Issue(p, j, row)
  BY <1>1, <1>3 DEF TypeOK, RowsType, Issue
<1>4. CASE /\ mem' = [mem EXCEPT ![j] = Row(j)]
           /\ \/ upd' = [upd EXCEPT ![p] = NoUpdate]
              \/ Issue(p, j, Row(j))
  <2>1. mem' \in [Jobs -> Rows \cup {NoRow}]
    BY <1>0, <1>4 DEF TypeOK
  <2>2. CASE upd' = [upd EXCEPT ![p] = NoUpdate]
    BY <2>1, <2>2 DEF TypeOK, RowsType, NoUpdate
  <2>3. CASE Issue(p, j, Row(j))
    BY <1>0, <2>1, <2>3 DEF TypeOK, RowsType, Issue
  <2> QED BY <1>4, <2>2, <2>3
<1> QED BY <1>2, <1>3, <1>4 DEF Update

\* The tail of _update only forgets the pending write.
LEMMA ReturnType ==
  ASSUME TypeOK, NEW p \in Procs, Return(p)
  PROVE  RowsType'
BY DEF Return, TypeOK, RowsType, NoUpdate

-----------------------------------------------------------------------------
\* Types.

\* The statuses and reasons the steps write.
LEMMA Constants ==
  /\ {"running", "pausing", "stopping", "paused", "interrupted"} \subseteq Active
  /\ Terminal = {"completed", "failed", "stopped", "cancelled"}
  /\ Reasons = {"", "manual", "shutdown", "resume_requested", "provider",
                "rollback_failed", "operation_failed", "operation_missing",
                "manager_error", "process_interrupted"}
BY DEF Active, Terminal, Reasons, Paused

PlaceType == /\ pc \in [Procs -> Labels]
             /\ on \in [Procs -> Jobs]

\* The finally of a runner puts it at rest and gives its locks back.
LEMMA LeaveType ==
  ASSUME TypeOK, NEW p \in Procs, Leave(p)
  PROVE  /\ PlaceType'
         /\ tlock' \in [Jobs -> Procs \cup {Free}]
         /\ xlock' \in [Databases -> Procs \cup {Free}]
<1>1. NextLabel(p) \in Labels
  BY DEF NextLabel, Labels, RunnerLabels
<1> QED BY <1>1, AnyJobType DEF Leave, GotoOn, Goto, TypeOK, PlaceType

\* A new job has a row, and it claims nothing.
LEMMA NewRowIs == /\ NewRow \in Rows /\ NewRow # NoRow
                  /\ NewRow.status = "queued" /\ NewRow.reason = "" /\ ~NewRow.started
BY DEF NewRow, NoRow, Rows, Active, Reasons

\* start and start_resumable leave the state well-formed.
LEMMA SubmitType ==
  ASSUME TypeOK, NEW c \in Clients, NEW j \in Jobs, Submit(c, j)
  PROVE  TypeOK'
<1>1. "enqueue" \in Labels
  BY DEF Labels, CallLabels
<1> QED BY <1>1, NewRowIs DEF Submit, GotoOn, Goto, TypeOK, Procs, rows, signals, life

\* Handing an inserted job to its runner leaves the state well-formed.
LEMMA EnqueueType ==
  ASSUME TypeOK, NEW c \in Clients, Enqueue(c)
  PROVE  TypeOK'
<1>1. {"idle", "lock"} \subseteq Labels
  BY DEF Labels, CallLabels, RunnerLabels
<1>2. queue' \in Seq(Jobs)
  <2>1. queue \in Seq(Jobs) /\ on[c] \in Jobs
    BY DEF TypeOK, Procs
  <2>2. queue' \in {queue, Append(queue, on[c])}
    BY DEF Enqueue
  <2> QED BY <2>1, <2>2, AppendProperties
<1>3. c \in Procs /\ on[c] \in Jobs /\ on[c] \in Procs
  BY DEF TypeOK, Procs, Runners
<1>4. PlaceType'
  <2>1. CASE on[c] \in ShortLane
    <3>1. /\ pc' = [pc EXCEPT ![c] = "idle", ![on[c]] = "lock"]
          /\ on' = [on EXCEPT ![c] = AnyJob, ![on[c]] = on[c]]
      BY <2>1 DEF Enqueue
    <3> QED BY <1>1, <1>3, <3>1, AnyJobType DEF TypeOK, PlaceType
  <2>2. CASE on[c] \notin ShortLane
    BY <1>1, <1>3, <2>2, AnyJobType, ZenonT(40) DEF Enqueue, GotoOn, Goto, TypeOK, PlaceType
  <2> QED BY <2>1, <2>2
<1>5. /\ mem' = [mem EXCEPT ![on[c]] = NewRow]
      /\ startLock' = Free
      /\ UNCHANGED <<db, upd, signals, why, tlock, xlock, life, data>>
  BY DEF Enqueue
<1> QED BY <1>2, <1>3, <1>4, <1>5, NewRowIs DEF TypeOK, PlaceType, signals, life

\* So do the steps of the worker before a job, and those of the operation itself.
LEMMA OperationTypes ==
  ASSUME TypeOK, Take \/ EnterResumable \/ OperationStep
  PROVE  TypeOK'
<1> USE DEF RowsType, PlaceType, GotoOn, Goto, rows, signals, life, work, locks
<1>0. Worker \in Procs /\ on[Worker] \in Jobs
  BY DEF TypeOK, Procs, Runners
<1>1. {"lock", "loop", "run", "told", "point", "wait", "stopping", "ending", "finishing",
       "breaking", "unwinding", "completed", "finalizing", "pausing", "parked",
       "stranded", "get", "exit"} \subseteq Labels
  BY DEF Labels, RunnerLabels, HoldLabels, OperationLabels, ResumableLabels, SimpleLabels
<1>2. CASE Take
  <2>1. queue # <<>> /\ Head(queue) \in Jobs /\ Tail(queue) \in Seq(Jobs)
    <3>1. queue # <<>> /\ queue \in Seq(Jobs)
      BY <1>2 DEF Take, TypeOK
    <3> QED BY <3>1, HeadTailProperties
  <2>2. NextLabel(Worker) \in Labels
    BY <1>1 DEF NextLabel
  <2>3. PlaceType'
    BY <1>0, <1>1, <1>2, <2>1, <2>2 DEF Take, TypeOK
  <2>4. UNCHANGED <<rows, db, born, ops, signals, why, locks, life, data>>
    BY <1>2 DEF Take
  <2>5. queue' \in Seq(Jobs)
    BY <1>2, <2>1 DEF Take
  <2> QED BY <2>3, <2>4, <2>5 DEF TypeOK
<1>3. CASE EnterResumable
  BY <1>0, <1>1, <1>3 DEF EnterResumable, Lock, TypeOK
<1>4. CASE RunWrites
  BY <1>0, <1>4 DEF RunWrites, TypeOK
<1>5. CASE RunTells
  <2>1. RowsType'
    BY <1>0, <1>5, UpdateType, RowType, Constants DEF RunTells
  <2> QED BY <1>0, <1>1, <1>5, <2>1 DEF RunTells, TypeOK
<1>6. CASE Told
  <2>1. RowsType'
    BY <1>0, <1>6, ReturnType DEF Told
  <2> QED BY <1>0, <1>1, <1>6, <2>1 DEF Told, TypeOK
<1>7. CASE RunReports
  <2>1. RowsType'
    BY <1>0, <1>7, UpdateType, RowType, Constants, ZenonT(40) DEF RunReports
  <2> QED BY <1>0, <1>1, <1>7, <2>1 DEF RunReports, TypeOK
<1>8. CASE RunEnds
  <2>1. PlaceType'
    <3>1. PICK l \in {"finishing", "breaking", "unwinding"} : Goto(Worker, l)
      BY <1>8 DEF RunEnds
    <3> QED BY <1>0, <1>1, <1>8, <3>1 DEF RunEnds, TypeOK
  <2>2. data' \in [Jobs -> {"clean", "dirty", "done"}]
    BY <1>0, <1>8 DEF RunEnds, TypeOK
  <2>3. UNCHANGED <<rows, db, on, work, signals, why, locks, life>>
    BY <1>8 DEF RunEnds
  <2> QED BY <2>1, <2>2, <2>3 DEF TypeOK
<1> QED
  BY <1>2, <1>3, <1>4, <1>5, <1>6, <1>7, <1>8 DEF OperationStep

\* The labels and requests of _run_resumable.
LEMMA ResumableLabelTypes ==
  /\ {"get", "exit", "loop", "wait", "run", "told", "point", "stopping", "ending", "finishing",
      "breaking", "unwinding", "completed", "finalizing", "pausing", "parked",
      "stranded"} \subseteq Labels
  /\ Worker \in Procs /\ Worker \in Runners
BY DEF Labels, RunnerLabels, HoldLabels, OperationLabels, ResumableLabels, Procs, Runners

\* _perform_stop begins with a well-formed row.
LEMMA BeginStopType ==
  ASSUME TypeOK, NEW j \in Jobs, BeginStop(j), on' = on
  PROVE  RowsType' /\ PlaceType'
<1>1. RowsType'
  BY ResumableLabelTypes, UpdateType, Constants DEF BeginStop
<1> QED BY <1>1, ResumableLabelTypes DEF BeginStop, Goto, PlaceType, TypeOK

\* The first entry of _run_resumable into an operation leaves rows and requests well-formed.
LEMMA BeginType ==
  ASSUME TypeOK, NEW j \in Jobs, Begin(j), on' = on
  PROVE  /\ RowsType' /\ PlaceType'
         /\ request' \in [Jobs -> {"", "pause", "stop", "shutdown"}]
<1>1. CASE BeginStop(j) /\ UNCHANGED request
  BY <1>1, BeginStopType DEF TypeOK
<1>2. CASE /\ request' = [request EXCEPT ![j] = ""]
           /\ Update(Worker, j, "running", "")
           /\ Goto(Worker, "run")
  <2>1. RowsType'
    BY <1>2, ResumableLabelTypes, UpdateType, Constants
  <2> QED BY <1>2, <2>1, ResumableLabelTypes DEF Goto, PlaceType, TypeOK
<1>3. CASE /\ Update(Worker, j, "failed", "manager_error")
           /\ Goto(Worker, "ending")
           /\ UNCHANGED request
  <2>1. RowsType'
    BY <1>3, ResumableLabelTypes, UpdateType, Constants
  <2> QED BY <1>3, <2>1, ResumableLabelTypes DEF Goto, PlaceType, TypeOK
<1> QED BY <1>1, <1>2, <1>3 DEF Begin

\* Putting a job to rest writes a status that pauses and a known reason.
LEMMA ParkType ==
  ASSUME TypeOK, NEW l, NEW st \in {"paused", "interrupted"}, NEW rs \in Reasons,
         Park(l, st, rs)
  PROVE  TypeOK'
<1> USE DEF Goto, PlaceType, RowsType, work, signals, life
<1>0. on[Worker] \in Jobs
  BY ResumableLabelTypes DEF TypeOK
<1>1. CASE BeginStop(on[Worker]) /\ why' = "" /\ UNCHANGED tlock
  <2>1. RowsType' /\ PlaceType'
    BY <1>0, <1>1, BeginStopType DEF Park
  <2>2. UNCHANGED <<db, on, work, signals, xlock, startLock, life, data>>
    BY DEF Park
  <2> QED BY <1>1, <2>1, <2>2 DEF TypeOK
<1>2. CASE /\ tlock' = [tlock EXCEPT ![on[Worker]] = Worker]
           /\ Update(Worker, on[Worker], st, rs)
           /\ Goto(Worker, "parked")
           /\ UNCHANGED why
  <2>1. RowsType'
    BY <1>0, <1>2, ResumableLabelTypes, UpdateType, Constants
  <2>2. UNCHANGED <<db, on, work, signals, xlock, startLock, life, data>>
    BY DEF Park
  <2> QED BY <1>0, <1>2, <2>1, <2>2, ResumableLabelTypes DEF TypeOK
<1> QED BY <1>1, <1>2 DEF Park

\* Every other step of _run_resumable leaves the state well-formed.
LEMMA ResumableTypes ==
  ASSUME TypeOK, ResumableStep
  PROVE  TypeOK'
<1> USE ResumableLabelTypes
    DEF RowsType, PlaceType, GotoOn, Goto, rows, signals, life, work, locks
<1>0. on[Worker] \in Jobs
  BY DEF TypeOK
<1>1. CASE LoopHead
  <2>0. UNCHANGED <<db, work, event, why, startLock, life, data>>
    BY <1>1 DEF LoopHead
  <2>1. CASE Return(Worker) /\ Leave(Worker) /\ UNCHANGED request
    BY <1>0, <2>0, <2>1, ReturnType, LeaveType DEF TypeOK
  <2>2. CASE Return(Worker) /\ Goto(Worker, "wait") /\ UNCHANGED <<request, on, tlock, xlock>>
    <3>1. RowsType'
      BY <2>2, ReturnType
    <3> QED BY <1>0, <2>0, <2>2, <3>1 DEF TypeOK
  <2>3. CASE Begin(on[Worker]) /\ UNCHANGED <<on, tlock, xlock>>
    BY <1>0, <2>0, <2>3, BeginType DEF TypeOK
  <2> QED BY <1>1, <2>1, <2>2, <2>3 DEF LoopHead
<1>2. CASE WakeUp
  <2>1. /\ Begin(on[Worker])
        /\ event' = [event EXCEPT ![on[Worker]] = FALSE]
        /\ UNCHANGED <<db, on, work, why, locks, life, data>>
    BY <1>2 DEF WakeUp
  <2> QED BY <1>0, <2>1, BeginType DEF TypeOK
<1>3. CASE ControlPoint
  <2>0. UNCHANGED <<db, on, work, signals, locks, life, data>>
    BY <1>3 DEF ControlPoint
  <2>1. CASE BeginStop(on[Worker]) /\ UNCHANGED why
    BY <1>0, <2>0, <2>1, BeginStopType DEF TypeOK
  <2>2. CASE /\ why' \in {why, "pause", "shutdown"}
             /\ Goto(Worker, "pausing") \/ Goto(Worker, "run")
             /\ Return(Worker)
    <3>1. RowsType'
      BY <2>2, ReturnType
    <3>2. PlaceType'
      BY <2>0, <2>2, ZenonT(40) DEF TypeOK
    <3> QED BY <2>0, <2>2, <3>1, <3>2 DEF TypeOK
  <2> QED BY <1>3, <2>1, <2>2 DEF ControlPoint
<1>4. CASE Complete
  <2>0. UNCHANGED <<db, on, work, signals, xlock, startLock, life, data>>
    BY <1>4 DEF Complete
  <2>1. CASE BeginStop(on[Worker]) /\ UNCHANGED <<tlock, why>>
    BY <1>0, <2>0, <2>1, BeginStopType DEF TypeOK
  <2>2. CASE /\ why' \in {"pause", "shutdown"}
             /\ Goto(Worker, "pausing")
             /\ UNCHANGED <<rows, tlock>>
    BY <2>0, <2>2 DEF TypeOK
  <2>3. CASE /\ tlock' = [tlock EXCEPT ![on[Worker]] = Worker]
             /\ Update(Worker, on[Worker], "completed", "")
             /\ Goto(Worker, "completed")
             /\ UNCHANGED why
    <3>1. RowsType'
      BY <1>0, <2>3, UpdateType, Constants
    <3> QED BY <1>0, <2>0, <2>3, <3>1 DEF TypeOK
  <2> QED BY <1>4, <2>1, <2>2, <2>3 DEF Complete
<1>5. CASE Completed
  <2>1. RowsType'
    BY <1>5, ReturnType DEF Completed
  <2> QED BY <1>0, <1>5, <2>1 DEF Completed, TypeOK
<1>6. CASE Finalized
  BY <1>6 DEF Finalized, TypeOK
<1>7. CASE Pausing \/ Breaking
  BY <1>7, ParkType, Constants DEF Pausing, Breaking, PauseReason
<1>8. CASE Parked
  <2>0. UNCHANGED <<db, work, event, startLock, life, data>>
    BY <1>8 DEF Parked
  <2>1. RowsType'
    BY <1>8, ReturnType DEF Parked
  <2>2. request' = [request EXCEPT ![on[Worker]] = ""] /\ why' = ""
    BY <1>8 DEF Parked
  <2>3. CASE Leave(Worker)
    BY <1>0, <2>0, <2>1, <2>2, <2>3, LeaveType DEF TypeOK
  <2>4. CASE /\ Goto(Worker, "loop")
             /\ tlock' = [tlock EXCEPT ![on[Worker]] = Free]
             /\ UNCHANGED <<on, xlock>>
    BY <1>0, <2>0, <2>1, <2>2, <2>4 DEF TypeOK
  <2> QED BY <1>8, <2>3, <2>4 DEF Parked
<1>9. CASE Unwind
  <2>1. RowsType'
    BY <1>0, <1>9, UpdateType, Constants DEF Unwind
  <2>2. PlaceType' /\ data' \in [Jobs -> {"clean", "dirty", "done"}]
    <3>1. PICK l \in {"ending", "loop"} : Goto(Worker, l)
      BY <1>9 DEF Unwind
    <3>2. data' \in {data, [data EXCEPT ![on[Worker]] = "clean"]} /\ on' = on
      BY <1>9 DEF Unwind
    <3> QED BY <1>0, <3>1, <3>2 DEF TypeOK
  <2>3. UNCHANGED <<db, on, work, signals, why, locks, life>>
    BY <1>9 DEF Unwind
  <2> QED BY <2>1, <2>2, <2>3 DEF TypeOK
<1>10. CASE RollBack
  <2>1. RowsType'
    BY <1>0, <1>10, UpdateType, Constants DEF RollBack
  <2>2. PlaceType' /\ data' \in [Jobs -> {"clean", "dirty", "done"}]
    <3>1. PICK l \in {"ending", "stranded"} : Goto(Worker, l)
      BY <1>10 DEF RollBack
    <3>2. data' \in {data, [data EXCEPT ![on[Worker]] = "clean"]} /\ on' = on
      BY <1>10 DEF RollBack
    <3> QED BY <1>0, <3>1, <3>2 DEF TypeOK
  <2>3. request' \in [Jobs -> {"", "pause", "stop", "shutdown"}]
    BY <1>0, <1>10 DEF RollBack, TypeOK
  <2>4. UNCHANGED <<db, on, work, event, why, locks, life>>
    BY <1>10 DEF RollBack
  <2> QED BY <2>1, <2>2, <2>3, <2>4 DEF TypeOK
<1>11. CASE Strand
  <2>1. /\ Return(Worker) /\ Leave(Worker)
        /\ request' = [request EXCEPT ![on[Worker]] = ""]
        /\ UNCHANGED <<db, work, event, why, startLock, life, data>>
    BY <1>11 DEF Strand
  <2> QED BY <1>0, <2>1, ReturnType, LeaveType DEF TypeOK
<1> QED
  BY <1>1, <1>2, <1>3, <1>4, <1>5, <1>6, <1>7, <1>8, <1>9, <1>10, <1>11
     DEF ResumableStep
-----------------------------------------------------------------------------
\* Types: the short lane, the calls, close and the end of the process.

\* The labels of the callers, of the short tasks and of close.
LEMMA CallLabelTypes ==
  {"idle", "enqueue", "pause", "resume", "stop", "clean", "cancel", "lock", "exit", "get",
   "simple", "report", "ending", "cancelled", "stopwait", "signal", "pausewait",
   "list", "each", "gather"} \subseteq Labels
BY DEF Labels, RunnerLabels, HoldLabels, OperationLabels, ResumableLabels, SimpleLabels,
   CallLabels, CloseLabels

\* The steps the two kinds of runners share leave the state well-formed.
LEMMA RunnerTypes ==
  ASSUME TypeOK, NEW p \in Runners, RunnerStep(p)
  PROVE  TypeOK'
<1> USE CallLabelTypes
    DEF RowsType, PlaceType, GotoOn, Goto, rows, signals, life, work, locks
<1>0. p \in Procs /\ on[p] \in Jobs
  BY DEF TypeOK, Procs
<1>1. CASE SkipCancelled(p)
  BY <1>0, <1>1, AnyJobType DEF SkipCancelled, TypeOK
<1>2. CASE EnterSimple(p)
  <2>1. RowsType'
    BY <1>0, <1>2, UpdateType, RowType, Constants DEF EnterSimple
  <2>2. PICK l \in {"simple", "ending"} : Goto(p, l)
    BY <1>2 DEF EnterSimple
  <2>3. xlock' \in [Databases -> Procs \cup {Free}]
    BY <1>0, <1>2 DEF EnterSimple, Lock, TypeOK
  <2>4. UNCHANGED <<db, on, queue, born, signals, why, tlock, startLock, life, data>>
    BY <1>2 DEF EnterSimple
  <2> QED BY <1>0, <2>1, <2>2, <2>3, <2>4 DEF TypeOK
<1>3. CASE SimpleStep(p)
  <2>1. RowsType'
    BY <1>0, <1>3, UpdateType, RowType, Constants DEF SimpleStep, TypeOK
  <2>2. \/ UNCHANGED pc
        \/ \E l \in {"report", "ending"} : Goto(p, l)
    BY <1>3 DEF SimpleStep
  <2>3. data' \in [Jobs -> {"clean", "dirty", "done"}]
    BY <1>0, <1>3 DEF SimpleStep, TypeOK
  <2>4. UNCHANGED <<db, on, work, signals, why, locks, life>>
    BY <1>3 DEF SimpleStep
  <2>5. PlaceType'
    <3>1. CASE UNCHANGED pc
      BY <2>4, <3>1 DEF TypeOK
    <3>2. ASSUME NEW l \in {"report", "ending"}, Goto(p, l) PROVE PlaceType'
      BY <1>0, <2>4, <3>2 DEF TypeOK
    <3> QED BY <2>2, <3>1, <3>2
  <2> QED BY <2>1, <2>3, <2>4, <2>5 DEF TypeOK
<1>4. CASE Reported(p)
  <2>1. RowsType'
    BY <1>0, <1>4, ReturnType DEF Reported
  <2> QED BY <1>0, <1>4, <2>1 DEF Reported, TypeOK
<1>5. CASE Finish(p) \/ CancelHandled(p)
  <2>1. /\ Return(p) /\ Leave(p)
        /\ UNCHANGED <<db, work, signals, why, startLock, life, data>>
    BY <1>5 DEF Finish, CancelHandled
  <2> QED BY <1>0, <2>1, ReturnType, LeaveType DEF TypeOK
<1>6. CASE Cancelled(p)
  <2>0. UNCHANGED <<work, signals, why, startLock, life, data>>
    BY <1>6 DEF Cancelled
  <2>1. db' \in [Jobs -> Rows \cup {NoRow}]
    BY <1>0, <1>6 DEF Cancelled, Abandon, TypeOK
  <2>2. CASE /\ \/ Update(p, on[p], "interrupted", "process_interrupted")
                \/ Update(p, on[p], "cancelled", "shutdown")
             /\ Goto(p, "cancelled")
             /\ UNCHANGED <<on, tlock, xlock>>
    <3>1. RowsType'
      BY <1>0, <2>2, UpdateType, Constants
    <3> QED BY <1>0, <2>0, <2>1, <2>2, <3>1 DEF TypeOK
  <2>3. CASE /\ upd' = [upd EXCEPT ![p] = NoUpdate]
             /\ Leave(p)
             /\ UNCHANGED mem
    <3>1. RowsType'
      BY <1>0, <2>3 DEF TypeOK, NoUpdate
    <3> QED BY <1>0, <2>0, <2>1, <2>3, <3>1, LeaveType DEF TypeOK
  <2> QED BY <1>6, <2>2, <2>3 DEF Cancelled
<1> QED BY <1>1, <1>2, <1>3, <1>4, <1>5, <1>6 DEF RunnerStep

\* pause, resume, stop and cancel leave the state well-formed.
LEMMA CallTypes ==
  ASSUME TypeOK, NEW c \in Clients, CallBegins(c) \/ CallStep(c)
  PROVE  TypeOK'
<1> USE CallLabelTypes
    DEF RowsType, PlaceType, GotoOn, Goto, rows, signals, life, work, locks
<1>0. c \in Procs /\ on[c] \in Jobs
  BY DEF TypeOK, Procs
<1>1. ASSUME NEW j \in Jobs, Submit(c, j) PROVE TypeOK'
  BY <1>1, SubmitType
<1>2. ASSUME NEW j \in Jobs, Pause(c, j) PROVE TypeOK'
  <2>1. RowsType'
    BY <1>0, <1>2, UpdateType, Constants DEF Pause
  <2> QED BY <1>0, <1>2, <2>1 DEF Pause, TypeOK
<1>3. ASSUME NEW j \in Jobs, Stop(c, j) PROVE TypeOK'
  <2>1. RowsType'
    BY <1>0, <1>3, UpdateType, Constants DEF Stop
  <2> QED BY <1>0, <1>3, <2>1 DEF Stop, TypeOK
<1>4. ASSUME NEW j \in Jobs, Resume(c, j) PROVE TypeOK'
  <2>1. RowsType'
    BY <1>0, <1>4, UpdateType, Constants DEF Resume
  <2> QED BY <1>0, <1>4, <2>1 DEF Resume, TypeOK
<1>5. ASSUME NEW j \in Jobs, Cancel(c, j) PROVE TypeOK'
  <2>1. RowsType'
    BY <1>0, <1>5, UpdateType, Constants DEF Cancel, DropQueued, TypeOK
  <2>2. PICK l \in {"clean", "cancel"} : GotoOn(c, l, j)
    BY <1>5 DEF Cancel, DropQueued
  <2> QED BY <1>0, <1>5, <2>1, <2>2 DEF Cancel, TypeOK
<1>6. CASE Enqueue(c)
  BY <1>6, EnqueueType
<1>7. CASE Answer(c)
  <2>1. RowsType'
    BY <1>0, <1>7, ReturnType DEF Answer
  <2>2. event' \in [Jobs -> BOOLEAN]
    BY <1>0, <1>7 DEF Answer, TypeOK
  <2> QED BY <1>0, <1>7, <2>1, <2>2, AnyJobType DEF Answer, TypeOK
<1> QED BY <1>1, <1>2, <1>3, <1>4, <1>5, <1>6, <1>7 DEF CallBegins, CallStep

\* The storage steps move one pending write and leave it well-formed.
LEMMA StorageTypes ==
  ASSUME TypeOK, NEW p \in Procs, Storage(p)
  PROVE  TypeOK'
<1> USE DEF rows, signals, life, work, locks
<1>0. on[p] \in Jobs /\ upd[p].row \in Rows \cup {NoRow}
  BY DEF TypeOK
<1>1. CASE Capture(p)
  BY <1>0, <1>1 DEF Capture, Issue, TypeOK
<1>2. CASE Commit(p)
  BY <1>0, <1>2, ZenonT(40) DEF Commit, TypeOK
<1>3. CASE LoseWrite(p)
  BY <1>0, <1>3, ZenonT(40) DEF LoseWrite, TypeOK
<1> QED BY <1>1, <1>2, <1>3 DEF Storage

\* Cancelling a queued job, by a caller or by close, leaves the state well-formed.
LEMMA CancelTypes ==
  ASSUME TypeOK, NEW p \in Clients \cup {Closer}, CancelStep(p)
  PROVE  TypeOK'
<1> USE CallLabelTypes
    DEF RowsType, PlaceType, GotoOn, Goto, rows, signals, life, work, locks
<1>0. p \in Procs /\ on[p] \in Jobs
  BY DEF TypeOK, Procs
<1>1. CASE Cleaned(p)
  <2>1. RowsType'
    BY <1>0, <1>1, UpdateType, Constants DEF Cleaned, DropQueued
  <2> QED BY <1>0, <1>1, <2>1 DEF Cleaned, DropQueued, TypeOK
<1>2. CASE CancelAnswer(p)
  <2>1. RowsType'
    BY <1>0, <1>2, ReturnType DEF CancelAnswer
  <2> QED BY <1>0, <1>2, <2>1, AnyJobType DEF CancelAnswer, TypeOK
<1> QED BY <1>1, <1>2 DEF CancelStep

\* The interruption of the current job by close writes pausing for the shutdown.
LEMMA InterruptType ==
  ASSUME TypeOK, NEW j \in Jobs, Interrupt(j)
  PROVE  /\ RowsType' /\ PlaceType'
         /\ request' \in [Jobs -> {"", "pause", "stop", "shutdown"}]
<1>0. Closer \in Procs
  BY DEF Procs
<1>1. CASE /\ request' = [request EXCEPT ![j] = "shutdown"]
           /\ Update(Closer, j, "pausing", "shutdown")
           /\ GotoOn(Closer, "signal", j)
  <2>1. RowsType'
    BY <1>0, <1>1, UpdateType, Constants
  <2> QED BY <1>0, <1>1, <2>1, CallLabelTypes DEF GotoOn, Goto, PlaceType, TypeOK
<1>2. CASE GotoOn(Closer, "list", AnyJob) /\ UNCHANGED <<request, rows>>
  BY <1>0, <1>2, CallLabelTypes, AnyJobType
     DEF GotoOn, Goto, RowsType, PlaceType, TypeOK, rows
<1> QED BY <1>1, <1>2 DEF Interrupt

\* A manager that is gone leaves every process at rest.
LEMMA DownType ==
  ASSUME TypeOK, Down
  PROVE  TypeOK'
<1>1. \A p \in Procs : RestLabel(p) \in Labels
  BY CallLabelTypes DEF RestLabel
<1>2. RowsType' /\ PlaceType'
  BY <1>1, AnyJobType DEF Down, Cold, RowsType, PlaceType, NoUpdate
<1>3. queue' \in Seq(Jobs)
  BY EmptySeq DEF Down
<1> QED BY <1>2, <1>3 DEF Down, Cold, TypeOK, RowsType, PlaceType

\* The stages of close leave the state well-formed.
LEMMA CloseTypes ==
  ASSUME TypeOK, Close \/ CloseStep
  PROVE  TypeOK'
<1> USE CallLabelTypes
    DEF RowsType, PlaceType, GotoOn, Goto, rows, signals, life, work, locks
<1>0. Closer \in Procs /\ on[Closer] \in Jobs /\ on[Worker] \in Jobs
  BY DEF TypeOK, Procs, Runners
<1>1. CASE Close
  <2>0. /\ phase' = "closing"
        /\ UNCHANGED <<db, work, event, why, locks, todo, crashes, data>>
    BY <1>1 DEF Close
  <2>1. CASE /\ \E l \in {"stopwait", "list"}, j \in Jobs : GotoOn(Closer, l, j)
             /\ UNCHANGED <<request, rows>>
    <3>1. PICK l \in {"stopwait", "list"}, j \in Jobs : GotoOn(Closer, l, j)
      BY <2>1
    <3>2. PlaceType'
      BY <1>0, <3>1 DEF TypeOK
    <3> QED BY <2>0, <2>1, <3>2 DEF TypeOK
  <2>2. CASE Interrupt(on[Worker])
    BY <1>0, <2>0, <2>2, InterruptType DEF TypeOK
  <2> QED BY <1>0, <1>1, <2>1, <2>2, AnyJobType DEF Close
<1>2. CASE StopWaited
  BY <1>0, <1>2, InterruptType DEF StopWaited, TypeOK
<1>3. CASE SignalShutdown
  <2>1. RowsType'
    BY <1>0, <1>3, ReturnType DEF SignalShutdown
  <2> QED BY <1>0, <1>3, <2>1 DEF SignalShutdown, TypeOK
<1>4. CASE PauseWaited \/ ListQueued \/ CancelTasks
  <2>1. CASE PauseWaited
    BY <1>0, <2>1, AnyJobType DEF PauseWaited, TypeOK
  <2>2. CASE ListQueued
    BY <1>0, <2>2 DEF ListQueued, TypeOK
  <2>3. CASE CancelTasks
    BY <1>0, <2>3 DEF CancelTasks, TypeOK
  <2> QED BY <1>4, <2>1, <2>2, <2>3
<1>5. CASE CancelEach
  <2>1. PICK j \in todo :
          /\ todo' = todo \ {j}
          /\ \/ UNCHANGED <<rows, ops, pc, on>>
             \/ GotoOn(Closer, "clean", j) /\ UNCHANGED <<rows, ops>>
             \/ DropQueued(Closer, j)
    BY <1>5 DEF CancelEach
  <2>2. j \in Jobs
    BY DEF TypeOK
  <2>3. RowsType'
    BY <1>0, <2>1, <2>2, UpdateType, Constants DEF DropQueued, TypeOK
  <2>4. PlaceType'
    <3>1. CASE UNCHANGED <<pc, on>>
      BY <3>1 DEF TypeOK
    <3>2. ASSUME NEW l \in {"clean", "cancel"}, GotoOn(Closer, l, j) PROVE PlaceType'
      BY <1>0, <2>2, <3>2 DEF TypeOK
    <3> QED BY <2>1, <3>1, <3>2 DEF DropQueued
  <2>5. UNCHANGED <<db, queue, born, signals, why, locks, phase, crashes, data>>
    BY <1>5 DEF CancelEach
  <2> QED BY <2>1, <2>3, <2>4, <2>5 DEF TypeOK
<1>6. CASE Closed
  BY <1>6, DownType DEF Closed
<1> QED BY <1>1, <1>2, <1>3, <1>4, <1>5, <1>6 DEF CloseStep

\* recover_for_startup maps every row to a row it may have.
LEMMA RecoverType ==
  ASSUME TypeOK, Recover
  PROVE  TypeOK'
<1> DEFINE kept == {j \in Resumable : db'[j].status \in Paused}
<1>1. ASSUME NEW j \in Jobs
      PROVE  Recovered(db[j], IsResumable(j)) \in Rows \cup {NoRow}
  <2>1. CASE db[j] = NoRow
    <3>1. db[j].status = "absent"
      <4>1. NoRow.status = "absent"
        BY DEF NoRow
      <4> QED BY <2>1, <4>1
    <3>2. Recovered(db[j], IsResumable(j)) = db[j]
      BY <3>1 DEF Recovered
    <3> QED BY <2>1, <3>2
  <2>2. CASE db[j] \in Rows
    BY <2>2 DEF Recovered, Rows, Active, Paused, Terminal, Reasons
  <2> QED BY <2>1, <2>2 DEF TypeOK
<1>2. db' \in [Jobs -> Rows \cup {NoRow}]
  BY <1>1 DEF Recover
<1>3. RowsType'
  BY <1>2 DEF Recover, TypeOK, RowsType
<1>4. queue' \in Seq(Jobs)
  <2>1. kept \subseteq Jobs /\ IsFiniteSet(kept)
    BY JobsAssumption, FS_Subset
  <2>2. Cardinality(kept) \in Nat
    BY <2>1, FS_CardinalityType
  <2>3. queue' \in [1..Cardinality(kept) -> kept]
    BY DEF Recover, Oldest
  <2>4. queue' \in [1..Cardinality(kept) -> Jobs]
    BY <2>1, <2>3
  <2> QED BY <2>2, <2>4, SeqDef
<1>5. PlaceType'
  BY CallLabelTypes DEF Recover, Goto, TypeOK, PlaceType
<1> QED BY <1>2, <1>3, <1>4, <1>5
        DEF Recover, TypeOK, RowsType, PlaceType, signals, locks

\* A new manager with an empty table is well-formed.
LEMMA InitType == Init => TypeOK
<1> SUFFICES ASSUME Init PROVE TypeOK
  OBVIOUS
<1>1. \A p \in Procs : RestLabel(p) \in Labels
  BY CallLabelTypes DEF RestLabel
<1>2. RowsType /\ PlaceType
  BY <1>1, AnyJobType, CallLabelTypes DEF Init, Cold, RowsType, PlaceType, NoUpdate
<1>3. queue \in Seq(Jobs)
  BY EmptySeq DEF Init
<1> QED BY <1>2, <1>3 DEF Init, Cold, TypeOK, RowsType, PlaceType

\* TypeOK is inductive: one step per process.
LEMMA TypeStep == TypeOK /\ [Next]_vars => TypeOK'
<1> SUFFICES ASSUME TypeOK, [Next]_vars PROVE TypeOK'
  OBVIOUS
<1>1. CASE WorkerStep
  BY <1>1, OperationTypes, ResumableTypes DEF WorkerStep
<1>2. CASE Crash
  BY <1>2, DownType DEF Crash
<1>3. CASE UNCHANGED vars
  BY <1>3 DEF vars, TypeOK
<1> QED
  BY <1>1, <1>2, <1>3, RunnerTypes, CallTypes, CancelTypes, StorageTypes, CloseTypes,
     RecoverType DEF Next

\* Whatever the constants, the manager keeps to the statuses, reasons, labels and
\* locks of jobs.py.
THEOREM TypeCorrect == Spec => []TypeOK
BY InitType, TypeStep, PTL DEF Spec
-----------------------------------------------------------------------------
\* Exclusion.  Whoever works on a database holds its lock, and a lock that is
\* taken is given back by its holder alone.

Holds(p) == pc[p] \in HoldLabels

HoldsLock == \A p \in Runners : Holds(p) => xlock[DatabaseOf[on[p]]] = p

\* Two kinds of steps: nobody begins to hold a lock, or one runner takes a free one.
Keeps ==
  \A p \in Runners :
    Holds(p)' => /\ Holds(p)
                 /\ on'[p] = on[p]
                 /\ xlock'[DatabaseOf[on[p]]] = xlock[DatabaseOf[on[p]]]

Enters(p) ==
  /\ ~Holds(p) /\ Holds(p)'
  /\ Lock(p, DatabaseOf[on[p]])
  /\ on' = on
  /\ \A q \in Runners \ {p} : pc'[q] = pc[q]

\* Where a runner works on its database, and where it does not.
LEMMA HoldLabelsAre ==
  /\ {"loop", "wait", "run", "told", "point", "stopping", "ending", "finishing", "breaking",
      "unwinding", "completed", "finalizing", "pausing", "parked", "stranded",
      "simple", "report"} \subseteq HoldLabels
  /\ HoldLabels \cap {"get", "lock", "exit", "cancelled"} = {}
BY DEF HoldLabels, OperationLabels, ResumableLabels, SimpleLabels

\* A process that only moves takes no lock by it.
LEMMA Moves ==
  ASSUME TypeOK, NEW p \in Procs, NEW l, Goto(p, l), UNCHANGED <<on, xlock>>,
         Holds(p) \/ l \notin HoldLabels \/ p \notin Runners
  PROVE  Keeps
BY DEF Keeps, Holds, Goto, TypeOK, Runners, Procs

\* A caller or the closer never counts as working on a database.
LEMMA CallsMove ==
  ASSUME TypeOK, NEW p \in Clients \cup {Closer}, NEW l, NEW j, GotoOn(p, l, j),
         UNCHANGED xlock
  PROVE  Keeps
<1>1. p \notin Runners /\ p \in Procs
  BY ProcsAssumption DEF Runners, Procs
<1> QED BY <1>1 DEF Keeps, Holds, GotoOn, Goto, TypeOK, Runners, Procs

\* The finally of a runner frees the lock it held and no other.
LEMMA Leaves ==
  ASSUME TypeOK, HoldsLock, NEW p \in Runners, Leave(p)
  PROVE  Keeps
<1>1. NextLabel(p) \notin HoldLabels
  BY HoldLabelsAre DEF NextLabel
<1>2. /\ pc' = [pc EXCEPT ![p] = NextLabel(p)]
      /\ on' = [on EXCEPT ![p] = AnyJob]
      /\ xlock' = [xlock EXCEPT ![DatabaseOf[on[p]]] = IF @ = p THEN Free ELSE @]
  BY DEF Leave, GotoOn, Goto
<1>3. ASSUME NEW q \in Runners, Holds(q)'
      PROVE /\ Holds(q)
            /\ on'[q] = on[q]
            /\ xlock'[DatabaseOf[on[q]]] = xlock[DatabaseOf[on[q]]]
  <2>1. q # p
    BY <1>1, <1>2, <1>3 DEF Holds, TypeOK, Procs
  <2>2. Holds(q) /\ on'[q] = on[q]
    BY <1>2, <1>3, <2>1 DEF Holds, TypeOK, Procs
  <2>3. xlock[DatabaseOf[on[q]]] = q
    BY <2>2 DEF HoldsLock
  <2>4. DatabaseOf[on[q]] \in Databases
    BY JobsAssumption DEF TypeOK, Procs
  <2> QED BY <1>2, <2>1, <2>2, <2>3, <2>4 DEF TypeOK
<1> QED BY <1>3 DEF Keeps

\* A worker at a label of an operation works on a database.
LEMMA AtHolds ==
  ASSUME NEW l \in HoldLabels, At(l)
  PROVE  Holds(Worker)
BY DEF At, Holds

\* Each step of the queue worker keeps the holders, or takes a free lock.
LEMMA WorkerHolds ==
  ASSUME TypeOK, HoldsLock, WorkerStep
  PROVE  Keeps \/ Enters(Worker)
<1> USE HoldLabelsAre, ResumableLabelTypes
<1>1. CASE Take
  <2>1. UNCHANGED xlock
    BY <1>1 DEF Take, locks
  <2>2. PICK l, j : /\ l \notin HoldLabels
                    /\ GotoOn(Worker, l, j) \/ (Goto(Worker, l) /\ UNCHANGED on)
    BY <1>1 DEF Take, NextLabel
  <2> QED BY <2>1, <2>2 DEF Keeps, Holds, GotoOn, Goto, TypeOK, Procs
<1>2. CASE EnterResumable
  BY <1>2 DEF EnterResumable, Enters, Holds, Goto, TypeOK, Runners, Procs
<1>3. CASE OperationStep
  <2>1. PICK l : Goto(Worker, l) \/ UNCHANGED pc
    BY <1>3 DEF OperationStep, RunWrites, RunTells, Told, RunReports, RunEnds
  <2>2. UNCHANGED <<on, xlock>> /\ Holds(Worker)
    BY <1>3, AtHolds
       DEF OperationStep, RunWrites, RunTells, Told, RunReports, RunEnds, locks
  <2>3. CASE Goto(Worker, l)
    BY <2>2, <2>3, Moves
  <2>4. CASE UNCHANGED pc
    BY <2>2, <2>4 DEF Keeps, Holds
  <2> QED BY <2>1, <2>3, <2>4
<1>4. CASE ResumableStep
  <2>1. Holds(Worker)
    BY <1>4, AtHolds
       DEF ResumableStep, LoopHead, WakeUp, ControlPoint, Complete, Completed, Finalized,
           Pausing, Breaking, Park, Parked, Unwind, RollBack, Strand
  <2>2. Leave(Worker) \/ (\E l : Goto(Worker, l) /\ UNCHANGED <<on, xlock>>)
    <3>1. CASE LoopHead \/ WakeUp
      BY <3>1 DEF LoopHead, WakeUp, Begin, BeginStop, locks
    <3>2. CASE ControlPoint \/ Complete \/ Completed \/ Finalized
      BY <3>2 DEF ControlPoint, Complete, Completed, Finalized, BeginStop, locks
    <3>3. CASE Pausing \/ Breaking \/ Parked
      BY <3>3 DEF Pausing, Breaking, Park, Parked, BeginStop
    <3>4. CASE Unwind \/ RollBack \/ Strand
      BY <3>4 DEF Unwind, RollBack, Strand, locks
    <3> QED BY <1>4, <3>1, <3>2, <3>3, <3>4 DEF ResumableStep
  <2> QED BY <2>1, <2>2, Moves, Leaves
<1> QED BY <1>1, <1>2, <1>3, <1>4 DEF WorkerStep

\* So does each step of a short task.
LEMMA RunnerHolds ==
  ASSUME TypeOK, HoldsLock, NEW p \in Runners, RunnerStep(p)
  PROVE  Keeps \/ Enters(p)
<1> USE HoldLabelsAre
<1>0. p \in Procs
  BY DEF Procs
<1>1. CASE SkipCancelled(p)
  BY <1>0, <1>1 DEF SkipCancelled, Keeps, Holds, GotoOn, Goto, TypeOK, Procs, locks
<1>2. CASE EnterSimple(p)
  <2>1. /\ pc[p] = "lock" /\ on' = on /\ Lock(p, DatabaseOf[on[p]])
        /\ \E l \in {"simple", "ending"} : pc' = [pc EXCEPT ![p] = l]
    BY <1>2 DEF EnterSimple, Goto
  <2> QED BY <1>0, <2>1, ZenonT(40) DEF Enters, Holds, TypeOK, Procs
<1>3. CASE SimpleStep(p)
  <2>1. Holds(p) /\ UNCHANGED <<on, xlock>>
    BY <1>3 DEF SimpleStep, Holds, locks
  <2>2. UNCHANGED pc \/ \E l : Goto(p, l)
    BY <1>3 DEF SimpleStep
  <2>3. CASE UNCHANGED pc
    BY <2>1, <2>3 DEF Keeps, Holds
  <2> QED BY <1>0, <2>1, <2>2, <2>3, Moves
<1>4. CASE Reported(p)
  <2>1. Holds(p) /\ Goto(p, "simple") /\ UNCHANGED <<on, xlock>>
    BY <1>4 DEF Reported, Holds, locks
  <2> QED BY <1>0, <2>1, Moves
<1>5. CASE Finish(p) \/ CancelHandled(p)
  BY <1>5, Leaves DEF Finish, CancelHandled
<1>6. CASE Cancelled(p)
  <2>1. Leave(p) \/ (Goto(p, "cancelled") /\ UNCHANGED <<on, xlock>>)
    BY <1>6 DEF Cancelled
  <2> QED BY <1>0, <2>1, Leaves, Moves
<1> QED BY <1>1, <1>2, <1>3, <1>4, <1>5, <1>6 DEF RunnerStep

\* No call of a client touches an execution lock.
LEMMA CallHolds ==
  ASSUME TypeOK, NEW c \in Clients, CallBegins(c) \/ CallStep(c)
  PROVE  Keeps
<1>1. ASSUME NEW j \in Jobs,
             Submit(c, j) \/ Pause(c, j) \/ Stop(c, j) \/ Resume(c, j) \/ Cancel(c, j)
      PROVE  Keeps
  <2>1. UNCHANGED xlock /\ \E l : GotoOn(c, l, j)
    BY <1>1 DEF Submit, Pause, Stop, Resume, Cancel, DropQueued, locks
  <2> QED BY <2>1, CallsMove
<1>2. CASE Enqueue(c)
  <2>1. UNCHANGED xlock /\ c \notin Runners
    BY <1>2, ProcsAssumption DEF Enqueue, Runners
  <2>2. CASE on[c] \in ShortLane
    <3>1. /\ pc' = [pc EXCEPT ![c] = "idle", ![on[c]] = "lock"]
          /\ on' = [on EXCEPT ![c] = AnyJob, ![on[c]] = on[c]]
      BY <1>2, <2>2 DEF Enqueue
    <3> QED BY <2>1, <3>1, HoldLabelsAre DEF Keeps, Holds, TypeOK, Procs
  <2>3. CASE on[c] \notin ShortLane
    <3>1. GotoOn(c, "idle", AnyJob)
      BY <1>2, <2>3 DEF Enqueue
    <3> QED BY <2>1, <3>1, CallsMove
  <2> QED BY <2>2, <2>3
<1>3. CASE Answer(c)
  BY <1>3, CallsMove DEF Answer
<1> QED BY <1>1, <1>2, <1>3 DEF CallBegins, CallStep

\* Neither does close before it cancels the tasks; a process that ends holds nothing.
LEMMA CloserHolds ==
  ASSUME TypeOK, Close \/ CloseStep \/ Crash
  PROVE  Keeps
<1>1. CASE Closed \/ Crash
  <2>1. \A p \in Runners : pc'[p] = "exit"
    BY <1>1 DEF Closed, Crash, Down, Cold, RestLabel, Procs
  <2> QED BY <2>1, HoldLabelsAre DEF Keeps, Holds
<1>2. CASE CancelTasks \/ ListQueued \/ SignalShutdown
  <2>1. \E l : Goto(Closer, l) /\ UNCHANGED <<on, xlock>>
    BY <1>2 DEF CancelTasks, ListQueued, SignalShutdown, locks
  <2>2. Closer \in Procs /\ Closer \notin Runners
    BY ProcsAssumption DEF Procs, Runners
  <2> QED BY <2>1, <2>2, Moves
<1>3. CASE Close \/ StopWaited \/ PauseWaited
  <2>1. UNCHANGED xlock /\ \E l, j : GotoOn(Closer, l, j)
    BY <1>3 DEF Close, StopWaited, PauseWaited, Interrupt, locks
  <2> QED BY <2>1, CallsMove
<1>4. CASE CancelEach
  <2>1. UNCHANGED xlock /\ (UNCHANGED <<pc, on>> \/ \E l, j : GotoOn(Closer, l, j))
    BY <1>4 DEF CancelEach, DropQueued, locks
  <2>2. CASE UNCHANGED <<pc, on>>
    BY <2>1, <2>2 DEF Keeps, Holds
  <2> QED BY <2>1, <2>2, CallsMove
<1> QED BY <1>1, <1>2, <1>3, <1>4 DEF CloseStep

\* Every step of the manager keeps the holders, or one runner takes a free lock.
LEMMA Dichotomy ==
  ASSUME TypeOK, HoldsLock, [Next]_vars
  PROVE  Keeps \/ \E p \in Runners : Enters(p)
<1>1. CASE WorkerStep
  BY <1>1, WorkerHolds, ResumableLabelTypes
<1>2. ASSUME NEW p \in Clients \cup {Closer}, CancelStep(p) PROVE Keeps
  BY <1>2, CallsMove DEF CancelStep, Cleaned, CancelAnswer, DropQueued, locks
<1>3. ASSUME NEW p \in Procs, Storage(p) PROVE Keeps
  BY <1>3 DEF Storage, Capture, Commit, LoseWrite, Keeps, Holds, locks
<1>4. CASE Recover
  BY <1>4, HoldLabelsAre DEF Recover, Goto, Keeps, Holds, TypeOK, Runners, Procs, locks
<1>5. CASE UNCHANGED vars
  BY <1>5 DEF vars, Keeps, Holds
<1> QED
  BY <1>1, <1>2, <1>3, <1>4, <1>5, RunnerHolds, CallHolds, CloserHolds DEF Next

\* HoldsLock is inductive: two runners would have to hold one lock.
LEMMA HoldsLockStep ==
  ASSUME TypeOK, HoldsLock, [Next]_vars
  PROVE  HoldsLock'
<1>0. \A p \in Runners : DatabaseOf[on[p]] \in Databases /\ p # Free
  BY JobsAssumption, ProcsAssumption DEF TypeOK, Procs
<1>1. CASE Keeps
  BY <1>1 DEF Keeps, HoldsLock
<1>2. ASSUME NEW p \in Runners, Enters(p) PROVE HoldsLock'
  <2>1. xlock'[DatabaseOf[on[p]]] = p /\ on' = on
    BY <1>0, <1>2 DEF Enters, Lock, TypeOK
  <2>2. ASSUME NEW q \in Runners \ {p}, Holds(q)'
        PROVE  xlock'[DatabaseOf[on[q]]] = q
    <3>1. Holds(q)
      BY <1>2, <2>2 DEF Enters, Holds
    <3>2. xlock[DatabaseOf[on[q]]] = q /\ xlock[DatabaseOf[on[p]]] = Free
      BY <1>2, <3>1 DEF Enters, Lock, HoldsLock
    <3> QED BY <1>0, <1>2, <3>2 DEF Enters, Lock, TypeOK
  <2> QED BY <2>1, <2>2 DEF HoldsLock
<1> QED BY <1>1, <1>2, Dichotomy

\* Runners that each hold the lock of their database are on different databases.
LEMMA Exclusion == HoldsLock => ExclusivePerDatabase
BY DEF HoldsLock, Holds, ExclusivePerDatabase

\* The inductive invariant: types, and every working runner holds its execution lock.
THEOREM Invariant == Spec => [](TypeOK /\ HoldsLock)
<1>1. Init => HoldsLock
  BY HoldLabelsAre, ResumableLabelTypes, ZenonT(40) DEF Init, Cold, RestLabel, HoldsLock, Holds, Procs
<1>2. TypeOK /\ HoldsLock /\ [Next]_vars => HoldsLock'
  BY HoldsLockStep
<1> QED BY <1>1, <1>2, TypeCorrect, PTL DEF Spec

\* Two runners never work on one database, whatever is paused, stopped, cancelled
\* or shut down, and however many jobs and databases there are.
THEOREM Exclusive == Spec => []ExclusivePerDatabase
BY Invariant, Exclusion, PTL

-----------------------------------------------------------------------------
\* Refinement: the execution locks implement ExclusiveLease.

\* The holder of a database is the runner that works on it.
LEMMA HolderIs ==
  ASSUME HoldsLock, NEW d
  PROVE  /\ \A p \in Runners : Holds(p) /\ DatabaseOf[on[p]] = d => Holder(d) = p
         /\ (\A p \in Runners : ~(Holds(p) /\ DatabaseOf[on[p]] = d)) => Holder(d) = Free
BY DEF Holder, HoldsLock, Holds

\* The same in the next state.
LEMMA HolderIsNext ==
  ASSUME HoldsLock', NEW d
  PROVE  /\ \A p \in Runners : Holds(p)' /\ DatabaseOf[on'[p]] = d => Holder(d)' = p
         /\ (\A p \in Runners : ~(Holds(p)' /\ DatabaseOf[on'[p]] = d)) => Holder(d)' = Free
BY DEF Holder, HoldsLock, Holds

\* A step that keeps the holders is a release (or a stutter) of the lease.
LEMMA KeepsReleases ==
  ASSUME HoldsLock, HoldsLock', Keeps
  PROVE  Lease!Release
<1>1. ASSUME NEW d \in Databases PROVE Holder(d)' \in {Holder(d), Free}
  <2>1. CASE \A p \in Runners : ~(Holds(p)' /\ DatabaseOf[on'[p]] = d)
    BY <2>1, HolderIsNext
  <2>2. ASSUME NEW p \in Runners, Holds(p)', DatabaseOf[on'[p]] = d
        PROVE  Holder(d)' = Holder(d)
    <3>1. Holds(p) /\ DatabaseOf[on[p]] = d
      BY <2>2 DEF Keeps
    <3> QED BY <2>2, <3>1, HolderIs, HolderIsNext
  <2> QED BY <2>1, <2>2
<1> QED BY <1>1 DEF Lease!Release

\* A runner that takes a free lock is granted the lease of that database.
LEMMA EntersGrants ==
  ASSUME TypeOK, HoldsLock, HoldsLock', NEW p \in Runners, Enters(p),
         NEW d \in Databases, d = DatabaseOf[on[p]]
  PROVE  Lease!Grant(d, p)
<1>0. \A q \in Runners : q # Free
  BY ProcsAssumption DEF Procs
<1>1. \A q \in Runners : ~(Holds(q) /\ DatabaseOf[on[q]] = d)
  BY <1>0 DEF Enters, Lock, HoldsLock
<1>2. Holder(d) = Free
  BY <1>1, HolderIs
<1>3. Holder(d)' = p
  BY HolderIsNext DEF Enters
<1>4. ASSUME NEW e \in Databases, e # d PROVE Holder(e)' = Holder(e)
  <2>1. \A q \in Runners : (Holds(q)' /\ DatabaseOf[on'[q]] = e)
                             <=> (Holds(q) /\ DatabaseOf[on[q]] = e)
    BY <1>4 DEF Enters, Holds
  <2>2. CASE \A q \in Runners : ~(Holds(q) /\ DatabaseOf[on[q]] = e)
    BY <2>1, <2>2, HolderIs, HolderIsNext
  <2>3. ASSUME NEW q \in Runners, Holds(q), DatabaseOf[on[q]] = e
        PROVE  Holder(e)' = Holder(e)
    <3>1. Holds(q)' /\ DatabaseOf[on'[q]] = e
      BY <2>1, <2>3
    <3> QED BY <2>3, <3>1, HolderIs, HolderIsNext
  <2> QED BY <2>2, <2>3
<1> QED BY <1>2, <1>3, <1>4 DEF Lease!Grant

\* No database is leased at the beginning.
LEMMA LeaseInit == Init => Lease!Init
<1> SUFFICES ASSUME Init, NEW d \in Databases PROVE Holder(d) = Free
  BY DEF Lease!Init
<1>1. \A p \in Runners : pc[p] \in {"get", "exit"}
  BY ResumableLabelTypes DEF Init, Cold, RestLabel, Procs, TypeOK
<1> QED BY <1>1, HoldLabelsAre DEF Holder

\* Every behaviour of the manager is one of the abstract lease of its databases.
THEOREM Refines == Spec => ImplementsLease
<1>1. /\ TypeOK /\ HoldsLock /\ (TypeOK /\ HoldsLock)' /\ [Next]_vars
      => [Lease!Next]_[d \in Databases |-> Holder(d)]
  <2> SUFFICES ASSUME TypeOK, HoldsLock, HoldsLock', [Next]_vars PROVE Lease!Next
    OBVIOUS
  <2>1. CASE Keeps
    BY <2>1, KeepsReleases DEF Lease!Next
  <2>2. ASSUME NEW p \in Runners, Enters(p) PROVE Lease!Next
    <3>1. DatabaseOf[on[p]] \in Databases
      BY JobsAssumption DEF TypeOK, Procs
    <3> QED BY <2>2, <3>1, EntersGrants DEF Lease!Next
  <2> QED BY <2>1, <2>2, Dichotomy
<1> QED BY <1>1, LeaseInit, Invariant, PTL DEF Spec, ImplementsLease, Lease!Spec
-----------------------------------------------------------------------------
\* The invariant.

Queued(j) == \E i \in DOMAIN queue : queue[i] = j

\* Every row under which a job is known: in memory, in the table, in an update.
Seen(j) == {mem[j], db[j]}
             \cup {upd[p].row : p \in {q \in Procs : on[q] = j /\ upd[q].stage # "none"}}

\* Where a process has no job, and where it has no update under way.
Resting == {"idle", "get", "exit", "list", "each", "gather"}
Quiet   == Resting \cup {"lock", "enqueue", "clean", "stopwait", "pausewait"}

\* Where the worker is done with the operation of its job.
After == {"completed", "finalizing", "ending", "cancelled"}

\* A row that says something of the database, and when that is true.
Claims(st, rs) == st \in {"completed", "stopped"} \/ rs = "operation_failed"
Backed(d, st, rs) == /\ st = "completed" => d = "done"
                     /\ st = "stopped" \/ rs = "operation_failed" => d = "clean"
                     /\ rs = "operation_failed" => st \in Terminal

\* The operation of the job may still begin, go on or be rolled back.
MayRun(j) == \/ Queued(j)
             \/ \E c \in Clients : pc[c] = "enqueue" /\ on[c] = j
             \/ Serving(j) /\ pc[Worker] \notin After

\* Whoever has a job has one that was inserted, and so has the queue.
Known == /\ born \in [Jobs -> Nat]
         /\ \A p \in Procs : pc[p] \notin Resting => db[on[p]] # NoRow
         /\ \A j \in Jobs : mem[j] # NoRow => db[j] # NoRow
         /\ \A i \in DOMAIN queue : db[queue[i]] # NoRow

Silent == \A p \in Procs : /\ upd[p].stage # "none" => upd[p].row \in Rows
                           /\ pc[p] \in Quiet => upd[p].stage = "none"

Placed == /\ \A p \in Jobs : pc[p] # "exit" => /\ on[p] = p /\ p \in ShortLane
                                             /\ pc[p] \notin Resting
          /\ pc[Worker] \in SimpleLabels => on[Worker] \notin Resumable

\* A job on its way into the queue is nowhere else.
Starts == \A c \in Clients : pc[c] = "enqueue" =>
            /\ startLock = c /\ ~Queued(on[c]) /\ ~Serving(on[c])
            /\ on[c] \in ShortLane => pc[on[c]] = "exit"

Asleep == /\ phase = "down" => \A p \in Procs : pc[p] \in {"idle", "exit"}
          /\ phase \in {"open", "down"} => pc[Closer] = "idle"

Books == Known /\ Silent /\ Placed /\ Starts /\ Asleep /\ QueuedOnce

Honest == \A j \in Resumable : \A row \in Seen(j) : Backed(data[j], row.status, row.reason)
Ends   == \A j \in Resumable : MayRun(j) =>
            \A row \in Seen(j) : ~Claims(row.status, row.reason)
Ended  == pc[Worker] = "finishing" /\ on[Worker] \in Resumable => data[on[Worker]] = "done"

Outcomes == Honest /\ Ends /\ Ended

-----------------------------------------------------------------------------
\* Steps, by what they do to the rows of a job.

\* No row is new but those of one update.
Writes(j, st, rs) ==
  \A k \in Jobs : \A row \in Seen(k)' :
    \/ row = NoRow
    \/ \E old \in Seen(k) : old.status = row.status /\ old.reason = row.reason
    \/ k = j /\ row.status = st /\ row.reason = rs

\* Nobody hears of an outcome that was not known before.
NoNews ==
  \A k \in Resumable : \A row \in Seen(k)' :
    Claims(row.status, row.reason) =>
      \E old \in Seen(k) : old.status = row.status /\ old.reason = row.reason

RowsGo(p) ==
  /\ \A q \in Procs \ {p} : upd'[q] = upd[q]
  /\ upd'[p].stage # "none" => upd'[p].row \in Rows
  /\ \A k \in Jobs : /\ mem'[k] # NoRow => db[k] # NoRow
                     /\ db[k] # NoRow => db'[k] # NoRow

PlaceGo(p) ==
  /\ \A q \in Procs \ {p} : pc'[q] = pc[q] /\ on'[q] = on[q]
  /\ "enqueue" \notin {pc[p], pc'[p]}
  /\ pc'[p] \notin Resting => db[on'[p]] # NoRow
  /\ pc'[p] \in Quiet => upd'[p].stage = "none"
  /\ p \in Jobs => \/ pc'[p] = "exit"
                   \/ pc[p] # "exit" /\ on'[p] = on[p] /\ pc'[p] \notin Resting
  /\ p = Closer /\ phase' = "open" => pc[p] # "idle" \/ pc'[p] = "idle"
  /\ p = Worker => /\ pc'[p] \in SimpleLabels => on'[p] \notin Resumable
                   /\ \A k \in Jobs : Serving(k)' => Serving(k)
                   /\ pc[p] \in After => pc'[p] \in After \cup {"get", "exit"}

Steady == /\ UNCHANGED <<queue, startLock, born>>
          /\ phase # "down" /\ phase' # "down" /\ (phase' = "open" => phase = "open")

\* One process takes a step with the job it has, or lets go of it.
Goes(p) == RowsGo(p) /\ PlaceGo(p) /\ Steady

\* Only the operation of a job touches its database.
DataGo ==
  /\ \A k \in Resumable : data'[k] = data[k] \/ (Serving(k) /\ pc[Worker] \notin After)
  /\ pc'[Worker] = "finishing" =>
       \/ pc[Worker] # "finishing" /\ data'[on'[Worker]] = "done"
       \/ /\ pc[Worker] = "finishing" /\ on'[Worker] = on[Worker]
          /\ \A k \in Resumable : data'[k] = data[k]

\* The worker announces an outcome, and it is true.
Announces ==
  LET j == on[Worker] IN
  /\ Serving(j) /\ pc[Worker] \notin After /\ pc'[Worker] \in After
  /\ \A k \in Jobs \ {j} : data'[k] = data[k]
  /\ \E st \in Terminal, rs \in Reasons : Writes(j, st, rs) /\ Backed(data'[j], st, rs)

\* Any other step.
Calm(p) == Goes(p) /\ NoNews /\ DataGo

\* The rows of a job, one by one.
LEMMA SeenIs ==
  ASSUME NEW k, NEW row
  PROVE  row \in Seen(k) <=> \/ row = mem[k] \/ row = db[k]
                             \/ \E p \in Procs : on[p] = k /\ upd[p].stage # "none" /\ row = upd[p].row
BY DEF Seen

\* The same after a step.
LEMMA SeenNext ==
  ASSUME NEW k, NEW row
  PROVE  row \in Seen(k)' <=> \/ row = mem'[k] \/ row = db'[k]
                              \/ \E p \in Procs : on'[p] = k /\ upd'[p].stage # "none" /\ row = upd'[p].row
BY DEF Seen

\* The row a caller reads is one of them.
LEMMA RowSeen == \A j : Row(j) \in Seen(j)
BY SeenIs DEF Row

\* A row of a job that was inserted is a row.
LEMMA RowKnown ==
  ASSUME TypeOK, Known, NEW j \in Jobs, db[j] # NoRow
  PROVE  Row(j) \in Rows /\ Row(j) # NoRow
BY DEF TypeOK, Row

\* A job without a row claims nothing.
LEMMA NoRowClaims == ~Claims(NoRow.status, NoRow.reason) /\ \A d : Backed(d, NoRow.status, NoRow.reason)
BY DEF NoRow, Claims, Backed

\* The row an update writes, and what it does to the tables.
Written(j, st, rs) == [status |-> st, reason |-> rs, started |-> Row(j).started \/ st = "running"]
Renewed(j, st) == [Row(j) EXCEPT !.started = Row(j).started \/ st = "running"]

\* _update changes the job in memory and the update of the caller, and nothing else.
LEMMA UpdateIs ==
  ASSUME TypeOK, NEW p \in Procs, NEW j \in Jobs, NEW st, NEW rs, Update(p, j, st, rs)
  PROVE  /\ \A q \in Procs \ {p} : upd'[q] = upd[q]
         /\ \A k \in Jobs \ {j} : mem'[k] = mem[k]
         /\ mem'[j] \in {Row(j), Renewed(j, st), Written(j, st, rs)}
         /\ upd'[p].stage = "none" \/ upd'[p].row \in {Row(j), Written(j, st, rs)}
<1> DEFINE row == [status |-> st, reason |-> rs, started |-> Row(j).started \/ st = "running"]
<1>r. row = Written(j, st, rs) /\ row.started = (Row(j).started \/ st = "running")
  BY DEF Written
<1>0. ASSUME NEW r, NEW u, mem' = [mem EXCEPT ![j] = r], upd' = [upd EXCEPT ![p] = u]
      PROVE  /\ \A q \in Procs \ {p} : upd'[q] = upd[q]
             /\ \A k \in Jobs \ {j} : mem'[k] = mem[k]
             /\ mem'[j] = r /\ upd'[p] = u
  BY <1>0 DEF TypeOK
<1> HIDE DEF row
<1>1. CASE /\ mem' = [mem EXCEPT ![j] = [Row(j) EXCEPT !.started = row.started]]
           /\ upd' = [upd EXCEPT ![p] = [stage |-> "capture", row |-> row]]
  <2>1. [stage |-> "capture", row |-> row].row = row
    OBVIOUS
  <2>2. mem' = [mem EXCEPT ![j] = Renewed(j, st)]
    BY <1>1, <1>r DEF Renewed
  <2>3. upd' = [upd EXCEPT ![p] = [stage |-> "capture", row |-> row]]
    BY <1>1
  <2>4. /\ \A q \in Procs \ {p} : upd'[q] = upd[q]
        /\ \A k \in Jobs \ {j} : mem'[k] = mem[k]
        /\ mem'[j] = Renewed(j, st) /\ upd'[p] = [stage |-> "capture", row |-> row]
    BY <1>0, <2>2, <2>3
  <2> QED BY <1>r, <2>1, <2>4
<1>2. CASE mem' = [mem EXCEPT ![j] = row] /\ Issue(p, j, row)
  <2>1. [stage |-> "write", row |-> row].row = row
    OBVIOUS
  <2>2. upd' = [upd EXCEPT ![p] = [stage |-> "write", row |-> row]]
    BY <1>2 DEF Issue
  <2> QED BY <1>r, <1>0, <1>2, <2>1, <2>2
<1>3. CASE mem' = [mem EXCEPT ![j] = Row(j)] /\ Issue(p, j, Row(j))
  <2>1. [stage |-> "write", row |-> Row(j)].row = Row(j)
    OBVIOUS
  <2>2. upd' = [upd EXCEPT ![p] = [stage |-> "write", row |-> Row(j)]]
    BY <1>3 DEF Issue
  <2> QED BY <1>r, <1>0, <1>3, <2>1, <2>2
<1>4. CASE mem' = [mem EXCEPT ![j] = Row(j)] /\ upd' = [upd EXCEPT ![p] = NoUpdate]
  <2>1. NoUpdate.stage = "none"
    BY DEF NoUpdate
  <2> QED BY <1>0, <1>4, <2>1
<1>5. \/ /\ mem' = [mem EXCEPT ![j] = [Row(j) EXCEPT !.started = row.started]]
         /\ upd' = [upd EXCEPT ![p] = [stage |-> "capture", row |-> row]]
      \/ mem' = [mem EXCEPT ![j] = row] /\ Issue(p, j, row)
      \/ mem' = [mem EXCEPT ![j] = Row(j)] /\ Issue(p, j, Row(j))
      \/ mem' = [mem EXCEPT ![j] = Row(j)] /\ upd' = [upd EXCEPT ![p] = NoUpdate]
  <2> USE DEF row
  <2> QED BY Zenon DEF Update
<1> QED BY <1>1, <1>2, <1>3, <1>4, <1>5

\* After an _update the rows of a job are those it had, or the one that was written.
LEMMA UpdateSeen ==
  ASSUME TypeOK, Books, NEW p \in Procs, NEW j \in Jobs, db[j] # NoRow, NEW st, NEW rs,
         Update(p, j, st, rs), on'[p] = j, \A q \in Procs \ {p} : on'[q] = on[q],
         \A k \in Jobs : db'[k] \in Seen(k)
  PROVE  Writes(j, st, rs)
<1> SUFFICES ASSUME NEW k \in Jobs, NEW row \in Seen(k)',
                    ~\E old \in Seen(k) : old.status = row.status /\ old.reason = row.reason
             PROVE  k = j /\ row.status = st /\ row.reason = rs
  BY DEF Writes
<1>1. row \notin Seen(k)
  OBVIOUS
<1>2. row # Row(j) \/ k # j
  BY <1>1, RowSeen
<1>3. /\ mem'[j] \in {Row(j), Renewed(j, st), Written(j, st, rs)}
      /\ upd'[p].stage = "none" \/ upd'[p].row \in {Row(j), Written(j, st, rs)}
  BY UpdateIs
<1>4. Row(j) \in Rows
  BY RowKnown DEF Books
<1>5. CASE row = mem'[k]
  <2>1. k = j
    BY <1>1, <1>5, UpdateIs, SeenIs
  <2>2. row # Renewed(j, st)
    <3>1. Row(j) \in Seen(j)
      BY RowSeen
    <3>2. Renewed(j, st).status = Row(j).status /\ Renewed(j, st).reason = Row(j).reason
      BY <1>4 DEF Rows, Renewed
    <3> QED BY <2>1, <3>1, <3>2
  <2> QED BY <1>2, <1>3, <1>5, <2>1, <2>2 DEF Written
<1>6. row # db'[k]
  BY <1>1
<1>7. ASSUME NEW q \in Procs, on'[q] = k, upd'[q].stage # "none", row = upd'[q].row
      PROVE  k = j /\ row.status = st /\ row.reason = rs
  <2>1. q = p
    BY <1>1, <1>7, UpdateIs, SeenIs
  <2> QED BY <1>2, <1>3, <1>7, <2>1 DEF Written
<1> QED BY <1>5, <1>6, <1>7, SeenNext

\* An _update that claims no outcome brings no news of one.
LEMMA WritesNoNews ==
  ASSUME NEW j, NEW st, NEW rs, Writes(j, st, rs), j \in Resumable => ~Claims(st, rs)
  PROVE  NoNews
BY NoRowClaims, JobsAssumption DEF Writes, NoNews

\* The tail of _update only forgets rows.
LEMMA ReturnSeen ==
  ASSUME TypeOK, NEW p \in Procs, Return(p), db' = db, \A q \in Procs \ {p} : on'[q] = on[q]
  PROVE  NoNews
<1> SUFFICES ASSUME NEW k \in Resumable, NEW row \in Seen(k)', Claims(row.status, row.reason)
             PROVE  row \in Seen(k)
  BY DEF NoNews
<1>1. k \in Jobs
  BY JobsAssumption
<1>2. upd'[p].stage = "none" /\ \A q \in Procs \ {p} : upd'[q] = upd[q]
  BY DEF Return, TypeOK, NoUpdate
<1>3. mem'[k] \in {mem[k], NoRow}
  BY <1>1 DEF Return, TypeOK
<1> QED BY <1>2, <1>3, SeenIs, SeenNext, NoRowClaims

\* A step that leaves the rows alone, and moves no process with an update, is no news.
LEMMA StaySeen ==
  ASSUME UNCHANGED <<mem, upd, db>>,
         \A q \in Procs : upd[q].stage # "none" => on'[q] = on[q]
  PROVE  NoNews
BY SeenIs, SeenNext DEF NoNews

\* The three stages of a write, and an await that is abandoned, bring nothing new.
LEMMA StorageSeen ==
  ASSUME TypeOK, NEW p \in Procs, Storage(p)
  PROVE  NoNews
<1> SUFFICES ASSUME NEW k \in Resumable, NEW row \in Seen(k)', Claims(row.status, row.reason)
             PROVE  row \in Seen(k)
  BY DEF NoNews
<1>1. k \in Jobs /\ on[p] \in Jobs /\ on' = on
  BY JobsAssumption DEF TypeOK, Storage, Capture, Commit, LoseWrite
<1>2. upd[p].stage # "none" /\ upd[p].row \in Seen(on[p])
  <2>1. upd[p].stage # "none"
    BY DEF Storage, Capture, Commit, LoseWrite
  <2> QED BY <2>1, SeenIs
<1>3. \A q \in Procs : upd'[q].row = upd[q].row /\ (upd'[q].stage # "none" => upd[q].stage # "none")
  <2>1. \A q \in Procs \ {p} : upd'[q] = upd[q]
    BY DEF Storage, Capture, Commit, LoseWrite, Issue, TypeOK
  <2>2. upd'[p].row = upd[p].row
    <3>1. CASE Capture(p)
      <4>1. upd' = [upd EXCEPT ![p] = [stage |-> "write", row |-> upd[p].row]]
        BY <3>1 DEF Capture, Issue
      <4> QED BY <4>1 DEF TypeOK
    <3>2. CASE Commit(p) \/ LoseWrite(p)
      <4>1. PICK s : upd' = [upd EXCEPT ![p].stage = s]
        BY <3>2 DEF Commit, LoseWrite
      <4>2. upd'[p] = [upd[p] EXCEPT !.stage = s]
        BY <4>1 DEF TypeOK
      <4>3. upd[p] \in [stage : {"none", "capture", "write", "written", "lost"}, row : Rows \cup {NoRow}]
        BY DEF TypeOK
      <4> QED BY <4>2, <4>3
    <3> QED BY <3>1, <3>2 DEF Storage
  <2> QED BY <1>2, <2>1, <2>2
<1>4. mem'[k] \in Seen(k) \cup {NoRow}
  <2>1. \/ mem' = mem
        \/ mem' = [mem EXCEPT ![on[p]] = IF @ = NoRow THEN NoRow ELSE upd[p].row]
    BY DEF Storage, Capture, Commit, LoseWrite
  <2> QED BY <1>1, <1>2, <2>1, SeenIs DEF TypeOK
<1>5. db'[k] \in Seen(k)
  <2>1. db' = db \/ db' = [db EXCEPT ![on[p]] = upd[p].row]
    BY DEF Storage, Capture, Commit, LoseWrite
  <2> QED BY <1>1, <1>2, <2>1, SeenIs DEF TypeOK
<1> QED BY <1>1, <1>3, <1>4, <1>5, SeenIs, SeenNext, NoRowClaims

-----------------------------------------------------------------------------
\* Such steps keep the invariant.

\* The queue holds jobs.
LEMMA QueueJobs ==
  ASSUME TypeOK
  PROVE  DOMAIN queue = 1..Len(queue) /\ \A i \in DOMAIN queue : queue[i] \in Jobs
<1>1. queue \in Seq(Jobs)
  BY DEF TypeOK
<1> QED BY <1>1, LenProperties, ElementOfSeq

\* The books stay right over an _update,
LEMMA UpdateRows ==
  ASSUME TypeOK, Books, NEW p \in Procs, NEW j \in Jobs, db[j] # NoRow,
         NEW st \in Active \cup Terminal, NEW rs \in Reasons, Update(p, j, st, rs),
         \A k \in Jobs : db[k] # NoRow => db'[k] # NoRow
  PROVE  RowsGo(p)
<1>1. Row(j) \in Rows
  BY RowKnown DEF Books
<1>2. Written(j, st, rs) \in Rows
  BY <1>1 DEF Written, Rows
<1>3. upd'[p].stage # "none" => upd'[p].row \in Rows
  BY <1>1, <1>2, UpdateIs
<1>4. \A k \in Jobs : mem'[k] # NoRow => db[k] # NoRow
  BY UpdateIs DEF Books, Known
<1> QED BY <1>3, <1>4, UpdateIs DEF RowsGo

\* over its tail,
LEMMA ReturnRows ==
  ASSUME TypeOK, Books, NEW p \in Procs, Return(p), db' = db
  PROVE  RowsGo(p) /\ upd'[p].stage = "none"
<1>1. upd'[p].stage = "none" /\ \A q \in Procs \ {p} : upd'[q] = upd[q]
  BY DEF Return, TypeOK, NoUpdate
<1>2. \A k \in Jobs : mem'[k] # NoRow => mem'[k] = mem[k]
  BY DEF Return, TypeOK
<1> QED BY <1>1, <1>2 DEF RowsGo, Books, Known

\* over a step that leaves the rows alone,
LEMMA StayRows ==
  ASSUME Books, NEW p \in Procs, UNCHANGED <<mem, upd, db>>
  PROVE  RowsGo(p)
BY DEF RowsGo, Books, Known, Silent

\* and over the three stages of a write.
LEMMA StorageRows ==
  ASSUME TypeOK, Books, NEW p \in Procs, Storage(p)
  PROVE  RowsGo(p) /\ upd[p].stage # "none"
<1>1. on[p] \in Jobs /\ upd[p].stage # "none" /\ upd[p].row \in Rows /\ upd[p].row # NoRow
  <2>1. on[p] \in Jobs /\ upd[p].stage # "none"
    BY DEF TypeOK, Storage, Capture, Commit, LoseWrite
  <2>2. NoRow \notin Rows
    BY DEF NoRow, Rows, Active, Terminal, Paused
  <2> QED BY <2>1, <2>2 DEF Books, Silent
<1>2. \A q \in Procs \ {p} : upd'[q] = upd[q]
  BY DEF Storage, Capture, Commit, LoseWrite, Issue, TypeOK
<1>3. upd'[p].row = upd[p].row
  <2>1. CASE Capture(p)
    <3>1. upd' = [upd EXCEPT ![p] = [stage |-> "write", row |-> upd[p].row]]
      BY <2>1 DEF Capture, Issue
    <3> QED BY <3>1 DEF TypeOK
  <2>2. CASE Commit(p) \/ LoseWrite(p)
    <3>1. PICK s : upd' = [upd EXCEPT ![p].stage = s]
      BY <2>2 DEF Commit, LoseWrite
    <3>2. upd'[p] = [upd[p] EXCEPT !.stage = s]
      BY <3>1 DEF TypeOK
    <3>3. upd[p] \in [stage : {"none", "capture", "write", "written", "lost"}, row : Rows \cup {NoRow}]
      BY DEF TypeOK
    <3> QED BY <3>2, <3>3
  <2> QED BY <2>1, <2>2 DEF Storage
<1>4. \A k \in Jobs : mem'[k] # NoRow => db[k] # NoRow
  <2>1. \/ mem' = mem
        \/ mem' = [mem EXCEPT ![on[p]] = IF @ = NoRow THEN NoRow ELSE upd[p].row]
    BY DEF Storage, Capture, Commit, LoseWrite
  <2>2. \A k \in Jobs : mem'[k] # NoRow => mem[k] # NoRow
    BY <1>1, <2>1 DEF TypeOK
  <2> QED BY <2>2 DEF Books, Known
<1>5. \A k \in Jobs : db[k] # NoRow => db'[k] # NoRow
  <2>1. db' = db \/ db' = [db EXCEPT ![on[p]] = upd[p].row]
    BY DEF Storage, Capture, Commit, LoseWrite
  <2> QED BY <1>1, <2>1 DEF TypeOK
<1> QED BY <1>1, <1>2, <1>3, <1>4, <1>5 DEF RowsGo

\* A step of that kind puts no job into the hands of the worker.
LEMMA GoesServing ==
  ASSUME NEW p \in Procs, Goes(p)
  PROVE  \A k \in Jobs : Serving(k)' => Serving(k)
BY DEF Goes, PlaceGo, Serving, Procs, Runners

\* Such a step gives no operation a new chance to run.
LEMMA GoesMayRun ==
  ASSUME NEW p \in Procs, Goes(p)
  PROVE  \A k \in Jobs : MayRun(k)' => MayRun(k)
<1> SUFFICES ASSUME NEW k \in Jobs, MayRun(k)' PROVE MayRun(k)
  OBVIOUS
<1>1. CASE Queued(k)'
  BY <1>1 DEF Goes, Steady, MayRun, Queued
<1>2. ASSUME NEW c \in Clients, pc'[c] = "enqueue", on'[c] = k PROVE MayRun(k)
  <2>1. c # p /\ c \in Procs
    BY <1>2 DEF Goes, PlaceGo, Procs
  <2> QED BY <1>2, <2>1 DEF Goes, PlaceGo, MayRun
<1>3. CASE Serving(k)' /\ pc'[Worker] \notin After
  <2>1. Serving(k)
    BY <1>3, GoesServing
  <2>2. pc[Worker] \notin After
    <3>1. CASE p = Worker
      BY <1>3, <3>1 DEF Goes, PlaceGo, Serving
    <3>2. CASE p # Worker
      BY <1>3, <3>2 DEF Goes, PlaceGo, Procs, Runners
    <3> QED BY <3>1, <3>2
  <2> QED BY <2>1, <2>2 DEF MayRun
<1> QED BY <1>1, <1>2, <1>3 DEF MayRun

\* Such a step keeps the books.
LEMMA GoesBooks ==
  ASSUME TypeOK, TypeOK', Books, NEW p \in Procs, Goes(p)
  PROVE  Books'
<1>1. Known'
  <2>1. \A q \in Procs : pc'[q] \notin Resting => db[on'[q]] # NoRow
    BY DEF Goes, PlaceGo, Books, Known
  <2>2. \A q \in Procs : on'[q] \in Jobs
    BY DEF TypeOK
  <2>3. \A k \in Jobs : /\ mem'[k] # NoRow => db[k] # NoRow
                        /\ db[k] # NoRow => db'[k] # NoRow
    BY DEF Goes, RowsGo
  <2>4. \A i \in DOMAIN queue : queue[i] \in Jobs
    BY QueueJobs
  <2>5. born' = born /\ queue' = queue
    BY DEF Goes, Steady
  <2> QED BY <2>1, <2>2, <2>3, <2>4, <2>5 DEF Books, Known
<1>2. Silent'
  BY DEF Goes, PlaceGo, RowsGo, Books, Silent
<1>3. Placed'
  <2>1. \A q \in Jobs : pc'[q] # "exit" => on'[q] = q /\ q \in ShortLane /\ pc'[q] \notin Resting
    BY DEF Goes, PlaceGo, Books, Placed, Procs, Runners
  <2>2. pc'[Worker] \in SimpleLabels => on'[Worker] \notin Resumable
    BY DEF Goes, PlaceGo, Books, Placed, Procs, Runners
  <2> QED BY <2>1, <2>2 DEF Placed
<1>4. Starts'
  <2> SUFFICES ASSUME NEW c \in Clients, pc'[c] = "enqueue"
               PROVE  /\ startLock' = c /\ ~Queued(on[c])' /\ ~Serving(on[c])'
                      /\ on'[c] \in ShortLane => pc'[on'[c]] = "exit"
    BY DEF Starts
  <2>1. c \in Procs /\ pc[c] = "enqueue" /\ on'[c] = on[c]
    BY DEF Goes, PlaceGo, Procs
  <2>2. on[c] \in Jobs
    BY <2>1 DEF TypeOK
  <2>3. startLock' = c /\ ~Queued(on[c])'
    BY <2>1 DEF Goes, Steady, Books, Starts, Queued
  <2>4. ~Serving(on[c])'
    <3>1. ~Serving(on[c]) /\ (Serving(on[c])' <=> /\ pc'[Worker] \in RunnerLabels \ {"get", "exit"}
                                                  /\ on'[Worker] = on[c])
      BY <2>1 DEF Books, Starts, Serving
    <3> HIDE DEF Serving
    <3>2. PICK k \in Jobs : k = on[c]
      BY <2>2
    <3>3. ~Serving(k)'
      BY <3>1, <3>2, GoesServing
    <3> QED BY <3>1, <3>2, <3>3 DEF Serving
  <2>5. on[c] \in ShortLane => pc'[on[c]] = "exit"
    BY <2>1, <2>2 DEF Goes, PlaceGo, Books, Starts, Procs, Runners
  <2> QED BY <2>1, <2>3, <2>4, <2>5
<1>5. Asleep'
  BY DEF Goes, Steady, PlaceGo, Books, Asleep, Procs
<1>6. QueuedOnce'
  <2>1. \A i \in DOMAIN queue : queue[i] \in Jobs
    BY QueueJobs
  <2>2. \A k \in Jobs : Serving(k)' => Serving(k)
    BY GoesServing
  <2> QED BY <2>1, <2>2 DEF Goes, Steady, Books, QueuedOnce, Serving
<1> QED BY <1>1, <1>2, <1>3, <1>4, <1>5, <1>6 DEF Books

\* No news, and no database touched but that of the job served: what was said stays true.
LEMMA CalmOutcomes ==
  ASSUME Outcomes, \A k \in Resumable : MayRun(k)' => MayRun(k), NoNews, DataGo
  PROVE  Outcomes'
<1>1. Honest'
  <2> SUFFICES ASSUME NEW k \in Resumable, NEW row \in Seen(k)'
               PROVE  Backed(data'[k], row.status, row.reason)
    BY DEF Honest
  <2>1. CASE ~Claims(row.status, row.reason)
    BY <2>1 DEF Claims, Backed
  <2>2. CASE Claims(row.status, row.reason)
    <3>1. PICK old \in Seen(k) : old.status = row.status /\ old.reason = row.reason
      BY <2>2 DEF NoNews
    <3>2. Backed(data[k], row.status, row.reason)
      BY <3>1 DEF Outcomes, Honest
    <3>3. ~MayRun(k)
      BY <2>2, <3>1 DEF Outcomes, Ends
    <3> QED BY <3>2, <3>3 DEF DataGo, MayRun
  <2> QED BY <2>1, <2>2
<1>2. Ends'
  <2> SUFFICES ASSUME NEW k \in Resumable, MayRun(k)', NEW row \in Seen(k)'
               PROVE  ~Claims(row.status, row.reason)
    BY DEF Ends
  <2>1. MayRun(k)
    OBVIOUS
  <2> QED BY <2>1 DEF NoNews, Outcomes, Ends
<1>3. Ended'
  BY DEF DataGo, Outcomes, Ended
<1> QED BY <1>1, <1>2, <1>3 DEF Outcomes

\* So a calm step keeps the outcomes true.
LEMMA GoesOutcomes ==
  ASSUME Outcomes, NEW p \in Procs, Calm(p)
  PROVE  Outcomes'
BY GoesMayRun, CalmOutcomes, JobsAssumption DEF Calm

\* The announcement of an outcome that is true keeps them so: the job has run for the last time.
LEMMA AnnouncesOutcomes ==
  ASSUME TypeOK, Books, Outcomes, Goes(Worker), Announces
  PROVE  Outcomes'
<1>0. Worker \in Procs /\ on[Worker] \in Jobs /\ \A k \in Resumable : k \in Jobs
  BY JobsAssumption DEF Procs, Runners, TypeOK
<1>1. PICK st \in Terminal, rs \in Reasons :
        Writes(on[Worker], st, rs) /\ Backed(data'[on[Worker]], st, rs)
  BY DEF Announces
<1>2. \A k \in Resumable : k = on[Worker] => MayRun(k) /\ ~MayRun(k)'
  <2> SUFFICES ASSUME NEW k \in Resumable, k = on[Worker] PROVE MayRun(k) /\ ~MayRun(k)'
    OBVIOUS
  <2>1. Serving(k) /\ pc[Worker] \notin After /\ pc'[Worker] \in After
    BY DEF Announces
  <2>2. ~Queued(k)'
    BY <2>1 DEF Goes, Steady, Queued, Books, QueuedOnce
  <2>3. \A c \in Clients : ~(pc'[c] = "enqueue" /\ on'[c] = k)
    BY <2>1 DEF Goes, PlaceGo, Books, Starts, Procs
  <2> QED BY <2>1, <2>2, <2>3 DEF MayRun
<1>3. \A k \in Resumable : \A row \in Seen(k)' :
        \/ ~Claims(row.status, row.reason)
        \/ k = on[Worker] /\ row.status = st /\ row.reason = rs
        \/ k # on[Worker] /\ \E old \in Seen(k) : old.status = row.status /\ old.reason = row.reason
  BY <1>0, <1>1, <1>2, NoRowClaims DEF Writes, Outcomes, Ends
<1>4. Honest'
  <2> SUFFICES ASSUME NEW k \in Resumable, NEW row \in Seen(k)'
               PROVE  Backed(data'[k], row.status, row.reason)
    BY DEF Honest
  <2>1. CASE ~Claims(row.status, row.reason)
    BY <2>1 DEF Claims, Backed
  <2>2. CASE k = on[Worker] /\ row.status = st /\ row.reason = rs
    BY <1>1, <2>2
  <2>3. ASSUME k # on[Worker], NEW old \in Seen(k), old.status = row.status, old.reason = row.reason
        PROVE  Backed(data'[k], row.status, row.reason)
    <3>1. Backed(data[k], row.status, row.reason)
      BY <2>3 DEF Outcomes, Honest
    <3> QED BY <1>0, <2>3, <3>1 DEF Announces
  <2> QED BY <1>3, <2>1, <2>2, <2>3
<1>5. Ends'
  <2> SUFFICES ASSUME NEW k \in Resumable, MayRun(k)', NEW row \in Seen(k)'
               PROVE  ~Claims(row.status, row.reason)
    BY DEF Ends
  <2>1. MayRun(k) /\ k # on[Worker]
    BY <1>0, <1>2, GoesMayRun
  <2> QED BY <1>3, <2>1 DEF Outcomes, Ends
<1>6. Ended'
  BY DEF Announces, After, Ended
<1> QED BY <1>4, <1>5, <1>6 DEF Outcomes

-----------------------------------------------------------------------------
\* The steps of the worker.

\* The labels of a runner.
LEMMA LabelsAre ==
  /\ HoldLabels = {"run", "told", "point", "loop", "wait", "pausing", "parked", "breaking",
                   "finishing", "completed", "finalizing", "unwinding", "stopping",
                   "stranded", "simple", "report", "ending"}
  /\ SimpleLabels = {"simple", "report"}
  /\ RunnerLabels = HoldLabels \cup {"get", "lock", "exit", "cancelled"}
BY DEF HoldLabels, OperationLabels, ResumableLabels, SimpleLabels, RunnerLabels

\* Most steps of a live process leave the queue, the start lock and the phase alone.
LEMMA SteadyIs ==
  ASSUME Alive, UNCHANGED <<queue, born, startLock, phase>>
  PROVE  Steady
BY DEF Alive, Steady

\* A runner that moves with its job,
LEMMA RunnerPlace ==
  ASSUME TypeOK, Books, NEW p \in Runners, NEW l \in HoldLabels \cup {"cancelled"},
         Goto(p, l), on' = on, pc[p] \in RunnerLabels \ {"get", "exit"},
         p = Worker => /\ l \in SimpleLabels => on[p] \notin Resumable
                       /\ pc[p] \in After => l \in After
  PROVE  PlaceGo(p)
<1>1. p \in Procs /\ pc' = [pc EXCEPT ![p] = l] /\ pc'[p] = l /\ on'[p] = on[p]
  BY DEF Procs, Goto, TypeOK
<1>2. \A q \in Procs \ {p} : pc'[q] = pc[q] /\ on'[q] = on[q]
  BY <1>1 DEF TypeOK
<1>3. /\ "enqueue" \notin {pc[p], pc'[p]} /\ pc[p] \notin Resting /\ pc[p] # "exit"
      /\ l \notin Quiet /\ l \notin Resting /\ p # Closer
  BY <1>1, LabelsAre, ProcsAssumption DEF Resting, Quiet, Runners
<1>4. db[on'[p]] # NoRow
  BY <1>1, <1>3 DEF Books, Known
<1>5. p = Worker => \A k \in Jobs : Serving(k)' => Serving(k)
  BY <1>1 DEF Serving
<1> QED BY <1>1, <1>2, <1>3, <1>4, <1>5 DEF PlaceGo

\* one that lets go of its job,
LEMMA RunnerLeaves ==
  ASSUME TypeOK, NEW p \in Runners, Leave(p), pc[p] \in RunnerLabels, upd'[p].stage = "none"
  PROVE  PlaceGo(p) /\ pc'[p] \in {"get", "exit"}
<1>1. p \in Procs /\ pc' = [pc EXCEPT ![p] = NextLabel(p)] /\ on' = [on EXCEPT ![p] = AnyJob]
  BY DEF Procs, Leave, GotoOn, Goto
<1>2. pc'[p] \in {"get", "exit"} /\ (p \in Jobs => pc'[p] = "exit")
  BY <1>1, ProcsAssumption DEF NextLabel, TypeOK
<1>3. \A q \in Procs \ {p} : pc'[q] = pc[q] /\ on'[q] = on[q]
  BY <1>1 DEF TypeOK
<1>4. /\ "enqueue" \notin {pc[p], pc'[p]} /\ pc'[p] \in Resting /\ pc'[p] \notin SimpleLabels
      /\ p # Closer
  BY <1>2, LabelsAre, ProcsAssumption DEF Resting, Runners
<1>5. p = Worker => \A k \in Jobs : ~Serving(k)'
  BY <1>2 DEF Serving
<1> QED BY <1>2, <1>3, <1>4, <1>5 DEF PlaceGo

\* one that writes a row,
LEMMA RunnerUpdates ==
  ASSUME TypeOK, Books, Steady, NEW p \in Runners, NEW l \in HoldLabels \cup {"cancelled"},
         NEW st \in Active \cup Terminal, NEW rs \in Reasons, Update(p, on[p], st, rs),
         Goto(p, l), on' = on, db' = db, pc[p] \in RunnerLabels \ {"get", "exit"},
         p = Worker => /\ l \in SimpleLabels => on[p] \notin Resumable
                       /\ pc[p] \in After => l \in After
  PROVE  Goes(p) /\ Writes(on[p], st, rs)
<1>1. p \in Procs /\ on[p] \in Jobs
  BY DEF Procs, TypeOK
<1>2. pc[p] \notin Resting
  BY LabelsAre DEF Resting
<1>3. db[on[p]] # NoRow
  BY <1>1, <1>2 DEF Books, Known
<1>4. RowsGo(p)
  BY <1>1, <1>3, UpdateRows
<1>5. \A k \in Jobs : db'[k] \in Seen(k)
  BY SeenIs
<1> QED BY <1>1, <1>3, <1>4, <1>5, UpdateSeen, RunnerPlace DEF Goes

\* one whose _update returns,
LEMMA RunnerReturns ==
  ASSUME TypeOK, Books, Steady, NEW p \in Runners, Return(p), db' = db, pc[p] \in RunnerLabels,
         \/ Leave(p)
         \/ /\ on' = on
            /\ \E l \in HoldLabels \ SimpleLabels : Goto(p, l) /\ (pc[p] \in After => l \in After)
            /\ pc[p] \in HoldLabels
  PROVE  Goes(p) /\ NoNews
<1>1. p \in Procs /\ RowsGo(p) /\ upd'[p].stage = "none"
  BY ReturnRows DEF Procs
<1>2. CASE Leave(p)
  <2>1. \A q \in Procs \ {p} : on'[q] = on[q]
    BY <1>1, <1>2 DEF Leave, GotoOn, TypeOK
  <2> QED BY <1>1, <1>2, <2>1, RunnerLeaves, ReturnSeen DEF Goes
<1>3. ASSUME on' = on, NEW l \in HoldLabels \ SimpleLabels, Goto(p, l), pc[p] \in After => l \in After,
             pc[p] \in HoldLabels
      PROVE  Goes(p) /\ NoNews
  <2>1. pc[p] \notin {"get", "exit"}
    BY <1>3, LabelsAre
  <2> QED BY <1>1, <1>3, <2>1, RunnerPlace, ReturnSeen DEF Goes
<1> QED BY <1>2, <1>3

\* and one that leaves the rows alone.
LEMMA RunnerMoves ==
  ASSUME TypeOK, Books, Steady, NEW p \in Runners, UNCHANGED <<rows, db, on>>,
         NEW l \in HoldLabels \cup {"cancelled"}, Goto(p, l), pc[p] \in RunnerLabels \ {"get", "exit"},
         p = Worker => /\ l \in SimpleLabels => on[p] \notin Resumable
                       /\ pc[p] \in After => l \in After
  PROVE  Goes(p) /\ NoNews
<1>1. p \in Procs /\ UNCHANGED <<mem, upd, db>>
  BY DEF Procs, rows
<1> QED BY <1>1, StayRows, StaySeen, RunnerPlace DEF Goes

\* While the operation may run, nothing the worker reads claims an outcome.
LEMMA NotYet ==
  ASSUME TypeOK, Outcomes, pc[Worker] \in HoldLabels \ After, on[Worker] \in Resumable
  PROVE  ~Claims(Status(on[Worker]), Row(on[Worker]).reason)
<1>1. Serving(on[Worker])
  BY LabelsAre DEF Serving
<1>2. MayRun(on[Worker])
  BY <1>1 DEF MayRun
<1> QED BY <1>2, RowSeen DEF Outcomes, Ends, Status

\* An update of the worker that claims no outcome.
LEMMA WorkerTells ==
  ASSUME TypeOK, Books, Outcomes, Steady, NEW l \in HoldLabels \ SimpleLabels, l # "finishing",
         NEW st \in Active \cup Terminal, NEW rs \in Reasons, Update(Worker, on[Worker], st, rs),
         Goto(Worker, l), on' = on, db' = db, data' = data, pc[Worker] \in HoldLabels \ After,
         on[Worker] \in Resumable => ~Claims(st, rs)
  PROVE  Calm(Worker)
<1>1. Worker \in Runners /\ Worker \in Procs /\ pc[Worker] \in RunnerLabels \ {"get", "exit"}
  BY LabelsAre DEF Runners, Procs
<1>2. Goes(Worker) /\ Writes(on[Worker], st, rs)
  BY <1>1, RunnerUpdates
<1>3. pc'[Worker] = l
  BY <1>1 DEF Goto, TypeOK
<1> QED BY <1>2, <1>3, WritesNoNews DEF Calm, DataGo

\* The _update of the worker returns.
LEMMA WorkerReturns ==
  ASSUME TypeOK, Books, Steady, Return(Worker), db' = db, data' = data, pc[Worker] \in HoldLabels,
         \/ Leave(Worker)
         \/ /\ on' = on
            /\ \E l \in HoldLabels \ SimpleLabels :
                 Goto(Worker, l) /\ l # "finishing" /\ (pc[Worker] \in After => l \in After)
  PROVE  Calm(Worker)
<1>1. Worker \in Runners /\ Worker \in Procs /\ pc[Worker] \in RunnerLabels
  BY LabelsAre DEF Runners, Procs
<1>2. Goes(Worker) /\ NoNews
  BY <1>1, RunnerReturns
<1>3. pc'[Worker] # "finishing"
  <2>1. CASE Leave(Worker)
    BY <1>1, <2>1 DEF Leave, GotoOn, Goto, NextLabel, TypeOK
  <2>2. ASSUME NEW l \in HoldLabels \ SimpleLabels, Goto(Worker, l), l # "finishing"
        PROVE  pc'[Worker] # "finishing"
    BY <1>1, <2>2 DEF Goto, TypeOK
  <2> QED BY <2>1, <2>2
<1> QED BY <1>2, <1>3 DEF Calm, DataGo

\* The worker moves on without an _update.
LEMMA WorkerMoves ==
  ASSUME TypeOK, Books, Steady, UNCHANGED <<rows, db, on, data>>,
         NEW l \in HoldLabels \ SimpleLabels, l # "finishing", Goto(Worker, l),
         pc[Worker] \in HoldLabels \cup {"lock"}, pc[Worker] \in After => l \in After
  PROVE  Calm(Worker)
<1>1. Worker \in Runners /\ Worker \in Procs /\ pc[Worker] \in RunnerLabels \ {"get", "exit"}
  BY LabelsAre DEF Runners, Procs
<1>2. pc'[Worker] = l
  BY <1>1 DEF Goto, TypeOK
<1> QED BY <1>1, <1>2, RunnerMoves DEF Calm, DataGo

\* The worker completes a job, rolls it back after a stop or after a failure.
LEMMA AnnouncesIs ==
  ASSUME TypeOK, Books, Steady, NEW l \in {"completed", "ending"},
         NEW st \in Terminal, NEW rs \in Reasons, Update(Worker, on[Worker], st, rs),
         Goto(Worker, l), on' = on, db' = db, pc[Worker] \in HoldLabels \ After,
         \A k \in Jobs \ {on[Worker]} : data'[k] = data[k], Backed(data'[on[Worker]], st, rs)
  PROVE  Goes(Worker) /\ Announces
<1>1. Worker \in Runners /\ Worker \in Procs /\ pc[Worker] \in RunnerLabels \ {"get", "exit"}
  BY LabelsAre DEF Runners, Procs
<1>2. l \in HoldLabels /\ l \in After /\ l \notin SimpleLabels
  BY LabelsAre DEF After
<1>3. Goes(Worker) /\ Writes(on[Worker], st, rs)
  BY <1>1, <1>2, RunnerUpdates
<1>4. pc'[Worker] = l /\ Serving(on[Worker])
  BY <1>1 DEF Goto, TypeOK, Serving
<1> QED BY <1>2, <1>3, <1>4 DEF Announces

\* While the operation runs nothing is announced.
LEMMA OperationCalm ==
  ASSUME TypeOK, Books, Outcomes, OperationStep
  PROVE  Calm(Worker)
<1> USE LabelsAre
<1>0. /\ Worker \in Procs /\ Worker \in Runners /\ on[Worker] \in Jobs
      /\ pc[Worker] \in {"run", "told"} /\ {"run", "told"} \cap After = {}
      /\ on' = on /\ db' = db /\ Steady
  <2>1. Alive /\ UNCHANGED <<db, on, work, locks, life>> /\ pc[Worker] \in {"run", "told"}
    BY DEF OperationStep, RunWrites, RunTells, Told, RunReports, RunEnds, At
  <2>2. Steady
    BY <2>1, SteadyIs DEF work, locks, life
  <2> QED BY <2>1, <2>2 DEF Procs, Runners, TypeOK, After
<1>1. Row(on[Worker]) \in Rows
  <2>1. db[on[Worker]] # NoRow
    BY <1>0 DEF Books, Known, Resting
  <2> QED BY <1>0, <2>1, RowKnown DEF Books
<1>2. /\ Row(on[Worker]).reason \in Reasons /\ Status(on[Worker]) \in Active \cup Terminal
      /\ "running" \in Active \cup Terminal
  BY <1>1 DEF Rows, Status, Active
<1>3. on[Worker] \in Resumable =>
        \A st \in {"running", Status(on[Worker])} : ~Claims(st, Row(on[Worker]).reason)
  BY <1>0, NotYet DEF Claims
<1>4. Serving(on[Worker])
  BY <1>0 DEF Serving
<1>5. CASE RunWrites
  <2>1. UNCHANGED <<rows, db, on>> /\ Goto(Worker, "run") /\ pc' = pc
    BY <1>0, <1>5 DEF RunWrites, At, Goto, TypeOK
  <2>2. Goes(Worker) /\ NoNews
    BY <1>0, <2>1, RunnerMoves
  <2>3. \A k \in Resumable : k # on[Worker] => data'[k] = data[k]
    BY <1>0, <1>5, JobsAssumption DEF RunWrites, TypeOK
  <2> QED BY <1>0, <1>4, <2>1, <2>2, <2>3 DEF Calm, DataGo
<1>6. CASE RunTells
  <2>1. /\ Update(Worker, on[Worker], "running", Row(on[Worker]).reason)
        /\ Goto(Worker, "told") /\ data' = data
    BY <1>6 DEF RunTells
  <2> QED BY <1>0, <1>2, <1>3, <2>1, WorkerTells
<1>7. CASE Told
  <2>1. Return(Worker) /\ Goto(Worker, "run") /\ data' = data
    BY <1>7 DEF Told
  <2> QED BY <1>0, <2>1, WorkerReturns
<1>8. CASE RunReports
  <2>1. PICK st \in {"running", Status(on[Worker])} :
               Update(Worker, on[Worker], st, Row(on[Worker]).reason)
    BY <1>8 DEF RunReports
  <2>2. Goto(Worker, "point") /\ data' = data
    BY <1>8 DEF RunReports
  <2> QED BY <1>0, <1>2, <1>3, <2>1, <2>2, WorkerTells
<1>9. CASE RunEnds
  <2>1. PICK l \in {"finishing", "breaking", "unwinding"} :
          /\ Goto(Worker, l)
          /\ \/ data' = [data EXCEPT ![on[Worker]] = "done"]
             \/ l # "finishing" /\ data' = data
    BY <1>9 DEF RunEnds
  <2>2. UNCHANGED <<rows, db, on>>
    BY <1>9 DEF RunEnds
  <2>3. Goes(Worker) /\ NoNews
    BY <1>0, <2>1, <2>2, RunnerMoves
  <2>4. pc'[Worker] = l
    BY <1>0, <2>1 DEF Goto, TypeOK
  <2>5. \A k \in Resumable : k # on[Worker] => data'[k] = data[k]
    BY <1>0, <2>1, JobsAssumption DEF TypeOK
  <2>6. l = "finishing" => data'[on[Worker]] = "done"
    BY <1>0, <2>1 DEF TypeOK
  <2> QED BY <1>0, <1>4, <2>3, <2>4, <2>5, <2>6 DEF Calm, DataGo
<1> QED BY <1>5, <1>6, <1>7, <1>8, <1>9 DEF OperationStep

\* The statuses and reasons of the worker's updates.
LEMMA Unclaimed ==
  /\ \A rs \in {"", "manual", "shutdown", "provider", "rollback_failed", "manager_error",
                "resume_requested", "process_interrupted"},
        st \in {"running", "stopping", "failed", "paused", "interrupted", "pausing", "cancelled"} :
       /\ ~Claims(st, rs)
       /\ st \in Active \cup Terminal /\ rs \in Reasons
BY DEF Claims, Active, Terminal, Paused, Reasons

\* Nor when the worker turns to a stop,
LEMMA BeginStopCalm ==
  ASSUME TypeOK, Books, Outcomes, Steady, pc[Worker] \in HoldLabels \ After, BeginStop(on[Worker]),
         on' = on, db' = db, data' = data
  PROVE  Calm(Worker)
<1>1. Update(Worker, on[Worker], "stopping", "manual") /\ Goto(Worker, "stopping")
  BY DEF BeginStop
<1> QED BY <1>1, WorkerTells, Unclaimed, LabelsAre

\* or begins.
LEMMA BeginCalm ==
  ASSUME TypeOK, Books, Outcomes, Steady, pc[Worker] \in HoldLabels \ After, Begin(on[Worker]),
         on' = on, db' = db, data' = data
  PROVE  Calm(Worker)
<1>1. CASE BeginStop(on[Worker])
  BY <1>1, BeginStopCalm
<1>2. CASE Update(Worker, on[Worker], "running", "") /\ Goto(Worker, "run")
  BY <1>2, WorkerTells, Unclaimed, LabelsAre
<1>3. CASE Update(Worker, on[Worker], "failed", "manager_error") /\ Goto(Worker, "ending")
  BY <1>3, WorkerTells, Unclaimed, LabelsAre
<1> QED BY <1>1, <1>2, <1>3 DEF Begin

\* _run_resumable: every step is calm, but for the three announcements.
LEMMA ResumableCalm ==
  ASSUME TypeOK, Books, Outcomes, ResumableStep
  PROVE  Calm(Worker) \/ (Goes(Worker) /\ Announces)
<1> USE LabelsAre
<1>0. /\ Worker \in Procs /\ Worker \in Runners /\ on[Worker] \in Jobs
      /\ pc[Worker] \in HoldLabels \ {"ending"} /\ db' = db /\ Steady
  <2>1. /\ Alive /\ UNCHANGED <<db, work, startLock, life>>
        /\ pc[Worker] \in HoldLabels \ {"ending"}
    <3>1. CASE LoopHead \/ WakeUp \/ ControlPoint \/ Complete \/ Completed \/ Finalized
      BY <3>1 DEF LoopHead, WakeUp, ControlPoint, Complete, Completed, Finalized, At, locks
    <3>2. CASE Pausing \/ Breaking \/ Parked \/ Unwind \/ RollBack \/ Strand
      BY <3>2 DEF Pausing, Breaking, Park, Parked, Unwind, RollBack, Strand, At, locks
    <3> QED BY <3>1, <3>2 DEF ResumableStep
  <2>2. Steady
    BY <2>1, SteadyIs DEF work, life
  <2> QED BY <2>1, <2>2 DEF Procs, Runners, TypeOK
<1>1. CASE LoopHead
  <2>1. data' = data /\ pc[Worker] = "loop" /\ "loop" \notin After
    BY <1>1 DEF LoopHead, At, After
  <2>2. CASE Return(Worker) /\ Leave(Worker)
    BY <1>0, <2>1, <2>2, WorkerReturns
  <2>3. CASE Return(Worker) /\ Goto(Worker, "wait") /\ on' = on
    BY <1>0, <2>1, <2>3, WorkerReturns
  <2>4. CASE Begin(on[Worker]) /\ on' = on
    BY <1>0, <2>1, <2>4, BeginCalm
  <2> QED BY <1>1, <2>2, <2>3, <2>4 DEF LoopHead
<1>2. CASE WakeUp
  <2>1. Begin(on[Worker]) /\ on' = on /\ data' = data /\ pc[Worker] = "wait" /\ "wait" \notin After
    BY <1>2 DEF WakeUp, At, After
  <2> QED BY <1>0, <2>1, BeginCalm
<1>3. CASE ControlPoint
  <2>1. on' = on /\ data' = data /\ pc[Worker] = "point" /\ "point" \notin After
    BY <1>3 DEF ControlPoint, At, After
  <2>2. CASE BeginStop(on[Worker])
    BY <1>0, <2>1, <2>2, BeginStopCalm
  <2>3. ASSUME NEW l \in {"pausing", "run"}, Goto(Worker, l), Return(Worker) PROVE Calm(Worker)
    BY <1>0, <2>1, <2>3, WorkerReturns
  <2> QED BY <1>3, <2>2, <2>3 DEF ControlPoint
<1>4. CASE Complete
  <2>1. on' = on /\ data' = data /\ pc[Worker] = "finishing" /\ "finishing" \notin After
    BY <1>4 DEF Complete, At, After
  <2>2. CASE BeginStop(on[Worker])
    BY <1>0, <2>1, <2>2, BeginStopCalm
  <2>3. CASE Goto(Worker, "pausing") /\ UNCHANGED rows
    BY <1>0, <2>1, <2>3, WorkerMoves DEF rows
  <2>4. CASE Update(Worker, on[Worker], "completed", "") /\ Goto(Worker, "completed")
    <3>1. "completed" \in Terminal /\ "" \in Reasons /\ "completed" \in Active \cup Terminal
      BY DEF Terminal, Reasons
    <3>2. CASE on[Worker] \in Resumable
      <4>1. Backed(data'[on[Worker]], "completed", "")
        BY <2>1, <3>2 DEF Outcomes, Ended, Backed
      <4> QED BY <1>0, <2>1, <2>4, <3>1, <4>1, AnnouncesIs
    <3>3. CASE on[Worker] \notin Resumable
      BY <1>0, <2>1, <2>4, <3>1, <3>3, WorkerTells
    <3> QED BY <3>2, <3>3
  <2> QED BY <1>4, <2>2, <2>3, <2>4 DEF Complete
<1>5. CASE Completed
  <2>1. /\ Return(Worker) /\ Goto(Worker, "finalizing") /\ on' = on /\ data' = data
        /\ "finalizing" \in After
    BY <1>5 DEF Completed, After
  <2> QED BY <1>0, <2>1, WorkerReturns
<1>6. CASE Finalized
  <2>1. UNCHANGED <<rows, db, on, data>> /\ Goto(Worker, "ending") /\ "ending" \in After
    BY <1>6 DEF Finalized, After
  <2> QED BY <1>0, <2>1, WorkerMoves
<1>7. CASE Pausing \/ Breaking
  <2>1. PICK l \in {"pausing", "breaking"}, st \in {"paused", "interrupted"},
             rs \in {"shutdown", "manual", "provider"} : Park(l, st, rs)
    BY <1>7 DEF Pausing, Breaking, PauseReason
  <2>2. on' = on /\ data' = data /\ pc[Worker] = l /\ l \notin After
    BY <2>1 DEF Park, At, After
  <2>3. CASE BeginStop(on[Worker])
    BY <1>0, <2>2, <2>3, BeginStopCalm
  <2>4. CASE Update(Worker, on[Worker], st, rs) /\ Goto(Worker, "parked")
    BY <1>0, <2>2, <2>4, WorkerTells, Unclaimed
  <2> QED BY <2>1, <2>3, <2>4 DEF Park
<1>8. CASE Parked
  <2>1. Return(Worker) /\ data' = data /\ pc[Worker] = "parked" /\ "parked" \notin After
    BY <1>8 DEF Parked, At, After
  <2>2. Leave(Worker) \/ (Goto(Worker, "loop") /\ on' = on)
    BY <1>8 DEF Parked
  <2> QED BY <1>0, <2>1, <2>2, WorkerReturns
<1>9. CASE Unwind
  <2>1. on' = on /\ pc[Worker] = "unwinding" /\ "unwinding" \notin After
    BY <1>9 DEF Unwind, At, After
  <2>2. CASE /\ data' = [data EXCEPT ![on[Worker]] = "clean"]
             /\ Update(Worker, on[Worker], "failed", "operation_failed")
             /\ Goto(Worker, "ending")
    <3>1. data'[on[Worker]] = "clean" /\ \A k \in Jobs \ {on[Worker]} : data'[k] = data[k]
      BY <1>0, <2>2 DEF TypeOK
    <3>2. /\ Backed(data'[on[Worker]], "failed", "operation_failed")
          /\ "failed" \in Terminal /\ "operation_failed" \in Reasons
      BY <3>1 DEF Backed, Terminal, Reasons
    <3> QED BY <1>0, <2>1, <2>2, <3>1, <3>2, AnnouncesIs
  <2>3. CASE /\ Update(Worker, on[Worker], "interrupted", "rollback_failed")
             /\ Goto(Worker, "loop") /\ UNCHANGED data
    BY <1>0, <2>1, <2>3, WorkerTells, Unclaimed
  <2> QED BY <1>9, <2>2, <2>3 DEF Unwind
<1>10. CASE RollBack
  <2>1. on' = on /\ pc[Worker] = "stopping" /\ "stopping" \notin After
    BY <1>10 DEF RollBack, At, After
  <2>2. CASE /\ data' = [data EXCEPT ![on[Worker]] = "clean"]
             /\ Update(Worker, on[Worker], "stopped", "manual")
             /\ Goto(Worker, "ending")
    <3>1. data'[on[Worker]] = "clean" /\ \A k \in Jobs \ {on[Worker]} : data'[k] = data[k]
      BY <1>0, <2>2 DEF TypeOK
    <3>2. /\ Backed(data'[on[Worker]], "stopped", "manual")
          /\ "stopped" \in Terminal /\ "manual" \in Reasons
      BY <3>1 DEF Backed, Terminal, Reasons
    <3> QED BY <1>0, <2>1, <2>2, <3>1, <3>2, AnnouncesIs
  <2>3. CASE /\ Update(Worker, on[Worker], "interrupted", "rollback_failed")
             /\ Goto(Worker, "stranded") /\ UNCHANGED data
    BY <1>0, <2>1, <2>3, WorkerTells, Unclaimed
  <2> QED BY <1>10, <2>2, <2>3 DEF RollBack
<1>11. CASE Strand
  <2>1. Return(Worker) /\ Leave(Worker) /\ data' = data
    BY <1>11 DEF Strand
  <2> QED BY <1>0, <2>1, WorkerReturns
<1> QED BY <1>1, <1>2, <1>3, <1>4, <1>5, <1>6, <1>7, <1>8, <1>9, <1>10, <1>11 DEF ResumableStep

-----------------------------------------------------------------------------
\* The short tasks, the calls and close.

\* A step that forgets rows, or moves one into the table, brings nothing new.
LEMMA ForgetSeen ==
  ASSUME \A k \in Jobs : mem'[k] \in Seen(k) \cup {NoRow} /\ db'[k] \in Seen(k),
         \A q \in Procs : upd'[q].stage # "none" => upd'[q] = upd[q] /\ on'[q] = on[q]
  PROVE  NoNews
<1> SUFFICES ASSUME NEW k \in Resumable, NEW row \in Seen(k)', Claims(row.status, row.reason)
             PROVE  row \in Seen(k)
  BY DEF NoNews
<1>1. k \in Jobs
  BY JobsAssumption
<1> QED BY <1>1, SeenIs, SeenNext, NoRowClaims

\* What an abandoned await may have committed.
LEMMA AbandonIs ==
  ASSUME TypeOK, Books, NEW p \in Procs, Abandon(p)
  PROVE  \A k \in Jobs : db'[k] \in Seen(k) /\ (db[k] # NoRow => db'[k] # NoRow)
<1>1. CASE db' = db
  BY <1>1, SeenIs
<1>2. CASE upd[p].stage = "write" /\ db' = [db EXCEPT ![on[p]] = upd[p].row]
  <2>1. upd[p].row \in Rows /\ NoRow \notin Rows
    BY <1>2 DEF Books, Silent, NoRow, Rows, Active, Terminal, Paused
  <2>2. upd[p].row \in Seen(on[p])
    BY <1>2, SeenIs
  <2> QED BY <1>2, <2>1, <2>2, SeenIs DEF TypeOK
<1> QED BY <1>1, <1>2 DEF Abandon

\* Where the worker is not, a job that is not its own may be worked on.
LEMMA Elsewhere ==
  ASSUME NEW p \in Procs, Goes(p), NoNews,
         \A k \in Resumable : data'[k] = data[k],
         p = Worker => pc'[Worker] # "finishing"
  PROVE  Calm(p)
BY DEF Calm, DataGo, Goes, PlaceGo, Procs, Runners

\* _run_simple, the short tasks and the cancellation of a runner never announce an outcome of a
\* resumable job.
LEMMA RunnerCalm ==
  ASSUME TypeOK, Books, Outcomes, NEW p \in Runners, RunnerStep(p)
  PROVE  Calm(p)
<1> USE LabelsAre
<1>0. p \in Procs /\ on[p] \in Jobs /\ (p = Worker \/ p \in Jobs) /\ \A k \in Resumable : k \in Jobs
  BY JobsAssumption DEF Procs, Runners, TypeOK
<1>1. Steady
  <2>1. CASE phase = "closed" /\ UNCHANGED <<queue, born, startLock, phase>>
    BY <2>1 DEF Steady
  <2>2. CASE Alive /\ UNCHANGED <<queue, born, startLock, phase>>
    BY <2>2, SteadyIs
  <2> QED
    BY <2>1, <2>2 DEF RunnerStep, SkipCancelled, EnterSimple, SimpleStep, Reported, Finish,
                      Cancelled, CancelHandled, work, locks, life
<1>2. CASE SkipCancelled(p)
  <2>1. /\ p \in Jobs /\ pc[p] = "lock" /\ UNCHANGED <<mem, upd, db, data>>
        /\ pc' = [pc EXCEPT ![p] = "exit"] /\ on' = [on EXCEPT ![p] = AnyJob]
    BY <1>2 DEF SkipCancelled, GotoOn, Goto, rows
  <2>2. upd[p].stage = "none" /\ p # Worker /\ p # Closer
    BY <1>0, <2>1, ProcsAssumption DEF Books, Silent, Quiet
  <2>3. \A q \in Procs \ {p} : pc'[q] = pc[q] /\ on'[q] = on[q]
    BY <2>1 DEF TypeOK
  <2>4. pc'[p] = "exit" /\ "enqueue" \notin {pc[p], pc'[p]} /\ "exit" \in Resting
    BY <1>0, <2>1 DEF TypeOK, Resting
  <2>5. PlaceGo(p)
    BY <2>1, <2>2, <2>3, <2>4 DEF PlaceGo
  <2>6. NoNews
    BY <2>1, <2>2, <2>3, StaySeen
  <2> QED BY <1>0, <1>1, <2>1, <2>2, <2>5, <2>6, StayRows, Elsewhere DEF Goes
<1>3. CASE EnterSimple(p)
  <2>1. /\ pc[p] = "lock" /\ on[p] \notin Resumable /\ UNCHANGED <<on, db, data>>
        /\ pc[p] \in RunnerLabels \ {"get", "exit"} /\ "lock" \notin After
    BY <1>3 DEF EnterSimple, IsResumable, After
  <2>2. PICK l \in {"simple", "ending"}, st \in {"running", "cancelled"},
             rs \in {Row(on[p]).reason, "operation_missing"} :
               Goto(p, l) /\ Update(p, on[p], st, rs)
    BY <1>3 DEF EnterSimple
  <2>3. rs \in Reasons /\ st \in Active \cup Terminal
    BY <1>0, <2>2, RowType DEF Reasons, Active, Terminal
  <2>4. Goes(p) /\ Writes(on[p], st, rs)
    BY <1>1, <2>1, <2>2, <2>3, RunnerUpdates
  <2>5. pc'[p] = l
    BY <1>0, <2>2 DEF Goto, TypeOK
  <2> QED BY <1>0, <2>1, <2>2, <2>4, <2>5, WritesNoNews, Elsewhere
<1>4. CASE SimpleStep(p)
  <2>1. /\ pc[p] = "simple" /\ on[p] \notin Resumable /\ UNCHANGED <<on, db>>
        /\ pc[p] \in RunnerLabels \ {"get", "exit"} /\ "simple" \notin After
    <3>1. pc[p] = "simple" /\ UNCHANGED <<on, db>>
      BY <1>4 DEF SimpleStep
    <3>2. on[p] \notin Resumable
      BY <1>0, <3>1, JobsAssumption DEF Books, Placed
    <3> QED BY <3>1, <3>2 DEF After
  <2>2. \A k \in Resumable : data'[k] = data[k]
    <3>1. data' = data \/ \E d : data' = [data EXCEPT ![on[p]] = d]
      BY <1>4 DEF SimpleStep
    <3> QED BY <1>0, <2>1, <3>1 DEF TypeOK
  <2>3. CASE UNCHANGED <<rows, pc>>
    <3>1. Goto(p, "simple")
      BY <1>0, <2>1, <2>3 DEF Goto, TypeOK
    <3>2. Goes(p) /\ NoNews
      BY <1>1, <2>1, <2>3, <3>1, RunnerMoves
    <3> QED BY <1>0, <2>1, <2>2, <2>3, <3>2, Elsewhere
  <2>4. ASSUME NEW l \in {"report", "ending"}, NEW st \in {"running", "completed", "failed"},
               NEW rs \in {Row(on[p]).reason, "manager_error"},
               Goto(p, l), Update(p, on[p], st, rs)
        PROVE  Calm(p)
    <3>1. rs \in Reasons /\ st \in Active \cup Terminal
      BY <1>0, <2>4, RowType DEF Reasons, Active, Terminal
    <3>2. Goes(p) /\ Writes(on[p], st, rs)
      BY <1>1, <2>1, <2>4, <3>1, RunnerUpdates
    <3>3. pc'[p] = l
      BY <1>0, <2>4 DEF Goto, TypeOK
    <3> QED BY <1>0, <2>1, <2>2, <2>4, <3>2, <3>3, WritesNoNews, Elsewhere
  <2> QED BY <1>4, <2>3, <2>4 DEF SimpleStep
<1>5. CASE Reported(p)
  <2>1. /\ pc[p] = "report" /\ Return(p) /\ Goto(p, "simple") /\ UNCHANGED <<on, db, data>>
        /\ pc[p] \in RunnerLabels \ {"get", "exit"} /\ "report" \notin After
    BY <1>5 DEF Reported, After
  <2>2. p = Worker => on[p] \notin Resumable
    BY <2>1 DEF Books, Placed
  <2>3. PlaceGo(p) /\ pc'[p] = "simple"
    BY <1>0, <2>1, <2>2, RunnerPlace DEF Goto, TypeOK
  <2>4. Goes(p) /\ NoNews
    BY <1>0, <1>1, <2>1, <2>3, ReturnRows, ReturnSeen DEF Goes
  <2> QED BY <1>0, <2>1, <2>3, <2>4, Elsewhere
<1>6. CASE Finish(p) \/ CancelHandled(p)
  <2>1. Return(p) /\ Leave(p) /\ UNCHANGED <<db, data>> /\ pc[p] \in RunnerLabels
    BY <1>6 DEF Finish, CancelHandled
  <2>2. Goes(p) /\ NoNews
    BY <1>1, <2>1, RunnerReturns
  <2>3. pc'[p] \in {"get", "exit"}
    BY <1>0, <2>1 DEF Leave, GotoOn, Goto, NextLabel, TypeOK
  <2> QED BY <1>0, <2>1, <2>2, <2>3, Elsewhere
<1>7. CASE Cancelled(p)
  <2>1. pc[p] \in RunnerLabels \ {"cancelled", "exit"} /\ Abandon(p) /\ data' = data
    BY <1>7 DEF Cancelled
  <2>2. \A k \in Jobs : db'[k] \in Seen(k) /\ (db[k] # NoRow => db'[k] # NoRow)
    BY <1>0, <2>1, AbandonIs
  <2>3. ASSUME pc[p] # "get", NEW st \in {"interrupted", "cancelled"},
               NEW rs \in {"process_interrupted", "shutdown"},
               Update(p, on[p], st, rs), Goto(p, "cancelled"), on' = on
        PROVE  Calm(p)
    <3>1. db[on[p]] # NoRow
      BY <1>0, <2>1, <2>3 DEF Books, Known, Resting
    <3>2. RowsGo(p)
      BY <1>0, <2>2, <2>3, <3>1, UpdateRows, Unclaimed
    <3>3. Writes(on[p], st, rs)
      BY <1>0, <2>2, <2>3, <3>1, UpdateSeen
    <3>4. PlaceGo(p)
      <4>1. "cancelled" \notin SimpleLabels /\ "cancelled" \in After
        BY DEF After
      <4> QED BY <2>1, <2>3, <4>1, RunnerPlace
    <3>5. pc'[p] = "cancelled"
      BY <1>0, <2>3 DEF Goto, TypeOK
    <3> QED BY <1>0, <1>1, <2>1, <2>3, <3>2, <3>3, <3>4, <3>5, WritesNoNews, Unclaimed, Elsewhere DEF Goes
  <2>4. CASE upd' = [upd EXCEPT ![p] = NoUpdate] /\ Leave(p) /\ UNCHANGED mem
    <3>1. upd'[p].stage = "none" /\ \A q \in Procs \ {p} : upd'[q] = upd[q]
      BY <1>0, <2>4 DEF TypeOK, NoUpdate
    <3>2. RowsGo(p)
      BY <2>2, <2>4, <3>1 DEF RowsGo, Books, Known
    <3>3. PlaceGo(p) /\ pc'[p] \in {"get", "exit"}
      BY <2>1, <2>4, <3>1, RunnerLeaves
    <3>4. NoNews
      <4>1. \A q \in Procs \ {p} : on'[q] = on[q]
        BY <3>3 DEF PlaceGo
      <4>2. \A k \in Jobs : mem'[k] \in Seen(k)
        BY <2>4, SeenIs
      <4> QED BY <2>2, <3>1, <4>1, <4>2, ForgetSeen
    <3> QED BY <1>0, <1>1, <2>1, <3>2, <3>3, <3>4, Elsewhere DEF Goes
  <2> QED BY <1>7, <2>3, <2>4 DEF Cancelled
<1> QED BY <1>2, <1>3, <1>4, <1>5, <1>6, <1>7 DEF RunnerStep

\* SQLite answers.
LEMMA StorageCalm ==
  ASSUME TypeOK, Books, NEW p \in Procs, Storage(p)
  PROVE  Calm(p)
<1>1. RowsGo(p) /\ NoNews /\ upd[p].stage # "none"
  BY StorageRows, StorageSeen
<1>2. UNCHANGED <<queue, startLock, born, phase, pc, on, data>>
  BY DEF Storage, Capture, Commit, LoseWrite, work, locks, life
<1>3. pc[p] \notin Quiet
  BY <1>1 DEF Books, Silent
<1>4. "enqueue" # pc[p] /\ pc[p] \notin {"idle", "exit"} /\ pc[p] \notin Resting
  BY <1>3 DEF Quiet, Resting
<1>5. phase # "down"
  BY <1>4 DEF Books, Asleep
<1>6. PlaceGo(p)
  BY <1>2, <1>3, <1>4 DEF PlaceGo, Books, Known, Placed, Serving
<1> QED BY <1>1, <1>2, <1>5, <1>6 DEF Calm, Goes, Steady, DataGo

\* A job with a status has a row in the table.
LEMMA StatusKnown ==
  ASSUME Books, NEW j \in Jobs, Status(j) \in Active \cup Terminal
  PROVE  db[j] # NoRow
<1>1. NoRow.status \notin Active \cup Terminal
  BY DEF NoRow, Active, Terminal, Paused
<1> QED BY <1>1 DEF Status, Row, Books, Known

\* A caller, or close, moves to another await,
LEMMA CallPlace ==
  ASSUME TypeOK, NEW p \in Clients \cup {Closer}, NEW l, NEW i \in Jobs,
         GotoOn(p, l, i), pc[p] # "enqueue", l # "enqueue",
         p = Closer => pc[p] # "idle" \/ phase' # "open",
         l \notin Resting => db[i] # NoRow, l \in Quiet => upd'[p].stage = "none"
  PROVE  PlaceGo(p)
<1>1. p \in Procs /\ p \notin Jobs /\ p # Worker
  BY ProcsAssumption DEF Procs, Runners
<1>2. pc'[p] = l /\ on'[p] = i /\ \A q \in Procs \ {p} : pc'[q] = pc[q] /\ on'[q] = on[q]
  BY <1>1 DEF GotoOn, Goto, TypeOK
<1> QED BY <1>1, <1>2 DEF PlaceGo

\* with an _update,
LEMMA CallUpdates ==
  ASSUME TypeOK, Books, Steady, NEW p \in Clients \cup {Closer},
         p = Closer => pc[p] # "idle" \/ phase' # "open",
         NEW j \in Jobs, db[j] # NoRow,
         NEW st, NEW rs \in {"manual", "shutdown", "resume_requested"},
         st \in {"stopping", "paused", "pausing", "cancelled"},
         Update(p, j, st, rs), UNCHANGED <<db, data>>, NEW l, GotoOn(p, l, j),
         pc[p] # "enqueue", l \notin Quiet
  PROVE  Calm(p)
<1>1. p \in Procs /\ p # Worker
  BY ProcsAssumption DEF Procs, Runners
<1>2. PlaceGo(p)
  BY CallPlace DEF Quiet
<1>3. RowsGo(p)
  BY <1>1, UpdateRows, Unclaimed
<1>4. Writes(j, st, rs)
  <2>1. on'[p] = j /\ \A q \in Procs \ {p} : on'[q] = on[q]
    BY <1>1 DEF GotoOn, TypeOK
  <2>2. \A k \in Jobs : db'[k] \in Seen(k)
    BY SeenIs
  <2> QED BY <1>1, <2>1, <2>2, UpdateSeen
<1> QED BY <1>1, <1>2, <1>3, <1>4, WritesNoNews, Unclaimed, Elsewhere DEF Goes

\* after one,
LEMMA CallReturns ==
  ASSUME TypeOK, Books, Steady, NEW p \in Clients \cup {Closer},
         p = Closer => pc[p] # "idle" \/ phase' # "open",
         Return(p), UNCHANGED <<db, data>>,
         NEW l, NEW i \in Jobs, GotoOn(p, l, i), pc[p] # "enqueue", l # "enqueue",
         l \notin Resting => db[i] # NoRow
  PROVE  Calm(p)
<1>1. p \in Procs /\ p # Worker
  BY ProcsAssumption DEF Procs, Runners
<1>2. RowsGo(p) /\ upd'[p].stage = "none"
  BY <1>1, ReturnRows
<1>3. PlaceGo(p)
  BY <1>2, CallPlace
<1>4. NoNews
  <2>1. \A q \in Procs \ {p} : on'[q] = on[q]
    BY <1>3 DEF PlaceGo
  <2> QED BY <1>1, <2>1, ReturnSeen
<1> QED BY <1>1, <1>2, <1>3, <1>4, Elsewhere DEF Goes

\* or without one.
LEMMA CallMoves ==
  ASSUME TypeOK, Books, Steady, NEW p \in Clients \cup {Closer},
         p = Closer => pc[p] # "idle" \/ phase' # "open",
         UNCHANGED <<rows, db, data>>,
         NEW l, NEW i \in Jobs, GotoOn(p, l, i), pc[p] \in Quiet \ {"enqueue"}, l # "enqueue",
         l \notin Resting => db[i] # NoRow
  PROVE  Calm(p)
<1>1. p \in Procs /\ p # Worker /\ UNCHANGED <<mem, upd, db>>
  BY ProcsAssumption DEF Procs, Runners, rows
<1>2. upd[p].stage = "none"
  BY <1>1 DEF Books, Silent
<1>3. PlaceGo(p)
  BY <1>1, <1>2, CallPlace
<1>4. NoNews
  BY <1>1, <1>2, <1>3, StaySeen DEF PlaceGo
<1> QED BY <1>1, <1>3, <1>4, StayRows, Elsewhere DEF Goes

\* A step of close that stays where it is.
LEMMA GotoStays ==
  ASSUME TypeOK, NEW p \in Procs, NEW l, Goto(p, l), on' = on
  PROVE  GotoOn(p, l, on[p])
BY DEF GotoOn, Goto, TypeOK

\* The API is served by a live process.
LEMMA ListeningIs == Listening => phase # "down"
BY DEF Listening

\* pause, stop, resume and cancel; their answers; the cancellation of queued jobs.
LEMMA CallCalm ==
  ASSUME TypeOK, Books, NEW c \in Clients,
         \/ \E j \in Jobs : Pause(c, j) \/ Stop(c, j) \/ Resume(c, j) \/ Cancel(c, j)
         \/ Answer(c)
  PROVE  Calm(c)
<1>1. c \in Clients \cup {Closer} /\ c # Closer
  BY ProcsAssumption
<1>2. {"pause", "stop", "resume", "cancel"} \cap (Quiet \cup {"enqueue"}) = {}
  BY DEF Quiet, Resting
<1>3. ASSUME NEW j \in Jobs, Pause(c, j) \/ Stop(c, j) \/ Resume(c, j) PROVE Calm(c)
  <2>1. /\ Steady /\ UNCHANGED <<db, data>> /\ pc[c] # "enqueue" /\ Status(j) \in Active
        /\ \E l \in {"pause", "stop", "resume"} : GotoOn(c, l, j)
        /\ \E st \in {"pausing", "stopping", "paused"}, rs \in {"manual", "resume_requested"} :
             Update(c, j, st, rs)
    BY <1>3, ListeningIs, Zenon DEF Pause, Stop, Resume, Steady, work, locks, life, Active
  <2>2. db[j] # NoRow
    BY <2>1, StatusKnown
  <2> QED BY <1>1, <1>2, <2>1, <2>2, CallUpdates
<1>4. ASSUME NEW j \in Jobs, Cancel(c, j) PROVE Calm(c)
  <2>1. /\ Steady /\ UNCHANGED <<db, data>> /\ pc[c] = "idle" /\ Status(j) = "queued"
    BY <1>4, ListeningIs DEF Cancel, Steady, locks, life
  <2>2. db[j] # NoRow
    BY <2>1, StatusKnown DEF Active
  <2>3. CASE GotoOn(c, "clean", j) /\ UNCHANGED rows
    BY <1>1, <2>1, <2>2, <2>3, CallMoves DEF Quiet, Resting
  <2>4. CASE DropQueued(c, j)
    <3>1. c # Closer
      BY ProcsAssumption
    <3>2. Update(c, j, "cancelled", "manual") /\ GotoOn(c, "cancel", j)
      BY <2>4, <3>1 DEF DropQueued
    <3> QED BY <1>1, <1>2, <2>1, <2>2, <3>2, CallUpdates
  <2> QED BY <1>4, <2>3, <2>4 DEF Cancel
<1>5. CASE Answer(c)
  <2>1. /\ Steady /\ UNCHANGED <<db, data>> /\ pc[c] # "enqueue"
        /\ Return(c) /\ GotoOn(c, "idle", AnyJob)
    BY <1>5, SteadyIs DEF Answer, work, life
  <2> QED BY <1>1, <2>1, CallReturns, AnyJobType DEF Resting
<1> QED BY <1>3, <1>4, <1>5

\* The clean-up of a queued job that is cancelled, and the answer.
LEMMA CancelCalm ==
  ASSUME TypeOK, Books, NEW p \in Clients \cup {Closer}, CancelStep(p)
  PROVE  Calm(p)
<1>0. p \in Procs /\ on[p] \in Jobs
  BY DEF Procs, TypeOK
<1>1. CASE Cleaned(p)
  <2>1. Steady /\ UNCHANGED <<db, data>> /\ pc[p] = "clean" /\ DropQueued(p, on[p])
    BY <1>1, SteadyIs DEF Cleaned, locks, life
  <2>2. PICK rs \in {"manual", "shutdown"} :
          Update(p, on[p], "cancelled", rs) /\ GotoOn(p, "cancel", on[p])
    BY <2>1 DEF DropQueued
  <2>3. db[on[p]] # NoRow /\ "cancel" \notin Quiet
    BY <1>0, <2>1 DEF Books, Known, Resting, Quiet
  <2> QED BY <1>0, <2>1, <2>2, <2>3, CallUpdates
<1>2. CASE CancelAnswer(p)
  <2>1. Steady /\ UNCHANGED <<db, data>> /\ pc[p] = "cancel" /\ Return(p)
    BY <1>2, SteadyIs DEF CancelAnswer, work, locks, life
  <2>2. PICK l \in {"each", "idle"} : GotoOn(p, l, AnyJob)
    BY <1>2 DEF CancelAnswer
  <2> QED BY <2>1, <2>2, CallReturns, AnyJobType DEF Resting
<1> QED BY <1>1, <1>2 DEF CancelStep

\* close asks the job being served to pause.
LEMMA InterruptCalm ==
  ASSUME TypeOK, Books, Steady, NEW j \in Jobs, Interrupt(j), UNCHANGED <<db, data>>,
         pc[Closer] \in Quiet \ {"enqueue"}, pc[Closer] # "idle" \/ phase' # "open"
  PROVE  Calm(Closer)
<1>1. CASE /\ Status(j) \in {"running", "pausing"}
           /\ Update(Closer, j, "pausing", "shutdown") /\ GotoOn(Closer, "signal", j)
  <2>1. db[j] # NoRow /\ "signal" \notin Quiet
    BY <1>1, StatusKnown DEF Active, Quiet, Resting
  <2> QED BY <1>1, <2>1, CallUpdates
<1>2. CASE GotoOn(Closer, "list", AnyJob) /\ UNCHANGED rows
  BY <1>2, CallMoves, AnyJobType DEF Resting
<1> QED BY <1>1, <1>2 DEF Interrupt

\* close, up to the cancellation of the tasks.
LEMMA CloseCalm ==
  ASSUME TypeOK, Books, Close \/ CloseStep, ~Closed
  PROVE  Calm(Closer)
<1>0. Closer \in Procs /\ on[Closer] \in Jobs /\ on[Worker] \in Jobs /\ Closer \in Clients \cup {Closer}
  BY DEF Procs, Runners, TypeOK
<1>1. /\ Steady /\ UNCHANGED <<db, data>>
  BY DEF Close, CloseStep, StopWaited, SignalShutdown, PauseWaited, ListQueued, CancelEach,
         CancelTasks, Alive, Steady, work, locks, life
<1>2. {"idle", "stopwait", "pausewait", "list", "each"} \subseteq Quiet \ {"enqueue"}
  BY DEF Quiet, Resting
<1>3. CASE Close
  <2>1. pc[Closer] \in Quiet \ {"enqueue"} /\ phase' # "open"
    BY <1>2, <1>3 DEF Close, Books, Asleep
  <2>2. CASE /\ Serving(on[Worker]) /\ GotoOn(Closer, "stopwait", on[Worker]) /\ UNCHANGED rows
    <3>1. db[on[Worker]] # NoRow
      BY <2>2, LabelsAre DEF Serving, Books, Known, Resting, Procs, Runners
    <3> QED BY <1>0, <1>1, <2>1, <2>2, <3>1, CallMoves
  <2>3. CASE Interrupt(on[Worker])
    BY <1>0, <1>1, <2>1, <2>3, InterruptCalm
  <2>4. CASE GotoOn(Closer, "list", AnyJob) /\ UNCHANGED rows
    BY <1>0, <1>1, <2>1, <2>4, CallMoves, AnyJobType DEF Resting
  <2> QED BY <1>3, <2>2, <2>3, <2>4 DEF Close
<1>4. CASE StopWaited
  BY <1>0, <1>1, <1>2, <1>4, InterruptCalm DEF StopWaited
<1>5. CASE SignalShutdown
  <2>1. Return(Closer) /\ Goto(Closer, "pausewait") /\ on' = on /\ pc[Closer] = "signal"
    BY <1>5 DEF SignalShutdown
  <2>2. GotoOn(Closer, "pausewait", on[Closer]) /\ db[on[Closer]] # NoRow
    BY <1>0, <2>1, GotoStays DEF Books, Known, Resting
  <2> QED BY <1>0, <1>1, <2>1, <2>2, CallReturns
<1>6. CASE PauseWaited
  BY <1>0, <1>1, <1>2, <1>6, CallMoves, AnyJobType DEF PauseWaited, Resting
<1>7. CASE ListQueued \/ CancelTasks
  <2>1. PICK l \in {"each", "gather"} : Goto(Closer, l)
    BY <1>7 DEF ListQueued, CancelTasks
  <2>2. on' = on /\ UNCHANGED rows /\ pc[Closer] \in {"list", "each"}
    BY <1>7 DEF ListQueued, CancelTasks
  <2>3. GotoOn(Closer, l, on[Closer])
    BY <1>0, <2>1, <2>2, GotoStays
  <2> QED BY <1>0, <1>1, <1>2, <2>2, <2>3, CallMoves DEF Resting
<1>8. CASE CancelEach
  <2>1. PICK j \in todo :
          \/ UNCHANGED <<rows, pc, on>>
          \/ Status(j) = "queued" /\ GotoOn(Closer, "clean", j) /\ UNCHANGED rows
          \/ Status(j) = "queued" /\ DropQueued(Closer, j)
    BY <1>8 DEF CancelEach
  <2>2. j \in Jobs /\ pc[Closer] = "each"
    BY <1>8 DEF TypeOK, CancelEach
  <2>3. Status(j) = "queued" => db[j] # NoRow
    BY <2>2, StatusKnown DEF Active
  <2>4. CASE UNCHANGED <<rows, pc, on>>
    <3>1. GotoOn(Closer, "each", on[Closer])
      BY <1>0, <2>2, <2>4, GotoStays DEF Goto, TypeOK
    <3> QED BY <1>0, <1>1, <1>2, <2>2, <2>4, <3>1, CallMoves DEF Resting
  <2>5. CASE Status(j) = "queued" /\ GotoOn(Closer, "clean", j) /\ UNCHANGED rows
    BY <1>0, <1>1, <1>2, <2>2, <2>3, <2>5, CallMoves
  <2>6. CASE Status(j) = "queued" /\ DropQueued(Closer, j)
    <3>1. Update(Closer, j, "cancelled", "shutdown") /\ GotoOn(Closer, "cancel", j)
      BY <2>6 DEF DropQueued
    <3>2. "cancel" \notin Quiet
      BY DEF Quiet, Resting
    <3> QED BY <1>0, <1>1, <2>2, <2>3, <2>6, <3>1, <3>2, CallUpdates
  <2> QED BY <2>1, <2>4, <2>5, <2>6
<1> QED BY <1>3, <1>4, <1>5, <1>6, <1>7, <1>8 DEF CloseStep

-----------------------------------------------------------------------------
\* A job's way into the queue, to the worker and over a restart.

\* The worker takes the job at the head: it leaves the queue as it comes to be served.
LEMMA TakeStep ==
  ASSUME TypeOK, TypeOK', Books, Outcomes, Take
  PROVE  Books' /\ Outcomes'
<1> DEFINE j == Head(queue)
<1>1. /\ queue # <<>> /\ queue \in Seq(Jobs) /\ queue' = Tail(queue)
      /\ UNCHANGED <<mem, upd, db, born, startLock, phase, data>> /\ Alive /\ pc[Worker] = "get"
  BY DEF Take, TypeOK, rows, locks, life
<1>2. /\ j \in Jobs /\ j = queue[1] /\ Len(queue) \in Nat \ {0}
      /\ DOMAIN queue = 1..Len(queue) /\ DOMAIN queue' = 1..(Len(queue) - 1)
      /\ \A i \in 1..(Len(queue) - 1) : queue'[i] = queue[i + 1]
  <2>1. /\ Tail(queue) \in Seq(Jobs) /\ Len(Tail(queue)) = Len(queue) - 1 /\ j \in Jobs
        /\ \A i \in 1..Len(Tail(queue)) : Tail(queue)[i] = queue[i + 1]
    BY <1>1, HeadTailProperties
  <2>2. DOMAIN Tail(queue) = 1..Len(Tail(queue)) /\ DOMAIN queue = 1..Len(queue)
    BY <1>1, <2>1, LenProperties
  <2>3. Len(queue) \in Nat \ {0}
    BY <1>1, EmptySeq
  <2>4. j = queue[1]
    BY <1>1, <2>3
  <2> QED BY <1>1, <2>1, <2>2, <2>3, <2>4
<1>3. /\ Worker \in Procs /\ Worker \notin Clients /\ Worker \notin Jobs /\ Worker # Closer
      /\ upd[Worker].stage = "none"
  BY <1>1, ProcsAssumption DEF Procs, Runners, Books, Silent, Quiet, Resting
<1>4. /\ \A q \in Procs \ {Worker} : pc'[q] = pc[q] /\ on'[q] = on[q]
      /\ pc'[Worker] \in {"get", "exit", "lock"}
      /\ pc'[Worker] = "lock" => on'[Worker] = j
  BY <1>3 DEF Take, GotoOn, Goto, NextLabel, TypeOK
<1>5. \A k : Queued(k)' => Queued(k) /\ k # j
  <2> SUFFICES ASSUME NEW i \in 1..(Len(queue) - 1)
               PROVE  /\ queue'[i] # j
                      /\ \E n \in DOMAIN queue : queue[n] = queue'[i]
    BY <1>2 DEF Queued
  <2>1. i + 1 \in DOMAIN queue /\ 1 \in DOMAIN queue /\ i + 1 # 1 /\ queue'[i] = queue[i + 1]
    BY <1>2
  <2> QED BY <1>2, <2>1 DEF Books, QueuedOnce
<1>6. \A k : Serving(k)' => k = j
  BY <1>4 DEF Serving
<1>7. Queued(j)
  BY <1>2 DEF Queued
<1> HIDE DEF j
<1>8. Known'
  <2>1. db[j] # NoRow
    BY <1>7 DEF Books, Known, Queued
  <2>2. \A p \in Procs : pc'[p] \notin Resting => db[on'[p]] # NoRow
    BY <1>4, <2>1 DEF Books, Known, Resting
  <2>3. \A i \in DOMAIN queue' : db[queue'[i]] # NoRow
    <3>1. \A k : Queued(k)' => db[k] # NoRow
      BY <1>5 DEF Books, Known, Queued
    <3> QED BY <3>1 DEF Queued
  <2> QED BY <1>1, <2>2, <2>3 DEF Books, Known
<1>9. Silent'
  BY <1>1, <1>3, <1>4 DEF Books, Silent
<1>10. Placed'
  BY <1>3, <1>4 DEF Books, Placed, SimpleLabels, Procs, Runners
<1>11. Starts'
  <2> SUFFICES ASSUME NEW c \in Clients, pc'[c] = "enqueue"
               PROVE  /\ startLock' = c /\ ~Queued(on[c])' /\ ~Serving(on[c])'
                      /\ on'[c] \in ShortLane => pc'[on'[c]] = "exit"
    BY DEF Starts
  <2>1. c \in Procs \ {Worker} /\ pc[c] = "enqueue" /\ on'[c] = on[c] /\ on[c] \in Jobs
    BY <1>3, <1>4 DEF TypeOK, Procs
  <2>2. startLock = c /\ ~Queued(on[c]) /\ (on[c] \in ShortLane => pc[on[c]] = "exit")
    BY <2>1 DEF Books, Starts
  <2>3. on[c] # j /\ on'[c] # j
    BY <1>7, <2>1, <2>2
  <2>4. ~(pc'[Worker] \in RunnerLabels \ {"get", "exit"} /\ on'[Worker] = on'[c])
    BY <1>6, <2>3 DEF Serving
  <2>5. ~\E i \in DOMAIN queue' : queue'[i] = on'[c]
    BY <1>5, <2>1, <2>2 DEF Queued
  <2> QED BY <1>1, <1>3, <1>4, <2>1, <2>2, <2>4, <2>5 DEF Serving, Queued, Procs, Runners
<1>12. Asleep'
  BY <1>1, <1>3, <1>4 DEF Alive, Books, Asleep, Procs
<1>13. QueuedOnce'
  <2> SUFFICES ASSUME NEW i \in DOMAIN queue', NEW n \in DOMAIN queue'
               PROVE  /\ queue'[i] = queue'[n] => i = n
                      /\ ~(pc'[Worker] \in RunnerLabels \ {"get", "exit"} /\ on'[Worker] = queue'[i])
    BY DEF QueuedOnce, Serving
  <2>1. queue'[i] = queue'[n] => i = n
    <3>1. i + 1 \in DOMAIN queue /\ n + 1 \in DOMAIN queue
          /\ queue'[i] = queue[i + 1] /\ queue'[n] = queue[n + 1] /\ i \in Nat /\ n \in Nat
      BY <1>2
    <3>2. queue[i + 1] = queue[n + 1] => i + 1 = n + 1
      BY <3>1 DEF Books, QueuedOnce
    <3>3. i + 1 = n + 1 => i = n
      BY <3>1
    <3> QED BY <3>1, <3>2, <3>3
  <2>2. queue'[i] # j
    BY <1>5 DEF Queued
  <2> QED BY <1>6, <2>1, <2>2 DEF Serving
<1>14. NoNews
  BY <1>1, <1>3, <1>4, StaySeen
<1>15. \A k \in Resumable : MayRun(k)' => MayRun(k)
  <2> SUFFICES ASSUME NEW k \in Resumable, MayRun(k)' PROVE MayRun(k)
    OBVIOUS
  <2>1. CASE Queued(k)' \/ Serving(k)'
    BY <1>5, <1>6, <1>7, <2>1 DEF MayRun
  <2>2. ASSUME NEW c \in Clients, pc'[c] = "enqueue", on'[c] = k PROVE MayRun(k)
    BY <1>3, <1>4, <2>2 DEF MayRun, Procs
  <2> QED BY <2>1, <2>2 DEF MayRun
<1>16. DataGo
  BY <1>1, <1>4 DEF DataGo
<1> QED
  BY <1>8, <1>9, <1>10, <1>11, <1>12, <1>13, <1>14, <1>15, <1>16, CalmOutcomes DEF Books

\* start inserts the row of a job nobody has, and takes it on its way into the queue.
LEMMA SubmitStep ==
  ASSUME TypeOK, TypeOK', Books, Outcomes, NEW c \in Clients, NEW j \in Jobs, Submit(c, j)
  PROVE  Books' /\ Outcomes'
<1> DEFINE row == NewRow
<1>1. /\ phase = "open" /\ pc[c] = "idle" /\ startLock = Free /\ startLock' = c /\ db[j] = NoRow
      /\ db' = [db EXCEPT ![j] = row] /\ UNCHANGED <<mem, upd, queue, phase, data>>
      /\ pc' = [pc EXCEPT ![c] = "enqueue"] /\ on' = [on EXCEPT ![c] = j]
  BY DEF Submit, GotoOn, Goto, rows, life
<1>2. /\ c \in Procs /\ c \notin Jobs /\ c # Worker /\ c # Closer
      /\ pc'[c] = "enqueue" /\ on'[c] = j
      /\ \A q \in Procs \ {c} : pc'[q] = pc[q] /\ on'[q] = on[q]
  <2>1. c \in Procs /\ c \notin Jobs /\ c # Worker /\ c # Closer
    BY ProcsAssumption DEF Procs
  <2>2. pc \in [Procs -> Labels] /\ on \in [Procs -> Jobs]
    BY DEF TypeOK
  <2> QED BY <1>1, <2>1, <2>2
<1>3. /\ db'[j] = row /\ \A k \in Jobs \ {j} : db'[k] = db[k]
      /\ row # NoRow /\ ~Claims(row.status, row.reason)
  BY <1>1, NewRowIs DEF Claims, TypeOK
<1> HIDE DEF row
<1>4. upd[c].stage = "none"
  BY <1>1, <1>2 DEF Books, Silent, Quiet, Resting
<1>5. \A q \in Procs : on[q] = j => pc[q] \in Resting /\ upd[q].stage = "none"
  BY <1>1 DEF Books, Known, Silent, Quiet
<1>6. mem[j] = NoRow /\ ~Queued(j) /\ ~Serving(j)
  <2>1. Worker \in Procs
    BY DEF Procs, Runners
  <2> QED BY <1>1, <1>5, <2>1, LabelsAre DEF Books, Known, Queued, Serving, Resting
<1>7. \A k \in Jobs : \A r \in Seen(k)' : r \in Seen(k) \/ r = row
  <2> SUFFICES ASSUME NEW k \in Jobs, NEW r \in Seen(k)' PROVE r \in Seen(k) \/ r = row
    OBVIOUS
  <2>1. CASE r = mem'[k] \/ r = db'[k]
    BY <1>1, <1>3, <2>1, SeenIs
  <2>2. ASSUME NEW q \in Procs, on'[q] = k, upd'[q].stage # "none", r = upd'[q].row
        PROVE  r \in Seen(k)
    BY <1>1, <1>2, <1>4, <2>2, SeenIs
  <2> QED BY <2>1, <2>2, SeenNext
<1>8. \A r \in Seen(j) : r = NoRow
  BY <1>1, <1>5, <1>6, SeenIs
<1>9. Known'
  <2>1. born' \in [Jobs -> Nat]
    <3>1. IsFiniteSet({k \in Resumable : db[k] # NoRow})
      BY JobsAssumption, FS_Subset
    <3>2. Cardinality({k \in Resumable : db[k] # NoRow}) \in Nat
      BY <3>1, FS_CardinalityType
    <3> QED BY <3>2 DEF Submit, Books, Known
  <2>2. \A k \in Jobs : db[k] # NoRow => db'[k] # NoRow
    BY <1>1, <1>3
  <2>3. \A p \in Procs : pc'[p] \notin Resting => db'[on'[p]] # NoRow
    BY <1>2, <1>3, <2>2 DEF Books, Known, TypeOK
  <2>4. \A k \in Jobs : mem'[k] # NoRow => db'[k] # NoRow
    BY <1>1, <2>2 DEF Books, Known
  <2>5. \A i \in DOMAIN queue' : db'[queue'[i]] # NoRow
    BY <1>1, <2>2, QueueJobs DEF Books, Known
  <2> QED BY <2>1, <2>3, <2>4, <2>5 DEF Known
<1>10. Silent'
  BY <1>1, <1>2, <1>4 DEF Books, Silent
<1>11. Placed'
  BY <1>2 DEF Books, Placed, Procs, Runners
<1>12. Starts'
  <2> SUFFICES ASSUME NEW b \in Clients, pc'[b] = "enqueue"
               PROVE  /\ startLock' = b
                      /\ ~\E i \in DOMAIN queue' : queue'[i] = on'[b]
                      /\ ~(pc'[Worker] \in RunnerLabels \ {"get", "exit"} /\ on'[Worker] = on'[b])
                      /\ on'[b] \in ShortLane => pc'[on'[b]] = "exit"
    BY DEF Starts, Queued, Serving
  <2>1. b = c
    <3>1. b \in Procs /\ b # Free
      BY ProcsAssumption DEF Procs
    <3> QED BY <1>1, <1>2, <3>1 DEF Books, Starts
  <2>2. Worker \in Procs \ {c}
    BY <1>2 DEF Procs, Runners
  <2>3. j \in ShortLane => pc'[j] = "exit"
    BY <1>2, <1>5 DEF Books, Placed, Procs, Runners
  <2> QED BY <1>1, <1>2, <1>6, <2>1, <2>2, <2>3 DEF Queued, Serving
<1>13. Asleep'
  BY <1>1, <1>2 DEF Books, Asleep, Procs
<1>14. QueuedOnce'
  BY <1>1, <1>2 DEF Books, QueuedOnce, Serving, Procs, Runners
<1>15. Honest'
  <2> SUFFICES ASSUME NEW k \in Resumable, NEW r \in Seen(k)'
               PROVE  Backed(data'[k], r.status, r.reason)
    BY DEF Honest
  <2>1. k \in Jobs
    BY JobsAssumption
  <2>2. CASE r = row
    BY <1>3, <2>2 DEF Claims, Backed
  <2> QED BY <1>1, <1>7, <2>1, <2>2 DEF Outcomes, Honest
<1>16. Ends'
  <2> SUFFICES ASSUME NEW k \in Resumable, MayRun(k)', NEW r \in Seen(k)', r \in Seen(k)
               PROVE  ~Claims(r.status, r.reason)
    BY <1>3, <1>7, JobsAssumption DEF Ends
  <2>1. CASE k = j
    BY <1>8, <2>1, NoRowClaims
  <2>2. CASE k # j
    <3>1. MayRun(k)
      BY <1>1, <1>2, <2>2 DEF MayRun, Queued, Serving, Procs, Runners
    <3> QED BY <3>1 DEF Outcomes, Ends
  <2> QED BY <2>1, <2>2
<1>17. Ended'
  BY <1>1, <1>2 DEF Outcomes, Ended, Procs, Runners
<1> QED BY <1>9, <1>10, <1>11, <1>12, <1>13, <1>14, <1>15, <1>16, <1>17 DEF Books, Outcomes


\* The queue gets one job that was not in it.
LEMMA Appended ==
  ASSUME TypeOK, NEW j \in Jobs, queue' = Append(queue, j)
  PROVE  /\ DOMAIN queue' = 1..(Len(queue) + 1) /\ DOMAIN queue = 1..Len(queue) /\ Len(queue) \in Nat
         /\ queue'[Len(queue) + 1] = j /\ \A i \in DOMAIN queue : queue'[i] = queue[i]
<1>1. queue \in Seq(Jobs)
  BY DEF TypeOK
<1>2. /\ Append(queue, j) \in Seq(Jobs) /\ Len(Append(queue, j)) = Len(queue) + 1
      /\ \A i \in 1..Len(queue) : Append(queue, j)[i] = queue[i]
      /\ Append(queue, j)[Len(queue) + 1] = j
  BY <1>1, AppendProperties
<1>3. DOMAIN Append(queue, j) = 1..Len(Append(queue, j)) /\ DOMAIN queue = 1..Len(queue)
      /\ Len(queue) \in Nat
  BY <1>1, <1>2, LenProperties
<1> QED BY <1>2, <1>3

\* The job is queued, or given to a task of its own, before another one may be started.
LEMMA EnqueueStep ==
  ASSUME TypeOK, TypeOK', Books, Outcomes, NEW c \in Clients, Enqueue(c)
  PROVE  Books' /\ Outcomes'
<1> DEFINE j == on[c]
<1>1. /\ Alive /\ pc[c] = "enqueue" /\ mem' = [mem EXCEPT ![j] = NewRow] /\ startLock' = Free
      /\ UNCHANGED <<db, born, upd, phase, data>>
  BY DEF Enqueue, life
<1>2. c \in Procs /\ c \notin Jobs /\ c # Worker /\ c # Closer /\ j \in Jobs
  <2>1. c \in Procs /\ c \notin Jobs /\ c # Worker /\ c # Closer
    BY ProcsAssumption DEF Procs
  <2> QED BY <2>1 DEF TypeOK
<1>3. /\ startLock = c /\ ~Queued(j) /\ ~Serving(j) /\ (j \in ShortLane => pc[j] = "exit")
      /\ db[j] # NoRow /\ MayRun(j) /\ upd[c].stage = "none"
  BY <1>1, <1>2 DEF Books, Starts, Known, Resting, Silent, Quiet, MayRun
<1>4. \/ /\ j \in ShortLane /\ pc' = [pc EXCEPT ![c] = "idle", ![j] = "lock"]
         /\ on' = [on EXCEPT ![c] = AnyJob, ![j] = j] /\ queue' = queue
      \/ /\ j \notin ShortLane /\ pc' = [pc EXCEPT ![c] = "idle"]
         /\ on' = [on EXCEPT ![c] = AnyJob] /\ queue' = Append(queue, j)
  BY DEF Enqueue, GotoOn, Goto
<1> HIDE DEF j
<1>5. j \in Procs /\ j # Worker /\ j # Closer /\ Worker \in Procs /\ Closer \in Procs
  BY <1>2, ProcsAssumption DEF Procs, Runners
<1>6. /\ pc'[c] = "idle" /\ \A q \in Procs \ {c, j} : pc'[q] = pc[q] /\ on'[q] = on[q]
      /\ \/ j \in ShortLane /\ pc[j] = "exit" /\ pc'[j] = "lock" /\ on'[j] = j
         \/ pc'[j] = pc[j] /\ on'[j] = on[j]
  <2>1. pc \in [Procs -> Labels] /\ on \in [Procs -> Jobs]
    BY DEF TypeOK
  <2> QED BY <1>2, <1>3, <1>4, <1>5, <2>1
<1>7. /\ pc'[Worker] = pc[Worker] /\ on'[Worker] = on[Worker]
      /\ pc'[Closer] = pc[Closer]
  BY <1>2, <1>5, <1>6
<1>8. \A k : Serving(k)' <=> Serving(k)
  BY <1>7 DEF Serving
<1>9. upd[j].stage = "none" \/ (pc'[j] = pc[j] /\ on'[j] = on[j])
  BY <1>5, <1>6 DEF Books, Silent, Quiet, Resting
<1>10. \A k : Queued(k)' => Queued(k) \/ k = j
  <2>1. CASE queue' = queue
    BY <2>1 DEF Queued
  <2>2. CASE queue' = Append(queue, j)
    <3>1. /\ DOMAIN queue' = 1..(Len(queue) + 1) /\ DOMAIN queue = 1..Len(queue) /\ Len(queue) \in Nat
          /\ queue'[Len(queue) + 1] = j /\ \A i \in DOMAIN queue : queue'[i] = queue[i]
      BY <1>2, <2>2, Appended
    <3>2. \A i \in DOMAIN queue' : i \in DOMAIN queue \/ i = Len(queue) + 1
      BY <3>1
    <3> QED BY <3>1, <3>2 DEF Queued
  <2> QED BY <1>4, <2>1, <2>2
<1>11. Known'
  <2>1. \A p \in Procs : pc'[p] \notin Resting => db[on'[p]] # NoRow
    <3>1. "idle" \in Resting
      BY DEF Resting
    <3> QED BY <1>3, <1>6, <3>1 DEF Books, Known
  <2>2. \A k \in Jobs : mem'[k] # NoRow => db[k] # NoRow
    BY <1>1, <1>3 DEF Books, Known, TypeOK
  <2>3. \A i \in DOMAIN queue' : db[queue'[i]] # NoRow
    <3>1. \A k : Queued(k) => db[k] # NoRow
      BY DEF Books, Known, Queued
    <3> QED BY <1>3, <1>10, <3>1 DEF Queued
  <2> QED BY <1>1, <2>1, <2>2, <2>3 DEF Books, Known
<1>12. Silent'
  BY <1>1, <1>3, <1>6, <1>9 DEF Books, Silent
<1>13. Placed'
  <2>1. ASSUME NEW p \in Jobs, pc'[p] # "exit"
        PROVE  on'[p] = p /\ p \in ShortLane /\ pc'[p] \notin Resting
    <3>1. p \in Procs \ {c}
      BY <1>2 DEF Procs, Runners
    <3> QED BY <1>6, <2>1, <3>1 DEF Books, Placed, Resting
  <2> QED BY <1>7, <2>1 DEF Books, Placed
<1>14. \A b \in Clients : pc'[b] # "enqueue"
  <2> SUFFICES ASSUME NEW b \in Clients, b # c PROVE pc'[b] # "enqueue"
    BY <1>6
  <2>1. b \in Procs \ {c, j}
    BY <1>2, ProcsAssumption DEF Procs
  <2> QED BY <1>3, <1>6, <2>1 DEF Books, Starts
<1>15. Starts'
  BY <1>14 DEF Starts
<1>16. Asleep'
  BY <1>1, <1>7 DEF Alive, Books, Asleep
<1>17. QueuedOnce'
  <2>1. \A i \in DOMAIN queue' :
          ~(pc'[Worker] \in RunnerLabels \ {"get", "exit"} /\ on'[Worker] = queue'[i])
    <3>1. \A i \in DOMAIN queue : ~(pc[Worker] \in RunnerLabels \ {"get", "exit"} /\ on[Worker] = queue[i])
      BY DEF Books, QueuedOnce, Serving
    <3>2. \A i \in DOMAIN queue' : queue'[i] = j \/ \E n \in DOMAIN queue : queue[n] = queue'[i]
      BY <1>10 DEF Queued
    <3> QED BY <1>3, <1>7, <3>1, <3>2 DEF Serving
  <2>2. \A i, n \in DOMAIN queue' : queue'[i] = queue'[n] => i = n
    <3>1. CASE queue' = queue
      BY <3>1 DEF Books, QueuedOnce
    <3>2. CASE queue' = Append(queue, j)
      <4>1. /\ DOMAIN queue' = 1..(Len(queue) + 1) /\ DOMAIN queue = 1..Len(queue)
            /\ Len(queue) \in Nat
            /\ queue'[Len(queue) + 1] = j /\ \A i \in DOMAIN queue : queue'[i] = queue[i]
        BY <1>2, <3>2, Appended
      <4>2. \A i \in DOMAIN queue' : i \in DOMAIN queue \/ i = Len(queue) + 1
        BY <4>1
      <4>3. \A i \in DOMAIN queue : queue'[i] # j
        BY <1>3, <4>1 DEF Queued
      <4> QED BY <4>1, <4>2, <4>3 DEF Books, QueuedOnce
    <3> QED BY <1>4, <3>1, <3>2
  <2> QED BY <2>1, <2>2 DEF QueuedOnce, Serving
<1>18. NoNews
  <2> SUFFICES ASSUME NEW k \in Resumable, NEW row \in Seen(k)', Claims(row.status, row.reason)
               PROVE  row \in Seen(k)
    BY DEF NoNews
  <2>1. mem'[k] = mem[k] \/ mem'[k] = NewRow
    BY <1>1, <1>2, JobsAssumption DEF TypeOK
  <2>2. row # NewRow
    BY NewRowIs DEF Claims
  <2>3. \A q \in Procs : upd'[q].stage # "none" => upd'[q] = upd[q] /\ on'[q] = on[q]
    BY <1>1, <1>3, <1>6, <1>9
  <2> QED BY <1>1, <2>1, <2>2, <2>3, SeenIs, SeenNext
<1>19. \A k \in Resumable : MayRun(k)' => MayRun(k)
  BY <1>3, <1>7, <1>8, <1>10, <1>14 DEF MayRun
<1>20. DataGo
  BY <1>1, <1>7 DEF DataGo
<1> QED
  BY <1>11, <1>12, <1>13, <1>15, <1>16, <1>17, <1>18, <1>19, <1>20, CalmOutcomes DEF Books

\* The end of the process: nobody is anywhere, and only the table is left.
LEMMA DownStep ==
  ASSUME TypeOK, Books, Outcomes, Down
  PROVE  Books' /\ Outcomes'
<1>1. /\ phase' = "down" /\ queue' = <<>> /\ UNCHANGED <<db, born, data>>
      /\ \A k \in Jobs : mem'[k] = NoRow
      /\ \A p \in Procs : upd'[p] = NoUpdate /\ pc'[p] = RestLabel(p)
  BY DEF Down, Cold
<1>2. \A p \in Procs : /\ upd'[p].stage = "none" /\ pc'[p] \in {"idle", "exit"}
                       /\ p \in Runners => pc'[p] = "exit"
                       /\ p = Closer => pc'[p] = "idle"
  <2>1. NoUpdate.stage = "none"
    BY DEF NoUpdate
  <2> QED BY <1>1, <2>1, ProcsAssumption DEF RestLabel, Runners
<1>3. Worker \in Procs /\ Worker \in Runners /\ Closer \in Procs /\ Jobs \subseteq Procs \cap Runners
  BY DEF Procs, Runners
<1>4. \A c \in Clients : pc'[c] # "enqueue"
  BY <1>2 DEF Procs
<1>5. pc'[Worker] = "exit" /\ \A k : ~Serving(k)' /\ ~Queued(k)'
  BY <1>1, <1>2, <1>3 DEF Serving, Queued
<1>6. Books'
  <2>1. Known' /\ Silent'
    BY <1>1, <1>2 DEF Books, Known, Silent, Resting
  <2>2. Placed' /\ Starts' /\ Asleep'
    BY <1>2, <1>3, <1>4, <1>5 DEF Placed, Starts, Asleep, SimpleLabels
  <2>3. QueuedOnce'
    BY <1>1 DEF QueuedOnce
  <2> QED BY <2>1, <2>2, <2>3 DEF Books
<1>7. Outcomes'
  <2>1. NoNews
    <3>1. \A k \in Jobs : mem'[k] \in Seen(k) \cup {NoRow} /\ db'[k] \in Seen(k)
      BY <1>1, SeenIs
    <3> QED BY <1>2, <3>1, ForgetSeen
  <2>2. \A k \in Resumable : ~MayRun(k)'
    BY <1>4, <1>5 DEF MayRun
  <2>3. DataGo
    BY <1>1, <1>5 DEF DataGo
  <2> QED BY <2>1, <2>2, <2>3, CalmOutcomes
<1> QED BY <1>6, <1>7

\* What a restart makes of a row claims no outcome that the row did not claim.
LEMMA RecoveredIs ==
  ASSUME NEW row \in Rows \cup {NoRow}
  PROVE  \/ Recovered(row, TRUE) = row
         \/ ~Claims(Recovered(row, TRUE).status, Recovered(row, TRUE).reason)
<1>0. row.status # "absent" => row \in Rows
  <2>1. NoRow.status = "absent"
    BY DEF NoRow
  <2> QED BY <2>1
<1>1. CASE row.status = "queued"
  <2>1. row \in Rows
    BY <1>0, <1>1
  <2>2. Recovered(row, TRUE) = [row EXCEPT !.status = "cancelled", !.reason = "shutdown"]
    BY <1>1 DEF Recovered
  <2>3. Recovered(row, TRUE).status = "cancelled" /\ Recovered(row, TRUE).reason = "shutdown"
    BY <2>1, <2>2 DEF Rows
  <2> QED BY <2>3 DEF Claims
<1>2. CASE row.status \in {"running", "pausing", "stopping"}
  <2>1. row \in Rows
    BY <1>0, <1>2
  <2>2. Recovered(row, TRUE) = [row EXCEPT !.status = "interrupted", !.reason = "process_interrupted"]
    BY <1>2 DEF Recovered
  <2>3. /\ Recovered(row, TRUE).status = "interrupted"
        /\ Recovered(row, TRUE).reason = "process_interrupted"
    BY <2>1, <2>2 DEF Rows
  <2> QED BY <2>3 DEF Claims
<1>3. CASE row.status \notin {"queued", "running", "pausing", "stopping"}
  BY <1>3 DEF Recovered
<1> QED BY <1>1, <1>2, <1>3

\* recover_for_startup: what is queued again is paused, so it was never said to be over.
LEMMA RecoverStep ==
  ASSUME TypeOK, TypeOK', Books, Outcomes, Recover
  PROVE  Books' /\ Outcomes'
<1> DEFINE kept == {j \in Resumable : db'[j].status \in Paused}
<1>1. /\ phase = "down" /\ phase' = "open" /\ UNCHANGED <<upd, on, born, data>>
      /\ \A k \in Jobs : /\ db'[k] = Recovered(db[k], IsResumable(k))
                         /\ mem'[k] = IF k \in kept THEN db'[k] ELSE NoRow
      /\ queue' \in Oldest(kept) /\ pc' = [pc EXCEPT ![Worker] = "get"]
  BY DEF Recover, Goto
<1>2. /\ Worker \in Procs /\ Closer \in Procs /\ Closer # Worker /\ Jobs \subseteq Procs \ {Worker}
      /\ Clients \subseteq Procs \ {Worker}
  BY ProcsAssumption DEF Procs, Runners
<1>3. /\ pc'[Worker] = "get" /\ pc'[Closer] = "idle"
      /\ \A p \in Procs \ {Worker} : pc'[p] \in {"idle", "exit"}
      /\ \A p \in Jobs : pc'[p] = "exit"
      /\ \A p \in Procs : upd'[p].stage = "none" /\ pc'[p] \in Resting
  <2>1. pc'[Worker] = "get" /\ \A p \in Procs \ {Worker} : pc'[p] = pc[p]
    BY <1>1, <1>2 DEF TypeOK
  <2>2. pc[Closer] = "idle" /\ \A p \in Procs : pc[p] \in {"idle", "exit"}
    BY <1>1 DEF Books, Asleep
  <2>3. {"idle", "exit", "get"} \subseteq Resting /\ Resting \subseteq Quiet
    BY DEF Resting, Quiet
  <2>4. \A p \in Jobs : pc[p] = "exit"
    BY <1>2, <2>2, <2>3 DEF Books, Placed
  <2>5. \A p \in Procs : upd[p].stage = "none"
    BY <2>2, <2>3 DEF Books, Silent
  <2> QED BY <1>1, <1>2, <2>1, <2>2, <2>3, <2>4, <2>5
<1>4. \A k \in Resumable : k \in Jobs /\ IsResumable(k)
  BY JobsAssumption DEF IsResumable
<1>5. \A k \in kept : db'[k] # NoRow /\ k \in Resumable
  <2>1. NoRow.status = "absent"
    BY DEF NoRow
  <2> QED BY <2>1 DEF Paused
<1>6. \A i \in DOMAIN queue' : queue'[i] \in kept
  BY <1>1 DEF Oldest
<1>7. \A i, n \in DOMAIN queue' : queue'[i] = queue'[n] => i = n
  <2>1. /\ DOMAIN queue' = 1..Cardinality(kept)
        /\ \A i, n \in DOMAIN queue' : i < n => born[queue'[i]] < born[queue'[n]]
    BY <1>1 DEF Oldest
  <2>2. DOMAIN queue' \subseteq Nat
    BY <2>1
  <2>3. \A i \in DOMAIN queue' : born[queue'[i]] \in Nat
    BY <1>4, <1>5, <1>6 DEF Books, Known
  <2> SUFFICES ASSUME NEW i \in DOMAIN queue', NEW n \in DOMAIN queue', queue'[i] = queue'[n], i # n
               PROVE  FALSE
    OBVIOUS
  <2>4. i < n \/ n < i
    BY <2>2
  <2>5. born[queue'[i]] < born[queue'[i]]
    BY <2>1, <2>4
  <2> QED BY <2>3, <2>5
<1>8. \A k : ~Serving(k)'
  BY <1>3 DEF Serving
<1>9. \A c \in Clients : pc'[c] # "enqueue"
  BY <1>2, <1>3
<1> HIDE DEF kept
<1>10. Books'
  <2>1. Known'
    <3>1. \A k \in Jobs : mem'[k] # NoRow => db'[k] # NoRow
      BY <1>1
    <3> QED BY <1>1, <1>3, <1>5, <1>6, <3>1 DEF Books, Known
  <2>2. Silent'
    BY <1>3 DEF Silent
  <2>3. Placed' /\ Starts' /\ Asleep'
    BY <1>1, <1>3, <1>9 DEF Placed, Starts, Asleep, SimpleLabels
  <2>4. QueuedOnce'
    BY <1>3, <1>7 DEF QueuedOnce, Serving
  <2> QED BY <2>1, <2>2, <2>3, <2>4 DEF Books
<1>11. ASSUME NEW k \in Resumable, NEW row \in Seen(k)'
       PROVE  row \in {db'[k], NoRow}
  BY <1>1, <1>3, <1>4, <1>11, SeenNext
<1>12. \A k \in Resumable : Backed(data'[k], db'[k].status, db'[k].reason)
  <2> SUFFICES ASSUME NEW k \in Resumable
               PROVE  Backed(data'[k], db'[k].status, db'[k].reason)
    OBVIOUS
  <2>1. db'[k] = db[k] \/ ~Claims(db'[k].status, db'[k].reason)
    BY <1>1, <1>4, RecoveredIs DEF TypeOK
  <2>2. CASE db'[k] = db[k]
    BY <1>1, <2>2, SeenIs DEF Outcomes, Honest
  <2>3. CASE ~Claims(db'[k].status, db'[k].reason)
    BY <2>3 DEF Claims, Backed
  <2> QED BY <2>1, <2>2, <2>3
<1>13. Honest'
  BY <1>11, <1>12, NoRowClaims DEF Honest
<1>14. Ends'
  <2> SUFFICES ASSUME NEW k \in Resumable, MayRun(k)', NEW row \in Seen(k)'
               PROVE  ~Claims(row.status, row.reason)
    BY DEF Ends
  <2>1. k \in kept
    BY <1>6, <1>8, <1>9 DEF MayRun, Queued
  <2>2. db'[k].status \in Paused
    BY <2>1 DEF kept
  <2>3. ~Claims(db'[k].status, db'[k].reason)
    BY <1>12, <2>2 DEF Backed, Claims, Paused, Terminal
  <2> QED BY <1>11, <2>3, NoRowClaims
<1>15. Ended'
  BY <1>3 DEF Ended
<1> QED BY <1>10, <1>13, <1>14, <1>15 DEF Outcomes

\* A new installation has no rows.
LEMMA OutcomesInit == Init => Books /\ Outcomes
<1> SUFFICES ASSUME Init PROVE Books /\ Outcomes
  OBVIOUS
<1>0. TypeOK
  BY InitType
<1>1. /\ phase = "open" /\ queue = <<>> /\ born = [k \in Jobs |-> 0]
      /\ \A k \in Jobs : db[k] = NoRow /\ mem[k] = NoRow
      /\ \A p \in Procs : upd[p].stage = "none"
  <2>1. NoUpdate.stage = "none"
    BY DEF NoUpdate
  <2> QED BY <2>1 DEF Init, Cold
<1>2. /\ Worker \in Procs /\ Closer \in Procs /\ Closer # Worker /\ Jobs \subseteq Procs \ {Worker}
      /\ Clients \subseteq Procs \ {Worker}
  BY ProcsAssumption DEF Procs, Runners
<1>3. /\ pc[Worker] = "get" /\ \A p \in Procs \ {Worker} : pc[p] = RestLabel(p)
  BY <1>2 DEF Init, Cold
<1>4. /\ pc[Closer] = "idle"
      /\ \A p \in Jobs : pc[p] = "exit"
      /\ \A c \in Clients : pc[c] # "enqueue"
      /\ \A p \in Procs : pc[p] \in Resting
  BY <1>2, <1>3, ProcsAssumption DEF RestLabel, Runners, Resting
<1>5. \A k : ~Serving(k) /\ ~Queued(k)
  BY <1>1, <1>3 DEF Serving, Queued
<1>6. Books
  <2>1. Known /\ Silent
    BY <1>1, <1>4 DEF Known, Silent
  <2>2. Placed /\ Starts /\ Asleep
    BY <1>1, <1>3, <1>4 DEF Placed, Starts, Asleep, SimpleLabels
  <2>3. QueuedOnce
    BY <1>1 DEF QueuedOnce
  <2> QED BY <2>1, <2>2, <2>3 DEF Books
<1>7. \A k \in Resumable : ~MayRun(k) /\ \A row \in Seen(k) : row = NoRow
  BY <1>1, <1>4, <1>5, JobsAssumption, SeenIs DEF MayRun
<1> QED BY <1>3, <1>6, <1>7, NoRowClaims DEF Outcomes, Honest, Ends, Ended

\* Every step of the manager keeps the invariant.
LEMMA OutcomesStep ==
  TypeOK /\ Books /\ Outcomes /\ [Next]_vars => Books' /\ Outcomes'
<1> SUFFICES ASSUME TypeOK, Books, Outcomes, [Next]_vars PROVE Books' /\ Outcomes'
  OBVIOUS
<1>1. TypeOK'
  BY TypeStep
<1>2. ASSUME NEW p \in Procs, Calm(p) PROVE Books' /\ Outcomes'
  BY <1>1, <1>2, GoesBooks, GoesOutcomes DEF Calm
<1>3. CASE Take
  BY <1>1, <1>3, TakeStep
<1>4. CASE EnterResumable
  <2>1. /\ Steady /\ UNCHANGED <<rows, db, on, data>> /\ Goto(Worker, "loop") /\ pc[Worker] = "lock"
    BY <1>4, SteadyIs DEF EnterResumable, work, life
  <2>2. "loop" \in HoldLabels \ SimpleLabels /\ "lock" \notin After
    BY LabelsAre DEF After
  <2> QED BY <1>2, <2>1, <2>2, WorkerMoves DEF Procs, Runners
<1>5. CASE OperationStep
  BY <1>2, <1>5, OperationCalm DEF Procs, Runners
<1>6. CASE ResumableStep
  <2>1. CASE Calm(Worker)
    BY <1>2, <2>1 DEF Procs, Runners
  <2>2. CASE Goes(Worker) /\ Announces
    BY <1>1, <2>2, GoesBooks, AnnouncesOutcomes DEF Procs, Runners
  <2> QED BY <1>6, <2>1, <2>2, ResumableCalm
<1>7. ASSUME NEW p \in Runners, RunnerStep(p) PROVE Books' /\ Outcomes'
  BY <1>2, <1>7, RunnerCalm DEF Procs
<1>8. ASSUME NEW c \in Clients, CallBegins(c) \/ CallStep(c) PROVE Books' /\ Outcomes'
  <2>1. ASSUME NEW j \in Jobs, Submit(c, j) PROVE Books' /\ Outcomes'
    BY <1>1, <2>1, SubmitStep
  <2>2. CASE Enqueue(c)
    BY <1>1, <2>2, EnqueueStep
  <2>3. CASE \/ \E j \in Jobs : Pause(c, j) \/ Stop(c, j) \/ Resume(c, j) \/ Cancel(c, j)
             \/ Answer(c)
    BY <1>2, <2>3, CallCalm DEF Procs
  <2> QED BY <1>8, <2>1, <2>2, <2>3 DEF CallBegins, CallStep
<1>9. ASSUME NEW p \in Clients \cup {Closer}, CancelStep(p) PROVE Books' /\ Outcomes'
  BY <1>2, <1>9, CancelCalm DEF Procs
<1>10. ASSUME NEW p \in Procs, Storage(p) PROVE Books' /\ Outcomes'
  BY <1>2, <1>10, StorageCalm
<1>11. CASE Close \/ CloseStep
  <2>1. CASE Closed
    BY <2>1, DownStep DEF Closed
  <2>2. CASE ~Closed
    BY <1>2, <1>11, <2>2, CloseCalm DEF Procs
  <2> QED BY <2>1, <2>2
<1>12. CASE Crash
  BY <1>12, DownStep DEF Crash
<1>13. CASE Recover
  BY <1>1, <1>13, RecoverStep
<1>14. CASE UNCHANGED vars
  BY <1>14 DEF vars, Books, Known, Silent, Placed, Starts, Asleep, QueuedOnce, Queued, Serving,
               Outcomes, Honest, Ends, Ended, Seen, MayRun
<1> QED
  BY <1>3, <1>4, <1>5, <1>6, <1>7, <1>8, <1>9, <1>10, <1>11, <1>12, <1>13, <1>14 DEF Next, WorkerStep

-----------------------------------------------------------------------------
\* Results.

\* The invariant holds of every behaviour of the manager.
THEOREM BooksAndOutcomes == Spec => [](TypeOK /\ Books /\ Outcomes)
<1>1. Init => TypeOK /\ Books /\ Outcomes
  BY InitType, OutcomesInit
<1>2. TypeOK /\ Books /\ Outcomes /\ [Next]_vars => TypeOK' /\ Books' /\ Outcomes'
  BY TypeStep, OutcomesStep
<1> QED BY <1>1, <1>2, PTL DEF Spec

\* A terminal status tells the truth about the database: completed work is all there, and a
\* stopped or failed resumable job was rolled back before _update said so.  Nothing is assumed of the
\* order in which writes commit, of writes, rollbacks or the process failing, or of the shutdown.
THEOREM OutcomesTrue == Spec => []TerminalMatchesData
<1>1. Outcomes => TerminalMatchesData
  <2> SUFFICES ASSUME Outcomes, NEW j \in Resumable
               PROVE  Backed(data[j], Status(j), Row(j).reason)
    BY DEF TerminalMatchesData, Backed
  <2> QED BY RowSeen DEF Outcomes, Honest, Status
<1> QED BY <1>1, BooksAndOutcomes, PTL

\* A job waits in _queue at most once, and never while the worker serves it.
THEOREM WaitsOnce == Spec => []QueuedOnce
<1>1. Books => QueuedOnce
  BY DEF Books
<1> QED BY <1>1, BooksAndOutcomes, PTL

-----------------------------------------------------------------------------
\* One row after another: when nobody overtakes the runner of a job.

\* A cancellation that awaits may reach a job the worker has begun; these
\* settings leave no await, and no second client, between its look and its write.
Orderly == /\ CommitInOrder
           /\ "cancel" \in Calls => /\ Compared = {} /\ Cleaning = {}
                                    /\ \A c, d \in Clients : c = d

Over(row) == row.status \in Terminal
Live(j)   == mem[j].status \in Active
Bound(j)  == \E c \in Clients : pc[c] = "enqueue" /\ on[c] = j

\* A write of the row of a job in flight.
Writing(p, j) == on[p] = j /\ upd[p].stage = "write"

\* Of two writes in flight one is ahead, and what is behind a terminal row is terminal.
Lined(j) == \A p, q \in Procs : Writing(p, j) /\ Writing(q, j) /\ p # q =>
              /\ p \in ahead[q] \/ q \in ahead[p]
              /\ p \in ahead[q] /\ Over(upd[p].row) => Over(upd[q].row)

\* A job without snapshot has ended, or is being inserted.
Dropped(j) == mem[j] = NoRow => /\ j \in Resumable /\ db[j].status \in Active => Bound(j)
                                /\ db[j].status = "queued" => Bound(j)

\* What the table calls terminal has nothing else coming.
Finished(j) == Over(db[j]) => ~Live(j) /\ \A p \in Procs : Writing(p, j) => Over(upd[p].row)

\* A terminal row in flight or lost is in memory, and when it is written in the table.
LastWord(j) == \A p \in Procs : on[p] = j /\ Over(upd[p].row) =>
                 /\ upd[p].stage \in {"write", "lost"} => ~Live(j)
                 /\ upd[p].stage = "written" => Over(db[j])

\* A job whose provider is awaited has not ended.
Uncaught(j) == \A p \in Procs : on[p] = j /\ upd[p].stage = "capture" => Live(j)

\* Nobody writes a row as if the job had not begun.
Begun(j) == \A p \in Procs : on[p] = j /\ upd[p].stage \in {"capture", "write"} =>
              upd[p].row.status # "queued"

\* The terminal rows of a job agree.
Agreed(j) == \E t \in Terminal : /\ Over(mem[j]) => mem[j].status = t
                                 /\ Over(db[j]) => db[j].status = t
                                 /\ \A p \in Procs : Writing(p, j) /\ Over(upd[p].row) =>
                                                      upd[p].row.status = t

RowsOf(j) == /\ Lined(j) /\ Dropped(j) /\ Finished(j) /\ LastWord(j)
             /\ Uncaught(j) /\ Begun(j) /\ Agreed(j)

\* Where the worker has a resumable job in hand that has not ended.
Working == {"run", "told", "point", "wait", "pausing", "parked", "breaking",
            "finishing", "unwinding", "stopping", "stranded"}

\* What a runner at a label has made of its job.
Suits(l, j) == /\ l \in After => ~Live(j)
               /\ l \in SimpleLabels => mem[j].status = "running"
               /\ l \in Working => mem[j].status \in Active \ {"queued"}
               /\ l \in OperationLabels => mem[j].status \notin Paused
               /\ l \in Working \cup {"loop"} => j \in Resumable

\* A provider is awaited by the worker only, at the beginning or at the end.
Captures(p) == /\ p = Worker /\ on[p] \in Compared
               /\ \/ pc[p] = "run" /\ upd[p].row.status = "running"
                  \/ pc[p] \in After /\ Over(upd[p].row)

InPlace(p) == IF upd[p].stage = "capture" THEN Captures(p)
              ELSE p \in Runners => Suits(pc[p], on[p])

\* An operation nobody has taken is queued, and a job being inserted is nobody's.
Waiting == /\ \A j \in ops : j \in Jobs \ Resumable /\ mem[j].status = "queued"
           /\ \A j \in Jobs : Bound(j) => /\ mem[j] = NoRow /\ db[j].status = "queued"
                                          /\ \A p \in Procs : on[p] = j => upd[p].stage = "none"

\* What only a cancellation, a shutdown or a failing rollback brings.
Absent == /\ \A c \in Clients : pc[c] # "clean" /\ (pc[c] = "cancel" => "cancel" \in Calls)
          /\ phase = "open" => why # "shutdown" /\ \A j \in Jobs : request[j] # "shutdown"
          /\ pc[Worker] = "stranded" => RollbackMayFail

\* A short task is never in the queue.
Lanes == /\ \A i \in DOMAIN queue : queue[i] \notin ShortLane
         /\ pc[Worker] \notin {"get", "exit"} => on[Worker] \notin ShortLane

Idle == phase = "down" => /\ mem = Cold.mem /\ upd = Cold.upd
                          /\ request = Cold.request /\ why = "" /\ ops = {}

Open == /\ \A j \in Jobs : RowsOf(j)
        /\ \A p \in Procs : InPlace(p)
        /\ Waiting /\ Absent

\* A shutdown that nobody else disturbs is as orderly as the open service.
Gentle == Drained /\ Compared = {} /\ Cleaning = {}
Ready  == phase = "open" \/ (phase = "closing" /\ Gentle)

\* The callers of a service that drained have left, and the shutdown of queued jobs
\* awaits nothing when there is nothing to clean.
Retired == /\ phase = "closing" /\ Drained => \A c \in Clients : pc[c] = "idle"
           /\ pc[Closer] = "clean" => Cleaning # {}

\* A job that is about to have a runner.
Expected(j) == Queued(j) \/ \E p \in Runners : pc[p] = "lock" /\ on[p] = j

\* An operation that is missing was cancelled.
Missing == \A j \in Jobs \ (Resumable \cup ops) : Expected(j) => Status(j) = "cancelled"

Manager == Lanes /\ Idle /\ Retired /\ (Ready => Open /\ Missing)

\* What is terminal in the table stays so,
Lasting == \A k \in Jobs : Over(db[k]) => db'[k].status = db[k].status

\* and a terminal snapshot stays, or the table says the same.
Firm == \A k \in Jobs : Over(mem[k]) => \/ mem'[k].status = mem[k].status
                                        \/ mem'[k] = NoRow /\ db[k].status = mem[k].status
Onward == Open' /\ Firm

\* No job comes to life, and nobody leaves one that lives.
Stands == \A k \in Resumable : Live(k)' => Live(k) /\ (Serving(k) => Serving(k)')

\* The statuses, and what stands for no row and no update.
LEMMA StatusesAre ==
  /\ Active = {"queued", "running", "pausing", "stopping", "paused", "interrupted"}
  /\ Terminal = {"completed", "failed", "stopped", "cancelled"}
  /\ Paused = {"paused", "interrupted"}
  /\ NoRow.status = "absent" /\ NoUpdate.stage = "none"
BY DEF Active, Terminal, Paused, NoRow, NoUpdate

\* The status a caller reads of a live job is that of the snapshot, and the other way round.
LEMMA StatusLive ==
  ASSUME TypeOK, NEW j \in Jobs
  PROVE  /\ Live(j) => Row(j) = mem[j] /\ Status(j) = mem[j].status /\ mem[j] # NoRow
         /\ Dropped(j) /\ ~Bound(j) /\ Status(j) \in Active /\ j \in Resumable => Live(j)
         /\ Dropped(j) /\ ~Bound(j) /\ Status(j) = "queued" => Live(j)
         /\ mem[j] # NoRow /\ Status(j) \in Active => Live(j)
BY StatusesAre DEF Live, Row, Status, Dropped

\* What _update does, with the status it leaves in memory and the write it issues.
LEMMA UpdateMeans ==
  ASSUME TypeOK, NEW p \in Procs, NEW j \in Jobs, NEW st, NEW rs, Update(p, j, st, rs), CommitInOrder
  PROVE  /\ \A q \in Procs \ {p} : upd'[q] = upd[q]
         /\ \A k \in Jobs \ {j} : mem'[k] = mem[k]
         /\ \/ /\ MayCapture(j, st) /\ mem'[j].status = Status(j)
               /\ upd'[p].stage = "capture" /\ upd'[p].row.status = st
            \/ /\ mem'[j].status = st
               /\ upd'[p].stage = "none" \/ (upd'[p].stage = "write" /\ upd'[p].row.status = st)
         /\ \A q, r \in Procs \ {p} : q \in ahead'[r] <=> q \in ahead[r]
         /\ upd'[p].stage = "write" => \A q \in Procs \ {p} :
              p \notin ahead'[q] /\ (Writing(q, j) => q \in ahead'[p])
<1> DEFINE row == [status |-> st, reason |-> rs, started |-> Row(j).started \/ st = "running"]
<1>r. row.status = st
  OBVIOUS
<1>0. ASSUME NEW r, NEW u, mem' = [mem EXCEPT ![j] = r], upd' = [upd EXCEPT ![p] = u]
      PROVE  /\ \A q \in Procs \ {p} : upd'[q] = upd[q]
             /\ \A k \in Jobs \ {j} : mem'[k] = mem[k]
             /\ mem'[j] = r /\ upd'[p] = u
  BY <1>0 DEF TypeOK
<1>b. ASSUME ahead' = Behind(p) PROVE \A q, r \in Procs \ {p} : q \in ahead'[r] <=> q \in ahead[r]
  BY <1>b DEF Behind
<1>i. ASSUME NEW r, Issue(p, j, r)
      PROVE  /\ upd' = [upd EXCEPT ![p] = [stage |-> "write", row |-> r]]
             /\ \A q, s \in Procs \ {p} : q \in ahead'[s] <=> q \in ahead[s]
             /\ \A q \in Procs \ {p} : p \notin ahead'[q] /\ (Writing(q, j) => q \in ahead'[p])
  <2>1. ahead' = [Behind(p) EXCEPT ![p] =
                   {q \in Procs \ {p} : CommitInOrder /\ on[q] = j /\ upd[q].stage = "write"}]
    BY <1>i DEF Issue
  <2>2. ahead'[p] = {q \in Procs \ {p} : CommitInOrder /\ on[q] = j /\ upd[q].stage = "write"}
    BY <2>1 DEF Behind
  <2>3. \A q \in Procs \ {p} : ahead'[q] = ahead[q] \ {p}
    BY <2>1 DEF Behind
  <2> QED BY <1>i, <2>2, <2>3 DEF Issue, Writing
<1>s. Row(j).status = Status(j) /\ \A b : [Row(j) EXCEPT !.started = b].status = Status(j)
  <2>1. Row(j) \in Rows \cup {NoRow}
    BY RowType
  <2> QED BY <2>1 DEF Rows, NoRow, Status
<1> HIDE DEF row
<1>1. CASE /\ MayCapture(j, st)
           /\ mem' = [mem EXCEPT ![j] = [Row(j) EXCEPT !.started = row.started]]
           /\ upd' = [upd EXCEPT ![p] = [stage |-> "capture", row |-> row]]
           /\ ahead' = Behind(p)
  <2>a. /\ mem' = [mem EXCEPT ![j] = [Row(j) EXCEPT !.started = row.started]]
        /\ upd' = [upd EXCEPT ![p] = [stage |-> "capture", row |-> row]]
    BY <1>1
  <2>b. /\ \A q \in Procs \ {p} : upd'[q] = upd[q]
        /\ \A k \in Jobs \ {j} : mem'[k] = mem[k]
        /\ mem'[j] = [Row(j) EXCEPT !.started = row.started]
        /\ upd'[p] = [stage |-> "capture", row |-> row]
    BY <1>0, <2>a
  <2>1. mem'[j].status = Status(j) /\ upd'[p] = [stage |-> "capture", row |-> row]
    BY <1>s, <2>b
  <2>2. upd'[p].stage = "capture" /\ upd'[p].row = row
    BY <2>1
  <2> QED BY <1>1, <1>b, <1>r, <2>b, <2>1, <2>2
<1>2. ASSUME NEW r, r.status = st, mem' = [mem EXCEPT ![j] = r], Issue(p, j, r)
      PROVE  /\ \A q \in Procs \ {p} : upd'[q] = upd[q]
             /\ \A k \in Jobs \ {j} : mem'[k] = mem[k]
             /\ mem'[j].status = st /\ upd'[p].stage = "write" /\ upd'[p].row.status = st
             /\ \A q, s \in Procs \ {p} : q \in ahead'[s] <=> q \in ahead[s]
             /\ \A q \in Procs \ {p} : p \notin ahead'[q] /\ (Writing(q, j) => q \in ahead'[p])
  <2>a. mem' = [mem EXCEPT ![j] = r] /\ upd' = [upd EXCEPT ![p] = [stage |-> "write", row |-> r]]
    BY <1>i, <1>2
  <2>1. /\ \A q \in Procs \ {p} : upd'[q] = upd[q]
        /\ \A k \in Jobs \ {j} : mem'[k] = mem[k]
        /\ upd'[p] = [stage |-> "write", row |-> r] /\ mem'[j] = r
    BY <1>0, <2>a
  <2>2. upd'[p].stage = "write" /\ upd'[p].row = r
    BY <2>1
  <2> QED BY <1>i, <1>2, <2>1, <2>2
<1>3. CASE <<Status(j), Row(j).reason>> = <<st, rs>> /\ mem' = [mem EXCEPT ![j] = Row(j)]
           /\ upd' = [upd EXCEPT ![p] = NoUpdate] /\ ahead' = Behind(p)
  BY <1>0, <1>3, <1>b, <1>s, StatusesAre
<1>4. \/ /\ MayCapture(j, st)
         /\ mem' = [mem EXCEPT ![j] = [Row(j) EXCEPT !.started = row.started]]
         /\ upd' = [upd EXCEPT ![p] = [stage |-> "capture", row |-> row]]
         /\ ahead' = Behind(p)
      \/ mem' = [mem EXCEPT ![j] = row] /\ Issue(p, j, row)
      \/ <<Status(j), Row(j).reason>> = <<st, rs>> /\ mem' = [mem EXCEPT ![j] = Row(j)]
           /\ Issue(p, j, Row(j))
      \/ <<Status(j), Row(j).reason>> = <<st, rs>> /\ mem' = [mem EXCEPT ![j] = Row(j)]
           /\ upd' = [upd EXCEPT ![p] = NoUpdate] /\ ahead' = Behind(p)
  <2> USE DEF row
  <2> QED BY Zenon DEF Update
<1>5. CASE mem' = [mem EXCEPT ![j] = row] /\ Issue(p, j, row)
  BY <1>2, <1>5, <1>r
<1>6. CASE <<Status(j), Row(j).reason>> = <<st, rs>> /\ mem' = [mem EXCEPT ![j] = Row(j)]
           /\ Issue(p, j, Row(j))
  BY <1>2, <1>6, <1>s
<1> QED BY <1>1, <1>3, <1>4, <1>5, <1>6

\* A step that does not touch the rows of a job keeps what is said of them.
LEMMA Untouched ==
  ASSUME NEW k \in Jobs, RowsOf(k), mem'[k] = mem[k], db'[k] = db[k], Bound(k) => Bound(k)',
         \A q \in Procs : \/ upd'[q] = upd[q] /\ on'[q] = on[q]
                          \/ on'[q] = k => upd'[q].stage = "none",
         \A q, r \in Procs : Writing(q, k)' /\ Writing(r, k)' /\ q # r
                                => (q \in ahead'[r] <=> q \in ahead[r])
  PROVE  RowsOf(k)' /\ (Live(k)' <=> Live(k))
<1>1. \A q \in Procs : on'[q] = k /\ upd'[q].stage # "none" =>
                         on[q] = k /\ upd'[q] = upd[q]
  OBVIOUS
<1>2. Live(k)' <=> Live(k)
  BY DEF Live
<1>3. \A q \in Procs : Writing(q, k)' => Writing(q, k) /\ upd'[q] = upd[q]
  BY <1>1 DEF Writing
<1>4. Lined(k)'
  BY <1>3 DEF Lined, RowsOf
<1>5. Dropped(k)'
  BY DEF Dropped, RowsOf
<1>6. Finished(k)'
  BY <1>2, <1>3 DEF Finished, RowsOf, Over
<1>7. LastWord(k)'
  BY <1>1, <1>2 DEF LastWord, RowsOf, Over
<1>8. Uncaught(k)' /\ Begun(k)'
  BY <1>1, <1>2 DEF Uncaught, Begun, RowsOf
<1>9. Agreed(k)'
  BY <1>3 DEF Agreed, RowsOf, Over
<1> QED BY <1>2, <1>4, <1>5, <1>6, <1>7, <1>8, <1>9 DEF RowsOf

\* A row of a job put into memory, and maybe issued: it keeps the rows in order when it comes
\* over an active one, or repeats a terminal one, and a terminal one only while nobody waits.
Puts(p, j, st) ==
  /\ \A q \in Procs \ {p} : upd'[q] = upd[q] /\ on'[q] = on[q]
  /\ \A k \in Jobs \ {j} : mem'[k] = mem[k]
  /\ mem'[j].status = st
  /\ upd'[p].stage = "none" \/ (upd'[p].stage = "write" /\ upd'[p].row.status = st)
  /\ \A q, r \in Procs \ {p} : q \in ahead'[r] <=> q \in ahead[r]
  /\ upd'[p].stage = "write" => \A q \in Procs \ {p} :
       p \notin ahead'[q] /\ (Writing(q, j) => q \in ahead'[p])
  /\ on'[p] = j /\ db' = db /\ \A k \in Jobs : Bound(k) => Bound(k)'

\* A row put into memory, and into flight or not at all, leaves the rows of every job in order, brings
\* none to life and takes back no terminal status: it goes on a live job, or repeats a terminal status;
\* and a terminal one only on a job whose provider nobody awaits.
LEMMA PutsOrder ==
  ASSUME \A k \in Jobs : RowsOf(k), NEW p \in Procs, NEW j \in Jobs, NEW st \in Active \cup Terminal,
         Puts(p, j, st), ~Writing(p, j), st # "queued", Live(j) \/ (st \in Terminal /\ Status(j) = st),
         st \in Terminal => \A q \in Procs \ {p} : on[q] = j => upd[q].stage # "capture"
  PROVE  /\ \A k \in Jobs : RowsOf(k)' /\ (Live(k)' => Live(k))
         /\ Firm
<1> USE StatusesAre
<1>h. /\ \A q \in Procs \ {p} : upd'[q] = upd[q] /\ on'[q] = on[q]
      /\ \A k \in Jobs \ {j} : mem'[k] = mem[k]
      /\ mem'[j].status = st
      /\ upd'[p].stage = "none" \/ (upd'[p].stage = "write" /\ upd'[p].row.status = st)
      /\ \A q, r \in Procs \ {p} : q \in ahead'[r] <=> q \in ahead[r]
      /\ upd'[p].stage = "write" => \A q \in Procs \ {p} :
           p \notin ahead'[q] /\ (Writing(q, j) => q \in ahead'[p])
      /\ on'[p] = j /\ db' = db /\ \A k \in Jobs : Bound(k) => Bound(k)'
  BY DEF Puts
<1>a. ASSUME NEW k \in Jobs \ {j} PROVE RowsOf(k)' /\ (Live(k)' => Live(k))
  <2>1. mem'[k] = mem[k] /\ db'[k] = db[k] /\ RowsOf(k) /\ (Bound(k) => Bound(k)')
    BY <1>h
  <2>2. \A q \in Procs : \/ upd'[q] = upd[q] /\ on'[q] = on[q]
                         \/ on'[q] = k => upd'[q].stage = "none"
    BY <1>h
  <2>3. \A q, r \in Procs : Writing(q, k)' /\ Writing(r, k)' /\ q # r
                               => (q \in ahead'[r] <=> q \in ahead[r])
    BY <1>h DEF Writing
  <2> QED BY <2>1, <2>2, <2>3, Untouched
<1>b. \A q \in Procs \ {p} : Writing(q, j)' <=> Writing(q, j)
  BY <1>h DEF Writing
<1>d. mem'[j] # NoRow
  BY <1>h
<1>r. RowsOf(j)
  OBVIOUS
<1>1. Live(j)' <=> st \in Active
  BY <1>h DEF Live
<1>2. Dropped(j)'
  BY <1>d DEF Dropped
<1>3. \A q \in Procs \ {p} : st \in Active => (Writing(q, j) => ~Over(upd[q].row))
  BY <1>r DEF RowsOf, LastWord, Writing
<1>4. Lined(j)'
  <2> SUFFICES ASSUME NEW q \in Procs, NEW r \in Procs, Writing(q, j)', Writing(r, j)', q # r
               PROVE  /\ q \in ahead'[r] \/ r \in ahead'[q]
                      /\ q \in ahead'[r] /\ Over(upd'[q].row) => Over(upd'[r].row)
    BY DEF Lined
  <2>1. CASE q # p /\ r # p
    BY <1>h, <1>b, <1>r, <2>1 DEF RowsOf, Lined
  <2>2. CASE q = p
    <3>1. upd'[p].stage = "write" /\ r # p /\ Writing(r, j)
      BY <1>b, <2>2 DEF Writing
    <3> QED BY <1>h, <2>2, <3>1
  <2>3. CASE r = p
    <3>1. upd'[p].stage = "write" /\ q # p /\ Writing(q, j) /\ upd'[q] = upd[q]
      BY <1>h, <1>b, <2>3 DEF Writing
    <3> QED BY <1>h, <1>3, <2>3, <3>1 DEF Over
  <2> QED BY <2>1, <2>2, <2>3
<1>5. Finished(j)'
  <2>1. CASE st \in Active
    BY <1>h, <1>r, <2>1 DEF RowsOf, Finished, Over
  <2>2. CASE st \in Terminal
    <3>1. ~Live(j)'
      BY <1>1, <2>2
    <3>2. Over(db[j]) => \A q \in Procs : Writing(q, j)' => Over(upd'[q].row)
      BY <1>h, <1>b, <1>r, <2>2 DEF RowsOf, Finished, Over, Writing
    <3> QED BY <1>h, <3>1, <3>2 DEF Finished, Over
  <2> QED BY <2>1, <2>2
<1>6. LastWord(j)'
  <2> SUFFICES ASSUME NEW q \in Procs, on'[q] = j, Over(upd'[q].row)
               PROVE  /\ upd'[q].stage \in {"write", "lost"} => ~Live(j)'
                      /\ upd'[q].stage = "written" => Over(db'[j])
    BY DEF LastWord, Over
  <2>1. CASE q = p
    BY <1>h, <1>1, <2>1 DEF Over
  <2>2. CASE q # p
    BY <1>h, <1>r, <1>1, <1>3, <2>2 DEF RowsOf, LastWord, Writing
  <2> QED BY <2>1, <2>2
<1>7. Uncaught(j)' /\ Begun(j)'
  BY <1>h, <1>r, <1>1 DEF RowsOf, Uncaught, Begun
<1>8. Agreed(j)'
  <2>1. CASE Live(j)
    <3>1. /\ ~Over(db[j]) /\ \A q \in Procs \ {p} : Writing(q, j)' => ~Over(upd'[q].row)
      BY <1>h, <1>b, <1>r, <2>1 DEF RowsOf, Finished, LastWord, Writing
    <3>2. \A q \in Procs : Writing(q, j)' /\ Over(upd'[q].row) => q = p /\ upd'[q].row.status = st
      BY <1>h, <3>1 DEF Writing
    <3>3. \E t \in Terminal : st \in Terminal => st = t
      OBVIOUS
    <3> QED BY <1>h, <3>1, <3>2, <3>3 DEF Agreed, Over
  <2>2. CASE st \in Terminal /\ Status(j) = st
    <3>1. PICK t \in Terminal : /\ Over(mem[j]) => mem[j].status = t
                                /\ Over(db[j]) => db[j].status = t
                                /\ \A q \in Procs : Writing(q, j) /\ Over(upd[q].row) =>
                                                     upd[q].row.status = t
      BY <1>r DEF RowsOf, Agreed
    <3>2. st = t
      BY <2>2, <3>1 DEF Over, Status, Row
    <3>3. \A q \in Procs : Writing(q, j)' /\ Over(upd'[q].row) => upd'[q].row.status = t
      BY <1>h, <1>b, <3>1, <3>2 DEF Writing
    <3> QED BY <1>h, <3>1, <3>2, <3>3 DEF Agreed, Over
  <2> QED BY <2>1, <2>2
<1>9. Firm
  <2>1. Over(mem[j]) => mem[j].status = st
    BY DEF Over, Live, Status, Row
  <2> QED BY <1>h, <2>1 DEF Firm
<1> QED BY <1>a, <1>1, <1>2, <1>4, <1>5, <1>6, <1>7, <1>8, <1>9 DEF RowsOf

\* An _update of a job nobody inserts keeps the rows in order, on the same conditions.
LEMMA UpdateOrder ==
  ASSUME TypeOK, CommitInOrder, \A k \in Jobs : RowsOf(k),
         NEW p \in Procs, NEW j \in Jobs, db[j] # NoRow, ~Bound(j),
         NEW st \in Active \cup Terminal, NEW rs, Update(p, j, st, rs), Returned(p),
         st # "queued", Live(j) \/ (st \in Terminal /\ Status(j) = st),
         st \in Terminal => \A q \in Procs \ {p} : on[q] = j => upd[q].stage # "capture",
         on'[p] = j, \A q \in Procs \ {p} : on'[q] = on[q], db' = db,
         \A k \in Jobs : Bound(k) => Bound(k)'
  PROVE  /\ \A k \in Jobs : RowsOf(k)' /\ (Live(k)' => Live(k))
         /\ Firm
<1> USE StatusesAre
<1>0. /\ \A q \in Procs \ {p} : upd'[q] = upd[q]
      /\ \A k \in Jobs \ {j} : mem'[k] = mem[k]
      /\ \/ /\ MayCapture(j, st) /\ mem'[j].status = Status(j)
            /\ upd'[p].stage = "capture" /\ upd'[p].row.status = st
         \/ /\ mem'[j].status = st
            /\ upd'[p].stage = "none" \/ (upd'[p].stage = "write" /\ upd'[p].row.status = st)
      /\ \A q, r \in Procs \ {p} : q \in ahead'[r] <=> q \in ahead[r]
      /\ upd'[p].stage = "write" => \A q \in Procs \ {p} :
           p \notin ahead'[q] /\ (Writing(q, j) => q \in ahead'[p])
  BY UpdateMeans
<1>1. ASSUME NEW k \in Jobs \ {j} PROVE RowsOf(k)' /\ (Live(k)' => Live(k))
  <2>1. mem'[k] = mem[k] /\ db'[k] = db[k] /\ RowsOf(k) /\ (Bound(k) => Bound(k)')
    BY <1>0
  <2>2. \A q \in Procs : \/ upd'[q] = upd[q] /\ on'[q] = on[q]
                         \/ on'[q] = k => upd'[q].stage = "none"
    BY <1>0
  <2>3. \A q, r \in Procs : Writing(q, k)' /\ Writing(r, k)' /\ q # r
                               => (q \in ahead'[r] <=> q \in ahead[r])
    BY <1>0 DEF Writing
  <2> QED BY <2>1, <2>2, <2>3, Untouched
<1>2. \A q \in Procs \ {p} : Writing(q, j)' <=> Writing(q, j)
  BY <1>0 DEF Writing
<1>3. ~Writing(p, j)
  BY DEF Writing, Returned
<1>4. mem'[j] # NoRow
  <2>1. Status(j) # "absent"
    <3>1. Row(j) \in Rows
      BY DEF TypeOK, Row
    <3> QED BY <3>1 DEF Rows, Status
  <2> QED BY <1>0, <2>1
<1>5. RowsOf(j)
  OBVIOUS
<1>6. CASE upd'[p].stage = "capture"
  <2>1. MayCapture(j, st) /\ mem'[j].status = Status(j) /\ j \in Resumable
    BY <1>0, <1>6, JobsAssumption DEF MayCapture
  <2>2. Live(j)
    <3>1. Status(j) \in Active \cup Terminal
      <4>1. Row(j) \in Rows
        BY DEF TypeOK, Row
      <4> QED BY <4>1 DEF Rows, Status
    <3>2. CASE st \in Terminal
      <4>1. Status(j) \in Active
        BY <2>1, <3>1, <3>2 DEF MayCapture
      <4> QED BY <1>5, <2>1, <4>1, StatusLive DEF RowsOf
    <3> QED BY <3>2
  <2>3. Live(j)'
    BY <2>1, <2>2, StatusLive DEF Live
  <2>4. Lined(j)'
    BY <1>0, <1>2, <1>5, <1>6 DEF Lined, RowsOf, Writing
  <2>5. Dropped(j)'
    BY <1>4 DEF Dropped
  <2>6. Finished(j)'
    BY <1>5, <2>2 DEF Finished, RowsOf
  <2>7. LastWord(j)'
    BY <1>0, <1>5, <1>6, <2>2 DEF LastWord, RowsOf, Over
  <2>8. Uncaught(j)' /\ Begun(j)'
    BY <1>0, <1>5, <1>6, <2>3 DEF Uncaught, Begun, RowsOf
  <2>9. Agreed(j)'
    <3>1. /\ ~Over(mem'[j]) /\ ~Over(db'[j])
          /\ \A q \in Procs : Writing(q, j)' => ~Over(upd'[q].row)
      BY <1>0, <1>2, <1>5, <1>6, <2>2, <2>3 DEF RowsOf, Finished, LastWord, Writing, Live, Over
    <3> QED BY <3>1 DEF Agreed, Over
  <2>10. Firm
    BY <1>0, <2>2 DEF Firm, Live, Over
  <2> QED BY <1>1, <2>2, <2>4, <2>5, <2>6, <2>7, <2>8, <2>9, <2>10 DEF RowsOf
<1>7. CASE mem'[j].status = st /\ (upd'[p].stage = "none" \/ (upd'[p].stage = "write" /\ upd'[p].row.status = st))
  <2>1. Puts(p, j, st)
    BY <1>0, <1>7 DEF Puts
  <2> QED BY <1>3, <2>1, PutsOrder
<1> QED BY <1>0, <1>6, <1>7

\* The tail of _update drops a snapshot only of a job that has ended in the table.
LEMMA ReturnOrder ==
  ASSUME TypeOK, \A k \in Jobs : RowsOf(k), NEW p \in Procs, Return(p), db' = db,
         \A q \in Procs \ {p} : on'[q] = on[q], \A k \in Jobs : Bound(k) => Bound(k)'
  PROVE  /\ \A k \in Jobs : RowsOf(k)' /\ (mem'[k] = mem[k] \/ (~Live(k) /\ ~Live(k)'))
         /\ upd'[p].stage = "none" /\ \A q \in Procs \ {p} : upd'[q] = upd[q]
         /\ Firm
<1> USE StatusesAre
<1>1. upd'[p].stage = "none" /\ \A q \in Procs \ {p} : upd'[q] = upd[q]
  BY DEF Return, TypeOK
<1>2. ahead' = ahead
  BY DEF Return
<1>3. ASSUME NEW k \in Jobs, mem'[k] = mem[k] PROVE RowsOf(k)'
  BY <1>1, <1>2, <1>3, Untouched
<1>4. ASSUME NEW k \in Jobs, mem'[k] # mem[k]
      PROVE  on[p] = k /\ upd[p].stage = "written" /\ Over(upd[p].row) /\ mem'[k] = NoRow
  BY <1>4 DEF Return, TypeOK, Over
<1>5. ASSUME NEW k \in Jobs, mem'[k] # mem[k] PROVE RowsOf(k)' /\ ~Live(k) /\ ~Live(k)'
  <2>1. mem'[k] = NoRow /\ Over(db[k])
    BY <1>4, <1>5 DEF RowsOf, LastWord
  <2>2. ~Live(k) /\ ~Live(k)'
    BY <2>1 DEF Live, RowsOf, Finished
  <2>3. \A q \in Procs : Writing(q, k)' => Writing(q, k) /\ upd'[q] = upd[q]
    BY <1>1 DEF Writing
  <2>4. Lined(k)'
    BY <1>2, <2>3 DEF RowsOf, Lined
  <2>5. Dropped(k)'
    BY <2>1 DEF Dropped, Over
  <2>6. Finished(k)'
    BY <2>2, <2>3 DEF RowsOf, Finished, Over
  <2>7. LastWord(k)'
    BY <2>1, <2>2 DEF LastWord, Over
  <2>8. Uncaught(k)' /\ Begun(k)'
    BY <1>1, <2>2 DEF RowsOf, Uncaught, Begun
  <2>9. Agreed(k)'
    BY <2>1, <2>3 DEF RowsOf, Agreed, Over
  <2> QED BY <2>2, <2>4, <2>5, <2>6, <2>7, <2>8, <2>9 DEF RowsOf
<1>6. Firm
  <2> SUFFICES ASSUME NEW k \in Jobs, Over(mem[k]), mem'[k] # mem[k]
               PROVE  mem'[k] = NoRow /\ db[k].status = mem[k].status
    BY DEF Firm
  <2>1. mem'[k] = NoRow /\ Over(db[k])
    BY <1>4 DEF RowsOf, LastWord
  <2> QED BY <2>1 DEF RowsOf, Agreed
<1> QED BY <1>1, <1>3, <1>5, <1>6

\* A write that commits is the first of its row, so none behind it brings a job back.
LEMMA CommitOrder ==
  ASSUME TypeOK, Books, \A k \in Jobs : RowsOf(k), NEW p \in Procs, Commit(p) \/ LoseWrite(p),
         NEW j \in Jobs, on[p] = j, ~Bound(j)
  PROVE  /\ \A k \in Jobs : RowsOf(k)' /\ (db'[k] = db[k] \/ k = j)
         /\ mem' = mem
         /\ db[j].status \in Active \/ db'[j].status \notin Active
         /\ Over(db[j]) => db'[j].status = db[j].status
         /\ upd'[p].stage \in {"written", "lost"} /\ \A q \in Procs \ {p} : upd'[q] = upd[q]
<1> USE StatusesAre
<1>1. j \in Jobs /\ upd[p].stage = "write" /\ upd[p].row \in Rows /\ db[j] \in Rows
  <2>1. j \in Jobs /\ upd[p].stage = "write"
    BY DEF TypeOK, Commit, LoseWrite
  <2>2. upd[p].row \in Rows /\ pc[p] \notin Resting
    BY <2>1 DEF Books, Silent, Quiet
  <2> QED BY <2>1, <2>2 DEF TypeOK, Books, Known
<1>2. /\ mem' = mem /\ UNCHANGED <<pc, on>>
      /\ ahead' = Behind(p)
      /\ \A q, r \in Procs \ {p} : q \in ahead'[r] <=> q \in ahead[r]
  BY DEF Commit, LoseWrite, Behind
<1>3. /\ \A q \in Procs \ {p} : upd'[q] = upd[q]
      /\ upd'[p].stage \in {"written", "lost"} /\ upd'[p].row = upd[p].row
      /\ upd'[p].stage = "written" => db' = [db EXCEPT ![j] = upd[p].row] /\ ahead[p] = {}
      /\ upd'[p].stage = "lost" => db' = db
  <2>0. upd[p] \in [stage : {"none", "capture", "write", "written", "lost"}, row : Rows \cup {NoRow}]
    BY DEF TypeOK
  <2>1. ASSUME NEW s, upd' = [upd EXCEPT ![p].stage = s]
        PROVE  /\ \A q \in Procs \ {p} : upd'[q] = upd[q]
               /\ upd'[p].stage = s /\ upd'[p].row = upd[p].row
    <3>1. upd'[p] = [upd[p] EXCEPT !.stage = s] /\ \A q \in Procs \ {p} : upd'[q] = upd[q]
      BY <2>1 DEF TypeOK
    <3> QED BY <2>0, <3>1
  <2>2. CASE Commit(p)
    <3>1. upd' = [upd EXCEPT ![p].stage = "written"] /\ db' = [db EXCEPT ![j] = upd[p].row] /\ ahead[p] = {}
      BY <2>2 DEF Commit
    <3>2. upd' = [upd EXCEPT ![p].stage = "written"]
      BY <3>1
    <3>3. /\ \A q \in Procs \ {p} : upd'[q] = upd[q]
          /\ upd'[p].stage = "written" /\ upd'[p].row = upd[p].row
      BY <2>1, <3>2
    <3> QED BY <3>1, <3>3
  <2>3. CASE LoseWrite(p)
    <3>1. upd' = [upd EXCEPT ![p].stage = "lost"]
      BY <2>3 DEF LoseWrite
    <3>2. /\ \A q \in Procs \ {p} : upd'[q] = upd[q]
          /\ upd'[p].stage = "lost" /\ upd'[p].row = upd[p].row
      BY <2>1, <3>1
    <3> QED BY <2>3, <3>2 DEF LoseWrite
  <2> QED BY <2>2, <2>3
<1>4. \A k \in Jobs : Bound(k)' <=> Bound(k)
  BY <1>2 DEF Bound
<1>5. \A k \in Jobs : Live(k)' <=> Live(k)
  BY <1>2 DEF Live
<1>6. ASSUME NEW k \in Jobs, k # j PROVE RowsOf(k)' /\ db'[k] = db[k]
  <2>1. db'[k] = db[k]
    BY <1>3, <1>6 DEF TypeOK
  <2>2. \A q, r \in Procs : Writing(q, k)' /\ Writing(r, k)' /\ q # r
                               => (q \in ahead'[r] <=> q \in ahead[r])
    BY <1>2, <1>6 DEF Writing
  <2> QED BY <1>2, <1>3, <1>4, <1>6, <2>1, <2>2, Untouched
<1>7. RowsOf(j)
  BY <1>1
<1>8. \A q \in Procs : Writing(q, j)' <=> q # p /\ Writing(q, j)
  BY <1>2, <1>3 DEF Writing
<1>9. Writing(p, j)
  BY <1>1 DEF Writing
<1>10. db'[j] = upd[p].row \/ db'[j] = db[j]
  BY <1>1, <1>3 DEF TypeOK
<1>11. db[j].status \in Active \/ db'[j].status \notin Active
  <2>1. Over(db[j]) => Over(upd[p].row)
    BY <1>7, <1>9 DEF RowsOf, Finished
  <2>2. db[j].status \in Active \cup Terminal
    BY <1>1 DEF Rows
  <2> QED BY <1>10, <2>1, <2>2 DEF Over
<1>12. Lined(j)'
  BY <1>2, <1>3, <1>7, <1>8 DEF RowsOf, Lined
<1>13. Dropped(j)'
  <2>1. db'[j].status = "queued" => db[j].status = "queued"
    BY <1>1, <1>7, <1>10 DEF RowsOf, Begun
  <2>2. mem[j] = NoRow => ~(j \in Resumable /\ db'[j].status \in Active) /\ db'[j].status # "queued"
    BY <1>7, <1>11, <2>1 DEF RowsOf, Dropped
  <2> QED BY <1>2, <2>2 DEF Dropped
<1>14. Finished(j)'
  <2> SUFFICES ASSUME Over(db'[j])
               PROVE  ~Live(j)' /\ \A q \in Procs : Writing(q, j)' => Over(upd'[q].row)
    BY DEF Finished, Over
  <2>1. CASE Over(db[j])
    BY <1>3, <1>5, <1>7, <1>8, <2>1 DEF RowsOf, Finished
  <2>2. CASE ~Over(db[j])
    <3>1. Over(upd[p].row) /\ ahead[p] = {}
      BY <1>3, <1>10, <2>2 DEF Over
    <3>2. ~Live(j)
      BY <1>1, <1>7, <3>1 DEF RowsOf, LastWord
    <3>3. \A q \in Procs : Writing(q, j)' => Over(upd'[q].row)
      BY <1>3, <1>7, <1>8, <1>9, <3>1 DEF RowsOf, Lined
    <3> QED BY <1>5, <3>2, <3>3
  <2> QED BY <2>1, <2>2
<1>15. LastWord(j)'
  <2> SUFFICES ASSUME NEW q \in Procs, on'[q] = j, Over(upd'[q].row)
               PROVE  /\ upd'[q].stage \in {"write", "lost"} => ~Live(j)'
                      /\ upd'[q].stage = "written" => Over(db'[j])
    BY DEF LastWord, Over
  <2>1. CASE q = p
    <3>1. upd'[p].stage = "written" => db'[j] = upd[p].row
      BY <1>1, <1>3 DEF TypeOK
    <3>2. Over(upd[p].row) /\ ~Live(j)
      BY <1>1, <1>3, <1>7, <2>1 DEF RowsOf, LastWord, Over
    <3> QED BY <1>3, <1>5, <2>1, <3>1, <3>2 DEF Over
  <2>2. CASE q # p
    <3>1. Over(db[j]) => Over(db'[j])
      BY <1>7, <1>9, <1>10 DEF RowsOf, Finished
    <3> QED BY <1>2, <1>3, <1>5, <1>7, <2>2, <3>1 DEF RowsOf, LastWord
  <2> QED BY <2>1, <2>2
<1>16. Uncaught(j)' /\ Begun(j)'
  BY <1>2, <1>3, <1>5, <1>7 DEF RowsOf, Uncaught, Begun
<1>17. Agreed(j)' /\ (Over(db[j]) => db'[j].status = db[j].status)
  <2>1. PICK t \in Terminal : /\ Over(mem[j]) => mem[j].status = t
                              /\ Over(db[j]) => db[j].status = t
                              /\ \A q \in Procs : Writing(q, j) /\ Over(upd[q].row) =>
                                                   upd[q].row.status = t
    BY <1>7 DEF RowsOf, Agreed
  <2>2. Over(db[j]) => Over(upd[p].row)
    BY <1>7, <1>9 DEF RowsOf, Finished
  <2>3. /\ Over(db'[j]) => db'[j].status = t
        /\ Over(db[j]) => db'[j].status = db[j].status
    BY <1>9, <1>10, <2>1, <2>2
  <2>4. \A q \in Procs : Writing(q, j)' /\ Over(upd'[q].row) => upd'[q].row.status = t
    BY <1>3, <1>8, <2>1
  <2> QED BY <1>2, <2>1, <2>3, <2>4 DEF Agreed, Over
<1> QED BY <1>2, <1>3, <1>6, <1>11, <1>12, <1>13, <1>14, <1>15, <1>16, <1>17 DEF RowsOf

\* A provider that answered: its row is put into memory and issued.
LEMMA CaptureOrder ==
  ASSUME TypeOK, Books, CommitInOrder, \A k \in Jobs : RowsOf(k), \A q \in Procs : InPlace(q),
         NEW p \in Procs, Capture(p), NEW j \in Jobs, on[p] = j
  PROVE  /\ \A k \in Jobs : RowsOf(k)' /\ (Live(k)' => Live(k))
         /\ Firm
         /\ \A k \in Jobs \ {j} : mem'[k] = mem[k]
         /\ \A q \in Procs \ {p} : upd'[q] = upd[q]
         /\ Captures(p) /\ Live(j) /\ mem'[j].status = upd[p].row.status
         /\ upd'[p].stage = "write"
<1> USE StatusesAre
<1>1. j \in Jobs /\ upd[p].stage = "capture" /\ upd[p].row \in Rows /\ Live(j) /\ mem[j] # NoRow
  <2>1. j \in Jobs /\ upd[p].stage = "capture"
    BY DEF TypeOK, Capture
  <2>2. Live(j)
    BY <2>1 DEF RowsOf, Uncaught
  <2> QED BY <2>1, <2>2, StatusLive DEF Books, Silent
<1>2. Captures(p) /\ \A q \in Procs \ {p} : upd[q].stage # "capture"
  BY <1>1 DEF InPlace, Captures
<1>3. /\ mem' = [mem EXCEPT ![j] = upd[p].row]
      /\ upd' = [upd EXCEPT ![p] = [stage |-> "write", row |-> upd[p].row]]
      /\ ahead' = [Behind(p) EXCEPT ![p] =
                      {q \in Procs \ {p} : CommitInOrder /\ on[q] = j /\ upd[q].stage = "write"}]
      /\ UNCHANGED <<db, pc, on>>
  BY <1>1 DEF Capture, Issue, TypeOK
<1>4. upd'[p].stage = "write" /\ upd'[p].row.status = upd[p].row.status
  BY <1>3 DEF TypeOK
<1>5. \A q \in Procs \ {p} : /\ upd'[q] = upd[q]
                             /\ ahead'[q] = ahead[q] \ {p}
  BY <1>3 DEF TypeOK, Behind
<1>6. ahead'[p] = {q \in Procs \ {p} : CommitInOrder /\ on[q] = j /\ upd[q].stage = "write"}
  BY <1>3 DEF Behind
<1>7. mem'[j] = upd[p].row /\ \A k \in Jobs \ {j} : mem'[k] = mem[k]
  BY <1>1, <1>3 DEF TypeOK
<1>8. \A k \in Jobs : Bound(k) => Bound(k)'
  BY <1>3 DEF Bound
<1>9. Puts(p, j, upd[p].row.status)
  BY <1>3, <1>4, <1>5, <1>6, <1>7, <1>8 DEF Puts, Writing
<1>10. upd[p].row.status \in (Active \cup Terminal) \ {"queued"} /\ ~Writing(p, j)
  BY <1>1 DEF Rows, Writing, RowsOf, Begun
<1>11. (\A k \in Jobs : RowsOf(k)' /\ (Live(k)' => Live(k))) /\ Firm
  BY <1>1, <1>2, <1>9, <1>10, PutsOrder
<1> QED BY <1>1, <1>2, <1>4, <1>5, <1>7, <1>11

-----------------------------------------------------------------------------
\* Who is where while the manager is open.

\* Two runners at work never have the same job,
LEMMA JobsApart ==
  ASSUME TypeOK, Books, Lanes, NEW p \in Runners, NEW q \in Runners, p # q,
         pc[p] \notin {"get", "exit"}, pc[q] \notin {"get", "exit"}
  PROVE  on[p] # on[q]
BY DEF Books, Placed, Lanes, Runners

\* and none of them the job somebody is inserting.
LEMMA NotBound ==
  ASSUME Books, NEW p \in Runners, pc[p] \in RunnerLabels \ {"get", "exit"}, NEW j \in Jobs, on[p] = j
  PROVE  ~Bound(j)
<1> SUFFICES ASSUME NEW c \in Clients, pc[c] = "enqueue", on[c] = j PROVE FALSE
  BY DEF Bound
<1>1. ~Serving(j) /\ (j \in ShortLane => pc[j] = "exit")
  BY DEF Books, Starts
<1>2. CASE p = Worker
  BY <1>1, <1>2 DEF Serving
<1>3. CASE p \in Jobs
  BY <1>1, <1>3 DEF Books, Placed
<1> QED BY <1>2, <1>3 DEF Runners

\* A process that takes no step stays in place, unless its job changes.
LEMMA InPlaceKeeps ==
  ASSUME NEW q \in Procs, InPlace(q), pc'[q] = pc[q], on'[q] = on[q], upd'[q] = upd[q],
         NEW k \in Jobs, on[q] = k, mem'[k] = mem[k] \/ (~Live(k) /\ ~Live(k)')
  PROVE  InPlace(q)'
<1> USE StatusesAre
<1>1. CASE upd[q].stage = "capture"
  BY <1>1 DEF InPlace, Captures, Over
<1>2. CASE upd[q].stage # "capture" /\ q \notin Runners
  BY <1>2 DEF InPlace
<1>3. CASE upd[q].stage # "capture" /\ q \in Runners
  <2>1. Suits(pc[q], k)
    BY <1>3 DEF InPlace
  <2>2. OperationLabels \subseteq Working
    BY DEF OperationLabels, Working
  <2>3. pc[q] \in SimpleLabels \cup Working => Live(k)
    BY <2>1 DEF Suits, Live
  <2>4. CASE mem'[k] = mem[k]
    BY <1>3, <2>1, <2>4 DEF InPlace, Suits, Live
  <2>5. CASE ~Live(k) /\ ~Live(k)'
    BY <1>3, <2>1, <2>2, <2>3, <2>5 DEF InPlace, Suits, Live
  <2> QED BY <2>4, <2>5
<1> QED BY <1>1, <1>2, <1>3

\* What waits for the worker, and what is being inserted, stays as it is.
LEMMA WaitingKeeps ==
  ASSUME Waiting, ops' \subseteq ops, \A k \in ops' : mem'[k] = mem[k] \/ (~Live(k) /\ ~Live(k)'),
         NEW p \in Procs, \A q \in Procs \ {p} : upd'[q] = upd[q] /\ on'[q] = on[q],
         \A k \in Jobs : Bound(k)' => /\ Bound(k) /\ (mem[k] = NoRow => mem'[k] = NoRow) /\ db'[k] = db[k]
                                      /\ on'[p] = k => upd'[p].stage = "none"
  PROVE  Waiting'
<1>1. \A k \in ops' : mem'[k].status = "queued" /\ k \in Jobs \ Resumable
  BY StatusesAre DEF Waiting, Live
<1>2. ASSUME NEW k \in Jobs, Bound(k)'
      PROVE  /\ mem'[k] = NoRow /\ db'[k].status = "queued"
             /\ \A q \in Procs : on'[q] = k => upd'[q].stage = "none"
  BY <1>2 DEF Waiting
<1> QED BY <1>1, <1>2 DEF Waiting

\* Clients stay where they are, no request or reason is a shutdown's: nothing new is absent.
LEMMA AbsentKeeps ==
  ASSUME TypeOK, Absent, phase' = phase, \A c \in Clients : pc'[c] = pc[c],
         \/ request' = request
         \/ \E k \in Jobs : request' = [request EXCEPT ![k] = ""],
         why' \in {why, ""} \/ \E k \in Jobs : why' = request[k],
         pc'[Worker] = "stranded" => pc[Worker] = "stranded" \/ RollbackMayFail
  PROVE  Absent'
BY DEF Absent, TypeOK

\* No row changes but that of a job that has ended.
LEMMA RowsStay ==
  ASSUME TypeOK, Open, NEW p \in Procs, Return(p) \/ UNCHANGED rows, db' = db,
         \A q \in Procs \ {p} : on'[q] = on[q], on'[p] = on[p] \/ upd'[p].stage = "none",
         \A k \in Jobs : Bound(k) => Bound(k)'
  PROVE  /\ \A k \in Jobs : RowsOf(k)' /\ (mem'[k] = mem[k] \/ (~Live(k) /\ ~Live(k)'))
         /\ \A q \in Procs \ {p} : upd'[q] = upd[q]
         /\ Firm
<1>1. CASE Return(p)
  BY <1>1, ReturnOrder DEF Open
<1>2. CASE UNCHANGED rows
  <2>1. mem' = mem /\ upd' = upd /\ ahead' = ahead
    BY <1>2 DEF rows
  <2>2. ASSUME NEW k \in Jobs PROVE RowsOf(k)'
    <3>1. RowsOf(k)
      BY DEF Open
    <3>2. \A q \in Procs : \/ upd'[q] = upd[q] /\ on'[q] = on[q]
                           \/ on'[q] = k => upd'[q].stage = "none"
      BY <2>1
    <3> QED BY <2>1, <3>1, <3>2, Untouched
  <2> QED BY <2>1, <2>2 DEF Firm
<1> QED BY <1>1, <1>2

\* A runner that moves to another label with its job,
LEMMA RunnerGoes ==
  ASSUME TypeOK, Books, Open, NEW p \in Runners, NEW j \in Jobs, on[p] = j,
         pc[p] \in RunnerLabels \ {"get", "exit"}, Returned(p),
         Return(p) \/ UNCHANGED rows, db' = db, ops' \subseteq ops,
         NEW l \in HoldLabels, Goto(p, l), on' = on, Suits(l, j), Absent'
  PROVE  Onward /\ Stands
<1> USE LabelsAre
<1>0. /\ p \in Procs /\ pc'[p] = l /\ \A q \in Procs \ {p} : pc'[q] = pc[q]
      /\ p \notin Clients /\ Clients \subseteq Procs
  BY ProcsAssumption DEF Goto, TypeOK, Procs, Runners
<1>1. \A k \in Jobs : Bound(k)' <=> Bound(k)
  BY <1>0 DEF Bound
<1>2. /\ \A k \in Jobs : RowsOf(k)' /\ (mem'[k] = mem[k] \/ (~Live(k) /\ ~Live(k)'))
      /\ \A q \in Procs \ {p} : upd'[q] = upd[q]
      /\ Firm
  BY <1>0, <1>1, RowsStay
<1>3. upd'[p].stage # "capture"
  <2>1. CASE Return(p)
    BY <1>0, <2>1, StatusesAre DEF Return, TypeOK
  <2>2. CASE UNCHANGED rows
    BY <2>2 DEF rows, Returned
  <2> QED BY <2>1, <2>2
<1>4. InPlace(p)'
  <2>1. OperationLabels \subseteq Working
    BY DEF OperationLabels, Working
  <2>2. l \in SimpleLabels \cup Working => Live(j)
    BY StatusesAre DEF Suits, Live
  <2>3. Suits(l, j)'
    BY <1>2, <2>1, <2>2 DEF Suits, Live
  <2> QED BY <1>0, <1>3, <2>3 DEF InPlace
<1>5. ASSUME NEW q \in Procs \ {p} PROVE InPlace(q)'
  <2>1. PICK k \in Jobs : k = on[q]
    BY DEF TypeOK
  <2> QED BY <1>0, <1>2, <2>1, InPlaceKeeps DEF Open
<1>6. Waiting'
  <2>1. ASSUME NEW k \in Jobs, Bound(k)'
        PROVE  /\ Bound(k) /\ (mem[k] = NoRow => mem'[k] = NoRow) /\ db'[k] = db[k]
               /\ on'[p] = k => upd'[p].stage = "none"
    <3>1. Bound(k) /\ k # j
      BY <1>1, <2>1, NotBound
    <3>2. mem[k] = NoRow => mem'[k] = NoRow
      BY DEF Return, rows, TypeOK
    <3> QED BY <3>1, <3>2
  <2>2. \A k \in ops' : mem'[k] = mem[k] \/ (~Live(k) /\ ~Live(k)')
    BY <1>2 DEF Open, Waiting
  <2> QED BY <1>0, <1>2, <2>1, <2>2, WaitingKeeps DEF Open
<1>7. Stands
  <2>1. \A k \in Jobs : Live(k)' => Live(k)
    BY <1>2 DEF Live
  <2>2. \A k : Serving(k) => Serving(k)'
    BY <1>0, ProcsAssumption DEF Serving, Runners, Procs
  <2> QED BY <2>1, <2>2, JobsAssumption DEF Stands
<1> QED BY <1>0, <1>2, <1>4, <1>5, <1>6, <1>7 DEF Open, Onward

\* one that lets go of a job, which has ended unless the worker strands it,
LEMMA ProcessQuits ==
  ASSUME TypeOK, Books, Open, NEW p \in Procs, NEW j \in Jobs, on[p] = j,
         Return(p) \/ (UNCHANGED rows /\ upd[p].stage = "none"), db' = db, ops' \subseteq ops,
         NEW l \in {"get", "exit", "idle", "lock"}, NEW k0 \in Jobs, GotoOn(p, l, k0), pc[p] # "enqueue",
         Absent'
  PROVE  Onward /\ (Stands \/ (p = Worker /\ pc[p] # "get" /\ Live(j)))
<1> USE LabelsAre, StatusesAre
<1>0. /\ pc'[p] = l /\ on'[p] = k0 /\ \A q \in Procs \ {p} : pc'[q] = pc[q] /\ on'[q] = on[q]
      /\ Clients \subseteq Procs
  BY DEF GotoOn, Goto, TypeOK, Procs
<1>1. \A k \in Jobs : Bound(k)' <=> Bound(k)
  BY <1>0 DEF Bound
<1>2. upd'[p].stage = "none"
  <2>1. CASE Return(p)
    BY <2>1 DEF Return, TypeOK
  <2>2. CASE UNCHANGED rows /\ upd[p].stage = "none"
    BY <2>2 DEF rows
  <2> QED BY <2>1, <2>2
<1>3. /\ \A k \in Jobs : RowsOf(k)' /\ (mem'[k] = mem[k] \/ (~Live(k) /\ ~Live(k)'))
      /\ \A q \in Procs \ {p} : upd'[q] = upd[q]
      /\ Firm
  BY <1>0, <1>1, <1>2, RowsStay
<1>4. InPlace(p)'
  <2>1. l \notin After \cup SimpleLabels \cup Working \cup OperationLabels \cup {"loop"}
    BY DEF After, Working, OperationLabels
  <2> QED BY <1>0, <1>2, <2>1 DEF InPlace, Suits
<1>5. ASSUME NEW q \in Procs \ {p} PROVE InPlace(q)'
  <2>1. PICK k \in Jobs : k = on[q]
    BY DEF TypeOK
  <2> QED BY <1>0, <1>3, <2>1, InPlaceKeeps DEF Open
<1>6. Waiting'
  <2>1. ASSUME NEW k \in Jobs, Bound(k)'
        PROVE  /\ Bound(k) /\ (mem[k] = NoRow => mem'[k] = NoRow) /\ db'[k] = db[k]
               /\ on'[p] = k => upd'[p].stage = "none"
    <3>1. mem[k] = NoRow => mem'[k] = NoRow
      BY DEF Return, rows, TypeOK
    <3> QED BY <1>1, <1>2, <2>1, <3>1
  <2>2. \A k \in ops' : mem'[k] = mem[k] \/ (~Live(k) /\ ~Live(k)')
    BY <1>3 DEF Open, Waiting
  <2> QED BY <1>0, <1>3, <2>1, <2>2, WaitingKeeps DEF Open
<1>7. Stands \/ (p = Worker /\ pc[p] # "get" /\ Live(j))
  <2>1. \A k \in Jobs : Live(k)' => Live(k)
    BY <1>3 DEF Live
  <2>2. \A k : Serving(k) /\ ~(p = Worker /\ pc[p] # "get" /\ Live(j)) => Serving(k)' \/ ~Live(k)
    BY <1>0, ProcsAssumption DEF Serving, Runners, Procs
  <2> QED BY <2>1, <2>2, JobsAssumption DEF Stands
<1> QED BY <1>3, <1>4, <1>5, <1>6, <1>7 DEF Open, Onward

\* What a status must be for a runner that writes it on its way to a label.
Fitted(l, j, st) == /\ st # "queued" /\ (l \in After <=> st \in Terminal)
                    /\ l \in SimpleLabels => st = "running" /\ j \notin Resumable
                    /\ l \in OperationLabels => st \notin Paused
                    /\ l \in Working \cup {"loop"} => j \in Resumable
                    /\ st = "running" /\ MayCapture(j, st) => l = "run"

\* one that writes a row.
LEMMA RunnerWrites ==
  ASSUME TypeOK, Books, Lanes, Open, CommitInOrder, NEW p \in Runners, NEW j \in Jobs, on[p] = j,
         pc[p] \in RunnerLabels \ {"get", "exit"}, Returned(p), db' = db,
         ops' \subseteq ops, j \notin ops',
         NEW l \in HoldLabels, NEW st \in Active \cup Terminal, NEW rs, Update(p, j, st, rs),
         Goto(p, l), on' = on, Fitted(l, j, st), Absent',
         Live(j) \/ (st \in Terminal /\ Status(j) = st)
  PROVE  Onward /\ Stands
<1> USE LabelsAre, StatusesAre
<1>0. /\ p \in Procs /\ pc'[p] = l /\ \A q \in Procs \ {p} : pc'[q] = pc[q]
      /\ p \notin Clients /\ Clients \subseteq Procs
  BY ProcsAssumption DEF Goto, TypeOK, Procs, Runners
<1>1. \A k \in Jobs : Bound(k)' <=> Bound(k)
  BY <1>0 DEF Bound
<1>2. ~Bound(j)
  BY NotBound
<1>3. db[j] # NoRow
  <2>1. pc[p] \notin Resting
    BY DEF Resting
  <2> QED BY <1>0, <2>1 DEF Books, Known
<1>4. \A q \in Procs \ {p} : on[q] = j => q \notin Runners \/ pc[q] \in {"get", "exit"}
  BY JobsApart
<1>5. \A q \in Procs \ {p} : on[q] = j => upd[q].stage # "capture"
  <2> SUFFICES ASSUME NEW q \in Procs \ {p}, on[q] = j, upd[q].stage = "capture" PROVE FALSE
    OBVIOUS
  <2>1. q = Worker /\ pc[q] \in {"run"} \cup After
    BY DEF Open, InPlace, Captures
  <2> QED BY <1>4, <2>1 DEF Runners, After
<1>6. (\A k \in Jobs : RowsOf(k)' /\ (Live(k)' => Live(k))) /\ Firm
  <2>1. st # "queued"
    BY DEF Fitted
  <2> QED BY <1>0, <1>1, <1>2, <1>3, <1>5, <2>1, UpdateOrder DEF Open
<1>7. /\ \A q \in Procs \ {p} : upd'[q] = upd[q]
      /\ \A k \in Jobs \ {j} : mem'[k] = mem[k]
      /\ \/ /\ MayCapture(j, st) /\ mem'[j].status = Status(j)
            /\ upd'[p].stage = "capture" /\ upd'[p].row.status = st
         \/ /\ mem'[j].status = st
            /\ upd'[p].stage = "none" \/ (upd'[p].stage = "write" /\ upd'[p].row.status = st)
  BY <1>0, UpdateMeans
<1>8. InPlace(p)'
  <2>1. CASE MayCapture(j, st) /\ upd'[p].stage = "capture" /\ upd'[p].row.status = st
    <3>1. j \in Compared /\ st \in Terminal \cup {"running"} /\ j \notin ShortLane
      BY <2>1, JobsAssumption DEF MayCapture
    <3>2. p = Worker
      BY <3>1 DEF Runners, Books, Placed
    <3>3. \/ l = "run" /\ st = "running"
          \/ l \in After /\ st \in Terminal
      BY <2>1, <3>1 DEF Fitted
    <3> QED BY <1>0, <2>1, <3>1, <3>2, <3>3 DEF InPlace, Captures, Over
  <2>2. CASE mem'[j].status = st /\ upd'[p].stage # "capture"
    <3>1. l \in Working => l \notin After
      BY DEF Working, After
    <3>2. Suits(l, j)'
      BY <2>2, <3>1 DEF Suits, Fitted, Live
    <3> QED BY <1>0, <2>2, <3>2 DEF InPlace
  <2> QED BY <1>7, <2>1, <2>2
<1>9. ASSUME NEW q \in Procs \ {p} PROVE InPlace(q)'
  <2>1. PICK k \in Jobs : k = on[q]
    BY DEF TypeOK
  <2>2. CASE k # j
    BY <1>0, <1>7, <2>1, <2>2, InPlaceKeeps DEF Open
  <2>3. CASE k = j
    <3>1. q \notin Runners \/ pc[q] \in {"get", "exit"}
      BY <1>4, <2>1, <2>3
    <3>2. {"get", "exit"} \cap (After \cup SimpleLabels \cup Working \cup OperationLabels \cup {"loop"}) = {}
      BY DEF After, Working, OperationLabels
    <3> QED BY <1>0, <1>5, <1>7, <2>1, <2>3, <3>1, <3>2 DEF InPlace, Suits
  <2> QED BY <2>2, <2>3
<1>10. Waiting'
  <2>1. ASSUME NEW k \in Jobs, Bound(k)'
        PROVE  /\ Bound(k) /\ (mem[k] = NoRow => mem'[k] = NoRow) /\ db'[k] = db[k]
               /\ on'[p] = k => upd'[p].stage = "none"
    <3>1. Bound(k) /\ k # j
      BY <1>1, <1>2, <2>1
    <3> QED BY <1>7, <3>1
  <2>2. \A k \in ops' : mem'[k] = mem[k] \/ (~Live(k) /\ ~Live(k)')
    BY <1>7 DEF Open, Waiting
  <2> QED BY <1>0, <1>7, <2>1, <2>2, WaitingKeeps DEF Open
<1>11. Stands
  <2>1. \A k : Serving(k) => Serving(k)'
    BY <1>0, ProcsAssumption DEF Serving, Runners, Procs
  <2> QED BY <1>6, <2>1, JobsAssumption DEF Stands
<1> QED BY <1>6, <1>8, <1>9, <1>10, <1>11 DEF Open, Onward

\* A caller, or the shutdown, that writes a row: over that of a job the worker has,
\* or one that waits.
LEMMA ClientWrites ==
  ASSUME TypeOK, Books, Lanes, Open, CommitInOrder, NEW c \in Clients \cup {Closer}, NEW j \in Jobs,
         pc[c] # "enqueue", upd[c].stage = "none", ~Bound(j),
         NEW l \in {"pause", "stop", "resume", "cancel", "signal"}, GotoOn(c, l, j), db' = db,
         NEW st, NEW rs, Update(c, j, st, rs), Absent',
         \/ /\ st \in {"pausing", "stopping", "paused"} /\ j \in Resumable /\ ops' = ops
            /\ Status(j) \in Active \ {"queued"} /\ (st = "paused" => Status(j) \in Paused)
         \/ st = "cancelled" /\ Compared = {} /\ Status(j) = "queued" /\ ops' = ops \ {j}
  PROVE  Onward /\ Stands
<1> USE LabelsAre, StatusesAre
<1>0. /\ c \in Procs /\ pc'[c] = l /\ on'[c] = j /\ c \notin Runners
      /\ \A q \in Procs \ {c} : pc'[q] = pc[q] /\ on'[q] = on[q]
      /\ Clients \subseteq Procs
  BY ProcsAssumption DEF GotoOn, Goto, TypeOK, Procs, Runners
<1>1. \A k \in Jobs : Bound(k)' <=> Bound(k)
  BY <1>0 DEF Bound
<1>3. db[j] # NoRow /\ Status(j) \in Active
  <2>1. mem[j] # NoRow => db[j] # NoRow
    BY DEF Books, Known
  <2> QED BY <2>1 DEF Status, Row
<1>4. Live(j)
  <2>1. Dropped(j)
    BY DEF Open, RowsOf
  <2> QED BY <1>3, <2>1, StatusLive
<1>5. /\ st = "cancelled" => \A q \in Procs : upd[q].stage # "capture"
      /\ ~MayCapture(j, st)
  BY DEF Open, InPlace, Captures, MayCapture
<1>6. (\A k \in Jobs : RowsOf(k)' /\ (Live(k)' => Live(k))) /\ Firm
  <2>1. st \in Active \cup Terminal /\ st # "queued" /\ Returned(c)
    BY DEF Returned
  <2>2. st \in Terminal => \A q \in Procs \ {c} : on[q] = j => upd[q].stage # "capture"
    BY <1>5
  <2> QED BY <1>0, <1>1, <1>3, <1>4, <2>1, <2>2, UpdateOrder DEF Open
<1>7. /\ \A q \in Procs \ {c} : upd'[q] = upd[q]
      /\ \A k \in Jobs \ {j} : mem'[k] = mem[k]
      /\ mem'[j].status = st /\ upd'[c].stage # "capture"
  BY <1>0, <1>5, UpdateMeans
<1>8. InPlace(c)'
  BY <1>0, <1>7 DEF InPlace
<1>9. ASSUME NEW q \in Procs \ {c} PROVE InPlace(q)'
  <2>1. PICK k \in Jobs : k = on[q]
    BY DEF TypeOK
  <2>2. CASE k # j
    BY <1>0, <1>7, <2>1, <2>2, InPlaceKeeps DEF Open
  <2>3. CASE upd[q].stage = "capture"
    BY <1>0, <1>7, <2>3 DEF Open, InPlace, Captures, Over
  <2>4. CASE k = j /\ upd[q].stage # "capture" /\ q \in Runners
    <3>1. Suits(pc[q], j)
      BY <2>1, <2>4 DEF Open, InPlace
    <3>2. OperationLabels \subseteq Working
      BY DEF OperationLabels, Working
    <3>3. pc[q] \in SimpleLabels \cup Working => Status(j) = mem[j].status
      <4>1. pc[q] \in SimpleLabels \cup Working => Live(j)
        BY <3>1 DEF Suits, Live
      <4> QED BY <4>1, StatusLive
    <3>4. CASE st = "cancelled"
      <4>1. Status(j) = "queued"
        BY <3>4
      <4>2. pc[q] \notin SimpleLabels \cup Working
        BY <3>1, <3>3, <4>1 DEF Suits
      <4>3. Suits(pc[q], j)'
        BY <1>0, <1>7, <3>1, <3>2, <3>4, <4>2 DEF Suits, Live
      <4> QED BY <1>0, <1>7, <2>1, <2>4, <4>3 DEF InPlace
    <3>5. CASE st \in {"pausing", "stopping", "paused"}
      <4>1. pc[q] \notin SimpleLabels
        <5>1. j \in Resumable /\ j \notin ShortLane
          BY <3>5, JobsAssumption
        <5> QED BY <2>1, <2>4, <5>1 DEF Runners, Books, Placed
      <4>2. pc[q] \notin After
        BY <1>4, <3>1, <3>5 DEF Suits
      <4>3. pc[q] \in OperationLabels => st # "paused"
        BY <3>1, <3>2, <3>3 DEF Suits
      <4>4. Suits(pc[q], j)'
        BY <1>0, <1>7, <3>1, <3>5, <4>1, <4>2, <4>3 DEF Suits, Live
      <4> QED BY <1>0, <1>7, <2>1, <2>4, <4>4 DEF InPlace
    <3> QED BY <3>4, <3>5
  <2>5. CASE upd[q].stage # "capture" /\ q \notin Runners
    BY <1>7, <2>5 DEF InPlace
  <2> QED BY <2>2, <2>3, <2>4, <2>5
<1>10. Waiting'
  <2>1. ASSUME NEW k \in Jobs, Bound(k)'
        PROVE  /\ Bound(k) /\ (mem[k] = NoRow => mem'[k] = NoRow) /\ db'[k] = db[k]
               /\ on'[c] = k => upd'[c].stage = "none"
    <3>1. Bound(k) /\ k # j
      BY <1>1, <2>1
    <3> QED BY <1>0, <1>7, <3>1
  <2>2. j \notin ops'
    BY StatusLive DEF Open, Waiting, Live
  <2>3. \A k \in ops' : mem'[k] = mem[k] \/ (~Live(k) /\ ~Live(k)')
    BY <1>7, <2>2 DEF Open, Waiting
  <2> QED BY <1>0, <1>7, <2>1, <2>3, WaitingKeeps DEF Open
<1>11. Stands
  <2>1. \A k : Serving(k) => Serving(k)'
    BY <1>0, ProcsAssumption DEF Serving, Runners, Procs
  <2> QED BY <1>6, <2>1, JobsAssumption DEF Stands
<1> QED BY <1>6, <1>8, <1>9, <1>10, <1>11 DEF Open, Onward

\* The three stages of a write.
LEMMA StorageOpen ==
  ASSUME TypeOK, Books, Open, CommitInOrder, NEW p \in Procs, Storage(p)
  PROVE  /\ Onward /\ Stands /\ Lasting
         /\ \A k \in Jobs : db[k].status \in Active \/ db'[k].status \notin Active
<1> USE LabelsAre, StatusesAre
<1>0. UNCHANGED <<pc, on, ops, request, why, phase>>
  BY DEF Storage, Capture, Commit, LoseWrite, work, signals, life
<1>1. \A k \in Jobs : Bound(k)' <=> Bound(k)
  BY <1>0 DEF Bound
<1>2. PICK j \in Jobs : on[p] = j
  BY DEF TypeOK
<1>3. upd[p].stage # "none" /\ ~Bound(j)
  BY <1>2 DEF Storage, Capture, Commit, LoseWrite, Open, Waiting
<1>4. CASE Capture(p)
  <2>1. /\ \A k \in Jobs : RowsOf(k)' /\ (Live(k)' => Live(k))
        /\ Firm
        /\ \A k \in Jobs \ {j} : mem'[k] = mem[k]
        /\ \A q \in Procs \ {p} : upd'[q] = upd[q]
        /\ Captures(p) /\ Live(j) /\ mem'[j].status = upd[p].row.status
        /\ upd'[p].stage = "write"
    BY <1>2, <1>4, CaptureOrder DEF Open
  <2>2. db' = db
    BY <1>4 DEF Capture
  <2>3. InPlace(p)'
    <3>1. Suits(pc[p], j)'
      <4>1. j \in Resumable
        BY <1>2, <2>1, JobsAssumption DEF Captures
      <4>2. pc[p] = "run" => pc[p] \notin After \cup SimpleLabels
        BY DEF After
      <4>3. pc[p] \in After => pc[p] \notin Working \cup SimpleLabels \cup OperationLabels
        BY DEF After, Working, OperationLabels
      <4> QED BY <1>0, <2>1, <4>1, <4>2, <4>3 DEF Suits, Captures, Over, Live
    <3> QED BY <1>0, <1>2, <2>1, <3>1 DEF InPlace
  <2>4. ASSUME NEW q \in Procs \ {p} PROVE InPlace(q)'
    <3>1. PICK k \in Jobs : k = on[q]
      BY DEF TypeOK
    <3>2. CASE k # j
      BY <1>0, <2>1, <3>1, <3>2, InPlaceKeeps DEF Open
    <3>3. CASE k = j
      <4>1. p = Worker /\ pc[p] \in {"run"} \cup After /\ j \in Resumable
        BY <1>2, <2>1, JobsAssumption DEF Captures
      <4>2. upd[q].stage # "capture"
        BY <4>1 DEF Open, InPlace, Captures
      <4>3. q \in Runners => pc[q] = "exit"
        BY <3>1, <3>3, <4>1, JobsAssumption DEF Runners, Books, Placed
      <4>4. "exit" \notin (After \cup SimpleLabels \cup Working \cup OperationLabels \cup {"loop"})
        BY DEF After, Working, OperationLabels
      <4> QED BY <1>0, <2>1, <4>2, <4>3, <4>4 DEF InPlace, Suits
    <3> QED BY <3>2, <3>3
  <2>5. Waiting'
    <3>1. \A k \in ops : k # j
      BY <1>2, <2>1, JobsAssumption DEF Captures, Open, Waiting
    <3>2. ASSUME NEW k \in Jobs, Bound(k)'
          PROVE  /\ Bound(k) /\ (mem[k] = NoRow => mem'[k] = NoRow) /\ db'[k] = db[k]
                 /\ on'[p] = k => upd'[p].stage = "none"
      BY <1>0, <1>1, <1>2, <1>3, <2>1, <2>2, <3>2
    <3>3. \A k \in ops' : mem'[k] = mem[k] \/ (~Live(k) /\ ~Live(k)')
      BY <1>0, <2>1, <3>1 DEF Open, Waiting
    <3> QED BY <1>0, <2>1, <3>2, <3>3, WaitingKeeps DEF Open
  <2>6. Absent'
    BY <1>0 DEF Open, Absent
  <2>7. Stands
    <3>1. \A k : Serving(k) => Serving(k)'
      BY <1>0 DEF Serving
    <3> QED BY <2>1, <3>1, JobsAssumption DEF Stands
  <2> QED BY <2>1, <2>2, <2>3, <2>4, <2>5, <2>6, <2>7 DEF Open, Onward, Lasting
<1>5. CASE Commit(p) \/ LoseWrite(p)
  <2>1. /\ \A k \in Jobs : RowsOf(k)' /\ (db'[k] = db[k] \/ k = j)
        /\ mem' = mem
        /\ db[j].status \in Active \/ db'[j].status \notin Active
        /\ Over(db[j]) => db'[j].status = db[j].status
        /\ upd'[p].stage \in {"written", "lost"} /\ \A q \in Procs \ {p} : upd'[q] = upd[q]
    BY <1>2, <1>3, <1>5, CommitOrder DEF Open
  <2>2. InPlace(p)'
    <3>1. upd[p].stage # "capture"
      BY <1>5 DEF Commit, LoseWrite
    <3> QED BY <1>0, <1>2, <2>1, <3>1 DEF Open, InPlace, Suits, Live
  <2>3. ASSUME NEW q \in Procs \ {p} PROVE InPlace(q)'
    <3>1. PICK k \in Jobs : k = on[q]
      BY DEF TypeOK
    <3> QED BY <1>0, <2>1, <3>1, InPlaceKeeps DEF Open
  <2>4. Waiting'
    <3>1. ASSUME NEW k \in Jobs, Bound(k)'
          PROVE  /\ Bound(k) /\ (mem[k] = NoRow => mem'[k] = NoRow) /\ db'[k] = db[k]
                 /\ on'[p] = k => upd'[p].stage = "none"
      BY <1>0, <1>1, <1>2, <1>3, <2>1, <3>1
    <3> QED BY <1>0, <2>1, <3>1, WaitingKeeps DEF Open
  <2>5. Absent'
    BY <1>0 DEF Open, Absent
  <2>6. Stands
    <3>1. \A k : Serving(k) => Serving(k)'
      BY <1>0 DEF Serving
    <3> QED BY <2>1, <3>1 DEF Stands, Live
  <2> QED BY <2>1, <2>2, <2>3, <2>4, <2>5, <2>6 DEF Open, Onward, Firm, Lasting
<1> QED BY <1>4, <1>5 DEF Storage

-----------------------------------------------------------------------------
\* Every step of an open manager keeps it in order.

\* A runner that is not waiting for a provider has made of its job what its label says.
LEMMA SuitsNow ==
  ASSUME Open, NEW p \in Runners, Returned(p), NEW j \in Jobs, on[p] = j
  PROVE  Suits(pc[p], j)
BY DEF Open, InPlace, Returned, Procs

\* A resumable job that the worker has and that has not ended is live.
LEMMA WorkerLive ==
  ASSUME TypeOK, Books, Open, pc[Worker] \in RunnerLabels \ {"get", "exit"}, NEW j \in Jobs,
         on[Worker] = j, j \in Resumable, Status(j) \notin Terminal
  PROVE  Live(j)
<1>1. Worker \in Runners /\ Worker \in Procs
  BY DEF Runners, Procs
<1>2. ~Bound(j)
  BY <1>1, NotBound
<1>3. db[j] # NoRow
  BY <1>1, LabelsAre DEF Books, Known, Resting
<1>4. Status(j) \in Active \cup Terminal
  <2>1. Row(j) \in Rows
    BY <1>3 DEF TypeOK, Row
  <2> QED BY <2>1 DEF Rows, Status
<1> QED BY <1>2, <1>4, StatusLive DEF Open, RowsOf

\* operation.run
LEMMA OperationOpen ==
  ASSUME TypeOK, Books, Lanes, Open, Orderly, OperationStep
  PROVE  Onward /\ Stands
<1> USE LabelsAre, StatusesAre
<1>0. /\ Worker \in Runners /\ Worker \in Procs /\ pc[Worker] \in {"run", "told"} /\ Returned(Worker)
      /\ on' = on /\ db' = db /\ UNCHANGED <<ops, request, why, phase>> /\ CommitInOrder
      /\ pc[Worker] \in RunnerLabels \ {"get", "exit"}
  BY DEF OperationStep, RunWrites, RunTells, Told, RunReports, RunEnds, At, Runners, Procs, work, signals,
         life, Orderly
<1>1. PICK j \in Jobs : on[Worker] = j
  BY <1>0 DEF TypeOK
<1>2. /\ Suits("run", j) /\ Suits("point", j) /\ j \in Resumable /\ Live(j)
      /\ \A l \in {"told", "finishing", "breaking", "unwinding"} : Suits(l, j)
      /\ mem[j].status \in Active \ ({"queued"} \cup Paused)
  <2>1. Suits(pc[Worker], j)
    BY <1>0, <1>1, SuitsNow
  <2>2. pc[Worker] \in Working /\ pc[Worker] \in OperationLabels
    BY <1>0 DEF Working, OperationLabels
  <2> QED BY <2>1, <2>2 DEF Suits, Live, After
<1>3. Status(j) = mem[j].status /\ ~MayCapture(j, "running") /\ j \notin ops
  BY <1>2, StatusLive DEF MayCapture, Open, Waiting
<1>4. \A c \in Clients : Worker # c
  BY ProcsAssumption
<1>5. ASSUME NEW l, Goto(Worker, l), l # "stranded" PROVE Absent'
  <2>1. pc'[Worker] = l /\ \A c \in Clients : pc'[c] = pc[c]
    BY <1>0, <1>4, <1>5 DEF Goto, TypeOK, Procs
  <2> QED BY <1>0, <1>5, <2>1, AbsentKeeps DEF Open
<1>6. CASE RunWrites
  <2>1. UNCHANGED rows /\ Goto(Worker, "run")
    BY <1>0, <1>6 DEF RunWrites, At, Goto, rows, TypeOK
  <2> QED BY <1>0, <1>1, <1>2, <1>5, <2>1, RunnerGoes
<1>7. CASE RunTells \/ RunReports
  <2>1. PICK st \in {"running", Status(j)}, l \in {"told", "point"} :
               Update(Worker, j, st, Row(j).reason) /\ Goto(Worker, l)
    BY <1>1, <1>7 DEF RunTells, RunReports
  <2>2. st \in Active \ ({"queued"} \cup Paused) /\ st \in Active \cup Terminal
    BY <1>2, <1>3, <2>1
  <2>3. Fitted(l, j, st)
    BY <1>2, <1>3, <2>2 DEF Fitted, After
  <2> QED BY <1>0, <1>1, <1>2, <1>3, <1>5, <2>1, <2>2, <2>3, RunnerWrites
<1>8. CASE Told
  <2>1. Return(Worker) /\ Goto(Worker, "run")
    BY <1>8 DEF Told
  <2> QED BY <1>0, <1>1, <1>2, <1>5, <2>1, RunnerGoes
<1>9. CASE RunEnds
  <2>1. PICK l \in {"finishing", "breaking", "unwinding"} : Goto(Worker, l)
    BY <1>9 DEF RunEnds
  <2>2. UNCHANGED rows
    BY <1>9 DEF RunEnds
  <2> QED BY <1>0, <1>1, <1>2, <1>5, <2>1, <2>2, RunnerGoes
<1> QED BY <1>6, <1>7, <1>8, <1>9 DEF OperationStep

\* What the manager's loop writes over a live resumable job on its way to a label.
LEMMA LoopFits ==
  ASSUME NEW j \in Resumable
  PROVE  /\ Fitted("stopping", j, "stopping") /\ Fitted("run", j, "running")
         /\ Fitted("ending", j, "failed") /\ Fitted("completed", j, "completed")
         /\ Fitted("parked", j, "paused") /\ Fitted("parked", j, "interrupted")
         /\ Fitted("loop", j, "interrupted") /\ Fitted("ending", j, "stopped")
         /\ Fitted("stranded", j, "interrupted")
BY StatusesAre, LabelsAre DEF Fitted, After, Working, OperationLabels

\* _run_resumable
LEMMA ResumableOpen ==
  ASSUME TypeOK, Books, Lanes, Open, Orderly, ResumableStep
  PROVE  Onward /\ (Stands \/ RollbackMayFail \/ phase # "open")
<1> USE LabelsAre, StatusesAre
<1>0. /\ Worker \in Runners /\ Worker \in Procs /\ Returned(Worker) /\ CommitInOrder
      /\ pc[Worker] \in {"loop", "wait", "point", "finishing", "completed", "finalizing", "pausing",
                         "breaking", "parked", "unwinding", "stopping", "stranded"}
      /\ db' = db /\ UNCHANGED <<ops, phase>>
      /\ pc[Worker] \in RunnerLabels \ {"get", "exit"}
  BY DEF ResumableStep, LoopHead, WakeUp, ControlPoint, Complete, Completed, Finalized, Pausing, Breaking,
         Park, Parked, Unwind, RollBack, Strand, At, Runners, Procs, work, life, Orderly
<1>1. PICK j \in Jobs : on[Worker] = j
  BY <1>0 DEF TypeOK
<1>2. Suits(pc[Worker], j)
  BY <1>0, <1>1, SuitsNow
<1>3. \A c \in Clients : Worker # c
  BY ProcsAssumption
<1>4. ASSUME NEW l, Goto(Worker, l), l = "stranded" => RollbackMayFail,
             \/ request' = request
             \/ request' = [request EXCEPT ![j] = ""],
             why' \in {why, ""} \/ why' = request[j]
      PROVE Absent'
  <2>1. pc'[Worker] = l /\ \A c \in Clients : pc'[c] = pc[c]
    BY <1>0, <1>3, <1>4 DEF Goto, TypeOK, Procs
  <2> QED BY <1>0, <1>4, <2>1, AbsentKeeps DEF Open
<1>5. ASSUME j \in Resumable, Live(j), NEW l \in HoldLabels, NEW st \in Active \cup Terminal, NEW rs,
             Update(Worker, j, st, rs), Goto(Worker, l), Fitted(l, j, st), on' = on, Absent'
      PROVE  Onward /\ Stands
  <2>1. j \notin ops'
    BY <1>0, <1>5 DEF Open, Waiting
  <2> QED BY <1>0, <1>1, <1>5, <2>1, RunnerWrites
<1>6. ASSUME NEW l \in HoldLabels, Goto(Worker, l), Suits(l, j), on' = on, Absent',
             Return(Worker) \/ UNCHANGED rows
      PROVE  Onward /\ Stands
  BY <1>0, <1>1, <1>6, RunnerGoes
<1>7. ASSUME Return(Worker), Leave(Worker), Absent' PROVE Onward /\ (Stands \/ Live(j))
  <2>1. PICK l \in {"get", "exit"} : GotoOn(Worker, l, AnyJob)
    BY <1>7 DEF Leave, NextLabel
  <2>2. AnyJob \in Jobs /\ pc[Worker] # "enqueue"
    BY <1>0, AnyJobType
  <2> QED BY <1>0, <1>1, <1>7, <2>1, <2>2, ProcessQuits
<1>8. ASSUME Leave(Worker) PROVE \E l \in {"get", "exit"} : Goto(Worker, l)
  BY <1>8 DEF Leave, GotoOn, NextLabel
<1>9. ASSUME j \in Resumable, Live(j), BeginStop(j), on' = on, request' = request, why' \in {why, ""}
      PROVE  Onward /\ Stands
  <2>1. Update(Worker, j, "stopping", "manual") /\ Goto(Worker, "stopping")
    BY <1>9 DEF BeginStop
  <2>2. Fitted("stopping", j, "stopping")
    BY <1>9, LoopFits
  <2>3. Absent'
    BY <1>4, <1>9, <2>1
  <2> QED BY <1>5, <1>9, <2>1, <2>2, <2>3
<1>10. ASSUME j \in Resumable, Live(j), Begin(j), on' = on, why' = why PROVE Onward /\ Stands
  <2>1. CASE BeginStop(j) /\ UNCHANGED request
    BY <1>9, <1>10, <2>1
  <2>2. CASE /\ request' = [request EXCEPT ![j] = ""]
             /\ Update(Worker, j, "running", "") /\ Goto(Worker, "run")
    <3>1. Absent' /\ Fitted("run", j, "running")
      BY <1>4, <1>10, <2>2, LoopFits
    <3> QED BY <1>5, <1>10, <2>2, <3>1
  <2>3. CASE Update(Worker, j, "failed", "manager_error") /\ Goto(Worker, "ending") /\ UNCHANGED request
    <3>1. Absent' /\ Fitted("ending", j, "failed")
      BY <1>4, <1>10, <2>3, LoopFits
    <3> QED BY <1>5, <1>10, <2>3, <3>1
  <2> QED BY <1>10, <2>1, <2>2, <2>3 DEF Begin
<1>11. pc[Worker] \in Working => j \in Resumable /\ Live(j)
  BY <1>2 DEF Suits, Live
<1>12. CASE LoopHead
  <2>0. pc[Worker] = "loop" /\ why' = why /\ j \in Resumable
    BY <1>2, <1>12 DEF LoopHead, At, Suits
  <2>1. CASE Status(j) \in Terminal /\ Return(Worker) /\ Leave(Worker) /\ UNCHANGED request
    <3>1. ~Live(j)
      BY <2>1, StatusLive DEF Live
    <3>2. Absent'
      BY <1>4, <1>8, <2>0, <2>1
    <3> QED BY <1>7, <2>1, <3>1, <3>2
  <2>2. CASE /\ Status(j) \in Paused /\ Return(Worker) /\ Goto(Worker, "wait")
             /\ UNCHANGED <<request, on>>
    <3>1. Live(j) /\ mem[j].status \in Paused
      BY <1>0, <1>1, <2>0, <2>2, WorkerLive, StatusLive
    <3>2. Suits("wait", j)
      BY <2>0, <3>1 DEF Suits, After, OperationLabels
    <3>3. Absent'
      BY <1>4, <2>0, <2>2
    <3> QED BY <1>6, <2>2, <3>2, <3>3
  <2>3. CASE Status(j) \notin Terminal \cup Paused /\ Begin(j) /\ UNCHANGED on
    BY <1>0, <1>1, <1>10, <2>0, <2>3, WorkerLive
  <2> QED BY <1>1, <1>12, <2>1, <2>2, <2>3 DEF LoopHead
<1>13. CASE WakeUp
  <2>1. pc[Worker] = "wait" /\ Begin(j) /\ on' = on /\ why' = why
    BY <1>1, <1>13 DEF WakeUp, At
  <2>2. j \in Resumable /\ Live(j)
    BY <1>11, <2>1 DEF Working
  <2> QED BY <1>10, <2>1, <2>2
<1>14. CASE ControlPoint
  <2>0. pc[Worker] = "point" /\ on' = on /\ request' = request
    BY <1>14 DEF ControlPoint, At, signals
  <2>1. j \in Resumable /\ Live(j) /\ Suits("run", j) /\ Suits("pausing", j)
    <3>1. "point" \in Working /\ "point" \in OperationLabels
      BY DEF Working, OperationLabels
    <3> QED BY <1>2, <2>0, <3>1 DEF Suits, Live, After, OperationLabels
  <2>2. CASE BeginStop(j) /\ why' = why
    BY <1>9, <2>0, <2>1, <2>2
  <2>3. CASE why' = request[j] /\ Goto(Worker, "pausing") /\ Return(Worker)
    <3>1. Absent'
      BY <1>4, <2>0, <2>3
    <3> QED BY <1>6, <2>0, <2>1, <2>3, <3>1
  <2>4. CASE why' = why /\ Goto(Worker, "run") /\ Return(Worker)
    <3>1. Absent'
      BY <1>4, <2>0, <2>4
    <3> QED BY <1>6, <2>0, <2>1, <2>4, <3>1
  <2> QED BY <1>1, <1>14, <2>2, <2>3, <2>4 DEF ControlPoint
<1>15. CASE Complete
  <2>0. pc[Worker] = "finishing" /\ on' = on /\ request' = request
    BY <1>15 DEF Complete, At, signals
  <2>1. j \in Resumable /\ Live(j) /\ Suits("pausing", j)
    <3>1. "finishing" \in Working
      BY DEF Working
    <3> QED BY <1>2, <2>0, <3>1 DEF Suits, Live, After, OperationLabels
  <2>2. CASE BeginStop(j) /\ why' = why
    BY <1>9, <2>0, <2>1, <2>2
  <2>3. CASE why' = request[j] /\ Goto(Worker, "pausing") /\ UNCHANGED rows
    <3>1. Absent'
      BY <1>4, <2>0, <2>3
    <3> QED BY <1>6, <2>0, <2>1, <2>3, <3>1
  <2>4. CASE Update(Worker, j, "completed", "") /\ Goto(Worker, "completed") /\ why' = why
    <3>1. Absent' /\ Fitted("completed", j, "completed")
      BY <1>4, <2>0, <2>1, <2>4, LoopFits
    <3> QED BY <1>5, <2>0, <2>1, <2>4, <3>1
  <2> QED BY <1>1, <1>15, <2>2, <2>3, <2>4 DEF Complete
<1>16. CASE Completed \/ Finalized
  <2>1. PICK l \in {"finalizing", "ending"} : Goto(Worker, l)
    BY <1>16 DEF Completed, Finalized
  <2>2. pc[Worker] \in After /\ on' = on /\ request' = request /\ why' = why
        /\ (Return(Worker) \/ UNCHANGED rows)
    BY <1>16 DEF Completed, Finalized, At, signals, After
  <2>3. Suits(l, j)
    BY <1>2, <2>1, <2>2 DEF Suits, After, Working, OperationLabels
  <2>4. Absent'
    BY <1>4, <2>1, <2>2
  <2> QED BY <1>6, <2>1, <2>2, <2>3, <2>4
<1>17. CASE Pausing \/ Breaking
  <2>1. PICK st \in {"paused", "interrupted"}, rs \in {"manual", "shutdown", "provider"} :
          \/ BeginStop(j) /\ why' = ""
          \/ Update(Worker, j, st, rs) /\ Goto(Worker, "parked") /\ why' = why
    BY <1>1, <1>17 DEF Pausing, Breaking, Park, PauseReason
  <2>2. pc[Worker] \in {"pausing", "breaking"} /\ on' = on /\ request' = request
    BY <1>17 DEF Pausing, Breaking, Park, At, signals
  <2>3. j \in Resumable /\ Live(j)
    BY <1>11, <2>2 DEF Working
  <2>4. CASE BeginStop(j) /\ why' = ""
    BY <1>9, <2>2, <2>3, <2>4
  <2>5. CASE Update(Worker, j, st, rs) /\ Goto(Worker, "parked") /\ why' = why
    <3>1. Absent' /\ Fitted("parked", j, st)
      BY <1>4, <2>2, <2>3, <2>5, LoopFits
    <3> QED BY <1>5, <2>2, <2>3, <2>5, <3>1
  <2> QED BY <2>1, <2>4, <2>5
<1>18. CASE Parked
  <2>1. /\ pc[Worker] = "parked" /\ Return(Worker)
        /\ request' = [request EXCEPT ![j] = ""] /\ why' = ""
        /\ \/ why = "shutdown" /\ Leave(Worker)
           \/ why # "shutdown" /\ Goto(Worker, "loop") /\ on' = on
    BY <1>1, <1>18 DEF Parked, At
  <2>2. CASE why = "shutdown" /\ Leave(Worker)
    <3>1. phase # "open"
      BY <2>2 DEF Open, Absent
    <3>2. Absent'
      BY <1>4, <1>8, <2>1, <2>2
    <3> QED BY <1>7, <2>1, <2>2, <3>1, <3>2
  <2>3. CASE why # "shutdown" /\ Goto(Worker, "loop") /\ on' = on
    <3>1. j \in Resumable
      BY <1>11, <2>1 DEF Working
    <3>2. Suits("loop", j)
      BY <3>1 DEF Suits, After, Working, OperationLabels
    <3>3. Absent'
      BY <1>4, <2>1, <2>3
    <3> QED BY <1>6, <2>1, <2>3, <3>2, <3>3
  <2> QED BY <2>1, <2>2, <2>3
<1>19. CASE Unwind
  <2>1. pc[Worker] = "unwinding" /\ on' = on /\ request' = request /\ why' = why
    BY <1>19 DEF Unwind, At, signals
  <2>2. j \in Resumable /\ Live(j)
    BY <1>11, <2>1 DEF Working
  <2>3. CASE Update(Worker, j, "failed", "operation_failed") /\ Goto(Worker, "ending")
    <3>1. Absent' /\ Fitted("ending", j, "failed")
      BY <1>4, <2>1, <2>2, <2>3, LoopFits
    <3> QED BY <1>5, <2>1, <2>2, <2>3, <3>1
  <2>4. CASE Update(Worker, j, "interrupted", "rollback_failed") /\ Goto(Worker, "loop")
    <3>1. Absent' /\ Fitted("loop", j, "interrupted")
      BY <1>4, <2>1, <2>2, <2>4, LoopFits
    <3> QED BY <1>5, <2>1, <2>2, <2>4, <3>1
  <2> QED BY <1>1, <1>19, <2>3, <2>4 DEF Unwind
<1>20. CASE RollBack
  <2>1. pc[Worker] = "stopping" /\ on' = on /\ why' = why
    BY <1>20 DEF RollBack, At
  <2>2. j \in Resumable /\ Live(j)
    BY <1>11, <2>1 DEF Working
  <2>3. CASE /\ request' = [request EXCEPT ![j] = ""]
             /\ Update(Worker, j, "stopped", "manual") /\ Goto(Worker, "ending")
    <3>1. Absent' /\ Fitted("ending", j, "stopped")
      BY <1>4, <2>1, <2>2, <2>3, LoopFits
    <3> QED BY <1>5, <2>1, <2>2, <2>3, <3>1
  <2>4. CASE /\ RollbackMayFail /\ request' = request
             /\ Update(Worker, j, "interrupted", "rollback_failed") /\ Goto(Worker, "stranded")
    <3>1. Absent' /\ Fitted("stranded", j, "interrupted")
      BY <1>4, <2>1, <2>2, <2>4, LoopFits
    <3> QED BY <1>5, <2>1, <2>2, <2>4, <3>1
  <2> QED BY <1>1, <1>20, <2>3, <2>4 DEF RollBack
<1>21. CASE Strand
  <2>1. /\ pc[Worker] = "stranded" /\ Return(Worker) /\ Leave(Worker)
        /\ request' = [request EXCEPT ![j] = ""] /\ why' = why
    BY <1>1, <1>21 DEF Strand, At
  <2>2. Absent'
    BY <1>4, <1>8, <2>1
  <2>3. RollbackMayFail
    BY <2>1 DEF Open, Absent
  <2> QED BY <1>7, <2>1, <2>2, <2>3
<1> QED BY <1>12, <1>13, <1>14, <1>15, <1>16, <1>17, <1>18, <1>19, <1>20, <1>21 DEF ResumableStep

\* A runner that goes somewhere else than to a failed rollback brings nothing new.
LEMMA AbsentAt ==
  ASSUME TypeOK, Absent, NEW p \in Runners, NEW l, Goto(p, l), l # "stranded",
         request' = request, why' = why, phase' = phase
  PROVE  Absent'
<1>1. p \in Procs /\ pc'[p] = l /\ \A q \in Procs \ {p} : pc'[q] = pc[q]
  BY DEF Goto, TypeOK, Procs
<1>2. Worker \in Procs /\ \A c \in Clients : c \in Procs \ {p}
  BY ProcsAssumption DEF Procs, Runners
<1> QED BY <1>1, <1>2, AbsentKeeps

\* The worker takes a job, and the lock of its database.
LEMMA TakeOpen ==
  ASSUME TypeOK, Books, Open, Take
  PROVE  Onward /\ Stands
<1>1. /\ Worker \in Runners /\ Worker \in Procs /\ pc[Worker] = "get" /\ upd[Worker].stage = "none"
      /\ UNCHANGED <<mem, upd, ahead, db, ops, request, why, phase>> /\ Head(queue) \in Jobs
  <2>1. queue # <<>> /\ queue \in Seq(Jobs)
    BY DEF Take, TypeOK
  <2>2. Head(queue) \in Jobs
    BY <2>1, HeadTailProperties
  <2> QED BY <2>2 DEF Take, rows, signals, life, Runners, Procs, Books, Silent, Quiet, Resting
<1>2. PICK j \in Jobs : on[Worker] = j
  BY <1>1 DEF TypeOK
<1>3. PICK l \in {"get", "exit", "lock"}, k \in Jobs : GotoOn(Worker, l, k)
  <2>1. CASE Goto(Worker, NextLabel(Worker)) /\ UNCHANGED on
    BY <1>1, <1>2, <2>1, GotoStays DEF NextLabel
  <2>2. CASE GotoOn(Worker, "lock", Head(queue))
    BY <1>1, <2>2
  <2> QED BY <2>1, <2>2 DEF Take
<1>4. Absent'
  BY <1>1, <1>3, AbsentAt DEF GotoOn, Open
<1>5. UNCHANGED rows
  BY <1>1 DEF rows
<1> QED BY <1>1, <1>2, <1>3, <1>4, <1>5, ProcessQuits

\* The worker enters a resumable job.
LEMMA EnterOpen ==
  ASSUME TypeOK, Books, Open, EnterResumable
  PROVE  Onward /\ Stands
<1> USE LabelsAre
<1>1. /\ Worker \in Runners /\ Worker \in Procs /\ pc[Worker] = "lock" /\ upd[Worker].stage = "none"
      /\ UNCHANGED <<db, on, ops, request, why, phase>> /\ UNCHANGED rows /\ Goto(Worker, "loop")
  BY DEF EnterResumable, signals, work, life, Runners, Procs, Books, Silent, Quiet, Resting
<1>2. PICK j \in Jobs : on[Worker] = j
  BY <1>1 DEF TypeOK
<1>3. Suits("loop", j)
  BY <1>2 DEF EnterResumable, IsResumable, Suits, After, Working, OperationLabels
<1>4. Absent'
  BY <1>1, AbsentAt DEF Open
<1> QED BY <1>1, <1>2, <1>3, <1>4, RunnerGoes DEF Returned

\* _run_simple, by the worker or a task of its own
LEMMA RunnerOpen ==
  ASSUME TypeOK, Books, Lanes, Open, Missing, CommitInOrder, phase # "closed", NEW p \in Runners,
         RunnerStep(p)
  PROVE  Onward /\ Stands
<1> USE LabelsAre, StatusesAre
<1>0. /\ p \in Procs /\ pc[p] \in {"lock", "simple", "report", "ending"}
      /\ db' = db /\ UNCHANGED <<request, why, phase>> /\ ops' \subseteq ops /\ Returned(p)
      /\ pc[p] \in RunnerLabels \ {"get", "exit"}
  <2>1. /\ pc[p] \in {"lock", "simple", "report", "ending"}
        /\ db' = db /\ UNCHANGED <<request, why, phase>> /\ ops' \subseteq ops
        /\ pc[p] # "lock" => Returned(p)
    BY DEF RunnerStep, SkipCancelled, EnterSimple, SimpleStep, Reported, Finish, Cancelled, CancelHandled,
           Return, work, signals, life
  <2>2. pc[p] = "lock" => upd[p].stage = "none"
    BY DEF Books, Silent, Quiet, Procs
  <2> QED BY <2>1, <2>2 DEF Returned, Procs
<1>1. PICK j \in Jobs : on[p] = j
  BY <1>0 DEF TypeOK
<1>2. Suits(pc[p], j)
  BY <1>0, <1>1, SuitsNow
<1>3. ASSUME NEW l, Goto(p, l), l # "stranded" PROVE Absent'
  BY <1>0, <1>3, AbsentAt DEF Open
<1>4. pc[p] \in SimpleLabels => j \notin Resumable /\ Live(j) /\ j \notin ops
  <2>1. pc[p] \in SimpleLabels => Live(j) /\ mem[j].status = "running"
    BY <1>2 DEF Suits, Live
  <2>2. pc[p] \in SimpleLabels => j \notin Resumable
    BY <1>1, JobsAssumption DEF Runners, Books, Placed
  <2> QED BY <2>1, <2>2 DEF Open, Waiting
<1>5. ASSUME j \notin Resumable
      PROVE  /\ Fitted("simple", j, "running") /\ Fitted("report", j, "running")
             /\ \A st \in Terminal : Fitted("ending", j, st)
  BY <1>5, JobsAssumption DEF Fitted, After, Working, OperationLabels, MayCapture
<1>6. ASSUME NEW l \in HoldLabels, NEW st \in Active \cup Terminal, NEW rs, Update(p, j, st, rs),
             Goto(p, l), Fitted(l, j, st), on' = on, j \notin ops', Absent',
             Live(j) \/ (st \in Terminal /\ Status(j) = st)
      PROVE  Onward /\ Stands
  BY <1>0, <1>1, <1>6, RunnerWrites
<1>7. CASE SkipCancelled(p)
  <2>1. p # Worker /\ GotoOn(p, "exit", AnyJob) /\ UNCHANGED rows
    BY <1>7, ProcsAssumption DEF SkipCancelled
  <2>2. Absent' /\ upd[p].stage = "none" /\ pc[p] # "enqueue"
    BY <1>0, <1>3, <1>7, <2>1 DEF GotoOn, SkipCancelled, Books, Silent, Quiet
  <2> QED BY <1>0, <1>1, <2>1, <2>2, AnyJobType, ProcessQuits
<1>8. CASE EnterSimple(p)
  <2>0. j \notin Resumable /\ j \notin ops' /\ on' = on
    BY <1>1, <1>8 DEF EnterSimple, IsResumable
  <2>1. CASE j \in ops /\ Goto(p, "simple") /\ Update(p, j, "running", Row(j).reason)
    <3>1. Live(j)
      BY <2>1 DEF Open, Waiting, Live
    <3>2. Absent' /\ Fitted("simple", j, "running")
      BY <1>3, <1>5, <2>0, <2>1
    <3> QED BY <1>6, <2>0, <2>1, <3>1, <3>2
  <2>2. CASE j \notin ops /\ Goto(p, "ending") /\ Update(p, j, "cancelled", "operation_missing")
    <3>1. Absent' /\ Fitted("ending", j, "cancelled")
      BY <1>3, <1>5, <2>0, <2>2
    <3>2. Status(j) = "cancelled"
      BY <1>1, <1>8, <2>0, <2>2 DEF EnterSimple, Missing, Expected
    <3> QED BY <1>6, <2>0, <2>2, <3>1, <3>2
  <2> QED BY <1>1, <1>8, <2>1, <2>2 DEF EnterSimple
<1>9. CASE SimpleStep(p)
  <2>0. j \notin Resumable /\ Live(j) /\ j \notin ops' /\ on' = on /\ pc[p] = "simple"
    BY <1>0, <1>4, <1>9 DEF SimpleStep
  <2>1. CASE UNCHANGED <<rows, pc>>
    <3>1. Goto(p, "simple") /\ UNCHANGED rows
      BY <2>0, <2>1 DEF Goto, TypeOK
    <3>2. Absent'
      BY <1>3, <3>1
    <3> QED BY <1>0, <1>1, <1>2, <2>0, <3>1, <3>2, RunnerGoes
  <2>2. CASE \E st \in Terminal : \E rs : Update(p, j, st, rs) /\ Goto(p, "ending")
    <3>1. PICK st, rs : st \in Terminal /\ Update(p, j, st, rs) /\ Goto(p, "ending")
      BY <2>2
    <3>2. Absent' /\ Fitted("ending", j, st)
      BY <1>3, <1>5, <2>0, <3>1
    <3> QED BY <1>6, <2>0, <3>1, <3>2
  <2>3. CASE Update(p, j, "running", Row(j).reason) /\ Goto(p, "report")
    <3>1. Absent' /\ Fitted("report", j, "running")
      BY <1>3, <1>5, <2>0, <2>3
    <3> QED BY <1>6, <2>0, <2>3, <3>1
  <2> QED BY <1>1, <1>9, <2>1, <2>2, <2>3 DEF SimpleStep
<1>10. CASE Reported(p)
  <2>1. pc[p] = "report" /\ Return(p) /\ Goto(p, "simple") /\ on' = on
    BY <1>10 DEF Reported
  <2>2. Suits("simple", j)
    BY <1>2, <2>1 DEF Suits, After, Working, OperationLabels
  <2>3. Absent'
    BY <1>3, <2>1
  <2> QED BY <1>0, <1>1, <2>1, <2>2, <2>3, RunnerGoes
<1>11. CASE Finish(p)
  <2>1. pc[p] = "ending" /\ Return(p) /\ Leave(p)
    BY <1>11 DEF Finish
  <2>2. PICK l \in {"get", "exit"} : GotoOn(p, l, AnyJob)
    BY <2>1 DEF Leave, NextLabel
  <2>3. Absent' /\ pc[p] # "enqueue" /\ AnyJob \in Jobs
    BY <1>3, <2>1, <2>2, AnyJobType DEF GotoOn
  <2>4. ~Live(j)
    BY <1>2, <2>1 DEF Suits, After
  <2> QED BY <1>0, <1>1, <2>1, <2>2, <2>3, <2>4, ProcessQuits
<1> QED BY <1>7, <1>8, <1>9, <1>10, <1>11 DEF RunnerStep, Cancelled, CancelHandled

\* pause, stop, resume and cancel, and their answers.
LEMMA CallOpen ==
  ASSUME TypeOK, Books, Lanes, Open, Orderly, phase = "open", NEW c \in Clients,
         \/ \E j \in Jobs : Pause(c, j) \/ Stop(c, j) \/ Resume(c, j) \/ Cancel(c, j)
         \/ Answer(c)
         \/ CancelAnswer(c)
  PROVE  Onward /\ Stands
<1> USE StatusesAre
<1>0. c \in Procs /\ c # Worker /\ c # Closer /\ Worker \in Procs /\ AnyJob \in Jobs
  BY ProcsAssumption, AnyJobType DEF Procs, Runners
<1>1. ASSUME NEW l, NEW i, GotoOn(c, l, i), l # "clean", l = "cancel" => "cancel" \in Calls, why' = why,
             request' = request \/ \E k \in Jobs : \E r \in {"pause", "stop", ""} :
                                     request' = [request EXCEPT ![k] = r]
      PROVE  Absent'
  <2>1. pc'[c] = l /\ \A q \in Procs \ {c} : pc'[q] = pc[q]
    BY <1>0, <1>1 DEF GotoOn, Goto, TypeOK
  <2>2. \A k \in Jobs : request'[k] # "shutdown"
    BY <1>1 DEF Open, Absent, TypeOK
  <2>3. \A d \in Clients : d = c \/ d \in Procs \ {c}
    BY DEF Procs
  <2>4. Worker \in Procs \ {c}
    BY <1>0
  <2> QED BY <1>1, <2>1, <2>2, <2>3, <2>4 DEF Open, Absent
<1>2. ASSUME NEW j \in Jobs, Pause(c, j) \/ Stop(c, j) \/ Resume(c, j) \/ Cancel(c, j)
      PROVE  Onward /\ Stands
  <2>0. pc[c] = "idle" /\ UNCHANGED <<db, why>> /\ upd[c].stage = "none" /\ CommitInOrder
    BY <1>0, <1>2 DEF Pause, Stop, Resume, Cancel, Books, Silent, Quiet, Resting, Orderly
  <2>5. ~Bound(j) \/ Status(j) = "queued"
    BY DEF Open, Waiting, Status, Row
  <2>1. CASE Pause(c, j)
    <3>1. /\ request' = [request EXCEPT ![j] = "pause"] /\ ops' = ops /\ GotoOn(c, "pause", j)
          /\ Update(c, j, "pausing", "manual") /\ j \in Resumable /\ Status(j) = "running"
      BY <2>1 DEF Pause, work, IsResumable
    <3>2. Absent'
      BY <1>1, <2>0, <3>1
    <3> QED BY <2>0, <2>5, <3>1, <3>2, ClientWrites, StatusesAre
  <2>2. CASE Stop(c, j)
    <3>1. /\ request' = [request EXCEPT ![j] = "stop"] /\ ops' = ops /\ GotoOn(c, "stop", j)
          /\ Update(c, j, "stopping", "manual") /\ j \in Resumable
          /\ Status(j) \in {"running", "pausing"} \cup Paused
      BY <2>2 DEF Stop, work, IsResumable
    <3>2. Absent'
      BY <1>1, <2>0, <3>1
    <3> QED BY <2>0, <2>5, <3>1, <3>2, ClientWrites, StatusesAre
  <2>3. CASE Resume(c, j)
    <3>1. /\ request' = [request EXCEPT ![j] = ""] /\ ops' = ops /\ GotoOn(c, "resume", j)
          /\ Update(c, j, "paused", "resume_requested") /\ j \in Resumable /\ Status(j) \in Paused
      BY <2>3 DEF Resume, work, IsResumable
    <3>2. Absent'
      BY <1>1, <2>0, <3>1
    <3> QED BY <2>0, <2>5, <3>1, <3>2, ClientWrites, StatusesAre
  <2>4. CASE Cancel(c, j)
    <3>1. "cancel" \in Calls /\ j \notin Cleaning /\ request' = request /\ Status(j) = "queued"
      BY <2>4 DEF Cancel, Orderly, signals
    <3>2. /\ Update(c, j, "cancelled", "manual") /\ GotoOn(c, "cancel", j) /\ ops' = ops \ {j}
      BY <1>0, <2>4, <3>1 DEF Cancel, DropQueued
    <3>3. Absent'
      BY <1>1, <2>0, <3>1, <3>2
    <3>4. ~Bound(j) /\ Compared = {}
      BY <2>0, <3>1 DEF Orderly, Bound
    <3> QED BY <2>0, <3>1, <3>2, <3>3, <3>4, ClientWrites
  <2> QED BY <1>2, <2>1, <2>2, <2>3, <2>4
<1>3. CASE Answer(c) \/ CancelAnswer(c)
  <2>1. /\ Return(c) /\ GotoOn(c, "idle", AnyJob) /\ UNCHANGED <<db, ops, request, why>>
        /\ pc[c] \in {"pause", "stop", "resume", "cancel"}
    BY <1>0, <1>3 DEF Answer, CancelAnswer, work, signals
  <2>2. Absent'
    BY <1>1, <2>1
  <2>3. PICK j \in Jobs : on[c] = j
    BY <1>0 DEF TypeOK
  <2>4. pc[c] # "enqueue"
    BY <2>1
  <2> QED BY <1>0, <2>1, <2>2, <2>3, <2>4, ProcessQuits
<1> QED BY <1>2, <1>3

\* A submission inserts the row of a job that nobody has.
LEMMA SubmitOpen ==
  ASSUME TypeOK, Books, Open, phase = "open", NEW c \in Clients, NEW j \in Jobs, Submit(c, j)
  PROVE  Onward /\ Stands
<1> USE LabelsAre, StatusesAre
<1>1. /\ pc[c] = "idle" /\ startLock = Free /\ db[j] = NoRow /\ db' = [db EXCEPT ![j] = NewRow]
      /\ UNCHANGED <<mem, upd, ahead, ops, request, why>> /\ GotoOn(c, "enqueue", j)
  BY DEF Submit, rows, signals
<1>2. /\ c \in Procs /\ c # Worker /\ c \notin Runners /\ Worker \in Procs
      /\ pc'[c] = "enqueue" /\ on'[c] = j
      /\ \A q \in Procs \ {c} : pc'[q] = pc[q] /\ on'[q] = on[q]
  BY <1>1, ProcsAssumption DEF GotoOn, Goto, TypeOK, Procs, Runners
<1>3. db'[j] = NewRow /\ \A k \in Jobs \ {j} : db'[k] = db[k]
  BY <1>1 DEF TypeOK
<1>4. mem[j] = NoRow /\ upd[c].stage = "none"
  BY <1>1, <1>2 DEF Books, Known, Silent, Quiet, Resting
<1>5. \A q \in Procs : on[q] = j => pc[q] \in Resting /\ upd[q].stage = "none"
  BY <1>1 DEF Books, Known, Silent, Quiet
<1>6. \A d \in Clients : pc[d] # "enqueue"
  <2>1. \A d \in Clients : d # Free
    BY ProcsAssumption DEF Procs
  <2> QED BY <1>1, <2>1 DEF Books, Starts
<1>7. \A k \in Jobs : Bound(k)' <=> k = j
  <2>1. \A d \in Clients \ {c} : pc'[d] # "enqueue"
    BY <1>2, <1>6 DEF Procs
  <2> QED BY <1>2, <2>1 DEF Bound
<1>8. \A q \in Procs : /\ on'[q] = j => upd'[q].stage = "none"
                       /\ on'[q] # j => on'[q] = on[q] /\ upd'[q] = upd[q]
  BY <1>1, <1>2, <1>4, <1>5
<1>9. ASSUME NEW k \in Jobs PROVE RowsOf(k)' /\ (Live(k)' <=> Live(k))
  <2>1. CASE k = j
    <3>2. \A q \in Procs : ~Writing(q, j)' /\ (on'[q] = j => upd'[q].stage \notin {"capture", "written"})
      BY <1>8 DEF Writing
    <3>3. Lined(j)' /\ Uncaught(j)' /\ LastWord(j)'
      BY <1>8, <3>2 DEF Lined, Uncaught, LastWord, Writing
    <3>4. Finished(j)' /\ Dropped(j)'
      BY <1>3, <1>7, NewRowIs DEF Finished, Over, Dropped
    <3>5. Begun(j)'
      BY <1>8 DEF Begun
    <3>6. Agreed(j)'
      <4>1. ~Over(mem'[j])
        BY <1>1, <1>4 DEF Over, NoRow
      <4>2. ~Over(db'[j])
        <5>1. db'[j].status = "queued"
          BY <1>3, NewRowIs
        <5> QED BY <5>1 DEF Over
      <4> QED BY <3>2, <4>1, <4>2 DEF Agreed, Over
    <3> QED BY <1>1, <2>1, <3>3, <3>4, <3>5, <3>6 DEF RowsOf, Live
  <2>2. CASE k # j
    <3>1. RowsOf(k) /\ mem'[k] = mem[k] /\ db'[k] = db[k] /\ ~Bound(k)
      BY <1>1, <1>3, <1>6, <2>2 DEF Open, Bound
    <3>2. \A q \in Procs : \/ upd'[q] = upd[q] /\ on'[q] = on[q]
                           \/ on'[q] = k => upd'[q].stage = "none"
      BY <1>8, <2>2
    <3>3. \A q, r \in Procs : q \in ahead'[r] <=> q \in ahead[r]
      BY <1>1
    <3> QED BY <3>1, <3>2, <3>3, Untouched
  <2> QED BY <2>1, <2>2
<1>10. ASSUME NEW q \in Procs PROVE InPlace(q)'
  <2>1. CASE q = c
    BY <1>1, <1>2, <1>4, <2>1 DEF InPlace
  <2>2. CASE q # c
    <3>1. PICK k \in Jobs : k = on[q]
      BY DEF TypeOK
    <3> QED BY <1>1, <1>2, <2>2, <3>1, InPlaceKeeps DEF Open
  <2> QED BY <2>1, <2>2
<1>11. Waiting'
  <2>1. \A k \in ops' : k \in Jobs \ Resumable /\ mem'[k].status = "queued"
    BY <1>1 DEF Open, Waiting
  <2> QED BY <1>1, <1>3, <1>4, <1>7, <1>8, <2>1, NewRowIs DEF Waiting
<1>12. Absent'
  <2>1. \A d \in Clients : d = c \/ d \in Procs \ {c}
    BY DEF Procs
  <2> QED BY <1>1, <1>2, <2>1 DEF Open, Absent
<1>13. Stands
  <2>1. \A k : Serving(k) => Serving(k)'
    BY <1>2 DEF Serving
  <2> QED BY <1>9, <2>1, JobsAssumption DEF Stands
<1>14. Firm
  BY <1>1 DEF Firm
<1> QED BY <1>9, <1>10, <1>11, <1>12, <1>13, <1>14 DEF Open, Onward

\* After its insertion the job comes to life, in the queue or with a task of its own.
LEMMA EnqueueOpen ==
  ASSUME TypeOK, Books, Open, phase = "open", NEW c \in Clients, Enqueue(c), NEW j \in Jobs, on[c] = j
  PROVE  /\ Onward
         /\ \A k \in Jobs \ {j} : mem'[k] = mem[k]
         /\ \A k \in Jobs : Serving(k) => Serving(k)'
<1> USE LabelsAre, StatusesAre
<1>1. /\ pc[c] = "enqueue" /\ mem' = [mem EXCEPT ![j] = NewRow]
      /\ UNCHANGED <<db, upd, ahead, request, why>>
      /\ ops' = IF j \in Resumable THEN ops ELSE ops \cup {j}
  BY DEF Enqueue, IsResumable, signals
<1>2. /\ c \in Procs /\ c # Worker /\ c \notin Runners /\ c # j /\ j \in Procs /\ j # Worker
      /\ Worker \in Procs
  BY ProcsAssumption DEF Procs, Runners
<1>3. \/ /\ j \in ShortLane /\ pc' = [pc EXCEPT ![c] = "idle", ![j] = "lock"]
         /\ on' = [on EXCEPT ![c] = AnyJob, ![j] = j]
      \/ /\ j \notin ShortLane /\ pc' = [pc EXCEPT ![c] = "idle"]
         /\ on' = [on EXCEPT ![c] = AnyJob]
  BY DEF Enqueue, GotoOn, Goto
<1>4. j \in ShortLane => pc[j] = "exit"
  BY <1>1 DEF Books, Starts
<1>5. /\ pc'[c] = "idle" /\ \A q \in Procs \ {c, j} : pc'[q] = pc[q] /\ on'[q] = on[q]
      /\ \/ pc'[j] = "lock" /\ on'[j] = j /\ pc[j] = "exit"
         \/ pc'[j] = pc[j] /\ on'[j] = on[j]
  <2>1. pc \in [Procs -> Labels] /\ on \in [Procs -> Jobs]
    BY DEF TypeOK
  <2> QED BY <1>2, <1>3, <1>4, <2>1
<1>6. Bound(j)
  BY <1>1 DEF Bound
<1>7. /\ mem[j] = NoRow /\ db[j].status = "queued"
      /\ \A q \in Procs : on[q] = j => upd[q].stage = "none"
  BY <1>6 DEF Open, Waiting
<1>8. /\ upd[c].stage = "none"
      /\ upd[j].stage = "none" \/ (pc'[j] = pc[j] /\ on'[j] = on[j])
  BY <1>1, <1>2, <1>5 DEF Books, Silent, Quiet, Resting
<1>9. /\ mem'[j] = NewRow /\ \A k \in Jobs \ {j} : mem'[k] = mem[k]
  BY <1>1 DEF TypeOK
<1>10. /\ \A k \in Jobs : Bound(k) => k = j
       /\ \A k \in Jobs : ~Bound(k)'
  <2>1. \A d \in Clients \ {c} : pc[d] # "enqueue"
    BY <1>1 DEF Books, Starts
  <2>2. \A d \in Clients \ {c} : d \in Procs \ {c, j}
    BY ProcsAssumption DEF Procs
  <2> QED BY <1>1, <1>5, <2>1, <2>2 DEF Bound
<1>11. \A q \in Procs : \/ upd'[q] = upd[q] /\ on'[q] = on[q]
                        \/ upd'[q].stage = "none"
  BY <1>1, <1>5, <1>8
<1>12. ASSUME NEW k \in Jobs PROVE RowsOf(k)'
  <2>1. CASE k = j
    <3>1. \A q \in Procs : on'[q] = j => upd'[q].stage = "none"
      BY <1>1, <1>7, <1>11
    <3>2. Lined(j)' /\ Uncaught(j)' /\ LastWord(j)'
      BY <3>1 DEF Lined, Uncaught, LastWord, Writing
    <3>3. Finished(j)' /\ Dropped(j)' /\ Begun(j)' /\ Agreed(j)'
      BY <1>1, <1>7, <1>9, <3>1, NewRowIs DEF Finished, Over, Dropped, Begun, Agreed, Writing, NewRow
    <3> QED BY <2>1, <3>2, <3>3 DEF RowsOf
  <2>2. CASE k # j
    <3>1. RowsOf(k) /\ mem'[k] = mem[k] /\ db'[k] = db[k] /\ ~Bound(k)
      BY <1>1, <1>9, <1>10, <2>2 DEF Open
    <3>2. \A q \in Procs : \/ upd'[q] = upd[q] /\ on'[q] = on[q]
                           \/ on'[q] = k => upd'[q].stage = "none"
      BY <1>11
    <3>3. \A q, r \in Procs : q \in ahead'[r] <=> q \in ahead[r]
      BY <1>1
    <3> QED BY <3>1, <3>2, <3>3, Untouched
  <2> QED BY <2>1, <2>2
<1>13. ASSUME NEW q \in Procs PROVE InPlace(q)'
  <2>0. \A l \in {"lock", "exit", "get"} :
          l \notin After \cup SimpleLabels \cup Working \cup OperationLabels \cup {"loop"}
    BY DEF After, Working, OperationLabels
  <2>1. CASE upd'[q].stage = "none" /\ pc'[q] \in {"lock", "exit", "get"}
    BY <2>0, <2>1 DEF InPlace, Suits
  <2>2. CASE q = c
    BY <1>1, <1>2, <1>8, <2>2 DEF InPlace
  <2>3. CASE q # c /\ pc'[q] = pc[q] /\ on'[q] = on[q]
    <3>1. PICK k \in Jobs : k = on[q]
      BY DEF TypeOK
    <3>2. CASE k # j
      BY <1>1, <1>9, <2>3, <3>1, <3>2, InPlaceKeeps DEF Open
    <3>3. CASE k = j /\ q \in Runners
      <4>1. upd[q].stage = "none"
        BY <1>7, <3>1, <3>3
      <4>2. pc[q] \notin RunnerLabels \ {"get", "exit"}
        BY <1>6, <3>1, <3>3, NotBound
      <4>3. (After \cup SimpleLabels \cup Working \cup OperationLabels \cup {"loop"})
              \subseteq RunnerLabels \ {"get", "exit"}
        BY DEF After, Working, OperationLabels
      <4> QED BY <1>1, <2>3, <4>1, <4>2, <4>3 DEF InPlace, Suits
    <3>4. CASE k = j /\ q \notin Runners
      BY <1>1, <1>7, <3>1, <3>4 DEF InPlace
    <3> QED BY <3>2, <3>3, <3>4
  <2>4. CASE q = j /\ pc'[j] = "lock"
    <3>1. CASE upd[j].stage = "none"
      BY <1>1, <2>1, <2>4, <3>1
    <3>2. CASE pc'[j] = pc[j] /\ on'[j] = on[j]
      BY <1>2, <2>3, <2>4, <3>2
    <3> QED BY <1>8, <3>1, <3>2
  <2> QED BY <1>5, <2>2, <2>3, <2>4
<1>14. Waiting'
  <2>1. \A k \in ops' : k \in Jobs \ Resumable /\ mem'[k].status = "queued"
    BY <1>1, <1>9, NewRowIs DEF Open, Waiting
  <2> QED BY <1>10, <2>1 DEF Waiting
<1>15. pc'[Worker] = pc[Worker] /\ on'[Worker] = on[Worker]
  BY <1>2, <1>5
<1>16. Absent'
  <2>1. \A d \in Clients : d = c \/ pc'[d] = pc[d]
    <3>1. \A d \in Clients : d \in Procs /\ d # j
      BY ProcsAssumption DEF Procs
    <3> QED BY <1>5, <3>1
  <2> QED BY <1>1, <1>5, <1>15, <2>1 DEF Open, Absent
<1>17. \A k \in Jobs : Serving(k) => Serving(k)'
  BY <1>15 DEF Serving
<1>18. Firm
  BY <1>7, <1>9 DEF Firm, Over
<1> QED BY <1>9, <1>12, <1>13, <1>14, <1>16, <1>17, <1>18 DEF Open, Onward

-----------------------------------------------------------------------------
\* A restart, and the steps of a manager that is not open.

\* What a restart leaves active was active, and is paused.
LEMMA RecoveredActive ==
  ASSUME NEW row \in Rows \cup {NoRow}, NEW b, Recovered(row, b).status \in Active
  PROVE  row.status \in Active /\ Recovered(row, b).status \in Paused
<1> USE StatusesAre
<1>1. row.status \in Active => row \in Rows
  OBVIOUS
<1>2. CASE row.status = "queued"
  <2>1. Recovered(row, b) = [row EXCEPT !.status = "cancelled", !.reason = "shutdown"]
    BY <1>2 DEF Recovered
  <2> QED BY <1>1, <1>2, <2>1 DEF Rows
<1>3. CASE row.status \in {"running", "pausing", "stopping"}
  <2>1. PICK st \in {"interrupted", "cancelled"} :
          Recovered(row, b) = [row EXCEPT !.status = st, !.reason = "process_interrupted"]
    BY <1>3 DEF Recovered
  <2> QED BY <1>1, <1>3, <2>1 DEF Rows
<1>4. CASE row.status \notin {"queued", "running", "pausing", "stopping"}
  BY <1>4 DEF Recovered
<1> QED BY <1>2, <1>3, <1>4

\* It leaves nothing queued, and what is terminal as it is.
LEMMA RecoveredSettled ==
  ASSUME NEW row \in Rows \cup {NoRow}, NEW b
  PROVE  /\ Recovered(row, b).status # "queued"
         /\ Over(row) => Recovered(row, b) = row
<1> USE StatusesAre
<1>1. row.status \in {"queued", "running", "pausing", "stopping"} => row \in Rows
  OBVIOUS
<1>2. CASE row.status = "queued"
  <2>1. Recovered(row, b) = [row EXCEPT !.status = "cancelled", !.reason = "shutdown"]
    BY <1>2 DEF Recovered
  <2>2. Recovered(row, b).status = "cancelled"
    BY <1>1, <1>2, <2>1 DEF Rows
  <2> QED BY <1>2, <2>2 DEF Over
<1>3. CASE row.status \in {"running", "pausing", "stopping"}
  <2>1. PICK st \in {"interrupted", "cancelled"} :
          Recovered(row, b) = [row EXCEPT !.status = st, !.reason = "process_interrupted"]
    BY <1>3 DEF Recovered
  <2>2. Recovered(row, b).status = st
    BY <1>1, <1>3, <2>1 DEF Rows
  <2> QED BY <1>3, <2>2 DEF Over
<1>4. CASE row.status \notin {"queued", "running", "pausing", "stopping"}
  BY <1>4 DEF Recovered
<1> QED BY <1>2, <1>3, <1>4

\* Every live resumable job has the worker, or waits for it.
Attended == \A j \in Resumable : Live(j) => Serving(j) \/ Queued(j)

\* The jobs a restart keeps are all queued again.
LEMMA AllQueued ==
  ASSUME NEW S, IsFiniteSet(S), NEW q \in [1..Cardinality(S) -> S],
         \A i, n \in DOMAIN q : q[i] = q[n] => i = n, NEW k \in S
  PROVE  \E i \in DOMAIN q : q[i] = k
<1>1. Cardinality(S) \in Nat
  BY FS_CardinalityType
<1>2. IsFiniteSet(1..Cardinality(S)) /\ Cardinality(1..Cardinality(S)) = Cardinality(S)
  BY <1>1, FS_Interval
<1>3. q \in Injection(1..Cardinality(S), S)
  BY DEF Injection, IsInjective
<1>4. q \in Surjection(1..Cardinality(S), S)
  BY <1>2, <1>3, FS_Injection
<1> QED BY <1>4 DEF Surjection

\* A restart marks what was active, loads what may be resumed and queues it: all in order again.
LEMMA RecoverOpen ==
  ASSUME TypeOK, TypeOK', Books, Books', Lanes, Idle, Recover
  PROVE  /\ Open' /\ Missing' /\ Lanes' /\ Retired' /\ Attended' /\ Lasting
         /\ \A k \in Jobs : db'[k].status \in Active => db[k].status \in Active
<1> USE LabelsAre, StatusesAre
<1> DEFINE kept == {j \in Resumable : db'[j].status \in Paused}
<1>1. /\ phase = "down" /\ UNCHANGED <<upd, on, ops, request, why>>
      /\ \A k \in Jobs : /\ db'[k] = Recovered(db[k], IsResumable(k))
                         /\ mem'[k] = IF k \in kept THEN db'[k] ELSE NoRow
      /\ queue' \in Oldest(kept) /\ pc' = [pc EXCEPT ![Worker] = "get"]
  BY DEF Recover, Goto, signals
<1>2. /\ Worker \in Procs /\ Worker \notin Clients /\ Clients \subseteq Procs
      /\ \A p \in Procs : pc[p] \in {"idle", "exit"}
  BY <1>1, ProcsAssumption DEF Procs, Runners, Books, Asleep
<1>3. pc'[Worker] = "get" /\ \A p \in Procs : pc'[p] \in {"idle", "exit", "get"}
  BY <1>1, <1>2 DEF TypeOK
<1>4. /\ \A p \in Procs : upd'[p].stage = "none"
      /\ \A j \in Jobs : request'[j] = ""
      /\ why' = "" /\ ops' = {}
  BY <1>1 DEF Idle, Cold
<1>5. \A k \in Resumable : k \in Jobs /\ IsResumable(k) /\ k \notin ShortLane
  BY JobsAssumption DEF IsResumable
<1>6. ASSUME NEW k \in Jobs, db'[k].status \in Active
      PROVE  db[k].status \in Active /\ (k \in Resumable => k \in kept)
  <2>1. db[k] \in Rows \cup {NoRow}
    BY DEF TypeOK
  <2>2. Recovered(db[k], IsResumable(k)).status \in Active
    BY <1>1, <1>6
  <2> QED BY <1>1, <2>1, <2>2, RecoveredActive
<1>7. \A k \in Jobs : Live(k)' => k \in kept /\ db'[k].status \in Paused
  BY <1>1 DEF Live
<1>8. ASSUME NEW k \in Jobs PROVE RowsOf(k)'
  <2>1. \A p \in Procs : ~Writing(p, k)'
    BY <1>4 DEF Writing
  <2>2. Lined(k)' /\ Uncaught(k)' /\ LastWord(k)'
    BY <1>4, <2>1 DEF Lined, Uncaught, LastWord
  <2>3. Finished(k)'
    BY <1>7, <2>1 DEF Finished, Over
  <2>4. db'[k].status # "queued"
    <3>1. db[k] \in Rows \cup {NoRow}
      BY DEF TypeOK
    <3> QED BY <1>1, <3>1, RecoveredSettled
  <2>5. Dropped(k)' /\ Begun(k)'
    BY <1>1, <1>4, <1>6, <2>4 DEF Dropped, Begun
  <2>6. Agreed(k)'
    <3>1. ~Over(mem'[k])
      BY <1>1 DEF Over
    <3>2. \E t \in Terminal : Over(db'[k]) => db'[k].status = t
      BY DEF Over
    <3> QED BY <2>1, <3>1, <3>2 DEF Agreed, Over
  <2> QED BY <2>2, <2>3, <2>5, <2>6 DEF RowsOf
<1>9. \A p \in Procs : InPlace(p)'
  <2>1. \A l \in {"idle", "exit", "get"} :
          l \notin After \cup SimpleLabels \cup Working \cup OperationLabels \cup {"loop"}
    BY DEF After, Working, OperationLabels
  <2> QED BY <1>3, <1>4, <2>1 DEF InPlace, Suits
<1>10. \A c \in Clients : pc'[c] \notin {"enqueue", "clean", "cancel"}
  BY <1>2, <1>3
<1>11. Waiting' /\ Absent'
  BY <1>3, <1>4, <1>10 DEF Waiting, Bound, Absent
<1>12. /\ queue' \in [1..Cardinality(kept) -> kept]
       /\ \A i, n \in DOMAIN queue' : queue'[i] = queue'[n] => i = n
  BY <1>1 DEF Oldest, Books, QueuedOnce
<1>13. IsFiniteSet(kept)
  BY JobsAssumption, FS_Subset
<1> HIDE DEF kept
<1>14. Attended'
  <2> SUFFICES ASSUME NEW k \in Resumable, Live(k)' PROVE \E i \in DOMAIN queue' : queue'[i] = k
    BY DEF Attended, Queued
  <2>1. k \in kept
    BY <1>5, <1>7
  <2> QED BY <1>12, <1>13, <2>1, AllQueued
<1>15. Lanes'
  <2>1. \A i \in DOMAIN queue' : queue'[i] \in Resumable
    BY <1>12 DEF kept
  <2> QED BY <1>3, <1>5, <2>1 DEF Lanes
<1>16. Missing'
  <2>1. \A k \in Jobs : ~(Queued(k)' /\ k \notin Resumable)
    BY <1>12 DEF kept, Queued
  <2>2. \A p \in Runners : pc'[p] # "lock"
    BY <1>3 DEF Procs
  <2> QED BY <2>1, <2>2 DEF Missing, Expected
<1>17. Retired'
  <2>1. phase' = "open" /\ Closer \in Procs
    BY DEF Recover, Procs
  <2> QED BY <1>3, <2>1 DEF Retired
<1>18. Lasting
  <2> SUFFICES ASSUME NEW k \in Jobs, Over(db[k]) PROVE db'[k] = db[k]
    BY DEF Lasting
  <2>1. db[k] \in Rows \cup {NoRow}
    BY DEF TypeOK
  <2> QED BY <1>1, <2>1, RecoveredSettled
<1> QED BY <1>6, <1>8, <1>9, <1>11, <1>14, <1>15, <1>16, <1>17, <1>18 DEF Open

\* The end of the process leaves nothing but the table.
LEMMA DownIdle ==
  ASSUME Down
  PROVE  Lanes' /\ Idle' /\ Retired' /\ ~Ready' /\ db' = db
<1>1. Worker \in Procs /\ Worker \in Runners
  BY DEF Procs, Runners
<1>2. pc'[Worker] = "exit"
  BY <1>1 DEF Down, Cold, RestLabel
<1>3. queue' = <<>> /\ db' = db /\ Idle'
  BY DEF Down, Idle, Cold
<1>4. \A i \in DOMAIN queue' : FALSE
  BY <1>3
<1>5. Retired' /\ ~Ready'
  <2>1. Closer \in Procs /\ phase' = "down" /\ pc'[Closer] \in {"exit", "idle"}
    BY DEF Down, Cold, RestLabel, Procs
  <2> QED BY <2>1 DEF Retired, Ready
<1> QED BY <1>2, <1>3, <1>4, <1>5 DEF Lanes

\* Every step leaves the queue to the worker and the phase to the process, but for these.
LEMMA StepKinds ==
  ASSUME TypeOK, Books, Outcomes, Next
  PROVE  \/ Steady
         \/ Take \/ (\E c \in Clients, j \in Jobs : Submit(c, j)) \/ (\E c \in Clients : Enqueue(c))
         \/ (Down /\ phase # "down") \/ Recover
<1>1. \A p \in Procs : Goes(p) => Steady
  BY DEF Goes
<1>2. CASE EnterResumable
  BY <1>2, SteadyIs DEF EnterResumable, work, life
<1>3. CASE OperationStep
  BY <1>1, <1>3, OperationCalm DEF Procs, Runners, Calm
<1>4. CASE ResumableStep
  BY <1>1, <1>4, ResumableCalm DEF Procs, Runners, Calm
<1>5. ASSUME NEW p \in Runners, RunnerStep(p) PROVE Steady
  BY <1>1, <1>5, RunnerCalm DEF Procs, Calm
<1>6. ASSUME NEW c \in Clients, \/ \E j \in Jobs : Pause(c, j) \/ Stop(c, j) \/ Resume(c, j) \/ Cancel(c, j)
                                \/ Answer(c)
      PROVE  Steady
  BY <1>1, <1>6, CallCalm DEF Procs, Calm
<1>7. ASSUME NEW p \in Clients \cup {Closer}, CancelStep(p) PROVE Steady
  BY <1>1, <1>7, CancelCalm DEF Procs, Calm
<1>8. ASSUME NEW p \in Procs, Storage(p) PROVE Steady
  BY <1>1, <1>8, StorageCalm DEF Calm
<1>9. CASE (Close \/ CloseStep) /\ ~Closed
  BY <1>1, <1>9, CloseCalm DEF Procs, Calm
<1>10. CASE Closed \/ Crash
  BY <1>10 DEF Closed, Crash
<1> QED
  BY <1>2, <1>3, <1>4, <1>5, <1>6, <1>7, <1>8, <1>9, <1>10
     DEF Next, WorkerStep, CallBegins, CallStep, CloseStep

\* The process ends with Down, and an open manager comes from an open one or a restart.
LEMMA PhaseStep ==
  ASSUME TypeOK, Books, Outcomes, Next
  PROVE  /\ phase' = "down" => Down
         /\ phase' = "open" => phase = "open" \/ Recover
         /\ phase = "down" => Recover
<1>1. CASE Steady
  BY <1>1 DEF Steady
<1>2. CASE Take \/ (\E c \in Clients, j \in Jobs : Submit(c, j)) \/ (\E c \in Clients : Enqueue(c))
  BY <1>2 DEF Take, Submit, Enqueue, life, Alive
<1>3. CASE Recover
  BY <1>3 DEF Recover
<1>4. CASE Down /\ phase # "down"
  BY <1>4 DEF Down
<1> QED BY <1>1, <1>2, <1>3, <1>4, StepKinds

\* Only the worker and a submission decide which job goes where.
LEMMA LanesStep ==
  ASSUME TypeOK, Books, Outcomes, Lanes, Next, ~Recover
  PROVE  Lanes'
<1> USE LabelsAre
<1>0. Worker \in Procs /\ Worker \in Runners /\ Worker # Closer /\ \A c \in Clients : Worker # c
  BY ProcsAssumption DEF Procs, Runners
<1>1. CASE Down
  BY <1>1, DownIdle
<1>2. CASE Take
  <2>1. queue # <<>> /\ queue \in Seq(Jobs)
    BY <1>2 DEF Take, TypeOK
  <2>2. /\ Tail(queue) \in Seq(Jobs) /\ Len(Tail(queue)) = Len(queue) - 1
        /\ \A i \in 1..Len(Tail(queue)) : Tail(queue)[i] = queue[i + 1]
    BY <2>1, HeadTailProperties
  <2>3. DOMAIN Tail(queue) = 1..Len(Tail(queue)) /\ DOMAIN queue = 1..Len(queue) /\ Len(queue) \in Nat \ {0}
    BY <2>1, <2>2, LenProperties, EmptySeq
  <2>4. Head(queue) = queue[1] /\ 1 \in DOMAIN queue /\ \A i \in DOMAIN Tail(queue) : i + 1 \in DOMAIN queue
    BY <2>1, <2>2, <2>3
  <2>5. Head(queue) \notin ShortLane /\ \A i \in DOMAIN Tail(queue) : Tail(queue)[i] \notin ShortLane
    BY <2>2, <2>3, <2>4 DEF Lanes
  <2>6. pc'[Worker] \in {"get", "exit"} \/ on'[Worker] = Head(queue)
    BY <1>0, <1>2 DEF Take, GotoOn, Goto, NextLabel, TypeOK
  <2> QED BY <1>2, <2>5, <2>6 DEF Take, Lanes
<1>3. ASSUME NEW c \in Clients, NEW j \in Jobs, Submit(c, j) PROVE Lanes'
  BY <1>0, <1>3 DEF Submit, GotoOn, Goto, Lanes, TypeOK
<1>4. ASSUME NEW c \in Clients, Enqueue(c) PROVE Lanes'
  <2>1. PICK j \in Jobs : on[c] = j
    BY DEF TypeOK, Procs
  <2>2. Worker # j
    BY ProcsAssumption
  <2>3. pc'[Worker] = pc[Worker] /\ on'[Worker] = on[Worker]
    BY <1>0, <1>4, <2>1, <2>2 DEF Enqueue, GotoOn, Goto, TypeOK
  <2>4. CASE queue' = queue
    BY <2>3, <2>4 DEF Lanes
  <2>5. CASE queue' = Append(queue, j) /\ j \notin ShortLane
    <3>1. /\ DOMAIN queue' = 1..(Len(queue) + 1) /\ DOMAIN queue = 1..Len(queue) /\ Len(queue) \in Nat
          /\ queue'[Len(queue) + 1] = j /\ \A i \in DOMAIN queue : queue'[i] = queue[i]
      BY <2>5, Appended
    <3>2. \A i \in DOMAIN queue' : i \in DOMAIN queue \/ i = Len(queue) + 1
      BY <3>1
    <3> QED BY <2>3, <2>5, <3>1, <3>2 DEF Lanes
  <2> QED BY <1>4, <2>1, <2>4, <2>5 DEF Enqueue
<1>5. CASE Steady
  <2>0. queue' = queue
    BY <1>5 DEF Steady
  <2>1. ASSUME pc'[Worker] \in {"get", "exit"} \/ (on'[Worker] = on[Worker] /\ pc[Worker] \notin {"get", "exit"})
        PROVE  Lanes'
    BY <2>0, <2>1 DEF Lanes
  <2>2. ASSUME pc'[Worker] = pc[Worker], on'[Worker] = on[Worker] PROVE Lanes'
    BY <2>0, <2>2 DEF Lanes
  <2>3. Leave(Worker) => pc'[Worker] \in {"get", "exit"}
    BY <1>0 DEF Leave, GotoOn, Goto, NextLabel, TypeOK
  <2>4. CASE EnterResumable \/ OperationStep
    BY <2>1, <2>4 DEF EnterResumable, OperationStep, RunWrites, RunTells, Told, RunReports, RunEnds, At
  <2>5. CASE ResumableStep
    BY <2>1, <2>3, <2>5
       DEF ResumableStep, LoopHead, WakeUp, ControlPoint, Complete, Completed, Finalized, Pausing, Breaking,
           Park, Parked, Unwind, RollBack, Strand, At
  <2>6. ASSUME NEW p \in Runners, RunnerStep(p) PROVE Lanes'
    <3>1. CASE p = Worker
      BY <1>0, <2>1, <2>3, <2>6, <3>1, ProcsAssumption
         DEF RunnerStep, SkipCancelled, EnterSimple, SimpleStep, Reported, Finish, Cancelled, CancelHandled
    <3>2. CASE p # Worker
      <4>1. pc'[Worker] = pc[Worker] /\ on'[Worker] = on[Worker]
        BY <1>0, <2>6, <3>2
           DEF RunnerStep, SkipCancelled, EnterSimple, SimpleStep, Reported, Finish, Cancelled, CancelHandled,
               Leave, GotoOn, Goto, TypeOK, Procs
      <4> QED BY <2>2, <4>1
    <3> QED BY <3>1, <3>2
  <2>7. ASSUME NEW p \in Procs \ {Worker}, \A q \in Procs \ {p} : pc'[q] = pc[q] /\ on'[q] = on[q] PROVE Lanes'
    BY <1>0, <2>2, <2>7
  <2>8. ASSUME NEW p \in Procs \ {Worker}, Goes(p) PROVE Lanes'
    BY <2>7, <2>8 DEF Goes, PlaceGo
  <2>9. ASSUME NEW c \in Clients, CallBegins(c) \/ CallStep(c) PROVE Lanes'
    <3>1. CASE \/ \E j \in Jobs : Pause(c, j) \/ Stop(c, j) \/ Resume(c, j) \/ Cancel(c, j)
               \/ Answer(c)
      BY <1>0, <2>8, <3>1, CallCalm DEF Procs, Calm
    <3> QED BY <1>3, <1>4, <2>9, <3>1 DEF CallBegins, CallStep
  <2>10. ASSUME NEW p \in Clients \cup {Closer}, CancelStep(p) PROVE Lanes'
    BY <1>0, <2>8, <2>10, CancelCalm DEF Procs, Calm
  <2>11. ASSUME NEW p \in Procs, Storage(p) PROVE Lanes'
    BY <2>2, <2>11 DEF Storage, Capture, Commit, LoseWrite
  <2>12. CASE (Close \/ CloseStep) /\ ~Closed
    BY <1>0, <2>8, <2>12, CloseCalm DEF Procs, Calm
  <2> QED
    BY <1>1, <1>2, <2>4, <2>5, <2>6, <2>9, <2>10, <2>11, <2>12
       DEF Next, WorkerStep, Closed, Crash, CloseStep
<1> QED BY <1>1, <1>2, <1>3, <1>4, <1>5, StepKinds

-----------------------------------------------------------------------------
\* The closing service.

\* The phase changes when a shutdown begins, when it cancels the tasks, and with the process.
LEMMA PhaseKinds ==
  ASSUME Next
  PROVE  phase' = phase \/ Close \/ CancelTasks \/ Down \/ Recover
<1>1. CASE WorkerStep
  <2>1. CASE Take \/ EnterResumable \/ OperationStep
    BY <2>1 DEF Take, EnterResumable, OperationStep, RunWrites, RunTells, Told, RunReports, RunEnds, life
  <2>2. CASE ResumableStep
    BY <2>2 DEF ResumableStep, LoopHead, WakeUp, ControlPoint, Complete, Completed, Finalized, Pausing,
                Breaking, Park, Parked, Unwind, RollBack, Strand, life
  <2> QED BY <1>1, <2>1, <2>2 DEF WorkerStep
<1>2. ASSUME NEW p \in Runners, RunnerStep(p) PROVE phase' = phase
  BY <1>2 DEF RunnerStep, SkipCancelled, EnterSimple, SimpleStep, Reported, Finish, Cancelled, CancelHandled,
              life
<1>3. ASSUME NEW c \in Clients, CallBegins(c) \/ CallStep(c) PROVE phase' = phase
  BY <1>3 DEF CallBegins, CallStep, Submit, Pause, Stop, Resume, Cancel, Enqueue, Answer, life
<1>4. ASSUME NEW p \in Clients \cup {Closer}, CancelStep(p) PROVE phase' = phase
  BY <1>4 DEF CancelStep, Cleaned, CancelAnswer, life
<1>5. ASSUME NEW p \in Procs, Storage(p) PROVE phase' = phase
  BY <1>5 DEF Storage, Capture, Commit, LoseWrite, life
<1>6. CASE CloseStep
  BY <1>6 DEF CloseStep, StopWaited, SignalShutdown, PauseWaited, ListQueued, CancelEach, Closed, life
<1>7. CASE Crash
  BY <1>7 DEF Crash
<1> QED BY <1>1, <1>2, <1>3, <1>4, <1>5, <1>6, <1>7 DEF Next

\* A service that closes was open, or closing already.
LEMMA ClosingFrom ==
  ASSUME Next, phase' = "closing"
  PROVE  phase = "closing" \/ Close
BY PhaseKinds DEF CancelTasks, Down, Recover

\* Who drained stays drained: no call begins in a service that closes.
LEMMA RetiredStep ==
  ASSUME TypeOK, Books, Outcomes, Retired, Next, ~Recover, ~Down
  PROVE  Retired'
<1>0. /\ Closer \in Procs /\ Worker \in Procs /\ Clients \subseteq Procs /\ Closer \notin Clients
      /\ Closer \notin Runners /\ Worker \notin Clients /\ Runners \subseteq Procs
      /\ \A p \in Runners : p \notin Clients
  BY ProcsAssumption DEF Procs, Runners
<1>1. ASSUME NEW p \in Runners, \A q \in Procs \ {p} : pc'[q] = pc[q], phase' = phase PROVE Retired'
  <2>1. pc'[Closer] = pc[Closer] /\ \A c \in Clients : pc'[c] = pc[c]
    BY <1>0, <1>1
  <2> QED BY <1>1, <2>1 DEF Retired
<1>2. ASSUME NEW c \in Clients, pc'[Closer] = pc[Closer], phase' = phase, pc[c] # "idle" \/ Listening
      PROVE  Retired'
  BY <1>2 DEF Retired, Listening
<1>3. CASE WorkerStep
  <2>0. Worker \in Runners
    BY DEF Runners
  <2>1. CASE Take
    <3>1. \A q \in Procs \ {Worker} : pc'[q] = pc[q]
      BY <2>1 DEF Take, GotoOn, Goto, TypeOK
    <3> QED BY <1>1, <2>0, <2>1, <3>1 DEF Take, life
  <2>2. CASE EnterResumable
    <3>1. \A q \in Procs \ {Worker} : pc'[q] = pc[q]
      BY <2>2 DEF EnterResumable, Goto, TypeOK
    <3> QED BY <1>1, <2>0, <2>2, <3>1 DEF EnterResumable, life
  <2>3. CASE OperationStep
    <3>1. Goes(Worker)
      BY <2>3, OperationCalm DEF Calm
    <3>2. phase' = phase
      BY <2>3 DEF OperationStep, RunWrites, RunTells, Told, RunReports, RunEnds, life
    <3> QED BY <1>1, <2>0, <3>1, <3>2 DEF Goes, PlaceGo
  <2>4. CASE ResumableStep
    <3>1. Goes(Worker)
      BY <2>4, ResumableCalm DEF Calm
    <3>2. phase' = phase
      BY <2>4 DEF ResumableStep, LoopHead, WakeUp, ControlPoint, Complete, Completed, Finalized, Pausing,
                  Breaking, Park, Parked, Unwind, RollBack, Strand, life
    <3> QED BY <1>1, <2>0, <3>1, <3>2 DEF Goes, PlaceGo
  <2> QED BY <1>3, <2>1, <2>2, <2>3, <2>4 DEF WorkerStep
<1>4. ASSUME NEW p \in Runners, RunnerStep(p) PROVE Retired'
  <2>1. Goes(p)
    BY <1>4, RunnerCalm DEF Calm
  <2>2. phase' = phase
    BY <1>4 DEF RunnerStep, SkipCancelled, EnterSimple, SimpleStep, Reported, Finish, Cancelled,
                CancelHandled, life
  <2> QED BY <1>1, <2>1, <2>2 DEF Goes, PlaceGo
<1>5. ASSUME NEW c \in Clients, CallBegins(c) \/ CallStep(c) PROVE Retired'
  <2>1. ASSUME NEW j \in Jobs, Submit(c, j) PROVE Retired'
    <3>1. pc'[Closer] = pc[Closer]
      BY <1>0, <2>1 DEF Submit, GotoOn, Goto, TypeOK
    <3> QED BY <1>2, <2>1, <3>1 DEF Submit, Listening, life
  <2>2. CASE Enqueue(c)
    <3>1. PICK j \in Jobs : on[c] = j
      BY <1>0 DEF TypeOK
    <3>2. Closer # c /\ Closer # j
      BY <1>0, ProcsAssumption
    <3>3. pc'[Closer] = pc[Closer]
      BY <1>0, <2>2, <3>1, <3>2 DEF Enqueue, GotoOn, Goto, TypeOK
    <3> QED BY <1>2, <2>2, <3>3 DEF Enqueue, life
  <2>3. CASE (\E j \in Jobs : Pause(c, j) \/ Stop(c, j) \/ Resume(c, j) \/ Cancel(c, j)) \/ Answer(c)
    <3>1. Goes(c)
      BY <2>3, CallCalm DEF Calm
    <3>2. pc'[Closer] = pc[Closer]
      BY <1>0, <3>1 DEF Goes, PlaceGo
    <3> QED BY <1>2, <2>3, <3>2 DEF Pause, Stop, Resume, Cancel, Answer, life
  <2> QED BY <1>5, <2>1, <2>2, <2>3 DEF CallBegins, CallStep
<1>6. ASSUME NEW p \in Clients \cup {Closer}, CancelStep(p) PROVE Retired'
  <2>1. Goes(p) /\ phase' = phase
    BY <1>6, CancelCalm DEF Calm, CancelStep, Cleaned, CancelAnswer, life
  <2>2. CASE p \in Clients
    <3>1. pc'[Closer] = pc[Closer] /\ pc[p] # "idle"
      BY <1>0, <1>6, <2>1, <2>2 DEF Goes, PlaceGo, CancelStep, Cleaned, CancelAnswer
    <3> QED BY <1>2, <2>1, <2>2, <3>1
  <2>3. CASE p = Closer
    <3>1. \A c \in Clients : pc'[c] = pc[c]
      BY <1>0, <2>1, <2>3 DEF Goes, PlaceGo
    <3>2. pc'[Closer] \in {"cancel", "each"}
      BY <1>0, <1>6, <2>3 DEF CancelStep, Cleaned, CancelAnswer, DropQueued, GotoOn, Goto, TypeOK
    <3> QED BY <2>1, <3>1, <3>2 DEF Retired
  <2> QED BY <2>2, <2>3
<1>7. ASSUME NEW p \in Procs, Storage(p) PROVE Retired'
  BY <1>7 DEF Storage, Capture, Commit, LoseWrite, life, Retired
<1>8. CASE Close \/ CloseStep
  <2>0. ~Closed
    BY DEF Closed
  <2>1. Goes(Closer)
    BY <1>8, <2>0, CloseCalm DEF Calm
  <2>2. \A c \in Clients : pc'[c] = pc[c]
    BY <1>0, <2>1 DEF Goes, PlaceGo
  <2>3. pc'[Closer] = "clean" => Cleaning # {}
    <3>1. CASE CancelEach
      <4>1. PICK j \in todo : \/ UNCHANGED pc \/ j \in Cleaning \/ GotoOn(Closer, "cancel", j)
        BY <3>1 DEF CancelEach, DropQueued
      <4>2. pc[Closer] = "each"
        BY <3>1 DEF CancelEach
      <4> QED BY <1>0, <4>1, <4>2 DEF GotoOn, Goto, TypeOK
    <3>2. ASSUME NEW l \in {"stopwait", "list", "signal", "pausewait", "each", "gather"}, Goto(Closer, l)
          PROVE  pc'[Closer] # "clean"
      BY <1>0, <3>2 DEF Goto, TypeOK
    <3>3. CASE Close \/ StopWaited \/ SignalShutdown \/ PauseWaited \/ ListQueued \/ CancelTasks
      BY <3>2, <3>3 DEF Close, StopWaited, Interrupt, SignalShutdown, PauseWaited, ListQueued, CancelTasks,
                        GotoOn
    <3> QED BY <1>8, <2>0, <3>1, <3>3 DEF CloseStep
  <2>4. CASE Close
    BY <2>2, <2>3, <2>4 DEF Close, Retired
  <2>5. CASE CloseStep
    <3>1. phase' = "closing" => phase = "closing"
      BY <2>0, <2>5 DEF CloseStep, StopWaited, SignalShutdown, PauseWaited, ListQueued, CancelEach,
                        CancelTasks, life
    <3> QED BY <2>2, <2>3, <3>1 DEF Retired
  <2> QED BY <1>8, <2>4, <2>5
<1> QED BY <1>3, <1>4, <1>5, <1>6, <1>7, <1>8 DEF Next, Crash

\* The closer waits, lists or goes on to the next job.
LEMMA CloserMoves ==
  ASSUME TypeOK, Books, Open, phase' = "closing",
         Return(Closer) \/ (UNCHANGED rows /\ upd[Closer].stage = "none"), db' = db, ops' = ops,
         \A q \in Procs \ {Closer} : pc'[q] = pc[q] /\ on'[q] = on[q]
  PROVE  Onward /\ Stands
<1> USE LabelsAre, StatusesAre
<1>0. /\ Closer \in Procs /\ Closer \notin Runners /\ Worker \in Procs \ {Closer}
      /\ \A c \in Clients : c \in Procs \ {Closer}
  BY ProcsAssumption DEF Procs, Runners
<1>1. \A k \in Jobs : Bound(k)' <=> Bound(k)
  BY <1>0 DEF Bound
<1>2. upd'[Closer].stage = "none"
  <2>1. CASE Return(Closer)
    BY <1>0, <2>1 DEF Return, TypeOK
  <2>2. CASE UNCHANGED rows /\ upd[Closer].stage = "none"
    BY <2>2 DEF rows
  <2> QED BY <2>1, <2>2
<1>3. /\ \A k \in Jobs : RowsOf(k)' /\ (mem'[k] = mem[k] \/ (~Live(k) /\ ~Live(k)'))
      /\ \A q \in Procs \ {Closer} : upd'[q] = upd[q]
      /\ Firm
  BY <1>0, <1>1, <1>2, RowsStay
<1>4. InPlace(Closer)'
  BY <1>0, <1>2 DEF InPlace
<1>5. ASSUME NEW q \in Procs \ {Closer} PROVE InPlace(q)'
  <2>1. PICK k \in Jobs : k = on[q]
    BY DEF TypeOK
  <2> QED BY <1>3, <2>1, InPlaceKeeps DEF Open
<1>6. Waiting'
  <2>1. ASSUME NEW k \in Jobs, Bound(k)'
        PROVE  /\ Bound(k) /\ (mem[k] = NoRow => mem'[k] = NoRow) /\ db'[k] = db[k]
               /\ on'[Closer] = k => upd'[Closer].stage = "none"
    <3>1. mem[k] = NoRow => mem'[k] = NoRow
      BY DEF Return, rows, TypeOK
    <3> QED BY <1>1, <1>2, <2>1, <3>1
  <2>2. \A k \in ops' : mem'[k] = mem[k] \/ (~Live(k) /\ ~Live(k)')
    BY <1>3 DEF Open, Waiting
  <2> QED BY <1>0, <1>3, <2>1, <2>2, WaitingKeeps DEF Open
<1>7. Absent'
  <2>1. pc'[Worker] = pc[Worker] /\ \A c \in Clients : pc'[c] = pc[c]
    BY <1>0
  <2> QED BY <2>1 DEF Open, Absent
<1>8. Stands
  <2>1. \A k \in Jobs : Live(k)' => Live(k)
    BY <1>3 DEF Live
  <2>2. \A k : Serving(k) => Serving(k)'
    BY <1>0 DEF Serving
  <2> QED BY <2>1, <2>2, JobsAssumption DEF Stands
<1> QED BY <1>3, <1>4, <1>5, <1>6, <1>7, <1>8 DEF Open, Onward

\* The closer asks the job at work to pause.
LEMMA InterruptOpen ==
  ASSUME TypeOK, Books, Lanes, Open, CommitInOrder, phase' = "closing", NEW j \in Jobs,
         pc[Closer] \in {"idle", "stopwait"}, Interrupt(j), db' = db, ops' = ops
  PROVE  Onward /\ Stands
<1>0. /\ Closer \in Procs /\ Closer \notin Runners /\ Worker \in Procs \ {Closer}
      /\ \A c \in Clients : c \in Procs \ {Closer}
  BY ProcsAssumption DEF Procs, Runners
<1>1. upd[Closer].stage = "none"
  BY <1>0 DEF Books, Silent, Quiet, Resting
<1>2. ASSUME NEW l, NEW k \in Jobs, GotoOn(Closer, l, k)
      PROVE  \A q \in Procs \ {Closer} : pc'[q] = pc[q] /\ on'[q] = on[q]
  BY <1>0, <1>2 DEF GotoOn, Goto, TypeOK
<1>3. CASE GotoOn(Closer, "list", AnyJob) /\ UNCHANGED rows
  BY <1>1, <1>2, <1>3, AnyJobType, CloserMoves
<1>4. CASE /\ j \in Resumable /\ Status(j) \in {"running", "pausing"}
           /\ Update(Closer, j, "pausing", "shutdown") /\ GotoOn(Closer, "signal", j)
  <2>1. ~Bound(j)
    BY <1>4, StatusesAre DEF Open, Waiting, Status, Row
  <2>2. Absent'
    <3>1. pc'[Worker] = pc[Worker] /\ \A c \in Clients : pc'[c] = pc[c]
      BY <1>0, <1>2, <1>4
    <3> QED BY <3>1 DEF Open, Absent
  <2>3. pc[Closer] # "enqueue" /\ Status(j) \in Active \ {"queued"}
    BY <1>4, StatusesAre
  <2> QED BY <1>1, <1>4, <2>1, <2>2, <2>3, ClientWrites
<1> QED BY <1>3, <1>4 DEF Interrupt, IsResumable

\* close, up to the cancellation of the tasks.
LEMMA CloseOpen ==
  ASSUME TypeOK, Books, Lanes, Open, Retired, CommitInOrder, Gentle, phase' = "closing",
         Close \/ CloseStep
  PROVE  Onward /\ Stands
<1>0. /\ Closer \in Procs /\ Closer \notin Runners /\ Worker \in Procs \ {Closer}
      /\ \A c \in Clients : c \in Procs \ {Closer}
  BY ProcsAssumption DEF Procs, Runners
<1>1. ASSUME NEW l, NEW k \in Jobs, GotoOn(Closer, l, k)
      PROVE  \A q \in Procs \ {Closer} : pc'[q] = pc[q] /\ on'[q] = on[q]
  BY <1>0, <1>1 DEF GotoOn, Goto, TypeOK
<1>2. ASSUME NEW l, Goto(Closer, l), on' = on
      PROVE  \A q \in Procs \ {Closer} : pc'[q] = pc[q] /\ on'[q] = on[q]
  BY <1>0, <1>2 DEF Goto, TypeOK
<1>3. pc[Closer] \in {"idle", "stopwait", "pausewait", "list", "each"} => upd[Closer].stage = "none"
  BY <1>0 DEF Books, Silent, Quiet, Resting
<1>4. PICK w \in Jobs : on[Worker] = w
  BY <1>0 DEF TypeOK
<1>5. PICK j \in Jobs : on[Closer] = j
  BY <1>0 DEF TypeOK
<1>6. CASE Close
  <2>1. pc[Closer] = "idle" /\ db' = db /\ ops' = ops
    BY <1>6 DEF Close, Books, Asleep, work
  <2>2. CASE Interrupt(w)
    BY <2>1, <2>2, InterruptOpen
  <2>3. CASE UNCHANGED rows /\ (GotoOn(Closer, "stopwait", w) \/ GotoOn(Closer, "list", AnyJob))
    BY <1>1, <1>3, <2>1, <2>3, AnyJobType, CloserMoves
  <2> QED BY <1>4, <1>6, <2>2, <2>3 DEF Close
<1>7. CASE StopWaited
  BY <1>5, <1>7, InterruptOpen DEF StopWaited, work
<1>8. CASE SignalShutdown
  <2>1. Return(Closer) /\ Goto(Closer, "pausewait") /\ on' = on /\ db' = db /\ ops' = ops
    BY <1>8 DEF SignalShutdown, work
  <2> QED BY <1>2, <2>1, CloserMoves
<1>9. CASE PauseWaited
  <2>1. GotoOn(Closer, "list", AnyJob) /\ UNCHANGED rows /\ db' = db /\ ops' = ops /\ pc[Closer] = "pausewait"
    BY <1>9 DEF PauseWaited, work
  <2> QED BY <1>1, <1>3, <2>1, AnyJobType, CloserMoves
<1>10. CASE ListQueued
  <2>1. Goto(Closer, "each") /\ UNCHANGED rows /\ on' = on /\ db' = db /\ ops' = ops /\ pc[Closer] = "list"
    BY <1>10 DEF ListQueued, work
  <2> QED BY <1>2, <1>3, <2>1, CloserMoves
<1>11. CASE CancelEach
  <2>1. pc[Closer] = "each" /\ db' = db /\ phase' = phase /\ Cleaning = {} /\ Compared = {} /\ Drained
    BY <1>11 DEF CancelEach, Gentle
  <2>2. PICK k \in todo : \/ UNCHANGED <<rows, ops, pc, on>>
                          \/ Status(k) = "queued" /\ DropQueued(Closer, k)
    BY <1>11, <2>1 DEF CancelEach
  <2>3. CASE UNCHANGED <<rows, ops, pc, on>>
    BY <1>3, <2>1, <2>3, CloserMoves
  <2>4. CASE Status(k) = "queued" /\ DropQueued(Closer, k)
    <3>1. k \in Jobs /\ Closer \in Clients \cup {Closer} /\ upd[Closer].stage = "none"
      BY <1>3, <2>1 DEF TypeOK
    <3>2. ~Bound(k)
      BY <2>1 DEF Bound, Retired
    <3>3. ops' = ops \ {k} /\ Update(Closer, k, "cancelled", "shutdown") /\ GotoOn(Closer, "cancel", k)
      BY <2>4 DEF DropQueued
    <3>4. Absent'
      <4>1. pc'[Worker] = pc[Worker] /\ \A c \in Clients : pc'[c] = pc[c]
        BY <1>0, <1>1, <3>1, <3>3
      <4> QED BY <4>1 DEF Open, Absent
    <3> QED BY <2>1, <2>4, <3>1, <3>2, <3>3, <3>4, ClientWrites
  <2> QED BY <2>2, <2>3, <2>4
<1>12. CASE CancelTasks \/ Closed
  BY <1>12 DEF CancelTasks, Closed, Down
<1> QED BY <1>6, <1>7, <1>8, <1>9, <1>10, <1>11, <1>12 DEF CloseStep

\* and its answer to a job it cancelled.
LEMMA CloserAnswers ==
  ASSUME TypeOK, Books, Open, Retired, Gentle, phase' = "closing", phase = "closing", CancelStep(Closer)
  PROVE  Onward /\ Stands
<1>0. Closer \in Procs
  BY DEF Procs
<1>1. CancelAnswer(Closer)
  BY DEF CancelStep, Cleaned, Retired, Gentle
<1>2. Return(Closer) /\ GotoOn(Closer, "each", AnyJob) /\ db' = db /\ ops' = ops
  BY <1>1 DEF CancelAnswer, work
<1>3. \A q \in Procs \ {Closer} : pc'[q] = pc[q] /\ on'[q] = on[q]
  BY <1>0, <1>2, AnyJobType DEF GotoOn, Goto, TypeOK
<1> QED BY <1>2, <1>3, CloserMoves

-----------------------------------------------------------------------------
\* An operation goes missing only with a cancellation.

\* A terminal status stays while the manager is in order.
LEMMA TerminalStays ==
  ASSUME TypeOK, TypeOK', NEW k \in Jobs, RowsOf(k)', Firm, Lasting, Status(k) \in Terminal
  PROVE  Status(k)' = Status(k)
<1> USE StatusesAre
<1>1. CASE mem[k] # NoRow
  <2>1. Over(mem[k]) /\ Status(k) = mem[k].status
    BY <1>1 DEF Status, Row, Over
  <2>2. CASE mem'[k].status = mem[k].status
    <3>1. mem'[k] # NoRow
      BY <2>1, <2>2 DEF Over
    <3> QED BY <2>1, <2>2, <3>1 DEF Status, Row
  <2>3. CASE mem'[k] = NoRow /\ db[k].status = mem[k].status
    BY <2>1, <2>3 DEF Status, Row, Over, Lasting
  <2> QED BY <2>1, <2>2, <2>3 DEF Firm
<1>2. CASE mem[k] = NoRow
  <2>1. Over(db[k]) /\ Status(k) = db[k].status
    BY <1>2 DEF Status, Row, Over
  <2>2. Over(db'[k]) /\ db'[k].status = db[k].status
    BY <2>1 DEF Lasting, Over
  <2>3. CASE mem'[k] = NoRow
    BY <2>1, <2>2, <2>3 DEF Status, Row
  <2>4. CASE mem'[k] # NoRow
    <3>1. ~Live(k)'
      BY <2>2 DEF RowsOf, Finished, Over
    <3>2. mem'[k] \in Rows
      BY <2>4 DEF TypeOK
    <3>3. Over(mem'[k])
      BY <3>1, <3>2 DEF Live, Over, Rows
    <3>4. mem'[k].status = db'[k].status
      BY <2>2, <3>3 DEF RowsOf, Agreed, Over
    <3> QED BY <2>1, <2>2, <2>4, <3>4 DEF Status, Row
  <2> QED BY <2>3, <2>4
<1> QED BY <1>1, <1>2

\* A job whose operation is missing was without it before, or is cancelled now.
Meets == \A k \in Jobs \ Resumable :
           k \notin ops' /\ Expected(k)' => (k \notin ops /\ Expected(k)) \/ Status(k)' = "cancelled"

\* A queued job that is cancelled is cancelled at once, when no provider is awaited.
LEMMA DropsCancelled ==
  ASSUME TypeOK, CommitInOrder, Compared = {}, NEW p \in Procs, NEW j \in Jobs, DropQueued(p, j)
  PROVE  Status(j)' = "cancelled" /\ ops' = ops \ {j}
<1>1. PICK rs \in {"shutdown", "manual"} : Update(p, j, "cancelled", rs)
  BY DEF DropQueued
<1>2. mem'[j].status = "cancelled"
  BY <1>1, UpdateMeans DEF MayCapture
<1>3. mem'[j] # NoRow
  BY <1>2, StatusesAre
<1> QED BY <1>2, <1>3 DEF Status, Row, DropQueued

\* When nobody new waits for a lock, and no operation goes but with a cancellation.
LEMMA MeetsWhen ==
  ASSUME queue' = queue, \A p \in Runners : pc'[p] = "lock" => pc[p] = "lock" /\ on'[p] = on[p],
         ops' = ops \/ \E j \in Jobs : ops' = ops \ {j} /\ (Status(j)' = "cancelled" \/ ~Expected(j)')
  PROVE  Meets
<1>1. \A k : Expected(k)' => Expected(k)
  BY DEF Expected, Queued
<1> QED BY <1>1 DEF Meets

\* The worker has what it takes off the queue, so the job is expected as before; and a terminal one
\* it passes over.
LEMMA TakeMeets ==
  ASSUME TypeOK, Take
  PROVE  Meets
<1>1. ops' = ops /\ queue' = Tail(queue) /\ queue # <<>> /\ queue \in Seq(Jobs)
  BY DEF Take, TypeOK
<1>2. /\ Tail(queue) \in Seq(Jobs) /\ Len(Tail(queue)) = Len(queue) - 1
      /\ \A i \in 1..Len(Tail(queue)) : Tail(queue)[i] = queue[i + 1]
  BY <1>1, HeadTailProperties
<1>3. DOMAIN Tail(queue) = 1..Len(Tail(queue)) /\ DOMAIN queue = 1..Len(queue) /\ Len(queue) \in Nat \ {0}
  BY <1>1, <1>2, LenProperties, EmptySeq
<1>4. Queued(Head(queue))
  <2>1. 1 \in DOMAIN queue /\ Head(queue) = queue[1]
    BY <1>1, <1>3
  <2> QED BY <2>1 DEF Queued
<1>5. ASSUME NEW k, Queued(k)' PROVE Queued(k)
  <2>1. PICK i \in DOMAIN Tail(queue) : Tail(queue)[i] = k
    BY <1>1, <1>5 DEF Queued
  <2>2. i + 1 \in DOMAIN queue /\ queue[i + 1] = k
    BY <1>2, <1>3, <2>1
  <2> QED BY <2>2 DEF Queued
<1>6. ASSUME NEW p \in Runners, pc'[p] = "lock"
      PROVE  (pc[p] = "lock" /\ on'[p] = on[p]) \/ on'[p] = Head(queue)
  BY <1>6 DEF Take, GotoOn, Goto, NextLabel, TypeOK, Procs
<1> QED BY <1>1, <1>4, <1>5, <1>6 DEF Meets, Expected

\* A job comes into the queue, or to its own task, in the step that stores its operation.
LEMMA EnqueueMeets ==
  ASSUME TypeOK, NEW c \in Clients, Enqueue(c)
  PROVE  Meets
<1>1. PICK j \in Jobs : on[c] = j
  BY DEF TypeOK, Procs
<1>2. /\ c \in Procs /\ j \in Procs /\ c \notin Runners
      /\ ops' = IF j \in Resumable THEN ops ELSE ops \cup {j}
  BY <1>1, ProcsAssumption DEF Enqueue, IsResumable, Procs, Runners
<1>3. ASSUME NEW k \in Jobs \ {j}, Queued(k)' PROVE Queued(k)
  <2>1. CASE queue' = queue
    BY <1>3, <2>1 DEF Queued
  <2>2. CASE queue' = Append(queue, j)
    <3>1. PICK i \in DOMAIN queue' : queue'[i] = k
      BY <1>3 DEF Queued
    <3>2. i \in DOMAIN queue /\ queue[i] = k
      BY <2>2, <3>1, Appended
    <3> QED BY <3>2 DEF Queued
  <2> QED BY <1>1, <2>1, <2>2 DEF Enqueue
<1>4. ASSUME NEW p \in Runners, pc'[p] = "lock" PROVE (pc[p] = "lock" /\ on'[p] = on[p]) \/ on'[p] = j
  BY <1>1, <1>2, <1>4 DEF Enqueue, GotoOn, Goto, TypeOK, Procs
<1>5. ASSUME NEW k \in Jobs \ {j}, Expected(k)' PROVE Expected(k)
  BY <1>3, <1>4, <1>5 DEF Expected
<1> QED BY <1>2, <1>5 DEF Meets

\* A process other than a runner that goes for a lock.
LEMMA MeetsMoves ==
  ASSUME queue' = queue, NEW p \in Procs, \A q \in Procs \ {p} : pc'[q] = pc[q] /\ on'[q] = on[q],
         p \notin Runners \/ pc'[p] # "lock",
         ops' = ops \/ \E j \in Jobs : ops' = ops \ {j} /\ (Status(j)' = "cancelled" \/ ~Expected(j)')
  PROVE  Meets
<1>1. \A q \in Runners : pc'[q] = "lock" => q \in Procs \ {p}
  BY DEF Procs
<1> QED BY <1>1, MeetsWhen

\* A runner that takes the operation of its job is the only one to expect it.
LEMMA TakesOperation ==
  ASSUME TypeOK, Books, Lanes, NEW p \in Runners, NEW j \in Jobs, on[p] = j, pc[p] = "lock",
         pc'[p] # "lock", \A q \in Procs \ {p} : pc'[q] = pc[q] /\ on'[q] = on[q], queue' = queue
  PROVE  ~Expected(j)'
<1>1. ASSUME NEW q \in Runners, pc'[q] = "lock" PROVE on'[q] # j
  <2>1. q # p /\ q \in Procs
    BY <1>1 DEF Procs
  <2>2. pc[q] = "lock" /\ on'[q] = on[q]
    BY <1>1, <2>1
  <2> QED BY <2>1, <2>2, JobsApart
<1>2. ~Queued(j)
  <2> SUFFICES ASSUME NEW i \in DOMAIN queue, queue[i] = j PROVE FALSE
    BY DEF Queued
  <2>1. CASE p = Worker
    BY <2>1, LabelsAre DEF Books, QueuedOnce, Serving
  <2>2. CASE p \in Jobs
    BY <2>2 DEF Books, Placed, Lanes
  <2> QED BY <2>1, <2>2 DEF Runners
<1> QED BY <1>1, <1>2 DEF Expected, Queued

\* A runner forgets the operation of its own job only, as it begins or skips it.
LEMMA RunnerMeets ==
  ASSUME TypeOK, Books, Outcomes, Lanes, NEW p \in Runners, RunnerStep(p)
  PROVE  Meets
<1>1. Goes(p)
  BY RunnerCalm DEF Calm
<1>2. /\ p \in Procs /\ queue' = queue
      /\ \A q \in Procs \ {p} : pc'[q] = pc[q] /\ on'[q] = on[q]
  BY <1>1 DEF Goes, PlaceGo, Steady, Procs
<1>3. PICK j \in Jobs : on[p] = j
  BY <1>2 DEF TypeOK
<1>4. pc'[p] # "lock"
  BY <1>2 DEF RunnerStep, SkipCancelled, EnterSimple, SimpleStep, Reported, Finish, Cancelled, CancelHandled,
              Leave, GotoOn, Goto, NextLabel, TypeOK
<1>5. CASE SkipCancelled(p) \/ EnterSimple(p)
  <2>1. pc[p] = "lock" /\ ops' = ops \ {j}
    BY <1>3, <1>5 DEF SkipCancelled, EnterSimple
  <2>2. ~Expected(j)'
    BY <1>2, <1>3, <1>4, <2>1, TakesOperation
  <2> QED BY <1>2, <1>4, <2>1, <2>2, MeetsMoves
<1>6. CASE SimpleStep(p) \/ Reported(p) \/ Finish(p) \/ Cancelled(p) \/ CancelHandled(p)
  <2>1. ops' = ops
    BY <1>6 DEF SimpleStep, Reported, Finish, Cancelled, CancelHandled, work
  <2> QED BY <1>2, <1>4, <2>1, MeetsMoves
<1> QED BY <1>5, <1>6 DEF RunnerStep

\* Whatever the step, an operation that a runner will look for is there, or its job was cancelled.
LEMMA StepMeets ==
  ASSUME TypeOK, Books, Outcomes, Lanes, Open, Retired, Orderly, Ready, Next, ~Recover, ~Down
  PROVE  Meets
<1>0. /\ Closer \in Procs /\ Worker \in Procs /\ Worker \in Runners /\ Clients \subseteq Procs
      /\ Closer \notin Runners /\ \A c \in Clients : c \notin Runners
  BY ProcsAssumption DEF Procs, Runners
<1>1. /\ pc[Closer] # "idle" => phase = "closing" /\ Gentle
      /\ pc[Closer] # "clean"
  BY DEF Ready, Books, Asleep, Retired, Gentle
<1>2. CASE Take
  BY <1>2, TakeMeets
<1>3. CASE EnterResumable
  <2>1. queue' = queue /\ ops' = ops /\ on' = on /\ Goto(Worker, "loop")
    BY <1>3 DEF EnterResumable, work
  <2>2. pc'[Worker] = "loop" /\ \A q \in Procs \ {Worker} : pc'[q] = pc[q] /\ on'[q] = on[q]
    BY <1>0, <2>1 DEF Goto, TypeOK
  <2> QED BY <1>0, <2>1, <2>2, MeetsMoves
<1>4. CASE OperationStep \/ ResumableStep
  <2>1. Goes(Worker)
    BY <1>4, OperationCalm, ResumableCalm DEF Calm
  <2>2. queue' = queue /\ \A q \in Procs \ {Worker} : pc'[q] = pc[q] /\ on'[q] = on[q]
    BY <2>1 DEF Goes, PlaceGo, Steady
  <2>3. CASE OperationStep
    <3>1. pc'[Worker] # "lock" /\ ops' = ops
      BY <1>0, <2>3 DEF OperationStep, RunWrites, RunTells, Told, RunReports, RunEnds, At, Goto, TypeOK, work
    <3> QED BY <1>0, <2>2, <3>1, MeetsMoves
  <2>4. CASE ResumableStep
    <3>1. ops' = ops
      BY <2>4 DEF ResumableStep, LoopHead, WakeUp, ControlPoint, Complete, Completed, Finalized, Pausing,
                  Breaking, Park, Parked, Unwind, RollBack, Strand, work
    <3>2. ASSUME NEW l, l # "lock", Goto(Worker, l) PROVE pc'[Worker] # "lock"
      BY <1>0, <3>2 DEF Goto, TypeOK
    <3>3. Leave(Worker) => pc'[Worker] # "lock"
      BY <1>0 DEF Leave, GotoOn, Goto, NextLabel, TypeOK
    <3>4. pc'[Worker] # "lock"
      BY <2>4, <3>2, <3>3
         DEF ResumableStep, LoopHead, WakeUp, Begin, BeginStop, ControlPoint, Complete, Completed, Finalized,
             Pausing, Breaking, Park, Parked, Unwind, RollBack, Strand
    <3> QED BY <1>0, <2>2, <3>1, <3>4, MeetsMoves
  <2> QED BY <1>4, <2>3, <2>4
<1>5. ASSUME NEW p \in Runners, RunnerStep(p) PROVE Meets
  BY <1>5, RunnerMeets
<1>6. ASSUME NEW c \in Clients, CallBegins(c) \/ CallStep(c) PROVE Meets
  <2>1. ASSUME NEW j \in Jobs, Submit(c, j) PROVE Meets
    <3>1. /\ queue' = queue /\ ops' = ops
          /\ \A q \in Procs \ {c} : pc'[q] = pc[q] /\ on'[q] = on[q]
      BY <1>0, <2>1 DEF Submit, GotoOn, Goto, TypeOK
    <3> QED BY <1>0, <3>1, MeetsMoves
  <2>2. CASE Enqueue(c)
    BY <2>2, EnqueueMeets
  <2>3. CASE (\E j \in Jobs : Pause(c, j) \/ Stop(c, j) \/ Resume(c, j) \/ Cancel(c, j)) \/ Answer(c)
    <3>1. Goes(c)
      BY <2>3, CallCalm DEF Calm
    <3>2. queue' = queue /\ \A q \in Procs \ {c} : pc'[q] = pc[q] /\ on'[q] = on[q]
      BY <3>1 DEF Goes, PlaceGo, Steady
    <3>3. ASSUME NEW j \in Jobs, Cancel(c, j) PROVE Meets
      <4>1. Compared = {} /\ CommitInOrder /\ DropQueued(c, j)
        BY <3>3 DEF Cancel, Orderly
      <4>2. Status(j)' = "cancelled" /\ ops' = ops \ {j}
        BY <1>0, <4>1, DropsCancelled
      <4> QED BY <1>0, <3>2, <4>2, MeetsMoves
    <3>4. CASE (\E j \in Jobs : Pause(c, j) \/ Stop(c, j) \/ Resume(c, j)) \/ Answer(c)
      <4>1. ops' = ops
        BY <3>4 DEF Pause, Stop, Resume, Answer, work
      <4> QED BY <1>0, <3>2, <4>1, MeetsMoves
    <3> QED BY <2>3, <3>3, <3>4
  <2> QED BY <1>6, <2>1, <2>2, <2>3 DEF CallBegins, CallStep
<1>7. ASSUME NEW p \in Clients \cup {Closer}, CancelStep(p) PROVE Meets
  <2>1. Goes(p) /\ p \in Procs \ Runners
    BY <1>0, <1>7, CancelCalm DEF Calm
  <2>2. queue' = queue /\ \A q \in Procs \ {p} : pc'[q] = pc[q] /\ on'[q] = on[q]
    BY <2>1 DEF Goes, PlaceGo, Steady
  <2>3. CancelAnswer(p)
    BY <1>1, <1>7 DEF CancelStep, Cleaned, Open, Absent
  <2>4. ops' = ops
    BY <2>3 DEF CancelAnswer, work
  <2> QED BY <2>1, <2>2, <2>4, MeetsMoves
<1>8. ASSUME NEW p \in Procs, Storage(p) PROVE Meets
  <2>1. UNCHANGED <<queue, ops, pc, on>>
    BY <1>8 DEF Storage, Capture, Commit, LoseWrite, work
  <2> QED BY <2>1, MeetsWhen
<1>9. CASE Close \/ CloseStep
  <2>0. ~Closed
    BY DEF Closed
  <2>1. Goes(Closer)
    BY <1>9, <2>0, CloseCalm DEF Calm
  <2>2. queue' = queue /\ \A q \in Procs \ {Closer} : pc'[q] = pc[q] /\ on'[q] = on[q]
    BY <2>1 DEF Goes, PlaceGo, Steady
  <2>3. CASE CancelEach
    <3>1. Gentle /\ CommitInOrder
      BY <1>1, <2>3 DEF CancelEach, Orderly
    <3>2. PICK k \in todo : ops' = ops \/ DropQueued(Closer, k)
      BY <2>3 DEF CancelEach
    <3>3. k \in Jobs /\ Compared = {}
      BY <3>1 DEF TypeOK, Gentle
    <3>4. ops' = ops \/ (Status(k)' = "cancelled" /\ ops' = ops \ {k})
      BY <1>0, <3>1, <3>2, <3>3, DropsCancelled
    <3> QED BY <1>0, <2>2, <3>3, <3>4, MeetsMoves
  <2>4. CASE ~CancelEach
    <3>1. ops' = ops
      BY <1>9, <2>0, <2>4 DEF Close, CloseStep, StopWaited, SignalShutdown, PauseWaited, ListQueued,
                              CancelTasks, work
    <3> QED BY <1>0, <2>2, <3>1, MeetsMoves
  <2> QED BY <2>3, <2>4
<1> QED BY <1>2, <1>3, <1>4, <1>5, <1>6, <1>7, <1>8, <1>9 DEF Next, WorkerStep, Crash

\* So only a cancelled job is without its operation.
LEMMA MissingStep ==
  ASSUME TypeOK, TypeOK', Missing, Meets, \A k \in Jobs : RowsOf(k)', Firm, Lasting
  PROVE  Missing'
<1> SUFFICES ASSUME NEW k \in Jobs \ (Resumable \cup ops'), Expected(k)'
             PROVE  Status(k)' = "cancelled"
  BY DEF Missing
<1>1. CASE k \notin ops /\ Expected(k)
  <2>1. Status(k) = "cancelled" /\ k \in Jobs
    BY <1>1 DEF Missing
  <2>2. Status(k) \in Terminal
    BY <2>1, StatusesAre
  <2> QED BY <2>1, <2>2, TerminalStays
<1> QED BY <1>1 DEF Meets

-----------------------------------------------------------------------------
\* The manager in order.

\* Of two jobs of one kind on one database at most one is active in the table.
OneRow == \A j, k \in Jobs : j # k /\ Duplicate(j, k) =>
            ~(db[j].status \in Active /\ db[k].status \in Active)

\* What a manager in order keeps.
Kept == /\ Onward /\ Lasting
        /\ phase = "open" /\ Attended /\ ~RollbackMayFail => Attended'
        /\ OneRow => OneRow'

\* A step that leaves the queue alone, brings no job to life and makes none active in the table keeps
\* all of it.
LEMMA StandsKeep ==
  ASSUME Onward, Stands \/ RollbackMayFail \/ phase # "open", queue' = queue, Lasting,
         \A k \in Jobs : db[k].status \in Active \/ db'[k].status \notin Active
  PROVE  Kept
BY DEF Kept, Stands, Attended, OneRow, Queued, Duplicate

\* Nor does a step that leaves the table alone make a job active in it.
LEMMA SameTable ==
  ASSUME db' = db
  PROVE  /\ Lasting
         /\ \A k \in Jobs : db[k].status \in Active \/ db'[k].status \notin Active
BY DEF Lasting

\* What the worker takes off the queue it has in hand.
LEMMA TakeKeeps ==
  ASSUME TypeOK, Books, Open, Take
  PROVE  Kept
<1>1. Onward /\ Stands
  BY TakeOpen
<1>2. db' = db /\ queue' = Tail(queue) /\ queue # <<>> /\ queue \in Seq(Jobs)
  BY DEF Take, TypeOK
<1>3. /\ Tail(queue) \in Seq(Jobs) /\ Len(Tail(queue)) = Len(queue) - 1
      /\ \A i \in 1..Len(Tail(queue)) : Tail(queue)[i] = queue[i + 1]
  BY <1>2, HeadTailProperties
<1>4. DOMAIN Tail(queue) = 1..Len(Tail(queue)) /\ DOMAIN queue = 1..Len(queue) /\ Len(queue) \in Nat \ {0}
  BY <1>2, <1>3, LenProperties, EmptySeq
<1>5. Head(queue) = queue[1]
  BY <1>2, <1>4
<1>6. ASSUME NEW k, Queued(k), k # Head(queue) PROVE Queued(k)'
  <2>1. PICK i \in DOMAIN queue : queue[i] = k
    BY <1>6 DEF Queued
  <2>2. i # 1
    BY <1>5, <1>6, <2>1
  <2>3. i - 1 \in DOMAIN Tail(queue) /\ Tail(queue)[i - 1] = k
    BY <1>3, <1>4, <2>1, <2>2
  <2> QED BY <1>2, <2>3 DEF Queued
<1>7. ASSUME NEW k \in Resumable, Live(k), k = Head(queue) PROVE Serving(k)'
  <2>1. Status(k) \notin Terminal
    BY <1>7, StatusLive, StatusesAre, JobsAssumption DEF Live
  <2>2. GotoOn(Worker, "lock", k) /\ Worker \in Procs
    BY <1>7, <2>1 DEF Take, Procs, Runners
  <2>3. pc'[Worker] = "lock" /\ on'[Worker] = k
    BY <2>2 DEF GotoOn, Goto, TypeOK
  <2> QED BY <2>3, LabelsAre DEF Serving
<1>8. Attended => Attended'
  BY <1>1, <1>6, <1>7 DEF Attended, Stands
<1>9. (OneRow => OneRow') /\ Lasting
  BY <1>2 DEF OneRow, Duplicate, Lasting
<1> QED BY <1>1, <1>8, <1>9 DEF Kept

\* A submission that is inserted has no active job of its kind beside it (find_active).
LEMMA SubmitKeeps ==
  ASSUME TypeOK, Books, Open, phase = "open", NEW c \in Clients, NEW j \in Jobs, Submit(c, j)
  PROVE  Kept
<1>1. Onward /\ Stands
  BY SubmitOpen
<1>2. queue' = queue /\ FindActive(j) = {} /\ db' = [db EXCEPT ![j] = NewRow]
  BY DEF Submit
<1>3. \A k \in Jobs \ {j} : db'[k] = db[k]
  BY <1>2 DEF TypeOK
<1>4. \A k \in Jobs : Duplicate(j, k) \/ Duplicate(k, j) => db[k].status \notin Active
  BY <1>2 DEF FindActive, Duplicate
<1>5. OneRow => OneRow'
  BY <1>3, <1>4 DEF OneRow, Duplicate
<1>6. Attended => Attended'
  BY <1>1, <1>2 DEF Attended, Stands, Queued
<1>7. Lasting
  <2>1. db[j] = NoRow
    BY DEF Submit
  <2> QED BY <1>3, <2>1, StatusesAre DEF Lasting, Over
<1> QED BY <1>1, <1>5, <1>6, <1>7 DEF Kept

\* A job that gets its snapshot is put into the queue, or handed to a short runner, in the same step.
LEMMA EnqueueKeeps ==
  ASSUME TypeOK, Books, Open, phase = "open", NEW c \in Clients, Enqueue(c)
  PROVE  Kept
<1>1. PICK j \in Jobs : on[c] = j
  BY DEF TypeOK, Procs
<1>2. /\ Onward /\ \A k \in Jobs \ {j} : mem'[k] = mem[k]
      /\ \A k \in Jobs : Serving(k) => Serving(k)'
  BY <1>1, EnqueueOpen
<1>3. db' = db /\ queue' = IF j \in ShortLane THEN queue ELSE Append(queue, j)
  BY <1>1 DEF Enqueue
<1>4. \A k : Queued(k) => Queued(k)'
  <2>1. CASE queue' = queue
    BY <2>1 DEF Queued
  <2>2. CASE queue' = Append(queue, j)
    BY <2>2, Appended DEF Queued
  <2> QED BY <1>3, <2>1, <2>2
<1>5. j \in Resumable => Queued(j)'
  <2> SUFFICES ASSUME j \in Resumable PROVE \E i \in DOMAIN queue' : queue'[i] = j
    BY DEF Queued
  <2>1. queue' = Append(queue, j)
    BY <1>3, JobsAssumption
  <2>2. DOMAIN queue' = 1..(Len(queue) + 1) /\ Len(queue) \in Nat /\ queue'[Len(queue) + 1] = j
    BY <2>1, Appended
  <2> QED BY <2>2
<1>6. Attended => Attended'
  BY <1>2, <1>4, <1>5, JobsAssumption DEF Attended, Live
<1>7. (OneRow => OneRow') /\ Lasting
  BY <1>3 DEF OneRow, Duplicate, Lasting
<1> QED BY <1>2, <1>6, <1>7 DEF Kept

\* Every step of a manager in order that leaves it at work.
LEMMA OpenStep ==
  ASSUME TypeOK, Books, Outcomes, Lanes, Open, Missing, Retired, Orderly, Ready, Ready', Next,
         ~Recover, ~Down
  PROVE  Kept
<1>0. /\ phase \in {"open", "closing"} /\ phase' \in {"open", "closing"} /\ CommitInOrder
      /\ phase = "open" => pc[Closer] = "idle"
      /\ phase = "closing" => Gentle /\ \A c \in Clients : pc[c] = "idle"
  BY DEF Ready, Books, Asleep, Orderly, Retired, Gentle
<1>1. CASE Take
  BY <1>1, TakeKeeps
<1>2. ASSUME NEW c \in Clients, NEW j \in Jobs, Submit(c, j) PROVE Kept
  BY <1>2, SubmitKeeps DEF Submit
<1>3. ASSUME NEW c \in Clients, Enqueue(c) PROVE Kept
  <2>1. phase = "open"
    BY <1>0, <1>3 DEF Enqueue
  <2> QED BY <1>3, <2>1, EnqueueKeeps
<1>4. CASE Steady
  <2>0. queue' = queue
    BY <1>4 DEF Steady
  <2>1. CASE EnterResumable
    <3>1. db' = db
      BY <2>1 DEF EnterResumable
    <3> QED BY <2>0, <2>1, <3>1, EnterOpen, SameTable, StandsKeep
  <2>2. CASE OperationStep
    <3>1. db' = db
      BY <2>2 DEF OperationStep, RunWrites, RunTells, Told, RunReports, RunEnds
    <3> QED BY <2>0, <2>2, <3>1, OperationOpen, SameTable, StandsKeep
  <2>3. CASE ResumableStep
    <3>1. db' = db
      BY <2>3 DEF ResumableStep, LoopHead, WakeUp, ControlPoint, Complete, Completed, Finalized, Pausing,
                  Breaking, Park, Parked, Unwind, RollBack, Strand
    <3> QED BY <2>0, <2>3, <3>1, ResumableOpen, SameTable, StandsKeep
  <2>4. ASSUME NEW p \in Runners, RunnerStep(p) PROVE Kept
    <3>1. db' = db
      BY <1>0, <2>4 DEF RunnerStep, SkipCancelled, EnterSimple, SimpleStep, Reported, Finish, Cancelled,
                        CancelHandled
    <3>2. Onward /\ Stands
      BY <1>0, <2>4, RunnerOpen
    <3> QED BY <2>0, <3>1, <3>2, SameTable, StandsKeep
  <2>5. ASSUME NEW c \in Clients, \/ \E j \in Jobs : Pause(c, j) \/ Stop(c, j) \/ Resume(c, j) \/ Cancel(c, j)
                                  \/ Answer(c)
                                  \/ CancelAnswer(c)
        PROVE  Kept
    <3>1. db' = db
      BY <2>5 DEF Pause, Stop, Resume, Cancel, Answer, CancelAnswer
    <3>2. phase = "open"
      BY <1>0, <2>5 DEF Pause, Stop, Resume, Cancel, Answer, CancelAnswer, Listening, Gentle
    <3>3. Onward /\ Stands
      BY <2>5, <3>2, CallOpen
    <3> QED BY <2>0, <3>1, <3>3, SameTable, StandsKeep
  <2>6. ASSUME NEW p \in Clients, CancelStep(p) PROVE Kept
    <3>1. ~Cleaned(p)
      BY DEF Cleaned, Open, Absent
    <3> QED BY <2>5, <2>6, <3>1 DEF CancelStep
  <2>7. CASE CancelStep(Closer)
    <3>1. db' = db /\ phase' = phase /\ pc[Closer] # "idle"
      BY <2>7 DEF CancelStep, Cleaned, CancelAnswer, life
    <3> QED BY <1>0, <2>0, <2>7, <3>1, CloserAnswers, SameTable, StandsKeep
  <2>8. ASSUME NEW p \in Procs, Storage(p) PROVE Kept
    BY <1>0, <2>0, <2>8, StorageOpen, StandsKeep
  <2>9. CASE Close \/ CloseStep
    <3>1. db' = db /\ phase' = "closing" /\ Gentle
      <4>1. CASE Close
        BY <4>1 DEF Close, Ready
      <4>2. CASE CloseStep
        <5>1. pc[Closer] # "idle" /\ ~Closed
          BY <1>0, <4>2 DEF CloseStep, StopWaited, SignalShutdown, PauseWaited, ListQueued, CancelEach,
                            CancelTasks, Closed
        <5> QED BY <1>0, <4>2, <5>1 DEF CloseStep, StopWaited, SignalShutdown, PauseWaited, ListQueued,
                                        CancelEach, CancelTasks, life
      <4> QED BY <2>9, <4>1, <4>2
    <3> QED BY <1>0, <2>0, <2>9, <3>1, CloseOpen, SameTable, StandsKeep
  <2> QED
    BY <1>1, <1>2, <1>3, <2>1, <2>2, <2>3, <2>4, <2>5, <2>6, <2>7, <2>8, <2>9
       DEF Next, WorkerStep, CallBegins, CallStep, Crash
<1> QED BY <1>1, <1>2, <1>3, <1>4, StepKinds

\* The manager stays in order, over shutdowns, crashes and restarts.
LEMMA ManagerStep ==
  ASSUME TypeOK, Books, Outcomes, Manager, Orderly, Next
  PROVE  /\ Manager'
         /\ ~RollbackMayFail /\ (phase = "open" => Attended) => (phase' = "open" => Attended')
         /\ Ready' => Lasting
         /\ Ready /\ Ready' => Firm
         /\ OneRow /\ (Ready' \/ phase' = "down") => OneRow'
<1>1. TypeOK' /\ Books'
  BY TypeStep, OutcomesStep
<1>2. CASE Recover
  <2>1. /\ Open' /\ Missing' /\ Lanes' /\ Retired' /\ Attended' /\ Lasting
        /\ \A k \in Jobs : db'[k].status \in Active => db[k].status \in Active
    BY <1>1, <1>2, RecoverOpen DEF Manager
  <2>2. OneRow => OneRow'
    BY <2>1 DEF OneRow, Duplicate
  <2>3. Idle' /\ ~Ready
    BY <1>2 DEF Recover, Idle, Ready
  <2> QED BY <2>1, <2>2, <2>3 DEF Manager
<1>3. CASE Down
  <2>1. Lanes' /\ Idle' /\ Retired' /\ ~Ready' /\ db' = db /\ phase' = "down"
    BY <1>3, DownIdle DEF Down
  <2>2. OneRow => OneRow'
    BY <2>1 DEF OneRow, Duplicate
  <2> QED BY <2>1, <2>2 DEF Manager
<1>4. CASE ~Recover /\ ~Down
  <2>1. Lanes' /\ Retired'
    BY <1>4, LanesStep, RetiredStep DEF Manager
  <2>2. /\ phase' # "down" /\ (phase' = "open" => phase = "open")
        /\ phase' = "closing" => phase \in {"open", "closing"}
    BY <1>4, PhaseStep, ClosingFrom DEF Close
  <2>3. Idle' /\ (Ready' => Ready)
    BY <2>2 DEF Idle, Ready
  <2>4. ASSUME Ready' PROVE Kept /\ Missing'
    <3>1. Kept
      BY <1>4, <2>3, <2>4, OpenStep DEF Manager
    <3>2. Meets
      BY <1>4, <2>3, <2>4, StepMeets DEF Manager
    <3>3. Missing /\ Firm /\ Lasting /\ \A k \in Jobs : RowsOf(k)'
      BY <2>3, <2>4, <3>1 DEF Manager, Kept, Onward, Open
    <3> QED BY <1>1, <3>1, <3>2, <3>3, MissingStep
  <2>5. phase' = "open" => Ready'
    BY DEF Ready
  <2> QED BY <2>1, <2>2, <2>3, <2>4, <2>5 DEF Manager, Kept, Onward
<1> QED BY <1>2, <1>3, <1>4

\* Nor does a step that changes nothing.
LEMMA ManagerStays ==
  ASSUME Manager, UNCHANGED vars
  PROVE  Manager' /\ (Attended => Attended') /\ (OneRow => OneRow')
<1>1. UNCHANGED <<mem, db, upd, ahead, queue, ops, request, why, pc, on, phase>>
  BY DEF vars
<1>2. Lanes' /\ Idle' /\ Retired' /\ (Ready' <=> Ready)
  BY <1>1 DEF Manager, Lanes, Idle, Retired, Ready
<1>3. Open => Open'
  BY <1>1 DEF Open, RowsOf, Lined, Dropped, Finished, LastWord, Uncaught, Begun, Agreed, Writing, Bound, Live,
              InPlace, Captures, Suits, Waiting, Absent
<1>4. Missing => Missing'
  BY <1>1 DEF Missing, Expected, Queued, Status, Row
<1>5. (Attended => Attended') /\ (OneRow => OneRow')
  BY <1>1 DEF Attended, OneRow, Live, Serving, Queued, Duplicate
<1> QED BY <1>2, <1>3, <1>4, <1>5 DEF Manager

\* A fresh table and a worker that waits are in order.
LEMMA ManagerInit == Init => Manager /\ Attended /\ OneRow
<1> USE StatusesAre
<1> SUFFICES ASSUME Init PROVE Manager /\ Attended /\ OneRow
  OBVIOUS
<1>1. /\ queue = <<>> /\ phase = "open" /\ ops = {} /\ why = ""
      /\ \A k \in Jobs : db[k] = NoRow /\ mem[k] = NoRow /\ request[k] = ""
      /\ \A p \in Procs : upd[p].stage = "none"
  BY DEF Init, Cold
<1>2. /\ Worker \in Procs /\ \A c \in Clients : c \in Procs \ {Worker} /\ c \notin Runners
      /\ pc = [Cold.pc EXCEPT ![Worker] = "get"]
  BY ProcsAssumption DEF Init, Procs, Runners
<1>3. pc[Worker] = "get" /\ \A p \in Procs \ {Worker} : pc[p] = RestLabel(p)
  BY <1>2 DEF Cold
<1>4. /\ \A p \in Procs : pc[p] \in {"get", "exit", "idle"}
      /\ \A c \in Clients : pc[c] = "idle"
  BY <1>2, <1>3 DEF RestLabel
<1>5. \A k \in Jobs : ~Live(k) /\ ~Bound(k) /\ \A p \in Procs : ~Writing(p, k)
  BY <1>1, <1>4 DEF Live, Bound, Writing
<1>6. ASSUME NEW k \in Jobs PROVE RowsOf(k)
  <2>1. Lined(k) /\ Dropped(k) /\ Finished(k) /\ LastWord(k) /\ Uncaught(k) /\ Begun(k)
    BY <1>1, <1>5 DEF Lined, Dropped, Finished, LastWord, Uncaught, Begun, Over
  <2>2. ~Over(mem[k]) /\ ~Over(db[k])
    BY <1>1 DEF Over
  <2>3. Agreed(k)
    BY <1>5, <2>2 DEF Agreed
  <2> QED BY <2>1, <2>3 DEF RowsOf
<1>7. \A p \in Procs : InPlace(p)
  <2>1. \A l \in {"idle", "exit", "get"} :
          l \notin After \cup SimpleLabels \cup Working \cup OperationLabels \cup {"loop"}
    BY LabelsAre DEF After, Working, OperationLabels
  <2> QED BY <1>1, <1>4, <2>1 DEF InPlace, Suits
<1>8. Open
  BY <1>1, <1>3, <1>4, <1>5, <1>6, <1>7 DEF Open, Waiting, Absent
<1>9. Lanes /\ Idle /\ Retired /\ Missing
  <2>1. queue = <<>>
    BY <1>1
  <2>2. \A i \in DOMAIN queue : FALSE
    BY <2>1
  <2>3. Closer \in Procs /\ \A p \in Runners : p \in Procs
    BY DEF Procs
  <2> QED BY <1>1, <1>3, <1>4, <2>2, <2>3 DEF Lanes, Idle, Retired, Missing, Expected, Queued
<1>10. Attended /\ OneRow
  BY <1>1, <1>5, JobsAssumption DEF Attended, OneRow
<1> QED BY <1>8, <1>9, <1>10 DEF Manager

-----------------------------------------------------------------------------
\* No job completes over a request.

\* The worker holds the transition lock of the job it completes, so nobody pauses or stops it
\* any more; and only then it waits for the provider to record the completion.
Sealed == phase = "open" =>
            /\ pc[Worker] = "completed" => /\ tlock[on[Worker]] = Worker
                                           /\ request[on[Worker]] \notin {"pause", "stop"}
            /\ upd[Worker].stage = "capture" /\ upd[Worker].row.status = "completed" =>
                 pc[Worker] = "completed"

\* A step that leaves the worker alone, and what it locked.
Respects == /\ pc'[Worker] = pc[Worker] /\ on'[Worker] = on[Worker] /\ upd'[Worker] = upd[Worker]
            /\ \A k \in Jobs : tlock[k] = Worker =>
                 /\ tlock'[k] = Worker
                 /\ request'[k] = request[k] \/ request'[k] \notin {"pause", "stop"}

\* So a completion that is decided stays decided.
LEMMA RespectsSealed ==
  ASSUME TypeOK, Sealed, phase = "open", Respects
  PROVE  Sealed'
<1>1. on[Worker] \in Jobs
  BY DEF TypeOK, Procs, Runners
<1> QED BY <1>1 DEF Sealed, Respects

\* A step of another process that has its own lock at most.
LEMMA OthersRespect ==
  ASSUME TypeOK, NEW p \in Procs \ {Worker}, Goes(p),
         \/ tlock' = tlock
         \/ \E k \in Jobs : /\ tlock[k] # Worker
                            /\ \E x : tlock' = [tlock EXCEPT ![k] = x],
         \/ request' = request
         \/ \E k \in Jobs : \E x : /\ x \notin {"pause", "stop"} \/ tlock[k] # Worker
                                   /\ request' = [request EXCEPT ![k] = x]
  PROVE  Respects
<1>1. Worker \in Procs \ {p}
  BY DEF Procs, Runners
<1>2. ASSUME NEW k \in Jobs, tlock[k] = Worker PROVE tlock'[k] = Worker
  BY <1>2 DEF TypeOK
<1>3. ASSUME NEW k \in Jobs, tlock[k] = Worker
      PROVE  request'[k] = request[k] \/ request'[k] \notin {"pause", "stop"}
  BY <1>3 DEF TypeOK
<1> QED BY <1>1, <1>2, <1>3 DEF Goes, PlaceGo, RowsGo, Respects

\* A step of the worker to a label where it completes nothing.
LEMMA WorkerSealed ==
  ASSUME TypeOK, NEW l, l # "completed", pc'[Worker] = l,
         upd'[Worker].stage = "capture" => upd'[Worker].row.status # "completed"
  PROVE  Sealed'
BY DEF Sealed

\* An _update records the status it is given.
LEMMA UpdateRecords ==
  ASSUME TypeOK, CommitInOrder, NEW p \in Procs, NEW j \in Jobs, NEW st, NEW rs, Update(p, j, st, rs),
         st # "completed" \/ ~MayCapture(j, st)
  PROVE  upd'[p].stage = "capture" => upd'[p].row.status # "completed"
<1>1. \/ upd'[p].stage \in {"none", "write"}
      \/ upd'[p].row.status = st /\ (upd'[p].stage = "capture" => MayCapture(j, st))
  BY UpdateMeans
<1> QED BY <1>1

\* An _update that returned leaves nothing behind.
LEMMA ReturnRecords ==
  ASSUME TypeOK, NEW p \in Procs, Return(p)
  PROVE  upd'[p].stage = "none"
BY StatusesAre DEF Return, TypeOK

\* Only complete() brings the worker to a completion, and it takes the transition lock and looks at
\* the request first.
LEMMA ResumableSealed ==
  ASSUME TypeOK, Books, Open, Orderly, Sealed, phase = "open", ResumableStep
  PROVE  Sealed'
<1>0. Worker \in Procs /\ Worker \in Runners /\ CommitInOrder
  BY DEF Procs, Runners, Orderly
<1>1. PICK j \in Jobs : on[Worker] = j
  BY <1>0 DEF TypeOK
<1>2. ASSUME NEW l, l # "completed", Goto(Worker, l), NEW st, st # "completed", NEW rs, Update(Worker, j, st, rs)
      PROVE  Sealed'
  <2>1. pc'[Worker] = l
    BY <1>0, <1>2 DEF Goto, TypeOK
  <2> QED BY <1>0, <1>2, <2>1, UpdateRecords, WorkerSealed
<1>3. ASSUME NEW l, l # "completed", Goto(Worker, l), Return(Worker) PROVE Sealed'
  <2>1. pc'[Worker] = l
    BY <1>0, <1>3 DEF Goto, TypeOK
  <2> QED BY <1>0, <1>3, <2>1, ReturnRecords, WorkerSealed
<1>4. ASSUME NEW l, l # "completed", Goto(Worker, l), UNCHANGED rows, Returned(Worker) PROVE Sealed'
  <2>1. pc'[Worker] = l
    BY <1>0, <1>4 DEF Goto, TypeOK
  <2>2. upd'[Worker].stage # "capture"
    BY <1>4 DEF rows, Returned
  <2> QED BY <1>4, <2>1, <2>2, WorkerSealed
<1>5. Leave(Worker) /\ Return(Worker) => Sealed'
  BY <1>3 DEF Leave, GotoOn, NextLabel
<1>6. BeginStop(j) => Sealed'
  BY <1>2 DEF BeginStop
<1>7. Begin(j) => Sealed'
  BY <1>2, <1>6 DEF Begin
<1>8. CASE LoopHead
  BY <1>1, <1>3, <1>5, <1>7, <1>8 DEF LoopHead
<1>9. CASE WakeUp
  BY <1>1, <1>7, <1>9 DEF WakeUp
<1>10. CASE ControlPoint
  BY <1>1, <1>3, <1>6, <1>10 DEF ControlPoint
<1>11. CASE Complete
  <2>1. CASE BeginStop(j)
    BY <1>6, <2>1
  <2>2. CASE Goto(Worker, "pausing") /\ UNCHANGED rows
    BY <1>4, <1>11, <2>2 DEF Complete, At
  <2>3. CASE /\ request[j] = "" /\ tlock' = [tlock EXCEPT ![j] = Worker] /\ Goto(Worker, "completed")
    <3>1. on' = on /\ request' = request
      BY <1>11 DEF Complete, signals
    <3>2. pc'[Worker] = "completed" /\ on'[Worker] = j /\ tlock'[j] = Worker /\ request'[j] = ""
      BY <1>0, <1>1, <2>3, <3>1 DEF Goto, TypeOK
    <3> QED BY <3>2 DEF Sealed
  <2> QED BY <1>1, <1>11, <2>1, <2>2, <2>3 DEF Complete
<1>12. CASE Completed
  BY <1>3, <1>12 DEF Completed
<1>13. CASE Finalized
  BY <1>4, <1>13 DEF Finalized, At
<1>14. CASE Pausing \/ Breaking
  BY <1>1, <1>2, <1>6, <1>14 DEF Pausing, Breaking, Park
<1>15. CASE Parked
  BY <1>3, <1>5, <1>15 DEF Parked
<1>16. CASE Unwind \/ RollBack
  BY <1>1, <1>2, <1>16 DEF Unwind, RollBack
<1>17. CASE Strand
  BY <1>5, <1>17 DEF Strand
<1> QED BY <1>8, <1>9, <1>10, <1>11, <1>12, <1>13, <1>14, <1>15, <1>16, <1>17 DEF ResumableStep

\* A short task, and the end of a job, complete no resumable job; and no runner lets go of the lock of
\* another.
LEMMA RunnerSealed ==
  ASSUME TypeOK, Books, Outcomes, Open, Orderly, Sealed, phase = "open", NEW p \in Runners, RunnerStep(p)
  PROVE  Sealed'
<1>0. p \in Procs /\ CommitInOrder /\ Worker \in Procs
  BY DEF Procs, Runners, Orderly
<1>1. PICK j \in Jobs : on[p] = j
  BY <1>0 DEF TypeOK
<1>2. CASE p # Worker
  <2>1. Goes(p) /\ request' = request
    BY RunnerCalm DEF Calm, RunnerStep, SkipCancelled, EnterSimple, SimpleStep, Reported, Finish, Cancelled,
                      CancelHandled, signals
  <2>2. tlock' = tlock \/ tlock' = [tlock EXCEPT ![on[p]] = IF @ = p THEN Free ELSE @]
    BY DEF RunnerStep, SkipCancelled, EnterSimple, SimpleStep, Reported, Finish, Cancelled, CancelHandled,
           locks, Leave
  <2>3. tlock' = tlock \/ (tlock[j] = p /\ tlock' = [tlock EXCEPT ![j] = Free])
    BY <1>1, <2>2 DEF TypeOK
  <2> QED BY <1>0, <1>2, <2>1, <2>3, OthersRespect, RespectsSealed
<1>3. CASE p = Worker
  <2>1. ASSUME NEW l, l # "completed", Goto(p, l), NEW st, NEW rs, Update(p, j, st, rs), j \notin Resumable
        PROVE  Sealed'
    <3>1. pc'[Worker] = l /\ ~MayCapture(j, st)
      BY <1>0, <1>3, <2>1, JobsAssumption DEF Goto, TypeOK, MayCapture
    <3>2. upd'[p].stage = "capture" => upd'[p].row.status # "completed"
      BY <1>0, <2>1, <3>1, UpdateRecords
    <3> QED BY <1>3, <2>1, <3>1, <3>2, WorkerSealed
  <2>2. ASSUME NEW l, l # "completed", Goto(p, l), Return(p) PROVE Sealed'
    <3>1. pc'[Worker] = l
      BY <1>0, <1>3, <2>2 DEF Goto, TypeOK
    <3> QED BY <1>0, <1>3, <2>2, <3>1, ReturnRecords, WorkerSealed
  <2>3. CASE EnterSimple(p)
    BY <1>1, <2>1, <2>3 DEF EnterSimple, IsResumable
  <2>4. CASE SimpleStep(p)
    <3>1. j \notin Resumable /\ pc[p] = "simple" /\ Returned(p)
      BY <1>1, <1>3, <2>4 DEF SimpleStep, Books, Placed, SimpleLabels
    <3>2. ASSUME UNCHANGED <<rows, pc>> PROVE Sealed'
      <4>1. pc'[Worker] = "simple" /\ upd'[Worker].stage # "capture"
        BY <1>3, <3>1, <3>2 DEF rows, Returned
      <4> QED BY <4>1, WorkerSealed
    <3> QED BY <1>1, <2>1, <2>4, <3>1, <3>2 DEF SimpleStep
  <2>5. CASE Reported(p)
    BY <2>2, <2>5 DEF Reported
  <2>6. CASE Finish(p)
    BY <2>2, <2>6 DEF Finish, Leave, GotoOn, NextLabel
  <2>7. ~SkipCancelled(p) /\ ~Cancelled(p) /\ ~CancelHandled(p)
    BY <1>3, ProcsAssumption DEF SkipCancelled, Cancelled, CancelHandled
  <2> QED BY <2>3, <2>4, <2>5, <2>6, <2>7 DEF RunnerStep
<1> QED BY <1>2, <1>3

\* While the worker completes a job nobody has a pause or stop of it accepted.
LEMMA SealedStep ==
  ASSUME TypeOK, Books, Outcomes, Manager, Orderly, Sealed, Next
  PROVE  Sealed'
<1>0. /\ Worker \in Procs /\ Closer \in Procs \ {Worker} /\ \A c \in Clients : c \in Procs \ {Worker}
      /\ on[Worker] \in Jobs
  BY ProcsAssumption DEF Procs, Runners, TypeOK
<1>1. CASE Recover
  <2>1. upd' = upd /\ upd = Cold.upd /\ Goto(Worker, "get")
    BY <1>1 DEF Recover, Manager, Idle
  <2>2. pc'[Worker] = "get" /\ upd'[Worker].stage = "none"
    BY <1>0, <2>1, StatusesAre DEF Goto, TypeOK, Cold
  <2> QED BY <2>2, WorkerSealed
<1>2. CASE phase' # "open"
  BY <1>2 DEF Sealed
<1>3. CASE phase' = "open" /\ ~Recover
  <2>0. phase = "open" /\ Open
    BY <1>3, PhaseStep DEF Manager, Ready
  <2>1. CASE Take
    <3>1. pc'[Worker] \in {"get", "exit", "lock"} /\ upd'[Worker] = upd[Worker] /\ upd[Worker].stage = "none"
      BY <1>0, <2>1 DEF Take, GotoOn, Goto, NextLabel, TypeOK, rows, Books, Silent, Quiet, Resting
    <3> QED BY <3>1, WorkerSealed
  <2>2. CASE EnterResumable
    <3>1. pc'[Worker] = "loop" /\ upd'[Worker] = upd[Worker] /\ upd[Worker].stage = "none"
      BY <1>0, <2>2 DEF EnterResumable, Goto, TypeOK, rows, Books, Silent, Quiet, Resting
    <3> QED BY <3>1, WorkerSealed
  <2>3. CASE OperationStep
    <3>0. CommitInOrder /\ Returned(Worker)
      BY <2>3 DEF Orderly, OperationStep, RunWrites, RunTells, Told, RunReports, RunEnds, At
    <3>1. PICK j \in Jobs : on[Worker] = j
      BY <1>0
    <3>2. pc'[Worker] # "completed"
      BY <1>0, <2>3 DEF OperationStep, RunWrites, RunTells, Told, RunReports, RunEnds, At, Goto, TypeOK
    <3>3. upd'[Worker].stage = "capture" => upd'[Worker].row.status # "completed"
      <4>1. CASE RunWrites \/ RunEnds
        BY <3>0, <4>1 DEF RunWrites, RunEnds, rows, Returned
      <4>2. CASE Told
        BY <1>0, <4>2, ReturnRecords DEF Told
      <4>3. ASSUME NEW st \in {"running", Status(j)}, NEW rs, Update(Worker, j, st, rs)
            PROVE  upd'[Worker].stage = "capture" => upd'[Worker].row.status # "completed"
        <5>1. st # "completed" \/ ~MayCapture(j, st)
          BY <4>3 DEF MayCapture, Terminal
        <5> QED BY <1>0, <3>0, <4>3, <5>1, UpdateRecords
      <4>4. CASE RunTells \/ RunReports
        BY <3>1, <4>3, <4>4 DEF RunTells, RunReports
      <4> QED BY <2>3, <4>1, <4>2, <4>4 DEF OperationStep
    <3> QED BY <3>2, <3>3, WorkerSealed
  <2>4. CASE ResumableStep
    BY <2>0, <2>4, ResumableSealed
  <2>5. ASSUME NEW p \in Runners, RunnerStep(p) PROVE Sealed'
    BY <2>0, <2>5, RunnerSealed
  <2>6. ASSUME NEW c \in Clients, CallBegins(c) \/ CallStep(c) PROVE Sealed'
    <3>1. ASSUME NEW j \in Jobs, Submit(c, j) PROVE Respects
      <4>1. UNCHANGED <<upd, tlock, request>> /\ GotoOn(c, "enqueue", j)
        BY <3>1 DEF Submit, rows, signals
      <4> QED BY <1>0, <4>1 DEF GotoOn, Goto, TypeOK, Respects
    <3>2. ASSUME Enqueue(c) PROVE Respects
      <4>1. PICK j \in Jobs : on[c] = j
        BY <1>0 DEF TypeOK
      <4>2. UNCHANGED <<upd, tlock, request>> /\ Worker # j
        BY <3>2, ProcsAssumption DEF Enqueue, signals
      <4>3. pc'[Worker] = pc[Worker] /\ on'[Worker] = on[Worker]
        BY <1>0, <3>2, <4>1, <4>2 DEF Enqueue, GotoOn, Goto, TypeOK
      <4> QED BY <4>2, <4>3 DEF Respects
    <3>3. ASSUME NEW j \in Jobs, Pause(c, j) \/ Stop(c, j) \/ Resume(c, j) \/ Cancel(c, j) PROVE Respects
      <4>1. Goes(c)
        BY <3>3, CallCalm DEF Calm
      <4>2. /\ \/ tlock' = tlock
               \/ tlock[j] # Worker /\ tlock' = [tlock EXCEPT ![j] = c]
            /\ \/ request' = request
               \/ tlock[j] # Worker /\ request' = [request EXCEPT ![j] = "pause"]
               \/ tlock[j] # Worker /\ request' = [request EXCEPT ![j] = "stop"]
               \/ request' = [request EXCEPT ![j] = ""]
        BY <1>0, <3>3, ProcsAssumption DEF Pause, Stop, Resume, Cancel, locks, signals
      <4> QED BY <1>0, <4>1, <4>2, OthersRespect
    <3>4. ASSUME Answer(c) PROVE Respects
      <4>1. Goes(c)
        BY <3>4, CallCalm DEF Calm
      <4>2. PICK j \in Jobs : on[c] = j
        BY <1>0 DEF TypeOK
      <4>3. /\ tlock' = tlock \/ (tlock[j] # Worker /\ tlock' = [tlock EXCEPT ![j] = Free])
            /\ request' = request
        BY <1>0, <3>4, <4>2 DEF Answer, TypeOK
      <4> QED BY <1>0, <4>1, <4>3, OthersRespect
    <3> QED BY <2>0, <2>6, <3>1, <3>2, <3>3, <3>4, RespectsSealed DEF CallBegins, CallStep
  <2>7. ASSUME NEW p \in Clients \cup {Closer}, CancelStep(p) PROVE Sealed'
    <3>1. Goes(p) /\ tlock' = tlock /\ request' = request
      BY <2>7, CancelCalm DEF Calm, CancelStep, Cleaned, CancelAnswer, locks, signals
    <3> QED BY <1>0, <2>0, <3>1, OthersRespect, RespectsSealed
  <2>8. ASSUME NEW p \in Procs, Storage(p) PROVE Sealed'
    <3>1. UNCHANGED <<pc, on, tlock, request>> /\ Goes(p)
      BY <2>8, StorageCalm DEF Calm, Storage, Capture, Commit, LoseWrite, locks, signals
    <3>2. CASE p # Worker
      BY <2>0, <3>1, <3>2, OthersRespect, RespectsSealed
    <3>3. CASE p = Worker
      <4>1. upd'[Worker].stage \in {"write", "written", "lost"}
        <5>0. upd[Worker] \in [stage : {"none", "capture", "write", "written", "lost"}, row : Rows \cup {NoRow}]
          BY <1>0 DEF TypeOK
        <5>1. CASE Capture(p)
          BY <1>0, <3>3, <5>1 DEF Capture, Issue, TypeOK
        <5>2. ASSUME NEW s \in {"written", "lost"}, upd' = [upd EXCEPT ![p].stage = s]
              PROVE  upd'[Worker].stage = s
          <6>1. upd'[Worker] = [upd[Worker] EXCEPT !.stage = s]
            BY <1>0, <3>3, <5>2 DEF TypeOK
          <6> QED BY <5>0, <6>1
        <5> QED BY <2>8, <5>1, <5>2 DEF Storage, Commit, LoseWrite
      <4> QED BY <2>0, <3>1, <4>1 DEF Sealed
    <3> QED BY <3>2, <3>3
  <2>9. ~Close /\ ~CloseStep /\ ~Crash
    <3>1. pc[Closer] = "idle"
      BY <2>0 DEF Books, Asleep
    <3> QED BY <1>3, <3>1 DEF Close, CloseStep, StopWaited, SignalShutdown, PauseWaited, ListQueued, CancelEach,
                              CancelTasks, Closed, Crash, Down
  <2> QED BY <1>3, <2>1, <2>2, <2>3, <2>4, <2>5, <2>6, <2>7, <2>8, <2>9 DEF Next, WorkerStep
<1> QED BY <1>1, <1>2, <1>3

\* A write that says the job has completed is not all that says so.
LEMMA CompletedSomewhere ==
  ASSUME TypeOK, Books, Open, NEW k \in Resumable, Status(k) \notin Terminal, NEW row \in Seen(k),
         row.status = "completed"
  PROVE  on[Worker] = k /\ upd[Worker].stage = "capture" /\ upd[Worker].row.status = "completed"
<1> USE StatusesAre
<1>0. k \in Jobs /\ RowsOf(k)
  BY JobsAssumption DEF Open
<1>1. row # mem[k]
  <2> SUFFICES ASSUME row = mem[k] PROVE FALSE
    OBVIOUS
  <2>1. mem[k] # NoRow
    BY DEF NoRow
  <2> QED BY <2>1 DEF Status, Row
<1>2. ~Over(mem[k])
  <2> SUFFICES ASSUME Over(mem[k]) PROVE FALSE
    OBVIOUS
  <2>1. mem[k] # NoRow
    BY DEF Over
  <2> QED BY <2>1 DEF Status, Row, Over
<1>3. ~Live(k) => mem[k] = NoRow
  BY <1>0, <1>2 DEF TypeOK, Rows, Live, Over
<1>4. ~Over(db[k])
  <2> SUFFICES ASSUME Over(db[k]) PROVE FALSE
    OBVIOUS
  <2>1. mem[k] = NoRow
    BY <1>0, <1>3 DEF RowsOf, Finished
  <2> QED BY <2>1 DEF Status, Row, Over
<1>5. row # db[k]
  BY <1>4 DEF Over
<1>6. PICK p \in Procs : on[p] = k /\ upd[p].stage # "none" /\ row = upd[p].row
  BY <1>1, <1>5, SeenIs
<1>7. Over(upd[p].row)
  BY <1>6 DEF Over
<1>8. Live(k)
  <2> SUFFICES ASSUME mem[k] = NoRow PROVE FALSE
    BY <1>3
  <2>1. pc[p] \notin Resting
    BY <1>6 DEF Books, Silent, Quiet
  <2>2. db[k] \in Rows
    BY <1>0, <1>6, <2>1 DEF Books, Known, TypeOK
  <2>3. db[k].status \in Active
    BY <1>4, <2>2 DEF Rows, Over
  <2>4. Bound(k)
    BY <1>0, <2>3 DEF RowsOf, Dropped
  <2> QED BY <1>0, <1>6, <2>4 DEF Open, Waiting
<1>9. upd[p].stage = "capture"
  <2>1. upd[p].stage \in {"none", "capture", "write", "written", "lost"}
    BY <1>6 DEF TypeOK
  <2> QED BY <1>0, <1>4, <1>6, <1>7, <1>8, <2>1 DEF RowsOf, LastWord
<1>10. p = Worker
  BY <1>9 DEF Open, InPlace, Captures
<1> QED BY <1>6, <1>9, <1>10

\* A step without news completes only what the worker has sealed.
LEMMA QuietHonours ==
  ASSUME TypeOK, TypeOK', Books, Open, Sealed, phase = "open", NEW k \in Resumable,
         Status(k) \notin Terminal, Status(k)' = "completed", NoNews
  PROVE  request[k] \notin {"pause", "stop"}
<1>1. k \in Jobs
  BY JobsAssumption
<1>2. Row(k)' \in Seen(k)'
  BY DEF Row, Seen
<1>3. PICK row \in Seen(k) : row.status = "completed"
  <2>1. Row(k)'.status = "completed"
    BY DEF Status
  <2>2. Claims(Row(k)'.status, Row(k)'.reason)
    BY <2>1 DEF Claims
  <2>3. \E old \in Seen(k) : old.status = Row(k)'.status
    BY <1>2, <2>2 DEF NoNews
  <2> QED BY <2>1, <2>3
<1>4. on[Worker] = k /\ upd[Worker].stage = "capture" /\ upd[Worker].row.status = "completed"
  BY <1>3, CompletedSomewhere
<1> QED BY <1>4 DEF Sealed

\* An _update completes nothing but with that status,
LEMMA UpdateSays ==
  ASSUME TypeOK, CommitInOrder, NEW p \in Procs, NEW j \in Jobs, NEW st \in Active \cup Terminal, NEW rs,
         Update(p, j, st, rs), st # "completed", db' = db, NEW k \in Jobs, Status(k)' = "completed"
  PROVE  Status(k) = "completed"
<1> USE StatusesAre
<1>1. (k # j => mem'[k] = mem[k]) /\ (mem'[j].status = Status(j) \/ mem'[j].status = st)
  BY UpdateMeans
<1>2. CASE k # j
  BY <1>1, <1>2 DEF Status, Row
<1>3. CASE k = j
  <2>1. CASE mem'[j] = NoRow
    <3>1. Status(j) = "absent"
      BY <1>1, <2>1
    <3>2. mem[j] = NoRow
      BY <3>1 DEF TypeOK, Rows, Status, Row
    <3> QED BY <1>3, <2>1, <3>2 DEF Status, Row
  <2>2. CASE mem'[j] # NoRow
    BY <1>1, <1>3, <2>2 DEF Status, Row
  <2> QED BY <2>1, <2>2
<1> QED BY <1>2, <1>3

\* and its tail completes nothing.
LEMMA ReturnSays ==
  ASSUME TypeOK, Open, NEW p \in Procs, Return(p), db' = db, NEW k \in Jobs, Status(k)' = "completed"
  PROVE  Status(k) = "completed"
<1> USE StatusesAre
<1>1. CASE mem'[k] = mem[k]
  BY <1>1 DEF Status, Row
<1>2. CASE mem'[k] # mem[k]
  <2>1. on[p] = k /\ upd[p].stage = "written" /\ Over(upd[p].row) /\ mem'[k] = NoRow
    BY <1>2 DEF Return, TypeOK, Over
  <2>2. Over(db[k]) /\ ~Live(k)
    BY <2>1 DEF Open, RowsOf, LastWord, Finished
  <2>3. mem[k] \in Rows
    BY <1>2, <2>1 DEF TypeOK
  <2>4. Over(mem[k])
    BY <2>2, <2>3 DEF Rows, Live, Over
  <2>5. mem[k].status = db[k].status
    BY <2>2, <2>4 DEF Open, RowsOf, Agreed
  <2> QED BY <1>2, <2>1, <2>5 DEF Status, Row
<1> QED BY <1>1, <1>2

\* The step of the worker that makes a job completed sees no request for it.
LEMMA ResumableHonours ==
  ASSUME TypeOK, Books, Open, CommitInOrder, ResumableStep, NEW k \in Jobs,
         Status(k) # "completed", Status(k)' = "completed"
  PROVE  request[k] = ""
<1> USE StatusesAre
<1>0. Worker \in Procs /\ db' = db
  BY DEF Procs, Runners, ResumableStep, LoopHead, WakeUp, ControlPoint, Complete, Completed, Finalized,
         Pausing, Breaking, Park, Parked, Unwind, RollBack, Strand
<1>1. PICK j \in Jobs : on[Worker] = j
  BY <1>0 DEF TypeOK
<1>2. ~Return(Worker)
  BY <1>0, ReturnSays
<1>3. ~UNCHANGED rows
  BY <1>0 DEF rows, Status, Row
<1>4. ASSUME NEW st \in Active \cup Terminal, NEW rs, st # "completed" PROVE ~Update(Worker, j, st, rs)
  BY <1>0, <1>4, UpdateSays
<1>5. ~BeginStop(j) /\ ~Begin(j)
  BY <1>4 DEF Begin, BeginStop
<1>6. ~LoopHead /\ ~WakeUp /\ ~ControlPoint
  BY <1>1, <1>2, <1>5 DEF LoopHead, WakeUp, ControlPoint
<1>7. ~Completed /\ ~Finalized /\ ~Parked /\ ~Strand
  BY <1>2, <1>3 DEF Completed, Finalized, Parked, Strand
<1>8. ~Pausing /\ ~Breaking /\ ~Unwind /\ ~RollBack
  BY <1>1, <1>4, <1>5 DEF Pausing, Breaking, Park, Unwind, RollBack
<1>9. Complete
  BY <1>6, <1>7, <1>8 DEF ResumableStep
<1>10. request[j] = "" /\ Update(Worker, j, "completed", "")
  BY <1>1, <1>3, <1>5, <1>9 DEF Complete
<1>11. k = j
  <2> SUFFICES ASSUME k # j PROVE FALSE
    OBVIOUS
  <2>1. \A i \in Jobs \ {j} : mem'[i] = mem[i]
    <3>1. "completed" \in Active \cup Terminal
      OBVIOUS
    <3>2. ASSUME NEW st, NEW rs, Update(Worker, j, st, rs) PROVE \A i \in Jobs \ {j} : mem'[i] = mem[i]
      BY <1>0, <3>2, UpdateMeans
    <3> QED BY <1>10, <3>2
  <2> QED BY <1>0, <2>1 DEF Status, Row
<1> QED BY <1>10, <1>11

\* A job that becomes completed, for whoever asks for it, has no pause or stop pending.
LEMMA HonourStep ==
  ASSUME TypeOK, Books, Outcomes, Manager, Orderly, Sealed, Next,
         phase \in {"open", "down"}, phase' \in {"open", "down"},
         NEW k \in Resumable, Status(k) # "completed", Status(k)' = "completed"
  PROVE  request[k] \notin {"pause", "stop"}
<1> USE StatusesAre
<1>0. k \in Jobs /\ TypeOK'
  BY JobsAssumption, TypeStep
<1>1. CASE phase = "down"
  BY <1>0, <1>1 DEF Manager, Idle, Cold
<1>2. CASE phase = "open" /\ Down
  <2>1. mem'[k] = NoRow /\ db' = db
    BY <1>0, <1>2 DEF Down, Cold
  <2>2. db[k].status = "completed"
    BY <2>1 DEF Status, Row
  <2>3. RowsOf(k)
    BY <1>0, <1>2 DEF Manager, Ready, Open
  <2>4. mem[k] # NoRow /\ Over(db[k])
    BY <2>2 DEF Status, Row, Over
  <2>5. mem[k] \in Rows /\ ~Live(k)
    BY <1>0, <2>3, <2>4 DEF TypeOK, RowsOf, Finished
  <2>6. Over(mem[k])
    BY <2>5 DEF Live, Over, Rows
  <2>7. mem[k].status = db[k].status
    BY <2>3, <2>4, <2>6 DEF RowsOf, Agreed
  <2> QED BY <2>2, <2>4, <2>7 DEF Status, Row
<1>3. CASE phase = "open" /\ ~Down
  <2>0. phase' = "open" /\ Open /\ CommitInOrder /\ ~Recover
    BY <1>3, PhaseStep DEF Manager, Ready, Orderly, Recover
  <2>1. Status(k) \notin Terminal
    <3>1. Firm /\ Lasting /\ Manager'
      BY <2>0, <1>3, ManagerStep DEF Ready
    <3>2. RowsOf(k)'
      BY <1>0, <2>0, <3>1 DEF Manager, Ready, Open
    <3>3. Status(k) \in Terminal => Status(k)' = Status(k)
      BY <1>0, <3>1, <3>2, TerminalStays
    <3> QED BY <3>3
  <2>2. NoNews => request[k] \notin {"pause", "stop"}
    BY <1>0, <1>3, <2>0, <2>1, QuietHonours
  <2>3. CASE Take \/ EnterResumable
    <3>1. mem' = mem /\ db' = db
      BY <2>3 DEF Take, EnterResumable, rows
    <3> QED BY <3>1 DEF Status, Row
  <2>4. CASE OperationStep
    BY <2>2, <2>4, OperationCalm DEF Calm
  <2>5. CASE ResumableStep
    BY <1>0, <2>0, <2>5, ResumableHonours
  <2>6. ASSUME NEW p \in Runners, RunnerStep(p) PROVE NoNews
    BY <2>6, RunnerCalm DEF Calm
  <2>7. ASSUME NEW c \in Clients, NEW j \in Jobs, Submit(c, j) PROVE FALSE
    <3>1. mem' = mem /\ db' = [db EXCEPT ![j] = NewRow]
      BY <2>7 DEF Submit, rows
    <3>2. mem[k] = NoRow /\ db'[k].status = "completed"
      BY <3>1 DEF Status, Row
    <3>3. db'[k] = db[k]
      BY <1>0, <3>1, <3>2, NewRowIs DEF TypeOK
    <3> QED BY <3>1, <3>2, <3>3 DEF Status, Row
  <2>8. ASSUME NEW c \in Clients, Enqueue(c) PROVE FALSE
    <3>1. PICK j \in Jobs : on[c] = j
      BY DEF TypeOK, Procs
    <3>2. mem' = [mem EXCEPT ![j] = NewRow] /\ db' = db
      BY <2>8, <3>1 DEF Enqueue
    <3>3. mem'[k] # NewRow
      <4>1. mem'[k] = NewRow => Status(k)' = "queued"
        BY NewRowIs DEF Status, Row
      <4> QED BY <4>1
    <3>4. mem'[k] = mem[k]
      BY <1>0, <3>2, <3>3 DEF TypeOK
    <3> QED BY <3>2, <3>4 DEF Status, Row
  <2>9. ASSUME NEW c \in Clients, CallBegins(c) \/ CallStep(c) PROVE NoNews
    <3>1. CASE (\E j \in Jobs : Pause(c, j) \/ Stop(c, j) \/ Resume(c, j) \/ Cancel(c, j)) \/ Answer(c)
      BY <3>1, CallCalm DEF Calm
    <3> QED BY <2>7, <2>8, <2>9, <3>1 DEF CallBegins, CallStep
  <2>10. ASSUME NEW p \in Clients \cup {Closer}, CancelStep(p) PROVE NoNews
    BY <2>10, CancelCalm DEF Calm
  <2>11. ASSUME NEW p \in Procs, Storage(p) PROVE NoNews
    BY <2>11, StorageCalm DEF Calm
  <2>12. CASE Close \/ CloseStep
    <3>1. ~Closed
      BY <1>3 DEF Closed
    <3> QED BY <2>2, <2>12, <3>1, CloseCalm DEF Calm
  <2> QED
    BY <1>3, <2>0, <2>2, <2>3, <2>4, <2>5, <2>6, <2>9, <2>10, <2>11, <2>12 DEF Next, WorkerStep, Crash
<1> QED BY <1>1, <1>2, <1>3

\* The shutdown of a service that is never closed does not begin.
LEMMA NeverCloses ==
  ASSUME Books, Next, phase \in {"closing", "closed"} => MayClose, phase' \in {"closing", "closed"}
  PROVE  MayClose
<1>1. CancelTasks => phase # "open"
  BY DEF CancelTasks, Books, Asleep
<1>2. CASE phase' = phase
  BY <1>2
<1>3. CASE Close
  BY <1>3 DEF Close
<1>4. CASE CancelTasks
  BY <1>1, <1>4 DEF CancelTasks, Alive
<1>5. ~Down /\ ~Recover
  BY DEF Down, Recover
<1> QED BY <1>2, <1>3, <1>4, <1>5, PhaseKinds

\* Only a crash counts as one, and without one only a service that closed goes down.
LEMMA EndKinds ==
  ASSUME Next
  PROVE  /\ crashes' = crashes \/ Crash
         /\ phase' = "down" => phase = "down" \/ Closed \/ Crash
<1>1. CASE WorkerStep
  <2>1. CASE Take \/ EnterResumable \/ OperationStep
    BY <2>1 DEF Take, EnterResumable, OperationStep, RunWrites, RunTells, Told, RunReports, RunEnds, life
  <2>2. CASE ResumableStep
    BY <2>2 DEF ResumableStep, LoopHead, WakeUp, ControlPoint, Complete, Completed, Finalized, Pausing,
                Breaking, Park, Parked, Unwind, RollBack, Strand, life
  <2> QED BY <1>1, <2>1, <2>2 DEF WorkerStep
<1>2. ASSUME NEW p \in Runners, RunnerStep(p) PROVE UNCHANGED life
  BY <1>2 DEF RunnerStep, SkipCancelled, EnterSimple, SimpleStep, Reported, Finish, Cancelled, CancelHandled,
              life
<1>3. ASSUME NEW c \in Clients, CallBegins(c) \/ CallStep(c) PROVE UNCHANGED life
  BY <1>3 DEF CallBegins, CallStep, Submit, Pause, Stop, Resume, Cancel, Enqueue, Answer, life
<1>4. ASSUME NEW p \in Clients \cup {Closer}, CancelStep(p) PROVE UNCHANGED <<phase, crashes>>
  BY <1>4 DEF CancelStep, Cleaned, CancelAnswer, life
<1>5. ASSUME NEW p \in Procs, Storage(p) PROVE UNCHANGED life
  BY <1>5 DEF Storage, Capture, Commit, LoseWrite, life
<1>6. CASE Close \/ CloseStep
  BY <1>6 DEF Close, CloseStep, StopWaited, SignalShutdown, PauseWaited, ListQueued, CancelEach,
              CancelTasks, Closed, life
<1>7. CASE Crash \/ Recover
  BY <1>7 DEF Recover
<1> QED BY <1>1, <1>2, <1>3, <1>4, <1>5, <1>6, <1>7 DEF Next, life

\* A service that neither closes nor crashes stays open.
LEMMA StaysOpen ==
  ASSUME ~MayClose, MaxCrashes = 0, Books, Next, phase = "open" /\ crashes = 0
  PROVE  phase' = "open" /\ crashes' = 0
<1>1. ~Crash /\ ~Closed
  BY DEF Crash, Closed
<1>2. crashes' = 0 /\ phase' # "down"
  BY <1>1, EndKinds
<1>3. phase' \notin {"closing", "closed"}
  BY NeverCloses
<1>4. ~Down
  BY <1>2 DEF Down
<1>5. phase' = "open"
  BY <1>2, <1>3, <1>4, PhaseKinds DEF Close, CancelTasks, Recover
<1> QED BY <1>2, <1>5

\* The manager is in order in every behaviour, when no caller overtakes a runner (Orderly).
THEOREM InOrder ==
  ASSUME Orderly
  PROVE  Spec => [](TypeOK /\ Books /\ Outcomes /\ Manager)
<1>1. Init => Manager
  BY ManagerInit
<1>2. TypeOK /\ Books /\ Outcomes /\ Manager /\ [Next]_vars => Manager'
  BY ManagerStep, ManagerStays
<1> QED BY <1>1, <1>2, BooksAndOutcomes, PTL DEF Spec

\* While no rollback fails, every active job that left _queue has the worker at its side or waits
\* in _queue again, once: whoever may resume or stop it still can, over shutdowns, crashes and restarts.
THEOREM ServesOnce ==
  ASSUME Orderly, ~RollbackMayFail
  PROVE  Spec => []ServedOnce
<1>1. Init => (phase = "open" => Attended)
  BY ManagerInit
<1>2. /\ TypeOK /\ Books /\ Outcomes /\ Manager /\ (phase = "open" => Attended) /\ [Next]_vars
      => (phase = "open" => Attended)'
  <2> SUFFICES ASSUME TypeOK, Books, Outcomes, Manager, phase = "open" => Attended, [Next]_vars
               PROVE  phase' = "open" => Attended'
    OBVIOUS
  <2>1. CASE Next
    BY <2>1, ManagerStep
  <2>2. CASE UNCHANGED vars
    BY <2>2, ManagerStays DEF vars
  <2> QED BY <2>1, <2>2
<1>3. TypeOK /\ Books /\ Manager /\ (phase = "open" => Attended) => ServedOnce
  <2> SUFFICES ASSUME TypeOK, Books, Manager, phase = "open" => Attended PROVE ServedOnce
    OBVIOUS
  <2>1. ActiveIsServed
    <3> SUFFICES ASSUME phase = "open", NEW j \in Resumable, Status(j) \in Active \ {"queued"}
                 PROVE  Serving(j) \/ Queued(j)
      BY DEF ActiveIsServed, Queued
    <3>1. j \in Jobs /\ Dropped(j) /\ Waiting
      BY JobsAssumption DEF Manager, Ready, Open, RowsOf
    <3>2. ~Bound(j)
      BY <3>1 DEF Waiting, Status, Row
    <3>3. Live(j)
      BY <3>1, <3>2, StatusLive
    <3> QED BY <3>3 DEF Attended
  <2> QED BY <2>1 DEF ServedOnce, Books
<1> QED BY <1>1, <1>2, <1>3, InOrder, PTL DEF Spec

\* In the open service, and in one that shuts down gently, no operation executes under a status
\* that says paused or interrupted.
LEMMA ReadyIsQuiet ==
  ASSUME TypeOK, Manager, phase = "closing" => Gentle
  PROVE  QuietWhilePaused
<1> SUFFICES ASSUME NEW j \in Resumable, Status(j) \in Paused, Executing(j) PROVE FALSE
  BY DEF QuietWhilePaused
<1>1. /\ pc[Worker] \in OperationLabels /\ on[Worker] = j /\ j \in Jobs
      /\ phase \in {"open", "closing"}
  BY JobsAssumption DEF Executing, Alive, Serving, OperationLabels
<1>2. Open
  BY <1>1 DEF Manager, Ready
<1>3. upd[Worker].stage # "capture"
  BY <1>1, <1>2 DEF Executing, Returned, Open, InPlace, Captures, Procs, Runners, After
<1>4. Suits(pc[Worker], j)
  BY <1>1, <1>2, <1>3 DEF Open, InPlace, Procs, Runners
<1>5. pc[Worker] \in Working
  BY <1>1 DEF OperationLabels, Working
<1>6. Live(j) /\ mem[j].status \notin Paused
  BY <1>1, <1>4, <1>5 DEF Suits, Live
<1> QED BY <1>1, <1>6, StatusLive

\* A job whose status says paused or interrupted does not execute, unless the service is closing:
\* nobody reads such a status before the operation has left run() at a safe point.
THEOREM QuietPause ==
  ASSUME Orderly
  PROVE  Spec => [](phase # "closing" => QuietWhilePaused)
<1>1. TypeOK /\ Manager => (phase # "closing" => QuietWhilePaused)
  BY ReadyIsQuiet
<1> QED BY <1>1, InOrder, PTL

\* Only a service that is closed at all is ever closing.
THEOREM ClosesOnlyIfMay == Spec => [](phase \in {"closing", "closed"} => MayClose)
<1>1. Init => (phase \in {"closing", "closed"} => MayClose)
  BY DEF Init
<1>2. /\ Books /\ (phase \in {"closing", "closed"} => MayClose) /\ [Next]_vars
      => (phase \in {"closing", "closed"} => MayClose)'
  <2>1. CASE Next
    BY <2>1, NeverCloses
  <2>2. CASE UNCHANGED vars
    BY <2>2 DEF vars
  <2> QED BY <2>1, <2>2
<1> QED BY <1>1, <1>2, BooksAndOutcomes, PTL DEF Spec

\* And not while it is closing either, when the server drains first and nothing is compared or
\* cleaned up: the shutdown interrupts a job that still runs, and waits.
THEOREM QuietAlways ==
  ASSUME Orderly, MayClose => Gentle
  PROVE  Spec => []QuietWhilePaused
<1>1. TypeOK /\ Manager /\ (phase \in {"closing", "closed"} => MayClose) => QuietWhilePaused
  BY ReadyIsQuiet
<1> QED BY <1>1, ClosesOnlyIfMay, InOrder, PTL

\* What the table calls terminal stays so, over the shutdown, crashes and restarts, whatever write
\* is still in flight then.
THEOREM RecordedIsFinal ==
  ASSUME Orderly, MayClose => Gentle
  PROVE  Spec => RecordedOutcomeIsFinal
<1>1. /\ TypeOK /\ Books /\ Outcomes /\ Manager /\ (phase \in {"closing", "closed"} => MayClose)
      /\ (phase \in {"closing", "closed"} => MayClose)' /\ [Next]_vars
      => [\A j \in Jobs : db[j].status \in Terminal /\ phase # "closed"
                            => db'[j].status = db[j].status]_vars
  <2> SUFFICES ASSUME TypeOK, Books, Outcomes, Manager, phase' \in {"closing", "closed"} => MayClose,
                      Next, NEW j \in Jobs, db[j].status \in Terminal, phase # "closed"
               PROVE  db'[j].status = db[j].status
    OBVIOUS
  <2>1. CASE Ready'
    <3>1. Lasting
      BY <2>1, ManagerStep
    <3> QED BY <3>1 DEF Lasting, Over
  <2>2. CASE ~Ready'
    <3>1. phase' \notin {"open", "closing"}
      BY <2>2 DEF Ready, Gentle
    <3>2. CASE Down \/ CancelTasks
      BY <3>2 DEF Down, CancelTasks
    <3>3. CASE phase' = phase
      <4>1. phase = "down"
        BY <3>1, <3>3 DEF TypeOK
      <4> QED BY <3>1, <4>1, PhaseStep DEF Recover
    <3> QED BY <3>1, <3>2, <3>3, PhaseKinds DEF Close, Recover
  <2> QED BY <2>1, <2>2
<1> QED BY <1>1, ClosesOnlyIfMay, InOrder, PTL DEF Spec, RecordedOutcomeIsFinal

\* Deduplication: in a service that is not closed two jobs of one kind on one database are never
\* both active, over writes that are delayed or lost, crashes and restarts.
THEOREM OneActive ==
  ASSUME Orderly, ~MayClose
  PROVE  Spec => []OneActivePerKind
<1>1. Init => OneRow
  BY ManagerInit
<1>2. TypeOK /\ (phase \in {"closing", "closed"} => MayClose) => phase \in {"open", "down"}
  BY DEF TypeOK
<1>3. /\ TypeOK /\ Books /\ Outcomes /\ Manager /\ OneRow /\ (phase \in {"open", "down"})'
      /\ [Next]_vars
      => OneRow'
  <2> SUFFICES ASSUME TypeOK, Books, Outcomes, Manager, OneRow, phase' \in {"open", "down"}, [Next]_vars
               PROVE  OneRow'
    OBVIOUS
  <2>1. CASE Next
    BY <2>1, ManagerStep DEF Ready
  <2>2. CASE UNCHANGED vars
    BY <2>2, ManagerStays
  <2> QED BY <2>1, <2>2
<1>4. TypeOK /\ Books /\ Manager /\ OneRow /\ phase \in {"open", "down"} => OneActivePerKind
  <2> SUFFICES ASSUME TypeOK, Books, Manager, OneRow, phase \in {"open", "down"} PROVE OneActivePerKind
    OBVIOUS
  <2>1. ASSUME NEW j \in Jobs, Status(j) \in Active PROVE db[j].status \in Active
    <3>1. CASE mem[j] = NoRow
      BY <2>1, <3>1 DEF Status, Row
    <3>2. CASE mem[j] # NoRow
      <4>0. phase = "open"
        BY <3>2 DEF Manager, Idle, Cold
      <4>1. db[j] \in Rows
        BY <3>2 DEF Books, Known, TypeOK
      <4>2. Live(j)
        BY <2>1, <3>2 DEF Status, Row, Live
      <4>3. ~Over(db[j])
        BY <4>0, <4>2 DEF Manager, Ready, Open, RowsOf, Finished
      <4> QED BY <4>1, <4>3 DEF Over, Rows
    <3> QED BY <3>1, <3>2
  <2> QED BY <2>1 DEF OneActivePerKind, OneRow
<1> QED BY <1>1, <1>2, <1>3, <1>4, InOrder, ClosesOnlyIfMay, PTL DEF Spec

\* A terminal status is final in a service that neither closes nor crashes: what a runner or a
\* caller said last, _find_active, the events and the worker all go on saying.
THEOREM TerminalFinal ==
  ASSUME Orderly, ~MayClose, MaxCrashes = 0
  PROVE  Spec => TerminalIsFinal
<1>1. Init => phase = "open" /\ crashes = 0
  BY DEF Init
<1>2. Books /\ (phase = "open" /\ crashes = 0) /\ [Next]_vars => (phase = "open" /\ crashes = 0)'
  <2>1. CASE Next
    BY <2>1, StaysOpen
  <2>2. CASE UNCHANGED vars
    BY <2>2 DEF vars
  <2> QED BY <2>1, <2>2
<1>3. /\ TypeOK /\ Books /\ Outcomes /\ Manager /\ (phase = "open" /\ crashes = 0) /\ [Next]_vars
      => [\A j \in Jobs : Status(j) \in Terminal => Status(j)' = Status(j)]_vars
  <2> SUFFICES ASSUME TypeOK, Books, Outcomes, Manager, phase = "open" /\ crashes = 0, Next,
                      NEW j \in Jobs, Status(j) \in Terminal
               PROVE  Status(j)' = Status(j)
    OBVIOUS
  <2>1. phase' = "open"
    BY StaysOpen
  <2>2. Firm /\ Lasting /\ Manager' /\ TypeOK'
    BY <2>1, ManagerStep, TypeStep DEF Ready
  <2>3. RowsOf(j)'
    BY <2>1, <2>2 DEF Manager, Ready, Open
  <2> QED BY <2>2, <2>3, TerminalStays
<1> QED BY <1>1, <1>2, <1>3, InOrder, BooksAndOutcomes, PTL DEF Spec, TerminalIsFinal

\* A job does not complete over a pause or stop that was accepted before it did, in a service that
\* is not closed: complete() looks at the request again under the lock that admits such requests.
THEOREM HonoursRequests ==
  ASSUME Orderly, ~MayClose
  PROVE  Spec => CompletionHonoursRequest
<1>1. Init => Sealed
  <2> SUFFICES ASSUME Init PROVE Sealed
    OBVIOUS
  <2>1. Worker \in Procs
    BY DEF Procs, Runners
  <2>2. \A p \in Procs : upd[p].stage = "none"
    BY StatusesAre DEF Init, Cold
  <2>3. pc = [Cold.pc EXCEPT ![Worker] = "get"]
    BY DEF Init
  <2>4. pc[Worker] = "get"
    BY <2>1, <2>3 DEF Cold
  <2> QED BY <2>1, <2>2, <2>4 DEF Sealed
<1>2. TypeOK /\ Books /\ Outcomes /\ Manager /\ Sealed /\ [Next]_vars => Sealed'
  <2>1. CASE UNCHANGED vars
    BY <2>1 DEF vars, Sealed
  <2> QED BY <2>1, SealedStep
<1>3. TypeOK /\ (phase \in {"closing", "closed"} => MayClose) => phase \in {"open", "down"}
  BY DEF TypeOK
<1>4. /\ TypeOK /\ Books /\ Outcomes /\ Manager /\ Sealed /\ phase \in {"open", "down"}
      /\ (phase \in {"open", "down"})' /\ [Next]_vars
      => [\A j \in Resumable : Status(j) # "completed" /\ Status(j)' = "completed"
                                 => request[j] \notin {"pause", "stop"}]_vars
  BY HonourStep
<1> QED
  BY <1>1, <1>2, <1>3, <1>4, InOrder, ClosesOnlyIfMay, PTL DEF Spec, CompletionHonoursRequest

\* Both, where both hold.
THEOREM OutcomesStand ==
  ASSUME Orderly, ~MayClose, MaxCrashes = 0
  PROVE  Spec => OutcomesHold
BY HonoursRequests, TerminalFinal DEF OutcomesHold

-----------------------------------------------------------------------------
\* The short lane, to the end of an orderly shutdown.

\* Nobody else has a short job in hand: the server drains before close() begins, and
\* one caller does not cancel what another one is submitting.
Alone == Drained /\ ("cancel" \in Calls => \A c, d \in Clients : c = d)

\* Of a short job one update at most is under way, and memory says what it says.
OneWriter(k) ==
  \A p \in Procs : on[p] = k /\ upd[p].stage # "none" =>
    /\ upd[p].stage # "capture" /\ mem[k] = upd[p].row
    /\ upd[p].stage = "written" => db[k] = mem[k]
    /\ p # k => Over(mem[k])
    /\ \A q \in Procs \ {p} : on[q] = k => upd[q].stage = "none"

\* A short job that has not ended is being inserted or has its task.
Tended(k) ==
  /\ mem[k] = NoRow /\ db[k].status \in Active => Bound(k)
  /\ Bound(k) => mem[k] = NoRow /\ db[k].status = "queued"
  /\ Live(k) => pc[k] \in {"lock", "simple", "report"}
  /\ pc[k] \in {"simple", "report"} => mem[k].status = "running"
  /\ pc[k] \in {"ending", "cancelled"} => Over(mem[k]) /\ upd[k].stage # "none"
  /\ mem[k].status \notin Paused /\ db[k].status \notin Paused

Tidy(k) == OneWriter(k) /\ Tended(k)

\* Only a resumable job is cleaned up, and nobody calls a service that closes.
Cleared == /\ \A p \in Clients \cup {Closer} : pc[p] = "clean" => on[p] \in Cleaning
           /\ phase \in {"closing", "closed"} => \A c \in Clients : pc[c] = "idle"

ShortLanes == /\ \A k \in ShortLane : IF phase = "down" THEN db[k].status \notin Paused ELSE Tidy(k)
              /\ Cleared /\ Lanes /\ Idle /\ crashes \in Nat

\* An _update of a job without a provider: memory and the write say the same.
LEMMA PlainUpdate ==
  ASSUME TypeOK, NEW p \in Procs, NEW j \in Jobs, NEW st, NEW rs, Update(p, j, st, rs), j \notin Resumable
  PROVE  /\ \A q \in Procs \ {p} : upd'[q] = upd[q]
         /\ \A k \in Jobs \ {j} : mem'[k] = mem[k]
         /\ mem'[j].status = st
         /\ upd'[p].stage = "none" \/ (upd'[p].stage = "write" /\ upd'[p].row = mem'[j])
         /\ Status(j) # st => upd'[p].stage = "write"
<1> DEFINE row == [status |-> st, reason |-> rs, started |-> Row(j).started \/ st = "running"]
<1>1. ~MayCapture(j, st)
  BY JobsAssumption DEF MayCapture
<1>2. row.status = st
  OBVIOUS
<1>3. ASSUME NEW r, r.status = st, mem' = [mem EXCEPT ![j] = r],
             (Status(j) = st /\ upd' = [upd EXCEPT ![p] = NoUpdate]) \/ Issue(p, j, r)
      PROVE  /\ \A q \in Procs \ {p} : upd'[q] = upd[q]
             /\ \A k \in Jobs \ {j} : mem'[k] = mem[k]
             /\ mem'[j].status = st
             /\ upd'[p].stage = "none" \/ (upd'[p].stage = "write" /\ upd'[p].row = mem'[j])
             /\ Status(j) # st => upd'[p].stage = "write"
  <2>1. mem'[j] = r /\ \A k \in Jobs \ {j} : mem'[k] = mem[k]
    BY <1>3 DEF TypeOK
  <2>2. CASE Status(j) = st /\ upd' = [upd EXCEPT ![p] = NoUpdate]
    <3>1. upd'[p] = NoUpdate /\ \A q \in Procs \ {p} : upd'[q] = upd[q]
      BY <2>2 DEF TypeOK
    <3> QED BY <1>3, <2>1, <2>2, <3>1, StatusesAre
  <2>3. CASE Issue(p, j, r)
    <3>1. upd'[p] = [stage |-> "write", row |-> r] /\ \A q \in Procs \ {p} : upd'[q] = upd[q]
      BY <2>3 DEF Issue, TypeOK
    <3> QED BY <1>3, <2>1, <3>1
  <2> QED BY <1>3, <2>2, <2>3
<1>4. \/ mem' = [mem EXCEPT ![j] = row] /\ Issue(p, j, row)
      \/ /\ Status(j) = st /\ mem' = [mem EXCEPT ![j] = Row(j)]
         /\ upd' = [upd EXCEPT ![p] = NoUpdate] \/ Issue(p, j, Row(j))
  BY <1>1 DEF Update
<1> HIDE DEF row
<1>5. CASE mem' = [mem EXCEPT ![j] = row] /\ Issue(p, j, row)
  BY <1>2, <1>3, <1>5
<1>6. CASE /\ Status(j) = st /\ mem' = [mem EXCEPT ![j] = Row(j)]
           /\ upd' = [upd EXCEPT ![p] = NoUpdate] \/ Issue(p, j, Row(j))
  BY <1>3, <1>6 DEF Status
<1> QED BY <1>4, <1>5, <1>6

\* An _update of another job leaves the rows of this one alone, and so does its return.
LEMMA UpdateElse ==
  ASSUME TypeOK, NEW p \in Procs, NEW k \in Jobs,
         \/ \E j \in Jobs \ {k} : \E st, rs : Update(p, j, st, rs)
         \/ Return(p) /\ on[p] # k
  PROVE  mem'[k] = mem[k]
BY DEF Update, Return, TypeOK

\* A step of a process that has no update of the short job under way, and is not its task.
Aside(p, k) ==
  /\ \A q \in Procs \ {p} : pc'[q] = pc[q] /\ on'[q] = on[q] /\ upd'[q] = upd[q]
  /\ pc[p] # "enqueue" /\ pc'[p] # "enqueue" /\ mem'[k] = mem[k] /\ db'[k] = db[k]
  /\ p # k /\ (on'[p] = k => upd'[p].stage = "none")

\* Such a step keeps the short job as it is.
LEMMA AsideTidy ==
  ASSUME TypeOK, NEW k \in ShortLane, Tidy(k), NEW p \in Procs, Aside(p, k)
  PROVE  Tidy(k)'
<1> USE DEF Aside
<1>1. k \in Procs /\ pc'[k] = pc[k] /\ upd'[k] = upd[k]
  BY JobsAssumption DEF Procs, Runners
<1>2. Bound(k)' <=> Bound(k)
  <2>1. \A c \in Clients : c \in Procs
    BY DEF Procs
  <2> QED BY <2>1 DEF Bound
<1>3. \A q \in Procs : on'[q] = k /\ upd'[q].stage # "none" => on[q] = k /\ upd'[q] = upd[q]
  OBVIOUS
<1>4. OneWriter(k)'
  BY <1>3 DEF Tidy, OneWriter, Over
<1>5. Tended(k)'
  BY <1>1, <1>2 DEF Tidy, Tended, Live, Over
<1> QED BY <1>4, <1>5 DEF Tidy

\* A step that ends an update of the short job, or another.
LEMMA ReturnTidy ==
  ASSUME TypeOK, Books, NEW k \in ShortLane, Tidy(k), NEW p \in Procs, Goes(p), Return(p), db' = db,
         p = k => \/ pc'[k] = "exit" /\ ~Live(k)
                  \/ pc[k] = "report" /\ pc'[k] = "simple"
  PROVE  Tidy(k)'
<1> USE StatusesAre
<1>0. k \in Procs /\ k \in Jobs
  BY JobsAssumption DEF Procs, Runners
<1>1. \A q \in Procs \ {p} : pc'[q] = pc[q] /\ on'[q] = on[q] /\ upd'[q] = upd[q]
  BY DEF Goes, PlaceGo, RowsGo
<1>2. upd'[p].stage = "none" /\ "enqueue" \notin {pc[p], pc'[p]}
  BY DEF Return, TypeOK, Goes, PlaceGo
<1>3. Bound(k)' <=> Bound(k)
  <2>1. \A c \in Clients : c \in Procs
    BY DEF Procs
  <2> QED BY <1>1, <1>2, <2>1 DEF Bound
<1>4. CASE mem'[k] = mem[k]
  <2>1. \A q \in Procs : on'[q] = k /\ upd'[q].stage # "none" => on[q] = k /\ upd'[q] = upd[q]
    BY <1>1, <1>2
  <2>2. OneWriter(k)'
    BY <1>4, <2>1 DEF Tidy, OneWriter, Over
  <2>3. CASE p # k
    BY <1>0, <1>1, <1>3, <1>4, <2>2, <2>3 DEF Tidy, Tended, Live, Over
  <2>4. CASE p = k
    <3>1. Tended(k)'
      BY <1>0, <1>3, <1>4, <2>4 DEF Tidy, Tended, Live, Over
    <3> QED BY <2>2, <3>1 DEF Tidy
  <2> QED BY <2>3, <2>4
<1>5. CASE mem'[k] # mem[k]
  <2>1. /\ on[p] = k /\ upd[p].stage = "written" /\ upd[p].row.status \in Terminal
        /\ mem' = [mem EXCEPT ![k] = NoRow]
    BY <1>0, <1>5 DEF Return, TypeOK
  <2>2. /\ mem[k] = upd[p].row /\ db[k] = mem[k]
        /\ \A q \in Procs \ {p} : on[q] = k => upd[q].stage = "none"
    BY <2>1 DEF Tidy, OneWriter
  <2>3. mem'[k] = NoRow /\ mem[k] # NoRow /\ ~Live(k) /\ db[k].status \in Terminal
    BY <1>0, <2>1, <2>2 DEF TypeOK, Live
  <2>4. OneWriter(k)'
    BY <1>1, <1>2, <2>2 DEF OneWriter
  <2>5. ~Bound(k) /\ ~Live(k)'
    BY <2>3 DEF Tidy, Tended, Live
  <2>6. mem[k].status # "running"
    BY <2>2, <2>3
  <2>7. pc'[k] \notin {"simple", "report", "ending", "cancelled"}
    <3>1. CASE p = k
      BY <2>6, <3>1 DEF Tidy, Tended
    <3>2. CASE p # k
      <4>1. pc'[k] = pc[k] /\ (pc[k] # "exit" => on[k] = k)
        BY <1>0, <1>1, <3>2 DEF Books, Placed
      <4>2. pc[k] \notin {"simple", "report"}
        BY <2>6 DEF Tidy, Tended
      <4>3. pc[k] # "exit" => upd[k].stage = "none"
        BY <1>0, <2>2, <3>2, <4>1
      <4>4. pc[k] \notin {"ending", "cancelled"}
        BY <4>3 DEF Tidy, Tended
      <4> QED BY <4>1, <4>2, <4>4
    <3> QED BY <3>1, <3>2
  <2>8. Tended(k)'
    BY <1>3, <2>3, <2>5, <2>7 DEF Tended
  <2> QED BY <2>4, <2>8 DEF Tidy
<1> QED BY <1>4, <1>5


\* An _update of the short job by the only one who may: its task, or a caller who cancels it.
LEMMA UpdateTidy ==
  ASSUME TypeOK, Books, Books', NEW k \in ShortLane, Tidy(k), NEW p \in Procs, Goes(p), on'[p] = k,
         NEW st \in Terminal \cup {"running"}, NEW rs, Update(p, k, st, rs), ~Bound(k),
         db'[k] = db[k] \/ db'[k] = mem[k],
         \A q \in Procs \ {p} : on[q] = k => upd[q].stage = "none",
         IF p # k THEN st \in Terminal /\ pc[k] \in {"lock", "exit"}
         ELSE IF st = "running" THEN pc'[k] \in {"simple", "report"}
         ELSE pc'[k] \in {"ending", "cancelled"} /\ Status(k) # st
  PROVE  Tidy(k)'
<1> USE StatusesAre
<1>0. k \in Procs /\ k \in Jobs /\ k \notin Resumable
  BY JobsAssumption DEF Procs, Runners
<1>1. \A q \in Procs \ {p} : pc'[q] = pc[q] /\ on'[q] = on[q] /\ upd'[q] = upd[q]
  BY DEF Goes, PlaceGo, RowsGo
<1>2. /\ mem'[k].status = st
      /\ upd'[p].stage = "none" \/ (upd'[p].stage = "write" /\ upd'[p].row = mem'[k])
      /\ Status(k) # st => upd'[p].stage = "write"
  BY <1>0, PlainUpdate
<1>3. ~Bound(k)'
  <2>1. \A c \in Clients : c \in Procs
    BY DEF Procs
  <2>2. "enqueue" \notin {pc[p], pc'[p]}
    BY DEF Goes, PlaceGo
  <2> QED BY <1>1, <2>1, <2>2 DEF Bound
<1>4. mem'[k] # NoRow
  BY <1>2
<1>5. OneWriter(k)'
  BY <1>1, <1>2 DEF OneWriter, Over
<1>6. mem'[k].status \notin Paused /\ db'[k].status \notin Paused
  BY <1>2 DEF Tidy, Tended
<1>7. Tended(k)'
  <2>1. CASE p # k
    <3>1. pc'[k] \in {"lock", "exit"} /\ st \in Terminal
      BY <1>0, <1>1, <2>1
    <3> QED BY <1>2, <1>3, <1>4, <1>6, <3>1 DEF Tended, Live
  <2>2. CASE p = k /\ st = "running"
    BY <1>2, <1>3, <1>4, <1>6, <2>2 DEF Tended, Live
  <2>3. CASE p = k /\ st # "running"
    BY <1>2, <1>3, <1>4, <1>6, <2>3 DEF Tended, Live, Over
  <2> QED BY <2>1, <2>2, <2>3
<1> QED BY <1>5, <1>7 DEF Tidy

\* What the storage does with a write of the short job memory has said already.
LEMMA StorageTidy ==
  ASSUME TypeOK, Books, Outcomes, NEW k \in ShortLane, Tidy(k), NEW p \in Procs, Storage(p)
  PROVE  Tidy(k)'
<1> USE StatusesAre
<1>0. k \in Procs /\ k \in Jobs
  BY JobsAssumption DEF Procs, Runners
<1>1. Goes(p) /\ pc' = pc /\ on' = on
  BY StorageCalm DEF Calm, Storage, Capture, Commit, LoseWrite
<1>2. \A q \in Procs \ {p} : upd'[q] = upd[q]
  BY <1>1 DEF Goes, RowsGo
<1>3. Bound(k)' <=> Bound(k)
  BY <1>1 DEF Bound
<1>4. PICK j \in Jobs : on[p] = j
  BY DEF TypeOK
<1>5. CASE j # k
  <2>1. mem'[k] = mem[k] /\ db'[k] = db[k]
    <3>2. CASE Capture(p)
      BY <1>0, <1>4, <1>5, <3>2 DEF Capture, TypeOK
    <3>3. CASE Commit(p) \/ LoseWrite(p)
      BY <1>0, <1>4, <1>5, <3>3 DEF Commit, LoseWrite, TypeOK
    <3> QED BY <3>2, <3>3 DEF Storage
  <2>2. OneWriter(k)'
    BY <1>1, <1>2, <1>4, <1>5, <2>1 DEF Tidy, OneWriter, Over
  <2>3. k = p => upd[p].stage = "none"
    BY <1>0, <1>4, <1>5 DEF Books, Placed, Silent, Quiet, Resting
  <2>4. upd[p].stage # "none"
    BY DEF Storage, Capture, Commit, LoseWrite
  <2>5. upd'[k] = upd[k]
    BY <1>0, <1>2, <2>3, <2>4
  <2>6. Tended(k)'
    BY <1>1, <1>3, <2>1, <2>5 DEF Tidy, Tended, Live, Over
  <2> QED BY <2>2, <2>6 DEF Tidy
<1>6. CASE j = k
  <2>1. /\ upd[p].stage = "write" /\ mem[k] = upd[p].row
        /\ p # k => Over(mem[k])
        /\ \A q \in Procs \ {p} : on[q] = k => upd[q].stage = "none"
    BY <1>4, <1>6 DEF Tidy, OneWriter, Storage, Capture, Commit, LoseWrite
  <2>2. /\ mem' = mem
        /\ \/ db'[k] = mem[k] /\ upd' = [upd EXCEPT ![p].stage = "written"]
           \/ db'[k] = db[k] /\ upd' = [upd EXCEPT ![p].stage = "lost"]
    <3>1. CASE Capture(p)
      BY <2>1, <3>1 DEF Capture
    <3>2. CASE Commit(p)
      BY <1>0, <1>4, <1>6, <2>1, <3>2 DEF Commit, TypeOK
    <3>3. CASE LoseWrite(p)
      BY <3>3 DEF LoseWrite
    <3> QED BY <3>1, <3>2, <3>3 DEF Storage
  <2>3. upd'[p].row = upd[p].row /\ upd'[p].stage \in {"written", "lost"}
    BY <2>2 DEF TypeOK
  <2>4. upd'[p].stage = "written" => db'[k] = mem[k]
    BY <2>2 DEF TypeOK
  <2>5. OneWriter(k)'
    BY <1>1, <1>2, <2>1, <2>2, <2>3, <2>4 DEF OneWriter, Over
  <2>6. upd[p].row \in Rows /\ mem[k] # NoRow
    <3>1. upd[p].row \in Rows
      BY <2>1 DEF Books, Silent
    <3>2. NoRow \notin Rows
      BY DEF Rows
    <3> QED BY <2>1, <3>1, <3>2
  <2>7. ~Bound(k)
    BY <2>6 DEF Tidy, Tended
  <2>8. upd'[k].stage # "none" \/ upd'[k] = upd[k]
    BY <1>0, <1>2, <2>3
  <2>9. Tended(k)'
    BY <1>1, <1>3, <2>2, <2>6, <2>7, <2>8 DEF Tidy, Tended, Live, Over
  <2> QED BY <2>5, <2>9 DEF Tidy
<1> QED BY <1>5, <1>6

\* The worker has no short job in hand.
LEMMA WorkerElse ==
  ASSUME TypeOK, Books, Outcomes, Lanes, Lanes', WorkerStep, NEW k \in ShortLane, Tidy(k)
  PROVE  Tidy(k)'
<1> USE LabelsAre
<1>0. /\ Worker \in Procs /\ Worker # k /\ k \in Jobs
      /\ "enqueue" \notin RunnerLabels \cup {"get", "exit"}
  BY ProcsAssumption, JobsAssumption DEF Procs, Runners
<1>1. on'[Worker] = k => pc'[Worker] \in {"get", "exit"}
  BY DEF Lanes
<1>2. CASE Take
  <2>1. /\ pc[Worker] = "get" /\ pc'[Worker] \in {"get", "exit", "lock"} /\ UNCHANGED <<mem, db, upd>>
        /\ \A q \in Procs \ {Worker} : pc'[q] = pc[q] /\ on'[q] = on[q] /\ upd'[q] = upd[q]
    BY <1>0, <1>2 DEF Take, GotoOn, Goto, NextLabel, rows, TypeOK
  <2>2. upd'[Worker].stage = "none"
    BY <1>0, <2>1 DEF Books, Silent, Quiet, Resting
  <2> QED BY <1>0, <2>1, <2>2, AsideTidy DEF Aside
<1>3. CASE EnterResumable
  <2>1. /\ pc[Worker] = "lock" /\ pc'[Worker] = "loop" /\ UNCHANGED <<mem, db, upd, on>>
        /\ \A q \in Procs \ {Worker} : pc'[q] = pc[q] /\ on'[q] = on[q] /\ upd'[q] = upd[q]
    BY <1>0, <1>3 DEF EnterResumable, Goto, rows, TypeOK
  <2>2. upd'[Worker].stage = "none"
    BY <1>0, <2>1 DEF Books, Silent, Quiet, Resting
  <2> QED BY <1>0, <2>1, <2>2, AsideTidy DEF Aside
<1>4. CASE OperationStep \/ ResumableStep
  <2>1. Goes(Worker)
    BY <1>4, OperationCalm, ResumableCalm DEF Calm
  <2>2. /\ \A q \in Procs \ {Worker} : pc'[q] = pc[q] /\ on'[q] = on[q] /\ upd'[q] = upd[q]
        /\ pc[Worker] # "enqueue" /\ pc'[Worker] # "enqueue"
        /\ pc'[Worker] \in {"get", "exit"} => upd'[Worker].stage = "none"
    BY <2>1 DEF Goes, PlaceGo, RowsGo, Quiet, Resting
  <2>3. on[Worker] # k /\ on[Worker] \in Jobs
    <3>1. pc[Worker] \notin {"get", "exit"}
      BY <1>4 DEF OperationStep, RunWrites, RunTells, Told, RunReports, RunEnds, ResumableStep, LoopHead, WakeUp,
                  ControlPoint, Complete, Completed, Finalized, Pausing, Breaking, Park, Parked, Unwind, RollBack,
                  Strand, At
    <3> QED BY <1>0, <3>1 DEF Lanes, TypeOK
  <2>4. mem'[k] = mem[k] /\ db' = db
    <3>1. CASE OperationStep
      BY <1>0, <2>3, <3>1, UpdateElse DEF OperationStep, RunWrites, RunTells, Told, RunReports, RunEnds, rows
    <3>2. ASSUME BeginStop(on[Worker]) \/ Begin(on[Worker]) PROVE mem'[k] = mem[k]
      BY <1>0, <2>3, <3>2, UpdateElse DEF BeginStop, Begin
    <3>3. ASSUME LoopHead \/ WakeUp \/ ControlPoint \/ Complete PROVE mem'[k] = mem[k] /\ db' = db
      BY <1>0, <2>3, <3>2, <3>3, UpdateElse DEF LoopHead, WakeUp, ControlPoint, Complete, rows
    <3>4. ASSUME Completed \/ Finalized \/ Parked \/ Strand PROVE mem'[k] = mem[k] /\ db' = db
      BY <1>0, <2>3, <3>4, UpdateElse DEF Completed, Finalized, Parked, Strand, rows
    <3>5. ASSUME Pausing \/ Breaking \/ Unwind \/ RollBack PROVE mem'[k] = mem[k] /\ db' = db
      BY <1>0, <2>3, <3>2, <3>5, UpdateElse DEF Pausing, Breaking, Park, Unwind, RollBack
    <3> QED BY <1>4, <3>1, <3>3, <3>4, <3>5 DEF ResumableStep
  <2>5. on'[Worker] = k => upd'[Worker].stage = "none"
    BY <1>1, <2>2
  <2> QED BY <1>0, <2>2, <2>4, <2>5, AsideTidy DEF Aside
<1> QED BY <1>2, <1>3, <1>4 DEF WorkerStep


\* A caller, or close(), that moves on or updates a resumable job.
LEMMA CallerTidy ==
  ASSUME TypeOK, Books, NEW k \in ShortLane, Tidy(k), NEW p \in Clients \cup {Closer}, Goes(p), db' = db,
         \/ UNCHANGED rows /\ pc[p] \in Quiet
         \/ \E j \in Resumable : on'[p] = j /\ \E st, rs : Update(p, j, st, rs)
  PROVE  Tidy(k)'
<1>0. k \in Jobs /\ k \notin Resumable /\ p \in Procs /\ p # k /\ \A j \in Resumable : j \in Jobs
  BY ProcsAssumption, JobsAssumption DEF Procs, Runners
<1>1. /\ \A q \in Procs \ {p} : pc'[q] = pc[q] /\ on'[q] = on[q] /\ upd'[q] = upd[q]
      /\ pc[p] # "enqueue" /\ pc'[p] # "enqueue"
  BY DEF Goes, PlaceGo, RowsGo
<1>2. CASE UNCHANGED rows /\ pc[p] \in Quiet
  <2>1. mem' = mem /\ upd' = upd /\ upd[p].stage = "none"
    BY <1>0, <1>2 DEF rows, Books, Silent
  <2> QED BY <1>0, <1>1, <2>1, AsideTidy DEF Aside
<1>3. ASSUME NEW j \in Resumable, on'[p] = j, NEW st, NEW rs, Update(p, j, st, rs) PROVE Tidy(k)'
  <2>1. j \in Jobs \ {k}
    BY <1>0
  <2>2. mem'[k] = mem[k]
    BY <1>0, <1>3, <2>1, UpdateElse
  <2> QED BY <1>0, <1>1, <1>3, <2>1, <2>2, AsideTidy DEF Aside
<1> QED BY <1>2, <1>3

\* Dropping a queued job: nobody else has an update of it under way.
LEMMA DropTidy ==
  ASSUME TypeOK, Books, Books', NEW k \in ShortLane, Tidy(k), NEW p \in Clients \cup {Closer}, Goes(p),
         db' = db, NEW j \in Jobs, DropQueued(p, j), j = k => Status(k) = "queued" /\ ~Bound(k)
  PROVE  Tidy(k)'
<1> USE StatusesAre
<1>0. k \in Jobs /\ k \in Procs /\ p \in Procs /\ p # k
  BY ProcsAssumption, JobsAssumption DEF Procs, Runners
<1>1. PICK rs : Update(p, j, "cancelled", rs)
  BY DEF DropQueued
<1>2. on'[p] = j
  BY <1>0 DEF DropQueued, GotoOn, TypeOK
<1>3. CASE j # k
  <2>1. mem'[k] = mem[k]
    BY <1>0, <1>1, <1>3, UpdateElse
  <2>2. /\ \A q \in Procs \ {p} : pc'[q] = pc[q] /\ on'[q] = on[q] /\ upd'[q] = upd[q]
        /\ pc[p] # "enqueue" /\ pc'[p] # "enqueue"
    BY DEF Goes, PlaceGo, RowsGo
  <2> QED BY <1>0, <1>2, <1>3, <2>1, <2>2, AsideTidy DEF Aside
<1>4. CASE j = k
  <2>1. mem[k] # NoRow
    BY <1>4 DEF Tidy, Tended, Status, Row
  <2>2. mem[k].status = "queued"
    BY <1>4, <2>1 DEF Status, Row
  <2>3. pc[k] = "lock"
    BY <2>2 DEF Tidy, Tended, Live
  <2>4. upd[k].stage = "none"
    BY <1>0, <2>3 DEF Books, Silent, Quiet
  <2>5. \A q \in Procs \ {p} : on[q] = k => upd[q].stage = "none"
    BY <2>2, <2>4 DEF Tidy, OneWriter, Over
  <2>6. Update(p, k, "cancelled", rs) /\ on'[p] = k /\ ~Bound(k) /\ "cancelled" \in Terminal \cup {"running"}
    BY <1>1, <1>2, <1>4
  <2> QED BY <1>0, <2>3, <2>5, <2>6, UpdateTidy
<1> QED BY <1>3, <1>4

\* Another runner is on another job.
LEMMA RunnerElse ==
  ASSUME TypeOK, Books, Books', Outcomes, Lanes, Lanes', NEW k \in ShortLane, Tidy(k),
         NEW p \in Runners, p # k, RunnerStep(p)
  PROVE  Tidy(k)'
<1>0. k \in Jobs /\ p \in Procs /\ (p = Worker \/ p \in Jobs) /\ "enqueue" \notin RunnerLabels
  BY JobsAssumption, LabelsAre DEF Procs, Runners
<1>1. Goes(p)
  BY RunnerCalm DEF Calm
<1>2. /\ \A q \in Procs \ {p} : pc'[q] = pc[q] /\ on'[q] = on[q] /\ upd'[q] = upd[q]
      /\ pc[p] # "enqueue" /\ pc'[p] # "enqueue"
  BY <1>1 DEF Goes, PlaceGo, RowsGo
<1>3. on'[p] = k => upd'[p].stage = "none"
  <2>1. on'[p] = k => pc'[p] \in {"get", "exit"}
    BY <1>0 DEF Lanes, Books, Placed
  <2> QED BY <1>0, <2>1 DEF Books, Silent, Quiet, Resting
<1>4. CASE on[p] # k
  <2>1. mem'[k] = mem[k]
    <3>1. \/ UNCHANGED mem
          \/ \E st, rs : Update(p, on[p], st, rs)
          \/ Return(p)
      BY DEF RunnerStep, SkipCancelled, EnterSimple, SimpleStep, Reported, Finish, Cancelled, CancelHandled, rows
    <3>2. on[p] \in Jobs \ {k}
      BY <1>0, <1>4 DEF TypeOK
    <3>3. ASSUME NEW st, NEW rs, Update(p, on[p], st, rs) PROVE mem'[k] = mem[k]
      BY <1>0, <3>2, <3>3, UpdateElse
    <3>4. CASE Return(p)
      BY <1>0, <1>4, <3>4, UpdateElse
    <3> QED BY <3>1, <3>3, <3>4
  <2>2. db'[k] = db[k]
    <3>1. CASE Cancelled(p)
      BY <1>0, <1>4, <3>1 DEF Cancelled, Abandon, TypeOK
    <3>2. CASE ~Cancelled(p)
      BY <3>2 DEF RunnerStep, SkipCancelled, EnterSimple, SimpleStep, Reported, Finish, CancelHandled
    <3> QED BY <3>1, <3>2
  <2> QED BY <1>0, <1>2, <1>3, <2>1, <2>2, AsideTidy DEF Aside
<1>5. CASE on[p] = k
  <2>1. pc[p] \in {"get", "exit"}
    BY <1>0, <1>5 DEF Lanes, Books, Placed
  <2>2. upd[p].stage = "none"
    BY <1>0, <2>1 DEF Books, Silent, Quiet, Resting
  <2>3. Cancelled(p) /\ pc[p] = "get"
    BY <2>1, LabelsAre DEF RunnerStep, SkipCancelled, EnterSimple, SimpleStep, Reported, Finish, Cancelled, CancelHandled
  <2>4. mem' = mem /\ db' = db
    BY <2>2, <2>3 DEF Cancelled, Abandon
  <2> QED BY <1>0, <1>2, <1>3, <2>4, AsideTidy DEF Aside
<1> QED BY <1>4, <1>5


\* The task of a short job: it enters, runs, reports, ends and is cancelled as memory says.
LEMMA RunnerOwn ==
  ASSUME TypeOK, Books, Books', Outcomes, NEW k \in ShortLane, Tidy(k), RunnerStep(k)
  PROVE  Tidy(k)'
<1> USE StatusesAre
<1>0. /\ k \in Procs /\ k \in Jobs /\ k \in Runners /\ k \notin Resumable /\ k # Worker
      /\ \A c \in Clients : c \in Procs
  BY ProcsAssumption, JobsAssumption DEF Procs, Runners
<1>1. Goes(k)
  BY <1>0, RunnerCalm DEF Calm
<1>2. /\ \A q \in Procs \ {k} : pc'[q] = pc[q] /\ on'[q] = on[q] /\ upd'[q] = upd[q]
      /\ pc[k] # "enqueue" /\ pc'[k] # "enqueue"
  BY <1>1 DEF Goes, PlaceGo, RowsGo
<1>3. pc[k] # "exit" /\ on[k] = k /\ pc[k] # "get"
  <2>1. pc[k] # "exit"
    BY DEF RunnerStep, SkipCancelled, EnterSimple, SimpleStep, Reported, Finish, Cancelled, CancelHandled
  <2> QED BY <1>0, <2>1 DEF Books, Placed, Resting
<1>4. ~Bound(k) /\ ~Bound(k)'
  <2>1. ~Bound(k)
    BY <1>3 DEF Bound, Books, Starts
  <2> QED BY <1>0, <1>2, <2>1 DEF Bound
<1>5. NextLabel(k) = "exit"
  BY <1>0 DEF NextLabel
<1>6. \/ Status(k) \notin Terminal
      \/ upd[k].stage # "none"
      => \A q \in Procs \ {k} : on[q] = k => upd[q].stage = "none"
  BY <1>0, <1>3 DEF Tidy, OneWriter, Over, Status, Row
<1>7. mem[k].status = "running" => Status(k) = "running"
  BY DEF Status, Row
<1>8. CASE SkipCancelled(k)
  <2>1. /\ pc[k] = "lock" /\ UNCHANGED <<mem, db, upd>> /\ Status(k) \in Terminal /\ pc'[k] = "exit"
    BY <1>0, <1>3, <1>8 DEF SkipCancelled, GotoOn, Goto, rows, TypeOK
  <2>2. upd[k].stage = "none" /\ ~Live(k)
    BY <1>0, <2>1 DEF Books, Silent, Quiet, Status, Row, Live
  <2>3. OneWriter(k)'
    BY <1>2, <2>1, <2>2 DEF Tidy, OneWriter, Over
  <2>4. Tended(k)'
    BY <1>4, <2>1, <2>2 DEF Tidy, Tended, Live
  <2> QED BY <2>3, <2>4 DEF Tidy
<1>9. CASE EnterSimple(k)
  <2>1. Status(k) \notin Terminal /\ on' = on /\ db' = db
    BY <1>0, <1>3, <1>9 DEF EnterSimple
  <2>2. CASE Goto(k, "simple") /\ Update(k, k, "running", Row(k).reason)
    <3>1. pc'[k] = "simple"
      BY <1>0, <2>2 DEF Goto, TypeOK
    <3> QED BY <1>0, <1>1, <1>3, <1>4, <1>6, <2>1, <2>2, <3>1, UpdateTidy
  <2>3. CASE Goto(k, "ending") /\ Update(k, k, "cancelled", "operation_missing")
    <3>1. pc'[k] = "ending"
      BY <1>0, <2>3 DEF Goto, TypeOK
    <3> QED BY <1>0, <1>1, <1>3, <1>4, <1>6, <2>1, <2>3, <3>1, UpdateTidy
  <2> QED BY <1>3, <1>9, <2>2, <2>3 DEF EnterSimple
<1>10. CASE SimpleStep(k)
  <2>1. pc[k] = "simple" /\ on' = on /\ db' = db
    BY <1>10 DEF SimpleStep
  <2>2. Status(k) = "running"
    BY <1>7, <2>1 DEF Tidy, Tended
  <2>3. CASE UNCHANGED <<rows, pc>>
    BY <2>1, <2>3 DEF rows, Tidy, OneWriter, Tended, Bound, Live, Over
  <2>4. ASSUME NEW rs, Update(k, k, "running", rs), Goto(k, "report") PROVE Tidy(k)'
    <3>1. pc'[k] = "report"
      BY <1>0, <2>4 DEF Goto, TypeOK
    <3> QED BY <1>0, <1>1, <1>3, <1>4, <1>6, <2>1, <2>2, <2>4, <3>1, UpdateTidy
  <2>5. ASSUME NEW st \in {"completed", "failed"}, NEW rs, Update(k, k, st, rs), Goto(k, "ending")
        PROVE  Tidy(k)'
    <3>1. pc'[k] = "ending" /\ st \in Terminal /\ st # "running"
      BY <1>0, <2>5 DEF Goto, TypeOK
    <3> QED BY <1>0, <1>1, <1>3, <1>4, <1>6, <2>1, <2>2, <2>5, <3>1, UpdateTidy
  <2> QED BY <1>3, <1>10, <2>3, <2>4, <2>5 DEF SimpleStep
<1>11. CASE Reported(k)
  <2>1. Return(k) /\ pc[k] = "report" /\ db' = db /\ pc'[k] = "simple"
    BY <1>0, <1>11 DEF Reported, Goto, TypeOK
  <2> QED BY <1>0, <1>1, <2>1, ReturnTidy
<1>12. CASE Finish(k) \/ CancelHandled(k)
  <2>1. Return(k) /\ pc[k] \in {"ending", "cancelled"} /\ db' = db /\ pc'[k] = "exit"
    BY <1>0, <1>5, <1>12 DEF Finish, CancelHandled, Leave, GotoOn, Goto, TypeOK
  <2>2. ~Live(k)
    BY <2>1 DEF Tidy, Tended, Over, Live
  <2> QED BY <1>0, <1>1, <2>1, <2>2, ReturnTidy
<1>13. CASE Cancelled(k)
  <2>1. PICK handled \in HandledIn(k) :
          \/ handled /\ Update(k, k, "cancelled", "shutdown") /\ Goto(k, "cancelled") /\ on' = on
          \/ /\ ~handled /\ mem' = mem /\ upd' = [upd EXCEPT ![k] = NoUpdate] /\ Leave(k)
    BY <1>0, <1>3, <1>13 DEF Cancelled, IsResumable
  <2>2. Abandon(k)
    BY <1>13 DEF Cancelled
  <2>3. \/ /\ upd[k].stage # "none" /\ upd[k].row.status = "completed" /\ handled
        \/ handled = (Status(k) \notin Terminal)
    BY <1>0, <1>3, <2>1 DEF HandledIn, IsResumable, Returned
  <2>4. db'[k] = db[k] \/ db'[k] = mem[k]
    <3>1. upd[k].stage = "write" => mem[k] = upd[k].row
      BY <1>0, <1>3 DEF Tidy, OneWriter
    <3> QED BY <1>0, <1>3, <2>2, <3>1 DEF Abandon, TypeOK
  <2>5. CASE handled
    <3>1. Status(k) # "cancelled" /\ (Status(k) \notin Terminal \/ upd[k].stage # "none")
      <4>1. CASE upd[k].stage # "none" /\ upd[k].row.status = "completed"
        <5>1. mem[k] = upd[k].row
          BY <1>0, <1>3, <4>1 DEF Tidy, OneWriter
        <5> QED BY <4>1, <5>1 DEF Status, Row
      <4> QED BY <2>3, <2>5, <4>1
    <3>2. pc'[k] = "cancelled" /\ on'[k] = k /\ Update(k, k, "cancelled", "shutdown")
      BY <1>0, <1>3, <2>1, <2>5 DEF Goto, TypeOK
    <3>3. "cancelled" \in Terminal \cup {"running"} /\ "cancelled" # "running"
      OBVIOUS
    <3> QED BY <1>0, <1>1, <1>4, <1>6, <2>4, <3>1, <3>2, <3>3, UpdateTidy
  <2>6. CASE ~handled
    <3>1. Status(k) \in Terminal
      BY <2>3, <2>6
    <3>2. mem' = mem /\ upd'[k].stage = "none" /\ pc'[k] = "exit"
      BY <1>0, <1>5, <2>1, <2>6 DEF Leave, GotoOn, Goto, TypeOK
    <3>3. db'[k] = db[k] \/ upd[k].stage = "write"
      BY <2>2 DEF Abandon
    <3>4. OneWriter(k)'
      <4>1. ASSUME NEW p \in Procs, on'[p] = k, upd'[p].stage # "none"
            PROVE  on[p] = k /\ upd'[p] = upd[p] /\ p # k /\ upd[p].stage # "none" /\ db'[k] = db[k]
        <5>1. on[p] = k /\ upd'[p] = upd[p] /\ p # k /\ upd[p].stage # "none"
          BY <1>2, <3>2, <4>1
        <5>2. upd[k].stage = "none"
          BY <1>0, <1>3, <5>1 DEF Tidy, OneWriter
        <5> QED BY <3>3, <5>1, <5>2
      <4> QED BY <3>2, <4>1 DEF Tidy, OneWriter, Over
    <3>5. ~Live(k)
      BY <3>1 DEF Live, Status, Row
    <3>6. mem[k] = NoRow => db'[k] = db[k] /\ db[k].status \in Terminal
      <4>1. upd[k].stage = "write" => mem[k] # NoRow
        <5>1. upd[k].stage = "write" => mem[k] = upd[k].row /\ upd[k].row \in Rows
          BY <1>0, <1>3 DEF Tidy, OneWriter, Books, Silent
        <5>2. NoRow \notin Rows
          BY DEF Rows
        <5> QED BY <5>1, <5>2
      <4> QED BY <3>1, <3>3, <4>1 DEF Status, Row
    <3>7. db'[k].status \notin Paused /\ mem[k].status \notin Paused
      BY <2>4 DEF Tidy, Tended
    <3>8. Tended(k)'
      BY <1>4, <3>2, <3>5, <3>6, <3>7 DEF Tended, Live
    <3> QED BY <3>4, <3>8 DEF Tidy
  <2> QED BY <2>5, <2>6
<1> QED BY <1>8, <1>9, <1>10, <1>11, <1>12, <1>13 DEF RunnerStep


\* Who drained stays drained until the end, and what is not to be cleaned up is not.
LEMMA ClearedStep ==
  ASSUME TypeOK, Books, Outcomes, Cleared, Drained, Next, phase # "down", phase' # "down"
  PROVE  Cleared'
<1>0. /\ Closer \in Procs /\ Worker \in Procs /\ Clients \subseteq Procs /\ Closer \notin Clients
      /\ Worker \in Runners /\ Runners \subseteq Procs
      /\ \A p \in Runners : p \notin Clients \cup {Closer}
  BY ProcsAssumption DEF Procs, Runners
<1>1. ASSUME NEW p \in Runners, \A q \in Procs \ {p} : pc'[q] = pc[q] /\ on'[q] = on[q], phase' = phase
      PROVE  Cleared'
  BY <1>0, <1>1 DEF Cleared
<1>2. ASSUME NEW c \in Clients, \A q \in (Clients \cup {Closer}) \ {c} : pc'[q] = pc[q] /\ on'[q] = on[q],
             phase' = phase, pc[c] # "idle" \/ phase = "open",
             pc'[c] = "clean" => on'[c] \in Cleaning
      PROVE  Cleared'
  BY <1>0, <1>2 DEF Cleared
<1>3. ASSUME Goes(Closer), phase' \in {"closing", "closed"} => \A c \in Clients : pc[c] = "idle",
             pc'[Closer] = "clean" => on'[Closer] \in Cleaning
      PROVE  Cleared'
  <2>1. \A c \in Clients : pc'[c] = pc[c] /\ on'[c] = on[c]
    BY <1>0, <1>3 DEF Goes, PlaceGo
  <2> QED BY <1>0, <1>3, <2>1 DEF Cleared
<1>4. CASE WorkerStep
  <2>1. CASE Take
    <3>1. \A q \in Procs \ {Worker} : pc'[q] = pc[q] /\ on'[q] = on[q]
      BY <2>1 DEF Take, GotoOn, Goto, TypeOK
    <3> QED BY <1>0, <1>1, <2>1, <3>1 DEF Take, life
  <2>2. CASE EnterResumable
    <3>1. \A q \in Procs \ {Worker} : pc'[q] = pc[q] /\ on'[q] = on[q]
      BY <2>2 DEF EnterResumable, Goto, TypeOK
    <3> QED BY <1>0, <1>1, <2>2, <3>1 DEF EnterResumable, life
  <2>3. CASE OperationStep
    <3>1. Goes(Worker)
      BY <2>3, OperationCalm DEF Calm
    <3>2. phase' = phase
      BY <2>3 DEF OperationStep, RunWrites, RunTells, Told, RunReports, RunEnds, life
    <3> QED BY <1>0, <1>1, <3>1, <3>2 DEF Goes, PlaceGo
  <2>4. CASE ResumableStep
    <3>1. Goes(Worker)
      BY <2>4, ResumableCalm DEF Calm
    <3>2. phase' = phase
      BY <2>4 DEF ResumableStep, LoopHead, WakeUp, ControlPoint, Complete, Completed, Finalized, Pausing,
                  Breaking, Park, Parked, Unwind, RollBack, Strand, life
    <3> QED BY <1>0, <1>1, <3>1, <3>2 DEF Goes, PlaceGo
  <2> QED BY <1>4, <2>1, <2>2, <2>3, <2>4 DEF WorkerStep
<1>5. ASSUME NEW p \in Runners, RunnerStep(p) PROVE Cleared'
  <2>1. Goes(p)
    BY <1>5, RunnerCalm DEF Calm
  <2>2. phase' = phase
    BY <1>5 DEF RunnerStep, SkipCancelled, EnterSimple, SimpleStep, Reported, Finish, Cancelled,
                CancelHandled, life
  <2> QED BY <1>1, <2>1, <2>2 DEF Goes, PlaceGo
<1>6. ASSUME NEW c \in Clients, CallBegins(c) \/ CallStep(c) PROVE Cleared'
  <2>0. phase' = phase /\ c \in Procs
    BY <1>0, <1>6 DEF CallBegins, CallStep, Submit, Pause, Stop, Resume, Cancel, Enqueue, Answer, life
  <2>1. ASSUME NEW j \in Jobs, Submit(c, j) PROVE Cleared'
    <3>1. pc'[c] = "enqueue" /\ \A q \in Procs \ {c} : pc'[q] = pc[q] /\ on'[q] = on[q]
      BY <2>0, <2>1 DEF Submit, GotoOn, Goto, TypeOK
    <3> QED BY <1>0, <1>2, <2>0, <2>1, <3>1 DEF Submit
  <2>2. CASE Enqueue(c)
    <3>1. PICK j \in Jobs : on[c] = j
      BY <1>0 DEF TypeOK
    <3>2. c # j /\ j \notin Clients \cup {Closer}
      BY ProcsAssumption
    <3>3. pc'[c] = "idle" /\ \A q \in (Clients \cup {Closer}) \ {c} : pc'[q] = pc[q] /\ on'[q] = on[q]
      <4>0. j \in Procs
        BY DEF Procs, Runners
      <4>1. CASE /\ pc' = [pc EXCEPT ![c] = "idle", ![j] = "lock"]
                 /\ on' = [on EXCEPT ![c] = AnyJob, ![j] = j]
        BY <1>0, <3>2, <4>0, <4>1 DEF TypeOK
      <4>2. CASE GotoOn(c, "idle", AnyJob)
        BY <1>0, <3>2, <4>2 DEF GotoOn, Goto, TypeOK
      <4> QED BY <2>2, <3>1, <4>1, <4>2 DEF Enqueue
    <3> QED BY <1>2, <2>0, <2>2, <3>3 DEF Enqueue
  <2>3. CASE (\E j \in Jobs : Pause(c, j) \/ Stop(c, j) \/ Resume(c, j) \/ Cancel(c, j)) \/ Answer(c)
    <3>1. \A q \in Procs \ {c} : pc'[q] = pc[q] /\ on'[q] = on[q]
      BY <2>3, CallCalm DEF Calm, Goes, PlaceGo
    <3>2. pc[c] # "idle" \/ phase = "open"
      BY <2>3 DEF Pause, Stop, Resume, Cancel, Answer, Listening
    <3>3. pc'[c] = "clean" => on'[c] \in Cleaning
      BY <2>0, <2>3 DEF Pause, Stop, Resume, Cancel, DropQueued, Answer, GotoOn, Goto, TypeOK
    <3> QED BY <1>0, <1>2, <2>0, <3>1, <3>2, <3>3
  <2> QED BY <1>6, <2>1, <2>2, <2>3 DEF CallBegins, CallStep
<1>7. ASSUME NEW p \in Clients \cup {Closer}, CancelStep(p) PROVE Cleared'
  <2>1. /\ Goes(p) /\ phase' = phase /\ pc[p] # "idle" /\ p \in Procs /\ phase \in {"open", "closing"}
    BY <1>0, <1>7, CancelCalm DEF Calm, CancelStep, Cleaned, CancelAnswer, life, Alive
  <2>2. pc'[p] # "clean"
    BY <1>7, <2>1 DEF CancelStep, Cleaned, CancelAnswer, DropQueued, GotoOn, Goto, TypeOK
  <2>3. CASE p \in Clients
    <3>1. \A q \in (Clients \cup {Closer}) \ {p} : pc'[q] = pc[q] /\ on'[q] = on[q]
      BY <1>0, <2>1 DEF Goes, PlaceGo
    <3> QED BY <1>2, <2>1, <2>2, <2>3, <3>1
  <2>4. CASE p = Closer
    BY <1>3, <2>1, <2>2, <2>4 DEF Cleared
  <2> QED BY <2>3, <2>4
<1>8. ASSUME NEW p \in Procs, Storage(p) PROVE Cleared'
  BY <1>8 DEF Storage, Capture, Commit, LoseWrite, life, Cleared
<1>9. CASE (Close \/ CloseStep) /\ ~Closed
  <2>1. Goes(Closer)
    BY <1>9, CloseCalm DEF Calm
  <2>2. phase' \in {"closing", "closed"} => \A c \in Clients : pc[c] = "idle"
    <3>1. CASE Close
      BY <3>1 DEF Close
    <3>2. CASE CloseStep
      <4>1. phase \in {"closing", "closed"} \/ phase' = phase
        BY <1>9, <3>2, PhaseKinds DEF Books, Asleep, CloseStep, StopWaited, SignalShutdown, PauseWaited,
                                     ListQueued, CancelEach, CancelTasks, Alive, life
      <4> QED BY <4>1 DEF Cleared
    <3> QED BY <1>9, <3>1, <3>2
  <2>3. pc'[Closer] = "clean" => on'[Closer] \in Cleaning
    <3>1. CASE Close \/ StopWaited
      BY <1>0, <3>1 DEF Close, StopWaited, Interrupt, GotoOn, Goto, TypeOK
    <3>2. CASE SignalShutdown \/ PauseWaited \/ ListQueued \/ CancelTasks
      BY <1>0, <3>2 DEF SignalShutdown, PauseWaited, ListQueued, CancelTasks, GotoOn, Goto, TypeOK
    <3>3. CASE CancelEach
      <4>1. PICK j \in todo : \/ UNCHANGED pc
                              \/ j \in Cleaning /\ GotoOn(Closer, "clean", j)
                              \/ GotoOn(Closer, "cancel", j)
        BY <3>3 DEF CancelEach, DropQueued
      <4> QED BY <1>0, <3>3, <4>1 DEF CancelEach, GotoOn, Goto, TypeOK
    <3> QED BY <1>9, <3>1, <3>2, <3>3 DEF CloseStep
  <2> QED BY <1>3, <2>1, <2>2, <2>3
<1>10. ~Closed /\ ~Crash /\ ~Recover
  BY DEF Closed, Crash, Down, Recover
<1> QED BY <1>4, <1>5, <1>6, <1>7, <1>8, <1>9, <1>10 DEF Next, CloseStep


\* A submission binds the job it inserts to its caller.
LEMMA SubmitTidy ==
  ASSUME TypeOK, Books, NEW k \in ShortLane, Tidy(k), NEW c \in Clients, NEW j \in Jobs, Submit(c, j)
  PROVE  Tidy(k)'
<1> USE StatusesAre, NewRowIs
<1>0. /\ k \in Procs /\ k \in Jobs /\ c \in Procs /\ c # k /\ \A d \in Clients : d \in Procs
  BY ProcsAssumption, JobsAssumption DEF Procs, Runners
<1>1. /\ db' = [db EXCEPT ![j] = NewRow] /\ mem' = mem /\ upd' = upd /\ pc[c] = "idle" /\ db[j] = NoRow
      /\ pc'[c] = "enqueue" /\ on'[c] = j /\ \A q \in Procs \ {c} : pc'[q] = pc[q] /\ on'[q] = on[q]
  BY <1>0 DEF Submit, GotoOn, Goto, rows, TypeOK
<1>2. upd[c].stage = "none" /\ pc'[k] = pc[k]
  BY <1>0, <1>1 DEF Books, Silent, Quiet, Resting
<1>3. \A q \in Procs : on'[q] = k /\ upd'[q].stage # "none" => on[q] = k
  BY <1>1, <1>2
<1>4. CASE j # k
  <2>1. db'[k] = db[k]
    BY <1>0, <1>1, <1>4 DEF TypeOK
  <2>2. Bound(k)' <=> Bound(k)
    BY <1>0, <1>1, <1>4 DEF Bound
  <2>3. OneWriter(k)'
    BY <1>1, <1>3, <2>1 DEF Tidy, OneWriter, Over
  <2>4. Tended(k)'
    BY <1>1, <1>2, <2>1, <2>2 DEF Tidy, Tended, Live, Over
  <2> QED BY <2>3, <2>4 DEF Tidy
<1>5. CASE j = k
  <2>1. mem[k] = NoRow /\ NoRow \notin Rows
    BY <1>0, <1>1, <1>5 DEF Books, Known, Rows
  <2>2. \A q \in Procs : on[q] = k => upd[q].stage = "none"
    BY <2>1 DEF Tidy, OneWriter, Books, Silent
  <2>3. OneWriter(k)'
    BY <1>1, <1>3, <2>2 DEF OneWriter
  <2>4. db'[k] = NewRow /\ Bound(k)'
    BY <1>0, <1>1, <1>5 DEF Bound, TypeOK
  <2>5. pc[k] \notin {"simple", "report", "ending", "cancelled"}
    BY <2>1 DEF Tidy, Tended, Over
  <2>6. mem'[k].status \notin Paused /\ db'[k].status \notin Paused
    <3>1. NewRow.status \notin Paused /\ NoRow.status \notin Paused
      OBVIOUS
    <3> QED BY <1>1, <2>1, <2>4, <3>1, Zenon
  <2>7. Tended(k)'
    BY <1>1, <1>2, <2>1, <2>4, <2>5, <2>6 DEF Tended, Live
  <2> QED BY <2>3, <2>7 DEF Tidy
<1> QED BY <1>4, <1>5

\* The job that was inserted gets its snapshot and its task.
LEMMA EnqueueTidy ==
  ASSUME TypeOK, Books, NEW k \in ShortLane, Tidy(k), NEW c \in Clients, Enqueue(c)
  PROVE  Tidy(k)'
<1> USE StatusesAre, NewRowIs
<1>0. /\ k \in Procs /\ k \in Jobs /\ c \in Procs /\ c # k /\ \A d \in Clients : d \in Procs /\ d \notin Jobs
  BY ProcsAssumption, JobsAssumption DEF Procs, Runners
<1>1. PICK j \in Jobs : on[c] = j
  BY <1>0 DEF TypeOK
<1>2. /\ pc[c] = "enqueue" /\ mem' = [mem EXCEPT ![j] = NewRow] /\ db' = db /\ upd' = upd
      /\ j \in ShortLane => pc[j] = "exit"
      /\ \A d \in Clients : pc[d] = "enqueue" => d = c
  BY <1>1 DEF Enqueue, Books, Starts
<1>3. /\ j \in Procs /\ j # c /\ upd[c].stage = "none"
      /\ j \in ShortLane => upd[j].stage = "none"
  BY <1>0, <1>2 DEF Procs, Runners, Books, Silent, Quiet, Resting
<1>4. /\ pc'[c] = "idle" /\ on'[c] = AnyJob
      /\ IF j \in ShortLane THEN pc'[j] = "lock" /\ on'[j] = j ELSE pc'[j] = pc[j] /\ on'[j] = on[j]
      /\ \A q \in Procs \ {c, j} : pc'[q] = pc[q] /\ on'[q] = on[q]
  <2>1. CASE j \in ShortLane
    <3>1. pc' = [pc EXCEPT ![c] = "idle", ![j] = "lock"] /\ on' = [on EXCEPT ![c] = AnyJob, ![j] = j]
      BY <1>1, <2>1 DEF Enqueue
    <3> QED BY <1>0, <1>3, <2>1, <3>1 DEF TypeOK
  <2>2. CASE j \notin ShortLane
    <3>1. GotoOn(c, "idle", AnyJob)
      BY <1>1, <2>2 DEF Enqueue
    <3> QED BY <1>0, <1>3, <2>2, <3>1 DEF GotoOn, Goto, TypeOK
  <2> QED BY <2>1, <2>2
<1>5. \A q \in Procs : on'[q] = k /\ upd'[q].stage # "none" => on[q] = k
  <2>1. ASSUME NEW q \in Procs, on'[q] = k, upd'[q].stage # "none" PROVE on[q] = k
    <3>1. q # c /\ (q = j => j \notin ShortLane)
      BY <1>2, <1>3, <2>1
    <3> QED BY <1>4, <2>1, <3>1
  <2> QED BY <2>1
<1>6. \A d \in Clients : pc'[d] # "enqueue"
  BY <1>0, <1>2, <1>4
<1>7. ~Bound(k)'
  BY <1>6 DEF Bound
<1>8. CASE j # k
  <2>1. mem'[k] = mem[k] /\ db'[k] = db[k]
    BY <1>0, <1>2, <1>8 DEF TypeOK
  <2>2. pc'[k] = pc[k]
    BY <1>0, <1>4, <1>8
  <2>3. ~Bound(k)
    BY <1>1, <1>2, <1>8 DEF Bound
  <2>4. OneWriter(k)'
    <3>1. ASSUME NEW q \in Procs, on'[q] = k, upd[q].stage # "none" PROVE on[q] = k
      BY <1>2, <1>5, <3>1
    <3> QED BY <1>2, <2>1, <3>1 DEF Tidy, OneWriter, Over
  <2>5. Tended(k)'
    BY <1>2, <1>7, <2>1, <2>2, <2>3 DEF Tidy, Tended, Live, Over
  <2> QED BY <2>4, <2>5 DEF Tidy
<1>9. CASE j = k
  <2>1. mem[k] = NoRow
    BY <1>1, <1>2, <1>9 DEF Tidy, Tended, Bound
  <2>2. NoRow \notin Rows
    BY DEF Rows
  <2>3. \A q \in Procs : on[q] = k => upd[q].stage = "none"
    BY <2>1, <2>2 DEF Tidy, OneWriter, Books, Silent
  <2>4. OneWriter(k)'
    BY <1>2, <1>5, <2>3 DEF OneWriter
  <2>5. mem'[k] = NewRow /\ pc'[k] = "lock"
    BY <1>0, <1>2, <1>4, <1>9 DEF TypeOK
  <2>6. mem'[k].status \notin Paused /\ db'[k].status \notin Paused
    <3>1. NewRow.status \notin Paused
      OBVIOUS
    <3>2. db[k].status \notin Paused
      BY DEF Tidy, Tended
    <3> QED BY <1>2, <2>5, <3>1, <3>2, Zenon
  <2>7. Tended(k)'
    BY <1>7, <2>5, <2>6 DEF Tended, Live
  <2> QED BY <2>4, <2>7 DEF Tidy
<1> QED BY <1>8, <1>9

\* The calls, their answers and close: none has a short job in hand but to drop it.
LEMMA CallsTidy ==
  ASSUME Alone, TypeOK, Books, Books', NEW k \in ShortLane, Tidy(k), NEW c \in Clients,
         CallBegins(c) \/ CallStep(c)
  PROVE  Tidy(k)'
<1>0. /\ k \in Jobs /\ c \in Procs /\ c # k /\ c \in Clients \cup {Closer}
  BY ProcsAssumption, JobsAssumption DEF Procs, Runners
<1>1. ASSUME NEW j \in Jobs, Pause(c, j) \/ Stop(c, j) \/ Resume(c, j) PROVE Tidy(k)'
  <2>1. Goes(c)
    BY <1>1, CallCalm DEF Calm
  <2>2. /\ j \in Resumable /\ on'[c] = j /\ db' = db
        /\ \E st, rs : Update(c, j, st, rs)
    BY <1>0, <1>1 DEF Pause, Stop, Resume, IsResumable, GotoOn, TypeOK
  <2> QED BY <1>0, <2>1, <2>2, CallerTidy
<1>2. ASSUME NEW j \in Jobs, Cancel(c, j) PROVE Tidy(k)'
  <2>1. Goes(c)
    BY <1>2, CallCalm DEF Calm
  <2>2. db' = db /\ pc[c] = "idle" /\ Status(j) = "queued" /\ "cancel" \in Calls
    BY <1>2 DEF Cancel
  <2>3. ~Bound(k)
    BY <2>2 DEF Bound, Alone
  <2>4. CASE UNCHANGED rows
    BY <1>0, <2>1, <2>2, <2>4, CallerTidy DEF Quiet, Resting
  <2>5. CASE DropQueued(c, j)
    BY <1>0, <2>1, <2>2, <2>3, <2>5, DropTidy
  <2> QED BY <1>2, <2>4, <2>5 DEF Cancel
<1>3. CASE Answer(c)
  <2>1. Goes(c)
    BY <1>3, CallCalm DEF Calm
  <2>2. db' = db /\ Return(c)
    BY <1>3 DEF Answer
  <2> QED BY <1>0, <2>1, <2>2, ReturnTidy
<1> QED BY <1>1, <1>2, <1>3, SubmitTidy, EnqueueTidy DEF CallBegins, CallStep

\* The clean-up and the answer of a cancellation.
LEMMA CancelTidy ==
  ASSUME Cleared, TypeOK, Books, Books', NEW k \in ShortLane, Tidy(k), NEW p \in Clients \cup {Closer},
         CancelStep(p)
  PROVE  Tidy(k)'
<1>0. /\ k \in Jobs /\ k \notin Resumable /\ p \in Procs /\ p # k /\ on[p] \in Jobs
  BY ProcsAssumption, JobsAssumption DEF Procs, Runners, TypeOK
<1>1. Goes(p)
  BY CancelCalm DEF Calm
<1>2. CASE Cleaned(p)
  <2>1. db' = db /\ DropQueued(p, on[p]) /\ on[p] \in Cleaning
    BY <1>2 DEF Cleaned, Cleared
  <2>2. on[p] # k
    BY <1>0, <2>1, JobsAssumption
  <2> QED BY <1>0, <1>1, <2>1, <2>2, DropTidy
<1>3. CASE CancelAnswer(p)
  <2>1. db' = db /\ Return(p)
    BY <1>3 DEF CancelAnswer
  <2> QED BY <1>0, <1>1, <2>1, ReturnTidy
<1> QED BY <1>2, <1>3 DEF CancelStep

\* close interrupts a resumable job and cancels what is queued.
LEMMA CloseTidy ==
  ASSUME Cleared, TypeOK, Books, Books', NEW k \in ShortLane, Tidy(k), Close \/ CloseStep, ~Closed
  PROVE  Tidy(k)'
<1>0. /\ k \in Jobs /\ Closer \in Procs /\ Closer # k /\ Closer \in Clients \cup {Closer}
      /\ on[Closer] \in Jobs /\ on[Worker] \in Jobs /\ Worker \in Procs
  BY ProcsAssumption, JobsAssumption DEF Procs, Runners, TypeOK
<1>1. Goes(Closer)
  BY CloseCalm DEF Calm
<1>2. db' = db
  BY DEF Close, CloseStep, StopWaited, SignalShutdown, PauseWaited, ListQueued, CancelEach, CancelTasks
<1>3. ASSUME UNCHANGED rows, pc[Closer] \in Quiet PROVE Tidy(k)'
  BY <1>0, <1>1, <1>2, <1>3, CallerTidy
<1>4. ASSUME NEW j \in Jobs, Interrupt(j), pc[Closer] \in Quiet PROVE Tidy(k)'
  <2>1. CASE UNCHANGED rows
    BY <1>3, <1>4, <2>1
  <2>2. CASE j \in Resumable /\ Update(Closer, j, "pausing", "shutdown") /\ GotoOn(Closer, "signal", j)
    <3>1. on'[Closer] = j
      BY <1>0, <2>2 DEF GotoOn, TypeOK
    <3> QED BY <1>0, <1>1, <1>2, <2>2, <3>1, CallerTidy
  <2> QED BY <1>4, <2>1, <2>2 DEF Interrupt, IsResumable
<1>5. {"idle", "stopwait", "pausewait", "list", "each"} \subseteq Quiet
  BY DEF Quiet, Resting
<1>6. CASE Close
  <2>1. pc[Closer] \in Quiet
    BY <1>5, <1>6 DEF Close, Books, Asleep
  <2> QED BY <1>0, <1>3, <1>4, <1>6, <2>1 DEF Close
<1>7. CASE StopWaited
  BY <1>0, <1>4, <1>5, <1>7 DEF StopWaited
<1>8. CASE SignalShutdown
  <2>1. Return(Closer)
    BY <1>8 DEF SignalShutdown
  <2> QED BY <1>0, <1>1, <1>2, <2>1, ReturnTidy
<1>9. CASE PauseWaited \/ ListQueued \/ CancelTasks
  BY <1>3, <1>5, <1>9 DEF PauseWaited, ListQueued, CancelTasks
<1>10. CASE CancelEach
  <2>1. PICK j \in todo : UNCHANGED rows \/ (Status(j) = "queued" /\ DropQueued(Closer, j))
    BY <1>10 DEF CancelEach
  <2>2. j \in Jobs /\ pc[Closer] = "each" /\ pc[Closer] \in Quiet
    BY <1>5, <1>10 DEF TypeOK, CancelEach
  <2>3. phase \in {"closing", "closed"}
    BY <2>2 DEF Books, Asleep, TypeOK
  <2>4. ~Bound(k)
    BY <2>3 DEF Cleared, Bound
  <2>5. CASE Status(j) = "queued" /\ DropQueued(Closer, j)
    BY <1>0, <1>1, <1>2, <2>2, <2>4, <2>5, DropTidy
  <2> QED BY <1>3, <2>1, <2>2, <2>5
<1> QED BY <1>6, <1>7, <1>8, <1>9, <1>10 DEF CloseStep


\* Every step while the process runs keeps the short lane tidy.
LEMMA TidyStep ==
  ASSUME Alone, TypeOK, Books, Books', Outcomes, ShortLanes, Lanes', Next, phase # "down", phase' # "down",
         NEW k \in ShortLane
  PROVE  Tidy(k)'
<1>0. Tidy(k) /\ Lanes /\ Cleared
  BY DEF ShortLanes
<1>1. CASE WorkerStep
  BY <1>0, <1>1, WorkerElse
<1>2. ASSUME NEW p \in Runners, RunnerStep(p) PROVE Tidy(k)'
  BY <1>0, <1>2, RunnerElse, RunnerOwn
<1>3. ASSUME NEW c \in Clients, CallBegins(c) \/ CallStep(c) PROVE Tidy(k)'
  BY <1>0, <1>3, CallsTidy
<1>4. ASSUME NEW p \in Clients \cup {Closer}, CancelStep(p) PROVE Tidy(k)'
  BY <1>0, <1>4, CancelTidy
<1>5. ASSUME NEW p \in Procs, Storage(p) PROVE Tidy(k)'
  BY <1>0, <1>5, StorageTidy
<1>6. ~Closed /\ ~Crash /\ ~Recover
  BY DEF Closed, Crash, Down, Recover
<1>7. CASE Close \/ CloseStep
  BY <1>0, <1>6, <1>7, CloseTidy
<1> QED BY <1>1, <1>2, <1>3, <1>4, <1>5, <1>6, <1>7 DEF Next

\* A restart ends every short job in the table, and none is begun.
LEMMA RecoverTidy ==
  ASSUME TypeOK, Books, Lanes, Idle, ShortLanes, Recover
  PROVE  Cleared' /\ \A k \in ShortLane : Tidy(k)'
<1> USE StatusesAre
<1>1. /\ phase = "down" /\ phase' = "open" /\ upd' = upd /\ pc' = [pc EXCEPT ![Worker] = "get"]
      /\ \A k \in ShortLane : mem'[k] = NoRow /\ db'[k] = Recovered(db[k], IsResumable(k))
  BY JobsAssumption DEF Recover, Goto
<1>2. \A p \in Procs : pc'[p] \in {"idle", "exit", "get"} /\ upd'[p].stage = "none"
  <2>1. \A p \in Procs : pc'[p] \in {"idle", "exit", "get"}
    BY <1>1 DEF Books, Asleep, TypeOK
  <2>2. upd = [p \in Procs |-> NoUpdate]
    BY <1>1 DEF Idle, Cold
  <2> QED BY <1>1, <2>1, <2>2
<1>3. \A c \in Clients \cup {Closer} : c \in Procs
  BY DEF Procs
<1>4. Cleared'
  BY <1>1, <1>2, <1>3 DEF Cleared
<1>5. ASSUME NEW k \in ShortLane PROVE Tidy(k)'
  <2>0. k \in Jobs /\ k \in Procs /\ db[k].status \notin Paused
    BY <1>1, JobsAssumption DEF ShortLanes, Procs, Runners
  <2>1. db[k] \in Rows \cup {NoRow}
    BY <2>0 DEF TypeOK
  <2>2. db'[k].status \notin Active
    <3>1. CASE db[k].status \in {"queued", "running", "pausing", "stopping"}
      <4>1. db[k] \in Rows /\ ~IsResumable(k)
        BY <2>0, <2>1, <3>1, JobsAssumption DEF IsResumable
      <4>2. PICK rs : Recovered(db[k], IsResumable(k)) = [db[k] EXCEPT !.status = "cancelled", !.reason = rs]
        <5>1. CASE db[k].status = "queued"
          BY <5>1, Zenon DEF Recovered
        <5>2. CASE db[k].status \in {"running", "pausing", "stopping"}
          BY <4>1, <5>2 DEF Recovered
        <5> QED BY <3>1, <5>1, <5>2
      <4> QED BY <1>1, <4>1, <4>2 DEF Rows
    <3>2. CASE db[k].status \notin {"queued", "running", "pausing", "stopping"}
      <4>1. Recovered(db[k], IsResumable(k)) = db[k]
        BY <3>2 DEF Recovered
      <4> QED BY <1>1, <2>0, <3>2, <4>1
    <3> QED BY <3>1, <3>2
  <2>3. OneWriter(k)'
    BY <1>2 DEF OneWriter
  <2>4. ~Bound(k)' /\ ~Live(k)'
    BY <1>1, <1>2, <1>3 DEF Bound, Live
  <2>5. Tended(k)'
    BY <1>1, <1>2, <2>0, <2>2, <2>4 DEF Tended
  <2> QED BY <2>3, <2>5 DEF Tidy
<1> QED BY <1>4, <1>5

\* The short lane stays in order over every step.
LEMMA ShortLanesStep ==
  ASSUME Alone, TypeOK, Books, Outcomes, ShortLanes, [Next]_vars
  PROVE  ShortLanes'
<1>1. TypeOK' /\ Books'
  BY TypeStep, OutcomesStep
<1>2. CASE UNCHANGED vars
  <2>1. UNCHANGED <<mem, db, upd, queue, ops, request, why, pc, on, phase, crashes>>
    BY <1>2 DEF vars
  <2>2. \A k \in ShortLane : Tidy(k) => Tidy(k)'
    BY <2>1 DEF Tidy, OneWriter, Tended, Over, Live, Bound
  <2>3. Cleared' /\ Lanes' /\ Idle'
    BY <2>1 DEF ShortLanes, Cleared, Lanes, Idle
  <2> QED BY <2>1, <2>2, <2>3 DEF ShortLanes
<1>3. CASE Recover
  <2>1. Lanes'
    BY <1>1, <1>3, RecoverOpen DEF ShortLanes
  <2>2. Idle' /\ crashes' = crashes /\ phase' # "down"
    BY <1>3 DEF Recover, Idle
  <2>3. Cleared' /\ \A k \in ShortLane : Tidy(k)'
    BY <1>3, RecoverTidy DEF ShortLanes
  <2> QED BY <2>1, <2>2, <2>3 DEF ShortLanes
<1>4. CASE Next /\ phase' = "down"
  <2>1. Down
    BY <1>4, PhaseStep
  <2>2. Lanes' /\ Idle' /\ db' = db
    BY <2>1, DownIdle
  <2>3. crashes' \in Nat
    BY <1>4, EndKinds DEF Crash, ShortLanes
  <2>4. \A k \in ShortLane : db[k].status \notin Paused
    BY DEF ShortLanes, Tidy, Tended
  <2>5. Cleared'
    <3>1. \A p \in Clients \cup {Closer} : p \in Procs
      BY DEF Procs
    <3>2. \A p \in Clients \cup {Closer} : pc'[p] \in {"idle", "exit"}
      BY <2>1, <3>1 DEF Down, Cold, RestLabel
    <3> QED BY <1>4, <3>2 DEF Cleared
  <2> QED BY <1>4, <2>2, <2>3, <2>4, <2>5 DEF ShortLanes
<1>5. CASE Next /\ ~Recover /\ phase' # "down"
  <2>1. phase # "down"
    BY <1>5, PhaseStep
  <2>2. Lanes'
    BY <1>5, LanesStep DEF ShortLanes
  <2>3. crashes' \in Nat
    <3>1. crashes' = crashes \/ crashes' = crashes + 1
      BY <1>5, EndKinds DEF Crash
    <3> QED BY <3>1 DEF ShortLanes
  <2>4. Cleared'
    BY <1>5, <2>1, ClearedStep DEF Alone, ShortLanes
  <2>5. \A k \in ShortLane : Tidy(k)'
    BY <1>1, <1>5, <2>1, <2>2, TidyStep
  <2>6. Idle'
    BY <1>5 DEF Idle
  <2> QED BY <1>5, <2>2, <2>3, <2>4, <2>5, <2>6 DEF ShortLanes
<1> QED BY <1>2, <1>3, <1>4, <1>5

\* An orderly shutdown leaves every short job with an outcome: the task of each is cancelled and
\* says so before the process ends, whatever writes fail, if the server drains first and no two
\* callers meet at a job they cancel.
THEOREM ShortJobsSettle ==
  ASSUME Alone
  PROVE  Spec => ShutdownSettlesShortJobs
<1> USE StatusesAre
<1>1. Init => ShortLanes
  <2> SUFFICES ASSUME Init PROVE ShortLanes
    OBVIOUS
  <2>1. Lanes /\ Idle /\ crashes \in Nat
    BY ManagerInit DEF Manager, Init
  <2>2. /\ \A k \in Jobs : db[k] = NoRow /\ mem[k] = NoRow
        /\ \A p \in Procs : upd[p].stage = "none"
        /\ phase = "open" /\ pc = [Cold.pc EXCEPT ![Worker] = "get"]
    BY DEF Init, Cold
  <2>3. \A p \in Procs : pc[p] \in {"idle", "exit", "get"}
    BY <2>2 DEF Cold, RestLabel
  <2>4. \A c \in Clients \cup {Closer} : c \in Procs
    BY DEF Procs
  <2>5. Cleared
    BY <2>2, <2>3, <2>4 DEF Cleared
  <2>6. ASSUME NEW k \in ShortLane PROVE Tidy(k)
    <3>1. k \in Jobs /\ k \in Procs
      BY JobsAssumption DEF Procs, Runners
    <3>2. ~Bound(k) /\ ~Live(k)
      BY <2>2, <2>3, <2>4, <3>1 DEF Bound, Live
    <3>3. OneWriter(k)
      BY <2>2 DEF OneWriter
    <3>4. Tended(k)
      BY <2>2, <2>3, <3>1, <3>2 DEF Tended
    <3> QED BY <3>3, <3>4 DEF Tidy
  <2> QED BY <2>1, <2>2, <2>5, <2>6 DEF ShortLanes
<1>2. TypeOK /\ Books /\ Outcomes /\ ShortLanes /\ [Next]_vars => ShortLanes'
  BY ShortLanesStep
<1>3. /\ TypeOK /\ Books /\ Outcomes /\ ShortLanes /\ [Next]_vars
      => [phase = "closed" /\ phase' = "down" /\ crashes' = crashes
            => \A j \in ShortLane : Status(j) \in Terminal \cup {"absent"}]_vars
  <2> SUFFICES ASSUME TypeOK, ShortLanes, Next, phase = "closed", phase' = "down", crashes' = crashes,
                      NEW k \in ShortLane
               PROVE  Status(k) \in Terminal \cup {"absent"}
    OBVIOUS
  <2>1. ~Crash
    BY DEF Crash, ShortLanes
  <2>2. Closed
    BY <2>1, EndKinds
  <2>3. k \in Jobs /\ k \in Runners /\ Tidy(k) /\ Cleared
    BY JobsAssumption DEF Runners, ShortLanes
  <2>4. pc[k] = "exit" /\ \A c \in Clients : pc[c] = "idle"
    BY <2>2, <2>3 DEF Closed, Cleared
  <2>5. ~Live(k) /\ ~Bound(k)
    BY <2>3, <2>4 DEF Tidy, Tended, Bound
  <2>6. mem[k] \in Rows \cup {NoRow} /\ db[k] \in Rows \cup {NoRow}
    BY <2>3 DEF TypeOK
  <2>7. CASE mem[k] = NoRow
    <3>1. db[k].status \notin Active
      BY <2>3, <2>5, <2>7 DEF Tidy, Tended
    <3> QED BY <2>6, <2>7, <3>1 DEF Status, Row, Rows
  <2>8. CASE mem[k] # NoRow
    BY <2>5, <2>6, <2>8 DEF Live, Status, Row, Rows
  <2> QED BY <2>7, <2>8
<1> QED BY <1>1, <1>2, <1>3, BooksAndOutcomes, PTL DEF Spec, ShutdownSettlesShortJobs


=============================================================================
