----------------------------- MODULE JobManager -----------------------------
(***************************************************************************)
(* The task manager of personalityrag/jobs.py: one asyncio event loop, one *)
(* queue worker for resumable and long jobs, one coroutine per short job,  *)
(* API calls that pause, resume, stop and cancel, and an orderly shutdown. *)
(*                                                                         *)
(* A process is a coroutine.  Between two awaits that really suspend it a  *)
(* coroutine is atomic, so an action is one such segment.  The label pc[p] *)
(* names the await p is suspended at.  A snapshot in memory and the row of *)
(* the database are two copies of a job; _update changes the first at once *)
(* and the second when its write commits, which is an action of its own.   *)
(*                                                                         *)
(* An operator that no action uses is a faulty variant of the definition   *)
(* after it, kept to show which property would notice that fault.          *)
(***************************************************************************)
EXTENDS Naturals, Sequences, FiniteSets

CONSTANTS
  Jobs,            \* jobs that may be submitted
  Clients,         \* concurrent API calls
  Databases,       \* resource keys ("__global__" for a job without one)
  DatabaseOf,      \* the resource key of a job
  KindOf,          \* the kind of a job
  Resumable,       \* jobs started with start_resumable
  ShortLane,       \* non-resumable jobs of a kind whose lane is "short"
  Compared,        \* resumable jobs of a kind with database_state_comparison
  Cleaning,        \* resumable jobs whose cancel_queued suspends
  Calls,           \* API calls the clients make
  Worker,          \* the queue worker
  Closer,          \* the coroutine that runs close()
  Free,            \* a lock nobody holds
  CommitInOrder,   \* writes of one row commit in the order they were issued
  WriteMayFail,    \* a write of a row may raise (it is logged and dropped)
  RollbackMayFail, \* an operation's rollback may raise
  MayClose,        \* the service may shut down in an orderly way
  Drained,         \* the HTTP server answers its calls before close() begins
  MaxCrashes       \* bound on crashes of the process

Runners == Jobs \cup {Worker}
Procs   == Runners \cup Clients \cup {Closer}

Terminal == {"completed", "failed", "stopped", "cancelled"}
Paused   == {"paused", "interrupted"}
Active   == {"queued", "running", "pausing", "stopping"} \cup Paused
Reasons  == {"", "manual", "shutdown", "resume_requested", "provider",
             "rollback_failed", "operation_failed", "operation_missing",
             "manager_error", "process_interrupted"}

Rows     == [status : Active \cup Terminal, reason : Reasons, started : BOOLEAN]
NoRow    == [status |-> "absent", reason |-> "", started |-> FALSE]
NoUpdate == [stage |-> "none", row |-> NoRow]

\* Labels at which a runner holds the execution lock of its database.
OperationLabels == {"run", "told", "point"}
ResumableLabels == {"loop", "wait", "pausing", "parked", "breaking",
                    "finishing", "completed", "finalizing", "unwinding",
                    "stopping", "stranded"}
SimpleLabels    == {"simple", "report"}
HoldLabels      == OperationLabels \cup ResumableLabels \cup SimpleLabels
                     \cup {"ending"}
RunnerLabels    == HoldLabels \cup {"get", "lock", "exit", "cancelled"}
CallLabels      == {"idle", "enqueue", "pause", "resume", "stop",
                    "clean", "cancel"}
CloseLabels     == {"idle", "stopwait", "signal", "pausewait", "list",
                    "each", "clean", "cancel", "gather"}
Labels          == RunnerLabels \cup CallLabels \cup CloseLabels

ASSUME JobsAssumption ==
  /\ DatabaseOf \in [Jobs -> Databases]
  /\ Resumable \subseteq Jobs
  /\ ShortLane \subseteq Jobs \ Resumable
  /\ Compared \subseteq Resumable
  /\ Cleaning \subseteq Resumable
  /\ Jobs # {} /\ IsFiniteSet(Jobs)

ASSUME ProcsAssumption ==
  /\ Worker \notin Jobs \cup Clients \cup {Closer}
  /\ Closer \notin Jobs \cup Clients
  /\ Jobs \cap Clients = {}
  /\ Free \notin Procs

ASSUME SwitchAssumption ==
  /\ MaxCrashes \in Nat
  /\ {CommitInOrder, WriteMayFail, RollbackMayFail, MayClose, Drained} \subseteq BOOLEAN

VARIABLES
  mem,       \* _snapshots: the job as the event loop sees it
  db,        \* the rows of the jobs table
  born,      \* created_at of the resumable jobs, as their rank
  upd,       \* the _update a process is suspended in
  ahead,     \* of each process, the others whose earlier write of the same row is in flight
  queue,     \* _queue
  ops,       \* _operations: closures of non-resumable jobs not yet taken
  request,   \* _control_requests
  event,     \* _control_events: latched wake-ups
  why,       \* the reason carried by the JobPauseRequested being handled
  tlock,     \* _transition_locks
  xlock,     \* _database_execution_locks
  startLock, \* _start_lock
  pc, on,    \* where each process is, and the job it works on
  phase,     \* open, closing (_closing), closed (_closed) or down
  todo,      \* queued jobs close() still has to cancel
  crashes,   \* crashes so far
  data       \* the target database of a job: clean, dirty or done

rows    == <<mem, upd, ahead>>
locks   == <<tlock, xlock, startLock>>
signals == <<request, event>>
life    == <<phase, todo, crashes>>
work    == <<queue, ops, born>>
vars    == <<mem, db, born, upd, ahead, queue, ops, request, event, why, tlock,
             xlock, startLock, pc, on, phase, todo, crashes, data>>

Listening == phase = "open" \/ (phase = "closing" /\ ~Drained)
AnyJob  == CHOOSE j \in Jobs : TRUE
Alive   == phase \in {"open", "closing"}
Row(j)  == IF mem[j] # NoRow THEN mem[j] ELSE db[j]
Status(j) == Row(j).status
IsResumable(j) == j \in Resumable

\* The job the queue worker is serving (_current_job_id), if any.
Serving(j) == pc[Worker] \in RunnerLabels \ {"get", "exit"} /\ on[Worker] = j

Goto(p, l)     == pc' = [pc EXCEPT ![p] = l]
GotoOn(p, l, j) == Goto(p, l) /\ on' = [on EXCEPT ![p] = j]

-----------------------------------------------------------------------------
\* _update and the two stages a caller may be suspended in.

\* The write of p is no longer in flight.
Behind(p) == [q \in Procs |-> IF q = p THEN {} ELSE ahead[q] \ {p}]

Issue(p, j, row) ==
  /\ upd'   = [upd EXCEPT ![p] = [stage |-> "write", row |-> row]]
  /\ ahead' = [Behind(p) EXCEPT ![p] =
                 {q \in Procs \ {p} : CommitInOrder /\ on[q] = j /\ upd[q].stage = "write"}]

\* A state-comparison kind awaits its provider before the change is applied, when
\* execution begins and when a started job becomes terminal.  The state before is
\* captured once: a second time only if its provider failed.
MayCapture(j, st) ==
  /\ j \in Compared
  /\ \/ st = "running" /\ Status(j) \in {"queued"} \cup Paused
     \/ st \in Terminal /\ Status(j) \notin Terminal /\ Row(j).started

MustCapture(j, st) == MayCapture(j, st) /\ (st = "running" => ~Row(j).started)

Update(p, j, st, rs) ==
  LET row == [status  |-> st, reason |-> rs,
              started |-> Row(j).started \/ st = "running"]
  IN \/ /\ <<Status(j), Row(j).reason>> # <<st, rs>>
        /\ MayCapture(j, st)
        /\ mem' = [mem EXCEPT ![j] = [Row(j) EXCEPT !.started = row.started]]
        /\ upd' = [upd EXCEPT ![p] = [stage |-> "capture", row |-> row]]
        /\ ahead' = Behind(p)
     \/ /\ <<Status(j), Row(j).reason>> # <<st, rs>>
        /\ ~MustCapture(j, st)
        /\ mem' = [mem EXCEPT ![j] = row]
        /\ Issue(p, j, row)
     \* only the message, the progress or the checkpoint differ, or nothing:
     \* throttled and skipped, or written with the rest of the snapshot
     \/ /\ <<Status(j), Row(j).reason>> = <<st, rs>>
        /\ mem' = [mem EXCEPT ![j] = Row(j)]
        /\ \/ upd' = [upd EXCEPT ![p] = NoUpdate] /\ ahead' = Behind(p)
           \/ Issue(p, j, Row(j))

\* The provider answered.  A snapshot popped in the meantime stays popped: the
\* caller still holds the dictionary it read and writes that one.
Capture(p) ==
  LET j == on[p] IN
  /\ upd[p].stage = "capture"
  /\ mem' = [mem EXCEPT ![j] = IF @ = NoRow THEN NoRow ELSE upd[p].row]
  /\ Issue(p, j, upd[p].row)
  /\ UNCHANGED <<db, work, signals, why, locks, pc, on, life, data>>

Commit(p) ==
  LET j == on[p] IN
  /\ upd[p].stage = "write"
  /\ ahead[p] = {}
  /\ db'    = [db EXCEPT ![j] = upd[p].row]
  /\ upd'   = [upd EXCEPT ![p].stage = "written"]
  /\ ahead' = Behind(p)
  /\ UNCHANGED <<mem, work, signals, why, locks, pc, on, life, data>>

LoseWrite(p) ==
  /\ WriteMayFail
  /\ upd[p].stage = "write"
  /\ upd'   = [upd EXCEPT ![p].stage = "lost"]
  /\ ahead' = Behind(p)
  /\ UNCHANGED <<mem, db, work, signals, why, locks, pc, on, life, data>>

Returned(p) == upd[p].stage \in {"none", "written", "lost"}

\* The tail of _update: a terminal snapshot that was persisted is dropped.
Return(p) ==
  /\ Returned(p)
  /\ mem' = IF upd[p].stage = "written" /\ upd[p].row.status \in Terminal
              THEN [mem EXCEPT ![on[p]] = NoRow] ELSE mem
  /\ upd' = [upd EXCEPT ![p] = NoUpdate]
  /\ UNCHANGED ahead

-----------------------------------------------------------------------------
\* Submission: start and start_resumable.

Duplicate(j, k) == KindOf[k] = KindOf[j] /\ DatabaseOf[k] = DatabaseOf[j]

FindBusy(j) == {k \in Jobs : Duplicate(j, k) /\ Status(k) \in {"queued", "running"}}

\* _find_active looks at the snapshots first and then at the rows.
FindActive(j) == {k \in Jobs : /\ Duplicate(j, k)
                               /\ {mem[k].status, db[k].status} \cap Active # {}}

\* The snapshot a submission makes: the row it inserts, and what it keeps in memory.
NewRow == [status |-> "queued", reason |-> "", started |-> FALSE]

\* Under _start_lock: no active duplicate, and the row is inserted.
Submit(c, j) ==
  /\ "start" \in Calls
  /\ phase = "open" /\ pc[c] = "idle" /\ startLock = Free
  /\ db[j] = NoRow
  /\ FindActive(j) = {}
  /\ startLock' = c
  /\ db'   = [db EXCEPT ![j] = NewRow]
  /\ born' = IF IsResumable(j)
               THEN [born EXCEPT ![j] = Cardinality({k \in Resumable : db[k] # NoRow})]
               ELSE born
  /\ GotoOn(c, "enqueue", j)
  /\ UNCHANGED <<rows, queue, ops, signals, why, tlock, xlock, life, data>>

\* After the commit: snapshot, operation, and the queue or a task of its own.  What
\* a cancellation did to the row meanwhile is not looked at.
Enqueue(c) ==
  LET j == on[c] IN
  /\ Alive /\ pc[c] = "enqueue"
  /\ mem' = [mem EXCEPT ![j] = NewRow]
  /\ ops' = IF IsResumable(j) THEN ops ELSE ops \cup {j}
  /\ IF j \in ShortLane
       THEN /\ pc' = [pc EXCEPT ![c] = "idle", ![j] = "lock"]
            /\ on' = [on EXCEPT ![c] = AnyJob, ![j] = j]
            /\ UNCHANGED queue
       ELSE GotoOn(c, "idle", AnyJob) /\ queue' = Append(queue, j)
  /\ startLock' = Free
  /\ UNCHANGED <<db, born, upd, ahead, signals, why, tlock, xlock, life, data>>

-----------------------------------------------------------------------------
\* The queue worker and the tasks of the short lane.

\* Both flags are looked at only between two jobs.
NextLabel(p) == IF p = Worker /\ phase = "open" THEN "get" ELSE "exit"

Take ==
  LET j == Head(queue) IN
  /\ Alive /\ pc[Worker] = "get" /\ queue # <<>>
  /\ queue' = Tail(queue)
  /\ IF Status(j) \in Terminal
       THEN Goto(Worker, NextLabel(Worker)) /\ UNCHANGED on
       ELSE GotoOn(Worker, "lock", j)
  /\ UNCHANGED <<rows, db, born, ops, signals, why, locks, life, data>>

\* _execution_lock: one lock per resource key.
LockUnguarded(p, d) == xlock' = [xlock EXCEPT ![d] = p]
Lock(p, d)          == xlock[d] = Free /\ xlock' = [xlock EXCEPT ![d] = p]

EnterResumable ==
  LET j == on[Worker] IN
  /\ Alive /\ pc[Worker] = "lock" /\ IsResumable(j)
  /\ Lock(Worker, DatabaseOf[j])
  /\ Goto(Worker, "loop")
  /\ UNCHANGED <<rows, db, on, work, signals, why, tlock, startLock, life, data>>

\* Only a task of the short lane looks at the status again under the lock.
SkipCancelled(p) ==
  LET j == on[p] IN
  /\ Alive /\ p \in Jobs /\ pc[p] = "lock"
  /\ xlock[DatabaseOf[j]] = Free
  /\ Status(j) \in Terminal
  /\ ops' = ops \ {j}
  /\ GotoOn(p, "exit", AnyJob)
  /\ UNCHANGED <<rows, db, queue, born, signals, why, locks, life, data>>

EnterSimple(p) ==
  LET j == on[p] IN
  /\ Alive /\ p \in Runners /\ pc[p] = "lock" /\ ~IsResumable(j)
  /\ p # Worker => Status(j) \notin Terminal
  /\ Lock(p, DatabaseOf[j])
  /\ ops'   = ops \ {j}
  /\ \/ j \in ops    /\ Goto(p, "simple") /\ Update(p, j, "running", Row(j).reason)
     \/ j \notin ops /\ Goto(p, "ending") /\ Update(p, j, "cancelled", "operation_missing")
  /\ UNCHANGED <<db, on, queue, born, signals, why, tlock, startLock, life, data>>

\* operation(progress) of _run_simple; its runtime lease may fail to load.
SimpleStep(p) ==
  LET j == on[p] IN
  /\ Alive /\ p \in Runners /\ pc[p] = "simple" /\ Returned(p)
  /\ \/ /\ data[j] = "clean"
        /\ data' = [data EXCEPT ![j] = "dirty"]
        /\ UNCHANGED <<rows, pc>>
     \/ /\ Update(p, j, "running", Row(j).reason)
        /\ Goto(p, "report")
        /\ UNCHANGED data
     \/ /\ Update(p, j, "completed", Row(j).reason)
        /\ data' = [data EXCEPT ![j] = "done"]
        /\ Goto(p, "ending")
     \/ /\ \/ Update(p, j, "failed", Row(j).reason)
           \/ data[j] = "clean" /\ Update(p, j, "failed", "manager_error")
        /\ Goto(p, "ending")
        /\ UNCHANGED data
  /\ UNCHANGED <<db, on, work, signals, why, locks, life>>

Reported(p) ==
  /\ Alive /\ p \in Runners /\ pc[p] = "report"
  /\ Return(p)
  /\ Goto(p, "simple")
  /\ UNCHANGED <<db, on, work, signals, why, locks, life, data>>

\* A runner lets go of every lock it holds for the job and moves on.
Leave(p) ==
  /\ tlock' = [tlock EXCEPT ![on[p]] = IF @ = p THEN Free ELSE @]
  /\ xlock' = [xlock EXCEPT ![DatabaseOf[on[p]]] = IF @ = p THEN Free ELSE @]
  /\ GotoOn(p, NextLabel(p), AnyJob)

Finish(p) ==
  /\ Alive /\ p \in Runners /\ pc[p] = "ending"
  /\ Return(p)
  /\ Leave(p)
  /\ UNCHANGED <<db, work, signals, why, startLock, life, data>>

-----------------------------------------------------------------------------
\* _run_resumable, _perform_stop and JobExecutionContext.

At(l) == Alive /\ pc[Worker] = l /\ Returned(Worker)

BeginStop(j) == /\ Update(Worker, j, "stopping", "manual")
                /\ Goto(Worker, "stopping")

\* The operation is resolved (neither registered resolver suspends) and the
\* control request decides: roll back, or forget the request and run.  A
\* resolver that raises ends in the worker's own handler.
Begin(j) ==
  \/ request[j] = "stop" /\ BeginStop(j) /\ UNCHANGED request
  \/ /\ request[j] # "stop"
     /\ request' = [request EXCEPT ![j] = ""]
     /\ Update(Worker, j, "running", "")
     /\ Goto(Worker, "run")
  \/ /\ Update(Worker, j, "failed", "manager_error")
     /\ Goto(Worker, "ending")
     /\ UNCHANGED request

LoopHead ==
  LET j == on[Worker] IN
  /\ At("loop")
  /\ \/ Status(j) \in Terminal /\ Return(Worker) /\ Leave(Worker) /\ UNCHANGED request
     \/ /\ Status(j) \in Paused
        /\ Return(Worker)
        /\ Goto(Worker, "wait")
        /\ UNCHANGED <<request, on, tlock, xlock>>
     \/ Status(j) \notin Terminal \cup Paused /\ Begin(j) /\ UNCHANGED <<on, tlock, xlock>>
  /\ UNCHANGED <<db, work, event, why, startLock, life, data>>

\* event.wait() returns and the latch is cleared.
WakeUp ==
  LET j == on[Worker] IN
  /\ At("wait") /\ event[j]
  /\ event' = [event EXCEPT ![j] = FALSE]
  /\ Begin(j)
  /\ UNCHANGED <<db, on, work, why, locks, life, data>>

\* operation.run: it changes the database, reports, ends or raises.
RunWrites ==
  LET j == on[Worker] IN
  /\ At("run") /\ data[j] # "dirty"
  /\ data' = [data EXCEPT ![j] = "dirty"]
  /\ UNCHANGED <<rows, db, pc, on, work, signals, why, locks, life>>

\* context.progress writes status "running" whatever the status is, and does not
\* look at the control request.
RunTells ==
  LET j == on[Worker] IN
  /\ At("run")
  /\ Update(Worker, j, "running", Row(j).reason)
  /\ Goto(Worker, "told")
  /\ UNCHANGED <<db, on, work, signals, why, locks, life, data>>

Told ==
  /\ At("told")
  /\ Return(Worker)
  /\ Goto(Worker, "run")
  /\ UNCHANGED <<db, on, work, signals, why, locks, life, data>>

\* The same followed by a control point, or context.checkpoint, which leaves the
\* status alone and ends with one.
RunReports ==
  LET j == on[Worker] IN
  /\ At("run")
  /\ \E st \in {"running", Status(j)} : Update(Worker, j, st, Row(j).reason)
  /\ Goto(Worker, "point")
  /\ UNCHANGED <<db, on, work, signals, why, locks, life, data>>

ControlPoint ==
  LET j == on[Worker] IN
  /\ At("point")
  /\ \/ request[j] = "stop" /\ BeginStop(j) /\ UNCHANGED why
     \/ /\ request[j] \in {"pause", "shutdown"}
        /\ why' = request[j]
        /\ Goto(Worker, "pausing") /\ Return(Worker)
     \/ request[j] = "" /\ Goto(Worker, "run") /\ Return(Worker) /\ UNCHANGED why
  /\ UNCHANGED <<db, on, work, signals, locks, life, data>>

RunEnds ==
  LET j == on[Worker] IN
  /\ At("run")
  /\ \/ Goto(Worker, "finishing") /\ data' = [data EXCEPT ![j] = "done"]
     \/ Goto(Worker, "breaking")  /\ UNCHANGED data
     \/ Goto(Worker, "unwinding") /\ UNCHANGED data
  /\ UNCHANGED <<rows, db, on, work, signals, why, locks, life>>

CompleteUnchecked ==
  LET j == on[Worker] IN
  /\ At("finishing") /\ tlock[j] = Free
  /\ tlock' = [tlock EXCEPT ![j] = Worker]
  /\ Update(Worker, j, "completed", "")
  /\ Goto(Worker, "completed")
  /\ UNCHANGED <<db, on, work, signals, why, xlock, startLock, life, data>>

\* Completion re-checks the control request under the transition lock.
Complete ==
  LET j == on[Worker] IN
  /\ At("finishing") /\ tlock[j] = Free
  /\ \/ request[j] = "stop" /\ BeginStop(j) /\ UNCHANGED <<tlock, why>>
     \/ /\ request[j] \in {"pause", "shutdown"}
        /\ why' = request[j]
        /\ Goto(Worker, "pausing")
        /\ UNCHANGED <<rows, tlock>>
     \/ /\ request[j] = ""
        /\ tlock' = [tlock EXCEPT ![j] = Worker]
        /\ Update(Worker, j, "completed", "")
        /\ Goto(Worker, "completed")
        /\ UNCHANGED why
  /\ UNCHANGED <<db, on, work, signals, xlock, startLock, life, data>>

\* finalize_completed runs after the lock is released, inside the same try.
Completed ==
  /\ At("completed")
  /\ Return(Worker)
  /\ tlock' = [tlock EXCEPT ![on[Worker]] = Free]
  /\ Goto(Worker, "finalizing")
  /\ UNCHANGED <<db, on, work, signals, why, xlock, startLock, life, data>>

Finalized ==
  /\ At("finalizing")
  /\ Goto(Worker, "ending")
  /\ UNCHANGED <<rows, db, on, work, signals, why, locks, life, data>>

\* The handlers of JobPauseRequested and JobInterrupted.
Park(l, st, rs) ==
  LET j == on[Worker] IN
  /\ At(l) /\ tlock[j] = Free
  /\ \/ request[j] = "stop" /\ BeginStop(j) /\ why' = "" /\ UNCHANGED tlock
     \/ /\ request[j] # "stop"
        /\ tlock' = [tlock EXCEPT ![j] = Worker]
        /\ Update(Worker, j, st, rs)
        /\ Goto(Worker, "parked")
        /\ UNCHANGED why
  /\ UNCHANGED <<db, on, work, signals, xlock, startLock, life, data>>

PauseReasonRaw == why
PauseReason == IF why = "shutdown" THEN "shutdown" ELSE "manual"
Pausing     == Park("pausing", "paused", PauseReason)
Breaking    == Park("breaking", "interrupted", "provider")

ParkedAndLeft ==
  /\ At("parked")
  /\ Return(Worker)
  /\ request' = [request EXCEPT ![on[Worker]] = ""]
  /\ why' = ""
  /\ Leave(Worker)
  /\ UNCHANGED <<db, work, event, startLock, life, data>>

Parked ==
  LET j == on[Worker] IN
  /\ At("parked")
  /\ Return(Worker)
  /\ request' = [request EXCEPT ![j] = ""]
  /\ why' = ""
  /\ \/ why = "shutdown" /\ Leave(Worker)
     \/ /\ why # "shutdown"
        /\ Goto(Worker, "loop")
        /\ tlock' = [tlock EXCEPT ![j] = Free]
        /\ UNCHANGED <<on, xlock>>
  /\ UNCHANGED <<db, work, event, startLock, life, data>>

\* operation.run raised: roll back, and fail or wait for help.
Unwind ==
  LET j == on[Worker] IN
  /\ At("unwinding")
  /\ \/ /\ data' = [data EXCEPT ![j] = "clean"]
        /\ Update(Worker, j, "failed", "operation_failed")
        /\ Goto(Worker, "ending")
     \/ /\ RollbackMayFail
        /\ Update(Worker, j, "interrupted", "rollback_failed")
        /\ Goto(Worker, "loop")
        /\ UNCHANGED data
  /\ UNCHANGED <<db, on, work, signals, why, locks, life>>

RollBackNothing ==
  LET j == on[Worker] IN
  /\ At("stopping")
  /\ request' = [request EXCEPT ![j] = ""]
  /\ Update(Worker, j, "stopped", "manual")
  /\ Goto(Worker, "ending")
  /\ UNCHANGED <<db, on, work, event, why, locks, life, data>>

\* _perform_stop after its first update.
RollBack ==
  LET j == on[Worker] IN
  /\ At("stopping")
  /\ \/ /\ data'    = [data EXCEPT ![j] = "clean"]
        /\ request' = [request EXCEPT ![j] = ""]
        /\ Update(Worker, j, "stopped", "manual")
        /\ Goto(Worker, "ending")
     \/ /\ RollbackMayFail
        /\ Update(Worker, j, "interrupted", "rollback_failed")
        /\ Goto(Worker, "stranded")
        /\ UNCHANGED <<data, request>>
  /\ UNCHANGED <<db, on, work, event, why, locks, life>>

\* A stop whose rollback failed returns to the queue loop.
Strand ==
  /\ At("stranded")
  /\ Return(Worker)
  /\ request' = [request EXCEPT ![on[Worker]] = ""]
  /\ Leave(Worker)
  /\ UNCHANGED <<db, work, event, why, startLock, life, data>>

-----------------------------------------------------------------------------
\* API calls.  A call in a state that does not admit it raises a conflict and
\* changes nothing, so only admitted calls are steps.

PauseAtOnce(c, j) ==
  /\ "pause" \in Calls
  /\ Listening /\ pc[c] = "idle" /\ tlock[j] = Free
  /\ IsResumable(j) /\ Status(j) = "running"
  /\ tlock'   = [tlock EXCEPT ![j] = c]
  /\ request' = [request EXCEPT ![j] = "pause"]
  /\ Update(c, j, "paused", "manual")
  /\ GotoOn(c, "pause", j)
  /\ UNCHANGED <<db, work, event, why, xlock, startLock, life, data>>

Pause(c, j) ==
  /\ "pause" \in Calls
  /\ Listening /\ pc[c] = "idle" /\ tlock[j] = Free
  /\ IsResumable(j) /\ Status(j) = "running"
  /\ tlock'   = [tlock EXCEPT ![j] = c]
  /\ request' = [request EXCEPT ![j] = "pause"]
  /\ Update(c, j, "pausing", "manual")
  /\ GotoOn(c, "pause", j)
  /\ UNCHANGED <<db, work, event, why, xlock, startLock, life, data>>

Stop(c, j) ==
  /\ "stop" \in Calls
  /\ Listening /\ pc[c] = "idle" /\ tlock[j] = Free
  /\ IsResumable(j) /\ Status(j) \in {"running", "pausing"} \cup Paused
  /\ tlock'   = [tlock EXCEPT ![j] = c]
  /\ request' = [request EXCEPT ![j] = "stop"]
  /\ Update(c, j, "stopping", "manual")
  /\ GotoOn(c, "stop", j)
  /\ UNCHANGED <<db, work, event, why, xlock, startLock, life, data>>

\* resume takes no transition lock.
Resume(c, j) ==
  /\ "resume" \in Calls
  /\ Listening /\ pc[c] = "idle"
  /\ IsResumable(j) /\ Status(j) \in Paused
  /\ request' = [request EXCEPT ![j] = ""]
  /\ Update(c, j, "paused", "resume_requested")
  /\ GotoOn(c, "resume", j)
  /\ UNCHANGED <<db, work, event, why, locks, life, data>>

AnswerSilently(c) ==
  /\ Alive /\ pc[c] \in {"pause", "stop", "resume"}
  /\ Return(c)
  /\ tlock' = [tlock EXCEPT ![on[c]] = IF @ = c THEN Free ELSE @]
  /\ GotoOn(c, "idle", AnyJob)
  /\ UNCHANGED <<db, work, signals, why, xlock, startLock, life, data>>

AnswerLocked(c) ==
  /\ Alive /\ pc[c] \in {"pause", "stop", "resume"}
  /\ Return(c)
  /\ event' = [event EXCEPT ![on[c]] = @ \/ pc[c] # "pause"]
  /\ GotoOn(c, "idle", AnyJob)
  /\ UNCHANGED <<db, work, request, why, locks, life, data>>

\* pause returns; stop and resume also signal the control event.
Answer(c) ==
  LET j == on[c] IN
  /\ Alive /\ pc[c] \in {"pause", "stop", "resume"}
  /\ Return(c)
  /\ event' = [event EXCEPT ![j] = @ \/ pc[c] # "pause"]
  /\ tlock' = [tlock EXCEPT ![j] = IF @ = c THEN Free ELSE @]
  /\ GotoOn(c, "idle", AnyJob)
  /\ UNCHANGED <<db, work, request, why, xlock, startLock, life, data>>

\* cancel: the status is looked at once, before the operation is resolved and
\* its queued resources are removed.
DropQueued(p, j) ==
  /\ ops' = ops \ {j}
  /\ Update(p, j, "cancelled", IF p = Closer THEN "shutdown" ELSE "manual")
  /\ GotoOn(p, "cancel", j)

Cancel(c, j) ==
  /\ "cancel" \in Calls
  /\ Listening /\ pc[c] = "idle" /\ Status(j) = "queued"
  /\ \/ j \in Cleaning    /\ GotoOn(c, "clean", j) /\ UNCHANGED <<rows, ops>>
     \/ j \notin Cleaning /\ DropQueued(c, j)
  /\ UNCHANGED <<db, queue, born, signals, why, locks, life, data>>

Cleaned(p) ==
  /\ Alive /\ pc[p] = "clean"
  /\ DropQueued(p, on[p])
  /\ UNCHANGED <<db, queue, born, signals, why, locks, life, data>>

CancelAnswer(p) ==
  /\ Alive /\ pc[p] = "cancel"
  /\ Return(p)
  /\ GotoOn(p, IF p = Closer THEN "each" ELSE "idle", AnyJob)
  /\ UNCHANGED <<db, work, signals, why, locks, life, data>>

-----------------------------------------------------------------------------
\* close(): at most 90 seconds for a stop, at most 90 for a safe pause, then
\* queued jobs are cancelled and the tasks are cancelled whatever they do.

Interrupt(j) ==
  IF IsResumable(j) /\ Status(j) \in {"running", "pausing"}
    THEN /\ request' = [request EXCEPT ![j] = "shutdown"]
         /\ Update(Closer, j, "pausing", "shutdown")
         /\ GotoOn(Closer, "signal", j)
    ELSE GotoOn(Closer, "list", AnyJob) /\ UNCHANGED <<request, rows>>

Close ==
  LET j == on[Worker] IN
  /\ MayClose /\ phase = "open"
  /\ Drained => \A c \in Clients : pc[c] = "idle"
  /\ phase' = "closing"
  /\ \/ /\ Serving(j) /\ IsResumable(j) /\ Status(j) = "stopping"
        /\ GotoOn(Closer, "stopwait", j)
        /\ UNCHANGED <<request, rows>>
     \/ Serving(j) /\ Status(j) # "stopping" /\ Interrupt(j)
     \/ /\ ~Serving(j) \/ (~IsResumable(j) /\ Status(j) = "stopping")
        /\ GotoOn(Closer, "list", AnyJob)
        /\ UNCHANGED <<request, rows>>
  /\ UNCHANGED <<db, work, event, why, locks, todo, crashes, data>>

\* The stop settled or 90 seconds passed.
StopWaited ==
  /\ Alive /\ pc[Closer] = "stopwait"
  /\ Interrupt(on[Closer])
  /\ UNCHANGED <<db, work, event, why, locks, life, data>>

SignalShutdown ==
  /\ Alive /\ pc[Closer] = "signal"
  /\ Return(Closer)
  /\ event' = [event EXCEPT ![on[Closer]] = TRUE]
  /\ Goto(Closer, "pausewait")
  /\ UNCHANGED <<db, on, work, request, why, locks, life, data>>

\* The job paused, ended, or 90 seconds passed.
PauseWaited ==
  /\ Alive /\ pc[Closer] = "pausewait"
  /\ GotoOn(Closer, "list", AnyJob)
  /\ UNCHANGED <<rows, db, work, signals, why, locks, life, data>>

ListQueued ==
  /\ Alive /\ pc[Closer] = "list"
  /\ todo' = {j \in Jobs : Status(j) = "queued"}
  /\ Goto(Closer, "each")
  /\ UNCHANGED <<rows, db, on, work, signals, why, locks, phase, crashes, data>>

CancelEach ==
  /\ Alive /\ pc[Closer] = "each"
  /\ \E j \in todo :
       /\ todo' = todo \ {j}
       /\ CASE Status(j) # "queued" -> UNCHANGED <<rows, ops, pc, on>>
            [] Status(j) = "queued" /\ j \in Cleaning
                 -> GotoOn(Closer, "clean", j) /\ UNCHANGED <<rows, ops>>
            [] OTHER -> DropQueued(Closer, j)
  /\ UNCHANGED <<db, queue, born, signals, why, locks, phase, crashes, data>>

CancelTasks ==
  /\ Alive /\ pc[Closer] = "each" /\ todo = {}
  /\ phase' = "closed"
  /\ Goto(Closer, "gather")
  /\ UNCHANGED <<rows, db, on, work, signals, why, locks, todo, crashes, data>>

HandledNowhere(p) == {FALSE}

\* CancelledError at the await the runner is suspended in: is there a handler
\* that records it?  (While the runtime lease loads there may not be.)
HandledIn(p) ==
  LET j == on[p]
      inFlight == ~Returned(p)
  IN IF IsResumable(j)
       THEN {/\ Status(j) \notin Paused
             /\ \/ pc[p] \in {"told", "point", "finishing", "completed", "finalizing"}
                \/ pc[p] = "run" /\ ~inFlight}
     ELSE IF pc[p] = "ending" /\ inFlight /\ upd[p].row.status = "completed"
       THEN {TRUE}
     ELSE IF p \in Jobs
       THEN {Status(j) \notin Terminal}
     ELSE IF pc[p] = "simple" /\ ~inFlight /\ data[j] = "clean"
       THEN BOOLEAN
     ELSE {pc[p] = "report" \/ (pc[p] = "simple" /\ ~inFlight)}

\* The await is abandoned: a write in flight is dropped, or was committing.
Abandon(p) ==
  \/ UNCHANGED db
  \/ /\ upd[p].stage = "write"
     /\ ahead[p] = {}
     /\ db' = [db EXCEPT ![on[p]] = upd[p].row]

\* close() cancels the worker, waits for it, and cancels the short tasks.
\* Locks are released on the way out.
Cancelled(p) ==
  LET j == on[p] IN
  /\ phase = "closed" /\ p \in Runners
  /\ pc[p] \in RunnerLabels \ {"cancelled", "exit"}
  /\ p # Worker => pc[Worker] = "exit"
  /\ Abandon(p)
  /\ \E handled \in (IF pc[p] = "get" THEN {FALSE} ELSE HandledIn(p)) :
       \/ /\ handled
          /\ IF IsResumable(j)
               THEN Update(p, j, "interrupted", "process_interrupted")
               ELSE Update(p, j, "cancelled", "shutdown")
          /\ Goto(p, "cancelled")
          /\ UNCHANGED <<on, tlock, xlock>>
       \/ /\ ~handled
          /\ upd'   = [upd EXCEPT ![p] = NoUpdate]
          /\ ahead' = Behind(p)
          /\ Leave(p)
          /\ UNCHANGED mem
  /\ UNCHANGED <<work, signals, why, startLock, life, data>>

CancelHandled(p) ==
  /\ phase = "closed" /\ p \in Runners /\ pc[p] = "cancelled"
  /\ Return(p)
  /\ Leave(p)
  /\ UNCHANGED <<db, work, signals, why, startLock, life, data>>

-----------------------------------------------------------------------------
\* The end of the process, and recover_for_startup.

RestLabel(p) == IF p \in Runners THEN "exit" ELSE "idle"

\* What a new process starts from, whatever the last one held in memory.
Cold == [mem     |-> [j \in Jobs |-> NoRow],
         upd     |-> [p \in Procs |-> NoUpdate],
         ahead   |-> [p \in Procs |-> {}],
         request |-> [j \in Jobs |-> ""],
         event   |-> [j \in Jobs |-> FALSE],
         tlock   |-> [j \in Jobs |-> Free],
         xlock   |-> [d \in Databases |-> Free],
         pc      |-> [p \in Procs |-> RestLabel(p)],
         on      |-> [p \in Procs |-> AnyJob]]

Down ==
  /\ phase' = "down"
  /\ mem' = Cold.mem /\ upd' = Cold.upd /\ ahead' = Cold.ahead
  /\ queue' = <<>> /\ ops' = {} /\ todo' = {}
  /\ request' = Cold.request /\ event' = Cold.event /\ why' = ""
  /\ tlock' = Cold.tlock /\ xlock' = Cold.xlock /\ startLock' = Free
  /\ pc' = Cold.pc /\ on' = Cold.on
  /\ UNCHANGED <<db, born, data>>

Closed == /\ phase = "closed" /\ \A p \in Runners : pc[p] = "exit"
          /\ Down
          /\ UNCHANGED crashes

Crash == /\ phase # "down" /\ crashes < MaxCrashes
         /\ Down
         /\ crashes' = crashes + 1

RecoveredBlindly(row, resumable) ==
  IF row.status \in Paused \cup {"absent"} THEN row
  ELSE [row EXCEPT !.status = IF resumable THEN "interrupted" ELSE "cancelled",
                   !.reason = "process_interrupted"]

Recovered(row, resumable) ==
  CASE row.status = "queued" -> [row EXCEPT !.status = "cancelled", !.reason = "shutdown"]
    [] row.status \in {"running", "pausing", "stopping"} ->
         [row EXCEPT !.status = IF resumable THEN "interrupted" ELSE "cancelled",
                     !.reason = "process_interrupted"]
    [] OTHER -> row

\* ORDER BY created_at.
Oldest(S) == {q \in [1..Cardinality(S) -> S] :
                \A i, k \in DOMAIN q : i < k => born[q[i]] < born[q[k]]}

\* Nothing resumes by itself: paused jobs are queued again and wait.
Recover ==
  LET kept == {j \in Resumable : db'[j].status \in Paused} IN
  /\ phase = "down"
  /\ phase' = "open"
  /\ db'    = [j \in Jobs |-> Recovered(db[j], IsResumable(j))]
  /\ mem'   = [j \in Jobs |-> IF j \in kept THEN db'[j] ELSE NoRow]
  /\ queue' \in Oldest(kept)
  /\ Goto(Worker, "get")
  /\ UNCHANGED <<upd, ahead, ops, born, signals, why, locks, on, todo, crashes, data>>

-----------------------------------------------------------------------------
Init ==
  /\ phase = "open" /\ crashes = 0
  /\ db = [j \in Jobs |-> NoRow] /\ born = [j \in Jobs |-> 0]
  /\ mem = Cold.mem /\ upd = Cold.upd /\ ahead = Cold.ahead
  /\ queue = <<>> /\ ops = {} /\ todo = {}
  /\ request = Cold.request /\ event = Cold.event /\ why = ""
  /\ tlock = Cold.tlock /\ xlock = Cold.xlock /\ startLock = Free
  /\ pc = [Cold.pc EXCEPT ![Worker] = "get"] /\ on = Cold.on
  /\ data = [j \in Jobs |-> "clean"]

RunnerStep(p) == SkipCancelled(p) \/ EnterSimple(p) \/ SimpleStep(p) \/ Reported(p)
                   \/ Finish(p) \/ Cancelled(p) \/ CancelHandled(p)

OperationStep == RunWrites \/ RunTells \/ Told \/ RunReports \/ RunEnds

ResumableStep == \/ LoopHead \/ WakeUp \/ ControlPoint
                 \/ Complete \/ Completed \/ Finalized \/ Pausing \/ Breaking
                 \/ Parked \/ Unwind \/ RollBack \/ Strand

WorkerStep == Take \/ EnterResumable \/ OperationStep \/ ResumableStep

CallBegins(c) == \E j \in Jobs : \/ Submit(c, j) \/ Pause(c, j) \/ Stop(c, j)
                                 \/ Resume(c, j) \/ Cancel(c, j)
CallStep(c)   == Enqueue(c) \/ Answer(c)
CancelStep(p) == Cleaned(p) \/ CancelAnswer(p)

CloseStep == \/ StopWaited \/ SignalShutdown \/ PauseWaited
             \/ ListQueued \/ CancelEach \/ CancelTasks \/ Closed

Storage(p) == Capture(p) \/ Commit(p) \/ LoseWrite(p)

Next == \/ WorkerStep
        \/ \E p \in Runners : RunnerStep(p)
        \/ \E c \in Clients : CallBegins(c) \/ CallStep(c)
        \/ \E p \in Clients \cup {Closer} : CancelStep(p)
        \/ \E p \in Procs : Storage(p)
        \/ Close \/ CloseStep \/ Crash \/ Recover

\* The event loop runs every coroutine that is ready, and SQLite answers.
\* An operation reaches a control point again and again (one per batch); nothing
\* obliges it to end, a client to call or the service to close.
Fairness == /\ WF_vars(WorkerStep)
            /\ SF_vars(RunReports)
            /\ \A p \in Runners : WF_vars(RunnerStep(p))
            /\ \A c \in Clients : WF_vars(CallStep(c))
            /\ \A p \in Clients \cup {Closer} : WF_vars(CancelStep(p))
            /\ \A p \in Procs : WF_vars(Storage(p))
            /\ WF_vars(CloseStep)

Spec     == Init /\ [][Next]_vars
FairSpec == Spec /\ Fairness

-----------------------------------------------------------------------------
\* Properties.

TypeOK ==
  /\ mem \in [Jobs -> Rows \cup {NoRow}]
  /\ db  \in [Jobs -> Rows \cup {NoRow}]
  /\ upd \in [Procs -> [stage : {"none", "capture", "write", "written", "lost"},
                        row   : Rows \cup {NoRow}]]
  /\ queue \in Seq(Jobs) /\ todo \subseteq Jobs
  /\ request \in [Jobs -> {"", "pause", "stop", "shutdown"}]
  /\ event \in [Jobs -> BOOLEAN]
  /\ why \in {"", "pause", "shutdown"}
  /\ tlock \in [Jobs -> Procs \cup {Free}]
  /\ xlock \in [Databases -> Procs \cup {Free}]
  /\ startLock \in Procs \cup {Free}
  /\ pc \in [Procs -> Labels] /\ on \in [Procs -> Jobs]
  /\ phase \in {"open", "closing", "closed", "down"}
  /\ data \in [Jobs -> {"clean", "dirty", "done"}]

\* The code of the operation itself is running, not the manager around it.
Executing(j) == /\ Serving(j) /\ Alive
                /\ \/ pc[Worker] \in {"told", "point"}
                   \/ pc[Worker] = "run" /\ Returned(Worker)

\* Two runners never work on one database at a time: the queue worker and the
\* tasks of the short lane share the execution locks of jobs.py.
ExclusivePerDatabase ==
  \A p, q \in Runners :
    /\ p # q
    /\ pc[p] \in HoldLabels /\ pc[q] \in HoldLabels
    => DatabaseOf[on[p]] # DatabaseOf[on[q]]

\* The runner that works on a database.
Holder(d) ==
  LET holds(p) == pc[p] \in HoldLabels /\ DatabaseOf[on[p]] = d IN
  IF \E p \in Runners : holds(p) THEN CHOOSE p \in Runners : holds(p) ELSE Free

Lease == INSTANCE ExclusiveLease
           WITH Resources <- Databases, Holders <- Runners, Nobody <- Free,
                owner <- [d \in Databases |-> Holder(d)]

\* The manager implements the abstract lease of a database: one runner takes over
\* from another only after that one is done with it, also when tasks are
\* cancelled, stops fail or the service shuts down.
ImplementsLease == Lease!Spec

\* A job whose status says paused or interrupted does not execute: its operation
\* has left run() at a safe point before anyone is told that it has.
QuietWhilePaused ==
  \A j \in Resumable : Status(j) \in Paused => ~Executing(j)

\* A terminal status tells the truth about the database: completed work is all
\* there, and a stopped or failed resumable job was rolled back before it said so.
TerminalMatchesData ==
  \A j \in Resumable :
    /\ Status(j) = "completed" => data[j] = "done"
    /\ Status(j) = "stopped" => data[j] = "clean"
    /\ Row(j).reason = "operation_failed" => data[j] = "clean"

\* While the service is open, an active resumable job that left the queue has
\* the worker at its side: otherwise nothing could ever resume or stop it.
ActiveIsServed ==
  phase = "open" =>
    \A j \in Resumable :
      Status(j) \in Active \ {"queued"} =>
        Serving(j) \/ \E i \in DOMAIN queue : queue[i] = j

\* A job is queued at most once and never while it is being served.
QueuedOnce ==
  \A i, k \in DOMAIN queue : /\ queue[i] = queue[k] => i = k
                             /\ ~Serving(queue[i])

\* Both: every active job that left the queue is served or waits in it, once.
ServedOnce == ActiveIsServed /\ QueuedOnce

\* Deduplication: two jobs of one kind on one database are never both active.
OneActivePerKind ==
  \A j, k \in Jobs : j # k /\ Duplicate(j, k) =>
                     ~(Status(j) \in Active /\ Status(k) \in Active)

\* A terminal status is final.
TerminalIsFinal ==
  [][\A j \in Jobs : Status(j) \in Terminal => Status(j)' = Status(j)]_vars

\* An orderly shutdown leaves every short job with an outcome: its task is
\* cancelled and records that before the process ends.  Only an outcome that was
\* reached before, and whose write the shutdown cut off, may miss in the table.
ShutdownSettlesShortJobs ==
  [][phase = "closed" /\ phase' = "down" /\ crashes' = crashes
       => \A j \in ShortLane : Status(j) \in Terminal \cup {"absent"}]_vars

\* What the table says is terminal stays so, over crashes, restarts and whatever
\* a second writer of the row still has in flight.  Only a shutdown that cuts off
\* the write of a completion may record something else after it.
RecordedOutcomeIsFinal ==
  [][\A j \in Jobs : db[j].status \in Terminal /\ phase # "closed"
                       => db'[j].status = db[j].status]_vars

\* A job does not complete over a pause or stop that was accepted before: the
\* request is looked at again under the lock that admits such requests.
CompletionHonoursRequest ==
  [][\A j \in Resumable :
       Status(j) # "completed" /\ Status(j)' = "completed"
         => request[j] \notin {"pause", "stop"}]_vars

\* Both: a job completes only when nobody asked otherwise, and then for good.
OutcomesHold == CompletionHonoursRequest /\ TerminalIsFinal

\* Another job has the only worker: a paused job ahead in the queue keeps it
\* until somebody resumes or stops that job.
Blocked(j) == \E k \in Jobs \ {j} : Serving(k)

\* An accepted pause comes to an end: the job pauses, or ends some other way.
PauseSettles ==
  \A j \in Resumable :
    Status(j) = "pausing" ~> Status(j) # "pausing" \/ phase = "down"

\* An accepted stop comes to an end, unless the job is behind a blocked worker.
StopSettles ==
  \A j \in Resumable :
    Status(j) = "stopping" ~> Status(j) # "stopping" \/ phase = "down" \/ Blocked(j)

\* A resumed job executes, with the same exceptions.
ResumeSettles ==
  \A j \in Resumable :
    Row(j).reason = "resume_requested"
      ~> Row(j).reason # "resume_requested" \/ phase # "open" \/ Blocked(j)

\* Whatever pause(), stop() or resume() accepted comes to an end: no caller is told
\* of a request that nobody will ever serve.
RequestsSettle == PauseSettles /\ StopSettles /\ ResumeSettles

=============================================================================
