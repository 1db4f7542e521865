--------------------------- MODULE RuntimeResidency ---------------------------
(***************************************************************************)
(* The runtimes of library_types/livingmemory_v8/manager.py: the services  *)
(* of the databases, built on first use by one load that every waiter      *)
(* shares, leased to requests and jobs, evicted when idle or over the      *)
(* capacity, unloaded for maintenance and closed at shutdown.              *)
(*                                                                         *)
(* A section under _runtime_lock or _runtime_condition never suspends,     *)
(* except in wait(), so everything a coroutine does between two awaits is  *)
(* one action.  A load is a task of its own, and so is the finalizer that  *)
(* follows it.  No order is kept between coroutines that are ready, and    *)
(* none among databases: least recently used is any order here.            *)
(*                                                                         *)
(* An operator that no action uses is a faulty variant of the definition   *)
(* after it, kept to show which property would notice that fault.          *)
(***************************************************************************)
EXTENDS Naturals, FiniteSets

CONSTANTS
  Databases,  \* DatabaseRefs
  Default,    \* the default database: never evicted, loaded without a sweep
  Services,   \* PersonalityRAGService objects, each with the task that builds it
  Users,      \* coroutines that lease a runtime or only get one
  Unloaders,  \* coroutines that unload a database: delete, rename, rebind
  Movers,     \* backup imports: suspend loading, unload all, replace, resume
  Sweeper,    \* _runtime_sweeper_loop
  Closer,     \* close()
  Nobody,     \* no coroutine, no service
  Capacity,   \* effective_runtime_capacity
  MayPin,     \* databases an adapter or a job may pin
  MayFail,    \* the query for the pins may raise
  MayCancel,  \* a coroutine may be cancelled at an await
  MayClose,   \* the manager may be closed
  MaxLost     \* bound on the leases of a database lost to failures and cancellations

Callers == Users \cup Unloaders \cup Movers
Procs   == Callers \cup {Sweeper, Closer}

ASSUME ResidencyAssumption ==
  /\ Databases # {} /\ IsFiniteSet(Databases) /\ IsFiniteSet(Users)
  /\ MayPin \subseteq Databases
  /\ Capacity \in Nat \ {0} /\ MaxLost \in Nat
  /\ Sweeper # Closer /\ {Sweeper, Closer} \cap Callers = {}
  /\ Nobody \notin Services \cup Procs
  /\ {MayFail, MayCancel, MayClose} \subseteq BOOLEAN

VARIABLES
  runtimes,  \* runtimes: the resident service of a database
  leases,    \* _runtime_residency: lease_count, 0 without an entry
  loads,     \* _runtime_loads: the task that builds a service
  status,    \* of a service: gone, building, failed, cancelled, built or cut (half closed)
  finals,    \* tasks that ended and whose finalizer has not run
  discarded, \* services a finalizer is closing
  owner,     \* _runtime_loading_owner while loading is suspended
  phase,     \* open, closing (_closing) or closed
  shutting,  \* services close() is closing
  asleep,    \* processes in _runtime_condition.wait() that nobody has notified
  pc, job,   \* where each process is, and what its coroutine holds on to
  lost       \* history: leases that are counted and that nobody will give back

table   == <<runtimes, leases, loads>>
service == <<status, finals, discarded>>
life    == <<owner, phase, shutting>>
vars    == <<runtimes, leases, loads, status, finals, discarded, owner, phase,
             shutting, asleep, pc, job, lost>>

\* list: the candidates of a sweep, then its victims; or what is still to unload.
AnyDatabase == CHOOSE d \in Databases : TRUE
NoJob == [op |-> "", db |-> AnyDatabase, svc |-> Nobody, lease |-> Nobody,
          list |-> {}, left |-> 0]

Resident(k)       == \E d \in Databases : runtimes[d] = k
Flight(k)         == {d \in Databases : loads[d] = k}
NonDefault(rt)    == {d \in Databases \ {Default} : rt[d] # Nobody}
Evictable(rt, ls) == {d \in NonDefault(rt) : ls[d] = 0}

Move(p, l, j) == /\ pc'  = [pc EXCEPT ![p] = l]
                 /\ job' = [job EXCEPT ![p] = j]
Raise(p)      == Move(p, "idle", NoJob)

\* The call of process p returns: a user goes on with its lease, a mover with the
\* databases it has still to unload.
Arrive(p, j) ==
  \/ j.op = "lease" /\ Move(p, "using", [j EXCEPT !.svc = Nobody, !.list = {}, !.left = 0])
  \/ j.op = "move"  /\ Move(p, "clearing", [j EXCEPT !.svc = Nobody])
  \/ j.op \notin {"lease", "move"} /\ Move(p, "idle", NoJob)

-----------------------------------------------------------------------------
\* sweep_runtimes.

\* Candidates are picked under the lock; the pins are queried if there are any.
Sweep(p, j, rt, ls, protect) ==
  LET c == Evictable(rt, ls) \ protect IN
  IF c = {} THEN Arrive(p, j)
  ELSE Move(p, "pinning", [j EXCEPT !.list = c, !.left = Cardinality(NonDefault(rt))])

\* One turn of the last loop, over victims that are ready: the others it passes
\* on its way are skipped for good.
EvictOf(p, victims, ready) ==
  \/ /\ ready = {}
     /\ Arrive(p, job[p])
     /\ UNCHANGED <<runtimes, asleep>>
  \/ \E d \in ready, skipped \in SUBSET (victims \ ready) :
       /\ runtimes' = [runtimes EXCEPT ![d] = Nobody]
       /\ asleep'   = {}
       /\ Move(p, "evicting", [job[p] EXCEPT !.svc = runtimes[d], !.left = 0,
                                             !.list = victims \ ({d} \cup skipped)])

EvictStale(p, victims) == EvictOf(p, victims, {d \in victims : runtimes[d] # Nobody})

\* What was leased or unloaded since it was picked is left alone.
Evict(p, victims) == EvictOf(p, victims, victims \cap Evictable(runtimes, leases))

AtMost(n, m) == IF n < m THEN n ELSE m
ExcessLate(n) == IF n > Capacity + 1 THEN n - Capacity ELSE 0
Excess(n)     == IF n > Capacity THEN n - Capacity ELSE 0

\* Idle candidates go first, then as many as are over the capacity.  Only the
\* periodic sweep expires idle runtimes, and a pinned one does not go.
PinsAnswered(p) ==
  /\ pc[p] = "pinning"
  /\ \E pins \in SUBSET (MayPin \cap job[p].list) :
       \E old \in SUBSET (job[p].list \ pins) :
         LET rest == (job[p].list \ pins) \ old
             over == Excess(job[p].left - Cardinality(old)) IN
         /\ job[p].op # "sweep" => old = {}
         /\ \E more \in SUBSET rest :
              /\ Cardinality(more) = AtMost(over, Cardinality(rest))
              /\ Evict(p, old \cup more)
  /\ UNCHANGED <<leases, loads, service, life, lost>>

Evicted(p) ==
  /\ pc[p] = "evicting"
  /\ status' = [status EXCEPT ![job[p].svc] = "gone"]
  /\ Evict(p, job[p].list)
  /\ UNCHANGED <<leases, loads, finals, discarded, life, lost>>

\* The periodic sweep.
SweepBegins ==
  /\ phase = "open" /\ pc[Sweeper] = "idle"
  /\ Evictable(runtimes, leases) # {}
  /\ Sweep(Sweeper, [NoJob EXCEPT !.op = "sweep"], runtimes, leases, {})
  /\ UNCHANGED <<table, service, life, asleep, lost>>

-----------------------------------------------------------------------------
\* _runtime_or_load.

\* A service that nobody refers to stands for a new one.
Fresh == {k \in Services : /\ status[k] # "building"
                           /\ ~Resident(k) /\ Flight(k) = {}
                           /\ k \notin finals \cup discarded \cup shutting
                           /\ \A p \in Procs : k \notin {job[p].svc, job[p].lease}}
New   == CHOOSE k \in Fresh : TRUE


CountedLate(j) == leases

\* The service c is returned for job j: an acquire counts a lease.
Counted(j)    == IF j.op = "lease" THEN [leases EXCEPT ![j.db] = @ + 1] ELSE leases
Leasing(j, c) == IF j.op = "lease" THEN [j EXCEPT !.lease = c] ELSE j

\* Every caller launches a task of its own.
JoinNone(p, j) == /\ Fresh # {}
                  /\ loads'  = [loads EXCEPT ![j.db] = New]
                  /\ status' = [status EXCEPT ![New] = "building"]
                  /\ Move(p, "loading", [j EXCEPT !.svc = New])

\* One load per database: whoever comes later joins it.
Join(p, j) ==
  \/ /\ loads[j.db] # Nobody
     /\ Move(p, "loading", [j EXCEPT !.svc = loads[j.db]])
     /\ UNCHANGED <<loads, status>>
  \/ /\ loads[j.db] = Nobody /\ Fresh # {}
     /\ loads'  = [loads EXCEPT ![j.db] = New]
     /\ status' = [status EXCEPT ![New] = "building"]
     /\ Move(p, "loading", [j EXCEPT !.svc = New])

\* New loads are for nobody while the manager closes, and for the owner alone
\* while loading is suspended.
MayLoadAnyway(p) == phase = "open"
MayLoad(p) == owner \in {Nobody, p} /\ phase = "open"

Enter(p, j) ==
  LET d == j.db IN
  \/ /\ runtimes[d] # Nobody
     /\ leases' = Counted(j)
     /\ Arrive(p, Leasing(j, runtimes[d]))
     /\ UNCHANGED <<loads, status>>
  \/ /\ runtimes[d] = Nobody /\ (loads[d] # Nobody \/ MayLoad(p))
     /\ Join(p, j)
     /\ UNCHANGED leases
  \/ /\ runtimes[d] = Nobody /\ loads[d] = Nobody /\ ~MayLoad(p)
     /\ Raise(p)
     /\ UNCHANGED <<leases, loads, status>>

\* acquire_runtime and get_runtime.
Ask(p, d, o) ==
  /\ phase # "closed" /\ pc[p] = "idle"
  /\ Enter(p, [NoJob EXCEPT !.op = o, !.db = d])
  /\ UNCHANGED <<runtimes, finals, discarded, life, asleep, lost>>

\* After a load of any other database than the default, the capacity is restored.
Converge(p, j, rt, ls) ==
  IF j.db = Default THEN Arrive(p, j) ELSE Sweep(p, j, rt, ls, {j.db})

\* The service c stays; one that was built for nothing is closed first.
Keep(p, c) ==
  /\ leases' = Counted(job[p])
  /\ IF c = job[p].svc
       THEN Converge(p, [Leasing(job[p], c) EXCEPT !.svc = Nobody], runtimes', leases')
       ELSE Move(p, "discarding", Leasing(job[p], c))

Failed    == {"failed", "cancelled"}
Landed(k) == [d \in Databases |-> IF loads[d] = k THEN Nobody ELSE loads[d]]

\* The task raised; one that was cancelled is left to its finalizer.
LoadFailed(p) ==
  /\ pc[p] = "loading" /\ status[job[p].svc] \in Failed
  /\ loads' = IF status[job[p].svc] = "failed" THEN Landed(job[p].svc) ELSE loads
  /\ Raise(p)
  /\ UNCHANGED <<runtimes, leases, service, life, asleep, lost>>

\* The task this process waited for has built its service.
Loaded(p) ==
  LET k == job[p].svc
      d == job[p].db IN
  /\ pc[p] = "loading" /\ status[k] \notin {"building"} \cup Failed
  /\ \/ /\ runtimes[d] # Nobody
        /\ loads' = Landed(k)
        /\ UNCHANGED <<runtimes, status>>
        /\ Keep(p, runtimes[d])
     \/ /\ runtimes[d] = Nobody /\ loads[d] = k /\ phase = "open"
        /\ loads'    = Landed(k)
        /\ runtimes' = [runtimes EXCEPT ![d] = k]
        /\ Keep(p, k)
        /\ UNCHANGED status
     \/ /\ runtimes[d] = Nobody /\ loads[d] = k /\ phase # "open"
        /\ loads' = Landed(k)
        /\ Move(p, "refusing", job[p])
        /\ UNCHANGED <<runtimes, leases, status>>
     \* adopted and unloaded in the meantime
     \/ /\ runtimes[d] = Nobody /\ loads[d] # k
        /\ Enter(p, [job[p] EXCEPT !.svc = Nobody])
        /\ UNCHANGED runtimes
  /\ UNCHANGED <<finals, discarded, life, asleep, lost>>

\* The service that was built for nothing is closed.
Discarded(p) ==
  /\ pc[p] \in {"discarding", "refusing"}
  /\ status' = [status EXCEPT ![job[p].svc] = "gone"]
  /\ \/ pc[p] = "refusing" /\ Raise(p)
     \/ /\ pc[p] = "discarding"
        /\ Converge(p, [job[p] EXCEPT !.svc = Nobody], runtimes, leases)
  /\ UNCHANGED <<table, finals, discarded, life, asleep, lost>>

\* The end of _build_runtime; what it opened is closed when it fails.
BuildEnds(k) ==
  /\ status[k] = "building"
  /\ \E s \in {"built", "failed"} : status' = [status EXCEPT ![k] = s]
  /\ finals' = finals \cup {k}
  /\ UNCHANGED <<table, discarded, life, asleep, pc, job, lost>>

\* _finalize_runtime_load.
FinalizeWith(k, closes) ==
  LET ready == {d \in Flight(k) : runtimes[d] = Nobody /\ phase = "open"}
      adopt == status[k] \notin Failed /\ ready # {} IN
  /\ k \in finals
  /\ finals'    = finals \ {k}
  /\ loads'     = Landed(k)
  /\ runtimes'  = [d \in Databases |-> IF adopt /\ d \in ready THEN k ELSE runtimes[d]]
  /\ discarded' = IF closes /\ status[k] \notin Failed /\ ~adopt /\ ~Resident(k)
                    THEN discarded \cup {k} ELSE discarded
  /\ asleep' = {}
  /\ UNCHANGED <<leases, status, life, pc, job, lost>>

\* The service is adopted if its flight is still that of a database which has
\* none; otherwise it is closed, unless a waiter has adopted it.
Finalize(k) == FinalizeWith(k, TRUE)

FinalizerClosed(k) ==
  /\ k \in discarded
  /\ discarded' = discarded \ {k}
  /\ status' = [status EXCEPT ![k] = "gone"]
  /\ UNCHANGED <<table, finals, life, asleep, pc, job, lost>>

-----------------------------------------------------------------------------
\* release_runtime.

UncountedAll(d) == [leases EXCEPT ![d] = 0]
Uncounted(d)    == [leases EXCEPT ![d] = IF @ > 0 THEN @ - 1 ELSE 0]

ReleaseQuietly(p) ==
  LET j == [NoJob EXCEPT !.op = "release"] IN
  /\ pc[p] = "using"
  /\ leases' = IF runtimes[job[p].db] = Nobody THEN leases ELSE Uncounted(job[p].db)
  /\ Arrive(p, j)
  /\ UNCHANGED <<runtimes, loads, service, life, asleep, lost>>

\* The last lease of a runtime restores the capacity.
Release(p) ==
  LET d == job[p].db
      j == [NoJob EXCEPT !.op = "release"] IN
  /\ pc[p] = "using"
  /\ \/ /\ runtimes[d] = Nobody
        /\ Arrive(p, j)
        /\ UNCHANGED <<leases, asleep>>
     \/ /\ runtimes[d] # Nobody
        /\ leases' = Uncounted(d)
        /\ asleep' = {}
        /\ IF leases'[d] = 0 /\ Cardinality(NonDefault(runtimes)) > Capacity
             THEN Sweep(p, j, runtimes, leases', {})
             ELSE Arrive(p, j)
  /\ UNCHANGED <<runtimes, loads, service, life, lost>>

-----------------------------------------------------------------------------
\* unload_runtime.

UnloadAtOnce(p, j) ==
  /\ runtimes' = [runtimes EXCEPT ![j.db] = Nobody]
  /\ leases'   = [leases EXCEPT ![j.db] = 0]
  /\ asleep'   = {}
  /\ IF runtimes[j.db] = Nobody
       THEN Arrive(p, j)
       ELSE Move(p, "unloading", [j EXCEPT !.svc = runtimes[j.db]])

\* Wait for the leases, and take the runtime out.
UnloadTurn(p, j) ==
  \/ /\ runtimes[j.db] # Nobody /\ leases[j.db] > 0
     /\ Move(p, "waiting", j)
     /\ asleep' = asleep \cup {p}
     /\ UNCHANGED <<runtimes, leases>>
  \/ /\ runtimes[j.db] = Nobody \/ leases[j.db] = 0
     /\ UnloadAtOnce(p, j)

Unload(p, d) ==
  /\ phase # "closed" /\ pc[p] = "idle"
  /\ UnloadTurn(p, [NoJob EXCEPT !.op = "unload", !.db = d])
  /\ UNCHANGED <<loads, service, life, lost>>

TryAgain(p) ==
  /\ pc[p] = "waiting" /\ p \notin asleep
  /\ UnloadTurn(p, job[p])
  /\ UNCHANGED <<loads, service, life, lost>>

Unloaded(p) ==
  /\ pc[p] = "unloading"
  /\ status' = [status EXCEPT ![job[p].svc] = "gone"]
  /\ Arrive(p, job[p])
  /\ UNCHANGED <<table, finals, discarded, life, asleep, lost>>

-----------------------------------------------------------------------------
\* A backup import: suspend_runtime_loading, _close_runtimes and, when the
\* directories are replaced, resume_runtime_loading.

Suspend(p) ==
  /\ phase = "open" /\ pc[p] = "idle"
  /\ owner'  = p
  /\ asleep' = {}
  /\ Move(p, "draining", [NoJob EXCEPT !.op = "move"])
  /\ UNCHANGED <<table, service, phase, shutting, lost>>

DrainNothing(p) ==
  /\ pc[p] = "draining"
  /\ Move(p, "clearing", [job[p] EXCEPT !.list = {d \in Databases : runtimes[d] # Nobody}])
  /\ UNCHANGED <<table, service, life, asleep, lost>>

\* No load is left, and the resident runtimes are listed.
Drain(p) ==
  /\ pc[p] = "draining"
  /\ \A d \in Databases : loads[d] = Nobody
  /\ Move(p, "clearing", [job[p] EXCEPT !.list = {d \in Databases : runtimes[d] # Nobody}])
  /\ UNCHANGED <<table, service, life, asleep, lost>>

ClearNext(p) ==
  /\ pc[p] = "clearing"
  /\ \E d \in job[p].list :
       UnloadTurn(p, [job[p] EXCEPT !.db = d, !.list = @ \ {d}])
  /\ UNCHANGED <<loads, service, life, lost>>

Cleared(p) ==
  /\ pc[p] = "clearing" /\ job[p].list = {}
  /\ Move(p, "replacing", job[p])
  /\ UNCHANGED <<table, service, life, asleep, lost>>

Resume(p) ==
  /\ pc[p] = "replacing"
  /\ owner'  = Nobody
  /\ asleep' = {}
  /\ Raise(p)
  /\ UNCHANGED <<table, service, phase, shutting, lost>>

-----------------------------------------------------------------------------
\* Failure and cancellation at an await.

Interrupted(p) == \/ MayFail   /\ pc[p] = "pinning"
                  \/ MayCancel /\ p \notin {Sweeper, Closer} \cup Movers
                               /\ pc[p] \in {"loading", "pinning", "evicting", "discarding",
                                             "refusing", "waiting", "unloading"}

Closing(p, k) == /\ pc[p] \in {"evicting", "discarding", "refusing", "unloading"}
                 /\ job[p].svc = k

Cut(p) == [k \in Services |-> IF Closing(p, k) /\ status[k] = "built" THEN "cut" ELSE status[k]]

\* A lease that was counted before is lost: runtime_lease has not entered its try.
\* A service whose close was cut off stays as it is.
Interrupt(p) ==
  LET leak == job[p].op = "lease" /\ job[p].lease # Nobody IN
  /\ Interrupted(p)
  /\ leak => lost[job[p].db] < MaxLost
  /\ lost'   = IF leak THEN [lost EXCEPT ![job[p].db] = @ + 1] ELSE lost
  /\ status' = Cut(p)
  /\ asleep' = asleep \ {p}
  /\ Raise(p)
  /\ UNCHANGED <<table, finals, discarded, life>>

-----------------------------------------------------------------------------
\* close().

Close ==
  /\ MayClose /\ phase = "open"
  /\ phase' = "closing"
  /\ Move(Closer, "sweeper", NoJob)
  /\ UNCHANGED <<table, service, owner, shutting, asleep, lost>>

\* The sweeper is cancelled wherever it is.
SweeperStops ==
  /\ pc[Closer] = "sweeper"
  /\ status' = Cut(Sweeper)
  /\ pc'  = [pc EXCEPT ![Closer] = "jobs", ![Sweeper] = "stopped"]
  /\ job' = [job EXCEPT ![Sweeper] = NoJob]
  /\ UNCHANGED <<table, finals, discarded, life, asleep, lost>>

\* The jobs are closed, and the loads are cancelled.
CancelLoads ==
  LET cancelled == {k \in Services : Flight(k) # {} /\ status[k] = "building"} IN
  /\ pc[Closer] = "jobs"
  /\ status' = [k \in Services |-> IF k \in cancelled THEN "cancelled" ELSE status[k]]
  /\ finals' = finals \cup cancelled
  /\ Move(Closer, "gather", NoJob)
  /\ UNCHANGED <<table, discarded, life, asleep, lost>>

\* Every finalizer has ended: the resident services are closed.
LoadsGathered ==
  /\ pc[Closer] = "gather" /\ finals = {} /\ discarded = {}
  /\ loads'    = [d \in Databases |-> Nobody]
  /\ shutting' = {runtimes[d] : d \in Databases} \ {Nobody}
  /\ Move(Closer, "closing", NoJob)
  /\ UNCHANGED <<runtimes, leases, service, owner, phase, asleep, lost>>

ClosedAll ==
  /\ pc[Closer] = "closing"
  /\ status'   = [k \in Services |-> IF k \in shutting THEN "gone" ELSE status[k]]
  /\ runtimes' = [d \in Databases |-> Nobody]
  /\ leases'   = [d \in Databases |-> 0]
  /\ shutting' = {} /\ phase' = "closed"
  /\ Move(Closer, "done", NoJob)
  /\ UNCHANGED <<loads, finals, discarded, owner, asleep, lost>>

-----------------------------------------------------------------------------
Init ==
  /\ runtimes = [d \in Databases |-> Nobody]
  /\ leases   = [d \in Databases |-> 0]
  /\ loads    = [d \in Databases |-> Nobody]
  /\ status   = [k \in Services |-> "gone"]
  /\ finals = {} /\ discarded = {} /\ shutting = {}
  /\ owner = Nobody /\ phase = "open"
  /\ asleep = {}
  /\ pc  = [p \in Procs |-> "idle"]
  /\ job = [p \in Procs |-> NoJob]
  /\ lost = [d \in Databases |-> 0]

LoadStep(p) == LoadFailed(p) \/ Loaded(p) \/ Discarded(p) \/ PinsAnswered(p) \/ Evicted(p)

UnloadStep(p) == \/ TryAgain(p) \/ Unloaded(p)
                 \/ Drain(p) \/ ClearNext(p) \/ Cleared(p) \/ Resume(p)

TaskStep(k) == BuildEnds(k) \/ Finalize(k) \/ FinalizerClosed(k)

CloseStep == SweeperStops \/ CancelLoads \/ LoadsGathered \/ ClosedAll

Next == \/ \E p \in Users, d \in Databases : Ask(p, d, "lease") \/ Ask(p, d, "get")
        \/ \E p \in Users : Release(p)
        \/ \E p \in Unloaders, d \in Databases : Unload(p, d)
        \/ \E p \in Movers : Suspend(p)
        \/ \E p \in Procs : LoadStep(p) \/ UnloadStep(p) \/ Interrupt(p)
        \/ \E k \in Services : TaskStep(k)
        \/ SweepBegins \/ Close \/ CloseStep

\* Coroutines that are ready run, a load and a close end, the sweeper's timer
\* fires and its query does not fail every time, and whoever leased a runtime
\* gives it back (a finally does).
Fairness == /\ \A p \in Users : WF_vars(Release(p))
            /\ \A p \in Procs : WF_vars(LoadStep(p)) /\ WF_vars(UnloadStep(p))
            /\ \A k \in Services : WF_vars(TaskStep(k))
            /\ WF_vars(SweepBegins) /\ SF_vars(PinsAnswered(Sweeper))
            /\ WF_vars(CloseStep)

Spec     == Init /\ [][Next]_vars
FairSpec == Spec /\ Fairness

-----------------------------------------------------------------------------
\* Properties.

Jobs == [op : {"", "lease", "get", "release", "sweep", "unload", "move"},
         db : Databases, svc : Services \cup {Nobody}, lease : Services \cup {Nobody},
         list : SUBSET Databases, left : Nat]

TypeOK ==
  /\ runtimes \in [Databases -> Services \cup {Nobody}]
  /\ leases \in [Databases -> Nat]
  /\ \A d \in Databases : leases[d] > 0 => runtimes[d] # Nobody
  /\ loads \in [Databases -> Services \cup {Nobody}]
  /\ status \in [Services -> {"gone", "building", "built", "cut"} \cup Failed]
  /\ finals \subseteq Services /\ discarded \subseteq Services /\ shutting \subseteq Services
  /\ owner \in Movers \cup {Nobody}
  /\ phase \in {"open", "closing", "closed"}
  /\ pc \in [Procs -> {"idle", "loading", "discarding", "refusing", "pinning", "evicting",
                       "using", "waiting", "unloading", "draining", "clearing", "replacing",
                       "stopped", "sweeper", "jobs", "gather", "closing", "done"}]
  /\ job \in [Procs -> Jobs]
  /\ \A p \in asleep : p \in Procs /\ pc[p] = "waiting"
  /\ lost \in [Databases -> 0 .. MaxLost]

\* Somebody is closing service k.
BeingClosed(k) == k \in discarded \cup shutting \/ \E p \in Procs : Closing(p, k)

\* A leased runtime stays the resident one and stays open: no eviction, unload or
\* late load takes it away, until the whole manager is closed.
LeasedStaysOpen ==
  phase = "open" =>
    \A p \in Users : job[p].lease # Nobody =>
      /\ runtimes[job[p].db] = job[p].lease
      /\ status[job[p].lease] = "built" /\ ~BeingClosed(job[p].lease)

Holders(d) == {p \in Users : job[p].lease # Nobody /\ job[p].db = d}

\* lease_count is the number of coroutines that hold a lease or are about to get
\* one, and of the leases that were lost: it never falls below what is in use.
LeasesAreCounted ==
  phase # "closed" =>
    \A d \in Databases : leases[d] = Cardinality(Holders(d)) + lost[d]

\* One load per database at a time, and none for a database that is resident.
SingleFlight ==
  \A k \in Services : status[k] = "building" =>
    /\ Flight(k) # {}
    /\ \A d \in Flight(k) : runtimes[d] = Nobody

\* What a coroutine that leases a runtime relies on: it stays open, it is counted,
\* and there is one runtime per database.
LeaseSafety == LeasedStaysOpen /\ LeasesAreCounted /\ SingleFlight

\* No service is forgotten: one that is open is resident, or somebody is closing
\* it, or the finalizer of its load will adopt it or close it.
NoRuntimeLeaks ==
  \A k \in Services : status[k] = "built" => Resident(k) \/ BeingClosed(k) \/ k \in finals

\* While directories are replaced nothing loads, nothing is resident and what is
\* still open is being closed.
NothingLoadsWhileMoved ==
  \A p \in Movers : pc[p] = "replacing" =>
    /\ \A d \in Databases : runtimes[d] = Nobody /\ loads[d] = Nobody
    /\ \A k \in Services : status[k] # "building" /\ (status[k] = "built" => BeingClosed(k))

\* Both: no service escapes the table, and none is in it while directories change.
NothingEscapes == NoRuntimeLeaks /\ NothingLoadsWhileMoved

\* No wake-up is lost: a coroutine sleeps in unload_runtime only while a lease is
\* out.  (close() clears the table without a word, at the end of the process.)
NoLostWakeup ==
  phase # "closed" => \A p \in asleep : leases[job[p].db] > 0

\* Once the users are quiet every unload ends, unless a lease was lost or the
\* manager was closed meanwhile.
UnloadEnds ==
  <>[](\A u \in Users : pc[u] = "idle") =>
    \A p \in Unloaders \cup Movers : []<>(pc[p] # "waiting" \/ lost[job[p].db] > 0 \/ phase = "closed")

\* Suspending comes to an end whatever the users keep asking for.
SuspensionDrains == \A p \in Movers : pc[p] = "draining" ~> pc[p] # "draining"

\* unload_runtime and suspend_runtime_loading never wait for ever.
WaitsEnd == UnloadEnds /\ SuspensionDrains

\* Once everybody is quiet the runtimes fit the capacity, also when waiters gave
\* up and leases overflowed it before; only pinned or lost ones may exceed it.
Converges ==
  <>[](\A p \in Callers : pc[p] = "idle") =>
    <>[](\/ Cardinality(NonDefault(runtimes)) <= Capacity
         \/ \A d \in NonDefault(runtimes) : d \in MayPin \/ lost[d] > 0)
=============================================================================
