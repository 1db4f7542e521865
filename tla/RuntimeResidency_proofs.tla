----------------------- MODULE RuntimeResidency_proofs -----------------------
(***************************************************************************)
(* Theorems of RuntimeResidency for any number of databases, users,        *)
(* unloaders and services, and any capacity.                               *)
(*                                                                         *)
(* The inductive invariant is IInv.  Every action moves at most one        *)
(* coroutine, so the operators that say where it goes (Arrive, Sweep,      *)
(* Evict, Enter, Keep, UnloadTurn) are described once, by lemmas, and the  *)
(* parts of the invariant are proved from those descriptions.              *)
(***************************************************************************)
EXTENDS RuntimeResidency, FiniteSetTheorems, TLAPS

Resting == {"idle", "stopped", "sweeper", "jobs", "gather", "closing", "done"}
Closes  == {"evicting", "discarding", "refusing", "unloading"}

\* Where a coroutine with a call j can be, and what it holds there.
Fits(p, l, j) ==
  /\ j.op = "" <=> l \in Resting
  /\ j.op = "lease" => p \in Users /\ l \in {"loading", "pinning", "evicting", "discarding",
                                             "refusing", "using"}
  /\ j.op = "get" => l \in {"loading", "pinning", "evicting", "discarding", "refusing"}
  /\ j.op \in {"release", "sweep"} => l \in {"pinning", "evicting"}
  /\ j.op = "unload" => l \in {"waiting", "unloading"}
  /\ j.op = "move" => p \in Movers /\ l \in {"draining", "waiting", "unloading", "clearing",
                                             "replacing"}
  /\ p = Sweeper => j.op \in {"", "sweep"} /\ l \in {"idle", "stopped", "pinning", "evicting"}
  /\ j.op = "sweep" => p = Sweeper
  /\ IF p = Closer THEN l \in {"idle", "sweeper", "jobs", "gather", "closing", "done"}
                   ELSE l \notin {"sweeper", "jobs", "gather", "closing", "done"}
  /\ j.lease # Nobody <=> j.op = "lease" /\ l \in {"using", "pinning", "evicting", "discarding"}
  /\ j.svc # Nobody <=> l \in Closes \cup {"loading"}

Roles == /\ \A p \in Procs : Fits(p, pc[p], job[p])
         /\ phase = "open" <=> pc[Closer] = "idle"

\* A service is of one database, resident or in flight but not both.
Placed ==
  /\ \A d, e \in Databases : d # e /\ runtimes[d] # Nobody => runtimes[d] # runtimes[e]
  /\ \A d, e \in Databases : d # e /\ loads[d] # Nobody => loads[d] # loads[e]
  /\ \A d, e \in Databases : runtimes[d] # Nobody => runtimes[d] # loads[e]

\* What is resident is open, what is in flight is being built or has just been.
Stated ==
  /\ \A d \in Databases : runtimes[d] # Nobody => status[runtimes[d]] = "built"
  /\ \A d \in Databases : loads[d] # Nobody =>
       status[loads[d]] \in {"building", "built"} \cup Failed

\* What somebody is closing cannot be found any more.
Apart ==
  /\ \A k \in discarded : ~Resident(k) /\ Flight(k) = {}
  /\ \A p \in Procs, k \in Services : Closing(p, k) => ~Resident(k) /\ Flight(k) = {}
  /\ \A k \in shutting : Flight(k) = {}

\* The service that a coroutine waits for is of no other database than the one it wants.
Waits ==
  \A p \in Procs : pc[p] = "loading" =>
    \A d \in Databases : job[p].svc \in {runtimes[d], loads[d]} => d = job[p].db

\* Loads end before the services are closed at shutdown.
Flights ==
  /\ SingleFlight
  /\ \A k \in finals : status[k] # "building"
  /\ pc[Closer] \in {"gather", "closing", "done"} => \A k \in Services : status[k] # "building"

\* The finalizer of a load finds its service while it is in flight; at shutdown the
\* resident ones are all being closed.
Known ==
  /\ \A k \in Services : status[k] = "built" =>
        Resident(k) \/ BeingClosed(k) \/ (k \in finals /\ Flight(k) # {})
  /\ pc[Closer] # "closing" => shutting = {}
  /\ pc[Closer] = "closing" => \A d \in Databases : runtimes[d] \in shutting \cup {Nobody}

Tables == Placed /\ Stated /\ Apart /\ Waits /\ Flights /\ Known

\* A lease is of the resident runtime.
Held == phase # "closed" =>
  \A p \in Users : job[p].lease # Nobody => runtimes[job[p].db] = job[p].lease

\* While a backup import has the runtimes, nothing loads and all that is resident is
\* on its list, but for the database whose leases it waits for.
Still(p) ==
  /\ owner = p
  /\ pc[p] # "draining" =>
      /\ \A d \in Databases : loads[d] = Nobody
      /\ \A d \in Databases : runtimes[d] # Nobody =>
           d \in job[p].list \/ (pc[p] = "waiting" /\ d = job[p].db)
  /\ pc[p] = "replacing" => job[p].list = {}
Moved == \A p \in Procs : job[p].op = "move" => Still(p)

Counts == Held /\ LeasesAreCounted /\ NoLostWakeup

IInv == TypeOK /\ Roles /\ Tables /\ Counts

\* Backup imports do not meet.  The code does not see to that: import_prag_package only
\* refuses while jobs run, suspend_runtime_loading replaces the owner it finds, and
\* resume_runtime_loading ends every suspension.  What is said of a replacement of the
\* directories is said under this condition, and nothing else is.
OneImport == \A m, n \in Movers : m = n
-----------------------------------------------------------------------------
\* Types, and where a coroutine is.

Labels == {"idle", "loading", "discarding", "refusing", "pinning", "evicting", "using",
           "waiting", "unloading", "draining", "clearing", "replacing", "stopped",
           "sweeper", "jobs", "gather", "closing", "done"}

\* NoJob is a job, without service and without lease.
LEMMA NoJobType == NoJob \in Jobs /\ NoJob.op = "" /\ NoJob.svc = Nobody /\ NoJob.lease = Nobody
BY ResidencyAssumption DEF NoJob, Jobs, AnyDatabase

\* How many databases are resident is a number.
LEMMA CountType == \A rt : Cardinality(NonDefault(rt)) \in Nat
<1> TAKE rt
<1>1. IsFiniteSet(NonDefault(rt))
  BY ResidencyAssumption, FS_Subset DEF NonDefault
<1> QED BY <1>1, FS_CardinalityType

\* A call whose result is there: a lease has its service.
Ready(p, j) ==
  /\ p \in Procs /\ p # Closer
  /\ j \in Jobs /\ j.op # ""
  /\ j.op = "lease" => p \in Users
  /\ j.lease # Nobody <=> j.op = "lease"
  /\ j.op = "move" => p \in Movers
  /\ p = Sweeper <=> j.op = "sweep"

\* Where it goes to: it waits for the pins, or its coroutine goes on.
Goes(p, j, l, k) ==
  /\ l \in {"idle", "using", "clearing", "pinning"}
  /\ k \in Jobs /\ Fits(p, l, k) /\ k.svc = Nobody
  /\ IF j.op \in {"lease", "move"}
       THEN k.op = j.op /\ k.db = j.db /\ k.lease = j.lease
       ELSE k.op \in {"", j.op} /\ k.lease = Nobody
  /\ j.op = "move" => l = "clearing" /\ k.list = j.list

\* A coroutine that arrives goes on with its job.
LEMMA ArriveGoes ==
  ASSUME NEW p, NEW j, Ready(p, j), Arrive(p, j)
  PROVE  \E l, k : l # "pinning" /\ Goes(p, j, l, k) /\ Move(p, l, k)
<1> USE NoJobType, ResidencyAssumption DEF Ready
<1>1. CASE j.op = "lease"
  <2> DEFINE k == [j EXCEPT !.svc = Nobody, !.list = {}, !.left = 0]
  <2>1. Move(p, "using", k)
    BY <1>1 DEF Arrive
  <2>2. k \in Jobs /\ k.op = j.op /\ k.db = j.db /\ k.lease = j.lease /\ k.svc = Nobody
    BY DEF Jobs
  <2> HIDE DEF k
  <2>3. Goes(p, j, "using", k)
    BY <1>1, <2>2 DEF Goes, Fits, Resting, Closes
  <2> QED BY <2>1, <2>3
<1>2. CASE j.op = "move"
  <2> DEFINE k == [j EXCEPT !.svc = Nobody]
  <2>1. Move(p, "clearing", k)
    BY <1>2 DEF Arrive
  <2>2. k \in Jobs /\ k.op = j.op /\ k.db = j.db /\ k.lease = j.lease /\ k.svc = Nobody
        /\ k.list = j.list
    BY DEF Jobs
  <2> HIDE DEF k
  <2>3. Goes(p, j, "clearing", k)
    BY <1>2, <2>2 DEF Goes, Fits, Resting, Closes
  <2> QED BY <2>1, <2>3
<1>3. CASE j.op \notin {"lease", "move"}
  <2>1. Move(p, "idle", NoJob)
    BY <1>3 DEF Arrive
  <2>2. Goes(p, j, "idle", NoJob)
    BY <1>3 DEF Goes, Fits, Resting, Closes
  <2> QED BY <2>1, <2>2
<1> QED BY <1>1, <1>2, <1>3

\* A sweep takes a service out, or arrives.
LEMMA SweepGoes ==
  ASSUME NEW p, NEW j, NEW rt, NEW ls, NEW protect,
         Ready(p, j), j.op \in {"lease", "get", "release", "sweep"}, j.svc = Nobody,
         Sweep(p, j, rt, ls, protect)
  PROVE  \E l, k : Goes(p, j, l, k) /\ Move(p, l, k)
<1> DEFINE c == Evictable(rt, ls) \ protect
           k == [j EXCEPT !.list = c, !.left = Cardinality(NonDefault(rt))]
<1>1. CASE c = {}
  BY <1>1, ArriveGoes DEF Sweep
<1>2. CASE c # {}
  <2>1. Move(p, "pinning", k)
    BY <1>2 DEF Sweep
  <2>2. c \in SUBSET Databases
    BY DEF Evictable, NonDefault
  <2>3. k \in Jobs /\ k.op = j.op /\ k.db = j.db /\ k.lease = j.lease /\ k.svc = Nobody
    BY <2>2, CountType DEF Jobs, Ready
  <2> HIDE DEF k
  <2>4. Goes(p, j, "pinning", k)
    BY <2>3, ResidencyAssumption DEF Goes, Fits, Resting, Closes, Ready
  <2> QED BY <2>1, <2>4
<1> QED BY <1>1, <1>2

\* What a coroutine at the end of a sweep, a load or an unload relies on.
LEMMA ReadyAt ==
  ASSUME TypeOK, Roles, NEW p \in Procs,
         pc[p] \in {"pinning", "evicting", "discarding", "unloading", "clearing"}
  PROVE  Ready(p, job[p])
BY ResidencyAssumption DEF TypeOK, Roles, Fits, Ready, Resting, Closes

\* A coroutine p that sweeps goes on with k at l: it is done, or closes a service.
Evicts(p, l, k) ==
  /\ Move(p, l, k)
  /\ \/ /\ Goes(p, job[p], l, k)
        /\ l # "pinning"
        /\ UNCHANGED <<runtimes, asleep>>
     \/ /\ l = "evicting" /\ k \in Jobs /\ Fits(p, l, k)
        /\ k.op = job[p].op /\ k.db = job[p].db /\ k.lease = job[p].lease
        /\ asleep' = {}
        /\ \E d \in Databases : /\ runtimes[d] # Nobody /\ leases[d] = 0
                                /\ k.svc = runtimes[d]
                                /\ runtimes' = [runtimes EXCEPT ![d] = Nobody]

\* One database leaves the table at a time, and only without leases.
LEMMA EvictGoes ==
  ASSUME TypeOK, Roles, NEW p \in Procs, pc[p] \in {"pinning", "evicting"},
         NEW victims \in SUBSET Databases, Evict(p, victims)
  PROVE  \E l, k : Evicts(p, l, k)
<1> DEFINE ready == victims \cap Evictable(runtimes, leases)
<1>1. Ready(p, job[p])
  BY ReadyAt
<1>2. CASE ready = {} /\ Arrive(p, job[p]) /\ UNCHANGED <<runtimes, asleep>>
  <2>1. \E l, k : l # "pinning" /\ Goes(p, job[p], l, k) /\ Move(p, l, k)
    BY <1>1, <1>2, ArriveGoes
  <2> QED BY <1>2, <2>1, Zenon DEF Evicts
<1>3. ASSUME NEW d \in ready, NEW skipped \in SUBSET (victims \ ready),
             runtimes' = [runtimes EXCEPT ![d] = Nobody], asleep' = {},
             Move(p, "evicting", [job[p] EXCEPT !.svc = runtimes[d], !.left = 0,
                                                !.list = victims \ ({d} \cup skipped)])
      PROVE  \E l, k : Evicts(p, l, k)
  <2> DEFINE k == [job[p] EXCEPT !.svc = runtimes[d], !.left = 0,
                                 !.list = victims \ ({d} \cup skipped)]
  <2>1. d \in Databases /\ runtimes[d] # Nobody /\ leases[d] = 0
    BY DEF Evictable, NonDefault
  <2>2. k \in Jobs /\ k.op = job[p].op /\ k.db = job[p].db /\ k.lease = job[p].lease
        /\ k.svc = runtimes[d]
    BY <2>1 DEF TypeOK, Jobs
  <2> HIDE DEF k
  <2>3. Fits(p, "evicting", k)
    BY <2>1, <2>2, ResidencyAssumption DEF Roles, Fits, Resting, Closes
  <2>4. Move(p, "evicting", k)
    BY <1>3 DEF k
  <2> QED BY <1>3, <2>1, <2>2, <2>3, <2>4 DEF Evicts
<1>4. EvictOf(p, victims, ready)
  BY DEF Evict
<1> QED
  <2> HIDE DEF ready
  <2>1. \/ ready = {} /\ Arrive(p, job[p]) /\ UNCHANGED <<runtimes, asleep>>
        \/ \E d \in ready, skipped \in SUBSET (victims \ ready) :
             /\ runtimes' = [runtimes EXCEPT ![d] = Nobody]
             /\ asleep' = {}
             /\ Move(p, "evicting", [job[p] EXCEPT !.svc = runtimes[d], !.left = 0,
                                                   !.list = victims \ ({d} \cup skipped)])
    BY <1>4 DEF EvictOf
  <2> QED BY <1>2, <1>3, <2>1

\* A call that asks for a runtime and has none yet.
Asks(p, j) ==
  /\ p \in Procs \ {Sweeper, Closer}
  /\ j \in Jobs /\ j.op \in {"lease", "get"} /\ (j.op = "lease" => p \in Users)
  /\ j.lease = Nobody /\ j.svc = Nobody

\* A coroutine that asks is ready with the service it leases.
LEMMA LeasingReady ==
  ASSUME NEW p, NEW j, Asks(p, j), NEW c \in Services
  PROVE  LET k == Leasing(j, c)
         IN /\ Ready(p, k) /\ k.op = j.op /\ k.db = j.db /\ k.svc = Nobody
            /\ k.lease = IF j.op = "lease" THEN c ELSE Nobody
<1> DEFINE k == Leasing(j, c)
<1>1. k \in Jobs /\ k.op = j.op /\ k.db = j.db /\ k.svc = Nobody
      /\ k.lease = IF j.op = "lease" THEN c ELSE Nobody
  BY DEF Leasing, Asks, Jobs
<1> HIDE DEF k
<1>2. Ready(p, k)
  BY <1>1, ResidencyAssumption DEF Ready, Asks
<1> QED BY <1>1, <1>2 DEF k

\* A load is for a service nobody refers to.
LEMMA NewFresh == Fresh # {} => New \in Fresh
BY DEF New

\* A call j of p finds the runtime, waits for its load, or is refused.
Finds(p, j, l, k) ==
  /\ Move(p, l, k)
  /\ \/ /\ runtimes[j.db] # Nobody
        /\ leases' = Counted(j)
        /\ Goes(p, Leasing(j, runtimes[j.db]), l, k) /\ l # "pinning"
        /\ UNCHANGED <<loads, status>>
     \/ /\ runtimes[j.db] = Nobody /\ l = "loading" /\ k \in Jobs /\ Fits(p, l, k)
        /\ k.svc \in Services /\ k.op = j.op /\ k.db = j.db /\ k.lease = Nobody
        /\ UNCHANGED leases
        /\ \/ k.svc = loads[j.db] /\ UNCHANGED <<loads, status>>
           \/ /\ loads[j.db] = Nobody /\ MayLoad(p) /\ k.svc \in Fresh
              /\ loads'  = [loads EXCEPT ![j.db] = k.svc]
              /\ status' = [status EXCEPT ![k.svc] = "building"]
     \/ /\ l = "idle" /\ k = NoJob
        /\ UNCHANGED <<leases, loads, status>>

\* _runtime_or_load does one of the three.
LEMMA EnterGoes ==
  ASSUME TypeOK, NEW p, NEW j, Asks(p, j), Enter(p, j)
  PROVE  \E l, k : Finds(p, j, l, k)
<1> USE DEF Finds
<1>1. j.db \in Databases
  BY DEF Asks, Jobs
<1>2. CASE /\ runtimes[j.db] # Nobody
           /\ leases' = Counted(j)
           /\ Arrive(p, Leasing(j, runtimes[j.db]))
           /\ UNCHANGED <<loads, status>>
  <2>1. runtimes[j.db] \in Services
    BY <1>1, <1>2 DEF TypeOK
  <2>2. Ready(p, Leasing(j, runtimes[j.db]))
    BY <2>1, LeasingReady
  <2> QED BY <1>2, <2>2, ArriveGoes
<1>3. CASE /\ runtimes[j.db] = Nobody /\ (loads[j.db] # Nobody \/ MayLoad(p))
           /\ Join(p, j)
           /\ UNCHANGED leases
  <2>1. ASSUME NEW k \in Services
        PROVE  LET w == [j EXCEPT !.svc = k]
               IN /\ w \in Jobs /\ Fits(p, "loading", w) /\ w.svc = k
                  /\ w.op = j.op /\ w.db = j.db /\ w.lease = Nobody
    <3> DEFINE w == [j EXCEPT !.svc = k]
    <3>1. w \in Jobs /\ w.svc = k /\ w.op = j.op /\ w.db = j.db /\ w.lease = Nobody
      BY DEF Asks, Jobs
    <3> HIDE DEF w
    <3>2. Fits(p, "loading", w)
      BY <3>1, ResidencyAssumption DEF Asks, Fits, Resting, Closes
    <3> QED BY <3>1, <3>2 DEF w
  <2>2. CASE /\ loads[j.db] # Nobody
             /\ Move(p, "loading", [j EXCEPT !.svc = loads[j.db]])
             /\ UNCHANGED <<loads, status>>
    <3>1. loads[j.db] \in Services
      BY <1>1, <2>2 DEF TypeOK
    <3> QED BY <1>3, <2>1, <2>2, <3>1
  <2>3. CASE /\ loads[j.db] = Nobody /\ Fresh # {}
             /\ loads'  = [loads EXCEPT ![j.db] = New]
             /\ status' = [status EXCEPT ![New] = "building"]
             /\ Move(p, "loading", [j EXCEPT !.svc = New])
    <3>1. New \in Fresh /\ New \in Services
      BY <2>3, NewFresh DEF Fresh
    <3> QED BY <1>3, <2>1, <2>3, <3>1
  <2> QED BY <1>3, <2>2, <2>3 DEF Join
<1>4. CASE /\ runtimes[j.db] = Nobody /\ loads[j.db] = Nobody /\ ~MayLoad(p)
           /\ Raise(p)
           /\ UNCHANGED <<leases, loads, status>>
  BY <1>4 DEF Raise
<1> QED BY <1>2, <1>3, <1>4 DEF Enter

\* A waiter p whose service is c has its lease; a service built for nothing is closed.
Keeps(p, c, l, k) ==
  /\ Move(p, l, k)
  /\ leases' = Counted(job[p])
  /\ IF c = job[p].svc
       THEN Goes(p, Leasing([job[p] EXCEPT !.svc = Nobody], c), l, k)
       ELSE /\ l = "discarding" /\ k \in Jobs /\ Fits(p, l, k)
            /\ k.svc = job[p].svc /\ k.op = job[p].op /\ k.db = job[p].db
            /\ k.lease = IF k.op = "lease" THEN c ELSE Nobody

\* The waiter that goes on is one that asked.
LEMMA KeepGoes ==
  ASSUME TypeOK, Roles, NEW p \in Procs, pc[p] = "loading", NEW c \in Services, Keep(p, c)
  PROVE  \E l, k : Keeps(p, c, l, k)
<1> USE DEF Keeps
<1> DEFINE j == job[p]
           u == [job[p] EXCEPT !.svc = Nobody]
<1>1. /\ j \in Jobs /\ j.op \in {"lease", "get"} /\ (j.op = "lease" => p \in Users)
      /\ j.lease = Nobody /\ j.svc \in Services /\ p \notin {Sweeper, Closer}
  BY ResidencyAssumption DEF TypeOK, Roles, Fits, Jobs, Resting, Closes
<1>2. Asks(p, u) /\ u.op = j.op /\ u.db = j.db
  BY <1>1 DEF Asks, Jobs
<1>3. CASE c = job[p].svc
  <2>1. [Leasing(job[p], c) EXCEPT !.svc = Nobody] = Leasing(u, c)
    BY <1>1, <1>2 DEF Leasing, Jobs
  <2>2. Converge(p, Leasing(u, c), runtimes', leases')
    BY <1>3, <2>1 DEF Keep
  <2>3. Ready(p, Leasing(u, c)) /\ Leasing(u, c).op = j.op /\ Leasing(u, c).svc = Nobody
    BY <1>2, LeasingReady
  <2>4. \E l, k : Goes(p, Leasing(u, c), l, k) /\ Move(p, l, k)
    BY <1>1, <2>2, <2>3, ArriveGoes, SweepGoes DEF Converge
  <2> QED BY <1>3, <2>4 DEF Keep
<1>4. CASE c # job[p].svc
  <2> DEFINE k == Leasing(job[p], c)
  <2>1. Move(p, "discarding", k)
    BY <1>4 DEF Keep
  <2>2. /\ k \in Jobs /\ k.svc = j.svc /\ k.op = j.op /\ k.db = j.db
        /\ k.lease = IF k.op = "lease" THEN c ELSE Nobody
    BY <1>1 DEF Leasing, Jobs
  <2> HIDE DEF k
  <2>3. Fits(p, "discarding", k)
    BY <1>1, <2>2, ResidencyAssumption DEF Fits, Resting, Closes
  <2> QED BY <1>4, <2>1, <2>2, <2>3 DEF Keep
<1> QED BY <1>3, <1>4

\* An unload j of p waits for the leases, or takes the runtime out.
Turns(p, j, l, k) ==
  /\ Move(p, l, k) /\ k \in Jobs /\ Fits(p, l, k)
  /\ \/ /\ l = "waiting" /\ k = j
        /\ runtimes[j.db] # Nobody /\ leases[j.db] > 0
        /\ asleep' = asleep \cup {p}
        /\ UNCHANGED <<runtimes, leases>>
     \/ /\ leases[j.db] = 0
        /\ runtimes' = [runtimes EXCEPT ![j.db] = Nobody]
        /\ UNCHANGED leases
        /\ asleep' = {}
        /\ \/ runtimes[j.db] = Nobody /\ l # "pinning" /\ Goes(p, j, l, k)
           \/ /\ runtimes[j.db] # Nobody /\ l = "unloading"
              /\ k = [j EXCEPT !.svc = runtimes[j.db]]

\* What is not resident has no leases that would be forgotten.
LEMMA TurnGoes ==
  ASSUME TypeOK, NEW p, NEW j, Ready(p, j), j.op \in {"unload", "move"}, j.svc = Nobody,
         UnloadTurn(p, j)
  PROVE  \E l, k : Turns(p, j, l, k)
<1> USE DEF Turns
<1>1. j.db \in Databases
  BY DEF Ready, Jobs
<1>2. CASE /\ runtimes[j.db] # Nobody /\ leases[j.db] > 0
           /\ Move(p, "waiting", j)
           /\ asleep' = asleep \cup {p}
           /\ UNCHANGED <<runtimes, leases>>
  <2>1. Fits(p, "waiting", j)
    BY ResidencyAssumption DEF Ready, Fits, Resting, Closes
  <2> QED BY <1>2, <2>1 DEF Ready
<1>3. CASE /\ runtimes[j.db] = Nobody \/ leases[j.db] = 0
           /\ UnloadAtOnce(p, j)
  <2>1. leases[j.db] = 0 /\ leases' = leases
    BY <1>1, <1>3 DEF UnloadAtOnce, TypeOK
  <2>2. CASE runtimes[j.db] = Nobody
    <3>1. Arrive(p, j)
      BY <1>3, <2>2 DEF UnloadAtOnce
    <3>2. PICK l, k : l # "pinning" /\ Goes(p, j, l, k) /\ Move(p, l, k)
      BY <3>1, ArriveGoes
    <3> QED BY <1>3, <2>1, <2>2, <3>2 DEF UnloadAtOnce, Goes
  <2>3. CASE runtimes[j.db] # Nobody
    <3> DEFINE k == [j EXCEPT !.svc = runtimes[j.db]]
    <3>1. Move(p, "unloading", k)
      BY <1>3, <2>3 DEF UnloadAtOnce
    <3>2. k \in Jobs /\ k.op = j.op /\ k.lease = j.lease /\ k.svc = runtimes[j.db]
      BY <1>1 DEF TypeOK, Jobs, Ready
    <3>3. Fits(p, "unloading", k)
      <4> HIDE DEF k
      <4> QED BY <2>3, <3>2, ResidencyAssumption DEF Ready, Fits, Resting, Closes
    <3> QED BY <1>3, <2>1, <2>3, <3>1, <3>2, <3>3 DEF UnloadAtOnce
  <2> QED BY <2>2, <2>3
<1> QED BY <1>2, <1>3 DEF UnloadTurn

\* What it means that one coroutine moves.
LEMMA MoveIs ==
  ASSUME TypeOK, Roles, NEW p \in Procs, NEW l \in Labels, NEW k \in Jobs, Fits(p, l, k),
         Move(p, l, k)
  PROVE  /\ pc' \in [Procs -> Labels] /\ job' \in [Procs -> Jobs]
         /\ pc'[p] = l /\ job'[p] = k
         /\ \A q \in Procs \ {p} : pc'[q] = pc[q] /\ job'[q] = job[q]
         /\ \A q \in Procs : Fits(q, pc'[q], job'[q])
<1>1. pc' \in [Procs -> Labels] /\ job' \in [Procs -> Jobs]
  BY DEF Move, TypeOK, Labels
<1>2. pc'[p] = l /\ job'[p] = k /\ \A q \in Procs \ {p} : pc'[q] = pc[q] /\ job'[q] = job[q]
  BY DEF Move, TypeOK
<1> QED BY <1>1, <1>2 DEF Roles

\* Who closes and who sweeps are processes.
LEMMA CloserIn == Closer \in Procs /\ Sweeper \in Procs
BY DEF Procs

\* A coroutine that moves, while leases and tables keep their types.
LEMMA MoveTypes ==
  ASSUME TypeOK, Roles, NEW p \in Procs \ {Closer}, NEW l \in Labels, NEW k \in Jobs,
         Fits(p, l, k), Move(p, l, k), UNCHANGED phase,
         runtimes' \in [Databases -> Services \cup {Nobody}],
         leases' \in [Databases -> Nat],
         \A d \in Databases : leases'[d] > 0 => runtimes'[d] # Nobody,
         loads' \in [Databases -> Services \cup {Nobody}],
         status' \in [Services -> {"gone", "building", "built", "cut"} \cup Failed],
         finals' \subseteq Services, discarded' \subseteq Services, shutting' \subseteq Services,
         owner' \in Movers \cup {Nobody},
         asleep' \subseteq asleep \/ (asleep' = asleep \cup {p} /\ l = "waiting"),
         pc[p] # "waiting" \/ p \notin asleep' \/ l = "waiting",
         lost' \in [Databases -> 0 .. MaxLost]
  PROVE  TypeOK' /\ Roles'
<1>1. /\ pc' \in [Procs -> Labels] /\ job' \in [Procs -> Jobs]
      /\ pc'[p] = l /\ job'[p] = k
      /\ \A q \in Procs \ {p} : pc'[q] = pc[q] /\ job'[q] = job[q]
      /\ \A q \in Procs : Fits(q, pc'[q], job'[q])
  BY MoveIs
<1>2. \A q \in asleep' : q \in Procs /\ pc'[q] = "waiting"
  BY <1>1 DEF TypeOK
<1>3. Roles'
  BY <1>1, CloserIn DEF Roles, Fits
<1>4. TypeOK'
  BY <1>1, <1>2 DEF TypeOK, Labels
<1> QED BY <1>3, <1>4

\* The first state is well-typed.
LEMMA InitTypes == Init => TypeOK /\ Roles
<1> SUFFICES ASSUME Init PROVE TypeOK /\ Roles
  OBVIOUS
<1>1. TypeOK
  <2>1. job \in [Procs -> Jobs]
    BY NoJobType DEF Init
  <2>3. lost \in [Databases -> 0 .. MaxLost]
    <3>1. 0 \in 0 .. MaxLost
      BY ResidencyAssumption
    <3> QED BY <3>1 DEF Init
  <2>2. leases \in [Databases -> Nat] /\ \A d \in Databases : ~(leases[d] > 0)
    BY DEF Init
  <2> QED BY <2>1, <2>2, <2>3 DEF Init, TypeOK
<1>2. \A p \in Procs : Fits(p, "idle", NoJob)
  BY NoJobType, ResidencyAssumption DEF Fits, Resting, Closes
<1> QED BY <1>1, <1>2, CloserIn DEF Init, Roles

\* A lease that is counted is of the database of the job.
LEMMA CountedType ==
  ASSUME TypeOK, NEW j \in Jobs
  PROVE  /\ Counted(j) \in [Databases -> Nat]
         /\ \A d \in Databases : Counted(j)[d] > 0 => leases[d] > 0 \/ d = j.db
<1>1. j.db \in Databases /\ leases \in [Databases -> Nat]
  BY DEF TypeOK, Jobs
<1>2. CASE j.op = "lease"
  BY <1>1, <1>2 DEF Counted
<1>3. CASE j.op # "lease"
  BY <1>1, <1>3 DEF Counted
<1> QED BY <1>2, <1>3

\* A load that lands leaves the table of loads typed.
LEMMA LandedType == TypeOK => \A k : Landed(k) \in [Databases -> Services \cup {Nobody}]
BY DEF TypeOK, Landed

\* A load that is cut has a known status.
LEMMA CutType ==
  ASSUME TypeOK, NEW p
  PROVE  Cut(p) \in [Services -> {"gone", "building", "built", "cut"} \cup Failed]
BY DEF TypeOK, Cut, Failed

\* acquire_runtime, get_runtime and release_runtime keep every type.
LEMMA UserTypes ==
  ASSUME TypeOK, Roles, NEW p \in Users, NEW d \in Databases, NEW o \in {"lease", "get"},
         Ask(p, d, o) \/ Release(p)
  PROVE  TypeOK' /\ Roles'
<1>0. p \in Procs \ {Closer} /\ p \notin {Sweeper, Closer} /\ "idle" \in Labels
  BY ResidencyAssumption DEF Procs, Callers, Labels
<1>1. CASE Ask(p, d, o)
  <2> DEFINE j == [NoJob EXCEPT !.op = o, !.db = d]
  <2>1. Asks(p, j) /\ j \in Jobs /\ j.db = d
    BY <1>0, NoJobType DEF Asks, Jobs
  <2>2. Enter(p, j) /\ UNCHANGED <<runtimes, finals, discarded, life, asleep, lost>>
        /\ pc[p] = "idle"
    BY <1>1 DEF Ask
  <2> HIDE DEF j
  <2>3. PICK l, k : Finds(p, j, l, k)
    BY <2>1, <2>2, EnterGoes
  <2>4. l \in Labels /\ k \in Jobs /\ Fits(p, l, k)
    BY <1>0, <2>3, NoJobType, ResidencyAssumption DEF Finds, Goes, Labels, Fits, Resting, Closes
  <2>5. /\ loads' \in [Databases -> Services \cup {Nobody}]
        /\ status' \in [Services -> {"gone", "building", "built", "cut"} \cup Failed]
    BY <2>1, <2>3 DEF Finds, TypeOK
  <2>6. leases' \in [Databases -> Nat] /\ \A e \in Databases : leases'[e] > 0 => runtimes'[e] # Nobody
    BY <2>1, <2>2, <2>3, CountedType DEF Finds, TypeOK
  <2> QED BY <1>0, <2>2, <2>3, <2>4, <2>5, <2>6, MoveTypes DEF Finds, TypeOK, life
<1>2. CASE Release(p)
  <2> DEFINE j == [NoJob EXCEPT !.op = "release"]
  <2>1. Ready(p, j) /\ j.op = "release" /\ j.svc = Nobody
    BY <1>0, NoJobType DEF Ready, Jobs
  <2>2. PICK l, k : Goes(p, j, l, k) /\ Move(p, l, k)
    <3>1. Arrive(p, j) \/ Sweep(p, j, runtimes, leases', {})
      BY <1>2 DEF Release
    <3> HIDE DEF j
    <3> QED BY <2>1, <3>1, ArriveGoes, SweepGoes
  <2>3. l \in Labels /\ k \in Jobs /\ Fits(p, l, k)
    BY <2>2 DEF Goes, Labels
  <2>4. job[p].db \in Databases
    BY <1>0 DEF TypeOK, Jobs
  <2>5. leases' \in [Databases -> Nat] /\ \A e \in Databases : leases'[e] > 0 => leases[e] > 0
    BY <1>2, <2>4 DEF Release, Uncounted, TypeOK
  <2>6. UNCHANGED <<runtimes, loads, service, life, lost>> /\ asleep' \subseteq asleep
        /\ pc[p] = "using"
    BY <1>2 DEF Release
  <2> QED BY <1>0, <2>2, <2>3, <2>5, <2>6, MoveTypes DEF TypeOK, life, service
<1> QED BY <1>1, <1>2

\* A coroutine that waits for a load has asked for a runtime.
LEMMA LoadingAsks ==
  ASSUME TypeOK, Roles, NEW p \in Procs, pc[p] = "loading"
  PROVE  /\ Asks(p, [job[p] EXCEPT !.svc = Nobody])
         /\ [job[p] EXCEPT !.svc = Nobody].op = job[p].op
         /\ [job[p] EXCEPT !.svc = Nobody].db = job[p].db
         /\ job[p] \in Jobs /\ job[p].db \in Databases /\ job[p].svc \in Services
         /\ job[p].op \in {"lease", "get"} /\ job[p].lease = Nobody
<1>1. job[p] \in Jobs /\ job[p].op \in {"", "lease", "get", "release", "sweep", "unload", "move"}
  BY DEF TypeOK, Jobs
<1>2. Fits(p, "loading", job[p])
  BY DEF Roles
<1>3. /\ job[p].op \in {"lease", "get"} /\ (job[p].op = "lease" => p \in Users)
      /\ job[p].lease = Nobody /\ job[p].svc # Nobody /\ p \notin {Sweeper, Closer}
  BY <1>1, <1>2 DEF Fits, Resting, Closes
<1> QED BY <1>1, <1>3 DEF Asks, Jobs

\* The end of a load, whatever became of it.
LEMMA LoadedTypes ==
  ASSUME TypeOK, Roles, NEW p \in Procs, Loaded(p)
  PROVE  TypeOK' /\ Roles'
<1> DEFINE k == job[p].svc
           d == job[p].db
           u == [job[p] EXCEPT !.svc = Nobody]
<1>0. /\ pc[p] = "loading" /\ status[k] \notin {"building"} \cup Failed
      /\ UNCHANGED <<finals, discarded, life, asleep, lost>>
  BY DEF Loaded
<1>1. /\ Asks(p, u) /\ u.op = job[p].op /\ u.db = d
      /\ job[p] \in Jobs /\ d \in Databases /\ k \in Services /\ p \in Procs \ {Closer}
      /\ job[p].op \in {"lease", "get"} /\ job[p].lease = Nobody
  BY <1>0, LoadingAsks DEF Asks
<1>2. Landed(k) \in [Databases -> Services \cup {Nobody}]
  BY LandedType
<1>3. ASSUME NEW c \in Services, Keep(p, c), UNCHANGED status, loads' = Landed(k),
             runtimes' \in [Databases -> Services \cup {Nobody}], runtimes'[d] # Nobody,
             \A e \in Databases : runtimes[e] # Nobody => runtimes'[e] # Nobody
      PROVE  TypeOK' /\ Roles'
  <2>1. PICK l, w : Keeps(p, c, l, w)
    BY <1>0, <1>3, KeepGoes
  <2>2. l \in Labels /\ w \in Jobs /\ Fits(p, l, w) /\ Move(p, l, w) /\ leases' = Counted(job[p])
    BY <2>1 DEF Keeps, Goes, Labels
  <2>3. leases' \in [Databases -> Nat] /\ \A e \in Databases : leases'[e] > 0 => runtimes'[e] # Nobody
    BY <1>1, <1>3, <2>2, CountedType DEF TypeOK
  <2> QED BY <1>0, <1>1, <1>2, <1>3, <2>2, <2>3, MoveTypes DEF TypeOK, life
<1>4. CASE runtimes[d] # Nobody /\ loads' = Landed(k) /\ UNCHANGED <<runtimes, status>>
           /\ Keep(p, runtimes[d])
  <2>1. runtimes[d] \in Services
    BY <1>1, <1>4 DEF TypeOK
  <2> QED BY <1>3, <1>4, <2>1 DEF TypeOK
<1>5. CASE /\ runtimes[d] = Nobody /\ loads[d] = k /\ phase = "open"
           /\ loads'    = Landed(k)
           /\ runtimes' = [runtimes EXCEPT ![d] = k]
           /\ Keep(p, k)
           /\ UNCHANGED status
  <2>1. k # Nobody
    BY <1>1, ResidencyAssumption
  <2>2. /\ runtimes' \in [Databases -> Services \cup {Nobody}] /\ runtimes'[d] # Nobody
        /\ \A e \in Databases : runtimes[e] # Nobody => runtimes'[e] # Nobody
    BY <1>1, <1>5, <2>1 DEF TypeOK
  <2> QED BY <1>1, <1>3, <1>5, <2>2
<1>6. CASE /\ runtimes[d] = Nobody /\ loads[d] = k /\ phase # "open"
           /\ loads' = Landed(k)
           /\ Move(p, "refusing", job[p])
           /\ UNCHANGED <<runtimes, leases, status>>
  <2>1. Fits(p, "refusing", job[p]) /\ "refusing" \in Labels
    BY <1>0, <1>1, ResidencyAssumption DEF Roles, Fits, Resting, Closes, Labels, Asks
  <2> QED BY <1>0, <1>1, <1>2, <1>6, <2>1, MoveTypes DEF TypeOK, life
<1>7. CASE /\ runtimes[d] = Nobody /\ loads[d] # k
           /\ Enter(p, u)
           /\ UNCHANGED runtimes
  <2>1. PICK l, w : Finds(p, u, l, w)
    BY <1>1, <1>7, EnterGoes
  <2>2. l \in Labels /\ w \in Jobs /\ Fits(p, l, w) /\ Move(p, l, w)
    BY <1>1, <2>1, NoJobType, ResidencyAssumption
       DEF Finds, Asks, Goes, Labels, Fits, Resting, Closes
  <2>3. /\ loads' \in [Databases -> Services \cup {Nobody}]
        /\ status' \in [Services -> {"gone", "building", "built", "cut"} \cup Failed]
        /\ UNCHANGED leases
    BY <1>1, <1>7, <2>1 DEF Finds, TypeOK
  <2> QED BY <1>0, <1>1, <1>7, <2>2, <2>3, MoveTypes DEF TypeOK, life
<1> QED BY <1>4, <1>5, <1>6, <1>7 DEF Loaded

\* A victim leaves the table.
LEMMA EvictTypes ==
  ASSUME TypeOK, Roles, NEW p \in Procs, NEW l, NEW k, pc[p] \in {"pinning", "evicting"},
         Evicts(p, l, k)
  PROVE  /\ l \in Labels /\ k \in Jobs /\ Fits(p, l, k) /\ Move(p, l, k)
         /\ runtimes' \in [Databases -> Services \cup {Nobody}]
         /\ \A d \in Databases : leases[d] > 0 => runtimes'[d] # Nobody
         /\ asleep' \subseteq asleep /\ p # Closer
<1>1. l \in Labels /\ k \in Jobs /\ Fits(p, l, k) /\ Move(p, l, k) /\ asleep' \subseteq asleep
  BY DEF Evicts, Goes, Labels
<1>2. p # Closer
  BY DEF Roles, Fits
<1>3. /\ runtimes' \in [Databases -> Services \cup {Nobody}]
      /\ \A d \in Databases : leases[d] > 0 => runtimes'[d] # Nobody
  BY DEF Evicts, TypeOK
<1> QED BY <1>1, <1>2, <1>3

\* The steps of a load and of the sweep behind it.
LEMMA LoadTypes ==
  ASSUME TypeOK, Roles, NEW p \in Procs, LoadStep(p)
  PROVE  TypeOK' /\ Roles'
<1>1. CASE LoadFailed(p)
  <2>1. p \in Procs \ {Closer} /\ Fits(p, "idle", NoJob) /\ "idle" \in Labels
    BY <1>1, NoJobType, LoadingAsks, ResidencyAssumption
       DEF LoadFailed, Asks, Fits, Resting, Closes, Labels
  <2>2. loads' \in [Databases -> Services \cup {Nobody}]
    BY <1>1, LandedType DEF LoadFailed, TypeOK
  <2>3. /\ pc[p] = "loading" /\ Move(p, "idle", NoJob)
        /\ UNCHANGED <<runtimes, leases, service, life, asleep, lost>>
    BY <1>1 DEF LoadFailed, Raise
  <2> QED BY <2>1, <2>2, <2>3, NoJobType, MoveTypes DEF TypeOK, service, life
<1>2. CASE Loaded(p)
  BY <1>2, LoadedTypes
<1>3. CASE Discarded(p)
  <2> DEFINE u == [job[p] EXCEPT !.svc = Nobody]
  <2>1. /\ pc[p] \in {"discarding", "refusing"}
        /\ UNCHANGED <<table, finals, discarded, life, asleep, lost>>
        /\ status' = [status EXCEPT ![job[p].svc] = "gone"]
    BY <1>3 DEF Discarded
  <2>2. p \in Procs \ {Sweeper, Closer}
    BY <2>1 DEF Roles, Fits
  <2>3. \E l, k : l \in Labels /\ k \in Jobs /\ Fits(p, l, k) /\ Move(p, l, k)
    <3>1. CASE pc[p] = "refusing" /\ Raise(p)
      <4>1. Fits(p, "idle", NoJob) /\ "idle" \in Labels
        BY <2>2, NoJobType, ResidencyAssumption DEF Fits, Resting, Closes, Labels
      <4> QED BY <3>1, <4>1, NoJobType DEF Raise
    <3>2. CASE pc[p] = "discarding" /\ Converge(p, u, runtimes, leases)
      <4>1. Ready(p, job[p])
        BY <3>2, ReadyAt
      <4>2. job[p].op \in {"lease", "get"}
        BY <3>2 DEF Roles, Fits, Resting, TypeOK, Jobs
      <4>3. Ready(p, u) /\ u.op \in {"lease", "get"} /\ u.svc = Nobody
        BY <4>1, <4>2 DEF Ready, Jobs
      <4> HIDE DEF u
      <4>4. \E l, k : Goes(p, u, l, k) /\ Move(p, l, k)
        BY <3>2, <4>3, ArriveGoes, SweepGoes DEF Converge
      <4> QED BY <4>4 DEF Goes, Labels
    <3> QED BY <1>3, <3>1, <3>2 DEF Discarded
  <2> QED BY <2>1, <2>2, <2>3, MoveTypes DEF TypeOK, table, life
<1>4. CASE PinsAnswered(p)
  <2>1. pc[p] = "pinning" /\ UNCHANGED <<leases, loads, service, life, lost>>
    BY <1>4 DEF PinsAnswered
  <2>2. \E victims \in SUBSET Databases : Evict(p, victims)
    <3>1. job[p].list \in SUBSET Databases
      BY DEF TypeOK, Jobs
    <3> QED BY <1>4, <3>1 DEF PinsAnswered
  <2>3. PICK l, k : Evicts(p, l, k)
    BY <2>1, <2>2, EvictGoes
  <2>4. /\ l \in Labels /\ k \in Jobs /\ Fits(p, l, k) /\ Move(p, l, k)
        /\ runtimes' \in [Databases -> Services \cup {Nobody}]
        /\ \A d \in Databases : leases[d] > 0 => runtimes'[d] # Nobody
        /\ asleep' \subseteq asleep /\ p # Closer
    BY <2>1, <2>3, EvictTypes
  <2> QED BY <2>1, <2>4, MoveTypes DEF TypeOK, service, life
<1>5. CASE Evicted(p)
  <2>1. /\ pc[p] = "evicting" /\ UNCHANGED <<leases, loads, finals, discarded, life, lost>>
        /\ status' = [status EXCEPT ![job[p].svc] = "gone"] /\ Evict(p, job[p].list)
    BY <1>5 DEF Evicted
  <2>2. job[p].list \in SUBSET Databases
    BY DEF TypeOK, Jobs
  <2>3. PICK l, k : Evicts(p, l, k)
    BY <2>1, <2>2, EvictGoes
  <2>4. /\ l \in Labels /\ k \in Jobs /\ Fits(p, l, k) /\ Move(p, l, k)
        /\ runtimes' \in [Databases -> Services \cup {Nobody}]
        /\ \A d \in Databases : leases[d] > 0 => runtimes'[d] # Nobody
        /\ asleep' \subseteq asleep /\ p # Closer
    BY <2>1, <2>3, EvictTypes
  <2> QED BY <2>1, <2>4, MoveTypes DEF TypeOK, life
<1> QED BY <1>1, <1>2, <1>3, <1>4, <1>5 DEF LoadStep

\* An unload that waits, or takes its runtime out.
LEMMA TurnTypes ==
  ASSUME TypeOK, Roles, NEW p \in Procs \ {Closer}, NEW j, Ready(p, j), j.op \in {"unload", "move"},
         j.svc = Nobody, UnloadTurn(p, j), UNCHANGED <<loads, service, life, lost>>,
         p \notin asleep
  PROVE  TypeOK' /\ Roles'
<1>1. PICK l, k : Turns(p, j, l, k)
  BY TurnGoes
<1>2. l \in Labels /\ k \in Jobs /\ Fits(p, l, k) /\ Move(p, l, k) /\ UNCHANGED leases
  BY <1>1 DEF Turns, Goes, Labels
<1>3. j.db \in Databases
  BY DEF Ready, Jobs
<1>4. /\ runtimes' \in [Databases -> Services \cup {Nobody}]
      /\ \A d \in Databases : leases[d] > 0 => runtimes'[d] # Nobody
  BY <1>1, <1>3 DEF Turns, TypeOK
<1>5. asleep' \subseteq asleep \/ (asleep' = asleep \cup {p} /\ l = "waiting")
  BY <1>1 DEF Turns
<1> QED BY <1>2, <1>4, <1>5, MoveTypes DEF TypeOK, service, life

\* The steps of an unload and of a backup import.
LEMMA UnloadTypes ==
  ASSUME TypeOK, Roles, NEW p \in Procs,
         UnloadStep(p) \/ (p \in Movers /\ Suspend(p))
         \/ (p \in Unloaders /\ \E d \in Databases : Unload(p, d))
  PROVE  TypeOK' /\ Roles'
<1>0. \A q \in Movers \cup Unloaders : q \in Procs /\ q \notin {Sweeper, Closer}
  BY ResidencyAssumption DEF Procs, Callers
<1>1. ASSUME NEW d \in Databases, p \in Unloaders, Unload(p, d)
      PROVE  TypeOK' /\ Roles'
  <2> DEFINE j == [NoJob EXCEPT !.op = "unload", !.db = d]
  <2>1. Ready(p, j) /\ j.op = "unload" /\ j.svc = Nobody
    BY <1>0, <1>1, NoJobType DEF Ready, Jobs
  <2>2. UnloadTurn(p, j) /\ UNCHANGED <<loads, service, life, lost>> /\ pc[p] = "idle"
    BY <1>1 DEF Unload
  <2> HIDE DEF j
  <2> QED BY <1>0, <1>1, <2>1, <2>2, TurnTypes DEF TypeOK
<1>2. CASE TryAgain(p)
  <2>1. /\ pc[p] = "waiting" /\ p \notin asleep /\ UnloadTurn(p, job[p])
        /\ UNCHANGED <<loads, service, life, lost>>
    BY <1>2 DEF TryAgain
  <2>2. job[p] \in Jobs /\ job[p].op \in {"", "lease", "get", "release", "sweep", "unload", "move"}
    BY DEF TypeOK, Jobs
  <2>3. Fits(p, "waiting", job[p])
    BY <2>1 DEF Roles
  <2>4. Ready(p, job[p]) /\ job[p].op \in {"unload", "move"} /\ job[p].svc = Nobody /\ p # Closer
    BY <2>2, <2>3 DEF Fits, Ready, Resting, Closes
  <2> QED BY <2>1, <2>4, TurnTypes
<1>3. CASE Unloaded(p)
  <2>1. /\ pc[p] = "unloading" /\ Arrive(p, job[p])
        /\ status' = [status EXCEPT ![job[p].svc] = "gone"]
        /\ UNCHANGED <<table, finals, discarded, life, asleep, lost>>
    BY <1>3 DEF Unloaded
  <2>2. PICK l, k : Goes(p, job[p], l, k) /\ Move(p, l, k)
    BY <2>1, ReadyAt, ArriveGoes
  <2>3. l \in Labels /\ k \in Jobs /\ Fits(p, l, k) /\ p # Closer
    BY <2>1, <2>2 DEF Goes, Labels, Roles, Fits
  <2> QED BY <2>1, <2>2, <2>3, MoveTypes DEF TypeOK, table, life
<1>4. CASE ClearNext(p)
  <2>1. pc[p] = "clearing" /\ UNCHANGED <<loads, service, life, lost>>
    BY <1>4 DEF ClearNext
  <2>2. PICK d \in job[p].list : UnloadTurn(p, [job[p] EXCEPT !.db = d, !.list = @ \ {d}])
    BY <1>4 DEF ClearNext
  <2> DEFINE j == [job[p] EXCEPT !.db = d, !.list = @ \ {d}]
  <2>3. Ready(p, job[p]) /\ job[p].op = "move" /\ job[p].svc = Nobody /\ p # Closer
    BY <2>1, ReadyAt DEF Roles, Fits, Resting, Closes, TypeOK, Jobs
  <2>4. Ready(p, j) /\ j.op = "move" /\ j.svc = Nobody
    BY <2>3 DEF Ready, Jobs
  <2>5. UnloadTurn(p, j)
    BY <2>2
  <2> HIDE DEF j
  <2> QED BY <2>1, <2>3, <2>4, <2>5, TurnTypes DEF TypeOK
<1>5. CASE Suspend(p) /\ p \in Movers
  <2> DEFINE j == [NoJob EXCEPT !.op = "move"]
  <2>1. /\ Move(p, "draining", j) /\ pc[p] = "idle" /\ owner' = p /\ asleep' = {}
        /\ UNCHANGED <<table, service, phase, shutting, lost>>
    BY <1>5 DEF Suspend
  <2>2. j \in Jobs /\ j.op = "move" /\ j.svc = Nobody /\ j.lease = Nobody
    BY NoJobType DEF Jobs
  <2> HIDE DEF j
  <2>3. Fits(p, "draining", j) /\ "draining" \in Labels
    BY <1>0, <1>5, <2>2 DEF Fits, Resting, Closes, Labels
  <2> QED BY <1>0, <1>5, <2>1, <2>2, <2>3, MoveTypes DEF TypeOK, table, service
<1>6. CASE Drain(p) \/ Cleared(p) \/ Resume(p)
  <2>1. /\ pc[p] \in {"draining", "clearing", "replacing"}
        /\ UNCHANGED <<table, service, phase, shutting, lost>>
        /\ asleep' \subseteq asleep /\ owner' \in {owner, Nobody}
    BY <1>6 DEF Drain, Cleared, Resume, life
  <2>2. job[p].op = "move" /\ p \in Movers /\ p # Closer /\ job[p] \in Jobs
        /\ job[p].svc = Nobody /\ job[p].lease = Nobody /\ p # Sweeper
    BY <2>1 DEF Roles, Fits, TypeOK, Jobs, Resting, Closes
  <2>3. \E l, k : l \in Labels /\ k \in Jobs /\ Fits(p, l, k) /\ Move(p, l, k)
    <3>1. CASE Drain(p)
      <4> DEFINE k == [job[p] EXCEPT !.list = {d \in Databases : runtimes[d] # Nobody}]
      <4>1. k \in Jobs /\ k.op = "move" /\ k.svc = Nobody /\ k.lease = Nobody
        BY <2>2 DEF Jobs
      <4>2. Move(p, "clearing", k)
        BY <3>1 DEF Drain
      <4> HIDE DEF k
      <4>3. Fits(p, "clearing", k) /\ "clearing" \in Labels
        BY <2>2, <4>1 DEF Fits, Resting, Closes, Labels
      <4> QED BY <4>1, <4>2, <4>3
    <3>2. CASE Cleared(p)
      <4>1. Fits(p, "replacing", job[p]) /\ "replacing" \in Labels
        BY <2>2 DEF Fits, Resting, Closes, Labels
      <4> QED BY <2>2, <3>2, <4>1 DEF Cleared
    <3>3. CASE Resume(p)
      <4>1. Fits(p, "idle", NoJob) /\ "idle" \in Labels
        BY <2>2, NoJobType DEF Fits, Resting, Closes, Labels
      <4> QED BY <3>3, <4>1, NoJobType DEF Resume, Raise
    <3> QED BY <1>6, <3>1, <3>2, <3>3
  <2> QED BY <2>1, <2>2, <2>3, MoveTypes DEF TypeOK, table, service
<1> QED BY <1>1, <1>2, <1>3, <1>4, <1>5, <1>6 DEF UnloadStep

\* A coroutine that is interrupted is nowhere in a call any more.
LEMMA InterruptTypes ==
  ASSUME TypeOK, Roles, NEW p \in Procs, Interrupt(p)
  PROVE  TypeOK' /\ Roles' /\ p # Closer /\ pc[p] # "idle"
<1>1. /\ pc[p] \in {"pinning", "loading", "evicting", "discarding", "refusing", "waiting",
                    "unloading"}
      /\ status' = Cut(p) /\ asleep' = asleep \ {p} /\ Move(p, "idle", NoJob)
      /\ UNCHANGED <<table, finals, discarded, life>>
  BY DEF Interrupt, Interrupted, Raise
<1>2. p # Closer
  BY <1>1 DEF Roles, Fits
<1>3. Fits(p, "idle", NoJob) /\ "idle" \in Labels
  BY <1>2, NoJobType, ResidencyAssumption DEF Fits, Resting, Closes, Labels
<1>4. Cut(p) \in [Services -> {"gone", "building", "built", "cut"} \cup Failed]
  BY CutType
<1>5. lost' \in [Databases -> 0 .. MaxLost]
  <2>1. CASE job[p].op = "lease" /\ job[p].lease # Nobody
    <3>1. /\ lost' = [lost EXCEPT ![job[p].db] = @ + 1] /\ lost[job[p].db] < MaxLost
          /\ job[p].db \in Databases /\ MaxLost \in Nat
      BY <2>1, ResidencyAssumption DEF Interrupt, TypeOK, Jobs
    <3>2. lost[job[p].db] \in Nat
      BY <3>1 DEF TypeOK
    <3>3. lost[job[p].db] + 1 \in 0 .. MaxLost
      BY <3>1, <3>2
    <3> QED BY <3>1, <3>3 DEF TypeOK
  <2>2. CASE ~(job[p].op = "lease" /\ job[p].lease # Nobody)
    BY <2>2 DEF Interrupt, TypeOK
  <2> QED BY <2>1, <2>2
<1> QED BY <1>1, <1>2, <1>3, <1>4, <1>5, NoJobType, MoveTypes DEF TypeOK, table, life

\* The periodic sweep.
LEMMA SweepTypes ==
  ASSUME TypeOK, Roles, SweepBegins
  PROVE  TypeOK' /\ Roles'
<1> DEFINE j == [NoJob EXCEPT !.op = "sweep"]
<1>1. /\ pc[Sweeper] = "idle" /\ Sweep(Sweeper, j, runtimes, leases, {})
      /\ UNCHANGED <<table, service, life, asleep, lost>>
  BY DEF SweepBegins
<1>2. Ready(Sweeper, j) /\ j.op = "sweep" /\ j.svc = Nobody
  BY NoJobType, CloserIn, ResidencyAssumption DEF Ready, Jobs, Callers
<1> HIDE DEF j
<1>3. PICK l, k : Goes(Sweeper, j, l, k) /\ Move(Sweeper, l, k)
  BY <1>1, <1>2, SweepGoes
<1>4. l \in Labels /\ k \in Jobs /\ Fits(Sweeper, l, k) /\ Sweeper \in Procs \ {Closer}
  BY <1>3, CloserIn, ResidencyAssumption DEF Goes, Labels
<1> QED BY <1>1, <1>3, <1>4, MoveTypes DEF TypeOK, table, service, life

\* The task of a load and its finalizer move no coroutine.
LEMMA TaskTypes ==
  ASSUME TypeOK, Roles, NEW k \in Services, TaskStep(k)
  PROVE  TypeOK' /\ Roles'
<1>1. CASE BuildEnds(k)
  BY <1>1 DEF BuildEnds, TypeOK, Roles, table, life, Failed
<1>2. CASE Finalize(k)
  <2>1. /\ finals' = finals \ {k} /\ loads' = Landed(k)
        /\ \E A \in SUBSET Databases :
             runtimes' = [d \in Databases |-> IF d \in A THEN k ELSE runtimes[d]]
        /\ discarded' \subseteq discarded \cup {k} /\ asleep' = {}
        /\ UNCHANGED <<leases, status, life, pc, job, lost>>
    <3> DEFINE ready == {d \in Flight(k) : runtimes[d] = Nobody /\ phase = "open"}
               adopt == status[k] \notin Failed /\ ready # {}
               A == {d \in Databases : adopt /\ d \in ready}
    <3>1. runtimes' = [d \in Databases |-> IF d \in A THEN k ELSE runtimes[d]]
      BY <1>2 DEF Finalize, FinalizeWith
    <3> QED BY <1>2, <3>1 DEF Finalize, FinalizeWith
  <2>2. loads' \in [Databases -> Services \cup {Nobody}]
    BY <2>1, LandedType
  <2>3. /\ runtimes' \in [Databases -> Services \cup {Nobody}]
        /\ \A d \in Databases : leases[d] > 0 => runtimes'[d] # Nobody
    <3>1. k # Nobody
      BY ResidencyAssumption
    <3> QED BY <2>1, <3>1 DEF TypeOK
  <2> QED BY <2>1, <2>2, <2>3 DEF TypeOK, Roles, life
<1>3. CASE FinalizerClosed(k)
  BY <1>3 DEF FinalizerClosed, TypeOK, Roles, table, life
<1> QED BY <1>1, <1>2, <1>3 DEF TaskStep

\* close() and what follows.
LEMMA CloseTypes ==
  ASSUME TypeOK, Roles, Close \/ CloseStep
  PROVE  TypeOK' /\ Roles'
<1>0. Closer \in Procs /\ Sweeper \in Procs /\ Closer # Sweeper
  BY CloserIn, ResidencyAssumption
<1>1. \A l : l \in {"sweeper", "gather", "closing", "done"} =>
        /\ Fits(Closer, l, NoJob) /\ l \in Labels
  BY NoJobType, ResidencyAssumption DEF Fits, Resting, Closes, Labels
<1>2. ASSUME NEW l \in {"sweeper", "gather", "closing", "done"}, Move(Closer, l, NoJob),
             pc[Closer] \notin {"waiting"}, asleep' = asleep
      PROVE  /\ pc' \in [Procs -> Labels] /\ job' \in [Procs -> Jobs]
             /\ \A q \in asleep' : q \in Procs /\ pc'[q] = "waiting"
             /\ pc'[Closer] # "idle" /\ \A q \in Procs : Fits(q, pc'[q], job'[q])
  <2>1. /\ pc' \in [Procs -> Labels] /\ job' \in [Procs -> Jobs]
        /\ pc'[Closer] = l
        /\ \A q \in Procs \ {Closer} : pc'[q] = pc[q] /\ job'[q] = job[q]
        /\ \A q \in Procs : Fits(q, pc'[q], job'[q])
    BY <1>0, <1>1, <1>2, NoJobType, MoveIs
  <2> QED BY <1>2, <2>1 DEF TypeOK
<1>3. CASE Close
  <2>1. phase' = "closing" /\ pc[Closer] = "idle"
    BY <1>3 DEF Close, Roles
  <2> QED BY <1>2, <1>3, <2>1 DEF Close, TypeOK, Roles, Labels, table, service
<1>4. CASE SweeperStops
  <2>1. /\ pc'[Closer] = "jobs" /\ pc'[Sweeper] = "stopped" /\ job'[Sweeper] = NoJob
        /\ job'[Closer] = job[Closer]
        /\ pc' \in [Procs -> Labels] /\ job' \in [Procs -> Jobs]
        /\ \A q \in Procs \ {Closer, Sweeper} : pc'[q] = pc[q] /\ job'[q] = job[q]
    BY <1>0, <1>4, NoJobType DEF SweeperStops, TypeOK, Labels
  <2>2. Fits(Closer, "sweeper", job[Closer]) /\ Fits(Sweeper, pc[Sweeper], job[Sweeper])
    BY <1>0, <1>4 DEF SweeperStops, Roles
  <2>3. Fits(Closer, "jobs", job[Closer])
    BY <1>0, <2>2 DEF Fits, Resting, Closes
  <2>4. Fits(Sweeper, "stopped", NoJob)
    BY <1>0, NoJobType DEF Fits, Resting, Closes
  <2>5. \A q \in Procs : Fits(q, pc'[q], job'[q])
    BY <2>1, <2>3, <2>4 DEF Roles
  <2>6. \A q \in asleep' : q \in Procs /\ pc'[q] = "waiting"
    <3>1. pc[Closer] # "waiting" /\ pc[Sweeper] # "waiting"
      BY <2>2, <1>4 DEF Fits, SweeperStops
    <3> QED BY <1>4, <2>1, <3>1 DEF SweeperStops, TypeOK
  <2> QED BY <1>4, <2>1, <2>5, <2>6, CutType
          DEF SweeperStops, TypeOK, Roles, Labels, table, life
<1>5. CASE CancelLoads
  BY <1>2, <1>5 DEF CancelLoads, TypeOK, Roles, Labels, Failed, table, life
<1>6. CASE LoadsGathered
  <2>1. \A d \in Databases : ~(leases'[d] > 0) \/ runtimes'[d] # Nobody
    BY <1>6 DEF LoadsGathered, TypeOK
  <2>2. shutting' \subseteq Services
    BY <1>6 DEF LoadsGathered, TypeOK
  <2> QED BY <1>2, <1>6, <2>1, <2>2 DEF LoadsGathered, TypeOK, Roles, Labels, service
<1>7. CASE ClosedAll
  <2>1. leases' \in [Databases -> Nat] /\ \A d \in Databases : ~(leases'[d] > 0)
    BY <1>7 DEF ClosedAll
  <2> QED BY <1>2, <1>7, <2>1 DEF ClosedAll, TypeOK, Roles, Labels
<1> QED BY <1>3, <1>4, <1>5, <1>6, <1>7 DEF CloseStep

\* Every step keeps the types and the places.
LEMMA TypesStep == TypeOK /\ Roles /\ [Next]_vars => TypeOK' /\ Roles'
<1> SUFFICES ASSUME TypeOK, Roles, [Next]_vars PROVE TypeOK' /\ Roles'
  OBVIOUS
<1>0. Users \subseteq Procs /\ Unloaders \subseteq Procs /\ Movers \subseteq Procs
  BY DEF Procs, Callers
<1>1. CASE UNCHANGED vars
  BY <1>1 DEF vars, TypeOK, Roles
<1>2. ASSUME NEW p \in Users, NEW d \in Databases, Ask(p, d, "lease") \/ Ask(p, d, "get")
      PROVE  TypeOK' /\ Roles'
  BY <1>2, UserTypes
<1>3. ASSUME NEW p \in Users, Release(p) PROVE TypeOK' /\ Roles'
  <2>1. AnyDatabase \in Databases
    BY ResidencyAssumption DEF AnyDatabase
  <2> QED BY <1>3, <2>1, UserTypes
<1>4. ASSUME NEW p \in Procs, LoadStep(p) PROVE TypeOK' /\ Roles'
  BY <1>4, LoadTypes
<1>5. CASE (\E p \in Unloaders, d \in Databases : Unload(p, d)) \/ (\E p \in Movers : Suspend(p))
           \/ (\E p \in Procs : UnloadStep(p))
  BY <1>0, <1>5, UnloadTypes
<1>6. ASSUME NEW p \in Procs, Interrupt(p) PROVE TypeOK' /\ Roles'
  BY <1>6, InterruptTypes
<1>7. ASSUME NEW k \in Services, TaskStep(k) PROVE TypeOK' /\ Roles'
  BY <1>7, TaskTypes
<1>8. CASE SweepBegins \/ Close \/ CloseStep
  BY <1>8, SweepTypes, CloseTypes
<1> QED BY <1>1, <1>2, <1>3, <1>4, <1>5, <1>6, <1>7, <1>8 DEF Next
-----------------------------------------------------------------------------
\* What a step of a coroutine does to the tables, to the leases and to who sleeps.

\* The service that p was closing, if any, is closed or left as it is.
Leaves(p) ==
  \A x \in Services :
    IF Closing(p, x) THEN status'[x] # "built" /\ (status'[x] = "building" => status[x] = "building")
                     ELSE status'[x] = status[x]

\* It leaves the tables alone, and may wait for a load that is there.
Rests(p, l, k) ==
  /\ l \notin Closes /\ (l = "loading" => k.svc = loads[k.db])
  /\ Leaves(p) /\ UNCHANGED <<runtimes, loads>>

\* It takes a service out that is not leased, and closes it.
Takes(p, l, k) ==
  /\ l \in Closes /\ Leaves(p) /\ UNCHANGED loads
  /\ \E d \in Databases : /\ runtimes[d] # Nobody /\ leases[d] = 0 /\ k.svc = runtimes[d]
                          /\ runtimes' = [runtimes EXCEPT ![d] = Nobody]

\* It starts a load; it was closing nothing.
Launches(p, l, k) ==
  /\ l = "loading" /\ pc[p] \notin Closes /\ MayLoad(p) /\ k.svc \in Fresh
  /\ runtimes[k.db] = Nobody /\ loads[k.db] = Nobody
  /\ loads'  = [loads EXCEPT ![k.db] = k.svc]
  /\ status' = [status EXCEPT ![k.svc] = "building"]
  /\ UNCHANGED runtimes

\* The load it waited for has ended: in vain, or for nothing, or its service stays.
Lands(p, l, k) ==
  LET x == job[p].svc
      d == job[p].db IN
  /\ pc[p] = "loading" /\ x \in Services /\ d \in Databases /\ l # "loading"
  /\ loads' = Landed(x) /\ UNCHANGED status
  /\ \/ status[x] = "failed" /\ l \notin Closes /\ UNCHANGED runtimes
     \/ /\ status[x] \notin {"building"} \cup Failed
        /\ l \in Closes /\ k.svc = x /\ runtimes[d] # x
        /\ UNCHANGED runtimes
     \/ /\ status[x] \notin {"building"} \cup Failed
        /\ l \notin Closes /\ runtimes[d] = Nobody /\ loads[d] = x /\ phase = "open"
        /\ runtimes' = [runtimes EXCEPT ![d] = x]

\* It keeps its lease, or has none before and after.
Keeping(p, k) ==
  /\ k.lease = job[p].lease /\ (k.lease # Nobody => k.db = job[p].db)
  /\ UNCHANGED <<leases, lost>>

\* It gets a lease of the resident runtime.
Gains(p, k) ==
  /\ p \in Users /\ job[p].lease = Nobody
  /\ k.lease # Nobody /\ k.lease = runtimes'[k.db]
  /\ leases' = [leases EXCEPT ![k.db] = @ + 1] /\ UNCHANGED lost

\* It gives its lease back, and wakes everybody, or loses it.
Gives(p, k) ==
  LET d == job[p].db IN
  /\ p \in Users /\ job[p].lease # Nobody /\ k.lease = Nobody
  /\ \/ leases' = Uncounted(d) /\ asleep' = {} /\ UNCHANGED lost
     \/ lost' = [lost EXCEPT ![d] = @ + 1] /\ UNCHANGED leases

\* Nobody falls asleep but p, and only when a lease is out.
Sleeps(p, k) == \A q \in asleep' : (q # p /\ q \in asleep) \/ (q = p /\ leases'[k.db] > 0)

Acts(p, l, k) ==
  /\ p \in Procs \ {Closer} /\ l \in Labels /\ k \in Jobs /\ Fits(p, l, k) /\ Move(p, l, k)
  /\ UNCHANGED <<finals, discarded, phase, shutting>>
  /\ Rests(p, l, k) \/ Takes(p, l, k) \/ Launches(p, l, k) \/ Lands(p, l, k)
  /\ phase = "closed" \/ Keeping(p, k) \/ Gains(p, k) \/ Gives(p, k)
  /\ Sleeps(p, k)
  /\ IF job[p].op = "move" THEN UnloadStep(p)
                           ELSE (k.op # "move" /\ UNCHANGED owner) \/ Suspend(p)

\* A call that goes on with what it has.
LEMMA GoesActs ==
  ASSUME TypeOK, Roles, NEW p \in Procs \ {Closer}, NEW j, NEW l, NEW k, Ready(p, j),
         Goes(p, j, l, k)
  PROVE  /\ l \in Labels /\ l \notin Closes \cup {"loading"} /\ k \in Jobs /\ Fits(p, l, k)
         /\ k.lease = j.lease /\ (k.lease # Nobody => k.db = j.db)
         /\ (j.op # "move" => k.op # "move") /\ (j.op = "move" => k.op = "move")
BY ResidencyAssumption DEF Goes, Ready, Labels, Closes

\* Who is not waiting is not asleep.
LEMMA Awake == ASSUME TypeOK, NEW p, pc[p] # "waiting" PROVE p \notin asleep
BY DEF TypeOK

\* A coroutine that closes nothing leaves every service as it is,
LEMMA LeavesSame == ASSUME NEW p, pc[p] \notin Closes, UNCHANGED status PROVE Leaves(p)
BY DEF Leaves, Closing, Closes

\* one that has closed its service leaves it gone,
LEMMA LeavesGone ==
  ASSUME TypeOK, NEW p, pc[p] \in Closes, status' = [status EXCEPT ![job[p].svc] = "gone"]
  PROVE  Leaves(p)
BY DEF Leaves, Closing, Closes, TypeOK

\* and one that is cancelled leaves it cut.
LEMMA LeavesCut == ASSUME NEW p, status' = Cut(p) PROVE Leaves(p)
BY DEF Leaves, Cut

\* Who moves databases is at a place of an import.
LEMMA NotMoving ==
  ASSUME TypeOK, Roles, NEW p \in Procs,
         pc[p] \notin {"draining", "waiting", "unloading", "clearing", "replacing"}
  PROVE  job[p].op # "move"
BY DEF Roles, Fits

\* A call that asks for a runtime, from the start or after its load was overtaken.
LEMMA FindsActs ==
  ASSUME TypeOK, Roles, NEW p \in Procs, NEW j, NEW l, NEW k, Asks(p, j),
         pc[p] \in {"idle", "loading"}, job[p].lease = Nobody, job[p].op # "move",
         Finds(p, j, l, k), UNCHANGED <<runtimes, finals, discarded, life, asleep, lost>>
  PROVE  Acts(p, l, k)
<1>1. /\ p \in Procs \ {Closer} /\ p \notin {Sweeper, Closer} /\ j.db \in Databases /\ j.lease = Nobody
      /\ j.op \in {"lease", "get"} /\ (j.op = "lease" => p \in Users) /\ Move(p, l, k)
  BY DEF Asks, Jobs, Finds
<1>2. p \notin asleep /\ pc[p] \notin Closes
  BY Awake DEF Closes
<1>3. Sleeps(p, k) /\ UNCHANGED <<finals, discarded, phase, shutting, owner>>
  BY <1>2 DEF Sleeps, life
<1>4. CASE /\ runtimes[j.db] # Nobody
           /\ leases' = Counted(j)
           /\ Goes(p, Leasing(j, runtimes[j.db]), l, k) /\ l # "pinning"
           /\ UNCHANGED <<loads, status>>
  <2> DEFINE u == Leasing(j, runtimes[j.db])
  <2>1. runtimes[j.db] \in Services
    BY <1>1, <1>4 DEF TypeOK
  <2>2. /\ Ready(p, u) /\ u.op = j.op /\ u.db = j.db
        /\ u.lease = IF j.op = "lease" THEN runtimes[j.db] ELSE Nobody
    BY <2>1, LeasingReady
  <2> HIDE DEF u
  <2>3. /\ l \in Labels /\ l \notin Closes \cup {"loading"} /\ k \in Jobs /\ Fits(p, l, k)
        /\ k.lease = u.lease /\ (k.lease # Nobody => k.db = u.db) /\ k.op # "move"
    BY <1>1, <1>4, <2>2, GoesActs DEF u
  <2>4. Rests(p, l, k)
    BY <1>2, <1>4, <2>3, LeavesSame DEF Rests
  <2>5. Keeping(p, k) \/ Gains(p, k)
    <3>1. CASE j.op = "lease"
      BY <1>1, <1>4, <2>2, <2>3, <3>1 DEF Gains, Counted
    <3>2. CASE j.op # "lease"
      BY <1>1, <1>4, <2>2, <2>3, <3>2 DEF Keeping, Counted
    <3> QED BY <3>1, <3>2
  <2> QED BY <1>1, <1>3, <2>3, <2>4, <2>5 DEF Acts
<1>5. CASE /\ runtimes[j.db] = Nobody /\ l = "loading" /\ k \in Jobs /\ Fits(p, l, k)
           /\ k.svc \in Services /\ k.op = j.op /\ k.db = j.db /\ k.lease = Nobody
           /\ UNCHANGED leases
           /\ \/ k.svc = loads[j.db] /\ UNCHANGED <<loads, status>>
              \/ /\ loads[j.db] = Nobody /\ MayLoad(p) /\ k.svc \in Fresh
                 /\ loads'  = [loads EXCEPT ![j.db] = k.svc]
                 /\ status' = [status EXCEPT ![k.svc] = "building"]
  <2>1. l \in Labels /\ l \notin Closes /\ k.op # "move"
    BY <1>1, <1>5 DEF Labels, Closes
  <2>2. Keeping(p, k)
    BY <1>5 DEF Keeping
  <2>3. Rests(p, l, k) \/ Launches(p, l, k)
    BY <1>2, <1>5, <2>1, LeavesSame DEF Rests, Launches
  <2> QED BY <1>1, <1>3, <1>5, <2>1, <2>2, <2>3 DEF Acts
<1>6. CASE /\ l = "idle" /\ k = NoJob
           /\ UNCHANGED <<leases, loads, status>>
  <2>1. l \in Labels /\ l \notin Closes \cup {"loading"} /\ k.op # "move" /\ k \in Jobs /\ Fits(p, l, k)
        /\ k.lease = Nobody
    BY <1>1, <1>6, NoJobType DEF Labels, Closes, Fits, Resting
  <2>2. Rests(p, l, k) /\ Keeping(p, k)
    BY <1>2, <1>6, <2>1, LeavesSame DEF Rests, Keeping
  <2> QED BY <1>1, <1>3, <2>1, <2>2 DEF Acts
<1> QED BY <1>4, <1>5, <1>6 DEF Finds

\* acquire_runtime, get_runtime and release_runtime.
LEMMA UserActs ==
  ASSUME TypeOK, Roles, Held, NEW p \in Users, NEW d \in Databases, NEW o \in {"lease", "get"},
         Ask(p, d, o) \/ Release(p)
  PROVE  \E l, k : Acts(p, l, k)
<1>0. p \in Procs \ {Closer} /\ p \notin {Sweeper, Closer}
  BY ResidencyAssumption DEF Procs, Callers
<1>1. CASE Ask(p, d, o)
  <2> DEFINE j == [NoJob EXCEPT !.op = o, !.db = d]
  <2>1. Asks(p, j)
    BY <1>0, NoJobType DEF Asks, Jobs
  <2>2. Enter(p, j) /\ UNCHANGED <<runtimes, finals, discarded, life, asleep, lost>>
        /\ pc[p] = "idle"
    BY <1>1 DEF Ask
  <2>3. job[p].lease = Nobody /\ job[p].op # "move"
    BY <1>0, <2>2 DEF Roles, Fits, Resting
  <2> HIDE DEF j
  <2>4. PICK l, k : Finds(p, j, l, k)
    BY <2>1, <2>2, EnterGoes
  <2> QED BY <1>0, <2>1, <2>2, <2>3, <2>4, FindsActs
<1>2. CASE Release(p)
  <2> DEFINE j == [NoJob EXCEPT !.op = "release"]
  <2>1. Ready(p, j) /\ j.op = "release" /\ j.svc = Nobody /\ j.lease = Nobody
    BY <1>0, NoJobType DEF Ready, Jobs
  <2>2. PICK l, k : Goes(p, j, l, k) /\ Move(p, l, k)
    <3>1. Arrive(p, j) \/ Sweep(p, j, runtimes, leases', {})
      BY <1>2 DEF Release
    <3> HIDE DEF j
    <3> QED BY <2>1, <3>1, ArriveGoes, SweepGoes
  <2>3. UNCHANGED <<runtimes, loads, service, life, lost>> /\ pc[p] = "using"
    BY <1>2 DEF Release
  <2>4. pc[p] \notin Closes /\ p \notin asleep /\ job[p].op # "move"
    BY <1>0, <2>3, Awake, NotMoving DEF Closes
  <2> HIDE DEF j
  <2>5. /\ l \in Labels /\ l \notin Closes \cup {"loading"} /\ k \in Jobs /\ Fits(p, l, k)
        /\ k.lease = Nobody /\ k.op # "move"
    BY <1>0, <2>1, <2>2, GoesActs
  <2>6. Rests(p, l, k)
    BY <2>3, <2>4, <2>5, LeavesSame DEF Rests, service
  <2>7. job[p].lease # Nobody
    BY <1>0, <2>3 DEF Roles, Fits, Resting, Closes, TypeOK, Jobs
  <2>8. phase = "closed" \/ runtimes[job[p].db] # Nobody
    BY <2>7 DEF Held
  <2>9. phase = "closed" \/ Gives(p, k)
    BY <1>2, <2>3, <2>5, <2>7, <2>8 DEF Gives, Release
  <2>10. Sleeps(p, k)
    BY <1>2, <2>4 DEF Release, Sleeps
  <2> QED BY <1>0, <2>2, <2>3, <2>4, <2>5, <2>6, <2>9, <2>10 DEF Acts, service, life
<1> QED BY <1>1, <1>2

\* A waiter that is given the resident runtime c.
LEMMA KeepsActs ==
  ASSUME TypeOK, Roles, NEW p \in Procs, NEW c \in Services, NEW l, NEW k,
         pc[p] = "loading", Keeps(p, c, l, k), runtimes'[job[p].db] = c,
         UNCHANGED lost
  PROVE  /\ l \in Labels \ {"loading"} /\ k \in Jobs /\ Fits(p, l, k) /\ Move(p, l, k)
         /\ IF c = job[p].svc THEN l \notin Closes ELSE l \in Closes /\ k.svc = job[p].svc
         /\ Keeping(p, k) \/ Gains(p, k)
         /\ k.op # "move"
<1> DEFINE u == [job[p] EXCEPT !.svc = Nobody]
           w == Leasing(u, c)
<1>1. /\ Asks(p, u) /\ u.op = job[p].op /\ u.db = job[p].db /\ p \in Procs \ {Closer}
      /\ job[p].op \in {"lease", "get"} /\ job[p].lease = Nobody
      /\ (job[p].op = "lease" => p \in Users) /\ job[p].svc \in Services
  BY LoadingAsks DEF Asks
<1>2. /\ Ready(p, w) /\ w.op = job[p].op /\ w.db = job[p].db
      /\ w.lease = IF u.op = "lease" THEN c ELSE Nobody
  <2> HIDE DEF u
  <2> QED BY <1>1, LeasingReady
<1>3. c # Nobody
  BY ResidencyAssumption
<1>4. /\ l \in Labels \ {"loading"} /\ k \in Jobs /\ Fits(p, l, k)
      /\ IF c = job[p].svc THEN l \notin Closes ELSE l \in Closes /\ k.svc = job[p].svc
      /\ k.lease = (IF job[p].op = "lease" THEN c ELSE Nobody) /\ (k.lease # Nobody => k.db = job[p].db)
      /\ k.op # "move"
  <2>1. CASE c = job[p].svc
    <3>1. [Leasing(job[p], c) EXCEPT !.svc = Nobody] = w
      BY <1>1 DEF Leasing, TypeOK, Jobs
    <3>2. Goes(p, w, l, k)
      BY <2>1, <3>1 DEF Keeps
    <3> HIDE DEF w
    <3> QED BY <1>1, <1>2, <2>1, <3>2, GoesActs
  <2>2. CASE c # job[p].svc
    BY <1>1, <2>2 DEF Keeps, Labels, Closes
  <2> QED BY <2>1, <2>2
<1>5. Move(p, l, k) /\ leases' = Counted(job[p])
  BY DEF Keeps
<1>6. Keeping(p, k) \/ Gains(p, k)
  <2>1. CASE job[p].op = "lease"
    BY <1>1, <1>3, <1>4, <1>5, <2>1 DEF Gains, Counted
  <2>2. CASE job[p].op # "lease"
    BY <1>1, <1>4, <1>5, <2>2 DEF Keeping, Counted
  <2> QED BY <2>1, <2>2
<1> QED BY <1>4, <1>5, <1>6

\* The end of a load.
LEMMA LoadedActs ==
  ASSUME TypeOK, Roles, Placed, NEW p \in Procs, Loaded(p)
  PROVE  \E l, k : Acts(p, l, k)
<1> DEFINE x == job[p].svc
           d == job[p].db
           u == [job[p] EXCEPT !.svc = Nobody]
<1>0. /\ pc[p] = "loading" /\ status[x] \notin {"building"} \cup Failed
      /\ UNCHANGED <<finals, discarded, life, asleep, lost>>
  BY DEF Loaded
<1>1. /\ Asks(p, u) /\ u.op = job[p].op /\ u.db = d
      /\ job[p] \in Jobs /\ d \in Databases /\ x \in Services /\ p \in Procs \ {Closer}
      /\ job[p].op \in {"lease", "get"} /\ job[p].lease = Nobody
  BY <1>0, LoadingAsks DEF Asks
<1>2. p \notin asleep /\ pc[p] \notin Closes
  BY <1>0, Awake DEF Closes
<1>3. (\A k : Sleeps(p, k)) /\ UNCHANGED <<finals, discarded, phase, shutting, owner>>
  BY <1>0, <1>2 DEF Sleeps, life
<1>4. CASE runtimes[d] # Nobody /\ loads' = Landed(x) /\ UNCHANGED <<runtimes, status>>
           /\ Keep(p, runtimes[d])
  <2>1. runtimes[d] \in Services
    BY <1>1, <1>4 DEF TypeOK
  <2>2. PICK l, k : Keeps(p, runtimes[d], l, k)
    BY <1>0, <1>4, <2>1, KeepGoes
  <2>3. /\ l \in Labels \ {"loading"} /\ k \in Jobs /\ Fits(p, l, k) /\ Move(p, l, k)
        /\ IF runtimes[d] = x THEN l \notin Closes ELSE l \in Closes /\ k.svc = x
        /\ Keeping(p, k) \/ Gains(p, k)
        /\ k.op # "move"
    BY <1>0, <1>4, <2>1, <2>2, KeepsActs
  <2>4. CASE runtimes[d] = x
    <3>1. UNCHANGED loads
      BY <1>1, <1>4, <2>4 DEF Landed, Placed, TypeOK
    <3>2. Rests(p, l, k)
      BY <1>2, <1>4, <2>3, <2>4, <3>1, LeavesSame DEF Rests
    <3> QED BY <1>1, <1>3, <2>3, <3>2 DEF Acts
  <2>5. CASE runtimes[d] # x
    <3>1. Lands(p, l, k)
      BY <1>0, <1>1, <1>4, <2>3, <2>5 DEF Lands
    <3> QED BY <1>1, <1>3, <2>3, <3>1 DEF Acts
  <2> QED BY <2>4, <2>5
<1>5. CASE /\ runtimes[d] = Nobody /\ loads[d] = x /\ phase = "open"
           /\ loads'    = Landed(x)
           /\ runtimes' = [runtimes EXCEPT ![d] = x]
           /\ Keep(p, x)
           /\ UNCHANGED status
  <2>1. PICK l, k : Keeps(p, x, l, k)
    BY <1>0, <1>1, <1>5, KeepGoes
  <2>2. runtimes'[d] = x
    BY <1>1, <1>5 DEF TypeOK
  <2>3. /\ l \in Labels \ {"loading"} /\ k \in Jobs /\ Fits(p, l, k) /\ Move(p, l, k)
        /\ l \notin Closes
        /\ Keeping(p, k) \/ Gains(p, k)
        /\ k.op # "move"
    BY <1>0, <1>1, <2>1, <2>2, KeepsActs
  <2>4. Lands(p, l, k)
    BY <1>0, <1>1, <1>5, <2>3 DEF Lands
  <2> QED BY <1>1, <1>3, <2>3, <2>4 DEF Acts
<1>6. CASE /\ runtimes[d] = Nobody /\ loads[d] = x /\ phase # "open"
           /\ loads' = Landed(x)
           /\ Move(p, "refusing", job[p])
           /\ UNCHANGED <<runtimes, leases, status>>
  <2>1. Fits(p, "refusing", job[p]) /\ "refusing" \in Labels /\ "refusing" \in Closes
    BY <1>0, <1>1, ResidencyAssumption DEF Roles, Fits, Resting, Closes, Labels, Asks
  <2>2. x # Nobody
    BY <1>1, ResidencyAssumption
  <2>3. Lands(p, "refusing", job[p])
    BY <1>0, <1>1, <1>6, <2>1, <2>2 DEF Lands
  <2>4. Keeping(p, job[p])
    BY <1>0, <1>6 DEF Keeping
  <2> QED BY <1>1, <1>3, <1>6, <2>1, <2>3, <2>4 DEF Acts
<1>7. CASE /\ runtimes[d] = Nobody /\ loads[d] # x
           /\ Enter(p, u)
           /\ UNCHANGED runtimes
  <2>1. PICK l, k : Finds(p, u, l, k)
    BY <1>1, <1>7, EnterGoes
  <2> HIDE DEF u
  <2>2. Acts(p, l, k)
    BY <1>0, <1>1, <1>7, <2>1, FindsActs
  <2> QED BY <2>2
<1> QED BY <1>4, <1>5, <1>6, <1>7 DEF Loaded

\* A sweep that takes its next victim or ends.
LEMMA EvictsActs ==
  ASSUME TypeOK, Roles, NEW p \in Procs, NEW l, NEW k, pc[p] \in {"pinning", "evicting"},
         Evicts(p, l, k), Leaves(p),
         UNCHANGED <<leases, loads, finals, discarded, life, lost>>
  PROVE  Acts(p, l, k)
<1>1. /\ l \in Labels /\ k \in Jobs /\ Fits(p, l, k) /\ Move(p, l, k) /\ p # Closer
  BY EvictTypes
<1>2. Ready(p, job[p]) /\ p \notin asleep /\ job[p].op # "move"
  BY ReadyAt, Awake, NotMoving
<1>3. Sleeps(p, k)
  BY <1>2 DEF Evicts, Sleeps
<1>4. /\ k.lease = job[p].lease /\ (k.lease # Nobody => k.db = job[p].db)
      /\ (job[p].op # "move" => k.op # "move")
      /\ Rests(p, l, k) \/ Takes(p, l, k)
  <2>1. CASE Goes(p, job[p], l, k) /\ UNCHANGED <<runtimes, asleep>>
    BY <1>1, <1>2, <2>1, GoesActs DEF Rests
  <2>2. CASE /\ l = "evicting"
             /\ k.op = job[p].op /\ k.db = job[p].db /\ k.lease = job[p].lease
             /\ \E d \in Databases : /\ runtimes[d] # Nobody /\ leases[d] = 0
                                     /\ k.svc = runtimes[d]
                                     /\ runtimes' = [runtimes EXCEPT ![d] = Nobody]
    BY <2>2 DEF Takes, Closes
  <2> QED BY <2>1, <2>2 DEF Evicts
<1> QED BY <1>1, <1>2, <1>3, <1>4 DEF Acts, Keeping, life

\* The steps of a load and of the sweep behind it.
LEMMA LoadActs ==
  ASSUME TypeOK, Roles, Placed, NEW p \in Procs, LoadStep(p)
  PROVE  \E l, k : Acts(p, l, k)
<1>1. CASE LoadFailed(p)
  <2>1. /\ pc[p] = "loading" /\ Move(p, "idle", NoJob) /\ status[job[p].svc] \in Failed
        /\ UNCHANGED <<runtimes, leases, service, life, asleep, lost>>
    BY <1>1 DEF LoadFailed, Raise
  <2>2. /\ p \in Procs \ {Sweeper, Closer} /\ job[p].lease = Nobody /\ job[p].db \in Databases
        /\ job[p].svc \in Services /\ job[p].op # "move"
    BY <2>1, LoadingAsks, NotMoving DEF Asks
  <2>3. /\ "idle" \in Labels /\ "idle" \notin Closes \cup {"loading"} /\ NoJob \in Jobs
        /\ Fits(p, "idle", NoJob) /\ NoJob.op # "move" /\ NoJob.lease = Nobody
    BY <2>2, NoJobType DEF Fits, Resting, Closes, Labels
  <2>4. Rests(p, "idle", NoJob) \/ Lands(p, "idle", NoJob)
    <3>1. CASE status[job[p].svc] = "failed"
      BY <1>1, <2>1, <2>2, <2>3, <3>1 DEF LoadFailed, Lands, service
    <3>2. CASE status[job[p].svc] # "failed"
      <4>1. Leaves(p)
        BY <2>1, LeavesSame DEF service, Closes
      <4> QED BY <1>1, <2>1, <2>3, <3>2, <4>1 DEF LoadFailed, Rests
    <3> QED BY <3>1, <3>2
  <2>5. Sleeps(p, NoJob)
    BY <2>1, Awake DEF Sleeps
  <2> QED BY <2>1, <2>2, <2>3, <2>4, <2>5 DEF Acts, Keeping, service, life
<1>2. CASE Loaded(p)
  BY <1>2, LoadedActs
<1>3. CASE Discarded(p)
  <2> DEFINE u == [job[p] EXCEPT !.svc = Nobody]
  <2>1. /\ pc[p] \in {"discarding", "refusing"}
        /\ UNCHANGED <<table, finals, discarded, life, asleep, lost>>
        /\ status' = [status EXCEPT ![job[p].svc] = "gone"]
    BY <1>3 DEF Discarded
  <2>2. p \in Procs \ {Sweeper, Closer} /\ job[p].op # "move"
    BY <2>1 DEF Roles, Fits
  <2>3. Leaves(p) /\ \A k : Sleeps(p, k)
    <3>1. pc[p] \in Closes /\ p \notin asleep
      BY <2>1, Awake DEF Closes
    <3>2. Leaves(p)
      BY <2>1, <3>1, LeavesGone, Zenon
    <3> QED BY <2>1, <3>1, <3>2 DEF Sleeps
  <2>4. \E l, k : /\ l \in Labels /\ l \notin Closes \cup {"loading"} /\ k \in Jobs
                  /\ Fits(p, l, k) /\ Move(p, l, k) /\ k.op # "move"
                  /\ k.lease = job[p].lease /\ (k.lease # Nobody => k.db = job[p].db)
    <3>1. CASE pc[p] = "refusing" /\ Raise(p)
      <4>1. Fits(p, "idle", NoJob) /\ "idle" \in Labels /\ "idle" \notin Closes \cup {"loading"}
        BY <2>2, NoJobType, ResidencyAssumption DEF Fits, Resting, Closes, Labels
      <4>2. job[p].lease = Nobody
        BY <3>1 DEF Roles, Fits
      <4> QED BY <3>1, <4>1, <4>2, NoJobType DEF Raise
    <3>2. CASE pc[p] = "discarding" /\ Converge(p, u, runtimes, leases)
      <4>1. Ready(p, job[p])
        BY <3>2, ReadyAt
      <4>2. job[p].op \in {"lease", "get"}
        BY <3>2 DEF Roles, Fits, Resting, TypeOK, Jobs
      <4>3. /\ Ready(p, u) /\ u.op \in {"lease", "get"} /\ u.svc = Nobody
            /\ u.lease = job[p].lease /\ u.db = job[p].db
        BY <4>1, <4>2 DEF Ready, Jobs
      <4> HIDE DEF u
      <4>4. PICK l, k : Goes(p, u, l, k) /\ Move(p, l, k)
        BY <3>2, <4>3, ArriveGoes, SweepGoes DEF Converge
      <4> QED BY <2>2, <4>3, <4>4, GoesActs
    <3> QED BY <1>3, <3>1, <3>2 DEF Discarded
  <2>5. PICK l, k : /\ l \in Labels /\ l \notin Closes \cup {"loading"} /\ k \in Jobs
                    /\ Fits(p, l, k) /\ Move(p, l, k) /\ k.op # "move"
                    /\ k.lease = job[p].lease /\ (k.lease # Nobody => k.db = job[p].db)
    BY <2>4
  <2>6. Rests(p, l, k) /\ Keeping(p, k)
    BY <2>1, <2>3, <2>5 DEF Rests, Keeping, table
  <2> QED BY <2>1, <2>2, <2>3, <2>5, <2>6 DEF Acts, life
<1>4. CASE PinsAnswered(p)
  <2>1. pc[p] = "pinning" /\ UNCHANGED <<leases, loads, service, life, lost>>
    BY <1>4 DEF PinsAnswered
  <2>2. \E victims \in SUBSET Databases : Evict(p, victims)
    <3>1. job[p].list \in SUBSET Databases
      BY DEF TypeOK, Jobs
    <3> QED BY <1>4, <3>1 DEF PinsAnswered
  <2>3. PICK l, k : Evicts(p, l, k)
    BY <2>1, <2>2, EvictGoes
  <2>4. Leaves(p)
    BY <2>1, LeavesSame DEF service, Closes
  <2>5. Acts(p, l, k)
    BY <2>1, <2>3, <2>4, EvictsActs DEF service
  <2> QED BY <2>5
<1>5. CASE Evicted(p)
  <2>1. /\ pc[p] = "evicting" /\ UNCHANGED <<leases, loads, finals, discarded, life, lost>>
        /\ status' = [status EXCEPT ![job[p].svc] = "gone"] /\ Evict(p, job[p].list)
    BY <1>5 DEF Evicted
  <2>2. job[p].list \in SUBSET Databases
    BY DEF TypeOK, Jobs
  <2>3. PICK l, k : Evicts(p, l, k)
    BY <2>1, <2>2, EvictGoes
  <2>4. Leaves(p)
    <3>1. pc[p] \in Closes
      BY <2>1 DEF Closes
    <3> QED BY <2>1, <3>1, LeavesGone, Zenon
  <2>5. Acts(p, l, k)
    BY <2>1, <2>3, <2>4, EvictsActs
  <2> QED BY <2>5
<1> QED BY <1>1, <1>2, <1>3, <1>4, <1>5 DEF LoadStep

\* An unload that waits, or takes its runtime out.
LEMMA TurnActs ==
  ASSUME TypeOK, Roles, NEW p \in Procs \ {Closer}, NEW j, Ready(p, j), j.op \in {"unload", "move"},
         j.svc = Nobody, UnloadTurn(p, j), UNCHANGED <<loads, service, life, lost>>,
         p \notin asleep, pc[p] \notin Closes, job[p].lease = Nobody,
         IF job[p].op = "move" THEN UnloadStep(p) ELSE j.op # "move"
  PROVE  \E l, k : Acts(p, l, k) /\ Turns(p, j, l, k)
<1>1. PICK l, k : Turns(p, j, l, k)
  BY TurnGoes
<1>2. l \in Labels /\ k \in Jobs /\ Fits(p, l, k) /\ Move(p, l, k) /\ UNCHANGED leases
  BY <1>1 DEF Turns, Goes, Labels
<1>3. j.db \in Databases /\ j.lease = Nobody /\ j \in Jobs /\ j.op # "lease"
  BY DEF Ready, Jobs
<1>4. Leaves(p)
  BY LeavesSame DEF service
<1>5. Sleeps(p, k)
  BY <1>1 DEF Turns, Sleeps
<1>6. /\ Rests(p, l, k) \/ Takes(p, l, k)
      /\ k.lease = Nobody /\ (job[p].op # "move" => k.op # "move")
  <2>1. CASE /\ l = "waiting" /\ k = j
             /\ UNCHANGED <<runtimes, leases>>
    BY <1>3, <1>4, <2>1 DEF Rests, Closes
  <2>2. CASE /\ leases[j.db] = 0 /\ runtimes[j.db] = Nobody /\ l # "pinning" /\ Goes(p, j, l, k)
             /\ runtimes' = [runtimes EXCEPT ![j.db] = Nobody]
    <3>1. UNCHANGED runtimes
      BY <1>3, <2>2 DEF TypeOK
    <3>2. /\ l \notin Closes \cup {"loading"} /\ k.lease = Nobody
          /\ (job[p].op # "move" => k.op # "move")
      BY <1>3, <2>2, GoesActs
    <3> QED BY <1>4, <3>1, <3>2 DEF Rests
  <2>3. CASE /\ leases[j.db] = 0 /\ runtimes[j.db] # Nobody /\ l = "unloading"
             /\ k = [j EXCEPT !.svc = runtimes[j.db]]
             /\ runtimes' = [runtimes EXCEPT ![j.db] = Nobody]
    <3>1. k.svc = runtimes[j.db] /\ k.lease = Nobody /\ k.op = j.op
      BY <1>3, <2>3 DEF Jobs
    <3> QED BY <1>3, <1>4, <2>3, <3>1 DEF Takes, Closes
  <2> QED BY <1>1, <2>1, <2>2, <2>3 DEF Turns
<1>7. Acts(p, l, k)
  BY <1>2, <1>5, <1>6 DEF Acts, Keeping, service, life
<1> QED BY <1>1, <1>7

\* A mover at its place in an import.
LEMMA MoverIs ==
  ASSUME TypeOK, Roles, NEW p \in Procs, pc[p] \in {"draining", "clearing", "replacing"}
  PROVE  /\ Ready(p, job[p]) /\ job[p].op = "move" /\ job[p].svc = Nobody /\ job[p].lease = Nobody
         /\ p \in Procs \ {Closer} /\ p # Sweeper /\ p \in Movers /\ p \notin asleep
         /\ job[p] \in Jobs /\ pc[p] \notin Closes
<1>1. job[p] \in Jobs /\ job[p].op \in {"", "lease", "get", "release", "sweep", "unload", "move"}
  BY DEF TypeOK, Jobs
<1>2. Fits(p, pc[p], job[p]) /\ p \notin asleep
  BY Awake DEF Roles
<1> QED BY <1>1, <1>2 DEF Fits, Ready, Resting, Closes

\* What an unload does.
LEMMA UnloadedActs ==
  ASSUME TypeOK, Roles, NEW p \in Procs,
         TryAgain(p) \/ Unloaded(p) \/ (p \in Unloaders /\ \E d \in Databases : Unload(p, d))
  PROVE  \E l, k : Acts(p, l, k)
<1>0. \A q \in Movers \cup Unloaders : q \in Procs /\ q \notin {Sweeper, Closer}
  BY ResidencyAssumption DEF Procs, Callers
<1>1. ASSUME NEW d \in Databases, p \in Unloaders, Unload(p, d)
      PROVE  \E l, k : Acts(p, l, k)
  <2> DEFINE j == [NoJob EXCEPT !.op = "unload", !.db = d]
  <2>1. Ready(p, j) /\ j.op = "unload" /\ j.svc = Nobody
    BY <1>0, <1>1, NoJobType DEF Ready, Jobs
  <2>2. UnloadTurn(p, j) /\ UNCHANGED <<loads, service, life, lost>> /\ pc[p] = "idle"
    BY <1>1 DEF Unload
  <2>3. job[p].lease = Nobody /\ p \notin asleep /\ pc[p] \notin Closes /\ job[p].op # "move"
    BY <2>2, Awake DEF Roles, Fits, Resting, Closes
  <2> HIDE DEF j
  <2> QED BY <1>0, <1>1, <2>1, <2>2, <2>3, TurnActs
<1>2. CASE TryAgain(p)
  <2>1. /\ pc[p] = "waiting" /\ p \notin asleep /\ UnloadTurn(p, job[p])
        /\ UNCHANGED <<loads, service, life, lost>>
    BY <1>2 DEF TryAgain
  <2>2. job[p] \in Jobs /\ job[p].op \in {"", "lease", "get", "release", "sweep", "unload", "move"}
    BY DEF TypeOK, Jobs
  <2>3. Fits(p, "waiting", job[p])
    BY <2>1 DEF Roles
  <2>4. /\ Ready(p, job[p]) /\ job[p].op \in {"unload", "move"} /\ job[p].svc = Nobody /\ p # Closer
        /\ job[p].lease = Nobody
    BY <2>2, <2>3 DEF Fits, Ready, Resting, Closes
  <2>5. pc[p] \notin Closes
    BY <2>1 DEF Closes
  <2>6. UnloadStep(p)
    BY <1>2 DEF UnloadStep
  <2> QED BY <2>1, <2>4, <2>5, <2>6, TurnActs
<1>3. CASE Unloaded(p)
  <2>1. /\ pc[p] = "unloading" /\ Arrive(p, job[p])
        /\ status' = [status EXCEPT ![job[p].svc] = "gone"]
        /\ UNCHANGED <<table, finals, discarded, life, asleep, lost>>
    BY <1>3 DEF Unloaded
  <2>2. Ready(p, job[p]) /\ p \notin asleep /\ pc[p] \in Closes
    BY <2>1, ReadyAt, Awake DEF Closes
  <2>3. PICK l, k : Goes(p, job[p], l, k) /\ Move(p, l, k)
    BY <2>2, <2>1, ArriveGoes
  <2>4. p \in Procs \ {Closer}
    BY <2>2 DEF Ready
  <2>5. /\ l \in Labels /\ l \notin Closes \cup {"loading"} /\ k \in Jobs /\ Fits(p, l, k)
        /\ k.lease = job[p].lease /\ (k.lease # Nobody => k.db = job[p].db)
        /\ (job[p].op # "move" => k.op # "move")
    BY <2>2, <2>3, <2>4, GoesActs
  <2>6. Leaves(p)
    BY <2>1, <2>2, LeavesGone, Zenon
  <2>7. Rests(p, l, k) /\ Keeping(p, k) /\ Sleeps(p, k)
    BY <2>1, <2>2, <2>5, <2>6 DEF Rests, Keeping, Sleeps, table
  <2>8. UnloadStep(p)
    BY <1>3 DEF UnloadStep
  <2> QED BY <2>1, <2>3, <2>4, <2>5, <2>7, <2>8 DEF Acts, life
<1> QED BY <1>1, <1>2, <1>3

\* What a backup import does.
LEMMA MoverActs ==
  ASSUME TypeOK, Roles, NEW p \in Procs,
         Drain(p) \/ ClearNext(p) \/ Cleared(p) \/ Resume(p) \/ (p \in Movers /\ Suspend(p))
  PROVE  \E l, k : Acts(p, l, k)
<1>1. CASE p \in Movers /\ Suspend(p)
  <2> DEFINE j == [NoJob EXCEPT !.op = "move"]
  <2>1. /\ Move(p, "draining", j) /\ pc[p] = "idle" /\ owner' = p /\ asleep' = {}
        /\ UNCHANGED <<table, service, phase, shutting, lost>>
    BY <1>1 DEF Suspend
  <2>2. j \in Jobs /\ j.op = "move" /\ j.svc = Nobody /\ j.lease = Nobody
    BY NoJobType DEF Jobs
  <2>3. p \in Procs \ {Closer} /\ p # Sweeper
    BY <1>1, ResidencyAssumption DEF Procs, Callers
  <2> HIDE DEF j
  <2>4. Fits(p, "draining", j) /\ "draining" \in Labels
    BY <1>1, <2>2, <2>3 DEF Fits, Resting, Closes, Labels
  <2>5. Leaves(p) /\ job[p].lease = Nobody /\ job[p].op # "move"
    BY <2>1, LeavesSame, NotMoving DEF service, Closes, Roles, Fits, Resting
  <2>6. Rests(p, "draining", j) /\ Keeping(p, j) /\ Sleeps(p, j)
    BY <2>1, <2>2, <2>5 DEF Rests, Keeping, Sleeps, table, Closes
  <2> QED BY <1>1, <2>1, <2>2, <2>3, <2>4, <2>5, <2>6 DEF Acts, service
<1>2. CASE ClearNext(p)
  <2>1. pc[p] = "clearing" /\ UNCHANGED <<loads, service, life, lost>>
    BY <1>2 DEF ClearNext
  <2>2. PICK d \in job[p].list : UnloadTurn(p, [job[p] EXCEPT !.db = d, !.list = @ \ {d}])
    BY <1>2 DEF ClearNext
  <2> DEFINE j == [job[p] EXCEPT !.db = d, !.list = @ \ {d}]
  <2>3. /\ Ready(p, job[p]) /\ job[p].op = "move" /\ job[p].svc = Nobody /\ job[p].lease = Nobody
        /\ p \in Procs \ {Closer} /\ p \notin asleep /\ pc[p] \notin Closes
    BY <2>1, MoverIs
  <2>4. Ready(p, j) /\ j.op = "move" /\ j.svc = Nobody
    BY <2>3 DEF Ready, Jobs
  <2>5. UnloadTurn(p, j)
    BY <2>2
  <2>6. UnloadStep(p)
    BY <1>2 DEF UnloadStep
  <2> HIDE DEF j
  <2> QED BY <2>1, <2>3, <2>4, <2>5, <2>6, TurnActs
<1>3. CASE Drain(p) \/ Cleared(p) \/ Resume(p)
  <2>1. /\ pc[p] \in {"draining", "clearing", "replacing"}
        /\ UNCHANGED <<table, service, phase, shutting, lost>>
        /\ asleep' \subseteq asleep
    BY <1>3 DEF Drain, Cleared, Resume, life
  <2>2. /\ job[p].op = "move" /\ job[p].svc = Nobody /\ job[p].lease = Nobody
        /\ p \in Procs \ {Closer} /\ p # Sweeper /\ p \in Movers /\ p \notin asleep
        /\ job[p] \in Jobs /\ pc[p] \notin Closes
    BY <2>1, MoverIs
  <2>3. \E l, k : /\ l \in Labels /\ l \notin Closes \cup {"loading"} /\ k \in Jobs
                  /\ Fits(p, l, k) /\ Move(p, l, k) /\ k.lease = Nobody
    <3>1. CASE Drain(p)
      <4> DEFINE k == [job[p] EXCEPT !.list = {d \in Databases : runtimes[d] # Nobody}]
      <4>1. k \in Jobs /\ k.op = "move" /\ k.svc = Nobody /\ k.lease = Nobody
        BY <2>2 DEF Jobs
      <4>2. Move(p, "clearing", k)
        BY <3>1 DEF Drain
      <4> HIDE DEF k
      <4>3. Fits(p, "clearing", k) /\ "clearing" \in Labels /\ "clearing" \notin Closes \cup {"loading"}
        BY <2>2, <4>1 DEF Fits, Resting, Closes, Labels
      <4> QED BY <4>1, <4>2, <4>3
    <3>2. CASE Cleared(p)
      <4>1. /\ Fits(p, "replacing", job[p]) /\ "replacing" \in Labels
            /\ "replacing" \notin Closes \cup {"loading"}
        BY <2>2 DEF Fits, Resting, Closes, Labels
      <4> QED BY <2>2, <3>2, <4>1 DEF Cleared
    <3>3. CASE Resume(p)
      <4>1. Fits(p, "idle", NoJob) /\ "idle" \in Labels /\ "idle" \notin Closes \cup {"loading"}
        BY <2>2, NoJobType DEF Fits, Resting, Closes, Labels
      <4> QED BY <3>3, <4>1, NoJobType DEF Resume, Raise
    <3> QED BY <1>3, <3>1, <3>2, <3>3
  <2>4. PICK l, k : /\ l \in Labels /\ l \notin Closes \cup {"loading"} /\ k \in Jobs
                    /\ Fits(p, l, k) /\ Move(p, l, k) /\ k.lease = Nobody
    BY <2>3
  <2>5. Leaves(p)
    BY <2>1, <2>2, LeavesSame DEF service
  <2>6. Rests(p, l, k) /\ Keeping(p, k) /\ Sleeps(p, k)
    BY <2>1, <2>2, <2>4, <2>5 DEF Rests, Keeping, Sleeps, table
  <2>7. UnloadStep(p)
    BY <1>3 DEF UnloadStep
  <2> QED BY <2>1, <2>2, <2>4, <2>6, <2>7 DEF Acts, service
<1> QED BY <1>1, <1>2, <1>3

\* A coroutine that is interrupted.
LEMMA InterruptActs ==
  ASSUME TypeOK, Roles, NEW p \in Procs, Interrupt(p)
  PROVE  Acts(p, "idle", NoJob)
<1>1. /\ pc[p] \in {"pinning", "loading", "evicting", "discarding", "refusing", "waiting",
                    "unloading"}
      /\ status' = Cut(p) /\ asleep' = asleep \ {p} /\ Move(p, "idle", NoJob)
      /\ UNCHANGED <<table, finals, discarded, life>>
  BY DEF Interrupt, Interrupted, Raise
<1>2. /\ p \in Procs \ {Closer} /\ (job[p].lease # Nobody => job[p].op = "lease" /\ p \in Users)
      /\ job[p].op # "move"
  BY <1>1 DEF Roles, Fits, Interrupt, Interrupted
<1>3. Fits(p, "idle", NoJob) /\ "idle" \in Labels /\ "idle" \notin Closes \cup {"loading"}
  BY <1>2, NoJobType, ResidencyAssumption DEF Fits, Resting, Closes, Labels
<1>4. Rests(p, "idle", NoJob) /\ Sleeps(p, NoJob)
  BY <1>1, <1>3, LeavesCut DEF Rests, Sleeps, table
<1>5. Keeping(p, NoJob) \/ Gives(p, NoJob)
  <2>1. CASE job[p].lease # Nobody
    BY <1>1, <1>2, <2>1, NoJobType DEF Interrupt, Gives, table
  <2>2. CASE job[p].lease = Nobody
    BY <1>1, <2>2, NoJobType DEF Interrupt, Keeping, table
  <2> QED BY <2>1, <2>2
<1> QED BY <1>1, <1>2, <1>3, <1>4, <1>5, NoJobType DEF Acts, life

\* The periodic sweep.
LEMMA SweepActs ==
  ASSUME TypeOK, Roles, SweepBegins
  PROVE  \E l, k : Acts(Sweeper, l, k)
<1> DEFINE j == [NoJob EXCEPT !.op = "sweep"]
<1>1. /\ pc[Sweeper] = "idle" /\ Sweep(Sweeper, j, runtimes, leases, {})
      /\ UNCHANGED <<table, service, life, asleep, lost>>
  BY DEF SweepBegins
<1>2. Ready(Sweeper, j) /\ j.op = "sweep" /\ j.svc = Nobody /\ j.lease = Nobody
  BY NoJobType, CloserIn, ResidencyAssumption DEF Ready, Jobs, Callers
<1> HIDE DEF j
<1>3. PICK l, k : Goes(Sweeper, j, l, k) /\ Move(Sweeper, l, k)
  BY <1>1, <1>2, SweepGoes
<1>4. Sweeper \in Procs \ {Closer}
  BY CloserIn, ResidencyAssumption
<1>5. /\ l \in Labels /\ l \notin Closes \cup {"loading"} /\ k \in Jobs /\ Fits(Sweeper, l, k)
      /\ k.lease = Nobody /\ k.op # "move"
  BY <1>2, <1>3, <1>4, GoesActs
<1>6. /\ Leaves(Sweeper) /\ Sweeper \notin asleep /\ job[Sweeper].lease = Nobody
      /\ job[Sweeper].op # "move"
  BY <1>1, <1>4, LeavesSame, Awake, NotMoving DEF service, Closes, Roles, Fits, Resting
<1>7. Rests(Sweeper, l, k) /\ Keeping(Sweeper, k) /\ Sleeps(Sweeper, k)
  BY <1>1, <1>5, <1>6 DEF Rests, Keeping, Sleeps, table
<1> QED BY <1>1, <1>3, <1>4, <1>5, <1>6, <1>7 DEF Acts, service, life
-----------------------------------------------------------------------------
\* The tables.

\* What the step of one coroutine changes in what coroutines close and wait for.
LEMMA ActsMoves ==
  ASSUME TypeOK, Roles, NEW p, NEW l, NEW k, Acts(p, l, k)
  PROVE  /\ pc'[p] = l /\ job'[p] = k /\ pc'[Closer] = pc[Closer] /\ p \in Procs
         /\ \A q \in Procs \ {p} : pc'[q] = pc[q] /\ job'[q] = job[q]
         /\ \A q \in Procs \ {p}, x \in Services : Closing(q, x)' <=> Closing(q, x)
         /\ \A x \in Services : Closing(p, x)' <=> l \in Closes /\ k.svc = x
         /\ UNCHANGED <<finals, discarded, phase, shutting>>
<1>1. /\ p \in Procs \ {Closer} /\ l \in Labels /\ k \in Jobs /\ Fits(p, l, k) /\ Move(p, l, k)
      /\ UNCHANGED <<finals, discarded, phase, shutting>>
  BY DEF Acts
<1>2. /\ pc'[p] = l /\ job'[p] = k
      /\ \A q \in Procs \ {p} : pc'[q] = pc[q] /\ job'[q] = job[q]
  BY <1>1, MoveIs
<1> QED BY <1>1, <1>2, CloserIn DEF Closing, Closes

\* Each of these keeps the tables in order.
LEMMA RestsTables ==
  ASSUME TypeOK, Roles, Tables, NEW p, NEW l, NEW k, Acts(p, l, k), Rests(p, l, k)
  PROVE  Tables'
<1>1. /\ pc'[p] = l /\ job'[p] = k /\ pc'[Closer] = pc[Closer] /\ p \in Procs
      /\ \A q \in Procs \ {p} : pc'[q] = pc[q] /\ job'[q] = job[q]
      /\ \A q \in Procs \ {p}, x \in Services : Closing(q, x)' <=> Closing(q, x)
      /\ \A x \in Services : Closing(p, x)' <=> l \in Closes /\ k.svc = x
      /\ UNCHANGED <<finals, discarded, phase, shutting>>
  BY ActsMoves
<1>2. /\ l \notin Closes /\ (l = "loading" => k.svc = loads[k.db])
      /\ Leaves(p) /\ UNCHANGED <<runtimes, loads>>
  BY DEF Rests
<1>3. \A x \in Services : Closing(p, x) => ~Resident(x) /\ Flight(x) = {}
  BY <1>1 DEF Tables, Apart
<1>4. (\A x : Resident(x)' <=> Resident(x)) /\ (\A x : Flight(x)' = Flight(x))
  BY <1>2 DEF Resident, Flight
<1>5. Placed'
  BY <1>2 DEF Placed, Tables
<1>6. Stated'
  <2>1. \A d \in Databases : runtimes[d] # Nobody => status'[runtimes[d]] = status[runtimes[d]]
    BY <1>2, <1>3 DEF Leaves, Resident, TypeOK
  <2>2. \A d \in Databases : loads[d] # Nobody => status'[loads[d]] = status[loads[d]]
    BY <1>2, <1>3 DEF Leaves, Flight, TypeOK
  <2> QED BY <1>2, <2>1, <2>2 DEF Stated, Tables
<1>7. Apart'
  <2>1. \A q \in Procs, x \in Services : Closing(q, x)' => Closing(q, x)
    BY <1>1, <1>2
  <2> QED BY <1>1, <1>4, <2>1 DEF Apart, Tables
<1>8. Waits'
  <2>1. CASE l = "loading"
    <3>1. k.svc # Nobody /\ k.db \in Databases
      BY <2>1 DEF Acts, Fits, Jobs
    <3>2. \A d \in Databases : k.svc \in {runtimes[d], loads[d]} => d = k.db
      BY <1>2, <2>1, <3>1 DEF Placed, Tables
    <3> QED BY <1>1, <1>2, <3>2 DEF Waits, Tables
  <2>2. CASE l # "loading"
    BY <1>1, <1>2, <2>2 DEF Waits, Tables
  <2> QED BY <2>1, <2>2
<1>9. Flights'
  <2>1. \A x \in Services : status'[x] = "building" => status[x] = "building"
    BY <1>2 DEF Leaves
  <2> QED BY <1>1, <1>2, <1>4, <2>1 DEF Flights, SingleFlight, Tables, TypeOK
<1>10. Known'
  <2>1. \A x \in Services : status'[x] = "built" => status[x] = "built" /\ ~Closing(p, x)
    BY <1>2 DEF Leaves
  <2> QED BY <1>1, <1>2, <1>4, <2>1 DEF Known, BeingClosed, Tables
<1> QED BY <1>5, <1>6, <1>7, <1>8, <1>9, <1>10 DEF Tables

\* A coroutine that takes a service out keeps the tables.
LEMMA TakesTables ==
  ASSUME TypeOK, Roles, Tables, NEW p, NEW l, NEW k, Acts(p, l, k), Takes(p, l, k)
  PROVE  Tables'
<1>1. /\ pc'[p] = l /\ job'[p] = k /\ pc'[Closer] = pc[Closer] /\ p \in Procs
      /\ \A q \in Procs \ {p} : pc'[q] = pc[q] /\ job'[q] = job[q]
      /\ \A q \in Procs \ {p}, x \in Services : Closing(q, x)' <=> Closing(q, x)
      /\ \A x \in Services : Closing(p, x)' <=> l \in Closes /\ k.svc = x
      /\ UNCHANGED <<finals, discarded, phase, shutting>>
  BY ActsMoves
<1>2. PICK d \in Databases, c \in Services :
        c = runtimes[d] /\ k.svc = c /\ runtimes' = [runtimes EXCEPT ![d] = Nobody]
  BY DEF Takes, TypeOK
<1>3. l \in Closes /\ l # "loading" /\ Leaves(p) /\ UNCHANGED loads
  BY DEF Takes, Closes
<1>4. /\ c # Nobody /\ runtimes'[d] = Nobody
      /\ \A e \in Databases \ {d} : runtimes'[e] = runtimes[e] /\ runtimes[e] # c
      /\ \A e \in Databases : loads[e] # c
  <2>1. c # Nobody
    BY ResidencyAssumption
  <2> QED BY <1>2, <2>1 DEF TypeOK, Placed, Tables
<1>5. \A x \in Services : Closing(p, x) => ~Resident(x) /\ Flight(x) = {}
  BY <1>1 DEF Tables, Apart
<1>6. /\ \A x \in Services \ {c} : Resident(x)' <=> Resident(x)
      /\ \A x : Flight(x)' = Flight(x)
      /\ ~Resident(c)' /\ Resident(c) /\ Flight(c) = {}
  <2>1. Nobody \notin Services
    BY ResidencyAssumption
  <2>2. \A x \in Services \ {c} : Resident(x)' <=> Resident(x)
    BY <1>2, <1>4, <2>1 DEF Resident
  <2>3. ~Resident(c)' /\ Resident(c)
    BY <1>2, <1>4 DEF Resident
  <2> QED BY <1>3, <1>4, <2>2, <2>3 DEF Flight
<1>7. Placed'
  BY <1>3, <1>4 DEF Placed, Tables
<1>8. Stated'
  <2>1. \A e \in Databases \ {d} : runtimes[e] # Nobody => status'[runtimes[e]] = status[runtimes[e]]
    BY <1>3, <1>5 DEF Leaves, Resident, TypeOK
  <2>2. \A e \in Databases : loads[e] # Nobody => status'[loads[e]] = status[loads[e]]
    BY <1>3, <1>5 DEF Leaves, Flight, TypeOK
  <2> QED BY <1>3, <1>4, <2>1, <2>2 DEF Stated, Tables
<1>9. Apart'
  <2>1. \A x \in Services : ~Resident(x) => ~Resident(x)'
    BY <1>6
  <2>2. \A q \in Procs, x \in Services : Closing(q, x)' => Closing(q, x) \/ x = c
    BY <1>1, <1>2
  <2> QED BY <1>1, <1>6, <2>1, <2>2 DEF Apart, Tables, TypeOK
<1>10. Waits'
  <2>1. \A q \in Procs : pc'[q] = "loading" => pc[q] = "loading" /\ job'[q] = job[q] /\ job[q].svc # Nobody
    BY <1>1, <1>3 DEF Roles, Fits
  <2> QED BY <1>3, <1>4, <2>1 DEF Waits, Tables
<1>11. Flights'
  <2>1. \A x \in Services : status'[x] = "building" => status[x] = "building"
    BY <1>3 DEF Leaves
  <2>2. \A e \in Databases : runtimes[e] = Nobody => runtimes'[e] = Nobody
    BY <1>4
  <2>3. \A x : Flight(x) \subseteq Databases
    BY DEF Flight
  <2> QED BY <1>1, <1>6, <2>1, <2>2, <2>3 DEF Flights, SingleFlight, Tables, TypeOK
<1>12. Known'
  <2>1. \A x \in Services : status'[x] = "built" => status[x] = "built" /\ ~Closing(p, x)
    BY <1>3 DEF Leaves
  <2>2. Closing(p, c)'
    BY <1>1, <1>2, <1>3
  <2>3. \A x \in Services : status'[x] = "built" =>
          Resident(x)' \/ BeingClosed(x)' \/ (x \in finals /\ Flight(x) # {})
    <3>1. TAKE x \in Services
    <3>2. HAVE status'[x] = "built"
    <3>3. CASE x = c
      BY <1>1, <2>2, <3>3 DEF BeingClosed
    <3>4. CASE x # c
      BY <1>1, <1>6, <2>1, <3>2, <3>4 DEF Known, BeingClosed, Tables
    <3> QED BY <3>3, <3>4
  <2> QED BY <1>1, <1>4, <1>6, <2>3 DEF Known, Tables
<1> QED BY <1>7, <1>8, <1>9, <1>10, <1>11, <1>12 DEF Tables

\* So does one that starts a load,
LEMMA LaunchesTables ==
  ASSUME TypeOK, Roles, Tables, NEW p, NEW l, NEW k, Acts(p, l, k), Launches(p, l, k)
  PROVE  Tables'
<1>1. /\ pc'[p] = l /\ job'[p] = k /\ pc'[Closer] = pc[Closer] /\ p \in Procs
      /\ \A q \in Procs \ {p} : pc'[q] = pc[q] /\ job'[q] = job[q]
      /\ \A q \in Procs \ {p}, x \in Services : Closing(q, x)' <=> Closing(q, x)
      /\ \A x \in Services : Closing(p, x)' <=> l \in Closes /\ k.svc = x
      /\ UNCHANGED <<finals, discarded, phase, shutting>>
  BY ActsMoves
<1> DEFINE c == k.svc
           d == k.db
<1>2. /\ l = "loading" /\ l \notin Closes /\ phase = "open" /\ c \in Fresh /\ d \in Databases
      /\ runtimes[d] = Nobody /\ loads[d] = Nobody
      /\ loads'  = [loads EXCEPT ![d] = c]
      /\ status' = [status EXCEPT ![c] = "building"]
      /\ UNCHANGED runtimes
  BY DEF Launches, Acts, Jobs, Closes, MayLoad
<1> HIDE DEF c, d
<1>3. /\ c \in Services /\ ~Resident(c) /\ Flight(c) = {} /\ c # Nobody
      /\ c \notin finals \cup discarded \cup shutting
      /\ \A q \in Procs : job[q].svc # c
  BY <1>2, ResidencyAssumption DEF Fresh
<1>4. /\ \A e \in Databases : loads'[e] = IF e = d THEN c ELSE loads[e]
      /\ \A x \in Services : status'[x] = IF x = c THEN "building" ELSE status[x]
      /\ \A e \in Databases : runtimes[e] # c /\ loads[e] # c
  BY <1>2, <1>3 DEF TypeOK, Resident, Flight
<1>5. /\ \A x : Resident(x)' <=> Resident(x)
      /\ \A x \in Services \ {c} : Flight(x)' = Flight(x)
      /\ Flight(c)' = {d}
  <2>1. Nobody \notin Services
    BY ResidencyAssumption
  <2> QED BY <1>2, <1>3, <1>4, <2>1 DEF Resident, Flight
<1>6. Placed'
  BY <1>2, <1>4 DEF Placed, Tables
<1>7. Stated'
  <2>1. \A e \in Databases : runtimes'[e] # Nobody => status'[runtimes'[e]] = "built"
    BY <1>2, <1>4 DEF Stated, Tables, TypeOK
  <2>2. \A e \in Databases : loads'[e] # Nobody =>
          status'[loads'[e]] \in {"building", "built"} \cup Failed
    <3>1. TAKE e \in Databases
    <3>2. CASE e = d
      BY <1>3, <1>4, <3>2
    <3>3. CASE e # d
      BY <1>4, <3>3 DEF Stated, Tables, TypeOK
    <3> QED BY <3>2, <3>3
  <2> QED BY <2>1, <2>2 DEF Stated
<1>8. Apart'
  <2>1. \A q \in Procs, x \in Services : Closing(q, x)' => Closing(q, x) /\ x # c
    BY <1>1, <1>2, <1>3 DEF Closing
  <2> QED BY <1>1, <1>3, <1>5, <2>1 DEF Apart, Tables, TypeOK
<1>9. Waits'
  <2>1. \A q \in Procs \ {p} : job[q].svc # c
    BY <1>3
  <2>2. \A e \in Databases : c \in {runtimes'[e], loads'[e]} => e = d
    BY <1>2, <1>4
  <2>3. \A q \in Procs \ {p} : pc[q] = "loading" =>
          \A e \in Databases : job[q].svc \in {runtimes[e], loads'[e]} => e = job[q].db
    BY <1>4, <2>1 DEF Waits, Tables
  <2> QED BY <1>1, <1>2, <2>2, <2>3 DEF Waits, c, d
<1>10. Flights'
  <2>1. pc'[Closer] = "idle"
    BY <1>1, <1>2 DEF Roles
  <2>2. SingleFlight'
    <3>1. \A x \in Services : status'[x] = "building" =>
            Flight(x)' # {} /\ \A e \in Flight(x)' : runtimes'[e] = Nobody
      <4>1. TAKE x \in Services
      <4>2. CASE x = c
        BY <1>2, <1>5, <4>2
      <4>3. CASE x # c
        BY <1>2, <1>4, <1>5, <4>3 DEF Flights, SingleFlight, Tables
      <4> QED BY <4>2, <4>3
    <3> QED BY <3>1 DEF SingleFlight
  <2>3. \A x \in finals' : status'[x] # "building"
    BY <1>1, <1>3, <1>4 DEF Flights, Tables, TypeOK
  <2> QED BY <2>1, <2>2, <2>3 DEF Flights
<1>11. Known'
  <2>1. pc'[Closer] = "idle"
    BY <1>1, <1>2 DEF Roles
  <2>2. \A x \in Services \ {c} : BeingClosed(x) => BeingClosed(x)'
    <3>1. \A x \in Services : ~Closing(p, x)
      BY DEF Launches, Closing, Closes
    <3> QED BY <1>1, <3>1 DEF BeingClosed
  <2> QED BY <1>1, <1>4, <1>5, <2>1, <2>2 DEF Known, Tables
<1> QED BY <1>6, <1>7, <1>8, <1>9, <1>10, <1>11 DEF Tables

\* one whose load has ended,
LEMMA LandsTables ==
  ASSUME TypeOK, Roles, Tables, NEW p, NEW l, NEW k, Acts(p, l, k), Lands(p, l, k)
  PROVE  Tables'
<1>1. /\ pc'[p] = l /\ job'[p] = k /\ pc'[Closer] = pc[Closer] /\ p \in Procs
      /\ \A q \in Procs \ {p} : pc'[q] = pc[q] /\ job'[q] = job[q]
      /\ \A q \in Procs \ {p}, x \in Services : Closing(q, x)' <=> Closing(q, x)
      /\ \A x \in Services : Closing(p, x)' <=> l \in Closes /\ k.svc = x
      /\ UNCHANGED <<finals, discarded, phase, shutting>>
  BY ActsMoves
<1>2. PICK c \in Services, d \in Databases :
        /\ c = job[p].svc /\ d = job[p].db /\ loads' = Landed(c) /\ status[c] # "building"
        /\ \/ status[c] = "failed" /\ l \notin Closes /\ UNCHANGED runtimes
           \/ /\ status[c] \notin {"building"} \cup Failed
              /\ l \in Closes /\ k.svc = c /\ runtimes[d] # c
              /\ UNCHANGED runtimes
           \/ /\ status[c] \notin {"building"} \cup Failed
              /\ l \notin Closes /\ runtimes[d] = Nobody /\ loads[d] = c /\ phase = "open"
              /\ runtimes' = [runtimes EXCEPT ![d] = c]
  BY DEF Lands, Failed
<1>3. pc[p] = "loading" /\ l # "loading" /\ UNCHANGED status
  BY DEF Lands
<1>4. Nobody \notin Services /\ c # Nobody
  BY ResidencyAssumption
<1>5. /\ \A e \in Databases : loads'[e] = IF loads[e] = c THEN Nobody ELSE loads[e]
      /\ \A e \in Databases : c \in {runtimes[e], loads[e]} => e = d
  BY <1>1, <1>2, <1>3 DEF Landed, Waits, Tables
<1>6. /\ \A x \in Services \ {c} : Flight(x)' = Flight(x)
      /\ Flight(c)' = {}
  BY <1>4, <1>5 DEF Flight
<1>8. \/ /\ UNCHANGED runtimes /\ (\A x : Resident(x)' <=> Resident(x))
         /\ l \in Closes => k.svc = c /\ ~Resident(c)
         /\ l \notin Closes => status[c] = "failed"
      \/ /\ l \notin Closes /\ phase = "open" /\ runtimes[d] = Nobody /\ loads[d] = c
         /\ status[c] = "built"
         /\ \A e \in Databases : runtimes'[e] = IF e = d THEN c ELSE runtimes[e]
         /\ Resident(c)' /\ (\A x \in Services \ {c} : Resident(x)' <=> Resident(x))
         /\ \A e \in Databases : runtimes[e] # c
  <2>1. CASE \/ status[c] = "failed" /\ l \notin Closes /\ UNCHANGED runtimes
             \/ /\ status[c] \notin {"building"} \cup Failed
                /\ l \in Closes /\ k.svc = c /\ runtimes[d] # c
                /\ UNCHANGED runtimes
    BY <1>5, <2>1 DEF Resident
  <2>2. CASE /\ status[c] \notin {"building"} \cup Failed
             /\ l \notin Closes /\ runtimes[d] = Nobody /\ loads[d] = c /\ phase = "open"
             /\ runtimes' = [runtimes EXCEPT ![d] = c]
    <3>1. status[c] = "built"
      BY <1>4, <2>2 DEF Stated, Tables
    <3>2. \A e \in Databases : runtimes'[e] = IF e = d THEN c ELSE runtimes[e]
      BY <2>2 DEF TypeOK
    <3>3. \A e \in Databases : runtimes[e] # c
      BY <1>4, <2>2 DEF Placed, Tables
    <3>4. Resident(c)' /\ (\A x \in Services \ {c} : Resident(x)' <=> Resident(x))
      BY <1>4, <2>2, <3>2 DEF Resident
    <3> QED BY <2>2, <3>1, <3>2, <3>3, <3>4
  <2> QED BY <1>2, <2>1, <2>2
<1>9. Placed'
  <2>1. CASE UNCHANGED runtimes
    BY <1>5, <2>1 DEF Placed, Tables
  <2>2. CASE /\ \A e \in Databases : runtimes'[e] = IF e = d THEN c ELSE runtimes[e]
             /\ loads[d] = c /\ \A e \in Databases : runtimes[e] # c
    BY <1>4, <1>5, <2>2 DEF Placed, Tables
  <2> QED BY <1>8, <2>1, <2>2
<1>10. Stated'
  <2>1. \A e \in Databases : loads'[e] # Nobody =>
          status'[loads'[e]] \in {"building", "built"} \cup Failed
    BY <1>3, <1>5 DEF Stated, Tables
  <2>2. \A e \in Databases : runtimes'[e] # Nobody => status'[runtimes'[e]] = "built"
    BY <1>3, <1>8 DEF Stated, Tables
  <2> QED BY <2>1, <2>2 DEF Stated
<1>11. Apart'
  <2>1. \A q \in Procs, x \in Services : Closing(q, x) \/ x \in discarded =>
          ~Resident(x)' /\ Flight(x)' = {}
    <3>1. \A x \in Services : ~Resident(x) /\ Flight(x) = {} => ~Resident(x)' /\ Flight(x)' = {}
      BY <1>6, <1>8 DEF Flight
    <3> QED BY <3>1 DEF Apart, Tables
  <2>2. \A x \in Services : Closing(p, x)' => x = c /\ ~Resident(c)' /\ Flight(c)' = {}
    BY <1>1, <1>6, <1>8
  <2>3. \A x \in shutting : Flight(x)' = {}
    BY <1>6 DEF Apart, Tables, TypeOK
  <2>4. \A q \in Procs, x \in Services : Closing(q, x)' => ~Resident(x)' /\ Flight(x)' = {}
    BY <1>1, <2>1, <2>2
  <2> QED BY <1>1, <2>1, <2>3, <2>4 DEF Apart, TypeOK
<1>12. Waits'
  <2>1. \A q \in Procs : pc'[q] = "loading" => q # p /\ pc[q] = "loading" /\ job'[q] = job[q]
    BY <1>1, <1>3
  <2>2. \A q \in Procs : pc[q] = "loading" => job[q].svc # Nobody
    BY DEF Roles, Fits
  <2>3. \A e \in Databases : /\ runtimes'[e] \in {runtimes[e], loads[e]}
                             /\ loads'[e] \in {loads[e], Nobody}
    BY <1>5, <1>8
  <2> QED BY <2>1, <2>2, <2>3 DEF Waits, Tables
<1>13. Flights'
  <2>1. SingleFlight'
    <3>1. \A x \in Services : status'[x] = "building" =>
            Flight(x)' # {} /\ \A e \in Flight(x)' : runtimes'[e] = Nobody
      <4>1. TAKE x \in Services
      <4>2. HAVE status'[x] = "building"
      <4>3. x # c /\ status[x] = "building"
        BY <1>2, <1>3, <4>2
      <4>4. \A e \in Flight(x) : e \in Databases /\ loads[e] # c
        BY <4>3 DEF Flight
      <4> QED BY <1>6, <1>8, <4>3, <4>4 DEF Flights, SingleFlight, Tables
    <3> QED BY <3>1 DEF SingleFlight
  <2> QED BY <1>1, <1>3, <2>1 DEF Flights, Tables
<1>14. Known'
  <2>1. \A x \in Services : BeingClosed(x) => BeingClosed(x)'
    <3>1. \A x \in Services : ~Closing(p, x)
      BY <1>3 DEF Closing
    <3> QED BY <1>1, <3>1 DEF BeingClosed
  <2>2. \A x \in Services : status'[x] = "built" =>
          Resident(x)' \/ BeingClosed(x)' \/ (x \in finals' /\ Flight(x)' # {})
    <3>1. TAKE x \in Services
    <3>2. HAVE status'[x] = "built"
    <3>3. CASE x = c
      <4>1. l \in Closes => Closing(p, c)'
        BY <1>1, <1>8
      <4>2. Resident(c)' \/ l \in Closes
        BY <1>3, <1>8, <3>2, <3>3
      <4> QED BY <1>1, <3>3, <4>1, <4>2 DEF BeingClosed
    <3>4. CASE x # c
      BY <1>1, <1>3, <1>6, <1>8, <2>1, <3>2, <3>4 DEF Known, Tables
    <3> QED BY <3>3, <3>4
  <2>3. pc'[Closer] = "closing" => \A e \in Databases : runtimes'[e] \in shutting' \cup {Nobody}
    <3>1. CASE UNCHANGED runtimes
      BY <1>1, <3>1 DEF Known, Tables
    <3>2. CASE phase = "open"
      BY <1>1, <3>2 DEF Roles
    <3> QED BY <1>8, <3>1, <3>2
  <2> QED BY <1>1, <2>2, <2>3 DEF Known, Tables
<1> QED BY <1>9, <1>10, <1>11, <1>12, <1>13, <1>14 DEF Tables

\* A coroutine's step keeps the tables in order.
LEMMA ActsTables ==
  ASSUME TypeOK, Roles, Tables, NEW p, NEW l, NEW k, Acts(p, l, k)
  PROVE  Tables'
<1>1. Rests(p, l, k) \/ Takes(p, l, k) \/ Launches(p, l, k) \/ Lands(p, l, k)
  BY DEF Acts
<1> QED BY <1>1, RestsTables, TakesTables, LaunchesTables, LandsTables

\* Where no coroutine moves, none closes anything else.
LEMMA SameClosing ==
  ASSUME UNCHANGED <<pc, job>>
  PROVE  \A q, x : Closing(q, x)' <=> Closing(q, x)
BY DEF Closing

\* a load that ends,
LEMMA BuildTables ==
  ASSUME TypeOK, Roles, Tables, NEW k \in Services, BuildEnds(k)
  PROVE  Tables'
<1>1. /\ status[k] = "building" /\ finals' = finals \cup {k}
      /\ UNCHANGED <<runtimes, leases, loads, discarded, owner, phase, shutting, pc, job>>
  BY DEF BuildEnds, table, life
<1>2. PICK s \in {"built", "failed"} : \A x \in Services : status'[x] = IF x = k THEN s ELSE status[x]
  BY DEF BuildEnds, TypeOK
<1>3. /\ \A x : Resident(x)' <=> Resident(x)
      /\ \A x : Flight(x)' = Flight(x)
      /\ \A x : BeingClosed(x)' <=> BeingClosed(x)
      /\ \A q, x : Closing(q, x)' <=> Closing(q, x)
  BY <1>1, SameClosing DEF Resident, Flight, BeingClosed
<1>4. \A d \in Databases : runtimes[d] # k
  BY <1>1, ResidencyAssumption DEF Stated, Tables, TypeOK
<1>5. Stated'
  <2>1. \A d \in Databases : runtimes'[d] # Nobody => status'[runtimes'[d]] = "built"
    BY <1>1, <1>2, <1>4 DEF Stated, Tables, TypeOK
  <2>2. \A d \in Databases : loads'[d] # Nobody =>
          status'[loads'[d]] \in {"building", "built"} \cup Failed
    BY <1>1, <1>2 DEF Stated, Tables, TypeOK, Failed
  <2> QED BY <2>1, <2>2 DEF Stated
<1>6. Flights'
  BY <1>1, <1>2, <1>3 DEF Flights, SingleFlight, Tables, TypeOK
<1>7. Known'
  <2>1. Flight(k) # {}
    BY <1>1 DEF Flights, SingleFlight, Tables
  <2> QED BY <1>1, <1>2, <1>3, <2>1 DEF Known, Tables
<1>8. Placed' /\ Apart' /\ Waits'
  BY <1>1, <1>3 DEF Placed, Apart, Waits, Tables
<1> QED BY <1>5, <1>6, <1>7, <1>8 DEF Tables

\* the callback that adopts or discards its service,
LEMMA FinalizeTables ==
  ASSUME TypeOK, Roles, Tables, NEW k \in Services, Finalize(k)
  PROVE  Tables'
<1> DEFINE ready == {d \in Flight(k) : runtimes[d] = Nobody /\ phase = "open"}
           adopt == status[k] \notin Failed /\ ready # {}
<1>1. /\ k \in finals /\ finals' = finals \ {k} /\ loads' = Landed(k)
      /\ runtimes' = [d \in Databases |-> IF adopt /\ d \in ready THEN k ELSE runtimes[d]]
      /\ discarded' = IF status[k] \notin Failed /\ ~adopt /\ ~Resident(k)
                        THEN discarded \cup {k} ELSE discarded
      /\ UNCHANGED <<leases, status, owner, phase, shutting, pc, job>>
  BY DEF Finalize, FinalizeWith, life
<1>2. Nobody \notin Services /\ k # Nobody /\ status[k] # "building"
  BY <1>1, ResidencyAssumption DEF Flights, Tables
<1>3. /\ \A e \in Databases : loads'[e] = IF loads[e] = k THEN Nobody ELSE loads[e]
      /\ \A x \in Services \ {k} : Flight(x)' = Flight(x)
      /\ Flight(k)' = {}
  BY <1>1, <1>2 DEF Landed, Flight
<1>4. \A q, x : Closing(q, x)' <=> Closing(q, x)
  BY <1>1, SameClosing
<1>5. \/ ~adopt /\ runtimes' = runtimes /\ (\A x : Resident(x)' <=> Resident(x))
      \/ /\ adopt /\ phase = "open" /\ status[k] = "built" /\ discarded' = discarded
         /\ Flight(k) # {} /\ ~Resident(k)
         /\ \A e \in Databases :
              runtimes'[e] = IF loads[e] = k /\ runtimes[e] = Nobody THEN k ELSE runtimes[e]
         /\ Resident(k)' /\ (\A x \in Services \ {k} : Resident(x)' <=> Resident(x))
  <2>1. CASE ~adopt
    BY <1>1, <2>1 DEF Resident, TypeOK
  <2>2. CASE adopt
    <3>1. PICK d \in Databases : loads[d] = k /\ runtimes[d] = Nobody /\ phase = "open"
      BY <2>2 DEF Flight
    <3>2. status[k] = "built"
      BY <1>2, <2>2, <3>1 DEF Stated, Tables
    <3>3. \A e \in Databases :
              runtimes'[e] = IF loads[e] = k /\ runtimes[e] = Nobody THEN k ELSE runtimes[e]
      BY <1>1, <2>2, <3>1 DEF Flight
    <3>4. Flight(k) # {} /\ ~Resident(k)
      BY <1>2, <3>1 DEF Flight, Resident, Placed, Tables
    <3>5. Resident(k)' /\ (\A x \in Services \ {k} : Resident(x)' <=> Resident(x))
      BY <1>2, <3>1, <3>3 DEF Resident
    <3> QED BY <1>1, <2>2, <3>1, <3>2, <3>3, <3>4, <3>5
  <2> QED BY <2>1, <2>2
<1> HIDE DEF adopt
<1>6. Placed'
  <2>1. CASE runtimes' = runtimes
    BY <1>3, <2>1 DEF Placed, Tables
  <2>2. CASE /\ \A e \in Databases :
                  runtimes'[e] = IF loads[e] = k /\ runtimes[e] = Nobody THEN k ELSE runtimes[e]
             /\ ~Resident(k)
    BY <1>2, <1>3, <2>2 DEF Placed, Tables, Resident
  <2> QED BY <1>5, <2>1, <2>2
<1>7. Stated'
  <2>1. \A e \in Databases : loads'[e] # Nobody =>
          status'[loads'[e]] \in {"building", "built"} \cup Failed
    BY <1>1, <1>3 DEF Stated, Tables
  <2>2. \A e \in Databases : runtimes'[e] # Nobody => status'[runtimes'[e]] = "built"
    BY <1>1, <1>5 DEF Stated, Tables
  <2> QED BY <2>1, <2>2 DEF Stated
<1>8. Apart'
  <2>1. \A x \in Services : ~Resident(x) /\ Flight(x) = {} => ~Resident(x)' /\ Flight(x)' = {}
    BY <1>3, <1>5
  <2>2. \A x \in discarded' : ~Resident(x)' /\ Flight(x)' = {}
    <3>1. TAKE x \in discarded'
    <3>2. CASE x \in discarded
      BY <2>1, <3>2 DEF Apart, Tables, TypeOK
    <3>3. CASE x \notin discarded
      BY <1>1, <1>3, <1>5, <3>1, <3>3
    <3> QED BY <3>2, <3>3
  <2>3. \A x \in shutting' : Flight(x)' = {}
    BY <1>1, <1>3 DEF Apart, Tables, TypeOK
  <2>4. \A q \in Procs, x \in Services : Closing(q, x)' => ~Resident(x)' /\ Flight(x)' = {}
    BY <1>4, <2>1 DEF Apart, Tables
  <2> QED BY <2>2, <2>3, <2>4 DEF Apart
<1>9. Waits'
  <2>1. \A q \in Procs : pc[q] = "loading" => job[q].svc # Nobody
    BY DEF Roles, Fits
  <2>2. \A e \in Databases : /\ runtimes'[e] \in {runtimes[e], loads[e]}
                             /\ loads'[e] \in {loads[e], Nobody}
    BY <1>3, <1>5
  <2> QED BY <1>1, <2>1, <2>2 DEF Waits, Tables
<1>10. Flights'
  <2>1. SingleFlight'
    <3>1. \A x \in Services : status'[x] = "building" =>
            Flight(x)' # {} /\ \A e \in Flight(x)' : runtimes'[e] = Nobody
      <4>1. TAKE x \in Services
      <4>2. HAVE status'[x] = "building"
      <4>3. x # k /\ status[x] = "building"
        BY <1>1, <1>2, <4>2
      <4>4. \A e \in Flight(x) : e \in Databases /\ loads[e] # k
        BY <4>3 DEF Flight
      <4> QED BY <1>3, <1>5, <4>3, <4>4 DEF Flights, SingleFlight, Tables
    <3> QED BY <3>1 DEF SingleFlight
  <2> QED BY <1>1, <2>1 DEF Flights, Tables
<1>11. Known'
  <2>1. \A x \in Services : BeingClosed(x) => BeingClosed(x)'
    BY <1>1, <1>4 DEF BeingClosed
  <2>2. \A x \in Services : status'[x] = "built" =>
          Resident(x)' \/ BeingClosed(x)' \/ (x \in finals' /\ Flight(x)' # {})
    <3>1. TAKE x \in Services
    <3>2. HAVE status'[x] = "built"
    <3>3. CASE x = k
      <4>1. status[k] \notin Failed
        BY <1>1, <3>2, <3>3 DEF Failed
      <4>2. CASE ~adopt
        <5>1. Resident(k) \/ k \in discarded'
          BY <1>1, <4>1, <4>2
        <5> QED BY <1>5, <3>3, <4>2, <5>1 DEF BeingClosed
      <4>3. CASE adopt
        BY <1>5, <3>3, <4>3
      <4> QED BY <4>2, <4>3
    <3>4. CASE x # k
      BY <1>1, <1>3, <1>5, <2>1, <3>2, <3>4 DEF Known, Tables
    <3> QED BY <3>3, <3>4
  <2>3. pc'[Closer] = "closing" => \A e \in Databases : runtimes'[e] \in shutting' \cup {Nobody}
    <3>1. CASE runtimes' = runtimes
      BY <1>1, <3>1 DEF Known, Tables
    <3>2. CASE phase = "open"
      BY <1>1, <3>2 DEF Roles
    <3> QED BY <1>5, <3>1, <3>2
  <2> QED BY <1>1, <2>2, <2>3 DEF Known, Tables
<1> QED BY <1>6, <1>7, <1>8, <1>9, <1>10, <1>11 DEF Tables

\* A task and its finalizer keep the tables in order.
LEMMA TaskTables ==
  ASSUME TypeOK, Roles, Tables, NEW k \in Services, TaskStep(k)
  PROVE  Tables'
<1>1. CASE FinalizerClosed(k)
  <2>1. /\ k \in discarded /\ discarded' = discarded \ {k}
        /\ UNCHANGED <<runtimes, loads, finals, phase, shutting, pc, job>>
        /\ ~Resident(k) /\ Flight(k) = {}
    BY <1>1 DEF FinalizerClosed, table, life, Apart, Tables
  <2>2. \A x \in Services : status'[x] = IF x = k THEN "gone" ELSE status[x]
    BY <1>1 DEF FinalizerClosed, TypeOK
  <2>3. /\ \A x : Resident(x)' <=> Resident(x)
        /\ \A x : Flight(x)' = Flight(x)
        /\ \A q, x : Closing(q, x)' <=> Closing(q, x)
    BY <2>1, SameClosing DEF Resident, Flight
  <2>4. Stated'
    BY <2>1, <2>2 DEF Stated, Tables, TypeOK, Resident, Flight
  <2>5. Flights'
    BY <2>1, <2>2, <2>3 DEF Flights, SingleFlight, Tables, TypeOK
  <2>6. Known'
    <3>1. \A x \in Services \ {k} : BeingClosed(x)' <=> BeingClosed(x)
      BY <2>1, <2>3 DEF BeingClosed
    <3> QED BY <2>1, <2>2, <2>3, <3>1 DEF Known, Tables
  <2>7. Placed' /\ Apart' /\ Waits'
    BY <2>1, <2>3 DEF Placed, Apart, Waits, Tables
  <2> QED BY <2>4, <2>5, <2>6, <2>7 DEF Tables
<1> QED BY <1>1, BuildTables, FinalizeTables DEF TaskStep

\* close() itself closes services only in its last step.
LEMMA CloserMoves ==
  ASSUME TypeOK, Roles, NEW l \in {"sweeper", "gather", "closing", "done"},
         Move(Closer, l, NoJob)
  PROVE  /\ pc'[Closer] = l
         /\ \A q \in Procs, x \in Services : Closing(q, x)' <=> Closing(q, x)
         /\ \A q \in Procs : pc'[q] = "loading" => pc[q] = "loading" /\ job'[q] = job[q]
         /\ \A q \in Procs \ {Closer} : pc'[q] = pc[q] /\ job'[q] = job[q]
<1>1. pc[Closer] \notin Closes /\ l \notin Closes \cup {"loading"}
  BY CloserIn DEF Roles, Fits, Closes
<1>2. /\ pc'[Closer] = l
      /\ \A q \in Procs \ {Closer} : pc'[q] = pc[q] /\ job'[q] = job[q]
  BY CloserIn DEF Move, TypeOK
<1> QED BY <1>1, <1>2 DEF Closing, Closes

\* the end of the sweeper,
LEMMA StopTables ==
  ASSUME TypeOK, Roles, Tables, SweeperStops
  PROVE  Tables'
<1>1. /\ status' = Cut(Sweeper) /\ pc[Closer] = "sweeper" /\ pc'[Closer] = "jobs"
      /\ pc'[Sweeper] = "stopped"
      /\ \A q \in Procs \ {Sweeper, Closer} : pc'[q] = pc[q] /\ job'[q] = job[q]
      /\ UNCHANGED <<runtimes, loads, finals, discarded, phase, shutting>>
  BY CloserIn, ResidencyAssumption DEF SweeperStops, TypeOK, table, life
<1>2. /\ \A q \in Procs, x \in Services : Closing(q, x)' => Closing(q, x)
      /\ \A q \in Procs \ {Sweeper}, x \in Services : Closing(q, x) => Closing(q, x)'
      /\ \A q \in Procs : pc'[q] = "loading" => pc[q] = "loading" /\ job'[q] = job[q]
  BY <1>1 DEF Closing
<1>3. Leaves(Sweeper)
  BY <1>1, LeavesCut
<1>4. \A x \in Services : Closing(Sweeper, x) => ~Resident(x) /\ Flight(x) = {}
  BY CloserIn DEF Tables, Apart
<1>5. /\ \A x : Resident(x)' <=> Resident(x)
      /\ \A x : Flight(x)' = Flight(x)
  BY <1>1 DEF Resident, Flight
<1>6. Stated'
  <2>1. \A d \in Databases : runtimes[d] # Nobody => status'[runtimes[d]] = status[runtimes[d]]
    BY <1>3, <1>4 DEF Leaves, Resident, TypeOK
  <2>2. \A d \in Databases : loads[d] # Nobody => status'[loads[d]] = status[loads[d]]
    BY <1>3, <1>4 DEF Leaves, Flight, TypeOK
  <2> QED BY <1>1, <2>1, <2>2 DEF Stated, Tables
<1>7. Flights'
  <2>1. \A x \in Services : status'[x] = "building" => status[x] = "building"
    BY <1>3 DEF Leaves
  <2> QED BY <1>1, <1>5, <2>1 DEF Flights, SingleFlight, Tables, TypeOK
<1>8. Known'
  <2>1. \A x \in Services : status'[x] = "built" => status[x] = "built" /\ ~Closing(Sweeper, x)
    BY <1>3 DEF Leaves
  <2> QED BY <1>1, <1>2, <1>5, <2>1 DEF Known, BeingClosed, Tables
<1>9. Placed' /\ Apart' /\ Waits'
  BY <1>1, <1>2, <1>5 DEF Placed, Apart, Waits, Tables
<1> QED BY <1>6, <1>7, <1>8, <1>9 DEF Tables

\* the cancellation of the loads at shutdown,
LEMMA CancelTables ==
  ASSUME TypeOK, Roles, Tables, CancelLoads
  PROVE  Tables'
<1> DEFINE cancelled == {k \in Services : Flight(k) # {} /\ status[k] = "building"}
<1>1. /\ pc[Closer] = "jobs" /\ finals' = finals \cup cancelled
      /\ \A x \in Services : status'[x] = IF x \in cancelled THEN "cancelled" ELSE status[x]
      /\ Move(Closer, "gather", NoJob)
      /\ UNCHANGED <<runtimes, loads, discarded, phase, shutting>>
  BY DEF CancelLoads, table, life
<1>2. /\ pc'[Closer] = "gather"
      /\ \A q \in Procs, x \in Services : Closing(q, x)' <=> Closing(q, x)
      /\ \A q \in Procs : pc'[q] = "loading" => pc[q] = "loading" /\ job'[q] = job[q]
  BY <1>1, CloserMoves
<1>3. /\ \A x : Resident(x)' <=> Resident(x)
      /\ \A x : Flight(x)' = Flight(x)
  BY <1>1 DEF Resident, Flight
<1>4. \A x \in Services : status[x] = "building" => x \in cancelled
  BY DEF Flights, SingleFlight, Tables
<1>5. \A x \in Services : x \in cancelled => status[x] = "building"
  OBVIOUS
<1> HIDE DEF cancelled
<1>6. \A x \in Services : status'[x] # "building"
  BY <1>1, <1>4
<1>7. Stated'
  <2>1. \A d \in Databases : runtimes'[d] # Nobody => status'[runtimes'[d]] = "built"
    BY <1>1, <1>5 DEF Stated, Tables, TypeOK
  <2>2. \A d \in Databases : loads'[d] # Nobody =>
          status'[loads'[d]] \in {"building", "built"} \cup Failed
    BY <1>1, <1>5 DEF Stated, Tables, TypeOK, Failed
  <2> QED BY <2>1, <2>2 DEF Stated
<1>8. Flights'
  <2>1. finals' \subseteq Services
    BY <1>1 DEF TypeOK, cancelled
  <2> QED BY <1>6, <2>1 DEF Flights, SingleFlight
<1>9. Known'
  <2>1. \A x \in Services : status'[x] = "built" => status[x] = "built"
    BY <1>1
  <2> QED BY <1>1, <1>2, <1>3, <2>1 DEF Known, BeingClosed, Tables
<1>10. Placed' /\ Apart' /\ Waits'
  BY <1>1, <1>2, <1>3 DEF Placed, Apart, Waits, Tables
<1> QED BY <1>7, <1>8, <1>9, <1>10 DEF Tables

\* the wait for them,
LEMMA GatherTables ==
  ASSUME TypeOK, Roles, Tables, LoadsGathered
  PROVE  Tables'
<1>1. /\ pc[Closer] = "gather" /\ finals = {} /\ discarded = {}
      /\ (\A d \in Databases : loads'[d] = Nobody)
      /\ shutting' = {runtimes[d] : d \in Databases} \ {Nobody}
      /\ Move(Closer, "closing", NoJob)
      /\ UNCHANGED <<runtimes, finals, discarded, phase, status>>
  BY DEF LoadsGathered, service
<1>2. /\ pc'[Closer] = "closing"
      /\ \A q \in Procs, x \in Services : Closing(q, x)' <=> Closing(q, x)
      /\ \A q \in Procs : pc'[q] = "loading" => pc[q] = "loading" /\ job'[q] = job[q]
  BY <1>1, CloserMoves
<1>3. Nobody \notin Services
  BY ResidencyAssumption
<1>4. /\ \A x : Resident(x)' <=> Resident(x)
      /\ \A x \in Services : Flight(x)' = {}
      /\ \A x \in Services : status[x] # "building"
  BY <1>1, <1>3 DEF Resident, Flight, Flights, Tables
<1>5. Placed' /\ Stated'
  BY <1>1 DEF Placed, Stated, Tables
<1>6. Apart'
  <2>1. shutting' \subseteq Services
    BY <1>1 DEF TypeOK
  <2> QED BY <1>1, <1>2, <1>4, <2>1 DEF Apart, Tables
<1>7. Waits'
  <2>1. \A q \in Procs : pc[q] = "loading" => job[q].svc # Nobody
    BY DEF Roles, Fits
  <2> QED BY <1>1, <1>2, <2>1 DEF Waits, Tables
<1>8. Flights'
  BY <1>1, <1>4 DEF Flights, SingleFlight
<1>9. Known'
  <2>1. shutting = {}
    BY <1>1 DEF Known, Tables
  <2>2. \A d \in Databases : runtimes'[d] \in shutting' \cup {Nobody}
    BY <1>1
  <2> QED BY <1>1, <1>2, <1>4, <2>1, <2>2 DEF Known, BeingClosed, Tables
<1> QED BY <1>5, <1>6, <1>7, <1>8, <1>9 DEF Tables

\* and the close of all services.
LEMMA ClosedTables ==
  ASSUME TypeOK, Roles, Tables, ClosedAll
  PROVE  Tables'
<1>1. /\ pc[Closer] = "closing" /\ (\A d \in Databases : runtimes'[d] = Nobody)
      /\ \A x \in Services : status'[x] = IF x \in shutting THEN "gone" ELSE status[x]
      /\ shutting' = {}
      /\ Move(Closer, "done", NoJob)
      /\ UNCHANGED <<loads, finals, discarded>>
  BY DEF ClosedAll
<1>2. /\ pc'[Closer] = "done"
      /\ \A q \in Procs, x \in Services : Closing(q, x)' <=> Closing(q, x)
      /\ \A q \in Procs : pc'[q] = "loading" => pc[q] = "loading" /\ job'[q] = job[q]
  BY <1>1, CloserMoves
<1>3. Nobody \notin Services
  BY ResidencyAssumption
<1>4. /\ \A x \in Services : ~Resident(x)'
      /\ \A x : Flight(x)' = Flight(x)
      /\ \A x \in Services : status'[x] # "building"
  BY <1>1, <1>3 DEF Resident, Flight, Flights, Tables
<1>5. Placed'
  BY <1>1 DEF Placed, Tables
<1>6. Stated'
  <2>1. \A d \in Databases : loads[d] \notin shutting
    BY DEF Apart, Flight, Tables
  <2> QED BY <1>1, <2>1 DEF Stated, Tables, TypeOK
<1>7. Apart'
  BY <1>1, <1>2, <1>4 DEF Apart, Tables, TypeOK
<1>8. Waits'
  <2>1. \A q \in Procs : pc[q] = "loading" => job[q].svc # Nobody
    BY DEF Roles, Fits
  <2> QED BY <1>1, <1>2, <2>1 DEF Waits, Tables
<1>9. Flights'
  <2>1. finals' \subseteq Services
    BY <1>1 DEF TypeOK
  <2> QED BY <1>4, <2>1 DEF Flights, SingleFlight
<1>10. Known'
  <2>1. \A x \in Services : status'[x] = "built" => status[x] = "built" /\ x \notin shutting
    BY <1>1
  <2>2. \A x \in Services : x \notin shutting => ~Resident(x)
    BY <1>1, <1>3 DEF Resident, Known, Tables
  <2> QED BY <1>1, <1>2, <1>4, <2>1, <2>2 DEF Known, BeingClosed, Tables
<1> QED BY <1>5, <1>6, <1>7, <1>8, <1>9, <1>10 DEF Tables

\* close() and what follows keep the tables in order.
LEMMA CloseTables ==
  ASSUME TypeOK, Roles, Tables, Close \/ CloseStep
  PROVE  Tables'
<1>1. CASE Close
  <2>1. /\ Move(Closer, "sweeper", NoJob) /\ pc[Closer] = "idle"
        /\ UNCHANGED <<runtimes, loads, status, finals, discarded, shutting>>
    BY <1>1 DEF Close, table, service, Roles
  <2>2. /\ pc'[Closer] = "sweeper"
        /\ \A q \in Procs, x \in Services : Closing(q, x)' <=> Closing(q, x)
        /\ \A q \in Procs : pc'[q] = "loading" => pc[q] = "loading" /\ job'[q] = job[q]
    BY <2>1, CloserMoves
  <2>3. /\ \A x : Resident(x)' <=> Resident(x)
        /\ \A x : Flight(x)' = Flight(x)
    BY <2>1 DEF Resident, Flight
  <2>4. Placed' /\ Stated' /\ Waits'
    BY <2>1, <2>2 DEF Placed, Stated, Waits, Tables
  <2>5. Apart' /\ Flights'
    BY <2>1, <2>2, <2>3 DEF Apart, Flights, SingleFlight, Tables
  <2>6. Known'
    BY <2>1, <2>2, <2>3 DEF Known, BeingClosed, Tables
  <2> QED BY <2>4, <2>5, <2>6 DEF Tables
<1> QED BY <1>1, StopTables, CancelTables, GatherTables, ClosedTables DEF CloseStep
-----------------------------------------------------------------------------
\* The leases.

\* How many hold a lease is a number, and it is 0 only if nobody does.
LEMMA HoldersFinite ==
  ASSUME NEW d
  PROVE  /\ IsFiniteSet(Holders(d)) /\ Cardinality(Holders(d)) \in Nat
         /\ Cardinality(Holders(d)) = 0 => Holders(d) = {}
<1>1. IsFiniteSet(Holders(d))
  BY ResidencyAssumption, FS_Subset DEF Holders
<1> QED BY <1>1, FS_CardinalityType, FS_EmptySet

\* The runtime of a lease stays where it is.
LEMMA HeldStays ==
  ASSUME TypeOK, Roles, Counts, phase # "closed", NEW p, NEW l, NEW k, Acts(p, l, k),
         NEW q \in Users, job[q].lease # Nobody
  PROVE  runtimes'[job[q].db] = runtimes[job[q].db]
<1> DEFINE e == job[q].db
<1>1. e \in Databases /\ runtimes[e] # Nobody
  BY DEF Counts, Held, TypeOK, Jobs, Procs, Callers
<1>2. leases[e] # 0
  <2>1. q \in Holders(e)
    BY DEF Holders
  <2>2. leases[e] = Cardinality(Holders(e)) + lost[e] /\ lost[e] \in Nat
    BY <1>1, ResidencyAssumption DEF Counts, LeasesAreCounted, TypeOK
  <2>3. Cardinality(Holders(e)) \in Nat /\ Cardinality(Holders(e)) # 0
    BY <2>1, HoldersFinite
  <2> QED BY <2>2, <2>3
<1> HIDE DEF e
<1>3. Rests(p, l, k) \/ Takes(p, l, k) \/ Launches(p, l, k) \/ Lands(p, l, k)
  BY DEF Acts
<1> SUFFICES runtimes'[e] = runtimes[e]
  BY DEF e
<1>4. CASE Rests(p, l, k) \/ Launches(p, l, k)
  BY <1>4 DEF Rests, Launches
<1>5. CASE Takes(p, l, k)
  BY <1>1, <1>2, <1>5 DEF Takes, TypeOK
<1>6. CASE Lands(p, l, k)
  BY <1>1, <1>6 DEF Lands, TypeOK
<1> QED BY <1>3, <1>4, <1>5, <1>6

\* A coroutine's step keeps the count.
LEMMA ActsCounts ==
  ASSUME TypeOK, Roles, Counts, NEW p, NEW l, NEW k, Acts(p, l, k)
  PROVE  Counts'
<1>1. /\ pc'[p] = l /\ job'[p] = k /\ p \in Procs /\ k \in Jobs
      /\ \A q \in Procs \ {p} : pc'[q] = pc[q] /\ job'[q] = job[q]
      /\ UNCHANGED phase
  BY ActsMoves DEF Acts
<1>2. CASE phase = "closed"
  BY <1>1, <1>2 DEF Counts, Held, LeasesAreCounted, NoLostWakeup
<1>3. CASE phase # "closed"
  <2>0. /\ Users \subseteq Procs /\ leases \in [Databases -> Nat]
        /\ \A d \in Databases : lost[d] \in Nat
        /\ \A q \in Procs : job[q].db \in Databases
        /\ k.db \in Databases
    <3>1. \A n \in 0 .. MaxLost : n \in Nat
      BY ResidencyAssumption
    <3>2. \A d \in Databases : lost[d] \in Nat
      BY <3>1 DEF TypeOK
    <3> QED BY <1>1, <3>2 DEF Procs, Callers, TypeOK, Jobs
  <2>1. Keeping(p, k) \/ Gains(p, k) \/ Gives(p, k)
    BY <1>3 DEF Acts
  <2>2. Held'
    <3>1. ASSUME NEW q \in Users, job'[q].lease # Nobody
          PROVE  runtimes'[job'[q].db] = job'[q].lease
      <4>1. CASE job'[q].lease = job[q].lease /\ job'[q].db = job[q].db
        BY <1>3, <3>1, <4>1, HeldStays DEF Counts, Held
      <4>2. CASE q = p /\ Gains(p, k)
        BY <1>1, <4>2 DEF Gains
      <4> QED BY <1>1, <2>0, <2>1, <3>1, <4>1, <4>2 DEF Keeping, Gives
    <3> QED BY <3>1 DEF Held
  <2>3. LeasesAreCounted'
    <3>1. ASSUME NEW d \in Databases
          PROVE  leases'[d] = Cardinality(Holders(d)') + lost'[d]
      <4>1. leases[d] = Cardinality(Holders(d)) + lost[d] /\ leases[d] \in Nat
        BY <1>3, <2>0 DEF Counts, LeasesAreCounted
      <4>2. IsFiniteSet(Holders(d)) /\ Cardinality(Holders(d)) \in Nat
        BY HoldersFinite
      <4>3. CASE Keeping(p, k)
        <5>1. Holders(d)' = Holders(d)
          BY <1>1, <2>0, <4>3 DEF Holders, Keeping
        <5> QED BY <4>1, <4>3, <5>1 DEF Keeping
      <4>4. CASE Gains(p, k)
        <5>1. Holders(d)' = (IF d = k.db THEN Holders(d) \cup {p} ELSE Holders(d)) /\ p \notin Holders(d)
          BY <1>1, <2>0, <4>4 DEF Holders, Gains
        <5>2. Cardinality(Holders(d) \cup {p}) = Cardinality(Holders(d)) + 1
          BY <4>2, <5>1, FS_AddElement
        <5>3. leases'[d] = (IF d = k.db THEN leases[d] + 1 ELSE leases[d]) /\ lost'[d] = lost[d]
          BY <2>0, <4>4 DEF Gains
        <5> QED BY <2>0, <4>1, <4>2, <5>1, <5>2, <5>3
      <4>5. CASE Gives(p, k)
        <5>1. /\ Holders(d)' = Holders(d) \ {p}
              /\ p \in Holders(d) <=> d = job[p].db
          BY <1>1, <2>0, <4>5 DEF Holders, Gives
        <5>2. CASE d = job[p].db
          <6>1. /\ Cardinality(Holders(d) \ {p}) = Cardinality(Holders(d)) - 1
                /\ Cardinality(Holders(d) \ {p}) \in Nat
            BY <4>2, <5>1, <5>2, FS_RemoveElement, FS_CardinalityType
          <6>2. \/ leases'[d] = (IF leases[d] > 0 THEN leases[d] - 1 ELSE 0) /\ lost'[d] = lost[d]
                \/ leases'[d] = leases[d] /\ lost'[d] = lost[d] + 1
            BY <2>0, <4>5, <5>2 DEF Gives, Uncounted, TypeOK
          <6> QED BY <2>0, <4>1, <4>2, <5>1, <6>1, <6>2
        <5>3. CASE d # job[p].db
          <6>1. leases'[d] = leases[d] /\ lost'[d] = lost[d]
            BY <2>0, <4>5, <5>3 DEF Gives, Uncounted, TypeOK
          <6>2. Holders(d) \ {p} = Holders(d)
            BY <5>1, <5>3
          <6> QED BY <4>1, <5>1, <6>1, <6>2
        <5> QED BY <5>2, <5>3
      <4> QED BY <2>1, <4>3, <4>4, <4>5
    <3> QED BY <3>1 DEF LeasesAreCounted
  <2>4. NoLostWakeup'
    <3>1. ASSUME NEW q \in asleep'
          PROVE  leases'[job'[q].db] > 0
      <4>1. (q # p /\ q \in asleep) \/ (q = p /\ leases'[k.db] > 0)
        BY <3>1 DEF Acts, Sleeps
      <4>2. CASE q = p /\ leases'[k.db] > 0
        BY <1>1, <4>2
      <4>3. CASE q # p /\ q \in asleep
        <5>1. q \in Procs /\ job'[q] = job[q] /\ leases[job[q].db] > 0 /\ job[q].db \in Databases
          BY <1>1, <1>3, <2>0, <4>3 DEF Counts, NoLostWakeup, TypeOK
        <5>2. leases'[job[q].db] \in {leases[job[q].db], leases[job[q].db] + 1}
          BY <2>0, <2>1, <3>1, <5>1 DEF Keeping, Gains, Gives
        <5> QED BY <2>0, <5>1, <5>2
      <4> QED BY <4>1, <4>2, <4>3
    <3> QED BY <3>1 DEF NoLostWakeup
  <2> QED BY <2>2, <2>3, <2>4 DEF Counts
<1> QED BY <1>2, <1>3

\* So do the tasks and close(), which move no user.
LEMMA OtherCounts ==
  ASSUME TypeOK, Roles, Tables, Counts,
         (\E k \in Services : TaskStep(k)) \/ Close \/ CloseStep
  PROVE  Counts'
<1>1. CASE phase' = "closed"
  BY <1>1 DEF Counts, Held, LeasesAreCounted, NoLostWakeup
<1>2. CASE phase' # "closed"
  <2>1. /\ UNCHANGED <<leases, lost>> /\ asleep' \subseteq asleep /\ phase # "closed"
        /\ \A q \in Users : job'[q] = job[q]
        /\ \A q \in asleep : job'[q] = job[q]
    <3>1. CASE \E k \in Services : TaskStep(k)
      BY <1>2, <3>1 DEF TaskStep, BuildEnds, Finalize, FinalizeWith, FinalizerClosed, table, life
    <3>2. CASE Close \/ CancelLoads \/ LoadsGathered
      <4>1. PICK m \in {"sweeper", "gather", "closing", "done"} : Move(Closer, m, NoJob)
        BY <3>2 DEF Close, CancelLoads, LoadsGathered
      <4>2. \A q \in Procs \ {Closer} : job'[q] = job[q]
        BY <4>1, CloserMoves
      <4>3. Closer \notin Users /\ Users \subseteq Procs /\ Closer \notin asleep
        BY ResidencyAssumption DEF Procs, Callers, TypeOK, Roles, Fits
      <4>4. asleep \subseteq Procs
        BY DEF TypeOK
      <4> QED BY <1>2, <3>2, <4>2, <4>3, <4>4
              DEF Close, CancelLoads, LoadsGathered, table, life, service
    <3>3. CASE SweeperStops
      <4>1. Sweeper \notin Users /\ Sweeper \notin asleep /\ Users \subseteq Procs /\ asleep \subseteq Procs
        BY ResidencyAssumption DEF Procs, Callers, TypeOK, Roles, Fits
      <4>2. \A q \in Procs \ {Sweeper} : job'[q] = job[q]
        BY <3>3 DEF SweeperStops, TypeOK
      <4> QED BY <1>2, <3>3, <4>1, <4>2 DEF SweeperStops, table, life
    <3>4. CASE ClosedAll
      BY <1>2, <3>4 DEF ClosedAll
    <3> QED BY <3>1, <3>2, <3>3, <3>4 DEF CloseStep
  <2>2. \A d \in Databases : runtimes[d] # Nobody => runtimes'[d] = runtimes[d]
    BY <1>2 DEF TaskStep, BuildEnds, Finalize, FinalizeWith, FinalizerClosed, Close, CloseStep,
                SweeperStops, CancelLoads, LoadsGathered, ClosedAll, table
  <2>3. \A q \in Users : job[q].db \in Databases
    BY DEF TypeOK, Jobs, Procs, Callers
  <2>4. Held'
    BY <2>1, <2>2, <2>3 DEF Counts, Held
  <2>5. \A d : Holders(d)' = Holders(d)
    BY <2>1 DEF Holders
  <2>6. LeasesAreCounted' /\ NoLostWakeup'
    BY <2>1, <2>5 DEF Counts, LeasesAreCounted, NoLostWakeup
  <2> QED BY <2>4, <2>6 DEF Counts
<1> QED BY <1>1, <1>2
-----------------------------------------------------------------------------
\* Backup imports.

\* Of one import no other is under way with it.
LEMMA OneMover ==
  ASSUME OneImport, TypeOK, Roles, NEW p \in Procs, NEW q \in Procs, job[p].op = "move", job[q].op = "move"
  PROVE  p = q
BY DEF OneImport, Roles, Fits

\* While an import has the runtimes, other coroutines neither load nor adopt.
LEMMA OthersMoved ==
  ASSUME TypeOK, Roles, Moved, NEW p, NEW l, NEW k, Acts(p, l, k), job[p].op # "move",
         k.op # "move", UNCHANGED owner
  PROVE  Moved'
<1>1. /\ job'[p] = k /\ p \in Procs
      /\ \A q \in Procs \ {p} : pc'[q] = pc[q] /\ job'[q] = job[q]
  BY ActsMoves
<1>2. ASSUME NEW q \in Procs, job'[q].op = "move"
      PROVE  Still(q)'
  <2>1. q # p /\ pc'[q] = pc[q] /\ job'[q] = job[q] /\ Still(q) /\ owner = q /\ q # Nobody
    BY <1>1, <1>2, ResidencyAssumption DEF Moved, Still
  <2>2. ASSUME pc[q] # "draining"
        PROVE  \A d \in Databases : loads'[d] = Nobody /\ (runtimes'[d] # Nobody => runtimes[d] # Nobody)
    <3>1. \A d \in Databases : loads[d] = Nobody
      BY <2>1, <2>2 DEF Still
    <3>2. Nobody \notin Services
      BY ResidencyAssumption
    <3>3. Rests(p, l, k) \/ Takes(p, l, k) \/ Launches(p, l, k) \/ Lands(p, l, k)
      BY DEF Acts
    <3>4. CASE Rests(p, l, k)
      BY <3>1, <3>4 DEF Rests
    <3>5. CASE Takes(p, l, k)
      BY <3>1, <3>5 DEF Takes, TypeOK
    <3>6. CASE Launches(p, l, k)
      BY <2>1, <3>6 DEF Launches, MayLoad
    <3>7. CASE Lands(p, l, k)
      BY <3>1, <3>2, <3>7 DEF Lands, Landed
    <3> QED BY <3>3, <3>4, <3>5, <3>6, <3>7
  <2> QED BY <2>1, <2>2 DEF Still
<1> QED BY <1>2 DEF Moved

\* The import itself: what is resident is on its list, until nothing is.
LEMMA MoverStill ==
  ASSUME TypeOK, Roles, Moved, NEW p \in Procs, UnloadStep(p), job[p].op = "move",
         job'[p].op = "move"
  PROVE  Still(p)'
<1>0. /\ Still(p) /\ job[p] \in Jobs /\ job[p].db \in Databases /\ p \in Movers
      /\ Fits(p, pc[p], job[p]) /\ job[p].list \subseteq Databases
  BY DEF Moved, Roles, Fits, TypeOK, Jobs
<1>1. ASSUME NEW l, NEW k, Move(p, l, k)
      PROVE  pc'[p] = l /\ job'[p] = k
  BY <1>1 DEF Move, TypeOK
<1>2. ASSUME NEW j, NEW l, NEW k, Ready(p, j), j.op = "move", Turns(p, j, l, k),
             UNCHANGED <<loads, owner>>, pc[p] # "draining",
             \A d \in Databases : runtimes[d] # Nobody => d \in j.list \/ d = j.db
      PROVE  Still(p)'
  <2>1. pc'[p] = l /\ job'[p] = k /\ j.db \in Databases /\ j \in Jobs
    BY <1>1, <1>2 DEF Turns, Ready, Jobs
  <2>2. owner' = p /\ \A d \in Databases : loads'[d] = Nobody
    BY <1>0, <1>2 DEF Still
  <2>3. CASE l = "waiting" /\ k = j /\ UNCHANGED runtimes
    BY <1>2, <2>1, <2>2, <2>3 DEF Still
  <2>4. CASE l \in {"clearing", "unloading"} /\ k.list = j.list
             /\ runtimes' = [runtimes EXCEPT ![j.db] = Nobody]
    <3>1. \A d \in Databases : runtimes'[d] # Nobody => d # j.db /\ runtimes[d] # Nobody
      BY <2>1, <2>4 DEF TypeOK
    <3>2. \A d \in Databases : runtimes'[d] # Nobody => d \in k.list
      BY <1>2, <2>4, <3>1
    <3> QED BY <2>1, <2>2, <2>4, <3>2 DEF Still
  <2>5. (l = "waiting" /\ k = j /\ UNCHANGED runtimes)
        \/ (l \in {"clearing", "unloading"} /\ k.list = j.list
            /\ runtimes' = [runtimes EXCEPT ![j.db] = Nobody])
    <3>1. k = [j EXCEPT !.svc = runtimes[j.db]] => k.list = j.list
      BY <2>1 DEF Jobs
    <3> QED BY <1>2, <3>1 DEF Turns, Goes
  <2> QED BY <2>3, <2>4, <2>5
<1>3. CASE TryAgain(p)
  <2>1. pc[p] = "waiting" /\ UnloadTurn(p, job[p]) /\ UNCHANGED <<loads, owner>>
    BY <1>3 DEF TryAgain, life
  <2>2. Ready(p, job[p]) /\ job[p].svc = Nobody
    BY <1>0, <2>1 DEF Fits, Ready, Resting, Closes
  <2>3. PICK l, k : Turns(p, job[p], l, k)
    BY <2>1, <2>2, TurnGoes
  <2>4. \A d \in Databases : runtimes[d] # Nobody => d \in job[p].list \/ d = job[p].db
    BY <1>0, <2>1 DEF Still
  <2> QED BY <1>2, <2>1, <2>2, <2>3, <2>4
<1>4. CASE Unloaded(p)
  <2>1. /\ pc[p] = "unloading" /\ Move(p, "clearing", [job[p] EXCEPT !.svc = Nobody])
        /\ UNCHANGED <<runtimes, loads, owner>>
    BY <1>4 DEF Unloaded, Arrive, table, life
  <2>2. pc'[p] = "clearing" /\ job'[p].list = job[p].list
    BY <1>0, <1>1, <2>1 DEF Jobs
  <2> QED BY <1>0, <2>1, <2>2 DEF Still
<1>5. CASE Drain(p)
  <2>1. /\ \A d \in Databases : loads[d] = Nobody
        /\ Move(p, "clearing", [job[p] EXCEPT !.list = {d \in Databases : runtimes[d] # Nobody}])
        /\ UNCHANGED <<runtimes, loads, owner>>
    BY <1>5 DEF Drain, table, life
  <2>2. pc'[p] = "clearing" /\ job'[p].list = {d \in Databases : runtimes[d] # Nobody}
    BY <1>0, <1>1, <2>1 DEF Jobs
  <2> QED BY <1>0, <2>1, <2>2 DEF Still
<1>6. CASE ClearNext(p)
  <2>1. pc[p] = "clearing" /\ UNCHANGED <<loads, owner>>
    BY <1>6 DEF ClearNext, life
  <2>2. PICK d \in job[p].list : UnloadTurn(p, [job[p] EXCEPT !.db = d, !.list = @ \ {d}])
    BY <1>6 DEF ClearNext
  <2> DEFINE j == [job[p] EXCEPT !.db = d, !.list = @ \ {d}]
  <2>3. Ready(p, j) /\ j.op = "move" /\ j.svc = Nobody /\ j.db = d /\ j.list = job[p].list \ {d}
    <3>1. Ready(p, job[p]) /\ job[p].svc = Nobody
      BY <2>1, MoverIs
    <3> QED BY <1>0, <3>1 DEF Ready, Jobs
  <2>4. UnloadTurn(p, j)
    BY <2>2
  <2> HIDE DEF j
  <2>5. PICK l, k : Turns(p, j, l, k)
    BY <2>3, <2>4, TurnGoes
  <2>6. \A e \in Databases : runtimes[e] # Nobody => e \in j.list \/ e = j.db
    BY <1>0, <2>1, <2>3 DEF Still
  <2> QED BY <1>2, <2>1, <2>3, <2>5, <2>6
<1>7. CASE Cleared(p)
  <2>1. pc[p] = "clearing" /\ job[p].list = {} /\ UNCHANGED <<runtimes, loads, owner>>
        /\ Move(p, "replacing", job[p])
    BY <1>7 DEF Cleared, table, life
  <2>2. pc'[p] = "replacing" /\ job'[p] = job[p]
    BY <1>1, <2>1
  <2> QED BY <1>0, <2>1, <2>2 DEF Still
<1>8. CASE Resume(p)
  BY <1>1, <1>8, NoJobType DEF Resume, Raise
<1> QED BY <1>3, <1>4, <1>5, <1>6, <1>7, <1>8 DEF UnloadStep

\* Tasks and close() neither load nor adopt while an import has the runtimes.
LEMMA OtherMoved ==
  ASSUME TypeOK, Roles, Moved, (\E k \in Services : TaskStep(k)) \/ Close \/ CloseStep
  PROVE  Moved'
<1>1. UNCHANGED owner /\ \A d \in Databases : loads'[d] \in {loads[d], Nobody}
  BY DEF TaskStep, BuildEnds, Finalize, FinalizeWith, FinalizerClosed, Close, CloseStep, Landed,
         SweeperStops, CancelLoads, LoadsGathered, ClosedAll, table, life
<1>2. \A d \in Databases : loads[d] = Nobody /\ runtimes'[d] # Nobody => runtimes[d] # Nobody
  <2>1. ASSUME NEW k \in Services, Finalize(k), NEW d \in Databases, loads[d] = Nobody
        PROVE  runtimes'[d] = runtimes[d]
    <3>1. d \notin Flight(k)
      BY <2>1, ResidencyAssumption DEF Flight
    <3> QED BY <2>1, <3>1 DEF Finalize, FinalizeWith
  <2> QED BY <2>1 DEF TaskStep, BuildEnds, FinalizerClosed, Close, CloseStep,
                      SweeperStops, CancelLoads, LoadsGathered, ClosedAll, table
<1>3. \A q \in Procs : job'[q].op = "move" => job'[q] = job[q] /\ pc'[q] = pc[q]
  <2>1. CASE \E k \in Services : TaskStep(k)
    BY <2>1 DEF TaskStep, BuildEnds, Finalize, FinalizeWith, FinalizerClosed
  <2>2. CASE Close \/ CancelLoads \/ LoadsGathered \/ ClosedAll
    <3>1. PICK m \in {"sweeper", "gather", "closing", "done"} : Move(Closer, m, NoJob)
      BY <2>2 DEF Close, CancelLoads, LoadsGathered, ClosedAll
    <3>2. job'[Closer].op = ""
      BY <3>1, CloserIn, NoJobType DEF Move, TypeOK
    <3> QED BY <3>1, <3>2, CloserMoves
  <2>3. CASE SweeperStops
    <3>1. /\ \A q \in Procs \ {Sweeper} : job'[q] = job[q]
          /\ \A q \in Procs \ {Sweeper, Closer} : pc'[q] = pc[q]
          /\ job'[Sweeper].op = "" /\ job[Closer].op # "move"
      BY <2>3, CloserIn, NoJobType, ResidencyAssumption
         DEF SweeperStops, TypeOK, Roles, Fits, Resting, Procs, Callers
    <3> QED BY <3>1, CloserIn, ResidencyAssumption
  <2> QED BY <2>1, <2>2, <2>3 DEF CloseStep
<1>4. ASSUME NEW q \in Procs, job'[q].op = "move"
      PROVE  Still(q)'
  BY <1>1, <1>2, <1>3, <1>4 DEF Moved, Still
<1> QED BY <1>4 DEF Moved
-----------------------------------------------------------------------------
\* The invariant holds at first, every step keeps it, and it implies the properties.

\* The invariant holds at first.
LEMMA InitIs == Init => IInv
<1> SUFFICES ASSUME Init PROVE IInv
  OBVIOUS
<1>1. TypeOK /\ Roles
  BY InitTypes
<1>2. /\ \A d \in Databases : runtimes[d] = Nobody /\ loads[d] = Nobody /\ leases[d] = 0 /\ lost[d] = 0
      /\ \A k \in Services : status[k] = "gone"
      /\ \A p \in Procs : pc[p] = "idle" /\ job[p] = NoJob
      /\ finals = {} /\ discarded = {} /\ shutting = {} /\ asleep = {}
  BY DEF Init
<1>3. Nobody \notin Services
  BY ResidencyAssumption
<1>4. Tables
  <2>1. \A p \in Procs, x \in Services : ~Closing(p, x)
    BY <1>2 DEF Closing
  <2>2. pc[Closer] = "idle"
    BY <1>2, CloserIn
  <2> QED BY <1>2, <2>1, <2>2
          DEF Tables, Placed, Stated, Apart, Waits, Flights, SingleFlight, Known
<1>5. Counts
  <2>1. \A p \in Users : job[p].lease = Nobody
    BY <1>2, NoJobType DEF Procs, Callers
  <2>2. \A d : Holders(d) = {}
    BY <2>1 DEF Holders
  <2>3. Cardinality({}) = 0
    BY FS_EmptySet
  <2> QED BY <1>2, <2>1, <2>2, <2>3 DEF Counts, Held, LeasesAreCounted, NoLostWakeup
<1> QED BY <1>1, <1>4, <1>5 DEF IInv

\* At first no import is under way.
LEMMA InitMoved == Init => Moved
BY NoJobType DEF Init, Moved

\* A step is one of a coroutine, of a task or of close().
LEMMA StepIs ==
  ASSUME IInv, Next
  PROVE  \/ \E p, l, k : Acts(p, l, k)
         \/ (\E k \in Services : TaskStep(k)) \/ Close \/ CloseStep
<1>0. Users \subseteq Procs /\ Unloaders \subseteq Procs /\ Movers \subseteq Procs
  BY DEF Procs, Callers
<1>1. TypeOK /\ Roles /\ Held /\ Placed
  BY DEF IInv, Counts, Tables
<1>2. ASSUME NEW p \in Users, NEW d \in Databases, Ask(p, d, "lease") \/ Ask(p, d, "get")
      PROVE  \E q, l, k : Acts(q, l, k)
  BY <1>1, <1>2, UserActs
<1>3. ASSUME NEW p \in Users, Release(p)
      PROVE  \E q, l, k : Acts(q, l, k)
  <2>1. AnyDatabase \in Databases
    BY ResidencyAssumption DEF AnyDatabase
  <2> QED BY <1>1, <1>3, <2>1, UserActs
<1>4. ASSUME NEW p \in Procs, LoadStep(p) \/ Interrupt(p)
      PROVE  \E q, l, k : Acts(q, l, k)
  BY <1>1, <1>4, LoadActs, InterruptActs
<1>5. ASSUME NEW p \in Procs, UnloadStep(p) \/ (p \in Movers /\ Suspend(p))
                              \/ (p \in Unloaders /\ \E d \in Databases : Unload(p, d))
      PROVE  \E q, l, k : Acts(q, l, k)
  BY <1>1, <1>5, UnloadedActs, MoverActs DEF UnloadStep
<1>6. CASE SweepBegins
  BY <1>1, <1>6, SweepActs
<1> QED BY <1>0, <1>2, <1>3, <1>4, <1>5, <1>6 DEF Next

\* Who moves databases takes the steps of an import and no others.
LEMMA MovedStep ==
  ASSUME OneImport, IInv, Moved, Next
  PROVE  Moved'
<1>0. TypeOK /\ Roles /\ TypeOK' /\ Roles'
  BY TypesStep DEF IInv
<1>1. ASSUME NEW p, NEW l, NEW k, Acts(p, l, k)
      PROVE  Moved'
  <2>1. /\ pc'[p] = l /\ job'[p] = k /\ p \in Procs
        /\ \A q \in Procs \ {p} : pc'[q] = pc[q] /\ job'[q] = job[q]
    BY <1>0, <1>1, ActsMoves
  <2>2. CASE job[p].op # "move" /\ k.op # "move" /\ UNCHANGED owner
    BY <1>0, <1>1, <2>2, OthersMoved
  <2>3. CASE k.op = "move" /\ Still(p)'
    <3>1. \A q \in Procs : job'[q].op = "move" => q = p
      <4>1. \A q \in Procs : job'[q].op = "move" => q \in Movers
        BY <1>0 DEF Roles, Fits
      <4> QED BY <2>1, <2>3, <4>1 DEF OneImport
    <3> QED BY <2>3, <3>1 DEF Moved
  <2>4. CASE Suspend(p)
    <3>1. pc'[p] = "draining" /\ job'[p].op = "move" /\ owner' = p
      BY <1>0, <2>1, <2>4, NoJobType DEF Suspend, Move, TypeOK, Jobs
    <3> QED BY <2>1, <2>3, <3>1 DEF Still
  <2>5. CASE job[p].op = "move" /\ k.op # "move"
    <3>1. \A q \in Procs : job'[q].op # "move"
      BY <1>0, <2>1, <2>5, OneMover
    <3> QED BY <3>1 DEF Moved
  <2>6. CASE job[p].op = "move" /\ k.op = "move"
    <3>1. UnloadStep(p)
      BY <1>1, <2>6 DEF Acts
    <3> QED BY <1>0, <2>1, <2>3, <2>6, <3>1, MoverStill
  <2> QED BY <1>1, <2>2, <2>4, <2>5, <2>6 DEF Acts
<1> QED BY <1>0, <1>1, StepIs, OtherMoved

\* Every step keeps the invariant.
LEMMA Inductive == IInv /\ [Next]_vars => IInv'
<1> SUFFICES ASSUME IInv, [Next]_vars PROVE IInv'
  OBVIOUS
<1>1. TypeOK /\ Roles /\ Tables /\ Counts
  BY DEF IInv
<1>2. TypeOK' /\ Roles'
  BY <1>1, TypesStep
<1>3. CASE UNCHANGED vars
  BY <1>1, <1>3 DEF vars, IInv, TypeOK, Roles, Tables, Placed, Stated, Apart, Waits, Flights,
     SingleFlight, Known, Resident, Flight, BeingClosed, Closing, Counts, Held,
     LeasesAreCounted, Holders, NoLostWakeup
<1>4. CASE Next
  <2>2. CASE \E p, l, k : Acts(p, l, k)
    BY <1>1, <1>2, <2>2, ActsTables, ActsCounts DEF IInv
  <2>3. CASE (\E k \in Services : TaskStep(k)) \/ Close \/ CloseStep
    BY <1>1, <1>2, <2>3, TaskTables, CloseTables, OtherCounts DEF IInv
  <2> QED BY <1>4, <2>2, <2>3, StepIs
<1> QED BY <1>3, <1>4

\* The invariant holds in every state.
THEOREM Invariant == Spec => []IInv
<1>1. Init => IInv
  BY InitIs
<1>2. IInv /\ [Next]_vars => IInv'
  BY Inductive
<1> QED BY <1>1, <1>2, PTL DEF Spec

\* The tables, the leases and the places of the coroutines have their types, and only
\* what is resident has leases (manager.py, _runtime_residency and _runtimes).
THEOREM TypeCorrect == Spec => []TypeOK
<1>1. IInv => TypeOK
  BY DEF IInv
<1> QED BY <1>1, Invariant, PTL

\* A leased runtime stays the resident one of its database and open until the manager
\* is closed, every lease is counted, and a database has one load at a time and none
\* while it is resident (acquire_runtime, sweep_runtimes, _runtime_or_load).
THEOREM LeasesHold == Spec => []LeaseSafety
<1>1. ASSUME IInv PROVE LeaseSafety
  <2>1. TypeOK /\ Roles /\ Tables /\ Counts
    BY <1>1 DEF IInv
  <2>2. LeasedStaysOpen
    <3>1. ASSUME phase = "open", NEW p \in Users, job[p].lease # Nobody
          PROVE  /\ runtimes[job[p].db] = job[p].lease
                 /\ status[job[p].lease] = "built" /\ ~BeingClosed(job[p].lease)
      <4>1. runtimes[job[p].db] = job[p].lease /\ job[p].db \in Databases /\ job[p].lease \in Services
        BY <2>1, <3>1 DEF Counts, Held, TypeOK, Jobs, Procs, Callers
      <4>2. Resident(job[p].lease)
        BY <4>1 DEF Resident
      <4>3. shutting = {}
        BY <2>1, <3>1 DEF Tables, Known, Roles
      <4>4. ~BeingClosed(job[p].lease)
        BY <2>1, <4>1, <4>2, <4>3 DEF BeingClosed, Tables, Apart
      <4>5. status[job[p].lease] = "built"
        BY <2>1, <3>1, <4>1 DEF Tables, Stated
      <4> QED BY <4>1, <4>4, <4>5
    <3> QED BY <3>1 DEF LeasedStaysOpen
  <2> QED BY <2>1, <2>2 DEF LeaseSafety, Counts, Tables, Flights
<1> QED BY <1>1, Invariant, PTL

\* A service that was opened is resident, or is being closed, or the finalizer of its
\* load will adopt or close it (_finalize_runtime_load), however many imports meet.
THEOREM NoneForgotten == Spec => []NoRuntimeLeaks
<1>1. IInv => NoRuntimeLeaks
  BY DEF IInv, NoRuntimeLeaks, Tables, Known
<1> QED BY <1>1, Invariant, PTL

\* The same, and while a backup import that meets no other replaces the directories
\* nothing loads and nothing is open that nobody is closing (suspend_runtime_loading,
\* _close_runtimes).
THEOREM NothingForgotten == OneImport => (Spec => []NothingEscapes)
<1> SUFFICES ASSUME OneImport
             PROVE  Spec => []NothingEscapes
  OBVIOUS
<1>1. ASSUME IInv, Moved PROVE NothingEscapes
  <2>1. TypeOK /\ Roles /\ Tables
    BY <1>1 DEF IInv
  <2>2. NoRuntimeLeaks
    BY <2>1 DEF NoRuntimeLeaks, Tables, Known
  <2>3. ASSUME NEW p \in Movers, pc[p] = "replacing"
        PROVE  /\ \A d \in Databases : runtimes[d] = Nobody /\ loads[d] = Nobody
               /\ \A k \in Services : status[k] # "building" /\ (status[k] = "built" => BeingClosed(k))
    <3>1. job[p].op = "move" /\ p \in Procs
      BY <2>1, <2>3, MoverIs DEF Procs, Callers
    <3>2. \A d \in Databases : runtimes[d] = Nobody /\ loads[d] = Nobody
      BY <1>1, <2>3, <3>1 DEF Moved, Still
    <3>3. \A k \in Services : ~Resident(k) /\ Flight(k) = {}
      BY <3>2, ResidencyAssumption DEF Resident, Flight
    <3> QED BY <2>1, <3>2, <3>3 DEF Tables, Flights, SingleFlight, Known
  <2> QED BY <2>2, <2>3 DEF NothingEscapes, NothingLoadsWhileMoved
<1>2. Init => Moved
  BY InitMoved
<1>3. IInv /\ Moved /\ [Next]_vars => Moved'
  <2>1. CASE UNCHANGED vars
    BY <2>1 DEF vars, Moved, Still
  <2> QED BY <2>1, MovedStep
<1>4. Spec => []Moved
  BY <1>2, <1>3, Invariant, PTL DEF Spec
<1> QED BY <1>1, <1>4, Invariant, PTL

\* A coroutine sleeps in unload_runtime only while a lease of its database is out: every
\* step that gives the last one back wakes it (release_runtime, _finalize_runtime_load).
THEOREM WakeupsArrive == Spec => []NoLostWakeup
<1>1. IInv => NoLostWakeup
  BY DEF IInv, Counts
<1> QED BY <1>1, Invariant, PTL
=============================================================================
