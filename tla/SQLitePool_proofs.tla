-------------------------- MODULE SQLitePool_proofs --------------------------
(***************************************************************************)
(* Theorems of SQLitePool for any number of clients, closers and           *)
(* connections, and any limit.                                             *)
(*                                                                         *)
(* The inductive invariant is IInv.  Its parts are proved one after the    *)
(* other: Owners says who uses what, Counted that the pool counts right,   *)
(* NoLostWakeup that waiting is justified, Handed that whatever is being   *)
(* closed is known to exactly the process that closes it.                  *)
(***************************************************************************)
EXTENDS SQLitePool, FiniteSetTheorems, TLAPS

Owners ==
  /\ available \cap leased = {}
  /\ \A c \in Clients : pc[c] = "opening" <=> c \in creating
  /\ LeaseIsExclusive
  /\ reaper # "closing" => reaping = {}

Counted == /\ IsFiniteSet(connections)
           /\ IsFiniteSet(creating)
           /\ WithinLimit

Handed == /\ \A p \in Closers : pc[p] # "shutting" => shutting[p] = {}
          /\ NoThreadLeaks

IInv == TypeOK /\ Owners /\ Counted /\ NoLostWakeup /\ Handed

-----------------------------------------------------------------------------
\* Types and ownership.

\* A new pool is well-formed and nobody uses a connection.
LEMMA InitOwners == Init => TypeOK /\ Owners
BY PoolAssumption DEF Init, TypeOK, Owners, LeaseIsExclusive, Using, Procs,
   ClientLabels, CloserLabels, AnyConnection

\* acquire, release, the reaper and close never hand out a connection twice.
LEMMA OwnersStep ==
  ASSUME TypeOK, Owners, [Next]_vars
  PROVE  TypeOK' /\ Owners'
<1> USE PoolAssumption DEF TypeOK, Owners, LeaseIsExclusive, Using, Procs,
        ClientLabels, CloserLabels, life, books, idleJob, Goto, GotoWaking, Woken
<1>1. ASSUME NEW c \in Clients, Acquire(c) PROVE TypeOK' /\ Owners'
  BY <1>1 DEF Acquire, Turn, Take
<1>2. ASSUME NEW c \in Clients, TryAgain(c) PROVE TypeOK' /\ Owners'
  BY <1>2 DEF TryAgain, Turn, Take
<1>3. ASSUME NEW c \in Clients, Opened(c) PROVE TypeOK' /\ Owners'
  BY <1>3 DEF Opened, New
<1>4. ASSUME NEW c \in Clients, OpenFailed(c) PROVE TypeOK' /\ Owners'
  BY <1>4 DEF OpenFailed
<1>5. ASSUME NEW c \in Clients,
             \/ Refused(c) \/ GiveUp(c) \/ RollBack(c)
             \/ RollbackFailed(c) \/ Abandoned(c) \/ Dropped(c)
      PROVE TypeOK' /\ Owners'
  BY <1>5 DEF Refused, GiveUp, RollBack, RollbackFailed, Abandoned, Dropped
<1>6. ASSUME NEW c \in Clients, Release(c) PROVE TypeOK' /\ Owners'
  BY <1>6 DEF Release, PutBack, Schedule
<1>7. ASSUME NEW c \in Clients, RolledBack(c) PROVE TypeOK' /\ Owners'
  BY <1>7 DEF RolledBack, PutBack, Schedule
<1>8. ASSUME NEW c \in Clients, Discarded(c) PROVE TypeOK' /\ Owners'
  BY <1>8 DEF Discarded
<1>9. CASE Age
  BY <1>9 DEF Age
<1>10. CASE Reap
  <2> UNCHANGED <<life, leased, creating, open, on>> /\ reaper = "sleeping"
    BY <1>10 DEF Reap
  <2>1. CASE /\ reaper' = "none"
             /\ UNCHANGED <<onward, reaping, available, aged, connections, pc>>
    BY <2>1
  <2>2. CASE /\ \E old \in SUBSET aged :
                  /\ available'   = available \ old
                  /\ aged'        = aged \ old
                  /\ connections' = connections \ old
                  /\ reaping' = old
                  /\ onward'  = (Cardinality(connections \ old) > 1)
                  /\ reaper'  = IF old = {} THEN "sleeping" ELSE "closing"
             /\ pc' = Woken(pc)
    BY <2>2
  <2> QED BY <1>10, <2>1, <2>2 DEF Reap
<1>11. CASE Reaped
  BY <1>11 DEF Reaped
<1>12. ASSUME NEW p \in Closers, Close(p) PROVE TypeOK' /\ Owners'
  BY <1>12, ZenonT(40) DEF Close
<1>13. ASSUME NEW p \in Closers, Drain(p) PROVE TypeOK' /\ Owners'
  <2>1. CASE leased # {} \/ creating # {}
    BY <1>13, <2>1 DEF Drain
  <2>2. CASE leased = {} /\ creating = {} /\ available # {}
    BY <1>13, <2>2, ZenonT(40) DEF Drain
  <2>3. CASE leased = {} /\ creating = {} /\ available = {}
    <3>1. /\ pc' = Woken([pc EXCEPT ![p] = "idle"])
          /\ shutting' = [shutting EXCEPT ![p] = available]
          /\ available' = {} /\ aged' = {} /\ connections' = {}
          /\ closing' = FALSE /\ started' = FALSE
          /\ UNCHANGED <<idleJob, leased, creating, open, on>>
      BY <1>13, <2>3 DEF Drain
    <3>2. TypeOK'
      BY <2>3, <3>1
    <3>3. Owners'
      BY <2>3, <3>1
    <3> QED BY <3>2, <3>3
  <2> QED BY <2>1, <2>2, <2>3
<1>14. ASSUME NEW p \in Closers, Shut(p) PROVE TypeOK' /\ Owners'
  BY <1>14, ZenonT(40) DEF Shut
<1>15. CASE UNCHANGED vars
  BY <1>15 DEF vars
<1> QED
  BY <1>1, <1>2, <1>3, <1>4, <1>5, <1>6, <1>7, <1>8, <1>9, <1>10, <1>11, <1>12,
     <1>13, <1>14, <1>15 DEF Next, ClientStep, LeaseStep, CloseStep

-----------------------------------------------------------------------------
\* The limit.  Connections are counted from the moment their opening begins.

\* A new pool is within its limit.
LEMMA InitCounted == Init => Counted
BY FS_EmptySet, LimitAssumption DEF Init, Counted, WithinLimit

\* A pool that only shrinks stays within its limit.
LEMMA Shrinks ==
  ASSUME Counted, connections' \subseteq connections, creating' \subseteq creating
  PROVE  Counted'
<1>1. /\ IsFiniteSet(connections') /\ IsFiniteSet(creating')
      /\ Cardinality(connections') <= Cardinality(connections)
      /\ Cardinality(creating') <= Cardinality(creating)
      /\ Cardinality(connections) \in Nat /\ Cardinality(connections') \in Nat
      /\ Cardinality(creating) \in Nat /\ Cardinality(creating') \in Nat
  BY FS_Subset, FS_CardinalityType DEF Counted
<1> QED BY <1>1, LimitAssumption DEF Counted, WithinLimit

\* An element added to a finite set raises its cardinality by one at most.
LEMMA OneMore ==
  ASSUME NEW S, NEW x, IsFiniteSet(S)
  PROVE  /\ IsFiniteSet(S \cup {x})
         /\ Cardinality(S) \in Nat /\ Cardinality(S \cup {x}) \in Nat
         /\ Cardinality(S \cup {x}) <= Cardinality(S) + 1
<1>1. Cardinality(S) \in Nat
  BY FS_CardinalityType
<1>2. /\ IsFiniteSet(S \cup {x})
      /\ Cardinality(S \cup {x}) = IF x \in S THEN Cardinality(S) ELSE Cardinality(S) + 1
  BY FS_AddElement
<1> QED BY <1>1, <1>2

\* Another connection is opened only when there is room for it.
LEMMA TurnCounted ==
  ASSUME TypeOK, Counted, NEW c \in Clients, Turn(c)
  PROVE  Counted'
<1>1. CASE UNCHANGED <<connections, creating>>
  BY <1>1, Shrinks
<1>2. CASE Room /\ creating' = creating \cup {c} /\ UNCHANGED connections
  <2>1. /\ IsFiniteSet(creating \cup {c}) /\ Cardinality(creating \cup {c}) \in Nat
        /\ Cardinality(creating \cup {c}) <= Cardinality(creating) + 1
    BY OneMore DEF Counted
  <2>2. Cardinality(connections) \in Nat /\ Cardinality(creating) \in Nat
    BY FS_CardinalityType DEF Counted
  <2> QED BY <1>2, <2>1, <2>2, LimitAssumption DEF Counted, WithinLimit, Room
<1> QED BY <1>1, <1>2 DEF Turn, Take, books

\* A connection that was opened takes the place its opening was counted for.
LEMMA OpenedCounted ==
  ASSUME TypeOK, Owners, Counted, NEW c \in Clients, Opened(c)
  PROVE  Counted'
<1>1. creating' = creating \ {c} /\ c \in creating
  BY DEF Opened, Owners
<1>2. \E k \in New : connections' = IF closing THEN connections ELSE connections \cup {k}
  BY DEF Opened
<1>3. /\ IsFiniteSet(creating') /\ Cardinality(creating') \in Nat
      /\ Cardinality(creating') + 1 = Cardinality(creating)
  <2>1. /\ IsFiniteSet(creating \ {c})
        /\ Cardinality(creating \ {c}) = Cardinality(creating) - 1
    BY <1>1, FS_RemoveElement DEF Counted
  <2>2. Cardinality(creating) \in Nat /\ Cardinality(creating \ {c}) \in Nat
    BY <2>1, FS_CardinalityType DEF Counted
  <2> QED BY <1>1, <2>1, <2>2
<1>4. /\ IsFiniteSet(connections') /\ Cardinality(connections') \in Nat
      /\ Cardinality(connections') <= Cardinality(connections) + 1
  <2>1. IsFiniteSet(connections) /\ Cardinality(connections) \in Nat
    BY FS_CardinalityType DEF Counted
  <2>2. PICK k \in New : connections' = IF closing THEN connections
                                         ELSE connections \cup {k}
    BY <1>2
  <2>3. /\ IsFiniteSet(connections \cup {k})
        /\ Cardinality(connections \cup {k}) \in Nat
        /\ Cardinality(connections \cup {k}) <= Cardinality(connections) + 1
    BY <2>1, OneMore
  <2>4. CASE closing
    BY <2>1, <2>2, <2>4
  <2>5. CASE ~closing
    BY <2>2, <2>3, <2>5
  <2> QED BY <2>4, <2>5
<1>5. Cardinality(connections) \in Nat /\ Cardinality(creating) \in Nat
  BY FS_CardinalityType DEF Counted
<1> QED BY <1>3, <1>4, <1>5, LimitAssumption DEF Counted, WithinLimit

\* No step brings the pool above its limit.
LEMMA CountedStep ==
  ASSUME TypeOK, Owners, Counted, [Next]_vars
  PROVE  Counted'
<1>1. ASSUME NEW c \in Clients, Acquire(c) \/ TryAgain(c) PROVE Counted'
  BY <1>1, TurnCounted DEF Acquire, TryAgain
<1>2. ASSUME NEW c \in Clients, Opened(c) PROVE Counted'
  BY <1>2, OpenedCounted
<1>3. ASSUME NEW c \in Clients,
             \/ OpenFailed(c) \/ Refused(c) \/ GiveUp(c) \/ Release(c)
             \/ RollBack(c) \/ RolledBack(c) \/ RollbackFailed(c)
             \/ Discarded(c) \/ Abandoned(c) \/ Dropped(c)
      PROVE Counted'
  <2>1. connections' \subseteq connections /\ creating' \subseteq creating
    BY <1>3 DEF OpenFailed, Refused, GiveUp, Release, PutBack, RollBack,
       RolledBack, RollbackFailed, Discarded, Abandoned, Dropped, books
  <2> QED BY <2>1, Shrinks
<1>4. CASE Age \/ Reap \/ Reaped
  <2>1. connections' \subseteq connections /\ creating' \subseteq creating
    BY <1>4 DEF Age, Reap, Reaped, books
  <2> QED BY <2>1, Shrinks
<1>5. ASSUME NEW p \in Closers, Close(p) \/ CloseStep(p) PROVE Counted'
  <2>1. connections' \subseteq connections /\ creating' \subseteq creating
    BY <1>5 DEF Close, CloseStep, Drain, Shut, books, life
  <2> QED BY <2>1, Shrinks
<1>6. CASE UNCHANGED vars
  BY <1>6, Shrinks DEF vars
<1> QED
  BY <1>1, <1>2, <1>3, <1>4, <1>5, <1>6 DEF Next, ClientStep, LeaseStep

-----------------------------------------------------------------------------
\* No wake-up is lost.

\* What a process waits for can only come about in a step that wakes it, or
\* that leaves the pool as full and as busy as it was.
LEMMA StillWaiting ==
  ASSUME TypeOK, NoLostWakeup,
         \A p \in Procs : pc'[p] = "waiting" => pc[p] = "waiting",
         available' = {} \/ available' \subseteq available,
         UNCHANGED <<connections, creating, closing>>,
         leased \subseteq leased'
  PROVE  NoLostWakeup'
BY DEF NoLostWakeup, Room, Procs, TypeOK

\* Nobody is left waiting by a notify_all.
LEMMA AllWoken ==
  ASSUME \A p \in Procs : pc'[p] # "waiting"
  PROVE  NoLostWakeup'
BY DEF NoLostWakeup, Procs

\* A client that goes to wait found the pool full and every connection leased.
LEMMA TurnWaits ==
  ASSUME TypeOK, Owners, NoLostWakeup, NEW c \in Clients, Turn(c), UNCHANGED closing
  PROVE  NoLostWakeup'
<1> USE PoolAssumption DEF Goto, Procs, books
<1>1. CASE closing /\ Goto(c, "idle") /\ UNCHANGED books
  BY <1>1, StillWaiting DEF TypeOK
<1>2. CASE Take(c) /\ Goto(c, "holding") /\ UNCHANGED <<connections, creating>>
  BY <1>2, StillWaiting DEF Take, TypeOK
<1>3. CASE /\ ~closing /\ available = {} /\ Room /\ creating' = creating \cup {c}
           /\ Goto(c, "opening")
           /\ UNCHANGED <<available, connections, leased>>
  <2>1. \A d \in Clients : pc[d] # "waiting"
    BY <1>3 DEF NoLostWakeup
  <2>2. \A p \in Procs : pc'[p] = "waiting" => p \in Closers
    BY <1>3, <2>1 DEF TypeOK
  <2> QED BY <1>3, <2>2 DEF NoLostWakeup
<1>4. CASE /\ ~closing /\ available = {} /\ ~Room /\ Goto(c, "waiting") /\ UNCHANGED books
  BY <1>4 DEF NoLostWakeup, TypeOK, Room
<1> QED BY <1>1, <1>2, <1>3, <1>4 DEF Turn

\* A closer that takes what is left: the pool is empty, so no client waits.
LEMMA DrainWaits ==
  ASSUME TypeOK, Counted, NoLostWakeup, NEW p \in Closers, Drain(p)
  PROVE  NoLostWakeup'
<1> USE PoolAssumption DEF Goto, GotoWaking, Woken, Procs, life, idleJob
<1>1. CASE leased # {} \/ creating # {}
  <2>1. /\ pc' = [pc EXCEPT ![p] = "waiting"]
        /\ UNCHANGED <<closing, available, connections, leased, creating>>
    BY <1>1 DEF Drain
  <2>2. \A c \in Clients : pc'[c] = pc[c]
    BY <2>1
  <2> QED BY <1>1, <2>1, <2>2 DEF NoLostWakeup, Room
<1>2. CASE leased = {} /\ creating = {}
  <2>1. ASSUME NEW c \in Clients, pc[c] = "waiting" PROVE FALSE
    <3>1. connections = {} /\ creating = {} /\ ~Room
      BY <1>2, <2>1 DEF NoLostWakeup, TypeOK
    <3>2. Cardinality(connections) = 0 /\ Cardinality(creating) = 0
      BY <3>1, FS_EmptySet
    <3> QED BY <3>1, <3>2, LimitAssumption DEF Room
  <2>2. \A q \in Closers : pc[q] # "waiting"
    BY <1>2 DEF NoLostWakeup
  <2>3. pc' \in {[pc EXCEPT ![p] = "shutting"], Woken([pc EXCEPT ![p] = "idle"])}
    BY <1>2 DEF Drain
  <2>4. \A q \in Procs : pc'[q] # "waiting"
    BY <2>1, <2>2, <2>3 DEF TypeOK
  <2> QED BY <2>4, AllWoken
<1> QED BY <1>1, <1>2

\* No step leaves a waiter behind for whom there is a connection or room.
LEMMA WakeupStep ==
  ASSUME TypeOK, Owners, Counted, NoLostWakeup, [Next]_vars
  PROVE  NoLostWakeup'
<1> USE PoolAssumption DEF Goto, GotoWaking, Woken, Procs, life, books, idleJob
<1>1. ASSUME NEW c \in Clients, Acquire(c) \/ TryAgain(c) PROVE NoLostWakeup'
  BY <1>1, TurnWaits DEF Acquire, TryAgain
<1>2. ASSUME NEW c \in Clients,
             \/ Opened(c) \/ OpenFailed(c) \/ Release(c)
             \/ RolledBack(c) \/ Discarded(c)
      PROVE NoLostWakeup'
  <2>1. \A p \in Procs : pc'[p] # "waiting"
    BY <1>2 DEF Opened, OpenFailed, Release, PutBack, RolledBack, Discarded, TypeOK
  <2> QED BY <2>1, AllWoken
<1>3. ASSUME NEW c \in Clients,
             \/ GiveUp(c) \/ Refused(c) \/ RollBack(c)
             \/ RollbackFailed(c) \/ Abandoned(c) \/ Dropped(c)
      PROVE NoLostWakeup'
  <2>1. /\ UNCHANGED <<closing, available, connections, creating, leased>>
        /\ \A p \in Procs : pc'[p] = "waiting" => pc[p] = "waiting"
    BY <1>3 DEF GiveUp, Refused, RollBack, RollbackFailed, Abandoned, Dropped, TypeOK
  <2> QED BY <2>1, StillWaiting
<1>4. CASE Age
  BY <1>4, StillWaiting DEF Age
<1>5. CASE Reap
  <2>1. CASE UNCHANGED <<available, connections, pc>>
    BY <1>5, <2>1, StillWaiting DEF Reap
  <2>2. CASE pc' = Woken(pc)
    BY <2>2, AllWoken
  <2> QED BY <1>5, <2>1, <2>2 DEF Reap
<1>6. CASE Reaped
  <2>1. \A p \in Procs : pc'[p] = "waiting" => pc[p] = "waiting"
    BY <1>6 DEF Reaped
  <2> QED BY <1>6, <2>1, StillWaiting DEF Reaped
<1>7. ASSUME NEW p \in Closers, Close(p) \/ Shut(p) PROVE NoLostWakeup'
  <2>1. \A q \in Procs : pc'[q] # "waiting"
    BY <1>7 DEF Close, Shut, TypeOK
  <2> QED BY <2>1, AllWoken
<1>8. ASSUME NEW p \in Closers, Drain(p) PROVE NoLostWakeup'
  BY <1>8, DrainWaits
<1>9. CASE UNCHANGED vars
  BY <1>9, StillWaiting DEF vars
<1> QED
  BY <1>1, <1>2, <1>3, <1>4, <1>5, <1>6, <1>7, <1>8, <1>9
     DEF Next, ClientStep, LeaseStep, CloseStep

-----------------------------------------------------------------------------
\* No worker thread is forgotten.  What a closer took is shut before the closer
\* does anything else, so the next close() forgets nothing.

\* No connection is open at the beginning.
LEMMA InitHanded == Init => Handed
BY DEF Init, Handed, NoThreadLeaks

\* Whoever takes a connection out of the books closes it or gives it back.
LEMMA HandedStep ==
  ASSUME TypeOK, Owners, Handed, [Next]_vars
  PROVE  Handed'
<1> USE PoolAssumption
    DEF Procs, life, books, idleJob, Goto, GotoWaking, Woken, Handed, NoThreadLeaks,
        BeingClosed, TypeOK
<1>1. ASSUME NEW c \in Clients, Acquire(c) \/ TryAgain(c) PROVE Handed'
  BY <1>1 DEF Acquire, TryAgain, Turn, Take
<1>2. ASSUME NEW c \in Clients, Opened(c) PROVE Handed'
  BY <1>2 DEF Opened, New
<1>3. ASSUME NEW c \in Clients,
             \/ OpenFailed(c) \/ GiveUp(c) \/ Refused(c) \/ Dropped(c)
      PROVE Handed'
  BY <1>3 DEF OpenFailed, GiveUp, Refused, Dropped
<1>4. ASSUME NEW c \in Clients, Release(c) \/ RolledBack(c) PROVE Handed'
  BY <1>4 DEF Release, RolledBack, PutBack, Schedule
<1>5. ASSUME NEW c \in Clients,
             RollBack(c) \/ RollbackFailed(c) \/ Abandoned(c) \/ Discarded(c)
      PROVE Handed'
  BY <1>5 DEF RollBack, RollbackFailed, Abandoned, Discarded, Owners
<1>6. CASE Age
  BY <1>6 DEF Age
<1>7. CASE Reap
  <2>1. CASE UNCHANGED <<reaping, connections, pc>>
    BY <1>7, <2>1 DEF Reap
  <2>2. ASSUME NEW old \in SUBSET aged,
               connections' = connections \ old, reaping' = old, pc' = Woken(pc)
        PROVE Handed'
    <3>1. reaping = {} /\ UNCHANGED <<shutting, open, on>>
      BY <1>7 DEF Reap, Owners
    <3>2. \A p \in Procs : /\ pc'[p] = "shutting" <=> pc[p] = "shutting"
                           /\ pc'[p] = "dropping" <=> pc[p] = "dropping"
                           /\ pc'[p] = "refusing" <=> pc[p] = "refusing"
      BY <2>2
    <3>3. \A k \in open' : k \in connections' \/ BeingClosed(k)'
      BY <2>2, <3>1, <3>2
    <3>4. \A p \in Closers : pc'[p] # "shutting" => shutting'[p] = {}
      BY <3>1, <3>2
    <3> QED BY <3>3, <3>4
  <2> QED BY <1>7, <2>1, <2>2 DEF Reap
<1>8. CASE Reaped
  BY <1>8 DEF Reaped
<1>9. ASSUME NEW p \in Closers, Close(p) PROVE Handed'
  BY <1>9 DEF Close
<1>10. ASSUME NEW p \in Closers, Drain(p) PROVE Handed'
  <2>1. CASE leased # {} \/ creating # {}
    BY <1>10, <2>1 DEF Drain
  <2>2. CASE leased = {} /\ creating = {}
    <3>1. /\ shutting' = [shutting EXCEPT ![p] = available]
          /\ connections = available
          /\ shutting[p] = {}
          /\ UNCHANGED <<reaping, open, on>>
      BY <1>10, <2>2 DEF Drain
    <3>2. /\ pc'[p] # "shutting" => available = {}
          /\ \A q \in Closers \ {p} : pc'[q] = "shutting" <=> pc[q] = "shutting"
          /\ \A c \in Clients : /\ pc'[c] = "dropping" <=> pc[c] = "dropping"
                                /\ pc'[c] = "refusing" <=> pc[c] = "refusing"
      BY <1>10, <2>2 DEF Drain
    <3>3. \A q \in Closers : pc'[q] # "shutting" => shutting'[q] = {}
      BY <3>1, <3>2
    <3>4. ASSUME NEW k \in open PROVE k \in connections' \/ BeingClosed(k)'
      <4>1. CASE k \in available
        BY <3>1, <4>1
      <4>2. CASE k \in reaping
        BY <3>1, <4>2
      <4>3. CASE \E q \in Closers : k \in shutting[q]
        BY <3>1, <4>3
      <4>4. CASE \E c \in Clients : pc[c] \in {"dropping", "refusing"} /\ on[c] = k
        <5>1. PICK c \in Clients : pc[c] \in {"dropping", "refusing"} /\ on[c] = k
          BY <4>4
        <5>2. pc'[c] \in {"dropping", "refusing"} /\ on'[c] = k
          BY <3>1, <3>2, <5>1
        <5> QED BY <5>2, Zenon DEF BeingClosed
      <4> QED BY <3>1, <4>1, <4>2, <4>3, <4>4
    <3> QED BY <3>1, <3>3, <3>4
  <2> QED BY <2>1, <2>2
<1>11. ASSUME NEW p \in Closers, Shut(p) PROVE Handed'
  BY <1>11 DEF Shut
<1>12. CASE UNCHANGED vars
  BY <1>12 DEF vars
<1> QED
  BY <1>1, <1>2, <1>3, <1>4, <1>5, <1>6, <1>7, <1>8, <1>9, <1>10, <1>11, <1>12
     DEF Next, ClientStep, LeaseStep, CloseStep

-----------------------------------------------------------------------------
\* The theorems.

\* The inductive invariant holds at the beginning.
LEMMA InitInv == Init => IInv
BY InitOwners, InitCounted, InitHanded DEF IInv, Init, NoLostWakeup, Procs

\* Each of its parts is preserved, given the parts before it.
LEMMA InvStep == IInv /\ [Next]_vars => IInv'
BY OwnersStep, CountedStep, WakeupStep, HandedStep DEF IInv

\* The inductive invariant: owners, counts, wake-ups and hand-overs.
THEOREM Invariant == Spec => []IInv
BY InitInv, InvStep, PTL DEF Spec

\* The books of the pool are well-formed: every connection it counts is either
\* available or leased.
THEOREM TypeCorrect == Spec => []TypeOK
<1>1. IInv => TypeOK
  BY DEF IInv
<1> QED BY <1>1, Invariant, PTL

\* acquire and release never give one connection to two coroutines.
THEOREM Exclusive == Spec => []LeaseIsExclusive
<1>1. IInv => LeaseIsExclusive
  BY DEF IInv, Owners
<1> QED BY <1>1, Invariant, PTL

\* The pool never has more connections than its size.
THEOREM Limited == Spec => []WithinLimit
<1>1. IInv => WithinLimit
  BY DEF IInv, Counted
<1> QED BY <1>1, Invariant, PTL

\* Nobody waits for something that has happened already.
THEOREM WakeupsArrive == Spec => []NoLostWakeup
<1>1. IInv => NoLostWakeup
  BY DEF IInv
<1> QED BY <1>1, Invariant, PTL

\* No connection is open that neither the pool nor a closer knows.
THEOREM ThreadsKnown == Spec => []NoThreadLeaks
<1>1. IInv => NoThreadLeaks
  BY DEF IInv, Handed
<1> QED BY <1>1, Invariant, PTL

\* The books of the pool agree with its size and with its threads.
THEOREM BooksAgree == Spec => []ConnectionsAccounted
<1>1. WithinLimit /\ NoThreadLeaks => ConnectionsAccounted
  BY DEF ConnectionsAccounted
<1> QED BY <1>1, Limited, ThreadsKnown, PTL

-----------------------------------------------------------------------------
\* Refinement: the pool implements ExclusiveLease.

\* The user of a connection is the client that works on it.
LEMMA UserIs ==
  ASSUME LeaseIsExclusive, NEW k
  PROVE  /\ \A c \in Clients : Using(c) /\ on[c] = k => User(k) = c
         /\ (\A c \in Clients : ~(Using(c) /\ on[c] = k)) => User(k) = Nobody
BY DEF User, LeaseIsExclusive

\* The same in the next state.
LEMMA UserIsNext ==
  ASSUME LeaseIsExclusive', NEW k
  PROVE  /\ \A c \in Clients : Using(c)' /\ on'[c] = k => User(k)' = c
         /\ (\A c \in Clients : ~(Using(c)' /\ on'[c] = k)) => User(k)' = Nobody
BY DEF User, LeaseIsExclusive

\* A step after which every user was a user of that connection before.
LEMMA OnlyReleases ==
  ASSUME LeaseIsExclusive, LeaseIsExclusive',
         \A c \in Clients : Using(c)' => Using(c) /\ on'[c] = on[c]
  PROVE  Lease!Release
<1>1. ASSUME NEW k \in Connections PROVE User(k)' \in {User(k), Nobody}
  <2>1. CASE \A c \in Clients : ~(Using(c)' /\ on'[c] = k)
    BY <2>1, UserIsNext
  <2>2. ASSUME NEW c \in Clients, Using(c)', on'[c] = k
        PROVE User(k)' = User(k)
    BY <2>2, UserIs, UserIsNext
  <2> QED BY <2>1, <2>2
<1> QED BY <1>1 DEF Lease!Release

\* A step after which one client uses a connection nobody used before.
LEMMA OnlyGrants ==
  ASSUME LeaseIsExclusive, LeaseIsExclusive',
         NEW c \in Clients, NEW k \in Connections, Using(c)', ~Using(c), on'[c] = k,
         \A d \in Clients : ~(Using(d) /\ on[d] = k),
         \A d \in Clients \ {c} : (Using(d)' <=> Using(d)) /\ on'[d] = on[d]
  PROVE  Lease!Grant(k, c)
<1>1. User(k) = Nobody /\ User(k)' = c
  BY UserIs, UserIsNext
<1>2. ASSUME NEW n \in Connections, n # k PROVE User(n)' = User(n)
  <2>1. CASE \A d \in Clients : ~(Using(d) /\ on[d] = n)
    <3>1. \A d \in Clients : ~(Using(d)' /\ on'[d] = n)
      BY <1>2, <2>1
    <3> QED BY <2>1, <3>1, UserIs, UserIsNext
  <2>2. ASSUME NEW d \in Clients, Using(d), on[d] = n PROVE User(n)' = User(n)
    <3>1. Using(d)' /\ on'[d] = n
      BY <2>2
    <3> QED BY <2>2, <3>1, UserIs, UserIsNext
  <2> QED BY <2>1, <2>2
<1> QED BY <1>1, <1>2 DEF Lease!Grant

\* Each step grants one free connection, takes some back, or changes no user.
LEMMA LeaseStepRefines ==
  ASSUME TypeOK, Owners, TypeOK', Owners', [Next]_vars
  PROVE  [Lease!Next]_[k \in Connections |-> User(k)]
<1> USE PoolAssumption DEF TypeOK, Owners, Procs, Using, Goto, GotoWaking, Woken,
        life, books, idleJob
<1> SUFFICES Lease!Next
  OBVIOUS
<1>1. ASSUME \A d \in Clients : Using(d)' => Using(d) /\ on'[d] = on[d]
      PROVE  Lease!Next
  BY <1>1, OnlyReleases DEF Lease!Next
<1>2. ASSUME NEW c \in Clients, NEW k \in Connections, Using(c)', ~Using(c), on'[c] = k,
             \A d \in Clients : ~(Using(d) /\ on[d] = k),
             \A d \in Clients \ {c} : (Using(d)' <=> Using(d)) /\ on'[d] = on[d]
      PROVE  Lease!Next
  BY <1>2, OnlyGrants DEF Lease!Next
<1>3. ASSUME NEW c \in Clients, Acquire(c) \/ TryAgain(c) PROVE Lease!Next
  <2>1. CASE Take(c) /\ Goto(c, "holding")
    <3>1. PICK k \in available : on' = [on EXCEPT ![c] = k]
      BY <2>1 DEF Take
    <3>2. ~Using(c)
      BY <1>3 DEF Acquire, TryAgain
    <3> QED BY <1>2, <2>1, <3>1, <3>2 DEF LeaseIsExclusive
  <2>2. CASE pc'[c] # "holding"
    BY <1>1, <1>3, <2>2 DEF Acquire, TryAgain, Turn
  <2> QED BY <1>3, <2>1, <2>2 DEF Acquire, TryAgain, Turn
<1>4. ASSUME NEW c \in Clients, Opened(c) PROVE Lease!Next
  <2>1. CASE closing
    BY <1>1, <1>4, <2>1 DEF Opened
  <2>2. CASE ~closing
    <3>1. PICK k \in New : on' = [on EXCEPT ![c] = k]
      BY <1>4 DEF Opened
    <3> QED BY <1>2, <1>4, <2>2, <3>1 DEF Opened, New, LeaseIsExclusive
  <2> QED BY <2>1, <2>2
<1>5. ASSUME NEW c \in Clients,
             \/ OpenFailed(c) \/ Refused(c) \/ GiveUp(c) \/ Release(c)
             \/ RollBack(c) \/ RolledBack(c) \/ RollbackFailed(c)
             \/ Discarded(c) \/ Abandoned(c) \/ Dropped(c)
      PROVE Lease!Next
  BY <1>1, <1>5 DEF OpenFailed, Refused, GiveUp, Release, PutBack, RollBack,
     RolledBack, RollbackFailed, Discarded, Abandoned, Dropped
<1>6. CASE Age \/ Reap \/ Reaped
  BY <1>1, <1>6 DEF Age, Reap, Reaped
<1>7. ASSUME NEW p \in Closers, Close(p) \/ CloseStep(p) PROVE Lease!Next
  BY <1>1, <1>7 DEF Close, CloseStep, Drain, Shut
<1>8. CASE UNCHANGED vars
  BY <1>1, <1>8 DEF vars
<1> QED BY <1>3, <1>4, <1>5, <1>6, <1>7, <1>8 DEF Next, ClientStep, LeaseStep

\* No connection is leased at the beginning.
LEMMA LeaseInit == Init => Lease!Init
<1> SUFFICES ASSUME Init, NEW k \in Connections PROVE User(k) = Nobody
  BY DEF Lease!Init
<1> QED BY DEF Init, User, Using, Procs

\* Every behaviour of the pool is one of the abstract lease.
THEOREM Refines == Spec => ImplementsLease
<1>1. IInv /\ IInv' /\ [Next]_vars => [Lease!Next]_[k \in Connections |-> User(k)]
  BY LeaseStepRefines DEF IInv
<1> QED BY <1>1, LeaseInit, Invariant, PTL DEF Spec, ImplementsLease, Lease!Spec
=============================================================================
