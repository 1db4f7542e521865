----------------------------- MODULE SQLitePool -----------------------------
(***************************************************************************)
(* The connection pool of personalityrag/sqlite_pool.py: exclusive leases  *)
(* of aiosqlite connections, opened on demand up to a limit, an idle       *)
(* reaper, and close(), after which the pool may be opened again.          *)
(*                                                                         *)
(* A section under the pool's condition never suspends, except in wait(),  *)
(* so it is one action.  Opening, rolling back and closing a connection    *)
(* are awaits: a process has a label of its own while it is in one.  A     *)
(* process that was woken runs at any later time: the event loop's order   *)
(* is not kept, so what holds here holds in whatever order it runs them.   *)
(*                                                                         *)
(* An operator that no action uses is a faulty variant of the definition   *)
(* after it, kept to show which property would notice that fault.          *)
(***************************************************************************)
EXTENDS Naturals, FiniteSets

CONSTANTS
  Clients,       \* coroutines that lease connections
  Closers,       \* coroutines that call close()
  Connections,   \* aiosqlite connections; one that was closed may return as a new one
  Nobody,        \* no client
  Limit,         \* size
  RollbackFails, \* a rollback may raise
  MayCancel      \* a coroutine may be cancelled while it rolls back

ASSUME LimitAssumption == Limit \in Nat \ {0}

ASSUME PoolAssumption ==
  /\ Clients \cap Closers = {}
  /\ Nobody \notin Clients
  /\ Connections # {}

VARIABLES
  started,     \* _started, and membership of _instances
  closing,     \* _closing
  available,   \* _available
  aged,        \* available connections that are idle for _idle_seconds
  connections, \* _connections
  leased,      \* _leased
  creating,    \* the clients counted by _creating
  reaper,      \* _idle_reaper_task: none, sleeping, or closing connections
  onward,      \* the reaper goes on after the connections it is closing
  reaping,     \* what the reaper is closing
  shutting,    \* what close() is closing
  open,        \* connections whose worker thread is alive
  pc, on       \* where each process is, and the connection it works on

books   == <<available, aged, connections, leased, creating>>
idleJob == <<reaper, onward, reaping>>
life    == <<started, closing, shutting>>
vars    == <<started, closing, available, aged, connections, leased, creating,
             reaper, onward, reaping, shutting, open, pc, on>>

Procs == Clients \cup Closers
AnyConnection == CHOOSE k \in Connections : TRUE
RoomForOne == Cardinality(connections) < Limit
Room       == Cardinality(connections) + Cardinality(creating) < Limit

ClientLabels == {"idle", "opening", "waiting", "woken", "holding", "rolling",
                 "discarding", "dropping", "refusing"}
CloserLabels == {"idle", "reaper", "drain", "waiting", "woken", "shutting"}

\* notify_all: every process in wait() looks at the pool again.
Woken(at) == [p \in Procs |-> IF at[p] = "waiting" THEN "woken" ELSE at[p]]

Goto(p, l)       == pc' = [pc EXCEPT ![p] = l]
GotoWaking(p, l) == pc' = Woken([pc EXCEPT ![p] = l])

-----------------------------------------------------------------------------
\* acquire.

TakeTimed(c) == \E k \in available :
  /\ available' = available \ {k}
  /\ leased'    = leased \cup {k}
  /\ on' = [on EXCEPT ![c] = k]
  /\ UNCHANGED aged

TakeShared(c) == \E k \in available :
  /\ leased' = leased \cup {k}
  /\ on' = [on EXCEPT ![c] = k]
  /\ UNCHANGED <<available, aged>>

\* Which of the idle connections is taken makes no difference here.
Take(c) == \E k \in available :
  /\ available' = available \ {k}
  /\ aged'      = aged \ {k}
  /\ leased'    = leased \cup {k}
  /\ on' = [on EXCEPT ![c] = k]

\* One turn of the loop: refuse, take an idle connection, open one, or wait.
Turn(c) ==
  \/ /\ closing
     /\ Goto(c, "idle")
     /\ UNCHANGED <<on, books>>
  \/ /\ ~closing /\ Take(c)
     /\ Goto(c, "holding")
     /\ UNCHANGED <<connections, creating>>
  \/ /\ ~closing /\ available = {} /\ Room
     /\ creating' = creating \cup {c}
     /\ Goto(c, "opening")
     /\ UNCHANGED <<on, available, aged, connections, leased>>
  \/ /\ ~closing /\ available = {} /\ ~Room
     /\ Goto(c, "waiting")
     /\ UNCHANGED <<on, books>>

\* start() and the first turn; nothing suspends between them.
Acquire(c) ==
  /\ pc[c] = "idle"
  /\ started' = (started \/ ~closing)
  /\ Turn(c)
  /\ UNCHANGED <<closing, shutting, idleJob, open>>

TryAgain(c) ==
  /\ pc[c] = "woken"
  /\ Turn(c)
  /\ UNCHANGED <<life, idleJob, open>>

\* The coroutine is cancelled while it waits.
GiveUp(c) ==
  /\ pc[c] \in {"waiting", "woken"}
  /\ Goto(c, "idle")
  /\ UNCHANGED <<life, books, idleJob, open, on>>

\* A new connection is none that is open or that the pool still knows.
New == Connections \ (open \cup connections \cup leased)

OpenedAnyway(c) ==
  /\ pc[c] = "opening"
  /\ \E k \in New :
       /\ open' = open \cup {k}
       /\ on'   = [on EXCEPT ![c] = k]
       /\ connections' = IF closing THEN connections ELSE connections \cup {k}
       /\ leased'      = IF closing THEN leased ELSE leased \cup {k}
  /\ creating' = creating \ {c}
  /\ GotoWaking(c, IF closing THEN "idle" ELSE "holding")
  /\ UNCHANGED <<life, idleJob, available, aged>>

Opened(c) ==
  /\ pc[c] = "opening"
  /\ \E k \in New :
       /\ open' = open \cup {k}
       /\ on'   = [on EXCEPT ![c] = k]
       /\ connections' = IF closing THEN connections ELSE connections \cup {k}
       /\ leased'      = IF closing THEN leased ELSE leased \cup {k}
  /\ creating' = creating \ {c}
  /\ GotoWaking(c, IF closing THEN "refusing" ELSE "holding")
  /\ UNCHANGED <<life, idleJob, available, aged>>

OpenFailedSilently(c) ==
  /\ pc[c] = "opening"
  /\ creating' = creating \ {c}
  /\ Goto(c, "idle")
  /\ UNCHANGED <<life, idleJob, available, aged, connections, leased, open, on>>

\* Opening raised or was cancelled; _new_connection closed what it had opened.
OpenFailed(c) ==
  /\ pc[c] = "opening"
  /\ creating' = creating \ {c}
  /\ GotoWaking(c, "idle")
  /\ UNCHANGED <<life, idleJob, available, aged, connections, leased, open, on>>

\* The pool began to close while the connection was being opened.
Refused(c) ==
  /\ pc[c] = "refusing"
  /\ open' = open \ {on[c]}
  /\ Goto(c, "idle")
  /\ UNCHANGED <<life, books, idleJob, on>>

-----------------------------------------------------------------------------
\* release.

\* _schedule_idle_reaper_locked.
Schedule == /\ reaper' = IF Cardinality(connections) > 1 /\ reaper = "none"
                           THEN "sleeping" ELSE reaper
            /\ UNCHANGED <<onward, reaping>>

\* The connection goes back, or is closed because the pool is closing.
PutBack(c) ==
  /\ leased' = leased \ {on[c]}
  /\ \/ /\ closing
        /\ connections' = connections \ {on[c]}
        /\ GotoWaking(c, "dropping")
        /\ UNCHANGED <<available, idleJob>>
     \/ /\ ~closing
        /\ available' = available \cup {on[c]}
        /\ GotoWaking(c, "idle")
        /\ Schedule
        /\ UNCHANGED connections
  /\ UNCHANGED <<aged, creating>>

Release(c) ==
  /\ pc[c] = "holding"
  /\ PutBack(c)
  /\ UNCHANGED <<life, open, on>>

\* A transaction is open: it is rolled back first.
RollBack(c) ==
  /\ pc[c] = "holding"
  /\ Goto(c, "rolling")
  /\ UNCHANGED <<life, books, idleJob, open, on>>

RolledBack(c) ==
  /\ pc[c] = "rolling"
  /\ PutBack(c)
  /\ UNCHANGED <<life, open, on>>

RollbackFailed(c) ==
  /\ RollbackFails
  /\ pc[c] = "rolling"
  /\ Goto(c, "discarding")
  /\ UNCHANGED <<life, books, idleJob, open, on>>

DiscardedSilently(c) ==
  /\ pc[c] = "discarding"
  /\ open'        = open \ {on[c]}
  /\ leased'      = leased \ {on[c]}
  /\ connections' = connections \ {on[c]}
  /\ Goto(c, "idle")
  /\ UNCHANGED <<life, idleJob, available, aged, creating, on>>

Discarded(c) ==
  /\ pc[c] = "discarding"
  /\ open'        = open \ {on[c]}
  /\ leased'      = leased \ {on[c]}
  /\ connections' = connections \ {on[c]}
  /\ GotoWaking(c, "idle")
  /\ UNCHANGED <<life, idleJob, available, aged, creating, on>>

\* CancelledError is no Exception: the lease is never given back.
Abandoned(c) ==
  /\ MayCancel
  /\ pc[c] \in {"rolling", "discarding"}
  /\ open' = IF pc[c] = "discarding" THEN open \ {on[c]} ELSE open
  /\ Goto(c, "idle")
  /\ UNCHANGED <<life, books, idleJob, on>>

Dropped(c) ==
  /\ pc[c] = "dropping"
  /\ open' = open \ {on[c]}
  /\ Goto(c, "idle")
  /\ UNCHANGED <<life, books, idleJob, on>>

-----------------------------------------------------------------------------
\* The idle reaper.

Age ==
  /\ \E k \in available \ aged : aged' = aged \cup {k}
  /\ UNCHANGED <<life, idleJob, available, connections, leased, creating, open, pc, on>>

\* The loop's bound subtracts the connections it has taken from a set they have
\* left already, so one pass takes at most half of the pool.
PassSize ==
  LET half == Cardinality(connections) \div 2 IN
  IF Cardinality(aged) < half THEN Cardinality(aged) ELSE half

Reap ==
  /\ reaper = "sleeping"
  /\ \/ /\ closing \/ Cardinality(connections) <= 1
        /\ reaper' = "none"
        /\ UNCHANGED <<onward, reaping, available, aged, connections, pc>>
     \/ /\ ~closing /\ Cardinality(connections) > 1
        /\ \E old \in SUBSET aged :
             /\ Cardinality(old) = PassSize
             /\ available'   = available \ old
             /\ aged'        = aged \ old
             /\ connections' = connections \ old
             /\ reaping' = old
             /\ onward'  = (Cardinality(connections \ old) > 1)
             /\ reaper'  = IF old = {} THEN "sleeping" ELSE "closing"
        /\ pc' = Woken(pc)
  /\ UNCHANGED <<life, leased, creating, open, on>>

\* The closings ended.  A release in the meantime saw a task that was not done.
Reaped ==
  /\ reaper = "closing"
  /\ open'    = open \ reaping
  /\ reaping' = {}
  /\ reaper'  = IF onward THEN "sleeping" ELSE "none"
  /\ pc' = [p \in Procs |-> IF pc[p] = "reaper" THEN "drain" ELSE pc[p]]
  /\ UNCHANGED <<life, books, onward, on>>

-----------------------------------------------------------------------------
\* close.

\* The reaper is cancelled and awaited; a connection it is closing is closed.
Close(p) ==
  /\ pc[p] = "idle"
  /\ closing' = TRUE
  /\ GotoWaking(p, IF reaper = "closing" THEN "reaper" ELSE "drain")
  /\ reaper' = IF reaper = "sleeping" THEN "none" ELSE reaper
  /\ onward' = FALSE
  /\ UNCHANGED <<started, shutting, books, reaping, open, on>>

\* Wait for every lease and every opening, and take what is left.
Drain(p) ==
  /\ pc[p] \in {"drain", "woken"}
  /\ \/ /\ leased # {} \/ creating # {}
        /\ Goto(p, "waiting")
        /\ UNCHANGED <<life, available, aged, connections>>
     \/ /\ leased = {} /\ creating = {}
        /\ shutting' = [shutting EXCEPT ![p] = available]
        /\ available' = {} /\ aged' = {} /\ connections' = {}
        /\ IF available # {}
             THEN Goto(p, "shutting") /\ UNCHANGED <<closing, started>>
             ELSE GotoWaking(p, "idle") /\ closing' = FALSE /\ started' = FALSE
  /\ UNCHANGED <<idleJob, leased, creating, open, on>>

\* Everything is closed and the pool may be started again.
Shut(p) ==
  /\ pc[p] = "shutting"
  /\ open'     = open \ shutting[p]
  /\ shutting' = [shutting EXCEPT ![p] = {}]
  /\ closing'  = FALSE
  /\ started'  = FALSE
  /\ GotoWaking(p, "idle")
  /\ UNCHANGED <<books, idleJob, on>>

-----------------------------------------------------------------------------
Init ==
  /\ started = FALSE /\ closing = FALSE
  /\ available = {} /\ aged = {} /\ connections = {} /\ leased = {}
  /\ creating = {}
  /\ reaper = "none" /\ onward = FALSE /\ reaping = {}
  /\ shutting = [p \in Closers |-> {}]
  /\ open = {}
  /\ pc = [p \in Procs |-> "idle"]
  /\ on = [p \in Procs |-> AnyConnection]

LeaseStep(c) == \/ TryAgain(c) \/ Opened(c) \/ Refused(c) \/ Release(c)
                \/ RolledBack(c) \/ Discarded(c) \/ Dropped(c)

ClientStep(c) == \/ Acquire(c) \/ LeaseStep(c) \/ GiveUp(c) \/ OpenFailed(c)
                 \/ RollBack(c) \/ RollbackFailed(c) \/ Abandoned(c)

CloseStep(p) == Drain(p) \/ Shut(p)

Next == \/ \E c \in Clients : ClientStep(c)
        \/ \E p \in Closers : Close(p) \/ CloseStep(p)
        \/ Age \/ Reap \/ Reaped

\* Coroutines that are ready run, SQLite answers, time passes, and whoever holds
\* a lease gives it back: every user of the pool is an `async with` or a finally.
Fairness == /\ \A c \in Clients : WF_vars(LeaseStep(c))
            /\ \A p \in Closers : WF_vars(CloseStep(p))
            /\ WF_vars(Age) /\ WF_vars(Reap) /\ WF_vars(Reaped)

Spec     == Init /\ [][Next]_vars
FairSpec == Spec /\ Fairness

-----------------------------------------------------------------------------
\* Properties.

TypeOK ==
  /\ started \in BOOLEAN /\ closing \in BOOLEAN /\ onward \in BOOLEAN
  /\ available \subseteq Connections /\ leased \subseteq Connections
  /\ aged \subseteq available
  /\ connections = available \cup leased
  /\ reaping \subseteq Connections /\ open \subseteq Connections
  /\ creating \subseteq Clients
  /\ reaper \in {"none", "sleeping", "closing"}
  /\ shutting \in [Closers -> SUBSET Connections]
  /\ pc \in [Procs -> ClientLabels \cup CloserLabels]
  /\ \A c \in Clients : pc[c] \in ClientLabels
  /\ \A p \in Closers : pc[p] \in CloserLabels
  /\ on \in [Procs -> Connections]

Using(c) == pc[c] \in {"holding", "rolling", "discarding"}

\* A lease is exclusive: no two coroutines use one connection, and none uses a
\* connection the pool thinks is idle.
LeaseIsExclusive ==
  \A c \in Clients : Using(c) =>
    /\ on[c] \in leased \ available
    /\ \A d \in Clients \ {c} : Using(d) => on[c] # on[d]

\* Seen from outside, the pool leases its connections one holder at a time.
User(k) ==
  IF \E c \in Clients : Using(c) /\ on[c] = k
    THEN CHOOSE c \in Clients : Using(c) /\ on[c] = k
    ELSE Nobody

Lease == INSTANCE ExclusiveLease
           WITH Resources <- Connections, Holders <- Clients,
                owner <- [k \in Connections |-> User(k)]

\* The pool implements the abstract lease: a connection goes from one coroutine
\* to another only through the pool.
ImplementsLease == Lease!Spec

\* The pool never counts more connections than its size, whoever opens, reaps,
\* fails or closes at the same time.
WithinLimit == Cardinality(connections) + Cardinality(creating) <= Limit

\* No wake-up is lost: a client waits only while the pool is full and all of it
\* is leased, a closer only while something is still leased or being opened.
NoLostWakeup ==
  /\ \A c \in Clients :
       pc[c] = "waiting" => available = {} /\ ~Room /\ ~closing
  /\ \A p \in Closers : pc[p] = "waiting" => leased # {} \/ creating # {}

\* Somebody is closing connection k.
BeingClosed(k) == \/ k \in reaping
                  \/ \E p \in Closers : k \in shutting[p]
                  \/ \E c \in Clients : pc[c] \in {"dropping", "refusing"} /\ on[c] = k

\* No worker thread is forgotten: a connection that is open is in the books of
\* the pool, or somebody is closing it.
NoThreadLeaks == \A k \in open : k \in connections \/ BeingClosed(k)

\* The books of the pool agree with its size and with the threads that are alive,
\* over failed openings, failed rollbacks, the reaper and close().
ConnectionsAccounted == WithinLimit /\ NoThreadLeaks

\* close() ends, unless a lease was lost with a coroutine that was cancelled.
Lost == \E k \in leased : \A c \in Clients : ~(Using(c) /\ on[c] = k)

CloseEnds == closing ~> ~closing \/ Lost
=============================================================================
