------------------------- MODULE AdapterConnections -------------------------
(***************************************************************************)
(* The connections of adapters to databases: control.py (rows),            *)
(* libraries.py (flags and waiters in memory), routes/libraries.py         *)
(* (heartbeat and disconnect), the guard of http_middleware.py and the     *)
(* image URLs of text_media_v1/api.py that are bound to a connection.      *)
(*                                                                         *)
(* A connection is known by its database and its adapter id; the model has *)
(* one adapter id per database.  Its row says which instance of the        *)
(* adapter holds it, since when (connected_at, which tells one connection  *)
(* from the next), whether a heartbeat came within the TTL, and whether an *)
(* administrator cut it.  Rows of memory libraries are also kept in an     *)
(* older table that every start copies over the newer one.  A cut          *)
(* connection is moreover flagged in memory, which is all the guard of     *)
(* the other requests looks at.                                            *)
(*                                                                         *)
(* time.time() is a counter: two registrations never get the same instant. *)
(***************************************************************************)
EXTENDS Integers, FiniteSets

CONSTANTS
    Memory, Knowledge,  \* ids of memory libraries and of knowledge bases
    Existing,           \* which of them may exist at first
    Instance,           \* running instances of the adapter
    Heartbeat,          \* heartbeat requests that may be open at once
    Admin,              \* disconnect requests that may be open at once
    Renamable,          \* databases a rename may start from
    None,               \* SQL NULL, "no row", "no request"
    MaxClock,           \* bound: connections
    MaxRowid,           \* bound: rowids of the older table
    MaxEvents,          \* bound: renames, deletions, creations and restarts
    OneMove             \* bound: no move while one since the start is remembered

ASSUME DatabaseAssumption ==
    /\ Memory \intersect Knowledge = {}
    /\ Existing \subseteq SUBSET (Memory \union Knowledge)
    /\ Renamable \subseteq Memory \union Knowledge
ASSUME BoundAssumption == {MaxClock, MaxRowid, MaxEvents} \subseteq Nat /\ OneMove \in BOOLEAN

VARIABLES
    catalog,    \* "live", "deleted" (a memory library's row is kept) or "none"
    row,        \* database_adapter_connections
    mirror,     \* adapter_connections: by library, with the database_id it keeps itself
    flags,      \* databases flagged forced_offline in memory
    beat,       \* heartbeat requests
    admin,      \* disconnect requests
    move,       \* the rename, deletion or creation under way, or None
    url,        \* an image URL signed for a connection, or None
    clock,      \* time.time()
    gone,       \* history: connections that were cut or replaced
    moved,      \* history: ids that changed hands since the start
    crossed,    \* history: ids where a manual reconnect met a disconnect since the start
    events      \* number of renames, deletions, creations and restarts

vars == <<catalog, row, mirror, flags, beat, admin, move, url, clock, gone, moved,
          crossed, events>>

Database == Memory \union Knowledge
Instant == 1 .. MaxClock
Row == [instance : Instance, since : Instant, fresh : BOOLEAN, state : {"active", "forced"}]

\* A poll is a heartbeat that waits (wait_seconds > 0); a manual reconnect never does.
\* The instance a request names, and whether it is a manual reconnect, are chosen when
\* they are first used.
Request == [db : Database, poll : BOOLEAN, woken : BOOLEAN,
            pc : {"arrived", "registered", "waiting", "clearing"}]
Disconnect == [db : Database, pc : {"asked", "cut", "read"}, seen : {"active", "forced"}]

\* The row of the older table.
OldRow == [of : Memory, row : Row, rowid : 1 .. MaxRowid]

\* A pending rename or deletion, and a signed URL.
Change == [from : Database, to : Database \union {None}]
Url == [db : Knowledge, instance : Instance, since : Instant]

ASSUME NoneAssumption ==
    /\ None \notin Database
    /\ \A S \in {Row, Request, Disconnect, OldRow, Change, Url} : None \notin S

Forced(r) == r # None /\ r.state = "forced"
Connected(r) == r # None /\ r.state = "active"

\* active_adapter_connections
InUse(d) == Connected(row[d]) /\ row[d].fresh

\* subscribe_adapter_disconnect .. unsubscribe_adapter_disconnect
Subscribed(h) == beat[h] # None /\ beat[h].poll

Crossing(d) == \/ \E a \in Admin : admin[a] # None /\ admin[a].db = d
                                   /\ admin[a].pc \in {"cut", "read"}
               \/ \E h \in Heartbeat : beat[h] # None /\ beat[h].db = d /\ beat[h].pc = "clearing"

Init ==
    /\ \E live \in Existing :
         catalog = [d \in Database |-> IF d \in live THEN "live" ELSE "none"]
    /\ row = [d \in Database |-> None]
    /\ mirror = [m \in Memory |-> None]
    /\ flags = {}
    /\ beat = [h \in Heartbeat |-> None]
    /\ admin = [a \in Admin |-> None]
    /\ move = None
    /\ url = None
    /\ clock = 0
    /\ gone = {} /\ moved = {} /\ crossed = {}
    /\ events = 0

---------------------------------------------------------------------------
(* The heartbeat routes. *)

\* A heartbeat finds its database and a poll takes its waiter, before it registers.
Arrive(h) ==
    /\ beat[h] = None
    /\ \E d \in Database, poll \in BOOLEAN :
         /\ catalog[d] = "live"
         /\ beat' = [beat EXCEPT ![h] = [db |-> d, poll |-> poll, woken |-> FALSE,
                                         pc |-> "arrived"]]
    /\ UNCHANGED <<catalog, row, mirror, flags, admin, move, url, clock, gone, moved, crossed,
                   events>>

\* register_adapter_connection looks for the identity some time before its transaction;
\* a deleted memory library still has one.
NotFound(h) ==
    /\ beat[h] # None /\ beat[h].pc = "arrived"
    /\ catalog[beat[h].db] = "none"
    /\ beat' = [beat EXCEPT ![h] = None]
    /\ UNCHANGED <<catalog, row, mirror, flags, admin, move, url, clock, gone, moved, crossed,
                   events>>

MayRegister(r, i, manual) ==
    /\ ~(Forced(r) /\ ~manual)                          \* AdapterForcedOfflineError
    /\ ~(Connected(r) /\ r.instance # i /\ r.fresh)     \* held by another instance

\* Mutant: a manual reconnect of the same instance continues the cut connection.
ContinuesCut(r, i) == r # None /\ r.instance = i

\* The same instance keeps its connected_at, however long it was silent.
Continues(r, i) == Connected(r) /\ r.instance = i

\* Mutant: a manual reconnect waits like a poll.
AfterRegisterWaiting(q, manual) ==
    IF q.poll \/ manual THEN [q EXCEPT !.pc = "registered"] ELSE None

\* The row is read back.  Then a poll waits, a manual reconnect has its flag to clear and
\* any other heartbeat is answered.
AfterRegister(q, manual) ==
    IF q.poll THEN [q EXCEPT !.pc = "registered"]
    ELSE IF manual THEN [q EXCEPT !.pc = "clearing"] ELSE None

\* The older table's row is replaced or inserted, with SQLite's next rowid.
Rowids(d) ==
    IF mirror[d] # None THEN {mirror[d].rowid}
    ELSE LET used == {mirror[m].rowid : m \in {o \in Memory : mirror[o] # None}}
         IN {n \in 1 .. MaxRowid : /\ \A x \in used : x < n
                                   /\ n = 1 \/ n - 1 \in used}
Mirrored(d, new) ==
    IF d \in Knowledge THEN {mirror}
    ELSE {[mirror EXCEPT ![d] = [of |-> d, row |-> new, rowid |-> n]] : n \in Rowids(d)}

\* The transaction of register_adapter_connection.
Register(h) ==
    /\ beat[h] # None /\ beat[h].pc = "arrived"
    /\ \E i \in Instance, manual \in BOOLEAN :
         LET d == beat[h].db
             since == IF Continues(row[d], i) THEN row[d].since ELSE clock + 1
             new == [instance |-> i, since |-> since, fresh |-> TRUE, state |-> "active"]
         IN /\ manual => ~beat[h].poll
            /\ MayRegister(row[d], i, manual)
            /\ since <= MaxClock
            /\ row' = [row EXCEPT ![d] = new]
            /\ mirror' \in Mirrored(d, new)
            /\ clock' = IF since > clock THEN since ELSE clock
            /\ gone' = IF row[d] # None /\ row[d].since # since
                         THEN gone \union {row[d].since} ELSE gone
            /\ crossed' = IF manual /\ Crossing(d) THEN crossed \union {d} ELSE crossed
            /\ beat' = [beat EXCEPT ![h] = AfterRegister(@, manual)]
    /\ UNCHANGED <<catalog, flags, admin, move, url, moved, events>>

\* A refused heartbeat gives its waiter back.
Refuse(h) ==
    /\ beat[h] # None /\ beat[h].pc = "arrived"
    /\ \E i \in Instance, manual \in BOOLEAN :
         /\ manual => ~beat[h].poll
         /\ ~MayRegister(row[beat[h].db], i, manual)
    /\ beat' = [beat EXCEPT ![h] = None]
    /\ UNCHANGED <<catalog, row, mirror, flags, admin, move, url, clock, gone, moved, crossed,
                   events>>

\* clear_adapter_forced_offline
Unflagged(d) == flags \ {d}

\* A manual reconnect takes the flag away after it has read its row back.
Clear(h) ==
    /\ beat[h] # None /\ beat[h].pc = "clearing"
    /\ flags' = Unflagged(beat[h].db)
    /\ beat' = [beat EXCEPT ![h] = None]
    /\ UNCHANGED <<catalog, row, mirror, admin, move, url, clock, gone, moved, crossed,
                   events>>

Wait(h) ==
    /\ beat[h] # None /\ beat[h].pc = "registered"
    /\ beat' = [beat EXCEPT ![h].pc = "waiting"]
    /\ UNCHANGED <<catalog, row, mirror, flags, admin, move, url, clock, gone, moved, crossed,
                   events>>

\* A poll is woken or times out, reads the row again and answers.
Answer(h) ==
    /\ beat[h] # None /\ beat[h].pc = "waiting"
    /\ beat' = [beat EXCEPT ![h] = None]
    /\ UNCHANGED <<catalog, row, mirror, flags, admin, move, url, clock, gone, moved, crossed,
                   events>>

\* No heartbeat of the connection came for adapter_connection_ttl_seconds.
Expire(since) ==
    /\ \E d \in Database : row[d] # None /\ row[d].since = since /\ row[d].fresh
    /\ row' = [d \in Database |-> IF row[d] # None /\ row[d].since = since
                                    THEN [row[d] EXCEPT !.fresh = FALSE] ELSE row[d]]
    /\ mirror' = [m \in Memory |-> IF mirror[m] # None /\ mirror[m].row.since = since
                                     THEN [mirror[m] EXCEPT !.row.fresh = FALSE] ELSE mirror[m]]
    /\ UNCHANGED <<catalog, flags, beat, admin, move, url, clock, gone, moved, crossed,
                   events>>

---------------------------------------------------------------------------
(* The disconnect routes. *)

AskDisconnect(a) ==
    /\ admin[a] = None
    /\ \E d \in Database :
         /\ catalog[d] = "live"
         /\ admin' = [admin EXCEPT ![a] = [db |-> d, pc |-> "asked", seen |-> "active"]]
    /\ UNCHANGED <<catalog, row, mirror, flags, beat, move, url, clock, gone, moved, crossed,
                   events>>

\* Mutant: the older table is forgotten.
MirroredCutNot(d) == mirror

MirroredCut(d) == IF d \in Memory /\ mirror[d] # None
                    THEN [mirror EXCEPT ![d].row.state = "forced"] ELSE mirror

\* The transaction of force_disconnect_adapter, when the row has the instance that the
\* console showed.
Cut(a) ==
    /\ admin[a] # None /\ admin[a].pc = "asked"
    /\ LET d == admin[a].db
       IN /\ row[d] # None
          /\ row' = [row EXCEPT ![d].state = "forced"]
          /\ mirror' = MirroredCut(d)
          /\ gone' = gone \union {row[d].since}
          /\ crossed' = IF \E h \in Heartbeat : /\ beat[h] # None /\ beat[h].db = d
                                                /\ beat[h].pc = "clearing"
                          THEN crossed \union {d} ELSE crossed
    /\ admin' = [admin EXCEPT ![a].pc = "cut"]
    /\ UNCHANGED <<catalog, flags, beat, move, url, clock, moved, events>>

\* 404, or another instance than the console showed (AdapterConnectionChangedError).
CutRefused(a) ==
    /\ admin[a] # None /\ admin[a].pc = "asked"
    /\ admin' = [admin EXCEPT ![a] = None]
    /\ UNCHANGED <<catalog, row, mirror, flags, beat, move, url, clock, gone, moved, crossed,
                   events>>

\* The row is read again; without one nobody is told.
ReadBack(a) ==
    /\ admin[a] # None /\ admin[a].pc = "cut"
    /\ LET r == row[admin[a].db]
       IN admin' = [admin EXCEPT ![a] = IF r = None THEN None
                                        ELSE [@ EXCEPT !.pc = "read", !.seen = r.state]]
    /\ UNCHANGED <<catalog, row, mirror, flags, beat, move, url, clock, gone, moved, crossed,
                   events>>

\* Mutant: only the polls that already wait are woken.
NotifiedWaiting(d) ==
    [h \in Heartbeat |-> IF Subscribed(h) /\ beat[h].db = d /\ beat[h].pc = "waiting"
                           THEN [beat[h] EXCEPT !.woken = TRUE] ELSE beat[h]]

\* notify_adapter_disconnect
Notified(d) ==
    [h \in Heartbeat |-> IF Subscribed(h) /\ beat[h].db = d
                           THEN [beat[h] EXCEPT !.woken = TRUE] ELSE beat[h]]

\* mark_adapter_forced_offline keeps the connection that was read; the guard asks for
\* its state.  The polls are woken in the same step.
Mark(a) ==
    /\ admin[a] # None /\ admin[a].pc = "read"
    /\ flags' = IF admin[a].seen = "forced" THEN flags \union {admin[a].db}
                                            ELSE flags \ {admin[a].db}
    /\ beat' = Notified(admin[a].db)
    /\ admin' = [admin EXCEPT ![a] = None]
    /\ UNCHANGED <<catalog, row, mirror, move, url, clock, gone, moved, crossed, events>>

---------------------------------------------------------------------------
(* Databases come, go and change their ids; one such request at a time. *)

Targets(from) == {to \in IF from \in Memory THEN Memory ELSE Knowledge :
                    from \in Renamable /\ catalog[to] # "live"}

\* A rename or a deletion looks for adapters that are connected, long before it commits.
BeginMove(from, to) ==
    /\ move = None /\ events < MaxEvents /\ (OneMove => moved = {})
    /\ catalog[from] = "live" /\ ~InUse(from)
    /\ to \in Targets(from) \union {None}
    /\ move' = [from |-> from, to |-> to]
    /\ events' = events + 1
    /\ UNCHANGED <<catalog, row, mirror, flags, beat, admin, url, clock, gone, moved, crossed>>

\* rename_database_identity takes the row along, unless the new id has one already
\* that is not of a deleted memory library.  update_library looks for adapters once
\* more, and leaves the old id in the older table's database_id.
Rename ==
    /\ move # None /\ move.to # None
    /\ LET from == move.from
           to == move.to
           left(r) == IF catalog[to] = "deleted" THEN None ELSE r
           taken(r, s) == IF r = None THEN left(s) ELSE r
           clash(r, s) == r # None /\ left(s) # None
       IN IF \/ clash(row[from], row[to])
             \/ from \in Memory /\ (InUse(from) \/ clash(mirror[from], mirror[to]))
          THEN UNCHANGED <<catalog, row, mirror, moved>>
          ELSE /\ catalog' = [catalog EXCEPT ![from] = "none", ![to] = "live"]
               /\ row' = [row EXCEPT ![from] = None, ![to] = taken(row[from], row[to])]
               /\ mirror' = IF from \in Knowledge THEN mirror
                            ELSE [mirror EXCEPT ![from] = None,
                                                ![to] = taken(mirror[from], mirror[to])]
               /\ moved' = moved \union {from, to}
    /\ move' = None
    /\ UNCHANGED <<flags, beat, admin, url, clock, gone, crossed, events>>

\* A knowledge base loses its identity and leaves its row; a memory library is only
\* marked, after mark_library_deleted has looked for adapters once more.
Delete ==
    /\ move # None /\ move.to = None
    /\ catalog' = IF move.from \in Knowledge THEN [catalog EXCEPT ![move.from] = "none"]
                  ELSE IF InUse(move.from) THEN catalog
                  ELSE [catalog EXCEPT ![move.from] = "deleted"]
    /\ move' = None
    /\ UNCHANGED <<row, mirror, flags, beat, admin, url, clock, gone, moved, crossed,
                   events>>

\* The rows of a deleted memory library go when its id is given again
\* (_delete_soft_deleted_library_row); those of a knowledge base stay.  (Bound: an id that
\* nothing is left of is given at first or never.)
Create(d) ==
    /\ move = None /\ events < MaxEvents /\ (OneMove => moved = {})
    /\ catalog[d] = "deleted" \/ row[d] # None \/ d \in flags \union moved
    /\ catalog[d] # "live"
    /\ catalog' = [catalog EXCEPT ![d] = "live"]
    /\ IF catalog[d] = "deleted"
         THEN /\ row' = [row EXCEPT ![d] = None]
              /\ mirror' = [mirror EXCEPT ![d] = None]
              /\ moved' = moved \union {d}
         ELSE UNCHANGED <<row, mirror, moved>>
    /\ events' = events + 1
    /\ UNCHANGED <<flags, beat, admin, move, url, clock, gone, crossed>>

---------------------------------------------------------------------------
(* Image URLs of a knowledge base, and the process. *)

\* _active_media_adapter_connection
Media(d, i) == InUse(d) /\ row[d].instance = i

\* signed_asset_url, for an adapter: the scope names the connection.
SignUrl(d, i) ==
    /\ url = None /\ catalog[d] = "live"
    /\ Media(d, i)
    /\ url' = [db |-> d, instance |-> i, since |-> row[d].since]
    /\ UNCHANGED <<catalog, row, mirror, flags, beat, admin, move, clock, gone, moved, crossed,
                   events>>

\* _require_media_access
Opens(u) == catalog[u.db] = "live" /\ Media(u.db, u.instance) /\ row[u.db].since = u.since

\* Mutant: a start does not look which connections are cut.
FlagsLost(rows) == {}

\* LibraryManager.initialize
FlagsLoaded(rows) == {d \in Database : Forced(rows[d])}

\* The last of the older table's rows that name the database, in the order of rowids.
Copies(d) == {m \in Memory : mirror[m] # None /\ mirror[m].of = d}
Last(d) == IF Copies(d) = {} THEN {None}
           ELSE {m \in Copies(d) : \A o \in Copies(d) : mirror[o].rowid <= mirror[m].rowid}

\* The process ends at any point and starts again: ControlStore.initialize copies the
\* older table over the newer one, row by row.
Restart ==
    /\ events < MaxEvents
    /\ \E last \in [Database -> Memory \union {None}] :
         /\ \A d \in Database : last[d] \in Last(d)
         /\ row' = [d \in Database |-> IF last[d] = None THEN row[d] ELSE mirror[last[d]].row]
    /\ flags' = FlagsLoaded(row')
    /\ beat' = [h \in Heartbeat |-> None]
    /\ admin' = [a \in Admin |-> None]
    /\ move' = None
    /\ moved' = {} /\ crossed' = {}
    /\ events' = events + 1
    /\ UNCHANGED <<catalog, mirror, url, clock, gone>>

Next ==
    \/ \E h \in Heartbeat : \/ Arrive(h) \/ NotFound(h) \/ Register(h) \/ Refuse(h)
                            \/ Clear(h) \/ Wait(h) \/ Answer(h)
    \/ \E since \in Instant : Expire(since)
    \/ \E a \in Admin : AskDisconnect(a) \/ Cut(a) \/ CutRefused(a) \/ ReadBack(a) \/ Mark(a)
    \/ \E from \in Database, to \in Database \union {None} : BeginMove(from, to)
    \/ Rename \/ Delete
    \/ \E d \in Database : Create(d)
    \/ \E d \in Knowledge, i \in Instance : SignUrl(d, i)
    \/ Restart

Spec == Init /\ [][Next]_vars

---------------------------------------------------------------------------
(* Properties. *)

TypeOK ==
    /\ catalog \in [Database -> {"live", "deleted", "none"}]
    /\ \A d \in Knowledge : catalog[d] # "deleted"
    /\ row \in [Database -> Row \union {None}]
    /\ mirror \in [Memory -> OldRow \union {None}]
    /\ flags \subseteq Database
    /\ beat \in [Heartbeat -> Request \union {None}]
    /\ \A h \in Heartbeat : beat[h] # None =>
         /\ beat[h].pc \in {"registered", "waiting"} => beat[h].poll
         /\ beat[h].pc = "clearing" => ~beat[h].poll
    /\ admin \in [Admin -> Disconnect \union {None}]
    /\ move \in Change \union {None}
    /\ url \in Url \union {None}
    /\ clock \in 0 .. MaxClock
    /\ gone \subseteq Instant /\ moved \subseteq Database /\ crossed \subseteq Database
    /\ events \in 0 .. MaxEvents

\* README.md:186.  An image URL is of no use once its connection was cut or taken over,
\* and stays so when the same instance reconnects, however restarts, renames and
\* recreated databases fall between.
UrlsEnd == url # None /\ Opens(url) => url.since \notin gone

\* README.md:331.  A connection that was cut stays so until a manual reconnect commits,
\* unless its database changes its id (the row goes along) or was deleted and is created
\* again.  Neither ordinary heartbeats nor a restart, with the copy from the older table,
\* bring it back.
Reconnects(d) == \E h \in Heartbeat : /\ beat[h] # None /\ beat[h].db = d
                                      /\ beat[h].pc = "arrived"
                                      /\ beat'[h] # None /\ beat'[h].pc = "clearing"
StaysCut ==
    [][\A d \in Database : Forced(row[d]) =>
         \/ Forced(row'[d])
         \/ Reconnects(d)
         \/ row'[d] = None /\ \/ catalog[d] = "deleted"
                              \/ \E e \in Database \ {d} : row'[e] = row[d]]_vars

\* A poll that waits on a connection that was cut has been woken, or the disconnect that
\* wakes it is under way: no disconnect falls between the registration and the wait,
\* because the waiter is there before the registration.
\* (Not for an id that a database got by a rename while the poll was waiting on it.)
WokenWhenCut ==
    \A h \in Heartbeat :
       beat[h] # None /\ beat[h].pc = "waiting" /\ Forced(row[beat[h].db])
          /\ beat[h].db \notin moved =>
       beat[h].woken \/ \E a \in Admin : /\ admin[a] # None /\ admin[a].db = beat[h].db
                                         /\ admin[a].pc \in {"cut", "read"}

\* Between requests the flag the guard looks at agrees with the row, also after a restart.
\* (Two accidents apart: a manual reconnect that met a disconnect of the same connection,
\* and an id that was renamed or given again, which takes its flag nowhere.)
FlagsTell ==
    \A d \in Database \ (moved \union crossed) :
       ~Crossing(d) => (d \in flags <=> Forced(row[d]))
=============================================================================
