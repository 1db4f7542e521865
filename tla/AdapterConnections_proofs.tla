---------------------- MODULE AdapterConnections_proofs ----------------------
(***************************************************************************)
(* Theorems of AdapterConnections for any number of databases, instances,  *)
(* heartbeats and disconnect requests, and any bounds.                     *)
(*                                                                         *)
(* One inductive invariant serves each property: Epochs says that the      *)
(* epochs of different databases differ and that a connected knowledge     *)
(* base has one that has not ended, Woken that a waiter was woken or will  *)
(* be, Flagged what a disconnect and a reconnect under way know of the     *)
(* row, Synced that the two tables of memory libraries agree.              *)
(***************************************************************************)
EXTENDS AdapterConnections, TLAPS

\* A rename stays among databases of one kind and never leads to where it starts.
Kinds == move # None /\ move.to # None =>
           /\ move.from # move.to
           /\ move.from \in Renamable
           /\ move.to \in IF move.from \in Memory THEN Memory ELSE Knowledge

-----------------------------------------------------------------------------
\* Types.

\* The first start is well-typed.
LEMMA InitTypes == Init => TypeOK /\ Kinds
BY DatabaseAssumption, BoundAssumption DEF Init, TypeOK, Kinds, Database

\* What the transaction of a registration leaves behind.
Registration(h, i, manual, new) ==
  LET d == beat[h].db
  IN /\ manual => ~beat[h].poll
     /\ MayRegister(row[d], i, manual)
     /\ new.state = "active"
     /\ new.since = IF Continues(row[d], i) THEN row[d].since ELSE clock + 1
     /\ row' = [row EXCEPT ![d] = new]
     /\ mirror' \in [Memory -> OldRow \union {None}]
     /\ \A m \in Memory : IF m = d THEN /\ mirror'[m] # None
                                        /\ mirror'[m].of = d /\ mirror'[m].row = new
                          ELSE mirror'[m] = mirror[m]
     /\ clock' = IF new.since > clock THEN new.since ELSE clock
     /\ gone' = IF row[d] # None /\ row[d].since # new.since
                  THEN gone \union {row[d].since} ELSE gone
     /\ crossed' = IF manual /\ Crossing(d) THEN crossed \union {d} ELSE crossed
     /\ beat' = [beat EXCEPT ![h] = AfterRegister(beat[h], manual)]

\* What a registration does: an instance is chosen, its row is written, the request goes on.
LEMMA Registered ==
  ASSUME TypeOK, NEW h \in Heartbeat, Register(h)
  PROVE  /\ beat[h] # None /\ beat[h] \in Request /\ beat[h].db \in Database
         /\ beat[h].pc = "arrived"
         /\ \E i \in Instance, manual \in BOOLEAN, new \in Row : Registration(h, i, manual, new)
         /\ UNCHANGED <<catalog, flags, admin, move, url, moved, events>>
<1> USE NoneAssumption, DatabaseAssumption, BoundAssumption
<1> DEFINE d == beat[h].db
<1>1. /\ beat[h] # None /\ beat[h] \in Request /\ d \in Database /\ beat[h].pc = "arrived"
      /\ UNCHANGED <<catalog, flags, admin, move, url, moved, events>>
  BY DEF Register, TypeOK, Request
<1>2. ASSUME NEW i \in Instance, NEW manual \in BOOLEAN, NEW since, NEW new,
             since = IF Continues(row[d], i) THEN row[d].since ELSE clock + 1,
             new = [instance |-> i, since |-> since, fresh |-> TRUE, state |-> "active"],
             manual => ~beat[h].poll,
             MayRegister(row[d], i, manual),
             since <= MaxClock,
             row' = [row EXCEPT ![d] = new],
             mirror' \in Mirrored(d, new),
             clock' = IF since > clock THEN since ELSE clock,
             gone' = IF row[d] # None /\ row[d].since # since
                       THEN gone \union {row[d].since} ELSE gone,
             crossed' = IF manual /\ Crossing(d) THEN crossed \union {d} ELSE crossed,
             beat' = [beat EXCEPT ![h] = AfterRegister(beat[h], manual)]
      PROVE  new \in Row /\ Registration(h, i, manual, new)
  <2>1. row[d] # None => row[d] \in Row
    BY <1>1 DEF TypeOK
  <2>2. since \in Instant
    BY <1>2, <2>1 DEF Continues, Connected, Row, Instant, TypeOK
  <2>3. new \in Row /\ new.since = since /\ new.state = "active"
    BY <1>2, <2>2 DEF Row
  <2>4. /\ mirror' \in [Memory -> OldRow \union {None}]
        /\ \A m \in Memory : IF m = d THEN /\ mirror'[m] # None
                                           /\ mirror'[m].of = d /\ mirror'[m].row = new
                             ELSE mirror'[m] = mirror[m]
    <3>1. CASE d \in Knowledge
      BY <1>2, <3>1 DEF Mirrored, TypeOK
    <3>2. CASE d \notin Knowledge
      <4>1. d \in Memory
        BY <1>1, <3>2 DEF Database
      <4>2. PICK n \in Rowids(d) :
              mirror' = [mirror EXCEPT ![d] = [of |-> d, row |-> new, rowid |-> n]]
        BY <1>2, <3>2 DEF Mirrored
      <4>3. n \in 1 .. MaxRowid
        BY <4>1, <4>2 DEF Rowids, TypeOK, OldRow
      <4>4. [of |-> d, row |-> new, rowid |-> n] \in OldRow
        BY <2>3, <4>1, <4>3 DEF OldRow
      <4> QED BY <4>1, <4>2, <4>4 DEF TypeOK
    <3> QED BY <3>1, <3>2
  <2> QED BY <1>2, <2>3, <2>4 DEF Registration
<1>3. \E i \in Instance, manual \in BOOLEAN, new \in Row : Registration(h, i, manual, new)
  <2> DEFINE since(i) == IF Continues(row[d], i) THEN row[d].since ELSE clock + 1
             new(i) == [instance |-> i, since |-> since(i), fresh |-> TRUE, state |-> "active"]
  <2>1. PICK i \in Instance, manual \in BOOLEAN :
          /\ manual => ~beat[h].poll
          /\ MayRegister(row[d], i, manual)
          /\ since(i) <= MaxClock
          /\ row' = [row EXCEPT ![d] = new(i)]
          /\ mirror' \in Mirrored(d, new(i))
          /\ clock' = IF since(i) > clock THEN since(i) ELSE clock
          /\ gone' = IF row[d] # None /\ row[d].since # since(i)
                       THEN gone \union {row[d].since} ELSE gone
          /\ crossed' = IF manual /\ Crossing(d) THEN crossed \union {d} ELSE crossed
          /\ beat' = [beat EXCEPT ![h] = AfterRegister(beat[h], manual)]
    BY DEF Register
  <2>2. new(i) \in Row /\ Registration(h, i, manual, new(i))
    <3> HIDE DEF d
    <3> QED BY <1>2, <2>1
  <2> QED BY <2>2
<1> QED BY <1>1, <1>3

\* Register writes a row, and for a memory library a row of the older table.
LEMMA RegisterTypes ==
  ASSUME TypeOK, Kinds, NEW h \in Heartbeat, Register(h)
  PROVE  TypeOK' /\ Kinds'
<1> USE BoundAssumption
<1>1. PICK i \in Instance, manual \in BOOLEAN, new \in Row : Registration(h, i, manual, new)
  BY Registered
<1>2. /\ beat[h] # None /\ beat[h] \in Request /\ beat[h].db \in Database
      /\ UNCHANGED <<catalog, flags, admin, move, url, moved, events>>
  BY Registered
<1>3. row' \in [Database -> Row \union {None}] /\ mirror' \in [Memory -> OldRow \union {None}]
  BY <1>1 DEF Registration, TypeOK
<1>4. /\ beat' \in [Heartbeat -> Request \union {None}]
      /\ \A g \in Heartbeat : beat'[g] # None =>
           /\ beat'[g].pc \in {"registered", "waiting"} => beat'[g].poll
           /\ beat'[g].pc = "clearing" => ~beat'[g].poll
  <2> DEFINE q == AfterRegister(beat[h], manual)
  <2>1. /\ q \in Request \union {None}
        /\ q # None => /\ q.pc \in {"registered", "waiting"} => q.poll
                       /\ q.pc = "clearing" => ~q.poll
    BY <1>2 DEF AfterRegister, Request
  <2>2. beat' = [beat EXCEPT ![h] = q]
    BY <1>1 DEF Registration
  <2> HIDE DEF q
  <2> QED BY <2>1, <2>2 DEF TypeOK
<1>5. clock' \in 0 .. MaxClock /\ gone' \subseteq Instant /\ crossed' \subseteq Database
  <2>1. row[beat[h].db] # None => row[beat[h].db].since \in Instant
    BY <1>2 DEF TypeOK, Row
  <2>2. new.since \in Instant
    BY DEF Row
  <2> QED BY <1>1, <1>2, <2>1, <2>2 DEF Registration, TypeOK, Instant
<1> QED BY <1>2, <1>3, <1>4, <1>5 DEF TypeOK, Kinds

\* A step of a heartbeat request that does not register.
LEMMA BeatTypes ==
  ASSUME TypeOK, Kinds, NEW h \in Heartbeat,
         \/ Arrive(h) \/ NotFound(h) \/ Refuse(h) \/ Clear(h) \/ Wait(h) \/ Answer(h)
  PROVE  TypeOK' /\ Kinds'
<1> USE NoneAssumption
<1>1. CASE Arrive(h)
  BY <1>1 DEF Arrive, TypeOK, Kinds, Request
<1>2. CASE NotFound(h) \/ Refuse(h) \/ Answer(h)
  BY <1>2 DEF NotFound, Refuse, Answer, TypeOK, Kinds
<1>3. CASE Clear(h)
  BY <1>3 DEF Clear, Unflagged, TypeOK, Kinds
<1>4. CASE Wait(h)
  BY <1>4 DEF Wait, TypeOK, Kinds, Request
<1> QED BY <1>1, <1>2, <1>3, <1>4

\* A row that expires keeps everything but its freshness.
LEMMA ExpireTypes ==
  ASSUME TypeOK, Kinds, NEW since \in Instant, Expire(since)
  PROVE  TypeOK' /\ Kinds'
<1>1. row' \in [Database -> Row \union {None}]
  <2>1. ASSUME NEW r \in Row PROVE [r EXCEPT !.fresh = FALSE] \in Row
    BY DEF Row
  <2> QED BY <2>1 DEF Expire, TypeOK
<1>2. mirror' \in [Memory -> OldRow \union {None}]
  <2>1. ASSUME NEW o \in OldRow PROVE [o EXCEPT !.row.fresh = FALSE] \in OldRow
    BY DEF OldRow, Row
  <2> QED BY <2>1 DEF Expire, TypeOK
<1> QED BY <1>1, <1>2 DEF Expire, TypeOK, Kinds

\* A step of a disconnect request.
LEMMA AdminTypes ==
  ASSUME TypeOK, Kinds, NEW a \in Admin,
         \/ AskDisconnect(a) \/ Cut(a) \/ CutRefused(a) \/ ReadBack(a) \/ Mark(a)
  PROVE  TypeOK' /\ Kinds'
<1> USE NoneAssumption
<1>1. CASE AskDisconnect(a)
  BY <1>1 DEF AskDisconnect, TypeOK, Kinds, Disconnect
<1>2. CASE Cut(a)
  <2> DEFINE d == admin[a].db
  <2>1. d \in Database /\ admin[a] \in Disconnect /\ row[d] \in Row /\ row[d] # None
    BY <1>2 DEF Cut, TypeOK, Disconnect
  <2>2. row' \in [Database -> Row \union {None}]
    BY <1>2, <2>1 DEF Cut, TypeOK, Row
  <2>3. mirror' \in [Memory -> OldRow \union {None}]
    <3>1. ASSUME NEW o \in OldRow PROVE [o EXCEPT !.row.state = "forced"] \in OldRow
      BY DEF OldRow, Row
    <3> QED BY <1>2, <3>1 DEF Cut, MirroredCut, TypeOK
  <2>4. gone' \subseteq Instant /\ crossed' \subseteq Database
    BY <1>2, <2>1 DEF Cut, TypeOK, Row
  <2>5. admin' \in [Admin -> Disconnect \union {None}]
    BY <1>2, <2>1 DEF Cut, TypeOK, Disconnect
  <2> QED BY <1>2, <2>2, <2>3, <2>4, <2>5 DEF Cut, TypeOK, Kinds
<1>3. CASE CutRefused(a)
  BY <1>3 DEF CutRefused, TypeOK, Kinds
<1>4. CASE ReadBack(a)
  <2> DEFINE r == row[admin[a].db]
  <2>1. admin[a] \in Disconnect /\ admin[a].db \in Database
    BY <1>4 DEF ReadBack, TypeOK, Disconnect
  <2>2. ASSUME r # None
        PROVE  [admin[a] EXCEPT !.pc = "read", !.seen = r.state] \in Disconnect
    <3>1. r.state \in {"active", "forced"}
      BY <2>1, <2>2 DEF TypeOK, Row
    <3> QED BY <2>1, <3>1 DEF Disconnect
  <2>3. admin' \in [Admin -> Disconnect \union {None}]
    BY <1>4, <2>2 DEF ReadBack, TypeOK
  <2> QED BY <1>4, <2>3 DEF ReadBack, TypeOK, Kinds
<1>5. CASE Mark(a)
  <2>1. admin[a].db \in Database
    BY <1>5 DEF Mark, TypeOK, Disconnect
  <2>2. /\ beat' \in [Heartbeat -> Request \union {None}]
        /\ \A h \in Heartbeat : beat'[h] # None =>
             /\ beat[h] # None
             /\ beat'[h].pc = beat[h].pc /\ beat'[h].poll = beat[h].poll
    <3>1. ASSUME NEW q \in Request
          PROVE  LET w == [q EXCEPT !.woken = TRUE]
                 IN w \in Request /\ w.pc = q.pc /\ w.poll = q.poll
      BY DEF Request
    <3> QED BY <1>5, <3>1 DEF Mark, Notified, Subscribed, TypeOK
  <2> QED BY <1>5, <2>1, <2>2 DEF Mark, TypeOK, Kinds
<1> QED BY <1>1, <1>2, <1>3, <1>4, <1>5

\* A database changes its id, goes or comes.
LEMMA MoveTypes ==
  ASSUME TypeOK, Kinds,
         \/ \E from \in Database, to \in Database \union {None} : BeginMove(from, to)
         \/ Rename \/ Delete \/ \E d \in Database : Create(d)
  PROVE  TypeOK' /\ Kinds'
<1> USE NoneAssumption, DatabaseAssumption, BoundAssumption DEF Database
<1>1. ASSUME NEW from \in Database, NEW to \in Database \union {None}, BeginMove(from, to)
      PROVE  TypeOK' /\ Kinds'
  BY <1>1 DEF BeginMove, Targets, TypeOK, Kinds, Change
<1>2. CASE Rename
  <2>1. /\ move \in Change /\ move.from \in Database /\ move.to \in Database
        /\ move.to \in IF move.from \in Memory THEN Memory ELSE Knowledge
    BY <1>2 DEF Rename, TypeOK, Kinds, Change
  <2> QED BY <1>2, <2>1 DEF Rename, TypeOK, Kinds
<1>3. CASE Delete
  BY <1>3 DEF Delete, TypeOK, Kinds, Change
<1>4. ASSUME NEW d \in Database, Create(d) PROVE TypeOK' /\ Kinds'
  BY <1>4 DEF Create, TypeOK, Kinds
<1> QED BY <1>1, <1>2, <1>3, <1>4

\* What a start copies over the newer table are rows of the older one.
LEMMA RestartRows ==
  ASSUME TypeOK, Restart
  PROVE  \A d \in Database :
           \/ row'[d] = row[d]
           \/ \E m \in Memory : /\ mirror[m] # None /\ mirror[m] \in OldRow
                                /\ mirror[m].of = d /\ row'[d] = mirror[m].row
<1> SUFFICES ASSUME NEW d \in Database
             PROVE  \/ row'[d] = row[d]
                    \/ \E m \in Memory : /\ mirror[m] # None /\ mirror[m] \in OldRow
                                         /\ mirror[m].of = d /\ row'[d] = mirror[m].row
  OBVIOUS
<1>1. PICK last \in [Database -> Memory \union {None}] :
        /\ \A e \in Database : last[e] \in Last(e)
        /\ row' = [e \in Database |-> IF last[e] = None THEN row[e] ELSE mirror[last[e]].row]
  BY DEF Restart
<1>2. CASE last[d] = None
  BY <1>1, <1>2
<1>3. CASE last[d] # None
  <2>1. last[d] \in Copies(d)
    BY <1>1, <1>3 DEF Last
  <2> QED BY <1>1, <1>3, <2>1 DEF Copies, TypeOK
<1> QED BY <1>2, <1>3

\* Signing and restarting.
LEMMA OtherTypes ==
  ASSUME TypeOK, Kinds,
         Restart \/ \E d \in Knowledge, i \in Instance : SignUrl(d, i)
  PROVE  TypeOK' /\ Kinds'
<1> USE NoneAssumption, BoundAssumption
<1>1. CASE Restart
  <2>1. DOMAIN row' = Database /\ row' = [d \in Database |-> row'[d]]
    BY <1>1 DEF Restart
  <2>2. \A d \in Database : row'[d] \in Row \union {None}
    BY <1>1, RestartRows DEF TypeOK, OldRow
  <2>3. row' \in [Database -> Row \union {None}]
    BY <2>1, <2>2
  <2>4. flags' \subseteq Database
    BY <1>1 DEF Restart, FlagsLoaded
  <2> QED BY <1>1, <2>3, <2>4 DEF Restart, TypeOK, Kinds
<1>2. ASSUME NEW d \in Knowledge, NEW i \in Instance, SignUrl(d, i)
      PROVE  TypeOK' /\ Kinds'
  <2>1. row[d] # None /\ row[d] \in Row
    BY <1>2 DEF SignUrl, Media, InUse, Connected, TypeOK, Database
  <2>2. [db |-> d, instance |-> i, since |-> row[d].since] \in Url
    BY <2>1 DEF Url, Row
  <2> QED BY <1>2, <2>2 DEF SignUrl, TypeOK, Kinds
<1> QED BY <1>1, <1>2

\* Every step keeps the types.
LEMMA TypesStep == TypeOK /\ Kinds /\ [Next]_vars => TypeOK' /\ Kinds'
<1> SUFFICES ASSUME TypeOK, Kinds, [Next]_vars PROVE TypeOK' /\ Kinds'
  OBVIOUS
<1>1. CASE UNCHANGED vars
  BY <1>1 DEF vars, TypeOK, Kinds
<1> QED
  BY <1>1, RegisterTypes, BeatTypes, ExpireTypes, AdminTypes, MoveTypes, OtherTypes DEF Next

\* Every request, restart, rename and deletion leaves rows, flags, requests and URLs
\* well-formed, for any databases and instances.
THEOREM TypeCorrect == Spec => []TypeOK
<1>1. Init => TypeOK /\ Kinds
  BY InitTypes
<1> QED BY <1>1, TypesStep, PTL DEF Spec

-----------------------------------------------------------------------------
\* Epochs.

Epochs ==
  /\ \A d \in Database : row[d] # None => row[d].since <= clock
  /\ \A m \in Memory : mirror[m] # None => mirror[m].row.since <= clock
  /\ \A t \in gone : t <= clock
  /\ \A k \in Knowledge : \A d \in Database \ {k} :
       row[k] # None /\ row[d] # None => row[k].since # row[d].since
  /\ \A k \in Knowledge, m \in Memory :
       row[k] # None /\ mirror[m] # None => row[k].since # mirror[m].row.since
  /\ \A k \in Knowledge : Connected(row[k]) => row[k].since \notin gone

\* A registration continues an epoch that has not ended or begins a new one.
LEMMA RegisterEpochs ==
  ASSUME TypeOK, Epochs, NEW h \in Heartbeat, Register(h)
  PROVE  Epochs'
<1> DEFINE d == beat[h].db
<1>1. PICK i \in Instance, manual \in BOOLEAN, new \in Row : Registration(h, i, manual, new)
  BY Registered
<1>2. d \in Database
  BY Registered
<1>3. /\ row' = [row EXCEPT ![d] = new] /\ new.state = "active"
      /\ \A e \in Database : row'[e] = IF e = d THEN new ELSE row[e]
      /\ new.since \in Nat /\ clock \in Nat /\ gone \subseteq Nat
      /\ \A e \in Database : row[e] # None => row[e].since \in Nat
      /\ \A m \in Memory : mirror[m] # None => mirror[m].row.since \in Nat
  BY <1>1 DEF Registration, TypeOK, Row, OldRow, Instant
<1>4. CASE Continues(row[d], i)
  <2>1. /\ row[d] # None /\ row[d].state = "active" /\ new.since = row[d].since
        /\ clock' = clock /\ gone' = gone
    BY <1>1, <1>2, <1>3, <1>4 DEF Registration, Continues, Connected, Epochs
  <2>2. \A m \in Memory : mirror'[m] # None =>
          \/ mirror[m] # None /\ mirror'[m] = mirror[m]
          \/ m = d /\ mirror'[m].row.since = row[d].since
    BY <1>1, <2>1 DEF Registration
  <2> QED BY <1>2, <1>3, <2>1, <2>2, DatabaseAssumption DEF Epochs, Connected, Database
<1>5. CASE ~Continues(row[d], i)
  <2>1. /\ new.since = clock + 1 /\ clock' = clock + 1
        /\ gone' \subseteq gone \union (IF row[d] = None THEN {} ELSE {row[d].since})
    BY <1>1, <1>3, <1>5 DEF Registration
  <2>2. \A m \in Memory : mirror'[m] # None =>
          \/ mirror[m] # None /\ mirror'[m] = mirror[m]
          \/ m = d /\ mirror'[m].row.since = clock + 1
    BY <1>1, <2>1 DEF Registration
  <2> QED BY <1>2, <1>3, <2>1, <2>2, DatabaseAssumption DEF Epochs, Connected, Database
<1> QED BY <1>4, <1>5

\* Sinces survive an expiry and a cut; a cut ends one epoch.
LEMMA CutEpochs ==
  ASSUME TypeOK, Epochs,
         \/ \E since \in Instant : Expire(since)
         \/ \E a \in Admin : Cut(a)
  PROVE  Epochs'
<1>1. ASSUME NEW since \in Instant, Expire(since) PROVE Epochs'
  <2>1. /\ clock' = clock /\ gone' = gone
        /\ \A d \in Database : row'[d] # None =>
             /\ row[d] # None /\ row'[d].since = row[d].since /\ row'[d].state = row[d].state
    BY <1>1 DEF Expire, TypeOK, Row
  <2>2. \A m \in Memory : mirror'[m] # None =>
             /\ mirror[m] # None /\ mirror'[m].row.since = mirror[m].row.since
    BY <1>1 DEF Expire, TypeOK, OldRow, Row
  <2> QED BY <2>1, <2>2 DEF Epochs, Connected, Database
<1>2. ASSUME NEW a \in Admin, Cut(a) PROVE Epochs'
  <2> DEFINE d == admin[a].db
  <2>1. /\ clock' = clock /\ gone' = gone \union {row[d].since}
        /\ d \in Database /\ row[d] # None
        /\ \A e \in Database : row'[e] # None =>
             /\ row[e] # None /\ row'[e].since = row[e].since
             /\ row'[e].state = IF e = d THEN "forced" ELSE row[e].state
    BY <1>2 DEF Cut, TypeOK, Row, Disconnect
  <2>2. \A m \in Memory : mirror'[m] # None =>
             /\ mirror[m] # None /\ mirror'[m].row.since = mirror[m].row.since
    <3>1. ASSUME NEW o \in OldRow
          PROVE  [o EXCEPT !.row.state = "forced"].row.since = o.row.since
      BY DEF OldRow, Row
    <3>2. CASE d \in Memory /\ mirror[d] # None
      <4>1. mirror[d] \in OldRow /\ mirror \in [Memory -> OldRow \union {None}]
        BY <3>2 DEF TypeOK
      <4>2. mirror' = [mirror EXCEPT ![d] = [mirror[d] EXCEPT !.row.state = "forced"]]
        BY <1>2, <3>2 DEF Cut, MirroredCut
      <4> QED BY <3>1, <3>2, <4>1, <4>2
    <3>3. CASE ~(d \in Memory /\ mirror[d] # None)
      BY <1>2, <3>3 DEF Cut, MirroredCut
    <3> QED BY <3>2, <3>3
  <2> QED BY <2>1, <2>2 DEF Epochs, Connected, Database
<1> QED BY <1>1, <1>2

\* Rows that change their database keep their epoch.
LEMMA MoveEpochs ==
  ASSUME TypeOK, Kinds, Epochs, Rename \/ Restart \/ \E d \in Database : Create(d)
  PROVE  Epochs'
<1> USE DatabaseAssumption
<1>1. CASE Rename
  <2> DEFINE from == move.from
             to == move.to
  <2>1. /\ from \in Database /\ to \in Database /\ from # to
        /\ to \in IF from \in Memory THEN Memory ELSE Knowledge
        /\ clock' = clock /\ gone' = gone
    BY <1>1 DEF Rename, TypeOK, Kinds, Change, Database
  <2>2. /\ row'[from] # None => row'[from] = row[from] /\ row'[to] = row[to]
        /\ row'[to] # None => row'[to] = row[to] \/ (row'[to] = row[from] /\ row'[from] = None)
        /\ \A d \in Database \ {from, to} : row'[d] = row[d]
    BY <1>1, <2>1 DEF Rename, TypeOK
  <2>3. \A m \in Memory : mirror'[m] # None =>
          \E o \in Memory : mirror[o] # None /\ mirror'[m] = mirror[o]
    BY <1>1, <2>1 DEF Rename, TypeOK
  <2>4. \A k \in Knowledge : row'[k] # None =>
          \E j \in Knowledge : row[j] # None /\ row'[k] = row[j]
    BY <2>1, <2>2 DEF Database
  <2>5. \A d \in Database : row'[d] # None =>
          \E e \in Database : row[e] # None /\ row'[d] = row[e]
    BY <2>1, <2>2
  <2>6. \A k \in Knowledge : \A d \in Database \ {k} :
          row'[k] # None /\ row'[d] # None => row'[k].since # row'[d].since
    BY <2>1, <2>2 DEF Epochs, Database
  <2> QED BY <2>1, <2>3, <2>4, <2>5, <2>6 DEF Epochs, Connected
<1>2. CASE Restart
  <2>1. /\ clock' = clock /\ gone' = gone /\ mirror' = mirror
    BY <1>2 DEF Restart
  <2>2. \A k \in Knowledge : row'[k] = row[k]
    BY <1>2, RestartRows DEF OldRow, Database
  <2>3. \A d \in Database : row'[d] # None =>
          \/ row'[d] = row[d]
          \/ \E m \in Memory : mirror[m] # None /\ d \in Memory /\ row'[d].since = mirror[m].row.since
    BY <1>2, RestartRows DEF OldRow
  <2> QED BY <2>1, <2>2, <2>3 DEF Epochs, Connected, Database
<1>3. ASSUME NEW d \in Database, Create(d) PROVE Epochs'
  <2>1. /\ clock' = clock /\ gone' = gone
        /\ \A e \in Database : row'[e] # None => row'[e] = row[e]
        /\ \A m \in Memory : mirror'[m] # None => mirror'[m] = mirror[m]
    BY <1>3 DEF Create, TypeOK
  <2> QED BY <2>1 DEF Epochs, Connected, Database
<1> QED BY <1>1, <1>2, <1>3

\* Every step keeps the epochs in order.
LEMMA EpochsStep == TypeOK /\ Kinds /\ Epochs /\ [Next]_vars => Epochs'
<1> SUFFICES ASSUME TypeOK, Kinds, Epochs, [Next]_vars PROVE Epochs'
  OBVIOUS
<1>1. ASSUME UNCHANGED <<row, mirror, clock, gone>> PROVE Epochs'
  BY <1>1 DEF Epochs
<1>2. ASSUME NEW h \in Heartbeat,
             \/ Arrive(h) \/ NotFound(h) \/ Refuse(h) \/ Clear(h) \/ Wait(h) \/ Answer(h)
      PROVE  Epochs'
  BY <1>1, <1>2 DEF Arrive, NotFound, Refuse, Clear, Wait, Answer
<1>3. ASSUME NEW a \in Admin, AskDisconnect(a) \/ CutRefused(a) \/ ReadBack(a) \/ Mark(a)
      PROVE  Epochs'
  BY <1>1, <1>3 DEF AskDisconnect, CutRefused, ReadBack, Mark
<1>4. ASSUME \/ \E from \in Database, to \in Database \union {None} : BeginMove(from, to)
             \/ Delete \/ \E d \in Knowledge, i \in Instance : SignUrl(d, i)
             \/ UNCHANGED vars
      PROVE  Epochs'
  BY <1>1, <1>4 DEF BeginMove, Delete, SignUrl, vars
<1> QED BY <1>2, <1>3, <1>4, RegisterEpochs, CutEpochs, MoveEpochs DEF Next

\* README.md:186 for any databases, instances and bounds: a URL of a connection that was
\* cut or taken over never opens again.
THEOREM UrlsDie == Spec => []UrlsEnd
<1>1. Init => TypeOK /\ Kinds /\ Epochs
  BY InitTypes DEF Init, Epochs, Connected, Database
<1>2. TypeOK /\ Epochs => UrlsEnd
  BY DEF TypeOK, Epochs, UrlsEnd, Opens, Media, InUse, Url
<1> QED BY <1>1, <1>2, TypesStep, EpochsStep, PTL DEF Spec

-----------------------------------------------------------------------------
\* Waiters.

\* WokenWhenCut, from the registration of a poll on.
Woken ==
  \A h \in Heartbeat :
     beat[h] # None /\ beat[h].pc \in {"registered", "waiting"} /\ Forced(row[beat[h].db])
        /\ beat[h].db \notin moved =>
     beat[h].woken \/ \E a \in Admin : /\ admin[a] # None /\ admin[a].db = beat[h].db
                                       /\ admin[a].pc \in {"cut", "read"}

\* A rename or a new library touches no row but those of the ids it remembers as moved.
LEMMA OtherRows ==
  ASSUME TypeOK, Kinds, Rename \/ \E d \in Database : Create(d)
  PROVE  /\ moved \subseteq moved'
         /\ \A d \in Database \ moved' : row'[d] = row[d]
         /\ UNCHANGED <<flags, beat, admin, crossed>>
<1>1. CASE Rename
  BY <1>1 DEF Rename, TypeOK, Kinds, Change
<1>2. ASSUME NEW d \in Database, Create(d)
      PROVE  /\ moved \subseteq moved'
             /\ \A e \in Database \ moved' : row'[e] = row[e]
             /\ UNCHANGED <<flags, beat, admin, crossed>>
  BY <1>2 DEF Create, TypeOK
<1> QED BY <1>1, <1>2

\* An expiry changes no row's state.
LEMMA ExpiryKeepsState ==
  ASSUME TypeOK, NEW since \in Instant, Expire(since)
  PROVE  /\ \A d \in Database : /\ Forced(row'[d]) <=> Forced(row[d])
                                /\ Connected(row'[d]) <=> Connected(row[d])
         /\ UNCHANGED <<flags, beat, admin, moved, crossed>>
<1>1. ASSUME NEW r \in Row
      PROVE  LET e == [r EXCEPT !.fresh = FALSE] IN e \in Row /\ e.state = r.state
  BY DEF Row
<1>2. ASSUME NEW d \in Database
      PROVE  /\ Forced(row'[d]) <=> Forced(row[d])
             /\ Connected(row'[d]) <=> Connected(row[d])
  <2>1. row[d] \in Row \union {None} /\ None \notin Row
    BY NoneAssumption DEF TypeOK
  <2>2. row'[d] = row[d] \/ (row[d] # None /\ row'[d] = [row[d] EXCEPT !.fresh = FALSE])
    BY DEF Expire
  <2> QED BY <1>1, <2>1, <2>2 DEF Forced, Connected
<1> QED BY <1>2 DEF Expire

\* What the transaction of a disconnect leaves behind.
LEMMA CutRow ==
  ASSUME TypeOK, NEW a \in Admin, Cut(a)
  PROVE  /\ admin[a] # None /\ admin[a] \in Disconnect /\ admin[a].db \in Database
         /\ admin[a].pc = "asked"
         /\ row[admin[a].db] # None
         /\ Forced(row'[admin[a].db])
         /\ \A d \in Database : d # admin[a].db => row'[d] = row[d]
         /\ \A b \in Admin : b # a => admin'[b] = admin[b]
         /\ admin'[a] # None /\ admin'[a].db = admin[a].db /\ admin'[a].pc = "cut"
         /\ UNCHANGED <<catalog, flags, beat, move, url, clock, moved, events>>
<1> DEFINE d == admin[a].db
<1>1. /\ admin[a] # None /\ admin[a] \in Disconnect /\ d \in Database
      /\ admin[a].pc = "asked" /\ row[d] # None /\ row[d] \in Row
      /\ UNCHANGED <<catalog, flags, beat, move, url, clock, moved, events>>
  BY DEF Cut, TypeOK, Disconnect
<1>2. ASSUME NEW r \in Row
      PROVE  LET e == [r EXCEPT !.state = "forced"]
             IN e # None /\ e.state = "forced"
  <2>1. [r EXCEPT !.state = "forced"] \in Row /\ None \notin Row
    BY NoneAssumption DEF Row
  <2> QED BY <2>1 DEF Row
<1>3. row' = [row EXCEPT ![d] = [row[d] EXCEPT !.state = "forced"]]
  BY DEF Cut
<1>4. /\ Forced(row'[d])
      /\ \A e \in Database : e # d => row'[e] = row[e]
  BY <1>1, <1>2, <1>3 DEF Forced, TypeOK
<1>5. admin' = [admin EXCEPT ![a] = [admin[a] EXCEPT !.pc = "cut"]]
  BY DEF Cut
<1>6. LET e == [admin[a] EXCEPT !.pc = "cut"] IN e # None /\ e.db = d /\ e.pc = "cut"
  <2>1. [admin[a] EXCEPT !.pc = "cut"] \in Disconnect /\ None \notin Disconnect
    BY <1>1, NoneAssumption DEF Disconnect
  <2> QED BY <1>1, <2>1 DEF Disconnect
<1> QED BY <1>1, <1>4, <1>5, <1>6 DEF TypeOK

\* What reading the row back leaves behind.
LEMMA ReadRow ==
  ASSUME TypeOK, NEW a \in Admin, ReadBack(a)
  PROVE  LET d == admin[a].db
         IN /\ admin[a] # None /\ d \in Database /\ admin[a].pc = "cut"
            /\ \A b \in Admin : b # a => admin'[b] = admin[b]
            /\ IF row[d] = None THEN admin'[a] = None
               ELSE /\ admin'[a] # None /\ admin'[a].db = d
                    /\ admin'[a].pc = "read" /\ admin'[a].seen = row[d].state
            /\ UNCHANGED <<row, flags, beat, moved, crossed>>
<1> DEFINE d == admin[a].db
           r == row[d]
           e == [admin[a] EXCEPT !.pc = "read", !.seen = r.state]
<1>1. /\ admin[a] # None /\ admin[a] \in Disconnect /\ d \in Database /\ admin[a].pc = "cut"
      /\ UNCHANGED <<row, flags, beat, moved, crossed>>
      /\ admin' = [admin EXCEPT ![a] = IF r = None THEN None ELSE e]
  BY DEF ReadBack, TypeOK, Disconnect
<1>2. ASSUME r # None
      PROVE  e # None /\ e.db = d /\ e.pc = "read" /\ e.seen = r.state
  <2>1. r.state \in {"active", "forced"}
    BY <1>1, <1>2 DEF TypeOK, Row
  <2>2. e \in Disconnect /\ None \notin Disconnect
    BY <1>1, <2>1, NoneAssumption DEF Disconnect
  <2> QED BY <1>1, <2>2 DEF Disconnect
<1> HIDE DEF e
<1> QED BY <1>1, <1>2 DEF TypeOK

\* What marking leaves behind: the polls of the database are woken.
LEMMA Marked ==
  ASSUME TypeOK, NEW a \in Admin, Mark(a)
  PROVE  LET d == admin[a].db
         IN /\ admin[a] # None /\ d \in Database /\ admin[a].pc = "read"
            /\ \A b \in Admin : admin'[b] = IF b = a THEN None ELSE admin[b]
            /\ flags' = IF admin[a].seen = "forced" THEN flags \union {d} ELSE flags \ {d}
            /\ \A h \in Heartbeat :
                 IF beat[h] = None THEN beat'[h] = None
                 ELSE /\ beat'[h] # None /\ beat'[h].db = beat[h].db /\ beat'[h].pc = beat[h].pc
                      /\ beat[h].woken => beat'[h].woken
                      /\ beat[h].poll /\ beat[h].db = d => beat'[h].woken
            /\ UNCHANGED <<row, moved, crossed>>
<1> DEFINE d == admin[a].db
<1>1. ASSUME NEW q \in Request
      PROVE  LET w == [q EXCEPT !.woken = TRUE]
             IN w # None /\ w.pc = q.pc /\ w.db = q.db /\ w.woken
  <2>1. [q EXCEPT !.woken = TRUE] \in Request /\ None \notin Request
    BY NoneAssumption DEF Request
  <2> QED BY <2>1 DEF Request
<1>2. ASSUME NEW h \in Heartbeat
      PROVE  IF beat[h] = None THEN beat'[h] = None
             ELSE /\ beat'[h] # None /\ beat'[h].db = beat[h].db /\ beat'[h].pc = beat[h].pc
                  /\ beat[h].woken => beat'[h].woken
                  /\ beat[h].poll /\ beat[h].db = d => beat'[h].woken
  <2>1. beat'[h] = IF beat[h] # None /\ beat[h].poll /\ beat[h].db = d
                     THEN [beat[h] EXCEPT !.woken = TRUE] ELSE beat[h]
    BY DEF Mark, Notified, Subscribed
  <2> QED BY <1>1, <2>1 DEF TypeOK
<1> QED BY <1>2 DEF Mark, TypeOK, Disconnect

\* What a heartbeat's other steps leave behind.
LEMMA BeatRow ==
  ASSUME TypeOK, NEW h \in Heartbeat,
         \/ Arrive(h) \/ NotFound(h) \/ Refuse(h) \/ Clear(h) \/ Wait(h) \/ Answer(h)
  PROVE  /\ UNCHANGED <<row, admin, moved, crossed>>
         /\ \A g \in Heartbeat : g # h => beat'[g] = beat[g]
         /\ \/ beat'[h] = None
            \/ beat'[h].pc = "arrived"
            \/ /\ beat[h] # None /\ beat[h].pc = "registered"
               /\ beat'[h].pc = "waiting" /\ beat'[h].db = beat[h].db
               /\ beat'[h].woken = beat[h].woken
<1>1. CASE Arrive(h)
  BY <1>1 DEF Arrive, TypeOK
<1>2. CASE NotFound(h) \/ Refuse(h) \/ Clear(h) \/ Answer(h)
  BY <1>2 DEF NotFound, Refuse, Clear, Answer, TypeOK
<1>3. CASE Wait(h)
  <2>1. /\ beat[h] # None /\ beat[h].pc = "registered" /\ beat[h] \in Request
        /\ beat' = [beat EXCEPT ![h] = [beat[h] EXCEPT !.pc = "waiting"]]
        /\ UNCHANGED <<row, admin, moved, crossed>>
    BY <1>3 DEF Wait, TypeOK
  <2>2. LET w == [beat[h] EXCEPT !.pc = "waiting"]
        IN w.pc = "waiting" /\ w.db = beat[h].db /\ w.woken = beat[h].woken
    BY <2>1 DEF Request
  <2> QED BY <2>1, <2>2 DEF TypeOK
<1> QED BY <1>1, <1>2, <1>3

\* What a registration leaves of its own request and of the others.
LEMMA RegisterRow ==
  ASSUME TypeOK, NEW h \in Heartbeat, Register(h)
  PROVE  LET d == beat[h].db
         IN /\ beat[h] # None /\ d \in Database /\ beat[h].pc = "arrived"
            /\ row' \in [Database -> Row \union {None}]
            /\ Connected(row'[d])
            /\ \A e \in Database : e # d => row'[e] = row[e]
            /\ \A g \in Heartbeat : g # h => beat'[g] = beat[g]
            /\ beat'[h] # None => beat'[h].db = d /\ beat'[h].pc \in {"registered", "clearing"}
            /\ \/ /\ beat'[h] # None /\ beat'[h].pc = "clearing"
                  /\ crossed' = IF Crossing(d) THEN crossed \union {d} ELSE crossed
               \/ /\ beat'[h] = None \/ beat'[h].pc = "registered"
                  /\ ~Forced(row[d])
                  /\ crossed' = crossed
            /\ UNCHANGED <<flags, admin, moved>>
<1> DEFINE d == beat[h].db
<1>1. PICK i \in Instance, manual \in BOOLEAN, new \in Row : Registration(h, i, manual, new)
  BY Registered
<1>2. /\ beat[h] # None /\ beat[h] \in Request /\ d \in Database
      /\ beat[h].pc = "arrived" /\ UNCHANGED <<flags, admin, moved>>
  BY Registered
<1>3. row' = [row EXCEPT ![d] = new] /\ Connected(new)
  BY <1>1, NoneAssumption DEF Registration, Connected
<1>4. /\ row' \in [Database -> Row \union {None}]
      /\ Connected(row'[d]) /\ \A e \in Database : e # d => row'[e] = row[e]
  BY <1>2, <1>3 DEF TypeOK
<1>5. beat'[h] = AfterRegister(beat[h], manual) /\ \A g \in Heartbeat : g # h => beat'[g] = beat[g]
  BY <1>1 DEF Registration, TypeOK
<1>6. /\ beat'[h] # None => beat'[h].db = d /\ beat'[h].pc \in {"registered", "clearing"}
      /\ IF manual THEN beat'[h] # None /\ beat'[h].pc = "clearing"
         ELSE beat'[h] = None \/ beat'[h].pc = "registered"
  <2>1. ASSUME NEW p \in {"registered", "clearing"}
        PROVE  LET w == [beat[h] EXCEPT !.pc = p] IN w # None /\ w.pc = p /\ w.db = d
    <3>1. [beat[h] EXCEPT !.pc = p] \in Request /\ None \notin Request
      BY <1>2, NoneAssumption DEF Request
    <3> QED BY <1>2, <3>1 DEF Request
  <2>2. manual => ~beat[h].poll
    BY <1>1 DEF Registration
  <2> QED BY <1>5, <2>1, <2>2 DEF AfterRegister
<1>7. (~manual => ~Forced(row[d]))
      /\ crossed' = IF manual /\ Crossing(d) THEN crossed \union {d} ELSE crossed
  BY <1>1 DEF Registration, MayRegister
<1> QED BY <1>2, <1>4, <1>5, <1>6, <1>7

\* Every step leaves whoever polls a cut connection woken, or about to be.
LEMMA WokenStep == TypeOK /\ Kinds /\ Woken /\ [Next]_vars => Woken'
<1> SUFFICES ASSUME TypeOK, Kinds, Woken, [Next]_vars PROVE Woken'
  OBVIOUS
<1>1. ASSUME NEW h \in Heartbeat, Register(h) PROVE Woken'
  <2>1. Connected(row'[beat[h].db]) /\ beat[h].db \in Database
    BY <1>1, RegisterRow
  <2>2. ~Forced(row'[beat[h].db])
    BY <2>1 DEF Connected, Forced
  <2> QED BY <1>1, <2>1, <2>2, RegisterRow DEF Woken, TypeOK, Request
<1>2. ASSUME NEW h \in Heartbeat,
             \/ Arrive(h) \/ NotFound(h) \/ Refuse(h) \/ Clear(h) \/ Wait(h) \/ Answer(h)
      PROVE  Woken'
  BY <1>2, BeatRow DEF Woken
<1>3. ASSUME NEW since \in Instant, Expire(since) PROVE Woken'
  BY <1>3, ExpiryKeepsState DEF Woken, TypeOK, Request
<1>4. ASSUME NEW a \in Admin, Cut(a) PROVE Woken'
  BY <1>4, CutRow DEF Woken, TypeOK, Request
<1>5. ASSUME NEW a \in Admin, AskDisconnect(a) \/ CutRefused(a) PROVE Woken'
  <2>1. /\ UNCHANGED <<row, beat, moved>>
        /\ \A b \in Admin : admin[b] # None /\ admin[b].pc \in {"cut", "read"} =>
             admin'[b] = admin[b]
    BY <1>5 DEF AskDisconnect, CutRefused, TypeOK
  <2> QED BY <2>1 DEF Woken
<1>6. ASSUME NEW a \in Admin, ReadBack(a) PROVE Woken'
  BY <1>6, ReadRow DEF Woken, Forced
<1>7. ASSUME NEW a \in Admin, Mark(a) PROVE Woken'
  BY <1>7, Marked DEF Woken, TypeOK
<1>8. CASE Rename \/ \E d \in Database : Create(d)
  BY <1>8, OtherRows DEF Woken, TypeOK, Request
<1>9. CASE Restart
  BY <1>9 DEF Restart, Woken
<1>10. CASE \/ \E from \in Database, to \in Database \union {None} : BeginMove(from, to)
            \/ Delete \/ \E d \in Knowledge, i \in Instance : SignUrl(d, i)
            \/ UNCHANGED vars
  <2>1. UNCHANGED <<row, beat, admin, moved>>
    BY <1>10 DEF BeginMove, Delete, SignUrl, vars
  <2> QED BY <2>1 DEF Woken
<1> QED
  BY <1>1, <1>2, <1>3, <1>4, <1>5, <1>6, <1>7, <1>8, <1>9, <1>10 DEF Next

\* No disconnect falls between the registration of a poll and its wait unnoticed, for any
\* number of polls and of administrators.
THEOREM CutsWake == Spec => []WokenWhenCut
<1>1. Init => TypeOK /\ Kinds /\ Woken
  BY InitTypes DEF Init, Woken
<1>2. Woken => WokenWhenCut
  BY DEF Woken, WokenWhenCut
<1> QED BY <1>1, <1>2, TypesStep, WokenStep, PTL DEF Spec

-----------------------------------------------------------------------------
\* Flags.

\* A disconnect or a manual reconnect of d that has committed and not yet flagged.
Cutting(a, d) == admin[a] # None /\ admin[a].db = d /\ admin[a].pc \in {"cut", "read"}
Clearing(h, d) == beat[h] # None /\ beat[h].db = d /\ beat[h].pc = "clearing"

Flagged ==
  \A d \in Database \ (moved \union crossed) :
     /\ \A a \in Admin : Cutting(a, d) =>
          Forced(row[d]) /\ (admin[a].pc = "read" => admin[a].seen = "forced")
     /\ \A h \in Heartbeat : Clearing(h, d) => Connected(row[d])
     /\ ~Crossing(d) => (d \in flags <=> Forced(row[d]))

\* Crossing is one or the other.
LEMMA CrossingIs ==
  \A d \in Database : Crossing(d) <=> \/ \E a \in Admin : Cutting(a, d)
                                      \/ \E h \in Heartbeat : Clearing(h, d)
BY DEF Crossing, Cutting, Clearing

\* The same of the state after the step, in the terms of its variables.
LEMMA CrossingIsNext ==
  ASSUME TypeOK, TypeOK'
  PROVE  \A d \in Database : Crossing(d)' <=> \/ \E a \in Admin : Cutting(a, d)'
                                              \/ \E h \in Heartbeat : Clearing(h, d)'
BY DEF Crossing, Cutting, Clearing

\* A registration of a connection nobody is cutting or has cut.
LEMMA RegisterFlagged ==
  ASSUME TypeOK, TypeOK', Flagged, NEW h \in Heartbeat, Register(h)
  PROVE  Flagged'
<1>0. PICK c \in Database : c = beat[h].db
  BY RegisterRow
<1>1. /\ beat[h] # None /\ c = beat[h].db /\ beat[h].pc = "arrived"
      /\ Connected(row'[c]) /\ ~Forced(row'[c])
      /\ \A e \in Database : e # c => row'[e] = row[e]
      /\ \A g \in Heartbeat : g # h => beat'[g] = beat[g]
      /\ beat'[h] # None => beat'[h].db = c /\ beat'[h].pc \in {"registered", "clearing"}
      /\ \/ /\ beat'[h] # None /\ beat'[h].pc = "clearing"
            /\ crossed' = IF Crossing(c) THEN crossed \union {c} ELSE crossed
         \/ /\ beat'[h] = None \/ beat'[h].pc = "registered"
            /\ ~Forced(row[c])
            /\ crossed' = crossed
      /\ UNCHANGED <<flags, admin, moved>>
  BY <1>0, RegisterRow DEF Connected, Forced
<1>2. \A a \in Admin, d \in Database : Cutting(a, d)' <=> Cutting(a, d)
  BY <1>1 DEF Cutting
<1>3. \A d \in Database \ {c} : \A g \in Heartbeat : Clearing(g, d)' <=> Clearing(g, d)
  BY <1>1 DEF Clearing
<1>4. \A g \in Heartbeat \ {h} : Clearing(g, c)' <=> Clearing(g, c)
  BY <1>1 DEF Clearing
<1>5. ~Clearing(h, c)
  BY <1>1 DEF Clearing
<1>6. crossed \subseteq crossed'
  BY <1>1
<1>7. ASSUME NEW d \in Database \ (moved' \union crossed'), d # c
      PROVE  /\ \A a \in Admin : Cutting(a, d)' =>
                  Forced(row'[d]) /\ (admin'[a].pc = "read" => admin'[a].seen = "forced")
             /\ \A g \in Heartbeat : Clearing(g, d)' => Connected(row'[d])
             /\ ~Crossing(d)' => (d \in flags' <=> Forced(row'[d]))
  <2>1. d \in Database \ (moved \union crossed) /\ row'[d] = row[d]
    BY <1>1, <1>6, <1>7
  <2>2. Crossing(d)' <=> Crossing(d)
    BY <1>2, <1>3, <1>7, CrossingIs, CrossingIsNext
  <2> QED BY <1>1, <1>2, <1>3, <1>7, <2>1, <2>2 DEF Flagged
<1>8. ASSUME c \notin moved' \union crossed'
      PROVE  /\ \A a \in Admin : ~Cutting(a, c)'
             /\ ~Crossing(c)' => (c \in flags' <=> Forced(row'[c]))
  <2>1. c \in Database \ (moved \union crossed)
    BY <1>1, <1>6, <1>8
  <2>2. CASE beat'[h] # None /\ beat'[h].pc = "clearing"
    <3>1. ~Crossing(c)
      BY <1>1, <1>8, <2>2
    <3>2. Crossing(c)'
      BY <1>1, <2>2, CrossingIsNext DEF Clearing
    <3> QED BY <1>1, <1>2, <3>1, <3>2, CrossingIs
  <2>3. CASE beat'[h] = None \/ beat'[h].pc = "registered"
    <3>1. ~Forced(row[c])
      BY <1>1, <2>3
    <3>2. \A a \in Admin : ~Cutting(a, c)
      BY <2>1, <3>1 DEF Flagged
    <3>3. ~Clearing(h, c)'
      BY <2>3 DEF Clearing
    <3>4. Crossing(c)' <=> Crossing(c)
      BY <1>1, <1>2, <1>4, <1>5, <3>3, CrossingIs, CrossingIsNext
    <3> QED BY <1>1, <1>2, <2>1, <3>1, <3>2, <3>4 DEF Flagged
  <2> QED BY <1>1, <2>2, <2>3
<1> QED BY <1>1, <1>7, <1>8 DEF Flagged

\* A cut of a connection nobody is bringing back.
LEMMA CutFlagged ==
  ASSUME TypeOK, TypeOK', Flagged, NEW a \in Admin, Cut(a)
  PROVE  Flagged'
<1>0. PICK c \in Database : c = admin[a].db
  BY CutRow
<1>1. /\ admin[a] # None /\ c = admin[a].db /\ admin[a].pc = "asked"
      /\ Forced(row'[c])
      /\ \A d \in Database : d # c => row'[d] = row[d]
      /\ \A b \in Admin : b # a => admin'[b] = admin[b]
      /\ admin'[a] # None /\ admin'[a].db = c /\ admin'[a].pc = "cut"
      /\ UNCHANGED <<flags, beat, moved>>
      /\ crossed' = IF \E h \in Heartbeat : Clearing(h, c) THEN crossed \union {c} ELSE crossed
  BY <1>0, CutRow DEF Cut, Clearing
<1>2. \A h \in Heartbeat, d \in Database : Clearing(h, d)' <=> Clearing(h, d)
  BY <1>1 DEF Clearing
<1>3. \A b \in Admin, d \in Database : b # a \/ d # c => (Cutting(b, d)' <=> Cutting(b, d))
  BY <1>1 DEF Cutting
<1>4. Cutting(a, c)' /\ ~Cutting(a, c)
  BY <1>1 DEF Cutting
<1>5. ASSUME NEW d \in Database \ (moved' \union crossed')
      PROVE  /\ \A b \in Admin : Cutting(b, d)' =>
                  Forced(row'[d]) /\ (admin'[b].pc = "read" => admin'[b].seen = "forced")
             /\ \A h \in Heartbeat : Clearing(h, d)' => Connected(row'[d])
             /\ ~Crossing(d)' => (d \in flags' <=> Forced(row'[d]))
  <2>1. d \in Database \ (moved \union crossed)
    BY <1>1, <1>5
  <2>2. CASE d # c
    <3>1. Crossing(d)' <=> Crossing(d)
      BY <1>2, <1>3, <2>2, CrossingIs, CrossingIsNext
    <3>2. \A b \in Admin : Cutting(b, d)' => b # a
      BY <1>1, <2>2 DEF Cutting
    <3> QED BY <1>1, <1>2, <1>3, <2>1, <2>2, <3>1, <3>2 DEF Flagged
  <2>3. CASE d = c
    <3>1. \A h \in Heartbeat : ~Clearing(h, c)
      BY <1>1, <1>5, <2>3
    <3>2. Crossing(c)'
      BY <1>1, <1>4, CrossingIsNext
    <3>3. \A b \in Admin : Cutting(b, c)' => (admin'[b].pc = "read" => admin'[b].seen = "forced")
      BY <1>1, <1>3, <2>1, <2>3 DEF Flagged
    <3> QED BY <1>1, <1>2, <2>3, <3>1, <3>2, <3>3
  <2> QED BY <2>2, <2>3
<1> QED BY <1>5 DEF Flagged

\* Reading the row back finds the connection cut; marking flags it.
LEMMA MarkFlagged ==
  ASSUME TypeOK, TypeOK', Flagged, NEW a \in Admin, ReadBack(a) \/ Mark(a)
  PROVE  Flagged'
<1>0. PICK c \in Database : c = admin[a].db
  BY ReadRow, Marked
<1>1. CASE ReadBack(a)
  <2>1. /\ admin[a] # None /\ c = admin[a].db /\ admin[a].pc = "cut"
        /\ \A b \in Admin : b # a => admin'[b] = admin[b]
        /\ IF row[c] = None THEN admin'[a] = None
           ELSE /\ admin'[a] # None /\ admin'[a].db = c
                /\ admin'[a].pc = "read" /\ admin'[a].seen = row[c].state
        /\ UNCHANGED <<row, flags, beat, moved, crossed>>
    BY <1>0, <1>1, ReadRow
  <2>2. \A h \in Heartbeat, d \in Database : Clearing(h, d)' <=> Clearing(h, d)
    BY <2>1 DEF Clearing
  <2>3. \A b \in Admin, d \in Database : b # a \/ d # c => (Cutting(b, d)' <=> Cutting(b, d))
    BY <2>1 DEF Cutting
  <2>4. Cutting(a, c)
    BY <2>1 DEF Cutting
  <2>5. ASSUME NEW d \in Database \ (moved \union crossed)
        PROVE  /\ \A b \in Admin : Cutting(b, d)' =>
                    Forced(row'[d]) /\ (admin'[b].pc = "read" => admin'[b].seen = "forced")
               /\ \A h \in Heartbeat : Clearing(h, d)' => Connected(row'[d])
               /\ ~Crossing(d)' => (d \in flags' <=> Forced(row'[d]))
    <3>1. CASE d # c
      <4>1. Crossing(d)' <=> Crossing(d)
        BY <2>2, <2>3, <3>1, CrossingIs, CrossingIsNext
      <4>2. ~Cutting(a, d)'
        BY <2>1, <3>1 DEF Cutting
      <4> QED BY <2>1, <2>2, <2>3, <2>5, <3>1, <4>1, <4>2 DEF Flagged
    <3>2. CASE d = c
      <4>1. Forced(row[c])
        BY <2>4, <2>5, <3>2 DEF Flagged
      <4>2. Cutting(a, c)' /\ admin'[a].seen = "forced"
        BY <2>1, <4>1 DEF Cutting, Forced
      <4>3. Crossing(c)'
        BY <2>1, <4>2, CrossingIsNext
      <4> QED BY <2>1, <2>2, <2>3, <2>5, <3>2, <4>1, <4>2, <4>3 DEF Flagged
    <3> QED BY <3>1, <3>2
  <2> QED BY <2>1, <2>5 DEF Flagged
<1>2. CASE Mark(a)
  <2>1. /\ admin[a] # None /\ c = admin[a].db /\ admin[a].pc = "read"
        /\ \A b \in Admin : admin'[b] = IF b = a THEN None ELSE admin[b]
        /\ flags' = IF admin[a].seen = "forced" THEN flags \union {c} ELSE flags \ {c}
        /\ \A h \in Heartbeat :
             IF beat[h] = None THEN beat'[h] = None
             ELSE beat'[h] # None /\ beat'[h].db = beat[h].db /\ beat'[h].pc = beat[h].pc
        /\ UNCHANGED <<row, moved, crossed>>
    BY <1>0, <1>2, Marked
  <2>2. \A h \in Heartbeat, d \in Database : Clearing(h, d)' <=> Clearing(h, d)
    BY <2>1 DEF Clearing
  <2>3. \A b \in Admin, d \in Database : b # a \/ d # c => (Cutting(b, d)' <=> Cutting(b, d))
    BY <2>1 DEF Cutting
  <2>4. Cutting(a, c) /\ \A d \in Database : ~Cutting(a, d)'
    BY <2>1 DEF Cutting
  <2>5. ASSUME NEW d \in Database \ (moved \union crossed)
        PROVE  /\ \A b \in Admin : Cutting(b, d)' =>
                    Forced(row'[d]) /\ (admin'[b].pc = "read" => admin'[b].seen = "forced")
               /\ \A h \in Heartbeat : Clearing(h, d)' => Connected(row'[d])
               /\ ~Crossing(d)' => (d \in flags' <=> Forced(row'[d]))
    <3>1. \A b \in Admin : Cutting(b, d)' => Cutting(b, d) /\ admin'[b] = admin[b]
      BY <2>1, <2>3, <2>4
    <3>2. CASE d # c
      <4>1. Crossing(d)' <=> Crossing(d)
        BY <2>2, <2>3, <3>2, CrossingIs, CrossingIsNext
      <4> QED BY <2>1, <2>2, <2>5, <3>1, <3>2, <4>1 DEF Flagged
    <3>3. CASE d = c
      <4>1. Forced(row[c]) /\ admin[a].seen = "forced"
        BY <2>1, <2>4, <2>5, <3>3 DEF Flagged
      <4> QED BY <2>1, <2>2, <2>5, <3>1, <3>3, <4>1 DEF Flagged
    <3> QED BY <3>2, <3>3
  <2> QED BY <2>1, <2>5 DEF Flagged
<1> QED BY <1>1, <1>2

\* A manual reconnect takes the flag of a connected row away; the other steps of a
\* heartbeat touch no flag.
LEMMA BeatFlagged ==
  ASSUME TypeOK, TypeOK', Flagged, NEW h \in Heartbeat,
         \/ Arrive(h) \/ NotFound(h) \/ Refuse(h) \/ Clear(h) \/ Wait(h) \/ Answer(h)
  PROVE  Flagged'
<1> DEFINE c == beat[h].db
<1>1. /\ UNCHANGED <<row, admin, moved, crossed>>
      /\ \A g \in Heartbeat : g # h => beat'[g] = beat[g]
      /\ \A d \in Database : ~Clearing(h, d)'
  BY BeatRow DEF Clearing
<1>2. \A a \in Admin, d \in Database : Cutting(a, d)' <=> Cutting(a, d)
  BY <1>1 DEF Cutting
<1>3. \A g \in Heartbeat \ {h} : \A d \in Database : Clearing(g, d)' <=> Clearing(g, d)
  BY <1>1 DEF Clearing
<1>4. CASE Clear(h)
  <2>1. c \in Database /\ Clearing(h, c) /\ flags' = flags \ {c}
    BY <1>4 DEF Clear, Unflagged, Clearing, TypeOK, Request
  <2>2. ASSUME NEW d \in Database, d # c PROVE Crossing(d)' <=> Crossing(d)
    <3>1. ~Clearing(h, d)
      BY <2>2 DEF Clearing
    <3> QED BY <1>1, <1>2, <1>3, <2>2, <3>1, CrossingIs, CrossingIsNext
  <2>3. c \notin moved \union crossed => ~Forced(row[c])
    BY <2>1 DEF Flagged, Connected, Forced
  <2> QED BY <1>1, <1>2, <1>3, <2>1, <2>2, <2>3 DEF Flagged
<1>5. CASE ~Clear(h)
  <2>1. flags' = flags /\ \A d \in Database : ~Clearing(h, d)
    BY <1>5 DEF Arrive, NotFound, Refuse, Wait, Answer, Clearing
  <2>2. \A d \in Database : Crossing(d)' <=> Crossing(d)
    BY <1>1, <1>2, <1>3, <2>1, CrossingIs, CrossingIsNext
  <2> QED BY <1>1, <1>2, <1>3, <2>1, <2>2 DEF Flagged
<1> QED BY <1>4, <1>5

\* Every step keeps a cut flagged until the instance has been told.
LEMMA FlaggedStep == TypeOK /\ Kinds /\ Flagged /\ [Next]_vars => Flagged'
<1> SUFFICES ASSUME TypeOK, Kinds, Flagged, [Next]_vars PROVE Flagged'
  OBVIOUS
<1>0. TypeOK'
  BY TypesStep
<1>1. ASSUME /\ UNCHANGED <<flags, beat, admin, crossed>> /\ moved \subseteq moved'
             /\ \A d \in Database \ moved' : /\ Forced(row'[d]) <=> Forced(row[d])
                                             /\ Connected(row'[d]) <=> Connected(row[d])
      PROVE  Flagged'
  <2>1. \A d \in Database : /\ \A a \in Admin : Cutting(a, d)' <=> Cutting(a, d)
                            /\ \A h \in Heartbeat : Clearing(h, d)' <=> Clearing(h, d)
    BY <1>1 DEF Cutting, Clearing
  <2>2. \A d \in Database : Crossing(d)' <=> Crossing(d)
    BY <1>0, <2>1, CrossingIs, CrossingIsNext
  <2> QED BY <1>1, <2>1, <2>2 DEF Flagged
<1>2. ASSUME NEW since \in Instant, Expire(since) PROVE Flagged'
  BY <1>1, <1>2, ExpiryKeepsState
<1>3. CASE Rename \/ \E d \in Database : Create(d)
  BY <1>1, <1>3, OtherRows
<1>4. CASE \/ \E from \in Database, to \in Database \union {None} : BeginMove(from, to)
           \/ Delete \/ \E d \in Knowledge, i \in Instance : SignUrl(d, i)
           \/ UNCHANGED vars
  <2>1. UNCHANGED <<row, flags, beat, admin, moved, crossed>>
    BY <1>4 DEF BeginMove, Delete, SignUrl, vars
  <2> QED BY <1>1, <2>1
<1>5. ASSUME NEW a \in Admin, AskDisconnect(a) \/ CutRefused(a) PROVE Flagged'
  <2>1. /\ UNCHANGED <<row, flags, beat, moved, crossed>>
        /\ \A b \in Admin, d \in Database :
             /\ Cutting(b, d)' <=> Cutting(b, d)
             /\ Cutting(b, d)' => admin'[b] = admin[b]
    BY <1>5 DEF AskDisconnect, CutRefused, TypeOK, Cutting
  <2>2. \A h \in Heartbeat, d \in Database : Clearing(h, d)' <=> Clearing(h, d)
    BY <2>1 DEF Clearing
  <2>3. \A d \in Database : Crossing(d)' <=> Crossing(d)
    BY <1>0, <2>1, <2>2, CrossingIs, CrossingIsNext
  <2> QED BY <2>1, <2>2, <2>3 DEF Flagged
<1>6. CASE Restart
  <2>1. /\ \A h \in Heartbeat : beat'[h] = None
        /\ \A a \in Admin : admin'[a] = None
        /\ \A d \in Database : d \in flags' <=> Forced(row'[d])
    BY <1>6 DEF Restart, FlagsLoaded
  <2> QED BY <2>1 DEF Flagged, Cutting, Clearing
<1> QED
  BY <1>0, <1>2, <1>3, <1>4, <1>5, <1>6, RegisterFlagged, BeatFlagged, CutFlagged,
     MarkFlagged DEF Next

\* Flags and rows agree between requests, also behind a start, for any number of requests.
THEOREM FlagsAgree == Spec => []FlagsTell
<1>1. Init => TypeOK /\ Kinds /\ Flagged
  BY InitTypes DEF Init, Flagged, Cutting, Clearing, Forced
<1>2. Flagged => FlagsTell
  BY DEF Flagged, FlagsTell
<1> QED BY <1>1, <1>2, TypesStep, FlaggedStep, PTL DEF Spec

-----------------------------------------------------------------------------
\* Cuts.

\* The older table has the rows of memory libraries under their own ids.
Synced ==
  \A m \in Memory : /\ mirror[m] # None <=> row[m] # None
                    /\ mirror[m] # None => mirror[m].of = m /\ mirror[m].row = row[m]

\* A start copies the rows of the older table over their equals.
LEMMA RestartCopies ==
  ASSUME TypeOK, Synced, Restart
  PROVE  /\ row' = row /\ mirror' = mirror
<1>1. \A d \in Database : row'[d] = row[d]
  BY RestartRows DEF Synced
<1> QED BY <1>1 DEF Restart, TypeOK

\* Without renames of memory libraries the two tables stay alike.
LEMMA SyncedStep ==
  Renamable \cap Memory = {} /\ TypeOK /\ Kinds /\ Synced /\ [Next]_vars => Synced'
<1> SUFFICES ASSUME Renamable \cap Memory = {}, TypeOK, Kinds, Synced, [Next]_vars
             PROVE  Synced'
  OBVIOUS
<1>1. ASSUME UNCHANGED <<row, mirror>> PROVE Synced'
  BY <1>1 DEF Synced
<1>2. ASSUME NEW h \in Heartbeat, Register(h) PROVE Synced'
  <2>1. PICK d \in Database : d = beat[h].db
    BY <1>2, Registered
  <2>2. PICK i \in Instance, manual \in BOOLEAN, new \in Row : Registration(h, i, manual, new)
    BY <1>2, Registered
  <2>3. /\ row' = [row EXCEPT ![d] = new] /\ new # None
        /\ \A m \in Memory : IF m = d THEN /\ mirror'[m] # None
                                           /\ mirror'[m].of = d /\ mirror'[m].row = new
                             ELSE mirror'[m] = mirror[m]
    BY <2>1, <2>2, NoneAssumption DEF Registration
  <2> QED BY <2>3 DEF Synced, TypeOK, Database
<1>3. ASSUME NEW since \in Instant, Expire(since) PROVE Synced'
  <2> SUFFICES ASSUME NEW m \in Memory
               PROVE  /\ mirror'[m] # None <=> row'[m] # None
                      /\ mirror'[m] # None => mirror'[m].of = m /\ mirror'[m].row = row'[m]
    BY DEF Synced
  <2>1. /\ mirror'[m] = IF mirror[m] # None /\ mirror[m].row.since = since
                          THEN [mirror[m] EXCEPT !.row.fresh = FALSE] ELSE mirror[m]
        /\ row'[m] = IF row[m] # None /\ row[m].since = since
                       THEN [row[m] EXCEPT !.fresh = FALSE] ELSE row[m]
    BY <1>3 DEF Expire, Database
  <2>2. ASSUME mirror[m] # None
        PROVE  LET o == [mirror[m] EXCEPT !.row.fresh = FALSE]
               IN /\ o # None /\ o.of = m /\ o.row = [row[m] EXCEPT !.fresh = FALSE]
                  /\ [row[m] EXCEPT !.fresh = FALSE] # None
    <3>1. mirror[m] \in OldRow /\ mirror[m].of = m /\ mirror[m].row = row[m]
      BY <2>2 DEF Synced, TypeOK
    <3>2. [mirror[m] EXCEPT !.row.fresh = FALSE] \in OldRow
      BY <3>1 DEF OldRow, Row
    <3>3. [row[m] EXCEPT !.fresh = FALSE] \in Row
      BY <3>1 DEF OldRow, Row
    <3> QED BY <3>1, <3>2, <3>3, NoneAssumption DEF OldRow
  <2> QED BY <2>1, <2>2 DEF Synced
<1>4. ASSUME NEW a \in Admin, Cut(a) PROVE Synced'
  <2>1. PICK d \in Database : d = admin[a].db /\ row[d] # None
    BY <1>4, CutRow
  <2>2. row' = [row EXCEPT ![d] = [row[d] EXCEPT !.state = "forced"]]
    BY <1>4, <2>1 DEF Cut
  <2>3. CASE d \in Memory
    <3>1. mirror[d] # None /\ mirror[d] \in OldRow /\ mirror[d].of = d /\ mirror[d].row = row[d]
      BY <2>1, <2>3 DEF Synced, TypeOK
    <3>2. mirror' = [mirror EXCEPT ![d] = [mirror[d] EXCEPT !.row.state = "forced"]]
      BY <1>4, <2>1, <2>3, <3>1 DEF Cut, MirroredCut
    <3>3. LET o == [mirror[d] EXCEPT !.row.state = "forced"]
          IN /\ o # None /\ o.of = d /\ o.row = [row[d] EXCEPT !.state = "forced"]
             /\ [row[d] EXCEPT !.state = "forced"] # None
      <4>1. [mirror[d] EXCEPT !.row.state = "forced"] \in OldRow
        BY <3>1 DEF OldRow, Row
      <4>2. [row[d] EXCEPT !.state = "forced"] \in Row
        BY <3>1 DEF OldRow, Row
      <4> QED BY <3>1, <4>1, <4>2, NoneAssumption DEF OldRow
    <3> QED BY <2>1, <2>2, <2>3, <3>2, <3>3 DEF Synced, TypeOK
  <2>4. CASE d \notin Memory
    BY <1>4, <2>1, <2>2, <2>4 DEF Cut, MirroredCut, Synced, TypeOK
  <2> QED BY <2>3, <2>4
<1>5. CASE Rename
  <2>1. /\ move.from \in Knowledge /\ move.to \in Knowledge
        /\ move.from \in Database /\ move.to \in Database
    BY <1>5, DatabaseAssumption DEF Rename, TypeOK, Kinds, Change, Database
  <2>2. mirror' = mirror /\ \A m \in Memory : row'[m] = row[m]
    BY <1>5, <2>1, DatabaseAssumption DEF Rename, TypeOK, Database
  <2> QED BY <2>2 DEF Synced
<1>6. ASSUME NEW d \in Database, Create(d) PROVE Synced'
  <2>1. CASE catalog[d] = "deleted"
    <3>1. row' = [row EXCEPT ![d] = None] /\ mirror' = [mirror EXCEPT ![d] = None]
      BY <1>6, <2>1 DEF Create
    <3> QED BY <3>1 DEF Synced, TypeOK, Database
  <2>2. CASE catalog[d] # "deleted"
    BY <1>1, <1>6, <2>2 DEF Create
  <2> QED BY <2>1, <2>2
<1>7. CASE Restart
  BY <1>1, <1>7, RestartCopies
<1>8. ASSUME NEW h \in Heartbeat,
             \/ Arrive(h) \/ NotFound(h) \/ Refuse(h) \/ Clear(h) \/ Wait(h) \/ Answer(h)
      PROVE  Synced'
  BY <1>1, <1>8 DEF Arrive, NotFound, Refuse, Clear, Wait, Answer
<1>9. ASSUME NEW a \in Admin, AskDisconnect(a) \/ CutRefused(a) \/ ReadBack(a) \/ Mark(a)
      PROVE  Synced'
  BY <1>1, <1>9 DEF AskDisconnect, CutRefused, ReadBack, Mark
<1>10. CASE \/ \E from \in Database, to \in Database \union {None} : BeginMove(from, to)
            \/ Delete \/ \E d \in Knowledge, i \in Instance : SignUrl(d, i)
            \/ UNCHANGED vars
  BY <1>1, <1>10 DEF BeginMove, Delete, SignUrl, vars
<1> QED
  BY <1>2, <1>3, <1>4, <1>5, <1>6, <1>7, <1>8, <1>9, <1>10 DEF Next

\* What may become of a cut connection.
Kept(d) == \/ Forced(row'[d])
           \/ Reconnects(d)
           \/ row'[d] = None /\ \/ catalog[d] = "deleted"
                                \/ \E e \in Database \ {d} : row'[e] = row[d]

\* A connection that was cut by hand stays cut, unless its own instance comes back.
LEMMA CutKept ==
  ASSUME Renamable \cap Memory = {}, TypeOK, Kinds, Synced, [Next]_vars,
         NEW d \in Database, Forced(row[d])
  PROVE  Kept(d)
<1>1. ASSUME UNCHANGED row PROVE Kept(d)
  BY <1>1 DEF Kept
<1>2. ASSUME NEW h \in Heartbeat, Register(h) PROVE Kept(d)
  <2>1. CASE beat[h].db = d
    BY <1>2, <2>1, RegisterRow DEF Kept, Reconnects
  <2>2. CASE beat[h].db # d
    BY <1>2, <2>2, RegisterRow DEF Kept
  <2> QED BY <2>1, <2>2
<1>3. ASSUME NEW since \in Instant, Expire(since) PROVE Kept(d)
  BY <1>3, ExpiryKeepsState DEF Kept
<1>4. ASSUME NEW a \in Admin, Cut(a) PROVE Kept(d)
  BY <1>4, CutRow DEF Kept
<1>5. CASE Rename
  <2> DEFINE from == move.from
             to == move.to
  <2>1. /\ from \in Knowledge /\ to \in Knowledge /\ from # to
        /\ from \in Database /\ to \in Database /\ catalog[to] # "deleted"
    BY <1>5, DatabaseAssumption DEF Rename, TypeOK, Kinds, Change, Database
  <2>2. \/ row' = row
        \/ /\ ~(row[from] # None /\ row[to] # None)
           /\ row' = [row EXCEPT ![from] = None,
                                 ![to] = IF row[from] = None THEN row[to] ELSE row[from]]
    BY <1>5, <2>1 DEF Rename
  <2>3. row[d] # None
    BY DEF Forced
  <2>4. CASE d = from
    BY <2>1, <2>2, <2>3, <2>4, <1>1 DEF Kept, TypeOK
  <2>5. CASE d # from
    BY <2>1, <2>2, <2>3, <2>5, <1>1 DEF Kept, TypeOK
  <2> QED BY <2>4, <2>5
<1>6. ASSUME NEW e \in Database, Create(e) PROVE Kept(d)
  BY <1>6 DEF Create, Kept, TypeOK
<1>7. CASE Restart
  BY <1>1, <1>7, RestartCopies
<1>8. ASSUME NEW h \in Heartbeat,
             \/ Arrive(h) \/ NotFound(h) \/ Refuse(h) \/ Clear(h) \/ Wait(h) \/ Answer(h)
      PROVE  Kept(d)
  BY <1>1, <1>8 DEF Arrive, NotFound, Refuse, Clear, Wait, Answer
<1>9. ASSUME NEW a \in Admin, AskDisconnect(a) \/ CutRefused(a) \/ ReadBack(a) \/ Mark(a)
      PROVE  Kept(d)
  BY <1>1, <1>9 DEF AskDisconnect, CutRefused, ReadBack, Mark
<1>10. CASE \/ \E from \in Database, to \in Database \union {None} : BeginMove(from, to)
            \/ Delete \/ \E k \in Knowledge, i \in Instance : SignUrl(k, i)
            \/ UNCHANGED vars
  BY <1>1, <1>10 DEF BeginMove, Delete, SignUrl, vars
<1> QED
  BY <1>2, <1>3, <1>4, <1>5, <1>6, <1>7, <1>8, <1>9, <1>10 DEF Next

\* README.md:331 for any databases, requests and bounds, where no memory library is
\* renamed: a cut connection stays cut until it is reconnected by hand.
THEOREM CutsLast ==
  ASSUME Renamable \cap Memory = {}
  PROVE  Spec => StaysCut
<1>1. Init => TypeOK /\ Kinds /\ Synced
  BY InitTypes DEF Init, Synced, Database
<1>2. TypeOK /\ Kinds /\ Synced /\ [Next]_vars => TypeOK' /\ Kinds' /\ Synced'
  BY TypesStep, SyncedStep
<1>3. TypeOK /\ Kinds /\ Synced /\ [Next]_vars =>
        [\A d \in Database : Forced(row[d]) =>
           \/ Forced(row'[d])
           \/ Reconnects(d)
           \/ row'[d] = None /\ \/ catalog[d] = "deleted"
                                \/ \E e \in Database \ {d} : row'[e] = row[d]]_vars
  BY CutKept DEF Kept
<1> QED BY <1>1, <1>2, <1>3, PTL DEF Spec, StaysCut
=============================================================================
