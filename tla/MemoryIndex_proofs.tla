-------------------------- MODULE MemoryIndex_proofs --------------------------
(***************************************************************************)
(* The memory store keeps its promises for any number of ids and records,  *)
(* any worlds and any bound on faults: its types (StoreTyped), no record   *)
(* of a manifest twice (RecordsStoredOnce), every acknowledged memory in   *)
(* exactly one copy (KeptOnce), and index and database in step when        *)
(* nothing runs (StoresSettle).                                            *)
(*                                                                         *)
(* One invariant carries the others, TypeInv: besides the types it says    *)
(* that the steps a request has left are the rest of its plan or of the    *)
(* list that undoes it (Place), and who may run beside whom (Order: no     *)
(* request behind the barrier, no import outside its task).  On it stand   *)
(*   Fresh   an id in hand was handed out before, and what two calls store *)
(*           is never the same;                                            *)
(*   Once    nothing stored twice, in the database or the prestate, and    *)
(*           what an import has left is not stored yet (ImportFacts);      *)
(*   Kept    an acknowledged memory has a row that no deletion is about to *)
(*           take (Alive), a second row of a root is one half of the edit  *)
(*           under way or was cut off (Single), also in the prestate       *)
(*           (SavedSingle), with what each edit has and has not written    *)
(*           (EditFacts) and what is not acknowledged yet (NewFacts);      *)
(*   Tuned   as long as nothing is torn: what the index lacks at each step *)
(*           of a request or of the import (InStep), that an import does   *)
(*           nothing half beside a request or a rebuild (Untouched), and   *)
(*           what the stages behind the barrier have ready (Barriers).     *)
(* The startup check trusts nothing until it has looked, so Tuned asks for *)
(* InStep only where the runtime is up and the check is over (Trusted).    *)
(*                                                                         *)
(* The provers do not compute the head and tail of a list they know, so    *)
(* the lists a request may have left are named (C1, ..., J2) and Table     *)
(* says once what each begins with.                                        *)
(***************************************************************************)
EXTENDS MemoryIndex, SequenceTheorems, FiniteSetTheorems, TLAPS

-----------------------------------------------------------------------------
\* The steps a request may have left, by its kind and by whether it is undone.

C1 == <<"mark">>
C2 == <<"swap", "mark">>
C3 == <<"ask_new", "swap", "mark">>
C4 == <<"store", "ask_new", "swap", "mark">>
N1 == <<"drop_new">>
D1 == <<"drop">>
D2 == <<"swap", "drop">>
D3 == <<"ask_out", "swap", "drop">>
E4 == <<"mark", "ask_out", "swap", "drop">>
E5 == <<"swap", "mark", "ask_out", "swap", "drop">>
E6 == <<"ask_new", "swap", "mark", "ask_out", "swap", "drop">>
E7 == <<"store", "ask_new", "swap", "mark", "ask_out", "swap", "drop">>
B1 == <<"repair">>
B2 == <<"back", "repair">>
S1 == <<"shelve">>
S2 == <<"swap", "shelve">>
S3 == <<"ask_out", "swap", "shelve">>
U1 == <<"swap">>
U2 == <<"ask_in", "swap">>
U3 == <<"unshelve", "ask_in", "swap">>
I1 == <<"save">>
I2 == <<"mark", "save">>
I3 == <<"swap", "mark", "save">>
I4 == <<"ask_new", "swap", "mark", "save">>
I5 == <<"store", "ask_new", "swap", "mark", "save">>
J1 == <<"raise">>
J2 == <<"drop_new", "raise">>

Lists(kind, undo) ==
  CASE kind = "create" /\ ~undo -> {C1, C2, C3, C4}
    [] kind = "create" /\ undo -> {N1}
    [] kind = "edit" /\ ~undo -> {D1, D2, D3, E4, E5, E6, E7}
    [] kind = "edit" /\ undo -> {B1, B2}
    [] kind = "archive" /\ ~undo -> {S1, S2, S3}
    [] kind = "delete" /\ ~undo -> {D1, D2, D3}
    [] kind \in {"archive", "delete"} /\ undo -> {U1, U2}
    [] kind = "restore" /\ ~undo -> {U1, U2, U3}
    [] kind = "restore" /\ undo -> {S1}
    [] kind = "import" /\ ~undo -> {I1, I2, I3, I4, I5}
    [] kind = "import" /\ undo -> {J1, J2}
    [] OTHER -> {}

UserKinds == {"create", "edit", "archive", "restore", "delete"}
Kinds(p)  == IF p = User THEN UserKinds ELSE {"import"}
Changes   == [before : Indexes, after : Indexes]
Calls     == [kind : {""} \cup UserKinds \cup {"import"}, ids : SUBSET Ids, new : SUBSET Ids,
              want : {Nothing} \cup Changes, undo : BOOLEAN,
              keys : SUBSET (RecordSet \cup {Nothing}), left : Seq(RecordSet)]
Shadows   == [db : Databases, index : Indexes, print : {Nothing} \cup Indexes]
Workers   == {User, Import}
Working   == {"build", "replay", "wait", "swap", "journal", "activate"}

\* The next step of p is one of S.
Facing(p, S) == todo[p] # <<>> /\ Head(todo[p]) \in S

\* What p is at: nothing, or a list of its kind with the change its next swap wants.
Place(p) ==
  \/ todo[p] = <<>> /\ call[p] = Idle
  \/ /\ call[p].kind \in Kinds(p)
     /\ todo[p] \in Lists(call[p].kind, call[p].undo)
     /\ Facing(p, {"swap"}) => call[p].want \in Changes

Sane(d) == d \in Databases /\ d.archived \subseteq d.rows /\ \A i \in d.rows : i < d.next

StoreTypes ==
  /\ world \in Worlds /\ Sane(db) /\ index \in Indexes
  /\ root \in [Ids -> Ids] /\ record \in [Ids -> RecordSet \cup {Nothing}]
  /\ acked \subseteq Ids /\ cut \subseteq Ids /\ faults \in 0..world.faults

DiskTypes ==
  /\ journal \in {Nothing} \cup Indexes
  /\ shadow \in [{"check", "task"} -> {Nothing} \cup Shadows]
  /\ saved \in {Nothing} \cup Snapshots
  /\ saved \in Snapshots => saved.db \in {Nothing} \cup {d \in Databases : Sane(d)}
  /\ task \in {"none", "rebuild", "import"} /\ cursor \in 0..world.records
  /\ (task = "none") = (saved = Nothing)
  /\ up \in BOOLEAN
  /\ rebuild \in [kind : {"check", "task"}, derived : SUBSET Ids,
                  stage : {"off", "reason", "copy", "seal"} \cup Working]
  /\ rebuild.stage \in Working => Mine \in Shadows

WorkTypes ==
  /\ todo = [p \in Workers |-> todo[p]] /\ call \in [Workers -> Calls]
  /\ Place(User) /\ Place(Import)

Types == StoreTypes /\ DiskTypes /\ WorkTypes

-----------------------------------------------------------------------------
\* Who runs what.

Order ==
  /\ ~up => todo[User] = <<>> /\ todo[Import] = <<>> /\ rebuild.stage = "off"
  /\ rebuild.stage \in Barrier => todo[User] = <<>>
  /\ rebuild.stage = "reason" => rebuild.kind = "check"
  /\ rebuild.kind = "task" => rebuild.stage # "off" /\ task = "rebuild"
  /\ todo[Import] # <<>> => task = "import"

\* Where a rollback is: its task has not ended, and neither the import nor the rebuild
\* of it runs.
RollTypes ==
  /\ undoing \in {"off", "unload", "database", "pointer", "load"}
  /\ behind \in {Nothing} \cup Indexes
  /\ undoing # "off" => todo[Import] = <<>> /\ rebuild.kind = "check" /\ task # "none"

-----------------------------------------------------------------------------
\* Ids and roots.

\* Ids in hand were handed out before; what two calls store is never the same.
Given(c) == \A i \in c.ids \cup c.new : i < db.next

Fresh ==
  /\ \A i \in Ids : root[i] <= i
  /\ Given(call[User]) /\ Given(call[Import])
  /\ Facing(User, {"store"}) => call[User].new = {}
  /\ call[User].new \cap call[Import].new = {}
  /\ call[User].new \cap call[User].ids = {}
  /\ saved \in Snapshots /\ saved.db # Nothing => saved.db.next <= db.next

EditFacts ==
  call[User].kind = "edit" =>
    /\ \E o \in Ids : call[User].ids = {o}
    /\ \A n \in call[User].new, o \in call[User].ids : root[n] = root[o]
    /\ ~call[User].undo /\ ~Facing(User, {"store"}) =>
         call[User].new # {} /\ call[User].new \subseteq db.rows
    /\ Facing(User, {"repair"}) => call[User].ids \cap db.rows = {} \/ call[User].new \cap db.rows = {}
    /\ \A j \in db.rows, o \in call[User].ids :
         root[j] = root[o] => j \in call[User].ids \cup call[User].new \/ root[j] \in cut

Unacked(c) == \A n \in c.new : root[n] = n /\ n \notin acked

NewFacts ==
  /\ call[User].kind = "create" => call[User].ids = {} /\ Unacked(call[User])
  /\ call[User].kind \in {"archive", "restore", "delete", ""} => call[User].new = {}
  /\ \A n \in call[Import].new : root[n] = n
  /\ Facing(Import, {"store", "ask_new", "swap", "drop_new"}) => Unacked(call[Import])

Alive == \A r \in acked : \E i \in db.rows \ Doomed : root[i] = r

Single ==
  \A i, j \in db.rows : i # j /\ root[i] = root[j] =>
     \/ root[i] \in cut
     \/ /\ call[User].kind = "edit"
        /\ \/ i \in call[User].ids /\ j \in call[User].new
           \/ j \in call[User].ids /\ i \in call[User].new

SavedSingle ==
  saved \in Snapshots /\ saved.db # Nothing =>
    \A i, j \in saved.db.rows : i # j /\ root[i] = root[j] => root[i] \in cut \cup saved.cut

Kept == EditFacts /\ NewFacts /\ Alive /\ Single /\ SavedSingle

-----------------------------------------------------------------------------
\* Records.

OnceIn(rows) == \A i, j \in rows : record[i] = record[j] /\ record[i] # Nothing => i = j

ImportFacts ==
  LET c == call[Import]
  IN c.kind = "import" /\ ~c.undo =>
       /\ \A i \in db.rows \ c.new : record[i] \in c.keys \cup {Nothing}
       /\ \A a, b \in 1..Len(c.left) : c.left[a] = c.left[b] => a = b
       /\ \A i \in c.new, a \in 1..Len(c.left) : record[i] # c.left[a]

Once == /\ OnceIn(db.rows)
        /\ saved \in Snapshots /\ saved.db # Nothing => OnceIn(saved.db.rows)
        /\ ImportFacts

-----------------------------------------------------------------------------
\* Index and database.

\* The index lacks the ids of S and is otherwise what the database asks for.
Lacks(S) == /\ db.derived = Active(db)
            /\ index = [docs |-> Active(db) \ S, graph |-> Active(db) \ S]

\* The step of p after its next one is one of S.
Then(p, S) == Tail(todo[p]) # <<>> /\ Head(Tail(todo[p])) \in S

Swapping(p) ==
  /\ Then(p, {"mark"}) => Lacks(call[p].new) /\ call[p].want = Upsert(db, call[p].new)
  /\ Then(p, {"drop", "shelve"}) => Lacks({}) /\ call[p].want = Removal(db, call[p].ids)
  /\ Tail(todo[p]) = <<>> => Lacks(call[p].ids) /\ call[p].want = Upsert(db, call[p].ids)

InStep(p) ==
  /\ Facing(p, {"store", "ask_new", "drop_new"}) => Lacks(call[p].new)
  /\ Facing(p, {"drop", "shelve", "ask_in"}) => Lacks(call[p].ids)
  /\ Facing(p, {"back", "repair"}) => db.derived = Active(db)
  /\ todo[p] = <<>> \/ Facing(p, {"mark", "ask_out", "unshelve", "save", "raise"}) => Lacks({})
  /\ Facing(p, {"unshelve"}) => call[p].ids \subseteq db.archived
  /\ Facing(p, {"swap"}) => Swapping(p)

Untouched == \/ todo[Import] = <<>>
             \/ Facing(Import, {"store"}) /\ call[Import].new = {}

Trusted == up /\ torn = {} /\ (rebuild.stage = "off" \/ (rebuild.kind = "task" /\ rebuild.stage \notin Barrier))

Barriers ==
  /\ rebuild.stage = "swap" => /\ Mine.db.derived = Active(db)
                               /\ Mine.index = [docs |-> Active(db), graph |-> Active(db)]
  /\ rebuild.stage \in {"journal", "activate"} =>
       db.derived = Active(db) /\ Mine.index = Expected(db)
  /\ rebuild.stage = "seal" => Lacks({})

Tuned ==
  torn = {} =>
    /\ todo[User] # <<>> \/ rebuild.stage # "off" => Untouched
    /\ Trusted => IF todo[User] = <<>> THEN InStep(Import) ELSE InStep(User)
    /\ Barriers

-----------------------------------------------------------------------------
\* Lists of steps.

\* The first step of each list and what is left after it.
LEMMA Table ==
  /\ C1 # <<>> /\ Head(C1) = "mark" /\ Tail(C1) = <<>>
  /\ C2 # <<>> /\ Head(C2) = "swap" /\ Tail(C2) = C1
  /\ C3 # <<>> /\ Head(C3) = "ask_new" /\ Tail(C3) = C2
  /\ C4 # <<>> /\ Head(C4) = "store" /\ Tail(C4) = C3
  /\ N1 # <<>> /\ Head(N1) = "drop_new" /\ Tail(N1) = <<>>
  /\ D1 # <<>> /\ Head(D1) = "drop" /\ Tail(D1) = <<>>
  /\ D2 # <<>> /\ Head(D2) = "swap" /\ Tail(D2) = D1
  /\ D3 # <<>> /\ Head(D3) = "ask_out" /\ Tail(D3) = D2
  /\ E4 # <<>> /\ Head(E4) = "mark" /\ Tail(E4) = D3
  /\ E5 # <<>> /\ Head(E5) = "swap" /\ Tail(E5) = E4
  /\ E6 # <<>> /\ Head(E6) = "ask_new" /\ Tail(E6) = E5
  /\ E7 # <<>> /\ Head(E7) = "store" /\ Tail(E7) = E6
  /\ B1 # <<>> /\ Head(B1) = "repair" /\ Tail(B1) = <<>>
  /\ B2 # <<>> /\ Head(B2) = "back" /\ Tail(B2) = B1
  /\ S1 # <<>> /\ Head(S1) = "shelve" /\ Tail(S1) = <<>>
  /\ S2 # <<>> /\ Head(S2) = "swap" /\ Tail(S2) = S1
  /\ S3 # <<>> /\ Head(S3) = "ask_out" /\ Tail(S3) = S2
  /\ U1 # <<>> /\ Head(U1) = "swap" /\ Tail(U1) = <<>>
  /\ U2 # <<>> /\ Head(U2) = "ask_in" /\ Tail(U2) = U1
  /\ U3 # <<>> /\ Head(U3) = "unshelve" /\ Tail(U3) = U2
  /\ I1 # <<>> /\ Head(I1) = "save" /\ Tail(I1) = <<>>
  /\ I2 # <<>> /\ Head(I2) = "mark" /\ Tail(I2) = I1
  /\ I3 # <<>> /\ Head(I3) = "swap" /\ Tail(I3) = I2
  /\ I4 # <<>> /\ Head(I4) = "ask_new" /\ Tail(I4) = I3
  /\ I5 # <<>> /\ Head(I5) = "store" /\ Tail(I5) = I4
  /\ J1 # <<>> /\ Head(J1) = "raise" /\ Tail(J1) = <<>>
  /\ J2 # <<>> /\ Head(J2) = "drop_new" /\ Tail(J2) = J1
BY DEF C1, C2, C3, C4, N1, D1, D2, D3, E4, E5, E6, E7, B1, B2,
       S1, S2, S3, U1, U2, U3, I1, I2, I3, I4, I5, J1, J2

\* The lists of each kind.
LEMMA ListsOf ==
  /\ Lists("create", FALSE) = {C1, C2, C3, C4} /\ Lists("create", TRUE) = {N1}
  /\ Lists("edit", FALSE) = {D1, D2, D3, E4, E5, E6, E7} /\ Lists("edit", TRUE) = {B1, B2}
  /\ Lists("archive", FALSE) = {S1, S2, S3} /\ Lists("archive", TRUE) = {U1, U2}
  /\ Lists("delete", FALSE) = {D1, D2, D3} /\ Lists("delete", TRUE) = {U1, U2}
  /\ Lists("restore", FALSE) = {U1, U2, U3} /\ Lists("restore", TRUE) = {S1}
  /\ Lists("import", FALSE) = {I1, I2, I3, I4, I5} /\ Lists("import", TRUE) = {J1, J2}
BY DEF Lists

AllKinds == UserKinds \cup {"import"}

\* Which step follows which.
Follows(s, t) ==
  /\ s \in {"drop", "shelve", "repair", "save", "raise"} => t = <<>>
  /\ s = "store" => t # <<>> /\ Head(t) = "ask_new"
  /\ s = "ask_new" => t # <<>> /\ Head(t) = "swap" /\ Tail(t) # <<>> /\ Head(Tail(t)) = "mark"
  /\ s = "ask_out" =>
       t # <<>> /\ Head(t) = "swap" /\ Tail(t) # <<>> /\ Head(Tail(t)) \in {"drop", "shelve"}
  /\ s = "unshelve" => t # <<>> /\ Head(t) = "ask_in"
  /\ s = "ask_in" => t # <<>> /\ Head(t) = "swap" /\ Tail(t) = <<>>
  /\ s = "mark" => t = <<>> \/ Head(t) \in {"ask_out", "save"}
  /\ s = "swap" => t = <<>> \/ Head(t) \in {"mark", "drop", "shelve"}
  /\ s = "drop_new" => t = <<>> \/ Head(t) = "raise"
  /\ s = "back" => t # <<>> /\ Head(t) = "repair"

\* Which kind of request has which steps.
Belongs(k, u, s) ==
  /\ s \in {"store", "ask_new", "mark"} => k \in {"create", "edit", "import"} /\ u = FALSE
  /\ s \in {"save", "raise"} => k = "import"
  /\ s = "save" => u = FALSE
  /\ s = "raise" => u = TRUE
  /\ s = "drop_new" => k \in {"create", "import"} /\ u = TRUE
  /\ s \in {"back", "repair"} => k = "edit" /\ u = TRUE
  /\ s = "drop" => k \in {"edit", "delete"} /\ u = FALSE
  /\ s = "shelve" => (k = "archive" /\ u = FALSE) \/ (k = "restore" /\ u = TRUE)
  /\ s = "unshelve" => k = "restore" /\ u = FALSE
  /\ s = "ask_out" => k \in {"edit", "archive", "delete"} /\ u = FALSE
  /\ s = "ask_in" => k \in {"archive", "restore", "delete"}

\* A step of a list: what it is, and that a list of the same kind is left.
LEMMA Onward ==
  ASSUME NEW k, NEW u \in BOOLEAN, NEW l \in Lists(k, u)
  PROVE  /\ k \in AllKinds /\ l # <<>>
         /\ Head(l) \in {"store", "ask_new", "swap", "mark", "ask_out", "drop", "drop_new", "back",
                         "repair", "shelve", "unshelve", "ask_in", "save", "raise"}
         /\ Tail(l) = <<>> \/ Tail(l) \in Lists(k, u)
         /\ Follows(Head(l), Tail(l))
         /\ Belongs(k, u, Head(l))
<1>1. k \in AllKinds
  BY DEF Lists, AllKinds, UserKinds
<1>2. CASE k = "create" /\ u = FALSE
  <2>0. l \in {C1, C2, C3, C4} /\ Lists(k, u) = {C1, C2, C3, C4}
    BY <1>2, ListsOf
  <2>1. CASE l = C1
    BY <1>1, <1>2, <2>0, <2>1, Table, ZenonT(60) DEF Follows, Belongs
  <2>2. CASE l = C2
    BY <1>1, <1>2, <2>0, <2>2, Table, ZenonT(60) DEF Follows, Belongs
  <2>3. CASE l = C3
    BY <1>1, <1>2, <2>0, <2>3, Table, ZenonT(60) DEF Follows, Belongs
  <2>4. CASE l = C4
    BY <1>1, <1>2, <2>0, <2>4, Table, ZenonT(60) DEF Follows, Belongs
  <2> QED BY <2>0, <2>1, <2>2, <2>3, <2>4
<1>3. CASE k = "create" /\ u = TRUE
  <2>0. l \in {N1} /\ Lists(k, u) = {N1}
    BY <1>3, ListsOf
  <2>1. CASE l = N1
    BY <1>1, <1>3, <2>0, <2>1, Table, ZenonT(60) DEF Follows, Belongs
  <2> QED BY <2>0, <2>1
<1>4. CASE k = "edit" /\ u = FALSE
  <2>0. l \in {D1, D2, D3, E4, E5, E6, E7} /\ Lists(k, u) = {D1, D2, D3, E4, E5, E6, E7}
    BY <1>4, ListsOf
  <2>1. CASE l = D1
    BY <1>1, <1>4, <2>0, <2>1, Table, ZenonT(60) DEF Follows, Belongs
  <2>2. CASE l = D2
    BY <1>1, <1>4, <2>0, <2>2, Table, ZenonT(60) DEF Follows, Belongs
  <2>3. CASE l = D3
    BY <1>1, <1>4, <2>0, <2>3, Table, ZenonT(60) DEF Follows, Belongs
  <2>4. CASE l = E4
    BY <1>1, <1>4, <2>0, <2>4, Table, ZenonT(60) DEF Follows, Belongs
  <2>5. CASE l = E5
    BY <1>1, <1>4, <2>0, <2>5, Table, ZenonT(60) DEF Follows, Belongs
  <2>6. CASE l = E6
    BY <1>1, <1>4, <2>0, <2>6, Table, ZenonT(60) DEF Follows, Belongs
  <2>7. CASE l = E7
    BY <1>1, <1>4, <2>0, <2>7, Table, ZenonT(60) DEF Follows, Belongs
  <2> QED BY <2>0, <2>1, <2>2, <2>3, <2>4, <2>5, <2>6, <2>7
<1>5. CASE k = "edit" /\ u = TRUE
  <2>0. l \in {B1, B2} /\ Lists(k, u) = {B1, B2}
    BY <1>5, ListsOf
  <2>1. CASE l = B1
    BY <1>1, <1>5, <2>0, <2>1, Table, ZenonT(60) DEF Follows, Belongs
  <2>2. CASE l = B2
    BY <1>1, <1>5, <2>0, <2>2, Table, ZenonT(60) DEF Follows, Belongs
  <2> QED BY <2>0, <2>1, <2>2
<1>6. CASE k = "archive" /\ u = FALSE
  <2>0. l \in {S1, S2, S3} /\ Lists(k, u) = {S1, S2, S3}
    BY <1>6, ListsOf
  <2>1. CASE l = S1
    BY <1>1, <1>6, <2>0, <2>1, Table, ZenonT(60) DEF Follows, Belongs
  <2>2. CASE l = S2
    BY <1>1, <1>6, <2>0, <2>2, Table, ZenonT(60) DEF Follows, Belongs
  <2>3. CASE l = S3
    BY <1>1, <1>6, <2>0, <2>3, Table, ZenonT(60) DEF Follows, Belongs
  <2> QED BY <2>0, <2>1, <2>2, <2>3
<1>7. CASE k = "archive" /\ u = TRUE
  <2>0. l \in {U1, U2} /\ Lists(k, u) = {U1, U2}
    BY <1>7, ListsOf
  <2>1. CASE l = U1
    BY <1>1, <1>7, <2>0, <2>1, Table, ZenonT(60) DEF Follows, Belongs
  <2>2. CASE l = U2
    BY <1>1, <1>7, <2>0, <2>2, Table, ZenonT(60) DEF Follows, Belongs
  <2> QED BY <2>0, <2>1, <2>2
<1>8. CASE k = "delete" /\ u = FALSE
  <2>0. l \in {D1, D2, D3} /\ Lists(k, u) = {D1, D2, D3}
    BY <1>8, ListsOf
  <2>1. CASE l = D1
    BY <1>1, <1>8, <2>0, <2>1, Table, ZenonT(60) DEF Follows, Belongs
  <2>2. CASE l = D2
    BY <1>1, <1>8, <2>0, <2>2, Table, ZenonT(60) DEF Follows, Belongs
  <2>3. CASE l = D3
    BY <1>1, <1>8, <2>0, <2>3, Table, ZenonT(60) DEF Follows, Belongs
  <2> QED BY <2>0, <2>1, <2>2, <2>3
<1>9. CASE k = "delete" /\ u = TRUE
  <2>0. l \in {U1, U2} /\ Lists(k, u) = {U1, U2}
    BY <1>9, ListsOf
  <2>1. CASE l = U1
    BY <1>1, <1>9, <2>0, <2>1, Table, ZenonT(60) DEF Follows, Belongs
  <2>2. CASE l = U2
    BY <1>1, <1>9, <2>0, <2>2, Table, ZenonT(60) DEF Follows, Belongs
  <2> QED BY <2>0, <2>1, <2>2
<1>10. CASE k = "restore" /\ u = FALSE
  <2>0. l \in {U1, U2, U3} /\ Lists(k, u) = {U1, U2, U3}
    BY <1>10, ListsOf
  <2>1. CASE l = U1
    BY <1>1, <1>10, <2>0, <2>1, Table, ZenonT(60) DEF Follows, Belongs
  <2>2. CASE l = U2
    BY <1>1, <1>10, <2>0, <2>2, Table, ZenonT(60) DEF Follows, Belongs
  <2>3. CASE l = U3
    BY <1>1, <1>10, <2>0, <2>3, Table, ZenonT(60) DEF Follows, Belongs
  <2> QED BY <2>0, <2>1, <2>2, <2>3
<1>11. CASE k = "restore" /\ u = TRUE
  <2>0. l \in {S1} /\ Lists(k, u) = {S1}
    BY <1>11, ListsOf
  <2>1. CASE l = S1
    BY <1>1, <1>11, <2>0, <2>1, Table, ZenonT(60) DEF Follows, Belongs
  <2> QED BY <2>0, <2>1
<1>12. CASE k = "import" /\ u = FALSE
  <2>0. l \in {I1, I2, I3, I4, I5} /\ Lists(k, u) = {I1, I2, I3, I4, I5}
    BY <1>12, ListsOf
  <2>1. CASE l = I1
    BY <1>1, <1>12, <2>0, <2>1, Table, ZenonT(60) DEF Follows, Belongs
  <2>2. CASE l = I2
    BY <1>1, <1>12, <2>0, <2>2, Table, ZenonT(60) DEF Follows, Belongs
  <2>3. CASE l = I3
    BY <1>1, <1>12, <2>0, <2>3, Table, ZenonT(60) DEF Follows, Belongs
  <2>4. CASE l = I4
    BY <1>1, <1>12, <2>0, <2>4, Table, ZenonT(60) DEF Follows, Belongs
  <2>5. CASE l = I5
    BY <1>1, <1>12, <2>0, <2>5, Table, ZenonT(60) DEF Follows, Belongs
  <2> QED BY <2>0, <2>1, <2>2, <2>3, <2>4, <2>5
<1>13. CASE k = "import" /\ u = TRUE
  <2>0. l \in {J1, J2} /\ Lists(k, u) = {J1, J2}
    BY <1>13, ListsOf
  <2>1. CASE l = J1
    BY <1>1, <1>13, <2>0, <2>1, Table, ZenonT(60) DEF Follows, Belongs
  <2>2. CASE l = J2
    BY <1>1, <1>13, <2>0, <2>2, Table, ZenonT(60) DEF Follows, Belongs
  <2> QED BY <2>0, <2>1, <2>2
<1> QED BY <1>1, <1>2, <1>3, <1>4, <1>5, <1>6, <1>7, <1>8, <1>9, <1>10, <1>11, <1>12, <1>13 DEF AllKinds, UserKinds

\* The except clause of a step leaves a list of steps that undo.
LEMMA Backward ==
  ASSUME NEW k, NEW l \in Lists(k, FALSE)
  PROVE  /\ Undo(k, Head(l)) = <<>> \/ Undo(k, Head(l)) \in Lists(k, TRUE)
         /\ Undo(k, Head(l)) # <<>> => Head(Undo(k, Head(l))) # "swap"
<1>1. k \in AllKinds
  BY Onward
<1>u. Undo("create", "store") = <<>> /\ (\A s : s # "store" => Undo("create", s) = N1)
  BY DEF Undo, N1
<1>v. \A s : Undo("edit", s) = B2 /\ Undo("archive", s) \in {<<>>, U2} /\ Undo("delete", s) \in {<<>>, U2}
            /\ Undo("restore", s) \in {<<>>, S1} /\ Undo("import", s) \in {<<>>, J1, J2}
  BY DEF Undo, B2, U2, S1, J1, J2
<1>w. /\ N1 # <<>> /\ Head(N1) # "swap" /\ B2 # <<>> /\ Head(B2) # "swap"
      /\ U2 # <<>> /\ Head(U2) # "swap" /\ S1 # <<>> /\ Head(S1) # "swap"
      /\ J1 # <<>> /\ Head(J1) # "swap" /\ J2 # <<>> /\ Head(J2) # "swap"
  BY Table
<1>2. CASE k = "create"
  BY <1>2, <1>u, <1>v, <1>w, ListsOf
<1>3. CASE k = "edit"
  BY <1>3, <1>u, <1>v, <1>w, ListsOf
<1>4. CASE k = "archive"
  BY <1>4, <1>u, <1>v, <1>w, ListsOf
<1>5. CASE k = "delete"
  BY <1>5, <1>u, <1>v, <1>w, ListsOf
<1>6. CASE k = "restore"
  BY <1>6, <1>u, <1>v, <1>w, ListsOf
<1>7. CASE k = "import"
  BY <1>7, <1>u, <1>v, <1>w, ListsOf
<1> QED BY <1>1, <1>2, <1>3, <1>4, <1>5, <1>6, <1>7 DEF AllKinds, UserKinds

\* A plan is a list of its kind.
LEMMA PlanList ==
  ASSUME NEW k \in AllKinds
  PROVE  Plan(k) \in Lists(k, FALSE) /\ Plan(k) # <<>> /\ Head(Plan(k)) # "swap"
<1>1. CASE k = "create"
  <2>1. Plan(k) = C4
    BY <1>1 DEF Plan, C4
  <2> QED BY <1>1, <2>1, Table, ListsOf
<1>2. CASE k = "edit"
  <2>1. Plan(k) = E7
    BY <1>2 DEF Plan, E7
  <2> QED BY <1>2, <2>1, Table, ListsOf
<1>3. CASE k = "archive"
  <2>1. Plan(k) = S3
    BY <1>3 DEF Plan, S3
  <2> QED BY <1>3, <2>1, Table, ListsOf
<1>4. CASE k = "delete"
  <2>1. Plan(k) = D3
    BY <1>4 DEF Plan, D3
  <2> QED BY <1>4, <2>1, Table, ListsOf
<1>5. CASE k = "restore"
  <2>1. Plan(k) = U3
    BY <1>5 DEF Plan, U3
  <2> QED BY <1>5, <2>1, Table, ListsOf
<1>6. CASE k = "import"
  <2>1. Plan(k) = I5
    BY <1>6 DEF Plan, I5
  <2> QED BY <1>6, <2>1, Table, ListsOf
<1> QED BY <1>1, <1>2, <1>3, <1>4, <1>5, <1>6 DEF AllKinds, UserKinds

-----------------------------------------------------------------------------
\* The values the operators take.

\* The bounds of a world.
LEMMA WorldFacts ==
  ASSUME NEW w \in Worlds
  PROVE  /\ w.last \in 1..MaxId /\ w.first \in 1..w.last /\ w.records \in 0..Len(Records)
         /\ w.faults \in Nat /\ MaxId \in Nat /\ Len(Records) \in Nat /\ Batch \in Nat \ {0}
         /\ w.kinds \subseteq UserKinds /\ w.tasks \subseteq {"rebuild", "import"}
<1>1. Records \in Seq(RecordSet)
  BY MemoryAssumption
<1>2. Len(Records) \in Nat
  BY <1>1, LenProperties
<1> QED BY <1>2, MemoryAssumption DEF UserKinds

\* A call that holds nothing.
LEMMA IdleCall ==
  /\ Idle \in Calls /\ Idle.kind = "" /\ Idle.ids = {} /\ Idle.new = {} /\ Idle.undo = FALSE
  /\ Idle.want = Nothing /\ Idle.keys = {} /\ Idle.left = <<>>
<1>1. <<>> \in Seq(RecordSet)
  BY EmptySeq
<1> QED BY <1>1 DEF Idle, Calls

\* What the storage makes of a database.
LEMMA StoredFacts ==
  ASSUME NEW d, Sane(d), d.next \in Ids, NEW b \in BOOLEAN
  PROVE  /\ Sane(Stored(d, d.next, b))
         /\ Stored(d, d.next, b).rows = d.rows \cup {d.next}
         /\ Stored(d, d.next, b).next = d.next + 1
         /\ Stored(d, d.next, b).archived = IF b THEN d.archived \cup {d.next} ELSE d.archived
         /\ Stored(d, d.next, b).derived = IF b THEN d.derived ELSE d.derived \cup {d.next}
         /\ d.next \notin d.rows
<1> DEFINE e == Stored(d, d.next, b)
<1>0. d \in Databases /\ d.next \in Nat /\ d.next + 1 \in 1..MaxId + 1
  BY MemoryAssumption DEF Sane, Databases, Ids
<1>1. /\ e.rows = d.rows \cup {d.next} /\ e.next = d.next + 1
      /\ e.archived = IF b THEN d.archived \cup {d.next} ELSE d.archived
      /\ e.derived = IF b THEN d.derived ELSE d.derived \cup {d.next}
  <2>1. e.rows = d.rows \cup {d.next} /\ e.next = d.next + 1
    BY <1>0 DEF Stored, Databases
  <2>2. CASE b = TRUE
    BY <1>0, <2>1, <2>2 DEF Stored, Databases
  <2>3. CASE b = FALSE
    BY <1>0, <2>1, <2>3 DEF Stored, Databases
  <2> QED BY <2>2, <2>3
<1>2. e.rows \in SUBSET Ids /\ e.archived \in SUBSET Ids /\ e.derived \in SUBSET Ids
  BY <1>0, <1>1 DEF Databases
<1>3. e \in Databases
  <2>1. CASE b = TRUE
    BY <1>0, <1>1, <1>2, <2>1 DEF Stored, Databases
  <2>2. CASE b = FALSE
    BY <1>0, <1>1, <1>2, <2>2 DEF Stored, Databases
  <2> QED BY <2>1, <2>2
<1>4. e.archived \subseteq e.rows
  BY <1>1 DEF Sane
<1>5. \A i \in e.rows : i < e.next
  BY <1>0, <1>1 DEF Sane, Databases, Ids
<1>6. d.next \notin d.rows
  BY <1>0 DEF Sane
<1>7. Sane(e)
  BY <1>3, <1>4, <1>5 DEF Sane
<1> QED BY <1>1, <1>6, <1>7

\* The database without some rows.
LEMMA DroppedFacts ==
  ASSUME NEW d, Sane(d), NEW S
  PROVE  /\ Sane(Dropped(d, S))
         /\ Dropped(d, S).rows = d.rows \ S /\ Dropped(d, S).next = d.next
         /\ Dropped(d, S).archived = d.archived \ S /\ Dropped(d, S).derived = d.derived \ S
BY MemoryAssumption DEF Sane, Databases, Ids, Dropped

\* The database with some rows archived.
LEMMA ShelvedFacts ==
  ASSUME NEW d, Sane(d), NEW S
  PROVE  /\ Sane(Shelved(d, S))
         /\ Shelved(d, S).rows = d.rows /\ Shelved(d, S).next = d.next
         /\ Shelved(d, S).archived = d.archived \cup (S \cap d.rows)
         /\ Shelved(d, S).derived = d.derived \ S
BY MemoryAssumption DEF Sane, Databases, Ids, Shelved

\* The database with some rows active again.
LEMMA UnshelvedFacts ==
  ASSUME NEW d, Sane(d), NEW S \in SUBSET Ids
  PROVE  /\ Sane(Unshelved(d, S))
         /\ Unshelved(d, S).rows = d.rows /\ Unshelved(d, S).next = d.next
         /\ Unshelved(d, S).archived = d.archived \ S
         /\ Unshelved(d, S).derived = d.derived \cup S
BY MemoryAssumption DEF Sane, Databases, Ids, Unshelved

\* What the indexes are asked for.
LEMMA IndexTypes ==
  ASSUME NEW d, Sane(d), NEW S \in SUBSET Ids
  PROVE  /\ Active(d) \in SUBSET Ids /\ Graph(d) \in SUBSET Ids
         /\ Expected(d) \in Indexes /\ Upsert(d, S) \in Changes /\ Removal(d, S) \in Changes
         /\ Empty \in Indexes
         /\ [d EXCEPT !.derived = Active(d)] \in Databases
<1>1. Active(d) \in SUBSET Ids /\ Graph(d) \in SUBSET Ids
  BY DEF Active, Graph, Sane, Databases
<1>2. Expected(d) \in Indexes /\ Empty \in Indexes
  BY <1>1 DEF Expected, Indexes, Empty
<1>3. Upsert(d, S) \in Changes /\ Removal(d, S) \in Changes
  BY <1>1, <1>2 DEF Upsert, Removal, Changes, Indexes
<1>4. [d EXCEPT !.derived = Active(d)] \in Databases
  BY <1>1 DEF Sane, Databases
<1> QED BY <1>1, <1>2, <1>3, <1>4

-----------------------------------------------------------------------------
\* Lists in hand.

\* There are the user's request and the import, and they are not the same.
LEMMA TwoWorkers ==
  /\ User \in Workers /\ Import \in Workers /\ User # Import /\ Workers = {User, Import}
  /\ Kinds(User) = UserKinds /\ Kinds(Import) = {"import"} /\ "" \notin AllKinds
BY DEF Workers, User, Import, Kinds, AllKinds, UserKinds

\* Who has steps left is at a list of its kind.
LEMMA AtWork ==
  ASSUME WorkTypes, NEW p \in Workers, todo[p] # <<>>
  PROVE  /\ call[p] \in Calls /\ call[p].undo \in BOOLEAN /\ call[p].kind \in Kinds(p)
         /\ call[p].kind \in AllKinds
         /\ todo[p] \in Lists(call[p].kind, call[p].undo)
         /\ Facing(p, {"swap"}) => call[p].want \in Changes
<1>1. call[p] \in Calls /\ Place(p)
  BY DEF WorkTypes, Workers
<1>2. call[p].undo \in BOOLEAN
  BY <1>1 DEF Calls
<1> QED BY <1>1, <1>2 DEF Place, Kinds, AllKinds

\* Who has none left holds nothing.
LEMMA AtRest ==
  ASSUME WorkTypes, NEW p \in Workers
  PROVE  /\ call[p] \in Calls
         /\ todo[p] = <<>> => call[p] = Idle
         /\ todo[p] # <<>> => call[p].kind # ""
<1>1. call[p] \in Calls /\ Place(p)
  BY DEF WorkTypes, Workers
<1>2. ASSUME todo[p] = <<>> PROVE call[p] = Idle
  <2>1. SUFFICES ASSUME todo[p] \in Lists(call[p].kind, call[p].undo) PROVE FALSE
    BY <1>1, <1>2 DEF Place
  <2>2. call[p].undo \in BOOLEAN
    BY <1>1 DEF Calls
  <2> QED BY <1>2, <2>1, <2>2, Onward
<1>3. todo[p] # <<>> => call[p].kind # ""
  BY AtWork, TwoWorkers
<1> QED BY <1>1, <1>2, <1>3

\* What Continue changes.
LEMMA Continued ==
  ASSUME WorkTypes, NEW p \in Workers, NEW ss, NEW c, Continue(p, ss, c)
  PROVE  /\ todo'[p] = ss /\ call'[p] = IF ss = <<>> THEN Idle ELSE c
         /\ \A q \in Workers \ {p} : todo'[q] = todo[q] /\ call'[q] = call[q]
         /\ todo' = [q \in Workers |-> todo'[q]] /\ DOMAIN call' = Workers
BY DEF WorkTypes, Continue

\* It leaves everyone at a list of its kind.
LEMMA Placed ==
  ASSUME WorkTypes, NEW p \in Workers, NEW ss, NEW c, Continue(p, ss, c),
         ss # <<>> => /\ c \in Calls /\ c.kind \in Kinds(p) /\ ss \in Lists(c.kind, c.undo)
                      /\ Head(ss) = "swap" => c.want \in Changes
  PROVE  WorkTypes'
<1> DEFINE e == IF ss = <<>> THEN Idle ELSE c
<1>1. todo'[p] = ss /\ call'[p] = e /\ todo' = [q \in Workers |-> todo'[q]]
  BY Continued
<1>2. \A q \in Workers \ {p} : todo'[q] = todo[q] /\ call'[q] = call[q]
  BY Continued
<1>3. e \in Calls
  BY IdleCall
<1> HIDE DEF e
<1>4. call' \in [Workers -> Calls]
  BY <1>3 DEF Continue, WorkTypes, e
<1>5. Place(p)'
  <2>1. CASE ss = <<>>
    BY <1>1, <2>1 DEF Place, e
  <2>2. CASE ss # <<>>
    BY <1>1, <2>2 DEF Place, Facing, e
  <2> QED BY <2>1, <2>2
<1>6. \A q \in Workers \ {p} : Place(q)'
  BY <1>2 DEF Place, WorkTypes, Workers, Facing
<1> QED BY <1>1, <1>4, <1>5, <1>6, TwoWorkers DEF WorkTypes

\* Nobody moves.
LEMMA WorkStays ==
  ASSUME WorkTypes, todo' = todo, call' = call
  PROVE  WorkTypes'
BY DEF WorkTypes, Place, Facing

\* What p holds at a step.
LEMMA StepFacts ==
  ASSUME WorkTypes, NEW p \in Workers, todo[p] # <<>>
  PROVE  LET s == Head(todo[p])  t == Tail(todo[p])  c == call[p]
         IN /\ s \in {"store", "ask_new", "swap", "mark", "ask_out", "drop", "drop_new", "back",
                      "repair", "shelve", "unshelve", "ask_in", "save", "raise"}
            /\ t = <<>> \/ t \in Lists(c.kind, c.undo)
            /\ Follows(s, t) /\ Belongs(c.kind, c.undo, s)
BY AtWork, Onward

\* A step keeps what a call is about, and only asking wants a change.
LEMMA AskedFacts ==
  ASSUME Sane(db), NEW c \in Calls, NEW s
  PROVE  /\ Asked(s, c) \in Calls
         /\ Asked(s, c).kind = c.kind /\ Asked(s, c).undo = c.undo /\ Asked(s, c).ids = c.ids
         /\ Asked(s, c).new = c.new /\ Asked(s, c).keys = c.keys /\ Asked(s, c).left = c.left
         /\ s = "ask_new" => Asked(s, c).want = Upsert(db, c.new)
         /\ s = "ask_in" => Asked(s, c).want = Upsert(db, c.ids)
         /\ s = "ask_out" => Asked(s, c).want = Removal(db, c.ids)
         /\ s \in {"ask_new", "ask_in", "ask_out"} => Asked(s, c).want \in Changes
<1>1. /\ Upsert(db, c.new) \in Changes /\ Upsert(db, c.ids) \in Changes
      /\ Removal(db, c.ids) \in Changes
  BY IndexTypes DEF Calls
<1>2. ASSUME NEW w \in {Nothing} \cup Changes, Asked(s, c) = [c EXCEPT !.want = w]
      PROVE  /\ Asked(s, c) \in Calls
             /\ Asked(s, c).kind = c.kind /\ Asked(s, c).undo = c.undo /\ Asked(s, c).ids = c.ids
             /\ Asked(s, c).new = c.new /\ Asked(s, c).keys = c.keys /\ Asked(s, c).left = c.left
             /\ Asked(s, c).want = w
  BY <1>2 DEF Calls
<1>3. CASE s = "ask_new"
  <2>1. Asked(s, c) = [c EXCEPT !.want = Upsert(db, c.new)]
    BY <1>3 DEF Asked
  <2> QED BY <1>1, <1>2, <1>3, <2>1
<1>4. CASE s = "ask_in"
  <2>1. Asked(s, c) = [c EXCEPT !.want = Upsert(db, c.ids)]
    BY <1>4 DEF Asked
  <2> QED BY <1>1, <1>2, <1>4, <2>1
<1>5. CASE s = "ask_out"
  <2>1. Asked(s, c) = [c EXCEPT !.want = Removal(db, c.ids)]
    BY <1>5 DEF Asked
  <2> QED BY <1>1, <1>2, <1>5, <2>1
<1>6. CASE s \notin {"ask_new", "ask_in", "ask_out"}
  <2>1. Asked(s, c) = [c EXCEPT !.want = Nothing]
    BY <1>6 DEF Asked
  <2> QED BY <1>2, <1>6, <2>1
<1> QED BY <1>3, <1>4, <1>5, <1>6

\* Calls that begin, go on and are undone.
LEMMA CallFacts ==
  ASSUME NEW c \in Calls, NEW S \in SUBSET Ids, NEW k \in UserKinds,
         NEW K \in SUBSET (RecordSet \cup {Nothing}), NEW l \in Seq(RecordSet)
  PROVE  /\ [c EXCEPT !.undo = TRUE] \in Calls /\ [c EXCEPT !.new = S] \in Calls
         /\ [Idle EXCEPT !.kind = k, !.ids = S] \in Calls
         /\ [Idle EXCEPT !.kind = "import", !.keys = K, !.left = l] \in Calls
         /\ [c EXCEPT !.left = l] \in Calls
<1>1. [c EXCEPT !.undo = TRUE] \in Calls /\ [c EXCEPT !.new = S] \in Calls
  BY DEF Calls
<1>2. [c EXCEPT !.left = l] \in Calls
  BY DEF Calls
<1>3. [Idle EXCEPT !.kind = k, !.ids = S] \in Calls
  BY IdleCall DEF Calls
<1>4. [Idle EXCEPT !.kind = "import", !.keys = K, !.left = l] \in Calls
  BY IdleCall DEF Calls
<1> QED BY <1>1, <1>2, <1>3, <1>4

\* A request that begins keeps every list one of its kind, with the change its swap
\* wants.
LEMMA RequestWork ==
  ASSUME StoreTypes, WorkTypes, NEW k \in UserKinds, NEW S \in SUBSET Ids, Request(k, S)
  PROVE  WorkTypes'
<1> DEFINE c == [Idle EXCEPT !.kind = k, !.ids = S]
<1>1. Continue(User, Plan(k), c)
  BY DEF Request
<1>2. c \in Calls /\ c.kind = k /\ c.undo = FALSE
  <2>1. <<>> \in Seq(RecordSet)
    BY EmptySeq
  <2>2. c \in Calls
    BY CallFacts, IdleCall, <2>1
  <2>3. c.kind = k /\ c.undo = FALSE
    BY IdleCall DEF Calls
  <2> QED BY <2>2, <2>3
<1>3. Plan(k) \in Lists(k, FALSE) /\ Head(Plan(k)) # "swap"
  BY PlanList DEF AllKinds
<1> HIDE DEF c
<1> QED BY <1>1, <1>2, <1>3, Placed, TwoWorkers

\* A step of a request or of the import keeps every list one of its kind, with the
\* change its swap wants.
LEMMA StepWork ==
  ASSUME StoreTypes, WorkTypes, NEW p \in Workers, Step(p)
  PROVE  WorkTypes'
<1> DEFINE s == Head(todo[p])  c == call[p]  t == Tail(todo[p])
<1>1. todo[p] # <<>> /\ Continue(p, t, Asked(s, c))
  BY DEF Step
<1>2. c \in Calls /\ c.kind \in Kinds(p)
  BY <1>1, AtWork
<1>3. t = <<>> \/ t \in Lists(c.kind, c.undo)
  BY <1>1, StepFacts
<1>4. t # <<>> /\ Head(t) = "swap" => s \in {"ask_new", "ask_in", "ask_out"}
  BY <1>1, StepFacts DEF Follows
<1>5. /\ Asked(s, c) \in Calls /\ Asked(s, c).kind = c.kind /\ Asked(s, c).undo = c.undo
      /\ s \in {"ask_new", "ask_in", "ask_out"} => Asked(s, c).want \in Changes
  BY <1>2, AskedFacts DEF StoreTypes
<1> HIDE DEF s, c, t
<1> QED BY <1>1, <1>2, <1>3, <1>4, <1>5, Placed

\* The insertion of the user's row keeps every list one of its kind, with the change its
\* swap wants.
LEMMA StoreWork ==
  ASSUME StoreTypes, WorkTypes, Store
  PROVE  WorkTypes'
<1> DEFINE c == call[User]  t == Tail(todo[User])  e == [c EXCEPT !.new = {db.next}]
<1>1. todo[User] # <<>> /\ Head(todo[User]) = "store" /\ Continue(User, t, e)
  BY DEF Store
<1>2. c \in Calls /\ c.kind \in Kinds(User)
  BY <1>1, AtWork, TwoWorkers
<1>3. t = <<>> \/ t \in Lists(c.kind, c.undo)
  BY <1>1, StepFacts, TwoWorkers
<1>4. t # <<>> /\ Head(t) = "ask_new"
  BY <1>1, StepFacts, TwoWorkers DEF Follows
<1>5. db.next \in Ids
  BY WorldFacts DEF Store, StoreTypes, Sane, Databases, Ids
<1>6. e \in Calls /\ e.kind = c.kind /\ e.undo = c.undo
  BY <1>2, <1>5 DEF Calls
<1> HIDE DEF c, t, e
<1> QED BY <1>1, <1>2, <1>3, <1>4, <1>6, Placed, TwoWorkers

\* A step that fails keeps every list one of its kind, with the change its swap wants.
LEMMA FailsWork ==
  ASSUME StoreTypes, WorkTypes, NEW p \in Workers, todo[p] # <<>>, Fails(p, Head(todo[p]), call[p])
  PROVE  WorkTypes'
<1> DEFINE s == Head(todo[p])  c == call[p]  e == [c EXCEPT !.undo = TRUE]
           ss == IF c.undo THEN Raised(p) ELSE Undo(c.kind, s)
<1>1. Continue(p, ss, e)
  BY DEF Fails
<1>2. c \in Calls /\ c.kind \in Kinds(p) /\ c.undo \in BOOLEAN /\ todo[p] \in Lists(c.kind, c.undo)
  BY AtWork
<1>3. e \in Calls /\ e.kind = c.kind /\ e.undo = TRUE
  BY <1>2 DEF Calls
<1>4. ss # <<>> => ss \in Lists(c.kind, TRUE) /\ Head(ss) # "swap"
  <2>1. CASE c.undo = FALSE
    BY <1>2, <2>1, Backward
  <2>2. CASE c.undo = TRUE /\ p = Import
    <3>1. c.kind = "import" /\ ss = J1
      BY <1>2, <2>2, TwoWorkers DEF Raised, J1
    <3>2. J1 \in Lists("import", TRUE) /\ Head(J1) = "raise"
      BY Table, ListsOf
    <3> QED BY <3>1, <3>2
  <2>3. CASE c.undo = TRUE /\ p # Import
    BY <2>3 DEF Raised
  <2> QED BY <1>2, <2>1, <2>2, <2>3
<1> HIDE DEF s, c, e, ss
<1> QED BY <1>1, <1>2, <1>3, <1>4, Placed

\* The records of a batch, which are distinct.
LEMMA BatchFacts ==
  ASSUME world \in Worlds, NEW n \in Nat
  PROVE  /\ UpTo(n) \in 0..world.records /\ n <= world.records => UpTo(n) = n
         /\ NextBatch(n) \in Seq(RecordSet)
         /\ \A a, b \in 1..Len(NextBatch(n)) : NextBatch(n)[a] = NextBatch(n)[b] => a = b
<1> DEFINE m == n + 1  k == UpTo(n + Batch)  l == NextBatch(n)
<1>1. world.records \in 0..Len(Records) /\ Batch \in Nat /\ Len(Records) \in Nat
  BY WorldFacts
<1>2. UpTo(n) \in 0..world.records /\ n <= world.records => UpTo(n) = n
  BY <1>1 DEF UpTo
<1>3. k \in 0..Len(Records) /\ m \in Int /\ k \in Int
  BY <1>1 DEF UpTo
<1>4. l = SubSeq(Records, m, k)
  BY DEF NextBatch
<1>5. Records \in Seq(RecordSet)
  BY MemoryAssumption
<1> HIDE DEF m, k, l
<1>6. \A i \in m..k : Records[i] \in RecordSet /\ i \in 1..Len(Records)
  BY <1>1, <1>3 DEF m, RecordSet
<1>7. /\ l \in Seq(RecordSet) /\ Len(l) = IF m <= k THEN k - m + 1 ELSE 0
      /\ \A i \in 1..k - m + 1 : l[i] = Records[m + i - 1]
  BY <1>3, <1>4, <1>6, SubSeqProperties
<1>8. ASSUME NEW a \in 1..Len(l), NEW b \in 1..Len(l), l[a] = l[b] PROVE a = b
  <2>1. a \in 1..k - m + 1 /\ b \in 1..k - m + 1
    BY <1>3, <1>7
  <2>2. m + a - 1 \in m..k /\ m + b - 1 \in m..k /\ a \in Int /\ b \in Int
    BY <1>3, <2>1
  <2>3. Records[m + a - 1] = Records[m + b - 1]
    BY <1>7, <1>8, <2>1
  <2>4. m + a - 1 = m + b - 1
    BY <1>6, <2>2, <2>3, MemoryAssumption
  <2> QED BY <1>3, <2>2, <2>4
<1> QED BY <1>2, <1>7, <1>8 DEF l

\* A change that is refused keeps every list one of its kind, with the change its swap
\* wants.
LEMMA RefuseWork ==
  ASSUME StoreTypes, WorkTypes, NEW p \in Workers, Refuse(p)
  PROVE  WorkTypes'
BY FailsWork DEF Refuse

\* A failure of the provider or the disk keeps every list one of its kind, with the
\* change its swap wants.
LEMMA FaultWork ==
  ASSUME StoreTypes, WorkTypes, NEW p \in Workers, Fault(p)
  PROVE  WorkTypes'
BY FailsWork DEF Fault

\* A cancelled request keeps every list one of its kind, with the change its swap wants.
LEMMA CancelWork ==
  ASSUME StoreTypes, WorkTypes, Cancel
  PROVE  WorkTypes'
<1>1. CASE call[User].kind = "edit"
  BY <1>1, FailsWork, TwoWorkers DEF Cancel
<1>2. CASE call[User].kind # "edit"
  BY <1>2, Placed, TwoWorkers DEF Cancel
<1> QED BY <1>1, <1>2

\* An import that begins or goes on keeps every list one of its kind, with the change
\* its swap wants.
LEMMA ImportBeginWork ==
  ASSUME StoreTypes, DiskTypes, WorkTypes, ImportBegin
  PROVE  WorkTypes'
<1> DEFINE c == [Idle EXCEPT !.kind = "import", !.keys = Known, !.left = NextBatch(cursor)]
<1>1. Continue(Import, Plan("import"), c)
  BY DEF ImportBegin
<1>2. Known \in SUBSET (RecordSet \cup {Nothing})
  BY DEF Known, StoreTypes, Sane, Databases
<1>3. NextBatch(cursor) \in Seq(RecordSet)
  BY BatchFacts, WorldFacts DEF StoreTypes, DiskTypes
<1>4. c \in Calls
  BY <1>2, <1>3, IdleCall DEF Calls
<1>5. c.kind = "import" /\ c.undo = FALSE
  BY IdleCall DEF Calls
<1>6. Plan("import") \in Lists("import", FALSE) /\ Head(Plan("import")) # "swap"
  BY PlanList DEF AllKinds
<1> HIDE DEF c
<1> QED BY <1>1, <1>4, <1>5, <1>6, Placed, TwoWorkers

\* An import that raises keeps every list one of its kind, with the change its swap
\* wants.
LEMMA ImportRaiseWork ==
  ASSUME WorkTypes, ImportRaise
  PROVE  WorkTypes'
BY Placed, TwoWorkers DEF ImportRaise

\* The checkpoint of the import keeps every list one of its kind, with the change its
\* swap wants.
LEMMA ImportSaveWork ==
  ASSUME StoreTypes, DiskTypes, WorkTypes, ImportSave
  PROVE  WorkTypes'
<1> DEFINE done == UpTo(cursor + Batch)
           c == [Idle EXCEPT !.kind = "import", !.left = NextBatch(done),
                   !.keys = call[Import].keys \cup {record[i] : i \in call[Import].new}]
<1>1. CASE Continue(Import, <<>>, Idle)
  BY <1>1, Placed, TwoWorkers
<1>2. CASE Continue(Import, Plan("import"), c)
  <2>1. done \in Nat
    <3>1. cursor + Batch \in Nat /\ world.records \in Nat
      BY WorldFacts DEF StoreTypes, DiskTypes
    <3> QED BY <3>1 DEF UpTo
  <2>2. NextBatch(done) \in Seq(RecordSet)
    BY <2>1, BatchFacts DEF StoreTypes
  <2>3. call[Import] \in Calls
    BY AtRest, TwoWorkers
  <2>4. call[Import].keys \cup {record[i] : i \in call[Import].new} \in SUBSET (RecordSet \cup {Nothing})
    <3>1. call[Import].keys \subseteq RecordSet \cup {Nothing} /\ call[Import].new \subseteq Ids
      BY <2>3 DEF Calls
    <3>2. \A i \in call[Import].new : record[i] \in RecordSet \cup {Nothing}
      BY <3>1 DEF StoreTypes
    <3> QED BY <3>1, <3>2
  <2>5. c \in Calls
    BY <2>2, <2>4, IdleCall DEF Calls
  <2>6. c.kind = "import" /\ c.undo = FALSE
    BY IdleCall DEF Calls
  <2>7. Plan("import") \in Lists("import", FALSE) /\ Head(Plan("import")) # "swap"
    BY PlanList DEF AllKinds
  <2> HIDE DEF c
  <2> QED BY <1>2, <2>5, <2>6, <2>7, Placed, TwoWorkers
<1>3. Continue(Import, <<>>, Idle) \/ Continue(Import, Plan("import"), c)
  BY DEF ImportSave
<1> QED BY <1>1, <1>2, <1>3

\* One record changes neither the kind nor the steps of the import.
LEMMA RecordCall ==
  ASSUME StoreTypes, WorkTypes, NEW r, call[Import].left # <<>>, ImportRecord(r)
  PROVE  /\ call' \in [Workers -> Calls] /\ call'[User] = call[User]
         /\ call'[Import].kind = call[Import].kind /\ call'[Import].undo = call[Import].undo
         /\ call'[Import].ids = call[Import].ids /\ call'[Import].want = call[Import].want
         /\ call'[Import].keys = call[Import].keys
         /\ call'[Import].left = Tail(call[Import].left)
<1> DEFINE c == call[Import]  l == Tail(call[Import].left)
<1>1. call \in [Workers -> Calls] /\ Import \in Workers /\ User \in Workers /\ User # Import
  BY TwoWorkers DEF WorkTypes
<1>2. c \in Calls /\ c.left \in Seq(RecordSet) /\ c.new \in SUBSET Ids
  BY <1>1 DEF Calls
<1>3. l \in Seq(RecordSet)
  BY <1>2, HeadTailProperties
<1>4. CASE call' = [call EXCEPT ![Import].left = Tail(@)]
  <2>1. call' = [call EXCEPT ![Import] = [c EXCEPT !.left = l]]
    BY <1>1, <1>4
  <2>2. [c EXCEPT !.left = l] \in Calls
    BY <1>2, <1>3 DEF Calls
  <2>3. call'[Import] = [c EXCEPT !.left = l] /\ call'[User] = call[User]
    BY <1>1, <2>1
  <2> QED BY <1>1, <1>2, <2>1, <2>2, <2>3 DEF Calls
<1>5. CASE /\ call' = [call EXCEPT ![Import].left = Tail(@), ![Import].new = @ \cup {db.next}]
           /\ db.next <= world.last
  <2>1. call' = [call EXCEPT ![Import] = [c EXCEPT !.left = l, !.new = c.new \cup {db.next}]]
    BY <1>1, <1>5
  <2>2. db.next \in Ids
    BY <1>5, WorldFacts DEF StoreTypes, Sane, Databases, Ids
  <2>3. [c EXCEPT !.left = l, !.new = c.new \cup {db.next}] \in Calls
    BY <1>2, <1>3, <2>2 DEF Calls
  <2>4. call'[Import] = [c EXCEPT !.left = l, !.new = c.new \cup {db.next}] /\ call'[User] = call[User]
    BY <1>1, <2>1
  <2> QED BY <1>1, <1>2, <2>1, <2>3, <2>4 DEF Calls
<1> QED BY <1>4, <1>5 DEF ImportRecord

\* A record of the import keeps every list one of its kind, with the change its swap
\* wants.
LEMMA ImportStoreWork ==
  ASSUME StoreTypes, WorkTypes, ImportStore
  PROVE  WorkTypes'
<1>1. /\ todo[Import] # <<>> /\ Head(todo[Import]) = "store"
      /\ call[Import] \in Calls /\ call[Import].kind \in Kinds(Import)
      /\ todo[Import] \in Lists(call[Import].kind, call[Import].undo)
  BY AtWork, TwoWorkers DEF ImportStore
<1>2. CASE call[Import].left # <<>>
  <2>1. PICK r : ImportRecord(r) /\ todo' = todo
    BY <1>2 DEF ImportStore
  <2>2. /\ call' \in [Workers -> Calls] /\ call'[User] = call[User]
        /\ call'[Import].kind = call[Import].kind /\ call'[Import].undo = call[Import].undo
    BY <1>2, <2>1, RecordCall
  <2> QED BY <1>1, <2>1, <2>2, TwoWorkers DEF WorkTypes, Place, Facing
<1>3. CASE call[Import].left = <<>>
  <2>1. Continue(Import, IF call[Import].new = {} THEN <<"save">> ELSE Tail(todo[Import]), call[Import])
    BY <1>3 DEF ImportStore
  <2>2. CASE call[Import].new = {}
    <3>1. I1 \in Lists("import", FALSE) /\ Head(I1) = "save" /\ I1 = <<"save">>
      BY Table, ListsOf DEF I1
    <3>2. call[Import].undo = FALSE
      BY <1>1, StepFacts, TwoWorkers DEF Belongs
    <3> QED BY <1>1, <2>1, <2>2, <3>1, <3>2, Placed, TwoWorkers
  <2>3. CASE call[Import].new # {}
    <3>1. Tail(todo[Import]) \in Lists(call[Import].kind, call[Import].undo)
      BY <1>1, StepFacts, TwoWorkers DEF Follows
    <3>2. Head(Tail(todo[Import])) = "ask_new"
      BY <1>1, StepFacts, TwoWorkers DEF Follows
    <3> QED BY <1>1, <2>1, <2>3, <3>1, <3>2, Placed, TwoWorkers
  <2> QED BY <2>2, <2>3
<1> QED BY <1>2, <1>3

\* A crash or an unload keeps every list one of its kind, with the change its swap
\* wants.
LEMMA DownWork ==
  ASSUME WorkTypes, todo' = [p \in {User, Import} |-> <<>>], call' = [p \in {User, Import} |-> Idle]
  PROVE  WorkTypes'
BY IdleCall DEF WorkTypes, Workers, Place

-----------------------------------------------------------------------------
\* Database, index and history keep their types.

\* The effect of a step is a database and an index.
LEMMA EffectTypes ==
  ASSUME StoreTypes, NEW c \in Calls, NEW s, Effect(s, c),
         s \in {"ask_new", "ask_in", "ask_out", "mark", "drop", "drop_new", "shelve", "unshelve",
                "back", "repair", "swap"},
         s = "swap" => c.want \in Changes
  PROVE  Sane(db') /\ index' \in Indexes
<1>1. Sane(db) /\ index \in Indexes /\ c.ids \in SUBSET Ids /\ c.new \in SUBSET Ids
  BY DEF StoreTypes, Calls
<1>2. CASE s \in {"ask_new", "ask_in", "ask_out", "mark"}
  <2>1. UNCHANGED data
    BY <1>2 DEF Effect, Write
  <2> QED BY <1>1, <2>1 DEF data
<1>3. CASE s = "drop"
  <2>1. db' = Dropped(db, c.ids) /\ index' = index
    BY <1>3 DEF Effect, Write
  <2> QED BY <1>1, <2>1, DroppedFacts
<1>4. CASE s = "drop_new"
  <2>1. db' = Dropped(db, c.new) /\ index' = index
    BY <1>4 DEF Effect, Write
  <2> QED BY <1>1, <2>1, DroppedFacts
<1>5. CASE s = "shelve"
  <2>1. db' = Shelved(db, c.ids) /\ index' = index
    BY <1>5 DEF Effect, Write
  <2> QED BY <1>1, <2>1, ShelvedFacts
<1>6. CASE s = "unshelve"
  <2>1. db' = Unshelved(db, c.ids) /\ index' = index
    BY <1>6 DEF Effect, Write
  <2> QED BY <1>1, <2>1, UnshelvedFacts
<1>7. CASE s = "back"
  <2>1. Back(c)
    BY <1>7 DEF Effect, Write
  <2> QED BY <1>1, <2>1, DroppedFacts DEF Back
<1>8. CASE s = "repair"
  <2>1. index' = Expected(db) /\ db' = db
    BY <1>8 DEF Effect, Repair, Write
  <2> QED BY <1>1, <2>1, IndexTypes
<1>9. CASE s = "swap"
  <2>1. index' = c.want.after /\ db' = db
    BY <1>9 DEF Effect, Write
  <2> QED BY <1>1, <1>9, <2>1 DEF Changes
<1> QED BY <1>2, <1>3, <1>4, <1>5, <1>6, <1>7, <1>8, <1>9

\* Roots of ids.
LEMMA RootsIn ==
  ASSUME StoreTypes, NEW S \in SUBSET Ids
  PROVE  {root[i] : i \in S} \in SUBSET Ids
BY DEF StoreTypes

\* The roots under edit are ids.
LEMMA EditedIn ==
  ASSUME StoreTypes, WorkTypes
  PROVE  Edited \in SUBSET Ids
<1>1. call[User].ids \in SUBSET Ids
  BY AtRest, TwoWorkers DEF Calls
<1> QED BY <1>1, RootsIn DEF Edited

\* A request that begins keeps the types of database, index and histories.
LEMMA RequestStore ==
  ASSUME StoreTypes, NEW k, NEW S, Request(k, S)
  PROVE  StoreTypes'
BY DEF Request, StoreTypes, data, disk, Sane

\* A step of a request or of the import keeps the types of database, index and
\* histories.
LEMMA StepStore ==
  ASSUME StoreTypes, WorkTypes, NEW p \in Workers, Step(p)
  PROVE  StoreTypes'
<1> DEFINE s == Head(todo[p])  c == call[p]
<1>1. /\ todo[p] # <<>> /\ s \notin {"store", "save", "raise"} /\ Effect(s, c)
      /\ acked' = Acknowledged(p, s, c)
  BY DEF Step
<1>2. c \in Calls /\ (s = "swap" => c.want \in Changes)
  BY <1>1, AtWork DEF Facing
<1>3. s \in {"ask_new", "swap", "mark", "ask_out", "drop", "drop_new", "back", "repair", "shelve",
             "unshelve", "ask_in"}
  BY <1>1, StepFacts
<1>4. Sane(db') /\ index' \in Indexes
  BY <1>1, <1>2, <1>3, EffectTypes
<1>5. {root[i] : i \in c.new \cap db.rows} \in SUBSET Ids
  BY <1>2, RootsIn DEF Calls
<1>6. acked' \subseteq Ids
  BY <1>1, <1>5 DEF Acknowledged, StoreTypes
<1>7. world' = world /\ root' = root /\ record' = record /\ cut' = cut /\ faults' = faults
  BY DEF Step, disk
<1> QED BY <1>4, <1>6, <1>7 DEF StoreTypes

\* The insertion of the user's row keeps the types of database, index and histories.
LEMMA StoreStore ==
  ASSUME StoreTypes, WorkTypes, Store
  PROVE  StoreTypes'
<1> DEFINE c == call[User]  b == c.ids \cap db.archived # {}
           o == IF c.ids = {} THEN db.next ELSE root[CHOOSE o \in c.ids : TRUE]
<1>1. db.next \in Ids /\ Sane(db)
  BY WorldFacts DEF Store, StoreTypes, Sane, Databases, Ids
<1>2. c.ids \in SUBSET Ids
  BY AtRest, TwoWorkers DEF Calls
<1>3. db' = Stored(db, db.next, b) /\ b \in BOOLEAN
  BY DEF Store
<1>4. Sane(db')
  BY <1>1, <1>3, StoredFacts
<1>5. o \in Ids
  <2>1. CASE c.ids = {}
    BY <1>1, <2>1
  <2>2. CASE c.ids # {}
    <3>1. (CHOOSE x \in c.ids : TRUE) \in c.ids
      BY <2>2
    <3> QED BY <1>2, <2>2, <3>1 DEF StoreTypes
  <2> QED BY <2>1, <2>2
<1>6. root' = [root EXCEPT ![db.next] = o] /\ record' = [record EXCEPT ![db.next] = Nothing]
  BY DEF Store
<1> HIDE DEF o
<1>7. root' \in [Ids -> Ids] /\ record' \in [Ids -> RecordSet \cup {Nothing}]
  BY <1>1, <1>5, <1>6 DEF StoreTypes
<1>8. /\ world' = world /\ index' = index /\ acked' = acked /\ cut' = cut /\ faults' = faults
  BY DEF Store, disk
<1> QED BY <1>4, <1>7, <1>8 DEF StoreTypes

\* A step that fails keeps the types of database, index and histories.
LEMMA FailsStore ==
  ASSUME StoreTypes, WorkTypes, NEW p \in Workers, NEW s, NEW c, Fails(p, s, c), Sane(db'),
         faults' \in 0..world.faults
  PROVE  StoreTypes'
<1>1. cut' \subseteq Ids
  BY EditedIn DEF Fails, StoreTypes
<1>2. world' = world /\ index' = index /\ root' = root /\ record' = record /\ acked' = acked
  BY DEF Fails, disk
<1> QED BY <1>1, <1>2 DEF StoreTypes

\* The count of faults stays within its bound.
LEMMA FaultCount ==
  ASSUME StoreTypes, faults < world.faults, faults' = faults + 1
  PROVE  faults' \in 0..world.faults
BY WorldFacts DEF StoreTypes

\* A change that is refused keeps the types of database, index and histories.
LEMMA RefuseStore ==
  ASSUME StoreTypes, WorkTypes, NEW p \in Workers, Refuse(p)
  PROVE  StoreTypes'
<1>1. Sane(db')
  <2>1. Sane(db)
    BY DEF StoreTypes
  <2>2. db' = db \/ db' = Shelved(db, call[p].ids)
    BY DEF Refuse
  <2> QED BY <2>1, <2>2, ShelvedFacts
<1>2. faults' \in 0..world.faults
  BY DEF Refuse, StoreTypes
<1> QED BY <1>1, <1>2, FailsStore DEF Refuse

\* A failure of the provider or the disk keeps the types of database, index and
\* histories.
LEMMA FaultStore ==
  ASSUME StoreTypes, WorkTypes, NEW p \in Workers, Fault(p)
  PROVE  StoreTypes'
<1>1. Sane(db')
  BY DEF Fault, StoreTypes
<1> QED BY <1>1, FaultCount, FailsStore DEF Fault

\* A cancelled request keeps the types of database, index and histories.
LEMMA CancelStore ==
  ASSUME StoreTypes, WorkTypes, Cancel
  PROVE  StoreTypes'
<1>1. faults' \in 0..world.faults
  BY FaultCount DEF Cancel
<1>2. CASE call[User].kind = "edit"
  <2>1. Sane(db')
    BY <1>2 DEF Cancel, StoreTypes
  <2> QED BY <1>1, <1>2, <2>1, FailsStore, TwoWorkers DEF Cancel
<1>3. CASE call[User].kind # "edit"
  <2>1. UNCHANGED <<data, disk, past>>
    BY <1>3 DEF Cancel
  <2> QED BY <1>1, <2>1 DEF data, disk, past, StoreTypes, Sane
<1> QED BY <1>2, <1>3

\* A record of the import keeps the types of database, index and histories.
LEMMA ImportStoreStore ==
  ASSUME StoreTypes, WorkTypes, ImportStore
  PROVE  StoreTypes'
<1>1. world' = world /\ index' = index /\ acked' = acked /\ cut' = cut
  BY DEF ImportStore, disk
<1>2. CASE db' = db /\ root' = root /\ record' = record /\ faults' \in 0..world.faults
  BY <1>1, <1>2 DEF StoreTypes
<1>3. ASSUME NEW r \in RecordSet, ImportRecord(r)
      PROVE  StoreTypes'
  <2>1. CASE db' = db /\ root' = root /\ record' = record
    BY <1>2, <1>3, <2>1, FaultCount DEF ImportRecord, StoreTypes
  <2>2. CASE /\ db.next <= world.last /\ db' = Stored(db, db.next, FALSE) /\ faults' = faults
             /\ root' = [root EXCEPT ![db.next] = db.next] /\ record' = [record EXCEPT ![db.next] = r]
    <3>1. db.next \in Ids /\ Sane(db)
      BY <2>2, WorldFacts DEF StoreTypes, Sane, Databases, Ids
    <3>2. Sane(db')
      BY <2>2, <3>1, StoredFacts
    <3>3. root' \in [Ids -> Ids] /\ record' \in [Ids -> RecordSet \cup {Nothing}]
      BY <2>2, <3>1 DEF StoreTypes
    <3> QED BY <1>1, <2>2, <3>2, <3>3 DEF StoreTypes
  <2> QED BY <1>3, <2>1, <2>2 DEF ImportRecord
<1>4. CASE call[Import].left # <<>>
  <2>1. call[Import].left \in Seq(RecordSet)
    BY AtRest, TwoWorkers DEF Calls
  <2>2. Head(call[Import].left) \in RecordSet
    BY <1>4, <2>1, HeadTailProperties
  <2> QED BY <1>3, <1>4, <2>2 DEF ImportStore
<1>5. CASE call[Import].left = <<>>
  BY <1>2, <1>5 DEF ImportStore, StoreTypes
<1> QED BY <1>4, <1>5

\* The checkpoint of the import keeps the types of database, index and histories.
LEMMA ImportSaveStore ==
  ASSUME StoreTypes, WorkTypes, ImportSave
  PROVE  StoreTypes'
<1>1. world' = world /\ db' = db /\ index' = index /\ root' = root /\ record' = record /\ cut' = cut
  BY DEF ImportSave, data
<1>2. faults' \in 0..world.faults
  BY FaultCount DEF ImportSave, StoreTypes
<1>3. call[Import].new \in SUBSET Ids
  BY AtRest, TwoWorkers DEF Calls
<1>4. {root[i] : i \in (call[Import].new \cap db.rows) \ Doomed} \in SUBSET Ids
  BY <1>3, RootsIn
<1>5. acked' \subseteq Ids
  BY <1>4 DEF ImportSave, StoreTypes
<1> QED BY <1>1, <1>2, <1>5 DEF StoreTypes

\* Tasks and rebuilds: what they write is of the right type.
LEMMA DerivedSane ==
  ASSUME Sane(db), NEW S \in SUBSET Ids, db' = [db EXCEPT !.derived = S]
  PROVE  /\ Sane(db') /\ db'.rows = db.rows /\ db'.archived = db.archived /\ db'.next = db.next
         /\ db'.derived = S
BY DEF Sane, Databases

\* The swap of the derivatives keeps the types of database, index and histories.
LEMMA SwapStore ==
  ASSUME StoreTypes, DiskTypes, SwapDerivatives
  PROVE  StoreTypes'
<1>1. Mine \in Shadows
  BY DEF SwapDerivatives, DiskTypes, Working
<1>2. Mine.db.derived \in SUBSET Ids
  BY <1>1 DEF Shadows, Databases
<1>3. Sane(db')
  BY <1>2, DerivedSane DEF SwapDerivatives, StoreTypes
<1>4. world' = world /\ index' = index /\ UNCHANGED past /\ faults' = faults
  BY DEF SwapDerivatives, disk
<1> QED BY <1>3, <1>4 DEF StoreTypes, past

\* The activation of the new index keeps the types of database, index and histories.
LEMMA ActivateStore ==
  ASSUME StoreTypes, DiskTypes, Activate
  PROVE  StoreTypes'
<1>1. Mine.index \in Indexes
  BY DEF Activate, DiskTypes, Working, Shadows, Write
<1>2. world' = world /\ db' = db /\ UNCHANGED past /\ faults' = faults
  BY DEF Activate, disk, Write
<1> QED BY <1>1, <1>2 DEF Activate, StoreTypes, past, Write

\* A rebuild that fails keeps the types of database, index and histories.
LEMMA RebuildFailsStore ==
  ASSUME StoreTypes, DiskTypes, RebuildFails
  PROVE  StoreTypes'
<1>1. rebuild.derived \in SUBSET Ids
  BY DEF DiskTypes
<1>2. Sane(db')
  <2>1. CASE rebuild.stage \in {"journal", "activate"}
    BY <1>1, <2>1, DerivedSane DEF RebuildFails, PutBack, StoreTypes
  <2>2. CASE rebuild.stage \notin {"journal", "activate"}
    BY <2>2 DEF RebuildFails, PutBack, StoreTypes
  <2> QED BY <2>1, <2>2
<1>3. world' = world /\ index' = index /\ UNCHANGED past
  BY DEF RebuildFails, PutBack
<1> QED BY <1>2, <1>3, FaultCount DEF RebuildFails, PutBack, StoreTypes, past

\* A step of a rollback, or its failure, keeps the types of database, index and
\* histories.
LEMMA RollbackStore ==
  ASSUME StoreTypes, DiskTypes, RollTypes, Rollback \/ RollbackFails
  PROVE  StoreTypes'
<1>1. undoing # "off" => saved \in Snapshots
  BY DEF RollTypes, DiskTypes
<1>2. CASE Stop \/ RolledBack \/ RollbackFails
  <2>1. /\ world' = world /\ db' = db /\ index' = index /\ UNCHANGED past
        /\ faults' = faults \/ (faults < world.faults /\ faults' = faults + 1)
    BY <1>2 DEF Stop, RolledBack, RollbackFails, data
  <2> QED BY <2>1, FaultCount DEF StoreTypes, past, Sane
<1>3. CASE Unload
  <2>1. /\ world' = world /\ db' = db /\ index' = Current /\ UNCHANGED past /\ faults' = faults
    BY <1>3 DEF Unload
  <2> QED BY <2>1 DEF StoreTypes, RollTypes, Current, past, Sane
<1>4. CASE RestoreDatabase
  <2>1. /\ world' = world /\ index' = index /\ root' = root /\ record' = record /\ faults' = faults
        /\ saved \in Snapshots
    BY <1>1, <1>4 DEF RestoreDatabase
  <2>2. Sane(db') /\ cut' \subseteq Ids /\ acked' \subseteq Ids
    <3>1. CASE saved.db = Nothing
      BY <1>4, <3>1 DEF RestoreDatabase, StoreTypes, Sane
    <3>2. CASE saved.db # Nothing
      <4>1. saved.cut \in SUBSET Ids /\ Sane(saved.db)
        BY <2>1, <3>2 DEF Snapshots, DiskTypes
      <4> QED BY <1>4, <3>2, <4>1 DEF RestoreDatabase, StoreTypes
    <3> QED BY <3>1, <3>2
  <2> QED BY <2>1, <2>2 DEF StoreTypes
<1>5. CASE RestoreIndex
  <2>1. /\ world' = world /\ UNCHANGED past /\ faults' = faults /\ index' \in {index, saved.index}
        /\ saved \in Snapshots
    BY <1>1, <1>5 DEF RestoreIndex
  <2>2. index' \in Indexes
    BY <2>1 DEF Snapshots, StoreTypes
  <2>3. Sane(db')
    BY <1>5, DerivedSane DEF RestoreIndex, PutBack, StoreTypes, DiskTypes
  <2> QED BY <2>1, <2>2, <2>3 DEF StoreTypes, past
<1> QED BY <1>2, <1>3, <1>4, <1>5 DEF Rollback

\* A crash or an unload keeps the types of database, index and histories.
LEMMA DownStore ==
  ASSUME StoreTypes, WorkTypes, RollTypes, Down
  PROVE  StoreTypes'
<1>1. cut' \subseteq Ids
  BY EditedIn DEF Down, StoreTypes
<1>2. index' \in Indexes
  BY DEF Down, Current, RollTypes, StoreTypes
<1> QED BY <1>1, <1>2, FaultCount DEF Down, StoreTypes, Sane

\* A restart keeps the types of database, index and histories.
LEMMA RestartStore ==
  ASSUME StoreTypes, DiskTypes, Restart
  PROVE  StoreTypes'
BY DEF Restart, StoreTypes, DiskTypes, past, Sane

-----------------------------------------------------------------------------
\* What tasks and rebuilds keep on disk keeps its types.

\* What leaves disk and rebuild alone keeps their types.
LEMMA DiskStays ==
  ASSUME DiskTypes, world' = world, journal' = journal, shadow' = shadow, saved' = saved,
         task' = task, cursor' = cursor, up' = up, rebuild' = rebuild
  PROVE  DiskTypes'
BY DEF DiskTypes, Mine

\* A change of the rebuild alone.
LEMMA StageTypes ==
  ASSUME DiskTypes, NEW st \in {"off", "reason", "copy", "seal"} \cup Working,
         world' = world, saved' = saved, task' = task, cursor' = cursor, up' = up,
         journal' \in {Nothing} \cup Indexes,
         shadow' \in [{"check", "task"} -> {Nothing} \cup Shadows],
         rebuild'.stage = st, rebuild'.kind \in {"check", "task"}, rebuild'.derived \in SUBSET Ids,
         rebuild' = [kind |-> rebuild'.kind, stage |-> rebuild'.stage, derived |-> rebuild'.derived],
         st \in Working => Mine' \in Shadows
  PROVE  DiskTypes'
BY DEF DiskTypes

\* The rebuild at its next stage.
LEMMA AtStage ==
  ASSUME DiskTypes, NEW st, At(st)
  PROVE  /\ rebuild'.stage = st /\ rebuild'.kind = rebuild.kind /\ rebuild'.derived = rebuild.derived
         /\ rebuild' = [kind |-> rebuild'.kind, stage |-> rebuild'.stage, derived |-> rebuild'.derived]
         /\ rebuild'.kind \in {"check", "task"} /\ rebuild'.derived \in SUBSET Ids
BY DEF DiskTypes, At

\* A rebuild that is off.
LEMMA OffStage ==
  /\ Off.stage = "off" /\ Off.kind = "check" /\ Off.derived = {}
  /\ Off = [kind |-> Off.kind, stage |-> Off.stage, derived |-> Off.derived]
BY DEF Off

\* Work directories with one of them deleted.
LEMMA NoWorkType ==
  ASSUME DiskTypes, NEW k
  PROVE  NoWork(k) \in [{"check", "task"} -> {Nothing} \cup Shadows]
BY DEF DiskTypes, NoWork

\* What the rebuild has written so far.
LEMMA MineType ==
  ASSUME DiskTypes
  PROVE  /\ rebuild.kind \in {"check", "task"} /\ Mine \in {Nothing} \cup Shadows
         /\ rebuild.stage \in Working => Mine \in Shadows
BY DEF DiskTypes, Mine

\* The replay brings the copy to what the database has now.
LEMMA ReplayedFacts ==
  ASSUME StoreTypes, DiskTypes, rebuild.stage \in Working
  PROVE  /\ Replayed \in [{"check", "task"} -> {Nothing} \cup Shadows]
         /\ Replayed[rebuild.kind] \in Shadows
         /\ Replayed[rebuild.kind].db.derived = Active(db)
         /\ Replayed[rebuild.kind].index = [docs |-> Active(db), graph |-> Active(db)]
<1> DEFINE k == rebuild.kind  d == [db EXCEPT !.derived = Active(db)]
           m == [shadow[k] EXCEPT !.db = d, !.index = Expected(d)]
<1>1. k \in {"check", "task"} /\ shadow[k] \in Shadows
  BY MineType DEF Mine
<1>2. Sane(db) /\ Active(db) \in SUBSET Ids /\ d \in Databases
  BY IndexTypes DEF StoreTypes
<1>3. Sane(d) /\ d.rows = db.rows /\ d.archived = db.archived /\ d.derived = Active(db)
  BY <1>2 DEF Sane, Databases
<1>4. Active(d) = Active(db) /\ Graph(d) = Active(db)
  BY <1>3 DEF Active, Graph
<1>5. Expected(d) = [docs |-> Active(db), graph |-> Active(db)] /\ Expected(d) \in Indexes
  BY <1>2, <1>4 DEF Expected, Indexes
<1>6. Replayed = [shadow EXCEPT ![k] = m]
  BY <1>1 DEF Replayed, DiskTypes
<1> HIDE DEF d
<1>7. m \in Shadows /\ m.db = d /\ m.index = Expected(d)
  BY <1>1, <1>2, <1>5 DEF Shadows
<1> HIDE DEF m
<1>8. Replayed[k] = m /\ Replayed \in [{"check", "task"} -> {Nothing} \cup Shadows]
  BY <1>1, <1>6, <1>7 DEF DiskTypes
<1> QED BY <1>3, <1>5, <1>7, <1>8

\* A task that begins keeps the types of journal, work directories, prestate and stage.
LEMMA TaskBeginDisk ==
  ASSUME StoreTypes, DiskTypes, RollTypes, NEW k \in {"rebuild", "import"}, TaskBegin(k)
  PROVE  DiskTypes'
<1>1. Prestate \in Snapshots /\ Prestate.db = Nothing
  BY DEF Prestate, Current, RollTypes, Snapshots, StoreTypes, DiskTypes
<1>2. Prestate # Nothing
  BY <1>1, MemoryAssumption
<1>3. /\ world' = world /\ journal' = journal /\ shadow' = shadow /\ up' = up /\ rebuild' = rebuild
      /\ task' = k /\ saved' = Prestate /\ cursor' = 0
  BY DEF TaskBegin, work
<1>4. 0 \in 0..world.records
  BY WorldFacts DEF StoreTypes
<1> QED BY <1>1, <1>2, <1>3, <1>4 DEF DiskTypes, Mine

\* The copy of the database a task keeps keeps the types of journal, work directories,
\* prestate and stage.
LEMMA SnapshotDisk ==
  ASSUME StoreTypes, DiskTypes, WorkTypes, Snapshot
  PROVE  DiskTypes'
<1>1. saved \in Snapshots
  BY DEF Snapshot, DiskTypes
<1>2. db \in Databases /\ Sane(db) /\ Edited \in SUBSET Ids
  BY EditedIn DEF StoreTypes, Sane
<1>3. saved' = [saved EXCEPT !.db = db, !.cut = Edited]
  BY DEF Snapshot
<1>4. saved' \in Snapshots /\ saved'.db = db
  BY <1>1, <1>2, <1>3 DEF Snapshots
<1>5. saved' # Nothing
  BY <1>4, MemoryAssumption
<1>6. /\ world' = world /\ journal' = journal /\ shadow' = shadow /\ up' = up /\ rebuild' = rebuild
      /\ task' = task /\ cursor' = cursor /\ task # "none"
  BY DEF Snapshot, work
<1> QED BY <1>2, <1>4, <1>5, <1>6 DEF DiskTypes, Mine

\* The checkpoint of the import keeps the types of journal, work directories, prestate
\* and stage.
LEMMA ImportSaveDisk ==
  ASSUME StoreTypes, DiskTypes, WorkTypes, ImportSave
  PROVE  DiskTypes'
<1>1. /\ world' = world /\ journal' = journal /\ shadow' = shadow /\ up' = up /\ rebuild' = rebuild
  BY DEF ImportSave
<1>2. \/ /\ cursor' = UpTo(cursor + Batch) /\ task' = task /\ saved' = saved
      \/ cursor' = 0 /\ task' = "none" /\ saved' = Nothing
  BY DEF ImportSave
<1>3. cursor + Batch \in Nat /\ world.records \in Nat
  BY WorldFacts DEF StoreTypes, DiskTypes
<1>4. UpTo(cursor + Batch) \in 0..world.records
  BY <1>3 DEF UpTo
<1>5. CASE cursor' = UpTo(cursor + Batch) /\ task' = task /\ saved' = saved
  BY <1>1, <1>4, <1>5 DEF DiskTypes, Mine
<1>6. CASE cursor' = 0 /\ task' = "none" /\ saved' = Nothing
  <2>1. Nothing \notin Snapshots
    BY MemoryAssumption
  <2> QED BY <1>1, <1>3, <1>6, <2>1 DEF DiskTypes, Mine
<1> QED BY <1>2, <1>5, <1>6

\* An import that raises keeps the types of journal, work directories, prestate and
\* stage.
LEMMA ImportRaiseDisk ==
  ASSUME DiskTypes, WorkTypes, Order, ImportRaise
  PROVE  DiskTypes'
BY DiskStays DEF ImportRaise

\* A rebuild task that begins keeps the types of journal, work directories, prestate and
\* stage.
LEMMA RebuildBeginDisk ==
  ASSUME DiskTypes, RebuildBegin
  PROVE  DiskTypes'
<1>1. /\ world' = world /\ journal' = journal /\ saved' = saved /\ task' = task /\ cursor' = cursor
      /\ up' = up /\ shadow' = NoWork("check")
      /\ rebuild' = [kind |-> "task", stage |-> "copy", derived |-> {}]
  BY DEF RebuildBegin
<1>2. "copy" \notin Working
  BY DEF Working
<1> QED BY <1>1, <1>2, NoWorkType DEF DiskTypes

\* The startup check keeps the types of journal, work directories, prestate and stage.
LEMMA ReasonDisk ==
  ASSUME DiskTypes, Reason
  PROVE  DiskTypes'
<1>1. /\ world' = world /\ journal' = journal /\ shadow' = shadow /\ saved' = saved /\ task' = task
      /\ cursor' = cursor /\ up' = up /\ (At("copy") \/ Ends)
  BY DEF Reason, disk
<1>2. "copy" \notin Working /\ "off" \notin Working
  BY DEF Working
<1>3. journal \in {Nothing} \cup Indexes /\ shadow \in [{"check", "task"} -> {Nothing} \cup Shadows]
  BY DEF DiskTypes
<1>4. CASE At("copy")
  BY <1>1, <1>2, <1>3, <1>4, AtStage, StageTypes
<1>5. CASE Ends
  BY <1>1, <1>2, <1>3, <1>5, OffStage, StageTypes DEF Ends
<1> QED BY <1>1, <1>4, <1>5

\* The copy of the database keeps the types of journal, work directories, prestate and
\* stage.
LEMMA CopyDisk ==
  ASSUME StoreTypes, DiskTypes, Copy
  PROVE  DiskTypes'
<1> DEFINE k == rebuild.kind
           m == IF Mine # Nothing THEN Mine
                ELSE [db |-> [db EXCEPT !.derived = Active(db)], index |-> Empty, print |-> Nothing]
<1>1. /\ world' = world /\ journal' = journal /\ saved' = saved /\ task' = task /\ cursor' = cursor
      /\ up' = up /\ shadow' = [shadow EXCEPT ![k] = m] /\ At("build")
  BY DEF Copy
<1>2. /\ Empty \in Indexes /\ [db EXCEPT !.derived = Active(db)] \in Databases
  BY IndexTypes DEF StoreTypes
<1>3. m \in Shadows
  <2>1. CASE Mine # Nothing
    BY <2>1, MineType
  <2>2. CASE Mine = Nothing
    BY <1>2, <2>2 DEF Shadows
  <2> QED BY <2>1, <2>2
<1>4. k \in {"check", "task"}
  BY MineType
<1>5. rebuild'.kind = k /\ rebuild'.stage = "build"
  BY <1>1, AtStage
<1> HIDE DEF m, k
<1>6. shadow' \in [{"check", "task"} -> {Nothing} \cup Shadows] /\ shadow'[k] = m
  BY <1>1, <1>3, <1>4 DEF DiskTypes
<1>7. Mine' \in Shadows
  BY <1>3, <1>5, <1>6 DEF Mine
<1>8. journal' \in {Nothing} \cup Indexes /\ "build" \in Working
  BY <1>1 DEF DiskTypes, Working
<1> QED BY <1>1, <1>6, <1>7, <1>8, AtStage, StageTypes

\* The new vectors keeps the types of journal, work directories, prestate and stage.
LEMMA BuildDisk ==
  ASSUME DiskTypes, Build
  PROVE  DiskTypes'
<1> DEFINE k == rebuild.kind  e == Expected(Mine.db)
           m == [shadow[k] EXCEPT !.print = e, !.index = e]
<1>1. /\ world' = world /\ journal' = journal /\ saved' = saved /\ task' = task /\ cursor' = cursor
      /\ up' = up /\ At("replay")
      /\ shadow' = [shadow EXCEPT ![k].print = e, ![k].index = e]
  BY DEF Build
<1>2. k \in {"check", "task"} /\ Mine \in Shadows /\ Mine = shadow[k]
  BY MineType DEF Build, Working, Mine
<1>3. e \in Indexes
  <2>1. Mine.db \in Databases
    BY <1>2 DEF Shadows
  <2> QED BY <2>1 DEF Expected, Active, Graph, Databases, Indexes
<1> HIDE DEF e
<1>4. m \in Shadows
  BY <1>2, <1>3 DEF Shadows
<1>5. shadow' = [shadow EXCEPT ![k] = m]
  BY <1>1, <1>2 DEF DiskTypes
<1>6. rebuild'.kind = k
  BY <1>1, AtStage
<1> HIDE DEF m, k
<1>7. shadow' \in [{"check", "task"} -> {Nothing} \cup Shadows] /\ shadow'[k] = m
  BY <1>2, <1>4, <1>5 DEF DiskTypes
<1>8. Mine' \in Shadows
  BY <1>4, <1>6, <1>7 DEF Mine
<1>9. journal' \in {Nothing} \cup Indexes /\ "replay" \in Working
  BY <1>1 DEF DiskTypes, Working
<1> QED BY <1>1, <1>7, <1>8, <1>9, AtStage, StageTypes

\* An interrupted rebuild keeps the types of journal, work directories, prestate and
\* stage.
LEMMA InterruptDisk ==
  ASSUME DiskTypes, Interrupt
  PROVE  DiskTypes'
<1>1. /\ world' = world /\ journal' = journal /\ shadow' = shadow /\ saved' = saved /\ task' = task
      /\ cursor' = cursor /\ up' = up /\ rebuild' = Off
  BY DEF Interrupt, disk, Ends
<1>2. "off" \notin Working
  BY DEF Working
<1>3. journal \in {Nothing} \cup Indexes /\ shadow \in [{"check", "task"} -> {Nothing} \cup Shadows]
  BY DEF DiskTypes
<1> QED BY <1>1, <1>2, <1>3, OffStage, StageTypes

\* The replay of what was written since keeps the types of journal, work directories,
\* prestate and stage.
LEMMA ReplayDisk ==
  ASSUME StoreTypes, DiskTypes, Replay
  PROVE  DiskTypes'
<1>1. /\ world' = world /\ journal' = journal /\ saved' = saved /\ task' = task /\ cursor' = cursor
      /\ up' = up /\ At("wait") /\ shadow' = Replayed
  BY DEF Replay
<1>2. rebuild.stage \in Working /\ "wait" \in Working
  BY DEF Replay, Working
<1>3. shadow' \in [{"check", "task"} -> {Nothing} \cup Shadows] /\ shadow'[rebuild.kind] \in Shadows
  BY <1>1, <1>2, ReplayedFacts
<1>4. Mine' \in Shadows
  BY <1>1, <1>3, AtStage DEF Mine
<1>5. journal' \in {Nothing} \cup Indexes
  BY <1>1 DEF DiskTypes
<1> QED BY <1>1, <1>2, <1>3, <1>4, <1>5, AtStage, StageTypes

\* The barrier: the stage and the derivatives a failure puts back.
LEMMA BarrierFacts ==
  ASSUME StoreTypes, DiskTypes, CloseBarrier
  PROVE  /\ rebuild'.kind = rebuild.kind /\ rebuild'.stage = "swap" /\ rebuild'.derived = db.derived
         /\ rebuild' = [kind |-> rebuild'.kind, stage |-> rebuild'.stage, derived |-> rebuild'.derived]
         /\ rebuild'.kind \in {"check", "task"} /\ rebuild'.derived \in SUBSET Ids
<1>1. rebuild' = [rebuild EXCEPT !.stage = "swap", !.derived = db.derived]
  BY DEF CloseBarrier
<1>2. db.derived \in SUBSET Ids
  BY DEF StoreTypes, Sane, Databases
<1> QED BY <1>1, <1>2 DEF DiskTypes

\* The barrier that closes keeps the types of journal, work directories, prestate and
\* stage.
LEMMA CloseBarrierDisk ==
  ASSUME StoreTypes, DiskTypes, CloseBarrier
  PROVE  DiskTypes'
<1>1. /\ world' = world /\ journal' = journal /\ saved' = saved /\ task' = task /\ cursor' = cursor
      /\ up' = up /\ shadow' = Replayed
  BY DEF CloseBarrier
<1>2. rebuild.stage \in Working /\ "swap" \in Working
  BY DEF CloseBarrier, Working
<1>3. shadow' \in [{"check", "task"} -> {Nothing} \cup Shadows] /\ shadow'[rebuild.kind] \in Shadows
  BY <1>1, <1>2, ReplayedFacts
<1>4. Mine' \in Shadows
  BY <1>1, <1>3, BarrierFacts DEF Mine
<1>5. journal' \in {Nothing} \cup Indexes
  BY <1>1 DEF DiskTypes
<1> QED BY <1>1, <1>2, <1>3, <1>4, <1>5, BarrierFacts, StageTypes

\* A stage that writes at most the journal.
LEMMA StageDisk ==
  ASSUME DiskTypes, NEW st \in Working \cup {"seal"}, rebuild.stage \in Working, At(st),
         world' = world, shadow' = shadow, saved' = saved, task' = task, cursor' = cursor, up' = up,
         journal' \in {Nothing} \cup Indexes
  PROVE  DiskTypes'
<1>1. Mine' \in Shadows
  BY AtStage, MineType DEF Mine
<1>2. shadow' \in [{"check", "task"} -> {Nothing} \cup Shadows]
  BY DEF DiskTypes
<1> QED BY <1>1, <1>2, AtStage, StageTypes

\* The swap of the derivatives keeps the types of journal, work directories, prestate
\* and stage.
LEMMA SwapDisk ==
  ASSUME DiskTypes, SwapDerivatives
  PROVE  DiskTypes'
<1>1. /\ world' = world /\ journal' = journal /\ shadow' = shadow /\ saved' = saved /\ task' = task
      /\ cursor' = cursor /\ up' = up /\ At("journal") /\ rebuild.stage = "swap"
  BY DEF SwapDerivatives, disk
<1>2. "swap" \in Working /\ "journal" \in Working /\ journal \in {Nothing} \cup Indexes
  BY DEF Working, DiskTypes
<1> QED BY <1>1, <1>2, StageDisk

\* The journal entry of the activation keeps the types of journal, work directories,
\* prestate and stage.
LEMMA NoteDisk ==
  ASSUME DiskTypes, Note
  PROVE  DiskTypes'
<1>1. /\ world' = world /\ shadow' = shadow /\ saved' = saved /\ task' = task
      /\ cursor' = cursor /\ up' = up /\ At("activate") /\ rebuild.stage = "journal"
      /\ journal' = Mine.index
  BY DEF Note
<1>2. "journal" \in Working /\ "activate" \in Working
  BY DEF Working
<1>3. journal' \in Indexes
  BY <1>1, <1>2, MineType DEF Shadows
<1> QED BY <1>1, <1>2, <1>3, StageDisk

\* The activation of the new index keeps the types of journal, work directories,
\* prestate and stage.
LEMMA ActivateDisk ==
  ASSUME DiskTypes, Activate
  PROVE  DiskTypes'
<1>1. /\ world' = world /\ journal' = journal /\ shadow' = shadow /\ saved' = saved /\ task' = task
      /\ cursor' = cursor /\ up' = up /\ At("seal") /\ rebuild.stage = "activate"
  BY DEF Activate, disk, Write
<1>2. "activate" \in Working /\ journal \in {Nothing} \cup Indexes
  BY DEF Working, DiskTypes
<1> QED BY <1>1, <1>2, StageDisk

\* A rebuild that is over.
LEMMA OffDisk ==
  ASSUME DiskTypes, rebuild' = Off, world' = world, up' \in BOOLEAN,
         journal' \in {Nothing} \cup Indexes,
         shadow' \in [{"check", "task"} -> {Nothing} \cup Shadows],
         cursor' \in 0..world.records,
         \/ saved' = saved /\ task' = task
         \/ saved' = Nothing /\ task' = "none"
  PROVE  DiskTypes'
<1>1. "off" \notin Working
  BY DEF Working
<1>2. /\ saved' \in {Nothing} \cup Snapshots /\ (task' = "none") = (saved' = Nothing)
      /\ saved' \in Snapshots => saved'.db \in {Nothing} \cup {d \in Databases : Sane(d)}
      /\ task' \in {"none", "rebuild", "import"}
  BY MemoryAssumption DEF DiskTypes
<1> QED BY <1>1, <1>2 DEF DiskTypes, Off

\* A rebuild that ends keeps the types of journal, work directories, prestate and stage.
LEMMA DoneDisk ==
  ASSUME DiskTypes, Done
  PROVE  DiskTypes'
<1>1. /\ rebuild' = Off /\ world' = world /\ up' = up /\ journal' = Nothing /\ cursor' = cursor
      /\ shadow' = NoWork(rebuild.kind)
      /\ (saved' = saved /\ task' = task) \/ (saved' = Nothing /\ task' = "none")
  BY DEF Done, Ends
<1>2. up \in BOOLEAN /\ cursor \in 0..world.records
  BY DEF DiskTypes
<1>3. shadow' \in [{"check", "task"} -> {Nothing} \cup Shadows]
  BY <1>1, NoWorkType
<1> QED BY <1>1, <1>2, <1>3, OffDisk

\* A rebuild that fails keeps the types of journal, work directories, prestate and
\* stage.
LEMMA RebuildFailsDisk ==
  ASSUME DiskTypes, Order, RebuildFails
  PROVE  DiskTypes'
<1>1. /\ rebuild' = Off /\ world' = world /\ up' = up /\ cursor' = cursor /\ saved' = saved
      /\ journal' \in {Nothing, journal} /\ shadow' = NoWork("check")
      /\ task' = task
  BY DEF RebuildFails, Ends, PutBack
<1>2. up \in BOOLEAN /\ cursor \in 0..world.records /\ journal \in {Nothing} \cup Indexes
  BY DEF DiskTypes
<1>3. shadow' \in [{"check", "task"} -> {Nothing} \cup Shadows]
  BY <1>1, NoWorkType
<1> QED BY <1>1, <1>2, <1>3, OffDisk

\* A step of a rollback, or its failure, keeps the types of journal, work directories,
\* prestate and stage.
LEMMA RollbackDisk ==
  ASSUME StoreTypes, DiskTypes, RollTypes, Rollback \/ RollbackFails
  PROVE  DiskTypes'
<1>1. CASE Stop \/ RestoreDatabase \/ RollbackFails
  BY <1>1, DiskStays DEF Stop, RestoreDatabase, RollbackFails, work
<1>2. /\ cursor \in 0..world.records /\ journal \in {Nothing} \cup Indexes /\ up \in BOOLEAN
      /\ 0 \in 0..world.records
  BY WorldFacts DEF StoreTypes, DiskTypes
<1>3. NoWork("check") \in [{"check", "task"} -> {Nothing} \cup Shadows]
  BY NoWorkType
<1>4. CASE Unload
  <2>1. /\ rebuild' = Off /\ world' = world /\ up' = FALSE /\ journal' = journal /\ cursor' = cursor
        /\ shadow' = NoWork("check") /\ saved' = saved /\ task' = task
    BY <1>4 DEF Unload
  <2> QED BY <1>2, <1>3, <2>1, OffDisk
<1>5. CASE RestoreIndex
  <2>1. /\ world' = world /\ up' = up /\ journal' \in {Nothing, journal} /\ cursor' = cursor
        /\ shadow' = NoWork("check") /\ saved' = saved /\ task' = task
    BY <1>5 DEF RestoreIndex
  <2>2. CASE rebuild' = Off
    BY <1>2, <1>3, <2>1, <2>2, OffDisk
  <2>3. CASE rebuild' = rebuild /\ rebuild.stage \in {"off", "reason", "seal"}
    <3>1. rebuild'.stage \notin Working
      BY <2>3 DEF Working
    <3> QED BY <1>2, <1>3, <2>1, <2>3, <3>1 DEF DiskTypes
  <2> QED BY <1>5, <2>2, <2>3 DEF RestoreIndex, Ends
<1>6. CASE RolledBack
  <2>1. /\ world' = world /\ up' = up /\ journal' = journal /\ cursor' = 0
        /\ shadow' = NoWork("task") /\ saved' = Nothing /\ task' = "none" /\ rebuild' = rebuild
    BY <1>6 DEF RolledBack, work
  <2>2. NoWork("task") \in [{"check", "task"} -> {Nothing} \cup Shadows]
    BY NoWorkType
  <2>3. rebuild.stage \in Working => Mine' = Mine
    <3>1. rebuild.kind = "check"
      BY <1>6 DEF RolledBack, RollTypes
    <3> QED BY <2>1, <3>1 DEF Mine, NoWork, DiskTypes
  <2> QED BY <1>2, <2>1, <2>2, <2>3, MemoryAssumption DEF DiskTypes
<1> QED BY <1>1, <1>4, <1>5, <1>6 DEF Rollback

\* A crash or an unload keeps the types of journal, work directories, prestate and
\* stage.
LEMMA DownDisk ==
  ASSUME DiskTypes, Down
  PROVE  DiskTypes'
<1>1. /\ rebuild' = Off /\ world' = world /\ up' = FALSE /\ cursor' = cursor /\ saved' = saved
      /\ task' = task /\ journal' = journal /\ shadow' = NoWork("check")
  BY DEF Down
<1>2. cursor \in 0..world.records /\ journal \in {Nothing} \cup Indexes
  BY DEF DiskTypes
<1>3. shadow' \in [{"check", "task"} -> {Nothing} \cup Shadows]
  BY <1>1, NoWorkType
<1> QED BY <1>1, <1>2, <1>3, OffDisk

\* A restart keeps the types of journal, work directories, prestate and stage.
LEMMA RestartDisk ==
  ASSUME DiskTypes, Restart
  PROVE  DiskTypes'
<1>1. /\ world' = world /\ journal' = Nothing /\ shadow' = shadow /\ saved' = saved /\ task' = task
      /\ cursor' = cursor /\ up' = TRUE
      /\ rebuild' = [kind |-> "check", stage |-> "reason", derived |-> {}]
  BY DEF Restart
<1>2. "reason" \notin Working
  BY DEF Working
<1> QED BY <1>1, <1>2 DEF DiskTypes

-----------------------------------------------------------------------------
\* Who runs what.

\* What leaves requests, rebuild and task alone keeps their order.
LEMMA OrderStays ==
  ASSUME Order, up' = up, rebuild' = rebuild, task' = task, todo' = todo
  PROVE  Order'
BY DEF Order

\* Whoever has steps left goes on.
LEMMA OrderMoves ==
  ASSUME Order, WorkTypes, NEW p \in Workers, NEW ss, NEW c, todo[p] # <<>>, Continue(p, ss, c),
         up' = up, rebuild' = rebuild, task' = task
  PROVE  Order'
<1>1. CASE p = User
  <2>1. todo'[Import] = todo[Import] /\ todo[User] # <<>>
    BY <1>1, Continued, TwoWorkers
  <2> QED BY <2>1 DEF Order
<1>2. CASE p = Import
  <2>1. todo'[User] = todo[User] /\ todo[Import] # <<>>
    BY <1>2, Continued, TwoWorkers
  <2> QED BY <2>1 DEF Order
<1> QED BY <1>1, <1>2 DEF Workers

\* A request that begins keeps the order of requests, rebuild and task.
LEMMA RequestOrder ==
  ASSUME Order, WorkTypes, NEW k, NEW S, Request(k, S)
  PROVE  Order'
<1>1. todo'[Import] = todo[Import]
  BY Continued, TwoWorkers DEF Request
<1>2. up /\ rebuild.stage \notin Barrier /\ up' = up /\ rebuild' = rebuild /\ task' = task
  BY DEF Request, Locked, disk
<1> QED BY <1>1, <1>2 DEF Order

\* A step of a request or of the import keeps the order of requests, rebuild and task.
LEMMA StepOrder ==
  ASSUME Order, WorkTypes, NEW p \in Workers, Step(p)
  PROVE  Order'
<1>1. todo[p] # <<>> /\ Continue(p, Tail(todo[p]), Asked(Head(todo[p]), call[p]))
  BY DEF Step
<1>2. up' = up /\ rebuild' = rebuild /\ task' = task
  BY DEF Step, disk
<1> QED BY <1>1, <1>2, OrderMoves

\* The insertion of the user's row keeps the order of requests, rebuild and task.
LEMMA StoreOrder ==
  ASSUME Order, WorkTypes, Store
  PROVE  Order'
<1>1. todo[User] # <<>> /\ Continue(User, Tail(todo[User]), [call[User] EXCEPT !.new = {db.next}])
  BY DEF Store
<1>2. up' = up /\ rebuild' = rebuild /\ task' = task
  BY DEF Store, disk
<1> QED BY <1>1, <1>2, OrderMoves, TwoWorkers

\* A step that fails keeps the order of requests, rebuild and task.
LEMMA FailsOrder ==
  ASSUME Order, WorkTypes, NEW p \in Workers, todo[p] # <<>>, NEW s, NEW c, Fails(p, s, c)
  PROVE  Order'
<1>1. Continue(p, IF c.undo THEN Raised(p) ELSE Undo(c.kind, s), [c EXCEPT !.undo = TRUE])
  BY DEF Fails
<1>2. up' = up /\ rebuild' = rebuild /\ task' = task
  BY DEF Fails, disk
<1> QED BY <1>1, <1>2, OrderMoves

\* A cancelled request keeps the order of requests, rebuild and task.
LEMMA CancelOrder ==
  ASSUME Order, WorkTypes, Cancel
  PROVE  Order'
<1>1. CASE call[User].kind = "edit"
  BY <1>1, FailsOrder, TwoWorkers DEF Cancel
<1>2. CASE call[User].kind # "edit"
  <2>1. todo[User] # <<>> /\ Continue(User, <<>>, Idle)
    BY <1>2 DEF Cancel
  <2>2. up' = up /\ rebuild' = rebuild /\ task' = task
    BY <1>2 DEF Cancel, disk
  <2> QED BY <2>1, <2>2, OrderMoves, TwoWorkers
<1> QED BY <1>1, <1>2

\* An import that begins or goes on keeps the order of requests, rebuild and task.
LEMMA ImportBeginOrder ==
  ASSUME Order, WorkTypes, ImportBegin
  PROVE  Order'
<1>1. todo'[User] = todo[User]
  BY Continued, TwoWorkers DEF ImportBegin
<1>2. up /\ up' = up /\ rebuild' = rebuild /\ task' = task /\ task = "import"
  BY DEF ImportBegin, disk
<1> QED BY <1>1, <1>2 DEF Order

\* A record of the import keeps the order of requests, rebuild and task.
LEMMA ImportStoreOrder ==
  ASSUME Order, WorkTypes, ImportStore
  PROVE  Order'
<1>1. up' = up /\ rebuild' = rebuild /\ task' = task /\ todo[Import] # <<>>
  BY DEF ImportStore, disk
<1>2. \/ todo' = todo
      \/ Continue(Import, IF call[Import].new = {} THEN <<"save">> ELSE Tail(todo[Import]), call[Import])
  BY DEF ImportStore
<1> QED BY <1>1, <1>2, OrderMoves, OrderStays, TwoWorkers

\* The import goes on or ends, and its task with it.
LEMMA ImportEnds ==
  ASSUME Order, WorkTypes, todo[Import] # <<>>, NEW ss, NEW c, Continue(Import, ss, c),
         up' = up, rebuild' = rebuild, task' = task \/ ss = <<>>
  PROVE  Order'
<1>1. todo'[User] = todo[User] /\ todo'[Import] = ss
  BY Continued, TwoWorkers
<1>2. rebuild.kind = "task" => FALSE
  BY DEF Order
<1> QED BY <1>1, <1>2 DEF Order

\* The checkpoint of the import keeps the order of requests, rebuild and task.
LEMMA ImportSaveOrder ==
  ASSUME Order, WorkTypes, ImportSave
  PROVE  Order'
<1>1. todo[Import] # <<>> /\ up' = up /\ rebuild' = rebuild
  BY DEF ImportSave
<1>2. \/ Continue(Import, <<>>, Idle)
      \/ /\ Continue(Import, Plan("import"),
              [Idle EXCEPT !.kind = "import", !.left = NextBatch(UpTo(cursor + Batch)),
                   !.keys = call[Import].keys \cup {record[i] : i \in call[Import].new}])
         /\ task' = task
  BY DEF ImportSave
<1> QED BY <1>1, <1>2, ImportEnds

\* An import that raises keeps the order of requests, rebuild and task.
LEMMA ImportRaiseOrder ==
  ASSUME Order, WorkTypes, ImportRaise
  PROVE  Order'
<1>1. todo[Import] # <<>>
  BY Table DEF ImportRaise, J1
<1>2. up' = up /\ rebuild' = rebuild /\ Continue(Import, <<>>, Idle)
  BY DEF ImportRaise
<1> QED BY <1>1, <1>2, ImportEnds

\* Tasks begin and snapshots are taken beside everything else.
LEMMA TaskBeginOrder ==
  ASSUME Order, NEW k, TaskBegin(k)
  PROVE  Order'
BY DEF Order, TaskBegin, work

\* The copy of the database a task keeps keeps the order of requests, rebuild and task.
LEMMA SnapshotOrder ==
  ASSUME Order, Snapshot
  PROVE  Order'
BY OrderStays DEF Snapshot, work

\* A rebuild task that begins keeps the order of requests, rebuild and task.
LEMMA RebuildBeginOrder ==
  ASSUME Order, RebuildBegin
  PROVE  Order'
BY DEF Order, RebuildBegin, Barrier

\* A stage of the rebuild that stays before the barrier, or in it.
LEMMA StageOrder ==
  ASSUME Order, DiskTypes, NEW st, rebuild'.stage = st, rebuild'.kind = rebuild.kind,
         st \notin {"off", "reason"}, rebuild.stage # "off",
         st \in Barrier => todo[User] = <<>>, up' = up, todo' = todo, task' = task
  PROVE  Order'
BY DEF Order

\* A rebuild that ends keeps the order.
LEMMA OffOrder ==
  ASSUME Order, rebuild' = Off, up' = up, todo' = todo, todo[Import] # <<>> => task' = task
  PROVE  Order'
BY DEF Order, Off, Barrier

\* Every stage of a rebuild keeps the order.
LEMMA RebuildsOrder ==
  ASSUME Order, StoreTypes, DiskTypes,
         \/ Reason \/ Copy \/ Build \/ Interrupt \/ Replay \/ CloseBarrier \/ SwapDerivatives
         \/ Note \/ Activate \/ Done \/ RebuildFails
  PROVE  Order'
<1>1. CASE Reason
  <2>1. rebuild.stage = "reason" /\ up' = up /\ todo' = todo /\ task' = task /\ (At("copy") \/ Ends)
    BY <1>1 DEF Reason, disk
  <2>2. CASE At("copy")
    BY <2>1, <2>2, AtStage, StageOrder DEF Barrier
  <2>3. CASE Ends
    BY <2>1, <2>3, OffOrder DEF Ends
  <2> QED BY <2>1, <2>2, <2>3
<1>2. CASE Copy
  BY <1>2, AtStage, StageOrder DEF Copy, Barrier
<1>3. CASE Build
  BY <1>3, AtStage, StageOrder DEF Build, Barrier
<1>4. CASE Interrupt
  BY <1>4, OffOrder DEF Interrupt, Ends, disk
<1>5. CASE Replay
  BY <1>5, AtStage, StageOrder DEF Replay, Barrier
<1>6. CASE CloseBarrier
  <2>1. rebuild.stage = "wait" /\ ~Locked /\ up' = up /\ todo' = todo /\ task' = task
    BY <1>6 DEF CloseBarrier
  <2> QED BY <1>6, <2>1, BarrierFacts, StageOrder DEF Locked
<1>7. CASE SwapDerivatives
  <2>1. rebuild.stage = "swap" /\ up' = up /\ todo' = todo /\ task' = task /\ At("journal")
    BY <1>7 DEF SwapDerivatives, disk
  <2> QED BY <2>1, AtStage, StageOrder DEF Order, Barrier
<1>8. CASE Note
  <2>1. rebuild.stage = "journal" /\ up' = up /\ todo' = todo /\ task' = task /\ At("activate")
    BY <1>8 DEF Note
  <2> QED BY <2>1, AtStage, StageOrder DEF Order, Barrier
<1>9. CASE Activate
  <2>1. rebuild.stage = "activate" /\ up' = up /\ todo' = todo /\ task' = task /\ At("seal")
    BY <1>9 DEF Activate, disk, Write
  <2> QED BY <2>1, AtStage, StageOrder DEF Order, Barrier
<1>10. CASE Done
  <2>1. /\ rebuild' = Off /\ up' = up /\ todo' = todo
        /\ task' = task \/ rebuild.kind = "task"
    BY <1>10 DEF Done, Ends
  <2>2. rebuild.kind = "task" => todo[Import] = <<>>
    BY DEF Order
  <2> QED BY <2>1, <2>2, OffOrder
<1>11. CASE RebuildFails
  <2>1. /\ rebuild' = Off /\ up' = up /\ todo' = todo
        /\ task' = task \/ rebuild.kind = "task"
    BY <1>11 DEF RebuildFails, Ends, PutBack
  <2>2. rebuild.kind = "task" => todo[Import] = <<>>
    BY DEF Order
  <2> QED BY <2>1, <2>2, OffOrder
<1> QED BY <1>1, <1>2, <1>3, <1>4, <1>5, <1>6, <1>7, <1>8, <1>9, <1>10, <1>11

\* A step of a rollback, or its failure, keeps the order of requests, rebuild and task.
LEMMA RollbackOrder ==
  ASSUME Order, RollTypes, Rollback \/ RollbackFails
  PROVE  Order'
<1>1. CASE Stop \/ RestoreDatabase \/ RollbackFails
  BY <1>1, OrderStays DEF Stop, RestoreDatabase, RollbackFails, work
<1>2. CASE Unload
  <2>1. todo' = todo /\ todo[Import] = <<>> /\ todo[User] = <<>> /\ rebuild' = Off
    BY <1>2 DEF Unload, RollTypes
  <2> QED BY <2>1 DEF Order, Off, Barrier
<1>3. CASE RestoreIndex
  <2>1. todo' = todo /\ up' = up /\ task' = task /\ (rebuild' = rebuild \/ rebuild' = Off)
    BY <1>3 DEF RestoreIndex, Ends
  <2> QED BY <2>1, OrderStays, OffOrder
<1>4. CASE RolledBack
  <2>1. todo' = todo /\ up' = up /\ rebuild' = rebuild /\ rebuild.kind = "check" /\ todo[Import] = <<>>
    BY <1>4 DEF RolledBack, RollTypes, work
  <2> QED BY <2>1 DEF Order
<1> QED BY <1>1, <1>2, <1>3, <1>4 DEF Rollback

\* A crash or an unload keeps the order of requests, rebuild and task.
LEMMA DownOrder ==
  ASSUME Down
  PROVE  Order'
<1>1. todo'[User] = <<>> /\ todo'[Import] = <<>> /\ rebuild' = Off
  BY DEF Down
<1> QED BY <1>1 DEF Order, Off, Barrier

\* A restart keeps the order of requests, rebuild and task.
LEMMA RestartOrder ==
  ASSUME Order, Restart
  PROVE  Order'
<1>1. todo' = todo /\ todo[Import] = <<>> /\ todo[User] = <<>> /\ up' = TRUE
  BY DEF Restart, Order
<1>2. rebuild'.stage = "reason" /\ rebuild'.kind = "check"
  BY DEF Restart
<1> QED BY <1>1, <1>2 DEF Order, Barrier

-----------------------------------------------------------------------------
\* Types and order, step by step.

Base    == Types /\ Order
TypeInv == Base /\ RollTypes

\* Types and order hold at first.
LEMMA TypesInit ==
  ASSUME Init
  PROVE  TypeInv
<1>1. /\ world.first \in 1..world.last /\ world.last \in 1..MaxId /\ world.records \in Nat
      /\ world \in Worlds /\ world.faults \in Nat /\ MaxId \in Nat
  BY WorldFacts DEF Init
<1>2. PICK g \in {{}, 1..world.first} :
        db = [rows |-> 1..world.first, archived |-> {}, derived |-> g, next |-> world.first + 1]
  BY DEF Init
<1>3. Sane(db) /\ 1..world.first \subseteq Ids
  BY <1>1, <1>2 DEF Sane, Databases, Ids
<1>4. index \in Indexes
  BY <1>3, IndexTypes DEF Init
<1>5. root \in [Ids -> Ids] /\ record \in [Ids -> RecordSet \cup {Nothing}]
  BY DEF Init
<1>6. StoreTypes
  BY <1>1, <1>3, <1>4, <1>5 DEF Init, StoreTypes
<1>7. DiskTypes
  <2>1. "off" \notin Working /\ Nothing \notin Snapshots /\ 0 \in 0..world.records
    BY <1>1, MemoryAssumption DEF Working
  <2> QED BY <2>1 DEF Init, DiskTypes, Off
<1>8. WorkTypes
  BY IdleCall DEF Init, WorkTypes, Workers, Place
<1>9. Order
  BY DEF Init, Order, Off, Barrier, User, Import
<1>10. RollTypes
  BY DEF Init, RollTypes
<1> QED BY <1>6, <1>7, <1>8, <1>9, <1>10 DEF TypeInv, Base, Types

\* What a step that changes neither database nor index nor history leaves.
LEMMA StoreStays ==
  ASSUME StoreTypes, world' = world, db' = db, index' = index, root' = root, record' = record,
         acked' = acked, cut' = cut, faults' = faults \/ (faults < world.faults /\ faults' = faults + 1)
  PROVE  StoreTypes'
BY FaultCount DEF StoreTypes, Sane

\* Requests keep types and order.
LEMMA ServeTypes ==
  ASSUME TypeInv, Requests \/ Serve
  PROVE  Base'
<1> USE DEF TypeInv, Base, Types
<1>1. ASSUME NEW k \in world.kinds, NEW S \in SUBSET Ids, Request(k, S) PROVE Base'
  <2>1. k \in UserKinds
    BY WorldFacts DEF StoreTypes
  <2>2. StoreTypes' /\ WorkTypes' /\ Order'
    BY <1>1, <2>1, RequestStore, RequestWork, RequestOrder
  <2>3. DiskTypes'
    BY <1>1, DiskStays DEF Request, disk
  <2> QED BY <2>2, <2>3
<1>2. ASSUME Step(User) PROVE Base'
  <2>1. StoreTypes' /\ WorkTypes' /\ Order'
    BY <1>2, StepStore, StepWork, StepOrder, TwoWorkers
  <2>2. DiskTypes'
    BY <1>2, DiskStays DEF Step, disk
  <2> QED BY <2>1, <2>2
<1>3. ASSUME Store PROVE Base'
  <2>1. StoreTypes' /\ WorkTypes' /\ Order'
    BY <1>3, StoreStore, StoreWork, StoreOrder
  <2>2. DiskTypes'
    BY <1>3, DiskStays DEF Store, disk
  <2> QED BY <2>1, <2>2
<1>4. ASSUME Refuse(User) PROVE Base'
  <2>1. StoreTypes' /\ WorkTypes' /\ Order'
    BY <1>4, RefuseStore, RefuseWork, FailsOrder, TwoWorkers DEF Refuse
  <2>2. DiskTypes'
    BY <1>4, DiskStays DEF Refuse, Fails, disk
  <2> QED BY <2>1, <2>2
<1> QED BY <1>1, <1>2, <1>3, <1>4 DEF Requests, Serve

\* The import keeps types and order.
LEMMA ImportsTypes ==
  ASSUME TypeInv, Imports \/ ImportBegin
  PROVE  Base'
<1> USE DEF TypeInv, Base, Types
<1>1. ASSUME Step(Import) PROVE Base'
  <2>1. StoreTypes' /\ WorkTypes' /\ Order'
    BY <1>1, StepStore, StepWork, StepOrder, TwoWorkers
  <2>2. DiskTypes'
    BY <1>1, DiskStays DEF Step, disk
  <2> QED BY <2>1, <2>2
<1>2. ASSUME Refuse(Import) PROVE Base'
  <2>1. StoreTypes' /\ WorkTypes' /\ Order'
    BY <1>2, RefuseStore, RefuseWork, FailsOrder, TwoWorkers DEF Refuse
  <2>2. DiskTypes'
    BY <1>2, DiskStays DEF Refuse, Fails, disk
  <2> QED BY <2>1, <2>2
<1>3. ASSUME ImportStore PROVE Base'
  <2>1. StoreTypes' /\ WorkTypes' /\ Order'
    BY <1>3, ImportStoreStore, ImportStoreWork, ImportStoreOrder
  <2>2. DiskTypes'
    BY <1>3, DiskStays DEF ImportStore, disk
  <2> QED BY <2>1, <2>2
<1>4. ASSUME ImportSave PROVE Base'
  BY <1>4, ImportSaveStore, ImportSaveWork, ImportSaveOrder, ImportSaveDisk
<1>5. ASSUME ImportRaise PROVE Base'
  <2>1. StoreTypes'
    BY <1>5, StoreStays DEF ImportRaise, data, past
  <2> QED BY <1>5, <2>1, ImportRaiseWork, ImportRaiseOrder, ImportRaiseDisk
<1>6. ASSUME ImportBegin PROVE Base'
  <2>1. StoreTypes'
    BY <1>6, StoreStays DEF ImportBegin, data, disk, past
  <2>2. DiskTypes'
    BY <1>6, DiskStays DEF ImportBegin, disk
  <2> QED BY <1>6, <2>1, <2>2, ImportBeginWork, ImportBeginOrder
<1> QED BY <1>1, <1>2, <1>3, <1>4, <1>5, <1>6 DEF Imports

\* Rebuilds keep types and order.
LEMMA RebuildsTypes ==
  ASSUME TypeInv, Rebuilds \/ RebuildBegin \/ Interrupt
  PROVE  Base'
<1> USE DEF TypeInv, Base, Types
<1>1. ASSUME Reason PROVE Base'
  <2>1. StoreTypes'
    BY <1>1, StoreStays DEF Reason, data, disk, past
  <2>2. WorkTypes'
    BY <1>1, WorkStays DEF Reason
  <2> QED BY <1>1, <2>1, <2>2, ReasonDisk, RebuildsOrder
<1>2. ASSUME Copy PROVE Base'
  <2>1. StoreTypes'
    BY <1>2, StoreStays DEF Copy, data, past
  <2>2. WorkTypes'
    BY <1>2, WorkStays DEF Copy
  <2> QED BY <1>2, <2>1, <2>2, CopyDisk, RebuildsOrder
<1>3. ASSUME Build PROVE Base'
  <2>1. StoreTypes'
    BY <1>3, StoreStays DEF Build, data, past
  <2>2. WorkTypes'
    BY <1>3, WorkStays DEF Build
  <2> QED BY <1>3, <2>1, <2>2, BuildDisk, RebuildsOrder
<1>4. ASSUME Replay PROVE Base'
  <2>1. StoreTypes'
    BY <1>4, StoreStays DEF Replay, data, past
  <2>2. WorkTypes'
    BY <1>4, WorkStays DEF Replay
  <2> QED BY <1>4, <2>1, <2>2, ReplayDisk, RebuildsOrder
<1>5. ASSUME CloseBarrier PROVE Base'
  <2>1. StoreTypes'
    BY <1>5, StoreStays DEF CloseBarrier, data, past
  <2>2. WorkTypes'
    BY <1>5, WorkStays DEF CloseBarrier
  <2> QED BY <1>5, <2>1, <2>2, CloseBarrierDisk, RebuildsOrder
<1>6. ASSUME SwapDerivatives PROVE Base'
  <2>1. WorkTypes'
    BY <1>6, WorkStays DEF SwapDerivatives
  <2> QED BY <1>6, <2>1, SwapStore, SwapDisk, RebuildsOrder
<1>7. ASSUME Note PROVE Base'
  <2>1. StoreTypes'
    BY <1>7, StoreStays DEF Note, data, past
  <2>2. WorkTypes'
    BY <1>7, WorkStays DEF Note
  <2> QED BY <1>7, <2>1, <2>2, NoteDisk, RebuildsOrder
<1>8. ASSUME Activate PROVE Base'
  <2>1. WorkTypes'
    BY <1>8, WorkStays DEF Activate, Write
  <2> QED BY <1>8, <2>1, ActivateStore, ActivateDisk, RebuildsOrder
<1>9. ASSUME Done PROVE Base'
  <2>1. StoreTypes'
    BY <1>9, StoreStays DEF Done, data, past
  <2>2. WorkTypes'
    BY <1>9, WorkStays DEF Done
  <2> QED BY <1>9, <2>1, <2>2, DoneDisk, RebuildsOrder
<1>10. ASSUME RebuildBegin PROVE Base'
  <2>1. StoreTypes'
    BY <1>10, StoreStays DEF RebuildBegin, data, past
  <2>2. WorkTypes'
    BY <1>10, WorkStays DEF RebuildBegin
  <2> QED BY <1>10, <2>1, <2>2, RebuildBeginDisk, RebuildBeginOrder
<1>11. ASSUME Interrupt PROVE Base'
  <2>1. StoreTypes'
    BY <1>11, StoreStays DEF Interrupt, data, disk, past
  <2>2. WorkTypes'
    BY <1>11, WorkStays DEF Interrupt
  <2> QED BY <1>11, <2>1, <2>2, InterruptDisk, RebuildsOrder
<1> QED BY <1>1, <1>2, <1>3, <1>4, <1>5, <1>6, <1>7, <1>8, <1>9, <1>10, <1>11 DEF Rebuilds

\* Failures, crashes and unloads keep types and order.
LEMMA BreaksTypes ==
  ASSUME TypeInv, Breaks, ~RollbackFails
  PROVE  Base'
<1> USE DEF TypeInv, Base, Types
<1>1. ASSUME NEW p \in Workers, Fault(p) PROVE Base'
  <2>1. StoreTypes' /\ WorkTypes' /\ Order'
    BY <1>1, FaultStore, FaultWork, FailsOrder DEF Fault
  <2>2. DiskTypes'
    BY <1>1, DiskStays DEF Fault, Fails, disk
  <2> QED BY <2>1, <2>2
<1>2. ASSUME Cancel PROVE Base'
  <2>1. UNCHANGED <<disk, up, rebuild>>
    BY <1>2 DEF Cancel, Fails
  <2>2. DiskTypes'
    BY <2>1, DiskStays DEF disk
  <2> QED BY <1>2, <2>2, CancelStore, CancelWork, CancelOrder
<1>3. ASSUME RebuildFails PROVE Base'
  <2>1. WorkTypes'
    BY <1>3, WorkStays DEF RebuildFails, PutBack
  <2> QED BY <1>3, <2>1, RebuildFailsStore, RebuildFailsDisk, RebuildsOrder
<1>4. ASSUME Down PROVE Base'
  <2>1. WorkTypes'
    BY <1>4, DownWork DEF Down
  <2> QED BY <1>4, <2>1, DownStore, DownDisk, DownOrder
<1> QED BY <1>1, <1>2, <1>3, <1>4, TwoWorkers DEF Breaks

\* Tasks, rollback and restart keep types and order.
LEMMA TasksTypes ==
  ASSUME TypeInv, (\E k \in {"rebuild", "import"} : TaskBegin(k)) \/ Snapshot \/ Rollback
         \/ RollbackFails \/ Restart
  PROVE  Base'
<1> USE DEF TypeInv, Base, Types
<1>1. ASSUME NEW k \in {"rebuild", "import"}, TaskBegin(k) PROVE Base'
  <2>1. StoreTypes'
    BY <1>1, StoreStays DEF TaskBegin, data, past
  <2>2. WorkTypes'
    BY <1>1, WorkStays DEF TaskBegin, work
  <2> QED BY <1>1, <2>1, <2>2, TaskBeginDisk, TaskBeginOrder
<1>2. ASSUME Snapshot PROVE Base'
  <2>1. StoreTypes'
    BY <1>2, StoreStays DEF Snapshot, data, past
  <2>2. WorkTypes'
    BY <1>2, WorkStays DEF Snapshot, work
  <2> QED BY <1>2, <2>1, <2>2, SnapshotDisk, SnapshotOrder
<1>3. ASSUME Rollback \/ RollbackFails PROVE Base'
  <2>1. WorkTypes'
    BY <1>3, WorkStays DEF Rollback, Stop, Unload, RestoreDatabase, RestoreIndex, RolledBack,
                           RollbackFails, work
  <2> QED BY <1>3, <2>1, RollbackStore, RollbackDisk, RollbackOrder
<1>4. ASSUME Restart PROVE Base'
  <2>1. WorkTypes'
    BY <1>4, WorkStays DEF Restart
  <2> QED BY <1>4, <2>1, RestartStore, RestartDisk, RestartOrder
<1> QED BY <1>1, <1>2, <1>3, <1>4

\* A step that changes nothing keeps types and order.
LEMMA TypesStutter ==
  ASSUME TypeInv, UNCHANGED vars
  PROVE  Base'
<1>1. StoreTypes' /\ DiskTypes' /\ WorkTypes' /\ Order'
  BY StoreStays, DiskStays, WorkStays, OrderStays DEF TypeInv, Base, Types, vars
<1> QED BY <1>1 DEF Base, Types

\* What leaves a rollback where it is, or ends it.
LEMMA RollStays ==
  ASSUME RollTypes, undoing' \in {undoing, "off"}, behind' \in {behind, Nothing} \cup Indexes,
         undoing # "off" => todo'[Import] = <<>> /\ rebuild'.kind = "check" /\ task' # "none"
  PROVE  RollTypes'
BY DEF RollTypes

\* A step of a request or of the import writes a generation or leaves what CURRENT names.
LEMMA EffectBehind ==
  ASSUME NEW c, NEW s, Effect(s, c),
         s \in {"ask_new", "ask_in", "ask_out", "mark", "drop", "drop_new", "shelve", "unshelve",
                "back", "repair", "swap"}
  PROVE  behind' \in {behind, Nothing}
<1>1. CASE s \in {"ask_new", "ask_in", "ask_out", "mark"}
  <2>1. UNCHANGED data
    BY <1>1 DEF Effect, Write
  <2> QED BY <2>1 DEF data
<1>2. CASE s \in {"drop", "drop_new", "shelve", "unshelve"}
  <2>1. UNCHANGED <<index, behind>>
    <3>1. CASE s = "drop"
      BY <3>1 DEF Effect, Write
    <3>2. CASE s = "drop_new"
      BY <3>2 DEF Effect, Write
    <3>3. CASE s = "shelve"
      BY <3>3 DEF Effect, Write
    <3>4. CASE s = "unshelve"
      BY <3>4 DEF Effect, Write
    <3> QED BY <1>2, <3>1, <3>2, <3>3, <3>4
  <2> QED BY <2>1
<1>3. CASE s = "back"
  <2>1. Back(c)
    BY <1>3 DEF Effect, Write
  <2> QED BY <2>1 DEF Back
<1>4. CASE s = "repair"
  <2>1. Repair
    BY <1>4 DEF Effect, Write
  <2> QED BY <2>1 DEF Repair, Write
<1>5. CASE s = "swap"
  <2>1. Write(c.want.after)
    BY <1>5 DEF Effect, Write
  <2> QED BY <2>1 DEF Write
<1> QED BY <1>1, <1>2, <1>3, <1>4, <1>5

\* A request, begun, going on or failing, leaves a rollback where it is.
LEMMA RollServe ==
  ASSUME TypeInv, Requests \/ Serve \/ Fault(User) \/ Cancel
  PROVE  RollTypes'
<1> DEFINE Stays == /\ undoing' = undoing /\ rebuild' = rebuild /\ task' = task
                    /\ todo'[Import] = todo[Import] /\ behind' \in {behind, Nothing}
<1> USE DEF disk, data
<1>1. ASSUME NEW k \in world.kinds, NEW S \in SUBSET Ids, Request(k, S) PROVE Stays
  BY <1>1, Continued, TwoWorkers DEF Request, TypeInv, Base, Types
<1>2. ASSUME Step(User) PROVE Stays
  <2>1. /\ Effect(Head(todo[User]), call[User])
        /\ Continue(User, Tail(todo[User]), Asked(Head(todo[User]), call[User]))
        /\ undoing' = undoing /\ rebuild' = rebuild /\ task' = task
    BY <1>2 DEF Step
  <2>2. Head(todo[User]) \in {"ask_new", "ask_in", "ask_out", "mark", "drop", "drop_new", "shelve",
                             "unshelve", "back", "repair", "swap"}
    <3>1. todo[User] # <<>> /\ Head(todo[User]) \notin {"store", "save", "raise"} /\ User \in Workers
          /\ WorkTypes
      BY <1>2, TwoWorkers DEF Step, TypeInv, Base, Types
    <3> QED BY <3>1, StepFacts
  <2>3. behind' \in {behind, Nothing}
    BY <2>1, <2>2, EffectBehind
  <2> QED BY <2>1, <2>3, Continued, TwoWorkers DEF TypeInv, Base, Types
<1>3. ASSUME Store PROVE Stays
  BY <1>3, Continued, TwoWorkers DEF Store, TypeInv, Base, Types
<1>4. ASSUME Refuse(User) \/ Fault(User) PROVE Stays
  <2>1. Fails(User, Head(todo[User]), call[User])
    BY <1>4 DEF Refuse, Fault
  <2> QED BY <2>1, Continued, TwoWorkers DEF Fails, TypeInv, Base, Types
<1>5. ASSUME Cancel PROVE Stays
  BY <1>5, Continued, TwoWorkers DEF Cancel, Fails, TypeInv, Base, Types
<1>6. Stays
  BY <1>1, <1>2, <1>3, <1>4, <1>5 DEF Requests, Serve
<1> QED BY <1>6 DEF TypeInv, RollTypes

\* What an import that raises does.
LEMMA ImportRaiseCall ==
  ASSUME TypeInv, ImportRaise
  PROVE  /\ todo'[Import] = <<>> /\ call'[Import] = Idle
         /\ todo'[User] = todo[User] /\ call'[User] = call[User]
         /\ db' = db /\ saved' = saved /\ UNCHANGED past
<1>1. Continue(Import, <<>>, Idle) /\ db' = db /\ saved' = saved /\ UNCHANGED past
  BY DEF ImportRaise, data
<1> QED BY <1>1, Continued, TwoWorkers DEF TypeInv, Base, Types

\* The import runs only where no rollback does; where it raises, one begins.
LEMMA RollImports ==
  ASSUME TypeInv, Imports \/ ImportBegin \/ Fault(Import)
  PROVE  RollTypes'
<1> USE DEF disk, data
<1>1. undoing = "off" /\ behind \in {Nothing} \cup Indexes
  BY DEF Imports, ImportBegin, TaskIdle, Fault, Step, Refuse, ImportStore, ImportSave, ImportRaise,
         TypeInv, RollTypes
<1>2. CASE ImportRaise
  <2>1. todo[Import] # <<>> /\ todo'[Import] = <<>> /\ rebuild' = rebuild /\ task' = task
        /\ undoing' = "unload" /\ behind' = behind
    BY <1>2, ImportRaiseCall DEF ImportRaise
  <2>2. task = "import" /\ rebuild.kind = "check"
    BY <2>1 DEF TypeInv, Base, Types, DiskTypes, Order
  <2> QED BY <1>1, <2>1, <2>2 DEF RollTypes
<1>3. ASSUME Step(Import) PROVE undoing' = undoing /\ behind' \in {behind, Nothing}
  <2>1. Effect(Head(todo[Import]), call[Import]) /\ undoing' = undoing
    BY <1>3 DEF Step
  <2>2. Head(todo[Import]) \in {"ask_new", "ask_in", "ask_out", "mark", "drop", "drop_new", "shelve",
                             "unshelve", "back", "repair", "swap"}
    <3>1. todo[Import] # <<>> /\ Head(todo[Import]) \notin {"store", "save", "raise"} /\ Import \in Workers
          /\ WorkTypes
      BY <1>3, TwoWorkers DEF Step, TypeInv, Base, Types
    <3> QED BY <3>1, StepFacts
  <2> QED BY <2>1, <2>2, EffectBehind
<1>4. ASSUME Refuse(Import) \/ Fault(Import) PROVE undoing' = undoing /\ behind' = behind
  <2>1. Fails(Import, Head(todo[Import]), call[Import])
    BY <1>4 DEF Refuse, Fault
  <2> QED BY <2>1 DEF Fails
<1>5. ASSUME ImportStore \/ ImportSave \/ ImportBegin PROVE undoing' = undoing /\ behind' = behind
  BY <1>5 DEF ImportStore, ImportSave, ImportBegin
<1> QED BY <1>1, <1>2, <1>3, <1>4, <1>5 DEF RollTypes, Imports

\* A rebuild goes on beside a rollback only as the startup check; a task's that fails
\* begins one.
LEMMA RollRebuilds ==
  ASSUME TypeInv, Rebuilds \/ RebuildBegin \/ Interrupt \/ RebuildFails
  PROVE  RollTypes'
<1> USE DEF disk, data
<1>1. /\ behind \in {Nothing} \cup Indexes /\ rebuild.kind \in {"check", "task"} /\ Off.kind = "check"
      /\ undoing # "off" => todo[Import] = <<>> /\ rebuild.kind = "check" /\ task # "none"
      /\ rebuild.kind = "task" => task = "rebuild" /\ todo[Import] = <<>>
  BY DEF TypeInv, Base, Types, DiskTypes, Order, RollTypes, Off
<1>2. ASSUME NEW st, At(st) PROVE rebuild'.kind = rebuild.kind
  BY <1>2, AtStage DEF TypeInv, Base, Types
<1>3. CASE RebuildFails
  <2>1. /\ todo' = todo /\ task' = task /\ rebuild' = Off /\ behind' = behind
        /\ undoing' \in {undoing, "unload"} /\ (rebuild.kind = "task" \/ undoing' = undoing)
    BY <1>3 DEF RebuildFails, Ends, PutBack
  <2> QED BY <1>1, <2>1 DEF TypeInv, RollTypes
<1>4. ASSUME Reason \/ Copy \/ Build \/ Replay \/ SwapDerivatives \/ Note \/ Activate
      PROVE RollTypes'
  <2>1. /\ todo' = todo /\ task' = task /\ undoing' = undoing /\ behind' \in {behind, Nothing}
    BY <1>4 DEF Reason, Copy, Build, Replay, SwapDerivatives, Note, Activate, Write
  <2>2. rebuild'.kind \in {rebuild.kind, "check"}
    BY <1>1, <1>2, <1>4 DEF Reason, Copy, Build, Replay, SwapDerivatives, Note, Activate, Ends, Write
  <2> QED BY <1>1, <2>1, <2>2 DEF TypeInv, RollTypes
<1>5. CASE CloseBarrier
  <2>1. todo' = todo /\ task' = task /\ undoing' = undoing /\ behind' = behind
    BY <1>5 DEF CloseBarrier
  <2>2. rebuild'.kind = rebuild.kind
    BY <1>5 DEF CloseBarrier, TypeInv, Base, Types, DiskTypes
  <2> QED BY <1>1, <2>1, <2>2 DEF TypeInv, RollTypes
<1>6. CASE Done
  <2>1. todo' = todo /\ undoing' = undoing /\ behind' = behind /\ rebuild' = Off
        /\ (rebuild.kind = "task" \/ task' = task)
    BY <1>6 DEF Done, Ends
  <2> QED BY <1>1, <2>1 DEF TypeInv, RollTypes
<1>7. CASE RebuildBegin \/ Interrupt
  <2>1. undoing' = undoing /\ behind' = behind /\ undoing = "off"
    BY <1>1, <1>7 DEF RebuildBegin, TaskIdle, Interrupt
  <2> QED BY <1>1, <2>1 DEF RollTypes
<1> QED BY <1>3, <1>4, <1>5, <1>6, <1>7 DEF Rebuilds

\* A task that begins, the steps of a rollback, crashes, unloads and restarts.
LEMMA RollTasks ==
  ASSUME TypeInv, (\E k \in {"rebuild", "import"} : TaskBegin(k)) \/ Snapshot \/ Rollback
         \/ RollbackFails \/ Down \/ Restart \/ UNCHANGED vars
  PROVE  RollTypes'
<1>1. /\ behind \in {Nothing} \cup Indexes /\ rebuild.kind \in {"check", "task"} /\ Off.kind = "check"
      /\ undoing \in {"off", "unload", "database", "pointer", "load"}
      /\ undoing # "off" => todo[Import] = <<>> /\ rebuild.kind = "check" /\ task # "none"
      /\ rebuild.kind = "task" => rebuild.stage # "off" /\ saved \in Snapshots \cup {Nothing}
      /\ saved # Nothing => saved \in Snapshots
  BY DEF TypeInv, Base, Types, DiskTypes, Order, RollTypes, Off
<1>2. ASSUME NEW k \in {"rebuild", "import"}, TaskBegin(k) PROVE RollTypes'
  <2>1. undoing = "off" /\ undoing' = undoing /\ behind' = behind
    BY <1>1, <1>2 DEF TaskBegin, data
  <2> QED BY <1>1, <2>1 DEF RollTypes
<1>3. CASE Snapshot
  BY <1>1, <1>3 DEF Snapshot, data, work, RollTypes
<1>4. CASE Stop
  <2>1. undoing' = "unload" /\ behind' = behind /\ todo' = todo /\ rebuild' = rebuild /\ task' = task
        /\ task # "none" /\ TaskIdle
    BY <1>4 DEF Stop, data, work
  <2>2. todo[Import] = <<>> /\ rebuild.kind = "check"
    BY <1>1, <2>1 DEF TaskIdle
  <2> QED BY <1>1, <2>1, <2>2 DEF RollTypes
<1>5. CASE Unload
  BY <1>1, <1>5 DEF Unload, RollTypes
<1>6. CASE RestoreDatabase
  BY <1>1, <1>6 DEF RestoreDatabase, work, RollTypes
<1>7. CASE RestoreIndex
  <2>1. saved \in Snapshots
    BY <1>7 DEF RestoreIndex, RollTypes, TypeInv, Base, Types, DiskTypes
  <2>2. /\ undoing' = "load" /\ todo' = todo /\ task' = task /\ undoing # "off"
        /\ behind' \in {behind, saved.index} /\ rebuild' \in {rebuild, Off}
    BY <1>7 DEF RestoreIndex, Ends
  <2>3. behind' \in {Nothing} \cup Indexes
    BY <1>1, <2>1, <2>2 DEF Snapshots
  <2> QED BY <1>1, <2>2, <2>3 DEF RollTypes
<1>8. CASE RolledBack \/ RollbackFails
  BY <1>1, <1>8 DEF RolledBack, RollbackFails, data, RollTypes
<1>9. CASE Down
  <2>1. todo'[Import] = <<>> /\ rebuild' = Off /\ task' = task /\ behind' = Nothing
        /\ undoing' \in {undoing, "off"}
    BY <1>9 DEF Down, User, Import
  <2> QED BY <1>1, <2>1 DEF RollTypes
<1>10. CASE Restart
  <2>1. /\ todo' = todo /\ task' = task /\ behind' = behind /\ undoing' = undoing
        /\ rebuild'.kind = "check"
    BY <1>10 DEF Restart
  <2> QED BY <1>1, <2>1 DEF RollTypes
<1>11. CASE UNCHANGED vars
  BY <1>11 DEF vars, TypeInv, RollTypes
<1> QED BY <1>2, <1>3, <1>4, <1>5, <1>6, <1>7, <1>8, <1>9, <1>10, <1>11 DEF Rollback

\* Every step keeps types and order.
LEMMA TypesNext ==
  ASSUME TypeInv, [Next]_vars
  PROVE  TypeInv'
<1>1. CASE Requests \/ Serve
  BY <1>1, ServeTypes, RollServe DEF TypeInv
<1>2. CASE Imports \/ ImportBegin
  BY <1>2, ImportsTypes, RollImports DEF TypeInv
<1>3. CASE Rebuilds \/ RebuildBegin \/ Interrupt
  BY <1>3, RebuildsTypes, RollRebuilds DEF TypeInv
<1>4. CASE Breaks /\ ~RollbackFails
  <2>1. Base'
    BY <1>4, BreaksTypes
  <2>2. RollTypes'
    BY <1>4, RollServe, RollImports, RollRebuilds, RollTasks DEF Breaks
  <2> QED BY <2>1, <2>2 DEF TypeInv
<1>5. CASE (\E k \in {"rebuild", "import"} : TaskBegin(k)) \/ Snapshot \/ Rollback
            \/ RollbackFails \/ Restart
  BY <1>5, TasksTypes, RollTasks DEF TypeInv
<1>6. CASE UNCHANGED vars
  BY <1>6, TypesStutter, RollTasks DEF TypeInv
<1> QED BY <1>1, <1>2, <1>3, <1>4, <1>5, <1>6 DEF Next, Steps

\* Types and order hold in every state of every behaviour.
LEMMA TypeInvHolds == Spec => []TypeInv
<1>1. Init => TypeInv
  BY TypesInit
<1>2. TypeInv /\ [Next]_vars => TypeInv'
  BY TypesNext
<1> QED BY <1>1, <1>2, PTL DEF Spec

\* Database, index, journal and tasks keep their types, every row has an id the
\* database handed out, and just a task that has not ended keeps a prestate
\* (storage.py:2283-3048, indexes.py:729-909, resumable_tasks.py:173-786).
THEOREM StoreTyped == Spec => []TypeOK
<1>1. TypeInv => TypeOK
  <2>1. SUFFICES ASSUME TypeInv PROVE TypeOK
    OBVIOUS
  <2>2. cursor \in 0..Len(Records)
    <3>1. world \in Worlds /\ cursor \in 0..world.records
      BY <2>1 DEF TypeInv, Base, Types, StoreTypes, DiskTypes
    <3>2. world.records \in 0..Len(Records) /\ Len(Records) \in Nat
      BY <3>1, WorldFacts
    <3> QED BY <3>1, <3>2
  <2> QED BY <2>1, <2>2 DEF TypeInv, Base, Types, RollTypes, StoreTypes, DiskTypes, Sane, TypeOK
<1> QED BY <1>1, TypeInvHolds, PTL

-----------------------------------------------------------------------------
\* What steps leave of rows, calls and history.

\* Rows, ids in hand, history and copies stay; a task may begin or end.
Aside ==
  /\ db'.rows = db.rows /\ db'.next = db.next /\ todo' = todo /\ call' = call
  /\ root' = root /\ record' = record /\ acked' = acked /\ cut' = cut
  /\ saved' = saved \/ saved' = Nothing \/ (saved' \in Snapshots /\ saved'.db = Nothing)

\* A rebuild changes neither rows nor requests.
LEMMA RebuildsAside ==
  ASSUME TypeInv, Rebuilds \/ RebuildBegin \/ Interrupt \/ RebuildFails
  PROVE  Aside
<1>1. Sane(db) /\ rebuild.derived \in SUBSET Ids
  BY DEF TypeInv, Base, Types, StoreTypes, DiskTypes
<1>2. CASE SwapDerivatives
  <2>1. Mine.db.derived \in SUBSET Ids
    BY <1>2, MineType DEF TypeInv, Base, Types, SwapDerivatives, Working, Shadows, Databases
  <2>2. db' = [db EXCEPT !.derived = Mine.db.derived]
    BY <1>2 DEF SwapDerivatives
  <2>3. db'.rows = db.rows /\ db'.next = db.next
    BY <1>1, <2>1, <2>2, DerivedSane
  <2> QED BY <1>2, <2>3 DEF SwapDerivatives, Aside, disk, past
<1>3. CASE RebuildFails
  <2>1. db' = db \/ db' = [db EXCEPT !.derived = rebuild.derived]
    BY <1>3 DEF RebuildFails, PutBack
  <2>2. db'.rows = db.rows /\ db'.next = db.next
    BY <1>1, <2>1, DerivedSane
  <2> QED BY <1>3, <2>2 DEF RebuildFails, Aside, past, PutBack
<1>4. CASE Reason \/ Interrupt
  BY <1>4 DEF Reason, Interrupt, Aside, data, disk, past
<1>5. CASE Copy \/ Build \/ Replay
  BY <1>5 DEF Copy, Build, Replay, Aside, data, past
<1>6. CASE CloseBarrier \/ Note \/ RebuildBegin
  BY <1>6 DEF CloseBarrier, Note, RebuildBegin, Aside, data, past
<1>7. CASE Activate
  BY <1>7 DEF Activate, Aside, disk, past, Write
<1>8. CASE Done
  BY <1>8 DEF Done, Aside, data, past
<1> QED BY <1>2, <1>3, <1>4, <1>5, <1>6, <1>7, <1>8 DEF Rebuilds

\* A restart or a task that begins changes neither rows nor requests.
LEMMA OthersAside ==
  ASSUME TypeInv, Restart \/ (\E k \in {"rebuild", "import"} : TaskBegin(k)) \/ UNCHANGED vars
  PROVE  Aside
<1>1. CASE Restart
  BY <1>1 DEF Restart, Aside, past
<1>2. ASSUME NEW k \in {"rebuild", "import"}, TaskBegin(k) PROVE Aside
  <2>1. Prestate \in Snapshots /\ Prestate.db = Nothing
    BY DEF Prestate, Current, RollTypes, Snapshots, TypeInv, Base, Types, StoreTypes, DiskTypes
  <2> QED BY <1>2, <2>1 DEF TaskBegin, Aside, data, work, past
<1>3. CASE UNCHANGED vars
  BY <1>3 DEF vars, Aside
<1> QED BY <1>1, <1>2, <1>3

\* What a step does to the rows.
LEMMA EffectRows ==
  ASSUME StoreTypes, NEW c \in Calls, NEW s, Effect(s, c),
         s \in {"ask_new", "ask_in", "ask_out", "mark", "drop", "drop_new", "shelve", "unshelve",
                "back", "repair", "swap"}
  PROVE  /\ db'.next = db.next /\ db'.rows \subseteq db.rows
         /\ s \notin {"drop", "drop_new", "back"} => db'.rows = db.rows
         /\ s = "drop" => db'.rows = db.rows \ c.ids
         /\ s = "drop_new" => db'.rows = db.rows \ c.new
         /\ s = "back" => db'.rows = IF c.ids \cap db.rows # {} THEN db.rows \ c.new ELSE db.rows
<1>1. Sane(db) /\ c.ids \in SUBSET Ids /\ c.new \in SUBSET Ids
  BY DEF StoreTypes, Calls
<1>2. CASE s \in {"ask_new", "ask_in", "ask_out", "mark"}
  <2>1. UNCHANGED data
    BY <1>2 DEF Effect, Write
  <2> QED BY <1>2, <2>1 DEF data
<1>3. CASE s = "drop"
  <2>1. db' = Dropped(db, c.ids)
    BY <1>3 DEF Effect, Write
  <2> QED BY <1>1, <1>3, <2>1, DroppedFacts
<1>4. CASE s = "drop_new"
  <2>1. db' = Dropped(db, c.new)
    BY <1>4 DEF Effect, Write
  <2> QED BY <1>1, <1>4, <2>1, DroppedFacts
<1>5. CASE s = "shelve"
  <2>1. db' = Shelved(db, c.ids)
    BY <1>5 DEF Effect, Write
  <2> QED BY <1>1, <1>5, <2>1, ShelvedFacts
<1>6. CASE s = "unshelve"
  <2>1. db' = Unshelved(db, c.ids)
    BY <1>6 DEF Effect, Write
  <2> QED BY <1>1, <1>6, <2>1, UnshelvedFacts
<1>7. CASE s = "back"
  <2>1. Back(c)
    BY <1>7 DEF Effect, Write
  <2>2. CASE c.ids \cap db.rows # {}
    <3>1. db' = Dropped(db, c.new)
      BY <2>1, <2>2 DEF Back
    <3> QED BY <1>1, <1>7, <2>2, <3>1, DroppedFacts
  <2>3. CASE c.ids \cap db.rows = {}
    BY <1>7, <2>1, <2>3 DEF Back
  <2> QED BY <2>2, <2>3
<1>8. CASE s = "repair"
  <2>1. db' = db
    BY <1>8 DEF Effect, Repair, Write
  <2> QED BY <1>8, <2>1
<1>9. CASE s = "swap"
  <2>1. db' = db
    BY <1>9 DEF Effect, Write
  <2> QED BY <1>9, <2>1
<1> QED BY <1>2, <1>3, <1>4, <1>5, <1>6, <1>7, <1>8, <1>9

\* What p holds after a step: nothing, or what it held.
SameCall(c, d) == d.kind = c.kind /\ d.ids = c.ids /\ d.new = c.new /\ d.keys = c.keys /\ d.left = c.left

\* What a step does to lists, calls and histories.
LEMMA StepCall ==
  ASSUME TypeInv, NEW p \in Workers, Step(p)
  PROVE  /\ todo[p] # <<>> /\ call[p] \in Calls /\ todo'[p] = Tail(todo[p])
         /\ Head(todo[p]) \in {"ask_new", "swap", "mark", "ask_out", "drop", "drop_new", "back",
                               "repair", "shelve", "unshelve", "ask_in"}
         /\ Effect(Head(todo[p]), call[p])
         /\ todo'[p] = <<>> => call'[p] = Idle
         /\ todo'[p] # <<>> => SameCall(call[p], call'[p]) /\ call'[p].undo = call[p].undo
                               /\ call'[p].want = Asked(Head(todo[p]), call[p]).want
         /\ \A q \in Workers \ {p} : todo'[q] = todo[q] /\ call'[q] = call[q]
         /\ saved' = saved /\ root' = root /\ record' = record /\ cut' = cut
         /\ acked' = Acknowledged(p, Head(todo[p]), call[p])
<1> DEFINE s == Head(todo[p])  c == call[p]
<1>1. /\ todo[p] # <<>> /\ s \notin {"store", "save", "raise"} /\ Effect(s, c)
      /\ Continue(p, Tail(todo[p]), Asked(s, c)) /\ acked' = Acknowledged(p, s, c)
  BY DEF Step
<1>2. c \in Calls
  BY <1>1, AtWork DEF TypeInv, Base, Types
<1>3. s \in {"ask_new", "swap", "mark", "ask_out", "drop", "drop_new", "back", "repair", "shelve",
             "unshelve", "ask_in"}
  BY <1>1, StepFacts DEF TypeInv, Base, Types
<1>4. SameCall(c, Asked(s, c)) /\ Asked(s, c).undo = c.undo
  BY <1>2, AskedFacts DEF TypeInv, Base, Types, StoreTypes, SameCall
<1>5. /\ todo'[p] = Tail(todo[p]) /\ call'[p] = IF Tail(todo[p]) = <<>> THEN Idle ELSE Asked(s, c)
      /\ \A q \in Workers \ {p} : todo'[q] = todo[q] /\ call'[q] = call[q]
  BY <1>1, Continued DEF TypeInv, Base, Types
<1>6. saved' = saved /\ root' = root /\ record' = record /\ cut' = cut
  BY DEF Step, disk
<1> HIDE DEF s, c
<1> QED BY <1>1, <1>2, <1>3, <1>4, <1>5, <1>6 DEF s, c

\* What p holds after a failure: nothing, or what it held, to be undone.
LEMMA FailsCall ==
  ASSUME TypeInv, NEW p \in Workers, todo[p] # <<>>, Fails(p, Head(todo[p]), call[p])
  PROVE  /\ call[p] \in Calls
         /\ todo'[p] = IF call[p].undo THEN Raised(p) ELSE Undo(call[p].kind, Head(todo[p]))
         /\ todo'[p] = <<>> => call'[p] = Idle
         /\ todo'[p] # <<>> => SameCall(call[p], call'[p]) /\ call'[p].undo = TRUE
         /\ \A q \in Workers \ {p} : todo'[q] = todo[q] /\ call'[q] = call[q]
         /\ saved' = saved /\ root' = root /\ record' = record /\ acked' = acked
         /\ cut' = IF call[p].undo THEN cut \cup Edited ELSE cut
<1> DEFINE c == call[p]  e == [c EXCEPT !.undo = TRUE]
           ss == IF c.undo THEN Raised(p) ELSE Undo(c.kind, Head(todo[p]))
<1>1. Continue(p, ss, e)
  BY DEF Fails
<1>2. c \in Calls
  BY AtWork DEF TypeInv, Base, Types
<1>3. SameCall(c, e) /\ e.undo = TRUE
  BY <1>2 DEF Calls, SameCall
<1>4. /\ todo'[p] = ss /\ call'[p] = IF ss = <<>> THEN Idle ELSE e
      /\ \A q \in Workers \ {p} : todo'[q] = todo[q] /\ call'[q] = call[q]
  BY <1>1, Continued DEF TypeInv, Base, Types
<1>5. /\ saved' = saved /\ root' = root /\ record' = record /\ acked' = acked
      /\ cut' = IF c.undo THEN cut \cup Edited ELSE cut
  BY DEF Fails, disk
<1> HIDE DEF ss, e, c
<1> QED BY <1>2, <1>3, <1>4, <1>5 DEF ss, c

\* A refused or failed step leaves the rows.
LEMMA FailsRows ==
  ASSUME TypeInv, NEW p \in Workers, Refuse(p) \/ Fault(p)
  PROVE  /\ todo[p] # <<>> /\ Fails(p, Head(todo[p]), call[p])
         /\ db'.rows = db.rows /\ db'.next = db.next
<1>1. Sane(db)
  BY DEF TypeInv, Base, Types, StoreTypes
<1>2. db' = db \/ db' = Shelved(db, call[p].ids)
  BY DEF Refuse, Fault
<1>3. db'.rows = db.rows /\ db'.next = db.next
  BY <1>1, <1>2, ShelvedFacts
<1> QED BY <1>3 DEF Refuse, Fault

\* What the other steps hold.
LEMMA RequestCall ==
  ASSUME TypeInv, NEW k \in UserKinds, NEW S \in SUBSET Ids, Request(k, S)
  PROVE  /\ todo[User] = <<>> /\ call[User] = Idle /\ todo'[User] = Plan(k)
         /\ call'[User].kind = k /\ call'[User].ids = S /\ call'[User].new = {}
         /\ call'[User].undo = FALSE
         /\ todo'[Import] = todo[Import] /\ call'[Import] = call[Import]
         /\ db' = db /\ saved' = saved /\ root' = root /\ record' = record /\ cut' = cut
         /\ acked' = IF k = "delete" THEN acked \ {root[i] : i \in S} ELSE acked
         /\ k = "create" => S = {}
         /\ k = "edit" => \E i \in db.rows : S = {i}
         /\ S \subseteq db.rows
<1> DEFINE c == [Idle EXCEPT !.kind = k, !.ids = S]
<1>1. Continue(User, Plan(k), c)
  BY DEF Request
<1>2. c.kind = k /\ c.ids = S /\ c.new = {} /\ c.undo = FALSE
  BY IdleCall DEF Calls
<1>3. Plan(k) # <<>>
  BY PlanList DEF AllKinds
<1>4. todo[User] = <<>> /\ call[User] = Idle
  BY AtRest, TwoWorkers DEF Request, Locked, TypeInv, Base, Types
<1> HIDE DEF c
<1>5. /\ todo'[User] = Plan(k) /\ call'[User] = c
      /\ todo'[Import] = todo[Import] /\ call'[Import] = call[Import]
  <2>1. WorkTypes
    BY DEF TypeInv, Base, Types
  <2>2. /\ todo'[User] = Plan(k) /\ call'[User] = IF Plan(k) = <<>> THEN Idle ELSE c
        /\ \A q \in Workers \ {User} : todo'[q] = todo[q] /\ call'[q] = call[q]
    BY <1>1, <2>1, Continued, TwoWorkers
  <2> QED BY <1>3, <2>2, TwoWorkers
<1>6. /\ db' = db /\ saved' = saved /\ root' = root /\ record' = record /\ cut' = cut
      /\ acked' = IF k = "delete" THEN acked \ {root[i] : i \in S} ELSE acked
  BY DEF Request, data, disk
<1>7. db.archived \subseteq db.rows
  BY DEF TypeInv, Base, Types, StoreTypes, Sane
<1>8. S \subseteq db.rows /\ (k = "create" => S = {}) /\ (k = "edit" => \E i \in db.rows : S = {i})
  <2>1. CASE k = "create"
    BY <2>1 DEF Request
  <2>2. CASE k = "edit"
    BY <2>2 DEF Request
  <2>3. CASE k = "archive"
    BY <2>3 DEF Request, Active
  <2>4. CASE k = "restore"
    BY <1>7, <2>4 DEF Request
  <2>5. CASE k = "delete"
    BY <2>5 DEF Request
  <2> QED BY <2>1, <2>2, <2>3, <2>4, <2>5 DEF UserKinds
<1> QED BY <1>2, <1>4, <1>5, <1>6, <1>8

\* What the insertion of the user's row does.
LEMMA StoreCall ==
  ASSUME TypeInv, Store
  PROVE  LET c == call[User]
         IN /\ Facing(User, {"store"}) /\ todo[User] # <<>> /\ Tail(todo[User]) # <<>>
            /\ c \in Calls /\ c.kind \in {"create", "edit"} /\ c.undo = FALSE
            /\ todo'[User] = Tail(todo[User]) /\ Head(todo'[User]) = "ask_new"
            /\ call'[User].kind = c.kind /\ call'[User].ids = c.ids /\ call'[User].undo = FALSE
            /\ call'[User].new = {db.next}
            /\ todo'[Import] = todo[Import] /\ call'[Import] = call[Import]
            /\ db.next \in Ids /\ db.next \notin db.rows /\ db'.rows = db.rows \cup {db.next}
            /\ db'.next = db.next + 1
            /\ saved' = saved /\ acked' = acked /\ cut' = cut
            /\ root' = [root EXCEPT ![db.next] =
                          IF c.ids = {} THEN db.next ELSE root[CHOOSE o \in c.ids : TRUE]]
            /\ record' = [record EXCEPT ![db.next] = Nothing]
<1> DEFINE c == call[User]  e == [c EXCEPT !.new = {db.next}]  b == c.ids \cap db.archived # {}
<1>1. /\ todo[User] # <<>> /\ Head(todo[User]) = "store" /\ Continue(User, Tail(todo[User]), e)
      /\ db' = Stored(db, db.next, b) /\ b \in BOOLEAN
      /\ root' = [root EXCEPT ![db.next] =
                          IF c.ids = {} THEN db.next ELSE root[CHOOSE o \in c.ids : TRUE]]
      /\ record' = [record EXCEPT ![db.next] = Nothing]
  BY DEF Store
<1>2. db.next \in Ids /\ Sane(db)
  BY WorldFacts DEF Store, TypeInv, Base, Types, StoreTypes, Sane, Databases, Ids
<1>3. c \in Calls /\ c.kind \in UserKinds /\ Belongs(c.kind, c.undo, "store")
  BY <1>1, AtWork, StepFacts, TwoWorkers DEF TypeInv, Base, Types
<1>4. Tail(todo[User]) # <<>> /\ Head(Tail(todo[User])) = "ask_new"
  BY <1>1, StepFacts, TwoWorkers DEF TypeInv, Base, Types, Follows
<1>5. c.kind \in {"create", "edit"} /\ c.undo = FALSE
  BY <1>3 DEF Belongs, UserKinds
<1>6. e.kind = c.kind /\ e.ids = c.ids /\ e.undo = c.undo /\ e.new = {db.next}
  BY <1>3 DEF Calls
<1>7. db.next \notin db.rows /\ db'.rows = db.rows \cup {db.next} /\ db'.next = db.next + 1
  BY <1>1, <1>2, StoredFacts
<1>8. saved' = saved /\ acked' = acked /\ cut' = cut
  BY DEF Store, disk
<1> HIDE DEF e
<1>9. /\ todo'[User] = Tail(todo[User]) /\ call'[User] = e
      /\ todo'[Import] = todo[Import] /\ call'[Import] = call[Import]
  BY <1>1, <1>4, Continued, TwoWorkers DEF TypeInv, Base, Types
<1> QED BY <1>1, <1>2, <1>3, <1>4, <1>5, <1>6, <1>7, <1>8, <1>9 DEF Facing

\* What a cancellation does.
LEMMA CancelCall ==
  ASSUME TypeInv, Cancel
  PROVE  /\ todo[User] # <<>> /\ db' = db
         /\ \/ Fails(User, Head(todo[User]), call[User]) /\ call[User].undo = FALSE
            \/ /\ todo'[User] = <<>> /\ call'[User] = Idle /\ call[User].kind # "edit"
               /\ todo'[Import] = todo[Import] /\ call'[Import] = call[Import]
               /\ saved' = saved /\ UNCHANGED past
<1>1. CASE call[User].kind = "edit"
  <2>1. call[User].undo \in BOOLEAN
    BY AtWork, TwoWorkers DEF Cancel, TypeInv, Base, Types
  <2> QED BY <1>1, <2>1 DEF Cancel
<1>2. CASE call[User].kind # "edit"
  <2>1. todo[User] # <<>> /\ Continue(User, <<>>, Idle) /\ UNCHANGED <<data, disk, past>>
    BY <1>2 DEF Cancel
  <2>2. /\ todo'[User] = <<>> /\ call'[User] = Idle
        /\ todo'[Import] = todo[Import] /\ call'[Import] = call[Import]
    BY <2>1, Continued, TwoWorkers DEF TypeInv, Base, Types
  <2> QED BY <1>2, <2>1, <2>2 DEF data, disk
<1> QED BY <1>1, <1>2

\* What the beginning of an import does.
LEMMA ImportBeginCall ==
  ASSUME TypeInv, ImportBegin
  PROVE  /\ todo[Import] = <<>> /\ call[Import] = Idle /\ todo'[Import] = Plan("import")
         /\ call'[Import].kind = "import" /\ call'[Import].ids = {} /\ call'[Import].new = {}
         /\ call'[Import].undo = FALSE /\ call'[Import].keys = Known
         /\ call'[Import].left = NextBatch(cursor)
         /\ todo'[User] = todo[User] /\ call'[User] = call[User]
         /\ db' = db /\ saved' = saved /\ UNCHANGED past
<1> DEFINE c == [Idle EXCEPT !.kind = "import", !.keys = Known, !.left = NextBatch(cursor)]
<1>1. Continue(Import, Plan("import"), c) /\ todo[Import] = <<>>
  BY DEF ImportBegin, TaskIdle
<1>2. /\ c.kind = "import" /\ c.ids = {} /\ c.new = {} /\ c.undo = FALSE /\ c.keys = Known
      /\ c.left = NextBatch(cursor)
  BY IdleCall DEF Calls
<1>3. Plan("import") # <<>>
  BY PlanList DEF AllKinds
<1>4. call[Import] = Idle
  BY <1>1, AtRest, TwoWorkers DEF TypeInv, Base, Types
<1>5. db' = db /\ saved' = saved /\ UNCHANGED past
  BY DEF ImportBegin, data, disk
<1> HIDE DEF c
<1>6. /\ todo'[Import] = Plan("import") /\ call'[Import] = c
      /\ todo'[User] = todo[User] /\ call'[User] = call[User]
  BY <1>1, <1>3, Continued, TwoWorkers DEF TypeInv, Base, Types
<1> QED BY <1>1, <1>2, <1>4, <1>5, <1>6

\* One record: skipped or failed, or stored as a new row.
LEMMA RecordEffect ==
  ASSUME TypeInv, NEW r, call[Import].left # <<>>, ImportRecord(r)
  PROVE  \/ /\ db' = db /\ root' = root /\ record' = record
            /\ call'[Import].new = call[Import].new
         \/ /\ r \notin call[Import].keys
            /\ db.next \in Ids /\ db.next \notin db.rows /\ db'.rows = db.rows \cup {db.next}
            /\ db'.next = db.next + 1 /\ db' = Stored(db, db.next, FALSE)
            /\ root' = [root EXCEPT ![db.next] = db.next]
            /\ record' = [record EXCEPT ![db.next] = r]
            /\ call'[Import].new = call[Import].new \cup {db.next}
<1>1. call \in [Workers -> Calls] /\ Import \in Workers
  BY TwoWorkers DEF TypeInv, Base, Types, WorkTypes
<1>2. CASE /\ db' = db /\ root' = root /\ record' = record
           /\ call' = [call EXCEPT ![Import].left = Tail(@)]
  BY <1>1, <1>2 DEF Calls
<1>3. CASE /\ r \notin call[Import].keys /\ db.next <= world.last /\ db' = Stored(db, db.next, FALSE)
           /\ root' = [root EXCEPT ![db.next] = db.next]
           /\ record' = [record EXCEPT ![db.next] = r]
           /\ call' = [call EXCEPT ![Import].left = Tail(@), ![Import].new = @ \cup {db.next}]
  <2>1. db.next \in Ids /\ Sane(db)
    BY <1>3, WorldFacts DEF TypeInv, Base, Types, StoreTypes, Sane, Databases, Ids
  <2>2. db.next \notin db.rows /\ db'.rows = db.rows \cup {db.next} /\ db'.next = db.next + 1
    BY <1>3, <2>1, StoredFacts
  <2>3. call'[Import].new = call[Import].new \cup {db.next}
    BY <1>1, <1>3 DEF Calls
  <2> QED BY <1>3, <2>1, <2>2, <2>3
<1> QED BY <1>2, <1>3 DEF ImportRecord

\* The batch: one record of it, or on to the index and the checkpoint.
LEMMA ImportStoreCall ==
  ASSUME TypeInv, ImportStore
  PROVE  /\ todo[Import] # <<>> /\ Head(todo[Import]) = "store"
         /\ call[Import] \in Calls /\ call[Import].kind = "import" /\ call[Import].undo = FALSE
         /\ call'[Import].kind = "import" /\ call'[Import].undo = FALSE
         /\ call'[Import].ids = call[Import].ids /\ call'[Import].keys = call[Import].keys
         /\ todo'[User] = todo[User] /\ call'[User] = call[User]
         /\ saved' = saved /\ acked' = acked /\ cut' = cut
         /\ todo'[Import] # <<>>
         /\ \/ /\ call[Import].left # <<>> /\ ImportRecord(Head(call[Import].left))
               /\ todo' = todo /\ call'[Import].left = Tail(call[Import].left)
            \/ /\ call[Import].left = <<>> /\ db' = db /\ root' = root /\ record' = record
               /\ call' [Import] = call[Import]
               /\ Head(todo'[Import]) \in {"ask_new", "save"}
               /\ Head(todo'[Import]) = "save" => call[Import].new = {}
<1> DEFINE c == call[Import]
<1>1. todo[Import] # <<>> /\ Head(todo[Import]) = "store" /\ saved' = saved /\ acked' = acked /\ cut' = cut
  BY DEF ImportStore, disk
<1>2. /\ c \in Calls /\ c.kind = "import" /\ c.undo = FALSE
      /\ Tail(todo[Import]) # <<>> /\ Head(Tail(todo[Import])) = "ask_new"
  <2>1. c \in Calls /\ c.kind \in {"import"}
    BY <1>1, AtWork, TwoWorkers DEF TypeInv, Base, Types
  <2>2. Belongs(c.kind, c.undo, "store") /\ Follows("store", Tail(todo[Import]))
    BY <1>1, StepFacts, TwoWorkers DEF TypeInv, Base, Types
  <2> QED BY <2>1, <2>2 DEF Belongs, Follows
<1>3. CASE c.left # <<>>
  <2>1. ImportRecord(Head(c.left)) /\ todo' = todo
    BY <1>3 DEF ImportStore
  <2>2. /\ call'[User] = call[User]
        /\ call'[Import].kind = c.kind /\ call'[Import].undo = c.undo
        /\ call'[Import].ids = c.ids /\ call'[Import].keys = c.keys
        /\ call'[Import].left = Tail(c.left)
    BY <1>3, <2>1, RecordCall DEF TypeInv, Base, Types
  <2> QED BY <1>1, <1>2, <1>3, <2>1, <2>2
<1>4. CASE c.left = <<>>
  <2> DEFINE ss == IF c.new = {} THEN <<"save">> ELSE Tail(todo[Import])
  <2>1. Continue(Import, ss, c) /\ db' = db /\ root' = root /\ record' = record
    BY <1>4 DEF ImportStore
  <2>2. <<"save">> # <<>> /\ Head(<<"save">>) = "save"
    BY Table DEF I1
  <2>3. ss # <<>> /\ Head(ss) \in {"ask_new", "save"} /\ (Head(ss) = "save" => c.new = {})
    <3>1. CASE c.new = {}
      BY <2>2, <3>1
    <3>2. CASE c.new # {}
      BY <1>2, <3>2
    <3> QED BY <3>1, <3>2
  <2> HIDE DEF ss
  <2>4. /\ todo'[Import] = ss /\ call'[Import] = c
        /\ todo'[User] = todo[User] /\ call'[User] = call[User]
    BY <2>1, <2>3, Continued, TwoWorkers, ZenonT(60) DEF TypeInv, Base, Types
  <2> QED BY <1>1, <1>2, <1>4, <2>1, <2>3, <2>4
<1> QED BY <1>3, <1>4

\* What the checkpoint of the import does.
LEMMA ImportSaveCall ==
  ASSUME TypeInv, ImportSave
  PROVE  LET c == call[Import]
         IN /\ todo[Import] # <<>> /\ Head(todo[Import]) = "save"
            /\ c \in Calls /\ c.kind = "import" /\ c.undo = FALSE
            /\ todo'[User] = todo[User] /\ call'[User] = call[User]
            /\ db' = db /\ root' = root /\ record' = record /\ cut' = cut
            /\ saved' = saved \/ saved' = Nothing
            /\ acked' = acked \cup {root[i] : i \in (c.new \cap db.rows) \ Doomed}
            /\ call'[Import].ids = {} /\ call'[Import].new = {} /\ call'[Import].undo = FALSE
            /\ \/ todo'[Import] = <<>> /\ call'[Import] = Idle
               \/ /\ todo'[Import] = Plan("import") /\ call'[Import].kind = "import"
                  /\ call'[Import].left = NextBatch(UpTo(cursor + Batch))
                  /\ call'[Import].keys = c.keys \cup {record[i] : i \in c.new}
<1> DEFINE c == call[Import]
           e == [Idle EXCEPT !.kind = "import", !.left = NextBatch(UpTo(cursor + Batch)),
                   !.keys = c.keys \cup {record[i] : i \in c.new}]
<1>1. /\ todo[Import] # <<>> /\ Head(todo[Import]) = "save"
      /\ db' = db /\ root' = root /\ record' = record /\ cut' = cut
      /\ saved' = saved \/ saved' = Nothing
      /\ acked' = acked \cup {root[i] : i \in (c.new \cap db.rows) \ Doomed}
      /\ Continue(Import, <<>>, Idle) \/ Continue(Import, Plan("import"), e)
  BY DEF ImportSave, data
<1>2. c \in Calls /\ c.kind = "import" /\ c.undo = FALSE
  <2>1. c \in Calls /\ c.kind \in {"import"}
    BY <1>1, AtWork, TwoWorkers DEF TypeInv, Base, Types
  <2>2. Belongs(c.kind, c.undo, "save")
    BY <1>1, StepFacts, TwoWorkers DEF TypeInv, Base, Types
  <2> QED BY <2>1, <2>2 DEF Belongs
<1>3. /\ e.kind = "import" /\ e.ids = {} /\ e.new = {} /\ e.undo = FALSE
      /\ e.left = NextBatch(UpTo(cursor + Batch))
      /\ e.keys = c.keys \cup {record[i] : i \in c.new}
  BY IdleCall DEF Calls
<1>4. Plan("import") # <<>>
  BY PlanList DEF AllKinds
<1> HIDE DEF e
<1>5. CASE Continue(Import, <<>>, Idle)
  <2>1. /\ todo'[Import] = <<>> /\ call'[Import] = Idle
        /\ todo'[User] = todo[User] /\ call'[User] = call[User]
    BY <1>5, Continued, TwoWorkers DEF TypeInv, Base, Types
  <2> QED BY <1>1, <1>2, <2>1, IdleCall
<1>6. CASE Continue(Import, Plan("import"), e)
  <2>1. /\ todo'[Import] = Plan("import") /\ call'[Import] = e
        /\ todo'[User] = todo[User] /\ call'[User] = call[User]
    BY <1>4, <1>6, Continued, TwoWorkers, ZenonT(60) DEF TypeInv, Base, Types
  <2> QED BY <1>1, <1>2, <1>3, <2>1
<1> QED BY <1>1, <1>5, <1>6

\* A rollback changes rows in one step, which restores the database.
LEMMA RollsAside ==
  ASSUME TypeInv, Stop \/ Unload \/ RestoreIndex \/ RolledBack \/ RollbackFails
  PROVE  Aside
<1>1. Sane(db) /\ rebuild.derived \in SUBSET Ids
  BY DEF TypeInv, Base, Types, StoreTypes, DiskTypes
<1>2. CASE RestoreIndex
  <2>1. db' = db \/ db' = [db EXCEPT !.derived = rebuild.derived]
    BY <1>2 DEF RestoreIndex, PutBack
  <2>2. db'.rows = db.rows /\ db'.next = db.next
    BY <1>1, <2>1, DerivedSane
  <2> QED BY <1>2, <2>2 DEF RestoreIndex, Aside, past
<1>3. CASE Stop \/ RolledBack \/ RollbackFails
  BY <1>3 DEF Stop, RolledBack, RollbackFails, Aside, data, work, past
<1>4. CASE Unload
  BY <1>4 DEF Unload, Aside, past
<1> QED BY <1>2, <1>3, <1>4

\* Where the runtime is down, the restored database is the copy and nobody works.
LEMMA RestoreCall ==
  ASSUME TypeInv, RestoreDatabase, ~Replaced'
  PROVE  \/ Aside
         \/ /\ call'[User] = Idle /\ call'[Import] = Idle /\ call[User] = Idle
            /\ todo'[User] = <<>> /\ saved' = saved /\ root' = root /\ record' = record
            /\ saved \in Snapshots /\ saved.db # Nothing /\ Sane(saved.db)
            /\ db' = saved.db /\ cut' = cut \cup saved.cut
            /\ acked' = acked \cap {root[i] : i \in saved.db.rows}
<1>1. CASE saved.db = Nothing
  BY <1>1 DEF RestoreDatabase, Aside, work
<1>2. CASE saved.db # Nothing
  <2>1. ~up
    BY <1>2 DEF RestoreDatabase, Replaced
  <2>2. todo[User] = <<>> /\ todo[Import] = <<>>
    BY <2>1 DEF TypeInv, Base, Order
  <2>3. call[User] = Idle /\ call[Import] = Idle
    BY <2>2, AtRest, TwoWorkers DEF TypeInv, Base, Types
  <2>4. saved \in Snapshots /\ Sane(saved.db)
    <3>1. saved \in Snapshots
      BY DEF RestoreDatabase, TypeInv, Base, Types, RollTypes, DiskTypes
    <3> QED BY <1>2, <3>1 DEF TypeInv, Base, Types, DiskTypes
  <2> QED BY <1>2, <2>2, <2>3, <2>4 DEF RestoreDatabase, work
<1> QED BY <1>1, <1>2

\* What a crash or an unload does.
LEMMA DownCall ==
  ASSUME Down
  PROVE  /\ todo'[User] = <<>> /\ call'[User] = Idle /\ todo'[Import] = <<>> /\ call'[Import] = Idle
         /\ db' = db /\ saved' = saved /\ root' = root /\ record' = record /\ acked' = acked
         /\ cut' = cut \cup Edited
BY DEF Down, data

\* What the copy of the database is.
LEMMA SnapshotCall ==
  ASSUME TypeInv, Snapshot
  PROVE  /\ todo' = todo /\ call' = call /\ db' = db /\ UNCHANGED past
         /\ saved' \in Snapshots /\ saved'.db = db /\ saved'.cut = Edited
<1>1. saved \in Snapshots /\ saved' = [saved EXCEPT !.db = db, !.cut = Edited]
  BY DEF Snapshot, TypeInv, Base, Types, DiskTypes
<1>2. db \in Databases /\ Edited \in SUBSET Ids
  BY EditedIn DEF TypeInv, Base, Types, StoreTypes, Sane
<1>3. saved' \in Snapshots /\ saved'.db = db /\ saved'.cut = Edited
  BY <1>1, <1>2 DEF Snapshots
<1> QED BY <1>3 DEF Snapshot, data, work

-----------------------------------------------------------------------------
\* Ids in hand.

\* Ids are numbers, and rows have ids that were handed out.
LEMMA Numbers ==
  ASSUME StoreTypes
  PROVE  /\ db.next \in Nat /\ Ids \subseteq Nat /\ db.rows \subseteq Ids
         /\ \A i \in db.rows : i < db.next
<1>1. MaxId \in Nat
  BY MemoryAssumption
<1> QED BY <1>1 DEF StoreTypes, Sane, Databases, Ids

\* What is in hand is a set of ids.
LEMMA InHand ==
  ASSUME WorkTypes, NEW p \in Workers
  PROVE  call[p].ids \subseteq Ids /\ call[p].new \subseteq Ids /\ call[p].undo \in BOOLEAN
BY AtRest DEF Calls

\* No new ids, and the database hands out none twice.
LEMMA FreshStays ==
  ASSUME TypeInv, Fresh, root' = root, db'.next \in Nat, db.next <= db'.next,
         \A p \in Workers : /\ call'[p].ids \subseteq call[p].ids \cup db.rows
                            /\ call'[p].new \subseteq call[p].new,
         Facing(User, {"store"})' => call'[User].new = {},
         call'[User].new = {} \/ call'[User].ids \subseteq call[User].ids,
         saved' = saved \/ saved' \notin Snapshots \/ saved'.db = Nothing \/ saved'.db = db
  PROVE  Fresh'
<1>1. /\ db.next \in Nat /\ Ids \subseteq Nat /\ db.rows \subseteq Ids
      /\ \A i \in db.rows : i < db.next
  BY Numbers DEF TypeInv, Base, Types
<1>2. \A p \in Workers : call[p].ids \subseteq Ids /\ call[p].new \subseteq Ids
  BY InHand DEF TypeInv, Base, Types
<1>3. ASSUME NEW p \in Workers PROVE Given(call[p])'
  <2>1. \A i \in call[p].ids \cup call[p].new : i < db.next
    BY TwoWorkers DEF Fresh, Given
  <2>2. ASSUME NEW i \in call'[p].ids \cup call'[p].new PROVE i < db'.next
    <3>1. i \in Nat /\ i < db.next
      BY <1>1, <1>2, <2>1
    <3> QED BY <1>1, <3>1
  <2> QED BY <2>2 DEF Given
<1>4. Given(call[User])' /\ Given(call[Import])'
  BY <1>3, TwoWorkers
<1>5. saved' \in Snapshots /\ saved'.db # Nothing => saved'.db.next <= db'.next
  <2>1. SUFFICES ASSUME saved' \in Snapshots, saved'.db # Nothing PROVE saved'.db.next <= db'.next
    OBVIOUS
  <2>2. CASE saved'.db = db
    BY <2>2
  <2>3. CASE saved' = saved
    <3>1. saved.db.next <= db.next /\ saved.db.next \in Nat
      BY <2>1, <2>3, <1>1, MemoryAssumption DEF Fresh, TypeInv, Base, Types, DiskTypes, Databases
    <3> QED BY <1>1, <2>3, <3>1
  <2> QED BY <2>1, <2>2, <2>3
<1>6. \A i \in Ids : root'[i] <= i
  BY DEF Fresh
<1>7. call'[User].new \cap call'[Import].new = {} /\ call'[User].new \cap call'[User].ids = {}
  BY TwoWorkers DEF Fresh
<1> QED BY <1>4, <1>5, <1>6, <1>7 DEF Fresh

\* Ids are apart at first.
LEMMA FreshInit ==
  ASSUME Init
  PROVE  Fresh
<1>1. TypeInv
  BY TypesInit
<1>2. call[User] = Idle /\ call[Import] = Idle /\ todo[User] = <<>> /\ saved = Nothing
  BY DEF Init
<1>3. \A i \in Ids : root[i] <= i
  <2>1. \A i \in Ids : root[i] = i /\ i \in Nat
    BY Numbers, <1>1 DEF Init, TypeInv, Base, Types
  <2> QED BY <2>1
<1>4. saved \notin Snapshots
  BY <1>2, MemoryAssumption
<1> QED BY <1>2, <1>3, <1>4, IdleCall DEF Fresh, Given, Facing

\* A step that changes neither rows nor requests keeps ids apart: what is in hand was
\* handed out once.
LEMMA FreshAside ==
  ASSUME TypeInv, Fresh, Aside
  PROVE  Fresh'
<1>1. db'.next = db.next /\ db.next \in Nat
  BY Numbers DEF Aside, TypeInv, Base, Types
<1>2. Facing(User, {"store"})' => call'[User].new = {}
  BY DEF Aside, Fresh, Facing
<1>3. saved' = saved \/ saved' \notin Snapshots \/ saved'.db = Nothing
  BY MemoryAssumption DEF Aside
<1> QED BY <1>1, <1>2, <1>3, FreshStays DEF Aside

\* A request that goes on or is undone stores nothing more.
LEMMA StoresOnce ==
  ASSUME TypeInv, NEW p \in Workers, todo[p] # <<>>, todo'[p] # <<>>,
         \/ Head(todo[p]) \in {"ask_new", "swap", "mark", "ask_out", "drop", "drop_new", "back",
                               "repair", "shelve", "unshelve", "ask_in"} /\ todo'[p] = Tail(todo[p])
         \/ todo'[p] = IF call[p].undo THEN Raised(p) ELSE Undo(call[p].kind, Head(todo[p]))
  PROVE  Head(todo'[p]) # "store"
<1>1. /\ call[p].kind \in Kinds(p) /\ call[p].undo \in BOOLEAN
      /\ todo[p] \in Lists(call[p].kind, call[p].undo)
  BY AtWork DEF TypeInv, Base, Types
<1>2. CASE /\ todo'[p] = Tail(todo[p])
           /\ Head(todo[p]) \in {"ask_new", "swap", "mark", "ask_out", "drop", "drop_new", "back",
                                 "repair", "shelve", "unshelve", "ask_in"}
  <2>1. Follows(Head(todo[p]), todo'[p])
    BY <1>2, StepFacts DEF TypeInv, Base, Types
  <2> QED BY <1>2, <2>1 DEF Follows
<1>3. CASE call[p].undo = FALSE /\ todo'[p] = Undo(call[p].kind, Head(todo[p]))
  <2>1. todo'[p] \in Lists(call[p].kind, TRUE)
    BY <1>1, <1>3, Backward
  <2>2. Belongs(call[p].kind, TRUE, Head(todo'[p]))
    BY <2>1, Onward
  <2> QED BY <2>2 DEF Belongs
<1>4. CASE call[p].undo = TRUE /\ todo'[p] = Raised(p)
  <2>1. todo'[p] = J1
    BY <1>4 DEF Raised, J1
  <2> QED BY <2>1, Table
<1> QED BY <1>1, <1>2, <1>3, <1>4

\* A step of a request or of the import keeps ids apart: what is in hand was handed out
\* once.
LEMMA FreshStep ==
  ASSUME TypeInv, Fresh, NEW p \in Workers, Step(p)
  PROVE  Fresh'
<1>1. /\ todo[p] # <<>> /\ call[p] \in Calls /\ todo'[p] = Tail(todo[p])
      /\ Head(todo[p]) \in {"ask_new", "swap", "mark", "ask_out", "drop", "drop_new", "back",
                            "repair", "shelve", "unshelve", "ask_in"}
      /\ Effect(Head(todo[p]), call[p])
      /\ todo'[p] = <<>> => call'[p] = Idle
      /\ todo'[p] # <<>> => SameCall(call[p], call'[p])
      /\ \A q \in Workers \ {p} : todo'[q] = todo[q] /\ call'[q] = call[q]
      /\ saved' = saved /\ root' = root
  BY StepCall
<1>2. db'.next = db.next /\ db.next \in Nat
  BY <1>1, EffectRows, Numbers DEF TypeInv, Base, Types
<1>3. /\ call'[p].ids \subseteq call[p].ids /\ call'[p].new \subseteq call[p].new
  BY <1>1, IdleCall DEF SameCall
<1>4. \A q \in Workers : call'[q].ids \subseteq call[q].ids /\ call'[q].new \subseteq call[q].new
  BY <1>1, <1>3
<1>5. Facing(User, {"store"})' => call'[User].new = {}
  <2>1. CASE p = User
    BY <1>1, <2>1, StoresOnce DEF Facing
  <2>2. CASE p # User
    BY <1>1, <2>2, TwoWorkers DEF Facing, Fresh
  <2> QED BY <2>1, <2>2
<1>6. db'.next \in Nat /\ db.next <= db'.next /\ saved' = saved /\ root' = root
  BY <1>1, <1>2
<1>7. \A q \in Workers : call'[q].ids \subseteq call[q].ids \cup db.rows
  BY <1>4
<1> QED BY <1>4, <1>5, <1>6, <1>7, FreshStays, TwoWorkers

\* A failure, whatever it does to what is archived.
LEMMA FreshFails ==
  ASSUME TypeInv, Fresh, NEW p \in Workers, todo[p] # <<>>, Fails(p, Head(todo[p]), call[p]),
         db'.next = db.next
  PROVE  Fresh'
<1>1. /\ todo'[p] = IF call[p].undo THEN Raised(p) ELSE Undo(call[p].kind, Head(todo[p]))
      /\ todo'[p] = <<>> => call'[p] = Idle
      /\ todo'[p] # <<>> => SameCall(call[p], call'[p])
      /\ \A q \in Workers \ {p} : todo'[q] = todo[q] /\ call'[q] = call[q]
      /\ saved' = saved /\ root' = root
  BY FailsCall
<1>2. db.next \in Nat
  BY Numbers DEF TypeInv, Base, Types
<1>3. /\ call'[p].ids \subseteq call[p].ids /\ call'[p].new \subseteq call[p].new
  BY <1>1, IdleCall DEF SameCall
<1>4. \A q \in Workers : call'[q].ids \subseteq call[q].ids /\ call'[q].new \subseteq call[q].new
  BY <1>1, <1>3
<1>5. Facing(User, {"store"})' => call'[User].new = {}
  <2>1. CASE p = User
    BY <1>1, <2>1, StoresOnce DEF Facing
  <2>2. CASE p # User
    BY <1>1, <2>2, TwoWorkers DEF Facing, Fresh
  <2> QED BY <2>1, <2>2
<1>6. db'.next \in Nat /\ db.next <= db'.next /\ saved' = saved /\ root' = root
  BY <1>1, <1>2
<1>7. \A q \in Workers : call'[q].ids \subseteq call[q].ids \cup db.rows
  BY <1>4
<1> QED BY <1>4, <1>5, <1>6, <1>7, FreshStays, TwoWorkers

\* The insertion of the user's row keeps ids apart: what is in hand was handed out once.
LEMMA FreshStore ==
  ASSUME TypeInv, Fresh, Store
  PROVE  Fresh'
<1> DEFINE c == call[User]
           o == IF c.ids = {} THEN db.next ELSE root[CHOOSE o \in c.ids : TRUE]
<1>1. /\ Head(todo'[User]) = "ask_new"
      /\ call'[User].ids = c.ids /\ call'[User].new = {db.next}
      /\ call'[Import] = call[Import] /\ db.next \in Ids /\ db'.next = db.next + 1
      /\ saved' = saved /\ root' = [root EXCEPT ![db.next] = o]
  BY StoreCall
<1>2. db.next \in Nat /\ Ids \subseteq Nat /\ root \in [Ids -> Ids]
  BY Numbers DEF TypeInv, Base, Types, StoreTypes
<1>3. \A p \in Workers : call[p].ids \subseteq Ids /\ call[p].new \subseteq Ids
  BY InHand DEF TypeInv, Base, Types
<1>4. \A p \in Workers : \A i \in call[p].ids \cup call[p].new : i < db.next
  BY TwoWorkers DEF Fresh, Given
<1>5. o <= db.next /\ o \in Ids
  <2>1. CASE c.ids = {}
    BY <1>1, <1>2, <2>1
  <2>2. CASE c.ids # {}
    <3>1. PICK i : i = CHOOSE x \in c.ids : TRUE
      OBVIOUS
    <3>2. i \in c.ids /\ i \in Ids /\ i < db.next /\ root[i] <= i /\ root[i] \in Ids
      BY <1>2, <1>3, <1>4, <2>2, <3>1, TwoWorkers DEF Fresh
    <3>3. i \in Nat /\ root[i] \in Nat
      BY <1>2, <3>2
    <3>4. root[i] <= db.next
      BY <1>2, <3>2, <3>3
    <3> QED BY <2>2, <3>1, <3>2, <3>4
  <2> QED BY <2>1, <2>2
<1> HIDE DEF o
<1>6. \A i \in Ids : root'[i] <= i
  BY <1>1, <1>2, <1>5 DEF Fresh
<1>7. Given(call[User])' /\ Given(call[Import])'
  <2>1. ASSUME NEW p \in Workers, NEW i \in call'[p].ids \cup call'[p].new PROVE i < db'.next
    <3>1. CASE i = db.next
      BY <1>1, <1>2, <3>1
    <3>2. CASE i # db.next
      <4>1. i \in Ids /\ i < db.next
        BY <1>1, <1>3, <1>4, <2>1, <3>2, TwoWorkers
      <4>2. i \in Nat
        BY <1>2, <4>1
      <4> QED BY <1>1, <1>2, <4>1, <4>2
    <3> QED BY <3>1, <3>2
  <2> QED BY <2>1, TwoWorkers DEF Given
<1>8. db.next \notin call[Import].new \cup call[User].ids
  <2>1. ~(db.next < db.next)
    BY <1>2
  <2> QED BY <1>4, <2>1, TwoWorkers
<1>9. saved' \in Snapshots /\ saved'.db # Nothing => saved'.db.next <= db'.next
  <2>1. SUFFICES ASSUME saved \in Snapshots, saved.db # Nothing PROVE saved.db.next <= db'.next
    BY <1>1
  <2>2. saved.db.next <= db.next /\ saved.db.next \in Nat
    BY <2>1, MemoryAssumption DEF Fresh, TypeInv, Base, Types, DiskTypes, Databases
  <2> QED BY <1>1, <1>2, <2>2
<1> QED BY <1>1, <1>6, <1>7, <1>8, <1>9 DEF Fresh, Facing

\* A record of the import keeps ids apart: what is in hand was handed out once.
LEMMA FreshImportStore ==
  ASSUME TypeInv, Fresh, ImportStore
  PROVE  Fresh'
<1> DEFINE c == call[Import]
<1>1. /\ call'[Import].ids = c.ids
      /\ todo'[User] = todo[User] /\ call'[User] = call[User] /\ saved' = saved
      /\ \/ c.left # <<>> /\ ImportRecord(Head(c.left))
         \/ db' = db /\ root' = root /\ call'[Import] = c
  BY ImportStoreCall
<1>2. db.next \in Nat /\ Ids \subseteq Nat /\ root \in [Ids -> Ids]
  BY Numbers DEF TypeInv, Base, Types, StoreTypes
<1>3. CASE db' = db /\ root' = root /\ call'[Import].new = c.new
  <2>1. Facing(User, {"store"})' => call'[User].new = {}
    BY <1>1 DEF Fresh, Facing
  <2>2. \A q \in Workers : /\ call'[q].ids \subseteq call[q].ids \cup db.rows
                           /\ call'[q].new \subseteq call[q].new
    BY <1>1, <1>3, TwoWorkers
  <2>3. db'.next \in Nat /\ db.next <= db'.next
    BY <1>2, <1>3
  <2> QED BY <1>1, <1>3, <2>1, <2>2, <2>3, FreshStays
<1>4. CASE /\ db.next \in Ids /\ db'.next = db.next + 1
           /\ root' = [root EXCEPT ![db.next] = db.next]
           /\ call'[Import].new = c.new \cup {db.next}
  <2>1. \A p \in Workers : call[p].ids \subseteq Ids /\ call[p].new \subseteq Ids
    BY InHand DEF TypeInv, Base, Types
  <2>2. \A p \in Workers : \A i \in call[p].ids \cup call[p].new : i < db.next
    BY TwoWorkers DEF Fresh, Given
  <2>3. \A i \in Ids : root'[i] <= i
    <3>1. ASSUME NEW i \in Ids PROVE root'[i] <= i
      <4>1. CASE i = db.next
        BY <1>2, <1>4, <4>1
      <4>2. CASE i # db.next
        BY <1>2, <1>4, <4>2 DEF Fresh
      <4> QED BY <4>1, <4>2
    <3> QED BY <3>1
  <2>4. Given(call[User])' /\ Given(call[Import])'
    <3>1. ASSUME NEW p \in Workers, NEW i \in call'[p].ids \cup call'[p].new PROVE i < db'.next
      <4>1. CASE i = db.next
        BY <1>2, <1>4, <4>1
      <4>2. CASE i # db.next
        <5>1. i \in Ids /\ i < db.next
          BY <1>1, <1>4, <2>1, <2>2, <3>1, <4>2, TwoWorkers
        <5>2. i \in Nat
          BY <1>2, <5>1
        <5> QED BY <1>2, <1>4, <5>1, <5>2
      <4> QED BY <4>1, <4>2
    <3> QED BY <3>1, TwoWorkers DEF Given
  <2>5. db.next \notin call[User].new
    <3>1. ~(db.next < db.next)
      BY <1>2
    <3> QED BY <2>2, <3>1, TwoWorkers
  <2>6. saved' \in Snapshots /\ saved'.db # Nothing => saved'.db.next <= db'.next
    <3>1. SUFFICES ASSUME saved \in Snapshots, saved.db # Nothing PROVE saved.db.next <= db'.next
      BY <1>1
    <3>2. saved.db.next <= db.next /\ saved.db.next \in Nat
      BY <3>1, MemoryAssumption DEF Fresh, TypeInv, Base, Types, DiskTypes, Databases
    <3> QED BY <1>2, <1>4, <3>2
  <2> QED BY <1>1, <1>4, <2>3, <2>4, <2>5, <2>6 DEF Fresh, Facing
<1>5. CASE c.left # <<>> /\ ImportRecord(Head(c.left))
  <2>1. \/ db' = db /\ root' = root /\ call'[Import].new = c.new
        \/ /\ db.next \in Ids /\ db'.next = db.next + 1
           /\ root' = [root EXCEPT ![db.next] = db.next]
           /\ call'[Import].new = c.new \cup {db.next}
    BY <1>5, RecordEffect
  <2> QED BY <1>3, <1>4, <2>1
<1> QED BY <1>1, <1>3, <1>5

\* Restoring the database keeps ids apart: what is in hand was handed out once.
LEMMA FreshRestore ==
  ASSUME TypeInv, Fresh, RestoreDatabase, ~Replaced'
  PROVE  Fresh'
<1>1. CASE Aside
  BY <1>1, FreshAside
<1>2. CASE ~Aside
  <2>1. /\ call'[User] = Idle /\ call'[Import] = Idle /\ todo'[User] = <<>>
        /\ saved' = saved /\ root' = root /\ db' = saved.db /\ Sane(saved.db)
    BY <1>2, RestoreCall
  <2>2. saved.db.next \in Nat
    BY <2>1, MemoryAssumption DEF Sane, Databases
  <2>3. saved.db.next <= saved.db.next
    BY <2>2
  <2>4. saved'.db.next <= db'.next
    BY <2>1, <2>3
  <2>5. \A i \in Ids : root'[i] <= i
    BY <2>1 DEF Fresh
  <2> QED BY <2>1, <2>4, <2>5, IdleCall, Zenon DEF Fresh, Given, Facing
<1> QED BY <1>1, <1>2

\* Every step keeps ids apart: what is in hand was handed out once.
LEMMA FreshNext ==
  ASSUME TypeInv, Fresh, [Next]_vars, ~Replaced'
  PROVE  Fresh'
<1>1. db.next \in Nat /\ db.next <= db.next
  BY Numbers DEF TypeInv, Base, Types
<1>2. ASSUME NEW k \in world.kinds, NEW S \in SUBSET Ids, Request(k, S) PROVE Fresh'
  <2>1. k \in UserKinds
    BY WorldFacts DEF TypeInv, Base, Types, StoreTypes
  <2>2. /\ call'[User].ids = S /\ call'[User].new = {} /\ S \subseteq db.rows
        /\ call'[Import] = call[Import] /\ db' = db /\ saved' = saved /\ root' = root
    BY <1>2, <2>1, RequestCall
  <2> QED BY <1>1, <2>2, FreshStays, TwoWorkers
<1>3. ASSUME NEW p \in Workers, Step(p) PROVE Fresh'
  BY <1>3, FreshStep
<1>4. CASE Store
  BY <1>4, FreshStore
<1>5. ASSUME NEW p \in Workers, Refuse(p) \/ Fault(p) PROVE Fresh'
  <2>1. todo[p] # <<>> /\ Fails(p, Head(todo[p]), call[p]) /\ db'.next = db.next
    BY <1>5, FailsRows
  <2> QED BY <2>1, FreshFails
<1>6. CASE Cancel
  <2>1. CASE Fails(User, Head(todo[User]), call[User])
    <3>1. db' = db /\ todo[User] # <<>>
      BY <1>6, CancelCall
    <3> QED BY <2>1, <3>1, FreshFails, TwoWorkers
  <2>2. CASE /\ todo'[User] = <<>> /\ call'[User] = Idle
             /\ todo'[Import] = todo[Import] /\ call'[Import] = call[Import]
             /\ saved' = saved /\ UNCHANGED past
    <3>1. db' = db
      BY <1>6, CancelCall
    <3>2. Facing(User, {"store"})' => call'[User].new = {}
      BY <2>2, IdleCall
    <3> QED BY <1>1, <2>2, <3>1, <3>2, FreshStays, TwoWorkers, IdleCall DEF past
  <2> QED BY <1>6, <2>1, <2>2, CancelCall
<1>7. CASE ImportBegin
  <2>1. /\ call'[Import].ids = {} /\ call'[Import].new = {}
        /\ todo'[User] = todo[User] /\ call'[User] = call[User]
        /\ db' = db /\ saved' = saved /\ root' = root
    BY <1>7, ImportBeginCall DEF past
  <2>2. Facing(User, {"store"})' => call'[User].new = {}
    BY <2>1 DEF Fresh, Facing
  <2> QED BY <1>1, <2>1, <2>2, FreshStays, TwoWorkers
<1>8. CASE ImportStore
  BY <1>8, FreshImportStore
<1>9. CASE ImportSave
  <2>1. /\ call'[Import].ids = {} /\ call'[Import].new = {}
        /\ todo'[User] = todo[User] /\ call'[User] = call[User]
        /\ db' = db /\ root' = root /\ (saved' = saved \/ saved' = Nothing)
    BY <1>9, ImportSaveCall
  <2>2. Facing(User, {"store"})' => call'[User].new = {}
    BY <2>1 DEF Fresh, Facing
  <2> QED BY <1>1, <2>1, <2>2, FreshStays, TwoWorkers, MemoryAssumption
<1>10. CASE ImportRaise
  <2>1. /\ call'[Import].ids = {} /\ call'[Import].new = {}
        /\ todo'[User] = todo[User] /\ call'[User] = call[User]
        /\ db' = db /\ saved' = saved /\ root' = root
    BY <1>10, ImportRaiseCall, IdleCall DEF past
  <2>2. Facing(User, {"store"})' => call'[User].new = {}
    BY <2>1 DEF Fresh, Facing
  <2> QED BY <1>1, <2>1, <2>2, FreshStays, TwoWorkers
<1>11. CASE Snapshot
  <2>1. todo' = todo /\ call' = call /\ db' = db /\ root' = root /\ saved'.db = db
    BY <1>11, SnapshotCall DEF past
  <2>2. Facing(User, {"store"})' => call'[User].new = {}
    BY <2>1 DEF Fresh, Facing
  <2> QED BY <1>1, <2>1, <2>2, FreshStays
<1>12. CASE Rollback \/ RollbackFails
  BY <1>12, FreshRestore, RollsAside, FreshAside DEF Rollback
<1>13. CASE Down
  <2>1. /\ call'[User] = Idle /\ call'[Import] = Idle /\ todo'[User] = <<>>
        /\ db' = db /\ saved' = saved /\ root' = root
    BY <1>13, DownCall
  <2>2. Facing(User, {"store"})' => call'[User].new = {}
    BY <2>1, IdleCall
  <2> QED BY <1>1, <2>1, <2>2, FreshStays, TwoWorkers, IdleCall
<1>14. CASE Rebuilds \/ RebuildBegin \/ Interrupt \/ RebuildFails
  BY <1>14, RebuildsAside, FreshAside
<1>15. CASE Restart \/ (\E k \in {"rebuild", "import"} : TaskBegin(k)) \/ UNCHANGED vars
  BY <1>15, OthersAside, FreshAside
<1> QED BY <1>2, <1>3, <1>4, <1>5, <1>6, <1>7, <1>8, <1>9, <1>10, <1>11, <1>12, <1>13, <1>14, <1>15,
           TwoWorkers DEF Next, Steps, Requests, Serve, Imports, Breaks

-----------------------------------------------------------------------------
\* Records are stored once.

\* No row is added and no record is read.
LEMMA OnceStays ==
  ASSUME TypeInv, Once, db'.rows \subseteq db.rows, record' = record,
         saved' = saved \/ saved' \notin Snapshots \/ saved'.db = Nothing \/ saved'.db = db,
         call'[Import].kind = "import" /\ ~call'[Import].undo =>
           SameCall(call[Import], call'[Import]) /\ ~call[Import].undo
  PROVE  Once'
<1>1. OnceIn(db.rows)'
  BY DEF Once, OnceIn
<1>2. saved' \in Snapshots /\ saved'.db # Nothing => OnceIn(saved.db.rows)'
  BY DEF Once, OnceIn
<1>3. ImportFacts'
  BY DEF Once, ImportFacts, SameCall
<1> QED BY <1>1, <1>2, <1>3 DEF Once

\* No record is stored twice at first.
LEMMA OnceInit ==
  ASSUME Init
  PROVE  Once
<1>1. call[Import] = Idle /\ saved = Nothing /\ (\A i \in Ids : record[i] = Nothing)
  BY TwoWorkers DEF Init, Workers
<1>2. db.rows \subseteq Ids
  BY TypesInit, Numbers DEF TypeInv, Base, Types
<1>3. saved \notin Snapshots
  BY <1>1, MemoryAssumption
<1>4. OnceIn(db.rows)
  BY <1>1, <1>2 DEF OnceIn
<1> QED BY <1>1, <1>3, <1>4, IdleCall DEF Once, ImportFacts

\* A step that changes neither rows nor requests stores no record twice.
LEMMA OnceAside ==
  ASSUME TypeInv, Once, Aside
  PROVE  Once'
<1>1. saved' = saved \/ saved' \notin Snapshots \/ saved'.db = Nothing
  BY MemoryAssumption DEF Aside
<1> QED BY <1>1, OnceStays DEF Aside, SameCall

\* A step of a request or of the import stores no record twice.
LEMMA OnceStep ==
  ASSUME TypeInv, Once, NEW p \in Workers, Step(p)
  PROVE  Once'
<1>1. /\ call[p] \in Calls /\ Effect(Head(todo[p]), call[p])
      /\ Head(todo[p]) \in {"ask_new", "swap", "mark", "ask_out", "drop", "drop_new", "back",
                            "repair", "shelve", "unshelve", "ask_in"}
      /\ todo'[p] = <<>> => call'[p] = Idle
      /\ todo'[p] # <<>> => SameCall(call[p], call'[p]) /\ call'[p].undo = call[p].undo
      /\ \A q \in Workers \ {p} : call'[q] = call[q]
      /\ saved' = saved /\ record' = record
  BY StepCall
<1>2. db'.rows \subseteq db.rows
  BY <1>1, EffectRows DEF TypeInv, Base, Types
<1>3. call'[Import].kind = "import" /\ ~call'[Import].undo =>
        SameCall(call[Import], call'[Import]) /\ ~call[Import].undo
  <2>1. CASE p = Import
    BY <1>1, <2>1, IdleCall
  <2>2. CASE p # Import
    BY <1>1, <2>2, TwoWorkers DEF SameCall
  <2> QED BY <2>1, <2>2
<1> QED BY <1>1, <1>2, <1>3, OnceStays

\* A step that fails stores no record twice.
LEMMA OnceFails ==
  ASSUME TypeInv, Once, NEW p \in Workers, todo[p] # <<>>, Fails(p, Head(todo[p]), call[p]),
         db'.rows = db.rows
  PROVE  Once'
<1>1. /\ todo'[p] = <<>> => call'[p] = Idle
      /\ todo'[p] # <<>> => call'[p].undo = TRUE
      /\ \A q \in Workers \ {p} : call'[q] = call[q]
      /\ saved' = saved /\ record' = record
  BY FailsCall
<1>2. call'[Import].kind = "import" /\ ~call'[Import].undo =>
        SameCall(call[Import], call'[Import]) /\ ~call[Import].undo
  <2>1. CASE p = Import
    BY <1>1, <2>1, IdleCall
  <2>2. CASE p # Import
    BY <1>1, <2>2, TwoWorkers DEF SameCall
  <2> QED BY <2>1, <2>2
<1> QED BY <1>1, <1>2, OnceStays

\* Ids of rows and of what is in hand or saved are older than the next one.
LEMMA Older ==
  ASSUME TypeInv, Fresh
  PROVE  /\ db.next \notin db.rows
         /\ \A p \in Workers : db.next \notin call[p].ids \cup call[p].new
         /\ saved \in Snapshots /\ saved.db # Nothing => db.next \notin saved.db.rows
<1>1. db.next \in Nat /\ Ids \subseteq Nat /\ (\A i \in db.rows : i < db.next)
  BY Numbers DEF TypeInv, Base, Types
<1>2. ~(db.next < db.next)
  BY <1>1
<1>3. \A p \in Workers : db.next \notin call[p].ids \cup call[p].new
  BY <1>2, TwoWorkers DEF Fresh, Given
<1>4. ASSUME saved \in Snapshots, saved.db # Nothing PROVE db.next \notin saved.db.rows
  <2>1. saved.db.next <= db.next /\ saved.db \in Databases /\ Sane(saved.db)
    BY <1>4 DEF Fresh, TypeInv, Base, Types, DiskTypes
  <2>2. saved.db.next \in Nat
    BY <2>1, MemoryAssumption DEF Databases
  <2>3. SUFFICES ASSUME db.next \in saved.db.rows PROVE FALSE
    OBVIOUS
  <2>4. db.next < saved.db.next
    BY <2>1, <2>3 DEF Sane
  <2> QED BY <1>1, <2>1, <2>2, <2>4
<1> QED BY <1>1, <1>2, <1>3, <1>4

\* A row is added.
LEMMA OnceAdded ==
  ASSUME TypeInv, Fresh, Once, NEW r \in RecordSet \cup {Nothing}, db.next \in Ids,
         db'.rows = db.rows \cup {db.next}, record' = [record EXCEPT ![db.next] = r],
         saved' = saved, r # Nothing => \A i \in db.rows : record[i] # r
  PROVE  /\ OnceIn(db.rows)' /\ \A i \in db.rows : record'[i] = record[i]
         /\ record'[db.next] = r
         /\ \A p \in Workers : \A i \in call[p].new : record'[i] = record[i]
         /\ saved' \in Snapshots /\ saved'.db # Nothing => OnceIn(saved.db.rows)'
<1>1. record \in [Ids -> RecordSet \cup {Nothing}] /\ db.rows \subseteq Ids
  BY Numbers DEF TypeInv, Base, Types, StoreTypes
<1>2. record'[db.next] = r /\ (\A i \in Ids \ {db.next} : record'[i] = record[i])
  BY <1>1
<1>3. \A p \in Workers : call[p].new \subseteq Ids
  BY InHand DEF TypeInv, Base, Types
<1>4. \A i \in db.rows : record'[i] = record[i]
  BY <1>1, <1>2, Older
<1>5. \A p \in Workers : \A i \in call[p].new : record'[i] = record[i]
  BY <1>2, <1>3, Older
<1>6. OnceIn(db.rows)'
  BY <1>2, <1>4 DEF Once, OnceIn
<1>7. ASSUME saved' \in Snapshots, saved'.db # Nothing PROVE OnceIn(saved.db.rows)'
  <2>1. OnceIn(saved.db.rows) /\ saved.db.rows \subseteq Ids /\ db.next \notin saved.db.rows
    BY <1>7, Older DEF Once, TypeInv, Base, Types, DiskTypes, Databases
  <2>2. \A i \in saved.db.rows : record'[i] = record[i]
    BY <1>2, <2>1
  <2> QED BY <2>1, <2>2 DEF OnceIn
<1> QED BY <1>2, <1>4, <1>5, <1>6, <1>7

\* The insertion of the user's row stores no record twice.
LEMMA OnceStore ==
  ASSUME TypeInv, Fresh, Once, Store
  PROVE  Once'
<1>1. /\ call'[Import] = call[Import] /\ db.next \in Ids /\ db'.rows = db.rows \cup {db.next}
      /\ saved' = saved /\ record' = [record EXCEPT ![db.next] = Nothing]
  BY StoreCall
<1>2. /\ OnceIn(db.rows)' /\ \A i \in db.rows : record'[i] = record[i]
      /\ record'[db.next] = Nothing
      /\ \A i \in call[Import].new : record'[i] = record[i]
      /\ saved' \in Snapshots /\ saved'.db # Nothing => OnceIn(saved.db.rows)'
  BY <1>1, OnceAdded, TwoWorkers
<1>3. ImportFacts'
  BY <1>1, <1>2 DEF Once, ImportFacts
<1> QED BY <1>2, <1>3 DEF Once

\* What is left of a batch after its head.
LEMMA TailFacts ==
  ASSUME NEW S, NEW l \in Seq(S), l # <<>>
  PROVE  /\ Head(l) \in S /\ 1 \in 1..Len(l) /\ Head(l) = l[1]
         /\ \A a \in 1..Len(Tail(l)) : a + 1 \in 1..Len(l) /\ a + 1 # 1 /\ Tail(l)[a] = l[a + 1]
<1>1. Len(l) \in Nat /\ Len(l) # 0 /\ Head(l) \in S /\ Head(l) = l[1]
  BY EmptySeq, HeadTailProperties, LenProperties
<1>2. Len(Tail(l)) = Len(l) - 1 /\ (\A i \in 1..Len(Tail(l)) : Tail(l)[i] = l[i + 1])
  BY HeadTailProperties
<1> QED BY <1>1, <1>2

\* A record of the import stores no record twice.
LEMMA OnceImportStore ==
  ASSUME TypeInv, Fresh, Once, ImportStore
  PROVE  Once'
<1> DEFINE c == call[Import]  r == Head(c.left)
<1>1. /\ c \in Calls /\ c.kind = "import" /\ c.undo = FALSE
      /\ call'[Import].kind = "import" /\ call'[Import].undo = FALSE
      /\ call'[Import].ids = c.ids /\ call'[Import].keys = c.keys
      /\ saved' = saved
      /\ \/ c.left # <<>> /\ ImportRecord(r) /\ call'[Import].left = Tail(c.left)
         \/ db' = db /\ record' = record /\ call'[Import] = c
  BY ImportStoreCall
<1>2. /\ \A i \in db.rows \ c.new : record[i] \in c.keys \cup {Nothing}
      /\ \A a, b \in 1..Len(c.left) : c.left[a] = c.left[b] => a = b
      /\ \A i \in c.new, a \in 1..Len(c.left) : record[i] # c.left[a]
  BY <1>1 DEF Once, ImportFacts
<1>3. CASE db' = db /\ record' = record /\ call'[Import] = c
  BY <1>1, <1>3, OnceStays DEF SameCall
<1>4. CASE c.left # <<>> /\ ImportRecord(r) /\ call'[Import].left = Tail(c.left)
  <2>1. c.left \in Seq(RecordSet)
    BY <1>1 DEF Calls
  <2>2. /\ r \in RecordSet /\ 1 \in 1..Len(c.left) /\ r = c.left[1]
        /\ \A a \in 1..Len(Tail(c.left)) :
             a + 1 \in 1..Len(c.left) /\ a + 1 # 1 /\ Tail(c.left)[a] = c.left[a + 1]
    BY <1>4, <2>1, TailFacts
  <2>3. /\ \A a \in 1..Len(Tail(c.left)) : r # Tail(c.left)[a]
        /\ \A a, b \in 1..Len(Tail(c.left)) : Tail(c.left)[a] = Tail(c.left)[b] => a = b
        /\ \A i \in c.new : record[i] # r
        /\ \A i \in c.new, a \in 1..Len(Tail(c.left)) : record[i] # Tail(c.left)[a]
    <3>1. \A a \in 1..Len(Tail(c.left)) : r # Tail(c.left)[a]
      BY <1>2, <2>2
    <3>2. ASSUME NEW a \in 1..Len(Tail(c.left)), NEW b \in 1..Len(Tail(c.left)),
                 Tail(c.left)[a] = Tail(c.left)[b]
          PROVE  a = b
      <4>1. a + 1 = b + 1
        BY <1>2, <2>2, <3>2
      <4> QED BY <4>1
    <3>3. \A i \in c.new : record[i] # r
      BY <1>2, <2>2
    <3>4. \A i \in c.new, a \in 1..Len(Tail(c.left)) : record[i] # Tail(c.left)[a]
      BY <1>2, <2>2
    <3> QED BY <3>1, <3>2, <3>3, <3>4
  <2>4. CASE db' = db /\ record' = record /\ call'[Import].new = c.new
    <3>1. ImportFacts'
      BY <1>1, <1>2, <1>4, <2>3, <2>4 DEF ImportFacts
    <3> QED BY <1>1, <2>4, <3>1 DEF Once, OnceIn
  <2>5. CASE /\ r \notin c.keys /\ db.next \in Ids /\ db'.rows = db.rows \cup {db.next}
             /\ record' = [record EXCEPT ![db.next] = r]
             /\ call'[Import].new = c.new \cup {db.next}
    <3>1. \A i \in db.rows : record[i] # r
      <4>1. r # Nothing
        BY <2>2, MemoryAssumption
      <4> QED BY <1>2, <2>3, <2>5, <4>1
    <3>2. /\ OnceIn(db.rows)' /\ \A i \in db.rows : record'[i] = record[i]
          /\ record'[db.next] = r
          /\ \A i \in c.new : record'[i] = record[i]
          /\ saved' \in Snapshots /\ saved'.db # Nothing => OnceIn(saved.db.rows)'
      BY <1>1, <2>2, <2>5, <3>1, OnceAdded, TwoWorkers
    <3>3. \A i \in db'.rows \ call'[Import].new : record'[i] \in c.keys \cup {Nothing}
      BY <1>2, <2>5, <3>2
    <3>4. \A i \in call'[Import].new, a \in 1..Len(Tail(c.left)) : record'[i] # Tail(c.left)[a]
      <4>1. ASSUME NEW i \in call'[Import].new, NEW a \in 1..Len(Tail(c.left))
            PROVE  record'[i] # Tail(c.left)[a]
        <5>1. CASE i = db.next
          BY <2>3, <3>2, <5>1
        <5>2. CASE i \in c.new
          BY <2>3, <3>2, <5>2
        <5> QED BY <2>5, <4>1, <5>1, <5>2
      <4> QED BY <4>1
    <3>5. ImportFacts'
      BY <1>1, <1>4, <2>3, <3>3, <3>4 DEF ImportFacts
    <3> QED BY <3>2, <3>5 DEF Once
  <2> QED BY <1>4, <2>4, <2>5, RecordEffect
<1> QED BY <1>1, <1>3, <1>4

\* A batch begins.
LEMMA OnceBatch ==
  ASSUME TypeInv, Once, NEW n \in Nat, db' = db, record' = record,
         saved' = saved \/ saved' \notin Snapshots,
         call'[Import].new = {}, call'[Import].left = NextBatch(n),
         \A i \in db.rows : record[i] \in call'[Import].keys \cup {Nothing}
  PROVE  Once'
<1>1. \A a, b \in 1..Len(NextBatch(n)) : NextBatch(n)[a] = NextBatch(n)[b] => a = b
  BY BatchFacts DEF TypeInv, Base, Types, StoreTypes
<1>2. ImportFacts'
  BY <1>1 DEF ImportFacts
<1> QED BY <1>2 DEF Once, OnceIn

\* An import that begins or goes on stores no record twice.
LEMMA OnceImportBegin ==
  ASSUME TypeInv, Once, ImportBegin
  PROVE  Once'
<1>1. /\ call'[Import].new = {} /\ call'[Import].keys = Known /\ call'[Import].left = NextBatch(cursor)
      /\ db' = db /\ saved' = saved /\ record' = record
  BY ImportBeginCall DEF past
<1>2. cursor \in Nat
  BY WorldFacts DEF TypeInv, Base, Types, StoreTypes, DiskTypes
<1>3. \A i \in db.rows : record[i] \in Known \cup {Nothing}
  BY DEF Known
<1> QED BY <1>1, <1>2, <1>3, OnceBatch

\* The checkpoint of the import stores no record twice.
LEMMA OnceImportSave ==
  ASSUME TypeInv, Once, ImportSave
  PROVE  Once'
<1> DEFINE c == call[Import]
<1>1. /\ c.kind = "import" /\ c.undo = FALSE /\ db' = db /\ record' = record
      /\ saved' = saved \/ saved' = Nothing
      /\ call'[Import].new = {}
      /\ \/ call'[Import] = Idle
         \/ /\ call'[Import].left = NextBatch(UpTo(cursor + Batch))
            /\ call'[Import].keys = c.keys \cup {record[i] : i \in c.new}
  BY ImportSaveCall
<1>2. saved' = saved \/ saved' \notin Snapshots
  BY <1>1, MemoryAssumption
<1>3. CASE call'[Import] = Idle
  BY <1>1, <1>2, <1>3, IdleCall, OnceStays
<1>4. CASE /\ call'[Import].left = NextBatch(UpTo(cursor + Batch))
           /\ call'[Import].keys = c.keys \cup {record[i] : i \in c.new}
  <2>1. UpTo(cursor + Batch) \in Nat
    <3>1. cursor + Batch \in Nat /\ world.records \in Nat
      BY WorldFacts DEF TypeInv, Base, Types, StoreTypes, DiskTypes
    <3> QED BY <3>1 DEF UpTo
  <2>2. \A i \in db.rows : record[i] \in call'[Import].keys \cup {Nothing}
    BY <1>1, <1>4 DEF Once, ImportFacts
  <2> QED BY <1>1, <1>2, <1>4, <2>1, <2>2, OnceBatch
<1> QED BY <1>1, <1>3, <1>4

\* Restoring the database stores no record twice.
LEMMA OnceRestore ==
  ASSUME TypeInv, Once, RestoreDatabase, ~Replaced'
  PROVE  Once'
<1>1. CASE Aside
  BY <1>1, OnceAside
<1>2. CASE ~Aside
  <2>1. /\ call'[Import] = Idle /\ saved' = saved /\ record' = record
        /\ db' = saved.db /\ saved \in Snapshots /\ saved.db # Nothing
    BY <1>2, RestoreCall
  <2>2. OnceIn(saved.db.rows)
    BY <2>1 DEF Once
  <2>3. OnceIn(db.rows)' /\ OnceIn(saved.db.rows)'
    BY <2>1, <2>2 DEF OnceIn
  <2> QED BY <2>1, <2>3, IdleCall DEF Once, ImportFacts
<1> QED BY <1>1, <1>2

\* Every step stores no record twice.
LEMMA OnceNext ==
  ASSUME TypeInv, Fresh, Once, [Next]_vars, ~Replaced'
  PROVE  Once'
<1>1. ASSUME NEW k \in world.kinds, NEW S \in SUBSET Ids, Request(k, S) PROVE Once'
  <2>1. k \in UserKinds
    BY WorldFacts DEF TypeInv, Base, Types, StoreTypes
  <2>2. call'[Import] = call[Import] /\ db' = db /\ saved' = saved /\ record' = record
    BY <1>1, <2>1, RequestCall
  <2> QED BY <2>2, OnceStays DEF SameCall
<1>2. ASSUME NEW p \in Workers, Step(p) PROVE Once'
  BY <1>2, OnceStep
<1>3. CASE Store
  BY <1>3, OnceStore
<1>4. ASSUME NEW p \in Workers, Refuse(p) \/ Fault(p) PROVE Once'
  <2>1. todo[p] # <<>> /\ Fails(p, Head(todo[p]), call[p]) /\ db'.rows = db.rows
    BY <1>4, FailsRows
  <2> QED BY <2>1, OnceFails
<1>5. CASE Cancel
  <2>1. db' = db /\ todo[User] # <<>>
    BY <1>5, CancelCall
  <2>2. CASE Fails(User, Head(todo[User]), call[User])
    BY <2>1, <2>2, OnceFails, TwoWorkers
  <2>3. CASE call'[Import] = call[Import] /\ saved' = saved /\ UNCHANGED past
    BY <2>1, <2>3, OnceStays DEF SameCall, past
  <2> QED BY <1>5, <2>2, <2>3, CancelCall
<1>6. CASE ImportBegin
  BY <1>6, OnceImportBegin
<1>7. CASE ImportStore
  BY <1>7, OnceImportStore
<1>8. CASE ImportSave
  BY <1>8, OnceImportSave
<1>9. CASE ImportRaise
  <2>1. call'[Import] = Idle /\ db' = db /\ saved' = saved /\ record' = record
    BY <1>9, ImportRaiseCall DEF past
  <2> QED BY <2>1, IdleCall, OnceStays
<1>10. CASE Snapshot
  <2>1. call' = call /\ db' = db /\ record' = record /\ saved'.db = db
    BY <1>10, SnapshotCall DEF past
  <2> QED BY <2>1, OnceStays DEF SameCall
<1>11. CASE Rollback \/ RollbackFails
  BY <1>11, OnceRestore, RollsAside, OnceAside DEF Rollback
<1>12. CASE Down
  <2>1. call'[Import] = Idle /\ db' = db /\ saved' = saved /\ record' = record
    BY <1>12, DownCall
  <2> QED BY <2>1, IdleCall, OnceStays
<1>13. CASE Rebuilds \/ RebuildBegin \/ Interrupt \/ RebuildFails
  BY <1>13, RebuildsAside, OnceAside
<1>14. CASE Restart \/ (\E k \in {"rebuild", "import"} : TaskBegin(k)) \/ UNCHANGED vars
  BY <1>14, OthersAside, OnceAside
<1> QED BY <1>1, <1>2, <1>3, <1>4, <1>5, <1>6, <1>7, <1>8, <1>9, <1>10, <1>11, <1>12, <1>13, <1>14,
           TwoWorkers DEF Next, Steps, Requests, Serve, Imports, Breaks

\* Nothing is said of what follows once the database was replaced under a runtime.
LEMMA StaysReplaced ==
  ASSUME [Next]_vars, Replaced
  PROVE  Replaced'
BY DEF Next, vars, Replaced

\* No record of a transfer manifest is stored in two rows, in the database there is
\* or in the copy a stop would restore, however an import is cut, resumed or undone
\* (resumable_tasks.py:331-465, storage.py:2335-2412).
THEOREM RecordsStoredOnce == Spec => []RecordOnce
<1> DEFINE Inv == TypeInv /\ (Replaced \/ (Fresh /\ Once))
<1>1. Init => Inv
  BY TypesInit, FreshInit, OnceInit
<1>2. Inv /\ [Next]_vars => Inv'
  BY TypesNext, FreshNext, OnceNext, StaysReplaced
<1>3. Inv => RecordOnce
  BY DEF Once, OnceIn, RecordOnce
<1> QED BY <1>1, <1>2, <1>3, PTL DEF Spec

-----------------------------------------------------------------------------
\* What was acknowledged stays, in one copy.

\* An edit goes on, and no row is added.
LEMMA EditStays ==
  ASSUME EditFacts, root' = root, db'.rows \subseteq db.rows, cut \subseteq cut',
         call'[User].kind = "edit" => SameCall(call[User], call'[User]),
         call'[User].kind = "edit" /\ ~call'[User].undo /\ ~Facing(User, {"store"})' =>
           /\ ~call[User].undo /\ ~Facing(User, {"store"})
           /\ call[User].new \cap db.rows \subseteq db'.rows,
         call'[User].kind = "edit" /\ Facing(User, {"repair"})' =>
           \/ Facing(User, {"repair"})
           \/ call[User].ids \cap db'.rows = {} \/ call[User].new \cap db'.rows = {}
  PROVE  EditFacts'
<1>1. SUFFICES ASSUME call'[User].kind = "edit" PROVE EditFacts'
  BY DEF EditFacts
<1>2. /\ call[User].kind = "edit" /\ call'[User].ids = call[User].ids
      /\ call'[User].new = call[User].new
  BY <1>1 DEF SameCall
<1>3. \E o \in Ids : call'[User].ids = {o}
  BY <1>2 DEF EditFacts
<1>4. \A n \in call'[User].new, o \in call'[User].ids : root'[n] = root'[o]
  BY <1>2 DEF EditFacts
<1>5. ~call'[User].undo /\ ~Facing(User, {"store"})' =>
        call'[User].new # {} /\ call'[User].new \subseteq db'.rows
  BY <1>1, <1>2 DEF EditFacts
<1>6. Facing(User, {"repair"})' =>
        call'[User].ids \cap db'.rows = {} \/ call'[User].new \cap db'.rows = {}
  BY <1>1, <1>2 DEF EditFacts
<1>7. \A j \in db'.rows, o \in call'[User].ids :
        root'[j] = root'[o] => j \in call'[User].ids \cup call'[User].new \/ root'[j] \in cut'
  BY <1>2 DEF EditFacts
<1> QED BY <1>3, <1>4, <1>5, <1>6, <1>7 DEF EditFacts

\* New rows are no more, and nothing is acknowledged but what neither call stored.
LEMMA NewStays ==
  ASSUME NewFacts, root' = root,
         \A p \in Workers : SameCall(call[p], call'[p]) \/ call'[p].new = {},
         call'[User].kind = "create" => SameCall(call[User], call'[User]) \/ call'[User].ids = {},
         call'[User].kind = "create" => \A n \in call'[User].new : n \notin acked',
         Facing(Import, {"store", "ask_new", "swap", "drop_new"})' =>
           \A n \in call'[Import].new : n \notin acked'
  PROVE  NewFacts'
<1>1. call'[User].kind = "create" => call'[User].ids = {} /\ Unacked(call[User])'
  BY TwoWorkers DEF NewFacts, Unacked, SameCall
<1>2. call'[User].kind \in {"archive", "restore", "delete", ""} => call'[User].new = {}
  BY TwoWorkers DEF NewFacts, SameCall
<1>3. \A n \in call'[Import].new : root'[n] = n
  BY TwoWorkers DEF NewFacts, SameCall
<1>4. Facing(Import, {"store", "ask_new", "swap", "drop_new"})' => Unacked(call[Import])'
  BY <1>3 DEF Unacked
<1> QED BY <1>1, <1>2, <1>3, <1>4 DEF NewFacts

\* What removes no row but a doomed one loses no acknowledged memory.
LEMMA AliveStays ==
  ASSUME Alive, acked' \subseteq acked, \A i \in db.rows : root'[i] = root[i],
         db.rows \ Doomed \subseteq db'.rows \ Doomed'
  PROVE  Alive'
BY DEF Alive

\* No row is added, and an edit that ends leaves one of the two or counts as cut off.
LEMMA SingleStays ==
  ASSUME Single, root' = root, db'.rows \subseteq db.rows, cut \subseteq cut',
         call[User].kind = "edit" =>
           \/ SameCall(call[User], call'[User])
           \/ {root[i] : i \in call[User].ids} \subseteq cut'
           \/ call[User].ids \cap db'.rows = {} \/ call[User].new \cap db'.rows = {}
  PROVE  Single'
<1>1. SUFFICES ASSUME NEW i \in db'.rows, NEW j \in db'.rows, i # j, root[i] = root[j]
               PROVE  \/ root[i] \in cut'
                      \/ /\ call'[User].kind = "edit"
                         /\ \/ i \in call'[User].ids /\ j \in call'[User].new
                            \/ j \in call'[User].ids /\ i \in call'[User].new
  BY DEF Single
<1>2. CASE root[i] \in cut
  BY <1>2
<1>3. CASE /\ call[User].kind = "edit"
           /\ \/ i \in call[User].ids /\ j \in call[User].new
              \/ j \in call[User].ids /\ i \in call[User].new
  <2>1. root[i] \in {root[k] : k \in call[User].ids}
    BY <1>1, <1>3
  <2> QED BY <1>1, <1>3, <2>1 DEF SameCall
<1> QED BY <1>1, <1>2, <1>3 DEF Single

\* What leaves the prestate alone keeps it free of second copies.
LEMMA SavedStays ==
  ASSUME SavedSingle, root' = root, cut \subseteq cut',
         saved' = saved \/ saved' \notin Snapshots \/ saved'.db = Nothing
  PROVE  SavedSingle'
BY DEF SavedSingle

\* Every memory is there in one copy at first.
LEMMA KeptInit ==
  ASSUME Init
  PROVE  Kept
<1>a. call[User] = Idle /\ call[Import] = Idle /\ todo[Import] = <<>>
  BY TwoWorkers DEF Init, Workers
<1>b. saved = Nothing /\ root = [i \in Ids |-> i] /\ acked = 1..world.first
  BY DEF Init
<1>c. db.rows = 1..world.first
  <2>1. PICK g : db = [rows |-> 1..world.first, archived |-> {}, derived |-> g,
                       next |-> world.first + 1]
    BY DEF Init
  <2> QED BY <2>1
<1>1. /\ call[User] = Idle /\ call[Import] = Idle /\ todo[Import] = <<>> /\ saved = Nothing
      /\ root = [i \in Ids |-> i] /\ acked = 1..world.first
      /\ db.rows = 1..world.first
  BY <1>a, <1>b, <1>c
<1>2. db.rows \subseteq Ids
  BY TypesInit, Numbers DEF TypeInv, Base, Types
<1>3. saved \notin Snapshots
  BY <1>1, MemoryAssumption
<1>4. EditFacts /\ NewFacts
  BY <1>1, IdleCall DEF EditFacts, NewFacts, Facing
<1>5. Alive
  BY <1>1, <1>2, IdleCall DEF Alive, Doomed
<1>6. Single
  BY <1>1, <1>2 DEF Single
<1>7. SavedSingle
  BY <1>3 DEF SavedSingle
<1> QED BY <1>4, <1>5, <1>6, <1>7 DEF Kept

\* A step that changes neither rows nor requests keeps every acknowledged memory, in one
\* copy.
LEMMA KeptAside ==
  ASSUME Kept, Aside
  PROVE  Kept'
<1>1. /\ db'.rows = db.rows /\ todo' = todo /\ call' = call /\ root' = root /\ acked' = acked
      /\ cut' = cut
  BY DEF Aside
<1>2. saved' = saved \/ saved' \notin Snapshots \/ saved'.db = Nothing
  BY MemoryAssumption DEF Aside
<1>3. EditFacts'
  BY <1>1 DEF Kept, EditFacts, Facing
<1>4. NewFacts'
  BY <1>1 DEF Kept, NewFacts, Facing, Unacked
<1>5. Alive'
  BY <1>1 DEF Kept, Alive, Doomed
<1>6. Single'
  BY <1>1 DEF Kept, Single
<1>7. SavedSingle'
  BY <1>1, <1>2, SavedStays DEF Kept
<1> QED BY <1>3, <1>4, <1>5, <1>6, <1>7 DEF Kept

\* An id that is acknowledged was handed out before.
LEMMA AckedOlder ==
  ASSUME TypeInv, Fresh, Alive
  PROVE  db.next \notin acked
<1>1. db.next \in Nat /\ Ids \subseteq Nat /\ db.rows \subseteq Ids /\ \A i \in db.rows : i < db.next
  BY Numbers DEF TypeInv, Base, Types
<1>2. SUFFICES ASSUME db.next \in acked PROVE FALSE
  OBVIOUS
<1>3. PICK i \in db.rows : root[i] = db.next
  BY <1>2 DEF Alive
<1>4. i \in Nat /\ i < db.next /\ root[i] <= i
  BY <1>1 DEF Fresh
<1> QED BY <1>1, <1>3, <1>4

\* A row is added.
LEMMA RowAdded ==
  ASSUME TypeInv, Fresh, Kept, NEW x, db.next \in Ids, root' = [root EXCEPT ![db.next] = x],
         db'.rows = db.rows \cup {db.next}, saved' = saved, acked' = acked, cut' = cut,
         Doomed' \subseteq Doomed
  PROVE  /\ root'[db.next] = x /\ \A i \in db.rows : root'[i] = root[i] /\ i # db.next
         /\ \A p \in Workers : \A i \in call[p].ids \cup call[p].new :
              root'[i] = root[i] /\ i # db.next
         /\ \A i \in db.rows \cup call[User].ids : root[i] # db.next
         /\ Alive' /\ SavedSingle'
<1>1. /\ db.next \in Nat /\ Ids \subseteq Nat /\ db.rows \subseteq Ids
      /\ \A i \in db.rows : i < db.next
  BY Numbers DEF TypeInv, Base, Types
<1>2. root \in [Ids -> Ids]
  BY DEF TypeInv, Base, Types, StoreTypes
<1>3. \A p \in Workers : call[p].ids \subseteq Ids /\ call[p].new \subseteq Ids
  BY InHand DEF TypeInv, Base, Types
<1>4. root'[db.next] = x /\ (\A i \in Ids \ {db.next} : root'[i] = root[i])
  BY <1>2
<1>5. \A i \in db.rows : root'[i] = root[i] /\ i # db.next
  BY <1>1, <1>4, Older
<1>6. \A p \in Workers : \A i \in call[p].ids \cup call[p].new : root'[i] = root[i] /\ i # db.next
  BY <1>3, <1>4, Older
<1>7. ASSUME NEW i \in db.rows \cup call[User].ids PROVE root[i] # db.next
  <2>1. i \in Ids /\ i < db.next
    BY <1>1, <1>3, TwoWorkers DEF Fresh, Given
  <2>2. i \in Nat /\ root[i] \in Nat /\ root[i] <= i
    BY <1>1, <1>2, <2>1 DEF Fresh
  <2> QED BY <1>1, <2>1, <2>2
<1>8. Alive'
  BY <1>5, AliveStays DEF Kept
<1>9. SavedSingle'
  <2>1. SUFFICES ASSUME saved \in Snapshots, saved.db # Nothing,
                        NEW i \in saved.db.rows, NEW j \in saved.db.rows,
                        i # j, root'[i] = root'[j]
                 PROVE  root'[i] \in cut \cup saved.cut
    BY DEF SavedSingle
  <2>2. saved.db \in Databases /\ db.next \notin saved.db.rows
    BY <2>1, Older DEF TypeInv, Base, Types, DiskTypes
  <2>3. i \in Ids \ {db.next} /\ j \in Ids \ {db.next}
    BY <2>1, <2>2 DEF Databases
  <2> QED BY <1>4, <2>1, <2>3 DEF Kept, SavedSingle
<1> QED BY <1>4, <1>5, <1>6, <1>7, <1>8, <1>9

\* The insertion of the user's row keeps every acknowledged memory, in one copy.
LEMMA KeptStore ==
  ASSUME TypeInv, Fresh, Kept, Store
  PROVE  Kept'
<1> DEFINE c == call[User]
           x == IF c.ids = {} THEN db.next ELSE root[CHOOSE o \in c.ids : TRUE]
<1>1. /\ Facing(User, {"store"}) /\ todo[User] # <<>> /\ Tail(todo[User]) # <<>>
      /\ c.kind \in {"create", "edit"} /\ c.undo = FALSE
      /\ Head(todo'[User]) = "ask_new"
      /\ call'[User].kind = c.kind /\ call'[User].ids = c.ids
      /\ call'[User].new = {db.next}
      /\ todo'[Import] = todo[Import] /\ call'[Import] = call[Import]
      /\ db.next \in Ids /\ db'.rows = db.rows \cup {db.next}
      /\ saved' = saved /\ acked' = acked /\ cut' = cut
      /\ root' = [root EXCEPT ![db.next] = x]
  BY StoreCall
<1>2. Doomed' = {}
  BY <1>1 DEF Doomed
<1>3. c.new = {}
  BY <1>1 DEF Fresh
<1>4. /\ root'[db.next] = x /\ \A i \in db.rows : root'[i] = root[i] /\ i # db.next
      /\ \A p \in Workers : \A i \in call[p].ids \cup call[p].new :
           root'[i] = root[i] /\ i # db.next
      /\ \A i \in db.rows \cup call[User].ids : root[i] # db.next
      /\ Alive' /\ SavedSingle'
  <2> HIDE DEF x
  <2> QED BY <1>1, <1>2, RowAdded
<1>5. c.kind = "create" => c.ids = {} /\ x = db.next
  BY DEF Kept, NewFacts
<1>6. c.kind = "edit" => \E o \in Ids : c.ids = {o} /\ x = root[o]
  <2>1. SUFFICES ASSUME c.kind = "edit" PROVE \E o \in Ids : c.ids = {o} /\ x = root[o]
    OBVIOUS
  <2>2. PICK o \in Ids : c.ids = {o}
    BY <2>1 DEF Kept, EditFacts
  <2>3. (CHOOSE y \in c.ids : TRUE) = o
    BY <2>2
  <2> QED BY <2>2, <2>3
<1>7. db.next \notin acked
  BY AckedOlder DEF Kept
<1> HIDE DEF x
<1>8. NewFacts'
  <2>1. call'[User].kind = "create" => call'[User].ids = {} /\ Unacked(call[User])'
    BY <1>1, <1>4, <1>5, <1>7 DEF Unacked
  <2>2. \A n \in call'[Import].new : root'[n] = n
    BY <1>1, <1>4, TwoWorkers DEF Kept, NewFacts
  <2>3. Facing(Import, {"store", "ask_new", "swap", "drop_new"})' => Unacked(call[Import])'
    BY <1>1, <2>2 DEF Kept, NewFacts, Facing, Unacked
  <2> QED BY <1>1, <2>1, <2>2, <2>3 DEF NewFacts
<1>9. CASE c.kind = "create"
  <2>1. EditFacts'
    BY <1>1, <1>9 DEF EditFacts
  <2>2. Single'
    BY <1>1, <1>4, <1>5, <1>9 DEF Kept, Single
  <2> QED BY <1>4, <1>8, <2>1, <2>2 DEF Kept
<1>10. CASE c.kind = "edit"
  <2>1. PICK o \in Ids : c.ids = {o} /\ x = root[o]
    BY <1>6, <1>10
  <2>2. \A j \in db.rows : root[j] = root[o] => j = o \/ root[j] \in cut
    BY <1>3, <1>10, <2>1 DEF Kept, EditFacts
  <2>3. root'[o] = root[o] /\ o # db.next
    BY <1>4, <2>1, TwoWorkers
  <2>4. EditFacts'
    <3>1. \E z \in Ids : call'[User].ids = {z}
      BY <1>1, <2>1
    <3>2. \A n \in call'[User].new, z \in call'[User].ids : root'[n] = root'[z]
      BY <1>1, <1>4, <2>1, <2>3
    <3>3. call'[User].new # {} /\ call'[User].new \subseteq db'.rows
      BY <1>1
    <3>4. ~Facing(User, {"repair"})'
      BY <1>1 DEF Facing
    <3>5. \A j \in db'.rows, z \in call'[User].ids :
            root'[j] = root'[z] => j \in call'[User].ids \cup call'[User].new \/ root'[j] \in cut'
      BY <1>1, <1>4, <2>1, <2>2, <2>3
    <3> QED BY <3>1, <3>2, <3>3, <3>4, <3>5 DEF EditFacts
  <2>5. Single'
    <3>1. SUFFICES ASSUME NEW i \in db'.rows, NEW j \in db'.rows, i # j, root'[i] = root'[j]
                   PROVE  \/ root'[i] \in cut
                          \/ i \in c.ids /\ j = db.next
                          \/ j \in c.ids /\ i = db.next
      BY <1>1, <1>10 DEF Single
    <3>2. CASE i = db.next
      BY <1>1, <1>4, <2>1, <2>2, <3>1, <3>2
    <3>3. CASE j = db.next
      BY <1>1, <1>4, <2>1, <2>2, <3>1, <3>3
    <3>4. CASE i # db.next /\ j # db.next
      BY <1>1, <1>3, <1>4, <3>1, <3>4 DEF Kept, Single
    <3> QED BY <3>2, <3>3, <3>4
  <2> QED BY <1>4, <1>8, <2>4, <2>5 DEF Kept
<1> QED BY <1>1, <1>9, <1>10

\* A record of the import keeps every acknowledged memory, in one copy.
LEMMA KeptImportStore ==
  ASSUME TypeInv, Fresh, Kept, ImportStore
  PROVE  Kept'
<1> DEFINE c == call[Import]
<1>1. /\ Facing(Import, {"store"}) /\ todo'[User] = todo[User] /\ call'[User] = call[User]
      /\ saved' = saved /\ acked' = acked /\ cut' = cut
      /\ \/ c.left # <<>> /\ ImportRecord(Head(c.left))
         \/ db' = db /\ root' = root /\ call'[Import] = c
  BY ImportStoreCall DEF Facing
<1>2. Unacked(c)
  BY <1>1 DEF Kept, NewFacts, Facing
<1>3. Doomed' = Doomed
  BY <1>1 DEF Doomed
<1>4. CASE db' = db /\ root' = root /\ call'[Import].new = c.new
  <2>1. EditFacts'
    BY <1>1, <1>4 DEF Kept, EditFacts, Facing
  <2>2. NewFacts'
    BY <1>1, <1>2, <1>4 DEF Kept, NewFacts, Unacked
  <2>3. Alive'
    BY <1>1, <1>3, <1>4 DEF Kept, Alive
  <2>4. Single'
    BY <1>1, <1>4 DEF Kept, Single
  <2>5. SavedSingle'
    BY <1>1, <1>4 DEF Kept, SavedSingle
  <2> QED BY <2>1, <2>2, <2>3, <2>4, <2>5 DEF Kept
<1>5. CASE /\ db.next \in Ids /\ db'.rows = db.rows \cup {db.next}
           /\ root' = [root EXCEPT ![db.next] = db.next]
           /\ call'[Import].new = c.new \cup {db.next}
  <2>1. /\ root'[db.next] = db.next /\ \A i \in db.rows : root'[i] = root[i] /\ i # db.next
        /\ \A p \in Workers : \A i \in call[p].ids \cup call[p].new :
             root'[i] = root[i] /\ i # db.next
        /\ \A i \in db.rows \cup call[User].ids : root[i] # db.next
        /\ Alive' /\ SavedSingle'
    BY <1>1, <1>3, <1>5, RowAdded
  <2>2. db.next \notin acked
    BY AckedOlder DEF Kept
  <2>3. NewFacts'
    <3>1. call'[User].kind = "create" => call'[User].ids = {} /\ Unacked(call[User])'
      BY <1>1, <2>1, TwoWorkers DEF Kept, NewFacts, Unacked
    <3>2. Unacked(call[Import])'
      BY <1>1, <1>2, <1>5, <2>1, <2>2, TwoWorkers DEF Unacked
    <3> QED BY <1>1, <3>1, <3>2 DEF Kept, NewFacts, Unacked
  <2>4. Single'
    <3>1. SUFFICES ASSUME NEW i \in db'.rows, NEW j \in db'.rows, i # j, root'[i] = root'[j]
                   PROVE  \/ root'[i] \in cut'
                          \/ /\ call'[User].kind = "edit"
                             /\ \/ i \in call'[User].ids /\ j \in call'[User].new
                                \/ j \in call'[User].ids /\ i \in call'[User].new
      BY DEF Single
    <3>2. i \in db.rows /\ j \in db.rows
      BY <1>5, <2>1, <3>1
    <3> QED BY <1>1, <2>1, <3>1, <3>2 DEF Kept, Single
  <2>5. EditFacts'
    <3>1. SUFFICES ASSUME call[User].kind = "edit" PROVE EditFacts'
      BY <1>1 DEF EditFacts
    <3>2. \E o \in Ids : call'[User].ids = {o}
      BY <1>1, <3>1 DEF Kept, EditFacts
    <3>a. /\ \A n \in call[User].new, o \in call[User].ids : root[n] = root[o]
          /\ Facing(User, {"repair"}) =>
               call[User].ids \cap db.rows = {} \/ call[User].new \cap db.rows = {}
      BY <3>1 DEF Kept, EditFacts
    <3>b. \A i \in call[User].ids \cup call[User].new : root'[i] = root[i] /\ i # db.next
      BY <2>1, TwoWorkers
    <3>3. \A n \in call'[User].new, o \in call'[User].ids : root'[n] = root'[o]
      BY <1>1, <3>a, <3>b
    <3>4. ~call'[User].undo /\ ~Facing(User, {"store"})' =>
            call'[User].new # {} /\ call'[User].new \subseteq db'.rows
      BY <1>1, <1>5, <3>1 DEF Kept, EditFacts, Facing
    <3>5. Facing(User, {"repair"})' =>
            call'[User].ids \cap db'.rows = {} \/ call'[User].new \cap db'.rows = {}
      <4>1. call[User].ids \cap db'.rows = call[User].ids \cap db.rows
        BY <1>5, <3>b
      <4>2. call[User].new \cap db'.rows = call[User].new \cap db.rows
        BY <1>5, <3>b
      <4>3. Facing(User, {"repair"})' = Facing(User, {"repair"})
        BY <1>1 DEF Facing
      <4> QED BY <1>1, <3>a, <4>1, <4>2, <4>3
    <3>6. ASSUME NEW j \in db'.rows, NEW o \in call'[User].ids, root'[j] = root'[o]
          PROVE  j \in call'[User].ids \cup call'[User].new \/ root'[j] \in cut'
      <4>1. root'[o] = root[o] /\ root[o] # db.next
        BY <1>1, <2>1, <3>6, TwoWorkers
      <4>2. j \in db.rows /\ root'[j] = root[j]
        BY <1>5, <2>1, <3>6, <4>1
      <4> QED BY <1>1, <3>1, <3>6, <4>1, <4>2 DEF Kept, EditFacts
    <3> QED BY <3>2, <3>3, <3>4, <3>5, <3>6 DEF EditFacts
  <2> QED BY <2>1, <2>3, <2>4, <2>5 DEF Kept
<1>6. CASE c.left # <<>> /\ ImportRecord(Head(c.left))
  <2>1. \/ db' = db /\ root' = root /\ call'[Import].new = c.new
        \/ /\ db.next \in Ids /\ db'.rows = db.rows \cup {db.next}
           /\ root' = [root EXCEPT ![db.next] = db.next]
           /\ call'[Import].new = c.new \cup {db.next}
    BY <1>6, RecordEffect
  <2> QED BY <1>4, <1>5, <2>1
<1> QED BY <1>1, <1>4, <1>6

\* Rows, cuts and the user's request stay; the import goes on with a new batch or not at all.
LEMMA KeptBatch ==
  ASSUME TypeInv, Fresh, Kept, db' = db, root' = root, cut' = cut,
         todo'[User] = todo[User], call'[User] = call[User], call'[Import].new = {},
         saved' = saved \/ saved' \notin Snapshots,
         \A r \in acked' : r \in acked \/ \E i \in (call[Import].new \cap db.rows) \ Doomed : r = root[i]
  PROVE  Kept'
<1>1. EditFacts'
  BY DEF Kept, EditFacts, Facing
<1>2. NewFacts'
  <2>1. ASSUME NEW n \in call[User].new, call[User].kind = "create" PROVE n \notin acked'
    <3>1. root[n] = n /\ n \notin acked /\ n \notin call[Import].new
      BY <2>1 DEF Kept, NewFacts, Unacked, Fresh
    <3>2. \A i \in call[Import].new : root[i] = i
      BY DEF Kept, NewFacts
    <3> QED BY <3>1, <3>2
  <2>2. call'[User].kind = "create" => call'[User].ids = {} /\ Unacked(call[User])'
    BY <2>1 DEF Kept, NewFacts, Unacked
  <2> QED BY <2>2 DEF Kept, NewFacts, Unacked
<1>3. Alive'
  <2>1. Doomed' = Doomed
    BY DEF Doomed
  <2> QED BY <2>1 DEF Kept, Alive
<1>4. Single'
  BY DEF Kept, Single
<1>5. SavedSingle'
  BY DEF Kept, SavedSingle
<1> QED BY <1>1, <1>2, <1>3, <1>4, <1>5 DEF Kept

\* An import that begins or goes on keeps every acknowledged memory, in one copy.
LEMMA KeptImportBegin ==
  ASSUME TypeInv, Fresh, Kept, ImportBegin
  PROVE  Kept'
<1>1. /\ call'[Import].new = {} /\ todo'[User] = todo[User] /\ call'[User] = call[User]
      /\ db' = db /\ saved' = saved /\ root' = root /\ cut' = cut /\ acked' = acked
  BY ImportBeginCall DEF past
<1> QED BY <1>1, KeptBatch

\* The checkpoint of the import keeps every acknowledged memory, in one copy.
LEMMA KeptImportSave ==
  ASSUME TypeInv, Fresh, Kept, ImportSave
  PROVE  Kept'
<1>1. /\ call'[Import].new = {} /\ todo'[User] = todo[User] /\ call'[User] = call[User]
      /\ db' = db /\ root' = root /\ cut' = cut /\ (saved' = saved \/ saved' = Nothing)
      /\ acked' = acked \cup {root[i] : i \in (call[Import].new \cap db.rows) \ Doomed}
  BY ImportSaveCall
<1> QED BY <1>1, KeptBatch, MemoryAssumption

\* An import that raises keeps every acknowledged memory, in one copy.
LEMMA KeptImportRaise ==
  ASSUME TypeInv, Fresh, Kept, ImportRaise
  PROVE  Kept'
<1>1. /\ call'[Import].new = {} /\ todo'[User] = todo[User] /\ call'[User] = call[User]
      /\ db' = db /\ saved' = saved /\ root' = root /\ cut' = cut /\ acked' = acked
  BY ImportRaiseCall, IdleCall DEF past
<1> QED BY <1>1, KeptBatch

\* A request that begins keeps every acknowledged memory, in one copy.
LEMMA KeptRequest ==
  ASSUME TypeInv, Fresh, Kept, NEW k \in UserKinds, NEW S \in SUBSET Ids, Request(k, S)
  PROVE  Kept'
<1>1. /\ call[User] = Idle /\ todo'[User] = Plan(k)
      /\ call'[User].kind = k /\ call'[User].ids = S /\ call'[User].new = {}
      /\ call'[User].undo = FALSE
      /\ todo'[Import] = todo[Import] /\ call'[Import] = call[Import]
      /\ db' = db /\ saved' = saved /\ root' = root /\ cut' = cut
      /\ acked' = IF k = "delete" THEN acked \ {root[i] : i \in S} ELSE acked
      /\ k = "create" => S = {}
      /\ k = "edit" => \E i \in db.rows : S = {i}
  BY RequestCall
<1>2. call[User].kind = "" /\ Doomed = {}
  BY <1>1, IdleCall DEF Doomed
<1>3. \A i, j \in db.rows : i # j /\ root[i] = root[j] => root[i] \in cut
  BY <1>2 DEF Kept, Single
<1>4. EditFacts'
  <2>1. SUFFICES ASSUME k = "edit" PROVE EditFacts'
    BY <1>1 DEF EditFacts
  <2>2. PICK o \in db.rows : S = {o}
    BY <1>1, <2>1
  <2>3. o \in Ids
    BY <2>2
  <2>4. Facing(User, {"store"})' /\ ~Facing(User, {"repair"})'
    <3>1. Plan("edit") = E7
      BY DEF Plan, E7
    <3>2. todo'[User] = E7
      BY <1>1, <2>1, <3>1
    <3>3. E7 # <<>> /\ Head(E7) = "store"
      BY Table
    <3> QED BY <3>2, <3>3 DEF Facing
  <2> QED BY <1>1, <1>3, <2>2, <2>3, <2>4 DEF EditFacts
<1>5. NewFacts'
  BY <1>1 DEF Kept, NewFacts, Facing, Unacked
<1>6. Alive'
  <2>1. CASE k = "delete"
    <3>1. Doomed' = S
      BY <1>1, <2>1 DEF Doomed
    <3>2. ASSUME NEW r \in acked' PROVE \E i \in db.rows \ S : root[i] = r
      <4>1. r \in acked /\ r \notin {root[i] : i \in S}
        BY <1>1, <2>1, <3>2
      <4>2. PICK i \in db.rows : root[i] = r
        BY <4>1 DEF Kept, Alive
      <4> QED BY <4>1, <4>2
    <3> QED BY <1>1, <3>1, <3>2 DEF Alive
  <2>2. CASE k # "delete"
    <3>1. Doomed' = {}
      BY <1>1, <2>2 DEF Doomed
    <3> QED BY <1>1, <1>2, <2>2, <3>1 DEF Kept, Alive
  <2> QED BY <2>1, <2>2
<1>7. Single'
  BY <1>1, <1>3 DEF Single
<1>8. SavedSingle'
  BY <1>1 DEF Kept, SavedSingle
<1> QED BY <1>4, <1>5, <1>6, <1>7, <1>8 DEF Kept

\* The copy of the database a task keeps keeps every acknowledged memory, in one copy.
LEMMA KeptSnapshot ==
  ASSUME TypeInv, Kept, Snapshot
  PROVE  Kept'
<1>1. /\ todo' = todo /\ call' = call /\ db' = db
      /\ root' = root /\ acked' = acked /\ cut' = cut
      /\ saved'.db = db /\ saved'.cut = Edited
  BY SnapshotCall DEF past
<1>2. EditFacts'
  BY <1>1 DEF Kept, EditFacts, Facing
<1>3. NewFacts'
  BY <1>1 DEF Kept, NewFacts, Facing, Unacked
<1>4. Alive'
  BY <1>1 DEF Kept, Alive, Doomed
<1>5. Single'
  BY <1>1 DEF Kept, Single
<1>6. SavedSingle'
  <2>1. ASSUME NEW i \in db.rows, NEW j \in db.rows, i # j, root[i] = root[j]
        PROVE  root[i] \in cut \cup Edited
    <3>1. CASE root[i] \in cut
      BY <3>1
    <3>2. CASE /\ call[User].kind = "edit"
               /\ \/ i \in call[User].ids /\ j \in call[User].new
                  \/ j \in call[User].ids /\ i \in call[User].new
      BY <2>1, <3>2 DEF Edited
    <3> QED BY <2>1, <3>1, <3>2 DEF Kept, Single
  <2> QED BY <1>1, <2>1 DEF SavedSingle
<1> QED BY <1>2, <1>3, <1>4, <1>5, <1>6 DEF Kept

\* Nobody works any more.
LEMMA KeptIdle ==
  ASSUME TypeInv, call'[User] = Idle, call'[Import] = Idle, Alive',
         \A i, j \in db'.rows : i # j /\ root'[i] = root'[j] => root'[i] \in cut',
         SavedSingle'
  PROVE  Kept'
<1>1. EditFacts' /\ NewFacts' /\ Single'
  BY IdleCall DEF EditFacts, NewFacts, Single, Unacked
<1> QED BY <1>1 DEF Kept

\* Restoring the database keeps every memory it has, in one copy.
LEMMA KeptRestore ==
  ASSUME TypeInv, Kept, RestoreDatabase, ~Replaced'
  PROVE  Kept'
<1>1. CASE Aside
  BY <1>1, KeptAside
<1>2. CASE ~Aside
  <2>1. /\ call'[User] = Idle /\ call'[Import] = Idle /\ call[User] = Idle
        /\ saved' = saved /\ root' = root /\ saved \in Snapshots /\ saved.db # Nothing
        /\ db' = saved.db /\ cut' = cut \cup saved.cut
        /\ acked' = acked \cap {root[i] : i \in saved.db.rows}
    BY <1>2, RestoreCall
  <2>2. SavedSingle'
    BY <2>1 DEF Kept, SavedSingle
  <2>3. Doomed' = {}
    BY <2>1, IdleCall DEF Doomed
  <2>4. Alive'
    BY <2>1, <2>3 DEF Alive
  <2>5. \A i, j \in db'.rows : i # j /\ root'[i] = root'[j] => root'[i] \in cut'
    BY <2>1 DEF Kept, SavedSingle
  <2> QED BY <2>1, <2>2, <2>4, <2>5, KeptIdle
<1> QED BY <1>1, <1>2

\* A crash or an unload keeps every acknowledged memory, in one copy.
LEMMA KeptDown ==
  ASSUME TypeInv, Kept, Down
  PROVE  Kept'
<1>1. /\ call'[User] = Idle /\ call'[Import] = Idle
      /\ db' = db /\ saved' = saved /\ root' = root /\ acked' = acked
      /\ cut' = cut \cup Edited
  BY DownCall
<1>2. Alive'
  <2>1. Doomed' = {}
    BY <1>1, IdleCall DEF Doomed
  <2> QED BY <1>1, <2>1 DEF Kept, Alive
<1>3. ASSUME NEW i \in db.rows, NEW j \in db.rows, i # j, root[i] = root[j]
      PROVE  root[i] \in cut \cup Edited
  <2>1. CASE root[i] \in cut
    BY <2>1
  <2>2. CASE /\ call[User].kind = "edit"
             /\ \/ i \in call[User].ids /\ j \in call[User].new
                \/ j \in call[User].ids /\ i \in call[User].new
    BY <1>3, <2>2 DEF Edited
  <2> QED BY <1>3, <2>1, <2>2 DEF Kept, Single
<1>4. SavedSingle'
  BY <1>1, SavedStays DEF Kept
<1> QED BY <1>1, <1>2, <1>3, <1>4, KeptIdle

\* How lists end, and what undoes an edit or a batch.
LEMMA EndsWith ==
  ASSUME NEW k, NEW u \in BOOLEAN, NEW l \in Lists(k, u), Tail(l) = <<>>
  PROVE  /\ k = "edit" => Head(l) \in {"drop", "repair"}
         /\ k = "import" /\ u = FALSE => Head(l) = "save"
<1>1. CASE k = "edit" /\ u = FALSE
  <2>1. l \in {D1, D2, D3, E4, E5, E6, E7}
    BY <1>1, ListsOf
  <2>2. Tail(D2) # <<>> /\ Tail(D3) # <<>> /\ Tail(E4) # <<>> /\ Tail(E5) # <<>> /\ Tail(E6) # <<>> /\ Tail(E7) # <<>>
    BY Table
  <2>3. l = D1
    BY <2>1, <2>2
  <2> QED BY <1>1, <2>3, Table
<1>2. CASE k = "edit" /\ u = TRUE
  <2>1. l \in {B1, B2}
    BY <1>2, ListsOf
  <2>2. l = B1
    BY <2>1, Table
  <2> QED BY <1>2, <2>2, Table
<1>3. CASE k = "import" /\ u = FALSE
  <2>1. l \in {I1, I2, I3, I4, I5}
    BY <1>3, ListsOf
  <2>2. Tail(I2) # <<>> /\ Tail(I3) # <<>> /\ Tail(I4) # <<>> /\ Tail(I5) # <<>>
    BY Table
  <2>3. l = I1
    BY <2>1, <2>2
  <2> QED BY <1>3, <2>3, Table
<1> QED BY <1>1, <1>2, <1>3

\* What undoes an edit or a batch of the import.
LEMMA UndoFacts ==
  /\ \A s : Undo("edit", s) = B2
  /\ \A s : Undo("import", s) = <<>> \/ Undo("import", s) = J1
            \/ (Undo("import", s) = J2 /\ s \in {"ask_new", "swap"})
  /\ Raised(User) = <<>> /\ Raised(Import) = J1
<1>1. \A s : Undo("edit", s) = B2
  BY DEF Undo, B2
<1>2. \A s : Undo("import", s) = <<>> \/ Undo("import", s) = J1
             \/ (Undo("import", s) = J2 /\ s \in {"ask_new", "swap"})
  BY DEF Undo, J1, J2
<1>3. Raised(User) = <<>> /\ Raised(Import) = J1
  BY TwoWorkers DEF Raised, J1
<1> QED BY <1>1, <1>2, <1>3

\* A step of a request keeps every acknowledged memory, in one copy.
LEMMA KeptStepUser ==
  ASSUME TypeInv, Fresh, Kept, Step(User)
  PROVE  Kept'
<1> DEFINE s == Head(todo[User])  c == call[User]
<1>1. /\ todo[User] # <<>> /\ c \in Calls /\ todo'[User] = Tail(todo[User])
      /\ s \in {"ask_new", "swap", "mark", "ask_out", "drop", "drop_new", "back",
                "repair", "shelve", "unshelve", "ask_in"}
      /\ Effect(s, c)
      /\ todo'[User] = <<>> => call'[User] = Idle
      /\ todo'[User] # <<>> => SameCall(c, call'[User]) /\ call'[User].undo = c.undo
      /\ todo'[Import] = todo[Import] /\ call'[Import] = call[Import]
      /\ saved' = saved /\ root' = root /\ cut' = cut
      /\ acked' = Acknowledged(User, s, c)
  BY StepCall, TwoWorkers
<1>2. /\ Follows(s, todo'[User]) /\ Belongs(c.kind, c.undo, s)
      /\ todo[User] \in Lists(c.kind, c.undo) /\ c.undo \in BOOLEAN /\ c.kind \in UserKinds
  BY <1>1, StepFacts, AtWork, TwoWorkers DEF TypeInv, Base, Types
<1>3. /\ db'.rows \subseteq db.rows
      /\ s \notin {"drop", "drop_new", "back"} => db'.rows = db.rows
      /\ s = "drop" => db'.rows = db.rows \ c.ids
      /\ s = "drop_new" => db'.rows = db.rows \ c.new
      /\ s = "back" => db'.rows = IF c.ids \cap db.rows # {} THEN db.rows \ c.new ELSE db.rows
  BY <1>1, EffectRows DEF TypeInv, Base, Types
<1>4. /\ s = "drop" => c.kind \in {"edit", "delete"} /\ c.undo = FALSE /\ todo'[User] = <<>>
      /\ s = "drop_new" => c.kind = "create" /\ c.undo = TRUE
      /\ s = "back" => c.kind = "edit" /\ c.undo = TRUE /\ todo'[User] # <<>>
      /\ Facing(User, {"repair"})' => s = "back"
  <2>1. "import" \notin UserKinds
    BY DEF UserKinds
  <2> QED BY <1>1, <1>2, <2>1 DEF Follows, Belongs, Facing
<1>5. todo'[User] = <<>> /\ c.kind = "edit" => s \in {"drop", "repair"}
  BY <1>1, <1>2, EndsWith
<1>6. /\ todo'[User] # <<>> => acked' = acked
      /\ \A r \in acked' : \/ r \in acked
                           \/ /\ todo'[User] = <<>> /\ c.kind = "create" /\ c.undo = FALSE
                              /\ \E i \in c.new \cap db.rows : r = root[i]
  <2>1. c.kind # "import"
    BY <1>2 DEF UserKinds
  <2> QED BY <1>1, <2>1 DEF Acknowledged
<1>7. EditFacts /\ NewFacts /\ Alive /\ Single /\ SavedSingle
  BY DEF Kept
<1>8. ~Facing(User, {"store"})
  BY <1>1 DEF Facing
<1>i. Idle.kind = "" /\ Idle.new = {} /\ Idle.ids = {}
  BY IdleCall
<1> HIDE DEF s, c
<1>9. EditFacts'
  <2>1. call'[User].kind = "edit" => SameCall(c, call'[User]) /\ todo'[User] # <<>> /\ call'[User].undo = c.undo
    BY <1>1, <1>i
  <2>2. call'[User].kind = "edit" /\ ~call'[User].undo => ~c.undo /\ c.new \cap db.rows \subseteq db'.rows
    <3>1. SUFFICES ASSUME call'[User].kind = "edit", ~call'[User].undo
                   PROVE  ~c.undo /\ c.new \cap db.rows \subseteq db'.rows
      OBVIOUS
    <3>2. s \notin {"drop", "drop_new", "back"}
      BY <1>4, <2>1, <3>1
    <3> QED BY <1>3, <2>1, <3>1, <3>2
  <2>3. Facing(User, {"repair"})' => c.ids \cap db'.rows = {} \/ c.new \cap db'.rows = {}
    <3>1. SUFFICES ASSUME s = "back" PROVE c.ids \cap db'.rows = {} \/ c.new \cap db'.rows = {}
      BY <1>4
    <3> QED BY <1>3, <3>1
  <2> QED BY <1>1, <1>3, <1>7, <1>8, <2>1, <2>2, <2>3, EditStays DEF c
<1>10. NewFacts'
  <2>1. \A p \in Workers : SameCall(call[p], call'[p]) \/ call'[p].new = {}
    BY <1>1, <1>i, TwoWorkers DEF c, SameCall
  <2>2. call'[User].kind = "create" => SameCall(c, call'[User]) /\ acked' = acked /\ c.kind = "create"
    BY <1>1, <1>6, <1>i DEF SameCall
  <2>3. call'[User].kind = "create" => \A n \in call'[User].new : n \notin acked'
    BY <1>7, <2>2 DEF NewFacts, Unacked, SameCall, c
  <2>4. ASSUME Facing(Import, {"store", "ask_new", "swap", "drop_new"})', NEW n \in call'[Import].new
        PROVE  n \notin acked'
    <3>1. Facing(Import, {"store", "ask_new", "swap", "drop_new"}) /\ n \in call[Import].new
      BY <1>1, <2>4 DEF Facing
    <3>2. n \notin acked /\ n \notin c.new
      BY <1>7, <3>1 DEF NewFacts, Unacked, Fresh, c
    <3>3. c.kind = "create" => \A i \in c.new : root[i] = i
      BY <1>7 DEF NewFacts, Unacked, c
    <3> QED BY <1>6, <3>2, <3>3
  <2> QED BY <1>1, <1>7, <2>1, <2>2, <2>3, <2>4, NewStays DEF c
<1>11. Alive'
  <2>1. Doomed' \subseteq Doomed
    BY <1>1, <1>i DEF Doomed, SameCall, c
  <2>2. CASE s \notin {"drop", "drop_new", "back"}
    <3>1. ASSUME NEW r \in acked' PROVE \E i \in db'.rows \ Doomed' : root[i] = r
      <4>1. CASE r \in acked
        BY <1>3, <1>7, <2>1, <2>2, <4>1 DEF Alive
      <4>2. CASE todo'[User] = <<>> /\ (\E i \in c.new \cap db.rows : r = root[i])
        <5>1. Doomed' = {}
          BY <1>1, <1>i, <4>2 DEF Doomed
        <5> QED BY <1>3, <2>2, <4>2, <5>1
      <4> QED BY <1>6, <3>1, <4>1, <4>2
    <3> QED BY <1>1, <3>1 DEF Alive
  <2>3. CASE s \in {"drop", "drop_new", "back"}
    <3>1. acked' \subseteq acked
      <4>1. ~(c.kind = "create" /\ c.undo = FALSE)
        BY <1>4, <2>3
      <4> QED BY <1>6, <4>1
    <3>2. CASE s = "drop" /\ c.kind = "delete"
      <4>1. Doomed = c.ids /\ Doomed' = {}
        BY <1>1, <1>4, <1>i, <3>2 DEF Doomed, c
      <4> QED BY <1>1, <1>3, <1>7, <3>1, <3>2, <4>1, AliveStays
    <3>3. CASE s = "drop" /\ c.kind = "edit"
      <4>1. Doomed = {} /\ Doomed' = {}
        BY <2>1, <3>3 DEF Doomed, c
      <4>2. PICK o \in Ids : c.ids = {o}
        BY <1>7, <3>3 DEF EditFacts, c
      <4>3. c.new # {} /\ c.new \subseteq db.rows /\ (\A n \in c.new : root[n] = root[o])
        BY <1>4, <1>7, <1>8, <3>3, <4>2 DEF EditFacts, c
      <4>4. c.new \cap c.ids = {}
        BY DEF Fresh, c
      <4>5. ASSUME NEW r \in acked' PROVE \E i \in db'.rows : root[i] = r
        <5>1. PICK i \in db.rows : root[i] = r
          BY <1>7, <3>1, <4>5 DEF Alive
        <5>2. CASE i = o
          BY <1>3, <3>3, <4>3, <4>4, <5>1, <5>2
        <5>3. CASE i # o
          BY <1>3, <3>3, <4>2, <5>1, <5>3
        <5> QED BY <5>2, <5>3
      <4> QED BY <1>1, <4>1, <4>5 DEF Alive
    <3>4. CASE s = "drop_new"
      <4>1. Doomed = {} /\ Doomed' = {} /\ c.kind = "create"
        BY <1>4, <2>1, <3>4 DEF Doomed, c
      <4>2. \A n \in c.new : root[n] = n /\ n \notin acked
        BY <1>7, <4>1 DEF NewFacts, Unacked, c
      <4>3. ASSUME NEW r \in acked' PROVE \E i \in db'.rows : root[i] = r
        <5>1. PICK i \in db.rows : root[i] = r
          BY <1>7, <3>1, <4>3 DEF Alive
        <5>2. i \notin c.new
          BY <3>1, <4>2, <4>3, <5>1
        <5> QED BY <1>3, <3>4, <5>1, <5>2
      <4> QED BY <1>1, <4>1, <4>3 DEF Alive
    <3>5. CASE s = "back"
      <4>1. Doomed = {} /\ Doomed' = {} /\ c.kind = "edit"
        BY <1>4, <2>1, <3>5 DEF Doomed, c
      <4>2. PICK o \in Ids : c.ids = {o}
        BY <1>7, <4>1 DEF EditFacts, c
      <4>3. \A n \in c.new : root[n] = root[o]
        BY <1>7, <4>1, <4>2 DEF EditFacts, c
      <4>4. c.new \cap c.ids = {}
        BY DEF Fresh, c
      <4>5. ASSUME NEW r \in acked' PROVE \E i \in db'.rows : root[i] = r
        <5>1. PICK i \in db.rows : root[i] = r
          BY <1>7, <3>1, <4>5 DEF Alive
        <5>2. CASE o \in db.rows /\ i \in c.new
          <6>1. o \in db'.rows /\ root[o] = r
            BY <1>3, <3>5, <4>2, <4>3, <4>4, <5>1, <5>2
          <6> QED BY <6>1
        <5>3. CASE i \notin c.new
          BY <1>3, <3>5, <5>1, <5>3
        <5>4. CASE o \notin db.rows
          BY <1>3, <3>5, <4>2, <5>1, <5>4
        <5> QED BY <5>2, <5>3, <5>4
      <4> QED BY <1>1, <4>1, <4>5 DEF Alive
    <3> QED BY <1>4, <2>3, <3>2, <3>3, <3>4, <3>5
  <2> QED BY <2>2, <2>3
<1>12. Single'
  <2>1. ASSUME c.kind = "edit"
        PROVE  SameCall(c, call'[User]) \/ c.ids \cap db'.rows = {} \/ c.new \cap db'.rows = {}
    <3>1. CASE todo'[User] # <<>>
      BY <1>1, <3>1
    <3>2. CASE s = "drop"
      BY <1>3, <3>2
    <3>3. CASE s = "repair"
      <4>1. Facing(User, {"repair"}) /\ db'.rows = db.rows
        BY <1>1, <1>3, <3>3 DEF Facing, s
      <4> QED BY <1>7, <2>1, <4>1 DEF EditFacts, c
    <3> QED BY <1>5, <2>1, <3>1, <3>2, <3>3
  <2> QED BY <1>1, <1>3, <1>7, <2>1, SingleStays DEF c
<1>13. SavedSingle'
  BY <1>1, <1>7, SavedStays
<1> QED BY <1>9, <1>10, <1>11, <1>12, <1>13 DEF Kept

\* A step of the import keeps every acknowledged memory, in one copy.
LEMMA KeptStepImport ==
  ASSUME TypeInv, Fresh, Kept, Step(Import)
  PROVE  Kept'
<1> DEFINE s == Head(todo[Import])  c == call[Import]
<1>1. /\ todo[Import] # <<>> /\ c \in Calls /\ todo'[Import] = Tail(todo[Import])
      /\ s \in {"ask_new", "swap", "mark", "ask_out", "drop", "drop_new", "back",
                "repair", "shelve", "unshelve", "ask_in"}
      /\ Effect(s, c)
      /\ todo'[Import] = <<>> => call'[Import] = Idle
      /\ todo'[Import] # <<>> => SameCall(c, call'[Import]) /\ call'[Import].undo = c.undo
      /\ todo'[User] = todo[User] /\ call'[User] = call[User]
      /\ saved' = saved /\ root' = root /\ cut' = cut
      /\ acked' = Acknowledged(Import, s, c)
  BY StepCall, TwoWorkers
<1>2. /\ Follows(s, todo'[Import]) /\ Belongs(c.kind, c.undo, s)
      /\ todo[Import] \in Lists(c.kind, c.undo) /\ c.undo \in BOOLEAN /\ c.kind = "import"
  BY <1>1, StepFacts, AtWork, TwoWorkers DEF TypeInv, Base, Types
<1>3. s \in {"ask_new", "swap", "mark", "drop_new"}
  BY <1>1, <1>2 DEF Belongs
<1>4. /\ db'.rows \subseteq db.rows /\ (s # "drop_new" => db'.rows = db.rows)
      /\ s = "drop_new" => db'.rows = db.rows \ c.new
  BY <1>1, <1>3, EffectRows DEF TypeInv, Base, Types
<1>5. acked' = acked
  <2>1. ~(Tail(todo[Import]) = <<>> /\ c.undo = FALSE)
    BY <1>2, <1>3, EndsWith
  <2> QED BY <1>1, <1>2, <2>1 DEF Acknowledged
<1>6. EditFacts /\ NewFacts /\ Alive /\ Single /\ SavedSingle
  BY DEF Kept
<1>i. Idle.kind = "" /\ Idle.new = {} /\ Idle.ids = {}
  BY IdleCall
<1>7. Facing(Import, {"store", "ask_new", "swap", "drop_new"})' => s = "ask_new"
  BY <1>1, <1>2, <1>3 DEF Follows, Facing
<1>8. s # "mark" => \A n \in c.new : root[n] = n /\ n \notin acked
  BY <1>1, <1>3, <1>6 DEF NewFacts, Facing, Unacked
<1> HIDE DEF s, c
<1>9. EditFacts'
  <2>1. Facing(User, {"store"})' = Facing(User, {"store"}) /\ Facing(User, {"repair"})' = Facing(User, {"repair"})
    BY <1>1 DEF Facing
  <2>2. call[User].new \cap db.rows \subseteq db'.rows
    BY <1>4 DEF Fresh, c
  <2> QED BY <1>1, <1>4, <1>6, <2>1, <2>2, EditStays DEF SameCall
<1>10. NewFacts'
  <2>1. \A p \in Workers : SameCall(call[p], call'[p]) \/ call'[p].new = {}
    BY <1>1, <1>i, TwoWorkers DEF c, SameCall
  <2>2. call'[User].kind = "create" => \A n \in call'[User].new : n \notin acked'
    BY <1>1, <1>5, <1>6 DEF NewFacts, Unacked
  <2>3. Facing(Import, {"store", "ask_new", "swap", "drop_new"})' => \A n \in call'[Import].new : n \notin acked'
    BY <1>1, <1>5, <1>7, <1>8, <1>i DEF SameCall
  <2> QED BY <1>1, <1>6, <2>1, <2>2, <2>3, NewStays DEF SameCall
<1>11. Alive'
  <2>1. Doomed' = Doomed
    BY <1>1 DEF Doomed
  <2>2. ASSUME NEW r \in acked PROVE \E i \in db'.rows \ Doomed : root[i] = r
    <3>1. PICK i \in db.rows \ Doomed : root[i] = r
      BY <1>6 DEF Alive
    <3>2. i \in db'.rows
      BY <1>4, <1>8, <2>2, <3>1
    <3> QED BY <3>1, <3>2
  <2> QED BY <1>1, <1>5, <2>1, <2>2 DEF Alive
<1>12. Single'
  BY <1>1, <1>4, <1>6, SingleStays DEF SameCall
<1>13. SavedSingle'
  BY <1>1, <1>6, SavedStays
<1> QED BY <1>9, <1>10, <1>11, <1>12, <1>13 DEF Kept

\* A step that fails keeps every acknowledged memory, in one copy.
LEMMA KeptFails ==
  ASSUME TypeInv, Kept, NEW p \in Workers, todo[p] # <<>>, Fails(p, Head(todo[p]), call[p]),
         db'.rows = db.rows
  PROVE  Kept'
<1> DEFINE s == Head(todo[p])  c == call[p]
<1>1. /\ todo'[p] = IF c.undo THEN Raised(p) ELSE Undo(c.kind, s)
      /\ todo'[p] = <<>> => call'[p] = Idle
      /\ todo'[p] # <<>> => SameCall(c, call'[p]) /\ call'[p].undo = TRUE
      /\ \A q \in Workers \ {p} : todo'[q] = todo[q] /\ call'[q] = call[q]
      /\ saved' = saved /\ root' = root /\ acked' = acked
      /\ cut' = IF c.undo THEN cut \cup Edited ELSE cut
  BY FailsCall
<1>2. EditFacts /\ NewFacts /\ Alive /\ Single /\ SavedSingle
  BY DEF Kept
<1>i. Idle.kind = "" /\ Idle.new = {} /\ Idle.ids = {}
  BY IdleCall
<1>3. cut \subseteq cut'
  BY <1>1
<1>4. \A q \in Workers : SameCall(call[q], call'[q]) \/ call'[q] = Idle
  BY <1>1 DEF SameCall
<1>5. EditFacts'
  <2>1. CASE p = User
    <3>1. call'[User].kind = "edit" => ~Facing(User, {"repair"})' /\ call'[User].undo = TRUE
      <4>1. SUFFICES ASSUME call'[User].kind = "edit"
                     PROVE  ~Facing(User, {"repair"})' /\ call'[User].undo = TRUE
        OBVIOUS
      <4>2. todo'[User] # <<>> /\ c.kind = "edit" /\ call'[User].undo = TRUE
        BY <1>1, <1>i, <2>1, <4>1 DEF SameCall
      <4>3. todo'[User] = B2
        BY <1>1, <2>1, <4>2, UndoFacts
      <4>4. Head(B2) = "back"
        BY Table
      <4> QED BY <4>2, <4>3, <4>4 DEF Facing
    <3>2. call'[User].kind = "edit" => SameCall(call[User], call'[User])
      BY <1>4, <1>i, TwoWorkers
    <3> QED BY <1>1, <1>2, <1>3, <3>1, <3>2, EditStays
  <2>2. CASE p = Import
    <3>1. todo'[User] = todo[User] /\ call'[User] = call[User]
      BY <1>1, <2>2, TwoWorkers
    <3> QED BY <1>1, <1>2, <1>3, <3>1 DEF EditFacts, Facing
  <2> QED BY <2>1, <2>2, TwoWorkers
<1>6. NewFacts'
  <2>1. \A q \in Workers : SameCall(call[q], call'[q]) \/ call'[q].new = {}
    BY <1>4, <1>i
  <2>2. call'[User].kind = "create" =>
          SameCall(call[User], call'[User]) /\ \A n \in call'[User].new : n \notin acked'
    BY <1>1, <1>2, <1>4, <1>i, TwoWorkers DEF NewFacts, Unacked, SameCall
  <2>3. ASSUME Facing(Import, {"store", "ask_new", "swap", "drop_new"})'
        PROVE  \A n \in call'[Import].new : n \notin acked'
    <3>1. CASE p = User
      <4>1. todo'[Import] = todo[Import] /\ call'[Import] = call[Import]
        BY <1>1, <3>1, TwoWorkers
      <4> QED BY <1>1, <1>2, <2>3, <4>1 DEF NewFacts, Unacked, Facing
    <3>2. CASE p = Import
      <4>1. /\ todo'[Import] # <<>>
            /\ Head(todo'[Import]) \in {"store", "ask_new", "swap", "drop_new"}
        BY <2>3 DEF Facing
      <4>2. c.kind = "import"
        BY <3>2, AtWork, TwoWorkers DEF TypeInv, Base, Types
      <4>3. s \in {"ask_new", "swap"}
        <5>1. Head(J1) = "raise"
          BY Table
        <5>2. todo'[Import] # J1
          BY <4>1, <5>1
        <5>3. c.undo # TRUE /\ todo'[Import] = Undo("import", s)
          <6>1. c.undo \in BOOLEAN
            BY <3>2, AtWork DEF TypeInv, Base, Types
          <6>2. c.undo # TRUE
            BY <1>1, <3>2, <5>2, UndoFacts
          <6> QED BY <1>1, <3>2, <4>2, <6>1, <6>2
        <5> QED BY <4>1, <5>2, <5>3, UndoFacts
      <4>4. Unacked(call[Import])
        BY <1>2, <3>2, <4>3 DEF NewFacts, Facing
      <4> QED BY <1>1, <3>2, <4>1, <4>4 DEF Unacked, SameCall
    <3> QED BY <3>1, <3>2, TwoWorkers
  <2> QED BY <1>1, <1>2, <2>1, <2>2, <2>3, NewStays
<1>7. Alive'
  <2>1. Doomed' \subseteq Doomed
    BY <1>4, <1>i, TwoWorkers DEF Doomed, SameCall
  <2> QED BY <1>1, <1>2, <2>1, AliveStays
<1>8. Single'
  <2>1. ASSUME call[User].kind = "edit"
        PROVE  SameCall(call[User], call'[User]) \/ {root[i] : i \in call[User].ids} \subseteq cut'
    <3>1. CASE c.undo = TRUE
      BY <1>1, <2>1, <3>1 DEF Edited
    <3>2. CASE c.undo # TRUE /\ p = User
      <4>1. c.undo = FALSE
        BY <3>2, AtWork DEF TypeInv, Base, Types
      <4>2. todo'[User] = B2
        BY <1>1, <2>1, <3>2, <4>1, UndoFacts
      <4>3. B2 # <<>>
        BY Table
      <4> QED BY <1>1, <3>2, <4>2, <4>3
    <3>3. CASE p = Import
      BY <1>1, <3>3, TwoWorkers DEF SameCall
    <3> QED BY <3>1, <3>2, <3>3, TwoWorkers
  <2> QED BY <1>1, <1>2, <1>3, <2>1, SingleStays
<1>9. SavedSingle'
  BY <1>1, <1>2, <1>3, SavedStays
<1> QED BY <1>5, <1>6, <1>7, <1>8, <1>9 DEF Kept

\* A cancelled request keeps every acknowledged memory, in one copy.
LEMMA KeptCancel ==
  ASSUME TypeInv, Kept, Cancel
  PROVE  Kept'
<1>1. todo[User] # <<>> /\ db' = db
  BY CancelCall
<1>2. CASE Fails(User, Head(todo[User]), call[User])
  BY <1>1, <1>2, KeptFails, TwoWorkers
<1>3. CASE /\ todo'[User] = <<>> /\ call'[User] = Idle /\ call[User].kind # "edit"
           /\ todo'[Import] = todo[Import] /\ call'[Import] = call[Import]
           /\ saved' = saved /\ UNCHANGED past
  <2>1. root' = root /\ acked' = acked /\ cut' = cut
    BY <1>3 DEF past
  <2>2. Idle.kind = "" /\ Idle.new = {} /\ Idle.ids = {}
    BY IdleCall
  <2>3. EditFacts'
    BY <1>3, <2>2 DEF EditFacts
  <2>4. NewFacts'
    BY <1>3, <2>1, <2>2 DEF Kept, NewFacts, Unacked, Facing
  <2>5. Alive'
    <3>1. Doomed' = {}
      BY <1>3, <2>2 DEF Doomed
    <3> QED BY <1>1, <2>1, <3>1, AliveStays DEF Kept
  <2>6. Single'
    BY <1>1, <1>3, <2>1, SingleStays DEF Kept
  <2>7. SavedSingle'
    BY <1>3, <2>1, SavedStays DEF Kept
  <2> QED BY <2>3, <2>4, <2>5, <2>6, <2>7 DEF Kept
<1> QED BY <1>2, <1>3, CancelCall

\* Every step keeps every acknowledged memory, in one copy.
LEMMA KeptNext ==
  ASSUME TypeInv, Fresh, Kept, [Next]_vars, ~Replaced'
  PROVE  Kept'
<1>1. ASSUME NEW k \in world.kinds, NEW S \in SUBSET Ids, Request(k, S) PROVE Kept'
  <2>1. k \in UserKinds
    BY WorldFacts DEF TypeInv, Base, Types, StoreTypes
  <2> QED BY <1>1, <2>1, KeptRequest
<1>2. CASE Step(User) \/ Step(Import) \/ Store
  BY <1>2, KeptStepUser, KeptStepImport, KeptStore
<1>3. ASSUME NEW p \in Workers, Refuse(p) \/ Fault(p) PROVE Kept'
  <2>1. todo[p] # <<>> /\ Fails(p, Head(todo[p]), call[p]) /\ db'.rows = db.rows
    BY <1>3, FailsRows
  <2> QED BY <2>1, KeptFails
<1>4. CASE Cancel
  BY <1>4, KeptCancel
<1>5. CASE ImportBegin \/ ImportStore \/ ImportSave \/ ImportRaise
  BY <1>5, KeptImportBegin, KeptImportStore, KeptImportSave, KeptImportRaise
<1>6. CASE Snapshot \/ Rollback \/ RollbackFails \/ Down
  BY <1>6, KeptSnapshot, KeptRestore, RollsAside, KeptAside, KeptDown DEF Rollback
<1>7. CASE Rebuilds \/ RebuildBegin \/ Interrupt \/ RebuildFails
  BY <1>7, RebuildsAside, KeptAside
<1>8. CASE Restart \/ (\E k \in {"rebuild", "import"} : TaskBegin(k)) \/ UNCHANGED vars
  BY <1>8, OthersAside, KeptAside
<1> QED BY <1>1, <1>2, <1>3, <1>4, <1>5, <1>6, <1>7, <1>8, TwoWorkers
        DEF Next, Steps, Requests, Serve, Imports, Breaks

\* What is kept, as the property says it.
LEMMA KeptCopies ==
  ASSUME TypeInv, Kept
  PROVE  OneCopy
<1>1. SUFFICES ASSUME NEW r \in acked
               PROVE  Copies(r) # {} /\ (Cardinality(Copies(r)) = 1 \/ r \in cut \cup Edited)
  BY DEF OneCopy
<1>2. PICK i \in db.rows : root[i] = r
  BY DEF Kept, Alive
<1>3. i \in Copies(r)
  BY <1>2 DEF Copies
<1>4. ASSUME r \notin cut \cup Edited PROVE Cardinality(Copies(r)) = 1
  <2>1. ASSUME NEW j \in Copies(r), j # i PROVE FALSE
    <3>1. j \in db.rows /\ root[j] = r
      BY <2>1 DEF Copies
    <3>2. \/ r \in cut
          \/ call[User].kind = "edit" /\ (i \in call[User].ids \/ j \in call[User].ids)
      BY <1>2, <2>1, <3>1 DEF Kept, Single
    <3> QED BY <1>2, <1>4, <3>1, <3>2 DEF Edited
  <2>2. Copies(r) = {i}
    BY <1>3, <2>1
  <2> QED BY <2>2, FS_Singleton
<1> QED BY <1>3, <1>4

\* An acknowledged memory is there in exactly one copy, and no record of a manifest
\* is stored twice, whatever edits, imports, rebuilds, rollbacks and crashes follow;
\* an edit that a crash or a failed undo cut off may leave both of its rows
\* (service.py:1180-1420, resumable_tasks.py:331-786).
THEOREM KeptOnce == Spec => []StoredOnce
<1> DEFINE Inv == TypeInv /\ (Replaced \/ (Fresh /\ Kept))
<1>1. Init => Inv
  BY TypesInit, FreshInit, KeptInit
<1>2. Inv /\ [Next]_vars => Inv'
  BY TypesNext, FreshNext, KeptNext, StaysReplaced
<1>3. Inv => OneCopy
  <2>1. Replaced => OneCopy
    BY DEF OneCopy
  <2> QED BY <2>1, KeptCopies
<1>4. OneCopy /\ RecordOnce => StoredOnce
  BY DEF StoredOnce
<1> QED BY <1>1, <1>2, <1>3, <1>4, RecordsStoredOnce, PTL DEF Spec

-----------------------------------------------------------------------------
\* Index and database in step.

\* What is active after each transaction.
LEMMA ActiveFacts ==
  ASSUME NEW d, Sane(d), NEW S \in SUBSET Ids
  PROVE  /\ Active(Dropped(d, S)) = Active(d) \ S
         /\ Active(Shelved(d, S)) = Active(d) \ S
         /\ S \subseteq d.archived => Active(Unshelved(d, S)) = Active(d) \cup S
         /\ S \subseteq d.archived => S \cap Active(d) = {}
         /\ Active(d) \subseteq d.rows
<1>1. Active(Dropped(d, S)) = Active(d) \ S
  BY DroppedFacts DEF Active
<1>2. Active(Shelved(d, S)) = Active(d) \ S
  BY ShelvedFacts DEF Active
<1>3. S \subseteq d.archived => Active(Unshelved(d, S)) = Active(d) \cup S
  BY UnshelvedFacts DEF Active, Sane
<1>4. S \subseteq d.archived => S \cap Active(d) = {}
  BY DEF Active
<1>5. Active(d) \subseteq d.rows
  BY DEF Active
<1> QED BY <1>1, <1>2, <1>3, <1>4, <1>5

\* What is active after an insertion.
LEMMA ActiveStored ==
  ASSUME NEW d, Sane(d), d.next \in Ids, NEW b \in BOOLEAN
  PROVE  /\ Active(Stored(d, d.next, b)) = IF b THEN Active(d) ELSE Active(d) \cup {d.next}
         /\ d.next \notin Active(d)
<1>1. d.next \notin d.rows /\ d.archived \subseteq d.rows
  BY DEF Sane, Databases, Ids
<1>2. CASE b
  <2>1. /\ Stored(d, d.next, b).rows = d.rows \cup {d.next}
        /\ Stored(d, d.next, b).archived = d.archived \cup {d.next}
    BY <1>2 DEF Stored, Sane, Databases
  <2> QED BY <1>1, <1>2, <2>1 DEF Active
<1>3. CASE ~b
  <2>1. /\ Stored(d, d.next, b).rows = d.rows \cup {d.next}
        /\ Stored(d, d.next, b).archived = d.archived
    BY <1>3 DEF Stored, Sane, Databases
  <2> QED BY <1>1, <1>3, <2>1 DEF Active
<1> QED BY <1>2, <1>3

\* An index that lacks nothing is the one the database asks for.
LEMMA LacksNothing ==
  /\ Lacks({}) => Consistent
  /\ Consistent => Lacks({})
  /\ \A S, T : S = T => Lacks(S) = Lacks(T)
  /\ db.derived = Active(db) => Expected(db) = [docs |-> Active(db), graph |-> Active(db)]
<1>1. db.derived = Active(db) => Graph(db) = Active(db)
  BY DEF Graph
<1>2. db.derived = Active(db) => Expected(db) = [docs |-> Active(db), graph |-> Active(db)]
  BY <1>1 DEF Expected
<1>3. Active(db) \ {} = Active(db)
  OBVIOUS
<1>4. Lacks({}) => Consistent
  BY <1>2, <1>3 DEF Lacks, Consistent
<1>5. Consistent => Lacks({})
  BY <1>2, <1>3 DEF Lacks, Consistent
<1> QED BY <1>2, <1>4, <1>5

\* An index that lacks some ids goes on lacking them when nothing changes.
LEMMA LacksStays ==
  ASSUME db' = db, index' = index, NEW S, Lacks(S)
  PROVE  Lacks(S)'
BY DEF Lacks, Active

\* A request between its steps.
LEMMA InStepStays ==
  ASSUME NEW p \in Workers, todo'[p] = todo[p], call'[p] = call[p], db' = db, index' = index, InStep(p)
  PROVE  InStep(p)'
<1>1. \A S : Facing(p, S)' = Facing(p, S)
  BY DEF Facing
<1>2. \A S : Then(p, S)' = Then(p, S)
  BY DEF Then
<1>3. Lacks(call[p].new)' = Lacks(call[p].new)
  BY DEF Lacks, Active
<1>4. Lacks(call[p].ids)' = Lacks(call[p].ids) /\ Lacks({})' = Lacks({})
  BY DEF Lacks, Active
<1>5. Swapping(p)' = Swapping(p)
  BY <1>2, <1>3, <1>4 DEF Swapping, Upsert, Removal, Active, Graph, Expected
<1> QED BY <1>1, <1>3, <1>4, <1>5 DEF InStep

\* A request that rests, or has done nothing yet.
LEMMA Rests ==
  ASSUME NEW p \in Workers, Lacks({})',
         todo'[p] = <<>> \/ (Facing(p, {"store", "ask_new", "drop_new"})' /\ call'[p].new = {})
           \/ Facing(p, {"mark", "ask_out", "save", "raise"})'
           \/ (Facing(p, {"unshelve"})' /\ call'[p].ids \subseteq db'.archived)
  PROVE  InStep(p)'
<1>1. call'[p].new = {} => Lacks(call[p].new)'
  BY DEF Lacks
<1> QED BY <1>1 DEF InStep, Facing

\* An import that has nothing half done is in step when the index lacks nothing.
LEMMA UntouchedRests ==
  ASSUME Untouched', Lacks({})'
  PROVE  InStep(Import)'
<1>1. todo'[Import] = <<>> \/ (Facing(Import, {"store", "ask_new", "drop_new"})' /\ call'[Import].new = {})
  BY DEF Untouched, Facing
<1> QED BY <1>1, Rests, TwoWorkers

\* Who wants ids away, or has rows without vectors.
LEMMA OweNew ==
  ASSUME NEW p \in Workers, Facing(p, {"store", "ask_new", "drop_new"})', Lacks(call[p].new)'
  PROVE  InStep(p)'
BY DEF InStep, Facing

\* Who wants ids out of the index, or has active rows without vectors.
LEMMA OweIds ==
  ASSUME NEW p \in Workers, Facing(p, {"drop", "shelve", "ask_in"})', Lacks(call[p].ids)'
  PROVE  InStep(p)'
BY DEF InStep, Facing

\* Who is about to swap the index.
LEMMA OweSwap ==
  ASSUME NEW p \in Workers, Facing(p, {"swap"})', Swapping(p)'
  PROVE  InStep(p)'
BY DEF InStep, Facing

\* Who is about to put an edit back.
LEMMA OweRepair ==
  ASSUME NEW p \in Workers, Facing(p, {"back", "repair"})', db'.derived = Active(db')
  PROVE  InStep(p)'
BY DEF InStep, Facing

\* Every step keeps its request in step.
LEMMA StepInStep ==
  ASSUME TypeInv, NEW p \in Workers, Step(p), InStep(p)
  PROVE  /\ InStep(p)'
         /\ todo'[p] = <<>> => Lacks({})'
<1> DEFINE s == Head(todo[p])  c == call[p]  t == todo'[p]
<1>1. /\ todo[p] # <<>> /\ c \in Calls /\ todo'[p] = Tail(todo[p])
      /\ s \in {"ask_new", "swap", "mark", "ask_out", "drop", "drop_new", "back",
                "repair", "shelve", "unshelve", "ask_in"}
      /\ Effect(s, c)
      /\ t # <<>> => call'[p].ids = c.ids /\ call'[p].new = c.new
                     /\ call'[p].want = Asked(s, c).want
  BY StepCall DEF SameCall
<1>2. Follows(s, t)
  BY <1>1, StepFacts DEF TypeInv, Base, Types
<1>3. Sane(db) /\ c.ids \in SUBSET Ids /\ c.new \in SUBSET Ids
  BY <1>1 DEF TypeInv, Base, Types, StoreTypes, Calls
<1>4. \A S : Facing(p, S) = (s \in S)
  BY <1>1 DEF Facing
<1>5. t # <<>> => \A S : Facing(p, S)' = (Head(t) \in S)
  BY DEF Facing
<1>6. t # <<>> => \A S : Then(p, S)' = (Tail(t) # <<>> /\ Head(Tail(t)) \in S)
  BY DEF Then
<1>7. ASSUME Lacks({})', t = <<>> \/ Head(t) \in {"mark", "ask_out", "save", "raise"}
      PROVE  InStep(p)' /\ (t = <<>> => Lacks({})')
  BY <1>5, <1>7, Rests
<1> USE DEF InStep
<1>8. CASE s = "ask_new"
  <2>1. Lacks(c.new) /\ db' = db /\ index' = index
    BY <1>1, <1>4, <1>8 DEF Effect, data, Write
  <2>2. t # <<>> /\ Head(t) = "swap" /\ Tail(t) # <<>> /\ Head(Tail(t)) = "mark"
    BY <1>2, <1>8 DEF Follows
  <2>3. call'[p].new = c.new /\ call'[p].want = Upsert(db, c.new)
    BY <1>1, <1>3, <1>8, <2>2, AskedFacts
  <2>4. Lacks(call[p].new)'
    BY <2>1, <2>3 DEF Lacks, Active
  <2>5. Swapping(p)'
    BY <1>6, <2>1, <2>2, <2>3, <2>4 DEF Swapping
  <2>6. Facing(p, {"swap"})'
    BY <1>5, <2>2
  <2> QED BY <2>2, <2>5, <2>6, OweSwap
<1>9. CASE s = "ask_in"
  <2>1. Lacks(c.ids) /\ db' = db /\ index' = index
    BY <1>1, <1>4, <1>9 DEF Effect, data, Write
  <2>2. t # <<>> /\ Head(t) = "swap" /\ Tail(t) = <<>>
    BY <1>2, <1>9 DEF Follows
  <2>3. call'[p].ids = c.ids /\ call'[p].want = Upsert(db, c.ids)
    BY <1>1, <1>3, <1>9, <2>2, AskedFacts
  <2>4. Lacks(call[p].ids)'
    BY <2>1, <2>3 DEF Lacks, Active
  <2>5. Swapping(p)'
    BY <1>6, <2>1, <2>2, <2>3, <2>4 DEF Swapping
  <2>6. Facing(p, {"swap"})'
    BY <1>5, <2>2
  <2> QED BY <2>2, <2>5, <2>6, OweSwap
<1>10. CASE s = "ask_out"
  <2>1. Lacks({}) /\ db' = db /\ index' = index
    BY <1>1, <1>4, <1>10 DEF Effect, data, Write
  <2>2. t # <<>> /\ Head(t) = "swap" /\ Tail(t) # <<>> /\ Head(Tail(t)) \in {"drop", "shelve"}
    BY <1>2, <1>10 DEF Follows
  <2>3. call'[p].ids = c.ids /\ call'[p].want = Removal(db, c.ids)
    BY <1>1, <1>3, <1>10, <2>2, AskedFacts
  <2>4. Lacks({})'
    BY <2>1, LacksStays
  <2>5. Swapping(p)'
    BY <1>6, <2>1, <2>2, <2>3, <2>4 DEF Swapping
  <2>6. Facing(p, {"swap"})'
    BY <1>5, <2>2
  <2> QED BY <2>2, <2>5, <2>6, OweSwap
<1>11. CASE s = "swap"
  <2>1. Swapping(p) /\ db' = db /\ index = c.want.before /\ index' = c.want.after
    BY <1>1, <1>4, <1>11 DEF Effect, Write
  <2>2. t = <<>> \/ Head(t) \in {"mark", "drop", "shelve"}
    BY <1>2, <1>11 DEF Follows
  <2>a. \A S : Then(p, S) = (t # <<>> /\ Head(t) \in S)
    BY <1>1 DEF Then
  <2>3. CASE t = <<>>
    <3>1. db.derived = Active(db) /\ c.want = Upsert(db, c.ids)
      BY <1>1, <2>1, <2>3 DEF Swapping, Lacks
    <3>2. index' = [docs |-> Active(db), graph |-> Active(db)]
      BY <2>1, <3>1, LacksNothing DEF Upsert
    <3>3. Lacks({})'
      BY <2>1, <3>1, <3>2 DEF Lacks, Active
    <3> QED BY <1>7, <2>3, <3>3
  <2>4. CASE t # <<>> /\ Head(t) = "mark"
    <3>1. db.derived = Active(db) /\ c.want = Upsert(db, c.new)
      BY <2>1, <2>4, <2>a DEF Swapping, Lacks
    <3>2. index' = [docs |-> Active(db), graph |-> Active(db)]
      BY <2>1, <3>1, LacksNothing DEF Upsert
    <3>3. Lacks({})'
      BY <2>1, <3>1, <3>2 DEF Lacks, Active
    <3> QED BY <1>7, <2>4, <3>3
  <2>5. CASE t # <<>> /\ Head(t) \in {"drop", "shelve"}
    <3>1. db.derived = Active(db) /\ c.want = Removal(db, c.ids)
      BY <2>1, <2>5, <2>a DEF Swapping, Lacks
    <3>2. Graph(db) = Active(db)
      BY <3>1 DEF Graph
    <3>3. index' = [docs |-> Active(db) \ c.ids, graph |-> Active(db) \ c.ids]
      BY <2>1, <3>1, <3>2 DEF Removal
    <3>4. Lacks(call[p].ids)'
      BY <1>1, <2>1, <2>5, <3>1, <3>3 DEF Lacks, Active
    <3>5. Facing(p, {"drop", "shelve", "ask_in"})'
      BY <1>5, <2>5
    <3> QED BY <2>5, <3>4, <3>5, OweIds
  <2> QED BY <2>2, <2>3, <2>4, <2>5
<1>12. CASE s = "mark"
  <2>1. Lacks({}) /\ db' = db /\ index' = index
    BY <1>1, <1>4, <1>12 DEF Effect, data, Write
  <2>2. t = <<>> \/ Head(t) \in {"ask_out", "save"}
    BY <1>2, <1>12 DEF Follows
  <2> QED BY <1>7, <2>1, <2>2, LacksStays
<1>13. CASE s = "drop"
  <2>1. Lacks(c.ids) /\ db' = Dropped(db, c.ids) /\ index' = index
    BY <1>1, <1>4, <1>13 DEF Effect, Write
  <2>2. Active(db') = Active(db) \ c.ids /\ db'.derived = Active(db) \ c.ids
    BY <1>3, <2>1, ActiveFacts, DroppedFacts DEF Lacks
  <2>3. Lacks({})'
    BY <2>1, <2>2 DEF Lacks
  <2>4. t = <<>>
    BY <1>2, <1>13 DEF Follows
  <2> QED BY <1>7, <2>3, <2>4
<1>14. CASE s = "shelve"
  <2>1. Lacks(c.ids) /\ db' = Shelved(db, c.ids) /\ index' = index
    BY <1>1, <1>4, <1>14 DEF Effect, Write
  <2>2. Active(db') = Active(db) \ c.ids /\ db'.derived = Active(db) \ c.ids
    BY <1>3, <2>1, ActiveFacts, ShelvedFacts DEF Lacks
  <2>3. Lacks({})'
    BY <2>1, <2>2 DEF Lacks
  <2>4. t = <<>>
    BY <1>2, <1>14 DEF Follows
  <2> QED BY <1>7, <2>3, <2>4
<1>15. CASE s = "drop_new"
  <2>1. Lacks(c.new) /\ db' = Dropped(db, c.new) /\ index' = index
    BY <1>1, <1>4, <1>15, ZenonT(60) DEF Effect, Write
  <2>2. Active(db') = Active(db) \ c.new /\ db'.derived = Active(db) \ c.new
    BY <1>3, <2>1, ActiveFacts, DroppedFacts DEF Lacks
  <2>3. Lacks({})'
    BY <2>1, <2>2 DEF Lacks
  <2>4. t = <<>> \/ Head(t) = "raise"
    BY <1>2, <1>15 DEF Follows
  <2> QED BY <1>7, <2>3, <2>4
<1>16. CASE s = "unshelve"
  <2>1. Lacks({}) /\ c.ids \subseteq db.archived /\ db' = Unshelved(db, c.ids) /\ index' = index
    BY <1>1, <1>4, <1>16, ZenonT(60) DEF Effect, Write
  <2>2. /\ Active(db') = Active(db) \cup c.ids /\ db'.derived = Active(db) \cup c.ids
        /\ c.ids \cap Active(db) = {}
    BY <1>3, <2>1, ActiveFacts, UnshelvedFacts DEF Lacks
  <2>3. Active(db') \ c.ids = Active(db) \ {}
    BY <2>2
  <2>4. t # <<>> /\ Head(t) = "ask_in"
    BY <1>2, <1>16 DEF Follows
  <2>5. Lacks(call[p].ids)'
    BY <1>1, <2>1, <2>2, <2>3, <2>4 DEF Lacks
  <2>6. Facing(p, {"drop", "shelve", "ask_in"})'
    BY <1>5, <2>4
  <2> QED BY <2>4, <2>5, <2>6, OweIds
<1>17. CASE s = "back"
  <2>1. db.derived = Active(db) /\ Back(c)
    BY <1>1, <1>4, <1>17 DEF Effect, Write
  <2>2. db'.derived = Active(db')
    <3>1. CASE db' = db
      BY <2>1, <3>1
    <3>2. CASE db' = Dropped(db, c.new)
      <4>1. Active(db') = Active(db) \ c.new
        BY <1>3, <3>2, ActiveFacts
      <4>2. db'.derived = db.derived \ c.new
        BY <1>3, <3>2, DroppedFacts
      <4> QED BY <2>1, <4>1, <4>2
    <3> QED BY <2>1, <3>1, <3>2 DEF Back
  <2>3. t # <<>> /\ Head(t) = "repair"
    BY <1>2, <1>17 DEF Follows
  <2>4. Facing(p, {"back", "repair"})'
    BY <1>5, <2>3
  <2> QED BY <2>2, <2>3, <2>4, OweRepair
<1>18. CASE s = "repair"
  <2>1. db.derived = Active(db) /\ index' = Expected(db) /\ db' = db
    BY <1>1, <1>4, <1>18, ZenonT(60) DEF Effect, Repair, Write
  <2>2. index' = [docs |-> Active(db), graph |-> Active(db)]
    BY <2>1, LacksNothing
  <2>3. Lacks({})'
    BY <2>1, <2>2 DEF Lacks, Active
  <2>4. t = <<>>
    BY <1>2, <1>18 DEF Follows
  <2> QED BY <1>7, <2>3, <2>4
<1> QED BY <1>1, <1>8, <1>9, <1>10, <1>11, <1>12, <1>13, <1>14, <1>15, <1>16, <1>17, <1>18

-----------------------------------------------------------------------------
\* The inductive invariant of Settled.

\* How the lists of the other requests end.
LEMMA LastStep ==
  ASSUME NEW k, NEW u \in BOOLEAN, u = FALSE, NEW l \in Lists(k, u), Tail(l) = <<>>
  PROVE  /\ k = "create" => Head(l) = "mark"
         /\ k \in {"archive", "delete"} => Head(l) \in {"drop", "shelve"}
<1>1. CASE k = "create"
  <2>1. l \in {C1, C2, C3, C4}
    BY <1>1, ListsOf
  <2>2. Tail(C2) # <<>> /\ Tail(C3) # <<>> /\ Tail(C4) # <<>>
    BY Table
  <2>3. l = C1
    BY <2>1, <2>2
  <2> QED BY <1>1, <2>3, Table
<1>2. CASE k = "archive"
  <2>1. l \in {S1, S2, S3}
    BY <1>2, ListsOf
  <2>2. Tail(S2) # <<>> /\ Tail(S3) # <<>>
    BY Table
  <2>3. l = S1
    BY <2>1, <2>2
  <2> QED BY <1>2, <2>3, Table
<1>3. CASE k = "delete"
  <2>1. l \in {D1, D2, D3}
    BY <1>3, ListsOf
  <2>2. Tail(D2) # <<>> /\ Tail(D3) # <<>>
    BY Table
  <2>3. l = D1
    BY <2>1, <2>2
  <2> QED BY <1>3, <2>3, Table
<1> QED BY <1>1, <1>2, <1>3

\* What undoes each step of the requests.
LEMMA Undoing ==
  /\ Undo("create", "store") = <<>> /\ \A s : s # "store" => Undo("create", s) = N1
  /\ \A s \in {"shelve", "drop"} : Undo("archive", s) = U2 /\ Undo("delete", s) = U2
  /\ \A s : s \notin {"shelve", "drop"} => Undo("archive", s) = <<>> /\ Undo("delete", s) = <<>>
  /\ \A s \in {"ask_in", "swap"} : Undo("restore", s) = S1
  /\ \A s : s \notin {"ask_in", "swap"} => Undo("restore", s) = <<>>
  /\ \A s \in {"ask_new", "swap"} : Undo("import", s) = J2
  /\ \A s \in {"mark", "save"} : Undo("import", s) = J1
<1>1. Undo("create", "store") = <<>> /\ \A s : s # "store" => Undo("create", s) = N1
  BY DEF Undo, N1
<1>2. \A s \in {"shelve", "drop"} : Undo("archive", s) = U2 /\ Undo("delete", s) = U2
  BY DEF Undo, U2
<1>3. \A s : s \notin {"shelve", "drop"} => Undo("archive", s) = <<>> /\ Undo("delete", s) = <<>>
  BY DEF Undo
<1>4. \A s \in {"ask_in", "swap"} : Undo("restore", s) = S1
  BY DEF Undo, S1
<1>5. \A s : s \notin {"ask_in", "swap"} => Undo("restore", s) = <<>>
  BY DEF Undo
<1>6. \A s \in {"ask_new", "swap"} : Undo("import", s) = J2
  BY DEF Undo, J2
<1>7. \A s \in {"mark", "save"} : Undo("import", s) = J1
  BY DEF Undo, J1
<1> QED BY <1>1, <1>2, <1>3, <1>4, <1>5, <1>6, <1>7

\* What a request in step owes at each of its steps.
LEMMA Owed ==
  ASSUME WorkTypes, NEW p \in Workers, todo[p] # <<>>, InStep(p)
  PROVE  LET s == Head(todo[p])  c == call[p]  t == Tail(todo[p])
         IN /\ db.derived = Active(db)
            /\ s \in {"store", "ask_new", "drop_new"} => Lacks(c.new)
            /\ s \in {"drop", "shelve", "ask_in"} => Lacks(c.ids)
            /\ s \in {"mark", "ask_out", "unshelve", "save", "raise"} => Lacks({})
            /\ s = "swap" => \/ t # <<>> /\ Head(t) = "mark" /\ Lacks(c.new)
                             \/ t # <<>> /\ Head(t) \in {"drop", "shelve"} /\ Lacks({})
                             \/ t = <<>> /\ Lacks(c.ids)
<1> DEFINE s == Head(todo[p])  c == call[p]  t == Tail(todo[p])
<1>1. \A S : Facing(p, S) = (s \in S)
  BY DEF Facing
<1>2. \A S : Then(p, S) = (t # <<>> /\ Head(t) \in S)
  BY DEF Then
<1>3. /\ s \in {"store", "ask_new", "swap", "mark", "ask_out", "drop", "drop_new", "back",
                "repair", "shelve", "unshelve", "ask_in", "save", "raise"}
      /\ Follows(s, t)
  BY StepFacts
<1>4. /\ s \in {"store", "ask_new", "drop_new"} => Lacks(c.new)
      /\ s \in {"drop", "shelve", "ask_in"} => Lacks(c.ids)
      /\ s \in {"mark", "ask_out", "unshelve", "save", "raise"} => Lacks({})
      /\ s \in {"back", "repair"} => db.derived = Active(db)
      /\ s = "swap" => Swapping(p)
  BY <1>1 DEF InStep
<1>5. ASSUME s = "swap"
      PROVE  \/ t # <<>> /\ Head(t) = "mark" /\ Lacks(c.new)
             \/ t # <<>> /\ Head(t) \in {"drop", "shelve"} /\ Lacks({})
             \/ t = <<>> /\ Lacks(c.ids)
  <2>1. t = <<>> \/ Head(t) \in {"mark", "drop", "shelve"}
    BY <1>3, <1>5 DEF Follows
  <2> QED BY <1>2, <1>4, <1>5, <2>1 DEF Swapping
<1>6. \A S : Lacks(S) => db.derived = Active(db)
  BY DEF Lacks
<1>7. db.derived = Active(db)
  BY <1>3, <1>4, <1>5, <1>6
<1> QED BY <1>4, <1>5, <1>7

\* A request whose step fails keeps in step, when nothing is torn.
LEMMA FailsInStep ==
  ASSUME TypeInv, Fresh, NEW p \in Workers, todo[p] # <<>>, Fails(p, Head(todo[p]), call[p]),
         InStep(p), torn' = {}, p = Import => Head(todo[p]) # "store",
         \/ db' = db
         \/ Head(todo[p]) = "shelve" /\ ~call[p].undo /\ db' = Shelved(db, call[p].ids)
  PROVE  /\ InStep(p)'
         /\ todo'[p] = <<>> => Lacks({})'
<1> DEFINE s == Head(todo[p])  c == call[p]  t == Tail(todo[p])
<1>1. /\ c \in Calls /\ index' = index
      /\ todo'[p] = IF c.undo THEN Raised(p) ELSE Undo(c.kind, s)
      /\ todo'[p] # <<>> => call'[p].ids = c.ids /\ call'[p].new = c.new
  BY FailsCall DEF SameCall, Fails
<1>2. /\ s \in {"store", "ask_new", "swap", "mark", "ask_out", "drop", "drop_new", "back",
                "repair", "shelve", "unshelve", "ask_in", "save", "raise"}
      /\ t = <<>> \/ t \in Lists(c.kind, c.undo)
      /\ Follows(s, t) /\ Belongs(c.kind, c.undo, s)
  BY StepFacts DEF TypeInv, Base, Types
<1>3. /\ c.undo \in BOOLEAN /\ c.kind \in Kinds(p) /\ c.kind \in AllKinds
      /\ todo[p] \in Lists(c.kind, c.undo)
  BY AtWork DEF TypeInv, Base, Types
<1>4. /\ db.derived = Active(db)
      /\ s \in {"store", "ask_new", "drop_new"} => Lacks(c.new)
      /\ s \in {"drop", "shelve", "ask_in"} => Lacks(c.ids)
      /\ s \in {"mark", "ask_out", "unshelve", "save", "raise"} => Lacks({})
      /\ s = "swap" => \/ t # <<>> /\ Head(t) = "mark" /\ Lacks(c.new)
                       \/ t # <<>> /\ Head(t) \in {"drop", "shelve"} /\ Lacks({})
                       \/ t = <<>> /\ Lacks(c.ids)
  BY Owed DEF TypeInv, Base, Types
<1>5. Sane(db) /\ c.ids \in SUBSET Ids /\ c.new \in SUBSET Ids
  BY <1>1 DEF TypeInv, Base, Types, StoreTypes, Calls
<1>6. \A S : db' = db /\ Lacks(S) => Lacks(S)'
  BY <1>1, LacksStays
<1>7. ASSUME Lacks({})', todo'[p] = <<>> PROVE InStep(p)' /\ Lacks({})'
  BY <1>7, Rests
<1>8. t # <<>> => Belongs(c.kind, c.undo, Head(t))
  BY <1>2, <1>3, Onward
<1>9. CASE c.undo = TRUE
  <2>1. db' = db
    BY <1>9
  <2>2. Consistent
    BY <1>9 DEF Fails, Tears
  <2>3. Lacks({})'
    BY <1>6, <2>1, <2>2, LacksNothing
  <2>4. todo'[p] = <<>> \/ todo'[p] = J1
    BY <1>1, <1>9, UndoFacts, TwoWorkers
  <2>5. J1 # <<>> /\ Head(J1) = "raise"
    BY Table
  <2>6. todo'[p] = J1 => Facing(p, {"mark", "ask_out", "save", "raise"})'
    BY <2>5 DEF Facing
  <2> QED BY <2>3, <2>4, <2>5, <2>6, Rests
<1>10. CASE c.undo = FALSE /\ c.kind = "edit"
  <2>1. s # "shelve"
    BY <1>2, <1>10 DEF Belongs
  <2>2. db'.derived = Active(db')
    BY <1>4, <2>1
  <2>3. todo'[p] = B2 /\ B2 # <<>> /\ Head(B2) = "back"
    <3>1. todo'[p] = Undo(c.kind, s)
      BY <1>1, <1>10
    <3>2. Undo(c.kind, s) = B2
      BY <1>10, UndoFacts
    <3>3. B2 # <<>> /\ Head(B2) = "back"
      BY Table
    <3> QED BY <3>1, <3>2, <3>3
  <2>4. Facing(p, {"back", "repair"})'
    BY <2>3 DEF Facing
  <2> QED BY <2>2, <2>3, <2>4, OweRepair
<1>11. CASE c.undo = FALSE /\ c.kind = "create"
  <2>1. s \in {"store", "ask_new", "swap"} /\ db' = db
    <3>1. s # "mark"
      BY <1>11 DEF Fails
    <3> QED BY <1>2, <1>11, <3>1 DEF Belongs
  <2>2. p = User
    BY <1>3, <1>11, TwoWorkers
  <2>3. CASE s = "store"
    <3>1. c.new = {}
      BY <2>2, <2>3 DEF Fresh, Facing
    <3>2. Lacks({})'
      BY <1>4, <1>6, <2>1, <2>3, <3>1
    <3>3. todo'[p] = <<>>
      BY <1>1, <1>11, <2>3, Undoing
    <3> QED BY <1>7, <3>2, <3>3
  <2>4. CASE s # "store"
    <3>1. Lacks(c.new)
      <4>1. t # <<>> => Head(t) \notin {"drop", "shelve"}
        BY <1>8, <1>11 DEF Belongs
      <4>2. s = "swap" => t # <<>>
        BY <1>3, <1>11, LastStep
      <4> QED BY <1>4, <2>1, <2>4, <4>1, <4>2
    <3>2. todo'[p] = N1 /\ N1 # <<>> /\ Head(N1) = "drop_new"
      <4>1. todo'[p] = Undo(c.kind, s)
        BY <1>1, <1>11
      <4>2. Undo(c.kind, s) = N1
        BY <1>11, <2>4, Undoing
      <4>3. N1 # <<>> /\ Head(N1) = "drop_new"
        BY Table
      <4> QED BY <4>1, <4>2, <4>3
    <3>3. Facing(p, {"store", "ask_new", "drop_new"})'
      BY <3>2 DEF Facing
    <3>4. Lacks(call[p].new)'
      BY <1>1, <2>1, <3>1, <3>2 DEF Lacks, Active
    <3> QED BY <3>2, <3>3, <3>4, OweNew
  <2> QED BY <2>3, <2>4
<1>12. CASE c.undo = FALSE /\ c.kind \in {"archive", "delete"}
  <2>1. s \in {"ask_out", "swap", "drop", "shelve"}
    <3>1. s # "ask_in"
      <4>1. todo[p] \in {S1, S2, S3, D1, D2, D3}
        BY <1>3, <1>12, ListsOf
      <4>2. /\ Head(S1) = "shelve" /\ Head(S2) = "swap" /\ Head(S3) = "ask_out"
            /\ Head(D1) = "drop" /\ Head(D2) = "swap" /\ Head(D3) = "ask_out"
        BY Table
      <4> QED BY <4>1, <4>2
    <3> QED BY <1>2, <1>12, <3>1 DEF Belongs
  <2>2. CASE s \in {"ask_out", "swap"}
    <3>1. Lacks({})
      <4>1. t # <<>> => Head(t) # "mark"
        BY <1>8, <1>12 DEF Belongs
      <4>2. s = "swap" => t # <<>>
        BY <1>3, <1>12, LastStep
      <4> QED BY <1>4, <2>2, <4>1, <4>2
    <3>2. Lacks({})'
      BY <1>6, <2>2, <3>1
    <3>3. todo'[p] = <<>>
      BY <1>1, <1>12, <2>2, Undoing
    <3> QED BY <1>7, <3>2, <3>3
  <2>3. CASE s \in {"drop", "shelve"}
    <3>1. todo'[p] = U2 /\ U2 # <<>> /\ Head(U2) = "ask_in"
      <4>1. todo'[p] = Undo(c.kind, s)
        BY <1>1, <1>12
      <4>2. Undo(c.kind, s) = U2
        BY <1>12, <2>3, Undoing
      <4>3. U2 # <<>> /\ Head(U2) = "ask_in"
        BY Table
      <4> QED BY <4>1, <4>2, <4>3
    <3>2. Facing(p, {"drop", "shelve", "ask_in"})'
      BY <3>1 DEF Facing
    <3>3. Lacks(c.ids) /\ call'[p].ids = c.ids
      BY <1>1, <1>4, <2>3, <3>1
    <3>4. Lacks(call[p].ids)'
      <4>1. CASE db' = db
        BY <1>1, <3>3, <4>1 DEF Lacks, Active
      <4>2. CASE db' = Shelved(db, c.ids)
        <5>1. Active(db') = Active(db) \ c.ids
          BY <1>5, <4>2, ActiveFacts
        <5>2. db'.derived = db.derived \ c.ids
          BY <1>5, <4>2, ShelvedFacts
        <5>3. (Active(db) \ c.ids) \ c.ids = Active(db) \ c.ids
          OBVIOUS
        <5> QED BY <1>1, <3>3, <5>1, <5>2, <5>3 DEF Lacks
      <4> QED BY <4>1, <4>2
    <3> QED BY <3>1, <3>2, <3>4, OweIds
  <2> QED BY <2>1, <2>2, <2>3
<1>13. CASE c.undo = FALSE /\ c.kind = "restore"
  <2>1. s \in {"unshelve", "ask_in", "swap"} /\ db' = db
    BY <1>2, <1>13 DEF Belongs
  <2>2. CASE s = "unshelve"
    <3>1. Lacks({})'
      BY <1>4, <1>6, <2>1, <2>2
    <3>2. todo'[p] = <<>>
      BY <1>1, <1>13, <2>2, Undoing
    <3> QED BY <1>7, <3>1, <3>2
  <2>3. CASE s \in {"ask_in", "swap"}
    <3>1. Lacks(c.ids)
      <4>1. t # <<>> => Head(t) \notin {"mark", "drop", "shelve"}
        BY <1>8, <1>13 DEF Belongs
      <4> QED BY <1>4, <2>3, <4>1
    <3>2. todo'[p] = S1 /\ S1 # <<>> /\ Head(S1) = "shelve"
      <4>1. todo'[p] = Undo(c.kind, s)
        BY <1>1, <1>13
      <4>2. Undo(c.kind, s) = S1
        BY <1>13, <2>3, Undoing
      <4>3. S1 # <<>> /\ Head(S1) = "shelve"
        BY Table
      <4> QED BY <4>1, <4>2, <4>3
    <3>3. Facing(p, {"drop", "shelve", "ask_in"})'
      BY <3>2 DEF Facing
    <3>4. Lacks(call[p].ids)'
      BY <1>1, <2>1, <3>1, <3>2 DEF Lacks, Active
    <3> QED BY <3>2, <3>3, <3>4, OweIds
  <2> QED BY <2>1, <2>2, <2>3
<1>14. CASE c.undo = FALSE /\ c.kind = "import"
  <2>1. p = Import
    <3>1. "import" \notin UserKinds
      BY DEF UserKinds
    <3> QED BY <1>3, <1>14, <3>1, TwoWorkers
  <2>2. s \in {"ask_new", "swap", "mark", "save"} /\ db' = db
    BY <1>2, <1>14, <2>1 DEF Belongs
  <2>3. CASE s \in {"ask_new", "swap"}
    <3>1. Lacks(c.new)
      <4>1. t # <<>> => Head(t) \notin {"drop", "shelve"}
        BY <1>8, <1>14 DEF Belongs
      <4>2. s = "swap" => t # <<>>
        BY <1>3, <1>14, EndsWith
      <4> QED BY <1>4, <2>3, <4>1, <4>2
    <3>2. todo'[p] = J2 /\ J2 # <<>> /\ Head(J2) = "drop_new"
      <4>1. todo'[p] = Undo(c.kind, s)
        BY <1>1, <1>14
      <4>2. Undo(c.kind, s) = J2
        BY <1>14, <2>3, Undoing
      <4>3. J2 # <<>> /\ Head(J2) = "drop_new"
        BY Table
      <4> QED BY <4>1, <4>2, <4>3
    <3>3. Facing(p, {"store", "ask_new", "drop_new"})'
      BY <3>2 DEF Facing
    <3>4. Lacks(call[p].new)'
      BY <1>1, <2>2, <3>1, <3>2 DEF Lacks, Active
    <3> QED BY <3>2, <3>3, <3>4, OweNew
  <2>4. CASE s \in {"mark", "save"}
    <3>1. Lacks({})'
      BY <1>4, <1>6, <2>2, <2>4
    <3>2. todo'[p] = J1 /\ J1 # <<>> /\ Head(J1) = "raise"
      <4>1. todo'[p] = Undo(c.kind, s)
        BY <1>1, <1>14
      <4>2. Undo(c.kind, s) = J1
        BY <1>14, <2>4, Undoing
      <4>3. J1 # <<>> /\ Head(J1) = "raise"
        BY Table
      <4> QED BY <4>1, <4>2, <4>3
    <3>3. Facing(p, {"mark", "ask_out", "save", "raise"})'
      BY <3>2 DEF Facing
    <3> QED BY <3>1, <3>2, <3>3, Rests
  <2> QED BY <2>2, <2>3, <2>4
<1> QED BY <1>3, <1>9, <1>10, <1>11, <1>12, <1>13, <1>14 DEF AllKinds, UserKinds

\* A request's own step, when the import has nothing half done.
LEMMA UserTuned ==
  ASSUME Tuned, up' = up, rebuild' = rebuild, rebuild.stage \notin Barrier,
         todo'[Import] = todo[Import], call'[Import] = call[Import],
         torn' = {} => torn = {} /\ Untouched,
         torn' = {} /\ Trusted => IF todo'[User] = <<>> THEN Lacks({})' ELSE InStep(User)'
  PROVE  Tuned'
<1>1. SUFFICES ASSUME torn' = {}
               PROVE  /\ Untouched' /\ Barriers'
                      /\ Trusted' => IF todo'[User] = <<>> THEN InStep(Import)' ELSE InStep(User)'
  BY DEF Tuned
<1>2. Untouched'
  BY <1>1 DEF Untouched, Facing
<1>3. Barriers'
  BY DEF Barriers, Barrier
<1>4. Trusted' => Trusted
  BY <1>1 DEF Trusted
<1>5. ASSUME Trusted', todo'[User] = <<>> PROVE InStep(Import)'
  BY <1>1, <1>2, <1>4, <1>5, UntouchedRests
<1>6. ASSUME Trusted', todo'[User] # <<>> PROVE InStep(User)'
  BY <1>1, <1>4, <1>6
<1> QED BY <1>2, <1>3, <1>5, <1>6

\* A step of the import that falls beside nothing.
LEMMA ImportTuned ==
  ASSUME up' = up, rebuild' = rebuild, todo'[User] = todo[User], call'[User] = call[User],
         torn' = {} => torn = {} /\ todo[User] = <<>> /\ rebuild.stage = "off",
         torn' = {} /\ Trusted => InStep(Import)'
  PROVE  Tuned'
<1>1. SUFFICES ASSUME torn' = {}
               PROVE  /\ todo'[User] = <<>> /\ rebuild'.stage = "off" /\ Barriers'
                      /\ Trusted' => InStep(Import)'
  BY DEF Tuned
<1>2. todo'[User] = <<>> /\ rebuild'.stage = "off"
  BY <1>1
<1>3. Barriers'
  BY <1>2 DEF Barriers
<1>4. Trusted' => Trusted
  BY <1>1 DEF Trusted
<1> QED BY <1>1, <1>2, <1>3, <1>4

\* Database, index and requests stay as they are.
LEMMA StillTuned ==
  ASSUME Tuned, db' = db, index' = index, todo' = todo, call' = call,
         torn' = {} => torn = {} /\ Barriers',
         torn' = {} /\ rebuild'.stage # "off" => rebuild.stage # "off" \/ todo[Import] = <<>>,
         Trusted' => Trusted
  PROVE  Tuned'
<1>1. SUFFICES ASSUME torn' = {}
               PROVE  /\ todo'[User] # <<>> \/ rebuild'.stage # "off" => Untouched'
                      /\ Barriers'
                      /\ Trusted' => IF todo'[User] = <<>> THEN InStep(Import)' ELSE InStep(User)'
  BY DEF Tuned
<1>2. todo'[User] # <<>> \/ rebuild'.stage # "off" => Untouched
  BY <1>1 DEF Tuned, Untouched
<1>3. Untouched' = Untouched
  BY DEF Untouched, Facing
<1>4. ASSUME Trusted' PROVE IF todo'[User] = <<>> THEN InStep(Import)' ELSE InStep(User)'
  <2>1. IF todo[User] = <<>> THEN InStep(Import) ELSE InStep(User)
    BY <1>1, <1>4 DEF Tuned
  <2> QED BY <2>1, InStepStays, TwoWorkers
<1> QED BY <1>1, <1>2, <1>3, <1>4

\* A stage behind the barrier.
LEMMA BarredTuned ==
  ASSUME todo' = todo, call' = call, rebuild'.stage \in Barrier,
         torn' = {} => Untouched /\ Barriers'
  PROVE  Tuned'
<1>1. rebuild'.stage # "off"
  BY DEF Barrier
<1>2. ~Trusted'
  BY <1>1 DEF Trusted
<1>3. Untouched' = Untouched
  BY DEF Untouched, Facing
<1> QED BY <1>2, <1>3 DEF Tuned

\* Nothing is trusted at first: the store is not loaded.
LEMMA TunedInit ==
  ASSUME Init
  PROVE  Tuned
<1>1. /\ todo[User] = <<>> /\ todo[Import] = <<>> /\ ~up /\ rebuild.stage = "off"
  BY OffStage, TwoWorkers DEF Init
<1> QED BY <1>1 DEF Tuned, Trusted, Barriers

\* Between requests and rebuilds the import has nothing half done.
LEMMA Alone ==
  ASSUME Tuned, torn = {}, todo[Import] # <<>>, Head(todo[Import]) # "store"
  PROVE  todo[User] = <<>> /\ rebuild.stage = "off"
BY DEF Tuned, Untouched, Facing

\* A request that begins keeps index and database in step, or says that it tore them.
LEMMA TunedRequest ==
  ASSUME TypeInv, Tuned, NEW k \in UserKinds, NEW S \in SUBSET Ids, Request(k, S)
  PROVE  Tuned'
<1>1. /\ todo[User] = <<>> /\ todo'[User] = Plan(k)
      /\ call'[User].ids = S /\ call'[User].new = {}
      /\ todo'[Import] = todo[Import] /\ call'[Import] = call[Import] /\ db' = db
  BY RequestCall
<1>2. /\ up' = up /\ rebuild' = rebuild /\ index' = index /\ ~Locked
      /\ torn' = IF todo[Import] = <<>> THEN torn ELSE torn \cup {"import"}
      /\ k = "restore" => S \subseteq db.archived
  BY DEF Request, data
<1>3. rebuild.stage \notin Barrier
  BY <1>2 DEF Locked
<1>4. torn' = {} => torn = {} /\ todo[Import] = <<>>
  BY <1>2
<1>5. torn' = {} => Untouched
  BY <1>4 DEF Untouched
<1>6. ASSUME torn' = {}, Trusted PROVE Plan(k) # <<>> /\ InStep(User)'
  <2>1. InStep(Import) /\ todo[Import] = <<>>
    BY <1>1, <1>4, <1>6 DEF Tuned
  <2>2. Lacks({})
    BY <2>1 DEF InStep
  <2>3. Lacks({})'
    BY <1>1, <1>2, <2>2, LacksStays
  <2>4. Plan(k) # <<>> /\ \/ Head(Plan(k)) \in {"store", "ask_out"}
                          \/ Head(Plan(k)) = "unshelve" /\ k = "restore"
    <3>1. Plan("create") = C4 /\ Plan("edit") = E7 /\ Plan("archive") = S3 /\ Plan("delete") = D3
          /\ Plan("restore") = U3
      BY DEF Plan, C4, E7, S3, D3, U3
    <3>2. /\ C4 # <<>> /\ Head(C4) = "store" /\ E7 # <<>> /\ Head(E7) = "store"
          /\ S3 # <<>> /\ Head(S3) = "ask_out" /\ D3 # <<>> /\ Head(D3) = "ask_out"
          /\ U3 # <<>> /\ Head(U3) = "unshelve"
      BY Table
    <3> QED BY <3>1, <3>2 DEF UserKinds
  <2>5. \/ Facing(User, {"store", "ask_new", "drop_new"})' /\ call'[User].new = {}
        \/ Facing(User, {"mark", "ask_out", "save", "raise"})'
        \/ Facing(User, {"unshelve"})' /\ call'[User].ids \subseteq db'.archived
    BY <1>1, <1>2, <2>4 DEF Facing
  <2> QED BY <2>3, <2>4, <2>5, Rests, TwoWorkers
<1> QED BY <1>1, <1>2, <1>3, <1>4, <1>5, <1>6, UserTuned

\* A step of a request keeps index and database in step, or says that it tore them.
LEMMA TunedStepUser ==
  ASSUME TypeInv, Tuned, Step(User)
  PROVE  Tuned'
<1>1. /\ todo[User] # <<>> /\ todo'[Import] = todo[Import] /\ call'[Import] = call[Import]
  BY StepCall, TwoWorkers
<1>2. up' = up /\ rebuild' = rebuild /\ torn' = torn
  BY TwoWorkers DEF Step
<1>3. rebuild.stage \notin Barrier
  BY <1>1 DEF TypeInv, Base, Order
<1>4. torn' = {} => torn = {} /\ Untouched
  BY <1>1, <1>2 DEF Tuned
<1>5. torn' = {} /\ Trusted => InStep(User)
  BY <1>1, <1>2 DEF Tuned
<1>6. torn' = {} /\ Trusted => InStep(User)' /\ (todo'[User] = <<>> => Lacks({})')
  BY <1>5, StepInStep, TwoWorkers
<1> QED BY <1>1, <1>2, <1>3, <1>4, <1>6, UserTuned

\* A step of the import keeps index and database in step, or says that it tore them.
LEMMA TunedStepImport ==
  ASSUME TypeInv, Tuned, Step(Import)
  PROVE  Tuned'
<1>1. /\ todo[Import] # <<>> /\ todo'[User] = todo[User] /\ call'[User] = call[User]
  BY StepCall, TwoWorkers
<1>2. up' = up /\ rebuild' = rebuild /\ torn' = Beside
  BY DEF Step
<1>3. torn' = {} => torn = {} /\ todo[User] = <<>> /\ rebuild.stage = "off"
  BY <1>2 DEF Beside, Locked
<1>4. torn' = {} /\ Trusted => InStep(Import)
  BY <1>3 DEF Tuned
<1>5. torn' = {} /\ Trusted => InStep(Import)'
  BY <1>4, StepInStep, TwoWorkers
<1> QED BY <1>1, <1>2, <1>3, <1>5, ImportTuned

\* The insertion of the user's row keeps index and database in step, or says that it
\* tore them.
LEMMA TunedStore ==
  ASSUME TypeInv, Fresh, Tuned, Store
  PROVE  Tuned'
<1> DEFINE c == call[User]  b == c.ids \cap db.archived # {}
<1>1. /\ Facing(User, {"store"}) /\ todo[User] # <<>> /\ todo'[User] = Tail(todo[User])
      /\ Tail(todo[User]) # <<>> /\ Head(todo'[User]) = "ask_new"
      /\ call'[User].new = {db.next} /\ db.next \in Ids
      /\ todo'[Import] = todo[Import] /\ call'[Import] = call[Import]
  BY StoreCall
<1>2. up' = up /\ rebuild' = rebuild /\ torn' = torn /\ index' = index /\ db' = Stored(db, db.next, b)
  BY DEF Store
<1>3. rebuild.stage \notin Barrier
  BY <1>1 DEF TypeInv, Base, Order
<1>4. torn' = {} => torn = {} /\ Untouched
  BY <1>1, <1>2 DEF Tuned
<1>5. ASSUME torn' = {}, Trusted PROVE InStep(User)'
  <2>1. Lacks(c.new) /\ c.new = {}
    <3>1. InStep(User)
      BY <1>1, <1>2, <1>5 DEF Tuned
    <3>2. Lacks(c.new)
      BY <1>1, <3>1 DEF InStep, Facing
    <3> QED BY <1>1, <3>2 DEF Fresh
  <2>2. Sane(db) /\ b \in BOOLEAN
    BY DEF TypeInv, Base, Types, StoreTypes
  <2>3. /\ Active(db') = IF b THEN Active(db) ELSE Active(db) \cup {db.next}
        /\ db.next \notin Active(db)
    BY <1>1, <1>2, <2>2, ActiveStored
  <2>4. db'.derived = IF b THEN db.derived ELSE db.derived \cup {db.next}
    BY <1>1, <1>2, <2>2, StoredFacts
  <2>5. db'.derived = Active(db')
    BY <2>1, <2>3, <2>4 DEF Lacks
  <2>6. Active(db') \ {db.next} = Active(db)
    BY <2>3
  <2>7. index' = [docs |-> Active(db), graph |-> Active(db)]
    BY <1>2, <2>1 DEF Lacks
  <2>8. Lacks(call[User].new)'
    BY <1>1, <2>5, <2>6, <2>7 DEF Lacks
  <2>9. Facing(User, {"store", "ask_new", "drop_new"})'
    BY <1>1 DEF Facing
  <2> QED BY <2>8, <2>9, OweNew, TwoWorkers
<1> QED BY <1>1, <1>2, <1>3, <1>4, <1>5, UserTuned

\* A step that fails keeps index and database in step, or says that it tore them.
LEMMA TunedFails ==
  ASSUME TypeInv, Fresh, Tuned, NEW p \in Workers, todo[p] # <<>>,
         Fails(p, Head(todo[p]), call[p]), p = Import => Head(todo[p]) # "store",
         \/ db' = db
         \/ Head(todo[p]) = "shelve" /\ ~call[p].undo /\ db' = Shelved(db, call[p].ids)
  PROVE  Tuned'
<1>1. \A q \in Workers \ {p} : todo'[q] = todo[q] /\ call'[q] = call[q]
  BY FailsCall
<1>2. up' = up /\ rebuild' = rebuild
  BY DEF Fails, disk
<1>3. torn' = {} => torn = {}
  BY DEF Fails, Tears
<1>4. ASSUME torn' = {}, InStep(p) PROVE InStep(p)' /\ (todo'[p] = <<>> => Lacks({})')
  BY <1>4, FailsInStep
<1>5. CASE p = User
  <2>1. todo'[Import] = todo[Import] /\ call'[Import] = call[Import]
    BY <1>1, <1>5, TwoWorkers
  <2>2. rebuild.stage \notin Barrier
    BY <1>5 DEF TypeInv, Base, Order
  <2>3. torn' = {} => torn = {} /\ Untouched
    BY <1>3, <1>5 DEF Tuned
  <2>4. torn' = {} /\ Trusted => InStep(User)
    BY <1>3, <1>5 DEF Tuned
  <2>5. torn' = {} /\ Trusted => IF todo'[User] = <<>> THEN Lacks({})' ELSE InStep(User)'
    BY <1>4, <1>5, <2>4
  <2> QED BY <1>2, <2>1, <2>2, <2>3, <2>5, UserTuned
<1>6. CASE p = Import
  <2>1. todo'[User] = todo[User] /\ call'[User] = call[User]
    BY <1>1, <1>6, TwoWorkers
  <2>2. torn' = {} => torn = {} /\ todo[User] = <<>> /\ rebuild.stage = "off"
    BY <1>3, <1>6, Alone
  <2>3. torn' = {} /\ Trusted => InStep(Import)
    BY <2>2 DEF Tuned
  <2>4. torn' = {} /\ Trusted => InStep(Import)'
    BY <1>4, <1>6, <2>3
  <2> QED BY <1>2, <2>1, <2>2, <2>4, ImportTuned
<1> QED BY <1>5, <1>6, TwoWorkers

\* A change that is refused keeps index and database in step, or says that it tore them.
LEMMA TunedRefuse ==
  ASSUME TypeInv, Fresh, Tuned, NEW p \in Workers, Refuse(p) \/ Fault(p)
  PROVE  Tuned'
<1>1. todo[p] # <<>> /\ Fails(p, Head(todo[p]), call[p])
  BY FailsRows
<1>2. p = Import => Head(todo[p]) # "store"
  BY DEF Refuse, Fault, Missed
<1>3. \/ db' = db
      \/ Head(todo[p]) = "shelve" /\ ~call[p].undo /\ db' = Shelved(db, call[p].ids)
  BY DEF Refuse, Fault, Missed
<1> QED BY <1>1, <1>2, <1>3, TunedFails

\* A cancelled request keeps index and database in step, or says that it tore them.
LEMMA TunedCancel ==
  ASSUME TypeInv, Fresh, Tuned, Cancel
  PROVE  Tuned'
<1>1. todo[User] # <<>> /\ db' = db
  BY CancelCall
<1>2. CASE Fails(User, Head(todo[User]), call[User])
  BY <1>1, <1>2, TunedFails, TwoWorkers
<1>3. CASE call[User].kind # "edit"
  <2>1. /\ Tears("fault") /\ up' = up /\ rebuild' = rebuild /\ index' = index
    BY <1>3 DEF Cancel, data
  <2>2. todo'[User] = <<>> /\ todo'[Import] = todo[Import] /\ call'[Import] = call[Import]
    <3>1. Continue(User, <<>>, Idle)
      BY <1>3 DEF Cancel
    <3> QED BY <3>1, Continued, TwoWorkers DEF TypeInv, Base, Types
  <2>3. rebuild.stage \notin Barrier
    BY <1>1 DEF TypeInv, Base, Order
  <2>4. torn' = {} => torn = {} /\ Consistent
    BY <2>1 DEF Tears
  <2>5. torn' = {} => torn = {} /\ Untouched
    BY <1>1, <2>4 DEF Tuned
  <2>6. torn' = {} => Lacks({})'
    BY <1>1, <2>1, <2>4, LacksNothing, LacksStays
  <2> QED BY <2>1, <2>2, <2>3, <2>5, <2>6, UserTuned
<1>4. call[User].kind = "edit" => Fails(User, Head(todo[User]), call[User])
  BY DEF Cancel
<1> QED BY <1>2, <1>3, <1>4

\* An import that begins or goes on keeps index and database in step, or says that it
\* tore them.
LEMMA TunedImportBegin ==
  ASSUME TypeInv, Tuned, ImportBegin
  PROVE  Tuned'
<1>1. /\ todo[Import] = <<>> /\ todo'[Import] = Plan("import") /\ call'[Import].new = {}
      /\ todo'[User] = todo[User] /\ call'[User] = call[User] /\ db' = db
  BY ImportBeginCall
<1>2. /\ up' = up /\ rebuild' = rebuild /\ torn' = torn /\ index' = index /\ shadow' = shadow
  BY DEF ImportBegin, data, disk
<1>3. Plan("import") # <<>> /\ Head(Plan("import")) = "store"
  <2>1. Plan("import") = I5
    BY DEF Plan, I5
  <2> QED BY <2>1, Table
<1>4. Facing(Import, {"store"})' /\ Facing(Import, {"store", "ask_new", "drop_new"})'
  BY <1>1, <1>3 DEF Facing
<1>5. Untouched'
  BY <1>1, <1>4 DEF Untouched
<1>6. Trusted' = Trusted
  BY <1>2 DEF Trusted
<1>7. torn = {} /\ Barriers => Barriers'
  BY <1>1, <1>2 DEF Barriers, Mine, Lacks, Active, Expected, Graph
<1>8. ASSUME torn = {}, Trusted PROVE IF todo'[User] = <<>> THEN InStep(Import)' ELSE InStep(User)'
  <2>1. CASE todo[User] = <<>>
    <3>1. Lacks({})
      BY <1>1, <1>8, <2>1 DEF Tuned, InStep
    <3>2. Lacks({})'
      BY <1>1, <1>2, <3>1, LacksStays
    <3> QED BY <1>1, <1>4, <2>1, <3>2, Rests, TwoWorkers
  <2>2. CASE todo[User] # <<>>
    <3>1. InStep(User)
      BY <1>8, <2>2 DEF Tuned
    <3> QED BY <1>1, <1>2, <2>2, <3>1, InStepStays, TwoWorkers
  <2> QED BY <2>1, <2>2
<1> QED BY <1>2, <1>5, <1>6, <1>7, <1>8 DEF Tuned

\* A record of the import keeps index and database in step, or says that it tore them.
LEMMA TunedImportStore ==
  ASSUME TypeInv, Fresh, Tuned, ImportStore
  PROVE  Tuned'
<1> DEFINE c == call[Import]  n == db.next
<1>1. /\ todo[Import] # <<>> /\ Head(todo[Import]) = "store" /\ todo'[Import] # <<>>
      /\ todo'[User] = todo[User] /\ call'[User] = call[User]
  BY ImportStoreCall
<1>2. up' = up /\ rebuild' = rebuild /\ torn' = Beside /\ index' = index
  BY DEF ImportStore, disk
<1>3. torn' = {} => torn = {} /\ todo[User] = <<>> /\ rebuild.stage = "off"
  BY <1>2 DEF Beside, Locked
<1>4. ASSUME torn' = {}, Trusted PROVE InStep(Import)'
  <2>1. Lacks(c.new)
    <3>1. InStep(Import)
      BY <1>3, <1>4 DEF Tuned
    <3> QED BY <1>1, <3>1 DEF InStep, Facing
  <2>2. CASE /\ c.left # <<>> /\ ImportRecord(Head(c.left)) /\ todo' = todo
    <3>1. Facing(Import, {"store", "ask_new", "drop_new"})'
      BY <1>1, <2>2 DEF Facing
    <3>2. CASE db' = db /\ call'[Import].new = c.new
      <4>1. Lacks(call[Import].new)'
        BY <1>2, <2>1, <3>2 DEF Lacks, Active
      <4> QED BY <3>1, <4>1, OweNew, TwoWorkers
    <3>3. CASE /\ n \in Ids /\ db' = Stored(db, n, FALSE)
               /\ call'[Import].new = c.new \cup {n}
      <4>1. Sane(db) /\ FALSE \in BOOLEAN
        BY DEF TypeInv, Base, Types, StoreTypes
      <4>2. Active(db') = Active(db) \cup {n} /\ n \notin Active(db)
        BY <3>3, <4>1, ActiveStored
      <4>3. db'.derived = db.derived \cup {n}
        BY <3>3, <4>1, StoredFacts
      <4>4. db'.derived = Active(db')
        BY <2>1, <4>2, <4>3 DEF Lacks
      <4>5. Active(db') \ (c.new \cup {n}) = Active(db) \ c.new
        BY <4>2
      <4>6. Lacks(call[Import].new)'
        BY <1>2, <2>1, <3>3, <4>4, <4>5 DEF Lacks
      <4> QED BY <3>1, <4>6, OweNew, TwoWorkers
    <3> QED BY <2>2, <3>2, <3>3, RecordEffect
  <2>3. CASE /\ db' = db /\ call'[Import] = c /\ Head(todo'[Import]) \in {"ask_new", "save"}
             /\ Head(todo'[Import]) = "save" => c.new = {}
    <3>1. Lacks(call[Import].new)'
      BY <1>2, <2>1, <2>3 DEF Lacks, Active
    <3>2. CASE Head(todo'[Import]) = "ask_new"
      <4>1. Facing(Import, {"store", "ask_new", "drop_new"})'
        BY <1>1, <3>2 DEF Facing
      <4> QED BY <3>1, <4>1, OweNew, TwoWorkers
    <3>3. CASE Head(todo'[Import]) = "save"
      <4>1. Lacks({})'
        BY <1>2, <2>1, <2>3, <3>3 DEF Lacks, Active
      <4>2. Facing(Import, {"mark", "ask_out", "save", "raise"})'
        BY <1>1, <3>3 DEF Facing
      <4> QED BY <4>1, <4>2, Rests, TwoWorkers
    <3> QED BY <2>3, <3>2, <3>3
  <2> QED BY <2>2, <2>3, ImportStoreCall
<1> QED BY <1>1, <1>2, <1>3, <1>4, ImportTuned

\* The import between two batches, or at its end.
LEMMA TunedImportSave ==
  ASSUME TypeInv, Tuned, ImportSave \/ ImportRaise
  PROVE  Tuned'
<1>1. /\ todo[Import] # <<>> /\ Head(todo[Import]) \in {"save", "raise"}
      /\ todo'[User] = todo[User] /\ call'[User] = call[User]
      /\ todo'[Import] = <<>> \/ (todo'[Import] = Plan("import") /\ call'[Import].new = {})
      /\ db' = db
  <2>1. J1 # <<>> /\ Head(J1) = "raise"
    BY Table
  <2>2. CASE ImportRaise
    <3>1. todo[Import] = J1
      BY <2>2 DEF ImportRaise, J1
    <3> QED BY <2>1, <2>2, <3>1, ImportRaiseCall
  <2>3. CASE ImportSave
    BY <2>3, ImportSaveCall
  <2> QED BY <2>2, <2>3
<1>2. up' = up /\ rebuild' = rebuild /\ torn' = torn /\ index' = index
  BY DEF ImportSave, ImportRaise, data
<1>3. torn' = {} => torn = {} /\ todo[User] = <<>> /\ rebuild.stage = "off"
  BY <1>1, <1>2, Alone
<1>4. ASSUME torn' = {}, Trusted PROVE InStep(Import)'
  <2>1. InStep(Import)
    BY <1>3, <1>4 DEF Tuned
  <2>2. Lacks({})
    BY <1>1, <2>1 DEF InStep, Facing
  <2>3. Lacks({})'
    BY <1>1, <1>2, <2>2, LacksStays
  <2>4. Plan("import") # <<>> /\ Head(Plan("import")) = "store"
    <3>1. Plan("import") = I5
      BY DEF Plan, I5
    <3> QED BY <3>1, Table
  <2>5. \/ todo'[Import] = <<>>
        \/ Facing(Import, {"store", "ask_new", "drop_new"})' /\ call'[Import].new = {}
    BY <1>1, <2>4 DEF Facing
  <2> QED BY <2>3, <2>5, Rests, TwoWorkers
<1> QED BY <1>1, <1>2, <1>3, <1>4, ImportTuned

\* A rebuild task that begins keeps index and database in step, or says that it tore
\* them.
LEMMA TunedRebuildBegin ==
  ASSUME TypeInv, Tuned, RebuildBegin
  PROVE  Tuned'
<1>1. /\ up' = up /\ todo' = todo /\ call' = call /\ db' = db /\ index' = index
      /\ torn' = IF rebuild.stage = "off" THEN torn ELSE torn \cup {"fault"}
      /\ rebuild' = [kind |-> "task", stage |-> "copy", derived |-> {}]
      /\ todo[Import] = <<>>
  BY DEF RebuildBegin, data, TaskIdle
<1>2. rebuild'.stage = "copy"
  BY <1>1
<1>3. torn' = {} => torn = {} /\ rebuild.stage = "off"
  BY <1>1
<1>4. Barriers'
  BY <1>2 DEF Barriers
<1>5. Trusted' => Trusted
  BY <1>1, <1>3 DEF Trusted
<1> QED BY <1>1, <1>3, <1>4, <1>5, StillTuned

\* The startup check finds nothing, or begins a rebuild.
LEMMA TunedReason ==
  ASSUME TypeInv, Tuned, Reason
  PROVE  Tuned'
<1>1. /\ rebuild.stage = "reason" /\ rebuild.kind = "check"
      /\ up' = up /\ todo' = todo /\ call' = call /\ db' = db /\ index' = index
      /\ IF Differs THEN At("copy") ELSE Ends
  BY DEF Reason, data, TypeInv, Base, Order
<1>2. SUFFICES ASSUME torn' = {}
               PROVE  Tuned'
  BY DEF Tuned
<1>3. todo[Import] = <<>> /\ (~Differs /\ todo[User] # <<>> => FALSE)
  <2>1. torn' = IF todo[Import] # <<>> THEN torn \cup {"import"}
                ELSE IF Differs THEN torn
                ELSE IF todo[User] = <<>> THEN {} ELSE torn \cup {"check"}
    BY DEF Reason
  <2> QED BY <1>2, <2>1
<1>4. CASE Differs
  <2>1. rebuild'.stage = "copy" /\ rebuild'.kind = "check"
    BY <1>1, <1>4, AtStage DEF TypeInv, Base, Types
  <2>2. torn = {}
    <3>1. torn' = torn
      BY <1>3, <1>4 DEF Reason
    <3> QED BY <1>2, <3>1
  <2>3. Barriers'
    BY <2>1 DEF Barriers
  <2>4. ~Trusted'
    BY <2>1 DEF Trusted
  <2> QED BY <1>1, <1>3, <2>2, <2>3, <2>4, StillTuned
<1>5. CASE ~Differs
  <2>1. rebuild' = Off /\ todo[User] = <<>>
    BY <1>1, <1>3, <1>5 DEF Ends
  <2>2. rebuild'.stage = "off"
    BY <2>1, OffStage
  <2>3. Lacks({})
    BY <1>5, LacksNothing DEF Differs
  <2>4. Lacks({})'
    BY <1>1, <2>3, LacksStays
  <2>5. InStep(Import)'
    BY <1>1, <1>3, <2>4, Rests, TwoWorkers
  <2>6. Barriers'
    BY <2>2 DEF Barriers
  <2> QED BY <1>1, <2>1, <2>2, <2>5, <2>6 DEF Tuned
<1> QED BY <1>4, <1>5

\* A stage before the barrier keeps index and database in step, or says that it tore
\* them.
LEMMA TunedStages ==
  ASSUME TypeInv, Tuned, Copy \/ Build \/ Replay \/ Interrupt
  PROVE  Tuned'
<1>1. /\ up' = up /\ todo' = todo /\ call' = call /\ db' = db /\ index' = index /\ torn' = torn
      /\ rebuild.stage \in {"copy", "build", "replay"}
  BY DEF Copy, Build, Replay, Interrupt, data, disk
<1>2. \/ rebuild'.stage \in {"build", "replay", "wait"} /\ rebuild'.kind = rebuild.kind
      \/ rebuild'.stage = "off" /\ rebuild.kind = "task"
  <2>1. CASE Copy
    <3>1. At("build")
      BY <2>1 DEF Copy
    <3> QED BY <3>1, AtStage DEF TypeInv, Base, Types
  <2>2. CASE Build
    <3>1. At("replay")
      BY <2>2 DEF Build
    <3> QED BY <3>1, AtStage DEF TypeInv, Base, Types
  <2>3. CASE Replay
    <3>1. At("wait")
      BY <2>3 DEF Replay
    <3> QED BY <3>1, AtStage DEF TypeInv, Base, Types
  <2>4. CASE Interrupt
    BY <2>4, OffStage DEF Interrupt, Ends
  <2> QED BY <2>1, <2>2, <2>3, <2>4
<1>3. Barriers'
  BY <1>2 DEF Barriers
<1>4. Trusted' => Trusted
  BY <1>1, <1>2 DEF Trusted, Barrier
<1> QED BY <1>1, <1>3, <1>4, StillTuned

\* The barrier closes on a copy that has what the database has.
LEMMA TunedCloseBarrier ==
  ASSUME TypeInv, Tuned, CloseBarrier
  PROVE  Tuned'
<1>1. /\ rebuild.stage = "wait" /\ todo' = todo /\ call' = call /\ db' = db /\ torn' = torn
      /\ shadow' = Replayed
  BY DEF CloseBarrier, data
<1>2. rebuild'.stage = "swap" /\ rebuild'.kind = rebuild.kind
  BY BarrierFacts DEF TypeInv, Base, Types
<1>3. /\ Replayed[rebuild.kind].db.derived = Active(db)
      /\ Replayed[rebuild.kind].index = [docs |-> Active(db), graph |-> Active(db)]
  BY <1>1, ReplayedFacts DEF TypeInv, Base, Types, Working
<1>4. Mine'.db.derived = Active(db') /\ Mine'.index = [docs |-> Active(db'), graph |-> Active(db')]
  BY <1>1, <1>2, <1>3 DEF Mine
<1>5. Barriers'
  BY <1>2, <1>4 DEF Barriers
<1>6. torn = {} => Untouched
  BY <1>1 DEF Tuned
<1> QED BY <1>1, <1>2, <1>5, <1>6, BarredTuned DEF Barrier

\* The swap of the derivatives keeps index and database in step, or says that it tore
\* them.
LEMMA TunedSwap ==
  ASSUME TypeInv, Tuned, SwapDerivatives
  PROVE  Tuned'
<1>1. /\ rebuild.stage = "swap" /\ todo' = todo /\ call' = call /\ torn' = torn
      /\ shadow' = shadow /\ db' = [db EXCEPT !.derived = Mine.db.derived] /\ At("journal")
  BY DEF SwapDerivatives, disk
<1>2. rebuild'.stage = "journal" /\ rebuild'.kind = rebuild.kind
  BY <1>1, AtStage DEF TypeInv, Base, Types
<1>3. torn = {} => Untouched /\ Barriers
  BY <1>1 DEF Tuned
<1>4. ASSUME torn = {} PROVE Barriers'
  <2>1. /\ Mine.db.derived = Active(db)
        /\ Mine.index = [docs |-> Active(db), graph |-> Active(db)]
    BY <1>1, <1>3, <1>4 DEF Barriers
  <2>2. Active(db) \in SUBSET Ids /\ Sane(db)
    BY DEF TypeInv, Base, Types, StoreTypes, Sane, Databases, Active
  <2>3. db'.rows = db.rows /\ db'.archived = db.archived /\ db'.derived = Active(db)
    BY <1>1, <2>1, <2>2, DerivedSane
  <2>4. Active(db') = Active(db)
    BY <2>3 DEF Active
  <2>5. Expected(db') = [docs |-> Active(db), graph |-> Active(db)]
    BY <2>3, <2>4 DEF Expected, Graph
  <2>6. Mine' = Mine
    BY <1>1, <1>2 DEF Mine
  <2> QED BY <1>2, <2>1, <2>3, <2>4, <2>5, <2>6 DEF Barriers
<1> QED BY <1>1, <1>2, <1>3, <1>4, BarredTuned DEF Barrier

\* The journal entry of the activation keeps index and database in step, or says that it
\* tore them.
LEMMA TunedNote ==
  ASSUME TypeInv, Tuned, Note
  PROVE  Tuned'
<1>1. /\ rebuild.stage = "journal" /\ todo' = todo /\ call' = call /\ torn' = torn
      /\ shadow' = shadow /\ db' = db /\ At("activate")
  BY DEF Note, data
<1>2. rebuild'.stage = "activate" /\ rebuild'.kind = rebuild.kind
  BY <1>1, AtStage DEF TypeInv, Base, Types
<1>3. torn = {} => Untouched /\ db.derived = Active(db) /\ Mine.index = Expected(db)
  BY <1>1 DEF Tuned, Barriers
<1>4. Mine' = Mine
  BY <1>1, <1>2 DEF Mine
<1>5. torn = {} => Barriers'
  BY <1>1, <1>2, <1>3, <1>4 DEF Barriers, Active, Expected, Graph
<1> QED BY <1>1, <1>2, <1>3, <1>5, BarredTuned DEF Barrier

\* The activation of the new index keeps index and database in step, or says that it
\* tore them.
LEMMA TunedActivate ==
  ASSUME TypeInv, Tuned, Activate
  PROVE  Tuned'
<1>1. /\ rebuild.stage = "activate" /\ todo' = todo /\ call' = call /\ torn' = torn
      /\ db' = db /\ index' = Mine.index /\ At("seal")
  BY DEF Activate, Write
<1>2. rebuild'.stage = "seal"
  BY <1>1, AtStage DEF TypeInv, Base, Types
<1>3. torn = {} => Untouched /\ db.derived = Active(db) /\ Mine.index = Expected(db)
  BY <1>1 DEF Tuned, Barriers
<1>4. ASSUME torn = {} PROVE Lacks({})'
  <2>1. index' = [docs |-> Active(db), graph |-> Active(db)]
    BY <1>1, <1>3, <1>4, LacksNothing
  <2> QED BY <1>1, <1>3, <1>4, <2>1 DEF Lacks, Active
<1>5. torn = {} => Barriers'
  BY <1>2, <1>4 DEF Barriers
<1> QED BY <1>1, <1>2, <1>3, <1>5, BarredTuned DEF Barrier

\* A rebuild that ends leaves nothing torn when the import is at rest and what it
\* left is consistent.
LEMMA TunedDone ==
  ASSUME TypeInv, Tuned, Done
  PROVE  Tuned'
<1>1. /\ rebuild.stage = "seal" /\ rebuild' = Off /\ todo' = todo /\ call' = call
      /\ db' = db /\ index' = index /\ todo[User] = <<>>
      /\ torn' = IF todo[Import] # <<>> THEN torn ELSE IF Consistent THEN {} ELSE torn
  BY DEF Done, Ends, data, TypeInv, Base, Order, Barrier
<1>2. SUFFICES ASSUME torn' = {}
               PROVE  Tuned'
  BY DEF Tuned
<1>3. rebuild'.stage = "off" /\ todo'[User] = <<>> /\ Untouched' = Untouched
  BY <1>1, OffStage DEF Untouched, Facing
<1>4. torn = {} => Untouched /\ Lacks({})
  BY <1>1 DEF Tuned, Barriers
<1>5. torn # {} => todo[Import] = <<>> /\ Consistent
  BY <1>1, <1>2
<1>6. Untouched /\ Lacks({})
  BY <1>4, <1>5, LacksNothing DEF Untouched
<1>7. InStep(Import)'
  BY <1>1, <1>3, <1>6, LacksStays, UntouchedRests
<1>8. Barriers'
  BY <1>3 DEF Barriers
<1> QED BY <1>3, <1>7, <1>8 DEF Tuned

\* A rebuild that fails keeps index and database in step, or says that it tore them.
LEMMA TunedRebuildFails ==
  ASSUME RebuildFails
  PROVE  Tuned'
<1>1. torn' # {}
  BY DEF RebuildFails, PutBack
<1> QED BY <1>1 DEF Tuned

\* Nothing runs any more, or only the startup check does.
LEMMA TunedEnds ==
  ASSUME TypeInv, Unload \/ Down \/ Restart
  PROVE  Tuned'
<1>1. CASE Unload \/ Down
  <2>1. up' = FALSE /\ rebuild' = Off
    BY <1>1 DEF Unload, Down
  <2>2. rebuild'.stage = "off" /\ ~Trusted'
    BY <2>1, OffStage DEF Trusted
  <2>3. todo'[User] = <<>>
    BY <1>1, DownCall DEF Unload
  <2> QED BY <2>2, <2>3 DEF Tuned, Barriers
<1>2. CASE Restart
  <2>1. /\ rebuild' = [kind |-> "check", stage |-> "reason", derived |-> {}]
        /\ todo' = todo /\ todo[Import] = <<>>
    BY <1>2 DEF Restart, TypeInv, Base, Order
  <2>2. rebuild'.stage = "reason" /\ rebuild'.kind = "check" /\ ~Trusted'
    BY <2>1 DEF Trusted
  <2>3. Untouched'
    BY <2>1 DEF Untouched
  <2> QED BY <2>2, <2>3 DEF Tuned, Barriers
<1> QED BY <1>1, <1>2

\* The other steps of a rollback: under a loaded runtime they leave what it works on, say
\* that they tore it, or cut a check off; without one there is nobody to trust it.
LEMMA TunedRolls ==
  ASSUME TypeInv, Tuned, Stop \/ RestoreDatabase \/ RestoreIndex \/ RolledBack \/ RollbackFails
  PROVE  Tuned'
<1>1. ASSUME ~up, up' = up, todo' = todo, rebuild' = rebuild \/ rebuild' = Off PROVE Tuned'
  <2>1. todo[User] = <<>> /\ rebuild.stage = "off"
    BY <1>1 DEF TypeInv, Base, Order
  <2>2. rebuild'.stage = "off" /\ todo'[User] = <<>> /\ ~Trusted'
    BY <1>1, <2>1, OffStage DEF Trusted
  <2> QED BY <2>2 DEF Tuned, Barriers
<1>2. ASSUME db' = db, index' = index, todo' = todo, call' = call, up' = up, torn' = torn,
             rebuild' = rebuild, rebuild.stage \notin {"swap", "journal", "activate"} \/ Mine' = Mine
      PROVE  Tuned'
  <2>1. Barriers => Barriers'
    BY <1>2 DEF Barriers, Lacks, Active, Expected, Graph
  <2>2. Trusted' = Trusted
    BY <1>2 DEF Trusted
  <2> QED BY <1>2, <2>1, <2>2, StillTuned DEF Tuned
<1>3. ASSUME torn' # {} PROVE Tuned'
  BY <1>3 DEF Tuned
<1>4. CASE Stop \/ RollbackFails
  <2>1. Mine' = Mine
    BY <1>4 DEF Stop, RollbackFails, Mine, work
  <2> QED BY <1>2, <1>4, <2>1 DEF Stop, RollbackFails, data, work
<1>5. CASE RolledBack
  <2>1. rebuild.kind = "check" /\ shadow \in [{"check", "task"} -> {Nothing} \cup Shadows]
    BY <1>5 DEF RolledBack, RollTypes, TypeInv, Base, Types, DiskTypes
  <2>2. Mine' = Mine
    BY <1>5, <2>1 DEF RolledBack, Mine, NoWork, work
  <2> QED BY <1>2, <1>5, <2>2 DEF RolledBack, data, work
<1>6. CASE RestoreDatabase
  <2>1. /\ up' = up /\ todo' = todo /\ call' = call /\ rebuild' = rebuild /\ index' = index
        /\ shadow' = shadow
    BY <1>6 DEF RestoreDatabase, work
  <2>2. Mine' = Mine
    BY <2>1 DEF Mine
  <2>3. (db' = db /\ torn' = torn) \/ torn' = torn \cup {"replaced"} \/ ~up
    BY <1>6 DEF RestoreDatabase
  <2> QED BY <1>1, <1>2, <1>3, <2>1, <2>2, <2>3
<1>7. CASE RestoreIndex
  <2>1. up' = up /\ todo' = todo /\ call' = call
    BY <1>7 DEF RestoreIndex
  <2>2. rebuild' = rebuild \/ rebuild' = Off
    BY <1>7 DEF RestoreIndex, Ends
  <2>3. CASE up
    <3>1. index' = index
      BY <1>7, <2>3 DEF RestoreIndex
    <3>2. CASE rebuild.stage \in {"off", "reason", "seal"}
      <4>1. db' = db /\ rebuild' = rebuild /\ torn' = torn
        BY <1>7, <3>2 DEF RestoreIndex
      <4> QED BY <1>2, <2>1, <3>1, <3>2, <4>1
    <3>3. CASE rebuild.stage \notin {"off", "reason", "seal"}
      <4>1. torn' # {}
        BY <1>7, <3>3 DEF RestoreIndex
      <4> QED BY <1>3, <4>1
    <3> QED BY <3>2, <3>3
  <2> QED BY <1>1, <2>1, <2>2, <2>3
<1> QED BY <1>4, <1>5, <1>6, <1>7

\* A task that begins, its copy, and a step that changes nothing keeps index and
\* database in step, or says that it tore them.
LEMMA TunedTasks ==
  ASSUME Tuned, (\E k \in {"rebuild", "import"} : TaskBegin(k)) \/ Snapshot \/ UNCHANGED vars
  PROVE  Tuned'
<1>1. /\ up' = up /\ todo' = todo /\ call' = call /\ db' = db /\ index' = index /\ torn' = torn
      /\ rebuild' = rebuild /\ shadow' = shadow
  BY DEF TaskBegin, Snapshot, vars, data, work
<1>2. Barriers => Barriers'
  BY <1>1 DEF Barriers, Mine, Lacks, Active, Expected, Graph
<1>3. Trusted' = Trusted
  BY <1>1 DEF Trusted
<1> QED BY <1>1, <1>2, <1>3, StillTuned DEF Tuned

\* Every step keeps index and database in step, or says that it tore them.
LEMMA TunedNext ==
  ASSUME TypeInv, Fresh, Tuned, [Next]_vars
  PROVE  Tuned'
<1>1. ASSUME NEW k \in world.kinds, NEW S \in SUBSET Ids, Request(k, S) PROVE Tuned'
  <2>1. k \in UserKinds
    BY WorldFacts DEF TypeInv, Base, Types, StoreTypes
  <2> QED BY <1>1, <2>1, TunedRequest
<1>2. CASE Step(User) \/ Step(Import) \/ Store \/ Cancel
  BY <1>2, TunedStepUser, TunedStepImport, TunedStore, TunedCancel
<1>3. ASSUME NEW p \in Workers, Refuse(p) \/ Fault(p) PROVE Tuned'
  BY <1>3, TunedRefuse
<1>4. CASE ImportBegin \/ ImportStore \/ ImportSave \/ ImportRaise
  BY <1>4, TunedImportBegin, TunedImportStore, TunedImportSave
<1>5. CASE Rebuilds \/ RebuildBegin \/ Interrupt \/ RebuildFails
  BY <1>5, TunedReason, TunedStages, TunedCloseBarrier, TunedSwap, TunedNote, TunedActivate,
     TunedDone, TunedRebuildBegin, TunedRebuildFails DEF Rebuilds
<1>6. CASE Rollback \/ RollbackFails \/ Down \/ Restart
  BY <1>6, TunedEnds, TunedRolls DEF Rollback
<1>7. CASE Snapshot \/ (\E k \in {"rebuild", "import"} : TaskBegin(k)) \/ UNCHANGED vars
  BY <1>7, TunedTasks
<1> QED BY <1>1, <1>2, <1>3, <1>4, <1>5, <1>6, <1>7, TwoWorkers
        DEF Next, Steps, Requests, Serve, Imports, Breaks

\* When nothing runs and nothing tore them, the generation CURRENT names holds the
\* vectors of just the active rows, and every active row has its graph and full-text
\* entries, after any requests, failures and undoings, rebuilds, rollbacks, crashes and
\* recoveries of the journal.
THEOREM StoresSettle == Spec => []Settled
<1> DEFINE Inv == TypeInv /\ (Replaced \/ Fresh) /\ Tuned
<1>1. Init => Inv
  BY TypesInit, FreshInit, TunedInit
<1>2. Inv /\ [Next]_vars => Inv'
  <2>1. ASSUME TypeInv, Tuned, Replaced, [Next]_vars PROVE Tuned'
    BY <2>1, TunedTasks DEF Next
  <2> QED BY <2>1, TypesNext, FreshNext, TunedNext, StaysReplaced
<1>3. Inv => Settled
  <2>1. SUFFICES ASSUME Tuned, Quiet, torn = {}
                 PROVE  Consistent
    BY DEF Settled
  <2>2. todo[User] = <<>> /\ todo[Import] = <<>> /\ Trusted
    BY <2>1 DEF Quiet, Trusted
  <2>3. InStep(Import)
    BY <2>1, <2>2 DEF Tuned
  <2>4. Lacks({})
    BY <2>2, <2>3 DEF InStep
  <2> QED BY <2>4, LacksNothing
<1> QED BY <1>1, <1>2, <1>3, PTL DEF Spec

=============================================================================
