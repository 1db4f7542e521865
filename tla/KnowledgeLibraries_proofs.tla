---------------------- MODULE KnowledgeLibraries_proofs ----------------------
(***************************************************************************)
(* No step of KnowledgeLibraries erases a library that was acknowledged    *)
(* and that nobody asked to delete, whatever the settings of the module    *)
(* are: any number of ids, clients, worlds and faults.                     *)
(*                                                                         *)
(* The invariant has two levels.  Types holds always: besides the types of *)
(* the variables it says at which steps a request or a task of each kind   *)
(* can be and what its workspace may hold there.  Held is what is so as    *)
(* long as nobody met whom he must not meet (spoiled \subseteq Harmless):  *)
(*   Alone     requests and the task work on different ids, but for the    *)
(*             edits and deletions that do no harm;                        *)
(*   Single    a library has one directory;                                *)
(*   Marked    a marked library belongs to the import under way;           *)
(*   Creates, Imports, Copies   what these may erase again has not been    *)
(*             acknowledged, or is not there yet;                          *)
(*   Switches  a switch holds its library in up to three places, and       *)
(*             always in the live or in the previous directory;            *)
(*   Kept      every acknowledged library is somewhere.                    *)
(*                                                                         *)
(* What a step does to the directories has one of four shapes: SameLibs    *)
(* (each id has the library it had), Emptied, Filled and Renamed.  Single, *)
(* Kept and what concerns the requests beside a step follow from its shape *)
(* alone, and each action then only owes its own part.                     *)
(***************************************************************************)
EXTENDS KnowledgeLibraries, FiniteSetTheorems, WellFoundedInduction, TLAPS

Tasks    == Switch \cup {"import", "copy"}
Ops      == {"create", "delete", "rename", "edit"}
SwitchAt == {"begin", "target", "bind", "cut", "apply", "recheck", "unload", "out", "in",
             "note", "check", "seal", "end"}
ImportAt == {"begin", "prepare", "move", "moved", "show", "answer", "unmark", "end"}
CopyAt   == {"begin", "register", "place", "erase", "show"}
UndoAt   == {"unload", "away", "return", "tidy", "remove"}

Bases == [dirs : [Ids -> Places], names : SUBSET Ids]
Jobs  == [kind : Tasks \cup {"none"}, ids : SUBSET Ids,
          state : {"", "run", "inner", "back", "parked"},
          at : SwitchAt \cup ImportAt \cup CopyAt \cup UndoAt \cup {""}, todo : SUBSET Ids,
          phase : {"", "cut", "ready", "swapped", "rolled_back", "moving", "installed"},
          to : Ids \cup {0}, base : Bases \cup {{}}, end : {"", "completed", "undone"}]
Spaces == [stage : Places, previous : Places, failed : Places,
           prepared : [Ids -> Contents \cup {Absent}], moved : SUBSET Ids]
Reqs   == [op : Ops \cup {""}, id : Ids \cup {0}, to : Ids \cup {0},
           at : {"", "register", "open", "fill", "load", "unregister", "erase", "unload", "move",
                 "drop", "name", "back", "write"}]

Made(x) == x \in Contents => x.of <= born

\* Directories, catalog and runtimes.
Disks ==
  /\ world \in Worlds /\ up \in BOOLEAN
  /\ live \in [Ids -> Places] /\ trash \subseteq Births /\ catalog \subseteq Ids
  /\ resident \in [Ids -> {"none", "here", "stale"}]
  /\ born \in Births /\ kept \subseteq 1..born
  /\ spent \in [begun : 0..world.begun, faults : 0..world.faults]
  /\ \A l \in Ids : Made(live[l])

\* A request of an operation is at one of its steps.
Placed(r) ==
  /\ r.op = "create" => r.at \in {"register", "open", "fill", "load", "unregister", "erase"}
  /\ r.op = "delete" => r.at \in {"unload", "move", "drop"}
  /\ r.op = "rename" => r.at \in {"unload", "move", "name", "back"}
  /\ r.op = "edit"   => r.at = "write"
  /\ IF r.op = "" THEN r = NoReq ELSE r.id \in Ids /\ r.to \in Ids
Requested ==
  /\ req \in [Clients -> Reqs]
  /\ \A c \in Clients : Placed(req[c])
  /\ ~up => \A c \in Clients : req[c] = NoReq

\* What a job and its workspace hold, and where a task of each kind can be.
Tasked ==
  /\ job \in Jobs /\ work \in Spaces
  /\ Made(work.stage) /\ Made(work.previous) /\ \A l \in Ids : Made(work.prepared[l])
  /\ IF job.kind = "none"
     THEN /\ job.ids = {} /\ job.state = "" /\ job.todo = {} /\ job.to = 0 /\ work = NoWork
     ELSE job.state # "" /\ job.base \in Bases
  /\ job.todo \subseteq job.ids
  /\ job.state \in {"run", "inner", "back"} => up

Switched1 ==
  job.kind \in Switch =>
    /\ \E l \in Ids : job.ids = {l}
    /\ job.to = 0 /\ work.prepared = NoWork.prepared /\ work.moved = {}
    /\ job.phase \in {"", "cut", "ready", "swapped", "rolled_back"}
    /\ job.state = "run" => job.at \in SwitchAt
    /\ job.state \in {"inner", "back"} => job.at \in UndoAt \ {"remove"}
    /\ job.state = "run" /\ job.at = "apply" => work.stage \in Contents
    /\ job.phase = "" => work.stage = Absent
    /\ \A l \in Ids : Made(job.base.dirs[l])
Imported1 ==
  job.kind = "import" =>
    /\ job.ids # {} /\ job.to \in job.ids \cup {0}
    /\ work.stage = Absent /\ work.previous = Absent
    /\ job.phase \in {"", "ready", "moving", "installed"}
    /\ job.state \in {"run", "back", "parked"}
    /\ job.state = "run" => job.at \in ImportAt
    /\ job.state = "back" => job.at \in {"unload", "remove"}
    /\ job.phase = "" => work = NoWork
    /\ job.state = "run" /\ job.at = "moved" => job.todo # {}
    /\ job.state = "run" => (job.phase = "" <=> job.at = "prepare") \/ job.at = "begin"
    /\ job.state = "back" /\ job.at = "remove" => job.to \in job.todo
    /\ \A l \in Ids : work.prepared[l] # Absent => l \in job.ids
    /\ work.moved \subseteq job.ids
Copied1 ==
  job.kind = "copy" =>
    /\ \E l \in Ids : job.ids = {l}
    /\ work.stage = Absent /\ work.previous = Absent /\ work.moved = {}
    /\ job.state = "run" /\ job.at \in CopyAt
    /\ IF job.at = "begin" THEN job.to = 0 /\ work = NoWork
       ELSE job.to \in Ids
    /\ \A l \in Ids : work.prepared[l] # Absent => l = job.to
    /\ job.at \in {"register", "place"} => work.prepared[job.to] # Absent

Types == Disks /\ Requested /\ Tasked /\ Switched1 /\ Imported1 /\ Copied1
-----------------------------------------------------------------------------
\* The least of some ids, and of one.
LessThan == {p \in Nat \X Nat : p[1] < p[2]}
\* Less-than on the naturals has no endless descent.
LEMMA LessFounded == IsWellFoundedOn(LessThan, Nat)
BY NatLessThanWellFounded DEF OpToRel, LessThan

\* A set of ids that is not empty has its least one.
LEMMA LeastIn ==
  ASSUME NEW S, S \subseteq Ids, S # {}
  PROVE  Least(S) \in S
<1>1. S \subseteq Nat
  BY DEF Ids
<1>2. PICK x \in S : \A y \in S : <<y, x>> \notin LessThan
  BY <1>1, LessFounded, WFMin
<1>3. \A y \in S : ~(y < x)
  BY <1>1, <1>2 DEF LessThan
<1>4. \A y \in S : x <= y
  BY <1>1, <1>3
<1> QED BY <1>4 DEF Least

\* The library of a task about one id is that one.
LEMMA LeastOne ==
  ASSUME NEW l \in Ids, job.ids = {l}
  PROVE  Id = l
<1>1. l \in Nat
  BY DEF Ids
<1> QED BY <1>1 DEF Id, Least

\* A library is neither no directory nor a hollow one, and a new one bears its number.
LEMMA Values ==
  /\ Absent \notin Contents /\ Hollow \notin Contents /\ Absent # Hollow
  /\ Absent \in Places /\ Hollow \in Places /\ Contents \subseteq Places
  /\ \A x \in Places : x \notin {Absent, Hollow} => x \in Contents
  /\ \A n \in Births : New(n) \in Contents /\ New(n).of = n /\ New(n).has = {}
BY AbsentAssumption DEF Places, Contents, New

\* Ids are births, births are numbers, and 0 is neither.
LEMMA Numbers ==
  /\ MaxId \in Nat \ {0} /\ MaxBorn \in Nat /\ MaxBorn >= MaxId
  /\ Ids \subseteq Nat \ {0} /\ Ids \subseteq Births /\ 0 \notin Ids /\ Births \subseteq Nat
BY KnowledgeAssumption DEF Ids, Births

\* A directory is full when it holds a library.
LEMMA FullIs ==
  ASSUME Disks, NEW l \in Ids
  PROVE  (Full(l) <=> live[l] \in Contents) /\ live[l] \in Places
         /\ resident[l] \in {"none", "here", "stale"}
BY Values DEF Disks, Full

\* Opening databases.
LEMMA TouchIs ==
  ASSUME Disks, NEW S, Touch(S)
  PROVE  /\ live' \in [Ids -> Places] /\ resident' \in [Ids -> {"none", "here", "stale"}]
         /\ \A l \in Ids :
              \/ live'[l] = live[l] /\ resident'[l] = resident[l]
              \/ l \in S /\ resident[l] = "none" /\ live[l] = Absent
                   /\ live'[l] = Hollow /\ resident'[l] = "none"
              \/ l \in S /\ resident[l] = "none" /\ Full(l)
                   /\ live'[l] = live[l] /\ resident'[l] = "here"
<1>1. ASSUME NEW l \in Ids
      PROVE  /\ live'[l] = IF l \in S /\ resident[l] = "none" /\ live[l] = Absent
                           THEN Hollow ELSE live[l]
             /\ resident'[l] = IF l \in S /\ resident[l] = "none" /\ Full(l)
                               THEN "here" ELSE resident[l]
  BY DEF Touch
<1>2. \A l \in Ids : live[l] \in Places /\ resident[l] \in {"none", "here", "stale"}
  BY FullIs
<1>3. live' = [l \in Ids |-> live'[l]] /\ resident' = [l \in Ids |-> resident'[l]]
  BY DEF Touch
<1> QED BY <1>1, <1>2, <1>3, Values DEF Full

\* A runtime whose directory goes is stale, and the others are as they were.
LEMMA LeaveIs ==
  ASSUME Disks, NEW k \in Ids, Leave(k)
  PROVE  /\ resident' \in [Ids -> {"none", "here", "stale"}]
         /\ \A l \in Ids : l # k => resident'[l] = resident[l]
         /\ resident'[k] = IF resident[k] = "here" THEN "stale" ELSE resident[k]
BY DEF Disks, Leave

\* A runtime is released, and the others are as they were.
LEMMA UnloadIs ==
  ASSUME Disks, NEW k \in Ids, Unload(k)
  PROVE  /\ resident' \in [Ids -> {"none", "here", "stale"}]
         /\ \A l \in Ids : l # k => resident'[l] = resident[l]
         /\ resident'[k] = "none"
BY DEF Disks, Unload
-----------------------------------------------------------------------------
\* Types: searches, the sweeper and requests.

Tasks1 == Tasked /\ Switched1 /\ Imported1 /\ Copied1

\* The task does not notice a step of another.
LEMMA TaskFrame ==
  ASSUME Tasks1, Disks, UNCHANGED <<job, work, up>>, born' \in Nat, born <= born'
  PROVE  Tasks1'
<1>1. born \in Nat /\ \A x \in Contents : x.of \in Nat
  BY Numbers DEF Disks, Contents
<1>2. \A x : Made(x) => Made(x)'
  BY <1>1 DEF Made
<1> QED BY <1>2 DEF Tasks1, Tasked, Switched1, Imported1, Copied1

\* A request under way has its ids.
LEMMA ReqIs ==
  ASSUME Requested, NEW c \in Clients
  PROVE  /\ req[c] \in Reqs /\ Placed(req[c])
         /\ req[c].op # "" => req[c].id \in Ids /\ req[c].to \in Ids
BY DEF Requested, Placed

\* A request that goes on to one of its steps stays one.
LEMMA ReqMoves ==
  ASSUME Requested, NEW c \in Clients, NEW s, Next2(c, s), up' = up,
         s \in {"register", "open", "fill", "load", "unregister", "erase", "unload", "move",
                "drop", "name", "back", "write"},
         req[c].op # "",
         Placed([req[c] EXCEPT !.at = s])
  PROVE  Requested'
<1>1. req' \in [Clients -> Reqs] /\ \A d \in Clients : req'[d] = IF d = c THEN [req[c] EXCEPT !.at = s] ELSE req[d]
  BY DEF Requested, Next2, Reqs
<1>2. NoReq.op = ""
  BY DEF NoReq
<1>3. ~(~up)
  BY <1>2 DEF Requested
<1> QED BY <1>1, <1>3 DEF Requested

\* A request that ends leaves the others as they are.
LEMMA ReqEnds ==
  ASSUME Requested, NEW c \in Clients, Ends(c), up' = up
  PROVE  Requested'
<1>1. NoReq \in Reqs /\ Placed(NoReq)
  BY DEF NoReq, Reqs, Placed
<1>2. req' \in [Clients -> Reqs] /\ \A d \in Clients : req'[d] = IF d = c THEN NoReq ELSE req[d]
  BY <1>1 DEF Requested, Ends
<1> QED BY <1>1, <1>2 DEF Requested

\* Directories, catalog and runtimes keep their types one by one.
LEMMA DisksMove ==
  ASSUME Disks, UNCHANGED <<world, up, born, spent>>, kept' \subseteq 1..born,
         live' \in [Ids -> Places], trash' \subseteq Births, catalog' \subseteq Ids,
         resident' \in [Ids -> {"none", "here", "stale"}],
         \A l \in Ids : live'[l] \in Contents => live'[l].of <= born
  PROVE  Disks'
BY DEF Disks, Made

\* A directory is put in place, or removed.
LEMMA PutIs ==
  ASSUME Disks, NEW k \in Ids, NEW x \in Places, x \in Contents => x.of <= born,
         live' = [live EXCEPT ![k] = x]
  PROVE  /\ live' \in [Ids -> Places] /\ live'[k] = x
         /\ \A l \in Ids : l # k => live'[l] = live[l]
         /\ \A l \in Ids : live'[l] \in Contents => live'[l].of <= born
BY DEF Disks, Made

\* A directory gets another name.
LEMMA RenamedIs ==
  ASSUME Disks, NEW k \in Ids, NEW m \in Ids, live' = [live EXCEPT ![m] = live[k], ![k] = Absent]
  PROVE  /\ live' \in [Ids -> Places] /\ live'[k] = Absent /\ (k # m => live'[m] = live[k])
         /\ \A l \in Ids : l \notin {k, m} => live'[l] = live[l]
         /\ \A l \in Ids : live'[l] \in Contents => live'[l].of <= born
BY Values DEF Disks, Made

\* A library changes, but not whose it is.
LEMMA EditIs ==
  ASSUME Disks, NEW k \in Ids, Full(k), live' = [live EXCEPT ![k].has = @ \cup {"edit"}]
  PROVE  /\ live' \in [Ids -> Places] /\ live'[k] \in Contents /\ live'[k].of = live[k].of
         /\ live'[k].has = live[k].has \cup {"edit"}
         /\ \A l \in Ids : l # k => live'[l] = live[l]
         /\ \A l \in Ids : live'[l] \in Contents => live'[l].of <= born
<1>1. live[k] \in Contents
  BY FullIs
<1> DEFINE x == [live[k] EXCEPT !.has = @ \cup {"edit"}]
<1>2. x \in Contents /\ x.of = live[k].of /\ x.has = live[k].has \cup {"edit"}
  BY <1>1 DEF Contents
<1>3. live' = [live EXCEPT ![k] = x]
  OBVIOUS
<1>4. x.of <= born
  BY <1>1, <1>2 DEF Disks, Made
<1>5. x \in Places
  BY <1>2, Values
<1> HIDE DEF x
<1>6. /\ live' \in [Ids -> Places] /\ live'[k] = x
      /\ \A l \in Ids : l # k => live'[l] = live[l]
      /\ \A l \in Ids : live'[l] \in Contents => live'[l].of <= born
  BY <1>3, <1>4, <1>5, PutIs, Zenon
<1> QED BY <1>2, <1>6

\* What a request's step does to directories, catalog and runtimes.
LEMMA RequestDisks ==
  ASSUME Disks, Requested, Tasks1, NEW c \in Clients,
         \/ Register(c) \/ Open(c) \/ Fill(c) \/ Load(c) \/ CreateFault(c) \/ Unregister(c)
         \/ Erase(c) \/ Released(c) \/ ToTrash(c) \/ Drop(c)
         \/ Rename(c) \/ Name(c) \/ NameFault(c) \/ NameBack(c) \/ NameBackFault(c) \/ Write(c)
  PROVE  Disks'
<1>0. /\ req[c].id \in Ids /\ req[c].to \in Ids /\ born \in Nat /\ MaxBorn \in Nat
      /\ live[req[c].id] \in Places /\ live[req[c].to] \in Places
  BY ReqIs, FullIs, Numbers
     DEF Register, Open, Fill, Load, CreateFault, Unregister, Erase, Released, ToTrash, Drop,
         Rename, Name, NameFault, NameBack, NameBackFault, Write, At, Disks
<1>1. CASE Register(c) \/ Unregister(c) \/ Drop(c) \/ Name(c)
  BY <1>0, <1>1 DEF Register, Unregister, Drop, Name, Disks, Made
<1>2. CASE CreateFault(c) \/ NameFault(c) \/ NameBackFault(c)
  BY <1>0, <1>2, KnowledgeAssumption DEF CreateFault, NameFault, NameBackFault, Disks, Made, disk, Fault
<1>3. CASE Open(c)
  BY <1>0, <1>3, Values, PutIs, DisksMove DEF Open, Disks, Made
<1>4. CASE Fill(c)
  <2>1. CASE live[req[c].id] = Hollow /\ live' = [live EXCEPT ![req[c].id] = New(born + 1)]
             /\ born' = born + 1
    <3>1. born + 1 \in Births /\ New(born + 1) \in Contents /\ New(born + 1).of = born + 1
      BY <1>0, <1>4, Values DEF Fill, Births, Disks
    <3>2. /\ live' \in [Ids -> Places]
          /\ \A l \in Ids : live'[l] = IF l = req[c].id THEN New(born + 1) ELSE live[l]
      BY <1>0, <2>1, <3>1, Values DEF Disks
    <3>4. \A x \in Contents : x.of \in Nat
      BY Numbers DEF Contents
    <3>5. \A l \in Ids : live'[l] \in Contents => live'[l].of <= born'
      BY <1>0, <2>1, <3>1, <3>2, <3>4 DEF Disks, Made
    <3>3. kept' \subseteq 1..born'
      BY <1>0, <1>4, <2>1 DEF Fill, Disks
    <3> QED BY <1>4, <2>1, <3>1, <3>2, <3>3, <3>5 DEF Fill, Disks, Made
  <2>2. CASE UNCHANGED <<live, born>>
    BY <1>0, <1>4, <2>2, DisksMove DEF Fill, Disks, Made
  <2> QED BY <1>4, <2>1, <2>2 DEF Fill
<1>5. CASE Load(c)
  <2>1. Touch({req[c].id})
    BY <1>5 DEF Load
  <2>2. Full(req[c].id) => live[req[c].id].of \in 1..born
    BY <1>0, FullIs DEF Disks, Made, Contents, Births
  <2>3. kept' \subseteq 1..born
    BY <1>0, <1>5, <2>2 DEF Load, Disks
  <2>4. /\ live' \in [Ids -> Places] /\ resident' \in [Ids -> {"none", "here", "stale"}]
        /\ \A l \in Ids : live'[l] = live[l] \/ live'[l] = Hollow
    BY <1>0, <2>1, TouchIs
  <2>5. \A l \in Ids : live'[l] \in Contents => live'[l].of <= born
    BY <2>4, Values DEF Disks, Made
  <2>6. UNCHANGED <<world, trash, catalog, up, born, spent>>
    BY <1>5 DEF Load
  <2>7. trash' \subseteq Births /\ catalog' \subseteq Ids
    BY <1>0, <2>6 DEF Disks
  <2> QED BY <1>0, <2>3, <2>4, <2>5, <2>6, <2>7, DisksMove
<1>6. CASE Erase(c) \/ Released(c)
  BY <1>0, <1>6, LeaveIs, UnloadIs, PutIs, DisksMove, Values DEF Erase, Released, Disks, Made, disk
<1>7. CASE ToTrash(c)
  <2>1. Full(req[c].id) => live[req[c].id].of \in Births
    BY <1>0, FullIs DEF Contents
  <2> QED BY <1>0, <1>7, <2>1, LeaveIs, PutIs, DisksMove, Values DEF ToTrash, Disks, Made
<1>8. CASE Rename(c) \/ NameBack(c)
  <2>1. CASE UNCHANGED <<live, resident>>
    BY <1>0, <1>8, <2>1, DisksMove DEF Rename, NameBack, Disks, Made
  <2>2. CASE \/ live' = [live EXCEPT ![req[c].to] = live[req[c].id], ![req[c].id] = Absent] /\ Leave(req[c].id)
             \/ live' = [live EXCEPT ![req[c].id] = live[req[c].to], ![req[c].to] = Absent] /\ Leave(req[c].to)
    <3>1. UNCHANGED <<world, up, born, spent, kept, trash, catalog>>
      BY <1>8 DEF Rename, NameBack
    <3> QED BY <1>0, <2>2, <3>1, LeaveIs, RenamedIs, DisksMove DEF Disks
  <2> QED BY <1>8, <2>1, <2>2 DEF Rename, NameBack
<1>9. CASE Write(c)
  <2>1. CASE Touch({req[c].id}) /\ UNCHANGED <<world, trash, catalog, up, born, kept, spent>>
    BY <2>1, TouchIs, Values DEF Disks, Made
  <2>2. ASSUME Full(req[c].id), live' = [live EXCEPT ![req[c].id].has = @ \cup {"edit"}],
               resident' = [resident EXCEPT ![req[c].id] = IF @ = "none" THEN "here" ELSE @],
               UNCHANGED <<world, trash, catalog, up, born, kept, spent>>
        PROVE  Disks'
    <3>1. resident' \in [Ids -> {"none", "here", "stale"}]
      BY <1>0, <2>2 DEF Disks
    <3> QED BY <1>0, <2>2, <3>1, EditIs, DisksMove DEF Disks
  <2> QED BY <1>9, <2>1, <2>2 DEF Write
<1> QED BY <1>1, <1>2, <1>3, <1>4, <1>5, <1>6, <1>7, <1>8, <1>9

\* A step of a request that is under way; every one leaves the task alone.
RequestStep(c) ==
  \/ Register(c) \/ Open(c) \/ Fill(c) \/ Load(c) \/ CreateFault(c) \/ Unregister(c) \/ Erase(c)
  \/ Released(c) \/ ToTrash(c) \/ Drop(c)
  \/ Rename(c) \/ Name(c) \/ NameFault(c) \/ NameBack(c) \/ NameBackFault(c) \/ Write(c)

\* A request goes on to a later step of its own kind, or ends; the task does not notice.
LEMMA RequestGoes ==
  ASSUME Requested, NEW c \in Clients, RequestStep(c)
  PROVE  /\ UNCHANGED <<world, up, job, work>> /\ req[c].op # ""
         /\ \/ Ends(c)
            \/ req[c].op = "create" /\ \E s \in {"open", "fill", "load", "unregister", "erase"} : Next2(c, s)
            \/ req[c].op = "delete" /\ \E s \in {"move", "drop"} : Next2(c, s)
            \/ req[c].op = "rename" /\ \E s \in {"move", "name", "back"} : Next2(c, s)
<1>1. CASE Register(c) \/ Open(c) \/ Fill(c) \/ Load(c) \/ CreateFault(c) \/ Unregister(c) \/ Erase(c)
  BY <1>1 DEF Register, Open, Fill, Load, CreateFault, Unregister, Erase, At
<1>2. CASE Released(c) \/ ToTrash(c) \/ Drop(c)
  BY <1>2 DEF Released, ToTrash, Drop, At
<1>3. CASE Rename(c) \/ Name(c) \/ NameFault(c) \/ NameBack(c) \/ NameBackFault(c) \/ Write(c)
  BY <1>3 DEF Rename, Name, NameFault, NameBack, NameBackFault, Write, At
<1> QED BY <1>1, <1>2, <1>3 DEF RequestStep

\* No request takes a birth back.
LEMMA RequestBorn ==
  ASSUME Disks, NEW c \in Clients, RequestStep(c)
  PROVE  born' \in Nat /\ born <= born'
BY Numbers DEF Disks, RequestStep, Register, Open, Fill, Load, CreateFault, Unregister, Erase,
   Released, ToTrash, Drop, Rename, Name, NameFault, NameBack, NameBackFault, Write

\* Every step of a request keeps the types.
LEMMA RequestTypes ==
  ASSUME Types, NEW c \in Clients, RequestStep(c)
  PROVE  Types'
<1>1. Disks /\ Requested /\ Tasks1
  BY DEF Types, Tasks1
<1>2. /\ UNCHANGED <<world, up, job, work>> /\ req[c].op # ""
      /\ \/ Ends(c)
         \/ req[c].op = "create" /\ \E s \in {"open", "fill", "load", "unregister", "erase"} : Next2(c, s)
         \/ req[c].op = "delete" /\ \E s \in {"move", "drop"} : Next2(c, s)
         \/ req[c].op = "rename" /\ \E s \in {"move", "name", "back"} : Next2(c, s)
  BY <1>1, RequestGoes
<1>3. Disks'
  BY <1>1, RequestDisks DEF RequestStep
<1>4. Requested'
  <2>1. CASE Ends(c)
    BY <1>1, <1>2, <2>1, ReqEnds
  <2>2. ASSUME NEW s \in {"open", "fill", "load", "unregister", "erase", "move", "drop", "name", "back"},
               Next2(c, s), Placed([req[c] EXCEPT !.at = s])
        PROVE  Requested'
    BY <1>1, <1>2, <2>2, ReqMoves
  <2>3. req[c] \in Reqs /\ Placed(req[c])
    BY <1>1, ReqIs
  <2>4. \A s : req[c].op = "create" /\ s \in {"open", "fill", "load", "unregister", "erase"} =>
           Placed([req[c] EXCEPT !.at = s])
    BY <2>3 DEF Placed, Reqs
  <2>5. \A s : (\/ req[c].op = "delete" /\ s \in {"move", "drop"}
                \/ req[c].op = "rename" /\ s \in {"move", "name", "back"}) =>
           Placed([req[c] EXCEPT !.at = s])
    BY <2>3 DEF Placed, Reqs
  <2> QED BY <1>2, <2>1, <2>2, <2>4, <2>5
<1>5. Tasks1'
  BY <1>1, <1>2, RequestBorn, TaskFrame
<1> QED BY <1>3, <1>4, <1>5 DEF Types, Tasks1

\* So does a new one.
LEMMA AskTypes ==
  ASSUME Types, NEW c \in Clients, NEW op \in world.requests, NEW l \in Ids, NEW m \in Ids,
         Ask(c, op, l, m)
  PROVE  Types'
<1>1. Disks /\ Requested /\ Tasks1
  BY DEF Types, Tasks1
<1>2. world \in Worlds /\ op \in Ops /\ world.begun \in Nat /\ up
  BY <1>1, KnowledgeAssumption DEF Disks, Ops, Ask
<1>3. UNCHANGED <<world, disk, resident, up, job, work, born>> /\ kept' \subseteq kept /\ Begun
  BY DEF Ask
<1>4. spent' \in [begun : 0..world.begun, faults : 0..world.faults]
  BY <1>1, <1>2, <1>3 DEF Begun, Disks
<1>5. Disks'
  BY <1>1, <1>3, <1>4 DEF Disks, Made, disk
<1>6. PICK s \in {"register", "unload", "write"} :
        /\ Begins(c, op, l, m, s)
        /\ op = "create" => s = "register"
        /\ op \in {"delete", "rename"} => s = "unload"
        /\ op = "edit" => s = "write"
  BY <1>2 DEF Ask, Ops
<1>7. Requested'
  <2> DEFINE r == [op |-> op, id |-> l, to |-> m, at |-> s]
  <2>1. r \in Reqs /\ Placed(r)
    BY <1>2, <1>6 DEF Reqs, Placed, Ops
  <2>2. req' = [req EXCEPT ![c] = r]
    BY <1>6 DEF Begins
  <2> HIDE DEF r
  <2>3. up' = up
    BY <1>3
  <2> QED BY <1>1, <1>2, <2>1, <2>2, <2>3 DEF Requested
<1>8. Tasks1'
  BY <1>1, <1>3, TaskFrame, Numbers DEF Disks
<1> QED BY <1>5, <1>7, <1>8 DEF Types, Tasks1

\* A search and the sweeper.
LEMMA LookTypes ==
  ASSUME Types, NEW l \in Ids, Visit(l) \/ Evict(l)
  PROVE  Types'
<1>1. Disks /\ Requested /\ Tasks1
  BY DEF Types, Tasks1
<1>2. UNCHANGED <<world, trash, catalog, up, job, work, req, born, kept, spent>>
  BY DEF Visit, Evict, disk
<1>3. Disks'
  BY <1>1, <1>2, TouchIs, UnloadIs, DisksMove, Values DEF Visit, Evict, Disks, Made, disk
<1>4. Tasks1'
  BY <1>1, <1>2, TaskFrame, Numbers DEF Disks
<1> QED BY <1>1, <1>2, <1>3, <1>4 DEF Types, Tasks1, Requested
-----------------------------------------------------------------------------
\* Types: the task.

\* The library of a switch, and what the task can be at.
LEMMA SwitchIs ==
  ASSUME Types, job.kind \in Switch
  PROVE  /\ Id \in Ids /\ job.ids = {Id} /\ live[Id] \in Places
         /\ job \in Jobs /\ work \in Spaces /\ job.kind \in {"mutation", "removal", "rebuild"}
<1>1. PICK l \in Ids : job.ids = {l}
  BY DEF Types, Switched1
<1>2. Id = l
  BY <1>1, LeastOne
<1> QED BY <1>1, <1>2, FullIs DEF Types, Tasked, Switch

\* A task moves to another step, or is taken to its rollback, and its workspace changes.
LEMMA SwitchMoves ==
  ASSUME Types, job.kind \in Switch, job' \in Jobs, work' \in Spaces, born' = born, up' = up,
         job'.kind = job.kind, job'.ids = job.ids, job'.to = 0, job'.base = job.base,
         job'.state \in {"run", "inner", "back", "parked"},
         job'.todo \subseteq job.ids,
         job'.state = "run" => job'.at \in SwitchAt,
         job'.state \in {"inner", "back"} => job'.at \in UndoAt \ {"remove"} /\ job.state # "",
         job'.phase \in {"", "cut", "ready", "swapped", "rolled_back"},
         job'.state # "parked" => up,
         job'.state = "run" /\ job'.at = "apply" => work'.stage \in Contents,
         job'.phase = "" => work'.stage = Absent,
         work'.prepared = work.prepared, work'.moved = work.moved,
         Made(work'.stage), Made(work'.previous)
  PROVE  Tasks1'
<1>1. /\ job.kind # "none" /\ job.kind # "import" /\ job.kind # "copy"
      /\ "none" \notin Switch /\ "import" \notin Switch /\ "copy" \notin Switch
  BY DEF Switch
<1>2. \A x : Made(x)' <=> Made(x)
  BY DEF Made
<1>3. Tasked'
  BY <1>1, <1>2 DEF Types, Tasked
<1>4. Switched1'
  BY <1>1, <1>2 DEF Types, Switched1
<1>5. Imported1' /\ Copied1'
  BY <1>1 DEF Imported1, Copied1
<1> QED BY <1>3, <1>4, <1>5 DEF Tasks1

\* No job and no workspace are a job and a workspace.
LEMMA Gone == NoJob \in Jobs /\ NoWork \in Spaces /\ NoJob.kind = "none" /\ NoJob.to = 0 /\ NoJob.ids = {}
              /\ NoJob.state = "" /\ NoJob.todo = {}
BY Values, Numbers DEF NoJob, NoWork, Jobs, Spaces

\* A task that ended leaves nothing.
LEMMA EndIs ==
  ASSUME Types, born' = born, Complete \/ Undone
  PROVE  Tasks1'
<1>1. job' \in Jobs /\ job'.kind = "none" /\ job'.ids = {} /\ job'.state = "" /\ job'.todo = {}
      /\ job'.to = 0
  BY Gone DEF Complete, Undone, Jobs, NoJob
<1>2. work' = NoWork
  BY DEF Complete, Undone
<1>3. /\ NoWork.stage \notin Contents /\ NoWork.previous \notin Contents
      /\ \A l \in Ids : NoWork.prepared[l] \notin Contents
  BY Values DEF NoWork
<1>4. "none" \notin Switch
  BY DEF Switch
<1>5. NoWork' = NoWork
  BY DEF NoWork
<1> QED BY <1>1, <1>2, <1>3, <1>4, <1>5, Gone
        DEF Tasks1, Tasked, Switched1, Imported1, Copied1, Made

Same(j) == /\ j.kind = job.kind /\ j.ids = job.ids /\ j.to = job.to /\ j.base = job.base
           /\ j.phase = job.phase /\ j.end = job.end

\* Going on changes the step of the job alone.
LEMMA GotoIs ==
  ASSUME job \in Jobs, NEW s \in SwitchAt \cup ImportAt \cup CopyAt \cup UndoAt, Goto(s)
  PROVE  job' \in Jobs /\ Same(job') /\ job'.at = s /\ job'.state = job.state /\ job'.todo = job.todo
BY DEF Goto, Jobs, Same

\* A task that raises is taken to its rollback from the beginning, with all its ids.
LEMMA RaiseIs ==
  ASSUME job \in Jobs, Raise
  PROVE  /\ job' \in Jobs /\ Same(job') /\ job'.at = "unload" /\ job'.state = "back"
         /\ job'.todo = job.ids
BY DEF Raise, Jobs, Same, SwitchAt

\* A task that restores the previous library itself begins to.
LEMMA RestoreIs ==
  ASSUME job \in Jobs, Restore
  PROVE  /\ job' \in Jobs /\ Same(job') /\ job'.at = "unload" /\ job'.state = "inner"
         /\ job'.todo = job.todo
BY DEF Restore, Jobs, Same, SwitchAt

\* A rollback that fails is parked, but for the one the task made itself.
LEMMA FailIs ==
  ASSUME job \in Jobs, Fail
  PROVE  /\ job' \in Jobs /\ Same(job')
         /\ IF job.state = "inner" THEN Raise
            ELSE job'.at = job.at /\ job'.state = "parked" /\ job'.todo = job.todo
<1>1. CASE job.state = "inner"
  BY <1>1, RaiseIs DEF Fail
<1>2. CASE job.state # "inner"
  <2>1. job' = [job EXCEPT !.state = "parked"]
    BY <1>2 DEF Fail
  <2> QED BY <1>2, <2>1 DEF Jobs, Same
<1> QED BY <1>1, <1>2

\* Where a switch can go from where it is, its phase and its stage apart.
SwitchGoes == (\E s \in SwitchAt : Goto(s)) \/ Raise \/ Restore

\* A step of a switch keeps what is said of the tasks.
LEMMA SwitchGoesTypes ==
  ASSUME Types, job.kind \in Switch, job.state = "run", SwitchGoes, born' = born, up' = up,
         work' \in Spaces, work'.prepared = work.prepared, work'.moved = work.moved,
         Made(work'.stage), Made(work'.previous),
         work'.stage \in {work.stage, Absent},
         Goto("apply") => work'.stage \in Contents
  PROVE  Tasks1'
<1>0. job \in Jobs /\ job.ids \subseteq job.ids /\ job.todo \subseteq job.ids /\ job.to = 0 /\ up
      /\ job.phase \in {"", "cut", "ready", "swapped", "rolled_back"} 
      /\ (job.phase = "" => work'.stage = Absent)
  BY DEF Types, Tasked, Switched1
<1>1. ASSUME NEW s \in SwitchAt, Goto(s)
      PROVE  Tasks1'
  <2>1. job' \in Jobs /\ Same(job') /\ job'.at = s /\ job'.state = job.state /\ job'.todo = job.todo
    BY <1>0, <1>1, GotoIs
  <2>2. s = "apply" => work'.stage \in Contents
    BY <1>1
  <2> QED BY <1>0, <2>1, <2>2, SwitchMoves DEF Same
<1>2. CASE Raise
  <2>1. /\ job' \in Jobs /\ Same(job') /\ job'.at = "unload" /\ job'.state = "back"
        /\ job'.todo = job.ids
    BY <1>0, <1>2, RaiseIs
  <2> QED BY <1>0, <2>1, SwitchMoves DEF Same, UndoAt
<1>3. CASE Restore
  <2>1. /\ job' \in Jobs /\ Same(job') /\ job'.at = "unload" /\ job'.state = "inner"
        /\ job'.todo = job.todo
    BY <1>0, <1>3, RestoreIs
  <2> QED BY <1>0, <2>1, SwitchMoves DEF Same, UndoAt
<1> QED BY <1>1, <1>2, <1>3 DEF SwitchGoes

\* Steps of a switch that leave its workspace alone.
LEMMA SwitchLooks ==
  ASSUME Types, Begin \/ Target \/ Bind \/ Recheck \/ Release \/ Check \/ Seal
  PROVE  SwitchGoes /\ ~Goto("apply") /\ UNCHANGED <<world, trash, catalog, up, work, req, born, kept, spent>>
         /\ job.kind \in Switch /\ job.state = "run"
<1>1. job \in Jobs
  BY DEF Types, Tasked
<1>2. \A s \in SwitchAt : Goto(s) => job'.at = s
  BY <1>1, GotoIs
<1>3. job.kind \in Switch /\ job.state = "run"
  BY DEF Begin, Target, Bind, Recheck, Release, Check, Seal, On, Switch
<1>4. UNCHANGED <<world, trash, catalog, up, work, req, born, kept, spent>>
  BY DEF Begin, Target, Bind, Recheck, Release, Check, Seal, disk
<1>5. (\E s \in SwitchAt \ {"apply"} : Goto(s)) \/ Raise \/ Restore
  <2>1. CASE Begin
    BY <2>1 DEF Begin, SwitchAt, On, Switch
  <2>2. CASE Target
    <3>1. ("recheck" \in SwitchAt \ {"apply"}) /\ "cut" \in SwitchAt \ {"apply"}
      BY DEF SwitchAt
    <3> QED BY <2>2, <3>1 DEF Target
  <2>3. CASE Bind \/ Recheck \/ Release \/ Check \/ Seal
    BY <2>3 DEF Bind, Recheck, Release, Check, Seal, SwitchAt
  <2> QED BY <2>1, <2>2, <2>3
<1>6. ~Goto("apply")
  <2>1. \A s \in SwitchAt \ {"apply"} : Goto(s) => job'.at # "apply"
    BY <1>2
  <2>2. (Raise \/ Restore) => job'.at # "apply"
    BY <1>1, RaiseIs, RestoreIs
  <2>3. "apply" \in SwitchAt
    BY DEF SwitchAt
  <2> QED BY <1>2, <1>5, <2>1, <2>2, <2>3
<1> QED BY <1>3, <1>4, <1>5, <1>6 DEF SwitchGoes

\* The steps of a switch that leave its workspace alone keep the types.
LEMMA SwitchLooksTypes ==
  ASSUME Types, Begin \/ Target \/ Bind \/ Recheck \/ Release \/ Check \/ Seal
  PROVE  Types'
<1>1. SwitchGoes /\ ~Goto("apply") /\ UNCHANGED <<world, trash, catalog, up, work, req, born, kept, spent>>
      /\ job.kind \in Switch /\ job.state = "run"
  BY SwitchLooks
<1>2. Id \in Ids /\ Disks /\ Requested
  BY <1>1, SwitchIs DEF Types
<1>3. Tasks1'
  BY <1>1, SwitchGoesTypes DEF Types, Tasked
<1>4. \/ UNCHANGED <<live, resident>>
      \/ Touch({Id})
      \/ live' = [live EXCEPT ![Id] = IF @ = Absent THEN Hollow ELSE @] /\ UNCHANGED resident
      \/ Unload(Id) /\ UNCHANGED live
  BY DEF Begin, Target, Bind, Recheck, Release, Check, Seal, disk
<1>5. /\ live' \in [Ids -> Places] /\ resident' \in [Ids -> {"none", "here", "stale"}]
      /\ \A l \in Ids : live'[l] \in Contents => live'[l] = live[l]
  BY <1>2, <1>4, TouchIs, UnloadIs, Values DEF Disks
<1>6. Disks'
  BY <1>1, <1>2, <1>5, DisksMove DEF Disks, Made
<1> QED BY <1>1, <1>2, <1>3, <1>6 DEF Types, Tasks1, Requested

\* A copy of a library with the change of the task.
LEMMA ChangedIs ==
  ASSUME NEW x \in Contents, NEW s \in {"task", "edit", "owner"}
  PROVE  /\ [x EXCEPT !.has = @ \cup {s}] \in Contents /\ [x EXCEPT !.has = @ \cup {s}].of = x.of
         /\ [x EXCEPT !.has = @ \ {s}] \in Contents /\ [x EXCEPT !.has = @ \ {s}].of = x.of
BY DEF Contents

\* So do those that make and change the copy.
LEMMA CutTypes ==
  ASSUME Types, Cut \/ Apply
  PROVE  Types'
<1>1. UNCHANGED <<world, disk, resident, up, req, born, kept, spent>> /\ job.kind \in Switch
      /\ job.state = "run"
  BY DEF Cut, Apply, On, Switch
<1>2. Disks /\ Requested /\ Disks' /\ Requested'
  BY <1>1 DEF Types, Disks, Requested, disk, Made
<1>3. /\ Id \in Ids /\ job \in Jobs /\ work \in Spaces /\ job.to = 0 /\ job.todo \subseteq job.ids /\ up
      /\ job.kind \in {"mutation", "removal", "rebuild"} /\ live[Id] \in Places
  BY <1>1, SwitchIs DEF Types, Tasked, Switched1
<1>4. CASE Cut
  <2>1. CASE Raise /\ UNCHANGED work
    <3>1. SwitchGoes /\ ~Goto("apply")
      BY <1>3, <2>1, RaiseIs, GotoIs DEF SwitchGoes, SwitchAt
    <3> QED BY <1>1, <1>2, <2>1, <3>1, SwitchGoesTypes DEF Types, Tasks1, Tasked
  <2>2. ASSUME Full(Id), work' = [work EXCEPT !.stage = live[Id]],
               job' = [job EXCEPT !.phase = "cut", !.at = "apply"]
        PROVE  Tasks1'
    <3>1. live[Id] \in Contents /\ Made(live[Id])
      BY <1>2, <1>3, <2>2, FullIs DEF Disks
    <3>2. /\ work' \in Spaces /\ work'.stage = live[Id] /\ work'.previous = work.previous
          /\ work'.prepared = work.prepared /\ work'.moved = work.moved
      BY <1>3, <2>2 DEF Spaces
    <3>3. /\ job' \in Jobs /\ job'.kind = job.kind /\ job'.ids = job.ids /\ job'.to = job.to
          /\ job'.base = job.base /\ job'.state = job.state /\ job'.todo = job.todo
          /\ job'.at = "apply" /\ job'.phase = "cut"
      BY <1>3, <2>2 DEF Jobs, SwitchAt
    <3>4. Made(work.previous) /\ "apply" \in SwitchAt
      BY DEF Types, Tasked, SwitchAt
    <3> QED BY <1>1, <1>3, <3>1, <3>2, <3>3, <3>4, SwitchMoves
  <2> QED BY <1>2, <1>4, <2>1, <2>2 DEF Cut, Types, Tasks1
<1>5. CASE Apply
  <2>1. work.stage \in Contents /\ Made(work.stage) /\ Made(work.previous)
    BY <1>1, <1>5 DEF Types, Tasked, Switched1, Apply, On
  <2> DEFINE x == [work.stage EXCEPT !.has = @ \cup {"task"}]
  <2>2. x \in Contents /\ x.of = work.stage.of /\ x \in Places
    BY <2>1, ChangedIs, Values
  <2>3. work' = [work EXCEPT !.stage = x]
    BY <1>5 DEF Apply
  <2> HIDE DEF x
  <2>4. /\ work' \in Spaces /\ work'.stage = x /\ work'.previous = work.previous
        /\ work'.prepared = work.prepared /\ work'.moved = work.moved
    BY <1>3, <2>2, <2>3 DEF Spaces
  <2>5. PICK s \in {"unload", "recheck"} : job' = [job EXCEPT !.phase = "ready", !.at = s]
    BY <1>5 DEF Apply
  <2>6. /\ job' \in Jobs /\ job'.kind = job.kind /\ job'.ids = job.ids /\ job'.to = job.to
        /\ job'.base = job.base /\ job'.state = job.state /\ job'.todo = job.todo
        /\ job'.at = s /\ job'.phase = "ready" /\ s \in SwitchAt
    BY <1>3, <2>5 DEF Jobs, SwitchAt
  <2>7. Tasks1'
    BY <1>1, <1>3, <2>1, <2>2, <2>4, <2>6, SwitchMoves DEF Made
  <2> QED BY <1>2, <2>7 DEF Types, Tasks1
<1> QED BY <1>4, <1>5

\* So do the renames and the note of them.
LEMMA MoveTypes ==
  ASSUME Types, MoveOut \/ MoveIn \/ Note
  PROVE  Types'
<1>1. UNCHANGED <<world, trash, catalog, up, req, born, kept, spent>> /\ job.kind \in Switch
      /\ job.state = "run"
  BY DEF MoveOut, MoveIn, Note, On, Switch, disk
<1>2. Disks /\ Requested /\ Requested' /\ Made(work.stage) /\ Made(work.previous)
  BY <1>1 DEF Types, Requested, Tasked
<1>3. /\ Id \in Ids /\ job \in Jobs /\ work \in Spaces /\ job.to = 0 /\ job.todo \subseteq job.ids /\ up
      /\ live[Id] \in Places /\ Made(live[Id]) /\ (job.phase = "" => work.stage = Absent)
  BY <1>1, SwitchIs DEF Types, Tasked, Switched1, Disks
<1>4. ASSUME NEW s \in SwitchAt, Goto(s) PROVE job'.at = s
  BY <1>3, <1>4, GotoIs
<1>5. CASE MoveOut
  <2>1. (Goto("in") \/ Raise) /\ SwitchGoes /\ ~Goto("apply")
    BY <1>3, <1>4, <1>5, RaiseIs DEF MoveOut, SwitchGoes, SwitchAt
  <2>2. CASE UNCHANGED <<live, resident, work>>
    <3>1. Tasks1'
      BY <1>1, <1>2, <1>3, <2>1, <2>2, SwitchGoesTypes
    <3> QED BY <1>1, <1>2, <2>2, <3>1, DisksMove DEF Types, Tasks1, Disks, Made
  <2>3. ASSUME work' = [work EXCEPT !.previous = live[Id]],
               live' = [live EXCEPT ![Id] = Absent], Leave(Id)
        PROVE  Types'
    <3>1. /\ work' \in Spaces /\ work'.stage = work.stage /\ work'.previous = live[Id]
          /\ work'.prepared = work.prepared /\ work'.moved = work.moved
      BY <1>3, <2>3 DEF Spaces
    <3>2. Tasks1'
      BY <1>1, <1>2, <1>3, <2>1, <3>1, SwitchGoesTypes
    <3> QED BY <1>1, <1>2, <1>3, <2>3, <3>2, Values, PutIs, LeaveIs, DisksMove DEF Types, Tasks1, Disks
  <2> QED BY <1>5, <2>2, <2>3 DEF MoveOut
<1>6. CASE MoveIn
  <2>1. (Goto("note") \/ Raise) /\ SwitchGoes /\ ~Goto("apply") /\ UNCHANGED resident
    BY <1>3, <1>4, <1>6, RaiseIs DEF MoveIn, SwitchGoes, SwitchAt
  <2>2. CASE UNCHANGED <<live, work>>
    <3>1. Tasks1'
      BY <1>1, <1>2, <1>3, <2>1, <2>2, SwitchGoesTypes
    <3> QED BY <1>1, <1>2, <2>1, <2>2, <3>1, DisksMove DEF Types, Tasks1, Disks, Made
  <2>3. ASSUME work' = [work EXCEPT !.stage = Absent],
               live' = [live EXCEPT ![Id] = IF work.stage = Absent THEN @ ELSE work.stage]
        PROVE  Types'
    <3>1. /\ work' \in Spaces /\ work'.stage = Absent /\ work'.previous = work.previous
          /\ work'.prepared = work.prepared /\ work'.moved = work.moved
      BY <1>3, <2>3, Values DEF Spaces
    <3>2. Tasks1'
      BY <1>1, <1>2, <1>3, <2>1, <3>1, SwitchGoesTypes, Values DEF Made
    <3>3. work.stage \in Places
      BY <1>3 DEF Spaces
    <3>4. PICK x \in Places : live' = [live EXCEPT ![Id] = x] /\ (x \in Contents => x.of <= born)
      BY <1>2, <1>3, <2>3, <3>3 DEF Made
    <3> QED BY <1>1, <1>2, <1>3, <2>1, <3>2, <3>4, PutIs, DisksMove DEF Types, Tasks1, Disks
  <2> QED BY <1>6, <2>2, <2>3 DEF MoveIn
<1>7. CASE Note
  <2>1. job' = [job EXCEPT !.phase = "swapped", !.at = "check"] /\ UNCHANGED <<live, resident, work>>
    BY <1>7 DEF Note, disk
  <2>2. /\ job' \in Jobs /\ job'.kind = job.kind /\ job'.ids = job.ids /\ job'.to = job.to
        /\ job'.base = job.base /\ job'.state = job.state /\ job'.todo = job.todo
        /\ job'.at = "check" /\ job'.phase = "swapped"
    BY <1>3, <2>1 DEF Jobs, SwitchAt
  <2>3. Tasks1'
    BY <1>1, <1>2, <1>3, <2>1, <2>2, SwitchMoves DEF SwitchAt
  <2> QED BY <1>1, <1>2, <2>1, <2>3, DisksMove DEF Types, Tasks1, Disks, Made
<1> QED BY <1>5, <1>6, <1>7
-----------------------------------------------------------------------------
\* Types: the end of a task, and imports.

\* Taking the markers away changes no library otherwise.
LEMMA PlainIs ==
  ASSUME Disks, live' = Plain
  PROVE  /\ live' \in [Ids -> Places]
         /\ \A l \in Ids :
              /\ live[l] \notin Contents => live'[l] = live[l]
              /\ live[l] \in Contents =>
                   /\ live'[l] \in Contents /\ live'[l].of = live[l].of
                   /\ live'[l].has = IF l \in job.ids THEN live[l].has \ {"owner"} ELSE live[l].has
              /\ ~(l \in job.ids /\ Owned(l)) => live'[l] = live[l]
<1> DEFINE x(l) == [live[l] EXCEPT !.has = @ \ {"owner"}]
<1>1. ASSUME NEW l \in Ids
      PROVE  live'[l] = IF l \in job.ids /\ Owned(l) THEN x(l) ELSE live[l]
  BY <1>1 DEF Plain
<1>2. ASSUME NEW l \in Ids, live[l] \in Contents
      PROVE  x(l) \in Contents /\ x(l).of = live[l].of /\ x(l).has = live[l].has \ {"owner"}
  BY <1>2 DEF Contents
<1> HIDE DEF x
<1>3. \A l \in Ids : (Full(l) <=> live[l] \in Contents) /\ live[l] \in Places
  BY FullIs
<1>4. ASSUME NEW l \in Ids
      PROVE  /\ live'[l] \in Places
             /\ live[l] \notin Contents => live'[l] = live[l]
             /\ live[l] \in Contents =>
                   /\ live'[l] \in Contents /\ live'[l].of = live[l].of
                   /\ live'[l].has = IF l \in job.ids THEN live[l].has \ {"owner"} ELSE live[l].has
             /\ ~(l \in job.ids /\ Owned(l)) => live'[l] = live[l]
  <2>1. CASE l \in job.ids /\ Owned(l)
    <3>1. live[l] \in Contents
      BY <1>3, <2>1 DEF Owned
    <3> QED BY <1>1, <1>2, <2>1, <3>1, Values
  <2>2. CASE ~(l \in job.ids /\ Owned(l))
    <3>1. live[l] \in Contents => l \notin job.ids \/ "owner" \notin live[l].has
      BY <1>3, <2>2 DEF Owned
    <3>2. live[l] \in Contents /\ "owner" \notin live[l].has => live[l].has \ {"owner"} = live[l].has
      BY DEF Contents
    <3> QED BY <1>1, <1>3, <2>2, <3>1, <3>2
  <2> QED BY <2>1, <2>2
<1>5. live' = [l \in Ids |-> live'[l]]
  BY DEF Plain
<1> QED BY <1>4, <1>5

\* The end of a task keeps the types.
LEMMA FinishTypes ==
  ASSUME Types, Finish
  PROVE  Types'
<1>1. /\ Complete /\ live' = Plain /\ UNCHANGED <<world, trash, catalog, resident, up, req, born, spent>>
      /\ kept' \subseteq kept \cup {live[l].of : l \in {m \in Ids : Full(m)}}
      /\ Disks /\ Requested /\ job.ids \subseteq Ids
  BY DEF Finish, Types, Tasked, Jobs
<1>2. Tasks1'
  BY <1>1, EndIs
<1>3. \A l \in Ids : Full(l) => live[l].of \in 1..born
  BY <1>1, FullIs, Numbers DEF Disks, Made, Contents, Births
<1>4. kept' \subseteq 1..born
  BY <1>1, <1>3 DEF Disks
<1>5. \A l \in Ids : live'[l] \in Contents => live'[l].of <= born
  BY <1>1, PlainIs DEF Disks, Made
<1>6. Disks'
  BY <1>1, <1>4, <1>5, PlainIs, DisksMove DEF Disks
<1> QED BY <1>1, <1>2, <1>6 DEF Types, Tasks1, Requested

\* An import moves to another step, or is taken to its rollback.
LEMMA ImportMoves ==
  ASSUME Types, job.kind = "import", job' \in Jobs, work' \in Spaces, born <= born', born' \in Nat, up' = up,
         job'.kind = job.kind, job'.ids = job.ids, job'.base = job.base,
         job'.to \in job.ids \cup {0}, job'.todo \subseteq job.ids,
         job'.state \in {"run", "back", "parked"}, job'.state # "parked" => up,
         job'.phase \in {"", "ready", "moving", "installed"},
         job'.state = "run" => /\ job'.at \in ImportAt
                               /\ (job'.phase = "" <=> job'.at = "prepare") \/ job'.at = "begin"
                               /\ job'.at = "moved" => job'.todo # {},
         job'.state = "back" => /\ job'.at \in {"unload", "remove"}
                                /\ job'.at = "remove" => job'.to \in job'.todo,
         job'.phase = "" => work' = NoWork,
         work'.stage = Absent, work'.previous = Absent, work'.moved \subseteq job.ids,
         \A l \in Ids : work'.prepared[l] # Absent => l \in job.ids /\ work'.prepared[l].of <= born'
  PROVE  Tasks1'
<1>1. job.kind # "none" /\ job.kind \notin Switch /\ job.kind # "copy"
  BY DEF Switch
<1>2. NoWork' = NoWork
  BY DEF NoWork
<1>3. Made(work.stage)' /\ Made(work.previous)' /\ (\A l \in Ids : Made(work.prepared[l]))'
  BY Values DEF Made
<1>4. Tasked'
  BY <1>1, <1>3 DEF Types, Tasked
<1>5. Imported1'
  BY <1>1, <1>2 DEF Types, Imported1
<1>6. Switched1' /\ Copied1'
  BY <1>1 DEF Switched1, Copied1
<1> QED BY <1>4, <1>5, <1>6 DEF Tasks1

\* What an import is like.
LEMMA ImportIs ==
  ASSUME Types, job.kind = "import"
  PROVE  /\ job \in Jobs /\ work \in Spaces /\ job.ids \subseteq Ids /\ job.ids # {}
         /\ job.todo \subseteq job.ids /\ job.to \in job.ids \cup {0}
         /\ work.stage = Absent /\ work.previous = Absent /\ work.moved \subseteq job.ids
         /\ job.phase \in {"", "ready", "moving", "installed"} /\ (job.phase = "" => work = NoWork)
         /\ \A l \in Ids : work.prepared[l] # Absent => l \in job.ids /\ work.prepared[l].of <= born
         /\ job.state \in {"run", "back", "parked"} /\ (job.state # "parked" => up)
<1>1. \A l \in Ids : work.prepared[l] # Absent => work.prepared[l] \in Contents
  BY DEF Types, Tasked, Spaces
<1> QED BY <1>1 DEF Types, Tasked, Imported1, Jobs, Made

\* An import that raises keeps what is said of the tasks.
LEMMA ImportRaises ==
  ASSUME Types, job.kind = "import", job.state \in {"run", "parked"}, up, Raise, UNCHANGED <<work, up>>,
         born <= born', born' \in Nat
  PROVE  Tasks1'
<1>1. /\ job' \in Jobs /\ Same(job') /\ job'.at = "unload" /\ job'.state = "back"
      /\ job'.todo = job.ids
  BY ImportIs, RaiseIs
<1>2. born \in Nat /\ \A l \in Ids : work.prepared[l] # Absent => work.prepared[l].of \in Nat
  <2>1. work.prepared \in [Ids -> Contents \cup {Absent}] /\ born \in Births
    BY ImportIs DEF Spaces, Types, Disks
  <2> QED BY <2>1, Numbers DEF Contents
<1>4. \A l \in Ids : work.prepared[l] # Absent => work.prepared[l].of <= born
  BY ImportIs
<1>3. \A l \in Ids : work.prepared[l] # Absent => work.prepared[l].of <= born'
  BY <1>2, <1>4
<1> QED BY <1>1, <1>3, ImportIs, ImportMoves DEF Same

\* The packages of an import are numbered in the order of their ids.
Rank(S, l) == Cardinality({m \in S : m <= l})

\* Ids of a set are counted from 1 to its size, each with a number of its own.
LEMMA Ranks ==
  ASSUME NEW S \in SUBSET Ids
  PROVE  /\ Cardinality(S) \in Nat
         /\ \A l \in S : Rank(S, l) \in 1..Cardinality(S)
         /\ \A l, m \in S : l # m => Rank(S, l) # Rank(S, m)
<1>0. S \subseteq Nat /\ IsFiniteSet(S)
  <2>1. IsFiniteSet(Ids)
    BY FS_Interval, Numbers DEF Ids
  <2> QED BY <2>1, FS_Subset, Numbers
<1> DEFINE Low(l) == {m \in S : m <= l}
<1>1. ASSUME NEW l \in S
      PROVE  /\ IsFiniteSet(Low(l)) /\ Cardinality(Low(l)) \in Nat
             /\ Cardinality(Low(l)) <= Cardinality(S) /\ Cardinality(Low(l)) # 0
  <2>1. Low(l) \subseteq S /\ l \in Low(l)
    BY <1>0
  <2>2. IsFiniteSet(Low(l)) /\ Cardinality(Low(l)) <= Cardinality(S)
    BY <1>0, <2>1, FS_Subset
  <2> HIDE DEF Low
  <2>3. Cardinality(Low(l)) \in Nat
    BY <2>2, FS_CardinalityType
  <2>4. Cardinality(Low(l)) # 0
    BY <2>1, <2>2, FS_EmptySet
  <2> QED BY <2>2, <2>3, <2>4
<1>2. ASSUME NEW l \in S, NEW m \in S, l < m
      PROVE  Cardinality(Low(l)) < Cardinality(Low(m))
  <2>0. l \in Nat /\ m \in Nat /\ \A x \in S : x <= l => x <= m
    BY <1>0, <1>2
  <2>6. l <= m /\ m <= m /\ ~(m <= l)
    BY <1>2, <2>0
  <2>1. Low(l) \subseteq Low(m) /\ m \in Low(m) /\ m \notin Low(l)
    BY <2>0, <2>6
  <2>2. IsFiniteSet(Low(l)) /\ IsFiniteSet(Low(m))
    BY <1>1
  <2> HIDE DEF Low
  <2>3. Low(l) # Low(m)
    BY <2>1
  <2>4. Cardinality(Low(l)) \in Nat /\ Cardinality(Low(m)) \in Nat
    BY <2>2, FS_CardinalityType
  <2>5. Cardinality(Low(l)) <= Cardinality(Low(m)) /\ (Cardinality(Low(l)) = Cardinality(Low(m)) => Low(l) = Low(m))
    BY <2>1, <2>2, FS_Subset
  <2> QED BY <2>3, <2>4, <2>5
<1>3. Cardinality(S) \in Nat
  BY <1>0, FS_CardinalityType
<1>4. \A l : Rank(S, l) = Cardinality(Low(l))
  BY DEF Rank
<1> HIDE DEF Low
<1>5. ASSUME NEW l \in S, NEW m \in S, l # m
      PROVE  Rank(S, l) # Rank(S, m)
  <2>1. l < m \/ m < l
    BY <1>0, <1>5
  <2> QED BY <1>1, <1>2, <1>4, <2>1
<1>6. \A l \in S : Rank(S, l) \in 1..Cardinality(S)
  BY <1>1, <1>3, <1>4
<1> QED BY <1>3, <1>5, <1>6

\* What an import prepares: a library of its own for each of its ids.
PreparedNow == [l \in Ids |-> IF l \in job.ids THEN [of |-> born + Rank(job.ids, l), has |-> {"owner"}]
                              ELSE Absent]

\* The prepared packages are new libraries, one for each id, with the marker of the import.
LEMMA PreparedIs ==
  ASSUME Types, job.kind = "import", born + Cardinality(job.ids) <= MaxBorn
  PROVE  /\ PreparedNow \in [Ids -> Contents \cup {Absent}]
         /\ \A l \in Ids \ job.ids : PreparedNow[l] = Absent
         /\ \A l \in job.ids : /\ PreparedNow[l] \in Contents /\ "owner" \in PreparedNow[l].has
                               /\ PreparedNow[l].of > born
                               /\ PreparedNow[l].of <= born + Cardinality(job.ids)
         /\ \A l, m \in job.ids : l # m => PreparedNow[l].of # PreparedNow[m].of
         /\ born + Cardinality(job.ids) \in Births /\ Cardinality(job.ids) \in Nat
<1>1. job.ids \in SUBSET Ids /\ born \in Births /\ born \in Nat /\ MaxBorn \in Nat /\ job.ids # {}
  BY ImportIs, Numbers DEF Types, Disks
<1>2. /\ Cardinality(job.ids) \in Nat
      /\ \A l \in job.ids : Rank(job.ids, l) \in 1..Cardinality(job.ids)
      /\ \A l, m \in job.ids : l # m => Rank(job.ids, l) # Rank(job.ids, m)
  BY <1>1, Ranks
<1>3. \A l \in job.ids : /\ born + Rank(job.ids, l) \in Births /\ born + Rank(job.ids, l) > born
                         /\ born + Rank(job.ids, l) <= born + Cardinality(job.ids)
  BY <1>1, <1>2 DEF Births
<1>4. /\ \A l \in job.ids : PreparedNow[l] = [of |-> born + Rank(job.ids, l), has |-> {"owner"}]
      /\ \A l \in Ids \ job.ids : PreparedNow[l] = Absent
      /\ PreparedNow = [l \in Ids |-> PreparedNow[l]]
  BY <1>1 DEF PreparedNow
<1>9. \A n \in Births : /\ [of |-> n, has |-> {"owner"}] \in Contents
                        /\ [of |-> n, has |-> {"owner"}].of = n
                        /\ "owner" \in [of |-> n, has |-> {"owner"}].has
  BY DEF Contents
<1>5. \A l \in job.ids : PreparedNow[l] \in Contents /\ PreparedNow[l].of = born + Rank(job.ids, l)
                         /\ "owner" \in PreparedNow[l].has
  BY <1>3, <1>4, <1>9
<1>6. PreparedNow \in [Ids -> Contents \cup {Absent}]
  BY <1>4, <1>5
<1>7. \A l, m \in job.ids : l # m => born + Rank(job.ids, l) # born + Rank(job.ids, m)
  BY <1>1, <1>2
<1>8. born + Cardinality(job.ids) \in Births
  BY <1>1, <1>2 DEF Births
<1> QED BY <1>2, <1>3, <1>4, <1>5, <1>6, <1>7, <1>8

\* Preparing raises, or prepares all of them where every id is free.
LEMMA PrepareIs ==
  ASSUME Types, Prepare
  PROVE  /\ job.kind = "import" /\ job.state = "run" /\ job.at = "prepare" /\ up /\ job.phase = ""
         /\ \/ Raise /\ UNCHANGED <<work, born>>
            \/ /\ \A l \in job.ids : l \notin catalog /\ live[l] = Absent
               /\ work' = [work EXCEPT !.prepared = PreparedNow]
               /\ born' = born + Cardinality(job.ids) /\ born' <= MaxBorn
               /\ job' = [job EXCEPT !.phase = "ready", !.at = "move"]
BY DEF Prepare, On, PreparedNow, Rank, Types, Imported1, Tasked

\* It keeps the types.
LEMMA PrepareTypes ==
  ASSUME Types, Prepare
  PROVE  Types'
<1>1. /\ job.kind = "import" /\ job.state = "run" /\ up
      /\ UNCHANGED <<world, disk, resident, up, req, kept, spent>>
      /\ Disks /\ Requested /\ born \in Nat
  BY PrepareIs, Numbers DEF Prepare, Types, Disks
<1>2. CASE Raise /\ UNCHANGED <<work, born>>
  <2>1. Tasks1'
    BY <1>1, <1>2, ImportRaises
  <2> QED BY <1>1, <1>2, <2>1 DEF Types, Tasks1, Disks, Requested, Made, disk
<1>3. ASSUME work' = [work EXCEPT !.prepared = PreparedNow],
             born' = born + Cardinality(job.ids), born' <= MaxBorn,
             job' = [job EXCEPT !.phase = "ready", !.at = "move"]
      PROVE  Types'
  <2>1. /\ PreparedNow \in [Ids -> Contents \cup {Absent}]
        /\ \A l \in Ids \ job.ids : PreparedNow[l] = Absent
        /\ \A l \in job.ids : PreparedNow[l].of <= born'
        /\ born' \in Births /\ born' \in Nat /\ born <= born'
    BY <1>1, <1>3, PreparedIs, Numbers
  <2>2. /\ work' \in Spaces /\ work'.stage = work.stage /\ work'.previous = work.previous
        /\ work'.moved = work.moved /\ work'.prepared = PreparedNow
    BY <1>1, <1>3, <2>1, ImportIs DEF Spaces
  <2>3. /\ job' \in Jobs /\ job'.kind = job.kind /\ job'.ids = job.ids /\ job'.to = job.to
        /\ job'.base = job.base /\ job'.state = job.state /\ job'.todo = job.todo
        /\ job'.at = "move" /\ job'.phase = "ready"
    BY <1>1, <1>3, ImportIs DEF Jobs, ImportAt
  <2>4. \A l \in Ids : work'.prepared[l] # Absent => l \in job.ids /\ work'.prepared[l].of <= born'
    BY <2>1, <2>2
  <2>5. "move" \in ImportAt
    BY DEF ImportAt
  <2>6. Tasks1'
    BY <1>1, <2>1, <2>2, <2>3, <2>4, <2>5, ImportIs, ImportMoves
  <2>7. \A x \in Contents : x.of \in Nat
    BY Numbers DEF Contents
  <2>8. Disks'
    BY <1>1, <2>1, <2>7 DEF Disks, Made, disk
  <2> QED BY <1>1, <2>6, <2>8 DEF Types, Tasks1, Requested
<1> QED BY <1>2, <1>3, PrepareIs

\* The other steps of an import.
LEMMA ImportTypes ==
  ASSUME Types, ImportBegin \/ Move \/ Moved \/ Enroll \/ Show \/ Unmark
  PROVE  Types'
<1>1. /\ job.kind = "import" /\ job.state = "run" /\ UNCHANGED <<world, trash, up, req, born, kept, spent>>
      /\ Disks /\ Requested
  BY DEF ImportBegin, Move, Moved, Enroll, Show, Unmark, On, Types, disk
<1>2. /\ job \in Jobs /\ work \in Spaces /\ job.ids \subseteq Ids /\ job.ids # {}
      /\ job.todo \subseteq job.ids /\ job.to \in job.ids \cup {0} /\ up
      /\ work.stage = Absent /\ work.previous = Absent /\ work.moved \subseteq job.ids
      /\ job.phase \in {"", "ready", "moving", "installed"} /\ (job.phase = "" => work = NoWork)
      /\ (\A l \in Ids : work.prepared[l] # Absent => l \in job.ids /\ work.prepared[l].of <= born)
      /\ born \in Nat /\ born <= born
      /\ job.at \in ImportAt /\ ((job.phase = "" <=> job.at = "prepare") \/ job.at = "begin")
      /\ (job.at = "moved" => job.todo # {})
  <2>1. born \in Nat /\ born <= born
    BY <1>1, Numbers DEF Disks
  <2>2. /\ job.at \in ImportAt /\ ((job.phase = "" <=> job.at = "prepare") \/ job.at = "begin")
        /\ (job.at = "moved" => job.todo # {})
    BY <1>1 DEF Types, Imported1
  <2>3. up
    BY <1>1, ImportIs
  <2> QED BY <1>1, <2>1, <2>2, <2>3, ImportIs
<1>3. Requested'
  BY <1>1 DEF Requested
<1>4. ASSUME NEW s \in ImportAt \ {"prepare", "begin"}, Goto(s), job.phase # "", s = "moved" => job.todo # {},
             work' \in Spaces, work'.stage = Absent, work'.previous = Absent, work'.moved \subseteq job.ids,
             \A l \in Ids : work'.prepared[l] # Absent => l \in job.ids /\ work'.prepared[l].of <= born
      PROVE  Tasks1'
  <2>1. job' \in Jobs /\ Same(job') /\ job'.at = s /\ job'.state = job.state /\ job'.todo = job.todo
    BY <1>2, <1>4, GotoIs
  <2> QED BY <1>1, <1>2, <1>4, <2>1, ImportMoves DEF Same
<1>5. ASSUME Raise, UNCHANGED work PROVE Tasks1'
  <2>1. born <= born' /\ born' \in Nat /\ up' = up
    BY <1>1, <1>2
  <2> QED BY <1>1, <1>2, <1>5, <2>1, ImportRaises
<1>6. ASSUME live' \in [Ids -> Places], resident' \in [Ids -> {"none", "here", "stale"}],
             catalog' \subseteq Ids, Tasks1',
             \A l \in Ids : live'[l] \in Contents => live'[l].of <= born
      PROVE  Types'
  BY <1>1, <1>3, <1>6, DisksMove DEF Types, Tasks1, Disks
<1>7. CASE ImportBegin
  <2>1. PICK s \in {"answer", "move", "prepare"} :
          /\ job' = [job EXCEPT !.todo = job.ids, !.at = s]
          /\ s = "prepare" <=> job.phase = ""
    BY <1>2, <1>7 DEF ImportBegin
  <2>2. /\ job' \in Jobs /\ Same(job') /\ job'.at = s /\ job'.state = job.state /\ job'.todo = job.ids
    BY <1>2, <2>1 DEF Jobs, Same, ImportAt
  <2>3. s \in ImportAt /\ s # "moved" /\ s # "begin"
    BY DEF ImportAt
  <2>4. UNCHANGED <<work, live, catalog, resident>>
    BY <1>7 DEF ImportBegin, disk
  <2>5. Tasks1'
    BY <1>1, <1>2, <2>1, <2>2, <2>3, <2>4, ImportMoves DEF Same
  <2> QED BY <1>1, <1>6, <2>4, <2>5 DEF Disks, Made
<1>8. CASE Move
  <2>1. job.todo # {} /\ job.phase # "" /\ Least(job.todo) \in Ids /\ UNCHANGED <<catalog, resident>>
        /\ "moved" \in ImportAt \ {"prepare", "begin"}
    BY <1>2, <1>8, LeastIn DEF Move, On, ImportAt
  <2>2. CASE Goto("moved") /\ UNCHANGED <<live, work>>
    <3>1. Tasks1'
      BY <1>2, <1>4, <2>1, <2>2
    <3> QED BY <1>1, <1>6, <2>1, <2>2, <3>1 DEF Disks, Made
  <2>3. ASSUME work.prepared[Least(job.todo)] # Absent, Goto("moved"),
               live' = [live EXCEPT ![Least(job.todo)] = work.prepared[Least(job.todo)]],
               work' = [work EXCEPT !.prepared[Least(job.todo)] = Absent]
        PROVE  Types'
    <3>1. /\ work' \in Spaces /\ work'.stage = work.stage /\ work'.previous = work.previous
          /\ work'.moved = work.moved
          /\ \A l \in Ids : work'.prepared[l] = IF l = Least(job.todo) THEN Absent ELSE work.prepared[l]
      BY <1>2, <2>1, <2>3 DEF Spaces
    <3>2. Tasks1'
      BY <1>2, <1>4, <2>1, <2>3, <3>1
    <3>3. work.prepared[Least(job.todo)] \in Places /\ work.prepared[Least(job.todo)].of <= born
      BY <1>2, <2>1, <2>3, Values DEF Spaces
    <3>4. live' \in [Ids -> Places] /\ \A l \in Ids : live'[l] \in Contents => live'[l].of <= born
      BY <1>1, <2>1, <2>3, <3>3, PutIs
    <3> QED BY <1>1, <1>6, <2>1, <3>2, <3>4 DEF Disks
  <2>4. CASE Raise /\ UNCHANGED <<live, work>>
    BY <1>1, <1>5, <1>6, <2>1, <2>4 DEF Disks, Made
  <2> QED BY <1>8, <2>2, <2>3, <2>4 DEF Move
<1>9. CASE Moved
  <2>1. /\ job.todo # {} /\ job.phase # "" /\ Least(job.todo) \in job.todo
        /\ UNCHANGED <<live, catalog, resident>>
    BY <1>2, <1>9, LeastIn DEF Moved, On, disk
  <2>2. /\ work' = [work EXCEPT !.moved = @ \cup {Least(job.todo)}]
        /\ job' = [job EXCEPT !.phase = "moving", !.todo = @ \ {Least(job.todo)}, !.at = "move"]
    BY <1>9 DEF Moved
  <2>3. /\ work' \in Spaces /\ work'.stage = work.stage /\ work'.previous = work.previous
        /\ work'.moved \subseteq job.ids /\ work'.prepared = work.prepared
    BY <1>2, <2>1, <2>2 DEF Spaces
  <2>4. /\ job' \in Jobs /\ job'.kind = job.kind /\ job'.ids = job.ids /\ job'.to = job.to
        /\ job'.base = job.base /\ job'.state = job.state /\ job'.todo \subseteq job.todo
        /\ job'.at = "move" /\ job'.phase = "moving"
    BY <1>2, <2>2 DEF Jobs, ImportAt
  <2>5. Tasks1'
    BY <1>1, <1>2, <2>3, <2>4, ImportMoves DEF ImportAt
  <2> QED BY <1>1, <1>6, <2>1, <2>5 DEF Disks, Made
<1>10. CASE Enroll
  <2>1. job.phase # "" /\ UNCHANGED <<live, resident, work>>
    BY <1>2, <1>10 DEF Enroll, On
  <2>2. CASE Raise /\ UNCHANGED catalog
    BY <1>1, <1>5, <1>6, <2>1, <2>2 DEF Disks, Made
  <2>3. ASSUME catalog' = catalog \cup job.ids, job' = [job EXCEPT !.phase = "installed", !.at = "show"]
        PROVE  Types'
    <3>1. /\ job' \in Jobs /\ job'.kind = job.kind /\ job'.ids = job.ids /\ job'.to = job.to
          /\ job'.base = job.base /\ job'.state = job.state /\ job'.todo = job.todo
          /\ job'.at = "show" /\ job'.phase = "installed"
      BY <1>2, <2>3 DEF Jobs, ImportAt
    <3>2. Tasks1'
      BY <1>1, <1>2, <2>1, <3>1, ImportMoves DEF ImportAt
    <3> QED BY <1>1, <1>2, <1>6, <2>1, <2>3, <3>2 DEF Disks, Made
  <2> QED BY <1>10, <2>2, <2>3 DEF Enroll
<1>11. CASE Show \/ Unmark
  <2>1. /\ job.phase # "" /\ UNCHANGED <<catalog, work>>
        /\ (\E s \in {"unmark", "end"} : Goto(s)) \/ Raise
    BY <1>2, <1>11 DEF Show, Unmark, On
  <2>2. Tasks1'
    <3>1. {"unmark", "end"} \subseteq ImportAt \ {"prepare", "begin"} /\ "moved" \notin {"unmark", "end"}
      BY DEF ImportAt
    <3>2. /\ work' \in Spaces /\ work'.stage = Absent /\ work'.previous = Absent
          /\ work'.moved \subseteq job.ids
          /\ \A l \in Ids : work'.prepared[l] # Absent => l \in job.ids /\ work'.prepared[l].of <= born
      BY <1>2, <2>1
    <3>3. ASSUME NEW s \in {"unmark", "end"}, Goto(s) PROVE Tasks1'
      BY <1>4, <2>1, <3>1, <3>2, <3>3
    <3> QED BY <1>5, <2>1, <3>3
  <2>3. /\ live' \in [Ids -> Places] /\ resident' \in [Ids -> {"none", "here", "stale"}]
        /\ \A l \in Ids : live'[l] \in Contents => live[l] \in Contents /\ live'[l].of = live[l].of
    <3>1. CASE Touch(job.ids)
      BY <1>1, <3>1, TouchIs, Values
    <3>2. CASE live' = Plain /\ UNCHANGED resident
      BY <1>1, <3>2, PlainIs DEF Disks
    <3> QED BY <1>11, <3>1, <3>2 DEF Show, Unmark
  <2> QED BY <1>1, <1>6, <2>1, <2>2, <2>3 DEF Disks, Made
<1> QED BY <1>7, <1>8, <1>9, <1>10, <1>11
-----------------------------------------------------------------------------
\* Types: copies.

\* What a copy is about and where it can be.
LEMMA CopyIs ==
  ASSUME Types, job.kind = "copy"
  PROVE  /\ Id \in Ids /\ job.ids = {Id} /\ job \in Jobs /\ work \in Spaces /\ up
         /\ job.state = "run" /\ job.at \in CopyAt /\ job.todo \subseteq job.ids /\ job.base \in Bases
         /\ work.stage = Absent /\ work.previous = Absent /\ work.moved = {}
         /\ IF job.at = "begin" THEN job.to = 0 /\ work = NoWork ELSE job.to \in Ids
         /\ \A l \in Ids : work.prepared[l] # Absent => l = job.to /\ work.prepared[l].of <= born
         /\ job.at \in {"register", "place"} => work.prepared[job.to] \in Contents
<1>1. PICK l \in Ids : job.ids = {l}
  BY DEF Types, Copied1
<1>2. Id = l
  BY <1>1, LeastOne
<1>3. \A k \in Ids : work.prepared[k] # Absent => work.prepared[k] \in Contents
  BY DEF Types, Tasked, Spaces
<1>4. \A k \in Ids : work.prepared[k] # Absent => work.prepared[k].of <= born
  BY <1>3 DEF Types, Tasked, Made
<1> QED BY <1>1, <1>2, <1>3, <1>4 DEF Types, Tasked, Copied1

\* A copy that goes on keeps what is said of the tasks.
LEMMA CopyMoves ==
  ASSUME Types, job.kind = "copy", job' \in Jobs, work' \in Spaces, up' = up, born <= born',
         born' \in Nat, job'.kind = job.kind, job'.ids = job.ids, job'.base = job.base,
         job'.state = "run", job'.todo \subseteq job.ids, job'.at \in CopyAt \ {"begin"},
         job'.to \in Ids,
         work'.stage = Absent, work'.previous = Absent, work'.moved = {},
         \A l \in Ids : work'.prepared[l] # Absent => l = job'.to /\ work'.prepared[l].of <= born',
         job'.at \in {"register", "place"} => work'.prepared[job'.to] # Absent
  PROVE  Tasks1'
<1>1. job.kind # "none" /\ job.kind # "import" /\ job.kind \notin Switch /\ Absent \notin Contents
  BY Values DEF Switch
<1>2. \E l \in Ids : job'.ids = {l}
  BY DEF Types, Copied1
<1>3. /\ Made(work.stage)' /\ Made(work.previous)' /\ \A l \in Ids : Made(work.prepared[l])'
  BY <1>1 DEF Made
<1>4. job'.base \in Bases /\ up'
  BY <1>1, CopyIs DEF Types, Tasked
<1>5. Tasked'
  BY <1>1, <1>3, <1>4 DEF Tasked
<1>6. Copied1'
  BY <1>1, <1>2 DEF Copied1
<1>7. Switched1' /\ Imported1'
  BY <1>1 DEF Switched1, Imported1
<1> QED BY <1>5, <1>6, <1>7 DEF Tasks1

\* A copy that only goes on.
LEMMA CopyGoes ==
  ASSUME Types, job.kind = "copy", job.at # "begin", NEW s \in {"place", "erase", "show"}, Goto(s),
         s = "place" => job.at = "register", UNCHANGED <<work, up, born>>
  PROVE  Tasks1'
<1>1. job \in Jobs /\ s \in CopyAt \ {"begin"} /\ s # "register"
  BY CopyIs DEF CopyAt
<1>2. job' \in Jobs /\ Same(job') /\ job'.at = s /\ job'.state = job.state /\ job'.todo = job.todo
  BY <1>1, GotoIs
<1>3. born \in Nat /\ born <= born
  BY Numbers DEF Types, Disks
<1>4. s = "place" => work.prepared[job.to] # Absent
  BY CopyIs, Values
<1>5. /\ job.to \in Ids /\ work \in Spaces /\ job.state = "run" /\ job.todo \subseteq job.ids
      /\ work.stage = Absent /\ work.previous = Absent /\ work.moved = {}
      /\ \A l \in Ids : work.prepared[l] # Absent => l = job.to /\ work.prepared[l].of <= born
  BY CopyIs
<1> QED BY <1>1, <1>2, <1>3, <1>4, <1>5, CopyMoves DEF Same

\* Every step of a copy keeps the types.
LEMMA CopyTypes ==
  ASSUME Types, CopyBegin \/ CopyRegister \/ CopyPlace \/ CopyErase \/ CopyShow
  PROVE  Types'
<1>1. /\ job.kind = "copy" /\ UNCHANGED <<world, trash, up, req, spent>>
      /\ Disks /\ Requested /\ born \in Nat /\ MaxBorn \in Nat
  BY Numbers DEF CopyBegin, CopyRegister, CopyPlace, CopyErase, CopyShow, On, Types, Disks
<1>2. /\ Id \in Ids /\ job.ids = {Id} /\ job \in Jobs /\ work \in Spaces /\ up
      /\ IF job.at = "begin" THEN job.to = 0 /\ work = NoWork ELSE job.to \in Ids
      /\ job.at \in {"register", "place"} => work.prepared[job.to] \in Contents
  BY <1>1, CopyIs
<1>3. Requested'
  BY <1>1 DEF Requested
<1>4. ASSUME live' \in [Ids -> Places], resident' \in [Ids -> {"none", "here", "stale"}],
             catalog' \subseteq Ids, Tasks1', UNCHANGED born, kept' \subseteq 1..born,
             \A l \in Ids : live'[l] \in Contents => live'[l].of <= born
      PROVE  Types'
  BY <1>1, <1>3, <1>4, DisksMove DEF Types, Tasks1, Disks
<1>5. ASSUME Undone \/ Complete, UNCHANGED born
      PROVE  Tasks1'
  BY <1>5, EndIs
<1>6. CASE CopyBegin
  <2>1. Touch({Id}) /\ UNCHANGED <<catalog, kept>> /\ job.at = "begin"
    BY <1>6 DEF CopyBegin, On
  <2>2. /\ live' \in [Ids -> Places] /\ resident' \in [Ids -> {"none", "here", "stale"}]
        /\ \A l \in Ids : live'[l] \in Contents => live'[l] = live[l]
    BY <1>1, <2>1, TouchIs, Values
  <2>3. CASE Undone /\ UNCHANGED born
    BY <1>1, <1>4, <1>5, <2>1, <2>2, <2>3 DEF Disks, Made
  <2>4. ASSUME NEW m \in Ids, work' = [work EXCEPT !.prepared[m] = New(born + 1)], born' = born + 1,
               job' = [job EXCEPT !.to = m, !.at = "register"]
        PROVE  Types'
    <3>1. born + 1 \in Births /\ New(born + 1) \in Contents /\ New(born + 1).of = born + 1
      <4>1. born < MaxBorn /\ born \in 1..MaxBorn
        BY <1>1, <1>6 DEF CopyBegin, Births, Disks
      <4>2. born + 1 \in Births
        BY <1>1, <4>1 DEF Births
      <4> QED BY <4>2, Values
    <3>2. /\ job' \in Jobs /\ job'.kind = job.kind /\ job'.ids = job.ids /\ job'.to = m
          /\ job'.base = job.base /\ job'.state = job.state /\ job'.todo = job.todo
          /\ job'.at = "register" /\ job'.phase = job.phase
      BY <1>2, <2>4 DEF Jobs, CopyAt
    <3>3. /\ work' \in Spaces /\ work'.stage = work.stage /\ work'.previous = work.previous
          /\ work'.moved = work.moved
          /\ \A l \in Ids : work'.prepared[l] = IF l = m THEN New(born + 1) ELSE Absent
      BY <1>2, <2>1, <2>4, <3>1 DEF Spaces, NoWork
    <3>4. "register" \in CopyAt \ {"begin"} /\ Absent \notin Contents
      BY Values DEF CopyAt
    <3>5. born <= born' /\ born' \in Nat /\ born' <= born'
      BY <1>1, <2>4
    <3>6. /\ job.state = "run" /\ job.todo \subseteq job.ids
          /\ work.stage = Absent /\ work.previous = Absent /\ work.moved = {}
      BY <1>1, CopyIs
    <3>7. \A l \in Ids : work'.prepared[l] # Absent => l = job'.to /\ work'.prepared[l].of <= born'
      BY <2>4, <3>1, <3>2, <3>3, <3>5
    <3>8. work'.prepared[job'.to] # Absent
      BY <3>1, <3>2, <3>3, <3>4
    <3>9. Tasks1'
      BY <1>1, <2>4, <3>2, <3>3, <3>4, <3>5, <3>6, <3>7, <3>8, CopyMoves
    <3>10. \A x \in Contents : x.of \in Nat
      BY Numbers DEF Contents
    <3>11. Disks'
      BY <1>1, <2>1, <2>2, <2>4, <3>1, <3>5, <3>10 DEF Disks, Made
    <3> QED BY <1>3, <3>9, <3>11 DEF Types, Tasks1
  <2> QED BY <1>6, <2>3, <2>4 DEF CopyBegin
<1>7. CASE CopyRegister
  <2>1. UNCHANGED <<live, resident, born, kept>> /\ job.at = "register"
    BY <1>7 DEF CopyRegister, On
  <2>2. CASE Undone /\ UNCHANGED catalog
    BY <1>1, <1>4, <1>5, <2>1, <2>2 DEF Disks, Made
  <2>3. CASE catalog' = catalog \cup {job.to} /\ Goto("place") /\ UNCHANGED work
    <3>1. Tasks1'
      BY <1>1, <2>1, <2>3, CopyGoes
    <3> QED BY <1>1, <1>2, <1>4, <2>1, <2>3, <3>1 DEF Disks, Made
  <2> QED BY <1>7, <2>2, <2>3 DEF CopyRegister
<1>8. CASE CopyPlace
  <2>1. UNCHANGED <<resident, work, born, kept>> /\ job.at = "place"
    BY <1>8 DEF CopyPlace, On
  <2>2. Goto("show") \/ Goto("erase")
    BY <1>8 DEF CopyPlace
  <2>3. Tasks1'
    BY <1>1, <2>1, <2>2, CopyGoes
  <2>4. catalog' \subseteq Ids
    BY <1>1, <1>8 DEF CopyPlace, Disks
  <2>5. work.prepared[job.to] \in Places /\ work.prepared[job.to].of <= born
    BY <1>1, <1>2, <2>1, CopyIs, Values
  <2>6. /\ live' \in [Ids -> Places]
        /\ \A l \in Ids : live'[l] \in Contents => live'[l].of <= born
    BY <1>1, <1>2, <1>8, <2>1, <2>5, PutIs DEF CopyPlace, Disks, Made
  <2> QED BY <1>1, <1>4, <2>1, <2>3, <2>4, <2>6 DEF Disks
<1>9. CASE CopyErase
  <2>1. UNCHANGED <<catalog, born, kept>> /\ job.at = "erase" /\ Undone
    BY <1>9 DEF CopyErase, On
  <2>2. /\ live' \in [Ids -> Places] /\ resident' \in [Ids -> {"none", "here", "stale"}]
        /\ \A l \in Ids : live'[l] \in Contents => live'[l].of <= born
    BY <1>1, <1>2, <1>9, <2>1, PutIs, LeaveIs, Values DEF CopyErase, Disks, Made
  <2> QED BY <1>1, <1>4, <1>5, <2>1, <2>2 DEF Disks
<1>10. CASE CopyShow
  <2>1. UNCHANGED <<catalog, born>> /\ job.at = "show" /\ Touch({job.to}) /\ (Undone \/ Complete)
    BY <1>10 DEF CopyShow, On
  <2>2. /\ live' \in [Ids -> Places] /\ resident' \in [Ids -> {"none", "here", "stale"}]
        /\ \A l \in Ids : live'[l] \in Contents => live'[l] = live[l]
    BY <1>1, <2>1, TouchIs, Values
  <2>3. Full(job.to) => live[job.to].of \in 1..born
    BY <1>1, <1>2, <2>1, FullIs, Numbers DEF Disks, Made, Contents, Births
  <2>4. kept' \subseteq 1..born
    BY <1>1, <1>10, <2>3 DEF CopyShow, Disks
  <2> QED BY <1>1, <1>4, <1>5, <2>1, <2>2, <2>4 DEF Disks, Made
<1> QED BY <1>6, <1>7, <1>8, <1>9, <1>10
-----------------------------------------------------------------------------
\* Types: rollbacks.

\* The rollback of a switch goes on, fails, or hands over to the next one.
SwitchBacks ==
  \/ \E s \in UndoAt \ {"remove"} : Goto(s)
  \/ Fail
  \/ job' = [job EXCEPT !.state = "back", !.at = "unload", !.phase = "rolled_back"]

\* A step of the rollback of a switch keeps what is said of the tasks.
LEMMA SwitchBacksTypes ==
  ASSUME Types, job.kind \in Switch, job.state \in {"inner", "back"}, SwitchBacks, born' = born, up' = up,
         work' \in Spaces, work'.prepared = work.prepared, work'.moved = work.moved,
         Made(work'.stage), Made(work'.previous), work'.stage \in {work.stage, Absent}
  PROVE  Tasks1'
<1>0. job \in Jobs /\ job.todo \subseteq job.ids /\ job.to = 0 /\ up
      /\ job.phase \in {"", "cut", "ready", "swapped", "rolled_back"}
      /\ job.at \in UndoAt \ {"remove"}
      /\ (job.phase = "" => work'.stage = Absent)
  BY DEF Types, Tasked, Switched1
<1>1. ASSUME NEW s \in UndoAt \ {"remove"}, Goto(s)
      PROVE  Tasks1'
  <2>1. job' \in Jobs /\ Same(job') /\ job'.at = s /\ job'.state = job.state /\ job'.todo = job.todo
    BY <1>0, <1>1, GotoIs
  <2> QED BY <1>0, <2>1, SwitchMoves DEF Same
<1>2. ASSUME Raise PROVE Tasks1'
  <2>1. /\ job' \in Jobs /\ Same(job') /\ job'.at = "unload" /\ job'.state = "back"
        /\ job'.todo = job.ids
    BY <1>0, <1>2, RaiseIs
  <2> QED BY <1>0, <2>1, SwitchMoves DEF Same, UndoAt
<1>3. CASE Fail
  <2>1. /\ job' \in Jobs /\ Same(job')
        /\ job.state # "inner" => job'.at = job.at /\ job'.state = "parked" /\ job'.todo = job.todo
        /\ job.state = "inner" => Raise
    BY <1>0, <1>3, FailIs
  <2>2. CASE job.state # "inner"
    BY <1>0, <2>1, <2>2, SwitchMoves DEF Same
  <2> QED BY <1>2, <2>1, <2>2
<1>4. CASE job' = [job EXCEPT !.state = "back", !.at = "unload", !.phase = "rolled_back"]
  <2>1. /\ job' \in Jobs /\ job'.kind = job.kind /\ job'.ids = job.ids /\ job'.to = job.to
        /\ job'.base = job.base /\ job'.state = "back" /\ job'.todo = job.todo
        /\ job'.at = "unload" /\ job'.phase = "rolled_back"
    BY <1>0, <1>4 DEF Jobs, UndoAt
  <2>2. "unload" \in UndoAt \ {"remove"}
    BY DEF UndoAt
  <2> QED BY <1>0, <2>1, <2>2, SwitchMoves
<1> QED BY <1>1, <1>3, <1>4 DEF SwitchBacks

\* Every step of it keeps the types.
LEMMA BackTypes ==
  ASSUME Types, BackUnload \/ BackAway \/ BackReturn \/ BackTidy
  PROVE  Types'
<1>1. /\ job.kind \in Switch /\ job.state \in {"inner", "back"}
      /\ UNCHANGED <<world, trash, catalog, up, req, born, kept, spent>>
      /\ Disks /\ Requested /\ Made(work.stage) /\ Made(work.previous)
  BY DEF BackUnload, BackAway, BackReturn, BackTidy, Back, Types, Tasked, disk
<1>2. /\ Id \in Ids /\ job \in Jobs /\ work \in Spaces /\ live[Id] \in Places /\ Made(live[Id])
      /\ {work.stage, work.previous, work.failed} \subseteq Places
  BY <1>1, SwitchIs DEF Disks, Spaces
<1>3. Requested'
  BY <1>1 DEF Requested
<1>4. ASSUME live' \in [Ids -> Places], resident' \in [Ids -> {"none", "here", "stale"}], Tasks1',
             \A l \in Ids : live'[l] \in Contents => live'[l].of <= born
      PROVE  Types'
  BY <1>1, <1>3, <1>4, DisksMove DEF Types, Tasks1, Disks
<1>5. ASSUME SwitchBacks, UNCHANGED work
      PROVE  Tasks1'
  BY <1>1, <1>2, <1>5, SwitchBacksTypes
<1>6. CASE BackUnload
  <2>1. SwitchBacks /\ Unload(Id) /\ UNCHANGED <<work, live>>
    BY <1>6 DEF BackUnload, SwitchBacks, UndoAt, disk
  <2> QED BY <1>1, <1>2, <1>4, <1>5, <2>1, UnloadIs DEF Disks, Made
<1>7. CASE BackAway
  <2>1. /\ SwitchBacks /\ Leave(Id) /\ work' = [work EXCEPT !.failed = live[Id]]
        /\ live' = [live EXCEPT ![Id] = Absent]
    BY <1>7 DEF BackAway, SwitchBacks, UndoAt
  <2>2. /\ work' \in Spaces /\ work'.stage = work.stage /\ work'.previous = work.previous
        /\ work'.prepared = work.prepared /\ work'.moved = work.moved
    BY <1>2, <2>1 DEF Spaces
  <2>3. Tasks1'
    BY <1>1, <2>1, <2>2, SwitchBacksTypes
  <2> QED BY <1>1, <1>2, <1>4, <2>1, <2>3, LeaveIs, PutIs, Values
<1>8. CASE BackReturn
  <2>0. UNCHANGED resident /\ SwitchBacks
    BY <1>8 DEF BackReturn, SwitchBacks, UndoAt
  <2>1. CASE UNCHANGED <<live, work>>
    BY <1>1, <1>4, <1>5, <2>0, <2>1 DEF Disks, Made
  <2>2. ASSUME live' = [live EXCEPT ![Id] = work.previous], work' = [work EXCEPT !.previous = Absent]
        PROVE  Types'
    <3>1. /\ work' \in Spaces /\ work'.stage = work.stage /\ work'.previous = Absent
          /\ work'.prepared = work.prepared /\ work'.moved = work.moved
      BY <1>2, <2>2, Values DEF Spaces
    <3>2. Made(Absent)
      BY Values DEF Made
    <3>3. Tasks1'
      BY <1>1, <2>0, <3>1, <3>2, SwitchBacksTypes
    <3> QED BY <1>1, <1>2, <1>4, <2>0, <2>2, <3>3, PutIs DEF Disks, Made
  <2> QED BY <1>8, <2>1, <2>2 DEF BackReturn
<1>9. CASE BackTidy
  <2>1. /\ live' \in [Ids -> Places] /\ resident' \in [Ids -> {"none", "here", "stale"}]
        /\ \A l \in Ids : live'[l] \in Contents => live'[l].of <= born
    <3>1. CASE UNCHANGED <<live, resident>>
      BY <1>1, <3>1 DEF Disks, Made
    <3>2. CASE Touch({Id})
      BY <1>1, <3>2, TouchIs, Values DEF Disks, Made
    <3> QED BY <1>9, <3>1, <3>2 DEF BackTidy
  <2>2. CASE Undone
    BY <1>1, <1>4, <2>1, <2>2, EndIs
  <2>3. ASSUME SwitchBacks, work' = [work EXCEPT !.stage = Absent, !.failed = Absent]
        PROVE  Types'
    <3>1. /\ work' \in Spaces /\ work'.stage = Absent /\ work'.previous = work.previous
          /\ work'.prepared = work.prepared /\ work'.moved = work.moved
      BY <1>2, <2>3, Values DEF Spaces
    <3>2. Made(Absent)
      BY Values DEF Made
    <3>3. Tasks1'
      BY <1>1, <2>3, <3>1, <3>2, SwitchBacksTypes
    <3> QED BY <1>4, <2>1, <3>3
  <2> QED BY <1>9, <2>2, <2>3 DEF BackTidy, SwitchBacks
<1> QED BY <1>6, <1>7, <1>8, <1>9

\* The rollback of an import.
LEMMA DisownTypes ==
  ASSUME Types, Disown \/ Remove
  PROVE  Types'
<1>1. /\ job.kind = "import" /\ job.state \in {"inner", "back"}
      /\ UNCHANGED <<world, trash, up, req, born, kept, spent>> /\ Disks /\ Requested
      /\ born \in Nat /\ born <= born
  BY Numbers DEF Disown, Remove, Back, Types, Disks
<1>2. /\ job \in Jobs /\ work \in Spaces /\ job.ids \subseteq Ids /\ job.ids # {}
      /\ job.todo \subseteq job.ids /\ job.to \in job.ids \cup {0}
      /\ work.stage = Absent /\ work.previous = Absent /\ work.moved \subseteq job.ids
      /\ job.phase \in {"", "ready", "moving", "installed"} /\ (job.phase = "" => work = NoWork)
      /\ \A l \in Ids : work.prepared[l] # Absent => l \in job.ids /\ work.prepared[l].of <= born
      /\ job.state = "back" /\ up
  BY <1>1, ImportIs
<1>3. Requested'
  BY <1>1 DEF Requested
<1>4. ASSUME live' \in [Ids -> Places], resident' \in [Ids -> {"none", "here", "stale"}],
             catalog' \subseteq Ids, Tasks1',
             \A l \in Ids : live'[l] \in Contents => live'[l].of <= born
      PROVE  Types'
  BY <1>1, <1>3, <1>4, DisksMove DEF Types, Tasks1, Disks
<1>5. CASE Disown
  <2>1. CASE Undone /\ UNCHANGED <<catalog, resident, live>>
    BY <1>1, <1>4, <2>1, EndIs DEF Disks, Made
  <2>2. ASSUME NEW l \in job.todo, Unload(l), catalog' = catalog \ {l},
               job' = [job EXCEPT !.to = l, !.at = "remove"], UNCHANGED <<work, live>>
        PROVE  Types'
    <3>1. /\ job' \in Jobs /\ job'.kind = job.kind /\ job'.ids = job.ids /\ job'.to = l
          /\ job'.base = job.base /\ job'.state = job.state /\ job'.todo = job.todo
          /\ job'.at = "remove" /\ job'.phase = job.phase
      BY <1>2, <2>2 DEF Jobs, UndoAt
    <3>2. Tasks1'
      BY <1>1, <1>2, <2>2, <3>1, ImportMoves
    <3> QED BY <1>1, <1>2, <1>4, <2>2, <3>2, UnloadIs DEF Disks, Made
  <2>3. ASSUME {l \in job.todo : Mine(l)} # {}
        PROVE  Least({l \in job.todo : Mine(l)}) \in {l \in job.todo : Mine(l)}
    BY <1>2, <2>3, LeastIn
  <2> QED BY <1>5, <2>1, <2>2, <2>3 DEF Disown
<1>6. CASE Remove
  <2>1. /\ live' = [live EXCEPT ![job.to] = Absent] /\ Leave(job.to) /\ UNCHANGED <<catalog, work>>
        /\ job' = [job EXCEPT !.todo = @ \ {job.to}, !.at = "unload"] /\ job.to \in job.todo
    BY <1>1, <1>2, <1>6 DEF Remove, Back, Types, Imported1
  <2>2. /\ job' \in Jobs /\ job'.kind = job.kind /\ job'.ids = job.ids /\ job'.to = job.to
        /\ job'.base = job.base /\ job'.state = job.state /\ job'.todo \subseteq job.todo
        /\ job'.at = "unload" /\ job'.phase = job.phase
    BY <1>2, <2>1 DEF Jobs, SwitchAt
  <2>3. Tasks1'
    BY <1>1, <1>2, <2>1, <2>2, ImportMoves
  <2> QED BY <1>1, <1>2, <1>4, <2>1, <2>3, PutIs, LeaveIs, Values DEF Disks
<1> QED BY <1>5, <1>6
-----------------------------------------------------------------------------
\* Types: what may happen to any task.

\* A task that is submitted keeps the types.
LEMMA SubmitTypes ==
  ASSUME Types, NEW kind \in Tasks, NEW ids \in SUBSET Ids, Submit(kind, ids)
  PROVE  Types'
<1>1. /\ up /\ job.kind = "none" /\ UNCHANGED <<world, disk, resident, up, work, req, born, kept>>
      /\ Disks /\ Requested /\ Begun /\ work = NoWork /\ world.begun \in Nat
  BY KnowledgeAssumption DEF Submit, Types, Tasked, Disks
<1>2. spent' \in [begun : 0..world.begun, faults : 0..world.faults]
  BY <1>1 DEF Begun, Disks
<1>3. Disks' /\ Requested'
  BY <1>1, <1>2 DEF Disks, Requested, Made, disk
<1> DEFINE base == [dirs |-> live, names |-> catalog]
<1>4. base \in Bases /\ base.dirs = live
  BY <1>1 DEF Bases, Disks
<1>5. job' = [NoJob EXCEPT !.kind = kind, !.ids = ids, !.state = "run", !.at = "begin", !.base = base]
  BY DEF Submit
<1> HIDE DEF base
<1>6. /\ job' \in Jobs /\ job'.kind = kind /\ job'.ids = ids /\ job'.state = "run" /\ job'.at = "begin"
      /\ job'.base = base /\ job'.todo = {} /\ job'.phase = "" /\ job'.to = 0
  BY <1>4, <1>5, Numbers DEF Jobs, NoJob, SwitchAt
<1>7. /\ kind = "import" => ids # {}
      /\ kind # "import" => \E l \in Ids : ids = {l}
      /\ kind # "none" /\ ("import" \notin Switch) /\ ("copy" \notin Switch)
  BY <1>1 DEF Submit, Disks, Tasks, Switch
<1>8. /\ work' = NoWork /\ NoWork' = NoWork /\ NoWork \in Spaces
      /\ NoWork.stage = Absent /\ NoWork.previous = Absent /\ NoWork.moved = {}
      /\ \A l \in Ids : NoWork.prepared[l] = Absent
  BY <1>1, Gone DEF NoWork
<1>9. /\ Made(work.stage)' /\ Made(work.previous)' /\ (\A l \in Ids : Made(work.prepared[l]))'
      /\ (\A l \in Ids : Made(live[l]))'
  BY <1>3, <1>8, Values DEF Made, Disks
<1>10. Tasked'
  BY <1>1, <1>4, <1>6, <1>7, <1>8, <1>9 DEF Tasked, disk
<1>11. Switched1'
  BY <1>1, <1>4, <1>6, <1>7, <1>8, <1>9 DEF Switched1, SwitchAt, disk
<1>12. Imported1' /\ Copied1'
  BY <1>6, <1>7, <1>8 DEF Imported1, Copied1, ImportAt, CopyAt
<1> QED BY <1>3, <1>10, <1>11, <1>12 DEF Types

\* A failure is one of those the world allows.
LEMMA FaultSpent ==
  ASSUME Disks, Fault, UNCHANGED world
  PROVE  spent' \in [begun : 0..world.begun, faults : 0..world.faults]
BY KnowledgeAssumption DEF Disks, Fault

\* A job stops, is parked or is undone where it is, with its workspace.
LEMMA HaltTypes ==
  ASSUME Types, UNCHANGED <<work, up, born>>, up,
         \/ Raise /\ job.state \in {"run", "parked"} /\ job.kind # "copy"
         \/ Restore /\ job.kind \in Switch
         \/ Fail /\ job.state \in {"inner", "back"}
         \/ /\ job' = [job EXCEPT !.state = "parked"]
            /\ job.kind \in Switch \cup {"import"}
         \/ job' = [job EXCEPT !.state = "run", !.at = "begin"] /\ job.state = "parked"
  PROVE  Tasks1'
<1>1. /\ job \in Jobs /\ work \in Spaces /\ born \in Nat /\ born <= born /\ job.todo \subseteq job.ids
      /\ Made(work.stage) /\ Made(work.previous)
  <2>1. born \in Nat /\ born <= born
    BY Numbers DEF Types, Disks
  <2> QED BY <2>1 DEF Types, Tasked
<1>2. job.kind \in Tasks
  BY <1>1 DEF Types, Tasked, Fail, Jobs, Tasks, Switch
<1>3. job.kind = "copy" => job.state = "run"
  BY CopyIs
<1>10. /\ Raise => /\ job' \in Jobs /\ Same(job') /\ job'.at = "unload" /\ job'.state = "back"
                   /\ job'.todo = job.ids
       /\ Restore => /\ job' \in Jobs /\ Same(job') /\ job'.at = "unload" /\ job'.state = "inner"
                     /\ job'.todo = job.todo
       /\ Fail /\ job.state = "inner" => Raise
       /\ Fail /\ job.state # "inner" => job' = [job EXCEPT !.state = "parked"]
       /\ job' = [job EXCEPT !.state = "parked"] =>
            /\ job' \in Jobs /\ Same(job') /\ job'.at = job.at /\ job'.state = "parked"
            /\ job'.todo = job.todo
       /\ job' = [job EXCEPT !.state = "run", !.at = "begin"] =>
            /\ job' \in Jobs /\ Same(job') /\ job'.at = "begin" /\ job'.state = "run"
            /\ job'.todo = job.todo
  <2>1. Raise => /\ job' \in Jobs /\ Same(job') /\ job'.at = "unload" /\ job'.state = "back"
                 /\ job'.todo = job.ids
    BY <1>1, RaiseIs
  <2>2. Restore => /\ job' \in Jobs /\ Same(job') /\ job'.at = "unload" /\ job'.state = "inner"
                   /\ job'.todo = job.todo
    BY <1>1, RestoreIs
  <2>3. /\ Fail /\ job.state = "inner" => Raise
        /\ Fail /\ job.state # "inner" => job' = [job EXCEPT !.state = "parked"]
    BY DEF Fail
  <2>4. job' = [job EXCEPT !.state = "parked"] =>
            /\ job' \in Jobs /\ Same(job') /\ job'.at = job.at /\ job'.state = "parked"
            /\ job'.todo = job.todo
    BY <1>1 DEF Jobs, Same
  <2>5. job' = [job EXCEPT !.state = "run", !.at = "begin"] =>
            /\ job' \in Jobs /\ Same(job') /\ job'.at = "begin" /\ job'.state = "run"
            /\ job'.todo = job.todo
    BY <1>1 DEF Jobs, Same, SwitchAt
  <2> QED BY <2>1, <2>2, <2>3, <2>4, <2>5
<1>11. /\ job' \in Jobs /\ Same(job') /\ job'.todo \subseteq job.ids
       /\ \/ job'.state = "back" /\ job'.at = "unload" /\ job.kind # "copy"
          \/ job'.state = "inner" /\ job'.at = "unload" /\ job.kind \in Switch
          \/ job'.state = "parked" /\ job.kind # "copy"
          \/ job'.state = "run" /\ job'.at = "begin" /\ job.kind # "copy"
  <2>1. /\ job.kind # "copy" \/ ~Fail
        /\ job.kind \in Switch \cup {"import"} => job.kind # "copy"
    BY <1>3 DEF Switch, Fail, Types, Tasked
  <2>2. job.state = "parked" => job.kind # "copy"
    BY <1>3
  <2> QED BY <1>1, <1>10, <2>1, <2>2
<1>4. CASE job.kind \in Switch
  <2>1. /\ job.to = 0 /\ job.phase \in {"", "cut", "ready", "swapped", "rolled_back"}
        /\ (job.phase = "" => work.stage = Absent) /\ job.state # ""
    BY <1>4 DEF Types, Switched1, Tasked, Switch
  <2>2. "unload" \in UndoAt \ {"remove"} /\ "begin" \in SwitchAt /\ "begin" # "apply"
    BY DEF UndoAt, SwitchAt
  <2> QED BY <1>1, <1>4, <1>11, <2>1, <2>2, SwitchMoves DEF Same
<1>5. CASE job.kind = "import"
  <2>1. /\ job.to \in job.ids \cup {0}
         /\ work.stage = Absent /\ work.previous = Absent /\ work.moved \subseteq job.ids
         /\ job.phase \in {"", "ready", "moving", "installed"} /\ (job.phase = "" => work = NoWork)
         /\ \A l \in Ids : work.prepared[l] # Absent => l \in job.ids /\ work.prepared[l].of <= born
    BY <1>5, ImportIs
  <2>2. "begin" \in ImportAt /\ "import" \notin Switch
    BY DEF ImportAt, Switch
  <2> QED BY <1>1, <1>5, <1>11, <2>1, <2>2, ImportMoves DEF Same
<1> QED BY <1>2, <1>4, <1>5, <1>11 DEF Tasks

\* A task that fails, is parked, goes on or is stopped keeps the types.
LEMMA HaltedTypes ==
  ASSUME Types, RollbackFault \/ Pause \/ Resume \/ Stop
  PROVE  Types'
<1>1. /\ UNCHANGED <<world, disk, resident, up, work, req, born, kept>> /\ Disks /\ Requested
      /\ Fault \/ UNCHANGED spent
  BY DEF RollbackFault, Pause, Resume, Stop, Types
<1>2. Disks' /\ Requested'
  BY <1>1, FaultSpent DEF Disks, Requested, Made, disk
<1>3. up
  BY DEF RollbackFault, Pause, Resume, Stop, On, Types, Tasked
<1>4. \/ Raise /\ job.state \in {"run", "parked"} /\ job.kind # "copy"
      \/ Fail /\ job.state \in {"inner", "back"}
      \/ /\ job' = [job EXCEPT !.state = "parked"]
         /\ job.kind \in Switch \cup {"import"}
      \/ job' = [job EXCEPT !.state = "run", !.at = "begin"] /\ job.state = "parked"
  BY CopyIs DEF RollbackFault, Pause, Resume, Stop, On
<1>5. Tasks1'
  BY <1>1, <1>3, <1>4, HaltTypes
<1> QED BY <1>2, <1>5 DEF Types, Tasks1

\* So does a task of which an await fails.
LEMMA JobFaultTypes ==
  ASSUME Types, JobFault
  PROVE  Types'
<1>1. /\ UNCHANGED <<world, live, trash, resident, up, req, born, kept>> /\ Disks /\ Requested
      /\ Fault /\ job.state = "run" /\ up /\ catalog' \subseteq catalog
  BY DEF JobFault, Types, Tasked
<1>2. Disks' /\ Requested'
  BY <1>1, FaultSpent DEF Disks, Requested, Made, disk
<1>3. CASE job.kind # "copy"
  <2>1. (Restore \/ Raise) /\ UNCHANGED work /\ (Restore /\ ~Raise => job.at = "check")
    BY <1>1, <1>3 DEF JobFault
  <2>0. UNCHANGED <<work, up, born>> /\ up /\ job.state \in {"run", "parked"}
    BY <1>1, <2>1
  <2>2. CASE Raise
    <3>1. Tasks1'
      BY <1>3, <2>0, <2>2, HaltTypes
    <3> QED BY <1>2, <3>1 DEF Types, Tasks1
  <2>3. CASE ~Raise
    <3>1. job.kind \in Switch
      BY <1>1, <1>3, <2>1, <2>3 DEF Types, Tasked, Imported1, Jobs, Tasks, ImportAt, NoJob
    <3>2. Tasks1'
      BY <2>0, <2>1, <2>3, <3>1, HaltTypes
    <3> QED BY <1>2, <3>2 DEF Types, Tasks1
  <2> QED BY <2>2, <2>3
<1>4. CASE job.kind = "copy" /\ job.at = "place"
  <2>1. Goto("erase") /\ UNCHANGED work
    BY <1>4 DEF JobFault
  <2>2. Tasks1'
    BY <1>1, <1>4, <2>1, CopyGoes
  <2> QED BY <1>2, <2>2 DEF Types, Tasks1
<1>5. CASE job.kind = "copy" /\ job.at # "place"
  <2>1. Undone
    BY <1>5 DEF JobFault
  <2> QED BY <1>1, <1>2, <2>1, EndIs DEF Types, Tasks1
<1> QED BY <1>3, <1>4, <1>5

\* So do a crash and a restart.
LEMMA CrashTypes ==
  ASSUME Types, Crash \/ Restart
  PROVE  Types'
<1>1. UNCHANGED <<world, born, kept, catalog>> /\ Disks /\ Requested
  BY DEF Crash, Restart, Types, disk
<1>2. CASE Crash
  <2>1. /\ up' = FALSE /\ Fault /\ UNCHANGED <<live, trash>> /\ up
        /\ resident' = [l \in Ids |-> "none"] /\ req' = [c \in Clients |-> NoReq]
    BY <1>2 DEF Crash, disk
  <2>2. Disks'
    BY <1>1, <2>1, FaultSpent DEF Disks, Made
  <2>3. NoReq \in Reqs /\ Placed(NoReq)
    BY DEF NoReq, Reqs, Placed
  <2>4. Requested'
    BY <2>1, <2>3 DEF Requested
  <2>5. CASE job.kind = "copy"
    <3>1. Tasks1'
      BY <1>1, <1>2, <2>5, EndIs DEF Crash
    <3> QED BY <2>2, <2>4, <3>1 DEF Types, Tasks1
  <2>6. CASE job.kind = "none"
    <3>1. UNCHANGED <<job, work>> /\ job.state = "" /\ job.kind \notin Switch
      BY <1>2, <2>6 DEF Crash, Types, Tasked, Switch
    <3>2. \A x : Made(x)' <=> Made(x)
      BY <1>1 DEF Made
    <3>3. Tasked'
      BY <2>6, <3>1, <3>2 DEF Types, Tasked
    <3>4. Switched1' /\ Imported1' /\ Copied1'
      BY <2>6, <3>1 DEF Switched1, Imported1, Copied1
    <3> QED BY <2>2, <2>4, <3>3, <3>4 DEF Types
  <2>7. CASE job.kind \notin {"copy", "none"}
    <3>1. job \in Jobs /\ job' = [job EXCEPT !.state = "parked"] /\ UNCHANGED work
      BY <1>2, <2>7 DEF Crash, Types, Tasked
    <3>2. /\ job' \in Jobs /\ Same(job') /\ job'.at = job.at /\ job'.state = "parked"
          /\ job'.todo = job.todo
      BY <3>1 DEF Jobs, Same
    <3>3. \A x : Made(x)' <=> Made(x)
      BY <1>1 DEF Made
    <3>4. Tasked'
      BY <2>7, <3>1, <3>2, <3>3 DEF Types, Tasked, Same
    <3>5. Switched1'
      BY <2>7, <3>1, <3>2, <3>3 DEF Types, Switched1, Same
    <3>6. Imported1'
      BY <2>7, <3>1, <3>2, <3>3 DEF Types, Imported1, Same, NoWork
    <3>7. Copied1'
      BY <2>7, <3>2 DEF Copied1, Same
    <3> QED BY <2>2, <2>4, <3>4, <3>5, <3>6, <3>7 DEF Types
  <2> QED BY <2>5, <2>6, <2>7
<1>3. CASE Restart
  <2>1. /\ UNCHANGED <<resident, job, work, req, spent>> /\ ~up /\ up' \in BOOLEAN
        /\ live' = [l \in Ids |-> IF l \in catalog THEN live[l] ELSE Absent]
        /\ trash' = trash \cup {live[l].of : l \in {m \in Ids \ catalog : Full(m)}}
    BY <1>3 DEF Restart
  <2>2. \A l \in Ids : Full(l) => live[l].of \in Births
    BY <1>1, FullIs DEF Contents
  <2>3. trash' \subseteq Births
    BY <1>1, <2>1, <2>2 DEF Disks
  <2>4. Disks'
    BY <1>1, <2>1, <2>3, Values DEF Disks, Made
  <2>5. Requested'
    BY <1>1, <2>1 DEF Requested
  <2>6. \A x : Made(x)' <=> Made(x)
    BY <1>1 DEF Made
  <2>7. Tasked'
    BY <2>1, <2>6 DEF Types, Tasked
  <2>8. Switched1' /\ Imported1' /\ Copied1'
    BY <2>1, <2>6 DEF Types, Switched1, Imported1, Copied1, NoWork
  <2> QED BY <2>4, <2>5, <2>7, <2>8 DEF Types
<1> QED BY <1>2, <1>3

\* The beginning has the types.
LEMMA InitTypes ==
  ASSUME Init
  PROVE  Types
<1>1. /\ world \in Worlds /\ world.first \subseteq Ids /\ world.begun \in Nat /\ world.faults \in Nat
      /\ up = TRUE /\ trash = {} /\ catalog = world.first /\ kept = world.first /\ born = MaxId
      /\ resident = [l \in Ids |-> "none"] /\ spent = [begun |-> 0, faults |-> 0]
      /\ live = [l \in Ids |-> IF l \in world.first THEN New(l) ELSE Absent]
      /\ job = NoJob /\ work = NoWork /\ req = [c \in Clients |-> NoReq]
  BY KnowledgeAssumption DEF Init
<1>2. MaxId \in Births /\ Ids = 1..MaxId /\ MaxId \in Nat
  BY Numbers DEF Births, Ids
<1>3. \A l \in Ids : live[l] \in Places /\ (live[l] \in Contents => live[l].of = l)
  BY <1>1, Values, Numbers
<1>4. spent \in [begun : 0..world.begun, faults : 0..world.faults]
  BY <1>1
<1>5. /\ live \in [Ids -> Places] /\ resident \in [Ids -> {"none", "here", "stale"}]
      /\ \A l \in Ids : Made(live[l])
  BY <1>1, <1>2, <1>3 DEF Made
<1>6. Disks
  BY <1>1, <1>2, <1>4, <1>5 DEF Disks
<1>7. NoReq \in Reqs /\ Placed(NoReq)
  BY DEF NoReq, Reqs, Placed
<1>8. Requested
  BY <1>1, <1>7 DEF Requested
<1>9. Tasked
  BY <1>1, Gone, Values DEF Tasked, Made, NoWork
<1>10. Switched1 /\ Imported1 /\ Copied1
  BY <1>1, Gone DEF Switched1, Imported1, Copied1, Switch
<1> QED BY <1>6, <1>8, <1>9, <1>10 DEF Types

\* A step that changes nothing keeps them.
LEMMA StutterTypes ==
  ASSUME Types, UNCHANGED vars
  PROVE  Types'
<1>1. Disks' /\ Requested'
  BY DEF Types, Disks, Requested, Made, vars
<1>2. Tasks1'
  BY TaskFrame, Numbers DEF Types, Tasks1, Disks, vars
<1> QED BY <1>1, <1>2 DEF Types, Tasks1

\* Every step keeps them.
LEMMA NextTypes ==
  ASSUME Types, [Next]_vars
  PROVE  Types'
<1>1. CASE \E l \in Ids : Visit(l) \/ Evict(l)
  BY <1>1, LookTypes
<1>2. CASE Requests
  BY <1>2, AskTypes, RequestTypes DEF Requests, RequestStep
<1>3. CASE \E kind \in Switch \cup {"import", "copy"}, ids \in SUBSET Ids : Submit(kind, ids)
  BY <1>3, SubmitTypes DEF Tasks
<1>4. CASE Switching
  BY <1>4, SwitchLooksTypes, CutTypes, MoveTypes, FinishTypes DEF Switching
<1>5. CASE Importing
  BY <1>5, PrepareTypes, ImportTypes DEF Importing
<1>6. CASE Copying
  BY <1>6, CopyTypes DEF Copying
<1>7. CASE Undoing
  BY <1>7, BackTypes, DisownTypes DEF Undoing
<1>8. CASE JobFault \/ RollbackFault \/ Pause \/ Resume \/ Stop \/ Crash \/ Restart
  BY <1>8, JobFaultTypes, HaltedTypes, CrashTypes
<1>9. CASE UNCHANGED vars
  BY <1>9, StutterTypes
<1> QED BY <1>1, <1>2, <1>3, <1>4, <1>5, <1>6, <1>7, <1>8, <1>9 DEF Next

\* They hold always.
LEMMA TypesHold == Spec => []Types
<1>1. Init => Types
  BY InitTypes
<1>2. Types /\ [Next]_vars => Types'
  BY NextTypes
<1> QED BY <1>1, <1>2, PTL DEF Spec

\* Directories, catalog, runtimes and workspaces stay what their types say; only a task that
\* has not ended keeps a workspace, and nobody acknowledges a library that was never made.
THEOREM TypeCorrect == Spec => []TypeOK
<1>1. Types => TypeOK
  BY DEF Types, Disks, Tasked, Spaces, TypeOK
<1> QED BY <1>1, TypesHold, PTL
-----------------------------------------------------------------------------
\* What is so as long as nobody met whom he must not meet.

Has(l)   == live[l] \in Contents
Who(l)   == live[l].of
Mark(x)  == x \in Contents /\ "owner" \in x.has
Own(c)   == {req[c].id, req[c].to}
Its      == job.ids \cup {job.to}
Old      == job.base.dirs[Id]

\* Two requests do not share an id; nor do a request and the task, but for edits beside
\* a switch or a copy and deletions beside a copy.
Alone ==
  /\ \A c, d \in Clients : c # d /\ req[c].op # "" /\ req[d].op # "" => Own(c) \cap Own(d) = {}
  /\ \A c \in Clients : req[c].op # "" /\ Own(c) \cap Its # {} =>
       \/ req[c].op = "edit" /\ job.kind \in Switch \cup {"copy"}
       \/ req[c].op = "delete" /\ job.kind = "copy"

\* A library has one directory, and a marked one belongs to the import under way.
Single == \A l, m \in Ids : l # m /\ Has(l) /\ Has(m) => Who(l) # Who(m)
Marked ==
  /\ \A l \in Ids : Mark(live[l]) => job.kind = "import" /\ l \in job.ids /\ job.phase # ""
  /\ ~Mark(work.stage) /\ ~Mark(work.previous)

\* What a request to create may erase has not been acknowledged.
Creates == \A c \in Clients : req[c].op = "create" =>
  /\ req[c].at \in {"register", "open", "fill"} => ~Has(req[c].id)
  /\ Has(req[c].id) => Who(req[c].id) \notin kept

Fresh(x) == x \in Contents /\ x.of \notin kept /\ \A l \in Ids : Has(l) => Who(l) # x.of
Imports == job.kind = "import" =>
  /\ job.phase # "" => \A l \in job.ids : Has(l) => Who(l) \notin kept
  /\ \A l \in Ids : work.prepared[l] # Absent => Fresh(work.prepared[l])
  /\ \A l, m \in Ids : l # m /\ work.prepared[l] # Absent /\ work.prepared[m] # Absent =>
       work.prepared[l].of # work.prepared[m].of
  /\ job.state = "back" => \A l \in job.ids \ job.todo : ~Mark(live[l])
  /\ job.state = "back" /\ job.at = "remove" => job.phase # ""
Copies == job.kind = "copy" =>
  /\ job.at \in {"register", "place"} =>
       Fresh(work.prepared[job.to]) /\ ~Mark(work.prepared[job.to])
  /\ job.at \in {"register", "place", "erase"} => ~Has(job.to)

\* A switch holds one library, the one that was there, in up to three places, and always
\* in the live or in the previous directory.
Switches == job.kind \in Switch =>
  /\ Id \in catalog
  /\ \A x \in {work.stage, work.previous, live[Id]} : x \in Contents => Old \in Contents /\ x.of = Old.of
  /\ Old \in Contents => \A m \in Ids \ {Id} : Has(m) => Who(m) # Old.of
  /\ work.previous = Absent => (Old \in Contents => Has(Id))
  /\ work.previous # Absent => work.previous \in Contents
  /\ work.stage # Hollow
  /\ job.phase \in {"cut", "ready", "swapped"} => Old \in Contents
  /\ job.state = "run" =>
       /\ job.at \in {"recheck", "unload", "out", "in", "note", "check", "seal", "end"} => Old \in Contents
       /\ job.at \in {"in", "note", "check", "seal", "end"} => work.previous # Absent
       /\ job.at \in {"note", "check", "seal", "end"} => live[Id] # Absent
       /\ job.at \in {"out", "in", "note", "check"} => (live[Id] = Hollow => resident[Id] = "none")
       /\ job.at \in {"seal", "end"} => Has(Id)
  /\ job.state \in {"inner", "back"} =>
       /\ job.at \in {"away", "return"} => work.previous # Absent
       /\ job.at = "tidy" => work.previous = Absent

\* Every library that was acknowledged is somewhere.
Safe(n) == \/ \E l \in Ids : Has(l) /\ Who(l) = n
           \/ n \in trash
           \/ work.previous \in Contents /\ work.previous.of = n
Kept == \A n \in kept : Safe(n)

Held == Alone /\ Single /\ Marked /\ Creates /\ Imports /\ Copies /\ Switches /\ Kept

\* A directory that is full has a library, whose number was given out.
LEMMA HasIs ==
  ASSUME Disks, NEW l \in Ids
  PROVE  /\ Has(l) <=> Full(l)
         /\ Owned(l) <=> Mark(live[l])
         /\ Has(l) => Who(l) \in 1..born /\ Who(l) \in Nat
         /\ live[l] \in Places
BY FullIs, Numbers DEF Has, Who, Owned, Mark, Disks, Made, Contents, Births

\* What a step does to the libraries that are live: nothing, or one directory is emptied,
\* filled, or gets another name.
SameAt(l) == /\ Has(l)' <=> Has(l)
             /\ Has(l) => Who(l)' = Who(l)
             /\ Mark(live[l])' => Mark(live[l])
SameLibs      == \A l \in Ids : SameAt(l)
Emptied(k)    == ~Has(k)' /\ \A l \in Ids \ {k} : live'[l] = live[l]
Filled(k, x)  == /\ ~Has(k) /\ x \in Contents /\ live'[k] = x
                 /\ \A l \in Ids \ {k} : live'[l] = live[l]
Renamed(k, m) == /\ k # m /\ ~Has(m) /\ ~Has(k)' /\ live'[m] = live[k]
                 /\ \A l \in Ids \ {k, m} : live'[l] = live[l]

\* No library comes from nowhere, and only live ones are acknowledged.
NoOther == \A m \in Ids : Has(m)' => Who(m)' > born \/ \E k \in Ids : Has(k) /\ Who(k) = Who(m)'
Tells   == \A n \in kept' : n \in kept \/ \E k \in Ids : Has(k) /\ Who(k) = n

\* A library still has one directory.
LEMMA SingleKept ==
  ASSUME Disks, Single,
         \/ SameLibs
         \/ \E k \in Ids : Emptied(k)
         \/ \E k \in Ids, x \in Contents : Filled(k, x) /\ \A l \in Ids : Has(l) => Who(l) # x.of
         \/ \E k, m \in Ids : Renamed(k, m)
  PROVE  Single'
<1>1. CASE SameLibs
  BY <1>1 DEF SameLibs, SameAt, Single
<1>2. ASSUME NEW k \in Ids, Emptied(k) PROVE Single'
  BY <1>2 DEF Emptied, Single, Has, Who
<1>3. ASSUME NEW k \in Ids, NEW x \in Contents, Filled(k, x), \A l \in Ids : Has(l) => Who(l) # x.of
      PROVE  Single'
  BY <1>3 DEF Filled, Single, Has, Who
<1>4. ASSUME NEW k \in Ids, NEW m \in Ids, Renamed(k, m) PROVE Single'
  BY <1>4 DEF Renamed, Single, Has, Who
<1> QED BY <1>1, <1>2, <1>3, <1>4

\* What is safe stays so.
LEMMA SafeKept ==
  ASSUME Disks, NEW n, Safe(n), trash \subseteq trash', UNCHANGED work,
         \/ SameLibs
         \/ \E k \in Ids : Emptied(k) /\ (Has(k) => Who(k) # n \/ n \in trash')
         \/ \E k \in Ids, x \in Contents : Filled(k, x)
         \/ \E k, m \in Ids : Renamed(k, m)
  PROVE  Safe(n)'
<1>1. CASE n \in trash \/ (work.previous \in Contents /\ work.previous.of = n)
  BY <1>1 DEF Safe
<1>2. ASSUME NEW l \in Ids, Has(l), Who(l) = n PROVE Safe(n)'
  <2>1. CASE SameLibs
    BY <1>2, <2>1 DEF SameLibs, SameAt, Safe
  <2>2. ASSUME NEW k \in Ids, Emptied(k), Has(k) => Who(k) # n \/ n \in trash' PROVE Safe(n)'
    BY <1>2, <2>2 DEF Emptied, Safe, Has, Who
  <2>3. ASSUME NEW k \in Ids, NEW x \in Contents, Filled(k, x) PROVE Safe(n)'
    BY <1>2, <2>3 DEF Filled, Safe, Has, Who
  <2>4. ASSUME NEW k \in Ids, NEW m \in Ids, Renamed(k, m) PROVE Safe(n)'
    BY <1>2, <2>4 DEF Renamed, Safe, Has, Who
  <2> QED BY <2>1, <2>2, <2>3, <2>4
<1> QED BY <1>1, <1>2 DEF Safe

\* An import and a copy do not notice what happens elsewhere.
LEMMA FreshKept ==
  ASSUME Disks, NEW x \in Contents, Fresh(x), x.of <= born, NoOther, Tells
  PROVE  Fresh(x)'
<1>1. x.of \in Nat /\ born \in Nat
  BY Numbers DEF Contents, Disks
<1>2. \A m \in Ids : Has(m)' => Who(m)' # x.of
  BY <1>1 DEF NoOther, Fresh
<1>3. x.of \notin kept'
  BY DEF Tells, Fresh
<1> QED BY <1>2, <1>3 DEF Fresh

\* An import does not notice what happens elsewhere.
LEMMA ImportsKept ==
  ASSUME Types, Imports, Single, UNCHANGED <<job, work>>, NoOther, Tells,
         job.kind = "import" => /\ \A l \in job.ids : SameAt(l)
                                /\ \A n \in kept' : n \in kept \/ \E k \in Ids \ job.ids : Has(k) /\ Who(k) = n
  PROVE  Imports'
<1> SUFFICES ASSUME job.kind = "import" PROVE Imports'
  BY DEF Imports
<1>1. Disks /\ job.ids \subseteq Ids /\ work.prepared \in [Ids -> Contents \cup {Absent}]
  BY ImportIs DEF Types, Spaces
<1>2. ASSUME job.phase # "", NEW l \in job.ids, Has(l)' PROVE Who(l)' \notin kept'
  <2>1. Has(l) /\ Who(l)' = Who(l) /\ Who(l) \notin kept
    BY <1>2 DEF Imports, SameAt
  <2>2. \A k \in Ids \ job.ids : Has(k) => Who(k) # Who(l)
    BY <1>1, <2>1 DEF Single
  <2> QED BY <2>1, <2>2
<1>3. ASSUME NEW l \in Ids, work.prepared[l] # Absent PROVE Fresh(work.prepared[l])'
  <2>1. work.prepared[l] \in Contents /\ work.prepared[l].of <= born /\ Fresh(work.prepared[l])
    BY <1>1, <1>3, ImportIs DEF Imports
  <2>2. PICK x : x = work.prepared[l]
    OBVIOUS
  <2>3. Fresh(x)'
    BY <1>1, <2>1, <2>2, FreshKept
  <2> QED BY <2>2, <2>3 DEF Fresh
<1>4. ASSUME job.state = "back", NEW l \in job.ids \ job.todo PROVE ~Mark(live[l])'
  BY <1>4 DEF Imports, SameAt
<1> QED BY <1>2, <1>3, <1>4 DEF Imports

\* A copy does not notice what happens elsewhere.
LEMMA CopiesKept ==
  ASSUME Types, Copies, UNCHANGED <<job, work>>, NoOther, Tells,
         job.kind = "copy" /\ job.to \in Ids => (Has(job.to)' => Has(job.to))
  PROVE  Copies'
<1> SUFFICES ASSUME job.kind = "copy" PROVE Copies'
  BY DEF Copies
<1>1. Disks
  BY DEF Types
<1>2. ASSUME job.at \in {"register", "place"}
      PROVE  Fresh(work.prepared[job.to])' /\ ~Mark(work.prepared[job.to])'
  <2>1. /\ work.prepared[job.to] \in Contents /\ Fresh(work.prepared[job.to])
        /\ ~Mark(work.prepared[job.to])
    BY <1>2, CopyIs DEF Copies
  <2>2. work.prepared[job.to].of <= born
    <3>1. job.to \in Ids
      BY <1>2, CopyIs
    <3> QED BY <2>1, <3>1, CopyIs, Values
  <2>3. PICK x : x = work.prepared[job.to]
    OBVIOUS
  <2>4. Fresh(x)'
    BY <1>1, <2>1, <2>2, <2>3, FreshKept
  <2> QED BY <2>1, <2>3, <2>4 DEF Fresh, Mark
<1>3. job.at \in {"register", "place", "erase"} => job.to \in Ids
  BY CopyIs
<1> QED BY <1>2, <1>3 DEF Copies

\* What a search or an edit does to the library of a switch.
Looks(l) == /\ SameAt(l) /\ (live[l] # Absent => live'[l] # Absent)
            /\ (live[l] = Hollow => resident[l] = "none") => (live'[l] = Hollow => resident'[l] = "none")

\* A switch does not notice that, nor what happens elsewhere.
LEMMA SwitchesKept ==
  ASSUME Types, Switches, UNCHANGED <<job, work>>,
         job.kind \in Switch => \E i \in Ids :
           /\ Id = i /\ i \in catalog' /\ Looks(i)
           /\ \A m \in Ids \ {i} : Has(m)' =>
                Who(m)' > born \/ \E k \in Ids \ {i} : Has(k) /\ Who(k) = Who(m)'
  PROVE  Switches'
<1> SUFFICES ASSUME job.kind \in Switch PROVE Switches'
  BY DEF Switches
<1>1. PICK i \in Ids : /\ Id = i /\ i \in catalog' /\ Looks(i)
                      /\ \A m \in Ids \ {i} : Has(m)' =>
                           Who(m)' > born \/ \E k \in Ids \ {i} : Has(k) /\ Who(k) = Who(m)'
  OBVIOUS
<1>2. Id' = i /\ Old' = Old
  BY <1>1 DEF Id, Old
<1>3. Disks /\ born \in Nat /\ Made(Old) /\ \A x \in Contents : x.of \in Nat
  BY <1>1, Numbers DEF Types, Switched1, Old, Disks, Contents
<1>4. /\ Has(i)' <=> Has(i)
      /\ Has(i) => Who(i)' = Who(i)
      /\ live[i] # Absent => live'[i] # Absent
      /\ (live[i] = Hollow => resident[i] = "none") => (live'[i] = Hollow => resident'[i] = "none")
  BY <1>1 DEF Looks, SameAt
<1> DEFINE old == Old
<1>5. old \in Contents => \A m \in Ids \ {i} : Has(m)' => Who(m)' # old.of
  BY <1>1, <1>3 DEF Switches, Made
<1>6. /\ work.stage \in Contents => old \in Contents /\ work.stage.of = old.of
      /\ work.previous \in Contents => old \in Contents /\ work.previous.of = old.of
      /\ Has(i) => old \in Contents /\ Who(i) = old.of
  BY <1>1 DEF Switches, Has, Who
<1>7. \A x \in {work.stage, work.previous, live'[i]} : x \in Contents => old \in Contents /\ x.of = old.of
  BY <1>4, <1>6 DEF Has, Who
<1>8. /\ work.previous = Absent => (old \in Contents => Has(i))
      /\ work.previous # Absent => work.previous \in Contents
      /\ work.stage # Hollow
      /\ job.phase \in {"cut", "ready", "swapped"} => old \in Contents
      /\ job.state \in {"inner", "back"} =>
            /\ job.at \in {"away", "return"} => work.previous # Absent
            /\ job.at = "tidy" => work.previous = Absent
  BY <1>1 DEF Switches
<1>9. job.state = "run" =>
       /\ job.at \in {"recheck", "unload", "out", "in", "note", "check", "seal", "end"} => old \in Contents
       /\ job.at \in {"in", "note", "check", "seal", "end"} => work.previous # Absent
       /\ job.at \in {"note", "check", "seal", "end"} => live'[i] # Absent
       /\ job.at \in {"out", "in", "note", "check"} => (live'[i] = Hollow => resident'[i] = "none")
       /\ job.at \in {"seal", "end"} => Has(i)'
  BY <1>1, <1>4 DEF Switches
<1> HIDE DEF old
<1>10. Old' = old /\ Id' = i /\ i \in catalog' /\ i \in Ids /\ UNCHANGED <<job, work>>
  BY <1>1, <1>2 DEF old
<1>11. Has(Id)' <=> Has(i)'
  BY <1>10 DEF Has
<1> QED BY <1>4, <1>5, <1>7, <1>8, <1>9, <1>10, <1>11 DEF Switches
-----------------------------------------------------------------------------
\* Requests keep it.

\* Requests and a task that stay, or end, do not come to share an id.
LEMMA AloneKept ==
  ASSUME Types, Alone, Its' \subseteq Its \cup {0}, job'.kind = job.kind \/ Its' = {0},
         \A d \in Clients : req'[d].op # "" => req'[d].op = req[d].op /\ Own(d)' = Own(d)
  PROVE  Alone'
<1>1. \A d \in Clients : req[d].op # "" => 0 \notin Own(d)
  BY ReqIs, Numbers DEF Types, Own
<1>2. ASSUME NEW d \in Clients, req'[d].op # "", Own(d)' \cap Its' # {}
      PROVE  Own(d) \cap Its # {} /\ job'.kind = job.kind /\ req[d].op = req'[d].op
  BY <1>1, <1>2
<1>3. \A d, e \in Clients : d # e /\ req'[d].op # "" /\ req'[e].op # "" => Own(d)' \cap Own(e)' = {}
  BY DEF Alone
<1>4. ASSUME NEW d \in Clients, req'[d].op # "", Own(d)' \cap Its' # {}
      PROVE  \/ req'[d].op = "edit" /\ job'.kind \in Switch \cup {"copy"}
             \/ req'[d].op = "delete" /\ job'.kind = "copy"
  BY <1>2, <1>4 DEF Alone
<1> QED BY <1>3, <1>4 DEF Alone

\* A request to create still has nothing to lose, if nothing happens to its id.
LEMMA CreatesKept ==
  ASSUME Creates, Single,
         \A d \in Clients, i \in Ids : req'[d].op = "create" /\ req'[d].id = i =>
           \/ ~Has(i)'
           \/ /\ req'[d] = req[d] /\ SameAt(i)
              /\ \A n \in kept' : n \in kept \/ \E k \in Ids \ {i} : Has(k) /\ Who(k) = n
           \/ req'[d].at \notin {"register", "open", "fill"} /\ Who(i)' \notin kept',
         Types'
  PROVE  Creates'
<1> SUFFICES ASSUME NEW d \in Clients, req'[d].op = "create"
             PROVE  /\ req'[d].at \in {"register", "open", "fill"} => ~Has(req[d].id)'
                    /\ Has(req[d].id)' => Who(req[d].id)' \notin kept'
  BY DEF Creates
<1>1. PICK i \in Ids : req'[d].id = i
  BY ReqIs DEF Types, Requested, Placed
<1>2. CASE req'[d] = req[d] /\ SameAt(i) /\ \A n \in kept' : n \in kept \/ \E k \in Ids \ {i} : Has(k) /\ Who(k) = n
  <2>1. req[d].op = "create" /\ req[d].id = i
    BY <1>1, <1>2
  <2>2. /\ req[d].at \in {"register", "open", "fill"} => ~Has(i)
        /\ Has(i) => Who(i) \notin kept
    BY <2>1 DEF Creates
  <2>3. Has(i) => Who(i) \notin kept'
    BY <1>2, <2>2 DEF Single
  <2>4. /\ req'[d].at \in {"register", "open", "fill"} => ~Has(i)'
        /\ Has(i)' => Who(i)' \notin kept'
    BY <1>2, <2>2, <2>3 DEF SameAt
  <2> QED BY <1>1, <2>4 DEF Has, Who
<1>3. CASE ~Has(i)'
  BY <1>1, <1>3 DEF Has
<1>4. CASE req'[d].at \notin {"register", "open", "fill"} /\ Who(i)' \notin kept'
  BY <1>1, <1>4 DEF Who
<1> QED BY <1>1, <1>2, <1>3, <1>4

\* What the steps of a request to create do.
LEMMA CreateShapes ==
  ASSUME Types, NEW c \in Clients, NEW i, req[c].id = i,
         Register(c) \/ Open(c) \/ Fill(c) \/ Load(c) \/ CreateFault(c) \/ Unregister(c) \/ Erase(c)
  PROVE  /\ i \in Ids /\ req[c].op = "create" /\ UNCHANGED <<job, work, trash, spoiled>>
         /\ \A l \in Ids \ {i} : live'[l] = live[l] /\ resident'[l] = resident[l] /\ (l \in catalog => l \in catalog')
         /\ \A d \in Clients \ {c} : req'[d] = req[d]
         /\ \/ req'[c] = NoReq
            \/ req'[c].op = "create" /\ req'[c].id = i /\ req'[c].to = req[c].to
         /\ \/ /\ SameLibs /\ kept' = kept
               /\ \/ req'[c] = NoReq
                  \/ req'[c].at \notin {"register", "open", "fill"}
                  \/ req[c].at \in {"register", "open", "fill"}
            \/ SameLibs /\ Has(i) /\ kept' = kept \cup {Who(i)} /\ req'[c] = NoReq
            \/ /\ Filled(i, New(born + 1)) /\ New(born + 1).of = born + 1 /\ New(born + 1).has = {}
               /\ kept' = kept /\ req'[c].at = "load" 
            \/ Emptied(i) /\ kept' = kept /\ req'[c] = NoReq
<1>0. /\ Disks /\ Requested /\ req[c].op = "create" /\ UNCHANGED <<job, work, trash, spoiled>>
      /\ born \in Nat /\ MaxBorn \in Nat /\ req \in [Clients -> Reqs]
  BY Numbers DEF Register, Open, Fill, Load, CreateFault, Unregister, Erase, At, Types, Disks, Requested, disk
<1>1. i \in Ids /\ live[i] \in Places /\ req[c] \in Reqs
  BY <1>0, ReqIs, FullIs
<1>2. /\ \A l \in Ids : Has(l) <=> Full(l)
      /\ live \in [Ids -> Places]
  BY <1>0, HasIs DEF Disks
<1>3. ASSUME NEW s, Next2(c, s)
      PROVE  /\ \A d \in Clients \ {c} : req'[d] = req[d]
             /\ req'[c].op = "create" /\ req'[c].id = i /\ req'[c].to = req[c].to /\ req'[c].at = s
  BY <1>0, <1>1, <1>3 DEF Next2, Reqs
<1>4. ASSUME Ends(c) PROVE /\ \A d \in Clients \ {c} : req'[d] = req[d]
                           /\ req'[c] = NoReq
  BY <1>0, <1>4 DEF Ends
<1>5. UNCHANGED live => SameLibs
  BY DEF SameLibs, SameAt, Has, Who
<1>6. CASE Register(c)
  <2>1. UNCHANGED <<live, resident, kept>> /\ (Ends(c) \/ Next2(c, "open")) /\ catalog \subseteq catalog'
        /\ req[c].at = "register"
    BY <1>6 DEF Register, At
  <2> QED BY <1>0, <1>1, <1>3, <1>4, <1>5, <2>1
<1>7. CASE CreateFault(c)
  <2>1. UNCHANGED <<live, resident, kept, catalog>> /\ Next2(c, "unregister")
    BY <1>7 DEF CreateFault, disk
  <2> QED BY <1>0, <1>1, <1>3, <1>5, <2>1
<1>8. CASE Unregister(c)
  <2>1. UNCHANGED <<live, resident, kept>> /\ catalog' = catalog \ {i} /\ Next2(c, "erase")
    BY <1>8 DEF Unregister
  <2> QED BY <1>0, <1>1, <1>3, <1>5, <2>1
<1>9. CASE Open(c)
  <2>1. /\ UNCHANGED <<resident, kept, catalog>> /\ Next2(c, "fill") /\ req[c].at = "open"
        /\ live' = [live EXCEPT ![i] = IF @ = Absent THEN Hollow ELSE @]
    BY <1>9 DEF Open, At
  <2>2. \A l \in Ids : live'[l] = IF l = i /\ live[l] = Absent THEN Hollow ELSE live[l]
    BY <1>1, <1>2, <2>1
  <2>3. SameLibs
    BY <2>2, Values DEF SameLibs, SameAt, Has, Who, Mark
  <2> QED BY <1>0, <1>1, <1>3, <2>1, <2>2, <2>3
<1>10. CASE Fill(c)
  <2>1. UNCHANGED <<resident, kept, catalog>> /\ born < MaxBorn
    BY <1>10 DEF Fill
  <2>2. CASE Next2(c, "unregister") /\ UNCHANGED live
    BY <1>0, <1>1, <1>3, <1>5, <2>1, <2>2
  <2>3. ASSUME live[i] = Hollow, live' = [live EXCEPT ![i] = New(born + 1)], Next2(c, "load")
        PROVE  Filled(i, New(born + 1)) /\ New(born + 1).of = born + 1 /\ New(born + 1).has = {}
    <3>1. born + 1 \in Births
      <4>1. born \in 1..MaxBorn
        BY <1>0 DEF Disks, Births
      <4> QED BY <1>0, <2>1, <4>1 DEF Births
    <3>2. New(born + 1) \in Contents /\ New(born + 1).of = born + 1 /\ New(born + 1).has = {}
      BY <3>1, Values
    <3> QED BY <1>1, <1>2, <2>3, <3>2, Values DEF Filled, Has
  <2> QED BY <1>0, <1>1, <1>2, <1>3, <1>10, <2>1, <2>2, <2>3 DEF Fill
<1>11. CASE Load(c)
  <2>1. Touch({i}) /\ UNCHANGED catalog
    BY <1>11 DEF Load
  <2>2. /\ \A l \in Ids : \/ live'[l] = live[l] /\ resident'[l] = resident[l]
                          \/ l = i /\ live[l] = Absent /\ live'[l] = Hollow
                          \/ l = i /\ live'[l] = live[l]
    BY <1>0, <2>1, TouchIs
  <2>3. SameLibs
    BY <2>2, Values DEF SameLibs, SameAt, Has, Who, Mark
  <2>4. \/ Ends(c) /\ (IF Has(i) THEN kept' = kept \cup {Who(i)} ELSE kept' = kept)
        \/ Next2(c, "unregister") /\ kept' = kept
    BY <1>1, <1>2, <1>11 DEF Load, Who
  <2> QED BY <1>0, <1>1, <1>3, <1>4, <2>1, <2>2, <2>3, <2>4
<1>12. CASE Erase(c)
  <2>1. UNCHANGED <<kept, catalog>> /\ live' = [live EXCEPT ![i] = Absent] /\ Leave(i) /\ Ends(c)
    BY <1>12 DEF Erase
  <2>2. /\ \A l \in Ids \ {i} : resident'[l] = resident[l]
        /\ \A l \in Ids \ {i} : live'[l] = live[l]
        /\ live'[i] = Absent
    BY <1>0, <1>1, <1>2, <2>1, LeaveIs
  <2>3. Emptied(i)
    BY <2>2, Values DEF Emptied, Has
  <2> QED BY <1>0, <1>1, <1>4, <2>1, <2>2, <2>3
<1> QED BY <1>6, <1>7, <1>8, <1>9, <1>10, <1>11, <1>12

\* A step that is not one of the task keeps it.
LEMMA AsideHeld ==
  ASSUME Types, Types', Held, UNCHANGED <<job, work>>, Alone', Creates', trash \subseteq trash',
         \/ SameLibs
         \/ \E k \in Ids : Emptied(k) /\ (Has(k) => Who(k) \notin kept' \/ Who(k) \in trash')
         \/ \E k \in Ids, x \in Contents : Filled(k, x) /\ x.of = born + 1 /\ x.has = {}
         \/ \E k, m \in Ids : Renamed(k, m),
         \A n \in kept' : n \in kept \/ \E k \in Ids \ job.ids : Has(k) /\ Who(k) = n,
         job.kind = "import" => \A l \in job.ids : SameAt(l),
         job.kind = "copy" /\ job.to \in Ids => (Has(job.to)' => Has(job.to)),
         job.kind \in Switch => Id \in catalog' /\ \A i \in Ids : Id = i => Looks(i)
  PROVE  Held'
<1>1. /\ Disks /\ born \in Nat /\ Alone /\ Single /\ Marked /\ Creates /\ Imports /\ Copies /\ Switches /\ Kept
      /\ \A l \in Ids : Has(l) => Who(l) \in Nat /\ Who(l) <= born
  BY HasIs, Numbers DEF Types, Held, Disks
<1>2. /\ NoOther
      /\ \A i, m \in Ids : SameAt(i) /\ m # i /\ Has(m)' =>
           Who(m)' > born \/ \E k \in Ids \ {i} : Has(k) /\ Who(k) = Who(m)'
      /\ \A l \in Ids : Mark(live[l])' =>
            \E k \in Ids : Mark(live[k]) /\ (job.kind = "import" /\ k \in job.ids => k = l)
  <2>1. CASE SameLibs
    BY <2>1 DEF SameLibs, SameAt, NoOther
  <2>2. ASSUME NEW k \in Ids, Emptied(k) PROVE <1>2
    BY <2>2 DEF Emptied, NoOther, Has, Who, Mark
  <2>3. ASSUME NEW k \in Ids, NEW x \in Contents, Filled(k, x), x.of = born + 1, x.has = {} PROVE <1>2
    BY <1>1, <2>3 DEF Filled, NoOther, Has, Who, Mark
  <2>4. ASSUME NEW k \in Ids, NEW m \in Ids, Renamed(k, m) PROVE <1>2
    <3>1. NoOther
      BY <2>4 DEF Renamed, NoOther, Has, Who
    <3>2. ASSUME NEW i \in Ids, NEW l \in Ids, SameAt(i), l # i, Has(l)'
          PROVE  \E h \in Ids \ {i} : Has(h) /\ Who(h) = Who(l)'
      <4>1. CASE l = m
        <5>1. Has(k) /\ Who(k) = Who(l)' /\ k # i
          BY <2>4, <3>2, <4>1 DEF Renamed, SameAt, Has, Who
        <5> QED BY <5>1
      <4>2. CASE l # m
        BY <2>4, <3>2, <4>2 DEF Renamed, Has, Who
      <4> QED BY <4>1, <4>2
    <3>3. ASSUME NEW l \in Ids, Mark(live[l])'
          PROVE  \E h \in Ids : Mark(live[h]) /\ (job.kind = "import" /\ h \in job.ids => h = l)
      <4>1. CASE l = m
        <5>1. Mark(live[k])
          BY <2>4, <3>3, <4>1 DEF Renamed, Mark
        <5>2. k \notin job.ids \/ job.kind # "import"
          BY <2>4, <5>1 DEF Renamed, Mark, Has, SameAt
        <5> QED BY <5>1, <5>2
      <4>2. CASE l # m
        BY <2>4, <3>3, <4>2 DEF Renamed, Has, Who, Mark
      <4> QED BY <4>1, <4>2
    <3> QED BY <3>1, <3>2, <3>3
  <2> QED BY <2>1, <2>2, <2>3, <2>4
<1>3. Tells
  BY DEF Tells
<1>4. Single'
  <2>1. ASSUME NEW k \in Ids, NEW x \in Contents, Filled(k, x), x.of = born + 1
        PROVE  \A l \in Ids : Has(l) => Who(l) # x.of
    BY <1>1, <2>1
  <2> QED BY <1>1, <2>1, SingleKept
<1>5. Marked'
  BY <1>1, <1>2 DEF Marked, Mark
<1>6. Imports'
  BY <1>1, <1>2, <1>3, ImportsKept
<1>7. Copies'
  BY <1>1, <1>2, <1>3, CopiesKept
<1>8. Switches'
  <2>1. ASSUME job.kind \in Switch
        PROVE  \E i \in Ids : /\ Id = i /\ i \in catalog' /\ Looks(i)
                              /\ \A m \in Ids \ {i} : Has(m)' =>
                                  Who(m)' > born \/ \E k \in Ids \ {i} : Has(k) /\ Who(k) = Who(m)'
    <3>1. PICK i \in Ids : Id = i
      BY <2>1, SwitchIs
    <3>2. i \in catalog' /\ Looks(i) /\ SameAt(i)
      BY <2>1, <3>1 DEF Looks
    <3> QED BY <1>2, <3>1, <3>2
  <2> QED BY <1>1, <2>1, SwitchesKept
<1>9. Kept'
  <2> SUFFICES ASSUME NEW n \in kept' PROVE Safe(n)'
    BY DEF Kept
  <2>1. Safe(n)
    BY <1>1 DEF Kept, Safe
  <2>2. ASSUME NEW k \in Ids, Has(k) => Who(k) \notin kept' \/ Who(k) \in trash'
        PROVE  Has(k) => Who(k) # n \/ n \in trash'
    BY <2>2
  <2> QED BY <1>1, <2>1, <2>2, SafeKept
<1> QED BY <1>4, <1>5, <1>6, <1>7, <1>8, <1>9 DEF Held

\* A step of a request to create keeps the invariant.
LEMMA CreateHeld ==
  ASSUME Types, Types', Held, NEW c \in Clients,
         Register(c) \/ Open(c) \/ Fill(c) \/ Load(c) \/ CreateFault(c) \/ Unregister(c) \/ Erase(c)
  PROVE  Held'
<1>1. PICK i : req[c].id = i
  OBVIOUS
<1>2. /\ i \in Ids /\ req[c].op = "create" /\ UNCHANGED <<job, work, trash, spoiled>>
      /\ \A l \in Ids \ {i} : live'[l] = live[l] /\ resident'[l] = resident[l] /\ (l \in catalog => l \in catalog')
      /\ \A d \in Clients \ {c} : req'[d] = req[d]
      /\ \/ req'[c] = NoReq
         \/ req'[c].op = "create" /\ req'[c].id = i /\ req'[c].to = req[c].to
      /\ \/ /\ SameLibs /\ kept' = kept
            /\ \/ req'[c] = NoReq
               \/ req'[c].at \notin {"register", "open", "fill"}
               \/ req[c].at \in {"register", "open", "fill"}
         \/ SameLibs /\ Has(i) /\ kept' = kept \cup {Who(i)} /\ req'[c] = NoReq
         \/ /\ Filled(i, New(born + 1)) /\ New(born + 1).of = born + 1 /\ New(born + 1).has = {}
            /\ kept' = kept /\ req'[c].at = "load"
         \/ Emptied(i) /\ kept' = kept /\ req'[c] = NoReq
  BY <1>1, CreateShapes
<1>3. /\ Disks /\ born \in Nat /\ Alone /\ Creates /\ Single /\ NoReq.op = ""
      /\ Has(i) /\ req[c].at \notin {"register", "open", "fill"} => Who(i) \notin kept
      /\ req[c].at \in {"register", "open", "fill"} => ~Has(i)
      /\ Has(i) => Who(i) \notin kept
      /\ kept \subseteq 1..born
  BY <1>1, <1>2, Numbers DEF Types, Held, Disks, NoReq, Creates
<1>4. i \notin Its /\ \A d \in Clients \ {c} : req[d].op # "" => i \notin Own(d)
  BY <1>1, <1>2, <1>3 DEF Alone, Own
<1>5. Alone'
  <2>1. \A d \in Clients : req'[d].op # "" => req'[d].op = req[d].op /\ Own(d)' = Own(d)
    BY <1>1, <1>2, <1>3 DEF Own
  <2> QED BY <1>2, <1>3, <2>1, AloneKept DEF Its
<1>6. Creates'
  <2>1. ASSUME NEW d \in Clients, NEW j \in Ids, req'[d].op = "create", req'[d].id = j, d # c
        PROVE  /\ req'[d] = req[d] /\ SameAt(j)
               /\ \A n \in kept' : n \in kept \/ \E k \in Ids \ {j} : Has(k) /\ Who(k) = n
    <3>1. req'[d] = req[d] /\ j # i
      BY <1>2, <1>4, <2>1 DEF Own
    <3>2. live'[j] = live[j]
      BY <1>2, <3>1
    <3> QED BY <1>2, <3>1, <3>2 DEF SameAt, Has, Who
  <2>2. ASSUME req'[c].op = "create"
        PROVE  \/ ~Has(i)'
               \/ req'[c].at \notin {"register", "open", "fill"} /\ Who(i)' \notin kept'
    <3>1. CASE SameLibs /\ kept' = kept
      <4>1. (Has(i)' <=> Has(i)) /\ (Has(i) => Who(i)' = Who(i))
        BY <1>2, <3>1 DEF SameLibs, SameAt
      <4>2. req'[c].at \in {"register", "open", "fill"} => req[c].at \in {"register", "open", "fill"}
        <5>1. req'[c] # NoReq
          BY <1>3, <2>2
        <5>2. \/ ~Has(i) \/ SameLibs
          BY <3>1
        <5>3. CASE Filled(i, New(born + 1)) /\ req'[c].at = "load"
          BY <5>3
        <5> QED BY <1>2, <5>1, <5>3
      <4> QED BY <1>3, <3>1, <4>1, <4>2
    <3>2. CASE Filled(i, New(born + 1)) /\ New(born + 1).of = born + 1 /\ kept' = kept /\ req'[c].at = "load"
      <4>1. Who(i)' = born + 1
        BY <3>2 DEF Filled, Who
      <4>2. born + 1 \notin kept
        <5>1. born \in Nat /\ kept \subseteq 1..born
          BY <1>3
        <5> QED BY <5>1
      <4>3. Who(i)' \notin kept'
        BY <3>2, <4>1, <4>2
      <4> QED BY <3>2, <4>3
    <3> QED BY <1>2, <1>3, <2>2, <3>1, <3>2
  <2> QED BY <1>2, <1>3, <2>1, <2>2, CreatesKept
<1>7. /\ \/ SameLibs
         \/ \E k \in Ids : Emptied(k) /\ (Has(k) => Who(k) \notin kept' \/ Who(k) \in trash')
         \/ \E k \in Ids, x \in Contents : Filled(k, x) /\ x.of = born + 1 /\ x.has = {}
         \/ \E k, m \in Ids : Renamed(k, m)
      /\ \A n \in kept' : n \in kept \/ \E k \in Ids \ job.ids : Has(k) /\ Who(k) = n
  <2>1. Filled(i, New(born + 1)) => New(born + 1) \in Contents
    BY DEF Filled
  <2>2. i \in Ids \ job.ids
    BY <1>2, <1>4 DEF Its
  <2> QED BY <1>2, <1>3, <2>1, <2>2
<1>8. \A l \in Its \cap Ids : live'[l] = live[l] /\ resident'[l] = resident[l] /\ (l \in catalog => l \in catalog')
  BY <1>2, <1>4
<1>9. /\ job.kind = "import" => \A l \in job.ids : SameAt(l)
      /\ job.kind = "copy" /\ job.to \in Ids => (Has(job.to)' => Has(job.to))
  <2>1. job.kind = "import" => job.ids \subseteq Ids
    BY ImportIs
  <2>2. job.kind = "copy" /\ job.to \in Ids /\ Has(job.to)' => Has(job.to)
    BY <1>2, <1>8 DEF Has, Its
  <2> QED BY <1>8, <2>1, <2>2 DEF Its, SameAt, Has, Who
<1>10. job.kind \in Switch => Id \in catalog' /\ \A j \in Ids : Id = j => Looks(j)
  <2> SUFFICES ASSUME job.kind \in Switch PROVE Id \in catalog' /\ \A j \in Ids : Id = j => Looks(j)
    OBVIOUS
  <2>1. Id \in Its \cap Ids /\ Id \in catalog
    BY SwitchIs DEF Its, Held, Switches
  <2>2. ASSUME NEW j \in Ids, Id = j PROVE Looks(j)
    BY <1>8, <2>1, <2>2 DEF Looks, SameAt, Has, Who
  <2> QED BY <1>8, <2>1, <2>2
<1>11. trash \subseteq trash'
  BY <1>2
<1> QED BY <1>2, <1>5, <1>6, <1>7, <1>9, <1>10, <1>11, AsideHeld

\* A rename of a directory is one of the shapes.
LEMMA RenamesTo ==
  ASSUME Disks, NEW k \in Ids, NEW h \in Ids, live[k] # Absent, live[h] = Absent,
         live' = [live EXCEPT ![h] = live[k], ![k] = Absent], Leave(k)
  PROVE  /\ Renamed(k, h)
         /\ \A l \in Ids \ {k, h} : live'[l] = live[l] /\ resident'[l] = resident[l]
<1>1. k # h /\ ~Has(h)
  BY Values DEF Has
<1>2. /\ live'[k] = Absent /\ live'[h] = live[k]
      /\ \A l \in Ids : l \notin {k, h} => live'[l] = live[l]
  BY <1>1, RenamedIs
<1>3. \A l \in Ids : l # k => resident'[l] = resident[l]
  BY LeaveIs
<1> QED BY <1>1, <1>2, <1>3, Values DEF Renamed, Has

\* What the steps of the other requests do.
LEMMA MovesShapes ==
  ASSUME Types, NEW c \in Clients, NEW i, NEW m, req[c].id = i, req[c].to = m,
         \/ Released(c) \/ ToTrash(c) \/ Drop(c)
         \/ Rename(c) \/ Name(c) \/ NameFault(c) \/ NameBack(c) \/ NameBackFault(c)
  PROVE  /\ i \in Ids /\ m \in Ids /\ req[c].op \in {"delete", "rename"}
         /\ UNCHANGED <<job, work, kept>> /\ trash \subseteq trash'
         /\ \A l \in Ids \ {i, m} : live'[l] = live[l] /\ resident'[l] = resident[l] /\ (l \in catalog => l \in catalog')
         /\ \A d \in Clients \ {c} : req'[d] = req[d]
         /\ \/ req'[c] = NoReq
            \/ req'[c].op = req[c].op /\ req'[c].id = i /\ req'[c].to = m
         /\ \/ SameLibs
            \/ req[c].op = "delete" /\ Emptied(i) /\ (Has(i) => Who(i) \in trash')
            \/ req[c].op = "rename" /\ (Renamed(i, m) \/ Renamed(m, i))
<1>0. /\ Disks /\ Requested /\ req[c].op \in {"delete", "rename"} /\ UNCHANGED <<job, work, kept>>
      /\ trash \subseteq trash' /\ req \in [Clients -> Reqs]
  BY DEF Released, ToTrash, Drop, Rename, Name, NameFault, NameBack, NameBackFault, At, Types, Requested, disk
<1>1. i \in Ids /\ m \in Ids /\ live[i] \in Places /\ live[m] \in Places /\ req[c] \in Reqs
  BY <1>0, ReqIs, FullIs
<1>2. /\ \A l \in Ids : Has(l) <=> Full(l)
      /\ live \in [Ids -> Places]
  BY <1>0, HasIs DEF Disks
<1>3. ASSUME NEW s, Next2(c, s)
      PROVE  /\ \A d \in Clients \ {c} : req'[d] = req[d]
             /\ req'[c].op = req[c].op /\ req'[c].id = i /\ req'[c].to = m
  BY <1>0, <1>1, <1>3 DEF Next2, Reqs
<1>4. ASSUME Ends(c) PROVE /\ \A d \in Clients \ {c} : req'[d] = req[d]
                           /\ req'[c] = NoReq
  BY <1>0, <1>4 DEF Ends
<1>5. UNCHANGED live => SameLibs
  BY DEF SameLibs, SameAt, Has, Who
<1>10. /\ \A d \in Clients \ {c} : req'[d] = req[d]
       /\ \/ req'[c] = NoReq
          \/ req'[c].op = req[c].op /\ req'[c].id = i /\ req'[c].to = m
  <2>1. Ends(c) \/ \E s : Next2(c, s)
    BY DEF Released, ToTrash, Drop, Rename, Name, NameFault, NameBack, NameBackFault
  <2>2. CASE Ends(c)
    BY <1>4, <2>2
  <2>3. ASSUME NEW s, Next2(c, s) PROVE <1>10
    BY <1>3, <2>3
  <2> QED BY <2>1, <2>2, <2>3
<1>11. \A l \in Ids \ {i, m} : l \in catalog => l \in catalog'
  BY <1>1 DEF Released, ToTrash, Drop, Rename, Name, NameFault, NameBack, NameBackFault, disk
<1>6. CASE Released(c)
  <2>1. UNCHANGED live /\ Unload(i)
    BY <1>6 DEF Released, disk
  <2>2. \A l \in Ids \ {i} : resident'[l] = resident[l]
    BY <1>0, <1>1, <2>1, UnloadIs
  <2> QED BY <1>0, <1>1, <1>5, <1>10, <1>11, <2>1, <2>2
<1>7. CASE Drop(c) \/ Name(c) \/ NameFault(c) \/ NameBackFault(c)
  <2>1. UNCHANGED <<live, resident>>
    BY <1>7 DEF Drop, Name, NameFault, NameBackFault, disk
  <2> QED BY <1>0, <1>1, <1>5, <1>10, <1>11, <2>1
<1>8. CASE ToTrash(c)
  <2>1. req[c].op = "delete"
    BY <1>8 DEF ToTrash, At
  <2>2. CASE UNCHANGED <<live, resident>>
    BY <1>0, <1>1, <1>5, <1>10, <1>11, <2>2
  <2>3. ASSUME trash' = IF Full(i) THEN trash \cup {live[i].of} ELSE trash,
               live' = [live EXCEPT ![i] = Absent], Leave(i)
        PROVE  /\ Emptied(i) /\ (Has(i) => Who(i) \in trash')
               /\ \A l \in Ids \ {i} : live'[l] = live[l] /\ resident'[l] = resident[l]
    <3>1. Has(i) => Who(i) \in trash'
      BY <1>1, <1>2, <2>3 DEF Who
    <3>2. /\ live'[i] = Absent
          /\ \A l \in Ids \ {i} : live'[l] = live[l] /\ resident'[l] = resident[l]
      BY <1>0, <1>1, <1>2, <2>3, LeaveIs
    <3> QED BY <3>1, <3>2, Values DEF Emptied, Has
  <2> QED BY <1>0, <1>1, <1>8, <1>10, <1>11, <2>1, <2>2, <2>3 DEF ToTrash
<1>9. CASE Rename(c) \/ NameBack(c)
  <2>1. req[c].op = "rename"
    BY <1>9 DEF Rename, NameBack, At
  <2>2. CASE UNCHANGED <<live, resident>>
    BY <1>0, <1>1, <1>5, <1>10, <1>11, <2>2
  <2>4. \/ UNCHANGED <<live, resident>>
        \/ /\ live[i] # Absent /\ live[m] = Absent
           /\ live' = [live EXCEPT ![m] = live[i], ![i] = Absent] /\ Leave(i)
        \/ /\ live[m] # Absent /\ live[i] = Absent
           /\ live' = [live EXCEPT ![i] = live[m], ![m] = Absent] /\ Leave(m)
    BY <1>9 DEF Rename, NameBack
  <2>5. CASE /\ live[i] # Absent /\ live[m] = Absent
             /\ live' = [live EXCEPT ![m] = live[i], ![i] = Absent] /\ Leave(i)
    <3>1. Renamed(i, m) /\ \A l \in Ids \ {i, m} : live'[l] = live[l] /\ resident'[l] = resident[l]
      BY <1>0, <1>1, <2>5, RenamesTo
    <3> QED BY <1>0, <1>1, <1>10, <1>11, <2>1, <3>1
  <2>6. CASE /\ live[m] # Absent /\ live[i] = Absent
             /\ live' = [live EXCEPT ![i] = live[m], ![m] = Absent] /\ Leave(m)
    <3>1. Renamed(m, i) /\ \A l \in Ids \ {i, m} : live'[l] = live[l] /\ resident'[l] = resident[l]
      <4>1. /\ Renamed(m, i)
            /\ \A l \in Ids \ {m, i} : live'[l] = live[l] /\ resident'[l] = resident[l]
        BY <1>0, <1>1, <2>6, RenamesTo
      <4>2. {m, i} = {i, m}
        OBVIOUS
      <4> QED BY <4>1, <4>2
    <3> QED BY <1>0, <1>1, <1>10, <1>11, <2>1, <3>1
  <2> QED BY <2>2, <2>4, <2>5, <2>6
<1> QED BY <1>6, <1>7, <1>8, <1>9

\* Opening databases is a look.
LEMMA TouchLooks ==
  ASSUME Disks, NEW S, Touch(S)
  PROVE  SameLibs /\ \A l \in Ids : Looks(l)
<1>1. /\ \A l \in Ids : Has(l) <=> Full(l)
      /\ \A l \in Ids :
              \/ live'[l] = live[l] /\ resident'[l] = resident[l]
              \/ l \in S /\ resident[l] = "none" /\ live[l] = Absent
                   /\ live'[l] = Hollow /\ resident'[l] = "none"
              \/ l \in S /\ resident[l] = "none" /\ Full(l)
                   /\ live'[l] = live[l] /\ resident'[l] = "here"
  BY HasIs, TouchIs
<1>2. \A l \in Ids : Looks(l)
  BY <1>1, Values DEF Looks, SameAt, Has, Who, Mark
<1> QED BY <1>2 DEF Looks, SameLibs

\* An edit is a look, as far as who has which directory goes.
LEMMA WriteShapes ==
  ASSUME Types, NEW c \in Clients, Write(c)
  PROVE  /\ SameLibs /\ (\A l \in Ids : Looks(l)) /\ UNCHANGED <<catalog, job, work, trash, kept>>
         /\ (\A d \in Clients \ {c} : req'[d] = req[d]) /\ req'[c] = NoReq
<1>1. PICK i : req[c].id = i
  OBVIOUS
<1>2. /\ Disks /\ req \in [Clients -> Reqs] /\ Requested /\ UNCHANGED <<catalog, job, work, trash, kept>>
      /\ req' = [req EXCEPT ![c] = NoReq] /\ req[c].op = "edit"
  BY DEF Write, Types, Requested, Ends, At
<1>3. i \in Ids /\ live \in [Ids -> Places] /\ resident \in [Ids -> {"none", "here", "stale"}]
  BY <1>1, <1>2, ReqIs DEF Disks
<1>4. CASE Touch({i})
  BY <1>2, <1>4, TouchLooks
<1>5. ASSUME Full(i), live' = [live EXCEPT ![i].has = @ \cup {"edit"}],
             resident' = [resident EXCEPT ![i] = IF @ = "none" THEN "here" ELSE @]
      PROVE  SameLibs /\ \A l \in Ids : Looks(l)
  <2>1. /\ live'[i] \in Contents /\ live'[i].of = live[i].of
        /\ live'[i].has = live[i].has \cup {"edit"} /\ live[i] \in Contents
        /\ \A l \in Ids : l # i => live'[l] = live[l]
    BY <1>2, <1>3, <1>5, EditIs, FullIs
  <2>2. \A l \in Ids : l # i => resident'[l] = resident[l]
    BY <1>3, <1>5
  <2>3. \A l \in Ids : Looks(l)
    BY <2>1, <2>2, Values DEF Looks, SameAt, Has, Who, Mark
  <2> QED BY <2>3 DEF Looks, SameLibs
<1> QED BY <1>1, <1>2, <1>4, <1>5 DEF Write

\* A step of a request to delete or to rename keeps the invariant.
LEMMA MovesHeld ==
  ASSUME Types, Types', Held, NEW c \in Clients,
         \/ Released(c) \/ ToTrash(c) \/ Drop(c)
         \/ Rename(c) \/ Name(c) \/ NameFault(c) \/ NameBack(c) \/ NameBackFault(c)
  PROVE  Held'
<1>1. PICK i : req[c].id = i
  OBVIOUS
<1>2. PICK m : req[c].to = m
  OBVIOUS
<1>3. /\ i \in Ids /\ m \in Ids /\ req[c].op \in {"delete", "rename"}
      /\ UNCHANGED <<job, work, kept>> /\ trash \subseteq trash'
      /\ \A l \in Ids \ {i, m} : live'[l] = live[l] /\ resident'[l] = resident[l] /\ (l \in catalog => l \in catalog')
      /\ \A d \in Clients \ {c} : req'[d] = req[d]
      /\ \/ req'[c] = NoReq
         \/ req'[c].op = req[c].op /\ req'[c].id = i /\ req'[c].to = m
      /\ \/ SameLibs
         \/ req[c].op = "delete" /\ Emptied(i) /\ (Has(i) => Who(i) \in trash')
         \/ req[c].op = "rename" /\ (Renamed(i, m) \/ Renamed(m, i))
  BY <1>1, <1>2, MovesShapes
<1>4. /\ Alone /\ Creates /\ Single /\ NoReq.op = "" /\ Requested' /\ req[c].op \notin {"", "create", "edit"}
  BY <1>3 DEF Types, Held, NoReq
<1>5. Alone'
  <2>1. \A d \in Clients : req'[d].op # "" => req'[d].op = req[d].op /\ Own(d)' = Own(d)
    BY <1>1, <1>2, <1>3, <1>4 DEF Own
  <2> QED BY <1>3, <1>4, <2>1, AloneKept DEF Its
<1>6. Creates'
  <2>1. ASSUME NEW d \in Clients, NEW j \in Ids, req'[d].op = "create", req'[d].id = j
        PROVE  /\ req'[d] = req[d] /\ SameAt(j)
               /\ \A n \in kept' : n \in kept \/ \E k \in Ids \ {j} : Has(k) /\ Who(k) = n
    <3>1. d # c
      BY <1>3, <1>4, <2>1
    <3>2. req'[d] = req[d]
      BY <1>3, <3>1
    <3>3. j \notin {i, m}
      BY <1>1, <1>2, <1>4, <2>1, <3>1, <3>2 DEF Alone, Own
    <3>4. live'[j] = live[j]
      BY <1>3, <2>1, <3>3
    <3> QED BY <1>3, <3>2, <3>4 DEF SameAt, Has, Who
  <2> QED BY <1>4, <2>1, CreatesKept
<1>7. \/ SameLibs
      \/ \E k \in Ids : Emptied(k) /\ (Has(k) => Who(k) \notin kept' \/ Who(k) \in trash')
      \/ \E k \in Ids, x \in Contents : Filled(k, x) /\ x.of = born + 1 /\ x.has = {}
      \/ \E k, h \in Ids : Renamed(k, h)
  BY <1>3
<1>8. job.kind # "copy" \/ req[c].op = "rename" => i \notin Its /\ m \notin Its
  BY <1>1, <1>2, <1>4 DEF Alone, Own
<1>9. /\ job.kind = "import" => \A l \in job.ids : SameAt(l)
      /\ job.kind = "copy" /\ job.to \in Ids => (Has(job.to)' => Has(job.to))
  <2>1. ASSUME job.kind = "import", NEW l \in job.ids PROVE SameAt(l)
    <3>1. l \in Ids /\ l \notin {i, m}
      BY <1>8, <2>1, ImportIs DEF Its
    <3> QED BY <1>3, <3>1 DEF SameAt, Has, Who
  <2>2. ASSUME job.kind = "copy", NEW l \in Ids, job.to = l, Has(l)' PROVE Has(l)
    <3>1. CASE SameLibs
      BY <2>2, <3>1 DEF SameLibs, SameAt
    <3>2. CASE Emptied(i)
      BY <2>2, <3>2 DEF Emptied, Has
    <3>3. CASE req[c].op = "rename"
      <4>1. l \notin {i, m}
        BY <1>8, <2>2, <3>3 DEF Its
      <4> QED BY <1>3, <2>2, <4>1 DEF Has
    <3> QED BY <1>3, <3>1, <3>2, <3>3
  <2> QED BY <1>3, <2>1, <2>2 DEF Has
<1>10. job.kind \in Switch => Id \in catalog' /\ \A j \in Ids : Id = j => Looks(j)
  <2> SUFFICES ASSUME job.kind \in Switch PROVE Id \in catalog' /\ \A j \in Ids : Id = j => Looks(j)
    OBVIOUS
  <2>1. Id \in Its \cap Ids /\ Id \in catalog /\ Id \notin {i, m}
    BY <1>8, SwitchIs DEF Its, Held, Switches
  <2>2. ASSUME NEW j \in Ids, Id = j PROVE Looks(j)
    <3>1. live'[j] = live[j] /\ resident'[j] = resident[j]
      BY <1>3, <2>1, <2>2
    <3> QED BY <3>1 DEF Looks, SameAt, Has, Who
  <2> QED BY <1>3, <2>1, <2>2
<1> QED BY <1>3, <1>5, <1>6, <1>7, <1>9, <1>10, AsideHeld

\* Searches, the sweeper and edits.
LEMMA LooksHeld ==
  ASSUME Types, Types', Held, SameLibs, \A l \in Ids : Looks(l),
         UNCHANGED <<catalog, job, work, trash, kept>>,
         \A d \in Clients : req'[d] = req[d] \/ req'[d] = NoReq
  PROVE  Held'
<1>1. NoReq.op = "" /\ Alone /\ Creates /\ Single
  BY DEF NoReq, Held
<1>2. Alone'
  <2>1. \A d \in Clients : req'[d].op # "" => req'[d].op = req[d].op /\ Own(d)' = Own(d)
    BY <1>1 DEF Own
  <2> QED BY <1>1, <2>1, AloneKept DEF Its
<1>3. Creates'
  <2>1. \A d \in Clients, i \in Ids : req'[d].op = "create" /\ req'[d].id = i =>
           /\ req'[d] = req[d] /\ SameAt(i)
           /\ \A n \in kept' : n \in kept \/ \E k \in Ids \ {i} : Has(k) /\ Who(k) = n
    BY <1>1 DEF SameLibs
  <2> QED BY <1>1, <2>1, CreatesKept
<1>4. job.kind = "import" => \A l \in job.ids : SameAt(l)
  BY ImportIs DEF SameLibs
<1>5. job.kind = "copy" /\ job.to \in Ids => (Has(job.to)' => Has(job.to))
  BY DEF SameLibs, SameAt, Has
<1>6. job.kind \in Switch => Id \in catalog' /\ \A i \in Ids : Id = i => Looks(i)
  BY DEF Held, Switches
<1> QED BY <1>2, <1>3, <1>4, <1>5, <1>6, AsideHeld

\* So does an edit.
LEMMA WriteHeld ==
  ASSUME Types, Types', Held, NEW c \in Clients, Write(c)
  PROVE  Held'
BY WriteShapes, LooksHeld

\* So do a search and the sweeper.
LEMMA LookHeld ==
  ASSUME Types, Types', Held, NEW l \in Ids, Visit(l) \/ Evict(l)
  PROVE  Held'
<1>1. Disks /\ UNCHANGED <<catalog, job, work, trash, kept, req>>
  BY DEF Visit, Evict, Types, disk
<1>2. SameLibs /\ \A i \in Ids : Looks(i)
  <2>1. CASE Visit(l)
    BY <1>1, <2>1, TouchLooks DEF Visit
  <2>2. CASE Evict(l)
    <3>1. UNCHANGED live /\ \A i \in Ids : resident'[i] = resident[i] \/ resident'[i] = "none"
      BY <1>1, <2>2, UnloadIs DEF Evict, disk
    <3> QED BY <3>1 DEF SameLibs, Looks, SameAt, Has, Who
  <2> QED BY <2>1, <2>2
<1> QED BY <1>1, <1>2, LooksHeld

\* A request that meets nobody it must not meet.
LEMMA AskHeld ==
  ASSUME Types, Types', Held, NEW c \in Clients, NEW op \in world.requests, NEW l \in Ids, NEW m \in Ids,
         Ask(c, op, l, m), spoiled' \subseteq Harmless
  PROVE  Held'
<1>1. /\ op \in Ops /\ UNCHANGED <<world, disk, resident, up, job, work, born>> /\ kept' \subseteq kept
      /\ spoiled' = spoiled \cup ({op} \X Beside({l, m})) /\ Disks /\ Requested /\ req \in [Clients -> Reqs]
      /\ op = "create" => live[l] = Absent
      /\ 0 \notin Ids
  BY KnowledgeAssumption, Numbers DEF Ask, Types, Disks, Ops, Requested
<1>2. PICK s : Begins(c, op, l, m, s)
  BY <1>1 DEF Ask, Ops
<1>3. /\ \A d \in Clients \ {c} : req'[d] = req[d]
      /\ req'[c].op = op /\ req'[c].id = l /\ req'[c].to = m
  BY <1>1, <1>2 DEF Begins
<1>4. \A x \in Beside({l, m}) : <<op, x>> \in Harmless
  BY <1>1
<1>5. \A x \in Beside({l, m}) : \/ op = "edit" /\ x \in Switch \cup {"copy"}
                                \/ op = "delete" /\ x = "copy"
  BY <1>1, <1>4 DEF Harmless, Ops
<1>6. ASSUME NEW d \in Clients \ {c}, req[d].op # "" PROVE Own(d) \cap {l, m} = {}
  <2>1. req[d].op \in Ops
    BY <1>1, <1>6, ReqIs DEF Reqs
  <2>2. req[d].op \notin Switch \cup {"copy"}
    BY <2>1 DEF Ops, Switch
  <2>3. Own(d) \cap {l, m} # {} => req[d].op \in Met({l, m})
    BY DEF Met, Own
  <2> QED BY <1>5, <2>2, <2>3 DEF Beside
<1>7. {l, m} \cap Its # {} => \/ op = "edit" /\ job.kind \in Switch \cup {"copy"}
                              \/ op = "delete" /\ job.kind = "copy"
  BY <1>5 DEF Beside, Its
<1>8. Alone'
  <2>0. Own(c)' = {l, m} /\ Its' = Its /\ \A d \in Clients \ {c} : Own(d)' = Own(d)
    BY <1>1, <1>3 DEF Own, Its
  <2>1. ASSUME NEW d \in Clients, NEW e \in Clients, d # e, req'[d].op # "", req'[e].op # ""
        PROVE  Own(d)' \cap Own(e)' = {}
    <3>1. CASE d = c
      BY <1>3, <1>6, <2>0, <2>1, <3>1
    <3>2. CASE e = c
      BY <1>3, <1>6, <2>0, <2>1, <3>2
    <3>3. CASE d # c /\ e # c
      BY <1>3, <2>0, <2>1, <3>3 DEF Held, Alone
    <3> QED BY <3>1, <3>2, <3>3
  <2>2. ASSUME NEW d \in Clients, req'[d].op # "", Own(d)' \cap Its' # {}
        PROVE  \/ req'[d].op = "edit" /\ job'.kind \in Switch \cup {"copy"}
               \/ req'[d].op = "delete" /\ job'.kind = "copy"
    <3>1. CASE d = c
      BY <1>1, <1>3, <1>7, <2>0, <2>2, <3>1
    <3>2. CASE d # c
      BY <1>1, <1>3, <2>0, <2>2, <3>2 DEF Held, Alone
    <3> QED BY <3>1, <3>2
  <2> QED BY <2>1, <2>2 DEF Alone
<1>9. SameLibs /\ \A i \in Ids : Looks(i)
  BY <1>1 DEF SameLibs, Looks, SameAt, Has, Who, disk
<1>10. Creates'
  <2>1. ASSUME NEW d \in Clients, NEW i \in Ids, req'[d].op = "create", req'[d].id = i
        PROVE  \/ ~Has(i)'
               \/ /\ req'[d] = req[d] /\ SameAt(i)
                  /\ \A n \in kept' : n \in kept \/ \E k \in Ids \ {i} : Has(k) /\ Who(k) = n
    <3>1. CASE d # c
      BY <1>1, <1>3, <1>9, <2>1, <3>1 DEF SameLibs
    <3>2. CASE d = c
      BY <1>1, <1>3, <2>1, <3>2, Values DEF Has, disk
    <3> QED BY <3>1, <3>2
  <2> QED BY <2>1, CreatesKept DEF Held
<1>11. job.kind \in Switch => Id \in catalog' /\ \A i \in Ids : Id = i => Looks(i)
  BY <1>1, <1>9 DEF Held, Switches, disk
<1>12. job.kind = "import" => \A i \in job.ids : SameAt(i)
  BY <1>9, ImportIs DEF SameLibs
<1>13. job.kind = "copy" /\ job.to \in Ids => (Has(job.to)' => Has(job.to))
  BY <1>1, <1>9 DEF SameLibs, SameAt, Has
<1>14. UNCHANGED <<job, work>> /\ trash \subseteq trash' /\ \A n \in kept' : n \in kept
  BY <1>1 DEF disk
<1> QED BY <1>8, <1>9, <1>10, <1>11, <1>12, <1>13, <1>14, AsideHeld

\* What a step that leaves the libraries as they are keeps.
LEMMA StillHeld ==
  ASSUME Types, Types', Held, SameLibs, trash \subseteq trash', kept' \subseteq kept,
         \A d \in Clients : req'[d] = req[d] \/ req'[d] = NoReq,
         Its' \subseteq Its \cup {0}, job'.kind = job.kind \/ Its' = {0}
  PROVE  Alone' /\ Single' /\ Creates'
<1>1. NoReq.op = "" /\ Alone /\ Creates /\ Single /\ Disks
  BY DEF NoReq, Held, Types
<1>2. Alone'
  <2>1. \A d \in Clients : req'[d].op # "" => req'[d].op = req[d].op /\ Own(d)' = Own(d)
    BY <1>1 DEF Own
  <2> QED BY <1>1, <2>1, AloneKept
<1>3. Creates'
  <2>1. \A d \in Clients, i \in Ids : req'[d].op = "create" /\ req'[d].id = i =>
           /\ req'[d] = req[d] /\ SameAt(i)
           /\ \A n \in kept' : n \in kept \/ \E k \in Ids \ {i} : Has(k) /\ Who(k) = n
    BY <1>1 DEF SameLibs
  <2> QED BY <1>1, <2>1, CreatesKept
<1> QED BY <1>1, <1>2, <1>3, SingleKept

\* A task stops where it is.
LEMMA HaltHeld ==
  ASSUME Types, Types', Held, SameLibs, UNCHANGED <<catalog, trash, work, kept>>,
         \A d \in Clients : req'[d] = req[d] \/ req'[d] = NoReq,
         job.kind \in Switch \cup {"import"}, Same(job'),
         \/ job'.state = "parked"
         \/ job'.state \in {"inner", "back"} /\ job'.at = "unload" /\ (job.kind = "import" => job'.todo = job.ids)
         \/ job'.state = "run" /\ job'.at = "begin"
  PROVE  Held'
<1>1. /\ Disks /\ Single /\ Marked /\ Imports /\ Switches /\ Kept /\ job.kind # "copy" /\ "import" \notin Switch
      /\ Its' = Its /\ job'.kind = job.kind /\ job'.ids = job.ids /\ job'.phase = job.phase /\ job'.base = job.base
  BY DEF Types, Held, Switch, Same, Its
<1>2. Alone' /\ Single' /\ Creates'
  BY <1>1, StillHeld
<1>3. /\ \A l \in Ids : (Has(l)' <=> Has(l)) /\ (Has(l) => Who(l)' = Who(l)) /\ (Mark(live[l])' => Mark(live[l]))
  BY DEF SameLibs, SameAt
<1>4. Marked'
  BY <1>1, <1>3 DEF Marked, Mark
<1>5. Imports'
  <2> SUFFICES ASSUME job.kind = "import" PROVE Imports'
    BY <1>1 DEF Imports
  <2>1. job.ids \subseteq Ids
    BY ImportIs
  <2>2. \A l \in Ids : Fresh(work.prepared[l]) => Fresh(work.prepared[l])'
    BY <1>3 DEF Fresh
  <2> QED BY <1>1, <1>3, <2>1, <2>2 DEF Imports
<1>6. Copies'
  BY <1>1 DEF Copies
<1>7. Switches'
  <2> SUFFICES ASSUME job.kind \in Switch PROVE Switches'
    BY <1>1 DEF Switches
  <2>1. PICK i \in Ids : Id = i
    BY SwitchIs
  <2>2. Id' = i /\ Old' = Old
    BY <1>1, <2>1 DEF Id, Old
  <2> DEFINE old == Old
  <2>3. /\ i \in catalog
        /\ work.stage \in Contents => old \in Contents /\ work.stage.of = old.of
        /\ work.previous \in Contents => old \in Contents /\ work.previous.of = old.of
        /\ Has(i) => old \in Contents /\ Who(i) = old.of
        /\ old \in Contents => \A m \in Ids \ {i} : Has(m) => Who(m) # old.of
        /\ work.previous = Absent => (old \in Contents => Has(i))
        /\ work.previous # Absent => work.previous \in Contents
        /\ work.stage # Hollow
        /\ job.phase \in {"cut", "ready", "swapped"} => old \in Contents
    BY <1>1, <2>1 DEF Switches, Has, Who
  <2>4. /\ Has(i)' => old \in Contents /\ Who(i)' = old.of
        /\ old \in Contents => \A m \in Ids \ {i} : Has(m)' => Who(m)' # old.of
        /\ work.previous = Absent => (old \in Contents => Has(i)')
    BY <1>3, <2>3
  <2>5. \A x \in {work.stage, work.previous, live'[i]} : x \in Contents => old \in Contents /\ x.of = old.of
    BY <2>3, <2>4 DEF Has, Who
  <2> HIDE DEF old
  <2>6. Old' = old /\ Id' = i
    BY <2>2 DEF old
  <2>7. Has(Id)' <=> Has(i)'
    BY <2>6 DEF Has
  <2> QED BY <1>1, <2>3, <2>4, <2>5, <2>6, <2>7 DEF Switches
<1>8. Kept'
  <2>1. \A n \in kept' : Safe(n)
    BY <1>1 DEF Kept
  <2> QED BY <1>1, <2>1, SafeKept DEF Kept
<1> QED BY <1>2, <1>4, <1>5, <1>6, <1>7, <1>8 DEF Held

\* A task ends, and its workspace goes.
LEMMA EndHeld ==
  ASSUME Types, Types', Held, SameLibs, UNCHANGED <<trash, born>>, Complete \/ Undone, req' = req,
         \A l \in Ids : ~Mark(live[l])',
         \A n \in kept' : n \in kept \/ \E k \in Ids \cap Its : Has(k) /\ Who(k) = n,
         work.previous \in Contents => \E k \in Ids : Has(k) /\ Who(k) = work.previous.of
  PROVE  Held'
<1>1. /\ job'.kind = "none" /\ Its' = {0} /\ work' = NoWork /\ Disks /\ Alone /\ Single /\ Creates /\ Kept
  BY Gone DEF Complete, Undone, NoJob, Its, Types, Held
<1>2. NoWork.stage \notin Contents /\ NoWork.previous \notin Contents
  BY Values DEF NoWork
<1>3. Alone'
  <2>1. \A d \in Clients : req'[d].op # "" => req'[d].op = req[d].op /\ Own(d)' = Own(d)
    BY DEF Own
  <2> QED BY <1>1, <2>1, AloneKept
<1>4. Single'
  BY <1>1, SingleKept
<1>5. Creates'
  <2>1. ASSUME NEW d \in Clients, NEW i \in Ids, req'[d].op = "create", req'[d].id = i
        PROVE  /\ req'[d] = req[d] /\ SameAt(i)
               /\ \A n \in kept' : n \in kept \/ \E k \in Ids \ {i} : Has(k) /\ Who(k) = n
    <3>1. i \notin Its
      BY <1>1, <2>1 DEF Alone, Own
    <3> QED BY <2>1, <3>1 DEF SameLibs
  <2> QED BY <1>1, <2>1, CreatesKept
<1>6. Marked'
  BY <1>1, <1>2 DEF Marked, Mark
<1>7. Imports' /\ Copies' /\ Switches'
  BY <1>1 DEF Imports, Copies, Switches, Switch
<1>8. Kept'
  <2> SUFFICES ASSUME NEW n \in kept' PROVE Safe(n)'
    BY DEF Kept
  <2>1. n \in trash \/ \E k \in Ids : Has(k) /\ Who(k) = n
    BY <1>1 DEF Kept, Safe
  <2> QED BY <2>1 DEF Safe, SameLibs, SameAt
<1> QED BY <1>3, <1>4, <1>5, <1>6, <1>7, <1>8 DEF Held

\* A task that is submitted keeps the invariant, if the requests over its ids are harmless.
LEMMA SubmitHeld ==
  ASSUME Types, Types', Held, NEW kind \in Tasks, NEW ids \in SUBSET Ids, Submit(kind, ids),
         spoiled' \subseteq Harmless
  PROVE  Held'
<1>1. /\ UNCHANGED <<world, disk, resident, up, work, req, born, kept>> /\ job.kind = "none"
      /\ work = NoWork /\ Disks /\ Requested /\ Single /\ Marked /\ Creates /\ Kept /\ Alone
      /\ spoiled' = spoiled \cup {<<op, kind>> : op \in Met(ids)}
      /\ NoWork.stage = Absent /\ NoWork.previous = Absent /\ \A l \in Ids : NoWork.prepared[l] = Absent
  BY DEF Submit, Types, Tasked, Held, Meet, NoWork
<1>2. /\ job'.kind = kind /\ job'.ids = ids /\ job'.to = 0 /\ job'.state = "run" /\ job'.at = "begin"
      /\ job'.phase = "" /\ job'.base.dirs = live
  BY DEF Submit, NoJob
<1>3. \A op \in Met(ids) : \/ op = "edit" /\ kind \in Switch \cup {"copy"}
                           \/ op = "delete" /\ kind = "copy"
  <2>1. \A op \in Met(ids) : <<op, kind>> \in Harmless
    BY <1>1
  <2>2. ASSUME NEW op \in Met(ids) PROVE op \in Ops
    <3>1. PICK d \in Clients : req[d].op = op /\ {req[d].id, req[d].to} \cap ids # {}
      BY <2>2 DEF Met
    <3>2. req[d].op # ""
      <4>1. NoReq.id \notin Ids /\ NoReq.to \notin Ids
        BY Numbers DEF NoReq
      <4> QED BY <1>1, <3>1, <4>1 DEF Requested, Placed
    <3> QED BY <1>1, <3>1, <3>2, ReqIs DEF Reqs
  <2> QED BY <2>1, <2>2 DEF Harmless, Ops, Tasks, Switch
<1>4. Alone'
  <2>1. ASSUME NEW d \in Clients, req[d].op # "", Own(d) \cap (ids \cup {0}) # {}
        PROVE  req[d].op \in Met(ids)
    <3>1. 0 \notin Own(d)
      BY <1>1, <2>1, ReqIs, Numbers DEF Own
    <3> QED BY <2>1, <3>1 DEF Met, Own
  <2>2. Its' = ids \cup {0} /\ req' = req /\ \A d \in Clients : Own(d)' = Own(d)
    BY <1>1, <1>2 DEF Its, Own
  <2> QED BY <1>1, <1>2, <1>3, <2>1, <2>2 DEF Alone
<1>5. live' = live /\ catalog' = catalog /\ trash' = trash /\ work' = work /\ kept' = kept /\ req' = req
  BY <1>1 DEF disk
<1>6. Single' /\ Creates' /\ Kept'
  BY <1>1, <1>5 DEF Single, Creates, Kept, Safe, Has, Who
<1>7. Marked'
  BY <1>1, <1>5 DEF Marked, Mark
<1>8. Imports' /\ Copies'
  BY <1>1, <1>2, <1>5 DEF Imports, Copies
<1>9. Switches'
  <2> SUFFICES ASSUME kind \in Switch PROVE Switches'
    BY <1>2 DEF Switches
  <2>1. PICK i \in catalog : ids = {i}
    BY DEF Submit, Switch
  <2>2. i \in Ids /\ i \in Nat
    BY <1>1, <2>1, Numbers DEF Disks
  <2>3. Id' = i
    <3>1. Least({i}) = i
      BY <2>2 DEF Least
    <3> QED BY <1>2, <2>1, <3>1 DEF Id
  <2>4. Old' = live[i]
    BY <1>2, <2>3 DEF Old
  <2>5. Absent \notin Contents /\ Absent # Hollow
    BY Values
  <2>6. \A m \in Ids \ {i} : live[i] \in Contents /\ Has(m) => Who(m) # live[i].of
    BY <1>1, <2>2 DEF Single, Has, Who
  <2> QED BY <1>1, <1>2, <1>5, <2>1, <2>2, <2>3, <2>4, <2>5, <2>6 DEF Switches, Has, Who
<1> QED BY <1>4, <1>6, <1>7, <1>8, <1>9 DEF Held

\* A crash parks the task where it is, or undoes a copy, and takes the requests away.
LEMMA CrashHeld ==
  ASSUME Types, Types', Held, Crash
  PROVE  Held'
<1>1. /\ req' = [d \in Clients |-> NoReq] /\ UNCHANGED <<live, trash, catalog, born, kept>>
      /\ Alone /\ Single /\ Marked /\ Creates /\ Imports /\ Kept /\ job \in Jobs /\ NoReq.op = ""
  BY DEF Crash, Types, Tasked, Held, disk, NoReq
<1>2. SameLibs
  BY <1>1 DEF SameLibs, SameAt, Has, Who
<1>3. CASE job.kind \in Switch \cup {"import"}
  <2>1. /\ job' = [job EXCEPT !.state = "parked"] /\ UNCHANGED work
    BY <1>3 DEF Crash, Switch
  <2>2. Same(job') /\ job'.state = "parked"
    BY <1>1, <2>1 DEF Same, Jobs
  <2> QED BY <1>1, <1>2, <1>3, <2>1, <2>2, HaltHeld
<1>4. CASE job.kind \notin Switch \cup {"import"}
  <2>1. /\ job'.kind = "none" /\ Its' = {0} /\ work'.stage = Absent /\ work'.previous = Absent
        /\ Absent \notin Contents
    <3>1. job.kind \in {"copy", "none"}
      BY <1>1, <1>4 DEF Jobs, Tasks
    <3>0. NoWork.stage = Absent /\ NoWork.previous = Absent /\ Absent \notin Contents /\ {} \cup {0} = {0}
      BY Values DEF NoWork
    <3>2. CASE job.kind = "copy"
      <4>1. Undone
        BY <3>2 DEF Crash
      <4>2. work' = NoWork /\ job'.kind = "none" /\ job'.ids = {} /\ job'.to = 0
        BY <4>1 DEF Undone, NoJob
      <4> QED BY <3>0, <4>2 DEF Its
    <3>3. CASE job.kind = "none"
      <4>1. UNCHANGED <<job, work>>
        BY <3>3 DEF Crash
      <4>2. work = NoWork /\ job.ids = {} /\ job.to = 0
        BY <3>3 DEF Types, Tasked
      <4>3. job' = job /\ work' = work
        BY <4>1
      <4> QED BY <3>0, <3>3, <4>2, <4>3 DEF Its
    <3> QED BY <3>1, <3>2, <3>3
  <2>2. Alone' /\ Creates'
    BY <1>1 DEF Alone, Creates
  <2>3. Single'
    BY <1>1 DEF Single, Has, Who
  <2>4. Marked'
    BY <1>1, <1>4, <2>1 DEF Marked, Mark
  <2>5. Imports' /\ Copies' /\ Switches'
    BY <2>1 DEF Imports, Copies, Switches, Switch
  <2>6. work.previous \notin Contents
    <3>1. job.kind \in {"copy", "none"}
      BY <1>1, <1>4 DEF Jobs, Tasks
    <3>2. CASE job.kind = "copy"
      BY <3>2, CopyIs, Values
    <3>3. CASE job.kind = "none"
      <4>1. work = NoWork
        BY <3>3 DEF Types, Tasked
      <4> QED BY <4>1, Values DEF NoWork
    <3> QED BY <3>1, <3>2, <3>3
  <2>7. Kept'
    BY <1>1, <2>6 DEF Kept, Safe, Has, Who
  <2> QED BY <2>2, <2>3, <2>4, <2>5, <2>7 DEF Held
<1> QED BY <1>3, <1>4

\* A restart quarantines what is not registered, and nothing is lost by it.
LEMMA RestartHeld ==
  ASSUME Types, Types', Held, Restart
  PROVE  Held'
<1>1. /\ UNCHANGED <<catalog, resident, job, work, req, born, kept>>
      /\ trash' = trash \cup {live[l].of : l \in {m \in Ids \ catalog : Full(m)}}
      /\ \A l \in Ids : live'[l] = IF l \in catalog THEN live[l] ELSE Absent
      /\ \A c \in Clients : req[c] = NoReq
      /\ Alone /\ Single /\ Marked /\ Creates /\ Imports /\ Copies /\ Switches /\ Kept /\ NoReq.op = ""
      /\ Absent \notin Contents
  BY Values DEF Restart, Types, Requested, Held, NoReq
<1>2. \A l \in Ids : Has(l) <=> Full(l)
  BY HasIs DEF Types
<1>3. \A l \in Ids : /\ Has(l)' => Has(l) /\ Who(l)' = Who(l) /\ (Mark(live[l])' => Mark(live[l]))
                     /\ Has(l) => Has(l)' \/ Who(l) \in trash'
                     /\ Mark(live[l])' => Mark(live[l])
  BY <1>1, <1>2 DEF Has, Who, Mark
<1>4. Alone' /\ Creates'
  <2>1. \A c \in Clients : req'[c].op = ""
    BY <1>1
  <2> QED BY <2>1 DEF Alone, Creates
<1>5. Single'
  BY <1>1, <1>3 DEF Single
<1>6. Marked'
  BY <1>1, <1>3 DEF Marked, Mark
<1>7. \A x : Fresh(x) => Fresh(x)'
  BY <1>1, <1>3 DEF Fresh
<1>8. Imports'
  <2>1. job.kind = "import" => job.ids \subseteq Ids
    BY ImportIs
  <2> QED BY <1>1, <1>3, <1>7, <2>1 DEF Imports
<1>9. Copies'
  <2>1. job.kind = "copy" => job.to \in Ids \/ job.at = "begin"
    BY CopyIs
  <2>2. \A l \in Ids : job.to = l => (Has(job.to)' <=> Has(l)')
    BY <1>1 DEF Has
  <2> QED BY <1>1, <1>3, <1>7, <2>1, <2>2 DEF Copies, Mark
<1>10. Switches'
  <2>1. ASSUME job.kind \in Switch
        PROVE  \E i \in Ids : /\ Id = i /\ i \in catalog' /\ Looks(i)
                              /\ \A m \in Ids \ {i} : Has(m)' =>
                                  Who(m)' > born \/ \E k \in Ids \ {i} : Has(k) /\ Who(k) = Who(m)'
    <3>1. PICK i \in Ids : Id = i
      BY <2>1, SwitchIs
    <3>2. i \in catalog
      BY <1>1, <2>1, <3>1 DEF Switches
    <3>3. Looks(i)
      BY <1>1, <3>2 DEF Looks, SameAt, Has, Who
    <3> QED BY <1>1, <1>3, <3>1, <3>2, <3>3
  <2> QED BY <1>1, <2>1, SwitchesKept
<1>11. Kept'
  <2> SUFFICES ASSUME NEW n \in kept PROVE Safe(n)'
    BY <1>1 DEF Kept
  <2>1. Safe(n)
    BY <1>1 DEF Kept
  <2>2. CASE n \in trash
    BY <1>1, <2>2 DEF Safe
  <2>3. CASE work.previous \in Contents /\ work.previous.of = n
    BY <1>1, <2>3 DEF Safe
  <2>4. ASSUME NEW l \in Ids, Has(l), Who(l) = n PROVE Safe(n)'
    BY <1>3, <2>4 DEF Safe
  <2> QED BY <2>1, <2>2, <2>3, <2>4 DEF Safe
<1> QED BY <1>4, <1>5, <1>6, <1>8, <1>9, <1>10, <1>11 DEF Held

\* What a step of a switch keeps, and what it has to show.
LEMMA SwitchHeld ==
  ASSUME Types, Types', Held, job.kind \in Switch, NEW i \in Ids, Id = i, UNCHANGED <<trash, catalog, kept, req>>,
         job'.kind = job.kind, job'.ids = job.ids, job'.to = job.to, job'.base = job.base,
         \A l \in Ids \ {i} : live'[l] = live[l],
         \A x \in {work'.stage, work'.previous, live'[i]} : x \in Contents =>
            \E y \in {work.stage, work.previous, live[i]} : y \in Contents /\ x.of = y.of /\ (Mark(x) => Mark(y)),
         Has(i) \/ work.previous \in Contents => Has(i)' \/ work'.previous \in Contents,
         work'.previous # Absent => work'.previous \in Contents,
         work'.stage # Hollow,
         job'.phase \in {"cut", "ready", "swapped"} => Old \in Contents,
         job'.state = "run" =>
           /\ job'.at \in {"recheck", "unload", "out", "in", "note", "check", "seal", "end"} => Old \in Contents
           /\ job'.at \in {"in", "note", "check", "seal", "end"} => work'.previous # Absent
           /\ job'.at \in {"note", "check", "seal", "end"} => live'[i] # Absent
           /\ job'.at \in {"out", "in", "note", "check"} => (live'[i] = Hollow => resident'[i] = "none")
           /\ job'.at \in {"seal", "end"} => Has(i)',
         job'.state \in {"inner", "back"} =>
           /\ job'.at \in {"away", "return"} => work'.previous # Absent
           /\ job'.at = "tidy" => work'.previous = Absent
  PROVE  Held'
<1>1. /\ Disks /\ Alone /\ Single /\ Marked /\ Creates /\ Switches /\ Kept /\ Its' = Its
      /\ job.kind \notin {"import", "copy", "none"} /\ job.ids = {i}
  BY SwitchIs DEF Types, Held, Its, Switch
<1>2. Id' = i /\ Old' = Old
  BY DEF Id, Old
<1>3. PICK old : old = Old
  OBVIOUS
<1>4. /\ i \in catalog
      /\ work.stage \in Contents => old \in Contents /\ work.stage.of = old.of
      /\ work.previous \in Contents => old \in Contents /\ work.previous.of = old.of
      /\ Has(i) => old \in Contents /\ Who(i) = old.of
      /\ old \in Contents => \A m \in Ids \ {i} : Has(m) => Who(m) # old.of
      /\ work.previous = Absent => (old \in Contents => Has(i))
      /\ work.previous # Absent => work.previous \in Contents
  BY <1>1, <1>3 DEF Switches, Has, Who
<1>5. ~Mark(live[i]) /\ ~Mark(work.stage) /\ ~Mark(work.previous)
  BY <1>1 DEF Marked
<1>6. \A x \in {work'.stage, work'.previous, live'[i]} : x \in Contents =>
        old \in Contents /\ x.of = old.of /\ ~Mark(x)
  BY <1>4, <1>5 DEF Has, Who
<1>7. /\ Has(i)' => old \in Contents /\ Who(i)' = old.of
      /\ \A l \in Ids \ {i} : /\ Has(l)' <=> Has(l)
                              /\ Who(l)' = Who(l)
                              /\ Mark(live[l])' <=> Mark(live[l])
  BY <1>6 DEF Has, Who, Mark
<1>8. Alone'
  <2>1. \A d \in Clients : req'[d].op # "" => req'[d].op = req[d].op /\ Own(d)' = Own(d)
    BY DEF Own
  <2> QED BY <1>1, <2>1, AloneKept
<1>9. Single'
  BY <1>1, <1>4, <1>7 DEF Single
<1>10. Marked'
  <2>1. \A x \in {work'.stage, work'.previous, live'[i]} : ~Mark(x)
    BY <1>6 DEF Mark
  <2>2. \A l \in Ids \ {i} : ~Mark(live[l])
    BY <1>1 DEF Marked
  <2> QED BY <1>7, <2>1, <2>2 DEF Marked, Mark
<1>11. Creates'
  <2>1. ASSUME NEW d \in Clients, NEW j \in Ids, req'[d].op = "create", req'[d].id = j
        PROVE  /\ req'[d] = req[d] /\ SameAt(j)
               /\ \A n \in kept' : n \in kept \/ \E k \in Ids \ {j} : Has(k) /\ Who(k) = n
    <3>1. j # i
      BY <1>1, <2>1 DEF Alone, Own, Its, Switch
    <3> QED BY <1>7, <3>1 DEF SameAt
  <2> QED BY <1>1, <2>1, CreatesKept
<1>12. Imports' /\ Copies'
  BY <1>1 DEF Imports, Copies
<1>13. Switches'
  <2>1. work'.previous = Absent => (old \in Contents => Has(i)')
    <3>1. Absent \notin Contents
      BY Values
    <3> QED BY <1>4, <3>1
  <2>2. old \in Contents => \A m \in Ids \ {i} : Has(m)' => Who(m)' # old.of
    BY <1>4, <1>7
  <2>3. Old' = old /\ Id' = i /\ Old = old
    BY <1>2, <1>3
  <2>4. Has(Id)' <=> Has(i)'
    BY <2>3 DEF Has
  <2>5. \A x \in {work'.stage, work'.previous, live'[i]} : x \in Contents => old \in Contents /\ x.of = old.of
    BY <1>6
  <2> QED BY <1>4, <2>1, <2>2, <2>3, <2>4, <2>5 DEF Switches
<1>14. Kept'
  <2> SUFFICES ASSUME NEW n \in kept PROVE Safe(n)'
    BY DEF Kept
  <2>1. Safe(n)
    BY <1>1 DEF Kept
  <2>2. CASE n \in trash
    BY <2>2 DEF Safe
  <2>3. ASSUME NEW l \in Ids \ {i}, Has(l), Who(l) = n PROVE Safe(n)'
    BY <1>7, <2>3 DEF Safe
  <2>4. CASE (Has(i) /\ Who(i) = n) \/ (work.previous \in Contents /\ work.previous.of = n)
    <3>1. n = old.of
      BY <1>4, <2>4
    <3>2. Has(i)' \/ work'.previous \in Contents
      BY <2>4
    <3>3. work'.previous \in Contents => work'.previous.of = n
      BY <1>6, <3>1
    <3> QED BY <1>7, <3>1, <3>2, <3>3 DEF Safe
  <2> QED BY <2>1, <2>2, <2>3, <2>4 DEF Safe
<1> QED BY <1>8, <1>9, <1>10, <1>11, <1>12, <1>13, <1>14 DEF Held

\* Steps of a switch that leave its workspace alone.
LEMMA SwitchLooksHeld ==
  ASSUME Types, Types', Held, job.kind \in Switch, job.state = "run", NEW i \in Ids, Id = i,
         UNCHANGED <<trash, catalog, kept, req, work>>,
         \A l \in Ids \ {i} : live'[l] = live[l], SameAt(i), live[i] # Absent => live'[i] # Absent,
         \/ Raise \/ Restore
         \/ \E s \in SwitchAt : Goto(s) /\
              \/ s \in {"target", "bind", "cut"}
              \/ s \in {"recheck", "unload"} /\ Old \in Contents
              \/ s = "out" /\ Old \in Contents /\ resident'[i] = "none"
              \/ s = "in" /\ Old \in Contents /\ work.previous # Absent /\ (live'[i] = Hollow => resident'[i] = "none")
              \/ s \in {"seal", "end"} /\ Old \in Contents /\ work.previous # Absent /\ Has(i)
  PROVE  Held'
<1>1. job \in Jobs /\ Switches
  BY SwitchIs DEF Held
<1>2. Same(job')
  BY <1>1, GotoIs, RaiseIs, RestoreIs
<1>3. /\ Has(i)' <=> Has(i)
      /\ Has(i) => Who(i)' = Who(i)
      /\ Mark(live[i])' => Mark(live[i])
      /\ live[i] # Absent => live'[i] # Absent
      /\ Has(i) => live'[i] # Absent
  <2>1. Absent \notin Contents
    BY Values
  <2> QED BY <2>1 DEF SameAt, Has
<1>4. \A x \in {work'.stage, work'.previous, live'[i]} : x \in Contents =>
        \E y \in {work.stage, work.previous, live[i]} : y \in Contents /\ x.of = y.of /\ (Mark(x) => Mark(y))
  BY <1>3 DEF Has, Who, Mark
<1>5. /\ Has(i) \/ work.previous \in Contents => Has(i)' \/ work'.previous \in Contents
      /\ work'.previous # Absent => work'.previous \in Contents
      /\ work'.stage # Hollow
      /\ job'.phase \in {"cut", "ready", "swapped"} => Old \in Contents
  BY <1>1, <1>2, <1>3 DEF Switches, Same
<1>6. /\ job'.state = "run" =>
           /\ job'.at \in {"recheck", "unload", "out", "in", "note", "check", "seal", "end"} => Old \in Contents
           /\ job'.at \in {"in", "note", "check", "seal", "end"} => work'.previous # Absent
           /\ job'.at \in {"note", "check", "seal", "end"} => live'[i] # Absent
           /\ job'.at \in {"out", "in", "note", "check"} => (live'[i] = Hollow => resident'[i] = "none")
           /\ job'.at \in {"seal", "end"} => Has(i)'
      /\ job'.state \in {"inner", "back"} =>
           /\ job'.at \in {"away", "return"} => work'.previous # Absent
           /\ job'.at = "tidy" => work'.previous = Absent
  <2>1. CASE Raise \/ Restore
    BY <1>1, <2>1, RaiseIs, RestoreIs
  <2>2. ASSUME NEW s \in SwitchAt, Goto(s),
              \/ s \in {"target", "bind", "cut"}
              \/ s \in {"recheck", "unload"} /\ Old \in Contents
              \/ s = "out" /\ Old \in Contents /\ resident'[i] = "none"
              \/ s = "in" /\ Old \in Contents /\ work.previous # Absent /\ (live'[i] = Hollow => resident'[i] = "none")
              \/ s \in {"seal", "end"} /\ Old \in Contents /\ work.previous # Absent /\ Has(i)
        PROVE <1>6
    <3>1. job'.at = s /\ job'.state = "run" /\ work' = work
      BY <1>1, <2>2, GotoIs
    <3> QED BY <1>3, <2>2, <3>1
  <2> QED BY <2>1, <2>2
<1> QED BY <1>2, <1>4, <1>5, <1>6, SwitchHeld DEF Same

\* The task finds the directory as searches left it, or opens it.
LEMMA SwitchSearchHeld ==
  ASSUME Types, Types', Held, Begin \/ Target \/ Bind \/ Recheck \/ Release \/ Check \/ Seal,
         spoiled' \subseteq Harmless
  PROVE  Held'
<1>1. /\ job.kind \in Switch /\ job.state = "run" /\ UNCHANGED <<trash, catalog, kept, req, work>>
      /\ Disks /\ Switches
  BY SwitchLooks DEF Types, Held
<1>2. PICK i \in Ids : Id = i
  BY <1>1, SwitchIs
<1>3. /\ Has(i) <=> Full(i)
      /\ live[i] \in Places /\ resident[i] \in {"none", "here", "stale"}
  BY <1>1, HasIs, FullIs
<1>4. /\ Absent \notin Contents /\ Hollow \notin Contents /\ Absent # Hollow
      /\ \A x \in Places : x \notin {Absent, Hollow} => x \in Contents
  BY Values
<1>5. /\ work.previous # Absent => work.previous \in Contents /\ Old \in Contents
      /\ job.phase = "ready" => Old \in Contents
  BY <1>1 DEF Switches
<1>6. \/ UNCHANGED <<live, resident>>
      \/ Touch({i})
      \/ UNCHANGED live /\ Unload(i)
      \/ UNCHANGED resident /\ live' = [live EXCEPT ![i] = IF @ = Absent THEN Hollow ELSE @]
  BY <1>2 DEF Begin, Target, Bind, Recheck, Release, Check, Seal, disk
<1>7. (\A l \in Ids \ {i} : live'[l] = live[l]) /\ SameAt(i) /\ (live[i] # Absent => live'[i] # Absent)
  <2>1. CASE UNCHANGED <<live, resident>>
    BY <2>1 DEF SameAt, Has, Who
  <2>2. CASE Touch({i})
    BY <1>1, <1>4, <2>2, TouchIs, TouchLooks DEF Looks
  <2>3. CASE UNCHANGED live /\ Unload(i)
    BY <1>1, <2>3, UnloadIs DEF SameAt, Has, Who
  <2>4. CASE UNCHANGED resident /\ live' = [live EXCEPT ![i] = IF @ = Absent THEN Hollow ELSE @]
    <3>1. /\ live'[i] = IF live[i] = Absent THEN Hollow ELSE live[i]
          /\ \A l \in Ids \ {i} : live'[l] = live[l]
      BY <1>1, <2>4 DEF Disks
    <3> QED BY <1>4, <2>4, <3>1 DEF SameAt, Has, Who, Mark
  <2> QED BY <1>6, <2>1, <2>2, <2>3, <2>4
<1>8. <<"search", "hollow">> \notin Harmless
  BY DEF Harmless
<1>9. Taken /\ Switched => Old \in Contents /\ work.previous # Absent /\ Has(i)
  <2> SUFFICES ASSUME Taken, Switched PROVE Old \in Contents /\ work.previous # Absent /\ Has(i)
    OBVIOUS
  <2>1. live[i] # Hollow
    <3>1. live[i] = Hollow => spoiled' = spoiled \cup {<<op, "hollow">> : op \in {"search"}}
      BY <1>2 DEF Taken, Meet
    <3> QED BY <1>8, <3>1
  <2> QED BY <1>2, <1>3, <1>4, <1>5, <2>1 DEF Switched, Has
<1>10. Works(i) /\ (live[i] = Hollow => resident[i] = "none") /\ live[i] # Absent => Has(i)
  BY <1>3, <1>4 DEF Works, Has
<1>11. \/ Raise \/ Restore
       \/ \E s \in SwitchAt : Goto(s) /\
            \/ s \in {"target", "bind", "cut"}
            \/ s \in {"recheck", "unload"} /\ Old \in Contents
            \/ s = "out" /\ Old \in Contents /\ resident'[i] = "none"
            \/ s \in {"seal", "end"} /\ Old \in Contents /\ work.previous # Absent /\ Has(i)
  <2>1. CASE Begin
    <3>1. /\ Taken
          /\ \/ Goto("target")
             \/ Switched /\ Goto("seal")
             \/ Goto("bind")
             \/ job.phase = "ready" /\ Goto("unload")
             \/ Goto("cut")
      BY <1>1, <2>1 DEF Begin, Switch
    <3> QED BY <1>5, <1>9, <3>1 DEF SwitchAt
  <2>2. CASE Target
    <3>1. \/ Raise
          \/ (job.phase = "ready" \/ Switched) /\ Goto("recheck")
          \/ Goto("cut")
      BY <2>2 DEF Target
    <3> QED BY <1>5, <3>1 DEF SwitchAt, Switched
  <2>3. CASE Bind
    <3>1. \/ Raise
          \/ job.phase = "ready" /\ Goto("recheck")
          \/ Goto("cut")
      BY <2>3 DEF Bind
    <3> QED BY <1>5, <3>1 DEF SwitchAt
  <2>4. CASE Recheck
    <3>1. Goto("unload") /\ job.at = "recheck"
      BY <2>4 DEF Recheck, On
    <3>2. Old \in Contents
      BY <1>1, <3>1 DEF Switches
    <3> QED BY <3>1, <3>2 DEF SwitchAt
  <2>5. CASE Release
    <3>1. /\ Taken /\ job.at = "unload"
          /\ \/ Switched /\ Goto("seal")
             \/ Unload(i) /\ Goto("out")
      BY <1>2, <2>5 DEF Release, On
    <3>2. Old \in Contents
      BY <1>1, <3>1 DEF Switches
    <3>3. Unload(i) => resident'[i] = "none"
      BY <1>1, UnloadIs
    <3> QED BY <1>9, <3>1, <3>2, <3>3 DEF SwitchAt
  <2>6. CASE Check
    <3>1. job.at = "check" /\ (Restore \/ (Works(i) /\ Goto("seal")))
      BY <1>2, <2>6 DEF Check, On
    <3>2. Old \in Contents /\ work.previous # Absent /\ live[i] # Absent /\ (live[i] = Hollow => resident[i] = "none")
      BY <1>1, <1>2, <3>1 DEF Switches
    <3> QED BY <1>10, <3>1, <3>2 DEF SwitchAt
  <2>7. CASE Seal
    <3>1. job.at = "seal" /\ (Raise \/ Restore \/ Goto("end"))
      BY <2>7 DEF Seal, On
    <3>2. Old \in Contents /\ work.previous # Absent /\ Has(i)
      BY <1>1, <1>2, <3>1 DEF Switches, Has
    <3> QED BY <3>1, <3>2 DEF SwitchAt
  <2> QED BY <2>1, <2>2, <2>3, <2>4, <2>5, <2>6, <2>7
<1> QED BY <1>1, <1>2, <1>7, <1>11, SwitchLooksHeld

\* The steps that make the copy and put it in place of the library.
LEMMA SwitchMovesHeld ==
  ASSUME Types, Types', Held, Cut \/ Apply \/ MoveOut \/ MoveIn \/ Note
  PROVE  Held'
<1>1. /\ job.kind \in Switch /\ job.state = "run" /\ UNCHANGED <<trash, catalog, kept, req>>
      /\ Disks /\ Switches /\ ~Mark(work.stage) /\ job \in Jobs /\ work \in Spaces
  BY DEF Cut, Apply, MoveOut, MoveIn, Note, On, Switch, disk, Types, Tasked, Held, Marked
<1>2. PICK i \in Ids : Id = i
  BY <1>1, SwitchIs
<1>3. /\ Has(i) <=> Full(i)
      /\ live[i] \in Places /\ live \in [Ids -> Places]
      /\ Absent \notin Contents /\ Hollow \notin Contents /\ Absent # Hollow
  BY <1>1, HasIs, FullIs, Values DEF Disks
<1>4. /\ work.stage \in Contents => Old \in Contents
      /\ Has(i) => Old \in Contents
      /\ work.previous = Absent => (Old \in Contents => Has(i))
      /\ work.previous # Absent => work.previous \in Contents
      /\ work.stage # Hollow
      /\ job.phase \in {"cut", "ready", "swapped"} => Old \in Contents
      /\ job.at \in {"recheck", "unload", "out", "in", "note", "check", "seal", "end"} => Old \in Contents
      /\ job.at \in {"in", "note", "check", "seal", "end"} => work.previous # Absent
      /\ job.at \in {"note", "check", "seal", "end"} => live[i] # Absent
      /\ job.at \in {"out", "in", "note", "check"} => (live[i] = Hollow => resident[i] = "none")
  BY <1>1, <1>2 DEF Switches, Has
<1>5. /\ \A s : Goto(s) => job'.kind = job.kind /\ job'.ids = job.ids /\ job'.to = job.to /\ job'.base = job.base
                           /\ job'.phase = job.phase /\ job'.state = job.state /\ job'.at = s
      /\ Raise => job'.kind = job.kind /\ job'.ids = job.ids /\ job'.to = job.to /\ job'.base = job.base
                  /\ job'.phase = job.phase /\ job'.state = "back" /\ job'.at = "unload"
  BY <1>1 DEF Goto, Raise, Jobs
<1>6. CASE Raise /\ UNCHANGED <<live, work, resident>>
  <2>1. SameAt(i) /\ \A l \in Ids \ {i} : live'[l] = live[l]
    BY <1>6 DEF SameAt, Has, Who
  <2> QED BY <1>1, <1>2, <1>6, <2>1, SwitchLooksHeld
<1>7. CASE Goto("in") /\ UNCHANGED <<live, work, resident>> /\ job.at = "out" /\ work.previous # Absent
  <2>1. SameAt(i) /\ \A l \in Ids \ {i} : live'[l] = live[l]
    BY <1>7 DEF SameAt, Has, Who
  <2>2. Old \in Contents /\ work.previous # Absent /\ (live'[i] = Hollow => resident'[i] = "none")
    BY <1>4, <1>7
  <2>3. "in" \in SwitchAt
    BY DEF SwitchAt
  <2> QED BY <1>1, <1>2, <1>7, <2>1, <2>2, <2>3, SwitchLooksHeld
<1>8. CASE Cut /\ Full(i)
  <2>1. /\ work' = [work EXCEPT !.stage = live[i]]
        /\ job' = [job EXCEPT !.phase = "cut", !.at = "apply"]
        /\ UNCHANGED <<live, resident>>
    BY <1>2, <1>8 DEF Cut, disk
  <2>2. /\ work'.stage = live[i] /\ work'.previous = work.previous
        /\ job'.kind = job.kind /\ job'.ids = job.ids /\ job'.to = job.to /\ job'.base = job.base
        /\ job'.state = "run" /\ job'.at = "apply"
    BY <1>1, <2>1 DEF Jobs, Spaces
  <2>3. \A x \in {work'.stage, work'.previous, live'[i]} : x \in Contents =>
          \E y \in {work.stage, work.previous, live[i]} : y \in Contents /\ x.of = y.of /\ (Mark(x) => Mark(y))
    BY <2>1, <2>2
  <2>4. Has(i)' <=> Has(i)
    BY <2>1 DEF Has
  <2> QED BY <1>1, <1>2, <1>3, <1>4, <1>8, <2>1, <2>2, <2>3, <2>4, SwitchHeld DEF Full
<1>9. CASE Apply
  <2>1. /\ work' = [work EXCEPT !.stage.has = @ \cup {"task"}]
        /\ job' = [job EXCEPT !.phase = "ready", !.at = IF job.kind = "removal" THEN "unload" ELSE "recheck"]
        /\ UNCHANGED <<live, resident>> /\ job.at = "apply"
    BY <1>9 DEF Apply, On, disk
  <2>2. work.stage \in Contents
    BY <1>1, <2>1 DEF Types, Switched1
  <2>3. /\ work'.stage = [work.stage EXCEPT !.has = @ \cup {"task"}] /\ work'.previous = work.previous
        /\ job'.kind = job.kind /\ job'.ids = job.ids /\ job'.to = job.to /\ job'.base = job.base
        /\ job'.state = "run" /\ job'.at \in {"unload", "recheck"}
    BY <1>1, <2>1 DEF Jobs, Spaces
  <2>4. work'.stage \in Contents /\ work'.stage.of = work.stage.of /\ (Mark(work'.stage) => Mark(work.stage))
    <3>1. PICK x \in Contents : x = work.stage
      BY <2>2
    <3>2. PICK y : y = [x EXCEPT !.has = @ \cup {"task"}]
      OBVIOUS
    <3>3. y \in Contents /\ y.of = x.of /\ y.has = x.has \cup {"task"}
      BY <3>2 DEF Contents
    <3>4. work'.stage = y
      BY <2>3, <3>1, <3>2
    <3> QED BY <3>1, <3>3, <3>4 DEF Mark
  <2>5. \A x \in {work'.stage, work'.previous, live'[i]} : x \in Contents =>
          \E y \in {work.stage, work.previous, live[i]} : y \in Contents /\ x.of = y.of /\ (Mark(x) => Mark(y))
    BY <2>1, <2>2, <2>3, <2>4
  <2>6. Has(i)' <=> Has(i)
    BY <2>1 DEF Has
  <2> QED BY <1>1, <1>2, <1>3, <1>4, <2>1, <2>2, <2>3, <2>4, <2>5, <2>6, SwitchHeld
<1>10. CASE MoveOut /\ work.previous = Absent /\ live[i] # Absent
  <2>1. /\ work' = [work EXCEPT !.previous = live[i]]
        /\ live' = [live EXCEPT ![i] = Absent] /\ Goto("in") /\ job.at = "out"
    BY <1>2, <1>10 DEF MoveOut, On
  <2>2. /\ work'.stage = work.stage /\ work'.previous = live[i] /\ live'[i] = Absent
        /\ \A l \in Ids \ {i} : live'[l] = live[l]
    BY <1>1, <1>3, <2>1 DEF Spaces
  <2>3. live[i] \in Contents /\ Old \in Contents
    BY <1>4, <1>10, <2>1 DEF Has
  <2>4. \A x \in {work'.stage, work'.previous, live'[i]} : x \in Contents =>
          \E y \in {work.stage, work.previous, live[i]} : y \in Contents /\ x.of = y.of /\ (Mark(x) => Mark(y))
    BY <1>3, <2>2
  <2> QED BY <1>1, <1>2, <1>3, <1>4, <1>5, <2>1, <2>2, <2>3, <2>4, SwitchHeld
<1>11. CASE MoveIn /\ ~((work.stage = Absent) = (live[i] = Absent))
  <2>1. /\ work' = [work EXCEPT !.stage = Absent] /\ UNCHANGED resident
        /\ live' = [live EXCEPT ![i] = IF work.stage = Absent THEN @ ELSE work.stage]
        /\ Goto("note") /\ job.at = "in"
    BY <1>2, <1>11 DEF MoveIn, On
  <2>2. /\ work'.stage = Absent /\ work'.previous = work.previous
        /\ live'[i] = IF work.stage = Absent THEN live[i] ELSE work.stage
        /\ \A l \in Ids \ {i} : live'[l] = live[l]
    BY <1>1, <1>3, <2>1 DEF Spaces
  <2>3. live'[i] # Absent /\ (live'[i] = Hollow => live[i] = Hollow)
    BY <1>4, <1>11, <2>2
  <2>4. \A x \in {work'.stage, work'.previous, live'[i]} : x \in Contents =>
          \E y \in {work.stage, work.previous, live[i]} : y \in Contents /\ x.of = y.of /\ (Mark(x) => Mark(y))
    BY <1>3, <2>2
  <2> QED BY <1>1, <1>2, <1>3, <1>4, <1>5, <2>1, <2>2, <2>3, <2>4, SwitchHeld
<1>12. CASE Note
  <2>1. /\ job' = [job EXCEPT !.phase = "swapped", !.at = "check"] /\ job.at = "note"
        /\ live' = live /\ resident' = resident /\ work' = work
    BY <1>12 DEF Note, On, disk
  <2>2. /\ job'.kind = job.kind /\ job'.ids = job.ids /\ job'.to = job.to /\ job'.base = job.base
        /\ job'.state = "run" /\ job'.at = "check"
    BY <1>1, <2>1 DEF Jobs
  <2>3. \A x \in {work'.stage, work'.previous, live'[i]} : x \in Contents =>
          \E y \in {work.stage, work.previous, live[i]} : y \in Contents /\ x.of = y.of /\ (Mark(x) => Mark(y))
    BY <2>1
  <2>4. Has(i)' <=> Has(i)
    BY <2>1 DEF Has
  <2> QED BY <1>1, <1>2, <1>3, <1>4, <2>1, <2>2, <2>3, <2>4, SwitchHeld
<1> QED
  <2>1. CASE Cut
    BY <1>2, <1>6, <1>8, <2>1 DEF Cut, disk
  <2>2. CASE MoveOut
    BY <1>2, <1>6, <1>7, <1>10, <2>2 DEF MoveOut, On
  <2>3. CASE MoveIn
    BY <1>2, <1>6, <1>11, <2>3 DEF MoveIn
  <2> QED BY <1>9, <1>12, <2>1, <2>2, <2>3

\* The rollback of a switch.
LEMMA SwitchBackHeld ==
  ASSUME Types, Types', Held, BackUnload \/ BackAway \/ BackReturn \/ BackTidy
  PROVE  Held'
<1>1. /\ job.kind \in Switch /\ job.state \in {"inner", "back"} /\ UNCHANGED <<trash, catalog, kept, req, born>>
      /\ Disks /\ Switches /\ Marked /\ job \in Jobs /\ work \in Spaces /\ "import" \notin Switch
  BY DEF BackUnload, BackAway, BackReturn, BackTidy, Back, Switch, disk, Types, Tasked, Held
<1>2. PICK i \in Ids : Id = i
  BY <1>1, SwitchIs
<1>3. /\ live \in [Ids -> Places]
      /\ Absent \notin Contents /\ Hollow \notin Contents /\ Absent # Hollow
  BY <1>1, Values DEF Disks
<1>4. /\ work.previous = Absent => (Old \in Contents => Has(i))
      /\ work.previous # Absent => work.previous \in Contents
      /\ work.stage # Hollow
      /\ job.phase \in {"cut", "ready", "swapped"} => Old \in Contents
      /\ job.at \in {"away", "return"} => work.previous # Absent
      /\ job.at = "tidy" => work.previous = Absent
  BY <1>1, <1>2 DEF Switches, Has
<1>5. \A s : Goto(s) => /\ job'.kind = job.kind /\ job'.ids = job.ids /\ job'.to = job.to /\ job'.base = job.base
                        /\ job'.phase = job.phase /\ job'.state = job.state /\ job'.at = s
  BY <1>1 DEF Goto, Jobs
<1>6. Fail => /\ job'.kind = job.kind /\ job'.ids = job.ids /\ job'.to = job.to /\ job'.base = job.base
              /\ job'.phase = job.phase
              /\ job'.state = "parked" \/ (job'.state = "back" /\ job'.at = "unload")
  BY <1>1 DEF Fail, Raise, Jobs
<1>7. CASE BackUnload
  <2>1. /\ live' = live /\ work' = work
        /\ (work.previous = Absent /\ Goto("tidy")) \/ (work.previous # Absent /\ Goto("away"))
    BY <1>7 DEF BackUnload, disk
  <2>2. \A x \in {work'.stage, work'.previous, live'[i]} : x \in Contents =>
          \E y \in {work.stage, work.previous, live[i]} : y \in Contents /\ x.of = y.of /\ (Mark(x) => Mark(y))
    BY <2>1
  <2>3. Has(i)' <=> Has(i)
    BY <2>1 DEF Has
  <2> QED BY <1>1, <1>2, <1>4, <1>5, <2>1, <2>2, <2>3, SwitchHeld
<1>8. CASE BackAway
  <2>1. /\ work' = [work EXCEPT !.failed = live[i]] /\ job.at = "away"
        /\ live' = [live EXCEPT ![i] = Absent] /\ Goto("return")
    BY <1>2, <1>8 DEF BackAway, Back
  <2>2. /\ work'.stage = work.stage /\ work'.previous = work.previous /\ live'[i] = Absent
        /\ \A l \in Ids \ {i} : live'[l] = live[l]
    BY <1>1, <1>3, <2>1 DEF Spaces
  <2>3. \A x \in {work'.stage, work'.previous, live'[i]} : x \in Contents =>
          \E y \in {work.stage, work.previous, live[i]} : y \in Contents /\ x.of = y.of /\ (Mark(x) => Mark(y))
    BY <1>3, <2>2
  <2> QED BY <1>1, <1>2, <1>4, <1>5, <2>1, <2>2, <2>3, SwitchHeld
<1>9. CASE BackReturn /\ live[i] # Absent
  <2>1. /\ live' = live /\ work' = work /\ Fail
    BY <1>2, <1>9 DEF BackReturn
  <2>2. \A x \in {work'.stage, work'.previous, live'[i]} : x \in Contents =>
          \E y \in {work.stage, work.previous, live[i]} : y \in Contents /\ x.of = y.of /\ (Mark(x) => Mark(y))
    BY <2>1
  <2>3. Has(i)' <=> Has(i)
    BY <2>1 DEF Has
  <2> QED BY <1>1, <1>2, <1>4, <1>6, <2>1, <2>2, <2>3, SwitchHeld
<1>10. CASE BackReturn /\ live[i] = Absent
  <2>1. /\ work' = [work EXCEPT !.previous = Absent] /\ job.at = "return"
        /\ live' = [live EXCEPT ![i] = work.previous] /\ Goto("tidy")
    BY <1>2, <1>10 DEF BackReturn, Back
  <2>2. /\ work'.stage = work.stage /\ work'.previous = Absent /\ live'[i] = work.previous
        /\ \A l \in Ids \ {i} : live'[l] = live[l]
    BY <1>1, <1>3, <2>1 DEF Spaces
  <2>3. \A x \in {work'.stage, work'.previous, live'[i]} : x \in Contents =>
          \E y \in {work.stage, work.previous, live[i]} : y \in Contents /\ x.of = y.of /\ (Mark(x) => Mark(y))
    BY <1>3, <2>2
  <2>4. Has(i)'
    BY <1>4, <2>1, <2>2 DEF Has
  <2> QED BY <1>1, <1>2, <1>4, <1>5, <2>1, <2>2, <2>3, <2>4, SwitchHeld
<1>11. CASE BackTidy
  <2>1. SameLibs /\ \A l \in Ids \ {i} : live'[l] = live[l]
    <3>1. CASE UNCHANGED <<live, resident>>
      BY <3>1 DEF SameLibs, SameAt, Has, Who
    <3>2. CASE Touch({i})
      BY <1>1, <3>2, TouchIs, TouchLooks
    <3> QED BY <1>2, <1>11, <3>1, <3>2 DEF BackTidy
  <2>2. work.previous = Absent
    BY <1>4, <1>11 DEF BackTidy, Back
  <2>3. CASE Undone
    <3>1. \A l \in Ids : ~Mark(live[l])'
      BY <1>1, <2>1 DEF Marked, SameLibs, SameAt
    <3> QED BY <1>1, <1>3, <2>1, <2>2, <2>3, <3>1, EndHeld
  <2>4. ASSUME work' = [work EXCEPT !.stage = Absent, !.failed = Absent],
               Fail \/ job' = [job EXCEPT !.state = "back", !.at = "unload", !.phase = "rolled_back"]
        PROVE  Held'
    <3>1. work'.stage = Absent /\ work'.previous = Absent
      BY <1>1, <2>2, <2>4 DEF Spaces
    <3>2. /\ Has(i)' <=> Has(i)
          /\ Has(i) => Who(i)' = Who(i)
          /\ Mark(live[i])' => Mark(live[i])
      BY <2>1 DEF SameLibs, SameAt
    <3>3. \A x \in {work'.stage, work'.previous, live'[i]} : x \in Contents =>
            \E y \in {work.stage, work.previous, live[i]} : y \in Contents /\ x.of = y.of /\ (Mark(x) => Mark(y))
      BY <1>3, <3>1, <3>2 DEF Has, Who, Mark
    <3>4. /\ job'.kind = job.kind /\ job'.ids = job.ids /\ job'.to = job.to /\ job'.base = job.base
          /\ job'.phase \in {job.phase, "rolled_back"}
          /\ job'.state = "parked" \/ (job'.state = "back" /\ job'.at = "unload")
      <4>1. CASE Fail
        BY <1>6, <4>1
      <4>2. CASE job' = [job EXCEPT !.state = "back", !.at = "unload", !.phase = "rolled_back"]
        BY <1>1, <4>2 DEF Jobs
      <4> QED BY <2>4, <4>1, <4>2
    <3>5. job'.phase \in {"cut", "ready", "swapped"} => Old \in Contents
      BY <1>4, <3>4
    <3> QED BY <1>1, <1>2, <1>3, <1>4, <2>1, <2>2, <3>1, <3>2, <3>3, <3>4, <3>5, SwitchHeld
  <2> QED BY <1>11, <2>3, <2>4 DEF BackTidy
<1> QED BY <1>7, <1>8, <1>9, <1>10, <1>11

\* A task that fails, is parked, goes on or is stopped.
LEMMA HaltedHeld ==
  ASSUME Types, Types', Held, RollbackFault \/ Pause \/ Resume \/ Stop
  PROVE  Held'
<1>1. /\ UNCHANGED <<catalog, trash, work, kept>> /\ req' = req /\ UNCHANGED live
  BY DEF RollbackFault, Pause, Resume, Stop, disk
<1>2. SameLibs
  BY <1>1 DEF SameLibs, SameAt, Has, Who
<1>3. job \in Jobs /\ job.kind \in Switch \cup {"import"}
  <2>1. job \in Jobs /\ job.state \in {"run", "inner", "back", "parked"}
    BY DEF RollbackFault, Pause, Resume, Stop, On, Types, Tasked
  <2>2. job.kind # "none"
    BY <2>1 DEF Types, Tasked
  <2>3. job.kind = "copy" => job.state = "run" /\ job.at \in CopyAt
    BY CopyIs
  <2>4. job.kind # "copy"
    BY <2>3 DEF RollbackFault, Pause, Resume, Stop, On, Switch
  <2> QED BY <2>1, <2>2, <2>4 DEF Jobs, Tasks
<1>4. /\ Same(job')
      /\ \/ job'.state = "parked"
         \/ job'.state \in {"inner", "back"} /\ job'.at = "unload" /\ (job.kind = "import" => job'.todo = job.ids)
         \/ job'.state = "run" /\ job'.at = "begin"
  <2>1. CASE Raise
    BY <1>3, <2>1, RaiseIs
  <2>2. CASE job' = [job EXCEPT !.state = "parked"]
    BY <1>3, <2>2 DEF Jobs, Same
  <2>3. CASE job' = [job EXCEPT !.state = "run", !.at = "begin"]
    BY <1>3, <2>3 DEF Jobs, Same
  <2> QED BY <2>1, <2>2, <2>3 DEF RollbackFault, Pause, Resume, Stop, Fail
<1>5. \A d \in Clients : req'[d] = req[d]
  BY <1>1
<1> QED BY <1>1, <1>2, <1>3, <1>4, <1>5, HaltHeld

\* The task is over, and its marker is gone.
LEMMA FinishHeld ==
  ASSUME Types, Types', Held, Finish
  PROVE  Held'
<1>1. /\ Complete /\ live' = Plain /\ UNCHANGED <<trash, born, req>> /\ Disks /\ Marked /\ Switches
      /\ job.kind \in Switch \cup {"import"} /\ job.state = "run" /\ job.at = "end"
      /\ kept' = IF job.kind = "import" THEN kept \cup {live[l].of : l \in {m \in job.ids : Full(m)}} ELSE kept
  BY DEF Finish, On, Types, Held
<1>2. \A l \in Ids : /\ live[l] \notin Contents => live'[l] = live[l]
                     /\ live[l] \in Contents =>
                          /\ live'[l] \in Contents /\ live'[l].of = live[l].of
                          /\ live'[l].has = IF l \in job.ids THEN live[l].has \ {"owner"} ELSE live[l].has
  BY <1>1, PlainIs
<1>3. \A l \in Ids : SameAt(l) /\ (l \in job.ids => ~Mark(live'[l]))
  BY <1>2 DEF SameAt, Has, Who, Mark
<1>4. \A l \in Ids : ~Mark(live'[l])
  BY <1>1, <1>3 DEF Marked, SameAt
<1>5. work.previous \in Contents => \E k \in Ids : Has(k) /\ Who(k) = work.previous.of
  <2>1. CASE job.kind = "import"
    BY <2>1, ImportIs, Values
  <2>2. CASE job.kind \in Switch
    <3>1. PICK i \in Ids : Id = i
      BY <2>2, SwitchIs
    <3>2. Has(i) /\ (work.previous \in Contents => work.previous.of = Old.of) /\ Who(i) = Old.of
      BY <1>1, <2>2, <3>1 DEF Switches, Has, Who
    <3> QED BY <3>2
  <2> QED BY <1>1, <2>1, <2>2
<1>6. \A n \in kept' : n \in kept \/ \E k \in Ids \cap Its : Has(k) /\ Who(k) = n
  <2>1. CASE job.kind # "import"
    BY <1>1, <2>1
  <2>2. CASE job.kind = "import"
    <3> SUFFICES ASSUME NEW n \in kept', n \notin kept PROVE \E k \in Ids \cap Its : Has(k) /\ Who(k) = n
      OBVIOUS
    <3>1. PICK k \in job.ids : Full(k) /\ n = live[k].of
      BY <1>1, <2>2
    <3>2. k \in Ids \cap Its
      BY <2>2, ImportIs DEF Its
    <3> QED BY <1>1, <3>1, <3>2, HasIs DEF Who
  <2> QED BY <2>1, <2>2
<1>7. SameLibs
  BY <1>3 DEF SameLibs
<1>8. \A l \in Ids : ~Mark(live[l])'
  BY <1>4 DEF Mark
<1> QED BY <1>1, <1>5, <1>6, <1>7, <1>8, EndHeld

\* What a step of an import keeps, and what it has to show.
LEMMA ImportHeld ==
  ASSUME Types, Types', Held, job.kind = "import", UNCHANGED <<trash, kept, req>>,
         job'.kind = job.kind, job'.ids = job.ids,
         \A l \in Ids \ job.ids : live'[l] = live[l] \/ SameAt(l),
         \/ SameLibs
         \/ \E k \in job.ids : Emptied(k) /\ (Has(k) => Who(k) \notin kept)
         \/ \E k \in job.ids, x \in Contents : Filled(k, x) /\ Fresh(x),
         job.phase # "" => job'.phase # "",
         \A l \in job.ids : Mark(live'[l]) => job'.phase # "",
         Imports'
  PROVE  Held'
<1>1. /\ Disks /\ Alone /\ Single /\ Marked /\ Creates /\ Kept
      /\ job.ids \subseteq Ids /\ job'.to \in job.ids \cup {0} /\ Its' \subseteq Its \cup {0}
      /\ work.previous = Absent /\ work'.previous = Absent /\ work'.stage = Absent /\ Absent \notin Contents
      /\ "import" \notin Switch
  <2>1. job.ids \subseteq Ids /\ work.previous = Absent
    BY ImportIs
  <2>2. job'.to \in job'.ids \cup {0} /\ work'.previous = Absent /\ work'.stage = Absent
    BY DEF Types, Imported1
  <2> QED BY <2>1, <2>2, Values DEF Types, Held, Its, Switch
<1>2. \A l \in Ids \ job.ids : /\ Has(l)' <=> Has(l)
                               /\ Has(l) => Who(l)' = Who(l)
                               /\ Mark(live'[l]) => Mark(live[l])
  BY DEF SameAt, Has, Who, Mark
<1>3. Alone'
  <2>1. \A d \in Clients : req'[d].op # "" => req'[d].op = req[d].op /\ Own(d)' = Own(d)
    BY DEF Own
  <2> QED BY <1>1, <2>1, AloneKept
<1>4. Single'
  <2>1. \/ SameLibs
        \/ \E k \in Ids : Emptied(k)
        \/ \E k \in Ids, x \in Contents : Filled(k, x) /\ \A l \in Ids : Has(l) => Who(l) # x.of
    BY <1>1 DEF Fresh
  <2> QED BY <1>1, <2>1, SingleKept
<1>5. Marked'
  <2>1. ASSUME NEW l \in Ids, Mark(live'[l]) PROVE l \in job.ids /\ job'.phase # ""
    BY <1>1, <1>2, <2>1 DEF Marked
  <2>2. ~Mark(work'.stage) /\ ~Mark(work'.previous)
    BY <1>1 DEF Mark
  <2> QED BY <2>1, <2>2 DEF Marked, Mark
<1>6. Creates'
  <2>1. ASSUME NEW d \in Clients, NEW j \in Ids, req'[d].op = "create", req'[d].id = j
        PROVE  /\ req'[d] = req[d] /\ SameAt(j)
               /\ \A n \in kept' : n \in kept \/ \E k \in Ids \ {j} : Has(k) /\ Who(k) = n
    <3>1. j \notin job.ids
      BY <1>1, <2>1 DEF Alone, Own, Its, Switch
    <3>2. req'[d] = req[d] /\ \A n \in kept' : n \in kept
      OBVIOUS
    <3> QED BY <1>2, <2>1, <3>1, <3>2 DEF SameAt, Mark
  <2> QED BY <1>1, <2>1, CreatesKept
<1>7. Copies' /\ Switches'
  BY <1>1 DEF Copies, Switches
<1>8. Kept'
  <2> SUFFICES ASSUME NEW n \in kept PROVE Safe(n)'
    BY DEF Kept
  <2>1. n \in trash \/ \E l \in Ids : Has(l) /\ Who(l) = n
    BY <1>1 DEF Kept, Safe
  <2>2. CASE n \in trash
    BY <2>2 DEF Safe
  <2>3. ASSUME NEW l \in Ids, Has(l), Who(l) = n PROVE Safe(n)'
    <3>1. CASE SameLibs
      BY <2>3, <3>1 DEF SameLibs, SameAt, Safe
    <3>2. ASSUME NEW k \in job.ids, Emptied(k), Has(k) => Who(k) \notin kept PROVE Safe(n)'
      BY <2>3, <3>2 DEF Emptied, Safe, Has, Who
    <3>3. ASSUME NEW k \in job.ids, NEW x \in Contents, Filled(k, x) PROVE Safe(n)'
      BY <2>3, <3>3 DEF Filled, Safe, Has, Who
    <3> QED BY <3>1, <3>2, <3>3
  <2> QED BY <2>1, <2>2, <2>3
<1> QED BY <1>3, <1>4, <1>5, <1>6, <1>7, <1>8 DEF Held

\* Steps of an import that leave the libraries as they are.
LEMMA ImportStaysHeld ==
  ASSUME Types, Types', Held, job.kind = "import", UNCHANGED <<trash, kept, req>>, SameLibs,
         work'.prepared = work.prepared, job'.kind = job.kind, job'.ids = job.ids,
         job'.phase = job.phase \/ (job.phase # "" /\ job'.phase # ""),
         job'.state = "back" => \/ job'.todo = job.ids
                                \/ job.state = "back" /\ job'.todo = job.todo,
         job'.state = "back" /\ job'.at = "remove" => job'.phase # ""
  PROVE  Held'
<1>1. /\ Imports /\ Marked /\ job.ids \subseteq Ids
      /\ \A l \in Ids : (Has(l)' <=> Has(l)) /\ (Has(l) => Who(l)' = Who(l)) /\ (Mark(live[l])' => Mark(live[l]))
  BY ImportIs DEF Held, SameLibs, SameAt
<1>2. \A x : Fresh(x) => Fresh(x)'
  BY <1>1 DEF Fresh
<1>3. \A l \in Ids : Fresh(work.prepared[l]) => Fresh(work.prepared[l])'
  BY <1>2 DEF Fresh
<1>4. Imports'
  <2>1. job.phase # "" => \A l \in job.ids : Has(l)' => Who(l)' \notin kept
    BY <1>1 DEF Imports
  <2>2. job'.state = "back" => \A l \in job.ids \ job'.todo : ~Mark(live[l])'
    BY <1>1 DEF Imports
  <2>3. \A l \in Ids : work.prepared[l] # Absent => Fresh(work.prepared[l])'
    BY <1>1, <1>3 DEF Imports
  <2>4. \A l, m \in Ids : l # m /\ work.prepared[l] # Absent /\ work.prepared[m] # Absent =>
          work.prepared[l].of # work.prepared[m].of
    BY <1>1 DEF Imports
  <2> QED BY <2>1, <2>2, <2>3, <2>4 DEF Imports
<1>5. \A l \in job.ids : Mark(live'[l]) => job'.phase # ""
  BY <1>1 DEF Marked, Mark
<1>6. \A l \in Ids \ job.ids : live'[l] = live[l] \/ SameAt(l)
  BY DEF SameLibs
<1> QED BY <1>4, <1>5, <1>6, ImportHeld

\* An import that raises keeps the invariant.
LEMMA ImportRaisesHeld ==
  ASSUME Types, Types', Held, job.kind = "import", UNCHANGED <<trash, kept, req, work>>, SameLibs, Raise
  PROVE  Held'
<1>1. job \in Jobs
  BY ImportIs
<1>2. Same(job') /\ job'.todo = job.ids /\ job'.at = "unload"
  BY <1>1, RaiseIs
<1> QED BY <1>2, ImportStaysHeld DEF Same

\* So do its steps that put nothing in place.
LEMMA ImportLooksHeld ==
  ASSUME Types, Types', Held, ImportBegin \/ Moved \/ Enroll \/ Show \/ Unmark
  PROVE  Held'
<1>1. /\ job.kind = "import" /\ job.state = "run" /\ UNCHANGED <<trash, kept, req>> /\ Disks
      /\ job \in Jobs /\ work \in Spaces /\ work'.prepared = work.prepared
  BY DEF ImportBegin, Moved, Enroll, Show, Unmark, On, disk, Types, Tasked, Spaces
<1>2. SameLibs
  <2>1. CASE UNCHANGED live
    BY <2>1 DEF SameLibs, SameAt, Has, Who
  <2>2. CASE Touch(job.ids)
    BY <1>1, <2>2, TouchLooks
  <2>3. CASE live' = Plain
    BY <1>1, <2>3, PlainIs DEF SameLibs, SameAt, Has, Who, Mark
  <2> QED BY <2>1, <2>2, <2>3 DEF ImportBegin, Moved, Enroll, Show, Unmark, disk
<1>3. CASE Raise /\ UNCHANGED work
  BY <1>1, <1>2, <1>3, ImportRaisesHeld
<1>4. job.at \notin {"prepare", "begin"} => job.phase # ""
  BY <1>1 DEF Types, Imported1
<1>5. CASE /\ job'.kind = job.kind /\ job'.ids = job.ids /\ job'.state = "run"
           /\ job'.phase = job.phase \/ (job.phase # "" /\ job'.phase # "")
  BY <1>1, <1>2, <1>5, ImportStaysHeld
<1>6. CASE ImportBegin
  <2>1. PICK s : job' = [job EXCEPT !.todo = job.ids, !.at = s]
    BY <1>6 DEF ImportBegin
  <2> QED BY <1>1, <1>5, <2>1 DEF Jobs
<1>7. CASE Moved
  <2>1. job' = [job EXCEPT !.phase = "moving", !.todo = @ \ {Least(job.todo)}, !.at = "move"] /\ job.at = "moved"
    BY <1>7 DEF Moved, On
  <2> QED BY <1>1, <1>4, <1>5, <2>1 DEF Jobs
<1>8. CASE Enroll
  <2>1. \/ Raise /\ UNCHANGED work
        \/ job' = [job EXCEPT !.phase = "installed", !.at = "show"] /\ job.at = "move"
    BY <1>8 DEF Enroll, On
  <2> QED BY <1>1, <1>3, <1>4, <1>5, <2>1 DEF Jobs
<1>9. CASE Show \/ Unmark
  <2>1. (Raise /\ UNCHANGED work) \/ (\E s : Goto(s))
    BY <1>9 DEF Show, Unmark
  <2> QED BY <1>1, <1>3, <1>5, <2>1 DEF Goto, Jobs
<1> QED BY <1>6, <1>7, <1>8, <1>9

\* The packages are prepared under numbers nobody has.
LEMMA PrepareHeld ==
  ASSUME Types, Types', Held, Prepare
  PROVE  Held'
<1>1. /\ job.kind = "import" /\ job.state = "run" /\ UNCHANGED <<trash, kept, req, live>> /\ Disks
      /\ job \in Jobs /\ work \in Spaces /\ born \in Nat /\ Marked /\ job.ids \subseteq Ids
      /\ born + Cardinality(job.ids) <= MaxBorn
  BY PrepareIs, ImportIs, Numbers DEF Prepare, disk, Types, Disks, Held
<1>2. SameLibs
  BY <1>1 DEF SameLibs, SameAt, Has, Who
<1>3. CASE Raise /\ UNCHANGED work
  BY <1>1, <1>2, <1>3, ImportRaisesHeld
<1>4. CASE /\ \A l \in job.ids : l \notin catalog /\ live[l] = Absent
           /\ work' = [work EXCEPT !.prepared = PreparedNow]
           /\ job' = [job EXCEPT !.phase = "ready", !.at = "move"]
  <2>1. PICK new : new = PreparedNow
    OBVIOUS
  <2>2. /\ \A l \in Ids \ job.ids : new[l] = Absent
        /\ \A l \in job.ids : new[l] \in Contents /\ new[l].of > born
        /\ \A l, m \in job.ids : l # m => new[l].of # new[m].of
    BY <1>1, <2>1, PreparedIs
  <2>3. /\ work'.prepared = new /\ job'.kind = job.kind /\ job'.ids = job.ids /\ job'.phase = "ready"
        /\ job'.state = "run"
    BY <1>1, <1>4, <2>1 DEF Jobs, Spaces
  <2>4. \A x \in Contents : x.of > born => x.of \notin kept /\ \A l \in Ids : Has(l) => Who(l) # x.of
    <3> SUFFICES ASSUME NEW x \in Contents, x.of > born
                 PROVE  x.of \notin kept /\ \A l \in Ids : Has(l) => Who(l) # x.of
      OBVIOUS
    <3>1. x.of \in Nat /\ kept \subseteq 1..born /\ \A l \in Ids : Has(l) => Who(l) \in 1..born
      BY <1>1, HasIs, Numbers DEF Contents, Disks
    <3>2. \A n \in 1..born : n # x.of
      BY <1>1, <3>1
    <3> QED BY <3>1, <3>2
  <2>5. Imports'
    <3>1. \A l \in job.ids : ~Has(l)'
      BY <1>1, <1>4, Values DEF Has
    <3>2. ASSUME NEW l \in Ids, new[l] # Absent PROVE Fresh(new[l])'
      <4>1. l \in job.ids /\ new[l] \in Contents /\ new[l].of > born
        BY <2>2, <3>2
      <4> QED BY <1>1, <2>4, <4>1 DEF Fresh, Has, Who
    <3>3. \A l, m \in Ids : l # m /\ new[l] # Absent /\ new[m] # Absent => new[l].of # new[m].of
      BY <2>2
    <3> QED BY <2>3, <3>1, <3>2, <3>3 DEF Imports
  <2>6. \A l \in Ids \ job.ids : live'[l] = live[l] \/ SameAt(l)
    BY <1>1
  <2> QED BY <1>1, <1>2, <2>3, <2>5, <2>6, ImportHeld
<1> QED BY <1>3, <1>4, PrepareIs

\* A package is put in place under its id.
LEMMA MoveHeld ==
  ASSUME Types, Types', Held, Move
  PROVE  Held'
<1>1. /\ job.kind = "import" /\ job.state = "run" /\ job.at = "move" /\ UNCHANGED <<trash, kept, req>>
      /\ job.todo # {} /\ Disks /\ job \in Jobs /\ work \in Spaces /\ job.ids \subseteq Ids /\ job.todo \subseteq job.ids
      /\ Imports /\ job.phase # "" /\ live \in [Ids -> Places]
  <2>1. job.kind = "import" /\ job.state = "run" /\ job.at = "move" /\ UNCHANGED <<trash, kept, req>> /\ job.todo # {}
    BY DEF Move, On
  <2>2. job.phase # ""
    BY <2>1 DEF Types, Imported1
  <2> QED BY <2>1, <2>2, ImportIs DEF Types, Held, Disks
<1>2. PICK l \in job.todo : l = Least(job.todo)
  <2>1. job.todo \subseteq Ids
    BY <1>1
  <2> QED BY <1>1, <2>1, LeastIn
<1>3. CASE Raise /\ UNCHANGED <<live, work>>
  <2>1. SameLibs
    BY <1>3 DEF SameLibs, SameAt, Has, Who
  <2> QED BY <1>1, <1>3, <2>1, ImportRaisesHeld
<1>4. CASE Goto("moved") /\ UNCHANGED <<live, work>>
  <2>1. SameLibs
    BY <1>4 DEF SameLibs, SameAt, Has, Who
  <2>2. job'.kind = job.kind /\ job'.ids = job.ids /\ job'.phase = job.phase /\ job'.state = "run"
    BY <1>1, <1>4 DEF Goto, Jobs
  <2> QED BY <1>1, <1>4, <2>1, <2>2, ImportStaysHeld
<1>5. CASE /\ live[l] = Absent /\ work.prepared[l] # Absent
           /\ live' = [live EXCEPT ![l] = work.prepared[l]]
           /\ work' = [work EXCEPT !.prepared[l] = Absent] /\ Goto("moved")
  <2>1. PICK x : x = work.prepared[l]
    OBVIOUS
  <2>2. l \in Ids /\ x \in Contents /\ Fresh(x) /\ ~Has(l)
    <3>1. l \in Ids
      BY <1>1
    <3>2. x \in Contents
      BY <1>1, <1>5, <2>1, <3>1 DEF Spaces
    <3> QED BY <1>1, <1>5, <2>1, <3>1, <3>2, Values DEF Imports, Has
  <2>3. /\ live'[l] = x /\ \A m \in Ids \ {l} : live'[m] = live[m]
        /\ work'.prepared[l] = Absent /\ \A m \in Ids \ {l} : work'.prepared[m] = work.prepared[m]
        /\ job'.kind = job.kind /\ job'.ids = job.ids /\ job'.phase = job.phase /\ job'.state = "run"
    BY <1>1, <1>5, <2>1, <2>2 DEF Goto, Jobs, Spaces
  <2>4. Filled(l, x)
    BY <2>2, <2>3 DEF Filled
  <2>5. Imports'
    <3>1. ASSUME NEW m \in job.ids, Has(m)' PROVE Who(m)' \notin kept
      <4>1. CASE m = l
        BY <2>2, <2>3, <4>1 DEF Who, Fresh
      <4>2. CASE m # l
        <5>1. Has(m) /\ Who(m)' = Who(m)
          BY <1>1, <2>3, <3>1, <4>2 DEF Has, Who
        <5> QED BY <1>1, <5>1 DEF Imports
      <4> QED BY <4>1, <4>2
    <3>2. ASSUME NEW m \in Ids, work'.prepared[m] # Absent
          PROVE  m # l /\ work'.prepared[m] = work.prepared[m] /\ work.prepared[m] # Absent
      BY <2>3, <3>2
    <3>3. ASSUME NEW m \in Ids, work'.prepared[m] # Absent PROVE Fresh(work.prepared[m])'
      <4>1. PICK y : y = work.prepared[m]
        OBVIOUS
      <4>2. Fresh(y) /\ y.of # x.of
        BY <1>1, <1>5, <2>1, <2>2, <3>2, <3>3, <4>1 DEF Imports
      <4>3. \A h \in Ids : Has(h)' => Who(h)' # y.of
        BY <2>2, <2>3, <4>2 DEF Has, Who, Fresh
      <4>4. y \in Contents /\ y.of \notin kept
        BY <4>2 DEF Fresh
      <4> QED BY <1>1, <3>2, <3>3, <4>1, <4>3, <4>4 DEF Fresh
    <3>4. ASSUME NEW m \in Ids, NEW h \in Ids, m # h, work'.prepared[m] # Absent, work'.prepared[h] # Absent
          PROVE  work'.prepared[m].of # work'.prepared[h].of
      BY <1>1, <3>2, <3>4 DEF Imports
    <3> QED BY <1>1, <2>3, <3>1, <3>3, <3>4 DEF Imports
  <2>6. \A m \in Ids \ job.ids : live'[m] = live[m] \/ SameAt(m)
    BY <1>1, <1>2, <2>3
  <2>7. \E k \in job.ids, y \in Contents : Filled(k, y) /\ Fresh(y)
    BY <1>1, <2>2, <2>4
  <2> QED BY <1>1, <2>3, <2>5, <2>6, <2>7, ImportHeld
<1> QED BY <1>2, <1>3, <1>4, <1>5 DEF Move

\* The rollback of an import: what is marked or was moved goes, and nothing else.
LEMMA DisownHeld ==
  ASSUME Types, Types', Held, Disown
  PROVE  Held'
<1>1. /\ job.kind = "import" /\ job.state = "back" /\ UNCHANGED <<trash, kept, req, live, born>>
      /\ Disks /\ job \in Jobs /\ work \in Spaces /\ job.ids \subseteq Ids /\ job.todo \subseteq job.ids
      /\ Imports /\ Marked /\ (job.phase = "" => work.moved = {}) /\ work.previous = Absent /\ Absent \notin Contents
  <2>1. job.kind = "import" /\ job.state \in {"inner", "back"} /\ UNCHANGED <<trash, kept, req, live, born>>
    BY DEF Disown, Back
  <2>2. job.phase = "" => work.moved = {}
    <3>1. NoWork.moved = {}
      BY DEF NoWork
    <3>2. job.phase = "" => work = NoWork
      BY <2>1, ImportIs
    <3> QED BY <3>1, <3>2
  <2> QED BY <2>1, <2>2, ImportIs, Values DEF Types, Held
<1>2. SameLibs
  BY <1>1 DEF SameLibs, SameAt, Has, Who
<1>3. \A l \in Ids : Owned(l) <=> Mark(live[l])
  BY <1>1, HasIs
<1>4. CASE {l \in job.todo : Mine(l)} = {}
  <2>1. Undone
    BY <1>4 DEF Disown
  <2>2. ASSUME NEW l \in Ids, Mark(live[l]) PROVE FALSE
    <3>1. l \in job.ids
      BY <1>1, <2>2 DEF Marked
    <3>2. l \in job.todo
      BY <1>1, <2>2, <3>1 DEF Imports
    <3> QED BY <1>3, <1>4, <2>2, <3>2 DEF Mine
  <2>3. \A l \in Ids : ~Mark(live[l])'
    BY <1>1, <2>2 DEF Mark
  <2> QED BY <1>1, <1>2, <2>1, <2>3, EndHeld
<1>5. ASSUME NEW l \in job.todo, Mine(l), work' = work,
             job' = [job EXCEPT !.to = Least({m \in job.todo : Mine(m)}), !.at = "remove"]
      PROVE  Held'
  <2>1. job.phase # ""
    BY <1>1, <1>3, <1>5 DEF Mine, Marked
  <2>2. /\ job'.kind = job.kind /\ job'.ids = job.ids /\ job'.phase = job.phase /\ job'.todo = job.todo
    BY <1>1, <1>5 DEF Jobs
  <2> QED BY <1>1, <1>2, <1>5, <2>1, <2>2, ImportStaysHeld
<1>6. {l \in job.todo : Mine(l)} # {} => /\ work' = work
                                         /\ job' = [job EXCEPT !.to = Least({m \in job.todo : Mine(m)}), !.at = "remove"]
  BY DEF Disown
<1> QED BY <1>4, <1>5, <1>6

\* What is removed is of this import, and nobody was told of it.
LEMMA RemoveHeld ==
  ASSUME Types, Types', Held, Remove
  PROVE  Held'
<1>1. /\ job.kind = "import" /\ job.state = "back" /\ job.at = "remove" /\ UNCHANGED <<trash, kept, req, work>>
      /\ Disks /\ job \in Jobs /\ job.ids \subseteq Ids /\ Imports /\ live \in [Ids -> Places]
      /\ job.to \in job.todo /\ job.todo \subseteq job.ids /\ Absent \notin Contents /\ work \in Spaces
  <2>1. job.kind = "import" /\ job.state \in {"inner", "back"} /\ job.at = "remove" /\ UNCHANGED <<trash, kept, req, work>>
    BY DEF Remove, Back
  <2>2. job.state = "back" /\ job.to \in job.todo
    BY <2>1 DEF Types, Imported1
  <2> QED BY <2>1, <2>2, ImportIs, Values DEF Types, Held, Disks
<1>2. PICK k \in job.todo : k = job.to
  BY <1>1
<1>3. job.phase # "" /\ k \in Ids /\ k \in job.ids
  BY <1>1 DEF Imports
<1>4. /\ live'[k] = Absent /\ \A l \in Ids \ {k} : live'[l] = live[l]
      /\ job'.kind = job.kind /\ job'.ids = job.ids /\ job'.phase = job.phase /\ job'.state = "back"
      /\ job'.todo = job.todo \ {k} /\ job'.at = "unload"
  BY <1>1, <1>2, <1>3 DEF Remove, Jobs
<1>5. Emptied(k) /\ (Has(k) => Who(k) \notin kept)
  BY <1>1, <1>3, <1>4 DEF Emptied, Has, Imports
<1>6. \A l \in Ids : /\ Has(l)' => Has(l) /\ Who(l)' = Who(l)
                     /\ Mark(live[l])' => Mark(live[l]) /\ l # k
  BY <1>1, <1>4 DEF Has, Who, Mark
<1>7. \A l \in Ids : Fresh(work.prepared[l]) => Fresh(work.prepared[l])'
  BY <1>1, <1>6 DEF Fresh
<1>8. Imports'
  <2>1. \A l \in job.ids : Has(l)' => Who(l)' \notin kept
    BY <1>1, <1>3, <1>6 DEF Imports
  <2>2. \A l \in job.ids \ job'.todo : ~Mark(live[l])'
    BY <1>1, <1>4, <1>6 DEF Imports
  <2>3. \A l \in Ids : work.prepared[l] # Absent => Fresh(work.prepared[l])'
    BY <1>1, <1>7 DEF Imports
  <2>4. \A l, m \in Ids : l # m /\ work.prepared[l] # Absent /\ work.prepared[m] # Absent =>
          work.prepared[l].of # work.prepared[m].of
    BY <1>1 DEF Imports
  <2>5. work' = work
    BY <1>1
  <2> QED BY <1>1, <1>3, <1>4, <2>1, <2>2, <2>3, <2>4, <2>5 DEF Imports
<1>9. \A l \in Ids \ job.ids : live'[l] = live[l] \/ SameAt(l)
  BY <1>3, <1>4
<1> QED BY <1>1, <1>3, <1>4, <1>5, <1>8, <1>9, ImportHeld

\* What a step of a copy keeps, and what it has to show.
LEMMA CopyHeld ==
  ASSUME Types, Types', Held, job.kind = "copy", UNCHANGED <<trash, kept, req>>, job'.kind = job.kind,
         \/ SameLibs
         \/ \E k \in Ids, x \in Contents : k = job.to /\ Filled(k, x) /\ Fresh(x) /\ ~Mark(x),
         Alone', Copies'
  PROVE  Held'
<1>1. /\ Disks /\ Alone /\ Single /\ Marked /\ Creates /\ Kept /\ "copy" \notin Switch
      /\ work.previous = Absent /\ work'.previous = Absent /\ work'.stage = Absent /\ Absent \notin Contents
  <2>1. work.previous = Absent
    BY CopyIs
  <2>2. work'.previous = Absent /\ work'.stage = Absent
    BY DEF Types, Copied1
  <2> QED BY <2>1, <2>2, Values DEF Types, Held, Switch
<1>2. Single'
  <2>1. \/ SameLibs
        \/ \E k \in Ids, x \in Contents : Filled(k, x) /\ \A l \in Ids : Has(l) => Who(l) # x.of
    BY DEF Fresh
  <2> QED BY <1>1, <2>1, SingleKept
<1>3. \A l \in Ids : ~Mark(live'[l])
  <2>1. \A l \in Ids : ~Mark(live[l])
    BY <1>1 DEF Marked
  <2>2. CASE SameLibs
    BY <2>1, <2>2 DEF SameLibs, SameAt, Mark
  <2>3. ASSUME NEW k \in Ids, NEW x \in Contents, Filled(k, x), ~Mark(x) PROVE <1>3
    BY <2>1, <2>3 DEF Filled
  <2> QED BY <2>2, <2>3
<1>4. Marked'
  BY <1>1, <1>3 DEF Marked, Mark
<1>5. Creates'
  <2>1. ASSUME NEW d \in Clients, NEW j \in Ids, req'[d].op = "create", req'[d].id = j
        PROVE  /\ req'[d] = req[d] /\ SameAt(j)
               /\ \A n \in kept' : n \in kept \/ \E k \in Ids \ {j} : Has(k) /\ Who(k) = n
    <3>1. j # job.to
      BY <1>1, <2>1 DEF Alone, Own, Its, Switch
    <3>2. SameAt(j)
      <4>1. CASE SameLibs
        BY <4>1 DEF SameLibs
      <4>2. ASSUME NEW k \in Ids, NEW x \in Contents, k = job.to, Filled(k, x) PROVE SameAt(j)
        BY <3>1, <4>2 DEF Filled, SameAt, Has, Who
      <4> QED BY <4>1, <4>2
    <3> QED BY <2>1, <3>2
  <2> QED BY <1>1, <2>1, CreatesKept
<1>6. Imports' /\ Switches'
  BY <1>1 DEF Imports, Switches
<1>7. Kept'
  <2> SUFFICES ASSUME NEW n \in kept PROVE Safe(n)'
    BY DEF Kept
  <2>1. n \in trash \/ \E l \in Ids : Has(l) /\ Who(l) = n
    BY <1>1 DEF Kept, Safe
  <2>2. CASE n \in trash
    BY <2>2 DEF Safe
  <2>3. ASSUME NEW l \in Ids, Has(l), Who(l) = n PROVE Safe(n)'
    <3>1. CASE SameLibs
      BY <2>3, <3>1 DEF SameLibs, SameAt, Safe
    <3>2. ASSUME NEW k \in Ids, NEW x \in Contents, Filled(k, x) PROVE Safe(n)'
      BY <2>3, <3>2 DEF Filled, Safe, Has, Who
    <3> QED BY <3>1, <3>2
  <2> QED BY <2>1, <2>2, <2>3
<1> QED BY <1>2, <1>4, <1>5, <1>6, <1>7 DEF Held

\* A copy that ends leaves nothing behind.
LEMMA CopyEndHeld ==
  ASSUME Types, Types', Held, job.kind = "copy", SameLibs, UNCHANGED <<trash, born>>, Complete \/ Undone, req' = req,
         \A n \in kept' : n \in kept \/ \E k \in Ids \cap Its : Has(k) /\ Who(k) = n
  PROVE  Held'
<1>1. \A l \in Ids : ~Mark(live[l])
  BY DEF Held, Marked
<1>2. \A l \in Ids : ~Mark(live[l])'
  BY <1>1 DEF SameLibs, SameAt
<1>3. work.previous \notin Contents
  BY CopyIs, Values
<1> QED BY <1>2, <1>3, EndHeld

\* The name of the new library is free, and a request that has it may not be there.
LEMMA CopyBeginHeld ==
  ASSUME Types, Types', Held, CopyBegin, spoiled' \subseteq Harmless
  PROVE  Held'
<1>1. /\ job.kind = "copy" /\ UNCHANGED <<trash, kept, req>> /\ Disks /\ job \in Jobs /\ work \in Spaces
      /\ born \in Nat /\ born < MaxBorn /\ job.to = 0 /\ Alone /\ Requested
  <2>1. job.kind = "copy" /\ job.at = "begin" /\ born < MaxBorn /\ UNCHANGED <<trash, kept, req>>
    BY DEF CopyBegin, On
  <2> QED BY <2>1, CopyIs, Numbers DEF Types, Disks, Held
<1>2. PICK i \in Ids : i = Id /\ job.ids = {i}
  BY <1>1, CopyIs
<1>3. SameLibs
  BY <1>1, TouchLooks DEF CopyBegin
<1>4. CASE Undone /\ UNCHANGED born
  BY <1>1, <1>3, <1>4, CopyEndHeld
<1>5. ASSUME NEW m \in Ids \ catalog, live[m] = Absent,
             work' = [work EXCEPT !.prepared[m] = New(born + 1)],
             job' = [job EXCEPT !.to = m, !.at = "register"], Meet(Met({m}), "copy")
      PROVE  Held'
  <2>1. PICK x : x = New(born + 1)
    OBVIOUS
  <2>2. born + 1 \in Births /\ born + 1 \notin kept /\ \A l \in Ids : Has(l) => Who(l) # born + 1
    <3>1. born \in 1..MaxBorn /\ MaxBorn \in Nat /\ kept \subseteq 1..born /\ \A l \in Ids : Has(l) => Who(l) \in 1..born
      BY <1>1, HasIs, Numbers DEF Disks, Births
    <3>2. born + 1 \in Births
      BY <1>1, <3>1 DEF Births
    <3>3. born + 1 \notin 1..born
      BY <1>1
    <3> QED BY <3>1, <3>2, <3>3
  <2>3. x \in Contents /\ x.of = born + 1 /\ x.has = {}
    BY <2>1, <2>2, Values
  <2>4. /\ work'.prepared[m] = x /\ job'.kind = "copy" /\ job'.ids = job.ids /\ job'.to = m /\ job'.at = "register"
    BY <1>1, <1>5, <2>1 DEF Spaces, Jobs
  <2>5. ~Has(m) /\ ~Has(m)'
    BY <1>3, <1>5, Values DEF SameLibs, SameAt, Has
  <2>6. \A l \in Ids : Has(l)' => Has(l) /\ Who(l)' = Who(l)
    BY <1>3 DEF SameLibs, SameAt
  <2>7. Copies'
    <3>1. Fresh(x)'
      BY <1>1, <2>2, <2>3, <2>6 DEF Fresh
    <3>2. Fresh(work.prepared[m])' /\ ~Mark(work.prepared[m])'
      BY <2>3, <2>4, <3>1 DEF Fresh, Mark
    <3> QED BY <2>4, <2>5, <3>2 DEF Copies, Fresh, Has, Mark
  <2>8. \A op \in Met({m}) : <<op, "copy">> \in Harmless
    BY <1>5 DEF Meet
  <2>9. Alone'
    <3>1. ASSUME NEW d \in Clients, req[d].op # "", m \in Own(d) PROVE req[d].op \in {"edit", "delete"}
      <4>1. req[d].op \in Met({m})
        BY <3>1 DEF Met, Own
      <4>2. req[d].op \in Ops
        BY <1>1, <3>1, ReqIs DEF Reqs
      <4> QED BY <2>8, <4>1, <4>2 DEF Harmless, Ops, Switch
    <3>2. Its' = job.ids \cup {m} /\ \A d \in Clients : Own(d)' = Own(d)
      BY <1>1, <2>4 DEF Its, Own
    <3> QED BY <1>1, <2>4, <3>1, <3>2 DEF Alone, Its
  <2> QED BY <1>1, <1>3, <2>4, <2>7, <2>9, CopyHeld
<1> QED BY <1>4, <1>5 DEF CopyBegin

\* The other steps of a copy.
LEMMA CopyStepHeld ==
  ASSUME Types, Types', Held, CopyRegister \/ CopyPlace \/ CopyErase \/ CopyShow \/ (JobFault /\ job.kind = "copy")
  PROVE  Held'
<1>1. /\ job.kind = "copy" /\ UNCHANGED <<trash, born, req>> /\ Disks /\ job \in Jobs /\ work \in Spaces
      /\ Alone /\ Copies /\ live \in [Ids -> Places]
  <2>1. job.kind = "copy" /\ UNCHANGED <<trash, born, req>>
    BY DEF CopyRegister, CopyPlace, CopyErase, CopyShow, JobFault, On
  <2> QED BY <2>1, CopyIs DEF Types, Held, Disks
<1>2. job.at # "begin" => job.to \in Ids
  BY <1>1, CopyIs
<1>3. UNCHANGED live => SameLibs
  BY DEF SameLibs, SameAt, Has, Who
<1>4. CASE Undone /\ UNCHANGED <<live, kept>>
  BY <1>1, <1>3, <1>4, CopyEndHeld
<1>5. ASSUME NEW s \in {"place", "erase", "show"}, Goto(s)
      PROVE  job'.kind = "copy" /\ job'.ids = job.ids /\ job'.to = job.to /\ job'.at = s /\ Alone'
  <2>1. job'.kind = "copy" /\ job'.ids = job.ids /\ job'.to = job.to /\ job'.at = s
    BY <1>1, <1>5 DEF Goto, Jobs
  <2>2. \A d \in Clients : req'[d].op # "" => req'[d].op = req[d].op /\ Own(d)' = Own(d)
    BY <1>1 DEF Own
  <2> QED BY <1>1, <2>1, <2>2, AloneKept DEF Its
<1>6. CASE Goto("place") /\ UNCHANGED <<live, work, kept>> /\ job.at = "register"
  <2>1. job'.kind = "copy" /\ job'.to = job.to /\ job'.at = "place" /\ Alone'
    BY <1>5, <1>6
  <2>2. PICK x : x = work.prepared[job.to]
    OBVIOUS
  <2>3. Fresh(x) /\ ~Mark(x) /\ ~Has(job.to)
    BY <1>1, <1>6, <2>2 DEF Copies
  <2>4. Fresh(x)' /\ x = work'.prepared[job'.to] /\ ~Has(job.to)'
    BY <1>6, <2>1, <2>2, <2>3 DEF Fresh, Has, Who
  <2>5. Copies'
    BY <2>1, <2>3, <2>4 DEF Copies, Fresh, Mark
  <2> QED BY <1>1, <1>3, <1>6, <2>1, <2>5, CopyHeld
<1>7. CASE Goto("erase") /\ UNCHANGED <<live, work, kept>> /\ job.at = "place"
  <2>1. job'.kind = "copy" /\ job'.to = job.to /\ job'.at = "erase" /\ Alone'
    BY <1>5, <1>7
  <2>2. ~Has(job.to)'
    BY <1>1, <1>7, <2>1 DEF Copies, Has
  <2>3. Copies'
    BY <2>1, <2>2 DEF Copies
  <2> QED BY <1>1, <1>3, <1>7, <2>1, <2>3, CopyHeld
<1>8. CASE CopyPlace /\ live[job.to] = Absent
  <2>1. /\ live' = [live EXCEPT ![job.to] = work.prepared[job.to]] /\ job.at = "place"
        /\ Goto("show") /\ UNCHANGED <<work, kept>>
    BY <1>8 DEF CopyPlace, On
  <2>2. PICK k \in Ids : k = job.to
    BY <1>2, <2>1
  <2>3. PICK x : x = work.prepared[k]
    OBVIOUS
  <2>4. Fresh(x) /\ ~Mark(x) /\ ~Has(k)
    BY <1>1, <2>1, <2>2, <2>3 DEF Copies
  <2>5. Filled(k, x) /\ x \in Contents
    BY <1>1, <2>1, <2>2, <2>3, <2>4 DEF Filled, Fresh
  <2>6. job'.kind = "copy" /\ job'.at = "show" /\ Alone'
    BY <1>5, <2>1
  <2>7. Copies'
    BY <2>6 DEF Copies
  <2> QED BY <1>1, <2>1, <2>2, <2>4, <2>5, <2>6, <2>7, CopyHeld
<1>9. CASE CopyErase
  <2>1. /\ Undone /\ UNCHANGED kept /\ job.at = "erase"
        /\ \/ UNCHANGED live
           \/ live' = [live EXCEPT ![job.to] = Absent]
    BY <1>9 DEF CopyErase, On
  <2>2. PICK k \in Ids : k = job.to
    BY <1>2, <2>1
  <2>3. ~Has(k)
    BY <1>1, <2>1, <2>2 DEF Copies, Has
  <2>4. SameLibs
    <3>1. CASE live' = [live EXCEPT ![k] = Absent]
      <4>1. live'[k] = Absent /\ \A l \in Ids \ {k} : live'[l] = live[l]
        BY <1>1, <3>1
      <4> QED BY <2>3, <4>1, Values DEF SameLibs, SameAt, Has, Who, Mark
    <3> QED BY <1>3, <2>1, <2>2, <3>1
  <2> QED BY <1>1, <2>1, <2>4, CopyEndHeld
<1>10. CASE CopyShow
  <2>1. /\ Touch({job.to}) /\ job.at = "show"
        /\ \/ Complete /\ kept' = IF Full(job.to) THEN kept \cup {live[job.to].of} ELSE kept
           \/ Undone /\ UNCHANGED kept
    BY <1>10 DEF CopyShow, On
  <2>2. SameLibs
    BY <1>1, <2>1, TouchLooks
  <2>3. PICK k \in Ids : k = job.to
    BY <1>2, <2>1
  <2>4. k \in Its /\ (Full(k) <=> Has(k))
    BY <1>1, <2>3, HasIs DEF Its
  <2>5. \A n \in kept' : n \in kept \/ \E h \in Ids \cap Its : Has(h) /\ Who(h) = n
    BY <2>1, <2>3, <2>4 DEF Who
  <2> QED BY <1>1, <2>1, <2>2, <2>5, CopyEndHeld
<1>11. CASE CopyRegister
  BY <1>4, <1>6, <1>11 DEF CopyRegister, On
<1>12. CASE CopyPlace
  BY <1>7, <1>8, <1>12 DEF CopyPlace, On
<1>13. CASE JobFault
  BY <1>1, <1>4, <1>7, <1>13 DEF JobFault
<1> QED BY <1>9, <1>10, <1>11, <1>12, <1>13

\* The beginning has the invariant.
LEMMA InitHeld ==
  ASSUME Init
  PROVE  Held
<1>1. /\ world.first \subseteq Ids /\ trash = {} /\ catalog = world.first /\ kept = world.first
      /\ live = [l \in Ids |-> IF l \in world.first THEN New(l) ELSE Absent]
      /\ job = NoJob /\ work = NoWork /\ req = [c \in Clients |-> NoReq]
  BY KnowledgeAssumption DEF Init
<1>2. /\ NoJob.kind = "none" /\ NoWork.stage = Absent /\ NoWork.previous = Absent /\ NoReq.op = ""
      /\ "none" \notin Switch \cup {"import", "copy"} /\ Absent \notin Contents
  BY Values DEF NoJob, NoWork, NoReq, Switch
<1>3. \A l \in Ids : IF l \in kept THEN Has(l) /\ Who(l) = l /\ live[l].has = {} ELSE live[l] = Absent
  <2>1. \A l \in Ids : New(l) \in Contents /\ New(l).of = l /\ New(l).has = {}
    BY Values, Numbers
  <2> QED BY <1>1, <2>1 DEF Has, Who
<1>4. \A l \in Ids : Has(l) => l \in kept /\ Who(l) = l /\ ~Mark(live[l])
  BY <1>2, <1>3 DEF Has, Mark
<1>5. Alone /\ Creates /\ Imports /\ Copies /\ Switches
  BY <1>1, <1>2 DEF Alone, Creates, Imports, Copies, Switches
<1>6. Single
  BY <1>4 DEF Single
<1>7. Marked
  BY <1>1, <1>2, <1>4 DEF Marked, Mark, Has
<1>8. Kept
  BY <1>1, <1>3 DEF Kept, Safe
<1> QED BY <1>5, <1>6, <1>7, <1>8 DEF Held

\* A step that changes nothing keeps it.
LEMMA StutterHeld ==
  ASSUME Held, UNCHANGED vars
  PROVE  Held'
<1>1. /\ live' = live /\ trash' = trash /\ catalog' = catalog /\ resident' = resident
      /\ job' = job /\ work' = work /\ req' = req /\ kept' = kept
  BY DEF vars
<1>2. Alone' /\ Single' /\ Marked' /\ Creates'
  BY <1>1 DEF Held, Alone, Own, Its, Single, Marked, Creates, Has, Who, Mark
<1>3. Imports' /\ Copies'
  BY <1>1 DEF Held, Imports, Copies, Has, Who, Mark, Fresh
<1>4. Switches' /\ Kept'
  BY <1>1 DEF Held, Switches, Kept, Safe, Old, Id, Has, Who
<1> QED BY <1>2, <1>3, <1>4 DEF Held

\* What happened once is not forgotten.
LEMMA SpoiledGrows ==
  ASSUME [Next]_vars
  PROVE  spoiled \subseteq spoiled'
<1>1. CASE UNCHANGED vars
  BY <1>1 DEF vars
<1>2. ASSUME NEW S, NEW k, Meet(S, k) PROVE spoiled \subseteq spoiled'
  BY <1>2 DEF Meet
<1>3. Taken => spoiled \subseteq spoiled'
  BY <1>2 DEF Taken
<1>4. ASSUME NEW l \in Ids, Visit(l) \/ Evict(l) PROVE spoiled \subseteq spoiled'
  BY <1>4 DEF Visit, Evict
<1>5. CASE Requests
  <2>1. ASSUME NEW c \in Clients, NEW op, NEW l, NEW m, Ask(c, op, l, m) PROVE spoiled \subseteq spoiled'
    BY <2>1 DEF Ask
  <2>2. ASSUME NEW c \in Clients,
               \/ Register(c) \/ Open(c) \/ Fill(c) \/ Load(c) \/ CreateFault(c) \/ Unregister(c) \/ Erase(c)
               \/ Released(c) \/ ToTrash(c) \/ Drop(c)
        PROVE  spoiled \subseteq spoiled'
    BY <2>2 DEF Register, Open, Fill, Load, CreateFault, Unregister, Erase, Released, ToTrash, Drop
  <2>3. ASSUME NEW c \in Clients,
               Rename(c) \/ Name(c) \/ NameFault(c) \/ NameBack(c) \/ NameBackFault(c) \/ Write(c)
        PROVE  spoiled \subseteq spoiled'
    BY <1>2, <2>3 DEF Rename, Name, NameFault, NameBack, NameBackFault, Write
  <2> QED BY <1>5, <2>1, <2>2, <2>3 DEF Requests
<1>6. ASSUME NEW kind, NEW ids, Submit(kind, ids) PROVE spoiled \subseteq spoiled'
  BY <1>2, <1>6 DEF Submit
<1>7. CASE Switching
  BY <1>3, <1>7 DEF Switching, Begin, Target, Bind, Cut, Apply, Recheck, Release, MoveOut, MoveIn, Note, Check, Seal, Finish
<1>8. CASE Importing
  BY <1>8 DEF Importing, ImportBegin, Prepare, Move, Moved, Enroll, Show, Unmark
<1>9. CASE Copying
  BY <1>2, <1>9 DEF Copying, CopyBegin, CopyRegister, CopyPlace, CopyErase, CopyShow
<1>10. CASE Undoing
  BY <1>10 DEF Undoing, BackUnload, BackAway, BackReturn, BackTidy, Disown, Remove
<1>11. CASE JobFault \/ RollbackFault \/ Pause \/ Resume \/ Stop \/ Crash \/ Restart
  BY <1>2, <1>11 DEF JobFault, RollbackFault, Pause, Resume, Stop, Crash, Restart
<1> QED BY <1>1, <1>4, <1>5, <1>6, <1>7, <1>8, <1>9, <1>10, <1>11 DEF Next

\* Every step keeps it, as long as nobody met whom he must not meet.
LEMMA NextHeld ==
  ASSUME Types, Types', Held, [Next]_vars, spoiled' \subseteq Harmless
  PROVE  Held'
<1>1. CASE \E l \in Ids : Visit(l) \/ Evict(l)
  BY <1>1, LookHeld
<1>2. CASE Requests
  <2>1. ASSUME NEW c \in Clients, NEW op \in world.requests, NEW l \in Ids, NEW m \in Ids, Ask(c, op, l, m)
        PROVE  Held'
    BY <2>1, AskHeld
  <2>2. ASSUME NEW c \in Clients,
               Register(c) \/ Open(c) \/ Fill(c) \/ Load(c) \/ CreateFault(c) \/ Unregister(c) \/ Erase(c)
        PROVE  Held'
    BY <2>2, CreateHeld
  <2>3. ASSUME NEW c \in Clients,
               \/ Released(c) \/ ToTrash(c) \/ Drop(c)
               \/ Rename(c) \/ Name(c) \/ NameFault(c) \/ NameBack(c) \/ NameBackFault(c)
        PROVE  Held'
    BY <2>3, MovesHeld
  <2>4. ASSUME NEW c \in Clients, Write(c) PROVE Held'
    BY <2>4, WriteHeld
  <2> QED BY <1>2, <2>1, <2>2, <2>3, <2>4 DEF Requests
<1>3. CASE \E kind \in Switch \cup {"import", "copy"}, ids \in SUBSET Ids : Submit(kind, ids)
  BY <1>3, SubmitHeld DEF Tasks
<1>4. CASE Switching
  BY <1>4, SwitchSearchHeld, SwitchMovesHeld, FinishHeld DEF Switching
<1>5. CASE Importing
  BY <1>5, ImportLooksHeld, PrepareHeld, MoveHeld DEF Importing
<1>6. CASE Copying
  BY <1>6, CopyBeginHeld, CopyStepHeld DEF Copying
<1>7. CASE Undoing
  BY <1>7, SwitchBackHeld, DisownHeld, RemoveHeld DEF Undoing
<1>8. CASE JobFault
  <2>1. CASE job.kind = "copy"
    BY <1>8, <2>1, CopyStepHeld
  <2>2. CASE job.kind # "copy"
    <3>1. /\ Raise \/ Restore
          /\ UNCHANGED <<catalog, trash, work, kept>> /\ req' = req /\ live' = live /\ job.state = "run"
          /\ job \in Jobs
      BY <1>8, <2>2 DEF JobFault, Types, Tasked
    <3>2. job.kind \in Switch \cup {"import"}
      BY <2>2, <3>1 DEF Types, Tasked, Jobs, Tasks
    <3>3. SameLibs
      BY <3>1 DEF SameLibs, SameAt, Has, Who
    <3>4. CASE Raise
      <4>1. Same(job') /\ job'.state = "back" /\ job'.at = "unload" /\ job'.todo = job.ids
        BY <3>1, <3>4, RaiseIs
      <4> QED BY <3>1, <3>2, <3>3, <4>1, HaltHeld
    <3>5. CASE Restore
      <4>1. Same(job') /\ job'.state = "inner" /\ job'.at = "unload"
        BY <3>1, <3>5, RestoreIs
      <4>2. job.kind # "import"
        <5>1. job'.kind = "import" => job'.state # "inner"
          BY DEF Types, Imported1
        <5> QED BY <4>1, <5>1 DEF Same
      <4> QED BY <3>1, <3>2, <3>3, <4>1, <4>2, HaltHeld
    <3> QED BY <3>1, <3>4, <3>5
  <2> QED BY <2>1, <2>2
<1>9. CASE RollbackFault \/ Pause \/ Resume \/ Stop
  BY <1>9, HaltedHeld
<1>10. CASE Crash
  BY <1>10, CrashHeld
<1>11. CASE Restart
  BY <1>11, RestartHeld
<1>12. CASE UNCHANGED vars
  BY <1>12, StutterHeld
<1> QED BY <1>1, <1>2, <1>3, <1>4, <1>5, <1>6, <1>7, <1>8, <1>9, <1>10, <1>11, <1>12 DEF Next

\* It holds as long as nobody did.
LEMMA HeldAlways == Spec => [](spoiled \subseteq Harmless => Held)
<1>1. Init => (spoiled \subseteq Harmless => Held)
  BY InitHeld
<1>2. Types /\ Types' /\ (spoiled \subseteq Harmless => Held) /\ [Next]_vars
        => (spoiled \subseteq Harmless => Held)'
  <2> SUFFICES ASSUME Types, Types', spoiled \subseteq Harmless => Held, [Next]_vars, spoiled' \subseteq Harmless
               PROVE  Held'
    OBVIOUS
  <2>1. spoiled \subseteq Harmless
    BY SpoiledGrows
  <2> QED BY <2>1, NextHeld
<1> QED BY <1>1, <1>2, TypesHold, PTL DEF Spec

\* No request, task, rollback or start of the service erases a library that was acknowledged
\* and that nobody asked to delete, whatever failed, crashed, was paused, resumed, stopped or
\* searched meanwhile, as long as no two met that must not (spoiled \subseteq Harmless).
THEOREM NothingIsLost == Spec => []NothingLost
<1>1. Types /\ Held => NeverErased
  <2> SUFFICES ASSUME Types, Held, NEW n \in kept PROVE n \in There
    BY DEF NeverErased
  <2>1. Safe(n)
    BY DEF Held, Kept
  <2>2. Disks /\ Absent \notin Contents /\ Hollow \notin Contents
    BY Values DEF Types
  <2>3. \A l \in Ids : Has(l) => Full(l)
    BY <2>2, HasIs
  <2> QED BY <2>1, <2>2, <2>3 DEF Safe, There, Who
<1>2. Types /\ (spoiled \subseteq Harmless => Held) => NothingLost
  BY <1>1 DEF NothingLost
<1> QED BY <1>2, TypesHold, HeldAlways, PTL
=============================================================================
