----------------------- MODULE KnowledgeCatalog_proofs -----------------------
(***************************************************************************)
(* What is under an id of KnowledgeLibraries and what the catalog says of  *)
(* it agree: no task that is over has done half of its work                *)
(* (NothingHalfDone), and when nothing is under way the registered ids are *)
(* those with a library (CatalogAgrees), whatever the settings of the      *)
(* module are: any number of ids, clients, worlds and faults.              *)
(*                                                                         *)
(* The invariant adds two levels to those of KnowledgeLibraries_proofs,    *)
(* each for the behaviours its property is about.  Agreed is what is so as *)
(* long as no request met a task or another request and no search a rename *)
(* of directories (Apart), crashes or not:                                 *)
(*   Distinct   no request has an id of the task;                          *)
(*   Registered a live library is registered, unless somebody is about to  *)
(*              do that or has taken it back;                              *)
(*   Steady     what a request read when it began is still so;             *)
(*   Swaps      what a switch holds is what was there when it was          *)
(*              submitted, changed or not, and where each of the two is;   *)
(*   Installs   an import finds its ids free, and what is under them       *)
(*              afterwards is its own;                                     *)
(*   Clones     a copy is registered before it is put in place;            *)
(*   Down       a service that is down has no runtime.                     *)
(* Whole is what is so as long as there was no crash either (spoiled =     *)
(* {}):                                                                    *)
(*   Covered    a registered id has its library, unless a task is to bring *)
(*              it or a request is about to fill, unregister or rename it; *)
(*   Filling    what such a request counts on;                             *)
(*   Based      what a task has to find again when it is rolled back was   *)
(*              registered if and only if it was there.                    *)
(*                                                                         *)
(* A step of a request leaves what is not its own alone, and so does a     *)
(* step of the task (RequestAgrees and TaskStepAgrees, RequestWhole and    *)
(* TaskWhole): each action then only owes what it does to its own ids.     *)
(* The end of a task needs no argument of its own in Whole:                *)
(* NothingHalfDone tells what it leaves behind.                            *)
(***************************************************************************)
EXTENDS KnowledgeLibraries_proofs

-----------------------------------------------------------------------------
\* What is so as long as no request met a task or another request, and no search a rename
\* of directories.

Plus(x) == [of |-> x.of, has |-> x.has \cup {"task"}]
Lib(l)  == Library(live[l])

\* No request has an id of the task.
Distinct == \A c \in Clients : req[c].op # "" => Own(c) \cap Its = {}

\* A live library is registered, unless an import, a creation or a rename has not come to
\* that yet or has taken it back.
Listed(l) ==
  up /\ Has(l) /\ l \notin catalog =>
    \/ job.kind = "import" /\ l \in job.ids /\ job.phase # ""
    \/ \E c \in Clients : req[c].op = "create" /\ req[c].id = l /\ req[c].at = "erase"
    \/ \E c \in Clients : req[c].op = "rename" /\ req[c].to = l /\ req[c].at \in {"name", "back"}
Registered == \A l \in Ids : Listed(l)

\* What a request under way relies on.
Steady(c) ==
  /\ req[c].op # "rename" => req[c].to = req[c].id
  /\ req[c].op = "create" /\ req[c].at \in {"open", "fill", "load", "unregister"} =>
       req[c].id \in catalog
  /\ req[c].op = "delete" /\ req[c].at = "drop" => ~Has(req[c].id)
  /\ req[c].op = "rename" =>
       /\ req[c].id \in catalog /\ req[c].to \notin catalog
       /\ req[c].at \in {"unload", "move"} => ~Has(req[c].to)
       /\ req[c].at \in {"name", "back"} => ~Has(req[c].id)

\* A switch keeps what was there and a copy of it, changed once it is ready: the live one is
\* the former or, once that was moved aside, the latter.
Swaps == job.kind \in Switch =>
  /\ work.stage # Absent => work.stage = IF job.phase = "cut" THEN Old ELSE Plus(Old)
  /\ IF work.previous = Absent THEN Lib(Id) = Library(Old)
     ELSE /\ work.previous = Old /\ job.phase \in {"ready", "swapped"}
          /\ Has(Id) => live[Id] = Plus(Old) /\ work.stage = Absent
  /\ job.state = "run" =>
       /\ job.at \in {"bind", "cut"} => work.previous = Absent \/ ~Has(Id)
       /\ job.at = "apply" => job.phase = "cut"
       /\ job.at \in {"recheck", "unload", "out", "in"} => job.phase \in {"ready", "swapped"}

\* An import finds its ids free, and what is there under them afterwards is its own.
Installs == job.kind = "import" =>
  /\ \A l \in Ids : work.prepared[l] # Absent => Mark(work.prepared[l])
  /\ \A l \in job.ids :
       IF job.phase = ""
       THEN /\ Lib(l) = Library(job.base.dirs[l]) /\ (l \in catalog <=> l \in job.base.names)
            /\ Has(l) => l \in catalog
       ELSE /\ l \notin job.base.names /\ job.base.dirs[l] \notin Contents
            /\ l \in catalog \/ Has(l) => l \in work.moved \/ Mark(live[l])
  /\ job.phase \in {"ready", "moving"} => job.ids \cap catalog = {}
  /\ job.phase = "installed" => \A l \in job.ids :
       /\ l \in work.moved
       /\ IF Has(l)
          THEN up => l \in catalog \/ (job.state = "back" /\ job.at = "remove" /\ l = job.to)
          ELSE l \notin catalog /\ resident[l] = "none"
  /\ job.state = "run" =>
       /\ job.at = "prepare" => job.todo = job.ids
       /\ job.at \in {"move", "moved"} =>
            /\ job.phase \in {"ready", "moving"}
            /\ \A l \in job.ids \ job.todo : Has(l) /\ l \in work.moved
       /\ job.at = "moved" => Has(Least(job.todo))
       /\ job.at \in {"show", "answer", "unmark", "end"} => job.phase = "installed"
       /\ job.at \in {"show", "unmark", "end"} => job.ids \subseteq catalog
  /\ job.state = "back" =>
       /\ \A l \in job.ids \ job.todo : ~Has(l) /\ l \notin catalog
       /\ job.at = "remove" => job.to \notin catalog /\ resident[job.to] = "none"

\* A copy is registered before it is put in place.
Clones == job.kind = "copy" =>
  /\ IF job.at \in {"place", "show"} THEN job.to \in catalog
     ELSE job.at # "begin" => job.to \notin catalog
  /\ job.at = "show" => Has(job.to)

Down == ~up => \A l \in Ids : resident[l] = "none"

Agreed == Distinct /\ Registered /\ (\A c \in Clients : Steady(c)) /\ Swaps /\ Installs
          /\ Clones /\ Down

\* What is so as long as there was no crash either: a registered id has its library, unless
\* a task is to bring it back, or a request is about to fill, unregister or rename it.
Covered(l) ==
  l \in catalog /\ ~Has(l) =>
    \/ job.kind \in Switch \cup {"import"} /\ l \in job.ids
    \/ job.kind = "copy" /\ l = job.to /\ job.at = "place"
    \/ \E c \in Clients :
         /\ req[c].id = l
         /\ \/ req[c].op = "create" /\ req[c].at \in {"open", "fill", "unregister"}
            \/ req[c].op = "delete" /\ req[c].at = "drop"
            \/ req[c].op = "rename" /\ req[c].at \in {"name", "back"}
Filling(c) ==
  /\ req[c].op = "create" /\ req[c].at = "erase" => req[c].id \notin catalog
  /\ req[c].op = "create" /\ req[c].at = "load" => Has(req[c].id)
  /\ req[c].op = "rename" /\ req[c].at \in {"name", "back"} => Has(req[c].to)
Based == job.kind \in Switch \cup {"import"} =>
  \A l \in job.ids : /\ l \in job.base.names <=> job.base.dirs[l] \in Contents
                     /\ job.kind \in Switch => l \in job.base.names
Whole == up /\ (\A l \in Ids : Covered(l)) /\ (\A c \in Clients : Filling(c)) /\ Based

\* What is not the step's business: the directory, the row, and the runtime unless a search
\* loads it.
Calm(l) == /\ Lib(l)' = Lib(l) /\ (l \in catalog' <=> l \in catalog)
           /\ \/ resident'[l] = resident[l]
              \/ resident'[l] = "none"
              \/ resident[l] = "none" /\ Has(l) /\ l \in catalog

\* No request is one of no operation.
LEMMA NoneIs == NoReq.op = "" /\ NoReq.id = 0 /\ NoReq.to = 0
BY DEF NoReq

\* Two directories with the same library.
LEMMA LibIs ==
  ASSUME Disks, Disks', NEW l \in Ids, Lib(l)' = Lib(l)
  PROVE  (Has(l)' <=> Has(l)) /\ (Has(l) => live'[l] = live[l])
<1>1. live[l] \in Places /\ live'[l] \in Places
  BY DEF Disks
<1> QED BY <1>1, Values DEF Lib, Library, Has, Places

\* A library that has a directory is that directory.
LEMMA LibHas ==
  ASSUME Disks, NEW l \in Ids
  PROVE  /\ Has(l) => Lib(l) = live[l]
         /\ ~Has(l) => Lib(l) = Absent
BY Values DEF Lib, Library, Has, Disks, Places

\* A directory that does not change, or is opened, is at rest.
LEMMA CalmIs ==
  ASSUME Disks, NEW l \in Ids, l \in catalog' <=> l \in catalog,
         \/ live'[l] = live[l] /\ resident'[l] = resident[l]
         \/ live'[l] = live[l] /\ resident'[l] = "none"
         \/ resident[l] = "none" /\ live[l] = Absent /\ live'[l] = Hollow /\ resident'[l] = "none"
         \/ resident[l] = "none" /\ Full(l) /\ l \in catalog /\ live'[l] = live[l] /\ resident'[l] = "here"
  PROVE  Calm(l)
BY HasIs, Values DEF Calm, Lib, Library

\* The task does not notice what leaves its libraries alone.
LEMMA TaskAgrees ==
  ASSUME Types, Types', Swaps, Installs, Clones, UNCHANGED <<up, job, work>>,
         \A l \in Ids \cap Its : Calm(l)
  PROVE  Swaps' /\ Installs' /\ Clones'
<1>1. /\ Disks /\ Disks' /\ job \in Jobs /\ job.ids \subseteq Ids
      /\ \A l \in Ids \cap Its : Calm(l) /\ (Has(l)' <=> Has(l)) /\ (Has(l) => live'[l] = live[l])
  BY LibIs DEF Types, Tasked, Jobs, Calm
<1>2. Swaps'
  <2> SUFFICES ASSUME job.kind \in Switch PROVE Swaps'
    BY DEF Swaps
  <2>1. PICK i \in Ids : job.ids = {i}
    BY DEF Types, Switched1
  <2>2. Id = i /\ Id' = i
    <3>1. Id = i
      BY <2>1, LeastOne
    <3>2. Id' = Id
      BY DEF Id
    <3> QED BY <3>1, <3>2
  <2>3. Lib(i)' = Lib(i) /\ (Has(i)' <=> Has(i)) /\ (Has(i) => live'[i] = live[i])
    BY <1>1, <2>1 DEF Its, Calm
  <2> QED BY <2>2, <2>3 DEF Swaps, Old
<1>3. Installs'
  <2> SUFFICES ASSUME job.kind = "import" PROVE Installs'
    BY DEF Installs
  <2>1. \A l \in job.ids : /\ Lib(l)' = Lib(l) /\ (Has(l)' <=> Has(l)) /\ (Has(l) => live'[l] = live[l])
                           /\ l \in catalog' <=> l \in catalog
                           /\ resident[l] = "none" /\ ~(Has(l) /\ l \in catalog) => resident'[l] = "none"
    BY <1>1 DEF Its, Calm
  <2>2. /\ \A l \in Ids : work'.prepared[l] # Absent => Mark(work'.prepared[l])
        /\ \A l \in job.ids : l \in work'.moved <=> l \in work.moved
    BY DEF Installs
  <2>3. \A l \in job.ids : Mark(live[l]) => Has(l)
    BY DEF Mark, Has
  <2>4. \A l \in job.ids :
       IF job.phase = ""
       THEN /\ Lib(l)' = Library(job.base.dirs[l]) /\ (l \in catalog' <=> l \in job.base.names)
            /\ Has(l)' => l \in catalog'
       ELSE /\ l \notin job.base.names /\ job.base.dirs[l] \notin Contents
            /\ l \in catalog' \/ Has(l)' => l \in work.moved \/ Mark(live'[l])
    BY <2>1, <2>3 DEF Installs
  <2>5. job.phase \in {"ready", "moving"} => job.ids \cap catalog' = {}
    BY <2>1 DEF Installs
  <2>6. job.phase = "installed" => \A l \in job.ids :
       /\ l \in work.moved
       /\ IF Has(l)'
          THEN up => l \in catalog' \/ (job.state = "back" /\ job.at = "remove" /\ l = job.to)
          ELSE l \notin catalog' /\ resident'[l] = "none"
    BY <2>1 DEF Installs
  <2>7. job.state = "run" =>
       /\ job.at = "prepare" => job.todo = job.ids
       /\ job.at \in {"move", "moved"} =>
            /\ job.phase \in {"ready", "moving"}
            /\ \A l \in job.ids \ job.todo : Has(l)' /\ l \in work.moved
       /\ job.at = "moved" => Has(Least(job.todo))'
       /\ job.at \in {"show", "answer", "unmark", "end"} => job.phase = "installed"
       /\ job.at \in {"show", "unmark", "end"} => job.ids \subseteq catalog'
    <3>1. job.state = "run" /\ job.at = "moved" => Least(job.todo) \in job.ids
      BY <1>1, LeastIn DEF Types, Tasked, Imported1
    <3> QED BY <2>1, <3>1 DEF Installs
  <2>8. job.state = "back" =>
       /\ \A l \in job.ids \ job.todo : ~Has(l)' /\ l \notin catalog'
       /\ job.at = "remove" => job.to \notin catalog' /\ resident'[job.to] = "none"
    <3>1. job.state = "back" /\ job.at = "remove" => job.to \in job.ids
      BY DEF Types, Tasked, Imported1
    <3> QED BY <2>1, <3>1 DEF Installs
  <2> QED BY <2>2, <2>4, <2>5, <2>6, <2>7, <2>8 DEF Installs
<1>4. Clones'
  <2>1. job.kind = "copy" /\ job.at # "begin" => job.to \in Ids \cap Its
    BY DEF Types, Copied1, Its
  <2> QED BY <1>1, <2>1 DEF Clones, Calm
<1> QED BY <1>2, <1>3, <1>4

\* A request goes on to rely on ids that nothing happens to.
LEMMA SteadyKept ==
  ASSUME Types, Types', NEW c \in Clients, Steady(c), req'[c] = req[c] \/ req'[c] = NoReq,
         \A l \in Ids \cap Own(c) : Lib(l)' = Lib(l) /\ (l \in catalog' <=> l \in catalog)
  PROVE  Steady(c)'
<1>1. CASE req'[c] = NoReq
  <2>1. req'[c].op = "" /\ req'[c].to = req'[c].id
    BY <1>1, NoneIs
  <2> QED BY <2>1 DEF Steady, Has
<1>2. CASE req'[c] = req[c] /\ req[c].op # ""
  <2>1. req[c].id \in Ids /\ req[c].to \in Ids
    BY <1>2, ReqIs DEF Types
  <2>2. /\ Has(req[c].id)' <=> live'[req[c].id] \in Contents
        /\ Has(req[c].to)' <=> live'[req[c].to] \in Contents
    BY <1>2 DEF Has
  <2>3. \A l \in Ids \cap Own(c) : (live'[l] \in Contents <=> live[l] \in Contents) /\ (l \in catalog' <=> l \in catalog)
    BY LibIs DEF Has, Types
  <2> QED BY <1>2, <2>1, <2>2, <2>3 DEF Steady, Has, Own
<1>3. CASE req'[c] = req[c] /\ req[c].op = ""
  BY <1>3 DEF Steady
<1> QED BY <1>1, <1>2, <1>3

\* An id that nothing happens to stays listed, if whoever was to see to it still is.
LEMMA ListedKept ==
  ASSUME Types, Types', NEW l \in Ids, Listed(l), up' => up,
         Lib(l)' = Lib(l), l \in catalog' <=> l \in catalog,
         \A d \in Clients : l \in Own(d) => req'[d] = req[d],
         job.kind = "import" /\ l \in job.ids /\ job.phase # "" =>
           job'.kind = "import" /\ l \in job'.ids /\ job'.phase # ""
  PROVE  Listed(l)'
BY LibIs DEF Types, Listed, Own

\* A step of a request: what is not its own keeps still.
LEMMA RequestAgrees ==
  ASSUME Types, Types', Agreed, Alone, NEW c \in Clients, req[c].op # "",
         UNCHANGED <<up, job, work>>,
         \A d \in Clients \ {c} : req'[d] = req[d],
         req'[c] = NoReq \/ (req'[c].op = req[c].op /\ Own(c)' = Own(c)),
         \A l \in Ids \ Own(c) : /\ live'[l] = live[l] /\ resident'[l] = resident[l]
                                 /\ l \in catalog' <=> l \in catalog,
         \A l \in Ids \cap Own(c) : Listed(l)',
         Steady(c)'
  PROVE  Agreed'
<1>1. Disks /\ Disks' /\ (up => Own(c) \cap Its = {}) /\ Own(c) \cap Its = {}
  BY DEF Types, Agreed, Distinct
<1>2. \A l \in Ids \ Own(c) : Calm(l)
  BY <1>1, CalmIs
<1>3. Swaps' /\ Installs' /\ Clones'
  BY <1>1, <1>2, TaskAgrees DEF Agreed
<1>4. \A l \in Ids \ Own(c) : Lib(l)' = Lib(l) /\ (l \in catalog' <=> l \in catalog)
  BY <1>2 DEF Calm
<1>5. \A d \in Clients : Steady(d)'
  <2> SUFFICES ASSUME NEW d \in Clients \ {c} PROVE Steady(d)'
    OBVIOUS
  <2>1. CASE req[d].op # ""
    <3>1. Own(d) \cap Own(c) = {}
      BY <2>1 DEF Alone
    <3> QED BY <1>4, <3>1, SteadyKept DEF Agreed
  <2>2. CASE req[d].op = ""
    <3>1. req[d] = NoReq
      BY <2>2 DEF Types, Requested, Placed
    <3> QED BY <3>1, NoneIs DEF Steady
  <2> QED BY <2>1, <2>2
<1>6. Registered'
  <2> SUFFICES ASSUME NEW l \in Ids \ Own(c) PROVE Listed(l)'
    BY DEF Registered
  <2> QED BY <1>4, ListedKept DEF Agreed, Registered
<1>7. Distinct'
  <2>1. \A d \in Clients : req'[d].op # "" => req[d].op # "" /\ Own(d)' = Own(d)
    <3> SUFFICES ASSUME NEW d \in Clients, req'[d].op # "" PROVE req[d].op # "" /\ Own(d)' = Own(d)
      OBVIOUS
    <3>2. CASE d = c
      BY <3>2, NoneIs
    <3>3. CASE d # c
      BY <3>3 DEF Own
    <3> QED BY <3>2, <3>3
  <2> QED BY <2>1 DEF Agreed, Distinct, Its
<1>8. Down'
  <2>1. up
    <3>1. req[c] # NoReq
      BY NoneIs
    <3> QED BY <3>1 DEF Types, Requested
  <2> QED BY <2>1 DEF Down
<1> QED BY <1>3, <1>5, <1>6, <1>7, <1>8 DEF Agreed

\* A step of a request to create keeps it.
LEMMA CreateAgrees ==
  ASSUME Types, Types', Held, Agreed, NEW c \in Clients,
         Register(c) \/ Open(c) \/ Fill(c) \/ Load(c) \/ CreateFault(c) \/ Unregister(c) \/ Erase(c)
  PROVE  Agreed'
<1>0. PICK i : req[c].id = i
  OBVIOUS
<1>1. /\ i \in Ids /\ req[c].op = "create" /\ UNCHANGED <<job, work>>
      /\ \A l \in Ids \ {i} : live'[l] = live[l] /\ resident'[l] = resident[l]
      /\ \A d \in Clients \ {c} : req'[d] = req[d]
      /\ \/ req'[c] = NoReq
         \/ req'[c].op = "create" /\ req'[c].id = i /\ req'[c].to = req[c].to
  BY <1>0, CreateShapes
<1>2. /\ Disks /\ Disks' /\ req \in [Clients -> Reqs] /\ Alone /\ Creates /\ Steady(c) /\ up' = up
      /\ req[c].to = i /\ Own(c) = {i} /\ req[c] \in Reqs
  <2>1. up' = up
    BY <1>0 DEF Register, Open, Fill, Load, CreateFault, Unregister, Erase
  <2> QED BY <1>0, <1>1, <2>1 DEF Types, Requested, Held, Agreed, Steady, Own
<1>3. \A l \in Ids \ {i} : l \in catalog' <=> l \in catalog
  BY <1>0 DEF Register, Open, Fill, Load, CreateFault, Unregister, Erase, disk
<1>4. ASSUME NEW s, Next2(c, s) PROVE req'[c].op = "create" /\ req'[c].id = i /\ req'[c].at = s /\ req'[c].to = i
  BY <1>0, <1>1, <1>2, <1>4 DEF Next2, Reqs
<1>5. ASSUME Ends(c) PROVE req'[c] = NoReq
  BY <1>0, <1>2, <1>5 DEF Ends
<1>6. /\ i \in catalog' \/ ~Has(i)' \/ (req'[c].op = "create" /\ req'[c].id = i /\ req'[c].at = "erase")
      /\ req'[c].op = "create" /\ req'[c].at \in {"open", "fill", "load", "unregister"} => i \in catalog'
  <2>1. CASE Register(c)
    <3>1. ~Has(i) /\ live' = live
      BY <1>0, <1>2, <2>1 DEF Creates, Register, At
    <3>2. ~Has(i)'
      BY <1>0, <3>1 DEF Has
    <3>3. req'[c].op = "create" => i \in catalog'
      BY <1>0, <1>5, <2>1, NoneIs DEF Register
    <3> QED BY <1>0, <3>2, <3>3
  <2>2. CASE Open(c) \/ Fill(c) \/ Load(c) \/ CreateFault(c)
    <3>1. i \in catalog /\ catalog' = catalog
      BY <1>0, <1>1, <1>2, <2>2 DEF Steady, Open, Fill, Load, CreateFault, At, disk
    <3> QED BY <1>0, <3>1
  <2>3. CASE Unregister(c)
    <3>1. Next2(c, "erase")
      BY <1>0, <2>3 DEF Unregister
    <3> QED BY <1>0, <1>4, <3>1
  <2>4. CASE Erase(c)
    <3>1. live'[i] = Absent /\ req'[c] = NoReq
      BY <1>0, <1>1, <1>2, <1>5, <2>4 DEF Erase, Disks
    <3>2. ~Has(i)'
      BY <1>0, <3>1, Values DEF Has
    <3> QED BY <1>0, <3>1, <3>2, NoneIs
  <2> QED BY <1>0, <2>1, <2>2, <2>3, <2>4
<1>7. Listed(i)'
  BY <1>0, <1>6 DEF Listed
<1>8. Steady(c)'
  <2>1. CASE req'[c] = NoReq
    BY <1>0, <2>1, NoneIs DEF Steady, Has
  <2>2. CASE req'[c].op = "create" /\ req'[c].id = i /\ req'[c].to = req[c].to
    BY <1>0, <1>2, <1>6, <2>2 DEF Steady, Has
  <2> QED BY <1>0, <1>1, <2>1, <2>2
<1>9. req'[c] = NoReq \/ (req'[c].op = req[c].op /\ Own(c)' = Own(c))
  BY <1>0, <1>1, <1>2 DEF Own
<1> QED BY <1>0, <1>1, <1>2, <1>3, <1>7, <1>8, <1>9, RequestAgrees

\* A request that is not about to be undone is nobody's excuse.
LEMMA ListedSame ==
  ASSUME Types, Types', NEW c \in Clients, NEW l \in Ids, Listed(l), up' = up, UNCHANGED job,
         Has(l)' <=> Has(l), l \in catalog' <=> l \in catalog,
         \A d \in Clients \ {c} : req'[d] = req[d],
         ~(req[c].op = "create" /\ req[c].at = "erase"),
         ~(req[c].op = "rename" /\ req[c].at \in {"name", "back"})
  PROVE  Listed(l)'
BY DEF Listed

\* An edit keeps it.
LEMMA WriteAgrees ==
  ASSUME Types, Types', Held, Agreed, NEW c \in Clients, Write(c)
  PROVE  Agreed'
<1>0. PICK i : req[c].id = i
  OBVIOUS
<1>1. /\ SameLibs /\ UNCHANGED <<catalog, job, work, up>> /\ req[c].op = "edit"
      /\ (\A d \in Clients \ {c} : req'[d] = req[d]) /\ req'[c] = NoReq
  BY <1>0, WriteShapes DEF Write, At
<1>2. /\ Disks /\ Disks' /\ Alone /\ Steady(c) /\ i \in Ids /\ req[c].to = i /\ Own(c) = {i}
  <2>1. i \in Ids
    BY <1>0, <1>1, ReqIs DEF Types
  <2> QED BY <1>0, <1>1, <2>1 DEF Types, Held, Agreed, Steady, Own
<1>3. \A l \in Ids \ {i} : live'[l] = live[l] /\ resident'[l] = resident[l]
  <2>1. CASE Touch({i})
    BY <1>0, <1>2, <2>1, TouchIs
  <2>2. CASE /\ live' = [live EXCEPT ![i].has = @ \cup {"edit"}]
             /\ resident' = [resident EXCEPT ![i] = IF @ = "none" THEN "here" ELSE @]
    BY <1>0, <1>2, <2>2 DEF Disks
  <2> QED BY <1>0, <2>1, <2>2 DEF Write
<1>4. Listed(i)'
  <2>1. Listed(i) /\ (Has(i)' <=> Has(i))
    BY <1>0, <1>1, <1>2 DEF Agreed, Registered, SameLibs, SameAt
  <2> QED BY <1>0, <1>1, <1>2, <2>1, ListedSame
<1>5. Steady(c)'
  BY <1>0, <1>1, NoneIs DEF Steady, Has
<1> QED BY <1>0, <1>1, <1>2, <1>3, <1>4, <1>5, RequestAgrees

\* So do a search and the sweeper.
LEMMA LookAgrees ==
  ASSUME Types, Types', Agreed, NEW k \in Ids, Visit(k) \/ Evict(k)
  PROVE  Agreed'
<1>1. Disks /\ Disks' /\ UNCHANGED <<catalog, job, work, up, req>> /\ up
  BY DEF Types, Visit, Evict, disk
<1>2. \A l \in Ids : Calm(l)
  <2>1. CASE Visit(k)
    <3>1. Touch({k}) /\ k \in catalog
      BY <2>1 DEF Visit
    <3> QED BY <1>1, <3>1, TouchIs, CalmIs
  <2>2. CASE Evict(k)
    <3>1. Unload(k) /\ live' = live
      BY <2>2 DEF Evict, disk
    <3> QED BY <1>1, <3>1, UnloadIs, CalmIs
  <2> QED BY <2>1, <2>2
<1>3. Swaps' /\ Installs' /\ Clones'
  BY <1>1, <1>2, TaskAgrees DEF Agreed
<1>4. \A l \in Ids : Lib(l)' = Lib(l) /\ (l \in catalog' <=> l \in catalog)
  BY <1>2 DEF Calm
<1>5. \A d \in Clients : Steady(d)'
  BY <1>1, <1>4, SteadyKept DEF Agreed
<1>6. Registered'
  BY <1>1, <1>4, ListedKept DEF Agreed, Registered
<1>7. Distinct' /\ Down'
  BY <1>1 DEF Agreed, Distinct, Own, Its, Down
<1> QED BY <1>3, <1>5, <1>6, <1>7 DEF Agreed

\* What a rename relies on, and a deletion or an edit.
LEMMA RenameSteady ==
  ASSUME NEW c \in Clients, NEW i, NEW m,
         req'[c].op = "rename", req'[c].id = i, req'[c].to = m, i \in catalog', m \notin catalog',
         req'[c].at \in {"unload", "move"} => ~Has(m)', req'[c].at \in {"name", "back"} => ~Has(i)'
  PROVE  Steady(c)'
BY DEF Steady, Has
\* So does one of these.
LEMMA DeleteSteady ==
  ASSUME NEW c \in Clients, NEW i,
         req'[c].op \in {"delete", "edit"}, req'[c].id = i, req'[c].to = i, req'[c].at = "drop" => ~Has(i)'
  PROVE  Steady(c)'
BY DEF Steady, Has

\* A step of a request to delete or to rename keeps it, unless a search got in the way of the
\* undoing of a rename or the undoing failed.
LEMMA MovesAgrees ==
  ASSUME Types, Types', Held, Agreed, NEW c \in Clients, Apart',
         \/ Released(c) \/ ToTrash(c) \/ Drop(c)
         \/ Rename(c) \/ Name(c) \/ NameFault(c) \/ NameBack(c) \/ NameBackFault(c)
  PROVE  Agreed'
<1>0. PICK i : \E m : req[c].id = i /\ req[c].to = m
  OBVIOUS
<1>00. PICK m : req[c].id = i /\ req[c].to = m
  BY <1>0
<1>1. /\ i \in Ids /\ m \in Ids /\ req[c].op \in {"delete", "rename"} /\ UNCHANGED <<job, work>>
      /\ \A l \in Ids \ {i, m} : live'[l] = live[l] /\ resident'[l] = resident[l]
      /\ \A d \in Clients \ {c} : req'[d] = req[d]
      /\ req'[c] = NoReq \/ (req'[c].op = req[c].op /\ req'[c].id = i /\ req'[c].to = m)
  BY <1>00, MovesShapes
<1>2. /\ Disks /\ Disks' /\ req \in [Clients -> Reqs] /\ Alone /\ Steady(c) /\ up' = up
      /\ Own(c) = {i, m} /\ req[c] \in Reqs /\ Listed(i) /\ Listed(m)
  <2>1. up' = up
    BY DEF Released, ToTrash, Drop, Rename, Name, NameFault, NameBack, NameBackFault
  <2> QED BY <1>00, <1>1, <2>1 DEF Types, Requested, Held, Agreed, Registered, Own
<1>3. \A l \in Ids \ {i, m} : l \in catalog' <=> l \in catalog
  BY <1>00 DEF Released, ToTrash, Drop, Rename, Name, NameFault, NameBack, NameBackFault, disk
<1>4. ASSUME NEW s, Next2(c, s)
      PROVE  req'[c].op = req[c].op /\ req'[c].id = i /\ req'[c].at = s /\ req'[c].to = m
  BY <1>00, <1>2, <1>4 DEF Next2, Reqs
<1>5. ASSUME Ends(c) PROVE req'[c] = NoReq
  BY <1>2, <1>5 DEF Ends
<1>6. ASSUME req'[c] = NoReq PROVE Steady(c)'
  BY <1>6, NoneIs DEF Steady, Has
<1>7. /\ req[c].op = "delete" => m = i
      /\ req[c].op = "rename" => /\ i \in catalog /\ m \notin catalog
                                 /\ req[c].at \in {"unload", "move"} => ~Has(m)
                                 /\ req[c].at \in {"name", "back"} => ~Has(i)
  BY <1>00, <1>2 DEF Steady
<1>8. \A l \in Ids : l \in catalog' \/ ~Has(l)' => Listed(l)'
  BY DEF Listed
<1>9. ASSUME req'[c].op = "rename", req'[c].at \in {"name", "back"}, req'[c].to = m PROVE Listed(m)'
  BY <1>9 DEF Listed
<1>10. ASSUME UNCHANGED live PROVE \A l \in Ids : Has(l)' <=> Has(l)
  BY <1>10 DEF Has
<1>11. Listed(i)' /\ Listed(m)' /\ Steady(c)'
  <2>1. CASE Released(c)
    <3>1. Next2(c, "move") /\ UNCHANGED <<live, catalog>> /\ req[c].at = "unload"
      BY <2>1 DEF Released, disk
    <3>2. Listed(i)' /\ Listed(m)'
      BY <1>1, <1>2, <1>10, <3>1, ListedSame
    <3>3. Steady(c)'
      <4>1. CASE req[c].op = "delete"
        BY <1>4, <1>7, <3>1, <4>1, DeleteSteady
      <4>2. CASE req[c].op = "rename"
        BY <1>1, <1>4, <1>7, <1>10, <3>1, <4>2, RenameSteady
      <4> QED BY <1>1, <4>1, <4>2
    <3> QED BY <3>2, <3>3
  <2>2. CASE ToTrash(c)
    <3>1. m = i /\ req[c].op = "delete" /\ live[i] \in Places
      BY <1>2, <1>1, <1>7, <2>2, FullIs DEF ToTrash, At
    <3>2. CASE live[i] = Absent
      <4>1. Ends(c) /\ UNCHANGED live
        BY <1>00, <2>2, <3>2 DEF ToTrash
      <4>2. ~Has(i)'
        BY <3>2, <4>1, Values DEF Has
      <4> QED BY <1>1, <1>5, <1>6, <1>8, <3>1, <4>1, <4>2
    <3>3. CASE live[i] # Absent
      <4>1. Next2(c, "drop") /\ live' = [live EXCEPT ![i] = Absent]
        BY <1>00, <2>2, <3>3 DEF ToTrash
      <4>2. ~Has(i)'
        BY <1>1, <1>2, <4>1, Values DEF Has, Disks
      <4>3. Steady(c)'
        BY <1>4, <3>1, <4>1, <4>2, DeleteSteady
      <4> QED BY <1>1, <1>8, <3>1, <4>2, <4>3
    <3> QED BY <3>2, <3>3
  <2>3. CASE Drop(c)
    <3>1. m = i /\ ~Has(i) /\ Ends(c) /\ UNCHANGED live
      BY <1>00, <1>2, <1>7, <2>3 DEF Drop, At, Steady
    <3> QED BY <1>1, <1>5, <1>6, <1>8, <1>10, <3>1
  <2>4. CASE Rename(c)
    <3>1. req[c].op = "rename" /\ req[c].at = "move" /\ catalog' = catalog
      BY <2>4 DEF Rename, At
    <3>2. i \in catalog /\ m \notin catalog /\ ~Has(m) /\ i # m
      BY <1>7, <3>1
    <3>3. CASE live[i] = Absent \/ live[m] # Absent
      <4>1. Ends(c) /\ UNCHANGED live
        BY <1>00, <2>4, <3>3 DEF Rename
      <4> QED BY <1>1, <1>5, <1>6, <1>8, <1>10, <3>1, <3>2, <4>1
    <3>4. CASE ~(live[i] = Absent \/ live[m] # Absent)
      <4>1. Next2(c, "name") /\ live' = [live EXCEPT ![m] = live[i], ![i] = Absent]
        BY <1>00, <2>4, <3>4 DEF Rename
      <4>2. ~Has(i)'
        BY <1>1, <1>2, <3>2, <4>1, Values DEF Has, Disks
      <4>3. Steady(c)'
        BY <1>4, <3>1, <3>2, <4>1, <4>2, RenameSteady
      <4> QED BY <1>1, <1>4, <1>8, <1>9, <3>1, <4>1, <4>2, <4>3
    <3> QED BY <3>3, <3>4
  <2>5. CASE Name(c)
    <3>1. req[c].op = "rename" /\ req[c].at = "name" /\ live' = live
      BY <2>5 DEF Name, At
    <3>2. i \in catalog /\ m \notin catalog /\ ~Has(i) /\ i # m
      BY <1>7, <3>1
    <3>3. catalog' = (catalog \ {i}) \cup {m} /\ Ends(c)
      BY <1>00, <2>5, <3>2 DEF Name
    <3> QED BY <1>1, <1>5, <1>6, <1>8, <1>10, <3>1, <3>2, <3>3
  <2>6. CASE NameFault(c)
    <3>1. req[c].op = "rename" /\ req[c].at = "name" /\ UNCHANGED <<live, catalog>> /\ Next2(c, "back")
      BY <2>6 DEF NameFault, At, disk
    <3>2. i \in catalog /\ m \notin catalog /\ ~Has(i)
      BY <1>7, <3>1
    <3>3. Steady(c)'
      BY <1>1, <1>4, <1>10, <3>1, <3>2, RenameSteady
    <3> QED BY <1>1, <1>4, <1>8, <1>9, <3>1, <3>2, <3>3
  <2>7. CASE NameBack(c)
    <3>1. req[c].op = "rename" /\ req[c].at = "back" /\ catalog' = catalog /\ Ends(c)
          /\ Meet(IF live[i] = Hollow THEN {"search"} ELSE {}, "rename")
      BY <1>00, <2>7 DEF NameBack, At
    <3>2. i \in catalog /\ m \notin catalog /\ ~Has(i) /\ i # m /\ live[i] \in Places
      BY <1>1, <1>2, <1>7, <3>1, FullIs
    <3>3. live[i] # Hollow
      <4>1. live[i] = Hollow => <<"search", "rename">> \in spoiled'
        BY <3>1 DEF Meet
      <4> QED BY <4>1 DEF Apart
    <3>4. live[i] = Absent
      BY <3>2, <3>3, Values DEF Has
    <3>5. CASE live[m] = Absent
      <4>1. live' = live
        BY <1>00, <2>7, <3>5 DEF NameBack
      <4>2. ~Has(m)'
        BY <3>5, <4>1, Values DEF Has
      <4> QED BY <1>1, <1>5, <1>6, <1>8, <3>1, <3>2, <4>2
    <3>6. CASE live[m] # Absent
      <4>1. live' = [live EXCEPT ![i] = live[m], ![m] = Absent]
        BY <1>00, <2>7, <3>4, <3>6 DEF NameBack
      <4>2. ~Has(m)'
        BY <1>1, <1>2, <3>2, <4>1, Values DEF Has, Disks
      <4> QED BY <1>1, <1>5, <1>6, <1>8, <3>1, <3>2, <4>2
    <3> QED BY <3>5, <3>6
  <2>8. CASE NameBackFault(c)
    <3>1. <<"fault", "rename">> \in spoiled'
      BY <2>8 DEF NameBackFault, Meet
    <3> QED BY <3>1 DEF Apart
  <2> QED BY <2>1, <2>2, <2>3, <2>4, <2>5, <2>6, <2>7, <2>8
<1>12. req'[c] = NoReq \/ (req'[c].op = req[c].op /\ Own(c)' = Own(c))
  BY <1>00, <1>1 DEF Own
<1>13. req[c].op # ""
  BY <1>1
<1> QED BY <1>1, <1>2, <1>3, <1>11, <1>12, <1>13, RequestAgrees

\* A request that meets nobody.
LEMMA AskMeets ==
  ASSUME NEW op \in Ops, NEW S, spoiled' = spoiled \cup ({op} \X Beside(S)),
         Apart'
  PROVE  S \cap Its = {}
<1>1. \A x \in Beside(S) : <<op, x>> \in spoiled'
  OBVIOUS
<1>2. \A x : <<op, x>> \notin spoiled'
  BY DEF Ops, Apart
<1> QED BY <1>1, <1>2 DEF Beside, Its

\* It keeps it.
LEMMA AskAgrees ==
  ASSUME Types, Types', Held, Agreed, NEW c \in Clients, NEW op \in world.requests,
         NEW k \in Ids, NEW m \in Ids, Ask(c, op, k, m), Apart'
  PROVE  Agreed'
<1>1. /\ Disks /\ Disks' /\ req \in [Clients -> Reqs] /\ UNCHANGED <<live, catalog, resident, up, job, work>>
      /\ up /\ req[c] = NoReq /\ spoiled' = spoiled \cup ({op} \X Beside({k, m}))
  BY DEF Types, Requested, Ask, disk
<1>2. op \in Ops
  BY KnowledgeAssumption DEF Ops, Types, Disks
<1>3. {k, m} \cap Its = {}
  BY <1>1, <1>2, AskMeets
<1>4. PICK s : Begins(c, op, k, m, s)
  BY <1>2 DEF Ask, Ops
<1>5. /\ req'[c] = [op |-> op, id |-> k, to |-> m, at |-> s]
      /\ \A d \in Clients \ {c} : req'[d] = req[d]
  BY <1>1, <1>4 DEF Begins
<1>6. \A l \in Ids : Calm(l) /\ (Has(l)' <=> Has(l))
  BY <1>1 DEF Calm, Lib, Has
<1>7. Swaps' /\ Installs' /\ Clones'
  BY <1>1, <1>6, TaskAgrees DEF Agreed
<1>8. \A d \in Clients : Steady(d)'
  <2>1. ASSUME NEW d \in Clients \ {c} PROVE Steady(d)'
    BY <1>5, <1>6, SteadyKept DEF Agreed, Calm
  <2>2. Steady(c)'
    <3>1. ASSUME NEW t, Begins(c, op, k, m, t) PROVE t = s
      <4>1. req'[c] = [op |-> op, id |-> k, to |-> m, at |-> t]
        BY <1>1, <3>1 DEF Begins
      <4> QED BY <1>5, <4>1
    <3>2. CASE op \in {"create", "delete", "edit"}
      <4>1. m = k /\ s \in {"register", "unload", "write"}
        BY <3>1, <3>2 DEF Ask
      <4> QED BY <1>5, <3>2, <4>1 DEF Steady, Has
    <3>3. CASE op = "rename"
      <4>1. k \in catalog /\ m \notin catalog /\ live[m] = Absent /\ s = "unload"
        BY <3>1, <3>3 DEF Ask
      <4>2. ~Has(m)'
        BY <1>1, <4>1, Values DEF Has
      <4> QED BY <1>1, <1>5, <3>3, <4>1, <4>2, RenameSteady
    <3> QED BY <1>2, <3>2, <3>3 DEF Ops
  <2> QED BY <2>1, <2>2
<1>9. Registered'
  <2>1. ASSUME NEW l \in Ids, NEW d \in Clients, l \in Own(d) PROVE req'[d] = req[d]
    BY <1>1, <1>5, <2>1, NoneIs, Numbers DEF Own
  <2> QED BY <1>1, <1>6, <2>1, ListedKept DEF Agreed, Registered, Calm
<1>10. Distinct'
  <2>1. Its' = Its /\ Own(c)' = {k, m}
    BY <1>1, <1>5 DEF Own, Its
  <2>2. \A d \in Clients \ {c} : req'[d].op = req[d].op /\ Own(d)' = Own(d)
    BY <1>5 DEF Own
  <2> QED BY <1>3, <2>1, <2>2 DEF Agreed, Distinct
<1>11. Down'
  BY <1>1 DEF Down
<1> QED BY <1>7, <1>8, <1>9, <1>10, <1>11 DEF Agreed

\* A step of the task: what is not its own keeps still.
LEMMA TaskStepAgrees ==
  ASSUME Types, Types', Agreed, up, up', req' = req,
         \A c \in Clients : req[c].op # "" => Own(c) \cap Its' = {},
         \A l \in Ids \ (Its \cup Its') : Lib(l)' = Lib(l) /\ (l \in catalog' <=> l \in catalog),
         \A l \in Ids \cap (Its \cup Its') : Listed(l)',
         Swaps', Installs', Clones'
  PROVE  Agreed'
<1>1. \A c \in Clients : Own(c)' = Own(c)
  BY DEF Own
<1>2. Distinct'
  BY <1>1 DEF Distinct
<1>3. \A c \in Clients : Steady(c)'
  <2> SUFFICES ASSUME NEW c \in Clients PROVE Steady(c)'
    OBVIOUS
  <2>1. CASE req[c].op = ""
    <3>1. req'[c] = NoReq
      BY <2>1 DEF Types, Requested, Placed
    <3> QED BY <3>1, NoneIs DEF Steady
  <2>2. CASE req[c].op # ""
    <3>1. Own(c) \cap (Its \cup Its') = {}
      BY <2>2 DEF Agreed, Distinct
    <3> QED BY <3>1, SteadyKept DEF Agreed
  <2> QED BY <2>1, <2>2
<1>4. Registered'
  <2> SUFFICES ASSUME NEW l \in Ids \ (Its \cup Its') PROVE Listed(l)'
    BY DEF Registered
  <2> QED BY ListedKept DEF Agreed, Registered, Its
<1>5. Down'
  BY DEF Down
<1> QED BY <1>2, <1>3, <1>4, <1>5 DEF Agreed

\* A step of the task that leaves libraries and rows as they are.
LEMMA StaysAgrees ==
  ASSUME Types, Types', Agreed, up, up', req' = req,
         \A c \in Clients : req[c].op # "" => Own(c) \cap Its' = {},
         \A l \in Ids : Lib(l)' = Lib(l) /\ (l \in catalog' <=> l \in catalog),
         \/ job'.kind = job.kind /\ job'.ids = job.ids /\ (job.phase # "" => job'.phase # "")
         \/ job.kind # "import"
         \/ \A l \in job.ids : ~Has(l),
         Swaps', Installs', Clones'
  PROVE  Agreed'
<1>1. \A l \in Ids : Listed(l)'
  <2> SUFFICES ASSUME NEW l \in Ids PROVE Listed(l)'
    OBVIOUS
  <2>1. Listed(l) /\ (Has(l)' <=> Has(l))
    BY LibIs DEF Agreed, Registered, Types
  <2>2. CASE job'.kind = job.kind /\ job'.ids = job.ids /\ (job.phase # "" => job'.phase # "")
    BY <2>1, <2>2, ListedKept
  <2>3. CASE job.kind # "import"
    BY <2>1, <2>3, ListedKept
  <2>4. CASE \A k \in job.ids : ~Has(k)
    BY <2>1, <2>4 DEF Listed
  <2> QED BY <2>2, <2>3, <2>4
<1> QED BY <1>1, TaskStepAgrees

\* The ids of the requests are not the task's, if it takes no new ones.
LEMMA StillDistinct ==
  ASSUME Types, Agreed, Its' \subseteq Its \cup {0}
  PROVE  \A c \in Clients : req[c].op # "" => Own(c) \cap Its' = {}
<1> SUFFICES ASSUME NEW c \in Clients, req[c].op # "" PROVE Own(c) \cap Its' = {}
  OBVIOUS
<1>1. 0 \notin Own(c)
  BY ReqIs, Numbers DEF Types, Own
<1> QED BY <1>1 DEF Agreed, Distinct

\* A task of which an await fails, that is parked, goes on or is stopped.
LEMMA HaltAgrees ==
  ASSUME Types, Types', Agreed, up, up', req' = req, UNCHANGED <<live, catalog, resident, work>>,
         job.kind \in Switch \cup {"import"}, Same(job'),
         ~(job.state = "back" /\ job.at = "remove"),
         \/ job'.state = "parked"
         \/ job'.state = "back" /\ job'.at = "unload" /\ job'.todo = job.ids
         \/ job'.state = "inner"
         \/ job'.state = "run" /\ job'.at = "begin"
  PROVE  Agreed'
<1>1. /\ Disks /\ Its' = Its /\ Swaps /\ Installs /\ job'.kind = job.kind /\ job'.ids = job.ids
      /\ job'.to = job.to /\ job'.base = job.base /\ job'.phase = job.phase
  BY DEF Types, Agreed, Same, Its
<1>2. \A l \in Ids : Lib(l)' = Lib(l) /\ (l \in catalog' <=> l \in catalog) /\ (Has(l)' <=> Has(l))
  BY DEF Lib, Has
<1>3. Swaps'
  <2> SUFFICES ASSUME job.kind \in Switch PROVE Swaps'
    BY <1>1 DEF Swaps
  <2>1. PICK i \in Ids : Id = i
    BY SwitchIs
  <2>2. Id' = i /\ Old' = Old
    BY <1>1, <2>1 DEF Id, Old
  <2>3. job'.state = "run" => job'.at \notin {"bind", "cut", "apply", "recheck", "unload", "out", "in"}
    OBVIOUS
  <2>4. /\ Lib(Id)' = Lib(i)' /\ Lib(Id) = Lib(i) /\ (Has(Id)' <=> Has(i)') /\ (Has(Id) <=> Has(i))
        /\ (live[Id])' = live[i] /\ live[Id] = live[i]
    BY <2>1, <2>2 DEF Lib, Has
  <2> QED BY <1>1, <1>2, <2>2, <2>3, <2>4 DEF Swaps
<1>4. Installs'
  <2> SUFFICES ASSUME job.kind = "import" PROVE Installs'
    BY <1>1 DEF Installs
  <2>1. job.ids \subseteq Ids
    BY DEF Types, Tasked, Jobs
  <2>2. \A l \in job.ids : l \in Ids
    BY <2>1
  <2>3. job'.state = "run" => job'.at \notin {"prepare", "move", "moved", "show", "answer", "unmark", "end"}
    OBVIOUS
  <2>4. job'.state = "back" => job.ids \ job'.todo = {} /\ job'.at # "remove"
    OBVIOUS
  <2> QED BY <1>1, <1>2, <2>2, <2>3, <2>4 DEF Installs
<1>5. Clones'
  BY <1>1 DEF Clones, Switch
<1> QED BY <1>1, <1>2, <1>3, <1>4, <1>5, StaysAgrees, StillDistinct

\* A crash leaves the disk as it is, and nothing above it.
LEMMA CrashAgrees ==
  ASSUME Types, Types', Held, Agreed, Crash
  PROVE  Agreed'
<1>1. /\ Disks /\ live' = live /\ catalog' = catalog /\ ~up'
      /\ \A l \in Ids : resident'[l] = "none"
      /\ \A c \in Clients : req'[c] = NoReq
  BY DEF Types, Crash, disk
<1>2. \A l \in Ids : Lib(l)' = Lib(l) /\ (Has(l)' <=> Has(l))
  BY <1>1 DEF Lib, Has
<1>3. Registered' /\ Down'
  BY <1>1 DEF Registered, Listed, Down
<1>4. Distinct' /\ \A c \in Clients : Steady(c)'
  BY <1>1, NoneIs DEF Distinct, Steady
<1>5. Swaps' /\ Installs' /\ Clones'
  <2>1. CASE job'.kind = "none"
    BY <2>1 DEF Swaps, Installs, Clones, Switch
  <2>2. CASE job'.kind # "none"
    <3>1. job.kind # "none" /\ job.kind # "copy" /\ work' = work /\ job' = [job EXCEPT !.state = "parked"]
      <4>1. job.kind # "copy"
        <5>1. Undone => job'.kind = "none"
          BY DEF Undone, NoJob
        <5> QED BY <2>2, <5>1 DEF Crash
      <4>2. work' = work /\ job' = IF job.kind = "none" THEN job ELSE [job EXCEPT !.state = "parked"]
        BY <4>1 DEF Crash
      <4> QED BY <2>2, <4>1, <4>2
    <3>2. Same(job') /\ job'.state = "parked" /\ job.kind \in Switch \cup {"import"} /\ job.ids \subseteq Ids
      BY <3>1 DEF Same, Types, Tasked, Jobs, Tasks
    <3>3. /\ job'.kind = job.kind /\ job'.ids = job.ids /\ job'.to = job.to /\ job'.base = job.base
          /\ job'.phase = job.phase
      BY <3>2 DEF Same
    <3>4. Swaps'
      <4> SUFFICES ASSUME job.kind \in Switch PROVE Swaps'
        BY <3>3 DEF Swaps
      <4>1. PICK i \in Ids : Id = i
        BY SwitchIs
      <4>2. Id' = i /\ Old' = Old
        BY <3>3, <4>1 DEF Id, Old
      <4>4. /\ Lib(Id)' = Lib(i)' /\ Lib(Id) = Lib(i) /\ (Has(Id)' <=> Has(i)') /\ (Has(Id) <=> Has(i))
            /\ (live[Id])' = live[i] /\ live[Id] = live[i]
        BY <1>1, <4>1, <4>2 DEF Lib, Has
      <4> QED BY <1>2, <3>1, <3>2, <3>3, <4>2, <4>4 DEF Swaps, Agreed
    <3>5. Installs'
      <4>1. \A l \in job.ids : l \in Ids
        BY <3>2
      <4> QED BY <1>1, <1>2, <3>1, <3>2, <3>3, <4>1 DEF Installs, Agreed
    <3>6. Clones'
      BY <3>1, <3>3 DEF Clones
    <3> QED BY <3>4, <3>5, <3>6
  <2> QED BY <2>1, <2>2
<1> QED BY <1>3, <1>4, <1>5 DEF Agreed

\* A restart removes what is not registered, and the tasks know of that.
LEMMA RestartAgrees ==
  ASSUME Types, Types', Held, Agreed, Restart
  PROVE  Agreed'
<1>1. /\ Disks /\ ~up /\ UNCHANGED <<catalog, resident, job, work, req>> /\ job.state \notin {"run", "inner", "back"}
      /\ \A l \in Ids : live'[l] = IF l \in catalog THEN live[l] ELSE Absent
      /\ \A l \in Ids : resident[l] = "none"
      /\ \A c \in Clients : req[c] = NoReq
  BY DEF Types, Requested, Tasked, Agreed, Down, Restart
<1>2. \A l \in Ids : /\ l \in catalog => Lib(l)' = Lib(l) /\ (Has(l)' <=> Has(l)) /\ live'[l] = live[l]
                     /\ l \notin catalog => ~Has(l)' /\ Lib(l)' = Absent
  BY <1>1, Values DEF Lib, Library, Has
<1>3. Registered' /\ Down'
  BY <1>1, <1>2 DEF Registered, Listed, Down
<1>4. Distinct' /\ \A c \in Clients : Steady(c)'
  BY <1>1, NoneIs DEF Distinct, Steady
<1>5. Swaps'
  <2> SUFFICES ASSUME job.kind \in Switch PROVE Swaps'
    BY <1>1 DEF Swaps
  <2>1. PICK i \in Ids : Id = i
    BY SwitchIs
  <2>2. Id' = i /\ Old' = Old /\ i \in catalog
    BY <1>1, <2>1 DEF Id, Old, Held, Switches
  <2>4. /\ Lib(Id)' = Lib(i)' /\ Lib(Id) = Lib(i) /\ (Has(Id)' <=> Has(i)') /\ (Has(Id) <=> Has(i))
        /\ (live[Id])' = live[i] /\ live[Id] = live[i]
    BY <1>1, <2>1, <2>2 DEF Lib, Has
  <2> QED BY <1>1, <1>2, <2>2, <2>4 DEF Swaps, Agreed
<1>6. Installs'
  <2> SUFFICES ASSUME job.kind = "import" PROVE Installs'
    BY <1>1 DEF Installs
  <2>1. \A l \in job.ids : l \in Ids
    BY DEF Types, Tasked, Jobs
  <2>2. \A l \in job.ids : ~Has(l) => Lib(l) = Absent
    BY <1>1, <2>1, LibHas
  <2>3. \A l \in job.ids :
       IF job.phase = ""
       THEN /\ Lib(l)' = Library(job.base.dirs[l]) /\ (l \in catalog' <=> l \in job.base.names)
            /\ Has(l)' => l \in catalog'
       ELSE /\ l \notin job.base.names /\ job.base.dirs[l] \notin Contents
            /\ l \in catalog' \/ Has(l)' => l \in work'.moved \/ Mark(live'[l])
    BY <1>1, <1>2, <2>1, <2>2 DEF Installs, Agreed
  <2>4. job.phase = "installed" => \A l \in job.ids :
       /\ l \in work'.moved
       /\ IF Has(l)' THEN l \in catalog' ELSE l \notin catalog' /\ resident'[l] = "none"
    BY <1>1, <1>2, <2>1 DEF Installs, Agreed
  <2> QED BY <1>1, <2>1, <2>3, <2>4 DEF Installs, Agreed
<1>7. Clones'
  BY <1>1 DEF Clones, Types, Copied1
<1> QED BY <1>3, <1>4, <1>5, <1>6, <1>7 DEF Agreed

\* A task that is submitted meets no request, and finds its ids as the catalog says.
LEMMA SubmitAgrees ==
  ASSUME Types, Types', Held, Agreed, NEW kind \in Tasks, NEW ids \in SUBSET Ids, Submit(kind, ids),
         Apart'
  PROVE  Agreed'
<1>1. /\ UNCHANGED <<disk, resident, up, work, req>> /\ job.kind = "none" /\ work = NoWork /\ up
      /\ Disks /\ spoiled' = spoiled \cup {<<op, kind>> : op \in Met(ids)}
      /\ job.ids = {} /\ job.to = 0
  BY DEF Submit, Types, Tasked, Meet
<1>2. /\ job'.kind = kind /\ job'.ids = ids /\ job'.to = 0 /\ job'.state = "run" /\ job'.at = "begin"
      /\ job'.phase = "" /\ job'.base.dirs = live /\ job'.base.names = catalog
  BY DEF Submit, NoJob
<1>3. live' = live /\ catalog' = catalog /\ resident' = resident /\ req' = req /\ work' = work /\ up'
  BY <1>1 DEF disk
<1>4. \A l \in Ids : Lib(l)' = Lib(l) /\ (Has(l)' <=> Has(l))
  BY <1>3 DEF Lib, Has
<1>5. Met(ids) = {}
  <2>1. \A op \in Met(ids) : <<op, kind>> \in spoiled'
    BY <1>1
  <2>2. \A x : <<x, kind>> \notin spoiled'
    BY DEF Apart, Tasks, Switch
  <2> QED BY <2>1, <2>2
<1>6. \A c \in Clients : req[c].op # "" => Own(c) \cap (ids \cup {0}) = {}
  <2> SUFFICES ASSUME NEW c \in Clients, req[c].op # "" PROVE Own(c) \cap (ids \cup {0}) = {}
    OBVIOUS
  <2>1. 0 \notin Own(c)
    BY ReqIs, Numbers DEF Types, Own
  <2>2. Own(c) \cap ids # {} => req[c].op \in Met(ids)
    BY DEF Met, Own
  <2> QED BY <1>5, <2>1, <2>2
<1>7. Its' = ids \cup {0}
  BY <1>2 DEF Its
<1>8. NoWork.stage = Absent /\ NoWork.previous = Absent /\ \A l \in Ids : NoWork.prepared[l] = Absent
  BY DEF NoWork
<1>9. Swaps'
  <2> SUFFICES ASSUME kind \in Switch PROVE Swaps'
    BY <1>2 DEF Swaps
  <2>1. PICK i \in Ids : ids = {i}
    BY <1>1, SubmitTypes DEF Submit, Disks, Switch
  <2>2. Id' = i /\ Old' = live[i]
    <3>1. Least({i}) = i
      BY <2>1, Numbers DEF Least
    <3> QED BY <1>2, <2>1, <3>1 DEF Id, Old
  <2>3. Lib(Id)' = Library(live[i])
    BY <1>3, <2>2 DEF Lib
  <2> QED BY <1>1, <1>2, <1>3, <1>8, <2>2, <2>3 DEF Swaps
<1>10. Installs'
  <2> SUFFICES ASSUME kind = "import" PROVE Installs'
    BY <1>2 DEF Installs
  <2>1. \A l \in ids : Lib(l)' = Library(live[l]) /\ (Has(l)' => l \in catalog)
    <3> SUFFICES ASSUME NEW l \in ids PROVE Lib(l)' = Library(live[l]) /\ (Has(l) => l \in catalog)
      BY <1>4
    <3>1. \A c \in Clients : l \in Own(c) => req[c].op = ""
      BY <1>6
    <3>2. Listed(l)
      BY DEF Agreed, Registered
    <3> QED BY <1>1, <1>4, <3>1, <3>2 DEF Listed, Own, Lib
  <2> QED BY <1>1, <1>2, <1>3, <1>8, <2>1 DEF Installs
<1>11. Clones'
  BY <1>2 DEF Clones
<1> QED BY <1>1, <1>3, <1>4, <1>6, <1>7, <1>9, <1>10, <1>11, StaysAgrees

\* In the beginning the catalog and the directories agree.
LEMMA InitAgrees ==
  ASSUME Init
  PROVE  Agreed
<1>1. Types
  BY InitTypes
<1>2. /\ up /\ catalog = world.first /\ job = NoJob /\ \A c \in Clients : req[c] = NoReq
      /\ live = [l \in Ids |-> IF l \in world.first THEN New(l) ELSE Absent]
  BY DEF Init
<1>3. job.kind = "none" /\ job.ids = {} /\ job.to = 0
  BY <1>2, Gone
<1>4. \A l \in Ids : Has(l) => l \in catalog
  BY <1>2, Values DEF Has
<1>5. Distinct /\ \A c \in Clients : Steady(c)
  BY <1>2, NoneIs DEF Distinct, Steady
<1> QED BY <1>2, <1>3, <1>4, <1>5 DEF Agreed, Registered, Listed, Swaps, Installs, Clones, Down, Switch

\* A directory and its change.
LEMMA PlusIs ==
  ASSUME NEW x \in Contents
  PROVE  /\ [x EXCEPT !.has = @ \cup {"task"}] = Plus(x) /\ Plus(x) \in Contents
         /\ Library(x) = x /\ x # Absent /\ x # Hollow
BY Values DEF Contents, Plus, Library

\* What the task knows of itself does not depend on how its id is written.
LEMMA SwapsAre ==
  ASSUME Types, Types', job.kind \in Switch, NEW i \in Ids, Id = i,
         job'.kind = job.kind, job'.ids = job.ids, job'.base = job.base
  PROVE  /\ Swaps => /\ work.stage # Absent => work.stage = IF job.phase = "cut" THEN Old ELSE Plus(Old)
                     /\ IF work.previous = Absent THEN Lib(i) = Library(Old)
                        ELSE /\ work.previous = Old /\ job.phase \in {"ready", "swapped"}
                             /\ Has(i) => live[i] = Plus(Old) /\ work.stage = Absent
                     /\ job.state = "run" =>
                          /\ job.at \in {"bind", "cut"} => work.previous = Absent \/ ~Has(i)
                          /\ job.at = "apply" => job.phase = "cut"
                          /\ job.at \in {"recheck", "unload", "out", "in"} => job.phase \in {"ready", "swapped"}
         /\ ( /\ work'.stage # Absent => work'.stage = IF job'.phase = "cut" THEN Old ELSE Plus(Old)
              /\ IF work'.previous = Absent THEN Lib(i)' = Library(Old)
                 ELSE /\ work'.previous = Old /\ job'.phase \in {"ready", "swapped"}
                      /\ Has(i)' => live'[i] = Plus(Old) /\ work'.stage = Absent
              /\ job'.state = "run" =>
                   /\ job'.at \in {"bind", "cut"} => work'.previous = Absent \/ ~Has(i)'
                   /\ job'.at = "apply" => job'.phase = "cut"
                   /\ job'.at \in {"recheck", "unload", "out", "in"} => job'.phase \in {"ready", "swapped"} )
            => Swaps'
<1>1. Id' = i /\ Old' = Old
  BY DEF Id, Old
<1>2. /\ Lib(Id)' = Lib(i)' /\ Lib(Id) = Lib(i) /\ (Has(Id)' <=> Has(i)') /\ (Has(Id) <=> Has(i))
      /\ (live[Id])' = live'[i] /\ live[Id] = live[i]
  BY <1>1 DEF Lib, Has
<1>3. Plus(Old)' = Plus(Old) /\ Library(Old)' = Library(Old)
  BY <1>1 DEF Plus, Library
<1> QED BY <1>1, <1>2, <1>3 DEF Swaps

\* A step of a switch keeps the others, and its own as far as it still knows it.
LEMMA SwitchAgrees ==
  ASSUME Types, Types', Held, Agreed, job.kind \in Switch, NEW i \in Ids, Id = i, up, up',
         catalog' = catalog, req' = req, \A l \in Ids \ {i} : live'[l] = live[l],
         job'.kind = job.kind, job'.ids = job.ids, job'.to = job.to, job'.base = job.base,
         work'.stage # Absent => work'.stage = IF job'.phase = "cut" THEN Old ELSE Plus(Old),
         IF work'.previous = Absent THEN Lib(i)' = Library(Old)
         ELSE /\ work'.previous = Old /\ job'.phase \in {"ready", "swapped"}
              /\ Has(i)' => live'[i] = Plus(Old) /\ work'.stage = Absent,
         job'.state = "run" =>
           /\ job'.at \in {"bind", "cut"} => work'.previous = Absent \/ ~Has(i)'
           /\ job'.at = "apply" => job'.phase = "cut"
           /\ job'.at \in {"recheck", "unload", "out", "in"} => job'.phase \in {"ready", "swapped"}
  PROVE  Agreed'
<1>1. Swaps'
  BY SwapsAre
<1>2. Installs' /\ Clones'
  BY DEF Installs, Clones, Switch
<1>3. Its' = Its /\ Its = {i, 0} /\ i \in catalog
  BY SwitchIs DEF Its, Types, Switched1, Held, Switches
<1>4. \A l \in Ids \ (Its \cup Its') : Lib(l)' = Lib(l) /\ (l \in catalog' <=> l \in catalog)
  BY <1>3 DEF Lib
<1>5. \A l \in Ids \cap (Its \cup Its') : Listed(l)'
  BY <1>3, Numbers DEF Listed
<1> QED BY <1>1, <1>2, <1>3, <1>4, <1>5, StillDistinct, TaskStepAgrees

\* The steps that only look.
LEMMA SwitchLooksAgrees ==
  ASSUME Types, Types', Held, Agreed, Begin \/ Target \/ Bind \/ Recheck \/ Release \/ Check \/ Seal,
         Apart'
  PROVE  Agreed'
<1>1. /\ job.kind \in Switch /\ job.state = "run" /\ up /\ up' /\ UNCHANGED <<catalog, req, work>>
      /\ Disks /\ Disks' /\ Swaps /\ Switches /\ job \in Jobs
  BY SwitchLooks DEF Types, Tasked, Held, Agreed
<1>2. PICK i \in Ids : Id = i
  BY <1>1, SwitchIs
<1>3. \/ UNCHANGED <<live, resident>>
      \/ Touch({i})
      \/ UNCHANGED live /\ Unload(i)
      \/ UNCHANGED resident /\ live' = [live EXCEPT ![i] = IF @ = Absent THEN Hollow ELSE @]
  BY <1>2 DEF Begin, Target, Bind, Recheck, Release, Check, Seal, disk
<1>4. /\ \A l \in Ids \ {i} : live'[l] = live[l]
      /\ live'[i] = live[i] \/ (live[i] = Absent /\ live'[i] = Hollow)
  BY <1>1, <1>3, TouchIs DEF Disks
<1>5. Lib(i)' = Lib(i) /\ (Has(i)' <=> Has(i)) /\ (Has(i) => live'[i] = live[i])
  BY <1>4, Values DEF Lib, Library, Has
<1>6. /\ \A s : Goto(s) => /\ job'.kind = job.kind /\ job'.ids = job.ids /\ job'.to = job.to /\ job'.base = job.base
                           /\ job'.phase = job.phase /\ job'.state = "run" /\ job'.at = s
      /\ Raise \/ Restore => /\ job'.kind = job.kind /\ job'.ids = job.ids /\ job'.to = job.to /\ job'.base = job.base
                             /\ job'.phase = job.phase /\ job'.state \in {"inner", "back"}
  BY <1>1 DEF Goto, Raise, Restore, Jobs
<1>7. /\ work.stage # Absent => work.stage = IF job.phase = "cut" THEN Old ELSE Plus(Old)
      /\ IF work.previous = Absent THEN Lib(i) = Library(Old)
         ELSE /\ work.previous = Old /\ job.phase \in {"ready", "swapped"}
              /\ Has(i) => live[i] = Plus(Old) /\ work.stage = Absent
      /\ job.at \in {"bind", "cut"} => work.previous = Absent \/ ~Has(i)
      /\ job.at \in {"recheck", "unload", "out", "in"} => job.phase \in {"ready", "swapped"}
  <2>1. /\ Swaps /\ Id = i
    BY <1>1, <1>2
  <2>2. (Has(Id) <=> Has(i)) /\ live[Id] = live[i] /\ Lib(Id) = Lib(i)
    BY <1>2 DEF Has, Lib
  <2> QED BY <1>1, <2>1, <2>2 DEF Swaps
<1>8. ~Switched => work.previous = Absent \/ ~Has(i)
  BY <1>2, <1>7, Values DEF Switched, Has
<1>9. Switched => job.phase \in {"ready", "swapped"}
  BY <1>7 DEF Switched
<1>10. \/ Raise \/ Restore
       \/ \E s \in SwitchAt : Goto(s) /\
            \/ s \in {"target", "seal", "end"}
            \/ s \in {"bind", "cut"} /\ (work.previous = Absent \/ ~Has(i))
            \/ s \in {"recheck", "unload", "out"} /\ job.phase \in {"ready", "swapped"}
  <2>1. CASE Begin
    <3>1. \/ Goto("target")
          \/ Switched /\ Goto("seal")
          \/ ~Switched /\ Goto("bind")
          \/ job.phase = "ready" /\ Goto("unload")
          \/ ~Switched /\ Goto("cut")
      BY <1>1, <2>1 DEF Begin, Switch
    <3> QED BY <1>8, <3>1 DEF SwitchAt
  <2>2. CASE Target
    <3>1. \/ Raise
          \/ (job.phase = "ready" \/ Switched) /\ Goto("recheck")
          \/ ~Switched /\ Goto("cut")
      BY <2>2 DEF Target
    <3> QED BY <1>8, <1>9, <3>1 DEF SwitchAt
  <2>3. CASE Bind
    <3>1. job.at = "bind" /\ (Raise \/ (job.phase = "ready" /\ Goto("recheck")) \/ Goto("cut"))
      BY <2>3 DEF Bind, On
    <3> QED BY <1>7, <3>1 DEF SwitchAt
  <2>4. CASE Recheck
    <3>1. Goto("unload") /\ job.at = "recheck"
      BY <2>4 DEF Recheck, On
    <3> QED BY <1>7, <3>1 DEF SwitchAt
  <2>5. CASE Release
    <3>1. job.at = "unload" /\ (Goto("seal") \/ Goto("out"))
      BY <2>5 DEF Release, On
    <3> QED BY <1>7, <3>1 DEF SwitchAt
  <2>6. CASE Check
    <3>1. Restore \/ Goto("seal")
      BY <2>6 DEF Check
    <3> QED BY <3>1 DEF SwitchAt
  <2>7. CASE Seal
    <3>1. Raise \/ Restore \/ Goto("end")
      BY <2>7 DEF Seal
    <3> QED BY <3>1 DEF SwitchAt
  <2> QED BY <2>1, <2>2, <2>3, <2>4, <2>5, <2>6, <2>7
<1>11. CASE Raise \/ Restore
  BY <1>1, <1>2, <1>4, <1>5, <1>6, <1>7, <1>11, SwitchAgrees
<1>12. ASSUME NEW s \in SwitchAt, Goto(s),
            \/ s \in {"target", "seal", "end"}
            \/ s \in {"bind", "cut"} /\ (work.previous = Absent \/ ~Has(i))
            \/ s \in {"recheck", "unload", "out"} /\ job.phase \in {"ready", "swapped"}
       PROVE Agreed'
  BY <1>1, <1>2, <1>4, <1>5, <1>6, <1>7, <1>12, SwitchAgrees
<1> QED BY <1>10, <1>11, <1>12

\* The steps that make the copy and put it in place of the library.
LEMMA SwitchMovesAgrees ==
  ASSUME Types, Types', Held, Agreed, Cut \/ Apply \/ MoveOut \/ MoveIn \/ Note
  PROVE  Agreed'
<1>1. /\ job.kind \in Switch /\ job.state = "run" /\ UNCHANGED <<catalog, req, up>> /\ up /\ up'
      /\ Disks /\ Swaps /\ Switches /\ job \in Jobs /\ work \in Spaces
  BY DEF Cut, Apply, MoveOut, MoveIn, Note, On, Switch, disk, Types, Tasked, Held, Agreed
<1>2. PICK i \in Ids : Id = i
  BY <1>1, SwitchIs
<1>3. /\ live[i] \in Places /\ live \in [Ids -> Places] /\ Library(Absent) = Absent /\ Library(Hollow) = Absent
      /\ Absent \notin Contents /\ Hollow \notin Contents /\ Absent # Hollow
      /\ \A x \in Contents : Library(x) = x
  BY <1>1, Values DEF Disks, Library
<1>4. /\ work.previous = Absent => (Old \in Contents => Has(i))
      /\ work.previous # Absent => work.previous \in Contents
      /\ job.at \in {"recheck", "unload", "out", "in", "note", "check", "seal", "end"} => Old \in Contents
      /\ job.at \in {"in", "note", "check", "seal", "end"} => work.previous # Absent
  <2>1. Has(Id) <=> Has(i)
    BY <1>2 DEF Has
  <2> QED BY <1>1, <2>1 DEF Switches
<1>5. /\ \A s : Goto(s) => job'.kind = job.kind /\ job'.ids = job.ids /\ job'.to = job.to /\ job'.base = job.base
                           /\ job'.phase = job.phase /\ job'.state = "run" /\ job'.at = s
      /\ Raise => /\ job'.kind = job.kind /\ job'.ids = job.ids /\ job'.to = job.to /\ job'.base = job.base
                  /\ job'.phase = job.phase /\ job'.state = "back"
  BY <1>1 DEF Goto, Raise, Jobs
<1>7. /\ work.stage # Absent => work.stage = IF job.phase = "cut" THEN Old ELSE Plus(Old)
      /\ IF work.previous = Absent THEN Lib(i) = Library(Old)
         ELSE /\ work.previous = Old /\ job.phase \in {"ready", "swapped"}
              /\ Has(i) => live[i] = Plus(Old) /\ work.stage = Absent
      /\ job.at \in {"bind", "cut"} => work.previous = Absent \/ ~Has(i)
      /\ job.at = "apply" => job.phase = "cut"
      /\ job.at \in {"recheck", "unload", "out", "in"} => job.phase \in {"ready", "swapped"}
  <2>2. (Has(Id) <=> Has(i)) /\ live[Id] = live[i] /\ Lib(Id) = Lib(i)
    BY <1>2 DEF Has, Lib
  <2> QED BY <1>1, <2>2 DEF Swaps
<1>8. Has(i) => Lib(i) = live[i] /\ (Lib(i) = Library(Old) => live[i] = Old)
  BY <1>3 DEF Has, Lib, Library
<1>9. UNCHANGED live => Lib(i)' = Lib(i) /\ (Has(i)' <=> Has(i))
  BY DEF Has, Lib
<1>10. CASE Raise /\ UNCHANGED <<live, work>>
  BY <1>1, <1>2, <1>5, <1>7, <1>9, <1>10, SwitchAgrees
<1>11. CASE Goto("in") /\ UNCHANGED <<live, work>> /\ job.at = "out"
  BY <1>1, <1>2, <1>5, <1>7, <1>9, <1>11, SwitchAgrees
<1>12. CASE Cut /\ Full(i)
  <2>1. /\ work' = [work EXCEPT !.stage = live[i]] /\ job.at = "cut"
        /\ job' = [job EXCEPT !.phase = "cut", !.at = "apply"] /\ live' = live
    BY <1>2, <1>12 DEF Cut, On, disk
  <2>2. /\ work'.stage = live[i] /\ work'.previous = work.previous
        /\ job'.kind = job.kind /\ job'.ids = job.ids /\ job'.to = job.to /\ job'.base = job.base
        /\ job'.state = "run" /\ job'.at = "apply" /\ job'.phase = "cut"
    BY <1>1, <2>1 DEF Jobs, Spaces
  <2>3. Has(i) /\ work.previous = Absent /\ live[i] = Old
    BY <1>1, <1>7, <1>8, <1>12, <2>1, FullIs DEF Has
  <2> QED BY <1>1, <1>2, <1>7, <1>9, <2>1, <2>2, <2>3, SwitchAgrees
<1>13. CASE Apply
  <2>1. /\ work' = [work EXCEPT !.stage.has = @ \cup {"task"}] /\ live' = live /\ job.at = "apply"
        /\ job' = [job EXCEPT !.phase = "ready", !.at = IF job.kind = "removal" THEN "unload" ELSE "recheck"]
    BY <1>13 DEF Apply, On, disk
  <2>2. work.stage \in Contents /\ job.phase = "cut" /\ work.stage = Old /\ work.previous = Absent
    BY <1>1, <1>3, <1>7, <2>1 DEF Types, Switched1
  <2>3. /\ work'.stage = [work.stage EXCEPT !.has = @ \cup {"task"}] /\ work'.previous = work.previous
        /\ job'.kind = job.kind /\ job'.ids = job.ids /\ job'.to = job.to /\ job'.base = job.base
        /\ job'.state = "run" /\ job'.at \in {"unload", "recheck"} /\ job'.phase = "ready"
    BY <1>1, <2>1 DEF Jobs, Spaces
  <2>4. work'.stage = Plus(Old)
    BY <2>2, <2>3, PlusIs
  <2> QED BY <1>1, <1>2, <1>7, <1>9, <2>1, <2>2, <2>3, <2>4, SwitchAgrees
<1>14. CASE MoveOut /\ work.previous = Absent /\ live[i] # Absent
  <2>1. /\ work' = [work EXCEPT !.previous = live[i]]
        /\ live' = [live EXCEPT ![i] = Absent] /\ Goto("in") /\ job.at = "out"
    BY <1>2, <1>14 DEF MoveOut, On
  <2>2. /\ work'.stage = work.stage /\ work'.previous = live[i] /\ live'[i] = Absent
        /\ \A l \in Ids \ {i} : live'[l] = live[l]
    BY <1>1, <1>3, <2>1 DEF Spaces
  <2>3. Has(i) /\ live[i] = Old /\ ~Has(i)' /\ Old # Absent
    BY <1>3, <1>4, <1>7, <1>8, <1>14, <2>1, <2>2 DEF Has
  <2> QED BY <1>1, <1>2, <1>5, <1>7, <2>1, <2>2, <2>3, SwitchAgrees
<1>15. CASE MoveIn /\ ~((work.stage = Absent) = (live[i] = Absent))
  <2>1. /\ work' = [work EXCEPT !.stage = Absent]
        /\ live' = [live EXCEPT ![i] = IF work.stage = Absent THEN @ ELSE work.stage]
        /\ Goto("note") /\ job.at = "in"
    BY <1>2, <1>15 DEF MoveIn, On
  <2>2. /\ work'.stage = Absent /\ work'.previous = work.previous
        /\ live'[i] = IF work.stage = Absent THEN live[i] ELSE work.stage
        /\ \A l \in Ids \ {i} : live'[l] = live[l]
    BY <1>1, <1>3, <2>1 DEF Spaces
  <2>3. work.previous # Absent /\ job.phase \in {"ready", "swapped"}
    BY <1>1, <1>4, <1>7, <2>1
  <2>4. Has(i)' => live'[i] = Plus(Old)
    BY <1>7, <2>2, <2>3 DEF Has
  <2> QED BY <1>1, <1>2, <1>5, <1>7, <2>1, <2>2, <2>3, <2>4, SwitchAgrees
<1>16. CASE Note
  <2>1. /\ job' = [job EXCEPT !.phase = "swapped", !.at = "check"] /\ job.at = "note"
        /\ live' = live /\ work' = work
    BY <1>16 DEF Note, On, disk
  <2>2. /\ job'.kind = job.kind /\ job'.ids = job.ids /\ job'.to = job.to /\ job'.base = job.base
        /\ job'.state = "run" /\ job'.at = "check" /\ job'.phase = "swapped"
    BY <1>1, <2>1 DEF Jobs
  <2>3. job.phase \in {"ready", "swapped"} /\ work.previous # Absent
    BY <1>4, <1>7, <2>1
  <2> QED BY <1>1, <1>2, <1>7, <1>9, <2>1, <2>2, <2>3, SwitchAgrees
<1> QED
  <2>1. CASE Cut
    BY <1>2, <1>10, <1>12, <2>1 DEF Cut, disk
  <2>2. CASE MoveOut
    BY <1>2, <1>10, <1>11, <1>14, <2>2 DEF MoveOut, On
  <2>3. CASE MoveIn
    BY <1>2, <1>10, <1>15, <2>3 DEF MoveIn
  <2> QED BY <1>13, <1>16, <2>1, <2>2, <2>3

\* A task that is over: what it left is as it was, and every live library is registered.
LEMMA EndAgrees ==
  ASSUME Types, Types', Agreed, up, up', req' = req, Complete \/ Undone,
         \A l \in Ids \ Its : Lib(l)' = Lib(l) /\ (l \in catalog' <=> l \in catalog),
         \A l \in Ids \cap Its : Has(l)' => l \in catalog'
  PROVE  Agreed'
<1>1. job'.kind = "none" /\ job'.ids = {} /\ job'.to = 0
  BY Gone DEF Complete, Undone, NoJob
<1>2. Its' = {0}
  BY <1>1 DEF Its
<1>3. Swaps' /\ Installs' /\ Clones'
  BY <1>1 DEF Swaps, Installs, Clones, Switch
<1>4. \A l \in Ids \cap (Its \cup Its') : Listed(l)'
  BY <1>2, Numbers DEF Listed
<1>5. \A c \in Clients : req[c].op # "" => Own(c) \cap Its' = {}
  BY <1>2, StillDistinct
<1> QED BY <1>2, <1>3, <1>4, <1>5, TaskStepAgrees

\* The rollback of a switch.
LEMMA SwitchBackAgrees ==
  ASSUME Types, Types', Held, Agreed, BackUnload \/ BackAway \/ BackReturn \/ BackTidy
  PROVE  Agreed'
<1>1. /\ job.kind \in Switch /\ job.state \in {"inner", "back"} /\ UNCHANGED <<catalog, req, up>> /\ up /\ up'
      /\ Disks /\ Disks' /\ Swaps /\ Switches /\ job \in Jobs /\ work \in Spaces
  BY DEF BackUnload, BackAway, BackReturn, BackTidy, Back, Switch, disk, Types, Tasked, Held, Agreed
<1>2. PICK i \in Ids : Id = i
  BY <1>1, SwitchIs
<1>3. /\ live \in [Ids -> Places] /\ live' \in [Ids -> Places] /\ Library(Absent) = Absent /\ Library(Hollow) = Absent
      /\ Absent \notin Contents /\ Hollow \notin Contents /\ Absent # Hollow
  BY <1>1, Values DEF Disks, Library
<1>4. /\ work.previous # Absent => work.previous \in Contents
      /\ job.at \in {"away", "return"} => work.previous # Absent
      /\ job.at = "tidy" => work.previous = Absent
  BY <1>1 DEF Switches
<1>5. \A s : Goto(s) => /\ job'.kind = job.kind /\ job'.ids = job.ids /\ job'.to = job.to /\ job'.base = job.base
                        /\ job'.phase = job.phase /\ job'.state = job.state /\ job'.at = s
  BY <1>1 DEF Goto, Jobs
<1>6. Fail => /\ job'.kind = job.kind /\ job'.ids = job.ids /\ job'.to = job.to /\ job'.base = job.base
              /\ job'.phase = job.phase /\ job'.state \in {"parked", "back"}
  BY <1>1 DEF Fail, Raise, Jobs
<1>7. /\ work.stage # Absent => work.stage = IF job.phase = "cut" THEN Old ELSE Plus(Old)
      /\ IF work.previous = Absent THEN Lib(i) = Library(Old)
         ELSE /\ work.previous = Old /\ job.phase \in {"ready", "swapped"}
              /\ Has(i) => live[i] = Plus(Old) /\ work.stage = Absent
  <2>2. (Has(Id) <=> Has(i)) /\ live[Id] = live[i] /\ Lib(Id) = Lib(i)
    BY <1>2 DEF Has, Lib
  <2> QED BY <1>1, <2>2 DEF Swaps
<1>8. UNCHANGED live => Lib(i)' = Lib(i) /\ (Has(i)' <=> Has(i))
  BY DEF Has, Lib
<1>9. CASE BackUnload
  <2>1. /\ live' = live /\ work' = work /\ (Goto("tidy") \/ Goto("away"))
    BY <1>9 DEF BackUnload, disk
  <2> QED BY <1>1, <1>2, <1>5, <1>7, <1>8, <2>1, SwitchAgrees
<1>10. CASE BackAway
  <2>1. /\ work' = [work EXCEPT !.failed = live[i]] /\ job.at = "away"
        /\ live' = [live EXCEPT ![i] = Absent] /\ Goto("return")
    BY <1>2, <1>10 DEF BackAway, Back
  <2>2. /\ work'.stage = work.stage /\ work'.previous = work.previous /\ live'[i] = Absent
        /\ \A l \in Ids \ {i} : live'[l] = live[l]
    BY <1>1, <1>3, <2>1 DEF Spaces
  <2>3. ~Has(i)' /\ work.previous # Absent
    BY <1>3, <1>4, <2>1, <2>2 DEF Has
  <2> QED BY <1>1, <1>2, <1>5, <1>7, <2>1, <2>2, <2>3, SwitchAgrees
<1>11. CASE BackReturn /\ live[i] # Absent
  <2>1. /\ live' = live /\ work' = work /\ Fail
    BY <1>2, <1>11 DEF BackReturn
  <2> QED BY <1>1, <1>2, <1>6, <1>7, <1>8, <2>1, SwitchAgrees
<1>12. CASE BackReturn /\ live[i] = Absent
  <2>1. /\ work' = [work EXCEPT !.previous = Absent] /\ job.at = "return"
        /\ live' = [live EXCEPT ![i] = work.previous] /\ Goto("tidy")
    BY <1>2, <1>12 DEF BackReturn, Back
  <2>2. /\ work'.stage = work.stage /\ work'.previous = Absent /\ live'[i] = work.previous
        /\ \A l \in Ids \ {i} : live'[l] = live[l]
    BY <1>1, <1>3, <2>1 DEF Spaces
  <2>3. Lib(i)' = Library(Old)
    BY <1>4, <1>7, <2>1, <2>2 DEF Lib
  <2> QED BY <1>1, <1>2, <1>5, <1>7, <2>1, <2>2, <2>3, SwitchAgrees
<1>13. CASE BackTidy
  <2>1. (\A l \in Ids \ {i} : live'[l] = live[l]) /\ Lib(i)' = Lib(i) /\ (Has(i)' <=> Has(i))
    <3>1. CASE UNCHANGED <<live, resident>>
      BY <1>8, <3>1
    <3>2. CASE Touch({i})
      <4>1. /\ \A l \in Ids \ {i} : live'[l] = live[l]
            /\ live'[i] = live[i] \/ (live[i] = Absent /\ live'[i] = Hollow)
        BY <1>1, <3>2, TouchIs
      <4> QED BY <1>3, <4>1 DEF Lib, Has, Library
    <3> QED BY <1>2, <1>13, <3>1, <3>2 DEF BackTidy
  <2>2. work.previous = Absent
    BY <1>4, <1>13 DEF BackTidy, Back
  <2>3. CASE Undone
    <3>1. Its = {i, 0} /\ i \in catalog
      BY <1>1, <1>2, SwitchIs DEF Its, Types, Switched1, Switches
    <3> QED BY <1>1, <2>1, <2>3, <3>1, Numbers, EndAgrees DEF Lib
  <2>4. ASSUME work' = [work EXCEPT !.stage = Absent, !.failed = Absent],
               Fail \/ job' = [job EXCEPT !.state = "back", !.at = "unload", !.phase = "rolled_back"]
        PROVE  Agreed'
    <3>1. work'.stage = Absent /\ work'.previous = Absent
      BY <1>1, <2>2, <2>4 DEF Spaces
    <3>2. /\ job'.kind = job.kind /\ job'.ids = job.ids /\ job'.to = job.to /\ job'.base = job.base
          /\ job'.state \in {"parked", "back"}
      <4>1. CASE Fail
        BY <1>6, <4>1
      <4>2. CASE job' = [job EXCEPT !.state = "back", !.at = "unload", !.phase = "rolled_back"]
        BY <1>1, <4>2 DEF Jobs
      <4> QED BY <2>4, <4>1, <4>2
    <3> QED BY <1>1, <1>2, <1>7, <2>1, <2>2, <3>1, <3>2, SwitchAgrees
  <2> QED BY <1>13, <2>3, <2>4 DEF BackTidy
<1> QED BY <1>9, <1>10, <1>11, <1>12, <1>13

\* A task completes.
LEMMA FinishAgrees ==
  ASSUME Types, Types', Held, Agreed, Finish
  PROVE  Agreed'
<1>1. /\ job.kind \in Switch \cup {"import"} /\ job.state = "run" /\ job.at = "end" /\ Complete /\ live' = Plain
      /\ UNCHANGED <<catalog, req, up>> /\ up /\ up' /\ Disks
  BY DEF Finish, On, Types, Tasked
<1>2. /\ \A l \in Ids : Has(l)' <=> Has(l)
      /\ \A l \in Ids \ job.ids : live'[l] = live[l]
  BY <1>1, PlainIs DEF Has
<1>3. \A l \in Ids \ Its : Lib(l)' = Lib(l)
  BY <1>2 DEF Its, Lib
<1>4. \A l \in Ids \cap Its : Has(l)' => l \in catalog'
  <2>1. CASE job.kind \in Switch
    <3>1. Id \in catalog /\ Its = {Id, 0}
      BY <2>1, SwitchIs DEF Its, Types, Switched1, Held, Switches
    <3> QED BY <1>1, <3>1, Numbers
  <2>2. CASE job.kind = "import"
    <3>1. job.ids \subseteq catalog /\ Its \subseteq job.ids \cup {0}
      BY <1>1, <2>2, ImportIs DEF Agreed, Installs, Its
    <3> QED BY <1>1, <3>1, Numbers
  <2> QED BY <1>1, <2>1, <2>2
<1> QED BY <1>1, <1>3, <1>4, EndAgrees

\* A step of an import keeps the others, and its own as far as it still knows it.
LEMMA ImportAgrees ==
  ASSUME Types, Types', Agreed, job.kind = "import", up, up', req' = req,
         job'.kind = "import", job'.ids = job.ids,
         \A l \in Ids \ job.ids : Lib(l)' = Lib(l) /\ (l \in catalog' <=> l \in catalog),
         Installs'
  PROVE  Agreed'
<1>1. Its \subseteq job.ids \cup {0} /\ Its' \subseteq Its \cup {0} \cup {job'.to} /\ job'.to \in job.ids \cup {0}
  BY ImportIs DEF Its, Types, Imported1
<1>2. Its' \subseteq Its \cup {0}
  BY <1>1 DEF Its
<1>3. Swaps' /\ Clones'
  BY DEF Swaps, Clones, Switch
<1>4. \A l \in Ids \ (Its \cup Its') : Lib(l)' = Lib(l) /\ (l \in catalog' <=> l \in catalog)
  BY DEF Its
<1>5. \A l \in Ids \cap (Its \cup Its') : Listed(l)'
  <2> SUFFICES ASSUME NEW l \in job.ids, l \in Ids PROVE Listed(l)'
    BY <1>1, <1>2, Numbers
  <2>1. CASE job'.phase # ""
    BY <2>1 DEF Listed
  <2>2. CASE job'.phase = ""
    BY <2>2 DEF Listed, Installs
  <2> QED BY <2>1, <2>2
<1> QED BY <1>2, <1>3, <1>4, <1>5, StillDistinct, TaskStepAgrees

\* A step of an import that leaves the libraries and the catalog as they are.
LEMMA ImportStaysAgrees ==
  ASSUME Types, Types', Agreed, job.kind = "import", up, up', req' = req,
         job'.kind = "import", job'.ids = job.ids, job'.base = job.base, job'.phase = job.phase,
         \A l \in Ids : Calm(l), catalog' = catalog, work' = work, job.state # "back",
         job'.state = "run" =>
           /\ job'.at = "prepare" => job'.todo = job.ids
           /\ job'.at \in {"move", "moved"} =>
                /\ job.phase \in {"ready", "moving"}
                /\ \A l \in job.ids \ job'.todo : Has(l) /\ l \in work.moved
           /\ job'.at = "moved" => \E k \in Ids : k = Least(job'.todo) /\ Has(k)
           /\ job'.at \in {"show", "answer", "unmark", "end"} => job.phase = "installed"
           /\ job'.at \in {"show", "unmark", "end"} => job.ids \subseteq catalog,
         job'.state = "back" => job'.todo = job.ids /\ job'.at # "remove"
  PROVE  Agreed'
<1>1. job.ids \subseteq Ids /\ Installs /\ Disks /\ Disks'
  BY ImportIs DEF Agreed, Types
<1>2. \A l \in Ids : Lib(l)' = Lib(l) /\ (Has(l)' <=> Has(l)) /\ (Has(l) => live'[l] = live[l])
  BY <1>1, LibIs DEF Calm
<1>3. \A l \in job.ids :
       IF job.phase = ""
       THEN /\ Lib(l)' = Library(job.base.dirs[l]) /\ (l \in catalog <=> l \in job.base.names)
            /\ Has(l)' => l \in catalog
       ELSE /\ l \notin job.base.names /\ job.base.dirs[l] \notin Contents
            /\ l \in catalog \/ Has(l)' => l \in work.moved \/ Mark(live'[l])
  <2>1. \A l \in Ids : Mark(live[l]) => Has(l)
    BY DEF Mark, Has
  <2> QED BY <1>1, <1>2, <2>1 DEF Installs
<1>4. job.phase = "installed" => \A l \in job.ids :
       /\ l \in work.moved
       /\ IF Has(l)' THEN l \in catalog ELSE l \notin catalog /\ resident'[l] = "none"
  <2> SUFFICES ASSUME job.phase = "installed", NEW l \in job.ids
               PROVE  l \in work.moved /\ IF Has(l)' THEN l \in catalog ELSE l \notin catalog /\ resident'[l] = "none"
    OBVIOUS
  <2>1. /\ l \in work.moved
        /\ IF Has(l) THEN l \in catalog ELSE l \notin catalog /\ resident[l] = "none"
    BY <1>1 DEF Installs
  <2> QED BY <1>1, <1>2, <2>1 DEF Calm
<1>5. job'.state = "run" =>
        /\ job'.at \in {"move", "moved"} => \A l \in job.ids \ job'.todo : Has(l)' /\ l \in work.moved
        /\ job'.at = "moved" => Has(Least(job.todo))'
  <2>1. Least(job.todo)' = Least(job'.todo)
    BY DEF Least
  <2>2. ASSUME NEW k \in Ids, k = Least(job'.todo), Has(k) PROVE Has(Least(job.todo))'
    <3>1. Has(k)'
      BY <1>2, <2>2
    <3> QED BY <2>1, <2>2, <3>1 DEF Has
  <2> QED BY <1>1, <1>2, <2>2
<1>6. Installs'
  BY <1>1, <1>3, <1>4, <1>5 DEF Installs
<1> QED BY <1>1, <1>2, <1>6, ImportAgrees

\* The steps that only look, or fail before they have changed anything.
LEMMA ImportLooksAgrees ==
  ASSUME Types, Types', Held, Agreed, job.kind = "import", job.state = "run", req' = req, up' = up,
         catalog' = catalog, work' = work,
         (live' = live /\ resident' = resident) \/ (Touch(job.ids) /\ job.phase = "installed"),
         \/ Raise
         \/ ImportBegin
         \/ Goto("moved") /\ job.at = "move" /\ Owned(Least(job.todo)) /\ job.todo # {}
         \/ Goto("unmark") /\ job.at = "show"
         \/ Goto("end") /\ job.at = "answer" /\ \A l \in job.ids : Works(l)
         \/ Goto("end") /\ job.at = "unmark"
  PROVE  Agreed'
<1>1. /\ job \in Jobs /\ job.ids \subseteq Ids /\ up /\ up' /\ Disks /\ Disks' /\ Installs
      /\ job.todo \subseteq Ids
  BY ImportIs DEF Types, Tasked, Agreed
<1>2. job.phase = "installed" => \A l \in job.ids : IF Has(l) THEN l \in catalog ELSE resident[l] = "none"
  BY <1>1 DEF Installs
<1>3. \A l \in Ids : Calm(l)
  <2>1. CASE live' = live /\ resident' = resident
    BY <2>1 DEF Calm, Lib
  <2>2. CASE Touch(job.ids) /\ job.phase = "installed"
    <3> SUFFICES ASSUME NEW l \in Ids PROVE Calm(l)
      OBVIOUS
    <3>1. l \in job.ids => (Full(l) => l \in catalog)
      BY <1>1, <1>2, <2>2, HasIs
    <3> QED BY <1>1, <2>2, <3>1, TouchIs, CalmIs
  <2> QED BY <2>1, <2>2
<1>4. CASE Raise
  <2>1. /\ job'.kind = "import" /\ job'.ids = job.ids /\ job'.base = job.base /\ job'.phase = job.phase
        /\ job'.state = "back" /\ job'.at = "unload" /\ job'.todo = job.ids
    BY <1>1, <1>4 DEF Raise, Jobs
  <2> QED BY <1>1, <1>3, <2>1, ImportStaysAgrees
<1>5. CASE ImportBegin
  <2>1. PICK s : /\ job' = [job EXCEPT !.todo = job.ids, !.at = s]
                 /\ \/ s = "answer" /\ job.phase = "installed"
                    \/ s = "move" /\ job.phase \in {"ready", "moving"}
                    \/ s = "prepare"
    BY <1>5 DEF ImportBegin
  <2>2. /\ job'.kind = "import" /\ job'.ids = job.ids /\ job'.base = job.base /\ job'.phase = job.phase
        /\ job'.state = "run" /\ job'.at = s /\ job'.todo = job.ids
    BY <1>1, <2>1 DEF Jobs
  <2> QED BY <1>1, <1>3, <2>1, <2>2, ImportStaysAgrees
<1>6. ASSUME NEW s, Goto(s)
      PROVE  /\ job'.kind = "import" /\ job'.ids = job.ids /\ job'.base = job.base /\ job'.phase = job.phase
             /\ job'.state = "run" /\ job'.at = s /\ job'.todo = job.todo
  BY <1>1, <1>6 DEF Goto, Jobs
<1>7. CASE Goto("moved") /\ job.at = "move" /\ Owned(Least(job.todo)) /\ job.todo # {}
  <2>1. Least(job.todo) \in Ids
    BY <1>1, <1>7, LeastIn
  <2>2. Has(Least(job.todo))
    BY <1>1, <1>7, <2>1, HasIs DEF Owned
  <2>3. job.phase \in {"ready", "moving"} /\ \A l \in job.ids \ job.todo : Has(l) /\ l \in work.moved
    BY <1>1, <1>7 DEF Installs
  <2> QED BY <1>1, <1>3, <1>6, <1>7, <2>1, <2>2, <2>3, ImportStaysAgrees
<1>8. CASE Goto("unmark") /\ job.at = "show"
  <2>1. job.phase = "installed" /\ job.ids \subseteq catalog
    BY <1>1, <1>8 DEF Installs
  <2> QED BY <1>1, <1>3, <1>6, <1>8, <2>1, ImportStaysAgrees
<1>9. CASE Goto("end") /\ job.at = "answer" /\ \A l \in job.ids : Works(l)
  <2>1. job.phase = "installed"
    BY <1>1, <1>9 DEF Installs
  <2>2. job.ids \subseteq catalog
    <3> SUFFICES ASSUME NEW l \in job.ids PROVE l \in catalog
      OBVIOUS
    <3>1. resident[l] = "none" => Has(l)
      BY <1>1, <1>9, HasIs DEF Works
    <3>2. IF Has(l) THEN l \in catalog ELSE resident[l] = "none"
      BY <1>2, <2>1
    <3> QED BY <3>1, <3>2
  <2> QED BY <1>1, <1>3, <1>6, <1>9, <2>1, <2>2, ImportStaysAgrees
<1>10. CASE Goto("end") /\ job.at = "unmark"
  <2>1. job.phase = "installed" /\ job.ids \subseteq catalog
    BY <1>1, <1>10 DEF Installs
  <2> QED BY <1>1, <1>3, <1>6, <1>10, <2>1, ImportStaysAgrees
<1> QED BY <1>4, <1>5, <1>7, <1>8, <1>9, <1>10

\* The packages are prepared, under ids that are free.
LEMMA PrepareAgrees ==
  ASSUME Types, Types', Held, Agreed, Prepare
  PROVE  Agreed'
<1>1. /\ job.kind = "import" /\ job.state = "run" /\ job.at = "prepare" /\ job.phase = "" /\ up /\ up'
      /\ live' = live /\ resident' = resident /\ catalog' = catalog /\ req' = req /\ Disks /\ Installs
      /\ job \in Jobs /\ work \in Spaces /\ job.ids \subseteq Ids
      /\ born + Cardinality(job.ids) <= MaxBorn /\ up' = up
  BY PrepareIs, ImportIs DEF Prepare, disk, Types, Agreed
<1>2. CASE Raise /\ UNCHANGED work
  BY <1>1, <1>2, ImportLooksAgrees
<1>3. CASE /\ \A l \in job.ids : l \notin catalog /\ live[l] = Absent
           /\ work' = [work EXCEPT !.prepared = PreparedNow]
           /\ job' = [job EXCEPT !.phase = "ready", !.at = "move"]
  <2>1. PICK new : new = PreparedNow
    OBVIOUS
  <2>2. \A l \in Ids : new[l] # Absent => Mark(new[l])
    BY <1>1, <2>1, PreparedIs DEF Mark
  <2>3. /\ work'.prepared = new /\ work'.moved = work.moved
        /\ job'.kind = "import" /\ job'.ids = job.ids /\ job'.base = job.base /\ job'.phase = "ready"
        /\ job'.state = "run" /\ job'.at = "move" /\ job'.todo = job.todo /\ job.todo = job.ids
    BY <1>1, <1>3, <2>1 DEF Jobs, Spaces, Installs
  <2>4. \A l \in job.ids : l \notin job.base.names /\ job.base.dirs[l] \notin Contents /\ ~Has(l)'
    <3> SUFFICES ASSUME NEW l \in job.ids
                 PROVE  l \notin job.base.names /\ job.base.dirs[l] \notin Contents /\ ~Has(l)'
      OBVIOUS
    <3>1. Lib(l) = Library(job.base.dirs[l]) /\ (l \in catalog <=> l \in job.base.names) /\ live[l] = Absent
      BY <1>1, <1>3 DEF Installs
    <3>2. Lib(l) = Absent /\ l \notin catalog
      BY <1>3, <3>1, Values DEF Lib, Library
    <3> QED BY <1>1, <3>1, <3>2, Values DEF Has, Library
  <2>5. Installs'
    BY <1>1, <1>3, <2>2, <2>3, <2>4 DEF Installs
  <2>6. \A l \in Ids : Lib(l)' = Lib(l)
    BY <1>1 DEF Lib
  <2> QED BY <1>1, <2>3, <2>5, <2>6, ImportAgrees
<1> QED BY <1>2, <1>3, PrepareIs

\* A package is put in place under its id.
LEMMA MoveAgrees ==
  ASSUME Types, Types', Held, Agreed, Move
  PROVE  Agreed'
<1>1. /\ job.kind = "import" /\ job.state = "run" /\ job.at = "move" /\ job.todo # {}
      /\ catalog' = catalog /\ resident' = resident /\ up' = up /\ req' = req
  BY DEF Move, On
<1>2. /\ up /\ up' /\ Disks /\ Installs /\ job \in Jobs /\ work \in Spaces /\ job.ids \subseteq Ids
      /\ job.todo \subseteq job.ids /\ live \in [Ids -> Places] /\ job.phase \in {"ready", "moving"}
  BY <1>1, ImportIs DEF Types, Agreed, Disks, Installs
<1>3. PICK l \in job.todo : l = Least(job.todo)
  <2>1. job.todo \subseteq Ids
    BY <1>2
  <2> QED BY <1>1, <2>1, LeastIn
<1>4. CASE Raise /\ UNCHANGED <<live, work>>
  BY <1>1, <1>2, <1>4, ImportLooksAgrees
<1>5. CASE Owned(l) /\ Goto("moved") /\ UNCHANGED <<live, work>>
  BY <1>1, <1>2, <1>3, <1>5, ImportLooksAgrees
<1>6. CASE /\ live[l] = Absent /\ work.prepared[l] # Absent
           /\ live' = [live EXCEPT ![l] = work.prepared[l]]
           /\ work' = [work EXCEPT !.prepared[l] = Absent] /\ Goto("moved")
  <2>1. PICK x : x = work.prepared[l]
    OBVIOUS
  <2>2. l \in Ids /\ Mark(x) /\ x \in Contents
    BY <1>1, <1>2, <1>6, <2>1 DEF Installs, Mark
  <2>3. /\ live'[l] = x /\ \A m \in Ids \ {l} : live'[m] = live[m]
        /\ work'.prepared[l] = Absent /\ \A m \in Ids \ {l} : work'.prepared[m] = work.prepared[m]
        /\ work'.moved = work.moved
        /\ job'.kind = "import" /\ job'.ids = job.ids /\ job'.phase = job.phase /\ job'.state = "run"
        /\ job'.at = "moved" /\ job'.todo = job.todo /\ job'.base = job.base
    BY <1>1, <1>2, <1>6, <2>1, <2>2 DEF Goto, Jobs, Spaces
  <2>4. Has(l)' /\ \A m \in Ids \ {l} : (Has(m)' <=> Has(m))
    BY <2>2, <2>3 DEF Has
  <2>5. /\ Least(job.todo)' = l /\ Has(Least(job.todo))'
    <3>1. Least(job.todo)' = l
      BY <1>3, <2>3 DEF Least
    <3> QED BY <2>4, <3>1 DEF Has
  <2>6. \A m \in Ids : work'.prepared[m] # Absent => Mark(work'.prepared[m])
    BY <1>1, <1>2, <2>3 DEF Installs
  <2>7. \A m \in job.ids :
          /\ m \notin job.base.names /\ job.base.dirs[m] \notin Contents
          /\ m \in catalog \/ Has(m)' => m \in work.moved \/ Mark(live'[m])
    <3> SUFFICES ASSUME NEW m \in job.ids
                 PROVE  /\ m \notin job.base.names /\ job.base.dirs[m] \notin Contents
                        /\ m \in catalog \/ Has(m)' => m \in work.moved \/ Mark(live'[m])
      OBVIOUS
    <3>1. /\ m \notin job.base.names /\ job.base.dirs[m] \notin Contents
          /\ m \in catalog \/ Has(m) => m \in work.moved \/ Mark(live[m])
      BY <1>1, <1>2 DEF Installs
    <3> QED BY <1>2, <2>2, <2>3, <2>4, <3>1
  <2>8. \A m \in job.ids \ job.todo : Has(m)' /\ m \in work.moved
    BY <1>1, <1>2, <2>4 DEF Installs
  <2>9. job.ids \cap catalog = {}
    BY <1>1, <1>2 DEF Installs
  <2>10. Installs'
    BY <1>1, <1>2, <2>3, <2>5, <2>6, <2>7, <2>8, <2>9 DEF Installs
  <2>11. \A m \in Ids \ job.ids : Lib(m)' = Lib(m)
    BY <1>2, <2>3 DEF Lib
  <2> QED BY <1>1, <1>2, <2>3, <2>10, <2>11, ImportAgrees
<1> QED BY <1>3, <1>4, <1>5, <1>6 DEF Move

\* The steps of an import that write down what it did.
LEMMA NotesAgree ==
  ASSUME Types, Types', Held, Agreed, Moved \/ Enroll \/ Show \/ Unmark \/ ImportBegin
  PROVE  Agreed'
<1>1. /\ job.kind = "import" /\ job.state = "run" /\ up' = up /\ req' = req
  BY DEF Moved, Enroll, Show, Unmark, ImportBegin, On
<1>2. /\ up /\ up' /\ Disks /\ Installs /\ job \in Jobs /\ work \in Spaces /\ job.ids \subseteq Ids
      /\ job.todo \subseteq job.ids
  BY <1>1, ImportIs DEF Types, Agreed
<1>3. UNCHANGED live => \A l \in Ids : Lib(l)' = Lib(l) /\ (Has(l)' <=> Has(l))
  BY DEF Lib, Has
<1>4. CASE Moved
  <2>1. /\ job.at = "moved" /\ UNCHANGED <<live, catalog, resident>>
        /\ work' = [work EXCEPT !.moved = @ \cup {Least(job.todo)}]
        /\ job' = [job EXCEPT !.phase = "moving", !.todo = @ \ {Least(job.todo)}, !.at = "move"]
    BY <1>4 DEF Moved, On, disk
  <2>2. PICK k : k = Least(job.todo)
    OBVIOUS
  <2>3. /\ work'.moved = work.moved \cup {k} /\ work'.prepared = work.prepared
        /\ job'.kind = "import" /\ job'.ids = job.ids /\ job'.phase = "moving" /\ job'.state = "run"
        /\ job'.at = "move" /\ job'.todo = job.todo \ {k} /\ job'.base = job.base
    BY <1>1, <1>2, <2>1, <2>2 DEF Jobs, Spaces
  <2>4. Has(k) /\ job.phase \in {"ready", "moving"} /\ \A l \in job.ids \ job.todo : Has(l) /\ l \in work.moved
    BY <1>1, <1>2, <2>1, <2>2 DEF Installs
  <2>5. \A l \in job.ids :
          /\ l \notin job.base.names /\ job.base.dirs[l] \notin Contents
          /\ l \in catalog \/ Has(l)' => l \in work'.moved \/ Mark(live'[l])
    <3>1. \A l \in job.ids :
            /\ l \notin job.base.names /\ job.base.dirs[l] \notin Contents
            /\ l \in catalog \/ Has(l) => l \in work.moved \/ Mark(live[l])
      BY <1>1, <1>2, <2>4 DEF Installs
    <3>2. \A l \in job.ids : Has(l)' => Has(l)
      BY <1>2, <1>3, <2>1
    <3> QED BY <2>1, <2>3, <3>1, <3>2
  <2>6. \A l \in job.ids \ job'.todo : Has(l)' /\ l \in work'.moved
    BY <1>2, <1>3, <2>1, <2>3, <2>4
  <2>7. job.ids \cap catalog = {} /\ \A l \in Ids : work.prepared[l] # Absent => Mark(work.prepared[l])
    BY <1>1, <1>2, <2>4 DEF Installs
  <2>8. Installs'
    BY <1>1, <1>2, <2>1, <2>3, <2>5, <2>6, <2>7 DEF Installs
  <2> QED BY <1>1, <1>2, <1>3, <2>1, <2>3, <2>8, ImportAgrees
<1>5. CASE Enroll
  <2>1. job.at = "move" /\ job.todo = {} /\ UNCHANGED <<live, resident, work>>
    BY <1>5 DEF Enroll, On
  <2>2. CASE Raise /\ UNCHANGED catalog
    BY <1>1, <1>2, <2>1, <2>2, ImportLooksAgrees
  <2>3. CASE catalog' = catalog \cup job.ids /\ job' = [job EXCEPT !.phase = "installed", !.at = "show"]
    <3>1. /\ job'.kind = "import" /\ job'.ids = job.ids /\ job'.phase = "installed" /\ job'.state = "run"
          /\ job'.at = "show" /\ job'.todo = {} /\ job'.base = job.base
      BY <1>1, <1>2, <2>1, <2>3 DEF Jobs
    <3>2. /\ job.phase \in {"ready", "moving"} /\ \A l \in job.ids : Has(l) /\ l \in work.moved
      BY <1>1, <1>2, <2>1 DEF Installs
    <3>3. \A l \in job.ids : l \notin job.base.names /\ job.base.dirs[l] \notin Contents /\ Has(l)'
      BY <1>1, <1>2, <1>3, <2>1, <3>2 DEF Installs
    <3>4. job.ids \subseteq catalog' /\ \A l \in Ids : work.prepared[l] # Absent => Mark(work.prepared[l])
      BY <1>1, <1>2, <2>3 DEF Installs
    <3>5. Installs'
      BY <1>1, <1>2, <2>1, <3>1, <3>2, <3>3, <3>4 DEF Installs
    <3> QED BY <1>1, <1>2, <1>3, <2>1, <2>3, <3>1, <3>5, ImportAgrees
  <2> QED BY <1>5, <2>2, <2>3 DEF Enroll
<1>6. CASE Show
  <2>1. /\ job.at \in {"show", "answer"} /\ Touch(job.ids) /\ UNCHANGED <<catalog, work>>
        /\ \/ Raise
           \/ Goto("unmark") /\ job.at = "show"
           \/ Goto("end") /\ job.at = "answer" /\ \A l \in job.ids : Works(l)
    BY <1>6 DEF Show, On
  <2>2. job.phase = "installed"
    BY <1>1, <1>2, <2>1 DEF Installs
  <2> QED BY <1>1, <2>1, <2>2, ImportLooksAgrees
<1>7. CASE Unmark
  <2>1. job.at = "unmark" /\ live' = Plain /\ Goto("end") /\ UNCHANGED <<catalog, work, resident>>
    BY <1>7 DEF Unmark, On
  <2>2. /\ \A l \in Ids : Has(l)' <=> Has(l)
        /\ \A l \in Ids \ job.ids : live'[l] = live[l]
    BY <1>2, <2>1, PlainIs DEF Has
  <2>3. /\ job'.kind = "import" /\ job'.ids = job.ids /\ job'.phase = "installed" /\ job'.state = "run"
        /\ job'.at = "end" /\ job'.todo = job.todo /\ job'.base = job.base
        /\ job.phase = "installed" /\ job.ids \subseteq catalog
    BY <1>1, <1>2, <2>1 DEF Goto, Jobs, Installs
  <2>4. \A l \in job.ids : /\ l \notin job.base.names /\ job.base.dirs[l] \notin Contents
                           /\ l \in work.moved
                           /\ Has(l)' \/ (l \notin catalog /\ resident'[l] = "none")
    BY <1>1, <1>2, <2>1, <2>2, <2>3 DEF Installs
  <2>5. \A l \in Ids : work.prepared[l] # Absent => Mark(work.prepared[l])
    BY <1>1, <1>2 DEF Installs
  <2>6. Installs'
    BY <1>1, <1>2, <2>1, <2>3, <2>4, <2>5 DEF Installs
  <2> QED BY <1>1, <1>2, <2>1, <2>2, <2>3, <2>6, ImportAgrees DEF Lib
<1>8. CASE ImportBegin
  <2>1. live' = live /\ resident' = resident /\ catalog' = catalog /\ work' = work
    BY <1>8 DEF ImportBegin, disk
  <2> QED BY <1>1, <1>8, <2>1, ImportLooksAgrees
<1> QED BY <1>4, <1>5, <1>6, <1>7, <1>8

\* The rollback of an import takes back what is its own, which is all there is.
LEMMA DisownAgrees ==
  ASSUME Types, Types', Held, Agreed, Disown \/ Remove
  PROVE  Agreed'
<1>1. job.kind = "import" /\ UNCHANGED <<up, req>>
  BY DEF Disown, Remove, Back
<1>2. /\ job.state = "back" /\ up /\ up' /\ Disks /\ Disks' /\ Installs /\ Marked /\ Imports /\ job \in Jobs
      /\ work \in Spaces /\ job.ids \subseteq Ids /\ job.todo \subseteq job.ids /\ live \in [Ids -> Places]
  <2>1. job.state \in {"inner", "back"}
    BY DEF Disown, Remove, Back
  <2> QED BY <1>1, <2>1, ImportIs DEF Types, Agreed, Disks, Held
<1>3. CASE Disown
  <2>1. PICK mine : mine = {l \in job.todo : Mine(l)}
    OBVIOUS
  <2>2. /\ live' = live /\ job.at = "unload"
        /\ \/ mine = {} /\ Undone /\ UNCHANGED catalog
           \/ /\ mine # {} /\ Unload(Least(mine)) /\ catalog' = catalog \ {Least(mine)}
              /\ job' = [job EXCEPT !.to = Least(mine), !.at = "remove"]
              /\ work' = work
    BY <1>3, <2>1 DEF Disown, Back
  <2>3. \A l \in Ids : (Owned(l) <=> Mark(live[l])) /\ Lib(l)' = Lib(l) /\ (Has(l)' <=> Has(l))
    BY <1>2, <2>2, HasIs DEF Has, Lib
  <2>4. CASE mine = {}
    <3>1. \A l \in job.ids : Has(l) => l \in catalog
      <4> SUFFICES ASSUME NEW l \in job.ids, Has(l) PROVE l \in catalog
        OBVIOUS
      <4>1. l \in job.todo
        BY <1>1, <1>2 DEF Installs
      <4>2. l \notin work.moved /\ ~Mark(live[l])
        BY <1>2, <2>1, <2>3, <2>4, <4>1 DEF Mine
      <4> QED BY <1>1, <1>2, <4>2 DEF Installs
    <3>2. Its \subseteq job.ids \cup {0} /\ job.ids \subseteq Its
      BY <1>1, ImportIs DEF Its
    <3> QED BY <1>1, <1>2, <2>2, <2>3, <2>4, <3>1, <3>2, Numbers, EndAgrees
  <2>5. CASE mine # {}
    <3>1. PICK k \in mine : k = Least(mine)
      <4>1. mine \subseteq Ids
        BY <1>2, <2>1
      <4> QED BY <2>5, <4>1, LeastIn
    <3>2. k \in job.todo /\ k \in job.ids /\ k \in Ids /\ Mine(k)
      BY <1>2, <2>1, <3>1
    <3>3. job.phase # ""
      <4>1. job.phase = "" => work.moved = {}
        <5>1. job.phase = "" => work = NoWork
          BY <1>1, ImportIs
        <5>2. NoWork.moved = {}
          BY DEF NoWork
        <5> QED BY <5>1, <5>2
      <4> QED BY <1>2, <2>3, <3>2, <4>1 DEF Mine, Marked
    <3>4. /\ catalog' = catalog \ {k} /\ resident'[k] = "none"
          /\ \A l \in Ids \ {k} : resident'[l] = resident[l]
          /\ job'.kind = "import" /\ job'.ids = job.ids /\ job'.phase = job.phase /\ job'.state = "back"
          /\ job'.at = "remove" /\ job'.to = k /\ job'.todo = job.todo /\ job'.base = job.base
      <4>1. Unload(k) /\ catalog' = catalog \ {k} /\ job' = [job EXCEPT !.to = k, !.at = "remove"]
        BY <2>2, <2>5, <3>1
      <4>2. resident'[k] = "none" /\ \A l \in Ids \ {k} : resident'[l] = resident[l]
        BY <1>2, <3>2, <4>1, UnloadIs
      <4> QED BY <1>1, <1>2, <4>1, <4>2 DEF Jobs
    <3>5. \A l \in job.ids :
            /\ l \notin job.base.names /\ job.base.dirs[l] \notin Contents
            /\ l \in catalog' \/ Has(l)' => l \in work.moved \/ Mark(live'[l])
      <4>1. \A l \in job.ids :
              /\ l \notin job.base.names /\ job.base.dirs[l] \notin Contents
              /\ l \in catalog \/ Has(l) => l \in work.moved \/ Mark(live[l])
        BY <1>1, <1>2, <3>3 DEF Installs
      <4> QED BY <1>2, <2>2, <2>3, <3>4, <4>1
    <3>6. job.phase = "installed" => \A l \in job.ids :
            /\ l \in work.moved
            /\ IF Has(l)' THEN l \in catalog' \/ l = k ELSE l \notin catalog' /\ resident'[l] = "none"
      <4> SUFFICES ASSUME job.phase = "installed", NEW l \in job.ids
                   PROVE  /\ l \in work.moved
                          /\ IF Has(l)' THEN l \in catalog' \/ l = k ELSE l \notin catalog' /\ resident'[l] = "none"
        OBVIOUS
      <4>1. /\ l \in work.moved
            /\ IF Has(l) THEN l \in catalog ELSE l \notin catalog /\ resident[l] = "none"
        BY <1>1, <1>2, <2>2 DEF Installs
      <4> QED BY <1>2, <2>3, <3>4, <4>1
    <3>7. job.phase \in {"ready", "moving"} => job.ids \cap catalog' = {}
      BY <1>1, <1>2, <3>4 DEF Installs
    <3>8. \A l \in job.ids \ job.todo : ~Has(l)' /\ l \notin catalog'
      BY <1>1, <1>2, <2>3, <3>4 DEF Installs
    <3>9. \A l \in Ids : work.prepared[l] # Absent => Mark(work.prepared[l])
      BY <1>1, <1>2 DEF Installs
    <3>10. Installs'
      BY <1>1, <1>2, <2>2, <2>5, <3>3, <3>4, <3>5, <3>6, <3>7, <3>8, <3>9 DEF Installs
    <3> QED BY <1>1, <1>2, <2>3, <3>2, <3>4, <3>10, ImportAgrees
  <2> QED BY <2>4, <2>5
<1>4. CASE Remove
  <2>1. /\ job.at = "remove" /\ live' = [live EXCEPT ![job.to] = Absent] /\ Leave(job.to)
        /\ job' = [job EXCEPT !.todo = @ \ {job.to}, !.at = "unload"] /\ UNCHANGED <<catalog, work>>
    BY <1>4 DEF Remove, Back
  <2>2. PICK k \in job.todo : k = job.to
    BY <1>1, <1>2, <2>1 DEF Types, Imported1
  <2>3. k \in job.ids /\ k \in Ids /\ job.phase # "" /\ k \notin catalog /\ resident[k] = "none"
    BY <1>1, <1>2, <2>1, <2>2 DEF Imports, Installs
  <2>4. /\ live'[k] = Absent /\ \A l \in Ids \ {k} : live'[l] = live[l]
        /\ resident'[k] = "none" /\ \A l \in Ids \ {k} : resident'[l] = resident[l]
        /\ job'.kind = "import" /\ job'.ids = job.ids /\ job'.phase = job.phase /\ job'.state = "back"
        /\ job'.at = "unload" /\ job'.todo = job.todo \ {k} /\ job'.base = job.base
    BY <1>1, <1>2, <2>1, <2>2, <2>3, LeaveIs DEF Jobs
  <2>5. ~Has(k)' /\ \A l \in Ids \ {k} : Has(l)' <=> Has(l)
    BY <2>4, Values DEF Has
  <2>6. \A l \in job.ids :
          /\ l \notin job.base.names /\ job.base.dirs[l] \notin Contents
          /\ l \in catalog \/ Has(l)' => l \in work.moved \/ Mark(live'[l])
    <3>1. \A l \in job.ids :
            /\ l \notin job.base.names /\ job.base.dirs[l] \notin Contents
            /\ l \in catalog \/ Has(l) => l \in work.moved \/ Mark(live[l])
      BY <1>1, <1>2, <2>3 DEF Installs
    <3> QED BY <1>2, <2>3, <2>4, <2>5, <3>1
  <2>7. job.phase = "installed" => \A l \in job.ids :
          /\ l \in work.moved
          /\ IF Has(l)' THEN l \in catalog ELSE l \notin catalog /\ resident'[l] = "none"
    <3> SUFFICES ASSUME job.phase = "installed", NEW l \in job.ids
                 PROVE  /\ l \in work.moved
                        /\ IF Has(l)' THEN l \in catalog ELSE l \notin catalog /\ resident'[l] = "none"
      OBVIOUS
    <3>1. /\ l \in work.moved
          /\ IF Has(l) THEN l \in catalog \/ l = k ELSE l \notin catalog /\ resident[l] = "none"
      BY <1>1, <1>2, <2>2 DEF Installs
    <3> QED BY <1>2, <2>3, <2>4, <2>5, <3>1
  <2>8. \A l \in job.ids \ job'.todo : ~Has(l)' /\ l \notin catalog
    <3>1. \A l \in job.ids \ job.todo : ~Has(l) /\ l \notin catalog
      BY <1>1, <1>2 DEF Installs
    <3> QED BY <1>2, <2>3, <2>4, <2>5, <3>1
  <2>9. /\ \A l \in Ids : work.prepared[l] # Absent => Mark(work.prepared[l])
        /\ job.phase \in {"ready", "moving"} => job.ids \cap catalog = {}
    BY <1>1, <1>2 DEF Installs
  <2>10. Installs'
    BY <1>1, <1>2, <2>1, <2>3, <2>4, <2>6, <2>7, <2>8, <2>9 DEF Installs
  <2>11. \A l \in Ids \ job.ids : Lib(l)' = Lib(l)
    BY <2>3, <2>4 DEF Lib
  <2> QED BY <1>1, <1>2, <2>1, <2>4, <2>10, <2>11, ImportAgrees
<1> QED BY <1>3, <1>4

\* A live library of a copy is registered: nobody else is about to see to it.
LEMMA CopyListed ==
  ASSUME Types, Agreed, job.kind = "copy", NEW l \in Ids \cap Its, Has(l)
  PROVE  l \in catalog
<1>1. up /\ Listed(l)
  BY CopyIs DEF Agreed, Registered
<1>2. \A c \in Clients : l \in Own(c) => req[c].op = ""
  BY DEF Agreed, Distinct
<1> QED BY <1>1, <1>2 DEF Listed, Own

\* A step of a copy that has a name keeps the others, and its own.
LEMMA CopyAgrees ==
  ASSUME Types, Types', Agreed, job.kind = "copy", up' = up, req' = req,
         job'.kind = "copy", job'.ids = job.ids, job'.to = job.to,
         \A l \in Ids \ {job.to} : Lib(l)' = Lib(l) /\ (l \in catalog' <=> l \in catalog),
         job.to \in Ids => (Has(job.to)' => job.to \in catalog'),
         Clones'
  PROVE  Agreed'
<1>1. up /\ Its' = Its
  BY CopyIs DEF Its
<1>2. Swaps' /\ Installs'
  BY DEF Swaps, Installs, Switch
<1>3. \A l \in Ids \cap (Its \cup Its') : Listed(l)'
  <2> SUFFICES ASSUME NEW l \in Ids, l \in Its PROVE Listed(l)'
    BY <1>1
  <2>1. CASE l = job.to
    BY <2>1 DEF Listed
  <2>2. CASE l # job.to
    <3>1. Has(l)' <=> Has(l)
      BY <2>2, LibIs DEF Types
    <3>2. Has(l) => l \in catalog
      BY CopyListed
    <3> QED BY <2>2, <3>1, <3>2 DEF Listed
  <2> QED BY <2>1, <2>2
<1>4. \A l \in Ids \ (Its \cup Its') : Lib(l)' = Lib(l) /\ (l \in catalog' <=> l \in catalog)
  BY DEF Its
<1> QED BY <1>1, <1>2, <1>3, <1>4, StillDistinct, TaskStepAgrees

\* A copy that ends without having changed a library or a row.
LEMMA CopyEndAgrees ==
  ASSUME Types, Types', Agreed, job.kind = "copy", up' = up, req' = req, Complete \/ Undone,
         \A l \in Ids : Lib(l)' = Lib(l), catalog' = catalog
  PROVE  Agreed'
<1>1. up /\ Disks /\ Disks'
  BY CopyIs DEF Types
<1>2. \A l \in Ids \cap Its : Has(l)' => l \in catalog'
  BY <1>1, LibIs, CopyListed
<1> QED BY <1>1, <1>2, EndAgrees

\* The name of the new library is free, and no request has it.
LEMMA CopyBeginAgrees ==
  ASSUME Types, Types', Held, Agreed, CopyBegin, Apart'
  PROVE  Agreed'
<1>1. /\ job.kind = "copy" /\ Disks /\ Disks' /\ job \in Jobs /\ up /\ catalog' = catalog /\ req' = req /\ up' = up
      /\ Touch({Id})
  <2>1. job.kind = "copy" /\ catalog' = catalog /\ req' = req /\ up' = up /\ Touch({Id})
    BY DEF CopyBegin, On
  <2> QED BY <2>1, CopyIs DEF Types
<1>2. PICK i \in Ids : i = Id /\ job.ids = {i} /\ job.to = 0
  <2>1. job.at = "begin"
    BY DEF CopyBegin, On
  <2> QED BY <1>1, <2>1, CopyIs
<1>3. \A l \in Ids : Lib(l)' = Lib(l) /\ (Has(l)' <=> Has(l))
  <2> SUFFICES ASSUME NEW l \in Ids PROVE Lib(l)' = Lib(l) /\ (Has(l)' <=> Has(l))
    OBVIOUS
  <2>1. live'[l] = live[l] \/ (live[l] = Absent /\ live'[l] = Hollow)
    BY <1>1, TouchIs
  <2> QED BY <2>1, Values DEF Lib, Library, Has
<1>4. CASE Undone
  BY <1>1, <1>3, <1>4, CopyEndAgrees
<1>5. ASSUME NEW m \in Ids \ catalog, live[m] = Absent,
             job' = [job EXCEPT !.to = m, !.at = "register"], Meet(Met({m}), "copy")
      PROVE  Agreed'
  <2>1. job'.kind = "copy" /\ job'.ids = job.ids /\ job'.to = m /\ job'.at = "register"
    BY <1>1, <1>5 DEF Jobs
  <2>2. Its = {i, 0} /\ Its' = {i, m}
    BY <1>2, <2>1 DEF Its
  <2>3. Met({m}) = {}
    <3>1. \A op \in Met({m}) : <<op, "copy">> \in spoiled'
      BY <1>5 DEF Meet
    <3>2. \A x : <<x, "copy">> \notin spoiled'
      BY DEF Apart
    <3> QED BY <3>1, <3>2
  <2>4. \A c \in Clients : req[c].op # "" => Own(c) \cap Its' = {}
    <3> SUFFICES ASSUME NEW c \in Clients, req[c].op # "" PROVE Own(c) \cap Its' = {}
      OBVIOUS
    <3>1. m \in Own(c) => req[c].op \in Met({m})
      BY DEF Met, Own
    <3>2. i \notin Own(c)
      BY <2>2 DEF Agreed, Distinct
    <3> QED BY <2>2, <2>3, <3>1, <3>2
  <2>5. \A l \in Ids \cap (Its \cup Its') : Listed(l)'
    <3>1. ~Has(m)'
      BY <1>3, <1>5, Values DEF Has
    <3>2. Has(i)' => i \in catalog'
      BY <1>1, <1>3, <2>2, CopyListed
    <3> QED BY <2>2, <3>1, <3>2, Numbers DEF Listed
  <2>6. Swaps' /\ Installs' /\ Clones'
    <3>1. Swaps' /\ Installs'
      BY <2>1 DEF Swaps, Installs, Switch
    <3>2. Clones'
      BY <1>1, <1>5, <2>1 DEF Clones
    <3> QED BY <3>1, <3>2
  <2> QED BY <1>1, <1>3, <2>4, <2>5, <2>6, TaskStepAgrees
<1> QED BY <1>4, <1>5 DEF CopyBegin

\* The other steps of a copy.
LEMMA CopyStepAgrees ==
  ASSUME Types, Types', Held, Agreed,
         CopyRegister \/ CopyPlace \/ CopyErase \/ CopyShow \/ (JobFault /\ job.kind = "copy")
  PROVE  Agreed'
<1>1. /\ job.kind = "copy" /\ req' = req /\ up' = up /\ up /\ Disks /\ Disks' /\ job \in Jobs /\ work \in Spaces
      /\ Clones /\ Copies /\ live \in [Ids -> Places]
  <2>1. job.kind = "copy" /\ req' = req /\ up' = up
    BY DEF CopyRegister, CopyPlace, CopyErase, CopyShow, JobFault, On
  <2> QED BY <2>1, CopyIs DEF Types, Held, Agreed, Disks
<1>2. job.at # "begin" => job.to \in Ids
  BY <1>1, CopyIs
<1>3. live' = live => \A l \in Ids : Lib(l)' = Lib(l) /\ (Has(l)' <=> Has(l))
  BY DEF Lib, Has
<1>4. CASE Undone /\ live' = live /\ catalog' = catalog
  BY <1>1, <1>3, <1>4, CopyEndAgrees
<1>5. ASSUME NEW s, Goto(s)
      PROVE  job'.kind = "copy" /\ job'.ids = job.ids /\ job'.to = job.to /\ job'.at = s
  BY <1>1, <1>5 DEF Goto, Jobs
<1>6. CASE catalog' = catalog \cup {job.to} /\ Goto("place") /\ live' = live /\ job.at = "register"
  <2>1. Clones'
    BY <1>5, <1>6 DEF Clones
  <2> QED BY <1>1, <1>3, <1>5, <1>6, <2>1, CopyAgrees
<1>7. CASE catalog' = catalog \ {job.to} /\ Goto("erase") /\ live' = live /\ job.at = "place"
  <2>1. Clones'
    BY <1>5, <1>7 DEF Clones
  <2>2. job.to \in Ids /\ ~Has(job.to)
    BY <1>1, <1>2, <1>7 DEF Copies
  <2>3. ~Has(job.to)'
    <3>1. PICK k \in Ids : k = job.to
      BY <2>2
    <3>2. ~Has(k)'
      BY <1>3, <1>7, <2>2, <3>1
    <3> QED BY <1>5, <1>7, <3>1, <3>2 DEF Has
  <2> QED BY <1>1, <1>3, <1>5, <1>7, <2>1, <2>3, CopyAgrees
<1>8. CASE CopyPlace /\ live[job.to] = Absent
  <2>1. /\ live' = [live EXCEPT ![job.to] = work.prepared[job.to]] /\ job.at = "place"
        /\ Goto("show") /\ catalog' = catalog
    BY <1>8 DEF CopyPlace, On
  <2>2. PICK k \in Ids : k = job.to
    BY <1>2, <2>1
  <2>3. k \in catalog /\ work.prepared[k] \in Contents
    BY <1>1, <2>1, <2>2, CopyIs DEF Clones
  <2>4. live'[k] \in Contents /\ \A l \in Ids \ {k} : live'[l] = live[l]
    BY <1>1, <2>1, <2>2, <2>3
  <2>5. Clones'
    BY <1>5, <2>1, <2>2, <2>3, <2>4 DEF Clones, Has
  <2> QED BY <1>1, <1>5, <2>1, <2>2, <2>3, <2>4, <2>5, CopyAgrees DEF Lib
<1>9. CASE CopyErase
  <2>1. /\ Undone /\ catalog' = catalog /\ job.at = "erase"
        /\ \/ live' = live
           \/ live' = [live EXCEPT ![job.to] = Absent]
    BY <1>9 DEF CopyErase, On
  <2>2. PICK k \in Ids : k = job.to
    BY <1>2, <2>1
  <2>3. ~Has(k)
    BY <1>1, <2>1, <2>2 DEF Copies, Has
  <2>4. \A l \in Ids : Lib(l)' = Lib(l)
    <3>1. CASE live' = [live EXCEPT ![k] = Absent]
      <4>1. live'[k] = Absent /\ \A l \in Ids \ {k} : live'[l] = live[l]
        BY <1>1, <3>1
      <4>2. Lib(k) = Absent /\ Lib(k)' = Absent
        BY <1>1, <2>3, <4>1, LibHas DEF Lib, Library
      <4> QED BY <4>1, <4>2 DEF Lib
    <3> QED BY <1>3, <2>1, <2>2, <3>1
  <2> QED BY <1>1, <2>1, <2>4, CopyEndAgrees
<1>10. CASE CopyShow
  <2>1. Touch({job.to}) /\ (Complete \/ Undone) /\ catalog' = catalog
    BY <1>10 DEF CopyShow
  <2>2. \A l \in Ids : Lib(l)' = Lib(l)
    <3> SUFFICES ASSUME NEW l \in Ids PROVE Lib(l)' = Lib(l)
      OBVIOUS
    <3>1. live'[l] = live[l] \/ (live[l] = Absent /\ live'[l] = Hollow)
      BY <1>1, <2>1, TouchIs
    <3> QED BY <3>1, Values DEF Lib, Library
  <2> QED BY <1>1, <2>1, <2>2, CopyEndAgrees
<1>11. CASE CopyRegister
  BY <1>4, <1>6, <1>11 DEF CopyRegister, On
<1>12. CASE CopyPlace
  BY <1>7, <1>8, <1>12 DEF CopyPlace, On
<1>13. CASE JobFault
  BY <1>1, <1>4, <1>7, <1>13 DEF JobFault
<1> QED BY <1>9, <1>10, <1>11, <1>12, <1>13

\* A task that fails, is parked, goes on or is stopped.
LEMMA HaltedAgrees ==
  ASSUME Types, Types', Held, Agreed,
         RollbackFault \/ Pause \/ Resume \/ Stop \/ (JobFault /\ job.kind # "copy")
  PROVE  Agreed'
<1>1. /\ req' = req /\ live' = live /\ catalog' = catalog /\ resident' = resident /\ work' = work /\ up' = up
  BY DEF RollbackFault, Pause, Resume, Stop, JobFault, disk
<1>2. job \in Jobs /\ job.kind \in Switch \cup {"import"}
  <2>1. job \in Jobs /\ job.state \in {"run", "inner", "back", "parked"}
    BY DEF RollbackFault, Pause, Resume, Stop, JobFault, On, Types, Tasked
  <2>2. job.kind # "none"
    BY <2>1 DEF Types, Tasked
  <2>3. job.kind = "copy" => job.state = "run" /\ job.at \in CopyAt
    BY CopyIs
  <2>4. job.kind # "copy"
    BY <2>3 DEF RollbackFault, Pause, Resume, Stop, JobFault, On, Switch
  <2> QED BY <2>1, <2>2, <2>4 DEF Jobs, Tasks
<1>3. /\ Same(job')
      /\ \/ job'.state = "parked"
         \/ job'.state = "back" /\ job'.at = "unload" /\ job'.todo = job.ids
         \/ job'.state = "inner"
         \/ job'.state = "run" /\ job'.at = "begin"
  <2>1. CASE Raise
    BY <1>2, <2>1, RaiseIs
  <2>2. CASE Restore
    BY <1>2, <2>2, RestoreIs
  <2>3. CASE job' = [job EXCEPT !.state = "parked"]
    BY <1>2, <2>3 DEF Jobs, Same
  <2>4. CASE job' = [job EXCEPT !.state = "run", !.at = "begin"]
    BY <1>2, <2>4 DEF Jobs, Same
  <2> QED BY <2>1, <2>2, <2>3, <2>4 DEF RollbackFault, Pause, Resume, Stop, JobFault, Fail
<1>4. up /\ ~(job.state = "back" /\ job.at = "remove")
  BY DEF RollbackFault, Pause, Resume, Stop, JobFault, On, Types, Tasked
<1> QED BY <1>1, <1>2, <1>3, <1>4, HaltAgrees

\* A step that changes nothing.
LEMMA StutterAgrees ==
  ASSUME Types, Types', Agreed, UNCHANGED vars
  PROVE  Agreed'
<1>1. /\ live' = live /\ catalog' = catalog /\ resident' = resident /\ up' = up
      /\ job' = job /\ work' = work /\ req' = req
  BY DEF vars
<1>2. \A l \in Ids : Calm(l)
  BY <1>1 DEF Calm, Lib
<1>3. Swaps' /\ Installs' /\ Clones'
  BY <1>1, <1>2, TaskAgrees DEF Agreed
<1>4. \A c \in Clients : Steady(c)'
  BY <1>1, <1>2, SteadyKept DEF Agreed, Calm
<1>5. Registered' /\ Distinct' /\ Down'
  BY <1>1 DEF Agreed, Registered, Listed, Has, Distinct, Own, Its, Down
<1> QED BY <1>3, <1>4, <1>5 DEF Agreed

\* Every step keeps it, as long as no task met a request and no search a rename.
LEMMA NextAgrees ==
  ASSUME Types, Types', Held, Agreed, [Next]_vars, Apart'
  PROVE  Agreed'
<1>1. CASE \E l \in Ids : Visit(l) \/ Evict(l)
  BY <1>1, LookAgrees
<1>2. CASE Requests
  <2>1. ASSUME NEW c \in Clients, NEW op \in world.requests, NEW l \in Ids, NEW m \in Ids, Ask(c, op, l, m)
        PROVE  Agreed'
    BY <2>1, AskAgrees
  <2>2. ASSUME NEW c \in Clients,
               Register(c) \/ Open(c) \/ Fill(c) \/ Load(c) \/ CreateFault(c) \/ Unregister(c) \/ Erase(c)
        PROVE  Agreed'
    BY <2>2, CreateAgrees
  <2>3. ASSUME NEW c \in Clients,
               \/ Released(c) \/ ToTrash(c) \/ Drop(c)
               \/ Rename(c) \/ Name(c) \/ NameFault(c) \/ NameBack(c) \/ NameBackFault(c)
        PROVE  Agreed'
    BY <2>3, MovesAgrees
  <2>4. ASSUME NEW c \in Clients, Write(c) PROVE Agreed'
    BY <2>4, WriteAgrees
  <2> QED BY <1>2, <2>1, <2>2, <2>3, <2>4 DEF Requests
<1>3. CASE \E kind \in Switch \cup {"import", "copy"}, ids \in SUBSET Ids : Submit(kind, ids)
  BY <1>3, SubmitAgrees DEF Tasks
<1>4. CASE Switching
  BY <1>4, SwitchLooksAgrees, SwitchMovesAgrees, FinishAgrees DEF Switching
<1>5. CASE Importing
  BY <1>5, NotesAgree, PrepareAgrees, MoveAgrees DEF Importing
<1>6. CASE Copying
  BY <1>6, CopyBeginAgrees, CopyStepAgrees DEF Copying
<1>7. CASE Undoing
  BY <1>7, SwitchBackAgrees, DisownAgrees DEF Undoing
<1>8. CASE JobFault \/ RollbackFault \/ Pause \/ Resume \/ Stop
  BY <1>8, HaltedAgrees, CopyStepAgrees
<1>9. CASE Crash
  BY <1>9, CrashAgrees
<1>10. CASE Restart
  BY <1>10, RestartAgrees
<1>11. CASE UNCHANGED vars
  BY <1>11, StutterAgrees
<1> QED BY <1>1, <1>2, <1>3, <1>4, <1>5, <1>6, <1>7, <1>8, <1>9, <1>10, <1>11 DEF Next

\* No two that must not meet met, if no request met a task and no search a rename.
LEMMA ApartIs ==
  /\ Apart => spoiled \subseteq Harmless
  /\ [Next]_vars /\ Apart' => Apart
<1>1. Apart => spoiled \subseteq Harmless
  BY DEF Apart, Harmless
<1>2. [Next]_vars /\ Apart' => Apart
  BY SpoiledGrows DEF Apart
<1> QED BY <1>1, <1>2

\* It holds as long as none did.
LEMMA AgreedAlways == Spec => [](Apart => Agreed)
<1>1. Init => (Apart => Agreed)
  BY InitAgrees
<1>2. Types /\ Types' /\ (spoiled \subseteq Harmless => Held) /\ (Apart => Agreed) /\ [Next]_vars
        => (Apart => Agreed)'
  <2> SUFFICES ASSUME Types, Types', spoiled \subseteq Harmless => Held, Apart => Agreed, [Next]_vars, Apart'
               PROVE  Agreed'
    OBVIOUS
  <2>1. Apart
    BY ApartIs
  <2> QED BY <2>1, ApartIs, NextAgrees
<1> QED BY <1>1, <1>2, TypesHold, HeldAlways, PTL DEF Spec

\* A step of a request or of a search is none of the task.
LEMMA RequestsKeepJob ==
  ASSUME Types, Requests \/ \E l \in Ids : Visit(l) \/ Evict(l)
  PROVE  job' = job
<1>1. ASSUME NEW c \in Clients, RequestStep(c) PROVE job' = job
  BY <1>1, RequestGoes DEF Types
<1>2. CASE \E l \in Ids : Visit(l) \/ Evict(l)
  BY <1>2 DEF Visit, Evict
<1>3. CASE Requests
  <2>1. PICK c \in Clients : \/ \E op \in world.requests, l, m \in Ids : Ask(c, op, l, m)
                            \/ RequestStep(c)
    BY <1>3 DEF Requests, RequestStep
  <2>2. CASE \E op \in world.requests, l, m \in Ids : Ask(c, op, l, m)
    BY <2>2 DEF Ask
  <2> QED BY <2>1, <2>2, <1>1
<1> QED BY <1>2, <1>3

\* A switch or an import is over only by completing, or at the end of its rollback.
LEMMA Ends2 ==
  ASSUME Types, [Next]_vars, job.kind \in Switch \cup {"import"}, job'.kind = "none"
  PROVE  Finish \/ (BackTidy /\ Undone) \/ (Disown /\ Undone)
<1>1. job \in Jobs /\ job.kind \notin {"none", "copy"}
  BY DEF Types, Tasked, Switch
<1>2. job' # job
  BY <1>1
<1>3. /\ \A s : ~Goto(s)
      /\ ~Raise /\ ~Restore /\ ~Fail
      /\ \A s : job' # [job EXCEPT !.state = s]
      /\ \A s, t : job' # [job EXCEPT !.state = s, !.at = t]
      /\ \A s, t : job' # [job EXCEPT !.phase = s, !.at = t]
  BY <1>1 DEF Goto, Raise, Restore, Fail, Jobs
<1>4. ~Requests /\ ~\E l \in Ids : Visit(l) \/ Evict(l)
  BY <1>2, RequestsKeepJob
<1>5. ~\E kind \in Switch \cup {"import", "copy"}, ids \in SUBSET Ids : Submit(kind, ids)
  BY <1>1 DEF Submit
<1>6. CASE Switching
  <2>1. ~(Begin \/ Target \/ Bind \/ Recheck \/ Release \/ Check \/ Seal)
    BY <1>3, SwitchLooks DEF SwitchGoes
  <2>2. ~Cut /\ ~Note /\ ~MoveOut /\ ~MoveIn
    BY <1>3 DEF Cut, Note, MoveOut, MoveIn
  <2>3. ~Apply
    BY <1>3 DEF Apply
  <2> QED BY <1>6, <2>1, <2>2, <2>3 DEF Switching
<1>7. ~Importing
  <2>1. ~ImportBegin
    <3>1. ASSUME NEW s, job' = [job EXCEPT !.todo = job.ids, !.at = s] PROVE FALSE
      BY <1>1, <3>1 DEF Jobs
    <3> QED BY <3>1 DEF ImportBegin
  <2>2. ~Moved
    <3>1. ASSUME NEW s, job' = [job EXCEPT !.phase = "moving", !.todo = s, !.at = "move"] PROVE FALSE
      BY <1>1, <3>1 DEF Jobs
    <3> QED BY <3>1 DEF Moved
  <2>3. ~Prepare /\ ~Move /\ ~Enroll /\ ~Show /\ ~Unmark
    BY <1>3 DEF Prepare, Move, Enroll, Show, Unmark
  <2> QED BY <2>1, <2>2, <2>3 DEF Importing
<1>8. ~Copying
  BY <1>1 DEF Copying, CopyBegin, CopyRegister, CopyPlace, CopyErase, CopyShow, On
<1>9. CASE Undoing
  <2>1. ~BackUnload /\ ~BackAway /\ ~BackReturn
    BY <1>3 DEF BackUnload, BackAway, BackReturn
  <2>2. BackTidy => Undone
    <3>1. job' # [job EXCEPT !.state = "back", !.at = "unload", !.phase = "rolled_back"]
      BY <1>1 DEF Jobs
    <3> QED BY <1>3, <3>1 DEF BackTidy
  <2>3. Disown => Undone
    <3>1. ASSUME NEW s, job' = [job EXCEPT !.to = s, !.at = "remove"] PROVE FALSE
      BY <1>1, <3>1 DEF Jobs
    <3> QED BY <3>1 DEF Disown
  <2>4. ~Remove
    <3>1. ASSUME NEW s, job' = [job EXCEPT !.todo = s, !.at = "unload"] PROVE FALSE
      BY <1>1, <3>1 DEF Jobs
    <3> QED BY <3>1 DEF Remove
  <2> QED BY <1>9, <2>1, <2>2, <2>3, <2>4 DEF Undoing
<1>10. ~(JobFault \/ RollbackFault \/ Pause \/ Resume \/ Stop)
  <2>1. ~JobFault
    BY <1>1, <1>3 DEF JobFault
  <2>2. ~RollbackFault /\ ~Stop
    BY <1>3 DEF RollbackFault, Stop
  <2>3. ~Pause /\ ~Resume
    BY <1>3 DEF Pause, Resume
  <2> QED BY <2>1, <2>2, <2>3
<1>11. ~Crash /\ ~Restart /\ ~UNCHANGED vars
  BY <1>1, <1>2, <1>3 DEF Crash, Restart, vars
<1> QED BY <1>4, <1>5, <1>6, <1>7, <1>8, <1>9, <1>10, <1>11 DEF Next

\* A switch that is over has all of its library changed or none of it.
LEMMA SwitchIsWhole ==
  ASSUME Types, Types', Held, Agreed, [Next]_vars, job.kind \in Switch, job'.kind = "none"
  PROVE  Library(live'[Id]) = IF job'.end = "completed"
                              THEN [job.base.dirs[Id] EXCEPT !.has = @ \cup {"task"}]
                              ELSE Library(job.base.dirs[Id])
<1>1. PICK i \in Ids : Id = i
  BY SwitchIs
<1>2. Finish \/ (BackTidy /\ Undone)
  <2>1. ~Disown
    BY DEF Disown, Back, Switch
  <2> QED BY <2>1, Ends2
<1>3. Disks /\ Disks' /\ Swaps /\ Switches /\ Marked /\ job \in Jobs
  BY DEF Types, Tasked, Held, Agreed
<1>4. /\ Has(Id) <=> Has(i)
      /\ live[Id] = live[i] /\ Lib(Id) = Lib(i)
  BY <1>1 DEF Has, Lib
<1>5. CASE Finish
  <2>1. job.state = "run" /\ job.at = "end" /\ Complete /\ live' = Plain
    BY <1>5 DEF Finish, On
  <2>2. job'.end = "completed"
    BY <2>1 DEF Complete, NoJob
  <2>3. live[i] = Plus(Old) /\ Old \in Contents
    BY <1>3, <1>4, <2>1 DEF Swaps, Switches
  <2>4. live'[i] = live[i]
    <3>1. ~Mark(live[i])
      BY <1>3 DEF Marked, Switch
    <3>2. ~Owned(i)
      BY <1>3, <3>1, HasIs
    <3> QED BY <1>3, <2>1, <3>2, PlainIs
  <2>5. Library(live[i]) = live[i] /\ [Old EXCEPT !.has = @ \cup {"task"}] = Plus(Old)
    BY <2>3, PlusIs
  <2> QED BY <1>1, <2>2, <2>3, <2>4, <2>5 DEF Old
<1>6. CASE BackTidy /\ Undone
  <2>1. job'.end = "undone"
    BY <1>6 DEF Undone, NoJob
  <2>2. work.previous = Absent
    BY <1>3, <1>6 DEF Switches, BackTidy, Back
  <2>3. Library(live[i]) = Library(Old)
    BY <1>3, <1>4, <2>2 DEF Swaps, Lib
  <2>4. live'[i] = live[i] \/ (live[i] = Absent /\ live'[i] = Hollow)
    <3>1. CASE Touch({i})
      BY <1>3, <3>1, TouchIs
    <3> QED BY <1>1, <1>6, <3>1 DEF BackTidy
  <2>5. Library(live'[i]) = Library(live[i])
    BY <2>4, Values DEF Library
  <2> QED BY <1>1, <2>1, <2>3, <2>5 DEF Old
<1> QED BY <1>2, <1>5, <1>6

\* An import that is over has put all of its packages in place or none.
LEMMA ImportIsWhole ==
  ASSUME Types, Types', Held, Agreed, [Next]_vars, job.kind = "import", job'.kind = "none"
  PROVE  IF job'.end = "completed"
         THEN job.ids \subseteq catalog' /\ \A l \in job.ids : Full(l)'
         ELSE \A l \in job.ids : /\ Library(live'[l]) = Library(job.base.dirs[l])
                                 /\ l \in catalog' <=> l \in job.base.names
<1>1. Finish \/ (Disown /\ Undone)
  <2>1. ~BackTidy
    BY DEF BackTidy, Back, Switch
  <2> QED BY <2>1, Ends2
<1>2. /\ Disks /\ Disks' /\ Installs /\ job.ids \subseteq Ids /\ job.todo \subseteq job.ids
      /\ job.base \in Bases
  BY ImportIs DEF Types, Tasked, Agreed
<1>3. CASE Finish
  <2>1. job.state = "run" /\ job.at = "end" /\ Complete /\ live' = Plain /\ catalog' = catalog
    BY <1>3 DEF Finish, On
  <2>2. job'.end = "completed"
    BY <2>1 DEF Complete, NoJob
  <2>3. job.ids \subseteq catalog /\ \A l \in job.ids : Has(l)
    BY <1>2, <2>1 DEF Installs
  <2>4. \A l \in job.ids : live'[l] \in Contents
    BY <1>2, <2>1, <2>3, PlainIs DEF Has
  <2>5. \A l \in job.ids : Full(l)'
    BY <1>2, <2>4, Values DEF Full
  <2> QED BY <2>1, <2>2, <2>3, <2>5
<1>4. CASE Disown /\ Undone
  <2>1. /\ job'.end = "undone" /\ live' = live
        /\ job.kind = "import" /\ job.state = "back"
    <3>1. job'.end = "undone"
      BY <1>4 DEF Undone, NoJob
    <3>2. job.state \in {"inner", "back"}
      BY <1>4 DEF Disown, Back
    <3> QED BY <1>4, <3>1, <3>2, ImportIs DEF Disown
  <2>2. catalog' = catalog /\ \A l \in job.todo : ~Mine(l)
    <3>1. job' # [job EXCEPT !.to = Least({l \in job.todo : Mine(l)}), !.at = "remove"]
      BY ImportIs DEF Jobs
    <3> QED BY <1>4, <3>1 DEF Disown
  <2>3. \A l \in Ids : (Has(l) => Lib(l) = live[l]) /\ (~Has(l) => Lib(l) = Absent) /\ (Owned(l) <=> Mark(live[l]))
    BY <1>2, LibHas, HasIs
  <2> SUFFICES ASSUME NEW l \in job.ids
               PROVE  Lib(l) = Library(job.base.dirs[l]) /\ (l \in catalog <=> l \in job.base.names)
    BY <2>1, <2>2 DEF Lib
  <2>4. CASE job.phase = ""
    BY <1>2, <2>4 DEF Installs
  <2>5. CASE job.phase # ""
    <3>1. l \notin job.base.names /\ job.base.dirs[l] \notin Contents
      BY <1>2, <2>5 DEF Installs
    <3>2. Library(job.base.dirs[l]) = Absent
      <4>1. job.base.dirs[l] \in Places
        BY <1>2 DEF Bases
      <4> QED BY <3>1, <4>1, Values DEF Library
    <3>3. ~Has(l) /\ l \notin catalog
      <4>1. CASE l \in job.todo
        <5>1. l \notin work.moved /\ ~Mark(live[l])
          BY <1>2, <2>2, <2>3, <4>1 DEF Mine
        <5> QED BY <1>2, <2>5, <5>1 DEF Installs
      <4>2. CASE l \notin job.todo
        BY <1>2, <2>1, <4>2 DEF Installs
      <4> QED BY <4>1, <4>2
    <3> QED BY <1>2, <2>3, <3>1, <3>2, <3>3
  <2> QED BY <2>4, <2>5
<1> QED BY <1>1, <1>3, <1>4

\* No task, once over, has done half of its work: a switch leaves its library, edits of others
\* included, all changed when it completed and as it was when it was rolled back, and an import
\* leaves all its packages or none, whatever failed, crashed, was paused, resumed or stopped.
THEOREM NothingHalfDone == Spec => AllOrNothing
<1>1. Types /\ Types' /\ (spoiled \subseteq Harmless => Held) /\ (Apart => Agreed) /\ [Next]_vars
        => [job.kind \in Switch /\ job'.kind = "none" /\ Apart =>
              Library(live'[Id]) = IF job'.end = "completed"
                                   THEN [job.base.dirs[Id] EXCEPT !.has = @ \cup {"task"}]
                                   ELSE Library(job.base.dirs[Id])]_vars
  BY ApartIs, SwitchIsWhole
<1>2. Types /\ Types' /\ (spoiled \subseteq Harmless => Held) /\ (Apart => Agreed) /\ [Next]_vars
        => [job.kind = "import" /\ job'.kind = "none" /\ Apart =>
              IF job'.end = "completed"
              THEN job.ids \subseteq catalog' /\ \A l \in job.ids : Full(l)'
              ELSE \A l \in job.ids : /\ Library(live'[l]) = Library(job.base.dirs[l])
                                      /\ l \in catalog' <=> l \in job.base.names]_vars
  BY ApartIs, ImportIsWhole
<1> QED BY <1>1, <1>2, TypesHold, HeldAlways, AgreedAlways, PTL DEF Spec, AllOrNothing, WholeSwitch, AllOrNone

\* The task is to bring a library under this id.
Due(l) == \/ job.kind \in Switch \cup {"import"} /\ l \in job.ids
          \/ job.kind = "copy" /\ l = job.to /\ job.at = "place"

\* An id that nothing happens to stays covered, if whoever was to see to it still is.
LEMMA CoveredKept ==
  ASSUME Types, Types', NEW l \in Ids, Covered(l),
         Lib(l)' = Lib(l), l \in catalog' <=> l \in catalog,
         \A d \in Clients : l \in Own(d) => req'[d] = req[d],
         job' = job \/ ~Due(l)
  PROVE  Covered(l)'
<1>1. (Has(l)' <=> Has(l)) /\ \A d \in Clients : req[d].id = l => l \in Own(d)
  BY LibIs DEF Types, Own
<1> QED BY <1>1 DEF Covered, Due

\* A request goes on to fill what nothing happens to.
LEMMA FillingKept ==
  ASSUME Types, Types', NEW c \in Clients, Filling(c), req'[c] = req[c] \/ req'[c] = NoReq,
         \A l \in Ids \cap Own(c) : Lib(l)' = Lib(l) /\ (l \in catalog' <=> l \in catalog)
  PROVE  Filling(c)'
<1>1. CASE req'[c] = NoReq
  <2>1. req'[c].op = ""
    BY <1>1, NoneIs
  <2> QED BY <2>1 DEF Filling, Has
<1>2. CASE req'[c] = req[c] /\ req[c].op # ""
  <2>1. req[c].id \in Ids /\ req[c].to \in Ids
    BY <1>2, ReqIs DEF Types
  <2>2. /\ Has(req[c].id)' <=> live'[req[c].id] \in Contents
        /\ Has(req[c].to)' <=> live'[req[c].to] \in Contents
    BY <1>2 DEF Has
  <2>3. \A l \in Ids \cap Own(c) : (live'[l] \in Contents <=> live[l] \in Contents) /\ (l \in catalog' <=> l \in catalog)
    BY LibIs DEF Has, Types
  <2> QED BY <1>2, <2>1, <2>2, <2>3 DEF Filling, Has, Own
<1>3. CASE req'[c] = req[c] /\ req[c].op = ""
  BY <1>3 DEF Filling
<1> QED BY <1>1, <1>2, <1>3

\* A request alone answers for its ids.
LEMMA OwnCovered ==
  ASSUME Types, Agreed, Alone, Whole, NEW c \in Clients, req[c].op # "", NEW l \in Ids \cap Own(c),
         l \in catalog, ~Has(l)
  PROVE  /\ req[c].id = l
         /\ \/ req[c].op = "create" /\ req[c].at \in {"open", "fill", "unregister"}
            \/ req[c].op = "delete" /\ req[c].at = "drop"
            \/ req[c].op = "rename" /\ req[c].at \in {"name", "back"}
<1>1. l \notin Its
  BY DEF Agreed, Distinct
<1>2. \A d \in Clients : d # c /\ req[d].id = l => req[d].op = ""
  BY DEF Alone, Own
<1>3. Covered(l)
  BY DEF Whole
<1> QED BY <1>1, <1>2, <1>3 DEF Covered, Its

\* A step of a request: what is not its own keeps still.
LEMMA RequestWhole ==
  ASSUME Types, Types', Agreed, Alone, Whole, NEW c \in Clients, req[c].op # "",
         UNCHANGED <<up, job, work>>,
         \A d \in Clients \ {c} : req'[d] = req[d],
         \A l \in Ids \ Own(c) : live'[l] = live[l] /\ (l \in catalog' <=> l \in catalog),
         \A l \in Ids \cap Own(c) : Covered(l)',
         Filling(c)'
  PROVE  Whole'
<1>1. \A l \in Ids \ Own(c) : Lib(l)' = Lib(l) /\ (l \in catalog' <=> l \in catalog)
  BY DEF Lib
<1>2. \A d \in Clients : Filling(d)'
  <2> SUFFICES ASSUME NEW d \in Clients \ {c} PROVE Filling(d)'
    OBVIOUS
  <2>1. CASE req[d].op # ""
    <3>1. Own(d) \cap Own(c) = {}
      BY <2>1 DEF Alone
    <3> QED BY <1>1, <3>1, FillingKept DEF Whole
  <2>2. CASE req[d].op = ""
    <3>1. req[d] = NoReq
      BY <2>2 DEF Types, Requested, Placed
    <3> QED BY <3>1, NoneIs DEF Filling
  <2> QED BY <2>1, <2>2
<1>3. \A l \in Ids : Covered(l)'
  <2> SUFFICES ASSUME NEW l \in Ids \ Own(c) PROVE Covered(l)'
    OBVIOUS
  <2> QED BY <1>1, CoveredKept DEF Whole
<1>4. up' /\ Based'
  BY DEF Whole, Based
<1> QED BY <1>2, <1>3, <1>4 DEF Whole

\* A step of a request to create keeps it.
LEMMA CreateWhole ==
  ASSUME Types, Types', Held, Agreed, Whole, NEW c \in Clients,
         Register(c) \/ Open(c) \/ Fill(c) \/ Load(c) \/ CreateFault(c) \/ Unregister(c) \/ Erase(c)
  PROVE  Whole'
<1>0. PICK i : req[c].id = i
  OBVIOUS
<1>1. /\ i \in Ids /\ req[c].op = "create" /\ UNCHANGED <<job, work>>
      /\ \A l \in Ids \ {i} : live'[l] = live[l] /\ resident'[l] = resident[l]
      /\ \A d \in Clients \ {c} : req'[d] = req[d]
      /\ \/ req'[c] = NoReq
         \/ req'[c].op = "create" /\ req'[c].id = i /\ req'[c].to = req[c].to
  BY <1>0, CreateShapes
<1>2. /\ Disks /\ Disks' /\ req \in [Clients -> Reqs] /\ Alone /\ Creates /\ up' = up
      /\ Own(c) = {i} /\ req[c] \in Reqs
  <2>1. up' = up
    BY <1>0 DEF Register, Open, Fill, Load, CreateFault, Unregister, Erase
  <2> QED BY <1>0, <1>1, <2>1 DEF Types, Requested, Held, Agreed, Steady, Own
<1>3. \A l \in Ids \ {i} : l \in catalog' <=> l \in catalog
  BY <1>0 DEF Register, Open, Fill, Load, CreateFault, Unregister, Erase, disk
<1>4. ASSUME NEW s, Next2(c, s) PROVE req'[c].op = "create" /\ req'[c].id = i /\ req'[c].at = s
  BY <1>0, <1>1, <1>2, <1>4 DEF Next2, Reqs
<1>5. ASSUME Ends(c) PROVE req'[c] = NoReq
  BY <1>2, <1>5 DEF Ends
<1>6. i \in catalog /\ ~Has(i) => req[c].at \in {"open", "fill", "unregister"}
  BY <1>1, <1>2, OwnCovered
<1>7. ASSUME i \notin catalog' \/ Has(i)' PROVE Covered(i)'
  BY <1>7 DEF Covered
<1>8. ASSUME NEW s \in {"open", "fill", "unregister"}, Next2(c, s) PROVE Covered(i)' /\ Filling(c)'
  BY <1>4, <1>8 DEF Covered, Filling
<1>9. ASSUME req'[c] = NoReq PROVE Filling(c)'
  BY <1>9, NoneIs DEF Filling, Has
<1>10. Covered(i)' /\ Filling(c)'
  <2>1. CASE Register(c)
    <3>1. ~Has(i) /\ live' = live /\ req[c].at = "register"
      BY <1>0, <1>1, <2>1 DEF Register, At, Held, Creates
    <3>2. i \notin catalog
      BY <1>6, <3>1
    <3>3. Next2(c, "open")
      BY <1>0, <2>1, <3>2 DEF Register
    <3> QED BY <1>8, <3>3
  <2>2. CASE Open(c)
    BY <1>8, <2>2 DEF Open
  <2>3. CASE CreateFault(c)
    BY <1>8, <2>3 DEF CreateFault
  <2>4. CASE Fill(c)
    <3>1. CASE Next2(c, "unregister")
      BY <1>8, <3>1
    <3>2. CASE live' = [live EXCEPT ![i] = New(born + 1)] /\ Next2(c, "load") /\ born < MaxBorn
      <4>1. born + 1 \in Births
        BY <1>2, <3>2, Numbers DEF Disks, Births
      <4>2. live'[i] = New(born + 1) /\ New(born + 1) \in Contents
        BY <1>1, <1>2, <3>2, <4>1, Values DEF Disks
      <4>3. req'[c].op = "create" /\ req'[c].id = i /\ req'[c].at = "load"
        BY <1>4, <3>2
      <4> QED BY <1>7, <4>2, <4>3 DEF Filling, Has
    <3> QED BY <1>0, <2>4, <3>1, <3>2 DEF Fill
  <2>5. CASE Load(c)
    <3>1. Has(i)
      BY <1>0, <1>1, <2>5 DEF Whole, Filling, Load, At
    <3>2. Touch({i})
      BY <1>0, <2>5 DEF Load
    <3>3. Has(i)'
      BY <1>1, <1>2, <3>1, <3>2, TouchIs, Values DEF Has
    <3>4. Ends(c) \/ Next2(c, "unregister")
      BY <2>5 DEF Load
    <3> QED BY <1>5, <1>7, <1>8, <1>9, <3>3, <3>4
  <2>6. CASE Unregister(c)
    <3>1. i \notin catalog' /\ Next2(c, "erase")
      BY <1>0, <2>6 DEF Unregister
    <3>2. req'[c].op = "create" /\ req'[c].id = i /\ req'[c].at = "erase"
      BY <1>4, <3>1
    <3> QED BY <1>7, <3>1, <3>2 DEF Filling
  <2>7. CASE Erase(c)
    <3>1. catalog' = catalog /\ Ends(c) /\ req[c].at = "erase"
      BY <2>7 DEF Erase, At
    <3>2. i \notin catalog
      BY <1>0, <1>1, <3>1 DEF Whole, Filling
    <3> QED BY <1>5, <1>7, <1>9, <3>1, <3>2
  <2> QED BY <2>1, <2>2, <2>3, <2>4, <2>5, <2>6, <2>7
<1> QED BY <1>1, <1>2, <1>3, <1>10, RequestWhole

\* So do an edit, a search and the sweeper.
LEMMA LookWhole ==
  ASSUME Types, Types', Held, Agreed, Whole,
         (\E c \in Clients : Write(c)) \/ \E k \in Ids : Visit(k) \/ Evict(k)
  PROVE  Whole'
<1>1. CASE \E c \in Clients : Write(c)
  <2>1. PICK c \in Clients : Write(c)
    BY <1>1
  <2>2. PICK i : req[c].id = i
    OBVIOUS
  <2>3. /\ SameLibs /\ catalog' = catalog /\ UNCHANGED <<up, job, work>>
        /\ \A d \in Clients \ {c} : req'[d] = req[d]
        /\ req'[c] = NoReq /\ req[c].op = "edit"
    <3>1. up' = up /\ req[c].op = "edit"
      BY <2>1 DEF Write, At
    <3> QED BY <2>1, <3>1, WriteShapes
  <2>4. /\ Disks /\ Alone /\ i \in Ids /\ Own(c) = {i}
    BY <2>2, <2>3, ReqIs DEF Types, Held, Agreed, Steady, Own
  <2>5. \A l \in Ids \ {i} : live'[l] = live[l]
    <3>1. CASE Touch({i})
      BY <2>4, <3>1, TouchIs
    <3>2. CASE live' = [live EXCEPT ![i].has = @ \cup {"edit"}]
      BY <2>4, <3>2 DEF Disks
    <3> QED BY <2>1, <2>2, <3>1, <3>2 DEF Write
  <2>6. Covered(i)'
    <3>1. i \in catalog => Has(i)
      BY <2>3, <2>4, OwnCovered
    <3> QED BY <2>3, <2>4, <3>1 DEF Covered, SameLibs, SameAt
  <2>7. Filling(c)'
    BY <2>3, NoneIs DEF Filling, Has
  <2> QED BY <2>3, <2>4, <2>5, <2>6, <2>7, RequestWhole
<1>2. CASE \E k \in Ids : Visit(k) \/ Evict(k)
  <2>1. PICK k \in Ids : Visit(k) \/ Evict(k)
    BY <1>2
  <2>2. Disks /\ UNCHANGED <<catalog, job, work, up, req>>
    BY <2>1 DEF Types, Visit, Evict, disk
  <2>3. \A l \in Ids : Lib(l)' = Lib(l)
    <3>1. CASE Touch({k})
      BY <2>2, <3>1, TouchIs, Values DEF Lib, Library
    <3>2. CASE live' = live
      BY <3>2 DEF Lib
    <3> QED BY <2>1, <3>1, <3>2 DEF Visit, Evict, disk
  <2>4. (\A l \in Ids : Covered(l)') /\ \A c \in Clients : Filling(c)'
    BY <2>2, <2>3, CoveredKept, FillingKept DEF Whole
  <2>5. up' /\ Based'
    BY <2>2 DEF Whole, Based
  <2> QED BY <2>4, <2>5 DEF Whole
<1> QED BY <1>1, <1>2

\* A step of a request to delete or to rename keeps it, unless a search got in the way of the
\* undoing of a rename or the undoing failed.
LEMMA MovesWhole ==
  ASSUME Types, Types', Held, Agreed, Whole, NEW c \in Clients, spoiled' = {},
         \/ Released(c) \/ ToTrash(c) \/ Drop(c)
         \/ Rename(c) \/ Name(c) \/ NameFault(c) \/ NameBack(c) \/ NameBackFault(c)
  PROVE  Whole'
<1>0. PICK i : \E m : req[c].id = i /\ req[c].to = m
  OBVIOUS
<1>00. PICK m : req[c].id = i /\ req[c].to = m
  BY <1>0
<1>1. /\ i \in Ids /\ m \in Ids /\ req[c].op \in {"delete", "rename"} /\ UNCHANGED <<job, work>>
      /\ \A l \in Ids \ {i, m} : live'[l] = live[l] /\ resident'[l] = resident[l]
      /\ \A d \in Clients \ {c} : req'[d] = req[d]
      /\ req'[c] = NoReq \/ (req'[c].op = req[c].op /\ req'[c].id = i /\ req'[c].to = m)
  BY <1>00, MovesShapes
<1>2. /\ Disks /\ Disks' /\ req \in [Clients -> Reqs] /\ Alone /\ Steady(c) /\ up' = up
      /\ Own(c) = {i, m} /\ req[c] \in Reqs /\ Filling(c)
  <2>1. up' = up
    BY DEF Released, ToTrash, Drop, Rename, Name, NameFault, NameBack, NameBackFault
  <2> QED BY <1>00, <1>1, <2>1 DEF Types, Requested, Held, Agreed, Whole, Own
<1>3. \A l \in Ids \ {i, m} : l \in catalog' <=> l \in catalog
  BY <1>00 DEF Released, ToTrash, Drop, Rename, Name, NameFault, NameBack, NameBackFault, disk
<1>4. ASSUME NEW s, Next2(c, s)
      PROVE  req'[c].op = req[c].op /\ req'[c].id = i /\ req'[c].at = s /\ req'[c].to = m
  BY <1>00, <1>2, <1>4 DEF Next2, Reqs
<1>5. ASSUME Ends(c) PROVE req'[c] = NoReq
  BY <1>2, <1>5 DEF Ends
<1>6. ASSUME req'[c] = NoReq PROVE Filling(c)'
  BY <1>6, NoneIs DEF Filling, Has
<1>7. /\ req[c].op = "delete" => m = i
      /\ req[c].op = "rename" => /\ i \in catalog /\ m \notin catalog
                                 /\ req[c].at \in {"unload", "move"} => ~Has(m)
                                 /\ req[c].at \in {"name", "back"} => ~Has(i) /\ Has(m)
  BY <1>00, <1>2 DEF Steady, Filling
<1>8. \A l \in Ids : l \notin catalog' \/ Has(l)' => Covered(l)'
  BY DEF Covered
<1>9. /\ i \in catalog /\ ~Has(i) =>
           (req[c].op = "delete" /\ req[c].at = "drop") \/ (req[c].op = "rename" /\ req[c].at \in {"name", "back"})
      /\ m \in catalog /\ ~Has(m) =>
           (req[c].op = "delete" /\ req[c].at = "drop") \/ (req[c].op = "rename" /\ req[c].at \in {"name", "back"})
  BY <1>1, <1>2, OwnCovered
<1>10. ASSUME UNCHANGED live PROVE \A l \in Ids : Has(l)' <=> Has(l)
  BY <1>10 DEF Has
<1>11. ASSUME req'[c].op = "delete" PROVE Filling(c)'
  BY <1>11 DEF Filling
<1>12. Covered(i)' /\ Covered(m)' /\ Filling(c)'
  <2>1. CASE Released(c)
    <3>1. live' = live /\ catalog' = catalog /\ Next2(c, "move") /\ req[c].at = "unload"
      BY <2>1 DEF Released, disk
    <3>2. req'[c].op = req[c].op /\ req'[c].id = i /\ req'[c].at = "move" /\ req'[c].to = m
      BY <1>4, <3>1
    <3>3. Filling(c)'
      BY <1>1, <3>2 DEF Filling
    <3> QED BY <1>1, <1>8, <1>9, <1>10, <3>1, <3>3
  <2>2. CASE ToTrash(c)
    <3>1. req[c].op = "delete" /\ req[c].at = "move" /\ m = i /\ catalog' = catalog
      BY <1>7, <2>2 DEF ToTrash, At
    <3>2. CASE live[i] = Absent /\ Ends(c) /\ live' = live
      <4>1. ~Has(i) /\ req'[c] = NoReq
        BY <1>5, <3>2, Values DEF Has
      <4>2. i \notin catalog
        BY <1>9, <3>1, <4>1
      <4> QED BY <1>1, <1>6, <1>8, <3>1, <4>1, <4>2
    <3>3. CASE Next2(c, "drop")
      <4>1. req'[c].op = "delete" /\ req'[c].id = i /\ req'[c].at = "drop"
        BY <1>4, <3>1, <3>3
      <4>2. Covered(i)'
        BY <4>1 DEF Covered
      <4> QED BY <1>11, <3>1, <4>1, <4>2
    <3> QED BY <1>00, <2>2, <3>2, <3>3 DEF ToTrash
  <2>3. CASE Drop(c)
    <3>1. req[c].op = "delete" /\ m = i /\ catalog' = catalog \ {i} /\ req'[c] = NoReq
      BY <1>00, <1>5, <1>7, <2>3 DEF Drop, At
    <3> QED BY <1>1, <1>6, <1>8, <3>1
  <2>4. CASE Rename(c)
    <3>1. req[c].op = "rename" /\ req[c].at = "move" /\ catalog' = catalog
      BY <2>4 DEF Rename, At
    <3>2. Has(i) /\ i \in catalog /\ m \notin catalog
      BY <1>7, <1>9, <3>1
    <3>3. CASE live' = live /\ Ends(c)
      BY <1>1, <1>5, <1>6, <1>8, <1>10, <3>1, <3>2, <3>3
    <3>4. CASE live' = [live EXCEPT ![m] = live[i], ![i] = Absent] /\ Next2(c, "name")
      <4>1. req'[c].op = "rename" /\ req'[c].id = i /\ req'[c].at = "name" /\ req'[c].to = m
        BY <1>4, <3>1, <3>4
      <4>2. Covered(i)'
        BY <4>1 DEF Covered
      <4>3. live'[m] = live[i]
        BY <1>1, <1>2, <3>2, <3>4, RenamedIs
      <4>4. Filling(c)'
        BY <3>2, <4>1, <4>3 DEF Filling, Has
      <4> QED BY <1>1, <1>8, <3>1, <3>2, <4>2, <4>4
    <3> QED BY <1>00, <2>4, <3>3, <3>4 DEF Rename
  <2>5. CASE Name(c)
    <3>1. req[c].op = "rename" /\ req[c].at = "name" /\ live' = live
      BY <2>5 DEF Name, At
    <3>2. catalog' = (catalog \ {i}) \cup {m} /\ Ends(c) /\ i # m
      BY <1>00, <1>7, <2>5, <3>1 DEF Name
    <3> QED BY <1>1, <1>5, <1>6, <1>7, <1>8, <1>10, <3>1, <3>2
  <2>6. CASE NameFault(c)
    <3>1. req[c].op = "rename" /\ req[c].at = "name" /\ live' = live /\ catalog' = catalog /\ Next2(c, "back")
      BY <2>6 DEF NameFault, At, disk
    <3>2. req'[c].op = "rename" /\ req'[c].id = i /\ req'[c].at = "back" /\ req'[c].to = m
      BY <1>4, <3>1
    <3>3. Covered(i)'
      BY <3>2 DEF Covered
    <3>4. Has(m)'
      BY <1>1, <1>7, <1>10, <3>1
    <3>5. Filling(c)'
      BY <3>2, <3>4 DEF Filling, Has
    <3> QED BY <1>1, <1>8, <3>3, <3>4, <3>5
  <2>7. CASE NameBack(c)
    <3>1. /\ req[c].op = "rename" /\ req[c].at = "back" /\ catalog' = catalog /\ req'[c] = NoReq
          /\ Meet(IF live[i] = Hollow THEN {"search"} ELSE {}, "rename")
      BY <1>00, <1>5, <2>7 DEF NameBack, At
    <3>2. Has(m) /\ ~Has(i) /\ m \notin catalog
      BY <1>7, <3>1
    <3>3. live[i] = Absent
      <4>1. live[i] # Hollow
        BY <3>1 DEF Meet
      <4> QED BY <1>1, <1>2, <3>2, <4>1 DEF Has, Places, Disks
    <3>4. live' = [live EXCEPT ![i] = live[m], ![m] = Absent]
      BY <1>00, <2>7, <3>2, <3>3, Values DEF NameBack, Has
    <3>5. Has(i)'
      BY <1>1, <1>2, <3>2, <3>3, <3>4, Values DEF Has, Disks
    <3> QED BY <1>1, <1>6, <1>8, <3>1, <3>2, <3>5
  <2>8. CASE NameBackFault(c)
    BY <2>8 DEF NameBackFault, Meet
  <2> QED BY <2>1, <2>2, <2>3, <2>4, <2>5, <2>6, <2>7, <2>8
<1>13. req[c].op # ""
  BY <1>1
<1> QED BY <1>1, <1>2, <1>3, <1>12, <1>13, RequestWhole

\* A request that begins keeps it.
LEMMA AskWhole ==
  ASSUME Types, Types', Whole, NEW c \in Clients, NEW op \in world.requests,
         NEW k \in Ids, NEW m \in Ids, Ask(c, op, k, m)
  PROVE  Whole'
<1>1. /\ req \in [Clients -> Reqs] /\ UNCHANGED <<live, catalog, up, job>> /\ req[c] = NoReq
  BY DEF Types, Requested, Ask, disk
<1>2. PICK s \in {"register", "unload", "write"} : Begins(c, op, k, m, s)
  <2>1. op \in {"create", "delete", "rename", "edit"}
    BY KnowledgeAssumption DEF Types, Disks
  <2> QED BY <2>1 DEF Ask
<1>3. /\ req'[c] = [op |-> op, id |-> k, to |-> m, at |-> s]
      /\ \A d \in Clients \ {c} : req'[d] = req[d]
  BY <1>1, <1>2 DEF Begins
<1>4. \A l \in Ids : Lib(l)' = Lib(l) /\ (Has(l)' <=> Has(l))
  BY <1>1 DEF Lib, Has
<1>5. \A l \in Ids : Covered(l)'
  <2> SUFFICES ASSUME NEW l \in Ids, l \in catalog, ~Has(l), Covered(l) PROVE Covered(l)'
    BY <1>1, <1>4 DEF Covered, Whole
  <2>1. \A d \in Clients : req[d].op # "" => req'[d] = req[d]
    BY <1>1, <1>3, NoneIs
  <2> QED BY <1>1, <1>4, <2>1 DEF Covered
<1>6. \A d \in Clients : Filling(d)'
  <2>1. Filling(c)'
    BY <1>2, <1>3 DEF Filling
  <2> QED BY <1>1, <1>3, <1>4, <2>1, FillingKept DEF Whole
<1>7. up' /\ Based'
  BY <1>1 DEF Whole, Based
<1> QED BY <1>5, <1>6, <1>7 DEF Whole

\* A task begins over libraries that are registered and there, or neither.
LEMMA SubmitWhole ==
  ASSUME Types, Types', Agreed, Whole, NEW kind \in Tasks, NEW ids \in SUBSET Ids, Submit(kind, ids),
         spoiled' = {}
  PROVE  Whole'
<1>1. /\ live' = live /\ catalog' = catalog /\ req' = req /\ up' = up /\ job.kind = "none" /\ up
      /\ spoiled' = spoiled \cup {<<op, kind>> : op \in Met(ids)}
  BY DEF Submit, Meet, disk
<1>2. /\ job'.kind = kind /\ job'.ids = ids
      /\ job'.base.dirs = live /\ job'.base.names = catalog
  BY DEF Submit, NoJob
<1>3. \A l \in Ids : Lib(l)' = Lib(l) /\ (Has(l)' <=> Has(l))
  BY <1>1 DEF Lib, Has
<1>4. \A l \in Ids : Covered(l)'
  BY <1>1, <1>3 DEF Covered, Whole, Switch
<1>5. \A d \in Clients : Filling(d)'
  BY <1>1, <1>3, FillingKept DEF Whole
<1>6. ASSUME NEW l \in ids PROVE l \in catalog <=> Has(l)
  <2>1. \A c \in Clients : req[c].id = l \/ req[c].to = l => req[c].op = ""
    <3> SUFFICES ASSUME NEW c \in Clients, req[c].id = l \/ req[c].to = l PROVE req[c].op = ""
      OBVIOUS
    <3>1. Met(ids) = {}
      BY <1>1
    <3>2. req[c].op \in Met(ids)
      BY <1>6 DEF Met
    <3> QED BY <3>1, <3>2
  <2>2. Covered(l) /\ Listed(l)
    BY DEF Whole, Agreed, Registered
  <2> QED BY <1>1, <2>1, <2>2 DEF Covered, Listed, Switch
<1>7. Based'
  <2>1. job'.kind \in Switch => ids \subseteq catalog
    BY <1>2 DEF Submit, Switch
  <2> QED BY <1>2, <1>6, <2>1 DEF Based, Has
<1> QED BY <1>1, <1>4, <1>5, <1>7 DEF Whole

\* A step of the task: what is not its own keeps still.
LEMMA TaskWhole ==
  ASSUME Types, Types', Agreed, Whole, up', req' = req, NEW S, S \subseteq Its,
         \A l \in Ids \ S : Lib(l)' = Lib(l) /\ (l \in catalog' <=> l \in catalog) /\ ~Due(l),
         \A l \in Ids \cap S : Covered(l)',
         Based'
  PROVE  Whole'
<1>1. \A c \in Clients : Filling(c)'
  <2> SUFFICES ASSUME NEW c \in Clients PROVE Filling(c)'
    OBVIOUS
  <2>1. CASE req[c].op = ""
    <3>1. req[c] = NoReq
      BY <2>1 DEF Types, Requested, Placed
    <3> QED BY <3>1, NoneIs DEF Filling
  <2>2. CASE req[c].op # ""
    <3>1. Own(c) \cap S = {}
      BY <2>2 DEF Agreed, Distinct
    <3> QED BY <3>1, FillingKept DEF Whole
  <2> QED BY <2>1, <2>2
<1>2. \A l \in Ids : Covered(l)'
  <2> SUFFICES ASSUME NEW l \in Ids \ S PROVE Covered(l)'
    OBVIOUS
  <2> QED BY CoveredKept DEF Whole
<1> QED BY <1>1, <1>2 DEF Whole

\* Opening databases and leaving them alone.
LEMMA LibStays ==
  ASSUME Disks,
         \/ live' = live
         \/ \E S : Touch(S)
         \/ \E k \in Ids : live' = [live EXCEPT ![k] = IF @ = Absent THEN Hollow ELSE @]
  PROVE  \A l \in Ids : Lib(l)' = Lib(l)
<1>1. CASE live' = live
  BY <1>1 DEF Lib
<1>2. CASE \E S : Touch(S)
  BY <1>2, TouchIs, Values DEF Lib, Library
<1>3. ASSUME NEW k \in Ids, live' = [live EXCEPT ![k] = IF @ = Absent THEN Hollow ELSE @]
      PROVE  \A l \in Ids : Lib(l)' = Lib(l)
  <2>1. \A l \in Ids : live'[l] = live[l] \/ (live[l] = Absent /\ live'[l] = Hollow)
    BY <1>3 DEF Disks
  <2> QED BY <2>1, Values DEF Lib, Library
<1> QED BY <1>1, <1>2, <1>3

\* A task that goes on is the same task.
Keeps == job'.kind = job.kind /\ job'.ids = job.ids /\ job'.base = job.base
\* Whichever way it does.
LEMMA KeepsIs ==
  ASSUME job \in Jobs
  PROVE  /\ Raise \/ Restore \/ Fail => Keeps
         /\ \A s : Goto(s) => Keeps
         /\ \A s : job' = [job EXCEPT !.state = s] => Keeps
         /\ \A s, t : job' = [job EXCEPT !.state = s, !.at = t] => Keeps
         /\ \A s, t : job' = [job EXCEPT !.phase = s, !.at = t] => Keeps
         /\ \A s, t : job' = [job EXCEPT !.todo = s, !.at = t] => Keeps
         /\ \A s, t : job' = [job EXCEPT !.to = s, !.at = t] => Keeps
         /\ \A s, t, u : job' = [job EXCEPT !.phase = s, !.todo = t, !.at = u] => Keeps
         /\ \A s, t, u : job' = [job EXCEPT !.state = s, !.at = t, !.phase = u] => Keeps
<1>1. /\ Raise => Keeps
      /\ Restore => Keeps
      /\ Fail => Keeps
  BY DEF Raise, Restore, Fail, Keeps, Jobs
<1>2. /\ \A s : Goto(s) => Keeps
      /\ \A s : job' = [job EXCEPT !.state = s] => Keeps
      /\ \A s, t : job' = [job EXCEPT !.state = s, !.at = t] => Keeps
      /\ \A s, t : job' = [job EXCEPT !.phase = s, !.at = t] => Keeps
  BY DEF Goto, Keeps, Jobs
<1>3. /\ \A s, t : job' = [job EXCEPT !.todo = s, !.at = t] => Keeps
      /\ \A s, t : job' = [job EXCEPT !.to = s, !.at = t] => Keeps
      /\ \A s, t, u : job' = [job EXCEPT !.phase = s, !.todo = t, !.at = u] => Keeps
      /\ \A s, t, u : job' = [job EXCEPT !.state = s, !.at = t, !.phase = u] => Keeps
  BY DEF Keeps, Jobs
<1> QED BY <1>1, <1>2, <1>3

\* A switch touches its library alone.
LEMMA SwitchFrame ==
  ASSUME Types, job.kind \in Switch,
         \/ Switching
         \/ BackUnload \/ BackAway \/ BackReturn \/ BackTidy
  PROVE  /\ req' = req /\ up' = up /\ catalog' = catalog
         /\ \A l \in Ids \ job.ids : Lib(l)' = Lib(l)
         /\ Keeps \/ job'.kind = "none"
<1>1. PICK i \in Ids : Id = i /\ job.ids = {i}
  BY SwitchIs
<1>2. Disks /\ job \in Jobs /\ live \in [Ids -> Places]
  BY DEF Types, Tasked, Disks
<1>3. CASE Begin \/ Target \/ Bind \/ Recheck \/ Release \/ Check \/ Seal
  <2>1. SwitchGoes /\ req' = req /\ up' = up /\ catalog' = catalog
    BY <1>3, SwitchLooks
  <2>2. Keeps
    BY <1>2, <2>1, KeepsIs DEF SwitchGoes
  <2>3. \/ live' = live
        \/ Touch({i})
        \/ live' = [live EXCEPT ![i] = IF @ = Absent THEN Hollow ELSE @]
    BY <1>1, <1>3 DEF Begin, Target, Bind, Recheck, Release, Check, Seal, disk
  <2> QED BY <1>2, <2>1, <2>2, <2>3, LibStays
<1>4. CASE Cut \/ Apply \/ Recheck \/ Note
  <2>1. req' = req /\ up' = up /\ catalog' = catalog /\ live' = live
    BY <1>4 DEF Cut, Apply, Recheck, Note, disk
  <2>2. Keeps
    BY <1>2, <1>4, KeepsIs DEF Cut, Apply, Recheck, Note
  <2> QED BY <2>1, <2>2 DEF Lib
<1>5. CASE MoveOut \/ MoveIn \/ BackUnload \/ BackAway \/ BackReturn
  <2>1. req' = req /\ up' = up /\ catalog' = catalog
    BY <1>5 DEF MoveOut, MoveIn, BackUnload, BackAway, BackReturn, disk
  <2>2. live' = live \/ \E x : live' = [live EXCEPT ![i] = x]
    BY <1>1, <1>5 DEF MoveOut, MoveIn, BackUnload, BackAway, BackReturn, disk
  <2>3. Keeps
    BY <1>2, <1>5, KeepsIs DEF MoveOut, MoveIn, BackUnload, BackAway, BackReturn
  <2> QED BY <1>1, <1>2, <2>1, <2>2, <2>3 DEF Lib
<1>6. CASE Finish
  <2>1. req' = req /\ up' = up /\ catalog' = catalog /\ live' = Plain /\ job'.kind = "none"
    BY <1>6 DEF Finish, Complete, NoJob
  <2> QED BY <1>2, <2>1, PlainIs DEF Lib
<1>7. CASE BackTidy
  <2>1. req' = req /\ up' = up /\ catalog' = catalog
    BY <1>7 DEF BackTidy
  <2>2. live' = live \/ Touch({i})
    BY <1>1, <1>7 DEF BackTidy
  <2>3. Keeps \/ job'.kind = "none"
    <3>1. Undone => job'.kind = "none"
      BY DEF Undone, NoJob
    <3>2. Undone \/ Fail \/ job' = [job EXCEPT !.state = "back", !.at = "unload", !.phase = "rolled_back"]
      BY <1>7 DEF BackTidy
    <3> QED BY <1>2, <3>1, <3>2, KeepsIs
  <2> QED BY <1>2, <2>1, <2>2, <2>3, LibStays
<1> QED BY <1>3, <1>4, <1>5, <1>6, <1>7 DEF Switching

\* An import touches its ids alone.
LEMMA ImportFrame ==
  ASSUME Types, job.kind = "import",
         Importing \/ Finish \/ Disown \/ Remove
  PROVE  /\ req' = req /\ up' = up
         /\ \A l \in Ids \ job.ids : Lib(l)' = Lib(l) /\ (l \in catalog' <=> l \in catalog)
         /\ Keeps \/ job'.kind = "none"
<1>1. /\ Disks /\ job \in Jobs /\ live \in [Ids -> Places] /\ job.todo \subseteq job.ids
      /\ job.ids \subseteq Ids
  BY ImportIs DEF Types, Disks
<1>2. CASE ImportBegin \/ Prepare \/ Moved
  <2>1. req' = req /\ up' = up /\ catalog' = catalog /\ live' = live
    BY <1>2 DEF ImportBegin, Prepare, Moved, disk
  <2>2. Keeps
    <3>1. CASE ImportBegin
      BY <1>1, <3>1, KeepsIs DEF ImportBegin
    <3>2. CASE Prepare
      BY <1>1, <3>2, KeepsIs DEF Prepare
    <3>3. CASE Moved
      <4>1. job' = [job EXCEPT !.phase = "moving", !.todo = job.todo \ {Least(job.todo)}, !.at = "move"]
        BY <1>1, <3>3 DEF Moved, Jobs
      <4> QED BY <1>1, <4>1, KeepsIs
    <3> QED BY <1>2, <3>1, <3>2, <3>3
  <2> QED BY <2>1, <2>2 DEF Lib
<1>3. CASE Enroll
  <2>1. req' = req /\ up' = up /\ live' = live /\ (catalog' = catalog \/ catalog' = catalog \cup job.ids)
    BY <1>3 DEF Enroll
  <2>2. Keeps
    BY <1>1, <1>3, KeepsIs DEF Enroll
  <2> QED BY <2>1, <2>2 DEF Lib
<1>4. CASE Show
  <2>1. req' = req /\ up' = up /\ catalog' = catalog /\ Touch(job.ids)
    BY <1>4 DEF Show
  <2>2. Keeps
    BY <1>1, <1>4, KeepsIs DEF Show
  <2> QED BY <1>1, <2>1, <2>2, LibStays
<1>5. CASE Unmark \/ Finish
  <2>1. req' = req /\ up' = up /\ catalog' = catalog /\ live' = Plain
    BY <1>5 DEF Unmark, Finish
  <2>2. Keeps \/ job'.kind = "none"
    BY <1>1, <1>5, KeepsIs DEF Unmark, Finish, Complete, NoJob
  <2> QED BY <1>1, <2>1, <2>2, PlainIs DEF Lib
<1>6. CASE Move
  <2>1. req' = req /\ up' = up /\ catalog' = catalog /\ job.todo # {}
    BY <1>6 DEF Move
  <2>2. PICK k \in job.ids : k = Least(job.todo)
    BY <1>1, <2>1, LeastIn
  <2>3. live' = live \/ \E x : live' = [live EXCEPT ![k] = x]
    BY <1>6, <2>2 DEF Move
  <2>4. Keeps
    BY <1>1, <1>6, KeepsIs DEF Move
  <2> QED BY <1>1, <2>1, <2>2, <2>3, <2>4 DEF Lib
<1>7. CASE Disown
  <2>1. req' = req /\ up' = up /\ live' = live
    BY <1>7 DEF Disown
  <2>2. \/ catalog' = catalog /\ Undone
        \/ \E k \in job.ids : catalog' = catalog \ {k} /\ job' = [job EXCEPT !.to = k, !.at = "remove"]
    <3>1. CASE {l \in job.todo : Mine(l)} # {}
      <4>1. Least({l \in job.todo : Mine(l)}) \in {l \in job.todo : Mine(l)}
        BY <1>1, <3>1, LeastIn
      <4> QED BY <1>1, <1>7, <3>1, <4>1 DEF Disown
    <3> QED BY <1>7, <3>1 DEF Disown
  <2>3. Keeps \/ job'.kind = "none"
    BY <1>1, <2>2, KeepsIs DEF Undone, NoJob
  <2> QED BY <2>1, <2>2, <2>3 DEF Lib
<1>8. CASE Remove
  <2>1. req' = req /\ up' = up /\ catalog' = catalog /\ live' = [live EXCEPT ![job.to] = Absent]
        /\ job.state = "back" /\ job.at = "remove"
    BY <1>8, ImportIs DEF Remove, Back
  <2>2. PICK k \in job.ids : k = job.to
    BY <1>1, <2>1 DEF Types, Imported1
  <2>3. Keeps
    BY <1>1, <1>8, KeepsIs DEF Remove
  <2> QED BY <1>1, <2>1, <2>2, <2>3 DEF Lib
<1> QED BY <1>2, <1>3, <1>4, <1>5, <1>6, <1>7, <1>8 DEF Importing

\* A task that goes on is to bring its libraries; one that is over has, or has found them
\* as the catalog has them.
LEMMA JobWhole ==
  ASSUME Types, Types', Held, Agreed, Whole, [Next]_vars, job.kind \in Switch \cup {"import"},
         req' = req, up' = up,
         \A l \in Ids \ job.ids : Lib(l)' = Lib(l) /\ (l \in catalog' <=> l \in catalog),
         Keeps \/ job'.kind = "none", job.kind \in Switch => catalog' = catalog
  PROVE  Whole'
<1>1. /\ up' /\ job.ids \subseteq Its /\ job.ids \subseteq Ids
      /\ \A l \in Ids \ job.ids : Lib(l)' = Lib(l) /\ (l \in catalog' <=> l \in catalog) /\ ~Due(l)
  BY DEF Whole, Types, Tasked, Jobs, Its, Due, Switch
<1>2. Based'
  BY DEF Based, Whole, Keeps, Switch
<1>3. ASSUME NEW l \in job.ids PROVE Covered(l)'
  <2>1. CASE Keeps
    BY <1>3, <2>1 DEF Keeps, Covered
  <2>2. CASE job'.kind = "none"
    <3>1. l \in job.base.names <=> job.base.dirs[l] \in Contents
      BY <1>3 DEF Whole, Based
    <3>2. ASSUME Library(live'[l]) \in Contents PROVE Has(l)'
      BY <3>2, Values DEF Library, Has
    <3>3. ASSUME job.base.dirs[l] \in Contents PROVE Library(job.base.dirs[l]) \in Contents
      BY <3>3, Values DEF Library
    <3>4. CASE job.kind \in Switch
      <4>1. l = Id /\ l \in job.base.names
        BY <1>3, <3>4, SwitchIs DEF Whole, Based
      <4>2. Library(live'[l]) = IF job'.end = "completed" THEN [job.base.dirs[l] EXCEPT !.has = @ \cup {"task"}]
                                ELSE Library(job.base.dirs[l])
        BY <2>2, <3>4, <4>1, SwitchIsWhole
      <4>3. [job.base.dirs[l] EXCEPT !.has = @ \cup {"task"}] \in Contents
        BY <3>1, <4>1, PlusIs
      <4>4. Has(l)'
        BY <3>1, <3>2, <3>3, <4>1, <4>2, <4>3
      <4> QED BY <4>4 DEF Covered
    <3>5. CASE job.kind = "import"
      <4>1. IF job'.end = "completed"
            THEN job.ids \subseteq catalog' /\ \A k \in job.ids : Full(k)'
            ELSE \A k \in job.ids : /\ Library(live'[k]) = Library(job.base.dirs[k])
                                    /\ k \in catalog' <=> k \in job.base.names
        BY <2>2, <3>5, ImportIsWhole
      <4>2. Full(l)' => Has(l)'
        BY <1>1, <1>3, Values DEF Full, Has, Types, Disks, Places
      <4>3. Has(l)' \/ l \notin catalog'
        BY <1>3, <3>1, <3>2, <3>3, <4>1, <4>2
      <4> QED BY <4>3 DEF Covered
    <3> QED BY <3>4, <3>5
  <2> QED BY <2>1, <2>2
<1> QED BY <1>1, <1>2, <1>3, TaskWhole

\* The steps of a copy.
LEMMA CopyWhole ==
  ASSUME Types, Types', Held, Agreed, Whole, Copying \/ (JobFault /\ job.kind = "copy")
  PROVE  Whole'
<1>1. /\ job.kind = "copy" /\ req' = req /\ up' /\ Disks /\ Disks' /\ job \in Jobs /\ live \in [Ids -> Places]
      /\ Clones /\ Copies
  <2>1. job.kind = "copy" /\ req' = req /\ up' = up
    BY DEF Copying, CopyBegin, CopyRegister, CopyPlace, CopyErase, CopyShow, JobFault, On
  <2> QED BY <2>1 DEF Types, Tasked, Held, Agreed, Disks, Whole
<1>2. job.at # "begin" => job.to \in Ids
  BY <1>1, CopyIs
<1>3. Based'
  <2>1. job'.kind \in {"copy", "none"}
    <3>1. Undone \/ Complete => job'.kind = "none"
      BY DEF Undone, Complete, NoJob
    <3>2. \A s : Goto(s) => job'.kind = "copy"
      BY <1>1 DEF Goto, Jobs
    <3>3. \A m : job' = [job EXCEPT !.to = m, !.at = "register"] => job'.kind = "copy"
      BY <1>1 DEF Jobs
    <3> QED BY <1>1, <3>1, <3>2, <3>3 DEF Copying, CopyBegin, CopyRegister, CopyPlace, CopyErase, CopyShow, JobFault
  <2> QED BY <2>1 DEF Based, Switch
<1>4. ASSUME job.at # "place", catalog' = catalog, \A l \in Ids : Lib(l)' = Lib(l)
      PROVE  Whole'
  <2>1. \A l \in Ids : ~Due(l)
    BY <1>1, <1>4 DEF Due, Switch
  <2>2. /\ {} \subseteq Its
        /\ \A l \in Ids \ {} : Lib(l)' = Lib(l) /\ (l \in catalog' <=> l \in catalog) /\ ~Due(l)
        /\ \A l \in Ids \cap {} : Covered(l)'
    BY <1>4, <2>1
  <2> QED BY <1>1, <1>3, <2>2, TaskWhole
<1>5. ASSUME NEW k \in Ids, k = job.to, \A l \in Ids \ {k} : Lib(l)' = Lib(l) /\ (l \in catalog' <=> l \in catalog),
             Covered(k)'
      PROVE  Whole'
  <2>1. \A l \in Ids \ {k} : ~Due(l)
    BY <1>1, <1>5 DEF Due, Switch
  <2>2. {k} \subseteq Its
    BY <1>5 DEF Its
  <2>3. /\ \A l \in Ids \ {k} : Lib(l)' = Lib(l) /\ (l \in catalog' <=> l \in catalog) /\ ~Due(l)
        /\ \A l \in Ids \cap {k} : Covered(l)'
    BY <1>5, <2>1
  <2> QED BY <1>1, <1>3, <2>2, <2>3, TaskWhole
<1>6. live' = live => \A l \in Ids : Lib(l)' = Lib(l)
  BY DEF Lib
<1>7. CASE CopyBegin
  <2>1. job.at = "begin" /\ catalog' = catalog /\ Touch({Id})
    BY <1>7 DEF CopyBegin, On
  <2> QED BY <1>1, <1>4, <2>1, LibStays
<1>8. CASE CopyRegister
  <2>1. job.at = "register" /\ live' = live
    BY <1>8 DEF CopyRegister, On
  <2>2. CASE catalog' = catalog
    BY <1>4, <1>6, <2>1, <2>2
  <2>3. CASE catalog' = catalog \cup {job.to} /\ Goto("place")
    <3>1. PICK k \in Ids : k = job.to
      BY <1>2, <2>1
    <3>2. job'.kind = "copy" /\ job'.to = k /\ job'.at = "place"
      BY <1>1, <2>3, <3>1 DEF Goto, Jobs
    <3>3. Covered(k)'
      BY <3>2 DEF Covered
    <3> QED BY <1>5, <1>6, <2>1, <2>3, <3>1, <3>3
  <2> QED BY <1>8, <2>2, <2>3 DEF CopyRegister
<1>9. CASE catalog' = catalog \ {job.to} /\ live' = live /\ job.at = "place"
  <2>1. PICK k \in Ids : k = job.to
    BY <1>2, <1>9
  <2>2. Covered(k)'
    BY <1>9, <2>1 DEF Covered
  <2> QED BY <1>5, <1>6, <1>9, <2>1, <2>2
<1>10. CASE CopyPlace
  <2>1. CASE catalog' = catalog \ {job.to} /\ live' = live
    BY <1>9, <1>10, <2>1 DEF CopyPlace, On
  <2>2. CASE live' = [live EXCEPT ![job.to] = work.prepared[job.to]] /\ catalog' = catalog
    <3>1. PICK k \in Ids : k = job.to /\ work.prepared[k] \in Contents
      <4>1. job.at = "place"
        BY <1>10 DEF CopyPlace, On
      <4> QED BY <1>1, <1>2, <4>1, CopyIs
    <3>2. live'[k] \in Contents /\ \A l \in Ids \ {k} : live'[l] = live[l]
      BY <1>1, <2>2, <3>1
    <3>3. Covered(k)'
      BY <3>2 DEF Covered, Has
    <3> QED BY <1>5, <2>2, <3>1, <3>2, <3>3 DEF Lib
  <2> QED BY <1>10, <2>1, <2>2 DEF CopyPlace
<1>11. CASE CopyErase
  <2>1. /\ catalog' = catalog /\ job.at = "erase"
        /\ \/ live' = live
           \/ live' = [live EXCEPT ![job.to] = Absent]
    BY <1>11 DEF CopyErase, On
  <2>2. PICK k \in Ids : k = job.to
    BY <1>2, <2>1
  <2>3. ~Has(k)
    BY <1>1, <2>1, <2>2 DEF Copies, Has
  <2>4. \A l \in Ids : Lib(l)' = Lib(l)
    <3>1. CASE live' = [live EXCEPT ![k] = Absent]
      <4>1. live'[k] = Absent /\ \A l \in Ids \ {k} : live'[l] = live[l]
        BY <1>1, <3>1
      <4>2. Lib(k) = Absent /\ Lib(k)' = Absent
        BY <1>1, <2>3, <4>1, LibHas DEF Lib, Library
      <4> QED BY <4>1, <4>2 DEF Lib
    <3> QED BY <1>6, <2>1, <2>2, <3>1
  <2> QED BY <1>4, <2>1, <2>4
<1>12. CASE CopyShow
  <2>1. job.at = "show" /\ catalog' = catalog /\ Touch({job.to})
    BY <1>12 DEF CopyShow, On
  <2> QED BY <1>1, <1>4, <2>1, LibStays
<1>13. CASE JobFault
  <2>1. live' = live
    BY <1>13 DEF JobFault
  <2>2. CASE job.at = "place"
    BY <1>1, <1>9, <1>13, <2>1, <2>2 DEF JobFault
  <2>3. CASE job.at # "place"
    BY <1>1, <1>4, <1>6, <1>13, <2>1, <2>3 DEF JobFault
  <2> QED BY <2>2, <2>3
<1> QED BY <1>7, <1>8, <1>10, <1>11, <1>12, <1>13 DEF Copying

\* In the beginning the registered libraries are there.
LEMMA InitWhole ==
  ASSUME Init
  PROVE  Whole
<1>1. /\ up /\ catalog = world.first /\ job.kind = "none"
      /\ live = [l \in Ids |-> IF l \in world.first THEN New(l) ELSE Absent]
      /\ \A c \in Clients : req[c].op = ""
  BY NoneIs DEF Init, NoJob
<1>2. \A l \in Ids : l \in catalog => Has(l)
  BY <1>1, Values, Numbers DEF Has
<1> QED BY <1>1, <1>2 DEF Whole, Covered, Filling, Based, Switch

\* Every step keeps it, as long as nobody met and there was no crash.
LEMMA NextWhole ==
  ASSUME Types, Types', Held, Agreed, Whole, [Next]_vars, spoiled' = {}
  PROVE  Whole'
<1>1. CASE \E l \in Ids : Visit(l) \/ Evict(l)
  BY <1>1, LookWhole
<1>2. CASE Requests
  <2>1. ASSUME NEW c \in Clients, NEW op \in world.requests, NEW l \in Ids, NEW m \in Ids, Ask(c, op, l, m)
        PROVE  Whole'
    BY <2>1, AskWhole
  <2>2. ASSUME NEW c \in Clients,
               Register(c) \/ Open(c) \/ Fill(c) \/ Load(c) \/ CreateFault(c) \/ Unregister(c) \/ Erase(c)
        PROVE  Whole'
    BY <2>2, CreateWhole
  <2>3. ASSUME NEW c \in Clients,
               \/ Released(c) \/ ToTrash(c) \/ Drop(c)
               \/ Rename(c) \/ Name(c) \/ NameFault(c) \/ NameBack(c) \/ NameBackFault(c)
        PROVE  Whole'
    BY <2>3, MovesWhole
  <2>4. ASSUME NEW c \in Clients, Write(c) PROVE Whole'
    BY <2>4, LookWhole
  <2> QED BY <1>2, <2>1, <2>2, <2>3, <2>4 DEF Requests
<1>3. CASE \E kind \in Switch \cup {"import", "copy"}, ids \in SUBSET Ids : Submit(kind, ids)
  BY <1>3, SubmitWhole DEF Tasks
<1>4. CASE Switching \/ Importing \/ Undoing
  <2>1. job.kind \in Switch \cup {"import"}
    BY <1>4, SwitchLooks DEF Switching, Cut, Apply, MoveOut, MoveIn, Note, Finish,
         Importing, ImportBegin, Prepare, Move, Moved, Enroll, Show, Unmark,
         Undoing, BackUnload, BackAway, BackReturn, BackTidy, Disown, Remove, On, Back
  <2>2. CASE job.kind \in Switch
    <3>1. Switching \/ BackUnload \/ BackAway \/ BackReturn \/ BackTidy
      BY <1>4, <2>2 DEF Importing, ImportBegin, Prepare, Move, Moved, Enroll, Show, Unmark,
           Undoing, Disown, Remove, On, Back, Switch
    <3>2. /\ req' = req /\ up' = up /\ catalog' = catalog
          /\ \A l \in Ids \ job.ids : Lib(l)' = Lib(l)
          /\ Keeps \/ job'.kind = "none"
      BY <2>2, <3>1, SwitchFrame
    <3> QED BY <2>1, <3>2, JobWhole
  <2>3. CASE job.kind = "import"
    <3>1. Importing \/ Finish \/ Disown \/ Remove
      BY <1>4, <2>3, SwitchLooks DEF Switching, Cut, Apply, MoveOut, MoveIn, Note,
           Undoing, BackUnload, BackAway, BackReturn, BackTidy, On, Back, Switch
    <3>2. /\ req' = req /\ up' = up
          /\ \A l \in Ids \ job.ids : Lib(l)' = Lib(l) /\ (l \in catalog' <=> l \in catalog)
          /\ Keeps \/ job'.kind = "none"
      BY <2>3, <3>1, ImportFrame
    <3> QED BY <2>1, <2>3, <3>2, JobWhole DEF Switch
  <2> QED BY <2>1, <2>2, <2>3
<1>5. CASE Copying
  BY <1>5, CopyWhole
<1>6. CASE JobFault \/ RollbackFault \/ Pause \/ Resume \/ Stop
  <2>1. CASE JobFault /\ job.kind = "copy"
    BY <2>1, CopyWhole
  <2>2. CASE ~(JobFault /\ job.kind = "copy")
    <3>1. job \in Jobs /\ job.kind \in Switch \cup {"import"}
      <4>1. job \in Jobs /\ job.state \in {"run", "inner", "back", "parked"}
        BY <1>6 DEF RollbackFault, Pause, Resume, Stop, JobFault, On, Types, Tasked
      <4>2. job.kind # "none"
        BY <4>1 DEF Types, Tasked
      <4>3. job.kind = "copy" => job.state = "run" /\ job.at \in CopyAt
        BY CopyIs
      <4>4. job.kind # "copy"
        BY <1>6, <2>2, <4>3 DEF RollbackFault, Pause, Resume, Stop, On, Switch
      <4> QED BY <4>1, <4>2, <4>4 DEF Jobs, Tasks
    <3>2. req' = req /\ up' = up /\ catalog' = catalog /\ live' = live
      BY <1>6, <2>2, <3>1 DEF RollbackFault, Pause, Resume, Stop, JobFault, disk
    <3>3. Keeps
      BY <1>6, <2>2, <3>1, KeepsIs DEF RollbackFault, Pause, Resume, Stop, JobFault
    <3> QED BY <3>1, <3>2, <3>3, JobWhole DEF Lib
  <2> QED BY <2>1, <2>2
<1>7. CASE Crash
  BY <1>7 DEF Crash, Meet
<1>8. CASE Restart
  BY <1>8 DEF Restart, Whole
<1>9. CASE UNCHANGED vars
  <2>1. live' = live /\ catalog' = catalog /\ up' = up /\ job' = job /\ req' = req
    BY <1>9 DEF vars
  <2>2. \A l \in Ids : Lib(l)' = Lib(l)
    BY <2>1 DEF Lib
  <2>3. (\A l \in Ids : Covered(l)') /\ \A c \in Clients : Filling(c)'
    BY <2>1, <2>2, CoveredKept, FillingKept DEF Whole
  <2> QED BY <2>1, <2>3 DEF Whole, Based
<1> QED BY <1>1, <1>2, <1>3, <1>4, <1>5, <1>6, <1>7, <1>8, <1>9 DEF Next

\* When nothing is under way, the catalog and the directories tell the same.
LEMMA WholeMatches ==
  ASSUME Types, Agreed, Whole, Quiet
  PROVE  catalog = {l \in Ids : Full(l)}
<1>1. \A l \in Ids : Covered(l) /\ Listed(l) /\ (Has(l) <=> Full(l))
  BY HasIs DEF Types, Agreed, Registered, Whole
<1>2. up /\ job.kind = "none" /\ \A c \in Clients : req[c].op = ""
  BY NoneIs DEF Quiet
<1>3. \A l \in Ids : l \in catalog <=> Full(l)
  BY <1>1, <1>2 DEF Covered, Listed, Switch
<1> QED BY <1>3 DEF Types, Disks

\* When nothing is under way the registered ids are those with a library, whichever await of
\* a request, a task or a rollback failed, as long as no two requests or tasks met over one
\* id, no undoing of a rename failed and the service did not crash.
THEOREM CatalogAgrees == Spec => []CatalogMatches
<1>1. Init => (spoiled = {} => Whole)
  BY InitWhole
<1>2. /\ spoiled = {} => Apart
      /\ [Next]_vars /\ spoiled' = {} => spoiled = {}
  <2>1. spoiled = {} => Apart
    BY DEF Apart
  <2>2. [Next]_vars /\ spoiled' = {} => spoiled = {}
    BY SpoiledGrows
  <2> QED BY <2>1, <2>2
<1>3. Types /\ Types' /\ (spoiled \subseteq Harmless => Held) /\ (Apart => Agreed) /\ (spoiled = {} => Whole)
        /\ [Next]_vars => (spoiled = {} => Whole)'
  BY <1>2, ApartIs, NextWhole
<1>4. Types /\ (Apart => Agreed) /\ (spoiled = {} => Whole) => CatalogMatches
  BY <1>2, WholeMatches DEF CatalogMatches
<1> QED BY <1>1, <1>3, <1>4, TypesHold, HeldAlways, AgreedAlways, PTL DEF Spec
==============================================================================
