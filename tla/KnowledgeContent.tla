-------------------------- MODULE KnowledgeContent --------------------------
(***************************************************************************)
(* What one text/media library (text_media_v1) contains and how the        *)
(* requests change it: service.py, storage.py, indexes.py and the task     *)
(* runner of resumable_tasks.py.                                           *)
(*                                                                         *)
(* A library is one record: the rows of its database, the files beside it  *)
(* and its two derived indexes.  Documents, entries, calibrations,         *)
(* descriptions and provider switches change a staged copy inside a task   *)
(* and are published as a whole; an image upload, an image deletion and a  *)
(* relation change the live library step by step.  Tasks and these short   *)
(* jobs take the library's execution lock, which a task that was parked by *)
(* a restart does not hold until the worker reaches it.                    *)
(*                                                                         *)
(* A document has one entry (every operation creates it so); its chunks    *)
(* have numbers that are never used again.  A vector is known by the       *)
(* fingerprint of the provider configuration that made it.                 *)
(***************************************************************************)
EXTENDS Integers, Sequences, FiniteSets

CONSTANTS
    Document,       \* document rows that may exist at once
    Source,         \* contents (sha256) of document files
    Image,          \* contents (sha256) of images
    Text,           \* normalized descriptions
    Fingerprint,    \* embedding provider configurations (config_sha256)
    Dimension,      \* length of the vectors each configuration makes
    Stem,           \* description an image gets from its file name
    FirstBinding,   \* configuration the library was created with
    None,           \* SQL NULL, "no row"
    ChunksEach,     \* chunks of a document
    MaxChunk,       \* bound: chunk numbers
    TextLists,      \* description lists a request may bring (media_description_list)
    MaxTexts,       \* descriptions of an image (MAX_MEDIA_DESCRIPTIONS)
    MaxTasks,       \* bound: tasks whose stage was made ready
    MaxShort,       \* bound: uploads, deletions and relation changes
    MaxCrashes      \* bound: restarts

ASSUME FingerprintAssumption ==
    /\ FirstBinding \in Fingerprint
    /\ Dimension \in [Fingerprint -> Nat \ {0}]
ASSUME TextAssumption ==
    /\ Stem \in [Image -> Text]
    /\ TextLists \subseteq Seq(Text) \ {<<>>}
ASSUME ChunkAssumption == ChunksEach \in Nat \ {0} /\ MaxChunk \in Nat

VARIABLES
    live,       \* the library searches read
    stage,      \* the copy of a task that is ready to publish it, or None
    short,      \* the upload or deletion under way, or None
    lock,       \* holder of the library's execution lock
    loaded,     \* whether a runtime of the library is resident
    cut,        \* history: a short job ended between its commit and the rebuild
    torn,       \* history: uploads that ended before their descriptions, since the last load
    tasks, shorts, crashes

vars == <<live, stage, short, lock, loaded, cut, torn, tasks, shorts, crashes>>

Chunk == 1 .. MaxChunk
Pair == Document \X Image

(***************************************************************************)
(* The library.                                                            *)
(***************************************************************************)
DocumentRow == [source : Source, chunks : SUBSET Chunk]
Description == [text : Text, fp : Fingerprint \union {None}]
Relation == [mode : {"uniform", "calibrated"},
             vector : Fingerprint \union {None},  \* media_description_vector
             fp : Fingerprint \union {None},      \* calibration_provider_fingerprint
             of : Seq(Text)]                      \* calibration_description_set_sha256
Strength == [chunk : Chunk, image : Image, fp : Fingerprint, of : Seq(Text)]

Library ==
    [bound : Fingerprint,
     documents : [Document -> DocumentRow \union {None}],
     next : 1 .. MaxChunk + 1,
     sources : SUBSET Source,
     images : [Image -> Seq(Description) \union {None}],
     relations : [Pair -> Relation \union {None}],
     strengths : SUBSET Strength,
     generation : BOOLEAN,
     vectors : [Chunk -> Fingerprint \union {None}],
     documentFiles : SUBSET Source,
     imageFiles : SUBSET Image,
     chunkIndex : SUBSET (Chunk \X Fingerprint),
     mediaIndex : SUBSET (Image \X Text \X Fingerprint)]

\* An upload or a deletion: what it is about and what it does next.
ShortJob ==
    [kind : {"upload"}, image : Image, text : Text, at : {"register", "describe", "index"}]
    \union [kind : {"delete"}, image : Image, text : {None}, at : {"unlink", "index"}]

ASSUME NoneAssumption ==
    /\ None \notin Fingerprint \union Document \union Image \union Source
    /\ None \notin DocumentRow /\ None \notin Relation
    /\ None \notin Seq(Description)
    /\ None \notin Library /\ None \notin ShortJob

Documents(l) == {d \in Document : l.documents[d] # None}
Images(l) == {i \in Image : l.images[i] # None}
Relations(l) == {p \in Pair : l.relations[p] # None}
Active(l) == UNION {l.documents[d].chunks : d \in Documents(l)}
Texts(l, i) == [n \in 1 .. Len(l.images[i]) |-> l.images[i][n].text]
TextsOf(s) == {s[n].text : n \in 1 .. Len(s)}

\* The vectors of the active generation; of the descriptions, those of the bound provider.
ChunkVectors(l) ==
    {<<c, l.vectors[c]>> : c \in {x \in Active(l) : l.generation /\ l.vectors[x] # None}}
MediaVectors(l) ==
    UNION {{<<i, l.images[i][n].text, l.bound>> :
              n \in {m \in 1 .. Len(l.images[i]) : l.images[i][m].fp = l.bound}} : i \in Images(l)}

\* Mutant: a rebuild leaves the media index as it is.
RebuiltChunks(l) == [l EXCEPT !.chunkIndex = ChunkVectors(l)]

\* Both indexes are written from the database and become current.
Rebuilt(l) == [l EXCEPT !.chunkIndex = ChunkVectors(l), !.mediaIndex = MediaVectors(l)]

\* Opening the database: an image without descriptions gets the one of its file
\* name, without a vector.  (link_asset leaves a relation's description empty, so
\* the relations of such an image have none to give.)
Initialized(l) ==
    [l EXCEPT !.images =
        [i \in Image |-> IF l.images[i] = <<>> THEN <<[text |-> Stem[i], fp |-> None]>>
                                               ELSE l.images[i]]]

\* Mutant: a load does not look for images without descriptions.
LoadedRaw(l) == IF l.chunkIndex = {} THEN Rebuilt(l) ELSE l

\* Loading the runtime: the indexes are written anew when no chunk index is current.
Loaded(l) == LET opened == Initialized(l)
             IN IF opened.chunkIndex = {} THEN Rebuilt(opened) ELSE opened

\* A staged copy has no indexes yet.
Copied(l) == Initialized([l EXCEPT !.chunkIndex = {}, !.mediaIndex = {}])

\* TextMediaStorage.validate
VectorsUsed(l) ==
    ({l.relations[p].vector : p \in Relations(l)}
     \union (UNION {{l.images[i][n].fp : n \in 1 .. Len(l.images[i])} : i \in Images(l)})
     \union {v[2] : v \in ChunkVectors(l)}) \ {None}
Valid(l) == /\ \A i \in Images(l) : l.images[i] # <<>>
            /\ \A f, g \in VectorsUsed(l) : Dimension[f] = Dimension[g]

(***************************************************************************)
(* The storage's transactions.                                             *)
(***************************************************************************)
\* A new generation starts with the old one's vectors of the chunks still active.
Cloned(l) ==
    [l EXCEPT !.vectors = [c \in Chunk |-> IF c \in Active(l) THEN l.vectors[c] ELSE None]]

Embedded(texts, f) == [n \in 1 .. Len(texts) |-> [text |-> texts[n], fp |-> f]]

\* A document's chunks are replaced: rows of the old ones go by cascade, the new
\* generation has the other chunks' vectors and those of the new chunks.
Chunked(l, d, s) ==
    LET fresh == l.next .. l.next + ChunksEach - 1
        row == [source |-> s, chunks |-> fresh]
        moved == Cloned([l EXCEPT !.documents[d] = row, !.next = @ + ChunksEach,
                                  !.strengths = {x \in @ : l.documents[d] = None
                                                    \/ x.chunk \notin l.documents[d].chunks}])
    IN [moved EXCEPT !.generation = TRUE,
                     !.vectors = [c \in Chunk |-> IF c \in fresh THEN l.bound ELSE @[c]]]

\* install_document, and the documents of install_ingest_batch.
Installed(l, d, s) ==
    Chunked([l EXCEPT !.sources = @ \union {s}, !.documentFiles = @ \union {s}], d, s)

\* Strengths of one relation, computed from its document's chunks.
Fitted(l, p, f, texts) ==
    {x \in l.strengths : ~(x.image = p[2] /\ x.chunk \in l.documents[p[1]].chunks)}
    \union {[chunk |-> c, image |-> p[2], fp |-> f, of |-> texts] : c \in l.documents[p[1]].chunks}

Calibrated(l, p, mode, vector, f) ==
    [l EXCEPT !.relations[p] = [mode |-> mode, vector |-> vector, fp |-> f, of |-> Texts(l, p[2])],
              !.strengths = Fitted(l, p, f, Texts(l, p[2]))]

\* Several relations at once: all of one image, or every calibrated one.
CalibratedAll(l, P, f) ==
    [l EXCEPT !.relations = [p \in Pair |->
                  IF p \in P THEN [mode |-> l.relations[p].mode, vector |-> f, fp |-> f,
                                   of |-> Texts(l, p[2])]
                             ELSE @[p]],
              !.strengths = {x \in @ : \A p \in P :
                                 ~(x.image = p[2] /\ x.chunk \in l.documents[p[1]].chunks)}
                  \union UNION {Fitted([l EXCEPT !.strengths = {}], p, f, Texts(l, p[2])) : p \in P}]

\* install_ingest_batch: at most one document and one image.
Ingested(l, o) ==
    LET documents == IF o.document = None THEN l ELSE Installed(l, o.document, o.source)
        media == IF o.image = None THEN documents
                 ELSE [documents EXCEPT !.images[o.image] = Embedded(o.texts, l.bound),
                                        !.imageFiles = @ \union {o.image}]
    IN IF o.document = None \/ o.image = None \/ ~o.mapped THEN media
       ELSE Calibrated(media, <<o.document, o.image>>, o.mode, l.bound, l.bound)

\* Mutant: a source goes with the first of its documents.
RemovedSources(l, D) ==
    LET used == {l.documents[d].source : d \in D \intersect Documents(l)}
    IN Cloned([l EXCEPT !.documents = [d \in Document |-> IF d \in D THEN None ELSE @[d]],
                        !.relations = [p \in Pair |-> IF p[1] \in D THEN None ELSE @[p]],
                        !.sources = @ \ used, !.documentFiles = @ \ used])

\* delete_documents, delete_entry: a source file no document has any more goes too.
Removed(l, D) ==
    LET rest == [l EXCEPT
            !.documents = [d \in Document |-> IF d \in D THEN None ELSE @[d]],
            !.relations = [p \in Pair |-> IF p[1] \in D THEN None ELSE @[p]],
            !.strengths = {x \in @ : \A d \in D \intersect Documents(l) :
                                         x.chunk \notin l.documents[d].chunks}]
        unused == {s \in l.sources : /\ \E d \in D : l.documents[d] # None /\ l.documents[d].source = s
                                     /\ \A e \in Documents(rest) : rest.documents[e].source # s}
    IN Cloned([rest EXCEPT !.sources = @ \ unused, !.documentFiles = @ \ unused])

\* replace_asset_media_descriptions with the calibrations of every relation.
Described(l, i, texts) ==
    CalibratedAll([l EXCEPT !.images[i] = Embedded(texts, l.bound)],
                  {p \in Relations(l) : p[2] = i}, l.bound)

\* Mutant: a provider switch keeps the calibrations.
SwitchedAlone(l, f) ==
    [l EXCEPT !.bound = f, !.generation = (Active(l) # {}),
              !.vectors = [c \in Chunk |-> IF c \in Active(l) THEN f ELSE None],
              !.images = [i \in Image |-> IF @[i] = None THEN None ELSE Embedded(Texts(l, i), f)]]

\* replace_all_embeddings: every chunk, every description and every calibrated relation.
Switched(l, f) ==
    LET all == [l EXCEPT !.bound = f,
                         !.generation = (Active(l) # {}),
                         !.vectors = [c \in Chunk |-> IF c \in Active(l) THEN f ELSE None],
                         !.images = [i \in Image |-> IF @[i] = None THEN None
                                                     ELSE Embedded(Texts(l, i), f)]]
    IN CalibratedAll(all, {p \in Relations(l) : l.relations[p].mode = "calibrated"}, f)

(***************************************************************************)
(* The tasks' operations.                                                  *)
(***************************************************************************)
Batches ==
    [kind : {"ingest"}, document : Document \union {None}, source : Source, image : Image \union {None},
     texts : TextLists, mapped : BOOLEAN, mode : {"uniform", "calibrated"}]
Operations ==
    {o \in Batches : /\ ~(o.document = None /\ o.image = None)
                     /\ (o.document = None => o.source = (CHOOSE s \in Source : TRUE))
                     /\ (o.image = None => o.texts = <<CHOOSE t \in Text : TRUE>>)
                     /\ (o.mapped = (o.document # None /\ o.image # None))
                     /\ (~o.mapped => o.mode = "uniform")}
    \union [kind : {"entry_update"}, document : Document]
    \union [kind : {"delete"}, documents : (SUBSET Document) \ {{}}]
    \union [kind : {"calibrate"}, document : Document, image : Image, enabled : BOOLEAN]
    \union [kind : {"describe"}, image : Image, texts : TextLists]
    \union [kind : {"rebuild"}, target : Fingerprint]

\* Mutations that embed, so that their provider is probed first.
Embeds(o) == o.kind \notin {"delete", "rebuild"}

\* The operation's own checks.  MaxChunk is the model's bound.
Room(l) == l.next + ChunksEach - 1 <= MaxChunk
Accepted(l, o) ==
    \/ /\ o.kind = "ingest"
       /\ o.document # None => l.documents[o.document] = None /\ Room(l)
    \/ o.kind = "entry_update" /\ l.documents[o.document] # None /\ Room(l)
    \/ o.kind = "delete" /\ o.documents \subseteq Documents(l)
    \/ /\ o.kind = "calibrate"
       /\ l.relations[<<o.document, o.image>>] # None
       /\ l.images[o.image] # <<>>
       /\ l.generation
    \/ o.kind = "describe" /\ l.images[o.image] # None
    \/ o.kind = "rebuild"

Applied(l, o) ==
    CASE o.kind = "ingest" -> Ingested(l, o)
      [] o.kind = "entry_update" -> Chunked(l, o.document, l.documents[o.document].source)
      [] o.kind = "delete" -> Removed(l, o.documents)
      [] o.kind = "calibrate" ->
            IF o.enabled THEN Calibrated(l, <<o.document, o.image>>, "calibrated", l.bound, l.bound)
                         ELSE Calibrated(l, <<o.document, o.image>>, "uniform", None, l.bound)
      [] o.kind = "describe" -> Described(l, o.image, o.texts)
      [] o.kind = "rebuild" -> Switched(l, o.target)

\* A mutation whose probe changed the provider's configuration first embeds
\* the whole library again.
Rebound(l, f) == IF f = l.bound THEN l ELSE Switched(l, f)

(***************************************************************************)
(* Tasks.                                                                  *)
(***************************************************************************)
\* The worker reaches a task: copy, apply, rebuild the copy's indexes, validate,
\* note that the stage is ready.  Until then nothing but the copy has changed, and
\* a task that ends or is parked earlier leaves nothing.  Reading the binding of an
\* embedding mutation opens the live database.
Work(o, f) ==
    /\ stage = None
    /\ lock = "free"
    /\ tasks < MaxTasks
    /\ tasks' = tasks + 1
    /\ IF Embeds(o) THEN Dimension[f] = Dimension[live.bound] ELSE f = live.bound
    /\ LET source == IF Embeds(o) THEN Initialized(live) ELSE live
           copy == Rebound(Copied(source), f)
           done == Rebuilt(Applied(copy, o))
       IN /\ Valid(copy)
          /\ Accepted(copy, o)
          /\ Valid(done)
          /\ live' = source
          /\ stage' = done
          /\ torn' = IF Embeds(o) THEN {} ELSE torn
    /\ lock' = "task"
    /\ UNCHANGED <<short, loaded, cut, shorts, crashes>>

\* A task parked by a restart is reached again: its stage is ready.
Resume ==
    /\ stage # None
    /\ lock = "free"
    /\ lock' = "task"
    /\ UNCHANGED <<live, stage, short, loaded, cut, torn, tasks, shorts, crashes>>

\* The stage becomes the library, which is loaded and validated.
Publish ==
    /\ lock = "task"
    /\ Valid(Loaded(stage))
    /\ live' = Loaded(stage)
    /\ loaded' = TRUE
    /\ cut' = FALSE
    /\ torn' = {}
    /\ stage' = None
    /\ lock' = "free"
    /\ UNCHANGED <<short, tasks, shorts, crashes>>

\* The task fails, is stopped or cancelled: its workspace is removed.
Abandon ==
    /\ stage # None
    /\ lock \in {"free", "task"}
    /\ stage' = None
    /\ lock' = "free"
    /\ UNCHANGED <<live, short, loaded, cut, torn, tasks, shorts, crashes>>

(***************************************************************************)
(* Uploads, deletions and relations.                                       *)
(***************************************************************************)
Load ==
    /\ ~loaded
    /\ lock # "short"
    /\ live' = Loaded(live)
    /\ loaded' = TRUE
    /\ torn' = {}
    /\ cut' = (cut /\ live.chunkIndex # {})
    /\ UNCHANGED <<stage, short, lock, tasks, shorts, crashes>>

Begins ==
    /\ lock = "free"
    /\ loaded
    /\ shorts < MaxShort
    /\ shorts' = shorts + 1

At(job, step) == short # None /\ short.kind = job /\ short.at = step
Goto(step) == short' = [short EXCEPT !.at = step]

\* The canonical file is written first.
Upload(i, t) ==
    /\ Begins
    /\ live' = [live EXCEPT !.imageFiles = @ \union {i}]
    /\ short' = [kind |-> "upload", image |-> i, text |-> t, at |-> "register"]
    /\ lock' = "short"
    /\ UNCHANGED <<stage, loaded, cut, torn, tasks, crashes>>

Register ==
    /\ At("upload", "register")
    /\ live' = [live EXCEPT !.images[short.image] = IF @ = None THEN <<>> ELSE @]
    /\ Goto("describe")
    /\ UNCHANGED <<stage, lock, loaded, cut, torn, tasks, shorts, crashes>>

\* The requested description joins the image's own; all get vectors of the binding.
Combined(s, t) == IF t \in TextsOf(s) THEN [n \in 1 .. Len(s) |-> s[n].text]
                  ELSE Append([n \in 1 .. Len(s) |-> s[n].text], t)
Describe ==
    /\ At("upload", "describe")
    /\ LET texts == Combined(live.images[short.image], short.text)
       IN /\ Len(texts) <= MaxTexts
          /\ live' = [live EXCEPT !.images[short.image] = Embedded(texts, live.bound)]
    /\ torn' = torn \ {short.image}
    /\ Goto("index")
    /\ UNCHANGED <<stage, lock, loaded, cut, tasks, shorts, crashes>>

Answer ==
    /\ At("upload", "index") \/ At("delete", "index")
    /\ live' = Rebuilt(live)
    /\ cut' = FALSE
    /\ short' = None
    /\ lock' = "free"
    /\ UNCHANGED <<stage, loaded, torn, tasks, shorts, crashes>>

\* delete_image: the row goes, and its descriptions, relations and strengths.
Delete(i) ==
    /\ Begins
    /\ live.images[i] # None
    /\ live' = [live EXCEPT !.images[i] = None,
                            !.relations = [p \in Pair |-> IF p[2] = i THEN None ELSE @[p]],
                            !.strengths = {x \in @ : x.image # i}]
    /\ torn' = torn \ {i}
    /\ short' = [kind |-> "delete", image |-> i, text |-> None, at |-> "unlink"]
    /\ lock' = "short"
    /\ UNCHANGED <<stage, loaded, cut, tasks, crashes>>

Unlink ==
    /\ At("delete", "unlink")
    /\ live' = [live EXCEPT !.imageFiles = @ \ {short.image}]
    /\ Goto("index")
    /\ UNCHANGED <<stage, lock, loaded, cut, torn, tasks, shorts, crashes>>

\* link_asset on a document; a relation that exists keeps its calibration.
Link(d, i) ==
    /\ Begins
    /\ live.documents[d] # None
    /\ live.images[i] # None
    /\ live' = [live EXCEPT !.relations[<<d, i>>] =
                  IF @ = None THEN [mode |-> "uniform", vector |-> None, fp |-> None, of |-> <<>>] ELSE @]
    /\ UNCHANGED <<stage, short, lock, loaded, cut, torn, tasks, crashes>>

\* unlink_asset; the strengths go by cascade.
Unbind(d, i) ==
    /\ Begins
    /\ live.relations[<<d, i>>] # None
    /\ live' = [live EXCEPT !.relations[<<d, i>>] = None,
                            !.strengths = {x \in @ : ~(x.image = i /\ x.chunk \in live.documents[d].chunks)}]
    /\ UNCHANGED <<stage, short, lock, loaded, cut, torn, tasks, crashes>>

\* What a job that ends early leaves behind.
Cuts == cut \/ At("upload", "index") \/ At("delete", "unlink") \/ At("delete", "index")
Torn == IF At("upload", "describe") /\ live.images[short.image] = <<>>
        THEN torn \union {short.image} ELSE torn

\* Mutant: a failed job keeps the lock.
FailsLocked ==
    /\ short # None
    /\ short' = None
    /\ UNCHANGED <<live, stage, lock, loaded, cut, torn, tasks, shorts, crashes>>

\* An error: the provider refuses, too many descriptions, the disk is full.
ShortFails ==
    /\ short # None
    /\ cut' = Cuts
    /\ torn' = Torn
    /\ short' = None
    /\ lock' = "free"
    /\ UNCHANGED <<live, stage, loaded, tasks, shorts, crashes>>

Evict ==
    /\ loaded
    /\ lock # "short"
    /\ loaded' = FALSE
    /\ UNCHANGED <<live, stage, short, lock, cut, torn, tasks, shorts, crashes>>

\* The process ends anywhere and starts again: the task is parked, its stage kept
\* only when it was noted as ready.
Crash ==
    /\ crashes < MaxCrashes
    /\ crashes' = crashes + 1
    /\ cut' = Cuts
    /\ torn' = Torn
    /\ short' = None
    /\ lock' = "free"
    /\ loaded' = FALSE
    /\ UNCHANGED <<live, stage, tasks, shorts>>

Empty ==
    [bound |-> FirstBinding, documents |-> [d \in Document |-> None], next |-> 1, sources |-> {},
     images |-> [i \in Image |-> None], relations |-> [p \in Pair |-> None], strengths |-> {},
     generation |-> FALSE, vectors |-> [c \in Chunk |-> None], documentFiles |-> {},
     imageFiles |-> {}, chunkIndex |-> {}, mediaIndex |-> {}]

Init ==
    /\ live = Empty
    /\ stage = None /\ short = None
    /\ lock = "free" /\ loaded = FALSE
    /\ cut = FALSE /\ torn = {}
    /\ tasks = 0 /\ shorts = 0 /\ crashes = 0

Next ==
    \/ \E o \in Operations, f \in Fingerprint : Work(o, f)
    \/ Resume \/ Publish \/ Abandon \/ Load \/ Evict
    \/ \E i \in Image, t \in Text : Upload(i, t)
    \/ Register \/ Describe \/ Answer
    \/ \E i \in Image : Delete(i)
    \/ Unlink
    \/ \E d \in Document, i \in Image : Link(d, i) \/ Unbind(d, i)
    \/ ShortFails \/ Crash

Spec == Init /\ [][Next]_vars

(***************************************************************************)
(* Properties.                                                             *)
(***************************************************************************)
\* The variables have their types.
TypeOK ==
    /\ live \in Library
    /\ stage \in Library \union {None}
    /\ short \in ShortJob \union {None}
    /\ lock \in {"free", "task", "short"}
    /\ loaded \in BOOLEAN /\ cut \in BOOLEAN
    /\ torn \subseteq Image
    /\ (lock = "short") = (short # None)
    /\ lock = "task" => stage # None

\* A query is embedded by the bound provider, so everything it is compared with
\* was too: each active chunk has a vector of the active generation and no other
\* chunk has one; a description has a vector of the binding or none; a calibrated
\* relation has the binding's vector, and its strengths are of that binding and of
\* the descriptions the relation was calibrated for (clones of a generation,
\* cascades, and replace_all_embeddings, storage.py).
OneProvider ==
    /\ \A c \in Chunk : live.vectors[c] = IF c \in Active(live) THEN live.bound ELSE None
    /\ Active(live) # {} => live.generation
    /\ \A i \in Images(live) : \A n \in 1 .. Len(live.images[i]) :
           live.images[i][n].fp \in {live.bound, None}
    /\ \A p \in Relations(live) : live.relations[p].mode = "calibrated" =>
           /\ live.relations[p].vector = live.bound
           /\ \A x \in live.strengths :
                 x.image = p[2] /\ x.chunk \in live.documents[p[1]].chunks =>
                     x.fp = live.bound /\ x.of = live.relations[p].of

\* Unless a short job is under way or ended before its rebuild, the current indexes
\* hold exactly the vectors of the database (indexes.rebuild after every change).
IndexFresh ==
    short = None /\ ~cut =>
        /\ loaded => live.chunkIndex = ChunkVectors(live)
        /\ live.mediaIndex = MediaVectors(live) \/ (~loaded /\ live.chunkIndex = {})

\* Every row has its file at every moment, every document its source row, and no
\* source row outlives its last document: files are written before rows and removed
\* after them, and a source shared by two documents stays with the second.
Backed ==
    /\ live.sources = {live.documents[d].source : d \in Documents(live)}
    /\ live.sources \subseteq live.documentFiles
    /\ Images(live) \subseteq live.imageFiles

\* A database at rest passes its own validation, so that no task on it is refused
\* for what an earlier one wrote: uploads that ended early are repaired by the next
\* load or the next task's copy.
Sound == short = None /\ torn = {} => Valid(live)
=============================================================================
