----------------------- MODULE KnowledgeContent_proofs -----------------------
(***************************************************************************)
(* Proofs about the contents of a text/media library, for any number of    *)
(* documents, images, chunks and providers.                                *)
(*                                                                         *)
(* Good(l) says that a library, live or staged, is well formed.  The       *)
(* lemmas show of each operation, taken alone, that it makes a good        *)
(* library of a good one; the last part shows that every step of a task,   *)
(* an upload or a deletion is such an operation, wherever it is cut off.   *)
(***************************************************************************)
EXTENDS KnowledgeContent, SequenceTheorems, TLAPS

-----------------------------------------------------------------------------
\* Sequences of descriptions and of texts.

\* A function on 1 .. n is a sequence of length n.
LEMMA Tabulated ==
  ASSUME NEW S, NEW n \in Nat, NEW s \in [1 .. n -> S]
  PROVE  s \in Seq(S) /\ Len(s) = n
<1>1. s \in Seq(S)
  BY SeqDef
<1>2. DOMAIN s = 1 .. Len(s) /\ Len(s) \in Nat
  BY <1>1, LenProperties
<1> QED BY <1>1, <1>2

\* The texts of an image.
LEMMA TextsType ==
  ASSUME NEW l \in Library, NEW i \in Images(l)
  PROVE  Texts(l, i) \in Seq(Text) /\ Len(Texts(l, i)) = Len(l.images[i])
<1>1. l.images[i] \in Seq(Description)
  BY DEF Images, Library
<1>2. Len(l.images[i]) \in Nat /\ \A n \in 1 .. Len(l.images[i]) : l.images[i][n] \in Description
  BY <1>1, LenProperties
<1>3. Texts(l, i) \in [1 .. Len(l.images[i]) -> Text]
  BY <1>2 DEF Texts, Description
<1> QED BY <1>2, <1>3, Tabulated

\* Descriptions made of texts.
LEMMA EmbeddedType ==
  ASSUME NEW texts \in Seq(Text), NEW f \in Fingerprint \union {None}
  PROVE  /\ Embedded(texts, f) \in Seq(Description)
         /\ Len(Embedded(texts, f)) = Len(texts)
         /\ \A n \in 1 .. Len(texts) : Embedded(texts, f)[n] = [text |-> texts[n], fp |-> f]
<1>1. Len(texts) \in Nat /\ \A n \in 1 .. Len(texts) : texts[n] \in Text
  BY LenProperties
<1>2. Embedded(texts, f) \in [1 .. Len(texts) -> Description]
  BY <1>1 DEF Embedded, Description
<1> QED BY <1>1, <1>2, Tabulated DEF Embedded

\* All of them have the vectors of f.
LEMMA EmbeddedBy ==
  ASSUME NEW texts \in Seq(Text), NEW f \in Fingerprint \union {None}
  PROVE  /\ Embedded(texts, f) \in Seq(Description)
         /\ \A n \in 1 .. Len(Embedded(texts, f)) : Embedded(texts, f)[n].fp = f
<1>1. /\ Embedded(texts, f) \in Seq(Description)
      /\ Len(Embedded(texts, f)) = Len(texts)
  BY EmbeddedType
<1>2. ASSUME NEW n \in 1 .. Len(texts) PROVE Embedded(texts, f)[n].fp = f
  BY DEF Embedded
<1> QED BY <1>1, <1>2

-----------------------------------------------------------------------------
\* Well-formed libraries.

Backing(l) ==
  /\ l.sources = {l.documents[d].source : d \in Documents(l)}
  /\ l.sources \subseteq l.documentFiles
  /\ Images(l) \subseteq l.imageFiles

Related(l) == \A d \in Document, i \in Image :
                l.relations[<<d, i>>] # None => l.documents[d] # None /\ l.images[i] # None

Numbered(l) ==
  /\ \A d \in Documents(l) : \A c \in l.documents[d].chunks : c < l.next
  /\ \A d, e \in Documents(l) : d # e => l.documents[d].chunks \cap l.documents[e].chunks = {}
  /\ \A x \in l.strengths : x.chunk < l.next

Vectored(l) ==
  /\ \A c \in Chunk : l.vectors[c] = IF c \in Active(l) THEN l.bound ELSE None
  /\ Active(l) # {} => l.generation
  /\ \A i \in Images(l) : \A n \in 1 .. Len(l.images[i]) : l.images[i][n].fp \in {l.bound, None}

Fits(l, d, i) ==
  l.relations[<<d, i>>] # None /\ l.relations[<<d, i>>].mode = "calibrated" =>
    /\ l.relations[<<d, i>>].vector = l.bound
    /\ \A x \in l.strengths :
         x.image = i /\ x.chunk \in l.documents[d].chunks =>
           x.fp = l.bound /\ x.of = l.relations[<<d, i>>].of

Fitting(l) == \A d \in Document, i \in Image : Fits(l, d, i)

Good(l) == /\ l \in Library
           /\ Backing(l) /\ Related(l) /\ Numbered(l) /\ Vectored(l) /\ Fitting(l)

-----------------------------------------------------------------------------
\* Chunks of a document are replaced.

Fresh(l) == l.next .. l.next + ChunksEach - 1
NewRow(l, s) == [source |-> s, chunks |-> Fresh(l)]

\* What a replacement of the chunks of d changes.
IsChunked(r, l, d, s) ==
  /\ r \in Library
  /\ r.bound = l.bound /\ r.sources = l.sources /\ r.images = l.images
  /\ r.relations = l.relations /\ r.generation = TRUE
  /\ r.documentFiles = l.documentFiles /\ r.imageFiles = l.imageFiles
  /\ r.documents = [l.documents EXCEPT ![d] = NewRow(l, s)]
  /\ NewRow(l, s) \in DocumentRow /\ Fresh(l) \subseteq Chunk
  /\ r.next = l.next + ChunksEach
  /\ r.strengths = {x \in l.strengths : l.documents[d] = None
                                          \/ x.chunk \notin l.documents[d].chunks}
  /\ \A c \in Chunk : r.vectors[c] = IF c \in Fresh(l) THEN l.bound
                                     ELSE IF c \in Active(r) THEN l.vectors[c] ELSE None

\* What chunking a document makes of a library, field by field.
LEMMA ChunkedFields ==
  ASSUME NEW l \in Library, NEW d \in Document, NEW s \in Source, Room(l)
  PROVE  IsChunked(Chunked(l, d, s), l, d, s)
<1> DEFINE fresh == l.next .. l.next + ChunksEach - 1
           row == [source |-> s, chunks |-> fresh]
           kept == {x \in l.strengths : l.documents[d] = None
                                          \/ x.chunk \notin l.documents[d].chunks}
           base == [l EXCEPT !.documents[d] = row, !.next = @ + ChunksEach, !.strengths = kept]
           moved == Cloned(base)
           r == Chunked(l, d, s)
<1>1. fresh \subseteq Chunk /\ row \in DocumentRow /\ l.next + ChunksEach \in 1 .. MaxChunk + 1
  BY ChunkAssumption DEF Room, Chunk, DocumentRow, Library
<1>2. /\ base \in Library
      /\ base.bound = l.bound /\ base.sources = l.sources /\ base.images = l.images
      /\ base.relations = l.relations /\ base.vectors = l.vectors
      /\ base.documentFiles = l.documentFiles /\ base.imageFiles = l.imageFiles
      /\ base.documents = [l.documents EXCEPT ![d] = row]
      /\ base.next = l.next + ChunksEach /\ base.strengths = kept
  <2> HIDE DEF row
  <2> QED BY <1>1 DEF Library
<1> HIDE DEF base
<1>3. /\ moved \in Library
      /\ moved.bound = base.bound /\ moved.sources = base.sources /\ moved.images = base.images
      /\ moved.relations = base.relations /\ moved.documents = base.documents
      /\ moved.documentFiles = base.documentFiles /\ moved.imageFiles = base.imageFiles
      /\ moved.next = base.next /\ moved.strengths = base.strengths
      /\ \A c \in Chunk : moved.vectors[c] = IF c \in Active(base) THEN base.vectors[c] ELSE None
  BY <1>2 DEF Library, Cloned
<1> HIDE DEF moved
<1>4. r = [moved EXCEPT !.generation = TRUE,
                        !.vectors = [c \in Chunk |-> IF c \in fresh THEN l.bound ELSE @[c]]]
  BY DEF Chunked, moved, base
<1>5. /\ r \in Library
      /\ r.bound = moved.bound /\ r.sources = moved.sources /\ r.images = moved.images
      /\ r.relations = moved.relations /\ r.documents = moved.documents /\ r.generation = TRUE
      /\ r.documentFiles = moved.documentFiles /\ r.imageFiles = moved.imageFiles
      /\ r.next = moved.next /\ r.strengths = moved.strengths
      /\ \A c \in Chunk : r.vectors[c] = IF c \in fresh THEN l.bound ELSE moved.vectors[c]
  <2> HIDE DEF r
  <2>1. l.bound \in Fingerprint
    BY DEF Library
  <2> QED BY <1>3, <1>4, <2>1 DEF Library
<1>6. Active(r) = Active(base)
  BY <1>3, <1>5 DEF Active, Documents
<1> QED BY <1>1, <1>2, <1>3, <1>5, <1>6 DEF IsChunked, Fresh, NewRow

\* The parts of Good that speak of chunks and relations.
Consistent(l) == Related(l) /\ Numbered(l) /\ Vectored(l) /\ Fitting(l)

\* A library that is chunked anew stays consistent.
LEMMA ChunkedKeeps ==
  ASSUME NEW l \in Library, Consistent(l), NEW d \in Document, NEW s \in Source, Room(l)
  PROVE  Consistent(Chunked(l, d, s))
<1> DEFINE r == Chunked(l, d, s)
           row == NewRow(l, s)
<1>0. IsChunked(r, l, d, s)
  BY ChunkedFields
<1> HIDE DEF r
<1>1. /\ r \in Library
      /\ r.bound = l.bound /\ r.images = l.images
      /\ r.relations = l.relations /\ r.generation = TRUE
      /\ r.documents = [l.documents EXCEPT ![d] = row]
      /\ row \in DocumentRow /\ Fresh(l) \subseteq Chunk
      /\ r.next = l.next + ChunksEach
      /\ r.strengths = {x \in l.strengths : l.documents[d] = None
                                              \/ x.chunk \notin l.documents[d].chunks}
      /\ \A c \in Chunk : r.vectors[c] = IF c \in Fresh(l) THEN l.bound
                                         ELSE IF c \in Active(r) THEN l.vectors[c] ELSE None
  BY <1>0 DEF IsChunked
<1>2. /\ row # None /\ row.chunks = Fresh(l)
      /\ l.next \in Nat /\ ChunksEach \in Nat \ {0} /\ Fresh(l) \subseteq Nat
      /\ \A c \in Fresh(l) : ~(c < l.next) /\ c < l.next + ChunksEach
  BY <1>1, NoneAssumption, ChunkAssumption DEF Library, Fresh, NewRow
<1>3. /\ \A e \in Document : r.documents[e] = IF e = d THEN row ELSE l.documents[e]
      /\ \A e \in Documents(l) : l.documents[e].chunks \subseteq Nat
      /\ \A x \in l.strengths : x.chunk \in Nat
  <2>1. \A e \in Documents(l) : l.documents[e].chunks \subseteq Chunk
    BY DEF Documents, Library, DocumentRow
  <2>2. \A x \in l.strengths : x.chunk \in Chunk
    BY DEF Library, Strength
  <2>3. Chunk \subseteq Nat
    BY ChunkAssumption DEF Chunk
  <2>4. \A e \in Document : r.documents[e] = IF e = d THEN row ELSE l.documents[e]
    BY <1>1 DEF Library
  <2> QED BY <2>1, <2>2, <2>3, <2>4
<1> HIDE DEF row
<1>4. Documents(r) = Documents(l) \union {d}
  BY <1>2, <1>3 DEF Documents
<1>5. Related(r)
  BY <1>1, <1>2, <1>3 DEF Consistent, Related
<1>6. Numbered(r)
  <2>1. ASSUME NEW e \in Documents(r), NEW c \in r.documents[e].chunks PROVE c < r.next
    <3>1. CASE e = d
      BY <1>1, <1>2, <1>3, <2>1, <3>1
    <3>2. CASE e # d
      <4>1. e \in Documents(l) /\ c \in l.documents[e].chunks /\ e \in Document
        BY <1>3, <1>4, <2>1, <3>2 DEF Documents
      <4>2. c < l.next /\ c \in Nat
        BY <1>3, <4>1 DEF Consistent, Numbered
      <4> QED BY <1>1, <1>2, <4>2
    <3> QED BY <3>1, <3>2
  <2>2. ASSUME NEW e \in Documents(r), NEW f \in Documents(r), e # f
        PROVE  r.documents[e].chunks \cap r.documents[f].chunks = {}
    <3>1. ASSUME NEW g \in Documents(l), g # d
          PROVE  /\ r.documents[g].chunks = l.documents[g].chunks
                 /\ r.documents[g].chunks \cap Fresh(l) = {}
      BY <1>2, <1>3, <3>1 DEF Consistent, Numbered, Documents
    <3>2. r.documents[d].chunks = Fresh(l)
      BY <1>2, <1>3
    <3> QED BY <1>4, <2>2, <3>1, <3>2 DEF Consistent, Numbered
  <2>3. \A x \in r.strengths : x.chunk < r.next
    BY <1>1, <1>2, <1>3 DEF Consistent, Numbered
  <2> QED BY <2>1, <2>2, <2>3 DEF Numbered
<1>7. Vectored(r)
  <2>1. ASSUME NEW c \in Chunk, c \in Active(r), c \notin Fresh(l) PROVE c \in Active(l)
    <3>1. PICK e \in Documents(r) : c \in r.documents[e].chunks
      BY <2>1 DEF Active
    <3>2. e \in Documents(l) /\ r.documents[e] = l.documents[e]
      BY <1>2, <1>3, <1>4, <2>1, <3>1 DEF Documents
    <3> QED BY <3>1, <3>2 DEF Active
  <2>2. \A c \in Fresh(l) : c \in Active(r)
    BY <1>2, <1>3, <1>4 DEF Active
  <2>3. Images(r) = Images(l)
    BY <1>1 DEF Images
  <2> QED BY <1>1, <2>1, <2>2, <2>3 DEF Consistent, Vectored
<1>8. Fitting(r)
  <2> SUFFICES ASSUME NEW e \in Document, NEW i \in Image PROVE Fits(r, e, i)
    BY DEF Fitting
  <2>1. Fits(l, e, i)
    BY DEF Consistent, Fitting
  <2>2. CASE e = d
    BY <1>1, <1>2, <1>3, <2>1, <2>2 DEF Fits, Consistent, Numbered
  <2>3. CASE e # d
    BY <1>1, <1>3, <2>1, <2>3 DEF Fits
  <2> QED BY <2>2, <2>3
<1> QED BY <1>5, <1>6, <1>7, <1>8 DEF Consistent, r

\* A document that is installed brings its source and the source's file.
LEMMA InstalledGood ==
  ASSUME NEW l, Good(l), NEW d \in Document, l.documents[d] = None, NEW s \in Source, Room(l)
  PROVE  LET r == Installed(l, d, s)
         IN /\ Good(r) /\ r.bound = l.bound /\ r.images = l.images
            /\ r.relations = l.relations /\ r.documents[d] # None
            /\ \A e \in Document : l.documents[e] # None => r.documents[e] # None
<1> DEFINE base == [l EXCEPT !.sources = @ \union {s}, !.documentFiles = @ \union {s}]
           row == NewRow(base, s)
           r == Chunked(base, d, s)
<1>1. l \in Library
  BY DEF Good
<1>2. /\ base \in Library
      /\ base.bound = l.bound /\ base.documents = l.documents /\ base.next = l.next
      /\ base.sources = l.sources \union {s} /\ base.documentFiles = l.documentFiles \union {s}
      /\ base.images = l.images /\ base.relations = l.relations
      /\ base.strengths = l.strengths /\ base.generation = l.generation
      /\ base.vectors = l.vectors /\ base.imageFiles = l.imageFiles
  BY <1>1 DEF Library
<1> HIDE DEF base
<1>3. Consistent(base) /\ Room(base)
  BY <1>2 DEF Good, Consistent, Related, Numbered, Vectored, Fitting, Fits, Documents,
     Images, Active, Room
<1>4. /\ r \in Library /\ Consistent(r)
      /\ r.bound = l.bound /\ r.images = l.images /\ r.relations = l.relations
      /\ r.sources = l.sources \union {s} /\ r.documentFiles = l.documentFiles \union {s}
      /\ r.imageFiles = l.imageFiles
      /\ r.documents = [l.documents EXCEPT ![d] = row] /\ row # None /\ row.source = s
  <2>1. IsChunked(r, base, d, s) /\ Consistent(r)
    BY <1>2, <1>3, ChunkedFields, ChunkedKeeps
  <2> HIDE DEF r
  <2> QED BY <1>2, <2>1, NoneAssumption DEF IsChunked, NewRow
<1> HIDE DEF r, row
<1>5. \A e \in Document : r.documents[e] = IF e = d THEN row ELSE l.documents[e]
  BY <1>1, <1>4 DEF Library
<1>6. Backing(r)
  <2>1. Documents(r) = Documents(l) \union {d} /\ Images(r) = Images(l)
    BY <1>4, <1>5 DEF Documents, Images
  <2>2. {r.documents[e].source : e \in Documents(r)}
          = {l.documents[e].source : e \in Documents(l)} \union {s}
    BY <1>4, <1>5, <2>1 DEF Documents
  <2> QED BY <1>4, <2>1, <2>2 DEF Good, Backing
<1> QED BY <1>4, <1>5, <1>6 DEF Good, Consistent, Installed, r, base

\* An entry's new chunks leave its document's source alone.
LEMMA RechunkedGood ==
  ASSUME NEW l, Good(l), NEW d \in Document, l.documents[d] # None, Room(l)
  PROVE  Good(Chunked(l, d, l.documents[d].source))
<1> DEFINE s == l.documents[d].source
           row == NewRow(l, s)
           r == Chunked(l, d, s)
<1>1. l \in Library /\ Consistent(l) /\ Backing(l)
  BY DEF Good, Consistent
<1>2. s \in Source
  BY <1>1 DEF Library, DocumentRow
<1>3. /\ r \in Library /\ Consistent(r)
      /\ r.images = l.images /\ r.sources = l.sources
      /\ r.documentFiles = l.documentFiles /\ r.imageFiles = l.imageFiles
      /\ r.documents = [l.documents EXCEPT ![d] = row] /\ row # None /\ row.source = s
  <2>1. IsChunked(r, l, d, s) /\ Consistent(r)
    BY <1>1, <1>2, ChunkedFields, ChunkedKeeps
  <2> HIDE DEF r
  <2> QED BY <2>1, NoneAssumption DEF IsChunked, NewRow
<1> HIDE DEF r, row
<1>4. \A e \in Document : r.documents[e] = IF e = d THEN row ELSE l.documents[e]
  BY <1>1, <1>3 DEF Library
<1>5. Backing(r)
  <2>1. Documents(r) = Documents(l) /\ Images(r) = Images(l)
    BY <1>3, <1>4 DEF Documents, Images
  <2>2. {r.documents[e].source : e \in Documents(r)} = {l.documents[e].source : e \in Documents(l)}
    BY <1>3, <1>4, <2>1
  <2> QED BY <1>1, <1>3, <2>1, <2>2 DEF Backing
<1> QED BY <1>3, <1>5 DEF Good, Consistent, r

-----------------------------------------------------------------------------
\* Calibrations.

\* The strengths of one relation.
Strengths(l, d, i, f, texts) ==
  {[chunk |-> c, image |-> i, fp |-> f, of |-> texts] : c \in l.documents[d].chunks}

\* Strengths of a relation are those of its image and its document's chunks.
LEMMA StrengthsType ==
  ASSUME NEW l \in Library, NEW d \in Documents(l), NEW i \in Image,
         NEW f \in Fingerprint, NEW texts \in Seq(Text)
  PROVE  /\ Strengths(l, d, i, f, texts) \subseteq Strength
         /\ \A x \in Strengths(l, d, i, f, texts) :
              x.image = i /\ x.chunk \in l.documents[d].chunks /\ x.fp = f /\ x.of = texts
<1>1. l.documents[d].chunks \subseteq Chunk
  BY DEF Documents, Library, DocumentRow
<1> QED BY <1>1 DEF Strengths, Strength

\* Only strengths and relations change.
SameBut(r, l) ==
  /\ r \in Library
  /\ r.bound = l.bound /\ r.documents = l.documents /\ r.next = l.next
  /\ r.sources = l.sources /\ r.images = l.images
  /\ r.generation = l.generation /\ r.vectors = l.vectors
  /\ r.documentFiles = l.documentFiles /\ r.imageFiles = l.imageFiles

\* Such a change leaves what Backing and Vectored speak of.
LEMMA SameKeeps ==
  ASSUME NEW l, NEW r, SameBut(r, l)
  PROVE  /\ Backing(l) => Backing(r)
         /\ Vectored(l) => Vectored(r)
         /\ Documents(r) = Documents(l) /\ Images(r) = Images(l)
BY DEF SameBut, Backing, Vectored, Documents, Images, Active

\* Calibrating a relation leaves the library consistent and the rest as it was.
LEMMA CalibratedKeeps ==
  ASSUME NEW l \in Library, Consistent(l), NEW d \in Documents(l), NEW i \in Images(l),
         NEW mode \in {"uniform", "calibrated"}, NEW vector \in Fingerprint \union {None},
         mode = "calibrated" => vector = l.bound
  PROVE  LET r == Calibrated(l, <<d, i>>, mode, vector, l.bound)
         IN SameBut(r, l) /\ Consistent(r)
<1> DEFINE texts == Texts(l, i)
           rel == [mode |-> mode, vector |-> vector, fp |-> l.bound, of |-> texts]
           kept == {x \in l.strengths : ~(x.image = i /\ x.chunk \in l.documents[d].chunks)}
           new == Strengths(l, d, i, l.bound, texts)
           r == Calibrated(l, <<d, i>>, mode, vector, l.bound)
<1>1. /\ texts \in Seq(Text) /\ l.bound \in Fingerprint
      /\ <<d, i>> \in Pair /\ d \in Document /\ i \in Image
      /\ l.documents[d] # None /\ l.images[i] # None
  BY TextsType DEF Library, Documents, Images, Pair
<1>2. rel \in Relation /\ rel # None /\ rel.mode = mode /\ rel.vector = vector /\ rel.of = texts
  BY <1>1, NoneAssumption DEF Relation
<1>3. /\ new \subseteq Strength
      /\ \A x \in new : x.image = i /\ x.chunk \in l.documents[d].chunks
                        /\ x.fp = l.bound /\ x.of = texts
  BY <1>1, StrengthsType
<1>4. r = [l EXCEPT !.relations[<<d, i>>] = rel, !.strengths = kept \union new]
  BY DEF Calibrated, Fitted, Strengths
<1> HIDE DEF new, rel, r, texts
<1>5. kept \union new \subseteq Strength
  BY <1>3 DEF Library
<1>6. /\ SameBut(r, l)
      /\ r.relations = [l.relations EXCEPT ![<<d, i>>] = rel]
      /\ r.strengths = kept \union new
  <2> HIDE DEF kept
  <2> QED BY <1>1, <1>2, <1>4, <1>5 DEF SameBut, Library
<1>7. \A e \in Document, j \in Image :
        r.relations[<<e, j>>] = IF e = d /\ j = i THEN rel ELSE l.relations[<<e, j>>]
  BY <1>1, <1>6 DEF Library, Pair
<1>8. Related(r)
  BY <1>1, <1>6, <1>7 DEF Related, Consistent, SameBut
<1>9. Numbered(r)
  <2>1. \A x \in new : x.chunk < l.next
    BY <1>3 DEF Consistent, Numbered
  <2>2. \A x \in r.strengths : x.chunk < r.next
    BY <1>6, <2>1 DEF Consistent, Numbered, SameBut
  <2> QED BY <1>6, <2>2 DEF Consistent, Numbered, SameBut, Documents
<1>10. Fitting(r)
  <2> SUFFICES ASSUME NEW e \in Document, NEW j \in Image PROVE Fits(r, e, j)
    BY DEF Fitting
  <2>1. Fits(l, e, j)
    BY DEF Consistent, Fitting
  <2>2. CASE e = d /\ j = i
    BY <1>2, <1>3, <1>6, <1>7, <2>2 DEF Fits, SameBut
  <2>3. CASE ~(e = d /\ j = i)
    <3>1. r.relations[<<e, j>>] = l.relations[<<e, j>>]
      BY <1>7, <2>3
    <3>2. ASSUME NEW x \in new, l.relations[<<e, j>>] # None
          PROVE  ~(x.image = j /\ x.chunk \in l.documents[e].chunks)
      <4>1. e \in Documents(l)
        BY <3>2 DEF Consistent, Related, Documents
      <4> QED BY <1>3, <2>3, <3>2, <4>1 DEF Consistent, Numbered
    <3> QED BY <1>6, <2>1, <3>1, <3>2 DEF Fits, SameBut
  <2> QED BY <2>2, <2>3
<1>11. Vectored(r)
  BY <1>6, SameKeeps DEF Consistent
<1> QED BY <1>6, <1>8, <1>9, <1>10, <1>11 DEF Consistent, r

\* All relations in P at once, while the others fit already.
LEMMA CalibratedAllKeeps ==
  ASSUME NEW l \in Library, Related(l), Numbered(l), Vectored(l),
         NEW P, P \subseteq Relations(l),
         \A d \in Document, i \in Image : <<d, i>> \in P \/ Fits(l, d, i)
  PROVE  LET r == CalibratedAll(l, P, l.bound)
         IN SameBut(r, l) /\ Consistent(r)
<1> DEFINE rel(p) == [mode |-> l.relations[p].mode, vector |-> l.bound, fp |-> l.bound,
                      of |-> Texts(l, p[2])]
           kept == {x \in l.strengths : \A p \in P :
                      ~(x.image = p[2] /\ x.chunk \in l.documents[p[1]].chunks)}
           new(p) == Strengths(l, p[1], p[2], l.bound, Texts(l, p[2]))
           all == UNION {new(p) : p \in P}
           relations == [p \in Pair |-> IF p \in P THEN rel(p) ELSE l.relations[p]]
           r == CalibratedAll(l, P, l.bound)
<1>1. ASSUME NEW p \in P
      PROVE  /\ p \in Pair /\ p[1] \in Document /\ p[2] \in Image /\ p = <<p[1], p[2]>>
             /\ p[1] \in Documents(l) /\ p[2] \in Images(l)
             /\ l.relations[p] # None /\ l.relations[p] \in Relation
             /\ Texts(l, p[2]) \in Seq(Text)
  <2>1. /\ p \in Pair /\ p[1] \in Document /\ p[2] \in Image /\ p = <<p[1], p[2]>>
        /\ l.relations[p] # None /\ l.relations[p] \in Relation
    BY DEF Relations, Pair, Library
  <2>2. p[1] \in Documents(l) /\ p[2] \in Images(l)
    BY <2>1 DEF Related, Documents, Images
  <2> QED BY <2>1, <2>2, TextsType
<1>2. l.bound \in Fingerprint
  BY DEF Library
<1>3. ASSUME NEW p \in P
      PROVE  /\ rel(p) \in Relation /\ rel(p) # None /\ rel(p).mode = l.relations[p].mode
             /\ rel(p).vector = l.bound /\ rel(p).of = Texts(l, p[2])
  BY <1>1, <1>2, NoneAssumption DEF Relation
<1>4. ASSUME NEW p \in P
      PROVE  /\ new(p) \subseteq Strength
             /\ \A x \in new(p) : /\ x.image = p[2] /\ x.chunk \in l.documents[p[1]].chunks
                                  /\ x.fp = l.bound /\ x.of = Texts(l, p[2])
  BY <1>1, <1>2, StrengthsType
<1>5. r = [l EXCEPT !.relations = relations, !.strengths = kept \union all]
  <2>1. ASSUME NEW p \in P
        PROVE  Fitted([l EXCEPT !.strengths = {}], p, l.bound, Texts(l, p[2])) = new(p)
    <3>1. /\ [l EXCEPT !.strengths = {}].strengths = {}
          /\ [l EXCEPT !.strengths = {}].documents = l.documents
      BY DEF Library
    <3> QED BY <3>1 DEF Fitted, Strengths
  <2>2. UNION {Fitted([l EXCEPT !.strengths = {}], p, l.bound, Texts(l, p[2])) : p \in P} = all
    <3> HIDE DEF new
    <3> QED BY <2>1
  <2> HIDE DEF all
  <2> QED BY <2>2 DEF CalibratedAll
<1> HIDE DEF new, rel
<1>6. relations \in [Pair -> Relation \union {None}] /\ kept \union all \subseteq Strength
  BY <1>3, <1>4 DEF Library
<1>7. /\ SameBut(r, l)
      /\ r.relations = relations
      /\ r.strengths = kept \union all
  <2> HIDE DEF kept, all, relations, r
  <2> QED BY <1>5, <1>6 DEF SameBut, Library
<1>8. \A e \in Document, j \in Image :
        r.relations[<<e, j>>] = IF <<e, j>> \in P THEN rel(<<e, j>>) ELSE l.relations[<<e, j>>]
  BY <1>7 DEF Pair
<1> HIDE DEF r
<1>9. Related(r)
  BY <1>1, <1>7, <1>8 DEF Related, SameBut
<1>10. Numbered(r)
  <2>1. ASSUME NEW x \in all PROVE x.chunk < l.next
    <3>1. PICK p \in P : x \in new(p)
      OBVIOUS
    <3> QED BY <1>1, <1>4, <3>1 DEF Numbered
  <2>2. \A x \in r.strengths : x.chunk < r.next
    BY <1>7, <2>1 DEF Numbered, SameBut
  <2> QED BY <1>7, <2>2 DEF Numbered, SameBut, Documents
<1>11. Fitting(r)
  <2> SUFFICES ASSUME NEW e \in Document, NEW j \in Image,
                      r.relations[<<e, j>>] # None, r.relations[<<e, j>>].mode = "calibrated"
               PROVE  /\ r.relations[<<e, j>>].vector = r.bound
                      /\ \A x \in r.strengths :
                           x.image = j /\ x.chunk \in r.documents[e].chunks =>
                             x.fp = r.bound /\ x.of = r.relations[<<e, j>>].of
    BY DEF Fitting, Fits
  <2>1. e \in Documents(l) /\ r.bound = l.bound /\ r.documents = l.documents
    BY <1>7, <1>9 DEF Related, Documents, SameBut
  <2>2. ASSUME NEW x \in all, x.image = j, x.chunk \in l.documents[e].chunks
        PROVE  x \in new(<<e, j>>) /\ <<e, j>> \in P
    <3>1. PICK p \in P : x \in new(p)
      OBVIOUS
    <3>2. p[2] = j /\ x.chunk \in l.documents[p[1]].chunks /\ p[1] \in Documents(l)
      BY <1>1, <1>4, <2>2, <3>1
    <3>3. p[1] = e
      BY <2>1, <2>2, <3>2 DEF Numbered
    <3> QED BY <1>1, <3>1, <3>2, <3>3
  <2>3. CASE <<e, j>> \in P
    <3>1. r.relations[<<e, j>>].vector = l.bound /\ r.relations[<<e, j>>].of = Texts(l, j)
      BY <1>3, <1>8, <2>3
    <3>2. \A x \in kept : ~(x.image = j /\ x.chunk \in l.documents[e].chunks)
      BY <2>3
    <3>3. \A x \in all : x.image = j /\ x.chunk \in l.documents[e].chunks =>
            x.fp = l.bound /\ x.of = Texts(l, j)
      BY <1>4, <2>2
    <3> QED BY <1>7, <2>1, <3>1, <3>2, <3>3
  <2>4. CASE <<e, j>> \notin P
    <3>1. r.relations[<<e, j>>] = l.relations[<<e, j>>] /\ Fits(l, e, j)
      BY <1>8, <2>4
    <3>2. \A x \in all : ~(x.image = j /\ x.chunk \in l.documents[e].chunks)
      BY <2>2, <2>4
    <3> QED BY <1>7, <2>1, <3>1, <3>2 DEF Fits
  <2> QED BY <2>3, <2>4
<1>12. Vectored(r)
  BY <1>7, SameKeeps
<1> QED BY <1>7, <1>9, <1>10, <1>11, <1>12 DEF Consistent, r

-----------------------------------------------------------------------------
\* Indexes and opening.

\* Everything but the indexes.
SameRows(r, l) ==
  /\ r \in Library
  /\ r.bound = l.bound /\ r.documents = l.documents /\ r.next = l.next
  /\ r.sources = l.sources /\ r.images = l.images /\ r.relations = l.relations
  /\ r.strengths = l.strengths /\ r.generation = l.generation /\ r.vectors = l.vectors
  /\ r.documentFiles = l.documentFiles /\ r.imageFiles = l.imageFiles

\* The indexes do not matter to Good.
LEMMA SameRowsGood ==
  ASSUME NEW l, Good(l), NEW r, SameRows(r, l)
  PROVE  Good(r)
BY DEF Good, SameRows, Backing, Related, Numbered, Vectored, Fitting, Fits, Documents, Images,
   Active

\* Index entries are made of vectors there are.
LEMMA VectorsType ==
  ASSUME NEW l \in Library
  PROVE  /\ ChunkVectors(l) \subseteq Chunk \X Fingerprint
         /\ MediaVectors(l) \subseteq Image \X Text \X Fingerprint
<1>1. ChunkVectors(l) \subseteq Chunk \X Fingerprint
  <2>1. Active(l) \subseteq Chunk
    BY DEF Active, Documents, Library, DocumentRow
  <2> QED BY <2>1 DEF ChunkVectors, Library
<1>2. MediaVectors(l) \subseteq Image \X Text \X Fingerprint
  <2>1. ASSUME NEW i \in Images(l), NEW n \in 1 .. Len(l.images[i])
        PROVE  <<i, l.images[i][n].text, l.bound>> \in Image \X Text \X Fingerprint
    <3>1. i \in Image /\ l.images[i] \in Seq(Description) /\ l.bound \in Fingerprint
      BY DEF Images, Library
    <3>2. l.images[i][n] \in Description
      BY <3>1, LenProperties
    <3> QED BY <3>1, <3>2 DEF Description
  <2> QED BY <2>1 DEF MediaVectors
<1> QED BY <1>1, <1>2

\* Rebuilding the indexes keeps a library good and its rows as they are.
LEMMA RebuiltGood ==
  ASSUME NEW l, Good(l)
  PROVE  Good(Rebuilt(l)) /\ SameRows(Rebuilt(l), l)
<1> DEFINE chunks == ChunkVectors(l)
           media == MediaVectors(l)
           r == Rebuilt(l)
<1>1. l \in Library /\ chunks \subseteq Chunk \X Fingerprint
      /\ media \subseteq Image \X Text \X Fingerprint
  BY VectorsType DEF Good
<1>2. r = [l EXCEPT !.chunkIndex = chunks, !.mediaIndex = media]
  BY DEF Rebuilt
<1> HIDE DEF chunks, media, r
<1>3. SameRows(r, l)
  BY <1>1, <1>2 DEF SameRows, Library
<1> QED BY <1>3, SameRowsGood DEF r

\* The description of a file name.
LEMMA StemType ==
  ASSUME NEW i \in Image
  PROVE  /\ <<[text |-> Stem[i], fp |-> None]>> \in Seq(Description)
         /\ Len(<<[text |-> Stem[i], fp |-> None]>>) = 1
         /\ <<[text |-> Stem[i], fp |-> None]>>[1].fp = None
<1>1. [text |-> Stem[i], fp |-> None] \in Description
  BY TextAssumption DEF Description
<1> QED BY <1>1

\* Giving images without text their name as text keeps a library good.
LEMMA InitializedGood ==
  ASSUME NEW l, Good(l)
  PROVE  /\ Good(Initialized(l))
         /\ Initialized(l).bound = l.bound
         /\ Images(Initialized(l)) = Images(l) /\ Initialized(l).imageFiles = l.imageFiles
<1> DEFINE stem(i) == <<[text |-> Stem[i], fp |-> None]>>
           images == [i \in Image |-> IF l.images[i] = <<>> THEN stem(i) ELSE l.images[i]]
           r == Initialized(l)
<1>1. l \in Library
  BY DEF Good
<1>2. \A i \in Image : /\ stem(i) \in Seq(Description) /\ Len(stem(i)) = 1
                       /\ stem(i)[1].fp = None
  BY StemType
<1>3. r = [l EXCEPT !.images = images]
  BY DEF Initialized
<1> HIDE DEF stem
<1>4. images \in [Image -> Seq(Description) \union {None}]
  BY <1>1, <1>2 DEF Library
<1>5. \A i \in Image : /\ images[i] = None <=> l.images[i] = None
                       /\ images[i] # l.images[i] => Len(images[i]) = 1 /\ images[i][1].fp = None
  <2>1. <<>> \in Seq(Description)
    BY EmptySeq
  <2> QED BY <1>2, <2>1, NoneAssumption
<1> HIDE DEF images, r
<1>6. /\ r \in Library
      /\ r.bound = l.bound /\ r.documents = l.documents /\ r.next = l.next
      /\ r.sources = l.sources /\ r.images = images /\ r.relations = l.relations
      /\ r.strengths = l.strengths /\ r.generation = l.generation /\ r.vectors = l.vectors
      /\ r.documentFiles = l.documentFiles /\ r.imageFiles = l.imageFiles
  BY <1>1, <1>3, <1>4 DEF Library
<1>7. Documents(r) = Documents(l) /\ Images(r) = Images(l) /\ Active(r) = Active(l)
  BY <1>5, <1>6 DEF Documents, Images, Active
<1>8. Backing(r) /\ Related(r) /\ Numbered(r) /\ Fitting(r)
  BY <1>5, <1>6, <1>7 DEF Good, Backing, Related, Numbered, Fitting, Fits
<1>9. Vectored(r)
  <2>1. ASSUME NEW i \in Images(r), NEW n \in 1 .. Len(r.images[i])
        PROVE  r.images[i][n].fp \in {r.bound, None}
    <3>1. i \in Images(l) /\ i \in Image
      BY <1>7 DEF Images
    <3>2. CASE images[i] = l.images[i]
      BY <1>6, <3>1, <3>2 DEF Good, Vectored
    <3>3. CASE images[i] # l.images[i]
      BY <1>5, <1>6, <3>1, <3>3
    <3> QED BY <3>2, <3>3
  <2> QED BY <1>6, <1>7, <2>1 DEF Good, Vectored
<1> QED BY <1>6, <1>7, <1>8, <1>9 DEF Good, r

\* Opening a library keeps it good.
LEMMA LoadedGood ==
  ASSUME NEW l, Good(l)
  PROVE  Good(Loaded(l)) /\ Images(Loaded(l)) = Images(l) /\ Loaded(l).imageFiles = l.imageFiles
<1> DEFINE opened == Initialized(l)
<1>1. Good(opened) /\ Images(opened) = Images(l) /\ opened.imageFiles = l.imageFiles
  BY InitializedGood
<1>2. Loaded(l) = IF opened.chunkIndex = {} THEN Rebuilt(opened) ELSE opened
  BY DEF Loaded
<1> HIDE DEF opened
<1>3. Good(Rebuilt(opened)) /\ SameRows(Rebuilt(opened), opened)
  BY <1>1, RebuiltGood
<1> QED BY <1>1, <1>2, <1>3 DEF SameRows, Images

\* A staging copy of a good library is good.
LEMMA CopiedGood ==
  ASSUME NEW l, Good(l)
  PROVE  Good(Copied(l)) /\ Copied(l).bound = l.bound
<1> DEFINE bare == [l EXCEPT !.chunkIndex = {}, !.mediaIndex = {}]
<1>1. SameRows(bare, l)
  BY DEF Good, SameRows, Library
<1>2. Copied(l) = Initialized(bare)
  BY DEF Copied
<1> HIDE DEF bare
<1> QED BY <1>1, <1>2, SameRowsGood, InitializedGood DEF SameRows

-----------------------------------------------------------------------------
\* Documents go.

\* The sources of l that no document of r has any more.
Unused(r, l, D) ==
  {s \in l.sources : /\ \E d \in D : l.documents[d] # None /\ l.documents[d].source = s
                     /\ \A e \in Documents(r) : r.documents[e].source # s}

\* What the removal of the documents in D changes.
IsRemoved(r, l, D) ==
  /\ r \in Library
  /\ r.bound = l.bound /\ r.next = l.next /\ r.images = l.images
  /\ r.generation = l.generation /\ r.imageFiles = l.imageFiles
  /\ r.documents = [d \in Document |-> IF d \in D THEN None ELSE l.documents[d]]
  /\ r.relations = [p \in Pair |-> IF p[1] \in D THEN None ELSE l.relations[p]]
  /\ r.strengths = {x \in l.strengths : \A d \in D \intersect Documents(l) :
                                          x.chunk \notin l.documents[d].chunks}
  /\ \A c \in Chunk : r.vectors[c] = IF c \in Active(r) THEN l.vectors[c] ELSE None
  /\ r.sources = l.sources \ Unused(r, l, D)
  /\ r.documentFiles = l.documentFiles \ Unused(r, l, D)

\* What removing documents makes of a library, field by field.
LEMMA RemovedFields ==
  ASSUME NEW l \in Library, NEW D \in SUBSET Document
  PROVE  IsRemoved(Removed(l, D), l, D)
<1> DEFINE documents == [d \in Document |-> IF d \in D THEN None ELSE l.documents[d]]
           relations == [p \in Pair |-> IF p[1] \in D THEN None ELSE l.relations[p]]
           strengths == {x \in l.strengths : \A d \in D \intersect Documents(l) :
                                               x.chunk \notin l.documents[d].chunks}
           rest == [l EXCEPT !.documents = documents, !.relations = relations,
                             !.strengths = strengths]
           unused == {s \in l.sources :
                        /\ \E d \in D : l.documents[d] # None /\ l.documents[d].source = s
                        /\ \A e \in Documents(rest) : rest.documents[e].source # s}
           base == [rest EXCEPT !.sources = @ \ unused, !.documentFiles = @ \ unused]
           r == Cloned(base)
<1>1. documents \in [Document -> DocumentRow \union {None}]
      /\ relations \in [Pair -> Relation \union {None}] /\ strengths \subseteq Strength
  BY DEF Library
<1>2. /\ rest \in Library
      /\ rest.bound = l.bound /\ rest.next = l.next /\ rest.images = l.images
      /\ rest.generation = l.generation /\ rest.imageFiles = l.imageFiles
      /\ rest.documents = documents /\ rest.relations = relations
      /\ rest.strengths = strengths /\ rest.vectors = l.vectors
      /\ rest.sources = l.sources /\ rest.documentFiles = l.documentFiles
  <2> HIDE DEF documents, relations, strengths
  <2> QED BY <1>1 DEF Library
<1>3. Removed(l, D) = r
  <2>1. rest = [l EXCEPT
            !.documents = [d \in Document |-> IF d \in D THEN None ELSE @[d]],
            !.relations = [p \in Pair |-> IF p[1] \in D THEN None ELSE @[p]],
            !.strengths = {x \in @ : \A d \in D \intersect Documents(l) :
                                         x.chunk \notin l.documents[d].chunks}]
    OBVIOUS
  <2> HIDE DEF rest
  <2> QED BY <2>1 DEF Removed
<1> HIDE DEF rest
<1>4. /\ base \in Library
      /\ base.bound = l.bound /\ base.next = l.next /\ base.images = l.images
      /\ base.generation = l.generation /\ base.imageFiles = l.imageFiles
      /\ base.documents = documents /\ base.relations = relations
      /\ base.strengths = strengths /\ base.vectors = l.vectors
      /\ base.sources = l.sources \ unused /\ base.documentFiles = l.documentFiles \ unused
  <2> HIDE DEF unused, documents, relations, strengths
  <2> QED BY <1>2 DEF Library
<1> HIDE DEF base
<1>5. /\ r \in Library
      /\ r.bound = l.bound /\ r.next = l.next /\ r.images = l.images
      /\ r.generation = l.generation /\ r.imageFiles = l.imageFiles
      /\ r.documents = documents /\ r.relations = relations
      /\ r.strengths = strengths
      /\ r.sources = l.sources \ unused /\ r.documentFiles = l.documentFiles \ unused
      /\ \A c \in Chunk : r.vectors[c] = IF c \in Active(base) THEN l.vectors[c] ELSE None
  <2> HIDE DEF unused, documents, relations, strengths
  <2> QED BY <1>4 DEF Library, Cloned
<1>6. Documents(r) = Documents(rest) /\ Active(r) = Active(base) /\ r.documents = rest.documents
  <2> HIDE DEF documents, r
  <2> QED BY <1>2, <1>4, <1>5 DEF Documents, Active
<1>7. unused = Unused(r, l, D)
  <2> HIDE DEF r
  <2> QED BY <1>6 DEF Unused
<1> HIDE DEF r, unused
<1>8. IsRemoved(r, l, D)
  BY <1>5, <1>6, <1>7 DEF IsRemoved
<1> QED BY <1>3, <1>8

\* Removing documents keeps a library good.
LEMMA RemovedGood ==
  ASSUME NEW l, Good(l), NEW D \in SUBSET Document
  PROVE  Good(Removed(l, D))
<1> DEFINE r == Removed(l, D)
<1>1. l \in Library /\ IsRemoved(r, l, D)
  BY RemovedFields DEF Good
<1> HIDE DEF r
<1>2. \A d \in Document : r.documents[d] = IF d \in D THEN None ELSE l.documents[d]
  BY <1>1 DEF IsRemoved
<1>3. \A d \in Document, i \in Image :
        r.relations[<<d, i>>] = IF d \in D THEN None ELSE l.relations[<<d, i>>]
  BY <1>1 DEF IsRemoved, Pair
<1>4. Documents(r) = Documents(l) \ D /\ Images(r) = Images(l)
      /\ \A d \in Documents(r) : r.documents[d] = l.documents[d]
  BY <1>1, <1>2 DEF Documents, Images, IsRemoved
<1>5. r.strengths \subseteq l.strengths /\ r.bound = l.bound
  BY <1>1 DEF IsRemoved
<1>6. Backing(r)
  <2> DEFINE unused == Unused(r, l, D)
  <2>1. r.sources = l.sources \ unused /\ r.documentFiles = l.documentFiles \ unused
        /\ r.imageFiles = l.imageFiles
    BY <1>1 DEF IsRemoved
  <2>2. ASSUME NEW d \in Documents(r) PROVE r.documents[d].source \in r.sources
    <3>1. d \in Documents(l) /\ r.documents[d] = l.documents[d]
      BY <1>4
    <3>2. l.documents[d].source \in l.sources
      BY <3>1 DEF Good, Backing
    <3>3. r.documents[d].source \notin unused
      BY DEF Unused
    <3> QED BY <2>1, <3>1, <3>2, <3>3
  <2>3. ASSUME NEW s \in r.sources PROVE \E d \in Documents(r) : r.documents[d].source = s
    <3>1. PICK d \in Documents(l) : l.documents[d].source = s
      BY <2>1 DEF Good, Backing
    <3>2. CASE d \in D
      BY <2>1, <3>1, <3>2 DEF Documents, Unused
    <3>3. CASE d \notin D
      BY <1>4, <3>1, <3>3
    <3> QED BY <3>2, <3>3
  <2>4. r.sources \subseteq r.documentFiles /\ Images(r) \subseteq r.imageFiles
    BY <1>4, <2>1 DEF Good, Backing
  <2> QED BY <2>2, <2>3, <2>4 DEF Backing
<1>7. Related(r)
  BY <1>1, <1>2, <1>3 DEF Good, Related, IsRemoved
<1>8. Numbered(r)
  BY <1>1, <1>4, <1>5 DEF Good, Numbered, IsRemoved
<1>9. Vectored(r)
  <2>1. Active(r) \subseteq Active(l)
    BY <1>4 DEF Active
  <2>2. r.images = l.images /\ r.generation = l.generation
        /\ \A c \in Chunk : r.vectors[c] = IF c \in Active(r) THEN l.vectors[c] ELSE None
    BY <1>1 DEF IsRemoved
  <2> QED BY <1>4, <1>5, <2>1, <2>2 DEF Good, Vectored
<1>10. Fitting(r)
  <2> SUFFICES ASSUME NEW d \in Document, NEW i \in Image PROVE Fits(r, d, i)
    BY DEF Fitting
  <2>1. Fits(l, d, i)
    BY DEF Good, Fitting
  <2> QED BY <1>2, <1>3, <1>5, <2>1 DEF Fits
<1> QED BY <1>1, <1>6, <1>7, <1>8, <1>9, <1>10 DEF Good, IsRemoved, r

-----------------------------------------------------------------------------
\* Descriptions and provider switches.

\* Image i has the descriptions s, and everything else stays.
IsImaged(r, l, i, s) ==
  /\ r \in Library
  /\ r.bound = l.bound /\ r.documents = l.documents /\ r.next = l.next
  /\ r.sources = l.sources /\ r.relations = l.relations /\ r.strengths = l.strengths
  /\ r.generation = l.generation /\ r.vectors = l.vectors
  /\ r.documentFiles = l.documentFiles
  /\ r.images = [l.images EXCEPT ![i] = s]
  /\ l.imageFiles \union {i} \subseteq r.imageFiles

\* Giving an image texts with vectors of the binding keeps a library good.
LEMMA ImagedGood ==
  ASSUME NEW l, Good(l), NEW i \in Image, NEW s \in Seq(Description),
         \A n \in 1 .. Len(s) : s[n].fp \in {l.bound, None},
         NEW r, IsImaged(r, l, i, s)
  PROVE  Good(r) /\ Images(r) = Images(l) \union {i}
<1>1. l \in Library /\ s # None
  BY NoneAssumption DEF Good
<1>2. \A j \in Image : r.images[j] = IF j = i THEN s ELSE l.images[j]
  BY <1>1 DEF IsImaged, Library
<1>3. Images(r) = Images(l) \union {i} /\ Documents(r) = Documents(l) /\ Active(r) = Active(l)
  BY <1>1, <1>2 DEF Images, Documents, Active, IsImaged
<1>4. Backing(r) /\ Related(r) /\ Numbered(r) /\ Fitting(r)
  BY <1>1, <1>2, <1>3 DEF Good, Backing, Related, Numbered, Fitting, Fits, IsImaged
<1>5. Vectored(r)
  <2>1. ASSUME NEW j \in Images(r), NEW n \in 1 .. Len(r.images[j])
        PROVE  r.images[j][n].fp \in {r.bound, None}
    <3>1. CASE j = i
      BY <1>2, <2>1, <3>1 DEF IsImaged
    <3>2. CASE j # i
      <4>1. r.images[j] = l.images[j] /\ j \in Images(l)
        BY <1>2, <1>3, <3>2 DEF Images
      <4> QED BY <4>1 DEF Good, Vectored, IsImaged
    <3> QED BY <3>1, <3>2
  <2> QED BY <1>3, <2>1 DEF Good, Vectored, IsImaged
<1> QED BY <1>3, <1>4, <1>5 DEF Good, IsImaged

\* New texts of an image, and relations calibrated with them, keep a library good.
LEMMA DescribedGood ==
  ASSUME NEW l, Good(l), NEW i \in Images(l), NEW texts \in Seq(Text)
  PROVE  Good(Described(l, i, texts))
<1> DEFINE s == Embedded(texts, l.bound)
           base == [l EXCEPT !.images[i] = s]
           P == {p \in Relations(l) : p[2] = i}
           r == CalibratedAll(base, P, l.bound)
<1>1. /\ l \in Library /\ l.bound \in Fingerprint /\ i \in Image /\ i \in l.imageFiles
      /\ s \in Seq(Description)
      /\ \A n \in 1 .. Len(s) : s[n].fp \in {l.bound, None}
  <2>1. l \in Library /\ l.bound \in Fingerprint /\ i \in Image /\ i \in l.imageFiles
    BY DEF Good, Images, Library, Backing
  <2>2. s \in Seq(Description) /\ \A n \in 1 .. Len(s) : s[n].fp = l.bound
    BY <2>1, EmbeddedBy
  <2> HIDE DEF s
  <2> QED BY <2>1, <2>2
<1> HIDE DEF s
<1>2. IsImaged(base, l, i, s)
  BY <1>1 DEF IsImaged, Library
<1>3. Described(l, i, texts) = r
  BY DEF Described, s
<1> HIDE DEF base
<1>4. Good(base)
  BY <1>1, <1>2, ImagedGood
<1>5. /\ P \subseteq Relations(base) /\ base.bound = l.bound /\ base \in Library
      /\ Related(base) /\ Numbered(base) /\ Vectored(base) /\ Backing(base)
      /\ \A d \in Document, j \in Image : Fits(base, d, j)
  BY <1>2, <1>4 DEF Relations, IsImaged, Good, Fitting
<1> HIDE DEF P
<1>6. SameBut(r, base) /\ Consistent(r)
  BY <1>5, CalibratedAllKeeps
<1> HIDE DEF r
<1>7. Backing(r)
  BY <1>5, <1>6, SameKeeps
<1> QED BY <1>3, <1>6, <1>7 DEF Good, Consistent, SameBut

\* Binding a library to another model and embedding it anew keeps it good.
LEMMA SwitchedGood ==
  ASSUME NEW l, Good(l), NEW f \in Fingerprint
  PROVE  Good(Switched(l, f)) /\ Switched(l, f).bound = f
<1> DEFINE images == [i \in Image |-> IF l.images[i] = None THEN None
                                      ELSE Embedded(Texts(l, i), f)]
           vectors == [c \in Chunk |-> IF c \in Active(l) THEN f ELSE None]
           all == [l EXCEPT !.bound = f, !.generation = (Active(l) # {}),
                            !.vectors = vectors, !.images = images]
           P == {p \in Relations(l) : l.relations[p].mode = "calibrated"}
           r == CalibratedAll(all, P, f)
<1>1. l \in Library
  BY DEF Good
<1>2. ASSUME NEW i \in Images(l)
      PROVE  /\ images[i] \in Seq(Description) /\ images[i] # None
             /\ \A n \in 1 .. Len(images[i]) : images[i][n].fp = f
  <2>1. Texts(l, i) \in Seq(Text)
    BY <1>1, TextsType
  <2>2. images[i] = Embedded(Texts(l, i), f)
    BY DEF Images
  <2>3. /\ Embedded(Texts(l, i), f) \in Seq(Description)
        /\ \A n \in 1 .. Len(Embedded(Texts(l, i), f)) : Embedded(Texts(l, i), f)[n].fp = f
    BY <2>1, EmbeddedBy
  <2> HIDE DEF images
  <2> QED BY <2>2, <2>3, NoneAssumption
<1>3. /\ images \in [Image -> Seq(Description) \union {None}]
      /\ \A i \in Image : images[i] = None <=> l.images[i] = None
      /\ vectors \in [Chunk -> Fingerprint \union {None}]
  BY <1>2 DEF Images
<1>4. Switched(l, f) = r
  <2>1. all = [l EXCEPT !.bound = f,
                         !.generation = (Active(l) # {}),
                         !.vectors = [c \in Chunk |-> IF c \in Active(l) THEN f ELSE None],
                         !.images = [i \in Image |-> IF @[i] = None THEN None
                                                     ELSE Embedded(Texts(l, i), f)]]
    OBVIOUS
  <2> HIDE DEF all
  <2> QED BY <2>1 DEF Switched
<1> HIDE DEF images
<1>5. /\ all \in Library
      /\ all.bound = f /\ all.documents = l.documents /\ all.next = l.next
      /\ all.sources = l.sources /\ all.images = images /\ all.relations = l.relations
      /\ all.strengths = l.strengths /\ all.generation = (Active(l) # {}) /\ all.vectors = vectors
      /\ all.documentFiles = l.documentFiles /\ all.imageFiles = l.imageFiles
  <2> HIDE DEF vectors
  <2> QED BY <1>1, <1>3 DEF Library
<1> HIDE DEF all
<1>6. Documents(all) = Documents(l) /\ Images(all) = Images(l) /\ Active(all) = Active(l)
  BY <1>3, <1>5 DEF Documents, Images, Active
<1>7. Related(all) /\ Numbered(all) /\ Backing(all)
  BY <1>3, <1>5, <1>6 DEF Good, Related, Numbered, Backing
<1>8. Vectored(all)
  <2>1. \A c \in Chunk : all.vectors[c] = IF c \in Active(all) THEN all.bound ELSE None
    BY <1>5, <1>6
  <2>2. Active(all) # {} => all.generation
    BY <1>5, <1>6
  <2>3. \A i \in Images(all) : \A n \in 1 .. Len(all.images[i]) : all.images[i][n].fp = all.bound
    BY <1>2, <1>5, <1>6
  <2> QED BY <2>1, <2>2, <2>3 DEF Vectored
<1>9. P \subseteq Relations(all)
      /\ \A d \in Document, i \in Image : <<d, i>> \in P \/ Fits(all, d, i)
  BY <1>5 DEF Relations, Fits, Pair
<1> HIDE DEF P
<1>10. SameBut(r, all) /\ Consistent(r)
  BY <1>5, <1>7, <1>8, <1>9, CalibratedAllKeeps
<1> HIDE DEF r
<1>11. Backing(r)
  BY <1>7, <1>10, SameKeeps
<1> QED BY <1>4, <1>5, <1>10, <1>11 DEF Good, Consistent, SameBut

\* So does the rebinding a task may begin with.
LEMMA ReboundGood ==
  ASSUME NEW l, Good(l), NEW f \in Fingerprint
  PROVE  Good(Rebound(l, f))
BY SwitchedGood DEF Rebound

-----------------------------------------------------------------------------
\* The tasks' operations.

\* A batch that is ingested keeps a library good.
LEMMA IngestedGood ==
  ASSUME NEW l, Good(l), NEW o \in Batches, Accepted(l, o),
         ~(o.document = None /\ o.image = None)
  PROVE  Good(Ingested(l, o))
<1> DEFINE documents == IF o.document = None THEN l ELSE Installed(l, o.document, o.source)
           s == Embedded(o.texts, l.bound)
           media == IF o.image = None THEN documents
                    ELSE [documents EXCEPT !.images[o.image] = s,
                                           !.imageFiles = @ \union {o.image}]
           r == Calibrated(media, <<o.document, o.image>>, o.mode, l.bound, l.bound)
<1>1. /\ o.kind = "ingest"
      /\ o.document \in Document \union {None} /\ o.source \in Source
      /\ o.image \in Image \union {None} /\ o.texts \in Seq(Text)
      /\ o.mode \in {"uniform", "calibrated"}
      /\ l \in Library /\ l.bound \in Fingerprint
  BY TextAssumption DEF Batches, Good, Library
<1>2. o.document # None => l.documents[o.document] = None /\ Room(l)
  BY <1>1 DEF Accepted
<1>3. /\ Good(documents) /\ documents.bound = l.bound /\ documents \in Library
      /\ o.document # None => documents.documents[o.document] # None
  <2>1. CASE o.document = None
    BY <1>1, <2>1 DEF Good
  <2>2. CASE o.document # None
    <3>1. documents = Installed(l, o.document, o.source)
      BY <2>2
    <3> HIDE DEF documents
    <3> QED BY <1>1, <1>2, <2>2, <3>1, InstalledGood DEF Good
  <2> QED BY <2>1, <2>2
<1>4. s \in Seq(Description) /\ \A n \in 1 .. Len(s) : s[n].fp = l.bound
  BY <1>1, EmbeddedBy
<1>5. Ingested(l, o) = IF o.document = None \/ o.image = None \/ ~o.mapped THEN media ELSE r
  BY DEF Ingested
<1> HIDE DEF documents, s
<1>6. /\ Good(media) /\ media.bound = l.bound /\ media.documents = documents.documents
      /\ o.image # None => o.image \in Images(media)
  <2>1. CASE o.image = None
    BY <1>3, <2>1
  <2>2. CASE o.image # None
    <3>1. o.image \in Image
      BY <1>1, <2>2
    <3>2. media = [documents EXCEPT !.images[o.image] = s, !.imageFiles = @ \union {o.image}]
      BY <2>2
    <3> HIDE DEF media
    <3>3. IsImaged(media, documents, o.image, s)
      BY <1>3, <1>4, <3>1, <3>2 DEF IsImaged, Library
    <3>4. \A n \in 1 .. Len(s) : s[n].fp \in {documents.bound, None}
      BY <1>3, <1>4
    <3>5. Good(media) /\ Images(media) = Images(documents) \union {o.image}
      BY <1>3, <1>4, <3>1, <3>3, <3>4, ImagedGood
    <3> QED BY <1>3, <3>3, <3>5 DEF IsImaged
  <2> QED BY <2>1, <2>2
<1> HIDE DEF media
<1>7. CASE o.document = None \/ o.image = None \/ ~o.mapped
  BY <1>5, <1>6, <1>7
<1>8. CASE ~(o.document = None \/ o.image = None \/ ~o.mapped)
  <2>1. /\ media \in Library /\ Consistent(media) /\ Backing(media)
        /\ o.document \in Documents(media) /\ o.image \in Images(media)
    BY <1>1, <1>3, <1>6, <1>8 DEF Good, Consistent, Documents
  <2>2. SameBut(r, media) /\ Consistent(r)
    BY <1>1, <1>6, <2>1, CalibratedKeeps
  <2> HIDE DEF r
  <2>3. Backing(r)
    BY <2>1, <2>2, SameKeeps
  <2> QED BY <1>5, <1>8, <2>2, <2>3 DEF Good, Consistent, SameBut
<1> QED BY <1>7, <1>8

\* Every operation of a task keeps a library good.
LEMMA AppliedGood ==
  ASSUME NEW l, Good(l), NEW o \in Operations, Accepted(l, o)
  PROVE  Good(Applied(l, o))
<1>0. l \in Library /\ l.bound \in Fingerprint /\ Consistent(l) /\ Backing(l)
  BY DEF Good, Consistent, Library
<1>1. CASE o.kind = "ingest"
  <2>1. o \in Batches /\ ~(o.document = None /\ o.image = None)
    BY <1>1 DEF Operations
  <2>2. Applied(l, o) = Ingested(l, o)
    BY <1>1 DEF Applied
  <2> QED BY <2>1, <2>2, IngestedGood
<1>2. CASE o.kind = "entry_update"
  <2>1. o.document \in Document /\ l.documents[o.document] # None /\ Room(l)
    BY <1>2 DEF Operations, Batches, Accepted
  <2>2. Applied(l, o) = Chunked(l, o.document, l.documents[o.document].source)
    BY <1>2 DEF Applied
  <2> QED BY <2>1, <2>2, RechunkedGood
<1>3. CASE o.kind = "delete"
  <2>1. o.documents \in SUBSET Document
    BY <1>3 DEF Operations, Batches
  <2>2. Applied(l, o) = Removed(l, o.documents)
    BY <1>3 DEF Applied
  <2> QED BY <2>1, <2>2, RemovedGood
<1>4. CASE o.kind = "calibrate"
  <2>1. /\ o.document \in Document /\ o.image \in Image
        /\ l.relations[<<o.document, o.image>>] # None
    BY <1>4 DEF Operations, Batches, Accepted
  <2>2. o.document \in Documents(l) /\ o.image \in Images(l)
    BY <2>1 DEF Good, Related, Documents, Images
  <2>3. PICK mode \in {"uniform", "calibrated"}, vector \in Fingerprint \union {None} :
          /\ mode = "calibrated" => vector = l.bound
          /\ Applied(l, o) = Calibrated(l, <<o.document, o.image>>, mode, vector, l.bound)
    BY <1>0, <1>4 DEF Applied
  <2> DEFINE r == Calibrated(l, <<o.document, o.image>>, mode, vector, l.bound)
  <2>4. SameBut(r, l) /\ Consistent(r)
    BY <1>0, <2>2, <2>3, CalibratedKeeps
  <2>5. Applied(l, o) = r
    BY <2>3
  <2> HIDE DEF r
  <2>6. Backing(r)
    BY <1>0, <2>4, SameKeeps
  <2> QED BY <2>4, <2>5, <2>6 DEF Good, Consistent, SameBut
<1>5. CASE o.kind = "describe"
  <2>1. o.image \in Images(l) /\ o.texts \in Seq(Text)
    BY <1>5, TextAssumption DEF Operations, Batches, Accepted, Images
  <2>2. Applied(l, o) = Described(l, o.image, o.texts)
    BY <1>5 DEF Applied
  <2> QED BY <2>1, <2>2, DescribedGood
<1>6. CASE o.kind = "rebuild"
  <2>1. o.target \in Fingerprint
    BY <1>6 DEF Operations, Batches
  <2>2. Applied(l, o) = Switched(l, o.target)
    BY <1>6 DEF Applied
  <2> QED BY <2>1, <2>2, SwitchedGood
<1> QED BY <1>1, <1>2, <1>3, <1>4, <1>5, <1>6 DEF Accepted

-----------------------------------------------------------------------------
\* Indexes that are current.

Current(l) == l.chunkIndex = ChunkVectors(l) /\ l.mediaIndex = MediaVectors(l)

\* Rebuilt indexes are those of the rows.
LEMMA RebuiltCurrent ==
  ASSUME NEW l, Good(l)
  PROVE  Current(Rebuilt(l))
<1> DEFINE chunks == ChunkVectors(l)
           media == MediaVectors(l)
           r == Rebuilt(l)
<1>1. r = [l EXCEPT !.chunkIndex = chunks, !.mediaIndex = media] /\ l \in Library
  BY DEF Rebuilt, Good
<1>2. SameRows(r, l)
  BY RebuiltGood
<1> HIDE DEF chunks, media, r
<1>3. r.chunkIndex = chunks /\ r.mediaIndex = media
  BY <1>1 DEF Library
<1>4. ChunkVectors(r) = ChunkVectors(l) /\ MediaVectors(r) = MediaVectors(l)
  BY <1>2 DEF SameRows, ChunkVectors, MediaVectors, Active, Documents, Images
<1> QED BY <1>3, <1>4 DEF Current, r, chunks, media

\* The same indexes and the same active vectors.
SameVectors(r, l) ==
  /\ r.chunkIndex = l.chunkIndex /\ r.mediaIndex = l.mediaIndex
  /\ r.bound = l.bound /\ r.documents = l.documents
  /\ r.generation = l.generation /\ r.vectors = l.vectors
  /\ \A i \in Image : \/ r.images[i] = l.images[i]
                      \/ /\ \A n \in 1 .. Len(r.images[i]) : r.images[i][n].fp # r.bound
                         /\ l.images[i] = None
                            \/ \A n \in 1 .. Len(l.images[i]) : l.images[i][n].fp # l.bound
  /\ Images(l) \subseteq Images(r)

\* What leaves the vectors and the indexes alone leaves the indexes current.
LEMMA SameCurrent ==
  ASSUME NEW l, Current(l), NEW r, SameVectors(r, l)
  PROVE  Current(r)
<1>1. ChunkVectors(r) = ChunkVectors(l)
  BY DEF SameVectors, ChunkVectors, Active, Documents
<1>2. MediaVectors(r) = MediaVectors(l)
  <2> DEFINE of(s, i) == {<<i, s.images[i][n].text, s.bound>> :
                            n \in {m \in 1 .. Len(s.images[i]) : s.images[i][m].fp = s.bound}}
  <2>1. \A i \in Images(l) : of(r, i) = of(l, i) /\ i \in Images(r)
    <3> SUFFICES ASSUME NEW i \in Images(l) PROVE of(r, i) = of(l, i)
      BY DEF SameVectors
    <3>1. CASE r.images[i] = l.images[i]
      BY <3>1 DEF SameVectors
    <3>2. CASE r.images[i] # l.images[i]
      BY <3>2 DEF SameVectors, Images
    <3> QED BY <3>1, <3>2
  <2>2. \A i \in Images(r) : i \notin Images(l) => of(r, i) = {}
    BY DEF SameVectors, Images
  <2>3. MediaVectors(l) = UNION {of(l, i) : i \in Images(l)}
        /\ MediaVectors(r) = UNION {of(r, i) : i \in Images(r)}
    BY DEF MediaVectors
  <2> HIDE DEF of
  <2> QED BY <2>1, <2>2, <2>3
<1> QED BY <1>1, <1>2 DEF Current, SameVectors

\* Names as texts have no vectors: the indexes stay current.
LEMMA InitializedCurrent ==
  ASSUME NEW l, Good(l), Current(l)
  PROVE  Current(Initialized(l))
<1> DEFINE stem(i) == <<[text |-> Stem[i], fp |-> None]>>
           images == [i \in Image |-> IF l.images[i] = <<>> THEN stem(i) ELSE l.images[i]]
           r == Initialized(l)
<1>1. l \in Library /\ l.bound # None
  BY NoneAssumption DEF Good, Library
<1>2. \A i \in Image : /\ stem(i) \in Seq(Description) /\ Len(stem(i)) = 1
                       /\ stem(i)[1].fp = None
  BY StemType
<1>3. r = [l EXCEPT !.images = images]
  BY DEF Initialized
<1> HIDE DEF stem
<1>4. \A i \in Image : \/ images[i] = l.images[i]
                       \/ /\ l.images[i] = <<>>
                          /\ Len(images[i]) = 1 /\ images[i][1].fp = None
  BY <1>2
<1> HIDE DEF images
<1>5. /\ r.chunkIndex = l.chunkIndex /\ r.mediaIndex = l.mediaIndex
      /\ r.bound = l.bound /\ r.documents = l.documents
      /\ r.generation = l.generation /\ r.vectors = l.vectors
      /\ r.images = images
  BY <1>1, <1>3 DEF Library
<1>6. Images(r) = Images(l)
  BY InitializedGood
<1> HIDE DEF r
<1>7. SameVectors(r, l)
  BY <1>1, <1>4, <1>5, <1>6 DEF SameVectors
<1> QED BY <1>7, SameCurrent DEF r

\* An opened library has current indexes: they were, or it rebuilds them.
LEMMA LoadedCurrent ==
  ASSUME NEW l, Good(l), Current(l) \/ l.chunkIndex = {}
  PROVE  Current(Loaded(l))
<1> DEFINE opened == Initialized(l)
<1>1. Good(opened) /\ opened.chunkIndex = l.chunkIndex
  BY InitializedGood DEF Initialized, Good, Library
<1>2. Current(l) => Current(opened)
  BY InitializedCurrent
<1>3. Loaded(l) = IF opened.chunkIndex = {} THEN Rebuilt(opened) ELSE opened
  BY DEF Loaded
<1> HIDE DEF opened
<1> QED BY <1>1, <1>2, <1>3, RebuiltCurrent

-----------------------------------------------------------------------------
\* What the short jobs do to the rows.

Deleted(l, i) ==
  [l EXCEPT !.images[i] = None,
            !.relations = [p \in Pair |-> IF p[2] = i THEN None ELSE @[p]],
            !.strengths = {x \in @ : x.image # i}]
Unrelated == [mode |-> "uniform", vector |-> None, fp |-> None, of |-> <<>>]
Linked(l, d, i) ==
  [l EXCEPT !.relations[<<d, i>>] = IF @ = None THEN Unrelated ELSE @]
Unbound(l, d, i) ==
  [l EXCEPT !.relations[<<d, i>>] = None,
            !.strengths = {x \in @ : ~(x.image = i /\ x.chunk \in l.documents[d].chunks)}]
Filed(l, files) == [l EXCEPT !.imageFiles = files]
Noted(l, i, s) == [l EXCEPT !.images[i] = s]

\* Image i and what hangs on it go; its file stays.
LEMMA DeletedGood ==
  ASSUME NEW l, Good(l), NEW i \in Image
  PROVE  LET r == Deleted(l, i)
         IN Good(r) /\ r.imageFiles = l.imageFiles /\ r.images[i] = None
<1> DEFINE r == Deleted(l, i)
           relations == [p \in Pair |-> IF p[2] = i THEN None ELSE l.relations[p]]
           strengths == {x \in l.strengths : x.image # i}
<1>1. l \in Library
  BY DEF Good
<1>2. relations \in [Pair -> Relation \union {None}] /\ strengths \subseteq Strength
  BY <1>1 DEF Library
<1>3. r = [l EXCEPT !.images[i] = None, !.relations = relations, !.strengths = strengths]
  BY DEF Deleted
<1>4. \A d \in Document, j \in Image :
        relations[<<d, j>>] = IF j = i THEN None ELSE l.relations[<<d, j>>]
  BY DEF Pair
<1> HIDE DEF relations, r
<1>5. /\ r \in Library
      /\ r.bound = l.bound /\ r.documents = l.documents /\ r.next = l.next
      /\ r.sources = l.sources /\ r.relations = relations /\ r.strengths = strengths
      /\ r.generation = l.generation /\ r.vectors = l.vectors
      /\ r.documentFiles = l.documentFiles /\ r.imageFiles = l.imageFiles
      /\ r.images = [l.images EXCEPT ![i] = None]
  <2> HIDE DEF strengths
  <2> QED BY <1>1, <1>2, <1>3 DEF Library
<1>6. \A j \in Image : r.images[j] = IF j = i THEN None ELSE l.images[j]
  BY <1>1, <1>5 DEF Library
<1>7. Documents(r) = Documents(l) /\ Images(r) = Images(l) \ {i} /\ Active(r) = Active(l)
  BY <1>5, <1>6 DEF Documents, Images, Active
<1>8. Backing(r) /\ Related(r) /\ Numbered(r)
  BY <1>4, <1>5, <1>6, <1>7 DEF Good, Backing, Related, Numbered
<1>9. Vectored(r)
  BY <1>5, <1>6, <1>7 DEF Good, Vectored, Images
<1>10. Fitting(r)
  <2> SUFFICES ASSUME NEW d \in Document, NEW j \in Image PROVE Fits(r, d, j)
    BY DEF Fitting
  <2>1. Fits(l, d, j)
    BY DEF Good, Fitting
  <2> QED BY <1>4, <1>5, <2>1 DEF Fits
<1> QED BY <1>5, <1>6, <1>8, <1>9, <1>10 DEF Good, r

\* A relation that is new has no calibration.
LEMMA LinkedGood ==
  ASSUME NEW l, Good(l), NEW d \in Documents(l), NEW i \in Images(l)
  PROVE  LET r == Linked(l, d, i) IN Good(r) /\ (Current(l) => Current(r))
<1> DEFINE rel == IF l.relations[<<d, i>>] = None THEN Unrelated ELSE l.relations[<<d, i>>]
           r == Linked(l, d, i)
<1>1. l \in Library /\ <<d, i>> \in Pair /\ l.documents[d] # None /\ l.images[i] # None
      /\ d \in Document /\ i \in Image
  BY DEF Good, Documents, Images, Pair
<1>2. Unrelated \in Relation /\ Unrelated.mode = "uniform"
  BY EmptySeq DEF Relation, Unrelated
<1>3. rel \in Relation
  BY <1>1, <1>2 DEF Library
<1>4. r = [l EXCEPT !.relations[<<d, i>>] = rel]
  BY <1>1 DEF Library, Linked
<1> HIDE DEF r
<1>5. SameBut(r, l) /\ r.strengths = l.strengths
      /\ r.chunkIndex = l.chunkIndex /\ r.mediaIndex = l.mediaIndex
      /\ r.relations = [l.relations EXCEPT ![<<d, i>>] = rel]
  <2> HIDE DEF rel
  <2> QED BY <1>1, <1>3, <1>4 DEF SameBut, Library
<1>6. \A e \in Document, j \in Image :
        r.relations[<<e, j>>] = IF e = d /\ j = i THEN rel ELSE l.relations[<<e, j>>]
  BY <1>1, <1>5 DEF Library, Pair
<1>7. Backing(r) /\ Vectored(r)
  BY <1>5, SameKeeps DEF Good
<1>8. Related(r) /\ Numbered(r)
  BY <1>1, <1>5, <1>6 DEF Good, Related, Numbered, SameBut, Documents
<1>9. Fitting(r)
  <2> SUFFICES ASSUME NEW e \in Document, NEW j \in Image PROVE Fits(r, e, j)
    BY DEF Fitting
  <2>1. Fits(l, e, j)
    BY DEF Good, Fitting
  <2> QED BY <1>2, <1>5, <1>6, <2>1 DEF Fits, SameBut
<1>10. Current(l) => Current(r)
  <2>1. SameVectors(r, l)
    BY <1>5 DEF SameBut, SameVectors, Images
  <2> QED BY <2>1, SameCurrent
<1> QED BY <1>5, <1>7, <1>8, <1>9, <1>10 DEF Good, SameBut, r

\* A relation goes with its strengths.
LEMMA UnboundGood ==
  ASSUME NEW l, Good(l), NEW d \in Document, NEW i \in Image
  PROVE  LET r == Unbound(l, d, i) IN Good(r) /\ (Current(l) => Current(r))
<1> DEFINE kept == {x \in l.strengths : ~(x.image = i /\ x.chunk \in l.documents[d].chunks)}
           r == Unbound(l, d, i)
<1>1. l \in Library /\ <<d, i>> \in Pair /\ kept \subseteq Strength
  BY DEF Good, Pair, Library
<1>2. r = [l EXCEPT !.relations[<<d, i>>] = None, !.strengths = kept]
  BY DEF Unbound
<1> HIDE DEF r
<1>3. SameBut(r, l) /\ r.strengths = kept
      /\ r.chunkIndex = l.chunkIndex /\ r.mediaIndex = l.mediaIndex
      /\ r.relations = [l.relations EXCEPT ![<<d, i>>] = None]
  <2> HIDE DEF kept
  <2> QED BY <1>1, <1>2 DEF SameBut, Library
<1>4. \A e \in Document, j \in Image :
        r.relations[<<e, j>>] = IF e = d /\ j = i THEN None ELSE l.relations[<<e, j>>]
  BY <1>1, <1>3 DEF Library, Pair
<1>5. Backing(r) /\ Vectored(r)
  BY <1>3, SameKeeps DEF Good
<1>6. Related(r) /\ Numbered(r)
  BY <1>1, <1>3, <1>4 DEF Good, Related, Numbered, SameBut, Documents
<1>7. Fitting(r)
  <2> SUFFICES ASSUME NEW e \in Document, NEW j \in Image PROVE Fits(r, e, j)
    BY DEF Fitting
  <2>1. Fits(l, e, j)
    BY DEF Good, Fitting
  <2> QED BY <1>3, <1>4, <2>1 DEF Fits, SameBut
<1>8. Current(l) => Current(r)
  <2>1. SameVectors(r, l)
    BY <1>3 DEF SameBut, SameVectors, Images
  <2> QED BY <2>1, SameCurrent
<1> QED BY <1>3, <1>5, <1>6, <1>7, <1>8 DEF Good, SameBut, r

\* A file beside the database: one that comes, or one no row has.
LEMMA FiledGood ==
  ASSUME NEW l, Good(l), NEW files \in SUBSET Image, Images(l) \subseteq files
  PROVE  LET r == Filed(l, files)
         IN Good(r) /\ (Current(l) => Current(r)) /\ r.images = l.images /\ r.imageFiles = files
<1> DEFINE r == Filed(l, files)
<1>1. /\ r \in Library
      /\ r.bound = l.bound /\ r.documents = l.documents /\ r.next = l.next
      /\ r.sources = l.sources /\ r.images = l.images /\ r.relations = l.relations
      /\ r.strengths = l.strengths /\ r.generation = l.generation /\ r.vectors = l.vectors
      /\ r.documentFiles = l.documentFiles /\ r.imageFiles = files
      /\ r.chunkIndex = l.chunkIndex /\ r.mediaIndex = l.mediaIndex
  BY DEF Good, Library, Filed
<1> HIDE DEF r
<1>2. Good(r)
  BY <1>1 DEF Good, Backing, Related, Numbered, Vectored, Fitting, Fits, Documents, Images,
     Active
<1>3. Current(l) => Current(r)
  BY <1>1, SameCurrent DEF SameVectors, Images
<1> QED BY <1>1, <1>2, <1>3 DEF r

\* An image whose file is there gets the descriptions s.
LEMMA NotedGood ==
  ASSUME NEW l, Good(l), NEW i \in l.imageFiles, NEW s \in Seq(Description),
         \A n \in 1 .. Len(s) : s[n].fp \in {l.bound, None}
  PROVE  LET r == Noted(l, i, s)
         IN /\ Good(r) /\ r.imageFiles = l.imageFiles /\ r.images[i] = s
            /\ Current(l) /\ ((l.images[i] = None /\ s = <<>>) \/ l.images[i] = s) => Current(r)
<1> DEFINE r == Noted(l, i, s)
<1>1. l \in Library /\ i \in Image
  BY DEF Good, Library
<1>2. /\ r \in Library
      /\ r.bound = l.bound /\ r.documents = l.documents /\ r.next = l.next
      /\ r.sources = l.sources /\ r.relations = l.relations /\ r.strengths = l.strengths
      /\ r.generation = l.generation /\ r.vectors = l.vectors
      /\ r.documentFiles = l.documentFiles /\ r.imageFiles = l.imageFiles
      /\ r.chunkIndex = l.chunkIndex /\ r.mediaIndex = l.mediaIndex
      /\ r.images = [l.images EXCEPT ![i] = s]
  BY <1>1 DEF Library, Noted
<1> HIDE DEF r
<1>3. r.images[i] = s /\ \A j \in Image : j # i => r.images[j] = l.images[j]
  BY <1>1, <1>2 DEF Library
<1>4. Good(r) /\ Images(r) = Images(l) \union {i}
  <2>1. IsImaged(r, l, i, s)
    BY <1>1, <1>2 DEF IsImaged
  <2> QED BY <1>1, <2>1, ImagedGood
<1>5. ASSUME Current(l), (l.images[i] = None /\ s = <<>>) \/ l.images[i] = s
      PROVE  Current(r)
  <2>1. SameVectors(r, l)
    BY <1>2, <1>3, <1>4, <1>5 DEF SameVectors
  <2> QED BY <1>5, <2>1, SameCurrent
<1> QED BY <1>2, <1>3, <1>4, <1>5 DEF r

-----------------------------------------------------------------------------
\* The invariant.

\* What is staged is a library as well, with its indexes.
Staged == stage # None => Good(stage) /\ Current(stage)

\* How far an upload or a deletion has come.
Underway ==
  /\ At("upload", "register") \/ At("upload", "describe") => short.image \in live.imageFiles
  /\ At("upload", "describe") => live.images[short.image] # None
  /\ At("delete", "unlink") => live.images[short.image] = None

\* The indexes are current but between a change of vectors and the rebuild.
Indexed ==
  ~cut /\ (short = None \/ At("upload", "register") \/ At("upload", "describe")) => Current(live)

Inv == TypeOK /\ Good(live) /\ Staged /\ Underway /\ Indexed

\* The initial library is empty.
LEMMA EmptyGood == Good(Empty) /\ Current(Empty)
<1>1. Empty \in Library
  <2>1. 1 \in 1 .. MaxChunk + 1
    BY ChunkAssumption
  <2> QED BY <2>1, FingerprintAssumption DEF Empty, Library
<1>2. /\ Empty.documents = [d \in Document |-> None] /\ Empty.images = [i \in Image |-> None]
      /\ Empty.relations = [p \in Pair |-> None] /\ Empty.vectors = [c \in Chunk |-> None]
      /\ Empty.sources = {} /\ Empty.strengths = {} /\ Empty.generation = FALSE
      /\ Empty.chunkIndex = {} /\ Empty.mediaIndex = {}
  BY DEF Empty
<1> HIDE DEF Empty
<1>3. Documents(Empty) = {} /\ Images(Empty) = {} /\ Active(Empty) = {}
  BY <1>2 DEF Documents, Images, Active
<1>4. Backing(Empty) /\ Numbered(Empty) /\ Vectored(Empty)
  BY <1>2, <1>3 DEF Backing, Numbered, Vectored
<1>5. Related(Empty) /\ Fitting(Empty)
  BY <1>2 DEF Related, Fitting, Fits, Pair
<1>6. Current(Empty)
  BY <1>2, <1>3 DEF Current, ChunkVectors, MediaVectors
<1> QED BY <1>1, <1>4, <1>5, <1>6 DEF Good

\* The invariant holds at first.
LEMMA Initially == Init => Inv
<1> SUFFICES ASSUME Init PROVE Inv
  OBVIOUS
<1>1. live = Empty /\ stage = None /\ short = None /\ lock = "free" /\ loaded = FALSE
      /\ cut = FALSE /\ torn = {}
  BY DEF Init
<1>2. Good(live) /\ Current(live)
  BY <1>1, EmptyGood
<1> QED BY <1>1, <1>2 DEF Inv, TypeOK, Good, Staged, Underway, Indexed, At

-----------------------------------------------------------------------------
\* Steps of tasks.

\* A task that builds its copy.
LEMMA WorkKeeps ==
  ASSUME Inv, NEW o \in Operations, NEW f \in Fingerprint, Work(o, f)
  PROVE  Inv'
<1> DEFINE source == IF Embeds(o) THEN Initialized(live) ELSE live
           copy == Rebound(Copied(source), f)
           applied == Applied(copy, o)
           done == Rebuilt(applied)
<1>1. /\ lock = "free" /\ lock' = "task" /\ short' = short /\ loaded' = loaded /\ cut' = cut
      /\ Accepted(copy, o) /\ live' = source /\ stage' = done
      /\ torn' = IF Embeds(o) THEN {} ELSE torn
  BY DEF Work
<1>2. Good(source) /\ (Current(live) => Current(source))
  BY InitializedGood, InitializedCurrent DEF Inv
<1> HIDE DEF source
<1>3. Good(copy)
  BY <1>2, CopiedGood, ReboundGood
<1> HIDE DEF copy
<1>4. Good(applied)
  BY <1>1, <1>3, AppliedGood
<1> HIDE DEF applied
<1>5. Good(done) /\ Current(done)
  BY <1>4, RebuiltGood, RebuiltCurrent
<1> HIDE DEF done
<1>6. short = None /\ short' = None
  BY <1>1 DEF Inv, TypeOK
<1>7. TypeOK'
  BY <1>1, <1>2, <1>5, <1>6, NoneAssumption DEF Inv, TypeOK, Good
<1> QED BY <1>1, <1>2, <1>5, <1>6, <1>7 DEF Inv, Staged, Underway, Indexed, At

\* A task that puts its copy in the place of the library.
LEMMA PublishKeeps ==
  ASSUME Inv, Publish
  PROVE  Inv'
<1>1. /\ lock = "task" /\ lock' = "free" /\ live' = Loaded(stage) /\ stage' = None
      /\ short' = short /\ loaded' = TRUE /\ cut' = FALSE /\ torn' = {}
  BY DEF Publish
<1>2. stage # None /\ short = None
  BY <1>1 DEF Inv, TypeOK
<1>3. Good(stage) /\ Current(stage)
  BY <1>2 DEF Inv, Staged
<1>4. Good(live') /\ Current(live')
  BY <1>1, <1>3, LoadedGood, LoadedCurrent
<1>5. TypeOK'
  BY <1>1, <1>2, <1>4 DEF Inv, TypeOK, Good
<1> QED BY <1>1, <1>2, <1>4, <1>5 DEF Inv, Staged, Underway, Indexed, At

\* A library that is opened.
LEMMA LoadKeeps ==
  ASSUME Inv, Load
  PROVE  Inv'
<1>1. /\ lock # "short" /\ lock' = lock /\ live' = Loaded(live) /\ stage' = stage
      /\ short' = short /\ loaded' = TRUE /\ torn' = {}
      /\ cut' = (cut /\ live.chunkIndex # {})
  BY DEF Load
<1>2. short = None
  BY <1>1 DEF Inv, TypeOK
<1>3. Good(live)
  BY DEF Inv
<1>4. Good(live')
  BY <1>1, <1>3, LoadedGood
<1>5. ~cut' => Current(live')
  <2> SUFFICES ASSUME ~cut' PROVE Current(live')
    OBVIOUS
  <2>1. ~cut \/ live.chunkIndex = {}
    BY <1>1
  <2>2. Current(live) \/ live.chunkIndex = {}
    BY <1>2, <2>1 DEF Inv, Indexed
  <2> QED BY <1>1, <1>3, <2>2, LoadedCurrent
<1>6. TypeOK'
  BY <1>1, <1>2, <1>4 DEF Inv, TypeOK, Good
<1> QED BY <1>1, <1>2, <1>4, <1>5, <1>6 DEF Inv, Staged, Underway, Indexed, At

\* Steps that leave the live library as it is.
LEMMA OthersKeep ==
  ASSUME Inv, Resume \/ Abandon \/ Evict \/ ShortFails \/ Crash
  PROVE  Inv'
<1>1. live' = live /\ (stage' = stage \/ stage' = None)
      /\ (stage' = stage \/ lock' # "task")
  BY DEF Resume, Abandon, Evict, ShortFails, Crash
<1>2. Good(live) /\ (Current(live) => Current(live'))
  BY <1>1 DEF Inv
<1>3. Staged'
  BY <1>1 DEF Inv, Staged
<1>4. CASE Resume \/ Abandon \/ Evict
  <2>1. short' = short /\ cut' = cut /\ torn' = torn
        /\ loaded' \in BOOLEAN /\ lock' \in {"free", "task", "short"}
        /\ (lock' = "short") = (lock = "short")
        /\ (lock' = "task" => stage' # None)
    BY <1>4 DEF Resume, Abandon, Evict, Inv, TypeOK
  <2>2. TypeOK'
    BY <1>1, <2>1 DEF Inv, TypeOK
  <2> QED BY <1>1, <1>2, <1>3, <2>1, <2>2 DEF Inv, Underway, Indexed, At
<1>5. CASE ShortFails \/ Crash
  <2>1. short' = None /\ cut' = Cuts /\ torn' = Torn /\ lock' = "free" /\ loaded' \in BOOLEAN
        /\ stage' = stage
    BY <1>5 DEF ShortFails, Crash, Inv, TypeOK
  <2>2. Torn \subseteq Image
    <3>1. short # None => short.image \in Image
      BY DEF Inv, TypeOK, ShortJob
    <3> QED BY <3>1 DEF Torn, At, Inv, TypeOK
  <2>3. TypeOK'
    BY <1>1, <2>1, <2>2 DEF Inv, TypeOK, Cuts, At
  <2>4. ~Cuts => Current(live)
    <3>1. CASE short = None
      BY <3>1 DEF Inv, Indexed, Cuts
    <3>2. CASE short # None
      BY <3>2 DEF Inv, TypeOK, ShortJob, Indexed, Cuts, At
    <3> QED BY <3>1, <3>2
  <2> QED BY <1>1, <1>2, <1>3, <2>1, <2>3, <2>4 DEF Inv, Underway, Indexed, At
<1> QED BY <1>4, <1>5

-----------------------------------------------------------------------------
\* Steps of uploads, deletions and relation changes.

\* An upload writes the file of its image first,
LEMMA UploadKeeps ==
  ASSUME Inv, NEW i \in Image, NEW t \in Text, Upload(i, t)
  PROVE  Inv'
<1> DEFINE files == live.imageFiles \union {i}
           job == [kind |-> "upload", image |-> i, text |-> t, at |-> "register"]
<1>1. /\ lock = "free" /\ lock' = "short" /\ live' = Filed(live, files) /\ short' = job
      /\ stage' = stage /\ loaded' = loaded /\ cut' = cut /\ torn' = torn
  BY DEF Upload, Begins, Filed
<1>2. short = None /\ Good(live) /\ live \in Library
  BY <1>1 DEF Inv, TypeOK
<1>3. files \subseteq Image /\ Images(live) \subseteq files
  BY <1>2 DEF Library, Good, Backing
<1>4. job \in ShortJob /\ job # None /\ job.image = i /\ job.kind = "upload" /\ job.at = "register"
  BY NoneAssumption DEF ShortJob
<1> HIDE DEF files, job
<1>5. Good(live') /\ (Current(live) => Current(live')) /\ live'.imageFiles = files
  BY <1>1, <1>2, <1>3, FiledGood
<1>6. i \in files
  BY DEF files
<1>7. TypeOK'
  BY <1>1, <1>2, <1>4, <1>5 DEF Inv, TypeOK, Good
<1>8. Underway'
  BY <1>1, <1>4, <1>5, <1>6 DEF Underway, At
<1> QED BY <1>1, <1>2, <1>5, <1>7, <1>8 DEF Inv, Staged, Indexed, At

\* The job that goes on is the one that ran.
LEMMA GotoType ==
  ASSUME Inv, NEW job \in {"upload", "delete"}, NEW step, At(job, step),
         NEW next \in (IF job = "upload" THEN {"register", "describe", "index"}
                                         ELSE {"unlink", "index"}),
         Goto(next)
  PROVE  /\ short \in ShortJob /\ short.image \in Image
         /\ short' \in ShortJob /\ short' # None
         /\ short'.kind = job /\ short'.image = short.image /\ short'.at = next
         /\ job = "upload" => short.text \in Text
         /\ lock = "short"
<1>1. short # None /\ short.kind = job /\ short' = [short EXCEPT !.at = next]
  BY DEF At, Goto
<1>2. short \in ShortJob /\ lock = "short"
  BY <1>1 DEF Inv, TypeOK
<1> QED BY <1>1, <1>2, NoneAssumption DEF ShortJob

\* then its row,
LEMMA RegisterKeeps ==
  ASSUME Inv, Register
  PROVE  Inv'
<1>1. /\ At("upload", "register") /\ Goto("describe")
      /\ stage' = stage /\ lock' = lock /\ loaded' = loaded /\ cut' = cut /\ torn' = torn
  BY DEF Register
<1>2. Good(live) /\ live \in Library
  BY DEF Inv, TypeOK
<1>3. /\ short.image \in Image /\ short' \in ShortJob /\ short' # None /\ lock = "short"
      /\ short'.kind = "upload" /\ short'.image = short.image /\ short'.at = "describe"
  BY <1>1, GotoType
<1>4. short.image \in live.imageFiles
  BY <1>1 DEF Inv, Underway
<1>5. PICK i \in live.imageFiles : i = short.image
  BY <1>4
<1>6. PICK s \in Seq(Description) :
        /\ live' = Noted(live, i, s)
        /\ (live.images[i] = None /\ s = <<>>) \/ live.images[i] = s
  <2> DEFINE s == IF live.images[i] = None THEN <<>> ELSE live.images[i]
  <2>1. s \in Seq(Description)
    BY <1>2, <1>3, <1>5, EmptySeq DEF Library
  <2>2. live' = Noted(live, i, s)
    BY <1>2, <1>3, <1>5 DEF Register, Noted, Library
  <2> QED BY <2>1, <2>2
<1>7. \A n \in 1 .. Len(s) : s[n].fp \in {live.bound, None}
  <2>1. CASE s = <<>>
    BY <2>1
  <2>2. CASE live.images[i] = s
    <3>1. i \in Images(live)
      BY <1>3, <1>5, <2>2, NoneAssumption DEF Images
    <3> QED BY <1>2, <2>2, <3>1 DEF Good, Vectored
  <2> QED BY <1>6, <2>1, <2>2
<1>8. /\ Good(live') /\ live'.imageFiles = live.imageFiles /\ live'.images[i] = s
      /\ (Current(live) => Current(live'))
  BY <1>2, <1>6, <1>7, NotedGood
<1>9. TypeOK'
  BY <1>1, <1>3, <1>8 DEF Inv, TypeOK, Good
<1>10. Underway'
  BY <1>3, <1>5, <1>8, NoneAssumption DEF Underway, At
<1> QED BY <1>1, <1>8, <1>9, <1>10 DEF Inv, Staged, Indexed

\* The descriptions an upload leaves.
LEMMA CombinedType ==
  ASSUME NEW s \in Seq(Description), NEW t \in Text
  PROVE  Combined(s, t) \in Seq(Text)
<1> DEFINE texts == [n \in 1 .. Len(s) |-> s[n].text]
<1>1. texts \in [1 .. Len(s) -> Text] /\ Len(s) \in Nat
  <2>1. Len(s) \in Nat /\ \A n \in 1 .. Len(s) : s[n] \in Description
    BY LenProperties
  <2> QED BY <2>1 DEF Description
<1>2. texts \in Seq(Text)
  BY <1>1, Tabulated
<1>3. Combined(s, t) = IF t \in TextsOf(s) THEN texts ELSE Append(texts, t)
  BY DEF Combined
<1> HIDE DEF texts
<1> QED BY <1>2, <1>3, AppendProperties

\* then its texts,
LEMMA DescribeKeeps ==
  ASSUME Inv, Describe
  PROVE  Inv'
<1>1. /\ At("upload", "describe") /\ Goto("index")
      /\ LET texts == Combined(live.images[short.image], short.text)
         IN live' = Noted(live, short.image, Embedded(texts, live.bound))
      /\ torn' = torn \ {short.image}
      /\ stage' = stage /\ lock' = lock /\ loaded' = loaded /\ cut' = cut
  BY DEF Describe, Noted
<1>2. Good(live) /\ live \in Library /\ live.bound \in Fingerprint
  BY DEF Inv, TypeOK, Library
<1>3. /\ short.image \in Image /\ short' \in ShortJob /\ short' # None /\ lock = "short"
      /\ short'.kind = "upload" /\ short'.image = short.image /\ short'.at = "index"
      /\ short.text \in Text
  BY <1>1, GotoType
<1>4. short.image \in live.imageFiles /\ live.images[short.image] # None
  BY <1>1 DEF Inv, Underway
<1>5. live.images[short.image] \in Seq(Description)
  BY <1>2, <1>3, <1>4 DEF Library
<1>6. Combined(live.images[short.image], short.text) \in Seq(Text)
  BY <1>3, <1>5, CombinedType
<1>7. PICK s \in Seq(Description) : /\ \A n \in 1 .. Len(s) : s[n].fp = live.bound
                                    /\ live' = Noted(live, short.image, s)
  BY <1>1, <1>2, <1>6, EmbeddedBy
<1>8. Good(live')
  BY <1>2, <1>4, <1>7, NotedGood
<1>9. TypeOK'
  BY <1>1, <1>3, <1>8 DEF Inv, TypeOK, Good
<1>10. Underway' /\ Indexed'
  BY <1>3 DEF Underway, Indexed, At
<1> QED BY <1>1, <1>8, <1>9, <1>10 DEF Inv, Staged

\* and rebuilds the indexes before it answers.
LEMMA AnswerKeeps ==
  ASSUME Inv, Answer
  PROVE  Inv'
<1>1. /\ live' = Rebuilt(live) /\ cut' = FALSE /\ short' = None /\ lock' = "free"
      /\ stage' = stage /\ loaded' = loaded /\ torn' = torn
  BY DEF Answer
<1>2. Good(live') /\ Current(live')
  BY <1>1, RebuiltGood, RebuiltCurrent DEF Inv
<1>3. TypeOK'
  BY <1>1, <1>2 DEF Inv, TypeOK, Good
<1> QED BY <1>1, <1>2, <1>3 DEF Inv, Staged, Underway, Indexed, At

\* A deletion removes the rows first,
LEMMA DeleteKeeps ==
  ASSUME Inv, NEW i \in Image, Delete(i)
  PROVE  Inv'
<1> DEFINE job == [kind |-> "delete", image |-> i, text |-> None, at |-> "unlink"]
<1>1. /\ lock = "free" /\ lock' = "short" /\ live' = Deleted(live, i) /\ short' = job
      /\ stage' = stage /\ loaded' = loaded /\ cut' = cut /\ torn' = torn \ {i}
  BY DEF Delete, Begins, Deleted
<1>2. job \in ShortJob /\ job # None /\ job.image = i /\ job.kind = "delete" /\ job.at = "unlink"
  BY NoneAssumption DEF ShortJob
<1> HIDE DEF job
<1>3. Good(live') /\ live'.images[i] = None
  BY <1>1, DeletedGood DEF Inv
<1>4. TypeOK'
  BY <1>1, <1>2, <1>3 DEF Inv, TypeOK, Good
<1>5. Underway' /\ Indexed'
  BY <1>1, <1>2, <1>3 DEF Underway, Indexed, At
<1> QED BY <1>1, <1>3, <1>4, <1>5 DEF Inv, Staged

\* and then the file.
LEMMA UnlinkKeeps ==
  ASSUME Inv, Unlink
  PROVE  Inv'
<1> DEFINE files == live.imageFiles \ {short.image}
<1>1. /\ At("delete", "unlink") /\ Goto("index") /\ live' = Filed(live, files)
      /\ stage' = stage /\ lock' = lock /\ loaded' = loaded /\ cut' = cut /\ torn' = torn
  BY DEF Unlink, Filed
<1>2. /\ short.image \in Image /\ short' \in ShortJob /\ short' # None /\ lock = "short"
      /\ short'.kind = "delete" /\ short'.image = short.image /\ short'.at = "index"
  BY <1>1, GotoType
<1>3. Good(live) /\ files \subseteq Image /\ Images(live) \subseteq files
  <2>1. live.images[short.image] = None
    BY <1>1 DEF Inv, Underway
  <2> QED BY <2>1 DEF Inv, Good, Backing, Library, Images
<1> HIDE DEF files
<1>4. Good(live')
  BY <1>1, <1>3, FiledGood
<1>5. TypeOK'
  BY <1>1, <1>2, <1>4 DEF Inv, TypeOK, Good
<1>6. Underway' /\ Indexed'
  BY <1>2 DEF Underway, Indexed, At
<1> QED BY <1>1, <1>4, <1>5, <1>6 DEF Inv, Staged

\* A relation that is made or undone.
LEMMA RelationKeeps ==
  ASSUME Inv, NEW d \in Document, NEW i \in Image, Link(d, i) \/ Unbind(d, i)
  PROVE  Inv'
<1>1. /\ lock = "free" /\ lock' = lock /\ stage' = stage /\ short' = short
      /\ loaded' = loaded /\ cut' = cut /\ torn' = torn
  BY DEF Link, Unbind, Begins
<1>2. short = None /\ Good(live)
  BY <1>1 DEF Inv, TypeOK
<1>3. Good(live') /\ (Current(live) => Current(live'))
  <2>1. CASE Link(d, i)
    <3>1. d \in Documents(live) /\ i \in Images(live) /\ live' = Linked(live, d, i)
      BY <2>1 DEF Link, Documents, Images, Linked, Unrelated
    <3> QED BY <1>2, <3>1, LinkedGood
  <2>2. CASE Unbind(d, i)
    <3>1. live' = Unbound(live, d, i)
      BY <2>2 DEF Unbind, Unbound
    <3> QED BY <1>2, <3>1, UnboundGood
  <2> QED BY <2>1, <2>2
<1>4. TypeOK'
  BY <1>1, <1>2, <1>3 DEF Inv, TypeOK, Good
<1> QED BY <1>1, <1>2, <1>3, <1>4 DEF Inv, Staged, Underway, Indexed, At

\* The inductive invariant of the library and its copy.
LEMMA Invariant == Spec => []Inv
<1>1. Inv /\ [Next]_vars => Inv'
  <2> SUFFICES ASSUME Inv, [Next]_vars PROVE Inv'
    OBVIOUS
  <2>1. CASE UNCHANGED vars
    BY <2>1 DEF vars, Inv, TypeOK, Staged, Underway, Indexed, At
  <2>2. ASSUME NEW o \in Operations, NEW f \in Fingerprint, Work(o, f) PROVE Inv'
    BY <2>2, WorkKeeps
  <2>3. CASE Publish
    BY <2>3, PublishKeeps
  <2>4. CASE Load
    BY <2>4, LoadKeeps
  <2>5. CASE Resume \/ Abandon \/ Evict \/ ShortFails \/ Crash
    BY <2>5, OthersKeep
  <2>6. ASSUME NEW i \in Image, NEW t \in Text, Upload(i, t) PROVE Inv'
    BY <2>6, UploadKeeps
  <2>7. CASE Register
    BY <2>7, RegisterKeeps
  <2>8. CASE Describe
    BY <2>8, DescribeKeeps
  <2>9. CASE Answer
    BY <2>9, AnswerKeeps
  <2>10. ASSUME NEW i \in Image, Delete(i) PROVE Inv'
    BY <2>10, DeleteKeeps
  <2>11. CASE Unlink
    BY <2>11, UnlinkKeeps
  <2>12. ASSUME NEW d \in Document, NEW i \in Image, Link(d, i) \/ Unbind(d, i) PROVE Inv'
    BY <2>12, RelationKeeps
  <2> QED BY <2>1, <2>2, <2>3, <2>4, <2>5, <2>6, <2>7, <2>8, <2>9, <2>10, <2>11, <2>12 DEF Next
<1> QED BY Initially, <1>1, PTL DEF Spec

-----------------------------------------------------------------------------
\* The vectors relations keep.  A provider switch embeds every chunk, every
\* description and every calibrated relation anew; a uniform relation keeps the
\* vector it was given under an earlier provider, of the same dimension.

Rel(l, d, i) == l.relations[<<d, i>>]

Matched(l) ==
  \A d \in Document, i \in Image :
    Rel(l, d, i) # None /\ Rel(l, d, i).vector # None =>
      Dimension[Rel(l, d, i).vector] = Dimension[l.bound]

\* Relations of r are those of l, or they have a vector of the binding or none.
Renews(r, l) ==
  \A d \in Document, i \in Image :
    Rel(r, d, i) # None => Rel(r, d, i) = Rel(l, d, i) \/ Rel(r, d, i).vector \in {None, r.bound}

\* Renewed relations match a binding of the same dimension.
LEMMA RenewsMatched ==
  ASSUME NEW l, NEW r, Matched(l), Renews(r, l), Dimension[r.bound] = Dimension[l.bound]
  PROVE  Matched(r)
BY DEF Matched, Renews

\* A relation that is calibrated with a vector of the binding, or with none, is renewed.
LEMMA CalibratedRenews ==
  ASSUME NEW l \in Library, NEW d \in Document, NEW i \in Image,
         NEW mode, NEW vector \in {None, l.bound}, NEW f
  PROVE  Renews(Calibrated(l, <<d, i>>, mode, vector, f), l)
<1> DEFINE rel == [mode |-> mode, vector |-> vector, fp |-> f, of |-> Texts(l, i)]
           strengths == Fitted(l, <<d, i>>, f, Texts(l, i))
           r == Calibrated(l, <<d, i>>, mode, vector, f)
<1>1. r = [l EXCEPT !.relations[<<d, i>>] = rel, !.strengths = strengths]
  BY DEF Calibrated
<1>2. rel.vector = vector
  OBVIOUS
<1> HIDE DEF rel, strengths, r
<1>3. r.bound = l.bound /\ r.relations = [l.relations EXCEPT ![<<d, i>>] = rel]
  BY <1>1 DEF Library
<1>4. \A e \in Document, j \in Image :
        Rel(r, e, j) = IF e = d /\ j = i THEN rel ELSE Rel(l, e, j)
  BY <1>3 DEF Library, Pair, Rel
<1> QED BY <1>2, <1>3, <1>4 DEF Renews, r

\* So are all that are calibrated at once.
LEMMA CalibratedAllRenews ==
  ASSUME NEW l \in Library, NEW P
  PROVE  LET r == CalibratedAll(l, P, l.bound) IN Renews(r, l) /\ r.bound = l.bound /\ r.images = l.images
<1> DEFINE rel(p) == [mode |-> l.relations[p].mode, vector |-> l.bound, fp |-> l.bound,
                      of |-> Texts(l, p[2])]
           strengths == {x \in l.strengths : \A p \in P :
                            ~(x.image = p[2] /\ x.chunk \in l.documents[p[1]].chunks)}
                        \union UNION {Fitted([l EXCEPT !.strengths = {}], p, l.bound, Texts(l, p[2]))
                                        : p \in P}
           relations == [p \in Pair |-> IF p \in P THEN rel(p) ELSE l.relations[p]]
           r == CalibratedAll(l, P, l.bound)
<1>1. r = [l EXCEPT !.relations = relations, !.strengths = strengths]
  BY DEF CalibratedAll
<1>2. \A p : rel(p).vector = l.bound
  OBVIOUS
<1> HIDE DEF rel
<1>3. \A e \in Document, j \in Image :
        relations[<<e, j>>] = IF <<e, j>> \in P THEN rel(<<e, j>>) ELSE Rel(l, e, j)
  BY DEF Pair, Rel
<1> HIDE DEF relations, strengths, r
<1>4. r.bound = l.bound /\ r.images = l.images /\ r.relations = relations
  BY <1>1 DEF Library
<1> QED BY <1>2, <1>3, <1>4 DEF Renews, Rel, r

\* A switch gives every description a vector of the new provider.
LEMMA SwitchedRenews ==
  ASSUME NEW l \in Library, NEW f \in Fingerprint
  PROVE  LET r == Switched(l, f)
         IN /\ Renews(r, l)
            /\ \A i \in Images(l) : l.images[i] # <<>> =>
                 /\ r.images[i] # None
                 /\ 1 \in 1 .. Len(r.images[i]) /\ r.images[i][1].fp = f
<1> DEFINE images == [i \in Image |-> IF l.images[i] = None THEN None
                                      ELSE Embedded(Texts(l, i), f)]
           vectors == [c \in Chunk |-> IF c \in Active(l) THEN f ELSE None]
           all == [l EXCEPT !.bound = f, !.generation = (Active(l) # {}),
                            !.vectors = vectors, !.images = images]
           P == {p \in Relations(l) : l.relations[p].mode = "calibrated"}
           r == CalibratedAll(all, P, f)
<1>1. ASSUME NEW i \in Images(l)
      PROVE  /\ images[i] \in Seq(Description) /\ images[i] # None
             /\ l.images[i] # <<>> => 1 \in 1 .. Len(images[i]) /\ images[i][1].fp = f
  <2>1. Texts(l, i) \in Seq(Text) /\ Len(Texts(l, i)) = Len(l.images[i])
    BY TextsType
  <2>2. images[i] = Embedded(Texts(l, i), f)
    BY DEF Images
  <2>3. /\ Embedded(Texts(l, i), f) \in Seq(Description)
        /\ Len(Embedded(Texts(l, i), f)) = Len(l.images[i])
        /\ \A n \in 1 .. Len(Embedded(Texts(l, i), f)) : Embedded(Texts(l, i), f)[n].fp = f
    BY <2>1, EmbeddedBy, EmbeddedType
  <2>4. l.images[i] \in Seq(Description)
    BY DEF Images, Library
  <2>5. l.images[i] # <<>> => 1 \in 1 .. Len(l.images[i])
    BY <2>4, EmptySeq, LenProperties
  <2> HIDE DEF images
  <2> QED BY <2>2, <2>3, <2>5, NoneAssumption
<1>2. /\ images \in [Image -> Seq(Description) \union {None}]
      /\ vectors \in [Chunk -> Fingerprint \union {None}]
  BY <1>1 DEF Images
<1>3. Switched(l, f) = r
  <2>1. all = [l EXCEPT !.bound = f,
                         !.generation = (Active(l) # {}),
                         !.vectors = [c \in Chunk |-> IF c \in Active(l) THEN f ELSE None],
                         !.images = [i \in Image |-> IF @[i] = None THEN None
                                                     ELSE Embedded(Texts(l, i), f)]]
    OBVIOUS
  <2> HIDE DEF all
  <2> QED BY <2>1 DEF Switched
<1> HIDE DEF images
<1>4. all \in Library /\ all.bound = f /\ all.images = images /\ all.relations = l.relations
  <2> HIDE DEF vectors
  <2> QED BY <1>2 DEF Library
<1> HIDE DEF all, P
<1>5. Renews(r, all) /\ r.bound = f /\ r.images = images
  BY <1>4, CalibratedAllRenews
<1> HIDE DEF r
<1>6. Renews(r, l)
  BY <1>4, <1>5 DEF Renews, Rel
<1> QED BY <1>1, <1>3, <1>5, <1>6

\* Relations that stay are renewed, trivially.
LEMMA SameRelations ==
  ASSUME NEW l, NEW r, r.relations = l.relations
  PROVE  Renews(r, l)
BY DEF Renews, Rel

\* Every operation but the rebuild calibrates with the binding's vectors.
LEMMA AppliedRenews ==
  ASSUME NEW l, Good(l), NEW o \in Operations, Accepted(l, o), o.kind # "rebuild"
  PROVE  Renews(Applied(l, o), l) /\ Applied(l, o).bound = l.bound
<1>0. l \in Library /\ l.bound \in Fingerprint
  BY DEF Good, Library
<1>1. CASE o.kind = "ingest"
  <2> DEFINE documents == IF o.document = None THEN l ELSE Installed(l, o.document, o.source)
             s == Embedded(o.texts, l.bound)
             files == documents.imageFiles \union {o.image}
             media == IF o.image = None THEN documents
                      ELSE [documents EXCEPT !.images[o.image] = s, !.imageFiles = files]
             r == Calibrated(media, <<o.document, o.image>>, o.mode, l.bound, l.bound)
  <2>1. /\ o.document \in Document \union {None} /\ o.source \in Source
        /\ o.image \in Image \union {None} /\ o.texts \in Seq(Text)
    BY <1>1, TextAssumption DEF Operations, Batches
  <2>2. documents \in Library /\ documents.bound = l.bound /\ documents.relations = l.relations
    <3>1. CASE o.document = None
      BY <1>0, <3>1
    <3>2. CASE o.document # None
      <4>1. documents = Installed(l, o.document, o.source)
        BY <3>2
      <4>2. l.documents[o.document] = None /\ Room(l)
        BY <1>1, <3>2 DEF Accepted
      <4> HIDE DEF documents
      <4> QED BY <2>1, <3>2, <4>1, <4>2, InstalledGood DEF Good
    <3> QED BY <3>1, <3>2
  <2>3. s \in Seq(Description)
    BY <1>0, <2>1, EmbeddedBy
  <2>4. Ingested(l, o) = IF o.document = None \/ o.image = None \/ ~o.mapped THEN media ELSE r
    BY DEF Ingested
  <2>5. Applied(l, o) = Ingested(l, o)
    BY <1>1 DEF Applied
  <2> HIDE DEF documents, s
  <2>6. media \in Library /\ media.bound = l.bound /\ media.relations = l.relations
    BY <2>1, <2>2, <2>3 DEF Library
  <2> HIDE DEF media
  <2>7. CASE o.document = None \/ o.image = None \/ ~o.mapped
    BY <2>4, <2>5, <2>6, <2>7, SameRelations
  <2>8. CASE ~(o.document = None \/ o.image = None \/ ~o.mapped)
    <3>1. o.document \in Document /\ o.image \in Image
      BY <2>1, <2>8
    <3>2. Renews(r, media)
      BY <2>6, <3>1, CalibratedRenews
    <3>3. r.bound = media.bound
      BY <2>6 DEF Calibrated, Library
    <3> HIDE DEF r
    <3> QED BY <2>4, <2>5, <2>6, <2>8, <3>2, <3>3 DEF Renews, Rel
  <2> QED BY <2>7, <2>8
<1>2. CASE o.kind = "entry_update"
  <2>1. o.document \in Document /\ l.documents[o.document] # None /\ Room(l)
    BY <1>2 DEF Operations, Batches, Accepted
  <2>2. l.documents[o.document].source \in Source
    BY <1>0, <2>1 DEF Library, DocumentRow
  <2>3. IsChunked(Applied(l, o), l, o.document, l.documents[o.document].source)
    BY <1>0, <1>2, <2>1, <2>2, ChunkedFields DEF Applied
  <2> QED BY <2>3, SameRelations DEF IsChunked
<1>3. CASE o.kind = "delete"
  <2>1. o.documents \in SUBSET Document
    BY <1>3 DEF Operations, Batches
  <2>2. IsRemoved(Applied(l, o), l, o.documents)
    BY <1>0, <1>3, <2>1, RemovedFields DEF Applied
  <2> QED BY <2>2 DEF IsRemoved, Renews, Rel, Pair
<1>4. CASE o.kind = "calibrate"
  <2>1. o.document \in Document /\ o.image \in Image
    BY <1>4 DEF Operations, Batches
  <2>2. PICK mode \in {"calibrated", "uniform"}, vector \in {None, l.bound} :
          Applied(l, o) = Calibrated(l, <<o.document, o.image>>, mode, vector, l.bound)
    <3>1. Applied(l, o) = IF o.enabled
            THEN Calibrated(l, <<o.document, o.image>>, "calibrated", l.bound, l.bound)
            ELSE Calibrated(l, <<o.document, o.image>>, "uniform", None, l.bound)
      BY <1>4 DEF Applied
    <3>2. ASSUME NEW mode \in {"calibrated", "uniform"}, NEW vector \in {None, l.bound},
                 Applied(l, o) = Calibrated(l, <<o.document, o.image>>, mode, vector, l.bound)
          PROVE  \E m \in {"calibrated", "uniform"}, v \in {None, l.bound} :
                   Applied(l, o) = Calibrated(l, <<o.document, o.image>>, m, v, l.bound)
      BY <3>2
    <3> QED BY <3>1, <3>2
  <2>3. Calibrated(l, <<o.document, o.image>>, mode, vector, l.bound).bound = l.bound
    BY <1>0 DEF Calibrated, Library
  <2> QED BY <1>0, <2>1, <2>2, <2>3, CalibratedRenews
<1>5. CASE o.kind = "describe"
  <2> DEFINE s == Embedded(o.texts, l.bound)
             base == [l EXCEPT !.images[o.image] = s]
             P == {p \in Relations(l) : p[2] = o.image}
  <2>1. o.image \in Image /\ o.texts \in Seq(Text)
    BY <1>5, TextAssumption DEF Operations, Batches
  <2>2. s \in Seq(Description)
    BY <1>0, <2>1, EmbeddedBy
  <2>3. Applied(l, o) = CalibratedAll(base, P, l.bound)
    BY <1>5 DEF Applied, Described
  <2> HIDE DEF s
  <2>4. base \in Library /\ base.bound = l.bound /\ base.relations = l.relations
    BY <1>0, <2>1, <2>2 DEF Library
  <2> HIDE DEF base, P
  <2>5. Renews(Applied(l, o), base) /\ Applied(l, o).bound = base.bound
    BY <2>3, <2>4, CalibratedAllRenews
  <2> QED BY <2>4, <2>5 DEF Renews, Rel
<1> QED BY <1>1, <1>2, <1>3, <1>4, <1>5 DEF Accepted

-----------------------------------------------------------------------------
\* Libraries that pass validation.

\* Opening leaves no image without a description, and no relation changes.
LEMMA InitializedRows ==
  ASSUME NEW l, Good(l)
  PROVE  LET r == Initialized(l)
         IN /\ r.relations = l.relations /\ r.bound = l.bound
            /\ \A i \in Image : r.images[i] # <<>>
<1> DEFINE stem(i) == <<[text |-> Stem[i], fp |-> None]>>
           images == [i \in Image |-> IF l.images[i] = <<>> THEN stem(i) ELSE l.images[i]]
           r == Initialized(l)
<1>1. r = [l EXCEPT !.images = images] /\ l \in Library
  BY DEF Initialized, Good
<1>2. \A i \in Image : stem(i) # <<>>
  BY DEF stem
<1> HIDE DEF stem
<1>3. \A i \in Image : images[i] # <<>>
  BY <1>2
<1> HIDE DEF images
<1> QED BY <1>1, <1>3 DEF Library

\* Opening a library leaves its relations and its binding, and every image has a text.
LEMMA LoadedRows ==
  ASSUME NEW l, Good(l)
  PROVE  LET r == Loaded(l)
         IN /\ r.relations = l.relations /\ r.bound = l.bound
            /\ \A i \in Image : r.images[i] # <<>>
<1> DEFINE opened == Initialized(l)
<1>1. /\ Good(opened) /\ opened.relations = l.relations /\ opened.bound = l.bound
      /\ \A i \in Image : opened.images[i] # <<>>
  BY InitializedGood, InitializedRows
<1>2. Loaded(l) = IF opened.chunkIndex = {} THEN Rebuilt(opened) ELSE opened
  BY DEF Loaded
<1> HIDE DEF opened
<1>3. SameRows(Rebuilt(opened), opened)
  BY <1>1, RebuiltGood
<1> QED BY <1>1, <1>2, <1>3 DEF SameRows

\* A staging copy has the relations and the binding of the library.
LEMMA CopiedRows ==
  ASSUME NEW l, Good(l)
  PROVE  Copied(l).relations = l.relations /\ Copied(l).bound = l.bound
<1> DEFINE bare == [l EXCEPT !.chunkIndex = {}, !.mediaIndex = {}]
<1>1. SameRows(bare, l)
  BY DEF Good, SameRows, Library
<1>2. Copied(l) = Initialized(bare)
  BY DEF Copied
<1> HIDE DEF bare
<1> QED BY <1>1, <1>2, SameRowsGood, InitializedRows DEF SameRows

\* All vectors of a good library with matched relations are as long as the binding's.
LEMMA MatchedValid ==
  ASSUME NEW l, Good(l), Matched(l), \A i \in Images(l) : l.images[i] # <<>>
  PROVE  Valid(l)
<1>1. ASSUME NEW f \in VectorsUsed(l) PROVE Dimension[f] = Dimension[l.bound]
  <2>1. f # None
    BY DEF VectorsUsed
  <2>2. CASE \E p \in Relations(l) : f = l.relations[p].vector
    <3>1. PICK p \in Relations(l) : f = l.relations[p].vector
      BY <2>2
    <3>2. p[1] \in Document /\ p[2] \in Image /\ p = <<p[1], p[2]>> /\ l.relations[p] # None
      BY DEF Relations, Pair
    <3> QED BY <2>1, <3>1, <3>2 DEF Matched, Rel
  <2>3. CASE \E i \in Images(l) : \E n \in 1 .. Len(l.images[i]) : f = l.images[i][n].fp
    BY <2>1, <2>3 DEF Good, Vectored
  <2>4. CASE \E v \in ChunkVectors(l) : f = v[2]
    <3>1. PICK c \in Active(l) : f = l.vectors[c]
      BY <2>4 DEF ChunkVectors
    <3>2. c \in Chunk
      BY DEF Good, Library, Active, Documents, DocumentRow
    <3> QED BY <2>1, <3>1, <3>2 DEF Good, Vectored
  <2>5. \/ f \in {l.relations[p].vector : p \in Relations(l)}
        \/ f \in UNION {{l.images[i][n].fp : n \in 1 .. Len(l.images[i])} : i \in Images(l)}
        \/ f \in {v[2] : v \in ChunkVectors(l)}
    BY DEF VectorsUsed
  <2>6. f \in UNION {{l.images[i][n].fp : n \in 1 .. Len(l.images[i])} : i \in Images(l)}
          => \E i \in Images(l) : \E n \in 1 .. Len(l.images[i]) : f = l.images[i][n].fp
    OBVIOUS
  <2> QED BY <2>2, <2>3, <2>4, <2>5, <2>6
<1> QED BY <1>1 DEF Valid

\* A library whose switch validates has matched relations: the image of a relation
\* has a description, whose vector is now the new provider's.
LEMMA SwitchedMatched ==
  ASSUME NEW l, Good(l), Valid(l), NEW f \in Fingerprint, Valid(Switched(l, f))
  PROVE  Matched(Switched(l, f))
<1> DEFINE r == Switched(l, f)
<1>1. /\ Good(r) /\ r.bound = f /\ r \in Library /\ Renews(r, l) /\ l \in Library
      /\ \A i \in Images(l) : l.images[i] # <<>> =>
           /\ r.images[i] # None
           /\ 1 \in 1 .. Len(r.images[i]) /\ r.images[i][1].fp = f
  BY SwitchedGood, SwitchedRenews DEF Good
<1>2. Valid(r)
  OBVIOUS
<1> HIDE DEF r
<1> SUFFICES ASSUME NEW d \in Document, NEW i \in Image,
                    Rel(r, d, i) # None, Rel(r, d, i).vector # None
             PROVE  Dimension[Rel(r, d, i).vector] = Dimension[f]
  BY <1>1 DEF Matched, r
<1>3. CASE Rel(r, d, i).vector \in {None, r.bound}
  BY <1>1, <1>3
<1>4. CASE Rel(r, d, i) = Rel(l, d, i)
  <2>1. i \in Images(l)
    BY <1>4 DEF Good, Related, Rel, Images
  <2>2. 1 \in 1 .. Len(r.images[i]) /\ r.images[i][1].fp = f /\ i \in Images(r)
    BY <1>1, <2>1 DEF Valid, Images
  <2>3. f \in VectorsUsed(r)
    <3>1. f \in {r.images[i][n].fp : n \in 1 .. Len(r.images[i])} /\ f # None
      BY <2>2, NoneAssumption
    <3>2. f \in UNION {{r.images[j][n].fp : n \in 1 .. Len(r.images[j])} : j \in Images(r)}
      BY <2>2, <3>1
    <3> QED BY <3>1, <3>2 DEF VectorsUsed
  <2>4. <<d, i>> \in Relations(r)
    BY DEF Relations, Rel, Pair
  <2>5. Rel(r, d, i).vector \in VectorsUsed(r)
    BY <2>4 DEF VectorsUsed, Rel
  <2> QED BY <1>2, <2>3, <2>5 DEF Valid
<1> QED BY <1>1, <1>3, <1>4 DEF Renews

-----------------------------------------------------------------------------
\* Every vector in the library and in the copy that is ready is as long as the
\* binding's.
Even == Matched(live) /\ (stage # None => Matched(stage))

\* An image without descriptions is one an upload is about to describe, or one
\* it left behind.
Repaired ==
  \A i \in Images(live) : live.images[i] = <<>> =>
    i \in torn \/ (At("upload", "describe") /\ short.image = i)

\* A task's copy matches its binding, over a change of the model too.
LEMMA WorkEven ==
  ASSUME Inv, Even, NEW o \in Operations, NEW f \in Fingerprint, Work(o, f)
  PROVE  Even'
<1> DEFINE source == IF Embeds(o) THEN Initialized(live) ELSE live
           copied == Copied(source)
           copy == Rebound(copied, f)
           applied == Applied(copy, o)
           done == Rebuilt(applied)
<1>1. /\ Accepted(copy, o) /\ Valid(copy) /\ Valid(done)
      /\ live' = source /\ stage' = done
      /\ IF Embeds(o) THEN Dimension[f] = Dimension[live.bound] ELSE f = live.bound
  BY DEF Work
<1>2. Good(source) /\ source.relations = live.relations /\ source.bound = live.bound
  BY InitializedGood, InitializedRows DEF Inv
<1>3. Matched(source)
  BY <1>2 DEF Even, Matched, Rel
<1> HIDE DEF source
<1>4. /\ Good(copied) /\ copied.bound = live.bound /\ Matched(copied)
  BY <1>2, <1>3, CopiedGood, CopiedRows DEF Matched, Rel
<1> HIDE DEF copied
<1>5. Dimension[f] = Dimension[copied.bound]
  BY <1>1, <1>4
<1>6. Good(copy) /\ Matched(copy)
  <2>1. CASE f = copied.bound
    BY <1>4, <2>1 DEF Rebound
  <2>2. CASE f # copied.bound
    <3>1. copy = Switched(copied, f)
      BY <2>2 DEF Rebound
    <3>2. Good(copy) /\ copy.bound = f /\ Renews(copy, copied)
      BY <1>4, <3>1, SwitchedGood, SwitchedRenews DEF Good
    <3> HIDE DEF copy
    <3> QED BY <1>4, <1>5, <3>2, RenewsMatched
  <2> QED BY <2>1, <2>2
<1> HIDE DEF copy
<1>7. Good(applied)
  BY <1>1, <1>6, AppliedGood
<1>8. SameRows(done, applied)
  BY <1>7, RebuiltGood
<1>9. Matched(applied)
  <2>1. CASE o.kind # "rebuild"
    BY <1>1, <1>6, <2>1, AppliedRenews, RenewsMatched
  <2>2. CASE o.kind = "rebuild"
    <3>1. o.target \in Fingerprint
      BY <2>2 DEF Operations, Batches
    <3>2. applied = Switched(copy, o.target)
      BY <2>2 DEF Applied
    <3>3. Valid(applied)
      <4> HIDE DEF applied, done
      <4>1. VectorsUsed(applied) = VectorsUsed(done) /\ Images(applied) = Images(done)
            /\ applied.images = done.images
        BY <1>8 DEF SameRows, VectorsUsed, Relations, Images, ChunkVectors, Active, Documents
      <4> QED BY <1>1, <4>1 DEF Valid
    <3> QED BY <1>1, <1>6, <3>1, <3>2, <3>3, SwitchedMatched
  <2> QED BY <2>1, <2>2
<1> HIDE DEF applied, done
<1>10. Matched(done)
  BY <1>8, <1>9 DEF SameRows, Matched, Rel
<1> QED BY <1>1, <1>3, <1>10 DEF Even

\* A relation that is linked has no vector yet.
LEMMA RelationEven ==
  ASSUME Inv, Even, NEW d \in Document, NEW i \in Image, Link(d, i) \/ Unbind(d, i)
  PROVE  Matched(live')
<1>1. live \in Library /\ <<d, i>> \in Pair
  BY DEF Inv, TypeOK, Pair
<1>2. PICK rel : /\ rel = None \/ rel = Rel(live, d, i) \/ rel.vector = None
                 /\ live'.relations = [live.relations EXCEPT ![<<d, i>>] = rel]
                 /\ live'.bound = live.bound
  <2>1. CASE Link(d, i)
    <3>1. live' = Linked(live, d, i)
      BY <2>1 DEF Link, Linked, Unrelated
    <3> DEFINE rel == IF Rel(live, d, i) = None THEN Unrelated ELSE Rel(live, d, i)
    <3>2. live' = [live EXCEPT !.relations[<<d, i>>] = rel]
      BY <1>1, <3>1 DEF Linked, Library, Rel
    <3>3. rel = Rel(live, d, i) \/ rel.vector = None
      BY DEF Unrelated
    <3> HIDE DEF rel
    <3> QED BY <1>1, <3>2, <3>3 DEF Library
  <2>2. CASE Unbind(d, i)
    <3> DEFINE kept == {x \in live.strengths :
                          ~(x.image = i /\ x.chunk \in live.documents[d].chunks)}
    <3>1. live' = [live EXCEPT !.relations[<<d, i>>] = None, !.strengths = kept]
      BY <2>2 DEF Unbind
    <3> HIDE DEF kept
    <3> QED BY <1>1, <3>1 DEF Library
  <2> QED BY <2>1, <2>2
<1>3. \A e \in Document, j \in Image :
        Rel(live', e, j) = IF e = d /\ j = i THEN rel ELSE Rel(live, e, j)
  BY <1>1, <1>2 DEF Rel, Library, Pair
<1> QED BY <1>2, <1>3 DEF Even, Matched

\* Every step keeps the vectors as long as the binding's.
LEMMA StepEven ==
  ASSUME Inv, Even, [Next]_vars
  PROVE  Even'
<1>1. ASSUME live'.relations = live.relations, live'.bound = live.bound, stage' = stage \/ stage' = None
      PROVE  Even'
  BY <1>1 DEF Even, Matched, Rel
<1>2. live \in Library
  BY DEF Inv, TypeOK
<1>3. CASE UNCHANGED vars
  BY <1>1, <1>3 DEF vars
<1>4. ASSUME NEW o \in Operations, NEW f \in Fingerprint, Work(o, f) PROVE Even'
  BY <1>4, WorkEven
<1>5. CASE Publish
  <2>1. lock = "task" /\ live' = Loaded(stage) /\ stage' = None
    BY <1>5 DEF Publish
  <2>2. stage # None /\ Good(stage) /\ Matched(stage)
    BY <2>1 DEF Inv, TypeOK, Staged, Even
  <2>3. live'.relations = stage.relations /\ live'.bound = stage.bound
    BY <2>1, <2>2, LoadedRows
  <2> QED BY <2>1, <2>2, <2>3 DEF Even, Matched, Rel
<1>6. CASE Load
  <2>1. live' = Loaded(live) /\ stage' = stage
    BY <1>6 DEF Load
  <2> QED BY <1>1, <2>1, LoadedRows DEF Inv
<1>7. CASE Resume \/ Abandon \/ Evict \/ ShortFails \/ Crash
  BY <1>1, <1>7 DEF Resume, Abandon, Evict, ShortFails, Crash
<1>8. ASSUME NEW i \in Image, NEW t \in Text, Upload(i, t) PROVE Even'
  BY <1>1, <1>2, <1>8 DEF Upload, Library
<1>9. CASE Register
  BY <1>1, <1>2, <1>9 DEF Register, Library
<1>10. CASE Describe
  <2>1. stage' = stage /\ \E s : live' = Noted(live, short.image, s)
    BY <1>10 DEF Describe, Noted
  <2> QED BY <1>1, <1>2, <2>1 DEF Noted, Library
<1>11. CASE Answer
  <2>1. stage' = stage /\ live' = Rebuilt(live)
    BY <1>11 DEF Answer
  <2> QED BY <1>1, <2>1, RebuiltGood DEF Inv, SameRows
<1>12. ASSUME NEW i \in Image, Delete(i) PROVE Even'
  <2> DEFINE relations == [p \in Pair |-> IF p[2] = i THEN None ELSE live.relations[p]]
             strengths == {x \in live.strengths : x.image # i}
  <2>1. /\ stage' = stage
        /\ live' = [live EXCEPT !.images[i] = None, !.relations = relations, !.strengths = strengths]
    BY <1>12 DEF Delete
  <2>2. \A d \in Document, j \in Image :
          relations[<<d, j>>] = IF j = i THEN None ELSE Rel(live, d, j)
    BY DEF Pair, Rel
  <2> HIDE DEF relations, strengths
  <2>3. live'.relations = relations /\ live'.bound = live.bound
    BY <1>2, <2>1 DEF Library
  <2> QED BY <2>1, <2>2, <2>3 DEF Even, Matched, Rel
<1>13. CASE Unlink
  BY <1>1, <1>2, <1>13 DEF Unlink, Library
<1>14. ASSUME NEW d \in Document, NEW i \in Image, Link(d, i) \/ Unbind(d, i) PROVE Even'
  <2>1. stage' = stage
    BY <1>14 DEF Link, Unbind
  <2> QED BY <1>14, <2>1, RelationEven DEF Even
<1> QED BY <1>3, <1>4, <1>5, <1>6, <1>7, <1>8, <1>9, <1>10, <1>11, <1>12, <1>13, <1>14 DEF Next

\* An upload leaves its image described.
LEMMA CombinedSome ==
  ASSUME NEW s \in Seq(Description), NEW t \in Text
  PROVE  Len(Combined(s, t)) > 0
<1> DEFINE texts == [n \in 1 .. Len(s) |-> s[n].text]
<1>1. Len(s) \in Nat /\ \A n \in 1 .. Len(s) : s[n] \in Description
  BY LenProperties
<1>2. texts \in [1 .. Len(s) -> Text]
  BY <1>1 DEF Description
<1>3. texts \in Seq(Text) /\ Len(texts) = Len(s)
  BY <1>1, <1>2, Tabulated
<1>4. Combined(s, t) = IF t \in TextsOf(s) THEN texts ELSE Append(texts, t)
  BY DEF Combined
<1>5. t \in TextsOf(s) => Len(s) > 0
  BY <1>1 DEF TextsOf
<1> HIDE DEF texts
<1>6. Len(Append(texts, t)) = Len(s) + 1
  BY <1>3, AppendProperties
<1> QED BY <1>1, <1>3, <1>4, <1>5, <1>6

\* Steps after which no image is without descriptions, or which touch none.
LEMMA StepRepaired ==
  ASSUME Inv, Repaired, [Next]_vars
  PROVE  Repaired'
<1>1. live \in Library /\ Good(live)
  BY DEF Inv, TypeOK
<1>2. ASSUME \A i \in Image : live'.images[i] # <<>>
      PROVE  Repaired'
  BY <1>2 DEF Repaired, Images
<1>3. ASSUME live'.images = live.images, torn' = torn, short' = short
      PROVE  Repaired'
  BY <1>3 DEF Repaired, Images, At
<1>4. CASE UNCHANGED vars
  BY <1>3, <1>4 DEF vars
<1>5. ASSUME NEW o \in Operations, NEW f \in Fingerprint, Work(o, f) PROVE Repaired'
  <2>1. short' = short
    BY <1>5 DEF Work
  <2>2. CASE Embeds(o)
    <3>1. live' = Initialized(live)
      BY <1>5, <2>2 DEF Work
    <3> QED BY <1>1, <1>2, <3>1, InitializedRows
  <2>3. CASE ~Embeds(o)
    <3>1. live' = live /\ torn' = torn
      BY <1>5, <2>3 DEF Work
    <3> QED BY <1>3, <2>1, <3>1
  <2> QED BY <2>2, <2>3
<1>6. CASE Publish
  <2>1. lock = "task" /\ live' = Loaded(stage)
    BY <1>6 DEF Publish
  <2>2. Good(stage)
    BY <2>1 DEF Inv, TypeOK, Staged
  <2> QED BY <1>2, <2>1, <2>2, LoadedRows
<1>7. CASE Load
  <2>1. live' = Loaded(live)
    BY <1>7 DEF Load
  <2> QED BY <1>1, <1>2, <2>1, LoadedRows
<1>8. CASE Resume \/ Abandon \/ Evict
  BY <1>3, <1>8 DEF Resume, Abandon, Evict
<1>9. CASE ShortFails \/ Crash
  <2>1. live' = live /\ torn' = Torn
    BY <1>9 DEF ShortFails, Crash
  <2> QED BY <2>1 DEF Repaired, Torn, Images
<1>10. ASSUME NEW i \in Image, NEW t \in Text, Upload(i, t) PROVE Repaired'
  <2>1. lock = "free" /\ torn' = torn /\ live'.images = live.images
    BY <1>1, <1>10 DEF Upload, Begins, Library
  <2>2. short = None
    BY <2>1 DEF Inv, TypeOK
  <2> QED BY <2>1, <2>2 DEF Repaired, Images, At
<1>11. CASE Register
  <2>1. /\ At("upload", "register") /\ Goto("describe") /\ torn' = torn
        /\ live' = [live EXCEPT !.images[short.image] = IF @ = None THEN <<>> ELSE @]
    BY <1>11 DEF Register
  <2>2. short' # None /\ short'.kind = "upload" /\ short'.image = short.image /\ short'.at = "describe"
        /\ short.image \in Image
    BY <2>1, GotoType
  <2>3. \A i \in Image : i # short.image => live'.images[i] = live.images[i]
    BY <1>1, <2>1, <2>2 DEF Library
  <2> QED BY <2>1, <2>2, <2>3 DEF Repaired, Images, At
<1>12. CASE Describe
  <2> DEFINE texts == Combined(live.images[short.image], short.text)
  <2>1. /\ At("upload", "describe") /\ Goto("index") /\ torn' = torn \ {short.image}
        /\ live' = Noted(live, short.image, Embedded(texts, live.bound))
    BY <1>12 DEF Describe, Noted
  <2>2. short.image \in Image /\ short.text \in Text
    BY <2>1, GotoType
  <2>3. live.images[short.image] \in Seq(Description)
    BY <1>1, <2>1, <2>2 DEF Inv, Underway, Library
  <2>4. texts \in Seq(Text) /\ Len(texts) > 0
    BY <2>2, <2>3, CombinedType, CombinedSome
  <2>5. live.bound \in Fingerprint
    BY <1>1 DEF Library
  <2> HIDE DEF texts
  <2>6. PICK s \in Seq(Description) : s = Embedded(texts, live.bound) /\ Len(s) > 0
    BY <2>4, <2>5, EmbeddedType
  <2>7. \A i \in Image : live'.images[i] = IF i = short.image THEN s ELSE live.images[i]
    BY <1>1, <2>1, <2>2, <2>6 DEF Noted, Library
  <2>8. s # <<>>
    BY <2>6
  <2> QED BY <2>1, <2>7, <2>8 DEF Repaired, Images
<1>13. CASE Answer
  <2>1. live' = Rebuilt(live) /\ torn' = torn /\ ~At("upload", "describe")
    BY <1>13 DEF Answer, At
  <2>2. live'.images = live.images
    BY <1>1, <2>1, RebuiltGood DEF SameRows
  <2> QED BY <2>1, <2>2 DEF Repaired, Images
<1>14. ASSUME NEW i \in Image, Delete(i) PROVE Repaired'
  <2>1. lock = "free" /\ torn' = torn \ {i} /\ live'.images = [live.images EXCEPT ![i] = None]
    BY <1>1, <1>14 DEF Delete, Begins, Library
  <2>2. short = None
    BY <2>1 DEF Inv, TypeOK
  <2>3. \A j \in Image : live'.images[j] = IF j = i THEN None ELSE live.images[j]
    BY <1>1, <2>1 DEF Library
  <2> QED BY <2>1, <2>2, <2>3 DEF Repaired, Images, At
<1>15. CASE Unlink
  <2>1. live'.images = live.images /\ torn' = torn /\ ~At("upload", "describe")
    BY <1>1, <1>15 DEF Unlink, At, Library
  <2> QED BY <2>1 DEF Repaired, Images
<1>16. ASSUME NEW d \in Document, NEW i \in Image, Link(d, i) \/ Unbind(d, i) PROVE Repaired'
  <2>1. live'.images = live.images /\ torn' = torn /\ short' = short
    <3>1. CASE Link(d, i)
      BY <1>1, <3>1 DEF Link, Library
    <3>2. CASE Unbind(d, i)
      BY <1>1, <3>2 DEF Unbind, Library
    <3> QED BY <1>16, <3>1, <3>2
  <2> QED BY <1>3, <2>1
<1> QED BY <1>4, <1>5, <1>6, <1>7, <1>8, <1>9, <1>10, <1>11, <1>12, <1>13, <1>14, <1>15, <1>16
        DEF Next

-----------------------------------------------------------------------------
\* The rows, the files, the indexes and the staged copy keep their types, a short
\* job holds the lock and a running task has its stage.
THEOREM TypeCorrect == Spec => []TypeOK
<1>1. Inv => TypeOK
  BY DEF Inv
<1> QED BY <1>1, Invariant, PTL

\* Whatever tasks, uploads and deletions are cut off, the library compares a query
\* only with vectors of the provider it is bound to, and a calibrated relation has
\* strengths of that provider and of its own descriptions only (Chunked, Switched).
THEOREM NeverMixed == Spec => []OneProvider
<1>1. Inv => OneProvider
  <2> SUFFICES ASSUME Good(live) PROVE OneProvider
    BY DEF Inv
  <2>1. /\ \A c \in Chunk : live.vectors[c] = IF c \in Active(live) THEN live.bound ELSE None
        /\ Active(live) # {} => live.generation
        /\ \A i \in Images(live) : \A n \in 1 .. Len(live.images[i]) :
             live.images[i][n].fp \in {live.bound, None}
    BY DEF Good, Vectored
  <2>2. ASSUME NEW p \in Relations(live), live.relations[p].mode = "calibrated"
        PROVE  /\ live.relations[p].vector = live.bound
               /\ \A x \in live.strengths :
                    x.image = p[2] /\ x.chunk \in live.documents[p[1]].chunks =>
                      x.fp = live.bound /\ x.of = live.relations[p].of
    <3>1. p[1] \in Document /\ p[2] \in Image /\ p = <<p[1], p[2]>> /\ live.relations[p] # None
      BY DEF Relations, Pair
    <3>2. Fits(live, p[1], p[2])
      BY <3>1 DEF Good, Fitting
    <3> QED BY <2>2, <3>1, <3>2 DEF Fits
  <2> QED BY <2>1, <2>2 DEF OneProvider
<1> QED BY <1>1, Invariant, PTL

\* Files come before the rows that name them and go after them, in every step of an
\* upload, a deletion or a task, so that no interruption leaves a row without its file.
THEOREM NeverUnbacked == Spec => []Backed
<1>1. Inv => Backed
  BY DEF Inv, Good, Backing, Backed
<1> QED BY <1>1, Invariant, PTL

\* Between changes the indexes have the vectors of the database and no others.
THEOREM IndexesFollow == Spec => []IndexFresh
<1>1. Inv => IndexFresh
  BY DEF Inv, Indexed, Current, IndexFresh
<1> QED BY <1>1, Invariant, PTL

\* Whatever tasks, uploads, deletions and relations a library has been through, and
\* wherever the process ended, its database passes TextMediaStorage.validate when no
\* upload is under way or left behind: no task is refused for what an earlier one wrote.
THEOREM AlwaysSound == Spec => []Sound
<1>1. Init => Even /\ Repaired
  <2>1. ASSUME Init PROVE live = Empty /\ stage = None /\ Images(Empty) = {}
                          /\ \A d \in Document, i \in Image : Rel(Empty, d, i) = None
    BY <2>1 DEF Init, Empty, Images, Rel, Pair
  <2> QED BY <2>1 DEF Even, Repaired, Matched
<1>2. Inv /\ Even /\ Repaired /\ [Next]_vars => (Even /\ Repaired)'
  BY StepEven, StepRepaired
<1>3. Inv /\ Even /\ Repaired => Sound
  <2> SUFFICES ASSUME Inv, Even, Repaired, short = None, torn = {} PROVE Valid(live)
    BY DEF Sound
  <2>1. \A i \in Images(live) : live.images[i] # <<>>
    BY DEF Repaired, At
  <2> QED BY <2>1, MatchedValid DEF Inv, Even
<1>4. Spec => [](Even /\ Repaired)
  BY Invariant, <1>1, <1>2, PTL DEF Spec
<1> QED BY Invariant, <1>3, <1>4, PTL
=============================================================================
