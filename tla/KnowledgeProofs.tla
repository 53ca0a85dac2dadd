--------------------------- MODULE KnowledgeProofs ---------------------------
(***************************************************************************)
(* Theorems about Knowledge, for every number of documents, ingestions,    *)
(* requests, index versions and crashes, and every document limit.         *)
(***************************************************************************)
EXTENDS Knowledge, TLAPS, WellFoundedInduction, FiniteSetTheorems

-----------------------------------------------------------------------------
\* What the invariant says

Created == {d \in Documents : document[d] # "none"}

\* Documents are numbered as they are created.
InOrder == \E n \in 0 .. MaxDocuments : Created = 1 .. n

\* An ingestion that has opened its index version.
Past(g) == Ingesting(g) /\ ~AtStep(g, "listed")

AtDocument == {"parsing", "embedding", "replaced"}
Counting == {"counting", "counted"}

\* What an ingestion is at, and has left to do, was taken up by its index version,
\* which nobody closes under it but a deletion; what it wrote is there, unless the
\* knowledge base was deleted.
WorksOn(g) ==
    LET r == ingester[g] IN
    /\ Ingesting(g) =>
          /\ r.todo \subseteq Created
          /\ IF r.pc \in AtDocument THEN r.doc \in r.todo ELSE r.doc = 0
          /\ r.pc \in Counting => r.todo = {}
    /\ Past(g) =>
          /\ r.index \in DOMAIN index
          /\ index[r.index].status \in {"indexing", "gone"}
          /\ r.todo \subseteq index[r.index].listed
          /\ index[r.index].status = "gone" => \A d \in r.todo : document[d] = "gone"
    /\ r.pc = "replaced" /\ document[r.doc] # "gone" => <<r.doc, r.index>> \in chunks
    /\ r.pc = "counted" /\ r.chunks > 0 /\ index[r.index].status # "gone" => chunks # {}

ListedAreCreated == \A i \in DOMAIN index : index[i].listed \subseteq Created

\* Each opens an index version of its own.
IndexesAreOwn == \A g, h \in Ingesters : Past(g) /\ Past(h) /\ IndexOf(g) = IndexOf(h) => g = h

\* An ingestion that is alone has no other beside it, and once it is finished all
\* others opened their index versions later.
AloneIsAlone ==
    \A g, h \in Ingesters : Ingesting(g) /\ ingester[g].alone /\ Ingesting(h) => g = h

LaterAreNewer ==
    \A i \in DOMAIN index : Finished(i) /\ index[i].alone =>
        \A g \in Ingesters : Past(g) => IndexOf(g) > i

Own(i) == {c \in chunks : c[2] = i}
DocumentsOf(i) == {c[1] : c \in Own(i)}

\* An ingestion that is alone has indexed or failed what it no longer has to do,
\* has written a chunk for each document it indexed, and has counted these.
Accounted(g) ==
    LET r == ingester[g]
        done == index[r.index].listed \ r.todo
    IN  Past(g) /\ r.alone /\ index[r.index].status # "gone" =>
          /\ \A d \in done : document[d] \in {"indexed", "failed"}
          /\ \A d \in Documents :
                <<d, r.index>> \in chunks <=> \/ d \in done /\ document[d] = "indexed"
                                              \/ r.pc = "replaced" /\ d = r.doc
          /\ r.pc \in Counting => r.documents = Cardinality(DocumentsOf(r.index))
          /\ r.pc = "counted" => r.chunks = Cardinality(Own(r.index))

\* An index version has a chunk of the document, and whoever counts its chunks
\* finds one.
Carries(j, d) ==
    /\ j \in Kept /\ <<d, j>> \in chunks /\ index[j].status # "pending"
    /\ \A g \in Ingesters : AtStep(g, "counted") /\ IndexOf(g) = j => ingester[g].chunks > 0

IndexedIsCarried ==
    \A d \in Documents : document[d] = "indexed" => \E j \in Kept : Carries(j, d)

\* A document that an index version took up and has no chunk of is carried by a later one.
LaterCarries ==
    \A i \in Kept : Finished(i) /\ index[i].alone =>
        \A d \in index[i].listed : document[d] = "indexed" =>
            <<d, i>> \in chunks \/ \E j \in Kept : j > i /\ Carries(j, d)

\* Requests past the limit's check leave room for what they still insert, apart from
\* the documents that came in beside them.
Quota ==
    \A q \in Requests : PastCheck(q) =>
        Cardinality(InKB \ crowded) + request[q].left <= DocumentLimit

EmptyWithout == ~Present => InKB = {}

IngestionsSound ==
    /\ \A g \in Ingesters : WorksOn(g) /\ Accounted(g)
    /\ InOrder /\ ListedAreCreated
    /\ IndexesAreOwn /\ AloneIsAlone /\ LaterAreNewer
    /\ IndexedIsCarried /\ LaterCarries
    /\ InProgressIsHeld /\ CountsAreTrue

KnowledgeInductive ==
    /\ TypeOK
    /\ IngestionsSound
    /\ EmptyWithout /\ Quota /\ LimitOfDocuments /\ AssignedIsPresent
    /\ ReadyIsFounded /\ PublishedIsTold

-----------------------------------------------------------------------------
\* Numbers and sets

\* A set of numbers has a least.
LEMMA LeastElement ==
    ASSUME NEW S \in SUBSET Nat, S # {}
    PROVE  \E x \in S : \A y \in S : x <= y
<1> DEFINE less == OpToRel(<, Nat)
<1>1. IsWellFoundedOn(less, Nat)
  BY NatLessThanWellFounded
<1>2. \A x, y \in Nat : y < x => <<y, x>> \in less
  BY DEF OpToRel
<1> HIDE DEF less
<1>3. PICK x \in S : \A y \in S : ~(<<y, x>> \in less)
  BY <1>1, WFMin
<1>4. \A y \in S : ~(y < x)
  BY <1>2, <1>3
<1> QED BY <1>4

\* A bounded one has a greatest.
LEMMA GreatestElement ==
    ASSUME NEW m \in Nat, NEW S \in SUBSET (0 .. m), S # {}
    PROVE  \E x \in S : \A y \in S : y <= x
<1> DEFINE T == {m - x : x \in S}
<1>1. T \in SUBSET Nat /\ T # {}
  <2>1. \A x \in S : x \in 0 .. m /\ m - x \in Nat
    OBVIOUS
  <2> QED BY <2>1
<1>2. PICK t \in T : \A u \in T : t <= u
  BY <1>1, LeastElement
<1>3. PICK x \in S : t = m - x
  OBVIOUS
<1>4. ASSUME NEW y \in S PROVE y <= x
  <2>1. m - x <= m - y
    BY <1>2, <1>3
  <2> QED BY <2>1
<1> QED BY <1>4

\* LatestOf is the greatest.
LEMMA LatestIsGreatest ==
    ASSUME NEW m \in Nat, NEW S \in SUBSET (0 .. m), S # {}
    PROVE  LatestOf(S) \in S /\ \A i \in S : i <= LatestOf(S)
<1>1. \E x \in S : \A y \in S : y <= x
  BY GreatestElement
<1> QED BY <1>1 DEF LatestOf

LEMMA DocumentsFinite ==
    /\ Documents \in SUBSET (0 .. MaxDocuments) /\ 0 \notin Documents
    /\ IsFiniteSet(Documents)
    /\ \A S \in SUBSET Documents : IsFiniteSet(S) /\ Cardinality(S) \in Nat
<1>1. MaxDocuments \in Nat
  BY KnowledgeAssumption
<1>2. IsFiniteSet(Documents)
  BY <1>1, FS_Interval DEF Documents
<1>3. \A S \in SUBSET Documents : IsFiniteSet(S) /\ Cardinality(S) \in Nat
  BY <1>2, FS_Subset, FS_CardinalityType
<1> QED BY <1>1, <1>2, <1>3 DEF Documents

LEMMA NewestDocument ==
    ASSUME NEW S \in SUBSET Documents, S # {}
    PROVE  LatestOf(S) \in S
<1>1. MaxDocuments \in Nat /\ S \in SUBSET (0 .. MaxDocuments)
  BY KnowledgeAssumption, DocumentsFinite
<1> QED BY <1>1, LatestIsGreatest

\* Chunks can be counted.
LEMMA ChunksFinite ==
    ASSUME TypeOK
    PROVE  \A S \in SUBSET chunks :
              /\ IsFiniteSet(S) /\ Cardinality(S) \in Nat
              /\ S # {} => Cardinality(S) > 0
              /\ Cardinality({c[1] : c \in S}) \in Nat
<1>1. Len(index) \in Nat /\ chunks \subseteq Documents \X (1 .. Len(index))
  BY DEF TypeOK
<1>2. IsFiniteSet(1 .. Len(index))
  BY <1>1, FS_Interval
<1>3. IsFiniteSet(Documents \X (1 .. Len(index)))
  BY <1>2, DocumentsFinite, FS_Product
<1>4. ASSUME NEW S \in SUBSET chunks
      PROVE  /\ IsFiniteSet(S) /\ Cardinality(S) \in Nat
             /\ S # {} => Cardinality(S) > 0
             /\ Cardinality({c[1] : c \in S}) \in Nat
  <2>1. IsFiniteSet(S)
    BY <1>1, <1>3, FS_Subset
  <2>2. Cardinality(S) \in Nat /\ (Cardinality(S) = 0 <=> S = {})
    BY <2>1, FS_CardinalityType, FS_EmptySet
  <2>3. {c[1] : c \in S} \in SUBSET Documents
    BY <1>1
  <2>4. Cardinality({c[1] : c \in S}) \in Nat
    BY <2>3, DocumentsFinite
  <2> QED BY <2>1, <2>2, <2>4
<1> QED BY <1>4

\* A chunk is a document and an index version.
LEMMA ChunkIsPair ==
    ASSUME TypeOK, NEW c \in chunks
    PROVE  /\ c = <<c[1], c[2]>>
           /\ c[1] \in Documents /\ c[2] \in 1 .. Len(index)
  BY DEF TypeOK

-----------------------------------------------------------------------------
\* Steps

\* What an ingestion record holds.
LEMMA IngestionTyped ==
    ASSUME TypeOK, NEW g \in Ingesters
    PROVE  /\ Ingesting(g) <=> ingester[g] \in Ingestion
           /\ ~Ingesting(g) => ingester[g].pc \in {"idle", "down"}
           /\ Ingesting(g) =>
                 /\ ingester[g].pc \in {"listed", "next", "parsing", "embedding",
                                        "replaced", "counting", "counted"}
                 /\ ingester[g].todo \in SUBSET Documents
                 /\ ingester[g].doc \in 0 .. MaxDocuments /\ ingester[g].index \in Nat
                 /\ ingester[g].documents \in Nat /\ ingester[g].chunks \in Nat
                 /\ ingester[g].alone \in BOOLEAN
<1>1. ingester[g] \in Ingestion \cup {Idle, Down}
  BY DEF TypeOK
<1>2. \A r \in Ingestion :
         /\ r.pc \in {"listed", "next", "parsing", "embedding", "replaced", "counting",
                      "counted"}
         /\ r.todo \in SUBSET Documents
         /\ r.doc \in 0 .. MaxDocuments /\ r.index \in Nat
         /\ r.documents \in Nat /\ r.chunks \in Nat /\ r.alone \in BOOLEAN
  BY DEF Ingestion
<1>3. Idle.pc = "idle" /\ Down.pc = "down"
  BY DEF Idle, Down
<1>4. Idle \notin Ingestion /\ Down \notin Ingestion
  BY <1>2, <1>3
<1>5. Ingesting(g) <=> ingester[g] \in Ingestion
  BY <1>1, <1>4 DEF Ingesting
<1> QED BY <1>1, <1>2, <1>3, <1>5 DEF Ingesting

\* The same of the next state, for an ingestion that is in one.
LEMMA NextIngestionTyped ==
    ASSUME NEW g \in Ingesters
    PROVE  /\ ingester'[g] \in Ingestion =>
                 /\ Ingesting(g)'
                 /\ ingester'[g].pc \in {"listed", "next", "parsing", "embedding",
                                         "replaced", "counting", "counted"}
           /\ ingester'[g] \in {Idle, Down} =>
                 ~Ingesting(g)' /\ ingester'[g].pc \in {"idle", "down"}
<1>1. PICK r : r = ingester'[g]
  OBVIOUS
<1>2. \A s \in Ingestion :
         s.pc \in {"listed", "next", "parsing", "embedding", "replaced", "counting",
                   "counted"}
  BY DEF Ingestion
<1>3. Idle.pc = "idle" /\ Down.pc = "down"
  BY DEF Idle, Down
<1>4. Idle \notin Ingestion /\ Down \notin Ingestion
  BY <1>2, <1>3
<1>5. Ingesting(g)' <=> r \notin {Idle, Down}
  BY <1>1 DEF Ingesting
<1> QED BY <1>1, <1>2, <1>3, <1>4, <1>5

\* The others wait.
Apart(g) == \A h \in Ingesters : h # g => ingester'[h] = ingester[h]

\* An ingestion goes on with its index version, or is over.
GoesOn(g, pc, todo, doc) ==
    /\ ingester'[g] \in Ingestion /\ Apart(g)
    /\ ingester'[g].pc = pc /\ ingester'[g].todo = todo /\ ingester'[g].doc = doc
    /\ ingester'[g].index = ingester[g].index /\ ingester'[g].alone = ingester[g].alone

Leaves(g) == ingester'[g] \in {Idle, Down} /\ Apart(g)

LEMMA StepEffect ==
    ASSUME TypeOK, NEW g \in Ingesters, NEW state, Step(g, state)
    PROVE  ingester'[g] = state /\ Apart(g)
<1>1. ingester \in [Ingesters -> Ingestion \cup {Idle, Down}]
  BY DEF TypeOK
<1> QED BY <1>1 DEF Step, Apart

LEMMA MarkEffect ==
    ASSUME TypeOK, NEW d \in Documents, NEW status, Mark(d, status)
    PROVE  /\ document'[d] = status
           /\ \A e \in Documents : e # d => document'[e] = document[e]
<1>1. DOMAIN document = Documents
  BY DEF TypeOK
<1> QED BY <1>1 DEF Mark

\* What it is to do is a document.
LEMMA NextDocumentEffect ==
    ASSUME TypeOK, NEW g \in Ingesters, Ingesting(g), NextDocument(g)
    PROVE  GoesOn(g, "next", ingester[g].todo \ {Doc(g)}, 0)
<1> DEFINE state == [ingester[g] EXCEPT !.pc = "next", !.doc = 0, !.todo = @ \ {Doc(g)}]
<1>1. ingester'[g] = state /\ Apart(g)
  BY StepEffect DEF NextDocument
<1>2. PICK r \in Ingestion : r = ingester[g]
  BY IngestionTyped
<1>3. PICK t \in SUBSET Documents : t = r.todo \ {Doc(g)}
  BY <1>2, IngestionTyped
<1>4. PICK z \in 0 .. MaxDocuments : z = 0
  BY KnowledgeAssumption
<1>5. state = [r EXCEPT !.pc = "next", !.doc = z, !.todo = t]
  BY <1>2, <1>3, <1>4
<1>6. /\ [r EXCEPT !.pc = "next", !.doc = z, !.todo = t] \in Ingestion
      /\ [r EXCEPT !.pc = "next", !.doc = z, !.todo = t].pc = "next"
      /\ [r EXCEPT !.pc = "next", !.doc = z, !.todo = t].todo = t
      /\ [r EXCEPT !.pc = "next", !.doc = z, !.todo = t].doc = z
      /\ [r EXCEPT !.pc = "next", !.doc = z, !.todo = t].index = r.index
      /\ [r EXCEPT !.pc = "next", !.doc = z, !.todo = t].alone = r.alone
  BY DEF Ingestion
<1> HIDE DEF state
<1> QED BY <1>1, <1>2, <1>3, <1>4, <1>5, <1>6 DEF GoesOn

LEMMA ParseEffect ==
    ASSUME TypeOK, NEW g \in Ingesters, Parse(g)
    PROVE  \E d \in ingester[g].todo :
              /\ GoesOn(g, "parsing", ingester[g].todo, d)
              /\ document[d] # "gone"
              /\ document'[d] = "parsing"
              /\ \A e \in Documents : e # d => document'[e] = document[e]
              /\ orphaned' = orphaned \ {d}
<1>1. PICK r : r = ingester[g]
  OBVIOUS
<1>2. r.pc = "next" /\ r.todo # {}
  BY <1>1 DEF Parse, AtStep
<1>3. Ingesting(g) /\ r \in Ingestion /\ r.todo \in SUBSET Documents
  BY <1>1, <1>2, IngestionTyped
<1>4. PICK d \in Documents : d = LatestOf(r.todo)
  BY <1>2, <1>3, NewestDocument
<1>5. d \in r.todo
  BY <1>2, <1>3, <1>4, NewestDocument
<1>6. /\ document[d] # "gone" /\ Mark(d, "parsing")
      /\ Step(g, [r EXCEPT !.pc = "parsing", !.doc = d]) /\ orphaned' = orphaned \ {d}
  BY <1>1, <1>4 DEF Parse
<1>7. ingester'[g] = [r EXCEPT !.pc = "parsing", !.doc = d] /\ Apart(g)
  BY <1>6, StepEffect
<1>8. d \in 0 .. MaxDocuments
  BY DocumentsFinite
<1>9. /\ [r EXCEPT !.pc = "parsing", !.doc = d] \in Ingestion
      /\ [r EXCEPT !.pc = "parsing", !.doc = d].pc = "parsing"
      /\ [r EXCEPT !.pc = "parsing", !.doc = d].todo = r.todo
      /\ [r EXCEPT !.pc = "parsing", !.doc = d].doc = d
      /\ [r EXCEPT !.pc = "parsing", !.doc = d].index = r.index
      /\ [r EXCEPT !.pc = "parsing", !.doc = d].alone = r.alone
  BY <1>3, <1>8 DEF Ingestion
<1>10. GoesOn(g, "parsing", ingester[g].todo, d)
  BY <1>1, <1>7, <1>9 DEF GoesOn
<1> QED BY <1>1, <1>5, <1>6, <1>10, MarkEffect

\* A step that only moves on.
LEMMA MoveEffect ==
    ASSUME TypeOK, NEW g \in Ingesters, Ingesting(g),
           NEW pc \in {"embedding", "replaced"}, Step(g, [ingester[g] EXCEPT !.pc = pc])
    PROVE  GoesOn(g, pc, ingester[g].todo, Doc(g))
<1>1. PICK r \in Ingestion : r = ingester[g]
  BY IngestionTyped
<1>2. ingester'[g] = [r EXCEPT !.pc = pc] /\ Apart(g)
  BY <1>1, StepEffect
<1>3. /\ [r EXCEPT !.pc = pc] \in Ingestion
      /\ [r EXCEPT !.pc = pc].pc = pc /\ [r EXCEPT !.pc = pc].todo = r.todo
      /\ [r EXCEPT !.pc = pc].doc = r.doc /\ [r EXCEPT !.pc = pc].index = r.index
      /\ [r EXCEPT !.pc = pc].alone = r.alone
  BY DEF Ingestion
<1> QED BY <1>1, <1>2, <1>3 DEF GoesOn, Doc

LEMMA CreateIndexEffect ==
    ASSUME TypeOK, NEW g \in Ingesters, CreateIndex(g)
    PROVE  /\ AtStep(g, "listed") /\ Ingesting(g)
           /\ ingester'[g] \in Ingestion /\ Apart(g)
           /\ ingester'[g].pc = "next" /\ ingester'[g].todo = ingester[g].todo
           /\ ingester'[g].doc = Doc(g) /\ ingester'[g].index = Len(index) + 1
           /\ ingester'[g].alone = ingester[g].alone
           /\ DOMAIN index = 1 .. Len(index) /\ DOMAIN index' = 1 .. Len(index) + 1
           /\ \A i \in DOMAIN index : index'[i] = index[i]
           /\ index'[Len(index) + 1] = NewIndex("indexing", ingester[g].todo)
<1>1. ingester[g].pc = "listed"
  BY DEF CreateIndex, AtStep
<1>2. Ingesting(g)
  BY <1>1, IngestionTyped
<1>3. PICK r \in Ingestion : r = ingester[g]
  BY <1>2, IngestionTyped
<1>4. index \in Seq(Index) /\ Len(index) \in Nat
  BY DEF TypeOK
<1>5. PICK n \in Nat : n = Len(index) + 1
  BY <1>4
<1>6. ingester'[g] = [r EXCEPT !.pc = "next", !.index = n] /\ Apart(g)
  BY <1>3, <1>5, StepEffect DEF CreateIndex
<1>7. /\ [r EXCEPT !.pc = "next", !.index = n] \in Ingestion
      /\ [r EXCEPT !.pc = "next", !.index = n].pc = "next"
      /\ [r EXCEPT !.pc = "next", !.index = n].todo = r.todo
      /\ [r EXCEPT !.pc = "next", !.index = n].doc = r.doc
      /\ [r EXCEPT !.pc = "next", !.index = n].index = n
      /\ [r EXCEPT !.pc = "next", !.index = n].alone = r.alone
  BY DEF Ingestion
<1>8. PICK x : x = NewIndex("indexing", ingester[g].todo)
  OBVIOUS
<1>9. index' = Append(index, x)
  BY <1>8 DEF CreateIndex
<1>10. /\ DOMAIN index = 1 .. Len(index) /\ DOMAIN index' = 1 .. Len(index) + 1
       /\ \A i \in DOMAIN index : index'[i] = index[i]
       /\ index'[Len(index) + 1] = x
  BY <1>4, <1>9
<1> QED BY <1>1, <1>2, <1>3, <1>5, <1>6, <1>7, <1>8, <1>10 DEF AtStep, Doc

\* What is counted is a number.
LEMMA CountedTyped ==
    ASSUME TypeOK, NEW i
    PROVE  /\ Cardinality({c[1] : c \in IndexedChunks(i)}) \in Nat
           /\ Cardinality(IndexedChunks(i)) \in Nat
           /\ IndexedChunks(i) # {} => Cardinality(IndexedChunks(i)) > 0
           /\ IndexedChunks(i) = {} => Cardinality(IndexedChunks(i)) = 0
<1>1. IndexedChunks(i) \in SUBSET chunks
  BY DEF IndexedChunks
<1> QED BY <1>1, ChunksFinite, FS_EmptySet

LEMMA CountDocumentsEffect ==
    ASSUME TypeOK, NEW g \in Ingesters, CountDocuments(g)
    PROVE  /\ AtStep(g, "next") /\ ingester[g].todo = {} /\ Ingesting(g)
           /\ GoesOn(g, "counting", ingester[g].todo, Doc(g))
           /\ ingester'[g].documents = Cardinality({c[1] : c \in IndexedChunks(IndexOf(g))})
<1>1. ingester[g].pc = "next" /\ ingester[g].todo = {}
  BY DEF CountDocuments, AtStep
<1>2. Ingesting(g)
  BY <1>1, IngestionTyped
<1>3. PICK r \in Ingestion : r = ingester[g]
  BY <1>2, IngestionTyped
<1>4. PICK n \in Nat : n = Cardinality({c[1] : c \in IndexedChunks(IndexOf(g))})
  BY CountedTyped
<1>5. ingester'[g] = [r EXCEPT !.pc = "counting", !.documents = n] /\ Apart(g)
  BY <1>3, <1>4, StepEffect DEF CountDocuments
<1>6. /\ [r EXCEPT !.pc = "counting", !.documents = n] \in Ingestion
      /\ [r EXCEPT !.pc = "counting", !.documents = n].pc = "counting"
      /\ [r EXCEPT !.pc = "counting", !.documents = n].documents = n
      /\ [r EXCEPT !.pc = "counting", !.documents = n].todo = r.todo
      /\ [r EXCEPT !.pc = "counting", !.documents = n].doc = r.doc
      /\ [r EXCEPT !.pc = "counting", !.documents = n].index = r.index
      /\ [r EXCEPT !.pc = "counting", !.documents = n].alone = r.alone
  BY DEF Ingestion
<1> QED BY <1>1, <1>2, <1>3, <1>4, <1>5, <1>6 DEF GoesOn, Doc, AtStep

LEMMA CountChunksEffect ==
    ASSUME TypeOK, NEW g \in Ingesters, CountChunks(g)
    PROVE  /\ AtStep(g, "counting") /\ Ingesting(g)
           /\ GoesOn(g, "counted", ingester[g].todo, Doc(g))
           /\ ingester'[g].documents = ingester[g].documents
           /\ ingester'[g].chunks = Cardinality(IndexedChunks(IndexOf(g)))
<1>1. ingester[g].pc = "counting"
  BY DEF CountChunks, AtStep
<1>2. Ingesting(g)
  BY <1>1, IngestionTyped
<1>3. PICK r \in Ingestion : r = ingester[g]
  BY <1>2, IngestionTyped
<1>4. PICK n \in Nat : n = Cardinality(IndexedChunks(IndexOf(g)))
  BY CountedTyped
<1>5. ingester'[g] = [r EXCEPT !.pc = "counted", !.chunks = n] /\ Apart(g)
  BY <1>3, <1>4, StepEffect DEF CountChunks
<1>6. /\ [r EXCEPT !.pc = "counted", !.chunks = n] \in Ingestion
      /\ [r EXCEPT !.pc = "counted", !.chunks = n].pc = "counted"
      /\ [r EXCEPT !.pc = "counted", !.chunks = n].chunks = n
      /\ [r EXCEPT !.pc = "counted", !.chunks = n].documents = r.documents
      /\ [r EXCEPT !.pc = "counted", !.chunks = n].todo = r.todo
      /\ [r EXCEPT !.pc = "counted", !.chunks = n].doc = r.doc
      /\ [r EXCEPT !.pc = "counted", !.chunks = n].index = r.index
      /\ [r EXCEPT !.pc = "counted", !.chunks = n].alone = r.alone
  BY DEF Ingestion
<1> QED BY <1>1, <1>2, <1>3, <1>4, <1>5, <1>6 DEF GoesOn, Doc, AtStep

SomeFailed == \E d \in InKB : document[d] = "failed"

LEMMA FinishEffect ==
    ASSUME TypeOK, NEW g \in Ingesters, Finish(g), IndexOf(g) \in DOMAIN index
    PROVE  /\ AtStep(g, "counted") /\ Ingesting(g) /\ Leaves(g)
           /\ index[IndexOf(g)].status # "gone"
           /\ DOMAIN index' = DOMAIN index /\ Len(index') = Len(index)
           /\ \A i \in DOMAIN index : i # IndexOf(g) => index'[i] = index[i]
           /\ index'[IndexOf(g)] =
                 [status |-> Refreshed(SomeFailed, ingester[g].chunks, "pending"),
                  documents |-> ingester[g].documents, chunks |-> ingester[g].chunks,
                  listed |-> index[IndexOf(g)].listed, alone |-> ingester[g].alone]
           /\ kb' = [status |-> Refreshed(SomeFailed, ingester[g].chunks, "draft"),
                     documents |-> ingester[g].documents, chunks |-> ingester[g].chunks]
<1>1. ingester[g].pc = "counted"
  BY DEF Finish, AtStep
<1>2. Ingesting(g)
  BY <1>1, IngestionTyped
<1>3. Leaves(g)
  BY StepEffect DEF Finish, Leaves
<1>4. index \in Seq(Index)
  BY DEF TypeOK
<1>5. PICK x : x = [status |-> Refreshed(SomeFailed, ingester[g].chunks, "pending"),
                  documents |-> ingester[g].documents, chunks |-> ingester[g].chunks,
                  listed |-> index[IndexOf(g)].listed, alone |-> ingester[g].alone]
  OBVIOUS
<1>6. index' = [index EXCEPT ![IndexOf(g)] = x]
  BY <1>5 DEF Finish, IndexOf, SomeFailed
<1>7. /\ DOMAIN index' = DOMAIN index /\ Len(index') = Len(index)
      /\ \A i \in DOMAIN index : i # IndexOf(g) => index'[i] = index[i]
      /\ index'[IndexOf(g)] = x
  BY <1>4, <1>6
<1>8. index[IndexOf(g)].status # "gone"
  BY DEF Finish, IndexOf
<1>9. kb' = [status |-> Refreshed(SomeFailed, ingester[g].chunks, "draft"),
             documents |-> ingester[g].documents, chunks |-> ingester[g].chunks]
  BY DEF Finish, SomeFailed
<1> QED BY <1>1, <1>2, <1>3, <1>5, <1>7, <1>8, <1>9 DEF AtStep

\* What the refresh writes.
LEMMA RefreshedStatus ==
    ASSUME NEW failed \in BOOLEAN, NEW n \in Nat, NEW empty
    PROVE  /\ Refreshed(failed, n, empty) \in {"degraded", "failed", "ready", empty}
           /\ n > 0 => Refreshed(failed, n, empty) \in {"degraded", "ready"}
           /\ Refreshed(failed, n, empty) = "ready" /\ empty # "ready" => ~failed /\ n > 0
<1>1. n > 0 \/ n = 0
  OBVIOUS
<1> QED BY <1>1 DEF Refreshed

LEMMA ListEffect ==
    ASSUME TypeOK, NEW g \in Ingesters, NEW force \in BOOLEAN, List(g, force)
    PROVE  /\ ~Ingesting(g) /\ ingester'[g] \in Ingestion
           /\ ingester'[g].pc = "listed" /\ ingester'[g].todo = Pending(force)
           /\ ingester'[g].doc = 0
           /\ ingester'[g].alone => \A h \in Ingesters : h # g => ~Ingesting(h)
           /\ \A h \in Ingesters : h # g =>
                 /\ ~Ingesting(h) => ingester'[h] = ingester[h]
                 /\ Ingesting(h) =>
                       /\ ingester'[h] \in Ingestion /\ ingester'[h].alone = FALSE
                       /\ ingester'[h].pc = ingester[h].pc
                       /\ ingester'[h].todo = ingester[h].todo
                       /\ ingester'[h].doc = ingester[h].doc
                       /\ ingester'[h].index = ingester[h].index
                       /\ ingester'[h].chunks = ingester[h].chunks
<1> DEFINE others == {h \in Ingesters \ {g} : Ingesting(h)}
           fresh == [pc |-> "listed", todo |-> Pending(force), doc |-> 0, index |-> 0,
                     documents |-> 0, chunks |-> 0, alone |-> others = {}]
<1>1. /\ ingester[g] = Idle
      /\ ingester' = [h \in Ingesters |->
           CASE h = g -> fresh
             [] h \in others -> [ingester[h] EXCEPT !.alone = FALSE]
             [] OTHER -> ingester[h]]
  BY DEF List
<1>2. ~Ingesting(g)
  BY <1>1 DEF Ingesting
<1>3. ingester'[g] = fresh
  BY <1>1
<1>4. Pending(force) \in SUBSET Documents /\ (others = {}) \in BOOLEAN
  BY DEF Pending, InKB
<1>5. fresh \in Ingestion
  <2>1. 0 \in 0 .. MaxDocuments
    BY KnowledgeAssumption
  <2> QED BY <1>4, <2>1 DEF Ingestion
<1>6. ASSUME NEW h \in Ingesters, h # g, ~Ingesting(h) PROVE ingester'[h] = ingester[h]
  BY <1>1, <1>6
<1>7. ASSUME NEW h \in Ingesters, h # g, Ingesting(h)
      PROVE  /\ ingester'[h] \in Ingestion /\ ingester'[h].alone = FALSE
             /\ ingester'[h].pc = ingester[h].pc
             /\ ingester'[h].todo = ingester[h].todo
             /\ ingester'[h].doc = ingester[h].doc
             /\ ingester'[h].index = ingester[h].index
             /\ ingester'[h].chunks = ingester[h].chunks
  <2>1. h \in others
    BY <1>7
  <2>2. PICK r \in Ingestion : r = ingester[h]
    BY <1>7, IngestionTyped
  <2>3. ingester'[h] = [r EXCEPT !.alone = FALSE]
    BY <1>1, <1>7, <2>1, <2>2
  <2>4. /\ [r EXCEPT !.alone = FALSE] \in Ingestion /\ [r EXCEPT !.alone = FALSE].alone = FALSE
        /\ [r EXCEPT !.alone = FALSE].pc = r.pc /\ [r EXCEPT !.alone = FALSE].todo = r.todo
        /\ [r EXCEPT !.alone = FALSE].doc = r.doc /\ [r EXCEPT !.alone = FALSE].index = r.index
        /\ [r EXCEPT !.alone = FALSE].chunks = r.chunks
    BY DEF Ingestion
  <2> QED BY <2>2, <2>3, <2>4
<1>8. fresh.alone => \A h \in Ingesters : h # g => ~Ingesting(h)
  OBVIOUS
<1>9. fresh.pc = "listed" /\ fresh.todo = Pending(force) /\ fresh.doc = 0
  OBVIOUS
<1> HIDE DEF fresh
<1> QED BY <1>2, <1>3, <1>5, <1>6, <1>7, <1>8, <1>9

LEMMA NothingPendingEffect ==
    ASSUME TypeOK, NEW g \in Ingesters, NothingPending(g)
    PROVE  /\ AtStep(g, "listed") /\ Leaves(g)
           /\ DOMAIN index \subseteq DOMAIN index'
           /\ \A i \in DOMAIN index : index'[i] = index[i]
           /\ \A i \in DOMAIN index' : i \notin DOMAIN index =>
                 index'[i] = NewIndex("pending", {})
<1>1. AtStep(g, "listed") /\ Leaves(g)
  BY StepEffect DEF NothingPending, Leaves
<1>2. index \in Seq(Index) /\ Len(index) \in Nat
  BY DEF TypeOK
<1>3. PICK x : x = NewIndex("pending", {})
  OBVIOUS
<1>4. index' = index \/ index' = Append(index, x)
  BY <1>3 DEF NothingPending
<1>5. /\ DOMAIN index \subseteq DOMAIN index'
      /\ \A i \in DOMAIN index : index'[i] = index[i]
      /\ \A i \in DOMAIN index' : i \notin DOMAIN index => index'[i] = x
  BY <1>2, <1>4
<1> QED BY <1>1, <1>3, <1>5

LEMMA LeaveEffect ==
    ASSUME TypeOK, NEW g \in Ingesters, Raise(g) \/ Crash(g) \/ Restart(g)
    PROVE  Leaves(g)
BY StepEffect DEF Raise, Crash, Restart, Stop, Leaves

-----------------------------------------------------------------------------
\* What a step leaves as it was

\* Nothing is lost but by a deletion.
Grown ==
    /\ Created \subseteq Created'
    /\ \A d \in Documents : document'[d] = "gone" <=> document[d] = "gone"
    /\ chunks \subseteq chunks'
    /\ DOMAIN index \subseteq DOMAIN index'
    /\ \A i \in DOMAIN index :
          /\ index'[i].listed = index[i].listed
          /\ index'[i].status = "gone" <=> index[i].status = "gone"

NoneJoins ==
    \A h \in Ingesters : Ingesting(h)' =>
        Ingesting(h) /\ ingester'[h].alone = ingester[h].alone

NoneOpens ==
    \A h \in Ingesters : Past(h)' => Past(h) /\ ingester'[h].index = ingester[h].index

NoneFinishes ==
    \A i \in DOMAIN index' : Finished(i)' /\ index'[i].alone =>
        i \in DOMAIN index /\ index'[i] = index[i]

NoneIndexed == \A d \in Documents : document'[d] = "indexed" => document[d] = "indexed"

Carried ==
    \A d \in Documents, j \in Kept : document[d] = "indexed" /\ Carries(j, d) => Carries(j, d)'

\* What is past is past, in the next state too.
LEMMA PastNext ==
    ASSUME NEW g \in Ingesters
    PROVE  /\ Past(g)' <=> Ingesting(g)' /\ ingester'[g].pc # "listed"
           /\ Past(g) <=> Ingesting(g) /\ ingester[g].pc # "listed"
           /\ Ingesting(g)' <=> ingester'[g] \notin {Idle, Down}
  BY DEF Past, Ingesting, AtStep

LEMMA KeptDomain ==
    ASSUME TypeOK, TypeOK'
    PROVE  /\ Kept = {i \in DOMAIN index : index[i].status # "gone"}
           /\ Kept' = {i \in DOMAIN index' : index'[i].status # "gone"}
           /\ DOMAIN index = 1 .. Len(index) /\ DOMAIN index' = 1 .. Len(index')
           /\ Len(index) \in Nat /\ Len(index') \in Nat
<1>1. index \in Seq(Index) /\ index' \in Seq(Index)
  BY DEF TypeOK
<1>2. DOMAIN index = 1 .. Len(index) /\ DOMAIN index' = 1 .. Len(index')
  BY <1>1
<1>3. Len(index) \in Nat /\ Len(index') \in Nat
  BY <1>1
<1> QED BY <1>2, <1>3 DEF Kept

\* An ingestion goes on or is over: none joins and none opens an index version.
LEMMA GoingOn ==
    ASSUME TypeOK, NEW g \in Ingesters, NEW pc, NEW todo, NEW doc,
           \/ Past(g) /\ pc # "listed" /\ GoesOn(g, pc, todo, doc)
           \/ Leaves(g)
    PROVE  NoneJoins /\ NoneOpens
<1>1. ASSUME NEW h \in Ingesters, h # g
      PROVE  ingester'[h] = ingester[h]
  BY <1>1 DEF GoesOn, Leaves, Apart
<1>2. ASSUME NEW h \in Ingesters, h # g
      PROVE  /\ Ingesting(h)' <=> Ingesting(h)
             /\ Past(h)' <=> Past(h)
  <2>1. ingester'[h] = ingester[h]
    BY <1>1, <1>2
  <2> QED BY <2>1, PastNext DEF Ingesting
<1>3. CASE Past(g) /\ pc # "listed" /\ GoesOn(g, pc, todo, doc)
  <2>1. Ingesting(g) /\ Past(g)
    BY <1>3, PastNext
  <2>2. ingester'[g].alone = ingester[g].alone /\ ingester'[g].index = ingester[g].index
    BY <1>3 DEF GoesOn
  <2> QED BY <1>1, <1>2, <2>1, <2>2 DEF NoneJoins, NoneOpens
<1>4. CASE Leaves(g)
  <2>1. ~Ingesting(g)' /\ ~Past(g)'
    BY <1>4, PastNext DEF Leaves
  <2> QED BY <1>1, <1>2, <2>1 DEF NoneJoins, NoneOpens
<1> QED BY <1>3, <1>4

LEMMA WorksOnKept ==
    ASSUME TypeOK, NEW h \in Ingesters, WorksOn(h), Grown, ingester'[h] = ingester[h],
           Past(h) => index'[IndexOf(h)].status = index[IndexOf(h)].status
    PROVE  WorksOn(h)'
<1>1. PICK r : r = ingester[h]
  OBVIOUS
<1>2. ingester'[h] = r
  BY <1>1
<1>3. /\ Ingesting(h)' <=> Ingesting(h)
      /\ Past(h)' <=> Past(h)
  BY PastNext DEF Ingesting
<1>4. Ingesting(h) =>
          /\ r.todo \subseteq Created'
          /\ IF r.pc \in AtDocument THEN r.doc \in r.todo ELSE r.doc = 0
          /\ r.pc \in Counting => r.todo = {}
  BY <1>1 DEF WorksOn, Grown
<1>5. Created \subseteq Documents
  BY DEF Created
<1>6. Past(h) =>
          /\ r.index \in DOMAIN index'
          /\ index'[r.index].status \in {"indexing", "gone"}
          /\ r.todo \subseteq index'[r.index].listed
          /\ index'[r.index].status = "gone" => \A d \in r.todo : document'[d] = "gone"
  BY <1>1, <1>5, PastNext DEF WorksOn, Grown, IndexOf
<1>7. r.pc = "replaced" => Past(h) /\ r.doc \in r.todo /\ r.todo \subseteq Created
  BY <1>1, IngestionTyped, PastNext DEF WorksOn, AtDocument
<1>8. r.pc = "replaced" /\ document'[r.doc] # "gone" => <<r.doc, r.index>> \in chunks'
  BY <1>1, <1>5, <1>7 DEF WorksOn, Grown
<1>9. r.pc = "counted" => Past(h)
  BY <1>1, IngestionTyped, PastNext
<1>10. r.pc = "counted" /\ r.chunks > 0 /\ index'[r.index].status # "gone" => chunks' # {}
  <2>1. r.pc = "counted" => r.index \in DOMAIN index
    BY <1>1, <1>9 DEF WorksOn
  <2> QED BY <1>1, <1>9, <2>1 DEF WorksOn, Grown
<1> QED BY <1>2, <1>3, <1>4, <1>6, <1>8, <1>10 DEF WorksOn

\* While an ingestion is under way no other is alone.
LEMMA AccountedOther ==
    ASSUME TypeOK, AloneIsAlone, NEW g \in Ingesters, Ingesting(g),
           NEW h \in Ingesters, h # g, ingester'[h] = ingester[h]
    PROVE  Accounted(h)'
<1>1. Ingesting(h) => ~ingester[h].alone
  BY IngestionTyped DEF AloneIsAlone
<1>2. Past(h)' => Ingesting(h)
  BY PastNext DEF Ingesting
<1> QED BY <1>1, <1>2 DEF Accounted

LEMMA OwnKept ==
    ASSUME IndexesAreOwn, NoneOpens PROVE IndexesAreOwn'
<1>1. ASSUME NEW g \in Ingesters, NEW h \in Ingesters, Past(g)', Past(h)',
             ingester'[g].index = ingester'[h].index
      PROVE  g = h
  BY <1>1 DEF IndexesAreOwn, NoneOpens, IndexOf
<1> QED BY <1>1 DEF IndexesAreOwn, IndexOf

LEMMA AloneKept ==
    ASSUME AloneIsAlone, NoneJoins PROVE AloneIsAlone'
  BY DEF AloneIsAlone, NoneJoins

LEMMA NewerKept ==
    ASSUME LaterAreNewer, NoneOpens, NoneFinishes PROVE LaterAreNewer'
<1>1. ASSUME NEW i \in DOMAIN index', Finished(i)', index'[i].alone,
             NEW g \in Ingesters, Past(g)'
      PROVE  ingester'[g].index > i
  <2>1. i \in DOMAIN index /\ index'[i] = index[i]
    BY <1>1 DEF NoneFinishes
  <2>2. Finished(i) /\ index[i].alone
    BY <1>1, <2>1 DEF Finished
  <2>3. Past(g) /\ ingester'[g].index = ingester[g].index
    BY <1>1 DEF NoneOpens
  <2>4. IndexOf(g) > i
    BY <2>1, <2>2, <2>3 DEF LaterAreNewer
  <2> QED BY <2>3, <2>4 DEF IndexOf
<1> QED BY <1>1 DEF LaterAreNewer, IndexOf

LEMMA ListedKept ==
    ASSUME ListedAreCreated, Grown,
           \A i \in DOMAIN index' : i \notin DOMAIN index => index'[i].listed \subseteq Created
    PROVE  ListedAreCreated'
<1>1. ASSUME NEW i \in DOMAIN index' PROVE index'[i].listed \subseteq Created'
  BY DEF ListedAreCreated, Grown
<1> QED BY <1>1 DEF ListedAreCreated

LEMMA OrderKept ==
    ASSUME InOrder, Created' = Created PROVE InOrder'
  BY DEF InOrder

\* Carries is kept unless the index version is closed without chunks.
LEMMA CarriesKept ==
    ASSUME TypeOK, TypeOK', Grown, NEW d \in Documents, NEW j \in Kept, Carries(j, d),
           index'[j].status # "pending",
           \A g \in Ingesters : ingester'[g].pc = "counted" /\ ingester'[g].index = j =>
               ingester'[g].chunks > 0
    PROVE  Carries(j, d)'
<1>1. j \in DOMAIN index /\ index[j].status # "gone"
  BY KeptDomain
<1>2. j \in Kept'
  BY <1>1, KeptDomain DEF Grown
<1>3. <<d, j>> \in chunks'
  BY DEF Carries, Grown
<1> QED BY <1>2, <1>3 DEF Carries, AtStep, IndexOf

LEMMA IndexedKept ==
    ASSUME TypeOK, TypeOK', IndexedIsCarried, NoneIndexed, Carried
    PROVE  IndexedIsCarried'
<1>1. ASSUME NEW d \in Documents, document'[d] = "indexed"
      PROVE  \E j \in Kept' : Carries(j, d)'
  <2>1. document[d] = "indexed"
    BY <1>1 DEF NoneIndexed
  <2>2. PICK j \in Kept : Carries(j, d)
    BY <2>1 DEF IndexedIsCarried
  <2>3. Carries(j, d)'
    BY <2>1, <2>2 DEF Carried
  <2>4. j \in Kept'
    BY <2>3 DEF Carries
  <2> QED BY <2>3, <2>4
<1> QED BY <1>1 DEF IndexedIsCarried

\* For one index version that was finished before.
LEMMA LaterKept ==
    ASSUME TypeOK, TypeOK', LaterCarries, Grown, Carried,
           NEW i \in Kept', i \in DOMAIN index, index'[i] = index[i],
           Finished(i)', index'[i].alone,
           NEW d \in index'[i].listed, d \in Documents,
           document[d] = "indexed"
    PROVE  (<<d, i>> \in chunks)' \/ \E j \in Kept' : j > i /\ Carries(j, d)'
<1>1. i \in Kept /\ Finished(i) /\ index[i].alone /\ d \in index[i].listed
  BY KeptDomain DEF Finished
<1>2. CASE <<d, i>> \in chunks
  BY <1>2 DEF Grown
<1>3. CASE \E j \in Kept : j > i /\ Carries(j, d)
  <2>1. PICK j \in Kept : j > i /\ Carries(j, d)
    BY <1>3
  <2>2. Carries(j, d)'
    BY <2>1 DEF Carried
  <2>3. j \in Kept'
    BY <2>2 DEF Carries
  <2> QED BY <2>1, <2>2, <2>3
<1> QED BY <1>1, <1>2, <1>3 DEF LaterCarries

\* What an index version lists are documents.
LEMMA ListedTyped ==
    ASSUME TypeOK, NEW i \in DOMAIN index
    PROVE  /\ index[i] \in Index /\ index[i].listed \in SUBSET Documents
           /\ index[i].status \in {"pending", "indexing", "ready", "degraded", "failed", "gone"}
           /\ index[i].alone \in BOOLEAN
<1>1. index \in Seq(Index)
  BY DEF TypeOK
<1>2. index[i] \in Index
  BY <1>1
<1> QED BY <1>2 DEF Index

LEMMA NextListedTyped ==
    ASSUME TypeOK', NEW i \in DOMAIN index'
    PROVE  /\ index'[i] \in Index /\ index'[i].listed \in SUBSET Documents
           /\ index'[i].status \in {"pending", "indexing", "ready", "degraded", "failed", "gone"}
           /\ index'[i].alone \in BOOLEAN
<1>1. index' \in Seq(Index)
  BY DEF TypeOK
<1>2. index'[i] \in Index
  BY <1>1
<1> QED BY <1>2 DEF Index

LEMMA LaterAllKept ==
    ASSUME TypeOK, TypeOK', LaterCarries, Grown, Carried, NoneFinishes, NoneIndexed
    PROVE  LaterCarries'
<1>1. ASSUME NEW i \in Kept', Finished(i)', index'[i].alone,
             NEW d \in index'[i].listed, document'[d] = "indexed"
      PROVE  (<<d, i>> \in chunks)' \/ \E j \in Kept' : j > i /\ Carries(j, d)'
  <2>1. i \in DOMAIN index'
    BY KeptDomain
  <2>2. i \in DOMAIN index /\ index'[i] = index[i]
    BY <1>1, <2>1 DEF NoneFinishes
  <2>3. d \in Documents
    BY <2>1, NextListedTyped
  <2>4. document[d] = "indexed"
    BY <1>1, <2>3 DEF NoneIndexed
  <2> QED BY <1>1, <2>2, <2>3, <2>4, LaterKept
<1> QED BY <1>1 DEF LaterCarries

LEMMA CountsKept ==
    ASSUME TypeOK, TypeOK', CountsAreTrue, Grown, NoneFinishes,
           \A c \in chunks' : c \in chunks \/ index'[c[2]].status = "indexing"
    PROVE  CountsAreTrue'
<1>1. ASSUME NEW i \in Kept', Finished(i)', index'[i].alone
      PROVE  LET own == {c \in chunks' : c[2] = i} IN
             /\ index'[i].chunks = Cardinality(own)
             /\ index'[i].documents = Cardinality({c[1] : c \in own})
             /\ index'[i].status = "ready" => index'[i].listed = {c[1] : c \in own}
  <2>1. i \in DOMAIN index'
    BY KeptDomain
  <2>2. i \in DOMAIN index /\ index'[i] = index[i]
    BY <1>1, <2>1 DEF NoneFinishes
  <2>3. i \in Kept /\ Finished(i) /\ index[i].alone
    BY <1>1, <2>2, KeptDomain DEF Finished
  <2>4. {c \in chunks' : c[2] = i} = {c \in chunks : c[2] = i}
    <3>1. index'[i].status # "indexing"
      BY <1>1 DEF Finished
    <3> QED BY <3>1 DEF Grown
  <2> QED BY <2>2, <2>3, <2>4 DEF CountsAreTrue
<1> QED BY <1>1 DEF CountsAreTrue

\* A step that touches no document, chunk, index version or ingestion.
LEMMA AsideSound ==
    ASSUME IngestionsSound, UNCHANGED <<document, chunks, index, ingester, orphaned>>
    PROVE  IngestionsSound'
<1>1. Created' = Created /\ InKB' = InKB /\ Kept' = Kept
  BY DEF Created, InKB, Kept
<1>2. ASSUME NEW i PROVE /\ Own(i)' = Own(i) /\ DocumentsOf(i)' = DocumentsOf(i)
                         /\ Finished(i)' <=> Finished(i)
  BY DEF Own, DocumentsOf, Finished
<1>3. ASSUME NEW g
      PROVE  /\ Ingesting(g)' <=> Ingesting(g)
             /\ Past(g)' <=> Past(g)
  BY DEF Ingesting, Past, AtStep
<1>4. ASSUME NEW g \in Ingesters PROVE WorksOn(g)'
  <2>1. WorksOn(g)
    BY DEF IngestionsSound
  <2> QED BY <1>1, <1>3, <2>1 DEF WorksOn
<1>5. ASSUME NEW g \in Ingesters PROVE Accounted(g)'
  <2>1. Accounted(g)
    BY DEF IngestionsSound
  <2> QED BY <1>2, <1>3, <2>1 DEF Accounted
<1>6. InOrder' /\ ListedAreCreated'
  BY <1>1 DEF IngestionsSound, InOrder, ListedAreCreated
<1>7. IndexesAreOwn' /\ AloneIsAlone' /\ LaterAreNewer'
  BY <1>2, <1>3 DEF IngestionsSound, IndexesAreOwn, AloneIsAlone, LaterAreNewer, IndexOf
<1>8. ASSUME NEW j, NEW d PROVE Carries(j, d)' <=> Carries(j, d)
  BY <1>1 DEF Carries, AtStep, IndexOf
<1>9. IndexedIsCarried'
  BY <1>1, <1>8 DEF IngestionsSound, IndexedIsCarried
<1>10. LaterCarries'
  BY <1>1, <1>2, <1>8 DEF IngestionsSound, LaterCarries
<1>11. InProgressIsHeld'
  BY <1>3 DEF IngestionsSound, InProgressIsHeld, Doc, InProgress
<1>12. CountsAreTrue'
  <2>1. CountsAreTrue
    BY DEF IngestionsSound
  <2>2. ASSUME NEW i \in Kept, Finished(i), index[i].alone
        PROVE  LET own == {c \in chunks' : c[2] = i} IN
               /\ index'[i].chunks = Cardinality(own)
               /\ index'[i].documents = Cardinality({c[1] : c \in own})
               /\ index'[i].status = "ready" => index'[i].listed = {c[1] : c \in own}
    BY <2>1, <2>2 DEF CountsAreTrue
  <2> QED BY <1>1, <1>2, <2>2 DEF CountsAreTrue
<1> QED BY <1>4, <1>5, <1>6, <1>7, <1>9, <1>10, <1>11, <1>12 DEF IngestionsSound

\* A step of one ingestion, as far as the others and the numbering go.
LEMMA StepSound ==
    ASSUME TypeOK, TypeOK', IngestionsSound, NEW g \in Ingesters, Ingesting(g), Apart(g),
           Grown, Created' = Created, NoneFinishes,
           \A i \in DOMAIN index : index'[i].status = index[i].status,
           \A i \in DOMAIN index' : i \notin DOMAIN index => index'[i].listed \subseteq Created,
           \A c \in chunks' : c \in chunks \/ index'[c[2]].status = "indexing"
    PROVE  /\ \A h \in Ingesters : h # g => WorksOn(h)' /\ Accounted(h)'
           /\ InOrder' /\ ListedAreCreated' /\ CountsAreTrue'
<1>1. ASSUME NEW h \in Ingesters, h # g PROVE WorksOn(h)' /\ Accounted(h)'
  <2>1. ingester'[h] = ingester[h]
    BY <1>1 DEF Apart
  <2>2. WorksOn(h) /\ AloneIsAlone
    BY DEF IngestionsSound
  <2>3. Past(h) => IndexOf(h) \in DOMAIN index
    BY <2>2 DEF WorksOn, IndexOf
  <2>4. WorksOn(h)'
    BY <2>1, <2>2, <2>3, WorksOnKept
  <2>5. Accounted(h)'
    BY <1>1, <2>1, <2>2, AccountedOther
  <2> QED BY <2>4, <2>5
<1>2. InOrder' /\ ListedAreCreated'
  BY OrderKept, ListedKept DEF IngestionsSound
<1>3. CountsAreTrue'
  BY CountsKept DEF IngestionsSound
<1> QED BY <1>1, <1>2, <1>3

\* One that goes on or is over, as far as the order of the index versions goes.
LEMMA OnSound ==
    ASSUME TypeOK, IngestionsSound, NEW g \in Ingesters, NEW pc, NEW todo, NEW doc,
           \/ Past(g) /\ pc # "listed" /\ GoesOn(g, pc, todo, doc)
           \/ Leaves(g),
           NoneFinishes
    PROVE  IndexesAreOwn' /\ AloneIsAlone' /\ LaterAreNewer'
<1>1. NoneJoins /\ NoneOpens
  BY GoingOn
<1> QED BY <1>1, OwnKept, AloneKept, NewerKept DEF IngestionsSound

\* What a step that counts no chunks and closes no index version carries on.
LEMMA CarriedOn ==
    ASSUME TypeOK, TypeOK', Grown, NEW g \in Ingesters, Apart(g), ingester'[g].pc # "counted",
           \A i \in DOMAIN index : index'[i].status = index[i].status
    PROVE  Carried
<1>1. ASSUME NEW d \in Documents, NEW j \in Kept, Carries(j, d) PROVE Carries(j, d)'
  <2>1. j \in DOMAIN index /\ index'[j].status # "pending"
    BY <1>1, KeptDomain DEF Carries
  <2>2. ASSUME NEW h \in Ingesters, ingester'[h].pc = "counted", ingester'[h].index = j
        PROVE  ingester'[h].chunks > 0
    <3>1. h # g
      BY <2>2
    <3>2. ingester'[h] = ingester[h]
      BY <3>1 DEF Apart
    <3> QED BY <1>1, <2>2, <3>2 DEF Carries, AtStep, IndexOf
  <2> QED BY <1>1, <2>1, <2>2, CarriesKept
<1> QED BY <1>1 DEF Carried

LEMMA InProgressKept ==
    ASSUME InProgressIsHeld, NEW g \in Ingesters, Apart(g),
           \A d \in Documents : document'[d] \in InProgress =>
              \/ d \in orphaned'
              \/ Ingesting(g)' /\ ingester'[g].doc = d
              \/ /\ document[d] \in InProgress /\ ~(Ingesting(g) /\ Doc(g) = d)
                 /\ d \in orphaned => d \in orphaned'
    PROVE  InProgressIsHeld'
<1>1. ASSUME NEW d \in Documents, document'[d] \in InProgress, d \notin orphaned'
      PROVE  \E h \in Ingesters : Ingesting(h)' /\ ingester'[h].doc = d
  <2>1. CASE Ingesting(g)' /\ ingester'[g].doc = d
    BY <2>1
  <2>2. CASE document[d] \in InProgress /\ ~(Ingesting(g) /\ Doc(g) = d) /\ d \notin orphaned
    <3>1. PICK h \in Ingesters : Ingesting(h) /\ Doc(h) = d
      BY <2>2 DEF InProgressIsHeld
    <3>2. h # g
      BY <2>2, <3>1
    <3>3. ingester'[h] = ingester[h]
      BY <3>2 DEF Apart
    <3> QED BY <3>1, <3>3 DEF Ingesting, Doc
  <2> QED BY <1>1, <2>1, <2>2
<1> QED BY <1>1 DEF InProgressIsHeld, Doc, InProgress

\* An ingestion that has left works on nothing.
LEMMA GoneWorksOnNothing ==
    ASSUME NEW g \in Ingesters, Leaves(g)
    PROVE  WorksOn(g)' /\ Accounted(g)'
<1>1. ~Ingesting(g)' /\ ~Past(g)'
  BY PastNext DEF Leaves
<1>2. ingester'[g].pc \in {"idle", "down"}
  BY NextIngestionTyped DEF Leaves
<1>3. WorksOn(g)'
  BY <1>1, <1>2 DEF WorksOn
<1>4. Accounted(g)'
  BY <1>1 DEF Accounted
<1> QED BY <1>3, <1>4

\* Together.
LEMMA AllSound ==
    ASSUME NEW g \in Ingesters, WorksOn(g)', Accounted(g)',
           \A h \in Ingesters : h # g => WorksOn(h)' /\ Accounted(h)',
           InOrder', ListedAreCreated', IndexesAreOwn', AloneIsAlone', LaterAreNewer',
           IndexedIsCarried', LaterCarries', InProgressIsHeld', CountsAreTrue'
    PROVE  IngestionsSound'
<1>1. ASSUME NEW h \in Ingesters PROVE WorksOn(h)' /\ Accounted(h)'
  <2>1. CASE h = g
    BY <2>1
  <2> QED BY <2>1
<1> QED BY <1>1 DEF IngestionsSound

\* An ingestion that is at a document or has one to do works on an open index version
\* as long as the document is there.
LEMMA AtWork ==
    ASSUME TypeOK, NEW g \in Ingesters, WorksOn(g), Past(g)
    PROVE  /\ ingester[g].index \in DOMAIN index
           /\ index[ingester[g].index].status \in {"indexing", "gone"}
           /\ ingester[g].todo \subseteq index[ingester[g].index].listed
           /\ \A d \in ingester[g].todo :
                 /\ d \in Documents /\ d \in Created
                 /\ document[d] # "gone" => index[ingester[g].index].status = "indexing"
<1>1. Ingesting(g)
  BY PastNext
<1> QED BY <1>1, IngestionTyped DEF WorksOn

\* A step that marks a document which is there.
LEMMA MarkingGrows ==
    ASSUME TypeOK, NEW d \in Created, document[d] # "gone",
           document'[d] \notin {"none", "gone"},
           \A e \in Documents : e # d => document'[e] = document[e],
           chunks' = chunks, index' = index
    PROVE  /\ Grown /\ Created' = Created /\ NoneFinishes
           /\ \A i \in DOMAIN index : index'[i].status = index[i].status
           /\ \A i \in DOMAIN index' : i \notin DOMAIN index => index'[i].listed \subseteq Created
           /\ \A c \in chunks' : c \in chunks \/ index'[c[2]].status = "indexing"
<1>1. \A e \in Documents : (document'[e] # "none") <=> (document[e] # "none")
  BY DEF Created
<1>2. Created' = Created
  BY <1>1 DEF Created
<1>3. \A e \in Documents : document'[e] = "gone" <=> document[e] = "gone"
  BY DEF Created
<1>4. Grown
  BY <1>2, <1>3 DEF Grown
<1>5. NoneFinishes
  BY DEF NoneFinishes, Finished
<1> QED BY <1>2, <1>4, <1>5

\* A step that leaves documents, chunks and index versions alone.
LEMMA StillGrows ==
    ASSUME TypeOK, UNCHANGED <<document, chunks, index>>
    PROVE  /\ Grown /\ Created' = Created /\ NoneFinishes /\ NoneIndexed
           /\ \A i \in DOMAIN index : index'[i].status = index[i].status
           /\ \A i \in DOMAIN index' : i \notin DOMAIN index => index'[i].listed \subseteq Created
           /\ \A c \in chunks' : c \in chunks \/ index'[c[2]].status = "indexing"
<1>1. Created' = Created
  BY DEF Created
<1> QED BY <1>1 DEF Grown, NoneFinishes, NoneIndexed, Finished

-----------------------------------------------------------------------------
\* The steps of an ingestion

LEMMA NothingPendingSound ==
    ASSUME TypeOK, TypeOK', IngestionsSound, NEW g \in Ingesters, NothingPending(g)
    PROVE  IngestionsSound'
<1>1. /\ AtStep(g, "listed") /\ Leaves(g)
      /\ DOMAIN index \subseteq DOMAIN index'
      /\ \A i \in DOMAIN index : index'[i] = index[i]
      /\ \A i \in DOMAIN index' : i \notin DOMAIN index => index'[i] = NewIndex("pending", {})
  BY NothingPendingEffect
<1>2. document' = document /\ chunks' = chunks /\ orphaned' = orphaned
  BY DEF NothingPending, ghosts
<1>3. Ingesting(g) /\ Apart(g) /\ ingester'[g].pc # "counted"
  BY <1>1, IngestionTyped, NextIngestionTyped DEF AtStep, Leaves
<1>4. \A x : x = NewIndex("pending", {}) => x.status = "pending" /\ x.listed = {}
  BY DEF NewIndex
<1>5. Created' = Created /\ NoneIndexed
  BY <1>2 DEF Created, NoneIndexed
<1>6. Grown
  BY <1>1, <1>2, <1>5 DEF Grown
<1>7. NoneFinishes
  BY <1>1, <1>4 DEF NoneFinishes, Finished
<1>8. /\ \A i \in DOMAIN index : index'[i].status = index[i].status
      /\ \A i \in DOMAIN index' : i \notin DOMAIN index => index'[i].listed \subseteq Created
      /\ \A c \in chunks' : c \in chunks \/ index'[c[2]].status = "indexing"
  BY <1>1, <1>2, <1>4
<1>9. Carried
  BY <1>3, <1>6, <1>8, CarriedOn
<1>10. IndexedIsCarried' /\ LaterCarries'
  BY <1>5, <1>6, <1>7, <1>9, IndexedKept, LaterAllKept DEF IngestionsSound
<1>11. InProgressIsHeld'
  <2>1. Doc(g) = 0
    BY <1>1, <1>3 DEF IngestionsSound, WorksOn, AtStep, AtDocument, Doc
  <2>2. ASSUME NEW d \in Documents, document'[d] \in InProgress
        PROVE  document[d] \in InProgress /\ ~(Doc(g) = d) /\ (d \in orphaned => d \in orphaned')
    BY <1>2, <2>1, <2>2, DocumentsFinite
  <2> QED BY <1>3, <2>2, InProgressKept DEF IngestionsSound
<1>12. /\ \A h \in Ingesters : h # g => WorksOn(h)' /\ Accounted(h)'
       /\ InOrder' /\ ListedAreCreated' /\ CountsAreTrue'
  BY <1>3, <1>5, <1>6, <1>7, <1>8, StepSound
<1>13. IndexesAreOwn' /\ AloneIsAlone' /\ LaterAreNewer'
  BY <1>1, <1>7, OnSound
<1> QED BY <1>1, <1>10, <1>11, <1>12, <1>13, GoneWorksOnNothing, AllSound

\* It opens the newest index version, which has no chunks.
LEMMA CreateIndexSound ==
    ASSUME TypeOK, TypeOK', IngestionsSound, NEW g \in Ingesters, CreateIndex(g)
    PROVE  IngestionsSound'
<1>1. /\ AtStep(g, "listed") /\ Ingesting(g)
      /\ ingester'[g] \in Ingestion /\ Apart(g)
      /\ ingester'[g].pc = "next" /\ ingester'[g].todo = ingester[g].todo
      /\ ingester'[g].doc = Doc(g) /\ ingester'[g].index = Len(index) + 1
      /\ ingester'[g].alone = ingester[g].alone
      /\ DOMAIN index = 1 .. Len(index) /\ DOMAIN index' = 1 .. Len(index) + 1
      /\ \A i \in DOMAIN index : index'[i] = index[i]
      /\ index'[Len(index) + 1] = NewIndex("indexing", ingester[g].todo)
  BY CreateIndexEffect
<1>2. document' = document /\ chunks' = chunks /\ orphaned' = orphaned
  BY DEF CreateIndex, ghosts
<1>3. PICK n \in Nat : n = Len(index) + 1
  BY DEF TypeOK
<1>4. DOMAIN index = 1 .. n - 1 /\ DOMAIN index' = 1 .. n /\ n \in DOMAIN index'
  BY <1>1, <1>3, KeptDomain
<1>5. index'[n].status = "indexing" /\ index'[n].listed = ingester[g].todo
  BY <1>1, <1>3 DEF NewIndex
<1>6. \A i \in DOMAIN index' : i \notin DOMAIN index => i = n
  BY <1>4
<1>7. WorksOn(g) /\ Doc(g) = 0 /\ ingester[g].todo \subseteq Created
  BY <1>1 DEF IngestionsSound, WorksOn, AtStep, AtDocument, Doc
<1>8. Created' = Created /\ NoneIndexed
  BY <1>2 DEF Created, NoneIndexed
<1>9. Grown
  BY <1>1, <1>2, <1>4, <1>8 DEF Grown
<1>10. NoneFinishes
  BY <1>1, <1>5, <1>6 DEF NoneFinishes, Finished
<1>11. /\ \A i \in DOMAIN index : index'[i].status = index[i].status
       /\ \A i \in DOMAIN index' : i \notin DOMAIN index => index'[i].listed \subseteq Created
       /\ \A c \in chunks' : c \in chunks \/ index'[c[2]].status = "indexing"
  BY <1>1, <1>2, <1>5, <1>6, <1>7
<1>12. Carried
  BY <1>1, <1>9, <1>11, CarriedOn
<1>13. IndexedIsCarried' /\ LaterCarries'
  BY <1>8, <1>9, <1>10, <1>12, IndexedKept, LaterAllKept DEF IngestionsSound
<1>14. InProgressIsHeld'
  <2>1. ASSUME NEW d \in Documents, document'[d] \in InProgress
        PROVE  document[d] \in InProgress /\ ~(Doc(g) = d) /\ (d \in orphaned => d \in orphaned')
    BY <1>2, <1>7, <2>1, DocumentsFinite
  <2> QED BY <1>1, <2>1, InProgressKept DEF IngestionsSound
<1>15. /\ \A h \in Ingesters : h # g => WorksOn(h)' /\ Accounted(h)'
       /\ InOrder' /\ ListedAreCreated' /\ CountsAreTrue'
  BY <1>1, <1>8, <1>9, <1>10, <1>11, StepSound
<1>16. \A h \in Ingesters : h # g =>
          /\ Ingesting(h)' <=> Ingesting(h)
          /\ Past(h)' <=> Past(h)
          /\ ingester'[h] = ingester[h]
  BY <1>1, PastNext DEF Apart, Ingesting
<1>17. \A h \in Ingesters : Past(h) => IndexOf(h) \in 1 .. n - 1
  BY <1>4 DEF IngestionsSound, WorksOn, IndexOf
<1>18. IndexesAreOwn'
  <2>1. ASSUME NEW f \in Ingesters, NEW h \in Ingesters, Past(f)', Past(h)',
               ingester'[f].index = ingester'[h].index, f # h
        PROVE  FALSE
    <3>1. CASE f # g /\ h # g
      BY <1>16, <2>1, <3>1 DEF IngestionsSound, IndexesAreOwn, IndexOf
    <3>2. CASE f = g \/ h = g
      BY <1>1, <1>3, <1>16, <1>17, <2>1, <3>2 DEF IndexOf
    <3> QED BY <3>1, <3>2
  <2> QED BY <2>1 DEF IndexesAreOwn, IndexOf
<1>19. AloneIsAlone'
  <2>1. NoneJoins
    BY <1>1, <1>16 DEF NoneJoins
  <2> QED BY <2>1, AloneKept DEF IngestionsSound
<1>20. LaterAreNewer'
  <2>1. ASSUME NEW i \in DOMAIN index', Finished(i)', index'[i].alone,
               NEW h \in Ingesters, Past(h)'
        PROVE  ingester'[h].index > i
    <3>1. i \in DOMAIN index /\ index'[i] = index[i]
      BY <1>10, <2>1 DEF NoneFinishes
    <3>2. CASE h = g
      BY <1>1, <1>3, <1>4, <3>1, <3>2
    <3>3. CASE h # g
      <4>1. IndexOf(h) > i
        BY <1>16, <2>1, <3>1, <3>3 DEF IngestionsSound, LaterAreNewer, Finished
      <4> QED BY <1>16, <3>3, <4>1 DEF IndexOf
    <3> QED BY <3>2, <3>3
  <2> QED BY <2>1 DEF LaterAreNewer, IndexOf
<1>21. Past(g)' /\ Ingesting(g)'
  BY <1>1, PastNext, NextIngestionTyped
<1>22. WorksOn(g)'
  <2>1. PICK r : r = ingester'[g]
    OBVIOUS
  <2>2. r.pc = "next" /\ r.todo = ingester[g].todo /\ r.doc = 0 /\ r.index = n
    BY <1>1, <1>3, <1>7, <2>1
  <2> QED BY <1>4, <1>5, <1>7, <1>8, <1>21, <2>1, <2>2 DEF WorksOn, AtDocument, Counting
<1>23. Accounted(g)'
  <2>1. PICK r : r = ingester'[g]
    OBVIOUS
  <2>2. r.pc = "next" /\ r.todo = ingester[g].todo /\ r.index = n
    BY <1>1, <1>3, <2>1
  <2>3. index'[n].listed \ r.todo = {}
    BY <1>5, <2>2
  <2>4. \A d : <<d, n>> \notin chunks'
    <3>1. chunks \subseteq Documents \X (1 .. Len(index))
      BY DEF TypeOK
    <3> QED BY <1>2, <1>3, <3>1, KeptDomain
  <2> QED BY <2>1, <2>2, <2>3, <2>4 DEF Accounted, Counting
<1> QED BY <1>13, <1>14, <1>15, <1>18, <1>19, <1>20, <1>22, <1>23, AllSound

\* A step that marks a document the ingestion has to do.
LEMMA MarkingSound ==
    ASSUME TypeOK, TypeOK', IngestionsSound, NEW g \in Ingesters, Past(g),
           NEW pc \in {"next", "parsing", "embedding"}, NEW todo, NEW doc,
           GoesOn(g, pc, todo, doc),
           todo \subseteq ingester[g].todo,
           IF pc = "next" THEN doc = 0 ELSE doc \in todo,
           NEW d \in ingester[g].todo, document[d] # "gone",
           document'[d] \in {"parsing", "embedding", "failed", "indexed"},
           \A e \in Documents : e # d => document'[e] = document[e],
           chunks' = chunks, index' = index
    PROVE  /\ \A h \in Ingesters : h # g => WorksOn(h)' /\ Accounted(h)'
           /\ WorksOn(g)'
           /\ InOrder' /\ ListedAreCreated' /\ CountsAreTrue'
           /\ IndexesAreOwn' /\ AloneIsAlone' /\ LaterAreNewer'
           /\ Carried /\ Grown /\ NoneFinishes
<1>1. WorksOn(g) /\ Ingesting(g) /\ Apart(g)
  BY PastNext DEF IngestionsSound, GoesOn
<1>2. /\ ingester[g].index \in DOMAIN index
      /\ ingester[g].todo \subseteq index[ingester[g].index].listed
      /\ d \in Documents /\ d \in Created
      /\ index[ingester[g].index].status = "indexing"
  BY <1>1, AtWork
<1>3. /\ Grown /\ Created' = Created /\ NoneFinishes
      /\ \A i \in DOMAIN index : index'[i].status = index[i].status
      /\ \A i \in DOMAIN index' : i \notin DOMAIN index => index'[i].listed \subseteq Created
      /\ \A c \in chunks' : c \in chunks \/ index'[c[2]].status = "indexing"
  BY <1>2, MarkingGrows
<1>4. ingester'[g].pc # "counted"
  BY DEF GoesOn
<1>5. Carried
  BY <1>1, <1>3, <1>4, CarriedOn
<1>6. /\ \A h \in Ingesters : h # g => WorksOn(h)' /\ Accounted(h)'
      /\ InOrder' /\ ListedAreCreated' /\ CountsAreTrue'
  BY <1>1, <1>3, StepSound
<1>7. IndexesAreOwn' /\ AloneIsAlone' /\ LaterAreNewer'
  BY <1>3, OnSound
<1>8. WorksOn(g)'
  <2>1. PICK r : r = ingester'[g]
    OBVIOUS
  <2>2. r.pc = pc /\ r.todo = todo /\ r.doc = doc /\ r.index = ingester[g].index
    BY <2>1 DEF GoesOn
  <2>3. Ingesting(g)' /\ Past(g)'
    BY <2>1, <2>2, PastNext, NextIngestionTyped DEF GoesOn
  <2>4. r.todo \subseteq Created' /\ r.todo \subseteq index'[r.index].listed
    BY <1>1, <1>2, <1>3, <2>2 DEF WorksOn
  <2>5. r.index \in DOMAIN index' /\ index'[r.index].status = "indexing"
    BY <1>2, <2>2
  <2>6. IF r.pc \in AtDocument THEN r.doc \in r.todo ELSE r.doc = 0
    BY <2>2 DEF AtDocument
  <2>7. r.pc \notin Counting /\ r.pc # "replaced" /\ r.pc # "counted"
    BY <2>2 DEF Counting
  <2> QED BY <2>1, <2>3, <2>4, <2>5, <2>6, <2>7 DEF WorksOn
<1> QED BY <1>3, <1>5, <1>6, <1>7, <1>8

LEMMA ParseSound ==
    ASSUME TypeOK, TypeOK', IngestionsSound, NEW g \in Ingesters, Parse(g)
    PROVE  IngestionsSound'
<1>1. PICK d \in ingester[g].todo :
         /\ GoesOn(g, "parsing", ingester[g].todo, d)
         /\ document[d] # "gone"
         /\ document'[d] = "parsing"
         /\ \A e \in Documents : e # d => document'[e] = document[e]
         /\ orphaned' = orphaned \ {d}
  BY ParseEffect
<1>2. ingester[g].pc = "next" /\ chunks' = chunks /\ index' = index
  BY DEF Parse, AtStep
<1>3. Ingesting(g) /\ Past(g)
  BY <1>2, IngestionTyped, PastNext
<1>4. WorksOn(g) /\ Accounted(g)
  BY DEF IngestionsSound
<1>5. d \in Documents /\ Doc(g) = 0
  BY <1>2, <1>3, <1>4, IngestionTyped DEF WorksOn, AtDocument, Doc
<1>6. /\ \A h \in Ingesters : h # g => WorksOn(h)' /\ Accounted(h)'
      /\ WorksOn(g)'
      /\ InOrder' /\ ListedAreCreated' /\ CountsAreTrue'
      /\ IndexesAreOwn' /\ AloneIsAlone' /\ LaterAreNewer'
      /\ Carried /\ Grown /\ NoneFinishes
  BY <1>1, <1>2, <1>3, MarkingSound
<1>7. NoneIndexed
  BY <1>1 DEF NoneIndexed
<1>8. IndexedIsCarried' /\ LaterCarries'
  BY <1>6, <1>7, IndexedKept, LaterAllKept DEF IngestionsSound
<1>9. Apart(g) /\ Ingesting(g)' /\ ingester'[g].doc = d
  BY <1>1, NextIngestionTyped DEF GoesOn
<1>10. InProgressIsHeld'
  <2>1. ASSUME NEW e \in Documents, document'[e] \in InProgress, e # d
        PROVE  document[e] \in InProgress /\ ~(Doc(g) = e) /\ (e \in orphaned => e \in orphaned')
    BY <1>1, <1>5, <2>1, DocumentsFinite
  <2> QED BY <1>9, <2>1, InProgressKept DEF IngestionsSound
<1>11. Accounted(g)'
  <2>1. PICK r : r = ingester'[g]
    OBVIOUS
  <2>2. PICK s : s = ingester[g]
    OBVIOUS
  <2>3. r.pc = "parsing" /\ r.todo = s.todo /\ r.index = s.index /\ r.alone = s.alone
    BY <1>1, <2>1, <2>2 DEF GoesOn
  <2>4. index[s.index].listed \subseteq Documents
    BY <1>3, <1>4, <2>2, AtWork, ListedTyped
  <2>5. ASSUME r.alone, index[s.index].status # "gone"
        PROVE  /\ \A e \in index[s.index].listed \ s.todo : document'[e] \in {"indexed", "failed"}
               /\ \A e \in Documents : <<e, s.index>> \in chunks <=>
                     e \in index[s.index].listed \ s.todo /\ document'[e] = "indexed"
    <3>1. /\ \A e \in index[s.index].listed \ s.todo : document[e] \in {"indexed", "failed"}
          /\ \A e \in Documents : <<e, s.index>> \in chunks <=>
                e \in index[s.index].listed \ s.todo /\ document[e] = "indexed"
      BY <1>2, <1>3, <1>4, <2>2, <2>3, <2>5 DEF Accounted
    <3> QED BY <1>1, <2>2, <2>4, <3>1
  <2> QED BY <1>2, <2>1, <2>3, <2>5 DEF Accounted, Counting
<1> QED BY <1>6, <1>8, <1>10, <1>11, AllSound

LEMMA EmbedSound ==
    ASSUME TypeOK, TypeOK', IngestionsSound, NEW g \in Ingesters, Embed(g)
    PROVE  IngestionsSound'
<1>1. /\ ingester[g].pc = "parsing" /\ document[Doc(g)] # "gone"
      /\ Mark(Doc(g), "embedding") /\ Step(g, [ingester[g] EXCEPT !.pc = "embedding"])
      /\ chunks' = chunks /\ index' = index /\ orphaned' = orphaned
  BY DEF Embed, AtStep, ghosts
<1>2. Ingesting(g) /\ Past(g)
  BY <1>1, IngestionTyped, PastNext
<1>3. WorksOn(g) /\ Accounted(g)
  BY DEF IngestionsSound
<1>4. PICK d \in ingester[g].todo : d = Doc(g)
  BY <1>1, <1>2, <1>3 DEF WorksOn, AtDocument, Doc
<1>5. d \in Documents
  BY <1>2, IngestionTyped
<1>6. GoesOn(g, "embedding", ingester[g].todo, d)
  BY <1>1, <1>2, <1>4, MoveEffect
<1>7. /\ document[d] # "gone" /\ document'[d] = "embedding"
      /\ \A e \in Documents : e # d => document'[e] = document[e]
  BY <1>1, <1>4, <1>5, MarkEffect
<1>8. /\ \A h \in Ingesters : h # g => WorksOn(h)' /\ Accounted(h)'
      /\ WorksOn(g)'
      /\ InOrder' /\ ListedAreCreated' /\ CountsAreTrue'
      /\ IndexesAreOwn' /\ AloneIsAlone' /\ LaterAreNewer'
      /\ Carried /\ Grown /\ NoneFinishes
  BY <1>1, <1>2, <1>6, <1>7, MarkingSound
<1>9. NoneIndexed
  BY <1>7 DEF NoneIndexed
<1>10. IndexedIsCarried' /\ LaterCarries'
  BY <1>8, <1>9, IndexedKept, LaterAllKept DEF IngestionsSound
<1>11. Apart(g) /\ Ingesting(g)' /\ ingester'[g].doc = d
  BY <1>6, NextIngestionTyped DEF GoesOn
<1>12. InProgressIsHeld'
  <2>1. ASSUME NEW e \in Documents, document'[e] \in InProgress, e # d
        PROVE  document[e] \in InProgress /\ ~(Doc(g) = e) /\ (e \in orphaned => e \in orphaned')
    BY <1>1, <1>4, <1>7, <2>1
  <2> QED BY <1>11, <2>1, InProgressKept DEF IngestionsSound
<1>13. Accounted(g)'
  <2>1. PICK r : r = ingester'[g]
    OBVIOUS
  <2>2. PICK s : s = ingester[g]
    OBVIOUS
  <2>3. r.pc = "embedding" /\ r.todo = s.todo /\ r.index = s.index /\ r.alone = s.alone
    BY <1>6, <2>1, <2>2 DEF GoesOn
  <2>4. index[s.index].listed \subseteq Documents
    BY <1>2, <1>3, <2>2, AtWork, ListedTyped
  <2>5. ASSUME r.alone, index[s.index].status # "gone"
        PROVE  /\ \A e \in index[s.index].listed \ s.todo : document'[e] \in {"indexed", "failed"}
               /\ \A e \in Documents : <<e, s.index>> \in chunks <=>
                     e \in index[s.index].listed \ s.todo /\ document'[e] = "indexed"
    <3>1. /\ \A e \in index[s.index].listed \ s.todo : document[e] \in {"indexed", "failed"}
          /\ \A e \in Documents : <<e, s.index>> \in chunks <=>
                e \in index[s.index].listed \ s.todo /\ document[e] = "indexed"
      BY <1>1, <1>2, <1>3, <2>2, <2>3, <2>5 DEF Accounted
    <3> QED BY <1>7, <2>2, <2>4, <3>1
  <2> QED BY <1>1, <2>1, <2>3, <2>5 DEF Accounted, Counting
<1> QED BY <1>8, <1>10, <1>12, <1>13, AllSound

LEMMA IndexFailsSound ==
    ASSUME TypeOK, TypeOK', IngestionsSound, NEW g \in Ingesters, IndexFails(g)
    PROVE  IngestionsSound'
<1>1. /\ ingester[g].pc = "parsing" /\ document[Doc(g)] # "gone"
      /\ Mark(Doc(g), "failed") /\ NextDocument(g)
      /\ chunks' = chunks /\ index' = index /\ orphaned' = orphaned
  BY DEF IndexFails, AtStep, ghosts
<1>2. Ingesting(g) /\ Past(g)
  BY <1>1, IngestionTyped, PastNext
<1>3. WorksOn(g) /\ Accounted(g)
  BY DEF IngestionsSound
<1>4. PICK d \in ingester[g].todo : d = Doc(g)
  BY <1>1, <1>2, <1>3 DEF WorksOn, AtDocument, Doc
<1>5. d \in Documents
  BY <1>2, IngestionTyped
<1>6. GoesOn(g, "next", ingester[g].todo \ {d}, 0)
  BY <1>1, <1>2, <1>4, NextDocumentEffect
<1>7. /\ document[d] # "gone" /\ document'[d] = "failed"
      /\ \A e \in Documents : e # d => document'[e] = document[e]
  BY <1>1, <1>4, <1>5, MarkEffect
<1>8. /\ \A h \in Ingesters : h # g => WorksOn(h)' /\ Accounted(h)'
      /\ WorksOn(g)'
      /\ InOrder' /\ ListedAreCreated' /\ CountsAreTrue'
      /\ IndexesAreOwn' /\ AloneIsAlone' /\ LaterAreNewer'
      /\ Carried /\ Grown /\ NoneFinishes
  <2>1. ingester[g].todo \ {d} \subseteq ingester[g].todo
    OBVIOUS
  <2> QED BY <1>1, <1>2, <1>6, <1>7, <2>1, MarkingSound
<1>9. NoneIndexed
  BY <1>7 DEF NoneIndexed
<1>10. IndexedIsCarried' /\ LaterCarries'
  BY <1>8, <1>9, IndexedKept, LaterAllKept DEF IngestionsSound
<1>11. InProgressIsHeld'
  <2>1. ASSUME NEW e \in Documents, document'[e] \in InProgress
        PROVE  document[e] \in InProgress /\ ~(Doc(g) = e) /\ (e \in orphaned => e \in orphaned')
    BY <1>1, <1>4, <1>7, <2>1 DEF InProgress
  <2>2. Apart(g)
    BY <1>6 DEF GoesOn
  <2> QED BY <2>1, <2>2, InProgressKept DEF IngestionsSound
<1>12. Accounted(g)'
  <2>1. PICK r : r = ingester'[g]
    OBVIOUS
  <2>2. PICK s : s = ingester[g]
    OBVIOUS
  <2>3. r.pc = "next" /\ r.todo = s.todo \ {d} /\ r.index = s.index /\ r.alone = s.alone
    BY <1>6, <2>1, <2>2 DEF GoesOn
  <2>4. index[s.index].listed \subseteq Documents
    BY <1>2, <1>3, <2>2, AtWork, ListedTyped
  <2>5. ASSUME r.alone, index[s.index].status # "gone"
        PROVE  /\ \A e \in index[s.index].listed \ r.todo : document'[e] \in {"indexed", "failed"}
               /\ \A e \in Documents : <<e, s.index>> \in chunks <=>
                     e \in index[s.index].listed \ r.todo /\ document'[e] = "indexed"
    <3>1. /\ \A e \in index[s.index].listed \ s.todo : document[e] \in {"indexed", "failed"}
          /\ \A e \in Documents : <<e, s.index>> \in chunks <=>
                e \in index[s.index].listed \ s.todo /\ document[e] = "indexed"
      BY <1>1, <1>2, <1>3, <2>2, <2>3, <2>5 DEF Accounted
    <3> QED BY <1>7, <2>2, <2>3, <2>4, <3>1
  <2> QED BY <1>1, <2>1, <2>3, <2>5 DEF Accounted, Counting
<1> QED BY <1>8, <1>10, <1>11, <1>12, AllSound

LEMMA ReplaceChunksSound ==
    ASSUME TypeOK, TypeOK', IngestionsSound, NEW g \in Ingesters, ReplaceChunks(g)
    PROVE  IngestionsSound'
<1>1. /\ ingester[g].pc = "embedding" /\ document[Doc(g)] # "gone"
      /\ Step(g, [ingester[g] EXCEPT !.pc = "replaced"])
      /\ chunks' = Replaced(Doc(g), IndexOf(g))
      /\ document' = document /\ index' = index /\ orphaned' = orphaned
  BY DEF ReplaceChunks, AtStep, ghosts
<1>2. Ingesting(g) /\ Past(g)
  BY <1>1, IngestionTyped, PastNext
<1>3. WorksOn(g) /\ Accounted(g)
  BY DEF IngestionsSound
<1>4. PICK d \in ingester[g].todo : d = Doc(g)
  BY <1>1, <1>2, <1>3 DEF WorksOn, AtDocument, Doc
<1>5. PICK i : i = ingester[g].index
  OBVIOUS
<1>6. /\ d \in Documents /\ d \in Created /\ i \in DOMAIN index /\ index[i].status = "indexing"
      /\ ingester[g].todo \subseteq index[i].listed
  BY <1>1, <1>2, <1>3, <1>4, <1>5, AtWork
<1>7. GoesOn(g, "replaced", ingester[g].todo, d)
  BY <1>1, <1>2, <1>4, MoveEffect
<1>8. chunks' = {c \in chunks : c # <<d, i>>} \cup {<<d, i>>}
  BY <1>1, <1>4, <1>5 DEF Replaced, IndexOf
<1>9. \A e, j : <<e, j>> \in chunks' <=> <<e, j>> \in chunks \/ (e = d /\ j = i)
  BY <1>8
<1>10. Created' = Created /\ NoneIndexed /\ NoneFinishes
  BY <1>1 DEF Created, NoneIndexed, NoneFinishes, Finished
<1>11. Grown
  BY <1>1, <1>8, <1>10 DEF Grown
<1>12. /\ \A j \in DOMAIN index : index'[j].status = index[j].status
       /\ \A j \in DOMAIN index' : j \notin DOMAIN index => index'[j].listed \subseteq Created
       /\ \A c \in chunks' : c \in chunks \/ index'[c[2]].status = "indexing"
  BY <1>1, <1>6, <1>8
<1>13. Apart(g) /\ ingester'[g].pc = "replaced" /\ Ingesting(g)' /\ Past(g)'
  BY <1>7, NextIngestionTyped, PastNext DEF GoesOn
<1>14. Carried
  BY <1>11, <1>12, <1>13, CarriedOn
<1>15. IndexedIsCarried' /\ LaterCarries'
  BY <1>10, <1>11, <1>14, IndexedKept, LaterAllKept DEF IngestionsSound
<1>16. InProgressIsHeld'
  <2>1. ingester'[g].doc = Doc(g)
    BY <1>4, <1>7 DEF GoesOn
  <2>2. ASSUME NEW e \in Documents, document'[e] \in InProgress, Doc(g) # e
        PROVE  document[e] \in InProgress /\ (e \in orphaned => e \in orphaned')
    BY <1>1, <2>2
  <2> QED BY <1>13, <2>1, <2>2, InProgressKept DEF IngestionsSound
<1>17. /\ \A h \in Ingesters : h # g => WorksOn(h)' /\ Accounted(h)'
       /\ InOrder' /\ ListedAreCreated' /\ CountsAreTrue'
  BY <1>2, <1>10, <1>11, <1>12, <1>13, StepSound
<1>18. IndexesAreOwn' /\ AloneIsAlone' /\ LaterAreNewer'
  BY <1>2, <1>7, <1>10, OnSound
<1>19. PICK r : r = ingester'[g]
  OBVIOUS
<1>20. /\ r.pc = "replaced" /\ r.todo = ingester[g].todo /\ r.doc = d /\ r.index = i
       /\ r.alone = ingester[g].alone
  BY <1>5, <1>7, <1>19 DEF GoesOn
<1>21. WorksOn(g)'
  <2>1. r.todo \subseteq Created' /\ r.doc \in r.todo
    BY <1>2, <1>3, <1>10, <1>20 DEF WorksOn
  <2>2. <<r.doc, r.index>> \in chunks'
    BY <1>9, <1>20
  <2> QED BY <1>1, <1>6, <1>13, <1>19, <1>20, <2>1, <2>2 DEF WorksOn, AtDocument, Counting
<1>22. Accounted(g)'
  <2>1. index[i].listed \subseteq Documents
    BY <1>6, ListedTyped
  <2>2. ASSUME r.alone, index[i].status # "gone"
        PROVE  /\ \A e \in index[i].listed \ r.todo : document[e] \in {"indexed", "failed"}
               /\ \A e \in Documents : <<e, i>> \in chunks' <=>
                     \/ e \in index[i].listed \ r.todo /\ document[e] = "indexed"
                     \/ e = d
    <3>1. /\ \A e \in index[i].listed \ r.todo : document[e] \in {"indexed", "failed"}
          /\ \A e \in Documents : <<e, i>> \in chunks <=>
                e \in index[i].listed \ r.todo /\ document[e] = "indexed"
      BY <1>1, <1>2, <1>3, <1>5, <1>20, <2>2 DEF Accounted
    <3> QED BY <1>9, <3>1
  <2> QED BY <1>1, <1>19, <1>20, <2>2 DEF Accounted, Counting
<1> QED BY <1>15, <1>16, <1>17, <1>18, <1>21, <1>22, AllSound

\* The document is carried by the index version of the ingestion that marks it,
\* which is newer than any that is finished and was alone.
LEMMA MarkIndexedSound ==
    ASSUME TypeOK, TypeOK', IngestionsSound, NEW g \in Ingesters, MarkIndexed(g)
    PROVE  IngestionsSound'
<1>1. /\ ingester[g].pc = "replaced" /\ document[Doc(g)] # "gone"
      /\ Mark(Doc(g), "indexed") /\ NextDocument(g)
      /\ chunks' = chunks /\ index' = index /\ orphaned' = orphaned
  BY DEF MarkIndexed, AtStep, ghosts
<1>2. Ingesting(g) /\ Past(g)
  BY <1>1, IngestionTyped, PastNext
<1>3. WorksOn(g) /\ Accounted(g)
  BY DEF IngestionsSound
<1>4. PICK d \in ingester[g].todo : d = Doc(g)
  BY <1>1, <1>2, <1>3 DEF WorksOn, AtDocument, Doc
<1>5. PICK i : i = ingester[g].index
  OBVIOUS
<1>6. /\ d \in Documents /\ d \in Created /\ i \in DOMAIN index /\ index[i].status = "indexing"
      /\ ingester[g].todo \subseteq index[i].listed
  BY <1>1, <1>2, <1>3, <1>4, <1>5, AtWork
<1>7. GoesOn(g, "next", ingester[g].todo \ {d}, 0)
  BY <1>1, <1>2, <1>4, NextDocumentEffect
<1>8. /\ document[d] # "gone" /\ document'[d] = "indexed"
      /\ \A e \in Documents : e # d => document'[e] = document[e]
  BY <1>1, <1>4, <1>6, MarkEffect
<1>9. /\ \A h \in Ingesters : h # g => WorksOn(h)' /\ Accounted(h)'
      /\ WorksOn(g)'
      /\ InOrder' /\ ListedAreCreated' /\ CountsAreTrue'
      /\ IndexesAreOwn' /\ AloneIsAlone' /\ LaterAreNewer'
      /\ Carried /\ Grown /\ NoneFinishes
  <2>1. ingester[g].todo \ {d} \subseteq ingester[g].todo
    OBVIOUS
  <2> QED BY <1>1, <1>2, <1>7, <1>8, <2>1, MarkingSound
<1>10. Apart(g) /\ ingester'[g].pc = "next"
  BY <1>7 DEF GoesOn
<1>11. Carries(i, d)' /\ i \in Kept'
  <2>1. i \in Kept'
    BY <1>1, <1>6, KeptDomain
  <2>2. <<d, i>> \in chunks'
    BY <1>1, <1>3, <1>4, <1>5 DEF WorksOn, Doc
  <2>3. ASSUME NEW h \in Ingesters, ingester'[h].pc = "counted", ingester'[h].index = i
        PROVE  FALSE
    <3>1. h # g /\ ingester'[h] = ingester[h]
      BY <1>10, <2>3 DEF Apart
    <3>2. Past(h) /\ ingester[h].index = ingester[g].index
      BY <1>5, <2>3, <3>1, IngestionTyped, PastNext
    <3> QED BY <1>2, <3>1, <3>2 DEF IngestionsSound, IndexesAreOwn, IndexOf
  <2>4. index'[i].status # "pending"
    BY <1>1, <1>6
  <2> QED BY <2>1, <2>2, <2>3, <2>4 DEF Carries, AtStep, IndexOf
<1>12. IndexedIsCarried'
  <2>1. ASSUME NEW e \in Documents, document'[e] = "indexed"
        PROVE  \E j \in Kept' : Carries(j, e)'
    <3>1. CASE e = d
      BY <1>11, <3>1
    <3>2. CASE e # d
      <4>1. document[e] = "indexed"
        BY <1>8, <2>1, <3>2
      <4>2. PICK j \in Kept : Carries(j, e)
        BY <4>1 DEF IngestionsSound, IndexedIsCarried
      <4>3. Carries(j, e)'
        BY <1>9, <4>1, <4>2 DEF Carried
      <4>4. j \in Kept'
        BY <4>3 DEF Carries
      <4> QED BY <4>3, <4>4
    <3> QED BY <3>1, <3>2
  <2> QED BY <2>1 DEF IndexedIsCarried
<1>13. LaterCarries'
  <2>1. ASSUME NEW k \in Kept', Finished(k)', index'[k].alone,
               NEW e \in index'[k].listed, document'[e] = "indexed"
        PROVE  (<<e, k>> \in chunks)' \/ \E j \in Kept' : j > k /\ Carries(j, e)'
    <3>1. k \in DOMAIN index' /\ k \in DOMAIN index /\ index'[k] = index[k]
      BY <1>9, <2>1, KeptDomain DEF NoneFinishes
    <3>2. e \in Documents
      BY <3>1, NextListedTyped
    <3>3. CASE e = d
      <4>1. IndexOf(g) > k
        BY <1>2, <2>1, <3>1 DEF IngestionsSound, LaterAreNewer, Finished
      <4> QED BY <1>5, <1>11, <3>3, <4>1 DEF IndexOf
    <3>4. CASE e # d
      <4>1. document[e] = "indexed"
        BY <1>8, <2>1, <3>2, <3>4
      <4>2. LaterCarries
        BY DEF IngestionsSound
      <4> QED BY <1>9, <2>1, <3>1, <3>2, <4>1, <4>2, LaterKept
    <3> QED BY <3>3, <3>4
  <2> QED BY <2>1 DEF LaterCarries
<1>14. InProgressIsHeld'
  <2>1. ASSUME NEW e \in Documents, document'[e] \in InProgress
        PROVE  document[e] \in InProgress /\ ~(Doc(g) = e) /\ (e \in orphaned => e \in orphaned')
    BY <1>1, <1>4, <1>8, <2>1 DEF InProgress
  <2> QED BY <1>10, <2>1, InProgressKept DEF IngestionsSound
<1>15. Accounted(g)'
  <2>1. PICK r : r = ingester'[g]
    OBVIOUS
  <2>2. PICK s : s = ingester[g]
    OBVIOUS
  <2>3. r.pc = "next" /\ r.todo = s.todo \ {d} /\ r.index = i /\ r.alone = s.alone
    BY <1>5, <1>7, <2>1, <2>2 DEF GoesOn
  <2>4. index[i].listed \subseteq Documents /\ d \in index[i].listed
    BY <1>6, ListedTyped
  <2>5. ASSUME r.alone, index[i].status # "gone"
        PROVE  /\ \A e \in index[i].listed \ r.todo : document'[e] \in {"indexed", "failed"}
               /\ \A e \in Documents : <<e, i>> \in chunks <=>
                     e \in index[i].listed \ r.todo /\ document'[e] = "indexed"
    <3>1. s.doc = d /\ d \in s.todo
      BY <1>4, <2>2 DEF Doc
    <3>2. /\ \A e \in index[i].listed \ s.todo : document[e] \in {"indexed", "failed"}
          /\ \A e \in Documents : <<e, i>> \in chunks <=>
                \/ e \in index[i].listed \ s.todo /\ document[e] = "indexed"
                \/ e = d
      BY <1>1, <1>2, <1>3, <1>5, <2>2, <2>3, <2>5, <3>1 DEF Accounted
    <3> QED BY <1>8, <2>3, <2>4, <3>1, <3>2
  <2> QED BY <1>1, <2>1, <2>3, <2>5 DEF Accounted, Counting
<1> QED BY <1>9, <1>12, <1>13, <1>14, <1>15, AllSound

\* What an ingestion counts when it was alone are all chunks of its index version.
LEMMA OwnAreIndexed ==
    ASSUME TypeOK, NEW g \in Ingesters, WorksOn(g), Accounted(g), Past(g), ingester[g].alone,
           ingester[g].pc # "replaced", index[IndexOf(g)].status # "gone"
    PROVE  IndexedChunks(IndexOf(g)) = Own(IndexOf(g))
<1>1. ASSUME NEW c \in chunks, c[2] = IndexOf(g) PROVE document[c[1]] = "indexed"
  <2>1. c = <<c[1], c[2]>> /\ c[1] \in Documents
    BY ChunkIsPair
  <2>2. <<c[1], ingester[g].index>> \in chunks
    BY <1>1, <2>1 DEF IndexOf
  <2> QED BY <2>1, <2>2 DEF Accounted, IndexOf
<1> QED BY <1>1 DEF IndexedChunks, Own

\* A step that only counts.
LEMMA CountingSound ==
    ASSUME TypeOK, TypeOK', IngestionsSound, NEW g \in Ingesters, Past(g),
           NEW pc \in {"counting", "counted"}, NEW todo, NEW doc,
           GoesOn(g, pc, todo, doc), todo = ingester[g].todo, doc = Doc(g),
           ingester[g].todo = {}, Doc(g) = 0,
           UNCHANGED <<document, chunks, index, orphaned>>,
           pc = "counted" =>
              (ingester'[g].chunks > 0 /\ index[IndexOf(g)].status # "gone" => chunks # {}),
           Carried, Accounted(g)'
    PROVE  IngestionsSound'
<1>1. WorksOn(g) /\ Ingesting(g) /\ Apart(g)
  BY PastNext DEF IngestionsSound, GoesOn
<1>2. /\ Grown /\ Created' = Created /\ NoneFinishes /\ NoneIndexed
      /\ \A i \in DOMAIN index : index'[i].status = index[i].status
      /\ \A i \in DOMAIN index' : i \notin DOMAIN index => index'[i].listed \subseteq Created
      /\ \A c \in chunks' : c \in chunks \/ index'[c[2]].status = "indexing"
  BY StillGrows
<1>3. IndexedIsCarried' /\ LaterCarries'
  BY <1>2, IndexedKept, LaterAllKept DEF IngestionsSound
<1>4. InProgressIsHeld'
  <2>1. ASSUME NEW e \in Documents, document'[e] \in InProgress
        PROVE  document[e] \in InProgress /\ ~(Doc(g) = e) /\ (e \in orphaned => e \in orphaned')
    BY <2>1, DocumentsFinite
  <2> QED BY <1>1, <2>1, InProgressKept DEF IngestionsSound
<1>5. /\ \A h \in Ingesters : h # g => WorksOn(h)' /\ Accounted(h)'
      /\ InOrder' /\ ListedAreCreated' /\ CountsAreTrue'
  BY <1>1, <1>2, StepSound
<1>6. IndexesAreOwn' /\ AloneIsAlone' /\ LaterAreNewer'
  BY <1>2, OnSound
<1>7. WorksOn(g)'
  <2>1. PICK r : r = ingester'[g]
    OBVIOUS
  <2>2. r.pc = pc /\ r.todo = {} /\ r.doc = 0 /\ r.index = ingester[g].index
    BY <2>1 DEF GoesOn
  <2>3. Ingesting(g)' /\ Past(g)'
    BY <2>1, <2>2, PastNext, NextIngestionTyped DEF GoesOn
  <2>4. r.index \in DOMAIN index /\ index[r.index].status \in {"indexing", "gone"}
    BY <1>1, <2>2 DEF WorksOn
  <2>5. r.pc = "counted" /\ r.chunks > 0 /\ index[r.index].status # "gone" => chunks # {}
    BY <2>1, <2>2 DEF IndexOf
  <2> QED BY <2>1, <2>2, <2>3, <2>4, <2>5 DEF WorksOn, AtDocument, Counting
<1> QED BY <1>3, <1>4, <1>5, <1>6, <1>7, AllSound

LEMMA CountDocumentsSound ==
    ASSUME TypeOK, TypeOK', IngestionsSound, NEW g \in Ingesters, CountDocuments(g)
    PROVE  IngestionsSound'
<1>1. /\ ingester[g].pc = "next" /\ ingester[g].todo = {} /\ Ingesting(g)
      /\ GoesOn(g, "counting", ingester[g].todo, Doc(g))
      /\ ingester'[g].documents = Cardinality({c[1] : c \in IndexedChunks(IndexOf(g))})
  BY CountDocumentsEffect DEF AtStep
<1>2. UNCHANGED <<document, chunks, index, orphaned>>
  BY DEF CountDocuments, rows, ghosts
<1>3. Past(g) /\ WorksOn(g) /\ Accounted(g) /\ Doc(g) = 0
  BY <1>1, PastNext DEF IngestionsSound, WorksOn, AtDocument, Doc
<1>4. Apart(g) /\ ingester'[g].pc = "counting"
  BY <1>1 DEF GoesOn
<1>5. Carried
  BY <1>2, <1>4, StillGrows, CarriedOn
<1>6. Accounted(g)'
  <2>1. PICK r : r = ingester'[g]
    OBVIOUS
  <2>2. PICK s : s = ingester[g]
    OBVIOUS
  <2>3. r.pc = "counting" /\ r.todo = s.todo /\ r.index = s.index /\ r.alone = s.alone
    BY <1>1, <2>1, <2>2 DEF GoesOn
  <2>4. ASSUME s.alone, index[s.index].status # "gone"
        PROVE  /\ \A e \in index[s.index].listed \ s.todo : document[e] \in {"indexed", "failed"}
               /\ \A e \in Documents : <<e, s.index>> \in chunks <=>
                     e \in index[s.index].listed \ s.todo /\ document[e] = "indexed"
    BY <1>1, <1>3, <2>2, <2>4 DEF Accounted
  <2>5. ASSUME s.alone, index[s.index].status # "gone"
        PROVE  r.documents = Cardinality({c[1] : c \in {e \in chunks : e[2] = s.index}})
    <3>1. IndexedChunks(s.index) = Own(s.index)
      BY <1>1, <1>3, <2>2, <2>5, OwnAreIndexed DEF IndexOf
    <3> QED BY <1>1, <2>1, <2>2, <3>1 DEF Own, IndexOf
  <2> QED BY <1>2, <2>1, <2>3, <2>4, <2>5 DEF Accounted, Counting, DocumentsOf, Own
<1> QED BY <1>1, <1>2, <1>3, <1>5, <1>6, CountingSound

\* It finds a chunk of whatever it carries.
LEMMA CountChunksSound ==
    ASSUME TypeOK, TypeOK', IngestionsSound, NEW g \in Ingesters, CountChunks(g)
    PROVE  IngestionsSound'
<1>1. /\ ingester[g].pc = "counting" /\ Ingesting(g)
      /\ GoesOn(g, "counted", ingester[g].todo, Doc(g))
      /\ ingester'[g].documents = ingester[g].documents
      /\ ingester'[g].chunks = Cardinality(IndexedChunks(IndexOf(g)))
  BY CountChunksEffect DEF AtStep
<1>2. UNCHANGED <<document, chunks, index, orphaned>>
  BY DEF CountChunks, rows, ghosts
<1>3. Past(g) /\ WorksOn(g) /\ Accounted(g) /\ Doc(g) = 0 /\ ingester[g].todo = {}
  BY <1>1, PastNext DEF IngestionsSound, WorksOn, AtDocument, Doc, Counting
<1>4. Apart(g)
  BY <1>1 DEF GoesOn
<1>5. Grown /\ \A i \in DOMAIN index : index'[i].status = index[i].status
  BY <1>2, StillGrows
<1>6. Carried
  <2>1. ASSUME NEW d \in Documents, NEW j \in Kept, document[d] = "indexed", Carries(j, d)
        PROVE  Carries(j, d)'
    <3>1. index'[j].status # "pending"
      BY <1>5, <2>1, KeptDomain DEF Carries
    <3>2. ASSUME NEW h \in Ingesters, ingester'[h].pc = "counted", ingester'[h].index = j
          PROVE  ingester'[h].chunks > 0
      <4>1. CASE h # g
        BY <1>4, <2>1, <3>2, <4>1 DEF Apart, Carries, AtStep, IndexOf
      <4>2. CASE h = g
        <5>1. IndexOf(g) = j
          BY <1>1, <3>2, <4>2 DEF GoesOn, IndexOf
        <5>2. <<d, j>> \in IndexedChunks(j)
          BY <2>1 DEF Carries, IndexedChunks
        <5> QED BY <1>1, <4>2, <5>1, <5>2, CountedTyped
      <4> QED BY <4>1, <4>2
    <3> QED BY <1>5, <2>1, <3>1, <3>2, CarriesKept
  <2> QED BY <2>1 DEF Carried
<1>7. Accounted(g)'
  <2>1. PICK r : r = ingester'[g]
    OBVIOUS
  <2>2. PICK s : s = ingester[g]
    OBVIOUS
  <2>3. /\ r.pc = "counted" /\ r.todo = s.todo /\ r.index = s.index /\ r.alone = s.alone
        /\ r.documents = s.documents
    BY <1>1, <2>1, <2>2 DEF GoesOn
  <2>4. ASSUME s.alone, index[s.index].status # "gone"
        PROVE  /\ \A e \in index[s.index].listed \ s.todo : document[e] \in {"indexed", "failed"}
               /\ \A e \in Documents : <<e, s.index>> \in chunks <=>
                     e \in index[s.index].listed \ s.todo /\ document[e] = "indexed"
               /\ s.documents = Cardinality({c[1] : c \in {e \in chunks : e[2] = s.index}})
    BY <1>1, <1>3, <2>2, <2>4 DEF Accounted, Counting, DocumentsOf, Own
  <2>5. ASSUME s.alone, index[s.index].status # "gone"
        PROVE  r.chunks = Cardinality({e \in chunks : e[2] = s.index})
    <3>1. IndexedChunks(s.index) = Own(s.index)
      BY <1>1, <1>3, <2>2, <2>5, OwnAreIndexed DEF IndexOf
    <3> QED BY <1>1, <2>1, <2>2, <3>1 DEF Own, IndexOf
  <2> QED BY <1>2, <2>1, <2>3, <2>4, <2>5 DEF Accounted, Counting, DocumentsOf, Own
<1>8. ingester'[g].chunks > 0 => chunks # {}
  <2>1. IndexedChunks(IndexOf(g)) \subseteq chunks
    BY DEF IndexedChunks
  <2>2. chunks = {} => ingester'[g].chunks = 0
    BY <1>1, <2>1, CountedTyped
  <2> QED BY <2>2
<1> QED BY <1>1, <1>2, <1>3, <1>6, <1>7, <1>8, CountingSound

\* The documents and index versions stay when an ingestion raises, dies or is restarted.
LEMMA LeaveSound ==
    ASSUME TypeOK, TypeOK', IngestionsSound, NEW g \in Ingesters,
           Raise(g) \/ Crash(g) \/ Restart(g)
    PROVE  IngestionsSound'
<1>1. Leaves(g) /\ Apart(g) /\ ~Ingesting(g)' /\ ingester'[g].pc # "counted"
  BY LeaveEffect, NextIngestionTyped DEF Leaves
<1>2. UNCHANGED <<document, chunks, index>> /\ orphaned \subseteq orphaned'
  BY DEF Raise, Crash, Restart, rows, ghosts
<1>3. /\ Grown /\ Created' = Created /\ NoneFinishes /\ NoneIndexed
      /\ \A i \in DOMAIN index : index'[i].status = index[i].status
      /\ \A i \in DOMAIN index' : i \notin DOMAIN index => index'[i].listed \subseteq Created
      /\ \A c \in chunks' : c \in chunks \/ index'[c[2]].status = "indexing"
  BY <1>2, StillGrows
<1>4. Carried
  BY <1>1, <1>3, CarriedOn
<1>5. IndexedIsCarried' /\ LaterCarries'
  BY <1>3, <1>4, IndexedKept, LaterAllKept DEF IngestionsSound
<1>6. IndexesAreOwn' /\ AloneIsAlone' /\ LaterAreNewer'
  BY <1>1, <1>3, OnSound
<1>7. WorksOn(g) /\ ingester[g].pc \in {"listed", "next", "parsing", "embedding", "replaced",
                                         "counting", "counted", "idle", "down"}
  BY IngestionTyped DEF IngestionsSound
<1>8. InProgressIsHeld'
  <2>1. ASSUME NEW d \in Documents, document[d] \in InProgress, Ingesting(g), Doc(g) = d
        PROVE  d \in orphaned'
    <3>1. d # 0 /\ document[d] # "gone"
      BY <2>1, DocumentsFinite DEF InProgress
    <3>2. ~AtStep(g, "listed")
      BY <1>7, <2>1, <3>1 DEF WorksOn, AtStep, AtDocument, Doc
    <3>3. ~Raise(g)
      BY <2>1, <3>1, <3>2 DEF Raise
    <3>4. ~Restart(g)
      BY <2>1 DEF Restart, Ingesting
    <3> QED BY <2>1, <3>1, <3>3, <3>4 DEF Crash
  <2>2. ASSUME NEW d \in Documents, document'[d] \in InProgress
        PROVE  \/ d \in orphaned'
               \/ /\ document[d] \in InProgress /\ ~(Ingesting(g) /\ Doc(g) = d)
                  /\ d \in orphaned => d \in orphaned'
    BY <1>2, <2>1, <2>2
  <2> QED BY <1>1, <2>2, InProgressKept DEF IngestionsSound
<1>9. CASE Ingesting(g)
  <2>1. /\ \A h \in Ingesters : h # g => WorksOn(h)' /\ Accounted(h)'
        /\ InOrder' /\ ListedAreCreated' /\ CountsAreTrue'
    BY <1>1, <1>3, <1>9, StepSound
  <2> QED BY <1>1, <1>5, <1>6, <1>8, <2>1, GoneWorksOnNothing, AllSound
<1>10. CASE ~Ingesting(g)
  <2>1. ASSUME NEW h \in Ingesters, h # g PROVE WorksOn(h)' /\ Accounted(h)'
    <3>1. ingester'[h] = ingester[h] /\ (Past(h)' <=> Past(h))
      BY <1>1, <2>1 DEF Apart, Past, Ingesting, AtStep
    <3>2. WorksOn(h) /\ Accounted(h)
      BY DEF IngestionsSound
    <3>3. WorksOn(h)'
      BY <1>2, <1>3, <3>1, <3>2, WorksOnKept
    <3>4. Accounted(h)'
      BY <1>2, <3>1, <3>2 DEF Accounted, Own, DocumentsOf
    <3> QED BY <3>3, <3>4
  <2>2. InOrder' /\ ListedAreCreated' /\ CountsAreTrue'
    BY <1>2, <1>3, OrderKept, ListedKept, CountsKept DEF IngestionsSound
  <2> QED BY <1>1, <1>5, <1>6, <1>8, <2>1, <2>2, GoneWorksOnNothing, AllSound
<1> QED BY <1>9, <1>10

\* The index version is closed with what was counted; one that was alone has a chunk of
\* every document it took up that did not fail.
LEMMA FinishSound ==
    ASSUME TypeOK, TypeOK', IngestionsSound, NEW g \in Ingesters, Finish(g)
    PROVE  IngestionsSound'
<1>1. ingester[g].pc = "counted" /\ UNCHANGED <<document, chunks, orphaned>>
  BY DEF Finish, AtStep, ghosts
<1>2. Ingesting(g) /\ Past(g) /\ WorksOn(g) /\ Accounted(g)
  BY <1>1, IngestionTyped, PastNext DEF IngestionsSound
<1>3. PICK i : i = ingester[g].index
  OBVIOUS
<1>4. /\ i \in DOMAIN index /\ index[i].status \in {"indexing", "gone"}
      /\ ingester[g].todo = {} /\ Doc(g) = 0
  BY <1>1, <1>2, <1>3 DEF WorksOn, AtDocument, Counting, Doc
<1>5. IndexOf(g) = i /\ IndexOf(g) \in DOMAIN index
  BY <1>3, <1>4 DEF IndexOf
<1>6. PICK s : s = Refreshed(SomeFailed, ingester[g].chunks, "pending")
  OBVIOUS
<1>7. /\ Leaves(g) /\ Apart(g) /\ ingester'[g].pc # "counted"
      /\ index[i].status = "indexing"
      /\ DOMAIN index' = DOMAIN index
      /\ \A j \in DOMAIN index : j # i => index'[j] = index[j]
      /\ index'[i] = [status |-> s, documents |-> ingester[g].documents,
                      chunks |-> ingester[g].chunks, listed |-> index[i].listed,
                      alone |-> ingester[g].alone]
  BY <1>4, <1>5, <1>6, FinishEffect, NextIngestionTyped DEF Leaves
<1>8. /\ index'[i].status = s /\ index'[i].documents = ingester[g].documents
      /\ index'[i].chunks = ingester[g].chunks /\ index'[i].listed = index[i].listed
      /\ index'[i].alone = ingester[g].alone
  BY <1>7
<1>9. /\ s \in {"degraded", "failed", "ready", "pending"}
      /\ ingester[g].chunks > 0 => s # "pending"
      /\ s = "ready" => ~SomeFailed
  <2>1. SomeFailed \in BOOLEAN /\ ingester[g].chunks \in Nat
    BY <1>2, IngestionTyped DEF SomeFailed
  <2> QED BY <1>6, <2>1, RefreshedStatus
<1>10. Created' = Created /\ NoneIndexed
  BY <1>1 DEF Created, NoneIndexed
<1>11. Grown
  BY <1>1, <1>7, <1>8, <1>9, <1>10 DEF Grown
<1>12. NoneJoins /\ NoneOpens
  BY <1>7, GoingOn
<1>13. ASSUME NEW h \in Ingesters, h # g PROVE WorksOn(h)' /\ Accounted(h)'
  <2>1. ingester'[h] = ingester[h] /\ WorksOn(h) /\ IndexesAreOwn /\ AloneIsAlone
    BY <1>7, <1>13 DEF Apart, IngestionsSound
  <2>2. Past(h) => IndexOf(h) \in DOMAIN index /\ IndexOf(h) # i
    BY <1>2, <1>5, <1>13, <2>1 DEF WorksOn, IndexOf, IndexesAreOwn
  <2>3. WorksOn(h)'
    BY <1>7, <1>11, <2>1, <2>2, WorksOnKept
  <2>4. Accounted(h)'
    BY <1>2, <1>13, <2>1, AccountedOther
  <2> QED BY <2>3, <2>4
<1>14. InOrder' /\ ListedAreCreated'
  BY <1>7, <1>10, <1>11, OrderKept, ListedKept DEF IngestionsSound
<1>15. IndexesAreOwn' /\ AloneIsAlone'
  BY <1>12, OwnKept, AloneKept DEF IngestionsSound
<1>16. LaterAreNewer'
  <2>1. ASSUME NEW j \in DOMAIN index', Finished(j)', index'[j].alone,
               NEW h \in Ingesters, Past(h)'
        PROVE  ingester'[h].index > j
    <3>1. Past(h) /\ ingester'[h].index = ingester[h].index
      BY <1>12, <2>1 DEF NoneOpens
    <3>2. h # g /\ Ingesting(h)
      BY <1>7, <2>1, <3>1, PastNext DEF Leaves
    <3>3. j # i
      BY <1>2, <1>8, <2>1, <3>2 DEF IngestionsSound, AloneIsAlone
    <3>4. j \in DOMAIN index /\ Finished(j) /\ index[j].alone
      BY <1>7, <2>1, <3>3 DEF Finished
    <3> QED BY <3>1, <3>4 DEF IngestionsSound, LaterAreNewer, IndexOf
  <2> QED BY <2>1 DEF LaterAreNewer, IndexOf
<1>17. Carried
  <2>1. ASSUME NEW d \in Documents, NEW j \in Kept, Carries(j, d) PROVE Carries(j, d)'
    <3>1. index'[j].status # "pending"
      <4>1. CASE j = i
        BY <1>1, <1>3, <1>8, <1>9, <2>1, <4>1 DEF Carries, AtStep, IndexOf
      <4>2. CASE j # i
        BY <1>7, <2>1, <4>2, KeptDomain DEF Carries
      <4> QED BY <4>1, <4>2
    <3>2. ASSUME NEW h \in Ingesters, ingester'[h].pc = "counted", ingester'[h].index = j
          PROVE  ingester'[h].chunks > 0
      BY <1>7, <2>1, <3>2 DEF Apart, Carries, AtStep, IndexOf
    <3> QED BY <1>11, <2>1, <3>1, <3>2, CarriesKept
  <2> QED BY <2>1 DEF Carried
<1>18. IndexedIsCarried'
  BY <1>10, <1>17, IndexedKept DEF IngestionsSound
<1>19. InProgressIsHeld'
  <2>1. ASSUME NEW e \in Documents, document'[e] \in InProgress
        PROVE  document[e] \in InProgress /\ ~(Doc(g) = e) /\ (e \in orphaned => e \in orphaned')
    BY <1>1, <1>4, <2>1, DocumentsFinite
  <2> QED BY <1>7, <2>1, InProgressKept DEF IngestionsSound
<1>20. ASSUME ingester[g].alone
       PROVE  /\ \A d \in index[i].listed : document[d] \in {"indexed", "failed"}
              /\ \A d \in Documents :
                    <<d, i>> \in chunks <=> d \in index[i].listed /\ document[d] = "indexed"
              /\ ingester[g].documents = Cardinality(DocumentsOf(i))
              /\ ingester[g].chunks = Cardinality(Own(i))
  <2>1. index[i].listed \ ingester[g].todo = index[i].listed
    BY <1>4
  <2> QED BY <1>1, <1>2, <1>3, <1>7, <1>20, <2>1 DEF Accounted, Counting
<1>21. index[i].listed \subseteq Documents /\ index[i].listed \subseteq Created
  BY <1>4, ListedTyped DEF IngestionsSound, ListedAreCreated
<1>22. LaterCarries'
  <2>1. ASSUME NEW k \in Kept', Finished(k)', index'[k].alone,
               NEW d \in index'[k].listed, document'[d] = "indexed"
        PROVE  (<<d, k>> \in chunks)' \/ \E j \in Kept' : j > k /\ Carries(j, d)'
    <3>1. k \in DOMAIN index' /\ k \in DOMAIN index
      BY <1>7, KeptDomain
    <3>2. CASE k = i
      BY <1>1, <1>8, <1>20, <1>21, <2>1, <3>2
    <3>3. CASE k # i
      <4>1. d \in Documents
        BY <2>1, <3>1, NextListedTyped
      <4>2. index'[k] = index[k] /\ document[d] = "indexed" /\ LaterCarries
        BY <1>1, <1>7, <2>1, <3>1, <3>3 DEF IngestionsSound
      <4> QED BY <1>11, <1>17, <2>1, <3>1, <4>1, <4>2, LaterKept
    <3> QED BY <3>2, <3>3
  <2> QED BY <2>1 DEF LaterCarries
<1>23. CountsAreTrue'
  <2>1. ASSUME NEW k \in Kept', Finished(k)', index'[k].alone
        PROVE  LET own == {c \in chunks' : c[2] = k} IN
               /\ index'[k].chunks = Cardinality(own)
               /\ index'[k].documents = Cardinality({c[1] : c \in own})
               /\ index'[k].status = "ready" => index'[k].listed = {c[1] : c \in own}
    <3>1. k \in DOMAIN index /\ index'[k].status # "gone"
      BY <1>7, KeptDomain
    <3>2. CASE k # i
      <4>1. index'[k] = index[k]
        BY <1>7, <3>1, <3>2
      <4>2. k \in Kept /\ Finished(k) /\ index[k].alone
        BY <2>1, <3>1, <4>1, KeptDomain DEF Finished
      <4> QED BY <1>1, <4>1, <4>2 DEF IngestionsSound, CountsAreTrue
    <3>3. CASE k = i
      <4>1. ingester[g].alone
        BY <1>8, <2>1, <3>3
      <4>2. ASSUME s = "ready" PROVE index[i].listed = {c[1] : c \in {e \in chunks : e[2] = i}}
        <5>1. \A d \in index[i].listed : document[d] = "indexed"
          <6>1. \A d \in InKB : document[d] # "failed"
            BY <1>9, <4>2 DEF SomeFailed
          <6>2. \A d \in index[i].listed : document[d] = "failed" => d \in InKB
            BY <1>21 DEF InKB
          <6> QED BY <1>20, <4>1, <6>1, <6>2
        <5>2. \A d \in index[i].listed : <<d, i>> \in chunks
          BY <1>20, <1>21, <4>1, <5>1
        <5>3. \A c \in chunks : c[2] = i => c[1] \in index[i].listed
          <6>1. \A c \in chunks : c = <<c[1], c[2]>> /\ c[1] \in Documents
            BY ChunkIsPair
          <6> QED BY <1>20, <4>1, <6>1
        <5>4. ASSUME NEW d \in index[i].listed
              PROVE  \E c \in {e \in chunks : e[2] = i} : d = c[1]
          <6>1. <<d, i>>[1] = d /\ <<d, i>>[2] = i
            OBVIOUS
          <6>2. <<d, i>> \in {e \in chunks : e[2] = i}
            BY <5>2, <6>1
          <6> QED BY <6>1, <6>2
        <5> QED BY <5>3, <5>4
      <4>3. /\ ingester[g].chunks = Cardinality({c \in chunks : c[2] = i})
            /\ ingester[g].documents = Cardinality({c[1] : c \in {e \in chunks : e[2] = i}})
        BY <1>20, <4>1 DEF Own, DocumentsOf
      <4> QED BY <1>1, <1>8, <3>3, <4>2, <4>3
    <3> QED BY <3>2, <3>3
  <2> QED BY <2>1 DEF CountsAreTrue
<1> QED BY <1>7, <1>13, <1>14, <1>15, <1>16, <1>18, <1>19, <1>22, <1>23,
           GoneWorksOnNothing, AllSound

\* From now on nobody is alone but the one that begins, and only if nobody else is there.
LEMMA ListSound ==
    ASSUME TypeOK, TypeOK', IngestionsSound, NEW g \in Ingesters, NEW force \in BOOLEAN,
           List(g, force)
    PROVE  IngestionsSound'
<1>1. /\ ~Ingesting(g) /\ ingester'[g] \in Ingestion
      /\ ingester'[g].pc = "listed" /\ ingester'[g].todo = Pending(force)
      /\ ingester'[g].doc = 0
      /\ ingester'[g].alone => \A h \in Ingesters : h # g => ~Ingesting(h)
      /\ \A h \in Ingesters : h # g =>
            /\ ~Ingesting(h) => ingester'[h] = ingester[h]
            /\ Ingesting(h) =>
                  /\ ingester'[h] \in Ingestion /\ ingester'[h].alone = FALSE
                  /\ ingester'[h].pc = ingester[h].pc
                  /\ ingester'[h].todo = ingester[h].todo
                  /\ ingester'[h].doc = ingester[h].doc
                  /\ ingester'[h].index = ingester[h].index
                  /\ ingester'[h].chunks = ingester[h].chunks
  BY ListEffect
<1>2. UNCHANGED <<document, chunks, index, orphaned>>
  BY DEF List, rows, ghosts
<1>3. /\ Grown /\ Created' = Created /\ NoneFinishes /\ NoneIndexed
      /\ \A i \in DOMAIN index' : i \notin DOMAIN index => index'[i].listed \subseteq Created
      /\ \A i \in DOMAIN index : index'[i].status = index[i].status
      /\ \A c \in chunks' : c \in chunks \/ index'[c[2]].status = "indexing"
  BY <1>2, StillGrows
<1>4. Ingesting(g)' /\ ~Past(g)'
  BY <1>1, NextIngestionTyped, PastNext
<1>5. ASSUME NEW h \in Ingesters, h # g
      PROVE  /\ Ingesting(h)' <=> Ingesting(h)
             /\ Past(h)' <=> Past(h)
             /\ Past(h) => ingester'[h].index = ingester[h].index
             /\ ingester'[h].pc = ingester[h].pc
             /\ Ingesting(h) => ~ingester'[h].alone
  BY <1>1, <1>5, NextIngestionTyped, PastNext DEF Ingesting
<1>6. ASSUME NEW h \in Ingesters, h # g PROVE WorksOn(h)' /\ Accounted(h)'
  <2>1. WorksOn(h)
    BY DEF IngestionsSound
  <2>2. CASE ~Ingesting(h)
    <3>1. ingester'[h] = ingester[h] /\ ~Past(h)'
      BY <1>1, <1>5, <1>6, <2>2, PastNext
    <3> QED BY <1>2, <1>3, <2>1, <3>1, WorksOnKept DEF Accounted
  <2>3. CASE Ingesting(h)
    <3>1. PICK r : r = ingester'[h]
      OBVIOUS
    <3>2. PICK s : s = ingester[h]
      OBVIOUS
    <3>3. /\ r.pc = s.pc /\ r.todo = s.todo /\ r.doc = s.doc /\ r.index = s.index
          /\ r.chunks = s.chunks
      BY <1>1, <1>6, <2>3, <3>1, <3>2
    <3>4. WorksOn(h)'
      BY <1>2, <1>3, <1>5, <1>6, <2>1, <2>3, <3>1, <3>2, <3>3 DEF WorksOn
    <3>5. Accounted(h)'
      BY <1>5, <1>6, <2>3 DEF Accounted
    <3> QED BY <3>4, <3>5
  <2> QED BY <2>2, <2>3
<1>7. WorksOn(g)' /\ Accounted(g)'
  <2>1. Pending(force) \subseteq Created'
    BY <1>3 DEF Pending, InKB, Created
  <2> QED BY <1>1, <1>4, <2>1 DEF WorksOn, Accounted, AtDocument, Counting
<1>8. InOrder' /\ ListedAreCreated' /\ CountsAreTrue'
  BY <1>2, <1>3, OrderKept, ListedKept, CountsKept DEF IngestionsSound
<1>9. NoneOpens
  BY <1>4, <1>5 DEF NoneOpens
<1>10. IndexesAreOwn' /\ LaterAreNewer'
  BY <1>3, <1>9, OwnKept, NewerKept DEF IngestionsSound
<1>11. AloneIsAlone'
  <2>1. ASSUME NEW e \in Ingesters, NEW h \in Ingesters, Ingesting(e)', ingester'[e].alone,
               Ingesting(h)', e # h
        PROVE  FALSE
    <3>1. e = g
      BY <1>5, <2>1
    <3> QED BY <1>1, <1>5, <2>1, <3>1
  <2> QED BY <2>1 DEF AloneIsAlone
<1>12. Carried
  <2>1. ASSUME NEW d \in Documents, NEW j \in Kept, Carries(j, d) PROVE Carries(j, d)'
    <3>1. index'[j].status # "pending"
      BY <1>3, <2>1, KeptDomain DEF Carries
    <3>2. ASSUME NEW h \in Ingesters, ingester'[h].pc = "counted", ingester'[h].index = j
          PROVE  ingester'[h].chunks > 0
      <4>1. h # g
        BY <1>1, <3>2
      <4>2. Ingesting(h)
        BY <1>5, <3>2, <4>1, IngestionTyped
      <4> QED BY <1>1, <1>5, <2>1, <3>2, <4>1, <4>2 DEF Carries, AtStep, IndexOf
    <3> QED BY <1>3, <2>1, <3>1, <3>2, CarriesKept
  <2> QED BY <2>1 DEF Carried
<1>13. IndexedIsCarried' /\ LaterCarries'
  BY <1>3, <1>12, IndexedKept, LaterAllKept DEF IngestionsSound
<1>14. InProgressIsHeld'
  <2>1. ASSUME NEW d \in Documents, document'[d] \in InProgress, d \notin orphaned'
        PROVE  \E h \in Ingesters : Ingesting(h)' /\ ingester'[h].doc = d
    <3>1. PICK h \in Ingesters : Ingesting(h) /\ Doc(h) = d
      BY <1>2, <2>1 DEF IngestionsSound, InProgressIsHeld
    <3> QED BY <1>1, <1>5, <3>1 DEF Doc
  <2> QED BY <2>1 DEF InProgressIsHeld, Doc, InProgress
<1> QED BY <1>6, <1>7, <1>8, <1>10, <1>11, <1>13, <1>14, AllSound

-----------------------------------------------------------------------------
\* A document comes in, the knowledge base goes

\* The number of a new document.
LEMMA NewDocument ==
    ASSUME TypeOK, InOrder, NEW q \in Requests, AddDocument(q)
    PROVE  \E d \in Documents :
              /\ d \notin Created /\ document[d] = "none" /\ document'[d] = "uploaded"
              /\ \A e \in Documents : e # d => document'[e] = document[e]
              /\ Created' = Created \cup {d} /\ InOrder'
              /\ crowded' = IF Others(q) = {} THEN crowded ELSE crowded \cup {d}
<1>1. PICK n \in 0 .. MaxDocuments : Created = 1 .. n
  BY DEF InOrder
<1>2. MaxDocuments \in Nat /\ n \in Nat
  BY KnowledgeAssumption, <1>1
<1>3. Cardinality(1 .. n) = n
  <2>1. Cardinality(1 .. n) = IF 1 > n THEN 0 ELSE n - 1 + 1
    BY <1>2, FS_Interval
  <2> QED BY <1>2, <2>1
<1>4. Cardinality({e \in Documents : document[e] # "none"}) = n
  BY <1>1, <1>3 DEF Created
<1>5. PICK d : d = n + 1
  OBVIOUS
<1>6. d \in Documents /\ document' = [document EXCEPT ![d] = "uploaded"]
  BY <1>4, <1>5 DEF AddDocument
<1>7. crowded' = IF Others(q) = {} THEN crowded ELSE crowded \cup {d}
  BY <1>4, <1>5 DEF AddDocument
<1>8. DOMAIN document = Documents
  BY DEF TypeOK
<1>9. document'[d] = "uploaded" /\ \A e \in Documents : e # d => document'[e] = document[e]
  BY <1>6, <1>8
<1>10. d \notin Created
  BY <1>1, <1>2, <1>5
<1>11. document[d] = "none"
  BY <1>6, <1>10 DEF Created
<1>12. Created' = Created \cup {d}
  <2>1. \A e \in Documents : document'[e] # "none" <=> (document[e] # "none" \/ e = d)
    BY <1>9
  <2> QED BY <1>6, <2>1 DEF Created
<1>13. Created' = 1 .. n + 1
  BY <1>1, <1>2, <1>5, <1>12
<1>14. n + 1 \in 0 .. MaxDocuments
  BY <1>2, <1>5, <1>6 DEF Documents
<1>15. InOrder'
  BY <1>13, <1>14 DEF InOrder
<1> QED BY <1>6, <1>7, <1>9, <1>10, <1>11, <1>12, <1>15

\* No ingestion and no index version knows of the new document.
LEMMA AddDocumentSound ==
    ASSUME TypeOK, TypeOK', IngestionsSound, NEW q \in Requests, AddDocument(q)
    PROVE  IngestionsSound'
<1>1. PICK d \in Documents :
         /\ d \notin Created /\ document[d] = "none" /\ document'[d] = "uploaded"
         /\ \A e \in Documents : e # d => document'[e] = document[e]
         /\ Created' = Created \cup {d} /\ InOrder'
  BY NewDocument DEF IngestionsSound
<1>2. UNCHANGED <<chunks, index, ingester, orphaned>>
  BY DEF AddDocument
<1>3. NoneIndexed /\ NoneFinishes
  BY <1>1, <1>2 DEF NoneIndexed, NoneFinishes, Finished
<1>4. Grown
  BY <1>1, <1>2 DEF Grown
<1>5. /\ \A i \in DOMAIN index : index'[i].status = index[i].status
      /\ \A i \in DOMAIN index' : i \notin DOMAIN index => index'[i].listed \subseteq Created
      /\ \A c \in chunks' : c \in chunks \/ index'[c[2]].status = "indexing"
  BY <1>2
<1>6. \A h \in Ingesters : /\ Ingesting(h)' <=> Ingesting(h)
                           /\ Past(h)' <=> Past(h)
                           /\ ingester'[h] = ingester[h]
  BY <1>2 DEF Past, Ingesting, AtStep
<1>7. NoneJoins /\ NoneOpens
  BY <1>6 DEF NoneJoins, NoneOpens
<1>8. IndexesAreOwn' /\ AloneIsAlone' /\ LaterAreNewer'
  BY <1>3, <1>7, OwnKept, AloneKept, NewerKept DEF IngestionsSound
<1>9. ListedAreCreated' /\ CountsAreTrue'
  BY <1>3, <1>4, <1>5, ListedKept, CountsKept DEF IngestionsSound
<1>10. Carried
  <2>1. ASSUME NEW e \in Documents, NEW j \in Kept, Carries(j, e) PROVE Carries(j, e)'
    BY <1>2, <1>4, <2>1, CarriesKept DEF Carries, AtStep, IndexOf
  <2> QED BY <2>1 DEF Carried
<1>11. IndexedIsCarried' /\ LaterCarries'
  BY <1>3, <1>4, <1>10, IndexedKept, LaterAllKept DEF IngestionsSound
<1>12. InProgressIsHeld'
  <2>1. ASSUME NEW e \in Documents, document'[e] \in InProgress PROVE document[e] \in InProgress
    BY <1>1, <2>1 DEF InProgress
  <2>2. ASSUME NEW e \in Documents, document'[e] \in InProgress, e \notin orphaned'
        PROVE  \E h \in Ingesters : Ingesting(h)' /\ ingester'[h].doc = e
    BY <1>2, <1>6, <2>1, <2>2 DEF IngestionsSound, InProgressIsHeld, Doc
  <2> QED BY <2>2 DEF InProgressIsHeld, Doc, InProgress
<1>13. ASSUME NEW h \in Ingesters PROVE WorksOn(h)'
  BY <1>2, <1>4, <1>6, WorksOnKept DEF IngestionsSound
<1>14. ASSUME NEW h \in Ingesters PROVE Accounted(h)'
  <2>1. PICK r : r = ingester[h]
    OBVIOUS
  <2>2. WorksOn(h) /\ Accounted(h) /\ ListedAreCreated
    BY DEF IngestionsSound
  <2>3. ASSUME Past(h), r.alone, index[r.index].status # "gone"
        PROVE  /\ \A e \in index[r.index].listed \ r.todo : document'[e] \in {"indexed", "failed"}
               /\ \A e \in Documents : <<e, r.index>> \in chunks <=>
                     \/ e \in index[r.index].listed \ r.todo /\ document'[e] = "indexed"
                     \/ r.pc = "replaced" /\ e = r.doc
    <3>1. index[r.index].listed \subseteq Created
      BY <2>1, <2>2, <2>3, AtWork DEF ListedAreCreated
    <3>2. \A e \in index[r.index].listed : document'[e] = document[e]
      BY <1>1, <3>1 DEF Created
    <3>3. /\ \A e \in index[r.index].listed \ r.todo : document[e] \in {"indexed", "failed"}
          /\ \A e \in Documents : <<e, r.index>> \in chunks <=>
                \/ e \in index[r.index].listed \ r.todo /\ document[e] = "indexed"
                \/ r.pc = "replaced" /\ e = r.doc
      BY <2>1, <2>2, <2>3 DEF Accounted
    <3> QED BY <3>2, <3>3
  <2>4. ASSUME Past(h), r.alone, index[r.index].status # "gone"
        PROVE  /\ r.pc \in Counting => r.documents = Cardinality(DocumentsOf(r.index))
               /\ r.pc = "counted" => r.chunks = Cardinality(Own(r.index))
    BY <2>1, <2>2, <2>4 DEF Accounted
  <2> QED BY <1>2, <1>6, <2>1, <2>3, <2>4 DEF Accounted, Own, DocumentsOf
<1> QED BY <1>1, <1>8, <1>9, <1>11, <1>12, <1>13, <1>14 DEF IngestionsSound

\* Whatever an ingestion was at is gone.
LEMMA CommitDeleteSound ==
    ASSUME TypeOK, TypeOK', IngestionsSound, NEW q \in Requests, CommitDelete(q)
    PROVE  IngestionsSound'
<1>1. /\ document' = [d \in Documents |-> IF d \in InKB THEN "gone" ELSE document[d]]
      /\ chunks' = {} /\ ingester' = ingester /\ orphaned' = orphaned
      /\ index' = [i \in DOMAIN index |-> [index[i] EXCEPT !.status = "gone"]]
  BY DEF CommitDelete
<1>2. \A d \in Documents : /\ document'[d] \in {"none", "gone"}
                           /\ document'[d] = "none" <=> document[d] = "none"
  BY <1>1 DEF InKB
<1>3. Created' = Created
  BY <1>2 DEF Created
<1>4. ASSUME NEW i \in DOMAIN index
      PROVE  index'[i].status = "gone" /\ index'[i].listed = index[i].listed
  <2>1. PICK x \in Index : x = index[i]
    BY ListedTyped
  <2>2. index'[i] = [x EXCEPT !.status = "gone"]
    BY <1>1, <2>1
  <2>3. /\ [x EXCEPT !.status = "gone"].status = "gone"
        /\ [x EXCEPT !.status = "gone"].listed = x.listed
    BY DEF Index
  <2> QED BY <2>1, <2>2, <2>3
<1>5. DOMAIN index' = DOMAIN index
  BY <1>1
<1>6. Kept' = {}
  BY <1>4, <1>5, KeptDomain
<1>7. \A h \in Ingesters : /\ Ingesting(h)' <=> Ingesting(h)
                           /\ Past(h)' <=> Past(h)
  BY <1>1 DEF Past, Ingesting, AtStep
<1>8. ASSUME NEW h \in Ingesters PROVE WorksOn(h)'
  <2>1. PICK r : r = ingester[h]
    OBVIOUS
  <2>2. WorksOn(h)
    BY DEF IngestionsSound
  <2>3. Ingesting(h) =>
            /\ r.todo \subseteq Created'
            /\ IF r.pc \in AtDocument THEN r.doc \in r.todo ELSE r.doc = 0
            /\ r.pc \in Counting => r.todo = {}
    BY <1>3, <2>1, <2>2 DEF WorksOn
  <2>4. Past(h) =>
            /\ r.index \in DOMAIN index' /\ index'[r.index].status = "gone"
            /\ r.todo \subseteq index'[r.index].listed
            /\ Ingesting(h)
    BY <1>4, <1>5, <2>1, <2>2, PastNext DEF WorksOn
  <2>5. Ingesting(h) => \A d \in r.todo : d \in Documents /\ document'[d] = "gone"
    BY <1>2, <2>1, <2>2 DEF WorksOn, Created
  <2>6. r.pc \in {"replaced", "counted"} => Past(h)
    BY <2>1, IngestionTyped, PastNext
  <2>7. r.pc = "replaced" => document'[r.doc] = "gone"
    BY <2>3, <2>4, <2>5, <2>6 DEF AtDocument
  <2>8. r.pc = "counted" => index'[r.index].status = "gone"
    BY <2>4, <2>6
  <2> QED BY <1>1, <1>7, <2>1, <2>3, <2>4, <2>5, <2>7, <2>8 DEF WorksOn
<1>9. ASSUME NEW h \in Ingesters PROVE Accounted(h)'
  <2>1. Past(h) => ingester[h].index \in DOMAIN index
    BY DEF IngestionsSound, WorksOn
  <2> QED BY <1>1, <1>4, <1>7, <2>1 DEF Accounted
<1>10. InOrder' /\ ListedAreCreated'
  BY <1>3, <1>4, <1>5 DEF IngestionsSound, InOrder, ListedAreCreated
<1>11. IndexesAreOwn' /\ AloneIsAlone'
  BY <1>1, <1>7 DEF IngestionsSound, IndexesAreOwn, AloneIsAlone, IndexOf
<1>12. LaterAreNewer'
  BY <1>4, <1>5 DEF LaterAreNewer, Finished
<1>13. IndexedIsCarried' /\ LaterCarries' /\ CountsAreTrue'
  BY <1>2, <1>6 DEF IndexedIsCarried, LaterCarries, CountsAreTrue
<1>14. InProgressIsHeld'
  BY <1>2 DEF InProgressIsHeld, InProgress
<1> QED BY <1>8, <1>9, <1>10, <1>11, <1>12, <1>13, <1>14 DEF IngestionsSound

\* Every step keeps what the ingestions rest on.
LEMMA StepsSound ==
    ASSUME TypeOK, TypeOK', IngestionsSound, [Next]_vars
    PROVE  IngestionsSound'
<1>1. CASE UNCHANGED vars
  BY <1>1, AsideSound DEF vars
<1>2. ASSUME NEW q \in Requests, Request(q) PROVE IngestionsSound'
  <2>1. CASE AddDocument(q)
    BY <2>1, AddDocumentSound
  <2>2. CASE CommitDelete(q)
    BY <2>2, CommitDeleteSound
  <2>3. CASE ~AddDocument(q) /\ ~CommitDelete(q)
    <3>1. UNCHANGED <<document, chunks, index, ingester, orphaned>>
      BY <1>2, <2>3 DEF Request, CheckCreate, SaveCreated, CheckUpload, AddVersion, ReadPublish,
         ReadUpdate, ReadEvaluate, CommitUpdate, CommitPublish, CommitEvaluate, ReadAssign,
         CommitAssign, ReadDelete, Refuse, rows, ghosts
    <3> QED BY <3>1, AsideSound
  <2> QED BY <2>1, <2>2, <2>3
<1>3. ASSUME \/ \E m \in Modes \cup {"unset"} : CreateKB(m)
             \/ \E l \in Labels, m \in Modes, p \in BOOLEAN : CreateVersion(l, m, p)
             \/ \E a \in Agents : Unassign(a)
      PROVE  IngestionsSound'
  <2>1. UNCHANGED <<document, chunks, index, ingester, orphaned>>
    BY <1>3 DEF CreateKB, CreateVersion, Unassign, ghosts
  <2> QED BY <2>1, AsideSound
<1>4. ASSUME NEW g \in Ingesters, NEW force \in BOOLEAN, List(g, force) PROVE IngestionsSound'
  BY <1>4, ListSound
<1>5. ASSUME NEW g \in Ingesters, Ingest(g) \/ Crash(g) \/ Restart(g) PROVE IngestionsSound'
  BY <1>5, NothingPendingSound, CreateIndexSound, ParseSound, EmbedSound, IndexFailsSound,
     ReplaceChunksSound, MarkIndexedSound, CountDocumentsSound, CountChunksSound, FinishSound,
     LeaveSound DEF Ingest
<1> QED BY <1>1, <1>2, <1>3, <1>4, <1>5 DEF Next

-----------------------------------------------------------------------------
\* Type correctness

\* Requests by what they are at.
LEMMA RequestTyped ==
    ASSUME TypeOK, NEW q \in Requests
    PROVE  /\ request[q] \in RequestState \cup {Idle}
           /\ At(q, "insert") => /\ request[q] \in [pc: {"insert"}, left: 1 .. DocumentLimit,
                                        kind: {"upload", "create"}, mode: Modes]
                                 /\ request[q].left \in 1 .. DocumentLimit
                                 /\ request[q].mode \in Modes
           /\ At(q, "save") => request[q].left \in 1 .. DocumentLimit /\ request[q].mode \in Modes
           /\ At(q, "version") => request[q].mode \in Modes
           /\ At(q, "publish") => request[q].seen \in Config /\ request[q].label \in Labels
           /\ At(q, "evaluate") =>
                 request[q].seen \in Config /\ request[q].verdict \in {"passed", "failed"}
           /\ At(q, "update") => request[q].seen \in Config /\ request[q].new \in Config
           /\ At(q, "assign") => request[q].agent \in Agents
<1>1. PICK r : r = request[q]
  OBVIOUS
<1>2. r \in RequestState \cup {Idle}
  BY <1>1 DEF TypeOK
<1>3. Idle.pc = "idle"
  BY DEF Idle
<1>4. r.pc = "insert" => r \in [pc: {"insert"}, left: 1 .. DocumentLimit,
                                kind: {"upload", "create"}, mode: Modes]
  BY <1>2, <1>3 DEF RequestState
<1>5. r.pc = "save" => r \in [pc: {"save"}, left: 1 .. DocumentLimit, mode: Modes]
  BY <1>2, <1>3 DEF RequestState
<1>6. r.pc = "version" => r \in [pc: {"version"}, mode: Modes]
  BY <1>2, <1>3 DEF RequestState
<1>7. r.pc = "publish" => r \in [pc: {"publish"}, seen: Config, label: Labels]
  BY <1>2, <1>3 DEF RequestState
<1>8. r.pc = "evaluate" => r \in [pc: {"evaluate"}, seen: Config, verdict: {"passed", "failed"}]
  BY <1>2, <1>3 DEF RequestState
<1>9. r.pc = "update" => r \in [pc: {"update"}, seen: Config, new: Config]
  BY <1>2, <1>3 DEF RequestState
<1>10. r.pc = "assign" => r \in [pc: {"assign"}, agent: Agents]
  BY <1>2, <1>3 DEF RequestState
<1> QED BY <1>1, <1>2, <1>4, <1>5, <1>6, <1>7, <1>8, <1>9, <1>10 DEF At

LEMMA BecomeTyped ==
    ASSUME TypeOK, NEW q \in Requests, NEW state, Become(q, state)
    PROVE  /\ state \in RequestState \cup {Idle} =>
                 request' \in [Requests -> RequestState \cup {Idle}]
           /\ request'[q] = state
           /\ \A p \in Requests : p # q => request'[p] = request[p]
<1>1. request \in [Requests -> RequestState \cup {Idle}]
  BY DEF TypeOK
<1> QED BY <1>1 DEF Become

LEMMA CountTyped ==
    ASSUME TypeOK, Count PROVE operations' \in Nat
  BY KnowledgeAssumption DEF TypeOK, Count

LEMMA ConfigTyped ==
    ASSUME NEW m \in Modes \cup {"unset"}
    PROVE  NewConfig(m) \in Config /\ FirstVersion(m) \in Version
  BY DEF NewConfig, Config, FirstVersion, Version, Modes

LEMMA NewKBTyped ==
    NewKB \in KB
  BY DEF NewKB, KB, Statuses

\* A request that reads and remembers.
LEMMA BeginTyped ==
    ASSUME TypeOK, NEW q \in Requests, NEW state \in RequestState, Begin(q, state),
           UNCHANGED <<rows, ingester, crashes, ghosts>>
    PROVE  TypeOK'
<1>1. request' \in [Requests -> RequestState \cup {Idle}]
  BY BecomeTyped DEF Begin
<1>2. operations' \in Nat
  BY CountTyped DEF Begin
<1> QED BY <1>1, <1>2 DEF TypeOK, rows, ghosts

LEMMA BeginsTyped ==
    ASSUME TypeOK, NEW q \in Requests,
           \/ \E m \in Modes, n \in 1 .. DocumentLimit : CheckCreate(q, m, n)
           \/ CheckUpload(q)
           \/ \E l \in Labels : ReadPublish(q, l)
           \/ \E m \in Modes : ReadUpdate(q, NewConfig(m)) \/ ReadEvaluate(q, m)
           \/ \E a \in Agents : ReadAssign(q, a)
           \/ ReadDelete(q)
    PROVE  TypeOK'
<1>1. config \in Config
  BY DEF TypeOK
<1>2. ASSUME NEW m \in Modes, NEW n \in 1 .. DocumentLimit, CheckCreate(q, m, n) PROVE TypeOK'
  <2>1. [pc |-> "save", left |-> n, mode |-> m] \in RequestState
    BY DEF RequestState
  <2> QED BY <1>2, <2>1, BeginTyped DEF CheckCreate
<1>3. CASE CheckUpload(q)
  <2>1. 1 \in 1 .. DocumentLimit
    BY KnowledgeAssumption
  <2>2. [pc |-> "insert", left |-> 1, kind |-> "upload", mode |-> "file"] \in RequestState
    BY <2>1 DEF RequestState, Modes
  <2> QED BY <1>3, <2>2, BeginTyped DEF CheckUpload
<1>4. ASSUME NEW l \in Labels, ReadPublish(q, l) PROVE TypeOK'
  <2>1. [pc |-> "publish", seen |-> config, label |-> l] \in RequestState
    BY <1>1 DEF RequestState
  <2> QED BY <1>4, <2>1, BeginTyped DEF ReadPublish
<1>5. ASSUME NEW m \in Modes, ReadUpdate(q, NewConfig(m)) PROVE TypeOK'
  <2>1. [pc |-> "update", seen |-> config, new |-> NewConfig(m)] \in RequestState
    BY <1>1, ConfigTyped DEF RequestState
  <2> QED BY <1>5, <2>1, BeginTyped DEF ReadUpdate
<1>6. ASSUME NEW m \in Modes, ReadEvaluate(q, m) PROVE TypeOK'
  <2>1. Verdict(m) \in {"passed", "failed"}
    BY DEF Verdict
  <2>2. [pc |-> "evaluate", seen |-> config, verdict |-> Verdict(m)] \in RequestState
    BY <1>1, <2>1 DEF RequestState
  <2> QED BY <1>6, <2>2, BeginTyped DEF ReadEvaluate
<1>7. ASSUME NEW a \in Agents, ReadAssign(q, a) PROVE TypeOK'
  <2>1. [pc |-> "assign", agent |-> a] \in RequestState
    BY DEF RequestState
  <2> QED BY <1>7, <2>1, BeginTyped DEF ReadAssign
<1>8. CASE ReadDelete(q)
  <2>1. Rows \in [documents: SUBSET Documents, indexes: Nat, labels: SUBSET Labels]
    <3>1. Len(index) \in Nat
      BY DEF TypeOK
    <3>2. InKB \in SUBSET Documents /\ {l \in Labels : version[l] # NoVersion} \in SUBSET Labels
      BY DEF InKB
    <3> QED BY <3>1, <3>2 DEF Rows
  <2>2. [pc |-> "delete", seen |-> Rows] \in RequestState
    BY <2>1 DEF RequestState
  <2> QED BY <1>8, <2>2, BeginTyped DEF ReadDelete
<1> QED BY <1>2, <1>3, <1>4, <1>5, <1>6, <1>7, <1>8

LEMMA SaveCreatedTyped ==
    ASSUME TypeOK, NEW q \in Requests, SaveCreated(q)
    PROVE  TypeOK'
<1>1. request[q].left \in 1 .. DocumentLimit /\ request[q].mode \in Modes
  BY RequestTyped DEF SaveCreated
<1>2. [pc |-> "insert", left |-> request[q].left, kind |-> "create", mode |-> request[q].mode]
        \in RequestState
  BY <1>1 DEF RequestState
<1>3. request' \in [Requests -> RequestState \cup {Idle}]
  BY <1>2, BecomeTyped DEF SaveCreated
<1>4. config' \in Config
  BY <1>1, ConfigTyped DEF SaveCreated
<1>5. kb' \in KB \cup {NoKB}
  BY NewKBTyped DEF SaveCreated, TypeOK
<1> QED BY <1>3, <1>4, <1>5 DEF SaveCreated, TypeOK

\* What an upload does with its request.
LEMMA AddDocumentRequest ==
    ASSUME TypeOK, NEW q \in Requests, AddDocument(q)
    PROVE  /\ request' \in [Requests -> RequestState \cup {Idle}]
           /\ \A p \in Requests : p # q => request'[p] = request[p]
           /\ request'[q].pc \in {"save", "insert"} =>
                 request'[q].left = request[q].left - 1
<1>1. PICK r \in [pc: {"insert"}, left: 1 .. DocumentLimit, kind: {"upload", "create"},
                  mode: Modes] : r = request[q]
  BY RequestTyped DEF AddDocument
<1>2. PICK s : s = IF r.left > 1 THEN [r EXCEPT !.left = @ - 1]
                   ELSE IF r.kind = "create" THEN [pc |-> "version", mode |-> r.mode] ELSE Idle
  OBVIOUS
<1>3. Become(q, s)
  BY <1>1, <1>2 DEF AddDocument
<1>4. DocumentLimit \in Nat /\ r.left \in 1 .. DocumentLimit
  BY <1>1, KnowledgeAssumption
<1>5. s \in RequestState \cup {Idle} /\ (s.pc \in {"save", "insert"} => s.left = r.left - 1)
  <2>1. CASE r.left > 1
    <3>1. PICK n \in 1 .. DocumentLimit : n = r.left - 1
      BY <1>4, <2>1
    <3>2. s = [r EXCEPT !.left = n]
      BY <1>2, <2>1, <3>1
    <3>3. [r EXCEPT !.left = n] \in [pc: {"insert"}, left: 1 .. DocumentLimit,
                                     kind: {"upload", "create"}, mode: Modes]
      OBVIOUS
    <3>4. [r EXCEPT !.left = n].left = n
      OBVIOUS
    <3> QED BY <3>1, <3>2, <3>3, <3>4 DEF RequestState
  <2>2. CASE ~(r.left > 1) /\ r.kind = "create"
    <3>1. s = [pc |-> "version", mode |-> r.mode] /\ r.mode \in Modes
      BY <1>2, <2>2
    <3> QED BY <3>1 DEF RequestState
  <2>3. CASE ~(r.left > 1) /\ r.kind # "create"
    <3>1. s = Idle
      BY <1>2, <2>3
    <3> QED BY <3>1 DEF Idle
  <2> QED BY <2>1, <2>2, <2>3
<1> QED BY <1>1, <1>3, <1>5, BecomeTyped

LEMMA AddDocumentTyped ==
    ASSUME TypeOK, InOrder, NEW q \in Requests, AddDocument(q)
    PROVE  TypeOK'
<1>1. request' \in [Requests -> RequestState \cup {Idle}]
  BY AddDocumentRequest
<1>2. PICK d \in Documents :
         /\ document'[d] = "uploaded"
         /\ \A e \in Documents : e # d => document'[e] = document[e]
         /\ crowded' = IF Others(q) = {} THEN crowded ELSE crowded \cup {d}
  BY NewDocument
<1>3. crowded' \subseteq Documents
  BY <1>2 DEF TypeOK
<1>4. PICK e : document' = [document EXCEPT ![e] = "uploaded"]
  BY DEF AddDocument
<1>5. document' \in [Documents ->
                       InProgress \cup {"none", "uploaded", "indexed", "failed", "gone"}]
  BY <1>4 DEF TypeOK
<1> QED BY <1>1, <1>3, <1>5 DEF AddDocument, TypeOK

LEMMA AddVersionTyped ==
    ASSUME TypeOK, NEW q \in Requests, NEW l \in Labels, AddVersion(q, l)
    PROVE  TypeOK'
<1>1. request' \in [Requests -> RequestState \cup {Idle}]
  BY BecomeTyped DEF AddVersion
<1>2. [mode |-> request[q].mode, published |-> FALSE] \in Version
  BY RequestTyped DEF AddVersion, Version
<1>3. version' \in [Labels -> Version \cup {NoVersion}]
  BY <1>2 DEF AddVersion, TypeOK
<1> QED BY <1>1, <1>3 DEF AddVersion, TypeOK, ghosts

LEMMA CommitUpdateTyped ==
    ASSUME TypeOK, NEW q \in Requests, CommitUpdate(q)
    PROVE  TypeOK'
<1>1. request' \in [Requests -> RequestState \cup {Idle}]
  BY BecomeTyped DEF CommitUpdate
<1>2. config' \in Config /\ told' \in Labels \cup {"none"}
  BY RequestTyped DEF CommitUpdate, TypeOK
<1> QED BY <1>1, <1>2 DEF CommitUpdate, TypeOK

\* Publishing names a version that is there.
LEMMA CommitPublishEffect ==
    ASSUME TypeOK, NEW q \in Requests, CommitPublish(q)
    PROVE  LET r == request[q] IN
           /\ r.label \in Labels /\ r.seen \in Config
           /\ version[r.label] \in Version /\ version[r.label].mode \in Modes
           /\ [r.seen EXCEPT !.mode = version[r.label].mode, !.published = r.label] \in Config
           /\ kb \in KB /\ kb' \in KB
           /\ kb'.status = IF version[r.label].mode = "file" THEN "ready" ELSE kb.status
           /\ version'[r.label] = [mode |-> version[r.label].mode, published |-> TRUE]
           /\ version'[r.label] \in Version
           /\ \A l \in Labels : l # r.label => version'[l] = version[l]
<1>1. PICK l \in Labels, c \in Config : l = request[q].label /\ c = request[q].seen
  BY RequestTyped DEF CommitPublish
<1>2. PICK v : v = version[l]
  OBVIOUS
<1>3. v \in Version /\ DOMAIN version = Labels
  BY <1>1, <1>2 DEF CommitPublish, TypeOK
<1>4. v.mode \in Modes
  BY <1>3 DEF Version
<1>5. [c EXCEPT !.mode = v.mode, !.published = l] \in Config
  BY <1>4 DEF Config
<1>6. kb \in KB
  BY DEF CommitPublish, Present, TypeOK
<1>7. PICK s : s = IF v.mode = "file" THEN "ready" ELSE kb.status
  OBVIOUS
<1>8. s \in Statuses
  BY <1>6, <1>7 DEF KB, Statuses
<1>9. kb' = [kb EXCEPT !.status = s]
  BY <1>1, <1>2, <1>7 DEF CommitPublish
<1>10. kb' \in KB /\ kb'.status = s
  BY <1>6, <1>8, <1>9 DEF KB
<1>11. version' = [version EXCEPT ![l].published = TRUE]
  BY <1>1 DEF CommitPublish
<1>12. version'[l] = [v EXCEPT !.published = TRUE]
       /\ \A k \in Labels : k # l => version'[k] = version[k]
  BY <1>2, <1>3, <1>11
<1>13. [v EXCEPT !.published = TRUE] \in Version
  BY <1>3 DEF Version
<1>14. [v EXCEPT !.published = TRUE] = [mode |-> v.mode, published |-> TRUE]
  <2>1. v \in [mode: Modes, published: BOOLEAN]
    BY <1>3 DEF Version
  <2>2. /\ [v EXCEPT !.published = TRUE].mode = v.mode
        /\ [v EXCEPT !.published = TRUE].published = TRUE
    BY <2>1
  <2>3. \A x \in [mode: Modes, published: BOOLEAN] :
           x = [mode |-> x.mode, published |-> x.published]
    OBVIOUS
  <2> QED BY <1>13, <2>2, <2>3 DEF Version
<1> QED BY <1>1, <1>2, <1>3, <1>4, <1>5, <1>6, <1>7, <1>10, <1>12, <1>13, <1>14

LEMMA CommitPublishTyped ==
    ASSUME TypeOK, NEW q \in Requests, CommitPublish(q)
    PROVE  TypeOK'
<1>1. request' \in [Requests -> RequestState \cup {Idle}]
  BY BecomeTyped DEF CommitPublish
<1>2. PICK l \in Labels : l = request[q].label
  BY RequestTyped DEF CommitPublish
<1>3. kb' \in KB
  BY CommitPublishEffect
<1>4. config' \in Config
  <2>1. [request[q].seen EXCEPT !.mode = version[request[q].label].mode,
                                !.published = request[q].label] \in Config
    BY CommitPublishEffect
  <2> QED BY <2>1 DEF CommitPublish, TypeOK
<1>5. told' \in Labels \cup {"none"}
  BY <1>2 DEF CommitPublish
<1>6. version' \in [Labels -> Version \cup {NoVersion}]
  <2>1. version'[l] \in Version /\ \A k \in Labels : k # l => version'[k] = version[k]
    BY <1>2, CommitPublishEffect
  <2>2. version' = [version EXCEPT ![l].published = TRUE]
    BY <1>2 DEF CommitPublish
  <2>3. DOMAIN version' = Labels /\ version' = [k \in Labels |-> version'[k]]
    BY <2>2 DEF TypeOK
  <2>4. \A k \in Labels : version'[k] \in Version \cup {NoVersion}
    BY <2>1 DEF TypeOK
  <2> QED BY <2>3, <2>4
<1> QED BY <1>1, <1>3, <1>4, <1>5, <1>6 DEF CommitPublish, TypeOK

LEMMA CommitEvaluateTyped ==
    ASSUME TypeOK, NEW q \in Requests, CommitEvaluate(q)
    PROVE  TypeOK'
<1>1. request' \in [Requests -> RequestState \cup {Idle}]
  BY BecomeTyped DEF CommitEvaluate
<1>2. PICK c \in Config, v \in {"passed", "failed"} :
         c = request[q].seen /\ v = request[q].verdict
  BY RequestTyped DEF CommitEvaluate
<1>3. [c EXCEPT !.evaluation = v] \in Config
  BY DEF Config
<1>4. config' \in Config
  BY <1>2, <1>3 DEF CommitEvaluate, Evaluated
<1>5. told' \in Labels \cup {"none"}
  BY DEF CommitEvaluate, TypeOK
<1> QED BY <1>1, <1>4, <1>5 DEF CommitEvaluate, TypeOK

LEMMA CommitAssignTyped ==
    ASSUME TypeOK, NEW q \in Requests, CommitAssign(q)
    PROVE  TypeOK'
<1>1. request' \in [Requests -> RequestState \cup {Idle}]
  BY BecomeTyped DEF CommitAssign
<1>2. assigned' \subseteq Agents
  BY RequestTyped DEF CommitAssign, TypeOK
<1> QED BY <1>1, <1>2 DEF CommitAssign, TypeOK, ghosts

LEMMA RefuseTyped ==
    ASSUME TypeOK, NEW q \in Requests, Refuse(q)
    PROVE  TypeOK'
<1>1. request' \in [Requests -> RequestState \cup {Idle}]
  BY BecomeTyped DEF Refuse
<1> QED BY <1>1 DEF Refuse, TypeOK, rows, ghosts

LEMMA CommitDeleteTyped ==
    ASSUME TypeOK, NEW q \in Requests, CommitDelete(q)
    PROVE  TypeOK'
<1>1. request' \in [Requests -> RequestState \cup {Idle}]
  BY BecomeTyped DEF CommitDelete
<1>2. config' \in Config
  BY ConfigTyped DEF CommitDelete
<1>3. version' \in [Labels -> Version \cup {NoVersion}]
  BY DEF CommitDelete
<1>4. document' \in [Documents ->
                       InProgress \cup {"none", "uploaded", "indexed", "failed", "gone"}]
  BY DEF CommitDelete, TypeOK
<1>5. index \in Seq(Index) /\ index' = [i \in DOMAIN index |-> [index[i] EXCEPT !.status = "gone"]]
  BY DEF CommitDelete, TypeOK
<1>6. ASSUME NEW i \in DOMAIN index PROVE [index[i] EXCEPT !.status = "gone"] \in Index
  <2>1. index[i] \in Index
    BY <1>5
  <2> QED BY <2>1 DEF Index
<1>7. index' \in Seq(Index)
  <2>1. DOMAIN index = 1 .. Len(index) /\ Len(index) \in Nat
    BY <1>5
  <2>2. index' \in [1 .. Len(index) -> Index]
    BY <1>5, <1>6, <2>1
  <2> QED BY <2>1, <2>2
<1>8. chunks' \subseteq Documents \X (1 .. Len(index'))
  BY DEF CommitDelete
<1> QED BY <1>1, <1>2, <1>3, <1>4, <1>7, <1>8 DEF CommitDelete, TypeOK

LEMMA OutsideTyped ==
    ASSUME TypeOK,
           \/ \E m \in Modes \cup {"unset"} : CreateKB(m)
           \/ \E l \in Labels, m \in Modes, p \in BOOLEAN : CreateVersion(l, m, p)
           \/ \E a \in Agents : Unassign(a)
    PROVE  TypeOK'
<1>1. ASSUME NEW m \in Modes \cup {"unset"}, CreateKB(m) PROVE TypeOK'
  <2>1. operations' \in Nat
    BY <1>1, CountTyped DEF CreateKB
  <2>2. version' \in [Labels -> Version \cup {NoVersion}]
    BY <1>1, ConfigTyped DEF CreateKB, TypeOK
  <2> QED BY <1>1, <2>1, <2>2, ConfigTyped, NewKBTyped DEF CreateKB, TypeOK
<1>2. ASSUME NEW l \in Labels, NEW m \in Modes, NEW p \in BOOLEAN, CreateVersion(l, m, p)
      PROVE  TypeOK'
  <2>1. operations' \in Nat
    BY <1>2, CountTyped DEF CreateVersion
  <2>2. [mode |-> m, published |-> p] \in Version
    BY DEF Version
  <2>3. version' \in [Labels -> Version \cup {NoVersion}]
    BY <1>2, <2>2 DEF CreateVersion, TypeOK
  <2> QED BY <1>2, <2>1, <2>3 DEF CreateVersion, TypeOK, ghosts
<1>3. ASSUME NEW a \in Agents, Unassign(a) PROVE TypeOK'
  <2>1. operations' \in Nat
    BY <1>3, CountTyped DEF Unassign
  <2> QED BY <1>3, <2>1 DEF Unassign, TypeOK, ghosts
<1> QED BY <1>1, <1>2, <1>3

\* An ingestion's step.
LEMMA IngesterKept ==
    ASSUME TypeOK, NEW g \in Ingesters, NEW state, Step(g, state),
           ingester'[g] \in Ingestion \cup {Idle, Down}
    PROVE  ingester' \in [Ingesters -> Ingestion \cup {Idle, Down}]
<1>1. ingester \in [Ingesters -> Ingestion \cup {Idle, Down}]
  BY DEF TypeOK
<1>2. state \in Ingestion \cup {Idle, Down}
  BY StepEffect
<1> QED BY <1>1, <1>2 DEF Step

LEMMA MarkTyped ==
    ASSUME TypeOK, NEW d, NEW status \in InProgress \cup {"indexed", "failed"}, Mark(d, status)
    PROVE  document' \in [Documents ->
                            InProgress \cup {"none", "uploaded", "indexed", "failed", "gone"}]
  BY DEF Mark, TypeOK

LEMMA NewIndexTyped ==
    ASSUME NEW status \in {"pending", "indexing"}, NEW listed \in SUBSET Documents
    PROVE  NewIndex(status, listed) \in Index
<1>1. Cardinality(listed) \in Nat
  BY DocumentsFinite
<1> QED BY <1>1 DEF NewIndex, Index

LEMMA AppendTyped ==
    ASSUME TypeOK, NEW x \in Index, index' = Append(index, x), chunks' = chunks
    PROVE  index' \in Seq(Index) /\ chunks' \subseteq Documents \X (1 .. Len(index'))
<1>1. index \in Seq(Index) /\ Len(index) \in Nat /\ chunks \subseteq Documents \X (1 .. Len(index))
  BY DEF TypeOK
<1>2. index' \in Seq(Index) /\ Len(index') = Len(index) + 1
  BY <1>1
<1>3. 1 .. Len(index) \subseteq 1 .. Len(index')
  BY <1>1, <1>2
<1> QED BY <1>1, <1>2, <1>3

LEMMA ListTyped ==
    ASSUME TypeOK, NEW g \in Ingesters, NEW force \in BOOLEAN, List(g, force)
    PROVE  TypeOK'
<1>1. \A h \in Ingesters : ingester'[h] \in Ingestion \cup {Idle, Down}
  BY ListEffect DEF TypeOK
<1>2. DOMAIN ingester' = Ingesters /\ ingester' = [h \in Ingesters |-> ingester'[h]]
  BY DEF List
<1>3. ingester' \in [Ingesters -> Ingestion \cup {Idle, Down}]
  BY <1>1, <1>2
<1>4. operations' \in Nat
  BY CountTyped DEF List, TypeOK
<1> QED BY <1>3, <1>4 DEF List, TypeOK, rows, ghosts

LEMMA NothingPendingTyped ==
    ASSUME TypeOK, NEW g \in Ingesters, NothingPending(g)
    PROVE  TypeOK'
<1>1. ingester' \in [Ingesters -> Ingestion \cup {Idle, Down}]
  BY StepEffect, IngesterKept DEF NothingPending
<1>2. index' \in Seq(Index) /\ chunks' \subseteq Documents \X (1 .. Len(index'))
  <2>1. PICK x \in Index : x = NewIndex("pending", {})
    BY NewIndexTyped
  <2>2. chunks' = chunks /\ (index' = index \/ index' = Append(index, x))
    BY <2>1 DEF NothingPending
  <2> QED BY <2>1, <2>2, AppendTyped DEF TypeOK
<1> QED BY <1>1, <1>2 DEF NothingPending, TypeOK, ghosts

LEMMA CreateIndexTyped ==
    ASSUME TypeOK, NEW g \in Ingesters, CreateIndex(g)
    PROVE  TypeOK'
<1>1. ingester' \in [Ingesters -> Ingestion \cup {Idle, Down}]
  BY CreateIndexEffect, IngesterKept DEF CreateIndex
<1>2. index' \in Seq(Index) /\ chunks' \subseteq Documents \X (1 .. Len(index'))
  <2>1. ingester[g].todo \in SUBSET Documents
    BY CreateIndexEffect, IngestionTyped
  <2>2. PICK x \in Index : x = NewIndex("indexing", ingester[g].todo)
    BY <2>1, NewIndexTyped
  <2>3. chunks' = chunks /\ index' = Append(index, x)
    BY <2>2 DEF CreateIndex
  <2> QED BY <2>2, <2>3, AppendTyped
<1> QED BY <1>1, <1>2 DEF CreateIndex, TypeOK, ghosts

LEMMA ParseTyped ==
    ASSUME TypeOK, NEW g \in Ingesters, Parse(g)
    PROVE  TypeOK'
<1>1. ingester' \in [Ingesters -> Ingestion \cup {Idle, Down}]
  <2>1. ingester'[g] \in Ingestion
    BY ParseEffect DEF GoesOn
  <2>2. PICK state : Step(g, state)
    BY DEF Parse
  <2> QED BY <2>1, <2>2, IngesterKept
<1>2. document' \in [Documents ->
                       InProgress \cup {"none", "uploaded", "indexed", "failed", "gone"}]
  BY MarkTyped DEF Parse, InProgress
<1>3. orphaned' \subseteq Documents
  BY DEF Parse, TypeOK
<1> QED BY <1>1, <1>2, <1>3 DEF Parse, TypeOK

\* Steps that mark the document the ingestion is at.
LEMMA MarkingTyped ==
    ASSUME TypeOK, NEW g \in Ingesters, Embed(g) \/ IndexFails(g) \/ MarkIndexed(g)
    PROVE  TypeOK'
<1>1. Ingesting(g)
  BY IngestionTyped DEF Embed, IndexFails, MarkIndexed, AtStep
<1>2. ingester' \in [Ingesters -> Ingestion \cup {Idle, Down}]
  <2>1. ingester'[g] \in Ingestion
    BY <1>1, MoveEffect, NextDocumentEffect DEF Embed, IndexFails, MarkIndexed, GoesOn
  <2>2. \E state : Step(g, state)
    BY DEF Embed, IndexFails, MarkIndexed, NextDocument
  <2> QED BY <2>1, <2>2, IngesterKept
<1>3. document' \in [Documents ->
                       InProgress \cup {"none", "uploaded", "indexed", "failed", "gone"}]
  BY MarkTyped DEF Embed, IndexFails, MarkIndexed, InProgress
<1> QED BY <1>2, <1>3 DEF Embed, IndexFails, MarkIndexed, TypeOK, ghosts

LEMMA ReplaceChunksTyped ==
    ASSUME TypeOK, NEW g \in Ingesters, WorksOn(g), ReplaceChunks(g)
    PROVE  TypeOK'
<1>1. Ingesting(g) /\ Past(g) /\ ingester[g].pc = "embedding"
  BY IngestionTyped, PastNext DEF ReplaceChunks, AtStep
<1>2. ingester' \in [Ingesters -> Ingestion \cup {Idle, Down}]
  BY <1>1, MoveEffect, IngesterKept DEF ReplaceChunks, GoesOn
<1>3. Doc(g) \in Documents /\ IndexOf(g) \in 1 .. Len(index)
  <2>1. DOMAIN index = 1 .. Len(index)
    BY DEF TypeOK
  <2>2. Doc(g) \in ingester[g].todo
    BY <1>1 DEF WorksOn, AtDocument, Doc
  <2> QED BY <1>1, <2>1, <2>2, AtWork DEF IndexOf
<1>4. chunks' \subseteq Documents \X (1 .. Len(index'))
  BY <1>3 DEF ReplaceChunks, Replaced, TypeOK
<1> QED BY <1>2, <1>4 DEF ReplaceChunks, TypeOK, ghosts

LEMMA CountingTyped ==
    ASSUME TypeOK, NEW g \in Ingesters, CountDocuments(g) \/ CountChunks(g)
    PROVE  TypeOK'
<1>1. ingester'[g] \in Ingestion
  BY CountDocumentsEffect, CountChunksEffect DEF GoesOn
<1>2. \E state : Step(g, state)
  BY DEF CountDocuments, CountChunks
<1>3. ingester' \in [Ingesters -> Ingestion \cup {Idle, Down}]
  BY <1>1, <1>2, IngesterKept
<1> QED BY <1>3 DEF CountDocuments, CountChunks, TypeOK, rows, ghosts

LEMMA FinishTyped ==
    ASSUME TypeOK, NEW g \in Ingesters, WorksOn(g), Finish(g)
    PROVE  TypeOK'
<1>1. ingester[g].pc = "counted"
  BY DEF Finish, AtStep
<1>2. Ingesting(g) /\ Past(g)
  BY <1>1, IngestionTyped, PastNext
<1>3. IndexOf(g) \in DOMAIN index
  BY <1>2, AtWork DEF IndexOf
<1>4. ingester' \in [Ingesters -> Ingestion \cup {Idle, Down}]
  BY StepEffect, IngesterKept DEF Finish
<1>5. /\ ingester[g].chunks \in Nat /\ ingester[g].documents \in Nat
      /\ ingester[g].alone \in BOOLEAN /\ SomeFailed \in BOOLEAN
      /\ index[IndexOf(g)].listed \in SUBSET Documents
  BY <1>2, <1>3, IngestionTyped, ListedTyped DEF SomeFailed
<1>6. /\ Refreshed(SomeFailed, ingester[g].chunks, "draft") \in Statuses
      /\ Refreshed(SomeFailed, ingester[g].chunks, "pending") \in
            {"degraded", "failed", "ready", "pending"}
  BY <1>5, RefreshedStatus DEF Statuses
<1>7. kb' \in KB
  <2>1. kb' = [status |-> Refreshed(SomeFailed, ingester[g].chunks, "draft"),
               documents |-> ingester[g].documents, chunks |-> ingester[g].chunks]
    BY <1>3, FinishEffect
  <2> QED BY <1>5, <1>6, <2>1 DEF KB
<1>8. PICK x \in Index :
         x = [status |-> Refreshed(SomeFailed, ingester[g].chunks, "pending"),
              documents |-> ingester[g].documents, chunks |-> ingester[g].chunks,
              listed |-> index[IndexOf(g)].listed, alone |-> ingester[g].alone]
  BY <1>5, <1>6 DEF Index
<1>9. index' = [index EXCEPT ![IndexOf(g)] = x]
  BY <1>8 DEF Finish, IndexOf, SomeFailed
<1>10. index' \in Seq(Index) /\ Len(index') = Len(index)
  BY <1>3, <1>9 DEF TypeOK
<1>11. chunks' \subseteq Documents \X (1 .. Len(index'))
  BY <1>10 DEF Finish, TypeOK
<1> QED BY <1>4, <1>7, <1>10, <1>11 DEF Finish, TypeOK, ghosts

LEMMA LeaveTyped ==
    ASSUME TypeOK, NEW g \in Ingesters, Raise(g) \/ Crash(g) \/ Restart(g)
    PROVE  TypeOK'
<1>1. ingester'[g] \in Ingestion \cup {Idle, Down}
  BY LeaveEffect DEF Leaves
<1>2. \E state : Step(g, state)
  BY DEF Raise, Crash, Restart, Stop
<1>3. ingester' \in [Ingesters -> Ingestion \cup {Idle, Down}]
  BY <1>1, <1>2, IngesterKept
<1>4. crashes' \in Nat
  BY DEF Raise, Crash, Restart, TypeOK
<1>5. orphaned' \subseteq Documents
  <2>1. Ingesting(g) => {Doc(g)} \ {0} \subseteq Documents
    <3>1. Ingesting(g) => Doc(g) \in 0 .. MaxDocuments
      BY IngestionTyped DEF Doc
    <3> QED BY <3>1, KnowledgeAssumption DEF Documents
  <2> QED BY <2>1 DEF Raise, Crash, Restart, TypeOK, ghosts
<1> QED BY <1>3, <1>4, <1>5 DEF Raise, Crash, Restart, TypeOK, rows, ghosts

LEMMA StepsTyped ==
    ASSUME TypeOK, IngestionsSound, [Next]_vars
    PROVE  TypeOK'
<1>1. CASE UNCHANGED vars
  BY <1>1 DEF vars, TypeOK
<1>2. ASSUME NEW q \in Requests, Request(q) PROVE TypeOK'
  <2>1. InOrder
    BY DEF IngestionsSound
  <2> QED BY <1>2, <2>1, BeginsTyped, SaveCreatedTyped, AddDocumentTyped, AddVersionTyped,
      CommitUpdateTyped, CommitPublishTyped, CommitEvaluateTyped, CommitAssignTyped, RefuseTyped,
      CommitDeleteTyped DEF Request
<1>3. ASSUME NEW g \in Ingesters, NEW force \in BOOLEAN, List(g, force) PROVE TypeOK'
  BY <1>3, ListTyped
<1>4. ASSUME NEW g \in Ingesters, Ingest(g) \/ Crash(g) \/ Restart(g) PROVE TypeOK'
  <2>1. WorksOn(g)
    BY DEF IngestionsSound
  <2> QED BY <1>4, <2>1, NothingPendingTyped, CreateIndexTyped, ParseTyped, MarkingTyped,
      ReplaceChunksTyped, CountingTyped, FinishTyped, LeaveTyped DEF Ingest
<1> QED BY <1>1, <1>2, <1>3, <1>4, OutsideTyped DEF Next

-----------------------------------------------------------------------------
\* The limit, the assignments and the publication

\* What an ingestion leaves alone.
LEMMA IngestionFrame ==
    ASSUME TypeOK, IngestionsSound, NEW g \in Ingesters,
           (\E force \in BOOLEAN : List(g, force)) \/ Ingest(g) \/ Crash(g) \/ Restart(g)
    PROVE  /\ UNCHANGED <<config, version, assigned, request, crowded, told>>
           /\ kb' = kb \/ Finish(g)
           /\ InKB' = InKB
           /\ chunks \subseteq chunks'
<1>1. /\ UNCHANGED <<config, version, assigned, request, crowded, told>>
      /\ kb' = kb \/ Finish(g)
  BY DEF List, Ingest, Crash, Restart, NothingPending, CreateIndex, Parse, Embed, IndexFails,
     ReplaceChunks, MarkIndexed, CountDocuments, CountChunks, Finish, Raise, rows, ghosts
<1>2. chunks \subseteq chunks'
  <2>1. CASE ReplaceChunks(g)
    <3>1. chunks' = {c \in chunks : c # <<Doc(g), IndexOf(g)>>} \cup {<<Doc(g), IndexOf(g)>>}
      BY <2>1 DEF ReplaceChunks, Replaced
    <3> QED BY <3>1
  <2>2. CASE ~ReplaceChunks(g)
    <3>1. chunks' = chunks
      BY <2>2 DEF List, Ingest, Crash, Restart, NothingPending, CreateIndex, Parse, Embed,
         IndexFails, MarkIndexed, CountDocuments, CountChunks, Finish, Raise, rows
    <3> QED BY <3>1
  <2> QED BY <2>1, <2>2
<1>3. \A d \in Documents : document'[d] \in {"none", "gone"} <=> document[d] \in {"none", "gone"}
  <2>1. WorksOn(g)
    BY DEF IngestionsSound
  <2>2. CASE Parse(g)
    <3>1. PICK d \in ingester[g].todo :
             /\ document[d] # "gone" /\ document'[d] = "parsing"
             /\ \A e \in Documents : e # d => document'[e] = document[e]
      BY <2>2, ParseEffect
    <3>2. Ingesting(g)
      BY <2>2, IngestionTyped DEF Parse, AtStep
    <3>3. d \in Created
      BY <2>1, <3>1, <3>2 DEF WorksOn
    <3> QED BY <3>1, <3>3 DEF Created
  <2>3. CASE Embed(g) \/ IndexFails(g) \/ MarkIndexed(g)
    <3>1. Ingesting(g) /\ ingester[g].pc \in AtDocument /\ document[Doc(g)] # "gone"
      BY <2>3, IngestionTyped DEF Embed, IndexFails, MarkIndexed, AtStep, AtDocument
    <3>2. Doc(g) \in Created
      BY <2>1, <3>1 DEF WorksOn, Doc
    <3>3. PICK d \in Documents : d = Doc(g)
      BY <3>2 DEF Created
    <3>4. \E s \in {"embedding", "failed", "indexed"} : Mark(d, s)
      BY <2>3, <3>3 DEF Embed, IndexFails, MarkIndexed
    <3>5. /\ document'[d] \in {"embedding", "failed", "indexed"}
          /\ \A e \in Documents : e # d => document'[e] = document[e]
      BY <3>4, MarkEffect
    <3> QED BY <3>1, <3>2, <3>3, <3>5 DEF Created
  <2>4. CASE ~(Parse(g) \/ Embed(g) \/ IndexFails(g) \/ MarkIndexed(g))
    <3>1. document' = document
      BY <2>4 DEF List, Ingest, Crash, Restart, NothingPending, CreateIndex, ReplaceChunks,
         CountDocuments, CountChunks, Finish, Raise, rows
    <3> QED BY <3>1
  <2> QED BY <2>2, <2>3, <2>4
<1>4. InKB' = InKB
  BY <1>3 DEF InKB
<1> QED BY <1>1, <1>2, <1>4

\* What a finished ingestion makes of the knowledge base.
LEMMA FinishKB ==
    ASSUME TypeOK, IngestionsSound, NEW g \in Ingesters, Finish(g)
    PROVE  /\ Present'
           /\ kb'.status = "ready" => chunks' # {}
<1>1. ingester[g].pc = "counted" /\ index[IndexOf(g)].status # "gone" /\ chunks' = chunks
  BY DEF Finish, AtStep, IndexOf
<1>2. Ingesting(g) /\ Past(g) /\ WorksOn(g)
  BY <1>1, IngestionTyped, PastNext DEF IngestionsSound
<1>3. IndexOf(g) \in DOMAIN index
  BY <1>2, AtWork DEF IndexOf
<1>4. PICK s : s = Refreshed(SomeFailed, ingester[g].chunks, "draft")
  OBVIOUS
<1>5. kb' = [status |-> s, documents |-> ingester[g].documents, chunks |-> ingester[g].chunks]
  BY <1>3, <1>4, FinishEffect
<1>6. /\ s \in {"degraded", "failed", "ready", "draft"}
      /\ s = "ready" => ingester[g].chunks > 0
  <2>1. SomeFailed \in BOOLEAN /\ ingester[g].chunks \in Nat
    BY <1>2, IngestionTyped DEF SomeFailed
  <2> QED BY <1>4, <2>1, RefreshedStatus
<1>7. kb'.status = s /\ NoKB.status = "none"
  BY <1>5 DEF NoKB
<1>8. kb' # NoKB
  BY <1>6, <1>7
<1>9. s = "ready" => chunks # {}
  BY <1>1, <1>2, <1>6 DEF WorksOn, IndexOf
<1> QED BY <1>1, <1>7, <1>8, <1>9 DEF Present

LEMMA NewIsPresent ==
    NewKB # NoKB /\ NewKB.status = "draft" /\ NoKB.status = "none"
  BY DEF NewKB, NoKB

\* A deleted knowledge base has no documents.
LEMMA DeletedIsEmpty ==
    ASSUME TypeOK, NEW q \in Requests, CommitDelete(q)
    PROVE  InKB' = {} /\ ~Present' /\ assigned' = {} /\ kb'.status # "ready" /\ told' = "none"
<1>1. document' = [d \in Documents |-> IF d \in InKB THEN "gone" ELSE document[d]]
  BY DEF CommitDelete
<1>2. \A d \in Documents : document'[d] \in {"none", "gone"}
  BY <1>1 DEF InKB
<1>3. InKB' = {}
  BY <1>2 DEF InKB
<1> QED BY <1>3, NewIsPresent DEF CommitDelete, Present, Unreferenced

\* Requests that leave the documents alone.
LEMMA RequestFrame ==
    ASSUME NEW q \in Requests, Request(q), ~AddDocument(q), ~CommitDelete(q)
    PROVE  InKB' = InKB /\ crowded' = crowded /\ chunks' = chunks
<1>1. document' = document /\ crowded' = crowded /\ chunks' = chunks
  BY DEF Request, CheckCreate, SaveCreated, CheckUpload, AddVersion, ReadPublish, ReadUpdate,
     ReadEvaluate, CommitUpdate, CommitPublish, CommitEvaluate, ReadAssign, CommitAssign,
     ReadDelete, Refuse, rows, ghosts
<1> QED BY <1>1 DEF InKB

Outside ==
    \/ \E m \in Modes \cup {"unset"} : CreateKB(m)
    \/ \E l \in Labels, m \in Modes, p \in BOOLEAN : CreateVersion(l, m, p)
    \/ \E a \in Agents : Unassign(a)

LEMMA OutsideFrame ==
    ASSUME Outside
    PROVE  InKB' = InKB /\ crowded' = crowded /\ request' = request /\ chunks' = chunks
<1>1. UNCHANGED <<document, crowded, request, chunks>>
  BY DEF Outside, CreateKB, CreateVersion, Unassign, ghosts
<1> QED BY <1>1 DEF InKB

LEMMA AddDocumentFrame ==
    ASSUME TypeOK, InOrder, NEW q \in Requests, AddDocument(q)
    PROVE  \E d \in Documents :
              /\ InKB' \subseteq InKB \cup {d}
              /\ crowded' = IF Others(q) = {} THEN crowded ELSE crowded \cup {d}
<1>1. PICK d \in Documents :
         /\ document'[d] = "uploaded"
         /\ \A e \in Documents : e # d => document'[e] = document[e]
         /\ crowded' = IF Others(q) = {} THEN crowded ELSE crowded \cup {d}
  BY NewDocument
<1>2. InKB' \subseteq InKB \cup {d}
  BY <1>1 DEF InKB
<1> QED BY <1>1, <1>2

\* How many documents count against the limit.
LEMMA CountedDocuments ==
    /\ Cardinality(InKB \ crowded) \in Nat
    /\ Cardinality(InKB \ crowded) <= Cardinality(InKB) /\ Cardinality(InKB) \in Nat
<1>1. InKB \in SUBSET Documents /\ InKB \ crowded \in SUBSET InKB
  BY DEF InKB
<1>2. IsFiniteSet(InKB) /\ Cardinality(InKB) \in Nat /\ Cardinality(InKB \ crowded) \in Nat
  BY <1>1, DocumentsFinite
<1>3. Cardinality(InKB \ crowded) <= Cardinality(InKB)
  BY <1>1, <1>2, FS_Subset
<1> QED BY <1>2, <1>3

\* The limit on documents: an upload leaves no less room than its own request still needs.
LEMMA QuotaKept ==
    ASSUME TypeOK, IngestionsSound, EmptyWithout, Quota, LimitOfDocuments, [Next]_vars
    PROVE  Quota' /\ LimitOfDocuments'
<1>1. DocumentLimit \in Nat
  BY KnowledgeAssumption
<1>2. PICK n \in Nat : n = Cardinality(InKB \ crowded)
  BY CountedDocuments
<1>3. n <= DocumentLimit /\ \A p \in Requests : PastCheck(p) => n + request[p].left <= DocumentLimit
  BY <1>2 DEF Quota, LimitOfDocuments
<1>4. ASSUME InKB' = InKB, crowded' = crowded, request' = request PROVE Quota' /\ LimitOfDocuments'
  <2>1. Cardinality(InKB' \ crowded') = n
    BY <1>2, <1>4
  <2> QED BY <1>3, <1>4, <2>1 DEF Quota, LimitOfDocuments, PastCheck
<1>5. CASE UNCHANGED vars
  BY <1>4, <1>5 DEF vars, InKB
<1>6. CASE Outside
  BY <1>4, <1>6, OutsideFrame
<1>7. ASSUME NEW g \in Ingesters,
             (\E force \in BOOLEAN : List(g, force)) \/ Ingest(g) \/ Crash(g) \/ Restart(g)
      PROVE  Quota' /\ LimitOfDocuments'
  BY <1>4, <1>7, IngestionFrame
<1>8. ASSUME NEW q \in Requests, AddDocument(q) PROVE Quota' /\ LimitOfDocuments'
  <2>1. PICK d \in Documents :
           /\ InKB' \subseteq InKB \cup {d}
           /\ crowded' = IF Others(q) = {} THEN crowded ELSE crowded \cup {d}
    BY <1>8, AddDocumentFrame DEF IngestionsSound
  <2>2. PICK R : R = InKB' \ crowded'
    OBVIOUS
  <2>3. IsFiniteSet(InKB \ crowded) /\ IsFiniteSet((InKB \ crowded) \cup {d})
    <3>1. InKB \ crowded \in SUBSET Documents /\ (InKB \ crowded) \cup {d} \in SUBSET Documents
      BY DEF InKB
    <3> QED BY <3>1, DocumentsFinite
  <2>4. /\ Cardinality((InKB \ crowded) \cup {d}) \in Nat
        /\ Cardinality((InKB \ crowded) \cup {d}) <= n + 1
    <3>1. PICK S : S = InKB \ crowded
      OBVIOUS
    <3>2. IsFiniteSet(S) /\ Cardinality(S) = n /\ IsFiniteSet(S \cup {d})
      BY <1>2, <2>3, <3>1
    <3>3. Cardinality(S \cup {d}) = n \/ Cardinality(S \cup {d}) = n + 1
      BY <3>2, FS_AddElement
    <3> QED BY <3>1, <3>3
  <2>5. Cardinality(R) \in Nat /\ Cardinality(R) <= n + 1
    <3>1. R \subseteq (InKB \ crowded) \cup {d}
      BY <2>1, <2>2
    <3>2. Cardinality(R) <= Cardinality((InKB \ crowded) \cup {d}) /\ IsFiniteSet(R)
      BY <2>3, <3>1, FS_Subset
    <3>3. Cardinality(R) \in Nat
      BY <3>2, FS_CardinalityType
    <3> QED BY <2>4, <3>2, <3>3
  <2>6. Others(q) # {} => Cardinality(R) <= n
    <3>1. Others(q) # {} => R \subseteq InKB \ crowded
      BY <2>1, <2>2
    <3> QED BY <1>2, <2>3, <3>1, FS_Subset
  <2>7. PastCheck(q) /\ request[q].left \in Nat /\ request[q].left >= 1
    <3>1. At(q, "insert")
      BY <1>8 DEF AddDocument
    <3>2. request[q].left \in 1 .. DocumentLimit
      BY <3>1, RequestTyped
    <3> QED BY <1>1, <3>1, <3>2 DEF At, PastCheck
  <2>8. n + request[q].left <= DocumentLimit
    BY <1>3, <2>7
  <2>9. LimitOfDocuments'
    <3>1. Cardinality(R) <= DocumentLimit
      BY <1>1, <2>5, <2>7, <2>8
    <3> QED BY <2>2, <3>1 DEF LimitOfDocuments
  <2>10. ASSUME NEW p \in Requests, request'[p].pc \in {"save", "insert"}
         PROVE  Cardinality(R) + request'[p].left <= DocumentLimit
    <3>1. CASE p = q
      <4>1. request'[q].left = request[q].left - 1
        BY <1>8, <2>10, <3>1, AddDocumentRequest
      <4> QED BY <1>1, <2>5, <2>7, <2>8, <3>1, <4>1
    <3>2. CASE p # q
      <4>1. request'[p] = request[p]
        BY <1>8, <3>2, AddDocumentRequest
      <4>2. PastCheck(p) /\ request[p].left \in Nat
        <5>1. At(p, "save") \/ At(p, "insert")
          BY <2>10, <4>1 DEF At
        <5>2. request[p].left \in 1 .. DocumentLimit
          BY <5>1, RequestTyped
        <5> QED BY <1>1, <2>10, <4>1, <5>2 DEF PastCheck
      <4>3. Cardinality(R) <= n
        BY <2>6, <3>2, <4>2 DEF Others
      <4> QED BY <1>1, <1>3, <2>5, <4>1, <4>2, <4>3
    <3> QED BY <3>1, <3>2
  <2> QED BY <2>2, <2>9, <2>10 DEF Quota, PastCheck
<1>9. ASSUME NEW q \in Requests, CommitDelete(q) PROVE Quota' /\ LimitOfDocuments'
  <2>1. InKB' = {} /\ Cardinality({}) = 0
    BY <1>9, DeletedIsEmpty, FS_EmptySet
  <2>2. Cardinality(InKB' \ crowded') = 0
    BY <2>1
  <2>3. ASSUME NEW p \in Requests, request'[p].pc \in {"save", "insert"}
        PROVE  0 + request'[p].left <= DocumentLimit
    <3>1. p # q
      BY <1>9, <2>3, BecomeTyped DEF CommitDelete, Idle
    <3>2. request'[p] = request[p]
      BY <1>9, <3>1, BecomeTyped DEF CommitDelete
    <3>3. request[p].left \in 1 .. DocumentLimit
      BY <2>3, <3>2, RequestTyped DEF At
    <3> QED BY <1>1, <3>2, <3>3
  <2> QED BY <1>1, <2>2, <2>3 DEF Quota, LimitOfDocuments, PastCheck
<1>10. ASSUME NEW q \in Requests, Request(q), ~AddDocument(q), ~CommitDelete(q)
       PROVE  Quota' /\ LimitOfDocuments'
  <2>1. InKB' = InKB /\ crowded' = crowded
    BY <1>10, RequestFrame
  <2>2. Cardinality(InKB' \ crowded') = n
    BY <1>2, <2>1
  <2>3. \A p \in Requests : p # q => request'[p] = request[p]
    <3>1. \E state : Become(q, state)
      BY <1>10 DEF Request, CheckCreate, SaveCreated, CheckUpload, AddVersion, ReadPublish,
         ReadUpdate, ReadEvaluate, CommitUpdate, CommitPublish, CommitEvaluate, ReadAssign,
         CommitAssign, ReadDelete, Refuse, Begin
    <3> QED BY <3>1, BecomeTyped
  <2>4. request'[q].pc \in {"save", "insert"} => n + request'[q].left <= DocumentLimit
    <3>1. ASSUME NEW m \in Modes, NEW k \in 1 .. DocumentLimit, CheckCreate(q, m, k)
          PROVE  n + request'[q].left <= DocumentLimit
      <4>1. request'[q] = [pc |-> "save", left |-> k, mode |-> m]
        BY <3>1, BecomeTyped DEF CheckCreate, Begin
      <4>2. n = 0
        BY <1>2, <3>1, FS_EmptySet DEF CheckCreate, EmptyWithout
      <4> QED BY <1>1, <4>1, <4>2
    <3>2. CASE SaveCreated(q)
      <4>1. request'[q].left = request[q].left
        BY <3>2, BecomeTyped DEF SaveCreated
      <4>2. PastCheck(q)
        BY <3>2 DEF SaveCreated, PastCheck, At
      <4> QED BY <1>3, <4>1, <4>2
    <3>3. CASE CheckUpload(q)
      <4>1. request'[q].left = 1
        BY <3>3, BecomeTyped DEF CheckUpload, Begin
      <4>2. Cardinality(InKB) < DocumentLimit
        BY <3>3 DEF CheckUpload, Room
      <4> QED BY <1>1, <1>2, <4>1, <4>2, CountedDocuments
    <3>4. CASE ~SaveCreated(q) /\ ~CheckUpload(q)
               /\ ~\E m \in Modes, k \in 1 .. DocumentLimit : CheckCreate(q, m, k)
      <4>1. CASE \/ \E l \in Labels : AddVersion(q, l)
                 \/ CommitUpdate(q) \/ CommitPublish(q) \/ CommitEvaluate(q) \/ CommitAssign(q)
                 \/ Refuse(q)
        <5>1. Become(q, Idle)
          BY <4>1 DEF AddVersion, CommitUpdate, CommitPublish, CommitEvaluate, CommitAssign, Refuse
        <5>2. request'[q] = Idle
          BY <5>1, BecomeTyped
        <5> QED BY <5>2 DEF Idle
      <4>2. ASSUME NEW l \in Labels, ReadPublish(q, l) PROVE request'[q].pc = "publish"
        BY <4>2, BecomeTyped DEF ReadPublish, Begin
      <4>3. ASSUME NEW m \in Modes, ReadUpdate(q, NewConfig(m)) PROVE request'[q].pc = "update"
        BY <4>3, BecomeTyped DEF ReadUpdate, Begin
      <4>4. ASSUME NEW m \in Modes, ReadEvaluate(q, m) PROVE request'[q].pc = "evaluate"
        BY <4>4, BecomeTyped DEF ReadEvaluate, Begin
      <4>5. ASSUME NEW a \in Agents, ReadAssign(q, a) PROVE request'[q].pc = "assign"
        BY <4>5, BecomeTyped DEF ReadAssign, Begin
      <4>6. CASE ReadDelete(q)
        <5>1. request'[q].pc = "delete"
          BY <4>6, BecomeTyped DEF ReadDelete, Begin
        <5> QED BY <5>1
      <4>7. \/ \E l \in Labels : AddVersion(q, l) \/ ReadPublish(q, l)
            \/ \E m \in Modes : ReadUpdate(q, NewConfig(m)) \/ ReadEvaluate(q, m)
            \/ CommitUpdate(q) \/ CommitPublish(q) \/ CommitEvaluate(q)
            \/ \E a \in Agents : ReadAssign(q, a)
            \/ CommitAssign(q) \/ ReadDelete(q) \/ Refuse(q)
        BY <1>10, <3>4 DEF Request
      <4> QED BY <4>1, <4>2, <4>3, <4>4, <4>5, <4>6, <4>7
    <3> QED BY <3>1, <3>2, <3>3, <3>4
  <2>5. ASSUME NEW p \in Requests, request'[p].pc \in {"save", "insert"}
        PROVE  n + request'[p].left <= DocumentLimit
    BY <1>3, <2>3, <2>4, <2>5 DEF PastCheck
  <2> QED BY <1>3, <2>2, <2>5 DEF Quota, LimitOfDocuments, PastCheck
<1> QED BY <1>5, <1>6, <1>7, <1>8, <1>9, <1>10 DEF Next, Outside

\* Without a knowledge base there are neither documents nor assignments.
LEMMA PresenceKept ==
    ASSUME TypeOK, IngestionsSound, EmptyWithout, AssignedIsPresent, [Next]_vars
    PROVE  EmptyWithout' /\ AssignedIsPresent'
<1>1. CASE UNCHANGED vars
  BY <1>1 DEF vars, EmptyWithout, AssignedIsPresent, Present, InKB
<1>2. CASE Outside
  <2>1. InKB' = InKB
    BY <1>2, OutsideFrame
  <2>2. (Present => Present') /\ (assigned' \subseteq assigned)
    BY <1>2, NewIsPresent DEF Outside, CreateKB, CreateVersion, Unassign, Present
  <2> QED BY <2>1, <2>2 DEF EmptyWithout, AssignedIsPresent
<1>3. ASSUME NEW g \in Ingesters,
             (\E force \in BOOLEAN : List(g, force)) \/ Ingest(g) \/ Crash(g) \/ Restart(g)
      PROVE  EmptyWithout' /\ AssignedIsPresent'
  <2>1. InKB' = InKB /\ assigned' = assigned
    BY <1>3, IngestionFrame
  <2>2. Present => Present'
    BY <1>3, IngestionFrame, FinishKB DEF Present
  <2> QED BY <2>1, <2>2 DEF EmptyWithout, AssignedIsPresent
<1>4. ASSUME NEW q \in Requests, AddDocument(q) PROVE EmptyWithout' /\ AssignedIsPresent'
  BY <1>4 DEF AddDocument, EmptyWithout, AssignedIsPresent, Present
<1>5. ASSUME NEW q \in Requests, CommitDelete(q) PROVE EmptyWithout' /\ AssignedIsPresent'
  BY <1>5, DeletedIsEmpty DEF EmptyWithout, AssignedIsPresent
<1>6. ASSUME NEW q \in Requests, Request(q), ~AddDocument(q), ~CommitDelete(q)
      PROVE  EmptyWithout' /\ AssignedIsPresent'
  <2>1. InKB' = InKB
    BY <1>6, RequestFrame
  <2>2. Present => Present'
    <3>1. CASE CommitPublish(q)
      <4>1. kb' \in KB
        BY <3>1, CommitPublishEffect
      <4>2. NoKB \notin KB
        BY NewIsPresent DEF KB, Statuses
      <4> QED BY <4>1, <4>2 DEF Present
    <3>2. CASE ~CommitPublish(q)
      <4>1. kb' = kb \/ kb' = NewKB
        BY <1>6, <3>2 DEF Request, CheckCreate, SaveCreated, CheckUpload, AddVersion, ReadPublish,
           ReadUpdate, ReadEvaluate, CommitUpdate, CommitEvaluate, ReadAssign, CommitAssign,
           ReadDelete, Refuse, rows
      <4> QED BY <4>1, NewIsPresent DEF Present
    <3> QED BY <3>1, <3>2
  <2>3. assigned' = assigned \/ Present
    BY <1>6 DEF Request, CheckCreate, SaveCreated, CheckUpload, AddVersion, ReadPublish,
       ReadUpdate, ReadEvaluate, CommitUpdate, CommitPublish, CommitEvaluate, ReadAssign,
       CommitAssign, ReadDelete, Refuse, rows
  <2> QED BY <2>1, <2>2, <2>3 DEF EmptyWithout, AssignedIsPresent
<1> QED BY <1>1, <1>2, <1>3, <1>4, <1>5, <1>6 DEF Next, Outside

\* A version that is there is not replaced.
LEMMA VersionAdded ==
    ASSUME TypeOK, NEW l \in Labels, NEW v \in Version, version[l] = NoVersion,
           version' = [version EXCEPT ![l] = v],
           ReadyIsFounded, PublishedIsTold,
           UNCHANGED <<kb, config, chunks, told>>
    PROVE  ReadyIsFounded' /\ PublishedIsTold'
<1>1. /\ version \in [Labels -> Version \cup {NoVersion}]
      /\ \A k \in Labels : k # l => version'[k] = version[k]
  BY DEF TypeOK
<1>2. NoVersion.mode = "none" /\ NoVersion # [mode |-> "file", published |-> TRUE]
  BY DEF NoVersion
<1>3. ReadyIsFounded'
  BY <1>1, <1>2 DEF ReadyIsFounded
<1>4. told # "none" => told # l
  <2>1. config.mode \in {"file", "vector", "unset"}
    BY DEF TypeOK, Config, Modes
  <2> QED BY <1>2, <2>1 DEF PublishedIsTold
<1>5. told \in Labels \cup {"none"}
  BY DEF TypeOK
<1>6. PublishedIsTold'
  BY <1>1, <1>4, <1>5 DEF PublishedIsTold
<1> QED BY <1>3, <1>6

\* Publishing keeps what makes the knowledge base ready, and tells what it published.
LEMMA PublishKept ==
    ASSUME TypeOK, ReadyIsFounded, PublishedIsTold, NEW q \in Requests, CommitPublish(q)
    PROVE  ReadyIsFounded' /\ PublishedIsTold'
<1>1. PICK l \in Labels, c \in Config : l = request[q].label /\ c = request[q].seen
  BY RequestTyped DEF CommitPublish
<1>2. PICK v \in Version : v = version[l]
  BY <1>1, CommitPublishEffect
<1>3. PICK new : new = [c EXCEPT !.mode = v.mode, !.published = l]
  OBVIOUS
<1>4. /\ kb'.status = IF v.mode = "file" THEN "ready" ELSE kb.status
      /\ version'[l] = [mode |-> v.mode, published |-> TRUE]
      /\ \A k \in Labels : k # l => version'[k] = version[k]
  BY <1>1, <1>2, CommitPublishEffect
<1>5. /\ config' = IF new = c THEN config ELSE new
      /\ told' = IF new = c /\ config # c THEN "none" ELSE l
      /\ chunks' = chunks
  BY <1>1, <1>2, <1>3 DEF CommitPublish
<1>6. new.mode = v.mode /\ new.published = l
  BY <1>3 DEF Config
<1>7. version'[l].mode = v.mode
  BY <1>4
<1>8. PublishedIsTold'
  <2>1. told' # "none" => config' = new /\ told' = l
    BY <1>5
  <2> QED BY <1>6, <1>7, <2>1 DEF PublishedIsTold
<1>9. ReadyIsFounded'
  <2>1. CASE v.mode = "file"
    BY <1>4, <2>1 DEF ReadyIsFounded
  <2>2. CASE v.mode # "file"
    <3>1. version[l] # [mode |-> "file", published |-> TRUE]
      BY <1>2, <2>2
    <3>2. kb'.status = kb.status
      BY <1>4, <2>2
    <3> QED BY <1>4, <1>5, <3>1, <3>2 DEF ReadyIsFounded
  <2> QED BY <2>1, <2>2
<1> QED BY <1>8, <1>9

LEMMA PublicationKept ==
    ASSUME TypeOK, IngestionsSound, ReadyIsFounded, PublishedIsTold, [Next]_vars
    PROVE  ReadyIsFounded' /\ PublishedIsTold'
<1>1. CASE UNCHANGED vars
  BY <1>1 DEF vars, ReadyIsFounded, PublishedIsTold
<1>2. ASSUME NEW m \in Modes \cup {"unset"}, CreateKB(m) PROVE ReadyIsFounded' /\ PublishedIsTold'
  <2>1. kb'.status # "ready" /\ told' = "none"
    BY <1>2, NewIsPresent DEF CreateKB
  <2> QED BY <2>1 DEF ReadyIsFounded, PublishedIsTold
<1>3. ASSUME NEW l \in Labels, NEW m \in Modes, NEW p \in BOOLEAN, CreateVersion(l, m, p)
      PROVE  ReadyIsFounded' /\ PublishedIsTold'
  <2>1. PICK v \in Version : v = [mode |-> m, published |-> p]
    BY DEF Version
  <2> QED BY <1>3, <2>1, VersionAdded DEF CreateVersion, ghosts
<1>4. ASSUME NEW a \in Agents, Unassign(a) PROVE ReadyIsFounded' /\ PublishedIsTold'
  BY <1>4 DEF Unassign, ghosts, ReadyIsFounded, PublishedIsTold
<1>5. ASSUME NEW g \in Ingesters,
             (\E force \in BOOLEAN : List(g, force)) \/ Ingest(g) \/ Crash(g) \/ Restart(g)
      PROVE  ReadyIsFounded' /\ PublishedIsTold'
  <2>1. /\ UNCHANGED <<config, version, told>>
        /\ kb' = kb \/ Finish(g)
        /\ chunks \subseteq chunks'
    BY <1>5, IngestionFrame
  <2>2. ReadyIsFounded'
    BY <2>1, FinishKB DEF ReadyIsFounded
  <2> QED BY <2>1, <2>2 DEF PublishedIsTold
<1>6. ASSUME NEW q \in Requests, Request(q) PROVE ReadyIsFounded' /\ PublishedIsTold'
  <2>1. CASE CommitDelete(q)
    BY <2>1, DeletedIsEmpty DEF ReadyIsFounded, PublishedIsTold
  <2>2. CASE CommitPublish(q)
    BY <2>2, PublishKept
  <2>3. CASE SaveCreated(q)
    BY <2>3, NewIsPresent DEF SaveCreated, ReadyIsFounded, PublishedIsTold
  <2>4. ASSUME NEW l \in Labels, AddVersion(q, l) PROVE ReadyIsFounded' /\ PublishedIsTold'
    <3>1. PICK v \in Version : v = [mode |-> request[q].mode, published |-> FALSE]
      BY <2>4, RequestTyped DEF AddVersion, Version
    <3> QED BY <2>4, <3>1, VersionAdded DEF AddVersion, ghosts
  <2>5. CASE CommitUpdate(q)
    BY <2>5 DEF CommitUpdate, ReadyIsFounded, PublishedIsTold
  <2>6. CASE CommitEvaluate(q)
    <3>1. PICK c \in Config, v \in {"passed", "failed"} :
             c = request[q].seen /\ v = request[q].verdict
      BY <2>6, RequestTyped DEF CommitEvaluate
    <3>2. /\ [c EXCEPT !.evaluation = v].mode = c.mode
          /\ [c EXCEPT !.evaluation = v].published = c.published
      BY DEF Config
    <3>3. /\ config' = [c EXCEPT !.evaluation = v]
          /\ told' = IF config = c THEN told ELSE "none"
          /\ UNCHANGED <<kb, version, chunks>>
      BY <2>6, <3>1 DEF CommitEvaluate, Evaluated
    <3> QED BY <3>2, <3>3 DEF ReadyIsFounded, PublishedIsTold
  <2>7. CASE ~CommitDelete(q) /\ ~CommitPublish(q) /\ ~SaveCreated(q) /\ ~CommitUpdate(q)
             /\ ~CommitEvaluate(q) /\ ~\E l \in Labels : AddVersion(q, l)
    <3>1. UNCHANGED <<kb, config, version, chunks, told>>
      BY <1>6, <2>7 DEF Request, CheckCreate, CheckUpload, AddDocument, ReadPublish, ReadUpdate,
         ReadEvaluate, ReadAssign, CommitAssign, ReadDelete, Refuse, rows, ghosts
    <3> QED BY <3>1 DEF ReadyIsFounded, PublishedIsTold
  <2> QED BY <2>1, <2>2, <2>3, <2>4, <2>5, <2>6, <2>7
<1> QED BY <1>1, <1>2, <1>3, <1>4, <1>5, <1>6 DEF Next

-----------------------------------------------------------------------------
\* The invariant

\* A new knowledge base has no documents, and nobody ingests.
LEMMA InitInductive ==
    ASSUME Init PROVE KnowledgeInductive
<1>1. MaxDocuments \in Nat /\ DocumentLimit \in Nat
  BY KnowledgeAssumption
<1>2. PICK m \in Modes : config = NewConfig(m)
  BY DEF Init
<1>3. config \in Config /\ FirstVersion(m) \in Version /\ config.mode = m
  BY <1>2, ConfigTyped DEF NewConfig
<1>4. version \in [Labels -> Version \cup {NoVersion}]
  BY <1>3 DEF Init
<1>5. TypeOK
  BY <1>1, <1>3, <1>4, NewKBTyped DEF Init, TypeOK
<1>6. Created = {} /\ InKB = {} /\ DOMAIN index = {}
  BY DEF Init, Created, InKB
<1>7. \A g \in Ingesters : ~Ingesting(g) /\ ingester[g].pc = "idle"
  BY DEF Init, Ingesting, Idle
<1>8. ASSUME NEW g \in Ingesters PROVE WorksOn(g) /\ Accounted(g)
  BY <1>7 DEF WorksOn, Accounted, Past
<1>9. InOrder
  <2>1. 0 \in 0 .. MaxDocuments /\ 1 .. 0 = {}
    BY <1>1
  <2> QED BY <1>6, <2>1 DEF InOrder
<1>10. ListedAreCreated /\ IndexesAreOwn /\ AloneIsAlone /\ LaterAreNewer
  BY <1>6, <1>7 DEF ListedAreCreated, IndexesAreOwn, AloneIsAlone, LaterAreNewer, Past
<1>11. IndexedIsCarried /\ InProgressIsHeld
  BY DEF Init, IndexedIsCarried, InProgressIsHeld, InProgress
<1>12. Kept = {}
  BY DEF Init, Kept
<1>13. LaterCarries /\ CountsAreTrue
  BY <1>12 DEF LaterCarries, CountsAreTrue
<1>14. EmptyWithout /\ AssignedIsPresent
  BY <1>6 DEF Init, EmptyWithout, AssignedIsPresent
<1>15. Quota /\ LimitOfDocuments
  <2>1. Cardinality(InKB \ crowded) = 0
    BY <1>6, FS_EmptySet
  <2>2. \A q \in Requests : ~PastCheck(q)
    BY DEF Init, PastCheck, Idle
  <2> QED BY <1>1, <2>1, <2>2 DEF Quota, LimitOfDocuments
<1>16. ReadyIsFounded /\ PublishedIsTold
  BY NewIsPresent DEF Init, ReadyIsFounded, PublishedIsTold
<1> QED BY <1>5, <1>8, <1>9, <1>10, <1>11, <1>13, <1>14, <1>15, <1>16
        DEF KnowledgeInductive, IngestionsSound

LEMMA StepInductive ==
    ASSUME KnowledgeInductive, [Next]_vars PROVE KnowledgeInductive'
<1>1. TypeOK'
  BY StepsTyped DEF KnowledgeInductive
<1>2. IngestionsSound'
  BY <1>1, StepsSound DEF KnowledgeInductive
<1>3. Quota' /\ LimitOfDocuments'
  BY QuotaKept DEF KnowledgeInductive
<1>4. EmptyWithout' /\ AssignedIsPresent'
  BY PresenceKept DEF KnowledgeInductive
<1>5. ReadyIsFounded' /\ PublishedIsTold'
  BY PublicationKept DEF KnowledgeInductive
<1> QED BY <1>1, <1>2, <1>3, <1>4, <1>5 DEF KnowledgeInductive

\* The index version that retrieval searches is the newest of those it may pick.
LEMMA LatestIsNewest ==
    ASSUME TypeOK, LatestIndex # 0
    PROVE  /\ LatestIndex \in Kept
           /\ \A j \in Kept : index[j].status # "pending" => j <= LatestIndex
<1> DEFINE meaningful == {i \in Kept : index[i].status # "pending"}
           candidates == IF meaningful = {} THEN Kept ELSE meaningful
<1>1. LatestIndex = LatestOf(candidates)
  BY DEF LatestIndex
<1>2. candidates # {}
  BY <1>1 DEF LatestOf
<1>3. PICK n \in Nat : n = Len(index)
  BY DEF TypeOK
<1>4. candidates \in SUBSET (0 .. n)
  BY <1>3 DEF Kept
<1>5. LatestOf(candidates) \in candidates /\ \A i \in candidates : i <= LatestOf(candidates)
  BY <1>2, <1>3, <1>4, LatestIsGreatest
<1>6. \A j \in Kept : index[j].status # "pending" => j \in candidates
  OBVIOUS
<1>7. candidates \subseteq Kept
  OBVIOUS
<1> HIDE DEF candidates
<1> QED BY <1>1, <1>5, <1>6, <1>7

\* Nothing newer carries the document, so the index version that is searched does.
LEMMA SearchFinds ==
    ASSUME KnowledgeInductive PROVE SearchFindsIndexed
<1>1. TypeOK /\ LaterCarries
  BY DEF KnowledgeInductive, IngestionsSound
<1>2. ASSUME LatestIndex # 0, Finished(LatestIndex), index[LatestIndex].alone,
             NEW d \in index[LatestIndex].listed, document[d] = "indexed"
      PROVE  <<d, LatestIndex>> \in chunks
  <2>1. PICK k : k = LatestIndex
    OBVIOUS
  <2>2. k \in Kept /\ \A j \in Kept : index[j].status # "pending" => j <= k
    BY <1>1, <1>2, <2>1, LatestIsNewest
  <2>3. <<d, k>> \in chunks \/ \E j \in Kept : j > k /\ Carries(j, d)
    BY <1>1, <1>2, <2>1, <2>2 DEF LaterCarries
  <2>4. ASSUME NEW j \in Kept, j > k, Carries(j, d) PROVE FALSE
    <3>1. j <= k
      BY <2>2, <2>4 DEF Carries
    <3>2. j \in Nat /\ k \in Nat
      BY <1>1, <2>2 DEF Kept, TypeOK
    <3> QED BY <2>4, <3>1, <3>2
  <2> QED BY <2>1, <2>3, <2>4
<1> QED BY <1>2 DEF SearchFindsIndexed

LEMMA InductiveIsInvariant ==
    ASSUME KnowledgeInductive PROVE KnowledgeInvariant /\ CountsAreTrue
<1>1. IndexedHasChunks
  BY DEF KnowledgeInductive, IngestionsSound, IndexedIsCarried, Carries, IndexedHasChunks
<1> QED BY <1>1, SearchFinds DEF KnowledgeInductive, IngestionsSound, KnowledgeInvariant

\* What the ingestions, uploads and publications rest on holds in every state, for any
\* number of documents, ingesters and requests: an ingestion works on documents its own
\* open index version lists (ingest_knowledge_base), the chunks of one that is alone are
\* those of the documents it indexed, whoever counts chunks finds those of a document
\* that says it is indexed (refresh_knowledge_base_index_state), and the requests past
\* the check of the limit leave room for what they still insert.
THEOREM KnowledgeInduction == Spec => []KnowledgeInductive
<1>1. Init => KnowledgeInductive
  BY InitInductive
<1>2. KnowledgeInductive /\ [Next]_vars => KnowledgeInductive'
  BY StepInductive
<1> QED BY <1>1, <1>2, PTL DEF Spec

\* However ingestions, uploads, publications and deletions overlap: what says it is
\* indexed has chunks, a document in progress is held by an ingestion or was orphaned by
\* one that died, retrieval finds what its index version took up, ready is founded, the
\* limit holds but for documents that came in beside another request past its check,
\* what is assigned is there, and source_config names the version published last.
THEOREM KnowledgeInvariance == Spec => []KnowledgeInvariant
<1>1. KnowledgeInductive => KnowledgeInvariant
  BY InductiveIsInvariant
<1> QED BY <1>1, KnowledgeInduction, PTL

\* The counts refresh_knowledge_base_index_state writes into an index version are those
\* of its chunks, and one that is ready has a chunk of every document it took up, unless
\* ingestions ran side by side.
THEOREM CountsTrue == Spec => []CountsAreTrue
<1>1. KnowledgeInductive => CountsAreTrue
  BY InductiveIsInvariant
<1> QED BY <1>1, KnowledgeInduction, PTL
=============================================================================
