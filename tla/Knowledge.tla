------------------------------ MODULE Knowledge ------------------------------
(***************************************************************************)
(* One knowledge base: uploads, ingestion, versions, assignments and its   *)
(* deletion.  An ingestion lists the documents, opens an index version and *)
(* takes each document through parsing and embedding, one transaction      *)
(* after another; the worker and sync requests ingest side by side, may    *)
(* die at any point, and the knowledge base may be deleted under them.     *)
(*                                                                         *)
(* A document's source is inserted with it and shares its state; a         *)
(* document has one chunk per index version.  Documents are numbered as    *)
(* they are created.  A refused request changes nothing.                   *)
(***************************************************************************)
EXTENDS Integers, Sequences, FiniteSets

CONSTANTS
    MaxDocuments,   \* bound on documents created
    Agents,
    Labels,         \* version labels
    FirstLabel,     \* "v0.1.0", which the store gives a new knowledge base
    Ingesters,      \* the worker and the API requests that ingest
    Worker,
    MaxRequests,    \* every other API request has a number, a free one the smallest
    DocumentLimit,  \* 10 in the code
    MaxIndexes,     \* bound on index versions
    MaxOperations,  \* bound on requests begun, sync requests included
    MaxCrashes      \* bound on processes that die

ASSUME KnowledgeAssumption ==
    /\ Worker \in Ingesters /\ FirstLabel \in Labels /\ "none" \notin Labels
    /\ MaxDocuments \in Nat /\ DocumentLimit \in Nat \ {0}
    /\ MaxRequests \in Nat /\ MaxIndexes \in Nat
    /\ MaxOperations \in Nat /\ MaxCrashes \in Nat

VARIABLES
    kb,             \* the row of knowledge_bases, without source_config
    config,         \* its source_config
    version,        \* rows of knowledge_base_versions
    document,       \* status of each document
    chunks,         \* rows of knowledge_chunks: document and index version
    index,          \* rows of knowledge_index_versions in the order of created_at
    assigned,       \* agents with a row in agent_kb_assignments
    ingester, request,
    operations, crashes,
    orphaned,       \* documents whose ingestion died on them
    crowded,        \* documents inserted while another request was past its check
    told            \* the version published last, unless overwritten since

vars == <<kb, config, version, document, chunks, index, assigned, ingester, request,
          operations, crashes, orphaned, crowded, told>>

Documents == 1 .. MaxDocuments
Requests == 1 .. MaxRequests

Statuses == {"draft", "ready", "degraded", "failed"}
KB == [status: Statuses, documents: Nat, chunks: Nat]
NoKB == [status |-> "none", documents |-> 0, chunks |-> 0]
NewKB == [status |-> "draft", documents |-> 0, chunks |-> 0]

Modes == {"file", "vector"}
Config == [mode: Modes \cup {"unset"}, published: Labels \cup {"none"},
           evaluation: {"none", "passed", "failed"}]
NewConfig(m) == [mode |-> m, published |-> "none", evaluation |-> "none"]

Version == [mode: Modes, published: BOOLEAN]
NoVersion == [mode |-> "none", published |-> FALSE]
FirstVersion(m) == [mode |-> IF m = "unset" THEN "file" ELSE m, published |-> FALSE]

\* listed are the documents the ingestion took up; alone says that no other ran
\* beside it.
Index == [status: {"pending", "indexing", "ready", "degraded", "failed", "gone"},
          documents: Nat, chunks: Nat, listed: SUBSET Documents, alone: BOOLEAN]

Idle == [pc |-> "idle"]
Down == [pc |-> "down"]

Ingestion ==
    [pc: {"listed", "next", "parsing", "embedding", "replaced", "counting", "counted"},
     todo: SUBSET Documents, doc: 0 .. MaxDocuments, index: Nat,
     documents: Nat, chunks: Nat, alone: BOOLEAN]

Present == kb # NoKB
InKB == {d \in Documents : document[d] \notin {"none", "gone"}}
InProgress == {"parsing", "embedding"}

\* What the statements of delete_knowledge_base find.
Rows == [documents |-> InKB, indexes |-> Len(index),
         labels |-> {l \in Labels : version[l] # NoVersion}]

RequestState ==
    [pc: {"insert"}, left: 1 .. DocumentLimit, kind: {"upload", "create"}, mode: Modes]
    \cup [pc: {"save"}, left: 1 .. DocumentLimit, mode: Modes]
    \cup [pc: {"version"}, mode: Modes]
    \cup [pc: {"publish"}, seen: Config, label: Labels]
    \cup [pc: {"evaluate"}, seen: Config, verdict: {"passed", "failed"}]
    \cup [pc: {"update"}, seen: Config, new: Config]
    \cup [pc: {"delete"}, seen: [documents: SUBSET Documents, indexes: Nat, labels: SUBSET Labels]]
    \cup [pc: {"assign"}, agent: Agents]

TypeOK ==
    /\ kb \in KB \cup {NoKB}
    /\ config \in Config
    /\ version \in [Labels -> Version \cup {NoVersion}]
    /\ document \in [Documents -> InProgress \cup {"none", "uploaded", "indexed", "failed", "gone"}]
    /\ chunks \subseteq Documents \X (1 .. Len(index))
    /\ index \in Seq(Index)
    /\ assigned \subseteq Agents
    /\ ingester \in [Ingesters -> Ingestion \cup {Idle, Down}]
    /\ request \in [Requests -> RequestState \cup {Idle}]
    /\ operations \in Nat /\ crashes \in Nat
    /\ orphaned \subseteq Documents /\ crowded \subseteq Documents
    /\ told \in Labels \cup {"none"}

\* A knowledge base that POST /v1/knowledge-bases has just created.
Init ==
    /\ kb = NewKB
    /\ config \in {NewConfig(m) : m \in Modes}
    /\ version = [l \in Labels |-> IF l = FirstLabel THEN FirstVersion(config.mode)
                                   ELSE NoVersion]
    /\ document = [d \in Documents |-> "none"]
    /\ chunks = {} /\ index = <<>> /\ assigned = {}
    /\ ingester = [g \in Ingesters |-> Idle]
    /\ request = [q \in Requests |-> Idle]
    /\ operations = 0 /\ crashes = 0
    /\ orphaned = {} /\ crowded = {} /\ told = "none"

Count == operations < MaxOperations /\ operations' = operations + 1
At(q, pc) == request[q].pc = pc
Become(q, state) == request' = [request EXCEPT ![q] = state]
Begin(q, state) ==
    /\ request[q] = Idle /\ \A p \in 1 .. q - 1 : request[p] # Idle
    /\ Count /\ Become(q, state)

rows == <<kb, config, version, document, chunks, index, assigned>>
ghosts == <<orphaned, crowded, told>>

-----------------------------------------------------------------------------
\* Creating a knowledge base and uploading files

\* POST /v1/knowledge-bases for a new id: the first version comes with it, and
\* the retrieval mode is only in source_config when the request put it there.
CreateKB(m) ==
    /\ ~Present /\ Count
    /\ kb' = NewKB
    /\ config' = NewConfig(m)
    /\ version' = [version EXCEPT ![FirstLabel] = FirstVersion(m)]
    /\ told' = "none"
    /\ UNCHANGED <<document, chunks, index, assigned, ingester, request, crashes,
                   orphaned, crowded>>

CheckCreate(q, m, n) ==
    /\ ~Present
    /\ Begin(q, [pc |-> "save", left |-> n, mode |-> m])
    /\ UNCHANGED <<rows, ingester, crashes, ghosts>>

\* create-with-files updates the knowledge base another request created meanwhile.
SaveCreated(q) ==
    /\ At(q, "save")
    /\ kb' = IF Present THEN kb ELSE NewKB
    /\ config' = NewConfig(request[q].mode)
    /\ told' = "none"
    /\ Become(q, [pc |-> "insert", left |-> request[q].left, kind |-> "create",
                  mode |-> request[q].mode])
    /\ UNCHANGED <<version, document, chunks, index, assigned, ingester, operations, crashes,
                   orphaned, crowded>>

Room == Cardinality(InKB) < DocumentLimit

CheckUpload(q) ==
    /\ Present /\ Room
    /\ Begin(q, [pc |-> "insert", left |-> 1, kind |-> "upload", mode |-> "file"])
    /\ UNCHANGED <<rows, ingester, crashes, ghosts>>

PastCheck(q) == request[q].pc \in {"save", "insert"}
Others(q) == {p \in Requests \ {q} : PastCheck(p)}

\* upsert_knowledge_source and create_knowledge_document.
AddDocument(q) ==
    LET d == Cardinality({e \in Documents : document[e] # "none"}) + 1 IN
    /\ At(q, "insert") /\ Present /\ d \in Documents
    /\ document' = [document EXCEPT ![d] = "uploaded"]
    /\ crowded' = IF Others(q) = {} THEN crowded ELSE crowded \cup {d}
    /\ Become(q, IF request[q].left > 1 THEN [request[q] EXCEPT !.left = @ - 1]
                 ELSE IF request[q].kind = "create"
                 THEN [pc |-> "version", mode |-> request[q].mode] ELSE Idle)
    /\ UNCHANGED <<kb, config, version, chunks, index, assigned, ingester, operations, crashes,
                   orphaned, told>>

AddVersion(q, l) ==
    /\ At(q, "version") /\ Present /\ version[l] = NoVersion
    /\ version' = [version EXCEPT ![l] = [mode |-> request[q].mode, published |-> FALSE]]
    /\ Become(q, Idle)
    /\ UNCHANGED <<kb, config, document, chunks, index, assigned, ingester, operations, crashes,
                   ghosts>>

\* create_knowledge_base_version; a version may be created as published.
CreateVersion(l, m, p) ==
    /\ Present /\ version[l] = NoVersion /\ Count
    /\ version' = [version EXCEPT ![l] = [mode |-> m, published |-> p]]
    /\ UNCHANGED <<kb, config, document, chunks, index, assigned, ingester, request, crashes,
                   ghosts>>

\* The knowledge base is gone, the label is taken, or the process dies.
Refuse(q) ==
    /\ request[q] # Idle
    /\ Become(q, Idle)
    /\ UNCHANGED <<rows, ingester, operations, crashes, ghosts>>

-----------------------------------------------------------------------------
\* Writers of source_config: each reads the whole of it and writes the whole

ReadUpdate(q, new) ==
    /\ Present
    /\ Begin(q, [pc |-> "update", seen |-> config, new |-> new])
    /\ UNCHANGED <<rows, ingester, crashes, ghosts>>

ReadPublish(q, l) ==
    /\ Present /\ version[l] # NoVersion
    /\ Begin(q, [pc |-> "publish", seen |-> config, label |-> l])
    /\ UNCHANGED <<rows, ingester, crashes, ghosts>>

LatestOf(S) == IF S = {} THEN 0 ELSE CHOOSE i \in S : \A j \in S : j <= i
Kept == {i \in 1 .. Len(index) : index[i].status # "gone"}

\* _latest_kb_index, which retrieval searches; 0 is none.
LatestIndex ==
    LET meaningful == {i \in Kept : index[i].status # "pending"}
    IN  LatestOf(IF meaningful = {} THEN Kept ELSE meaningful)

\* What evaluate_knowledge_base finds, for the retrieval mode it goes by.
Verdict(m) ==
    IF /\ InKB # {} /\ \E l \in Labels : version[l] # NoVersion
       /\ m = "vector" => /\ LatestIndex # 0 /\ index[LatestIndex].status = "ready"
                          /\ \A d \in InKB : document[d] = "indexed"
                          /\ index[LatestIndex].chunks > 0
    THEN "passed" ELSE "failed"

\* Without a mode in source_config that of the latest version counts.
EffectiveModes ==
    IF config.mode # "unset" THEN {config.mode}
    ELSE {"file"} \cup {version[l].mode : l \in {k \in Labels : version[k] # NoVersion}}

ReadEvaluate(q, m) ==
    /\ Present /\ m \in EffectiveModes
    /\ Begin(q, [pc |-> "evaluate", seen |-> config, verdict |-> Verdict(m)])
    /\ UNCHANGED <<rows, ingester, crashes, ghosts>>

\* What was published last stays told unless this write hides it.
CommitUpdate(q) ==
    LET r == request[q] IN
    /\ At(q, "update") /\ Present
    /\ config' = IF r.new = r.seen THEN config ELSE r.new
    /\ told' = IF r.new = r.seen THEN told ELSE "none"
    /\ Become(q, Idle)
    /\ UNCHANGED <<kb, version, document, chunks, index, assigned, ingester, operations, crashes,
                   orphaned, crowded>>

CommitPublish(q) ==
    LET r == request[q]
        new == [r.seen EXCEPT !.mode = version[r.label].mode, !.published = r.label] IN
    /\ At(q, "publish") /\ Present /\ version[r.label] # NoVersion
    /\ version' = [version EXCEPT ![r.label].published = TRUE]
    /\ kb' = [kb EXCEPT !.status = IF version[r.label].mode = "file" THEN "ready" ELSE @]
    /\ config' = IF new = r.seen THEN config ELSE new
    /\ told' = IF new = r.seen /\ config # r.seen THEN "none" ELSE r.label
    /\ Become(q, Idle)
    /\ UNCHANGED <<document, chunks, index, assigned, ingester, operations, crashes,
                   orphaned, crowded>>

Evaluated(r) == [r.seen EXCEPT !.evaluation = r.verdict]

CommitEvaluate(q) ==
    LET r == request[q] IN
    /\ At(q, "evaluate") /\ Present
    /\ config' = Evaluated(r)
    /\ told' = IF config = r.seen THEN told ELSE "none"
    /\ Become(q, Idle)
    /\ UNCHANGED <<kb, version, document, chunks, index, assigned, ingester, operations, crashes,
                   orphaned, crowded>>

-----------------------------------------------------------------------------
\* Assignment and deletion

ReadAssign(q, a) ==
    /\ Present
    /\ Begin(q, [pc |-> "assign", agent |-> a])
    /\ UNCHANGED <<rows, ingester, crashes, ghosts>>

\* The foreign key refuses the row once the knowledge base is gone.
CommitAssign(q) ==
    /\ At(q, "assign") /\ Present
    /\ assigned' = assigned \cup {request[q].agent}
    /\ Become(q, Idle)
    /\ UNCHANGED <<kb, config, version, document, chunks, index, ingester, operations, crashes,
                   ghosts>>

Unassign(a) ==
    /\ a \in assigned /\ Count
    /\ assigned' = assigned \ {a}
    /\ UNCHANGED <<kb, config, version, document, chunks, index, ingester, request, crashes,
                   ghosts>>

ReadDelete(q) ==
    /\ Present /\ assigned = {}
    /\ Begin(q, [pc |-> "delete", seen |-> Rows])
    /\ UNCHANGED <<rows, ingester, crashes, ghosts>>

\* The foreign keys refuse the deletion when a row was inserted meanwhile.
Unreferenced(seen) == assigned = {} /\ Rows = seen

CommitDelete(q) ==
    /\ At(q, "delete") /\ Present /\ Unreferenced(request[q].seen)
    /\ kb' = NoKB
    /\ config' = NewConfig("unset")
    /\ version' = [l \in Labels |-> NoVersion]
    /\ document' = [d \in Documents |-> IF d \in InKB THEN "gone" ELSE document[d]]
    /\ chunks' = {}
    /\ index' = [i \in DOMAIN index |-> [index[i] EXCEPT !.status = "gone"]]
    /\ told' = "none"
    /\ Become(q, Idle)
    /\ UNCHANGED <<assigned, ingester, operations, crashes, orphaned, crowded>>

-----------------------------------------------------------------------------
\* Ingestion

Ingesting(g) == ingester[g] \notin {Idle, Down}
AtStep(g, pc) == ingester[g].pc = pc
Step(g, state) == ingester' = [ingester EXCEPT ![g] = state]
Doc(g) == ingester[g].doc
IndexOf(g) == ingester[g].index

\* Faulty: uploaded documents are not pending.
PendingQueuedOnly(force) ==
    {d \in InKB : force \/ document[d] \in {"queued", "failed"}}

\* The worker passes over file knowledge bases; a sync request may force documents
\* that are indexed or whose ingestion died.
Pending(force) ==
    {d \in InKB : force \/ document[d] \in {"uploaded", "failed"}}

List(g, force) ==
    /\ ingester[g] = Idle /\ Present
    /\ IF g = Worker THEN config.mode # "file" /\ ~force /\ UNCHANGED operations ELSE Count
    /\ LET others == {h \in Ingesters \ {g} : Ingesting(h)} IN
       ingester' = [h \in Ingesters |->
          CASE h = g -> [pc |-> "listed", todo |-> Pending(force), doc |-> 0, index |-> 0,
                         documents |-> 0, chunks |-> 0, alone |-> others = {}]
            [] h \in others -> [ingester[h] EXCEPT !.alone = FALSE]
            [] OTHER -> ingester[h]]
    /\ UNCHANGED <<rows, request, crashes, ghosts>>

NewIndex(status, listed) ==
    [status |-> status, documents |-> Cardinality(listed), chunks |-> 0, listed |-> listed,
     alone |-> FALSE]

\* Nothing to do: the latest index answers, a pending one is created if there is none.
NothingPending(g) ==
    /\ AtStep(g, "listed") /\ Present /\ ingester[g].todo = {}
    /\ IF Kept # {} THEN UNCHANGED index
       ELSE Len(index) < MaxIndexes /\ index' = Append(index, NewIndex("pending", {}))
    /\ Step(g, Idle)
    /\ UNCHANGED <<kb, config, version, document, chunks, assigned, request, operations,
                   crashes, ghosts>>

CreateIndex(g) ==
    /\ AtStep(g, "listed") /\ Present /\ ingester[g].todo # {} /\ Len(index) < MaxIndexes
    /\ index' = Append(index, NewIndex("indexing", ingester[g].todo))
    /\ Step(g, [ingester[g] EXCEPT !.pc = "next", !.index = Len(index) + 1])
    /\ UNCHANGED <<kb, config, version, document, chunks, assigned, request, operations,
                   crashes, ghosts>>

Mark(d, status) == document' = [document EXCEPT ![d] = status]

\* The newest document first.
Parse(g) ==
    LET d == LatestOf(ingester[g].todo) IN
    /\ AtStep(g, "next") /\ ingester[g].todo # {} /\ document[d] # "gone"
    /\ Mark(d, "parsing")
    /\ Step(g, [ingester[g] EXCEPT !.pc = "parsing", !.doc = d])
    /\ orphaned' = orphaned \ {d}
    /\ UNCHANGED <<kb, config, version, chunks, index, assigned, request, operations, crashes,
                   crowded, told>>

\* index_file found text.
Embed(g) ==
    /\ AtStep(g, "parsing") /\ document[Doc(g)] # "gone"
    /\ Mark(Doc(g), "embedding")
    /\ Step(g, [ingester[g] EXCEPT !.pc = "embedding"])
    /\ UNCHANGED <<kb, config, version, chunks, index, assigned, request, operations, crashes,
                   ghosts>>

NextDocument(g) ==
    Step(g, [ingester[g] EXCEPT !.pc = "next", !.doc = 0, !.todo = @ \ {Doc(g)}])

\* index_file, or the parser or the embedding model under it, raised.
IndexFails(g) ==
    /\ AtStep(g, "parsing") /\ document[Doc(g)] # "gone"
    /\ Mark(Doc(g), "failed")
    /\ NextDocument(g)
    /\ UNCHANGED <<kb, config, version, chunks, index, assigned, request, operations, crashes,
                   ghosts>>

\* Faulty: the new chunks are deleted with the old ones.
ReplacedThenDeleted(d, i) == {c \in chunks : c # <<d, i>>}

\* Only the chunks of the same index version are replaced.
Replaced(d, i) == {c \in chunks : c # <<d, i>>} \cup {<<d, i>>}

ReplaceChunks(g) ==
    /\ AtStep(g, "embedding") /\ document[Doc(g)] # "gone"
    /\ chunks' = Replaced(Doc(g), IndexOf(g))
    /\ Step(g, [ingester[g] EXCEPT !.pc = "replaced"])
    /\ UNCHANGED <<kb, config, version, document, index, assigned, request, operations, crashes,
                   ghosts>>

MarkIndexed(g) ==
    /\ AtStep(g, "replaced") /\ document[Doc(g)] # "gone"
    /\ Mark(Doc(g), "indexed")
    /\ NextDocument(g)
    /\ UNCHANGED <<kb, config, version, chunks, index, assigned, request, operations, crashes,
                   ghosts>>

\* Faulty: the chunks of every index version are counted.
IndexedChunksAnywhere(i) == {c \in chunks : document[c[1]] = "indexed"}

\* refresh_knowledge_base_index_state counts in separate statements.
IndexedChunks(i) == {c \in chunks : c[2] = i /\ document[c[1]] = "indexed"}

CountDocuments(g) ==
    /\ AtStep(g, "next") /\ ingester[g].todo = {} /\ index[IndexOf(g)].status # "gone"
    /\ Step(g, [ingester[g] EXCEPT !.pc = "counting",
          !.documents = Cardinality({c[1] : c \in IndexedChunks(IndexOf(g))})])
    /\ UNCHANGED <<rows, request, operations, crashes, ghosts>>

CountChunks(g) ==
    /\ AtStep(g, "counting")
    /\ Step(g, [ingester[g] EXCEPT !.pc = "counted",
          !.chunks = Cardinality(IndexedChunks(IndexOf(g)))])
    /\ UNCHANGED <<rows, request, operations, crashes, ghosts>>

Refreshed(failed, count, empty) ==
    CASE failed /\ count > 0    -> "degraded"
      [] failed /\ count = 0    -> "failed"
      [] ~failed /\ count > 0   -> "ready"
      [] OTHER                  -> empty

Finish(g) ==
    LET r == ingester[g]
        failed == \E d \in InKB : document[d] = "failed" IN
    /\ AtStep(g, "counted") /\ index[r.index].status # "gone"
    /\ kb' = [status |-> Refreshed(failed, r.chunks, "draft"),
              documents |-> r.documents, chunks |-> r.chunks]
    /\ index' = [index EXCEPT ![r.index] =
          [status |-> Refreshed(failed, r.chunks, "pending"),
           documents |-> r.documents, chunks |-> r.chunks, listed |-> @.listed,
           alone |-> r.alone]]
    /\ Step(g, Idle)
    /\ UNCHANGED <<config, version, document, chunks, assigned, request, operations, crashes,
                   ghosts>>

\* Whatever is updated is gone: marking the document failed raises as well, and
\* the worker's loop catches nothing.
Stop(g) == Step(g, IF g = Worker THEN Down ELSE Idle)

Raise(g) ==
    /\ Ingesting(g)
    /\ IF AtStep(g, "listed") THEN ~Present
       ELSE IF Doc(g) # 0 THEN document[Doc(g)] = "gone"
       ELSE IF AtStep(g, "next") /\ ingester[g].todo # {}
            THEN document[LatestOf(ingester[g].todo)] = "gone"
       ELSE index[IndexOf(g)].status = "gone"
    /\ Stop(g)
    /\ UNCHANGED <<rows, request, operations, crashes, ghosts>>

Crash(g) ==
    /\ Ingesting(g) /\ crashes < MaxCrashes
    /\ crashes' = crashes + 1
    /\ orphaned' = orphaned \cup ({Doc(g)} \ {0})
    /\ Stop(g)
    /\ UNCHANGED <<rows, request, operations, crowded, told>>

Restart(g) ==
    /\ ingester[g] = Down
    /\ Step(g, Idle)
    /\ UNCHANGED <<rows, request, operations, crashes, ghosts>>

-----------------------------------------------------------------------------
Ingest(g) ==
    \/ NothingPending(g) \/ CreateIndex(g)
    \/ Parse(g) \/ Embed(g) \/ IndexFails(g) \/ ReplaceChunks(g) \/ MarkIndexed(g)
    \/ CountDocuments(g) \/ CountChunks(g) \/ Finish(g)
    \/ Raise(g)

Request(q) ==
    \/ \E m \in Modes, n \in 1 .. DocumentLimit : CheckCreate(q, m, n)
    \/ SaveCreated(q) \/ CheckUpload(q) \/ AddDocument(q)
    \/ \E l \in Labels : AddVersion(q, l) \/ ReadPublish(q, l)
    \/ \E m \in Modes : ReadUpdate(q, NewConfig(m)) \/ ReadEvaluate(q, m)
    \/ CommitUpdate(q) \/ CommitPublish(q) \/ CommitEvaluate(q)
    \/ \E a \in Agents : ReadAssign(q, a)
    \/ CommitAssign(q) \/ ReadDelete(q) \/ CommitDelete(q) \/ Refuse(q)

Next ==
    \/ \E q \in Requests : Request(q)
    \/ \E m \in Modes \cup {"unset"} : CreateKB(m)
    \/ \E l \in Labels, m \in Modes, p \in BOOLEAN : CreateVersion(l, m, p)
    \/ \E a \in Agents : Unassign(a)
    \/ \E g \in Ingesters :
          \/ \E force \in BOOLEAN : List(g, force)
          \/ Ingest(g) \/ Crash(g) \/ Restart(g)

\* The worker polls while it is up; nothing promises that it is restarted.
Fairness == WF_vars(List(Worker, FALSE)) /\ WF_vars(Ingest(Worker))

Spec == Init /\ [][Next]_vars /\ Fairness

-----------------------------------------------------------------------------
\* Properties

\* Whatever says it is indexed has chunks in an index version that is there.
IndexedHasChunks ==
    \A d \in Documents : document[d] = "indexed" => \E i \in Kept : <<d, i>> \in chunks

\* A document is parsing or embedding only while an ingestion is at it or because
\* one died on it.
InProgressIsHeld ==
    \A d \in Documents : document[d] \in InProgress =>
        d \in orphaned \/ \E g \in Ingesters : Ingesting(g) /\ Doc(g) = d

Finished(i) == index[i].status \in {"ready", "degraded", "failed"}

\* Retrieval searches the latest index version only.  An indexed document is
\* missing from it only if that ingestion had not taken it up, is still under
\* way or died, or ran beside another.
SearchFindsIndexed ==
    LatestIndex # 0 /\ Finished(LatestIndex) /\ index[LatestIndex].alone =>
        \A d \in index[LatestIndex].listed :
            document[d] = "indexed" => <<d, LatestIndex>> \in chunks

\* The counts of an index version are those of its chunks, and one that is ready
\* has all the documents it took up, unless ingestions ran side by side.
CountsAreTrue ==
    \A i \in Kept : Finished(i) /\ index[i].alone =>
        LET own == {c \in chunks : c[2] = i} IN
        /\ index[i].chunks = Cardinality(own)
        /\ index[i].documents = Cardinality({c[1] : c \in own})
        /\ index[i].status = "ready" => index[i].listed = {c[1] : c \in own}

\* A knowledge base says ready only if it has chunks to search or a published
\* version that is read as files.
ReadyIsFounded ==
    kb.status = "ready" =>
        chunks # {} \/ \E l \in Labels : version[l] = [mode |-> "file", published |-> TRUE]

\* Only documents inserted while another request was past its check can exceed
\* the limit.
LimitOfDocuments == Cardinality(InKB \ crowded) <= DocumentLimit

\* No agent is assigned what was deleted.
AssignedIsPresent == assigned # {} => Present

\* The version published last is the one source_config names, with its mode,
\* unless a writer that had read source_config before overwrote it.
PublishedIsTold ==
    told # "none" => config.published = told /\ config.mode = version[told].mode

\* An uploaded document is taken up, unless the worker is down, the knowledge base
\* is read as files, or the bound on index versions is reached.
PendingIsTakenUp ==
    \A d \in Documents :
        document[d] = "uploaded" ~>
            \/ document[d] # "uploaded" \/ config.mode = "file"
            \/ ingester[Worker] = Down \/ Len(index) = MaxIndexes

\* Documents, chunks, index versions and the publication agree with each other in
\* every state, however ingestions, uploads and deletions overlap.
KnowledgeInvariant ==
    /\ TypeOK
    /\ IndexedHasChunks
    /\ InProgressIsHeld
    /\ SearchFindsIndexed
    /\ ReadyIsFounded
    /\ LimitOfDocuments
    /\ AssignedIsPresent
    /\ PublishedIsTold
=============================================================================
