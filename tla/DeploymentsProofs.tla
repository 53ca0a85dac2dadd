-------------------------- MODULE DeploymentsProofs --------------------------
(***************************************************************************)
(* Theorems about Deployments, for every number of workflows, revisions,   *)
(* jobs and requests, whatever overlaps and wherever requests die.         *)
(***************************************************************************)
EXTENDS Deployments, TLAPS

-----------------------------------------------------------------------------
\* Types

\* What a request carries at each of its places.
LEMMA RequestTypes ==
    ASSUME TypeOK, NEW q \in Requests
    PROVE  /\ request[q].pc \in {"compile", "insert"} =>
                /\ request[q].workflow \in Workflows /\ request[q].content \in Contents
                /\ request[q].lapsed \in BOOLEAN
                /\ request[q] \in [pc: {"compile", "insert"}, workflow: Workflows,
                                   content: Contents, lapsed: BOOLEAN]
           /\ At(q, "activate") =>
                /\ request[q].deployment \in Deployments /\ request[q].row \in Revision
                /\ request[q].active \subseteq Deployments
           /\ At(q, "generate") =>
                /\ request[q].deployment \in Deployments
                /\ request[q].left \in 1 .. ArtifactsPerBuild
                /\ request[q] \in [pc: {"generate"}, deployment: Deployments,
                                   left: 1 .. ArtifactsPerBuild]
           /\ At(q, "deploy") => request[q].job \in Jobs
           /\ request[q] = Idle <=> request[q].pc = "idle"
           /\ request[q].pc \in {"idle", "compile", "insert", "activate", "generate", "deploy"}
  <1>1. request[q] \in RequestState \cup {Idle}
    BY DEF TypeOK
  <1>2. CASE request[q] \in [pc: {"compile", "insert"}, workflow: Workflows,
                             content: Contents, lapsed: BOOLEAN]
    BY <1>2 DEF At, Idle
  <1>3. CASE request[q] \in [pc: {"activate"}, deployment: Deployments, row: Revision,
                             active: SUBSET Deployments]
    BY <1>3 DEF At, Idle
  <1>4. CASE request[q] \in [pc: {"generate"}, deployment: Deployments,
                             left: 1 .. ArtifactsPerBuild]
    BY <1>4 DEF At, Idle
  <1>5. CASE request[q] \in [pc: {"deploy"}, job: Jobs]
    BY <1>5 DEF At, Idle
  <1>6. CASE request[q] = Idle
    BY <1>6 DEF At, Idle
  <1> QED BY <1>1, <1>2, <1>3, <1>4, <1>5, <1>6 DEF RequestState

\* A revision has a workflow and a content, a missing one has neither.
LEMMA RevisionTypes ==
    ASSUME TypeOK, NEW d \in Deployments
    PROVE  /\ Exists(d) <=> revision[d] \in Revision
           /\ Exists(d) <=> revision[d].workflow \in Workflows
           /\ ~Exists(d) <=> revision[d].status = "none"
           /\ Exists(d) => revision[d].content \in Contents
           /\ ~Exists(d) => ~revision[d].activated /\ ~revision[d].retired
  <1>1. revision[d] \in Revision \cup {NoRevision}
    BY DEF TypeOK
  <1>2. "none" \notin Workflows \cup Deployments \cup Contents
    BY DeploymentsAssumption
  <1>3. CASE revision[d] \in Revision
    BY <1>2, <1>3 DEF Revision, NoRevision, Exists
  <1>4. CASE revision[d] = NoRevision
    BY <1>2, <1>4 DEF Revision, NoRevision, Exists
  <1> QED BY <1>1, <1>3, <1>4

\* A request goes on, and the others stay where they are.
LEMMA BecomeEffect ==
    ASSUME TypeOK, NEW q \in Requests, NEW state, Become(q, state)
    PROVE  /\ request'[q] = state
           /\ \A p \in Requests : p # q => request'[p] = request[p]
           /\ state \in RequestState \cup {Idle} =>
                request' \in [Requests -> RequestState \cup {Idle}]
  BY DEF TypeOK, Become

\* The rows an activation writes are rows.
LEMMA ActivatedType ==
    ASSUME NEW row \in Revision, NEW seen \in Revision
    PROVE  /\ Activated(row, seen) \in Revision
           /\ Activated(row, seen).workflow = row.workflow
           /\ Activated(row, seen).content = row.content
           /\ Activated(row, seen).activated
           /\ Activated(row, seen).status =
                IF seen.status = "ACTIVE" THEN row.status ELSE "ACTIVE"
           /\ seen.retired => Activated(row, seen).retired = FALSE
           /\ ~seen.retired => Activated(row, seen).retired = row.retired
  BY DEF Activated, Revision

\* So is the row of a revision it retires.
LEMMA RetiredType ==
    ASSUME NEW row \in Revision
    PROVE  /\ RetiredRow(row) \in Revision
           /\ RetiredRow(row).workflow = row.workflow /\ RetiredRow(row).content = row.content
           /\ RetiredRow(row).activated = row.activated
           /\ RetiredRow(row).status = "RETIRED" /\ RetiredRow(row).retired
  BY DEF RetiredRow, Revision

\* What two activations of one slot have read or will write has raced.
LEMMA Overlaps ==
    ASSUME TypeOK, NEW p \in Requests, NEW q \in Requests, p # q, At(p, "activate"),
           At(q, "activate"), SameSlot(request[p].deployment, request[q].deployment)
    PROVE  /\ request[p].deployment \in Overlapping(q) /\ request[q].deployment \in Overlapping(q)
           /\ request[p].active \subseteq Overlapping(q)
           /\ request[q].active \subseteq Overlapping(q)
  BY DEF Overlapping

LEMMA OverlappingType ==
    ASSUME TypeOK, NEW q \in Requests, At(q, "activate")
    PROVE  Overlapping(q) \subseteq Deployments
  <1>1. \A p \in Requests : At(p, "activate") =>
          request[p].deployment \in Deployments /\ request[p].active \subseteq Deployments
    BY RequestTypes
  <1> QED BY <1>1 DEF Overlapping

\* What an activation makes of the revisions.
LEMMA ActivateEffect ==
    ASSUME TypeOK, NEW q \in Requests, Activate(q), Exists(request[q].deployment),
           \A e \in request[q].active : Exists(e) /\ e # request[q].deployment,
           NEW d \in Deployments
    PROVE  /\ d = request[q].deployment => revision'[d] = Activated(revision[d], request[q].row)
           /\ d # request[q].deployment /\ d \in request[q].active =>
                revision'[d] = RetiredRow(revision[d])
           /\ d # request[q].deployment /\ d \notin request[q].active => revision'[d] = revision[d]
           /\ Exists(d) => /\ revision'[d] \in Revision
                           /\ revision'[d].workflow = revision[d].workflow
                           /\ revision'[d].content = revision[d].content
                           /\ revision[d].activated => revision'[d].activated
           /\ ~Exists(d) => revision'[d] = revision[d]
  <1> DEFINE c == request[q].deployment
             a == request[q].active
  <1>1. c \in Deployments /\ request[q].row \in Revision /\ a \subseteq Deployments
    BY RequestTypes DEF Activate
  <1>2. revision' = [e \in Deployments |->
          CASE e = c -> Activated(revision[c], request[q].row)
            [] e \in a -> RetiredRow(revision[e])
            [] OTHER -> revision[e]]
    BY DEF Activate
  <1> HIDE DEF c, a
  <1>3. /\ d = c => revision'[d] = Activated(revision[d], request[q].row)
        /\ d # c /\ d \in a => revision'[d] = RetiredRow(revision[d])
        /\ d # c /\ d \notin a => revision'[d] = revision[d]
    <2>1. revision'[d] = CASE d = c -> Activated(revision[c], request[q].row)
                            [] d \in a -> RetiredRow(revision[d])
                            [] OTHER -> revision[d]
      BY <1>2
    <2>2. d = c => d \notin a
      BY DEF c, a
    <2>3. CASE d = c
      BY <2>1, <2>2, <2>3
    <2>4. CASE d # c /\ d \in a
      BY <2>1, <2>4
    <2>5. CASE d # c /\ d \notin a
      BY <2>1, <2>5
    <2> QED BY <2>3, <2>4, <2>5
  <1>4. ASSUME Exists(d)
        PROVE  /\ revision'[d] \in Revision
               /\ revision'[d].workflow = revision[d].workflow
               /\ revision'[d].content = revision[d].content
               /\ revision[d].activated => revision'[d].activated
    <2>1. revision[d] \in Revision
      BY <1>4, RevisionTypes
    <2>2. CASE d = c
      <3> DEFINE row == Activated(revision[d], request[q].row)
      <3>1. row \in Revision /\ row.workflow = revision[d].workflow
            /\ row.content = revision[d].content /\ row.activated
        BY <1>1, <2>1, ActivatedType
      <3> QED BY <1>3, <2>2, <3>1
    <2>3. CASE d # c /\ d \in a
      <3> DEFINE row == RetiredRow(revision[d])
      <3>1. row \in Revision /\ row.workflow = revision[d].workflow
            /\ row.content = revision[d].content /\ row.activated = revision[d].activated
        BY <2>1, RetiredType
      <3> QED BY <1>3, <2>3, <3>1
    <2>4. CASE d # c /\ d \notin a
      BY <1>3, <2>1, <2>4
    <2> QED BY <2>2, <2>3, <2>4
  <1>5. ~Exists(d) => revision'[d] = revision[d]
    BY <1>3 DEF c, a
  <1> QED BY <1>3, <1>4, <1>5 DEF c, a

\* An activation works on revisions that exist, and does not retire its own.
TargetsExist ==
    \A q \in Requests : At(q, "activate") =>
        /\ Exists(request[q].deployment)
        /\ \A e \in request[q].active : Exists(e) /\ e # request[q].deployment

\* A job being deployed has its row.
JobsOpened == \A q \in Requests : At(q, "deploy") => job[request[q].job] # NoJob

\* A step keeps the types.
LEMMA TypeStep ==
    ASSUME TypeOK, TargetsExist, JobsOpened, [Next]_vars
    PROVE  TypeOK'
  <1>1. \A q \in Requests : request[q] \in RequestState \cup {Idle}
    BY DEF TypeOK
  <1>2. Idle \in RequestState \cup {Idle}
    OBVIOUS
  <1>3. ASSUME NEW w \in Workflows, NEW c \in Contents, Edit(w, c)
        PROVE  TypeOK'
    <2>1. cert' \in [Workflows -> Certificate \cup {NoCert}]
      <3>1. [cert[w] EXCEPT !.status = IF @ = "NONE" THEN @ ELSE "NEEDS_REEVALUATION"]
              \in Certificate \cup {NoCert}
        BY DEF TypeOK, Certificate, NoCert
      <3> QED BY <1>3, <3>1 DEF Edit, TypeOK
    <2> QED BY <1>3, <2>1 DEF Edit, TypeOK, Count
  <1>4. ASSUME NEW w \in Workflows, NEW c \in Contents, Certify(w, c)
        PROVE  TypeOK'
    <2>1. [status |-> "CERTIFIED", hash |-> c] \in Certificate
      BY DEF Certificate
    <2> QED BY <1>4, <2>1 DEF Certify, TypeOK, Count
  <1>5. ASSUME NEW d \in Deployments, NEW n \in 0 .. MaxCases, NEW k \in 0 .. n, RunSuite(d, n, k)
        PROVE  TypeOK'
    <2>1. n \in Nat /\ k \in Nat
      BY DeploymentsAssumption
    <2>2. [deployment |-> d, total |-> n, passed |-> k, result |-> Verdict(n, k)] \in ScenarioRun
      BY <2>1 DEF ScenarioRun, Verdict
    <2> QED BY <1>5, <2>2 DEF RunSuite, TypeOK, Count
  <1>6. ASSUME NEW q \in Requests, NEW w \in Workflows, ReadWorkflow(q, w)
        PROVE  TypeOK'
    <2>1. [pc |-> "compile", workflow |-> w, content |-> workflow[w], lapsed |-> FALSE]
            \in RequestState
      BY DEF RequestState, TypeOK
    <2>2. request' \in [Requests -> RequestState \cup {Idle}]
      BY <1>6, <2>1, BecomeEffect DEF ReadWorkflow
    <2> QED BY <1>6, <2>2 DEF ReadWorkflow, TypeOK, Count
  <1>7. ASSUME NEW q \in Requests, ReadCertificate(q)
        PROVE  TypeOK'
    <2>1. request[q] \in [pc: {"compile", "insert"}, workflow: Workflows,
                          content: Contents, lapsed: BOOLEAN]
      BY <1>7, RequestTypes DEF ReadCertificate, At
    <2>2. \A b \in BOOLEAN : [request[q] EXCEPT !.pc = "insert", !.lapsed = b] \in RequestState
      BY <2>1 DEF RequestState
    <2>3. PICK b \in BOOLEAN : Become(q, [request[q] EXCEPT !.pc = "insert", !.lapsed = b])
      BY <1>7 DEF ReadCertificate
    <2>4. request' \in [Requests -> RequestState \cup {Idle}]
      BY <2>2, <2>3, BecomeEffect
    <2> QED BY <1>7, <2>4 DEF ReadCertificate, TypeOK
  <1>8. ASSUME NEW q \in Requests, NEW d \in Deployments, Insert(q, d)
        PROVE  TypeOK'
    <2>1. request[q].workflow \in Workflows /\ request[q].content \in Contents
      BY <1>8, RequestTypes DEF Insert, At
    <2>2. [workflow |-> request[q].workflow, content |-> request[q].content,
           status |-> "PACKAGED", activated |-> FALSE, retired |-> FALSE] \in Revision
      BY <2>1 DEF Revision
    <2>3. revision' \in [Deployments -> Revision \cup {NoRevision}]
      BY <1>8, <2>2 DEF Insert, TypeOK
    <2>4. request' \in [Requests -> RequestState \cup {Idle}]
      BY <1>8, BecomeEffect DEF Insert
    <2> QED BY <1>8, <2>3, <2>4 DEF Insert, TypeOK
  <1>9. ASSUME NEW q \in Requests, NEW d \in Deployments, ReadActive(q, d)
        PROVE  TypeOK'
    <2>1. revision[d] \in Revision
      BY <1>9, RevisionTypes DEF ReadActive
    <2>2. [pc |-> "activate", deployment |-> d, row |-> revision[d], active |-> ActiveOthers(d)]
            \in RequestState
      BY <2>1 DEF RequestState, ActiveOthers
    <2>3. request' \in [Requests -> RequestState \cup {Idle}]
      BY <1>9, <2>2, BecomeEffect DEF ReadActive
    <2> QED BY <1>9, <2>3 DEF ReadActive, TypeOK, Count
  <1>10. ASSUME NEW q \in Requests, NEW d \in Deployments, Generate(q, d)
         PROVE  TypeOK'
    <2>1. [pc |-> "generate", deployment |-> d, left |-> ArtifactsPerBuild] \in RequestState
      BY DeploymentsAssumption DEF RequestState
    <2>2. request' \in [Requests -> RequestState \cup {Idle}]
      BY <1>10, <2>1, BecomeEffect DEF Generate
    <2> QED BY <1>10, <2>2 DEF Generate, TypeOK, Count
  <1>11. ASSUME NEW q \in Requests, Activate(q)
         PROVE  TypeOK'
    <2>1. At(q, "activate")
      BY <1>11 DEF Activate
    <2>2. \A d \in Deployments : revision'[d] \in Revision \cup {NoRevision}
      BY <1>11, <2>1, ActivateEffect DEF TargetsExist, Exists
    <2>3. revision' \in [Deployments -> Revision \cup {NoRevision}]
      <3>1. revision' = [e \in Deployments |-> revision'[e]]
        BY <1>11 DEF Activate
      <3> QED BY <2>2, <3>1
    <2>4. raced' \subseteq Deployments
      BY <1>11, <2>1, OverlappingType DEF Activate, TypeOK
    <2>5. request' \in [Requests -> RequestState \cup {Idle}]
      BY <1>11, BecomeEffect DEF Activate
    <2> QED BY <1>11, <2>3, <2>4, <2>5 DEF Activate, TypeOK
  <1>12. ASSUME NEW q \in Requests, Persist(q)
         PROVE  TypeOK'
    <2>1. request[q] \in [pc: {"generate"}, deployment: Deployments, left: 1 .. ArtifactsPerBuild]
      BY <1>12, RequestTypes DEF Persist
    <2>2. request[q].left # 1 => [request[q] EXCEPT !.left = @ - 1] \in RequestState
      <3>1. request[q].left # 1 => request[q].left - 1 \in 1 .. ArtifactsPerBuild
        BY <2>1, DeploymentsAssumption
      <3> QED BY <2>1, <3>1 DEF RequestState
    <2>3. request' \in [Requests -> RequestState \cup {Idle}]
      BY <1>12, <2>2, BecomeEffect DEF Persist
    <2>4. artifacts' \in [Deployments -> Nat]
      <3>1. PICK d \in Deployments : artifacts' = [artifacts EXCEPT ![d] = @ + 1]
        BY <1>12, <2>1 DEF Persist
      <3> QED BY <3>1 DEF TypeOK
    <2> QED BY <1>12, <2>3, <2>4 DEF Persist, TypeOK
  <1>13. ASSUME NEW q \in Requests, NEW d \in Deployments, NEW j \in Jobs,
                NEW b \in {"local_compose", "kubernetes"}, OpenJob(q, d, j, b)
         PROVE  TypeOK'
    <2>1. [deployment |-> d, backend |-> b, status |-> "DEPLOYING", completed |-> FALSE] \in Job
      BY DEF Job
    <2>2. [pc |-> "deploy", job |-> j] \in RequestState
      BY DEF RequestState
    <2>3. request' \in [Requests -> RequestState \cup {Idle}]
      BY <1>13, <2>2, BecomeEffect DEF OpenJob
    <2>4. job' \in [Jobs -> Job \cup {NoJob}]
      BY <1>13, <2>1 DEF OpenJob, TypeOK
    <2> QED BY <1>13, <2>3, <2>4 DEF OpenJob, TypeOK, Count
  <1>14. ASSUME NEW q \in Requests, NEW st \in {"DEPLOYING", "RUNNING", "FAILED"}, CloseJob(q, st)
         PROVE  TypeOK'
    <2>1. At(q, "deploy") /\ request[q].job \in Jobs
      BY <1>14, RequestTypes DEF CloseJob
    <2>2. job[request[q].job] \in Job
      BY <2>1 DEF JobsOpened, TypeOK
    <2>3. Stamped([job[request[q].job] EXCEPT !.status = st]) \in Job
      BY <2>2 DEF Stamped, Job
    <2>4. job' \in [Jobs -> Job \cup {NoJob}]
      BY <1>14, <2>3 DEF CloseJob, TypeOK
    <2>5. request' \in [Requests -> RequestState \cup {Idle}]
      BY <1>14, BecomeEffect DEF CloseJob
    <2> QED BY <1>14, <2>4, <2>5 DEF CloseJob, TypeOK
  <1>15. ASSUME NEW q \in Requests, Die(q)
         PROVE  TypeOK'
    <2>1. cut' \subseteq Deployments \cup Jobs
      BY <1>15, RequestTypes DEF Die, TypeOK, At
    <2>2. request' \in [Requests -> RequestState \cup {Idle}]
      BY <1>15, BecomeEffect DEF Die
    <2> QED BY <1>15, <2>1, <2>2 DEF Die, TypeOK
  <1>16. CASE UNCHANGED vars
    BY <1>16 DEF vars, TypeOK
  <1> QED BY <1>3, <1>4, <1>5, <1>6, <1>7, <1>8, <1>9, <1>10, <1>11, <1>12, <1>13, <1>14, <1>15,
             <1>16 DEF Next

-----------------------------------------------------------------------------
\* What a step may do

\* A request goes on by its own steps alone.
LEMMA OwnMoves ==
    ASSUME TypeOK, [Next]_vars, NEW q \in Requests, request'[q] # request[q]
    PROVE  \/ \E w \in Workflows : ReadWorkflow(q, w)
           \/ ReadCertificate(q)
           \/ \E d \in Deployments : Insert(q, d) \/ ReadActive(q, d) \/ Generate(q, d)
           \/ Activate(q)
           \/ Persist(q)
           \/ \E d \in Deployments, j \in Jobs, b \in {"local_compose", "kubernetes"} :
                 OpenJob(q, d, j, b)
           \/ \E st \in {"DEPLOYING", "RUNNING", "FAILED"} : CloseJob(q, st)
           \/ Die(q)
  <1>1. ASSUME NEW p \in Requests, NEW state, Become(p, state)
        PROVE  p = q
    BY <1>1, BecomeEffect
  <1>2. CASE \/ \E w \in Workflows, c \in Contents : Edit(w, c) \/ Certify(w, c)
             \/ \E d \in Deployments, n \in 0 .. MaxCases : \E k \in 0 .. n : RunSuite(d, n, k)
             \/ UNCHANGED vars
    BY <1>2 DEF Edit, Certify, RunSuite, vars
  <1>3. ASSUME NEW p \in Requests,
               \/ \E w \in Workflows : ReadWorkflow(p, w)
               \/ ReadCertificate(p)
               \/ \E d \in Deployments : Insert(p, d) \/ ReadActive(p, d) \/ Generate(p, d)
               \/ Activate(p)
               \/ Persist(p)
        PROVE  p = q
    BY <1>1, <1>3 DEF ReadWorkflow, ReadCertificate, Insert, ReadActive, Generate, Activate, Persist
  <1>4. ASSUME NEW p \in Requests,
               \/ \E d \in Deployments, j \in Jobs, b \in {"local_compose", "kubernetes"} :
                    OpenJob(p, d, j, b)
               \/ \E st \in {"DEPLOYING", "RUNNING", "FAILED"} : CloseJob(p, st)
               \/ Die(p)
        PROVE  p = q
    BY <1>1, <1>4 DEF OpenJob, CloseJob, Die
  <1> QED BY <1>2, <1>3, <1>4 DEF Next

\* Who writes the revisions, and what only grows.
LEMMA RevisionWrites ==
    ASSUME TypeOK, TargetsExist, [Next]_vars
    PROVE  /\ scenarios \subseteq scenarios' /\ raced \subseteq raced' /\ cut \subseteq cut'
           /\ outdated \subseteq outdated'
           /\ \/ revision' = revision
              \/ \E p \in Requests, x \in Deployments : Insert(p, x)
              \/ \E p \in Requests : Activate(p)
  <1>1. CASE \E w \in Workflows, c \in Contents : Edit(w, c) \/ Certify(w, c)
    BY <1>1 DEF Edit, Certify
  <1>2. CASE \E d \in Deployments, n \in 0 .. MaxCases : \E k \in 0 .. n : RunSuite(d, n, k)
    BY <1>2 DEF RunSuite
  <1>3. ASSUME NEW q \in Requests,
               \/ \E w \in Workflows : ReadWorkflow(q, w)
               \/ ReadCertificate(q)
               \/ \E d \in Deployments : ReadActive(q, d) \/ Generate(q, d)
               \/ Persist(q)
               \/ \E d \in Deployments, j \in Jobs, b \in {"local_compose", "kubernetes"} :
                    OpenJob(q, d, j, b)
               \/ \E st \in {"DEPLOYING", "RUNNING", "FAILED"} : CloseJob(q, st)
        PROVE  UNCHANGED <<revision, scenarios, raced, cut, outdated>>
    BY <1>3 DEF ReadWorkflow, ReadCertificate, ReadActive, Generate, Persist, OpenJob, CloseJob
  <1>4. CASE \E q \in Requests : Activate(q) \/ \E d \in Deployments : Insert(q, d)
    BY <1>4 DEF Activate, Insert
  <1>5. CASE \E q \in Requests : Die(q)
    BY <1>5 DEF Die
  <1>6. CASE UNCHANGED vars
    BY <1>6 DEF vars
  <1> QED BY <1>1, <1>2, <1>3, <1>4, <1>5, <1>6 DEF Next

\* The row of an INSERT.
LEMMA InsertEffect ==
    ASSUME TypeOK, NEW p \in Requests, NEW x \in Deployments, Insert(p, x)
    PROVE  /\ ~Exists(x) /\ Exists(x)' /\ At(p, "insert")
           /\ revision'[x].workflow = request[p].workflow
           /\ revision'[x].content = request[p].content
           /\ revision'[x].status = "PACKAGED"
           /\ ~revision'[x].activated /\ ~revision'[x].retired
           /\ \A d \in Deployments : d # x => revision'[d] = revision[d]
  BY DEF Insert, TypeOK, Exists, NoRevision

\* A revision stays the workflow it was compiled from, as it was then.
LEMMA RevisionsKept ==
    ASSUME TypeOK, TargetsExist, [Next]_vars, NEW d \in Deployments, Exists(d)
    PROVE  /\ Exists(d)'
           /\ revision'[d].workflow = revision[d].workflow
           /\ revision'[d].content = revision[d].content
           /\ revision[d].activated => revision'[d].activated
  <1>1. CASE revision' = revision
    BY <1>1 DEF Exists
  <1>2. ASSUME NEW p \in Requests, NEW x \in Deployments, Insert(p, x)
        PROVE  revision'[d] = revision[d]
    BY <1>2, InsertEffect
  <1>3. ASSUME NEW p \in Requests, Activate(p)
        PROVE  /\ revision'[d] \in Revision
               /\ revision'[d].workflow = revision[d].workflow
               /\ revision'[d].content = revision[d].content
               /\ revision[d].activated => revision'[d].activated
    <2>1. At(p, "activate")
      BY <1>3 DEF Activate
    <2> QED BY <1>3, <2>1, ActivateEffect DEF TargetsExist
  <1>4. revision'[d] \in Revision => Exists(d)'
    BY DeploymentsAssumption DEF Exists, Revision, NoRevision
  <1> QED BY <1>1, <1>2, <1>3, <1>4, RevisionWrites DEF Exists

\* Revisions of one slot stay in one slot.
LEMMA SlotsKept ==
    ASSUME TypeOK, TargetsExist, [Next]_vars, NEW d \in Deployments, NEW e \in Deployments,
           Exists(d), Exists(e)
    PROVE  SameSlot(d, e)' <=> SameSlot(d, e)
  BY RevisionsKept DEF SameSlot

-----------------------------------------------------------------------------
\* Activations

\* What an activation of d has read still holds, but for what an overlapping one
\* has written: the row of d and the active revisions of its slot.
AsRead(d, row, active) ==
    /\ Exists(d) /\ ActivationAllowed(d)
    /\ row.status # "RETIRED"
    /\ d \in raced \/ revision[d] = row
    /\ \A e \in active :
         /\ Exists(e) /\ SameSlot(d, e) /\ e # d
         /\ e \in raced \/ revision[e].status = "ACTIVE"
    /\ \A e \in Deployments :
         Exists(e) /\ SameSlot(d, e) /\ revision[e].status = "ACTIVE" =>
            e = d \/ e \in active \/ (d \in raced /\ e \in raced)

ActivationsRead ==
    \A q \in Requests : At(q, "activate") =>
        AsRead(request[q].deployment, request[q].row, request[q].active)

LEMMA ReadsTargets == ActivationsRead => TargetsExist
  BY DEF ActivationsRead, AsRead, TargetsExist

\* An activation that has read keeps what it has read through the steps of others.
LEMMA AsReadKept ==
    ASSUME TypeOK, ActivationsRead, [Next]_vars, NEW q \in Requests,
           At(q, "activate"), request'[q] = request[q],
           NEW d, d = request[q].deployment, NEW row, row = request[q].row,
           NEW active, active = request[q].active
    PROVE  AsRead(d, row, active)'
  <1>1. AsRead(d, row, active)
    BY DEF ActivationsRead
  <1>2. d \in Deployments /\ active \subseteq Deployments
    BY RequestTypes
  <1>3. TargetsExist
    BY ReadsTargets
  <1>4. Exists(d)' /\ \A e \in active : Exists(e)' /\ SameSlot(d, e)' /\ e # d
    BY <1>1, <1>2, <1>3, RevisionsKept, SlotsKept DEF AsRead
  <1>5. ActivationAllowed(d)'
    <2>1. revision'[d].content = revision[d].content /\ scenarios \subseteq scenarios'
      BY <1>1, <1>2, <1>3, RevisionsKept, RevisionWrites DEF AsRead
    <2>2. ActivationAllowed(d)
      BY <1>1 DEF AsRead
    <2> QED BY <2>1, <2>2 DEF ActivationAllowed, Production
  <1>6. raced \subseteq raced'
    BY <1>3, RevisionWrites
  <1>7. row.status # "RETIRED"
    BY <1>1 DEF AsRead
  <1> DEFINE Holds ==
               /\ d \in raced' \/ revision'[d] = row
               /\ \A e \in active : e \in raced' \/ revision'[e].status = "ACTIVE"
               /\ \A e \in Deployments :
                    Exists(e)' /\ SameSlot(d, e)' /\ revision'[e].status = "ACTIVE" =>
                       e = d \/ e \in active \/ (d \in raced' /\ e \in raced')
             Confined(S) ==
               /\ S \subseteq raced'
               /\ d \in S \/ revision'[d] = revision[d]
               /\ \A e \in active : e \in S \/ revision'[e] = revision[e]
               /\ \A e \in Deployments :
                    Exists(e)' /\ SameSlot(d, e)' /\ revision'[e].status = "ACTIVE" =>
                       (revision'[e] = revision[e] /\ Exists(e)) \/ (d \in S /\ e \in S)
  <1>8. SUFFICES Holds
    BY <1>4, <1>5, <1>7 DEF AsRead
  <1>9. ASSUME NEW S, Confined(S)
        PROVE  Holds
    <2>1. d \in raced' \/ revision'[d] = row
      BY <1>1, <1>6, <1>9 DEF AsRead
    <2>2. \A e \in active : e \in raced' \/ revision'[e].status = "ACTIVE"
      BY <1>1, <1>6, <1>9 DEF AsRead
    <2>3. ASSUME NEW e \in Deployments, Exists(e)', SameSlot(d, e)', revision'[e].status = "ACTIVE"
          PROVE  e = d \/ e \in active \/ (d \in raced' /\ e \in raced')
      <3>1. CASE d \in S /\ e \in S
        BY <1>9, <3>1
      <3>2. CASE revision'[e] = revision[e] /\ Exists(e)
        <4>1. SameSlot(d, e)
          BY <1>1, <1>2, <1>3, <2>3, <3>2, SlotsKept DEF AsRead
        <4> QED BY <1>1, <1>6, <2>3, <3>2, <4>1 DEF AsRead
      <3> QED BY <1>9, <2>3, <3>1, <3>2
    <2> QED BY <2>1, <2>2, <2>3
  <1> HIDE DEF Holds, Confined
  <1>10. CASE revision' = revision
    <2>1. Confined({})
      BY <1>2, <1>10 DEF Confined, Exists
    <2> QED BY <1>9, <2>1
  <1>11. ASSUME NEW p \in Requests, NEW x \in Deployments, Insert(p, x)
         PROVE  Holds
    <2>1. x # d /\ x \notin active
      BY <1>1, <1>11, InsertEffect DEF AsRead
    <2>2. /\ revision'[x].status # "ACTIVE"
          /\ \A e \in Deployments : e # x => revision'[e] = revision[e]
      BY <1>11, InsertEffect
    <2>3. Confined({})
      BY <1>1, <1>2, <2>1, <2>2 DEF Confined, Exists, AsRead
    <2> QED BY <1>9, <2>3
  <1>12. ASSUME NEW p \in Requests, Activate(p)
         PROVE  Holds
    <2>1. p # q /\ At(p, "activate")
      <3>1. request'[p] = Idle /\ At(p, "activate")
        BY <1>12, BecomeEffect DEF Activate
      <3> QED BY <3>1 DEF At, Idle
    <2>2. PICK c \in Deployments : c = request[p].deployment
      BY <2>1, RequestTypes
    <2>3. PICK a \in SUBSET Deployments : a = request[p].active
      BY <2>1, RequestTypes
    <2>4. Exists(c) /\ \A e \in a : Exists(e) /\ SameSlot(c, e) /\ e # c
      BY <2>1, <2>2, <2>3 DEF ActivationsRead, AsRead
    <2>5. \A e \in Deployments :
            /\ e # c /\ e \notin a => revision'[e] = revision[e]
            /\ e # c /\ e \in a => revision'[e] = RetiredRow(revision[e])
            /\ ~Exists(e) => revision'[e] = revision[e]
      BY <1>12, <2>2, <2>3, <2>4, ActivateEffect
    <2>6. \A e \in Deployments : Exists(e)' => Exists(e)
      BY <2>5 DEF Exists
    <2>7. \A e \in a : revision'[e].status # "ACTIVE"
      <3> SUFFICES ASSUME NEW e \in a PROVE revision'[e].status # "ACTIVE"
        OBVIOUS
      <3>1. revision[e] \in Revision
        BY <2>4, RevisionTypes
      <3>2. RetiredRow(revision[e]).status = "RETIRED"
        BY <3>1, RetiredType
      <3> QED BY <2>4, <2>5, <3>2
    <2>8. CASE SameSlot(c, d)
      <3> DEFINE S == {c, d} \cup a \cup active
      <3>1. S \subseteq raced' /\ S \subseteq Deployments
        <4>1. S \subseteq Overlapping(p)
          <5>1. SameSlot(request[q].deployment, request[p].deployment)
            BY <2>2, <2>8 DEF SameSlot
          <5> QED BY <2>1, <2>2, <2>3, <5>1, Overlaps
        <4> QED BY <1>2, <1>12, <4>1 DEF Activate
      <3>2. \A e \in Deployments :
              Exists(e)' /\ SameSlot(d, e)' /\ revision'[e].status = "ACTIVE" =>
                \/ revision'[e] = revision[e] /\ Exists(e)
                \/ d \in S /\ e \in S
        BY <2>5, <2>6, <2>7
      <3>3. d \in S /\ \A e \in active : e \in S
        OBVIOUS
      <3> HIDE DEF S
      <3>4. Confined(S)
        BY <3>1, <3>2, <3>3 DEF Confined
      <3> QED BY <1>9, <3>4
    <2>9. CASE ~SameSlot(c, d)
      <3>1. \A e \in Deployments : SameSlot(d, e) => e # c /\ e \notin a
        BY <2>4, <2>9 DEF SameSlot
      <3>2. revision'[d] = revision[d] /\ \A e \in active : revision'[e] = revision[e]
        <4>1. SameSlot(d, d) /\ \A e \in active : SameSlot(d, e)
          BY <1>1 DEF AsRead, SameSlot
        <4> QED BY <1>2, <2>5, <3>1, <4>1
      <3>3. ASSUME NEW e \in Deployments, Exists(e)', SameSlot(d, e)'
            PROVE  revision'[e] = revision[e] /\ Exists(e)
        <4>1. Exists(e) /\ SameSlot(d, e)
          BY <1>1, <1>2, <1>3, <2>6, <3>3, SlotsKept DEF AsRead
        <4> QED BY <2>5, <3>1, <4>1
      <3>4. Confined({})
        BY <3>2, <3>3 DEF Confined
      <3> QED BY <1>9, <3>4
    <2> QED BY <2>8, <2>9
  <1> QED BY <1>3, <1>10, <1>11, <1>12, RevisionWrites

\* So does every activation.
LEMMA ActivationsStep ==
    ASSUME TypeOK, ActivationsRead, [Next]_vars
    PROVE  ActivationsRead'
  <1> SUFFICES ASSUME NEW q \in Requests, At(q, "activate")'
               PROVE  AsRead(request[q].deployment, request[q].row, request[q].active)'
    BY DEF ActivationsRead
  <1>0. ASSUME NEW d, NEW row, NEW active, request'[q].deployment = d, request'[q].row = row,
               request'[q].active = active, AsRead(d, row, active)'
        PROVE  AsRead(request[q].deployment, request[q].row, request[q].active)'
    BY <1>0 DEF AsRead, Exists, ActivationAllowed, SameSlot
  <1>1. CASE request'[q] = request[q]
    <2>1. At(q, "activate")
      BY <1>1 DEF At
    <2>2. PICK d, row, active : /\ d = request[q].deployment /\ row = request[q].row
                                /\ active = request[q].active
      OBVIOUS
    <2>3. AsRead(d, row, active)'
      BY <1>1, <2>1, <2>2, AsReadKept
    <2> QED BY <1>0, <1>1, <2>2, <2>3
  <1>2. ASSUME NEW d \in Deployments, ReadActive(q, d)
        PROVE  AsRead(request[q].deployment, request[q].row, request[q].active)'
    <2>1. request'[q] = [pc |-> "activate", deployment |-> d, row |-> revision[d],
                         active |-> ActiveOthers(d)]
      BY <1>2, BecomeEffect DEF ReadActive
    <2>2. request'[q].deployment = d /\ request'[q].row = revision[d]
          /\ request'[q].active = ActiveOthers(d)
      BY <2>1
    <2>3. revision' = revision /\ scenarios' = scenarios /\ raced' = raced
      BY <1>2 DEF ReadActive
    <2>4. Exists(d) /\ ActivationAllowed(d) /\ revision[d].status # "RETIRED"
      BY <1>2 DEF ReadActive, Activatable
    <2>5. PICK row, active : row = revision[d] /\ active = ActiveOthers(d)
      OBVIOUS
    <2>6. AsRead(d, row, active)
      BY <2>4, <2>5 DEF AsRead, ActiveOthers
    <2>7. AsRead(d, row, active)'
      BY <2>3, <2>6 DEF AsRead, Exists, ActivationAllowed, SameSlot
    <2> QED BY <1>0, <2>2, <2>5, <2>7
  <1>3. CASE ~(request'[q] = request[q]) /\ ~\E d \in Deployments : ReadActive(q, d)
    <2>1. ASSUME NEW state, Become(q, state), state.pc # "activate"
          PROVE  FALSE
      BY <2>1, BecomeEffect DEF At
    <2>2. ASSUME ReadCertificate(q)
          PROVE  FALSE
      <3>1. request[q] \in [pc: {"compile", "insert"}, workflow: Workflows,
                            content: Contents, lapsed: BOOLEAN]
        BY <2>2, RequestTypes DEF ReadCertificate, At
      <3>2. PICK b : Become(q, [request[q] EXCEPT !.pc = "insert", !.lapsed = b])
        BY <2>2 DEF ReadCertificate
      <3>3. [request[q] EXCEPT !.pc = "insert", !.lapsed = b].pc # "activate"
        BY <3>1
      <3> QED BY <2>1, <3>2, <3>3
    <2>3. ASSUME Persist(q)
          PROVE  FALSE
      <3>1. request'[q].pc \in {"idle", "generate"}
        BY <2>3, RequestTypes, BecomeEffect DEF Persist, At, Idle
      <3> QED BY <3>1 DEF At
    <2>4. ASSUME \/ \E w \in Workflows : ReadWorkflow(q, w)
                 \/ \E d \in Deployments : Generate(q, d)
                 \/ \E d \in Deployments, j \in Jobs, b \in {"local_compose", "kubernetes"} :
                      OpenJob(q, d, j, b)
          PROVE  FALSE
      <3>1. CASE \E w \in Workflows : ReadWorkflow(q, w)
        BY <2>1, <3>1 DEF ReadWorkflow
      <3>2. CASE \E d \in Deployments : Generate(q, d)
        BY <2>1, <3>2 DEF Generate
      <3>3. CASE \E d \in Deployments, j \in Jobs, b \in {"local_compose", "kubernetes"} :
                   OpenJob(q, d, j, b)
        BY <2>1, <3>3 DEF OpenJob
      <3> QED BY <2>4, <3>1, <3>2, <3>3
    <2>5. ASSUME \/ \E d \in Deployments : Insert(q, d)
                 \/ \E st \in {"DEPLOYING", "RUNNING", "FAILED"} : CloseJob(q, st)
                 \/ Activate(q) \/ Die(q)
          PROVE  FALSE
      BY <2>1, <2>5 DEF Insert, CloseJob, Activate, Die, Idle
    <2> QED BY <1>3, <2>2, <2>3, <2>4, <2>5, OwnMoves
  <1> QED BY <1>1, <1>2, <1>3

-----------------------------------------------------------------------------
\* Who moves a request

\* A job is left by closing it or by dying at it.
LEMMA LeavesDeploy ==
    ASSUME TypeOK, [Next]_vars, NEW q \in Requests, At(q, "deploy"), request'[q] # request[q]
    PROVE  Die(q) \/ \E st \in {"DEPLOYING", "RUNNING", "FAILED"} : CloseJob(q, st)
  <1>1. request[q] # Idle
    BY DEF At, Idle
  <1>2. ~(\E w \in Workflows : ReadWorkflow(q, w)) /\ ~ReadCertificate(q)
    BY <1>1 DEF ReadWorkflow, ReadCertificate, At
  <1>3. ~(\E d \in Deployments : Insert(q, d) \/ ReadActive(q, d) \/ Generate(q, d))
    BY <1>1 DEF Insert, ReadActive, Generate, At
  <1>4. ~Activate(q) /\ ~Persist(q)
    BY DEF Activate, Persist, At
  <1>5. ~(\E d \in Deployments, j \in Jobs, b \in {"local_compose", "kubernetes"} :
            OpenJob(q, d, j, b))
    BY <1>1 DEF OpenJob
  <1> QED BY <1>2, <1>3, <1>4, <1>5, OwnMoves

\* So is a generation, or by the next artifact.
LEMMA LeavesGenerate ==
    ASSUME TypeOK, [Next]_vars, NEW q \in Requests, At(q, "generate"), request'[q] # request[q]
    PROVE  Die(q) \/ Persist(q)
  <1>1. request[q] # Idle
    BY DEF At, Idle
  <1>2. ~(\E w \in Workflows : ReadWorkflow(q, w)) /\ ~ReadCertificate(q)
    BY <1>1 DEF ReadWorkflow, ReadCertificate, At
  <1>3. ~(\E d \in Deployments : Insert(q, d) \/ ReadActive(q, d) \/ Generate(q, d))
    BY <1>1 DEF Insert, ReadActive, Generate, At
  <1>4. ~Activate(q) /\ ~(\E st \in {"DEPLOYING", "RUNNING", "FAILED"} : CloseJob(q, st))
    BY DEF Activate, CloseJob, At
  <1>5. ~(\E d \in Deployments, j \in Jobs, b \in {"local_compose", "kubernetes"} :
            OpenJob(q, d, j, b))
    BY <1>1 DEF OpenJob
  <1> QED BY <1>2, <1>3, <1>4, <1>5, OwnMoves

-----------------------------------------------------------------------------
\* Compilations

\* What a compilation has read is as it was, or its workflow was edited since;
\* once its certificate is read that certificate covers it, or had lapsed.
CompilationsRead ==
    \A q \in Requests :
        /\ At(q, "compile") => q \in edited \/ request[q].content = workflow[request[q].workflow]
        /\ At(q, "insert") => \/ q \in edited \/ request[q].lapsed
                              \/ request[q].content \in certified[request[q].workflow]

\* A certificate in force is that of a content that was certified.
CertsReal == \A w \in Workflows : cert[w].status = "CERTIFIED" => cert[w].hash \in certified[w]

\* Certificates are withdrawn by edits and issued by evaluations.
LEMMA CertsStep ==
    ASSUME TypeOK, CertsReal, [Next]_vars
    PROVE  CertsReal' /\ \A w \in Workflows : certified[w] \subseteq certified'[w]
  <1>1. ASSUME NEW w \in Workflows, NEW c \in Contents, Edit(w, c)
        PROVE  CertsReal' /\ certified' = certified
    <2>1. certified' = certified
      BY <1>1 DEF Edit
    <2>2. ASSUME NEW x \in Workflows
          PROVE  /\ cert'[x].status = "CERTIFIED" => cert[x].status = "CERTIFIED"
                 /\ cert'[x].hash = cert[x].hash
      <3>1. cert[x] \in Certificate \cup {NoCert}
        BY DEF TypeOK
      <3>2. x # w => cert'[x] = cert[x]
        BY <1>1 DEF Edit, TypeOK
      <3>3. x = w => cert'[x] = [cert[x] EXCEPT !.status =
                                   IF @ = "NONE" THEN @ ELSE "NEEDS_REEVALUATION"]
        BY <1>1 DEF Edit, TypeOK
      <3> QED BY <3>1, <3>2, <3>3 DEF Certificate, NoCert
    <2> QED BY <2>1, <2>2 DEF CertsReal
  <1>2. ASSUME NEW w \in Workflows, NEW c \in Contents, Certify(w, c)
        PROVE  CertsReal' /\ \A x \in Workflows : certified[x] \subseteq certified'[x]
    <2>1. \A x \in Workflows : x # w => certified'[x] = certified[x] /\ cert'[x] = cert[x]
      BY <1>2 DEF Certify, TypeOK
    <2>2. certified'[w] = certified[w] \cup {c} /\ cert'[w].hash = c
      BY <1>2 DEF Certify, TypeOK
    <2> QED BY <2>1, <2>2 DEF CertsReal
  <1>3. CASE \/ \E d \in Deployments, n \in 0 .. MaxCases : \E k \in 0 .. n : RunSuite(d, n, k)
             \/ UNCHANGED vars
    BY <1>3 DEF RunSuite, vars, CertsReal
  <1>4. ASSUME NEW p \in Requests,
               \/ \E w \in Workflows : ReadWorkflow(p, w)
               \/ ReadCertificate(p)
               \/ \E d \in Deployments : Insert(p, d) \/ ReadActive(p, d) \/ Generate(p, d)
               \/ Activate(p)
               \/ Persist(p)
        PROVE  cert' = cert /\ certified' = certified
    BY <1>4 DEF ReadWorkflow, ReadCertificate, Insert, ReadActive, Generate, Activate, Persist
  <1>5. ASSUME NEW p \in Requests,
               \/ \E d \in Deployments, j \in Jobs, b \in {"local_compose", "kubernetes"} :
                    OpenJob(p, d, j, b)
               \/ \E st \in {"DEPLOYING", "RUNNING", "FAILED"} : CloseJob(p, st)
               \/ Die(p)
        PROVE  cert' = cert /\ certified' = certified
    BY <1>5 DEF OpenJob, CloseJob, Die
  <1> QED BY <1>1, <1>2, <1>3, <1>4, <1>5 DEF Next, CertsReal

\* What a compilation has when it has read the certificate.
LEMMA CertificateRead ==
    ASSUME TypeOK, NEW q \in Requests, ReadCertificate(q),
           NEW w, w = request[q].workflow
    PROVE  /\ request'[q].pc = "insert" /\ request'[q].workflow = w
           /\ request'[q].content = request[q].content
           /\ request'[q].lapsed <=> cert[w].status = "CERTIFIED" /\ cert[w].hash # workflow[w]
  <1>1. request[q] \in [pc: {"compile", "insert"}, workflow: Workflows,
                        content: Contents, lapsed: BOOLEAN]
    BY RequestTypes DEF ReadCertificate, At
  <1>2. PICK b \in BOOLEAN :
          /\ b <=> cert[w].status = "CERTIFIED" /\ cert[w].hash # workflow[w]
          /\ Become(q, [request[q] EXCEPT !.pc = "insert", !.lapsed = b])
    BY DEF ReadCertificate
  <1> DEFINE state == [request[q] EXCEPT !.pc = "insert", !.lapsed = b]
  <1>3. state.pc = "insert" /\ state.workflow = request[q].workflow
        /\ state.content = request[q].content
    BY <1>1
  <1>4. state.lapsed <=> b
    BY <1>1
  <1>5. request'[q] = state
    BY <1>2, BecomeEffect
  <1> HIDE DEF state
  <1> QED BY <1>2, <1>3, <1>4, <1>5

\* An edit marks the compilations of its workflow, and their marks stay.
LEMMA EditsMark ==
    ASSUME TypeOK, [Next]_vars, NEW q \in Requests, request[q].pc \in {"compile", "insert"},
           request'[q] = request[q] \/ ReadCertificate(q)
    PROVE  /\ q \in edited => q \in edited'
           /\ q \in edited' \/ workflow'[request[q].workflow] = workflow[request[q].workflow]
  <1>1. request[q].workflow \in Workflows
    BY RequestTypes
  <1>2. ASSUME NEW w \in Workflows, NEW c \in Contents, Edit(w, c)
        PROVE  /\ q \in edited => q \in edited'
               /\ q \in edited' \/ workflow'[request[q].workflow] = workflow[request[q].workflow]
    BY <1>1, <1>2 DEF Edit, TypeOK
  <1>3. CASE \/ \E w \in Workflows, c \in Contents : Certify(w, c)
             \/ \E d \in Deployments, n \in 0 .. MaxCases : \E k \in 0 .. n : RunSuite(d, n, k)
             \/ UNCHANGED vars
    BY <1>3 DEF Certify, RunSuite, vars
  <1>4. ASSUME NEW p \in Requests,
               \/ \E w \in Workflows : ReadWorkflow(p, w)
               \/ ReadCertificate(p)
               \/ \E d \in Deployments : ReadActive(p, d) \/ Generate(p, d)
               \/ Activate(p)
               \/ Persist(p)
        PROVE  edited' = edited /\ workflow' = workflow
    BY <1>4 DEF ReadWorkflow, ReadCertificate, ReadActive, Generate, Activate, Persist
  <1>5. ASSUME NEW p \in Requests,
               \/ \E d \in Deployments, j \in Jobs, b \in {"local_compose", "kubernetes"} :
                    OpenJob(p, d, j, b)
               \/ \E st \in {"DEPLOYING", "RUNNING", "FAILED"} : CloseJob(p, st)
        PROVE  edited' = edited /\ workflow' = workflow
    BY <1>5 DEF OpenJob, CloseJob
  <1>6. ASSUME NEW p \in Requests, Die(p) \/ \E d \in Deployments : Insert(p, d)
        PROVE  edited' = edited \ {p} /\ workflow' = workflow /\ p # q
    <2>1. request'[p] = Idle /\ edited' = edited \ {p} /\ workflow' = workflow
      BY <1>6, BecomeEffect DEF Die, Insert
    <2>2. CASE p = q
      <3>1. request'[q] # request[q]
        BY <2>1, <2>2 DEF Idle
      <3>2. ReadCertificate(q)
        BY <3>1
      <3>3. workflow' = workflow /\ edited' = edited
        BY <3>2 DEF ReadCertificate
      <3>4. request'[q].pc = "insert"
        BY <3>2, CertificateRead
      <3> QED BY <2>1, <2>2, <3>4 DEF Idle
    <2> QED BY <2>1, <2>2
  <1> QED BY <1>2, <1>3, <1>4, <1>5, <1>6 DEF Next

\* A step keeps the compilations as they have read.
LEMMA CompilationsStep ==
    ASSUME TypeOK, CertsReal, CompilationsRead, [Next]_vars
    PROVE  CompilationsRead'
  <1> SUFFICES ASSUME NEW q \in Requests
               PROVE  /\ At(q, "compile")' =>
                           q \in edited' \/ request'[q].content = workflow'[request'[q].workflow]
                      /\ At(q, "insert")' =>
                           \/ q \in edited' \/ request'[q].lapsed
                           \/ request'[q].content \in certified'[request'[q].workflow]
    BY DEF CompilationsRead
  <1>1. \A w \in Workflows : certified[w] \subseteq certified'[w]
    BY CertsStep
  <1>2. CASE request'[q] = request[q] /\ request[q].pc \in {"compile", "insert"}
    <2>1. /\ q \in edited => q \in edited'
          /\ q \in edited' \/ workflow'[request[q].workflow] = workflow[request[q].workflow]
      BY <1>2, EditsMark
    <2>2. request[q].workflow \in Workflows
      BY <1>2, RequestTypes
    <2> QED BY <1>1, <1>2, <2>1, <2>2 DEF CompilationsRead, At
  <1>3. ASSUME NEW w \in Workflows, ReadWorkflow(q, w)
        PROVE  request'[q].pc = "compile" /\ request'[q].content = workflow'[request'[q].workflow]
    BY <1>3, BecomeEffect DEF ReadWorkflow
  <1>4. CASE ReadCertificate(q)
    <2>1. At(q, "compile") /\ workflow' = workflow /\ certified' = certified
          /\ Deployable(request[q].workflow)
      BY <1>4 DEF ReadCertificate
    <2>3. PICK w \in Workflows : w = request[q].workflow
      BY <2>1, RequestTypes DEF At
    <2>4. PICK b \in BOOLEAN : b <=> cert[w].status = "CERTIFIED" /\ cert[w].hash # workflow[w]
      OBVIOUS
    <2>5. /\ request'[q].pc = "insert" /\ request'[q].workflow = w
          /\ request'[q].content = request[q].content
          /\ request'[q].lapsed <=> b
      BY <1>4, <2>3, <2>4, CertificateRead
    <2>6. q \in edited => q \in edited'
      BY <1>4 DEF ReadCertificate
    <2>7. cert[w].status = "CERTIFIED" /\ cert[w].hash \in certified[w]
      BY <2>1, <2>3 DEF Deployable, CertsReal
    <2>8. q \in edited \/ request[q].content = workflow[w]
      BY <2>1, <2>3 DEF CompilationsRead
    <2>9. q \in edited' \/ b \/ request'[q].content \in certified'[w]
      BY <2>1, <2>4, <2>5, <2>6, <2>7, <2>8
    <2> QED BY <2>5, <2>9 DEF At
  <1>5. CASE ~(request'[q] = request[q]) /\ ~(\E w \in Workflows : ReadWorkflow(q, w))
             /\ ~ReadCertificate(q)
    <2>1. ASSUME NEW state, Become(q, state), state.pc \notin {"compile", "insert"}
          PROVE  request'[q].pc \notin {"compile", "insert"}
      BY <2>1, BecomeEffect
    <2>2. CASE \/ \E d \in Deployments : Insert(q, d) \/ ReadActive(q, d) \/ Generate(q, d)
               \/ Activate(q)
      BY <2>1, <2>2 DEF Insert, ReadActive, Generate, Activate, Idle, At
    <2>3. CASE \/ \E d \in Deployments, j \in Jobs, b \in {"local_compose", "kubernetes"} :
                    OpenJob(q, d, j, b)
               \/ \E st \in {"DEPLOYING", "RUNNING", "FAILED"} : CloseJob(q, st)
               \/ Die(q)
      BY <2>1, <2>3 DEF OpenJob, CloseJob, Die, Idle, At
    <2>4. CASE Persist(q)
      <3>1. request[q] \in [pc: {"generate"}, deployment: Deployments, left: 1 .. ArtifactsPerBuild]
        BY <2>4, RequestTypes DEF Persist
      <3>2. request'[q] = Idle \/ request'[q] = [request[q] EXCEPT !.left = @ - 1]
        BY <2>4, BecomeEffect DEF Persist
      <3>3. request'[q].pc \in {"idle", "generate"}
        BY <3>1, <3>2 DEF Idle
      <3> QED BY <3>3 DEF At
    <2> QED BY <1>5, <2>2, <2>3, <2>4, OwnMoves
  <1>6. request[q].pc \notin {"compile", "insert"} /\ request'[q] = request[q] =>
          ~At(q, "compile")' /\ ~At(q, "insert")'
    BY DEF At
  <1> QED BY <1>2, <1>3, <1>4, <1>5, <1>6 DEF At

\* A step keeps the revisions certified.
LEMMA CertifiedStep ==
    ASSUME TypeOK, TargetsExist, CertsReal, CompilationsRead, DeployedWasCertified, [Next]_vars
    PROVE  DeployedWasCertified'
  <1> SUFFICES ASSUME NEW d \in Deployments, Exists(d)'
               PROVE  d \in outdated' \/ revision'[d].content \in certified'[revision'[d].workflow]
    BY DEF DeployedWasCertified
  <1>1. \A w \in Workflows : certified[w] \subseteq certified'[w]
    BY CertsStep
  <1>2. outdated \subseteq outdated'
    BY RevisionWrites
  <1>3. CASE Exists(d)
    <2>1. revision'[d].workflow = revision[d].workflow /\ revision'[d].content = revision[d].content
          /\ revision[d].workflow \in Workflows
      BY <1>3, RevisionsKept, RevisionTypes
    <2> QED BY <1>1, <1>2, <1>3, <2>1 DEF DeployedWasCertified
  <1>4. CASE ~Exists(d)
    <2>1. revision' # revision
      BY <1>4 DEF Exists
    <2>2. ASSUME NEW p \in Requests, Activate(p)
          PROVE  FALSE
      <3>1. At(p, "activate")
        BY <2>2 DEF Activate
      <3>2. revision'[d] = revision[d]
        BY <1>4, <2>2, <3>1, ActivateEffect DEF TargetsExist
      <3> QED BY <1>4, <3>2 DEF Exists
    <2>3. PICK p \in Requests, x \in Deployments : Insert(p, x)
      BY <2>1, <2>2, RevisionWrites
    <2>4. x = d
      BY <1>4, <2>3, InsertEffect DEF Exists
    <2>5. /\ At(p, "insert")
          /\ revision'[d].workflow = request[p].workflow
          /\ revision'[d].content = request[p].content
      BY <2>3, <2>4, InsertEffect
    <2>6. p \in edited \/ request[p].lapsed => d \in outdated'
      BY <2>3, <2>4 DEF Insert
    <2>7. certified' = certified
      BY <2>3 DEF Insert
    <2> QED BY <2>5, <2>6, <2>7 DEF CompilationsRead
  <1> QED BY <1>3, <1>4

-----------------------------------------------------------------------------
\* What an activation leaves

\* What an activation has read holds; its own revision becomes active, those it
\* has read are retired and the others stay.
LEMMA ActivationWrites ==
    ASSUME TypeOK, ActivationsRead, NEW p \in Requests, Activate(p)
    PROVE  \E c \in Deployments, row \in Revision, a \in SUBSET Deployments :
             /\ AsRead(c, row, a)
             /\ \A d \in Deployments :
                  /\ d = c => revision'[d].activated = TRUE
                  /\ d = c /\ revision[d] = row =>
                       revision'[d].status = "ACTIVE" /\ revision'[d].retired = FALSE
                  /\ d # c /\ d \in a =>
                       /\ revision'[d].status = "RETIRED" /\ revision'[d].retired = TRUE
                       /\ revision'[d].activated = revision[d].activated
                  /\ d # c /\ d \notin a => revision'[d] = revision[d]
  <1>1. At(p, "activate")
    BY DEF Activate
  <1>2. PICK c, row, a : /\ c = request[p].deployment
                         /\ row = request[p].row
                         /\ a = request[p].active
    OBVIOUS
  <1>0. c \in Deployments /\ row \in Revision /\ a \in SUBSET Deployments
    BY <1>1, <1>2, RequestTypes
  <1>9. AsRead(c, row, a)
    BY <1>1, <1>2 DEF ActivationsRead
  <1> USE <1>0
  <1> WITNESS c \in Deployments, row \in Revision, a \in SUBSET Deployments
  <1> SUFFICES ASSUME NEW d \in Deployments
               PROVE  /\ d = c => revision'[d].activated = TRUE
                      /\ d = c /\ revision[d] = row =>
                           revision'[d].status = "ACTIVE" /\ revision'[d].retired = FALSE
                      /\ d # c /\ d \in a =>
                           /\ revision'[d].status = "RETIRED" /\ revision'[d].retired = TRUE
                           /\ revision'[d].activated = revision[d].activated
                      /\ d # c /\ d \notin a => revision'[d] = revision[d]
    BY <1>9
  <1>3. Exists(c) /\ \A e \in a : Exists(e) /\ e # c
    BY <1>9 DEF AsRead
  <1>4. /\ d = c => revision'[d] = Activated(revision[d], row)
        /\ d # c /\ d \in a => revision'[d] = RetiredRow(revision[d])
        /\ d # c /\ d \notin a => revision'[d] = revision[d]
    BY <1>2, <1>3, ActivateEffect
  <1>5. ASSUME d = c
        PROVE  /\ revision'[d].activated = TRUE
               /\ revision[d] = row =>
                    revision'[d].status = "ACTIVE" /\ revision'[d].retired = FALSE
    <2>1. revision[d] \in Revision
      BY <1>3, <1>5, RevisionTypes
    <2> DEFINE new == Activated(revision[d], row)
    <2>2. /\ new.activated
          /\ new.status = IF row.status = "ACTIVE" THEN revision[d].status ELSE "ACTIVE"
          /\ row.retired => new.retired = FALSE
          /\ ~row.retired => new.retired = revision[d].retired
      BY <1>0, <2>1, ActivatedType
    <2>3. new \in Revision /\ row.retired \in BOOLEAN
      BY <1>0, <2>1, ActivatedType DEF Revision
    <2>4. new.activated = TRUE
      BY <2>2, <2>3 DEF Revision
    <2> HIDE DEF new
    <2>5. revision'[d] = new
      BY <1>4, <1>5 DEF new
    <2> QED BY <2>2, <2>3, <2>4, <2>5
  <1>6. ASSUME d # c, d \in a
        PROVE  /\ revision'[d].status = "RETIRED" /\ revision'[d].retired = TRUE
               /\ revision'[d].activated = revision[d].activated
    <2>1. revision[d] \in Revision
      BY <1>3, <1>6, RevisionTypes
    <2> DEFINE new == RetiredRow(revision[d])
    <2>2. new.status = "RETIRED" /\ new.retired /\ new.activated = revision[d].activated
          /\ new \in Revision
      BY <2>1, RetiredType
    <2>3. new.retired = TRUE
      BY <2>2 DEF Revision
    <2> HIDE DEF new
    <2>4. revision'[d] = new
      BY <1>4, <1>6 DEF new
    <2> QED BY <2>2, <2>3, <2>4
  <1> QED BY <1>4, <1>5, <1>6

\* A step keeps one active revision in a slot.
LEMMA OneActiveStep ==
    ASSUME TypeOK, ActivationsRead, OneActive, [Next]_vars
    PROVE  OneActive'
  <1>1. TargetsExist
    BY ReadsTargets
  <1>2. raced \subseteq raced'
    BY <1>1, RevisionWrites
  <1> SUFFICES ASSUME NEW d \in Deployments, NEW e \in Deployments,
                      Exists(d)', Exists(e)', SameSlot(d, e)',
                      revision'[d].status = "ACTIVE", revision'[e].status = "ACTIVE"
               PROVE  d = e \/ (d \in raced' /\ e \in raced')
    BY DEF OneActive
  <1>3. ASSUME revision'[d] = revision[d], revision'[e] = revision[e]
        PROVE  d = e \/ (d \in raced' /\ e \in raced')
    <2>1. Exists(d) /\ Exists(e)
      BY <1>3 DEF Exists
    <2>2. SameSlot(d, e)
      BY <1>1, <2>1, SlotsKept
    <2> QED BY <1>2, <1>3, <2>1, <2>2 DEF OneActive
  <1>4. CASE revision' = revision
    BY <1>3, <1>4
  <1>5. ASSUME NEW p \in Requests, NEW x \in Deployments, Insert(p, x)
        PROVE  d = e \/ (d \in raced' /\ e \in raced')
    <2>1. x # d /\ x # e
      BY <1>5, InsertEffect
    <2> QED BY <1>3, <1>5, <2>1, InsertEffect
  <1>6. ASSUME NEW p \in Requests, Activate(p)
        PROVE  d = e \/ (d \in raced' /\ e \in raced')
    <2>1. PICK c \in Deployments, row \in Revision, a \in SUBSET Deployments :
            /\ AsRead(c, row, a)
            /\ \A f \in Deployments :
                 /\ f = c => revision'[f].activated = TRUE
                 /\ f = c /\ revision[f] = row =>
                      revision'[f].status = "ACTIVE" /\ revision'[f].retired = FALSE
                 /\ f # c /\ f \in a =>
                      /\ revision'[f].status = "RETIRED" /\ revision'[f].retired = TRUE
                      /\ revision'[f].activated = revision[f].activated
                 /\ f # c /\ f \notin a => revision'[f] = revision[f]
      BY <1>6, ActivationWrites
    <2>2. AsRead(c, row, a)
      BY <2>1
    <2>3. \A f \in Deployments : f # c /\ revision'[f].status = "ACTIVE" =>
            f \notin a /\ revision'[f] = revision[f]
      <3> SUFFICES ASSUME NEW f \in Deployments, f # c, revision'[f].status = "ACTIVE"
                   PROVE  f \notin a /\ revision'[f] = revision[f]
        OBVIOUS
      <3> QED BY <1>6, <2>1
    <2>4. ASSUME NEW f \in Deployments, f # c, Exists(f)', revision'[f].status = "ACTIVE",
                 SameSlot(c, f)'
          PROVE  c \in raced' /\ f \in raced'
      <3>1. f \notin a /\ revision'[f] = revision[f]
        BY <2>3, <2>4
      <3>2. Exists(f) /\ revision[f].status = "ACTIVE"
        BY <2>4, <3>1 DEF Exists
      <3>3. Exists(c)
        BY <2>2 DEF AsRead
      <3>4. SameSlot(c, f)
        BY <1>1, <2>2, <2>4, <3>2, <3>3, SlotsKept
      <3> QED BY <1>2, <2>2, <2>4, <3>1, <3>2, <3>4 DEF AsRead
    <2>5. CASE d # c /\ e # c
      BY <1>3, <2>3, <2>5
    <2>6. CASE d = c /\ e # c
      BY <2>4, <2>6
    <2>7. CASE d # c /\ e = c
      <3>1. SameSlot(c, d)'
        BY <2>7 DEF SameSlot
      <3> QED BY <2>4, <2>7, <3>1
    <2> QED BY <2>5, <2>6, <2>7
  <1> QED BY <1>1, <1>4, <1>5, <1>6, RevisionWrites

\* A step keeps the time stamps true to the status.
LEMMA StampsStep ==
    ASSUME TypeOK, ActivationsRead, StampsTellStatus, [Next]_vars
    PROVE  StampsTellStatus'
  <1>1. TargetsExist
    BY ReadsTargets
  <1>2. raced \subseteq raced'
    BY <1>1, RevisionWrites
  <1> SUFFICES ASSUME NEW d \in Deployments, d \notin raced'
               PROVE  /\ revision'[d].retired <=> revision'[d].status = "RETIRED"
                      /\ revision'[d].status \in {"ACTIVE", "RETIRED"} => revision'[d].activated
    BY DEF StampsTellStatus
  <1>3. /\ revision[d].retired <=> revision[d].status = "RETIRED"
        /\ revision[d].status \in {"ACTIVE", "RETIRED"} => revision[d].activated
    BY <1>2 DEF StampsTellStatus
  <1>4. CASE revision'[d] = revision[d]
    BY <1>3, <1>4
  <1>5. ASSUME NEW p \in Requests, NEW x \in Deployments, Insert(p, x)
        PROVE  /\ revision'[d].retired <=> revision'[d].status = "RETIRED"
               /\ revision'[d].status \in {"ACTIVE", "RETIRED"} => revision'[d].activated
    BY <1>4, <1>5, InsertEffect
  <1>6. ASSUME NEW p \in Requests, Activate(p)
        PROVE  /\ revision'[d].retired <=> revision'[d].status = "RETIRED"
               /\ revision'[d].status \in {"ACTIVE", "RETIRED"} => revision'[d].activated
    <2>1. PICK c \in Deployments, row \in Revision, a \in SUBSET Deployments :
            /\ AsRead(c, row, a)
            /\ \A f \in Deployments :
                 /\ f = c => revision'[f].activated = TRUE
                 /\ f = c /\ revision[f] = row =>
                      revision'[f].status = "ACTIVE" /\ revision'[f].retired = FALSE
                 /\ f # c /\ f \in a =>
                      /\ revision'[f].status = "RETIRED" /\ revision'[f].retired = TRUE
                      /\ revision'[f].activated = revision[f].activated
                 /\ f # c /\ f \notin a => revision'[f] = revision[f]
      BY <1>6, ActivationWrites
    <2>2. AsRead(c, row, a)
      BY <2>1
    <2>3. CASE d = c
      <3>1. revision[d] = row
        BY <1>2, <2>2, <2>3 DEF AsRead
      <3>2. revision'[d].activated /\ revision'[d].status = "ACTIVE" /\ revision'[d].retired = FALSE
        BY <1>6, <2>1, <2>3, <3>1
      <3> QED BY <3>2
    <2>4. CASE d # c /\ d \in a
      <3>1. revision[d].status = "ACTIVE"
        BY <1>2, <2>2, <2>4 DEF AsRead
      <3>2. /\ revision'[d].status = "RETIRED" /\ revision'[d].retired
            /\ revision'[d].activated = revision[d].activated
        BY <1>6, <2>1, <2>4
      <3> QED BY <1>3, <3>1, <3>2
    <2>5. CASE d # c /\ d \notin a
      BY <1>4, <1>6, <2>1, <2>5
    <2> QED BY <2>3, <2>4, <2>5
  <1> QED BY <1>1, <1>4, <1>5, <1>6, RevisionWrites

\* A recorded suite has the verdict of its counts.
SuitesReal == \A run \in scenarios : run.result = Verdict(run.total, run.passed)

\* Suites are only added, with the verdict of their counts.
LEMMA SuitesStep ==
    ASSUME TypeOK, SuitesReal, [Next]_vars
    PROVE  SuitesReal'
  <1>1. ASSUME NEW d \in Deployments, NEW n \in 0 .. MaxCases, NEW k \in 0 .. n, RunSuite(d, n, k)
        PROVE  SuitesReal'
    <2> DEFINE new == [deployment |-> d, total |-> n, passed |-> k, result |-> Verdict(n, k)]
    <2>1. scenarios' = scenarios \cup {new}
      BY <1>1 DEF RunSuite
    <2>2. new.result = Verdict(new.total, new.passed)
      OBVIOUS
    <2> HIDE DEF new
    <2> QED BY <2>1, <2>2 DEF SuitesReal, Verdict
  <1>2. CASE \/ \E w \in Workflows, c \in Contents : Edit(w, c) \/ Certify(w, c)
             \/ UNCHANGED vars
    BY <1>2 DEF Edit, Certify, vars, SuitesReal, Verdict
  <1>3. ASSUME NEW p \in Requests,
               \/ \E w \in Workflows : ReadWorkflow(p, w)
               \/ ReadCertificate(p)
               \/ \E d \in Deployments : Insert(p, d) \/ ReadActive(p, d) \/ Generate(p, d)
               \/ Activate(p)
               \/ Persist(p)
        PROVE  scenarios' = scenarios
    BY <1>3 DEF ReadWorkflow, ReadCertificate, Insert, ReadActive, Generate, Activate, Persist
  <1>4. ASSUME NEW p \in Requests,
               \/ \E d \in Deployments, j \in Jobs, b \in {"local_compose", "kubernetes"} :
                    OpenJob(p, d, j, b)
               \/ \E st \in {"DEPLOYING", "RUNNING", "FAILED"} : CloseJob(p, st)
               \/ Die(p)
        PROVE  scenarios' = scenarios
    BY <1>4 DEF OpenJob, CloseJob, Die
  <1>5. scenarios' = scenarios => SuitesReal'
    BY DEF SuitesReal, Verdict
  <1> QED BY <1>1, <1>2, <1>3, <1>4, <1>5 DEF Next

\* A step keeps what was ever active in production behind the gate.
LEMMA GatedStep ==
    ASSUME TypeOK, ActivationsRead, SuitesReal, ActiveWasGated, [Next]_vars
    PROVE  ActiveWasGated'
  <1>1. TargetsExist
    BY ReadsTargets
  <1>2. scenarios \subseteq scenarios'
    BY <1>1, RevisionWrites
  <1> SUFFICES ASSUME NEW d \in Deployments, revision'[d].activated,
                      Production(revision'[d].content)
               PROVE  \E run \in scenarios' :
                        run.deployment = d /\ run.total > 0 /\ run.passed = run.total
    BY DEF ActiveWasGated, Production
  <1>3. ASSUME revision[d].activated, revision'[d].content = revision[d].content
        PROVE  \E run \in scenarios' :
                 run.deployment = d /\ run.total > 0 /\ run.passed = run.total
    BY <1>2, <1>3 DEF ActiveWasGated
  <1>4. CASE revision'[d] = revision[d]
    BY <1>3, <1>4
  <1>5. ASSUME NEW p \in Requests, NEW x \in Deployments, Insert(p, x)
        PROVE  revision'[d] = revision[d]
    BY <1>5, InsertEffect
  <1>6. ASSUME NEW p \in Requests, Activate(p)
        PROVE  \E run \in scenarios' :
                 run.deployment = d /\ run.total > 0 /\ run.passed = run.total
    <2>1. PICK c \in Deployments, row \in Revision, a \in SUBSET Deployments :
            /\ AsRead(c, row, a)
            /\ \A f \in Deployments :
                 /\ f = c => revision'[f].activated = TRUE
                 /\ f = c /\ revision[f] = row =>
                      revision'[f].status = "ACTIVE" /\ revision'[f].retired = FALSE
                 /\ f # c /\ f \in a =>
                      /\ revision'[f].status = "RETIRED" /\ revision'[f].retired = TRUE
                      /\ revision'[f].activated = revision[f].activated
                 /\ f # c /\ f \notin a => revision'[f] = revision[f]
      BY <1>6, ActivationWrites
    <2>2. AsRead(c, row, a)
      BY <2>1
    <2>3. CASE d = c
      <3>1. Exists(d) /\ ActivationAllowed(d)
        BY <2>2, <2>3 DEF AsRead
      <3>2. Production(revision[d].content)
        BY <1>1, <3>1, RevisionsKept
      <3>3. PICK run \in scenarios : run.deployment = d /\ run.result = "PASS"
        BY <3>1, <3>2 DEF ActivationAllowed
      <3>4. run.total \in Nat
        BY DEF TypeOK, ScenarioRun
      <3>5. run.total # 0 /\ run.passed = run.total
        BY <3>3 DEF SuitesReal, Verdict
      <3>6. run.total > 0
        BY <3>4, <3>5
      <3> QED BY <1>2, <3>3, <3>5, <3>6
    <2>4. CASE d # c /\ d \in a
      <3>1. Exists(d)
        BY <2>2, <2>4 DEF AsRead
      <3>2. revision'[d].activated = revision[d].activated
        BY <1>6, <2>1, <2>4
      <3>3. revision'[d].content = revision[d].content
        BY <1>1, <3>1, RevisionsKept
      <3> QED BY <1>3, <3>2, <3>3
    <2>5. CASE d # c /\ d \notin a
      BY <1>4, <1>6, <2>1, <2>5
    <2> QED BY <2>3, <2>4, <2>5
  <1> QED BY <1>1, <1>4, <1>5, <1>6, RevisionWrites

\* A step that takes a revision out of retirement is that of an overlapping activation.
LEMMA RetiredStep ==
    ASSUME TypeOK, ActivationsRead, [Next]_vars, NEW d \in Deployments,
           revision[d].status = "RETIRED"
    PROVE  revision'[d].status = "RETIRED" \/ d \in raced'
  <1>1. TargetsExist
    BY ReadsTargets
  <1>2. raced \subseteq raced'
    BY <1>1, RevisionWrites
  <1>3. ASSUME NEW p \in Requests, NEW x \in Deployments, Insert(p, x)
        PROVE  revision'[d] = revision[d]
    <2>1. Exists(d)
      BY RevisionTypes
    <2> QED BY <1>3, <2>1, InsertEffect
  <1>4. ASSUME NEW p \in Requests, Activate(p)
        PROVE  revision'[d].status = "RETIRED" \/ d \in raced'
    <2>1. PICK c \in Deployments, row \in Revision, a \in SUBSET Deployments :
            /\ AsRead(c, row, a)
            /\ \A f \in Deployments :
                 /\ f = c => revision'[f].activated = TRUE
                 /\ f = c /\ revision[f] = row =>
                      revision'[f].status = "ACTIVE" /\ revision'[f].retired = FALSE
                 /\ f # c /\ f \in a =>
                      /\ revision'[f].status = "RETIRED" /\ revision'[f].retired = TRUE
                      /\ revision'[f].activated = revision[f].activated
                 /\ f # c /\ f \notin a => revision'[f] = revision[f]
      BY <1>4, ActivationWrites
    <2>2. AsRead(c, row, a)
      BY <2>1
    <2>3. CASE d = c
      BY <1>2, <2>2, <2>3 DEF AsRead
    <2>4. CASE d # c
      BY <1>4, <2>1, <2>4
    <2> QED BY <2>3, <2>4
  <1> QED BY <1>1, <1>3, <1>4, RevisionWrites

-----------------------------------------------------------------------------
\* Jobs and their artifacts

\* Who writes a job.
LEMMA JobWrites ==
    ASSUME TypeOK, JobsOpened, [Next]_vars, NEW j \in Jobs, job'[j] # job[j]
    PROVE  \/ \E q \in Requests, d \in Deployments, b \in {"local_compose", "kubernetes"} :
                 OpenJob(q, d, j, b)
           \/ \E q \in Requests, st \in {"DEPLOYING", "RUNNING", "FAILED"} :
                 CloseJob(q, st) /\ request[q].job = j
  <1>1. CASE \/ \E w \in Workflows, c \in Contents : Edit(w, c) \/ Certify(w, c)
             \/ \E d \in Deployments, n \in 0 .. MaxCases : \E k \in 0 .. n : RunSuite(d, n, k)
             \/ UNCHANGED vars
    BY <1>1 DEF Edit, Certify, RunSuite, vars
  <1>2. ASSUME NEW p \in Requests,
               \/ \E w \in Workflows : ReadWorkflow(p, w)
               \/ ReadCertificate(p)
               \/ \E d \in Deployments : Insert(p, d) \/ ReadActive(p, d) \/ Generate(p, d)
               \/ Activate(p)
        PROVE  job' = job
    BY <1>2 DEF ReadWorkflow, ReadCertificate, Insert, ReadActive, Generate, Activate
  <1>3. ASSUME NEW p \in Requests, Persist(p) \/ Die(p)
        PROVE  job' = job
    BY <1>3 DEF Persist, Die
  <1>4. ASSUME NEW p \in Requests, NEW d \in Deployments, NEW i \in Jobs,
               NEW b \in {"local_compose", "kubernetes"}, OpenJob(p, d, i, b)
        PROVE  i = j
    BY <1>4 DEF OpenJob, TypeOK
  <1>5. ASSUME NEW p \in Requests, NEW st \in {"DEPLOYING", "RUNNING", "FAILED"}, CloseJob(p, st)
        PROVE  request[p].job = j
    <2>1. request[p].job \in Jobs
      BY <1>5, RequestTypes DEF CloseJob
    <2> QED BY <1>5, <2>1 DEF CloseJob, TypeOK
  <1> QED BY <1>1, <1>2, <1>3, <1>4, <1>5 DEF Next

\* The row a job is opened with.
LEMMA Opened ==
    ASSUME TypeOK, NEW q \in Requests, NEW d \in Deployments, NEW j \in Jobs, NEW b,
           OpenJob(q, d, j, b)
    PROVE  /\ job'[j].deployment = d /\ job'[j].status = "DEPLOYING" /\ job'[j].backend = b
           /\ job'[j] # NoJob /\ request'[q] = [pc |-> "deploy", job |-> j]
  <1>1. job'[j] = [deployment |-> d, backend |-> b, status |-> "DEPLOYING", completed |-> FALSE]
    BY DEF OpenJob, TypeOK
  <1>2. job'[j].status = "DEPLOYING" /\ NoJob.status = "none"
    BY <1>1 DEF NoJob
  <1>3. request'[q] = [pc |-> "deploy", job |-> j]
    BY BecomeEffect DEF OpenJob
  <1> QED BY <1>1, <1>2, <1>3

\* The row it is closed with: completed, or as Kubernetes has it.
LEMMA Closed ==
    ASSUME TypeOK, JobsOpened, NEW q \in Requests, NEW st \in {"DEPLOYING", "RUNNING", "FAILED"},
           CloseJob(q, st), NEW j, j = request[q].job
    PROVE  /\ j \in Jobs /\ job[j] # NoJob /\ job'[j] # NoJob
           /\ job'[j].deployment = job[j].deployment /\ job'[j].backend = job[j].backend
           /\ job'[j].status = st
           /\ st = "DEPLOYING" => job[j].backend = "kubernetes"
           /\ st # "DEPLOYING" => job'[j].completed
  <1>1. j \in Jobs /\ job[j] # NoJob
    BY RequestTypes DEF CloseJob, JobsOpened
  <1>2. job[j] \in Job
    BY <1>1 DEF TypeOK
  <1> DEFINE row == [job[j] EXCEPT !.status = st]
  <1>3. /\ row \in Job /\ row.deployment = job[j].deployment /\ row.backend = job[j].backend
        /\ row.status = st
    BY <1>2 DEF Job
  <1>4. job'[j] = Stamped(row)
    BY <1>1 DEF CloseJob, TypeOK
  <1> HIDE DEF row
  <1>5. /\ Stamped(row).deployment = row.deployment /\ Stamped(row).backend = row.backend
        /\ Stamped(row).status = row.status
        /\ row.status \in {"RUNNING", "FAILED"} => Stamped(row).completed
    BY <1>3 DEF Stamped, Job
  <1>6. job'[j] # NoJob
    BY <1>3, <1>4, <1>5 DEF NoJob
  <1>7. st = "DEPLOYING" => job[j].backend = "kubernetes"
    BY DEF CloseJob, ResultsOf
  <1> QED BY <1>1, <1>3, <1>4, <1>5, <1>6, <1>7

\* What a step leaves of the jobs that were there.
LEMMA JobsKept ==
    ASSUME TypeOK, JobsOpened, [Next]_vars, NEW j \in Jobs, job[j] # NoJob
    PROVE  job'[j] # NoJob /\ job'[j].deployment = job[j].deployment
  <1>1. ASSUME NEW q \in Requests, NEW st \in {"DEPLOYING", "RUNNING", "FAILED"},
               CloseJob(q, st), request[q].job = j
        PROVE  job'[j] # NoJob /\ job'[j].deployment = job[j].deployment
    BY <1>1, Closed
  <1>2. ASSUME NEW q \in Requests, NEW d \in Deployments,
               NEW b \in {"local_compose", "kubernetes"}, OpenJob(q, d, j, b)
        PROVE  FALSE
    BY <1>2 DEF OpenJob
  <1> QED BY <1>1, <1>2, JobWrites

\* A step keeps the row of every job being deployed.
LEMMA JobsOpenedStep ==
    ASSUME TypeOK, JobsOpened, [Next]_vars
    PROVE  JobsOpened'
  <1> SUFFICES ASSUME NEW q \in Requests, request'[q].pc = "deploy"
               PROVE  job'[request'[q].job] # NoJob
    BY DEF JobsOpened, At
  <1>1. CASE request'[q] = request[q]
    <2>1. At(q, "deploy")
      BY <1>1 DEF At
    <2>2. request[q].job \in Jobs /\ job[request[q].job] # NoJob
      BY <2>1, RequestTypes DEF JobsOpened
    <2> QED BY <1>1, <2>2, JobsKept
  <1>2. ASSUME NEW d \in Deployments, NEW j \in Jobs, NEW b \in {"local_compose", "kubernetes"},
               OpenJob(q, d, j, b)
        PROVE  job'[request'[q].job] # NoJob
    <2>1. request'[q] = [pc |-> "deploy", job |-> j] /\ job'[j] # NoJob
      BY <1>2, Opened
    <2> QED BY <2>1
  <1>3. ASSUME request'[q] # request[q],
               ~\E d \in Deployments, j \in Jobs, b \in {"local_compose", "kubernetes"} :
                   OpenJob(q, d, j, b)
        PROVE  FALSE
    <2>1. ASSUME NEW state, Become(q, state), state.pc # "deploy"
          PROVE  FALSE
      BY <2>1, BecomeEffect
    <2>2. ASSUME \/ \E w \in Workflows : ReadWorkflow(q, w)
                 \/ \E d \in Deployments : Insert(q, d) \/ ReadActive(q, d) \/ Generate(q, d)
          PROVE  FALSE
      BY <2>1, <2>2 DEF ReadWorkflow, Insert, ReadActive, Generate, Idle
    <2>3. ASSUME \/ Activate(q) \/ Die(q)
                 \/ \E st \in {"DEPLOYING", "RUNNING", "FAILED"} : CloseJob(q, st)
          PROVE  FALSE
      BY <2>1, <2>3 DEF Activate, Die, CloseJob, Idle
    <2>4. ASSUME ReadCertificate(q)
          PROVE  FALSE
      BY <2>4, CertificateRead
    <2>5. ASSUME Persist(q)
          PROVE  FALSE
      <3>1. request[q] \in [pc: {"generate"}, deployment: Deployments, left: 1 .. ArtifactsPerBuild]
        BY <2>5, RequestTypes DEF Persist
      <3>2. request'[q] = Idle \/ request'[q] = [request[q] EXCEPT !.left = @ - 1]
        BY <2>5, BecomeEffect DEF Persist
      <3> QED BY <3>1, <3>2 DEF Idle
    <2> QED BY <1>3, <2>2, <2>3, <2>4, <2>5, OwnMoves
  <1> QED BY <1>1, <1>2, <1>3

\* A step keeps every open job held.
LEMMA HeldStep ==
    ASSUME TypeOK, TargetsExist, JobsOpened, OpenJobsAreHeld, [Next]_vars
    PROVE  OpenJobsAreHeld'
  <1> SUFFICES ASSUME NEW j \in Jobs, job'[j] # NoJob
               PROVE  \/ job'[j].completed
                      \/ /\ job'[j].status = "DEPLOYING"
                         /\ \/ job'[j].backend = "kubernetes" \/ j \in cut'
                            \/ \E q \in Requests : request'[q].pc = "deploy" /\ request'[q].job = j
    BY DEF OpenJobsAreHeld, At
  <1>1. CASE job'[j] = job[j]
    <2>1. cut \subseteq cut'
      BY RevisionWrites
    <2>2. ASSUME NEW q \in Requests, At(q, "deploy"), request[q].job = j, request'[q] # request[q]
          PROVE  j \in cut' \/ job'[j].completed \/ job'[j].backend = "kubernetes"
      <3>1. CASE Die(q)
        BY <2>2, <3>1 DEF Die, At
      <3>2. ASSUME NEW st \in {"DEPLOYING", "RUNNING", "FAILED"}, CloseJob(q, st)
            PROVE  job'[j].completed \/ job'[j].backend = "kubernetes"
        BY <2>2, <3>2, Closed
      <3> QED BY <2>2, <3>1, <3>2, LeavesDeploy
    <2> QED BY <1>1, <2>1, <2>2 DEF OpenJobsAreHeld, At
  <1>2. ASSUME NEW q \in Requests, NEW d \in Deployments,
               NEW b \in {"local_compose", "kubernetes"}, OpenJob(q, d, j, b)
        PROVE  /\ job'[j].status = "DEPLOYING"
               /\ \E p \in Requests : request'[p].pc = "deploy" /\ request'[p].job = j
    <2>1. job'[j].status = "DEPLOYING" /\ request'[q] = [pc |-> "deploy", job |-> j]
      BY <1>2, Opened
    <2>2. request'[q].pc = "deploy" /\ request'[q].job = j
      BY <2>1
    <2> QED BY <2>1, <2>2
  <1>3. ASSUME NEW q \in Requests, NEW st \in {"DEPLOYING", "RUNNING", "FAILED"},
               CloseJob(q, st), request[q].job = j
        PROVE  \/ job'[j].completed
               \/ job'[j].status = "DEPLOYING" /\ job'[j].backend = "kubernetes"
    BY <1>3, Closed
  <1> QED BY <1>1, <1>2, <1>3, JobWrites

\* What a generation has left makes the artifacts complete.
GenerationsEnough ==
    \A q \in Requests : At(q, "generate") =>
        artifacts[request[q].deployment] + request[q].left >= ArtifactsPerBuild

\* A revision with artifacts has all of them, or they are being generated, or a
\* request died while it did.
ArtifactsReal ==
    \A d \in Deployments : artifacts[d] > 0 =>
        \/ artifacts[d] >= ArtifactsPerBuild
        \/ d \in cut
        \/ \E q \in Requests : At(q, "generate") /\ request[q].deployment = d

\* A job deploys a revision that has artifacts.
JobsBuilt == \A j \in Jobs : job[j] # NoJob => artifacts[job[j].deployment] > 0

LEMMA BuiltJobs ==
    ASSUME TypeOK, ArtifactsReal, JobsBuilt
    PROVE  JobsHaveArtifacts
  <1> SUFFICES ASSUME NEW j \in Jobs, job[j] # NoJob, NEW d, d = job[j].deployment
               PROVE  /\ artifacts[d] > 0
                      /\ \/ artifacts[d] >= ArtifactsPerBuild
                         \/ d \in cut
                         \/ \E q \in Requests : At(q, "generate") /\ request[q].deployment = d
    BY DEF JobsHaveArtifacts
  <1>1. d \in Deployments
    BY DEF TypeOK, Job
  <1> QED BY <1>1 DEF ArtifactsReal, JobsBuilt

\* The artifacts of a revision grow, and by generations alone.
LEMMA ArtifactsGrow ==
    ASSUME TypeOK, [Next]_vars, NEW d \in Deployments
    PROVE  /\ artifacts[d] \in Nat
           /\ artifacts'[d] \in Nat /\ artifacts'[d] >= artifacts[d]
           /\ artifacts'[d] # artifacts[d] =>
                \E q \in Requests : Persist(q) /\ request[q].deployment = d
  <1>1. artifacts[d] \in Nat
    BY DEF TypeOK
  <1>2. CASE \/ \E w \in Workflows, c \in Contents : Edit(w, c) \/ Certify(w, c)
             \/ \E x \in Deployments, n \in 0 .. MaxCases : \E k \in 0 .. n : RunSuite(x, n, k)
             \/ UNCHANGED vars
    BY <1>1, <1>2 DEF Edit, Certify, RunSuite, vars
  <1>3. ASSUME NEW p \in Requests,
               \/ \E w \in Workflows : ReadWorkflow(p, w)
               \/ ReadCertificate(p)
               \/ \E x \in Deployments : Insert(p, x) \/ ReadActive(p, x) \/ Generate(p, x)
               \/ Activate(p)
        PROVE  artifacts' = artifacts
    BY <1>3 DEF ReadWorkflow, ReadCertificate, Insert, ReadActive, Generate, Activate
  <1>4. ASSUME NEW p \in Requests,
               \/ \E x \in Deployments, j \in Jobs, b \in {"local_compose", "kubernetes"} :
                    OpenJob(p, x, j, b)
               \/ \E st \in {"DEPLOYING", "RUNNING", "FAILED"} : CloseJob(p, st)
               \/ Die(p)
        PROVE  artifacts' = artifacts
    BY <1>4 DEF OpenJob, CloseJob, Die
  <1>5. ASSUME NEW q \in Requests, Persist(q)
        PROVE  IF request[q].deployment = d THEN artifacts'[d] = artifacts[d] + 1
                                            ELSE artifacts'[d] = artifacts[d]
    <2>1. request[q].deployment \in Deployments
      BY <1>5, RequestTypes DEF Persist
    <2> QED BY <1>5, <2>1 DEF Persist, TypeOK
  <1> QED BY <1>1, <1>2, <1>3, <1>4, <1>5 DEF Next

\* The next artifact of a generation.
LEMMA PersistEffect ==
    ASSUME TypeOK, NEW q \in Requests, Persist(q), NEW d, d = request[q].deployment
    PROVE  /\ At(q, "generate") /\ d \in Deployments
           /\ artifacts[d] \in Nat /\ artifacts'[d] = artifacts[d] + 1
           /\ request[q].left \in Nat
           /\ request[q].left = 1 => request'[q] = Idle
           /\ request[q].left # 1 => /\ request'[q].pc = "generate" /\ request'[q].deployment = d
                                     /\ request'[q].left = request[q].left - 1
  <1>1. request[q] \in [pc: {"generate"}, deployment: Deployments, left: 1 .. ArtifactsPerBuild]
        /\ At(q, "generate")
    BY RequestTypes DEF Persist
  <1>2. d \in Deployments /\ request[q].left \in Nat
    BY <1>1, DeploymentsAssumption
  <1>3. artifacts[d] \in Nat /\ artifacts'[d] = artifacts[d] + 1
    BY <1>2 DEF Persist, TypeOK
  <1>4. request[q].left = 1 => request'[q] = Idle
    BY BecomeEffect DEF Persist
  <1>5. ASSUME request[q].left # 1
        PROVE  /\ request'[q].pc = "generate" /\ request'[q].deployment = d
               /\ request'[q].left = request[q].left - 1
    <2>1. request'[q] = [request[q] EXCEPT !.left = @ - 1]
      BY <1>5, BecomeEffect DEF Persist
    <2> QED BY <1>1, <2>1
  <1> QED BY <1>1, <1>2, <1>3, <1>4, <1>5

\* A request that comes to generate begins with all of them, or has just stored one.
LEMMA Generating ==
    ASSUME TypeOK, [Next]_vars, NEW q \in Requests, request'[q].pc = "generate"
    PROVE  \/ request'[q] = request[q] \/ Persist(q)
           \/ request'[q].deployment \in Deployments /\ request'[q].left = ArtifactsPerBuild
  <1>1. ASSUME NEW state, Become(q, state), state.pc # "generate"
        PROVE  FALSE
    BY <1>1, BecomeEffect
  <1>2. ASSUME \/ \E w \in Workflows : ReadWorkflow(q, w)
               \/ \E d \in Deployments : Insert(q, d) \/ ReadActive(q, d)
        PROVE  FALSE
    BY <1>1, <1>2 DEF ReadWorkflow, Insert, ReadActive, Idle
  <1>3. ASSUME \/ Activate(q) \/ Die(q)
               \/ \E st \in {"DEPLOYING", "RUNNING", "FAILED"} : CloseJob(q, st)
        PROVE  FALSE
    BY <1>1, <1>3 DEF Activate, Die, CloseJob, Idle
  <1>4. ASSUME ReadCertificate(q)
        PROVE  FALSE
    BY <1>4, CertificateRead
  <1>5. ASSUME NEW d \in Deployments, Generate(q, d)
        PROVE  request'[q].deployment \in Deployments /\ request'[q].left = ArtifactsPerBuild
    <2>1. request'[q] = [pc |-> "generate", deployment |-> d, left |-> ArtifactsPerBuild]
      BY <1>5, BecomeEffect DEF Generate
    <2> QED BY <2>1
  <1>6. ASSUME NEW d \in Deployments, NEW j \in Jobs, NEW b \in {"local_compose", "kubernetes"},
               OpenJob(q, d, j, b)
        PROVE  FALSE
    BY <1>1, <1>6 DEF OpenJob
  <1> QED BY <1>2, <1>3, <1>4, <1>5, <1>6, OwnMoves

\* A step keeps what the generations have left.
LEMMA GenerationsStep ==
    ASSUME TypeOK, GenerationsEnough, [Next]_vars
    PROVE  GenerationsEnough'
  <1> SUFFICES ASSUME NEW q \in Requests, request'[q].pc = "generate"
               PROVE  artifacts'[request'[q].deployment] + request'[q].left >= ArtifactsPerBuild
    BY DEF GenerationsEnough, At
  <1>1. ArtifactsPerBuild \in Nat
    BY DeploymentsAssumption
  <1>2. CASE request'[q] = request[q]
    <2>1. At(q, "generate")
      BY <1>2 DEF At
    <2>2. PICK d \in Deployments : d = request[q].deployment
      BY <2>1, RequestTypes
    <2>3. request[q].left \in Nat
      BY <1>1, <2>1, RequestTypes
    <2>4. artifacts[d] + request[q].left >= ArtifactsPerBuild
      BY <2>1, <2>2 DEF GenerationsEnough
    <2>5. artifacts[d] \in Nat /\ artifacts'[d] \in Nat /\ artifacts'[d] >= artifacts[d]
      BY ArtifactsGrow
    <2>6. artifacts'[d] + request[q].left >= ArtifactsPerBuild
      BY <1>1, <2>3, <2>4, <2>5
    <2> QED BY <1>2, <2>2, <2>6
  <1>3. CASE Persist(q)
    <2>1. PICK d : d = request[q].deployment
      OBVIOUS
    <2>2. /\ At(q, "generate") /\ d \in Deployments
          /\ artifacts[d] \in Nat /\ artifacts'[d] = artifacts[d] + 1
          /\ request[q].left \in Nat /\ request[q].left # 1
          /\ request'[q].deployment = d /\ request'[q].left = request[q].left - 1
      BY <1>3, <2>1, PersistEffect DEF Idle
    <2>3. artifacts[d] + request[q].left >= ArtifactsPerBuild
      BY <2>1, <2>2 DEF GenerationsEnough
    <2>4. (artifacts[d] + 1) + (request[q].left - 1) >= ArtifactsPerBuild
      BY <1>1, <2>2, <2>3
    <2> QED BY <2>2, <2>4
  <1>4. CASE request'[q].deployment \in Deployments /\ request'[q].left = ArtifactsPerBuild
    <2>1. PICK d \in Deployments : d = request'[q].deployment
      BY <1>4
    <2>2. artifacts'[d] \in Nat
      BY ArtifactsGrow
    <2>3. artifacts'[d] + ArtifactsPerBuild >= ArtifactsPerBuild
      BY <1>1, <2>2
    <2> QED BY <1>4, <2>1, <2>3
  <1> QED BY <1>2, <1>3, <1>4, Generating

\* A step keeps what is said of the artifacts.
LEMMA ArtifactsStep ==
    ASSUME TypeOK, TargetsExist, GenerationsEnough, ArtifactsReal, [Next]_vars
    PROVE  ArtifactsReal'
  <1> SUFFICES ASSUME NEW d \in Deployments, artifacts'[d] > 0
               PROVE  \/ artifacts'[d] >= ArtifactsPerBuild
                      \/ d \in cut'
                      \/ \E q \in Requests :
                            request'[q].pc = "generate" /\ request'[q].deployment = d
    BY DEF ArtifactsReal, At
  <1>1. ArtifactsPerBuild \in Nat /\ cut \subseteq cut'
    BY DeploymentsAssumption, RevisionWrites
  <1>2. artifacts[d] \in Nat /\ artifacts'[d] \in Nat /\ artifacts'[d] >= artifacts[d]
    BY ArtifactsGrow
  <1>3. ASSUME NEW q \in Requests, Persist(q), request[q].deployment = d
        PROVE  \/ artifacts'[d] >= ArtifactsPerBuild
               \/ request'[q].pc = "generate" /\ request'[q].deployment = d
    <2>1. /\ At(q, "generate") /\ artifacts'[d] = artifacts[d] + 1
          /\ request[q].left # 1 => request'[q].pc = "generate" /\ request'[q].deployment = d
      BY <1>3, PersistEffect
    <2>2. artifacts[d] + request[q].left >= ArtifactsPerBuild
      BY <1>3, <2>1 DEF GenerationsEnough
    <2> QED BY <2>1, <2>2
  <1>4. CASE artifacts'[d] # artifacts[d]
    BY <1>3, <1>4, ArtifactsGrow
  <1>5. CASE artifacts'[d] = artifacts[d]
    <2>1. ASSUME NEW q \in Requests, At(q, "generate"), request[q].deployment = d
          PROVE  \/ artifacts'[d] >= ArtifactsPerBuild
                 \/ d \in cut'
                 \/ request'[q].pc = "generate" /\ request'[q].deployment = d
      <3>1. CASE request'[q] = request[q]
        BY <2>1, <3>1 DEF At
      <3>2. CASE Persist(q)
        BY <1>3, <2>1, <3>2
      <3>3. CASE Die(q)
        BY <2>1, <3>3 DEF Die, At
      <3> QED BY <2>1, <3>1, <3>2, <3>3, LeavesGenerate
    <2> QED BY <1>1, <1>5, <2>1 DEF ArtifactsReal
  <1> QED BY <1>4, <1>5

\* A step keeps jobs to revisions that have artifacts.
LEMMA JobsBuiltStep ==
    ASSUME TypeOK, JobsOpened, JobsBuilt, [Next]_vars
    PROVE  JobsBuilt'
  <1> SUFFICES ASSUME NEW j \in Jobs, job'[j] # NoJob
               PROVE  artifacts'[job'[j].deployment] > 0
    BY DEF JobsBuilt
  <1>1. CASE job[j] # NoJob
    <2>1. PICK d \in Deployments : d = job[j].deployment
      BY <1>1 DEF TypeOK, Job
    <2>2. job'[j].deployment = d
      BY <1>1, <2>1, JobsKept
    <2>3. artifacts[d] > 0
      BY <1>1, <2>1 DEF JobsBuilt
    <2>4. artifacts[d] \in Nat /\ artifacts'[d] \in Nat /\ artifacts'[d] >= artifacts[d]
      BY ArtifactsGrow
    <2>5. artifacts'[d] > 0
      BY <2>3, <2>4
    <2> QED BY <2>2, <2>5
  <1>2. ASSUME NEW q \in Requests, NEW d \in Deployments,
               NEW b \in {"local_compose", "kubernetes"}, OpenJob(q, d, j, b)
        PROVE  artifacts'[job'[j].deployment] > 0
    <2>1. job'[j].deployment = d
      BY <1>2 DEF OpenJob, TypeOK
    <2>2. artifacts' = artifacts /\ artifacts[d] > 0
      BY <1>2 DEF OpenJob, HasArtifacts
    <2> QED BY <2>1, <2>2
  <1>3. ASSUME NEW q \in Requests, NEW st \in {"DEPLOYING", "RUNNING", "FAILED"},
               CloseJob(q, st), request[q].job = j
        PROVE  job[j] # NoJob
    BY <1>3, Closed
  <1> QED BY <1>1, <1>2, <1>3, JobWrites

-----------------------------------------------------------------------------
\* The invariant

\* What requests carry is true to what they have read, and the rows to what
\* has happened.
DeploymentInductive ==
    /\ TypeOK /\ ActivationsRead /\ JobsOpened
    /\ CertsReal /\ CompilationsRead /\ DeployedWasCertified
    /\ OneActive /\ StampsTellStatus /\ SuitesReal /\ ActiveWasGated
    /\ OpenJobsAreHeld /\ GenerationsEnough /\ ArtifactsReal /\ JobsBuilt

LEMMA InductiveInit == Init => DeploymentInductive
  <1> SUFFICES ASSUME Init PROVE DeploymentInductive
    OBVIOUS
  <1>1. /\ \A q \in Requests : request[q] = Idle
        /\ \A d \in Deployments : revision[d] = NoRevision /\ artifacts[d] = 0
        /\ \A j \in Jobs : job[j] = NoJob
        /\ \A w \in Workflows : cert[w] = NoCert
        /\ scenarios = {}
    BY DEF Init
  <1>2. TypeOK
    BY DEF Init, TypeOK
  <1>3. ActivationsRead /\ JobsOpened /\ CompilationsRead /\ GenerationsEnough
    BY <1>1 DEF ActivationsRead, JobsOpened, CompilationsRead, GenerationsEnough, At, Idle
  <1>4. CertsReal
    BY <1>1 DEF CertsReal, NoCert
  <1>5. DeployedWasCertified /\ OneActive
    BY <1>1 DEF DeployedWasCertified, OneActive, Exists
  <1>6. StampsTellStatus /\ ActiveWasGated
    BY <1>1 DEF StampsTellStatus, ActiveWasGated, NoRevision
  <1>7. SuitesReal /\ OpenJobsAreHeld /\ JobsBuilt
    BY <1>1 DEF SuitesReal, OpenJobsAreHeld, JobsBuilt
  <1>8. ArtifactsReal
    BY <1>1 DEF ArtifactsReal
  <1> QED BY <1>2, <1>3, <1>4, <1>5, <1>6, <1>7, <1>8 DEF DeploymentInductive

LEMMA InductiveStep == DeploymentInductive /\ [Next]_vars => DeploymentInductive'
  <1> SUFFICES ASSUME DeploymentInductive, [Next]_vars PROVE DeploymentInductive'
    OBVIOUS
  <1> USE DEF DeploymentInductive
  <1>1. TargetsExist
    BY ReadsTargets
  <1>2. TypeOK' /\ ActivationsRead' /\ JobsOpened'
    BY <1>1, TypeStep, ActivationsStep, JobsOpenedStep
  <1>3. CertsReal' /\ CompilationsRead' /\ DeployedWasCertified'
    BY <1>1, CertsStep, CompilationsStep, CertifiedStep
  <1>4. OneActive' /\ StampsTellStatus'
    BY OneActiveStep, StampsStep
  <1>5. SuitesReal' /\ ActiveWasGated'
    BY SuitesStep, GatedStep
  <1>6. OpenJobsAreHeld' /\ GenerationsEnough' /\ ArtifactsReal' /\ JobsBuilt'
    BY <1>1, HeldStep, GenerationsStep, ArtifactsStep, JobsBuiltStep
  <1> QED BY <1>2, <1>3, <1>4, <1>5, <1>6

\* Whatever requests overlap and die, what they carry stays true to what they
\* have read.
THEOREM DeploymentInduction == Spec => []DeploymentInductive
  BY InductiveInit, InductiveStep, PTL DEF Spec

\* A deployed revision was certified as it is deployed unless an edit or a lapsed
\* certificate came in between, its time stamps tell its status unless activations
\* overlapped, and every open job is held by someone and has its artifacts
\* (create_workflow_deployment, activate_workflow_deployment_revision and
\* deploy_workflow_deployment).
THEOREM DeploymentInvariance == Spec => []DeploymentInvariant
  <1>1. DeploymentInductive => DeploymentInvariant
    BY BuiltJobs DEF DeploymentInductive, DeploymentInvariant
  <1> QED BY <1>1, DeploymentInduction, PTL

\* Two revisions of one workflow are active in one environment only where
\* activations overlapped (activate_workflow_deployment_revision retires what it
\* has read as active).
THEOREM OneIsActive == Spec => []OneActive
  <1>1. DeploymentInductive => OneActive
    BY DEF DeploymentInductive
  <1> QED BY <1>1, DeploymentInduction, PTL

\* What was ever active in production had passed a suite with a case in it
\* (assert_production_activation_allowed), for every overlap of suites,
\* activations and crashes.
THEOREM ActiveRevisionsAreGated == Spec => []ActiveWasGated
  <1>1. DeploymentInductive => ActiveWasGated
    BY DEF DeploymentInductive
  <1> QED BY <1>1, DeploymentInduction, PTL

\* Only activations that overlap take a revision out of retirement
\* (activate_workflow_deployment_revision refuses the others).
THEOREM RetirementIsFinal == Spec => RetiredIsFinal
  <1> DEFINE Final == \A d \in Deployments : revision[d].status = "RETIRED" =>
                         revision'[d].status = "RETIRED" \/ d \in raced'
  <1>1. DeploymentInductive /\ [Next]_vars => [Final]_vars
    BY RetiredStep DEF DeploymentInductive
  <1> QED BY <1>1, DeploymentInduction, PTL DEF Spec, RetiredIsFinal
=============================================================================
