----------------------------- MODULE Deployments -----------------------------
(***************************************************************************)
(* Deployment revisions of workflows.  A revision is compiled from the     *)
(* workflow and its certificate, read one after the other; it is activated *)
(* behind the scenario gate and retires the revision that was active; its  *)
(* artifacts are generated one by one and handed to a backend by a job.    *)
(* Each read and each COMMIT is a step of its own: requests overlap, and   *)
(* any of them may die between two steps.                                  *)
(*                                                                         *)
(* An evaluation is one step here, Certification has its parts; Certify    *)
(* therefore takes any configuration the workflow has had.  A refused      *)
(* request changes nothing.                                                *)
(***************************************************************************)
EXTENDS Integers, FiniteSets

CONSTANTS
    Workflows, Deployments, Jobs, Requests,
    Contents,       \* what a workflow may be, its environment included
    Live,           \* those whose environment is production
    ArtifactsPerBuild,  \* the artifacts generate_runtime_artifacts returns
    MaxCases,       \* bound on the cases of a scenario suite
    MaxOperations   \* bound on the edits, evaluations, suites run and requests begun

ASSUME DeploymentsAssumption ==
    /\ "none" \notin Workflows \cup Deployments \cup Contents
    /\ Live \subseteq Contents
    /\ ArtifactsPerBuild \in Nat \ {0} /\ MaxCases \in Nat /\ MaxOperations \in Nat

VARIABLES
    workflow,       \* the definition of each workflow
    had,            \* what each definition has been
    cert,           \* its certificate
    certified,      \* contents of each workflow that were certified
    revision,       \* rows of workflow_deployment_revisions
    scenarios,      \* completed scenario runs
    artifacts,      \* how many artifacts each revision has
    job,            \* rows of deployment_jobs
    request,        \* what each API request is doing
    operations,
    edited,         \* requests whose workflow was edited after they read it
    outdated,       \* revisions compiled around an edit or from a lapsed certificate
    raced,          \* revisions activated or retired by overlapping activations
    cut             \* revisions and jobs a request died at

vars == <<workflow, had, cert, certified, revision, scenarios, artifacts, job, request,
          operations, edited, outdated, raced, cut>>

Certificate == [status: {"CERTIFIED", "NEEDS_REEVALUATION"}, hash: Contents]
NoCert == [status |-> "NONE", hash |-> "none"]

Revision == [workflow: Workflows, content: Contents, status: {"PACKAGED", "ACTIVE", "RETIRED"},
             activated: BOOLEAN, retired: BOOLEAN]
NoRevision == [workflow |-> "none", content |-> "none", status |-> "none",
               activated |-> FALSE, retired |-> FALSE]

ScenarioRun == [deployment: Deployments, total: Nat, passed: Nat, result: {"PASS", "FAIL"}]

Job == [deployment: Deployments, backend: {"local_compose", "kubernetes"},
        status: {"DEPLOYING", "RUNNING", "FAILED"}, completed: BOOLEAN]
NoJob == [deployment |-> "none", backend |-> "none", status |-> "none", completed |-> FALSE]

Idle == [pc |-> "idle"]

RequestState ==
    [pc: {"compile", "insert"}, workflow: Workflows, content: Contents, lapsed: BOOLEAN]
    \cup [pc: {"activate"}, deployment: Deployments, row: Revision, active: SUBSET Deployments]
    \cup [pc: {"generate"}, deployment: Deployments, left: 1 .. ArtifactsPerBuild]
    \cup [pc: {"deploy"}, job: Jobs]

TypeOK ==
    /\ workflow \in [Workflows -> Contents]
    /\ had \in [Workflows -> SUBSET Contents]
    /\ cert \in [Workflows -> Certificate \cup {NoCert}]
    /\ certified \in [Workflows -> SUBSET Contents]
    /\ revision \in [Deployments -> Revision \cup {NoRevision}]
    /\ scenarios \subseteq ScenarioRun
    /\ artifacts \in [Deployments -> Nat]
    /\ job \in [Jobs -> Job \cup {NoJob}]
    /\ request \in [Requests -> RequestState \cup {Idle}]
    /\ operations \in Nat
    /\ edited \subseteq Requests
    /\ outdated \subseteq Deployments
    /\ raced \subseteq Deployments
    /\ cut \subseteq Deployments \cup Jobs

Init ==
    /\ workflow \in [Workflows -> Contents]
    /\ had = [w \in Workflows |-> {workflow[w]}]
    /\ cert = [w \in Workflows |-> NoCert]
    /\ certified = [w \in Workflows |-> {}]
    /\ revision = [d \in Deployments |-> NoRevision]
    /\ scenarios = {}
    /\ artifacts = [d \in Deployments |-> 0]
    /\ job = [j \in Jobs |-> NoJob]
    /\ request = [q \in Requests |-> Idle]
    /\ operations = 0
    /\ edited = {} /\ outdated = {} /\ raced = {} /\ cut = {}

Production(c) == c \in Live
Exists(d) == revision[d] # NoRevision
At(q, pc) == request[q].pc = pc
Count == operations < MaxOperations /\ operations' = operations + 1
Become(q, state) == request' = [request EXCEPT ![q] = state]

-----------------------------------------------------------------------------
\* The workflow and its certificate

\* upsert_workflow_definition withdraws the certificate.
Edit(w, c) ==
    /\ Count
    /\ workflow' = [workflow EXCEPT ![w] = c]
    /\ had' = [had EXCEPT ![w] = @ \cup {c}]
    /\ cert' = [cert EXCEPT ![w].status = IF @ = "NONE" THEN @ ELSE "NEEDS_REEVALUATION"]
    /\ edited' = edited \cup {q \in Requests :
                                 request[q].pc \in {"compile", "insert"} /\ request[q].workflow = w}
    /\ UNCHANGED <<certified, revision, scenarios, artifacts, job, request, outdated, raced, cut>>

\* An evaluation of a content the workflow has, or had when it began.
Certify(w, c) ==
    /\ c \in had[w] /\ Count
    /\ cert' = [cert EXCEPT ![w] = [status |-> "CERTIFIED", hash |-> c]]
    /\ certified' = [certified EXCEPT ![w] = @ \cup {c}]
    /\ UNCHANGED <<workflow, had, revision, scenarios, artifacts, job, request, edited,
                   outdated, raced, cut>>

-----------------------------------------------------------------------------
\* create_workflow_deployment

ReadWorkflow(q, w) ==
    /\ request[q] = Idle /\ Count
    /\ Become(q, [pc |-> "compile", workflow |-> w, content |-> workflow[w], lapsed |-> FALSE])
    /\ UNCHANGED <<workflow, had, cert, certified, revision, scenarios, artifacts, job,
                   edited, outdated, raced, cut>>

\* Faulty: any certificate will do.
DeployableOnceEvaluated(w) == cert[w].status # "NONE"

\* What compile_workflow_manifest asks of a certificate: its status, not its hash.
Deployable(w) == cert[w].status = "CERTIFIED"

ReadCertificate(q) ==
    LET w == request[q].workflow IN
    /\ At(q, "compile") /\ Deployable(w)
    /\ Become(q, [request[q] EXCEPT !.pc = "insert",
          !.lapsed = cert[w].status = "CERTIFIED" /\ cert[w].hash # workflow[w]])
    /\ UNCHANGED <<workflow, had, cert, certified, revision, scenarios, artifacts, job,
                   operations, edited, outdated, raced, cut>>

\* create_workflow_deployment_revision, under a new id.
Insert(q, d) ==
    /\ At(q, "insert") /\ ~Exists(d)
    /\ revision' = [revision EXCEPT ![d] =
          [workflow |-> request[q].workflow, content |-> request[q].content,
           status |-> "PACKAGED", activated |-> FALSE, retired |-> FALSE]]
    /\ outdated' = IF q \in edited \/ request[q].lapsed THEN outdated \cup {d} ELSE outdated
    /\ edited' = edited \ {q}
    /\ Become(q, Idle)
    /\ UNCHANGED <<workflow, had, cert, certified, scenarios, artifacts, job, operations,
                   raced, cut>>

-----------------------------------------------------------------------------
\* Scenario suites and activation

\* Faulty: an empty suite passes.
VerdictUnlessFailed(total, passed) == IF passed = total THEN "PASS" ELSE "FAIL"

\* ScenarioSuiteEvaluator.run_suite; the store keeps no pass_threshold, so that
\* the default, all of them, applies.
Verdict(total, passed) == IF total # 0 /\ passed = total THEN "PASS" ELSE "FAIL"

RunSuite(d, total, passed) ==
    /\ Exists(d) /\ Count
    /\ scenarios' = scenarios \cup
          {[deployment |-> d, total |-> total, passed |-> passed, result |-> Verdict(total, passed)]}
    /\ UNCHANGED <<workflow, had, cert, certified, revision, artifacts, job, request,
                   edited, outdated, raced, cut>>

\* assert_production_activation_allowed: one pass is enough, whatever came later.
ActivationAllowed(d) ==
    Production(revision[d].content) =>
        \E run \in scenarios : run.deployment = d /\ run.result = "PASS"

\* Revisions of one workflow in one environment.
SameSlot(d, e) ==
    /\ revision[d].workflow = revision[e].workflow
    /\ Production(revision[d].content) = Production(revision[e].content)

ActiveOthers(d) ==
    {e \in Deployments \ {d} : Exists(e) /\ SameSlot(d, e) /\ revision[e].status = "ACTIVE"}

\* Faulty: a retired revision may be activated.
ActivatableAnyStatus(d) == ActivationAllowed(d)

Activatable(d) == ActivationAllowed(d) /\ revision[d].status # "RETIRED"

ReadActive(q, d) ==
    /\ request[q] = Idle /\ Exists(d) /\ Activatable(d) /\ Count
    /\ Become(q, [pc |-> "activate", deployment |-> d, row |-> revision[d],
                  active |-> ActiveOthers(d)])
    /\ UNCHANGED <<workflow, had, cert, certified, revision, scenarios, artifacts, job,
                   edited, outdated, raced, cut>>

\* Faulty: retirement only sets its time stamp.
RetiredRowStamped(row) == [row EXCEPT !.retired = TRUE]

RetiredRow(row) == [row EXCEPT !.status = "RETIRED", !.retired = TRUE]

\* Attributes that have the value they were read with are not written.
Activated(row, seen) ==
    [row EXCEPT !.status = IF seen.status = "ACTIVE" THEN @ ELSE "ACTIVE",
                !.activated = TRUE,
                !.retired = IF seen.retired THEN FALSE ELSE @]

\* Whatever another activation has read that this one writes.
Overlapping(q) ==
    LET mine == request[q].active \cup {request[q].deployment}
        touches(p) == p # q /\ At(p, "activate")
                      /\ SameSlot(request[p].deployment, request[q].deployment)
        theirs == UNION {request[p].active \cup {request[p].deployment} :
                            p \in {r \in Requests : touches(r)}}
    IN  IF theirs = {} THEN {} ELSE mine \cup theirs

Activate(q) ==
    LET d == request[q].deployment IN
    /\ At(q, "activate")
    /\ revision' = [e \in Deployments |->
          CASE e = d -> Activated(revision[d], request[q].row)
            [] e \in request[q].active -> RetiredRow(revision[e])
            [] OTHER -> revision[e]]
    /\ raced' = raced \cup Overlapping(q)
    /\ Become(q, Idle)
    /\ UNCHANGED <<workflow, had, cert, certified, scenarios, artifacts, job, operations,
                   edited, outdated, cut>>

-----------------------------------------------------------------------------
\* Artifacts and deployment jobs

Generate(q, d) ==
    /\ request[q] = Idle /\ Exists(d) /\ Count
    /\ Become(q, [pc |-> "generate", deployment |-> d, left |-> ArtifactsPerBuild])
    /\ UNCHANGED <<workflow, had, cert, certified, revision, scenarios, artifacts, job,
                   edited, outdated, raced, cut>>

\* persist_runtime_artifacts: every artifact in a transaction of its own.
Persist(q) ==
    /\ At(q, "generate")
    /\ artifacts' = [artifacts EXCEPT ![request[q].deployment] = @ + 1]
    /\ Become(q, IF request[q].left = 1 THEN Idle ELSE [request[q] EXCEPT !.left = @ - 1])
    /\ UNCHANGED <<workflow, had, cert, certified, revision, scenarios, job, operations,
                   edited, outdated, raced, cut>>

HasArtifacts(d) == artifacts[d] > 0

\* deploy_workflow_deployment up to the job's row.
OpenJob(q, d, j, backend) ==
    /\ request[q] = Idle /\ Exists(d) /\ HasArtifacts(d) /\ job[j] = NoJob /\ Count
    /\ job' = [job EXCEPT ![j] = [deployment |-> d, backend |-> backend,
                                  status |-> "DEPLOYING", completed |-> FALSE]]
    /\ Become(q, [pc |-> "deploy", job |-> j])
    /\ UNCHANGED <<workflow, had, cert, certified, revision, scenarios, artifacts,
                   edited, outdated, raced, cut>>

\* What each backend's deploy may return.
ResultsOf(backend) ==
    IF backend = "kubernetes" THEN {"DEPLOYING"} ELSE {"RUNNING", "FAILED"}

Stamped(row) == [row EXCEPT !.completed = @ \/ row.status \in {"RUNNING", "FAILED"}]

CloseJob(q, status) ==
    LET j == request[q].job IN
    /\ At(q, "deploy") /\ status \in ResultsOf(job[j].backend)
    /\ job' = [job EXCEPT ![j] = Stamped([@ EXCEPT !.status = status])]
    /\ Become(q, Idle)
    /\ UNCHANGED <<workflow, had, cert, certified, revision, scenarios, artifacts, operations,
                   edited, outdated, raced, cut>>

\* The process that serves the request dies.
Die(q) ==
    /\ request[q] # Idle
    /\ cut' = CASE At(q, "generate") -> cut \cup {request[q].deployment}
                 [] At(q, "deploy")   -> cut \cup {request[q].job}
                 [] OTHER             -> cut
    /\ edited' = edited \ {q}
    /\ Become(q, Idle)
    /\ UNCHANGED <<workflow, had, cert, certified, revision, scenarios, artifacts, job,
                   operations, outdated, raced>>

-----------------------------------------------------------------------------
Next ==
    \/ \E w \in Workflows, c \in Contents : Edit(w, c) \/ Certify(w, c)
    \/ \E d \in Deployments, n \in 0 .. MaxCases : \E k \in 0 .. n : RunSuite(d, n, k)
    \/ \E q \in Requests :
          \/ \E w \in Workflows : ReadWorkflow(q, w)
          \/ ReadCertificate(q)
          \/ \E d \in Deployments : Insert(q, d) \/ ReadActive(q, d) \/ Generate(q, d)
          \/ Activate(q)
          \/ Persist(q)
          \/ \E d \in Deployments, j \in Jobs, b \in {"local_compose", "kubernetes"} :
                OpenJob(q, d, j, b)
          \/ \E s \in {"DEPLOYING", "RUNNING", "FAILED"} : CloseJob(q, s)
          \/ Die(q)

Spec == Init /\ [][Next]_vars

-----------------------------------------------------------------------------
\* Properties

\* What is deployed was certified as it is deployed, unless the workflow was
\* edited while it was compiled or its certificate had lapsed.
DeployedWasCertified ==
    \A d \in Deployments : Exists(d) =>
        d \in outdated \/ revision[d].content \in certified[revision[d].workflow]

\* A workflow has one active revision in an environment, unless activations
\* overlapped.
OneActive ==
    \A d, e \in Deployments :
        /\ Exists(d) /\ Exists(e) /\ SameSlot(d, e)
        /\ revision[d].status = "ACTIVE" /\ revision[e].status = "ACTIVE"
        => d = e \/ {d, e} \subseteq raced

\* No revision was ever active in production that had not passed a suite with at
\* least one case, all of them passed.
ActiveWasGated ==
    \A d \in Deployments :
        revision[d].activated /\ Production(revision[d].content) =>
            \E run \in scenarios : run.deployment = d /\ run.total > 0 /\ run.passed = run.total

\* The two time stamps tell what the status is, unless activations overlapped:
\* one that read the row before it was retired leaves retired_at on an active row.
StampsTellStatus ==
    \A d \in Deployments : d \notin raced =>
        /\ revision[d].retired <=> revision[d].status = "RETIRED"
        /\ revision[d].status \in {"ACTIVE", "RETIRED"} => revision[d].activated

\* A retired revision is never active again, unless activations overlapped.
RetiredIsFinal ==
    [][\A d \in Deployments : revision[d].status = "RETIRED" =>
          revision'[d].status = "RETIRED" \/ d \in raced']_vars

\* A job is left DEPLOYING only by a backend that says so, by a request that is
\* at it or by one that died, and nothing else is left without completed_at.
OpenJobsAreHeld ==
    \A j \in Jobs : job[j] # NoJob =>
        \/ job[j].completed
        \/ /\ job[j].status = "DEPLOYING"
           /\ \/ job[j].backend = "kubernetes" \/ j \in cut
              \/ \E q \in Requests : At(q, "deploy") /\ request[q].job = j

\* What a job deploys has all its artifacts, unless they are being generated or
\* a request died while it generated them.
JobsHaveArtifacts ==
    \A j \in Jobs : job[j] # NoJob =>
        LET d == job[j].deployment IN
        /\ artifacts[d] > 0
        /\ \/ artifacts[d] >= ArtifactsPerBuild
           \/ d \in cut
           \/ \E q \in Requests : At(q, "generate") /\ request[q].deployment = d

\* What the rows say has happened: a revision is what was certified, its stamps
\* and its artifacts are those of its status and its jobs, and open jobs are held.
DeploymentInvariant ==
    /\ TypeOK
    /\ DeployedWasCertified
    /\ StampsTellStatus
    /\ OpenJobsAreHeld
    /\ JobsHaveArtifacts
=============================================================================
