# A verification project for IntelliGuard

IntelliGuard is a governance platform for AI agents: a FastAPI service, a
PostgreSQL store, worker processes and a dashboard. Workflows of agents are
built, certified, deployed and run; tool calls pass a policy; risky actions go
to human review. This directory holds TLA+ models of its control logic, TLC
configurations that check them on small instances, and TLAPS proofs that hold
for every value of the constants. `PROJECT.json` maps every definition to the
source lines it models, and lists the hazards the properties are for.

Paths below are relative to `src/intelliguard/` unless they name a document.

## 1. Inventory

The processes (API workers, `workflow-runner`s, Temporal workers, knowledge
workers) share **nothing but the database**. Every method of
`persistence/store.py` opens a session, commits, and closes it (204-213): a
store method is one transaction, and between any two of them other processes
may run or this one may die. Inside a transaction a row that was read is not
locked (READ COMMITTED), and the ORM writes back only the attributes that
changed. That is the granularity of every model here: a method that reads and
then writes is one step where nothing it reads can be written in between, two
steps where the difference shows.

| Component | State it keeps | Operations | Module |
|---|---|---|---|
| Dispatch (`runtime/dispatcher.py`, `api/main.py` 1200-1240) | `workflow_runtime_runs` | `submit`, `create_workflow_runtime_run` | `RunDispatch` |
| Workflow-runner (`workers/runtime.py`, `runtime/hooks.py`) | the same rows, `review_queue`, `runtime_event_outbox` | claim, hook evaluation, pause, block, execute, fail | `RunWorker` |
| Temporal runtime (`temporal/`) | the durable workflow (Temporal server), the run's row | start, activities with retries, signals, completion | `RunTemporal` |
| Review resolution (`api/main.py` 1394-1438, `RuntimeReviewResumeService`) | `review_queue`, the run's row | approve, deny, signal | `RunReview` |
| Event stream (`runtime/event_bus.py`, `api/main.py` 1319-1348) | `runtime_event_outbox`, the client's cursor | append, list since, server-sent events | `EventStream` |
| Governed tool call (`governance/runner.py`, `governance/policy.py`) | session, `tool_calls`, `policy_decisions`, `review_queue`, `audit_events` | call a tool, replay by key, check the final response | `GovernedToolCall` |
| Workflow execution (`workflows/customer_support.py`, `workflows/graph.py`, `runtime/native_runner.py`) | `agent_workflows`, `agent_sessions`, `workflow_session_links` | save a graph, execute it from the definition or from a manifest, evaluate | `WorkflowGraph`, `WorkflowExecution` |
| Certification (`evaluation/`, `api/main.py` 273, 550, 983-1068) | certificates of tools, agents, workflows | evaluate, invalidate, enforce | `Certification` |
| Deployments (`api/main.py` 784-870, `runtime/manifest_compiler.py`, `scenario_evaluator.py`, `deployment_orchestrator.py`) | revisions, scenario runs, artifacts, jobs | compile, activate, retire, run suites, generate, deploy | `Deployments` |
| Workflow versions (`persistence/store.py` 580-762) | workflow rows, the versions' history | upsert, new version, transition, list | `WorkflowVersions` |
| Knowledge bases (`knowledge/`, `workers/knowledge.py`) | documents, chunks, index versions, published versions | upload, ingest, publish, evaluate, assign, delete | `Knowledge` |
| Accounts (`security/auth.py`, `persistence/store.py` 228-340, 3216-) | users, access rows, sessions | register, create, log in, authorise, log out | `Accounts` |

Left aside: budgets, isolation, model gateway and audit completeness (pure
comparisons inside one handler), the dashboard (every change of state goes
through the API), the adapters and code generation (no shared state), telemetry
(export only), the evaluator rules and judge (they score text), migrations (only
their effect, which unique indexes exist, is modelled), and the event and
evaluator workers (loops that do nothing yet).

### What is hard here

* **Interleaving.** No status write but the queue claim checks the status it
  overwrites; workers, reviewers, activities and requests write the same rows.
* **Stale copies.** A worker works from the row its claim returned, a reviewer
  from the row it read, an evaluation from the definition it read, a request from
  the permissions it read, an activation from the revisions it saw active.
* **Crashes.** Nothing requeues a RUNNING run, a parsing document, an evaluation,
  a deployment job or a workflow whose process died.
* **Check, then act.** Idempotency keys, first administrator, document limit,
  version numbers, activation: each is a look-up followed by a write.
* **Order of events.** Rows are ordered by a timestamp taken before the commit.
* **The same thing read by different code.** A graph is read as it is saved, when
  it is evaluated, and as it is executed, from a definition or from a manifest.

### What makes each component correct

* *Runs*: executed at most once and only after every approval; a denied run
  stays stopped; one run per key; what is queued is settled; a parked run can
  still be decided; a final status is final.
* *Event stream*: a client that goes on from its cursor gets every event once
  and in order.
* *Governed tool call*: nothing the policy refused is executed; a key executes a
  write tool once; what waits for review has a review item.
* *Execution*: what runs is the graph that was certified; a decision is no milder
  than what the governance answered; an execution ends.
* *Certification*: CERTIFIED describes the definition that was evaluated, and
  rests on certified parts.
* *Deployments*: one ACTIVE revision per workflow and environment; production
  only behind passing scenarios; RETIRED is final.
* *Versions*: numbers are unique and consecutive, locked versions unchanged, the
  history true.
* *Knowledge*: indexed documents are found, counts describe the chunks, every
  uploaded document is taken up.
* *Accounts*: there is always an administrator; a request that is accepted was
  allowed; nobody's access changes by what others do.

## 2. Modules

| Module | Models |
|---|---|
| `RunStore` | the three tables of the runtime, and the row updates of the store |
| `RunDispatch` | a submission: look-up, second look-up, INSERT, with or without the unique index |
| `RunWorker` | `run_once` with hook evaluation, one action per transaction, and the death of the process |
| `RunTemporal` | the start of a durable workflow, its activities, retries, signals and completion |
| `RunReview` | a resolve request: verdict, read, write, event |
| `RuntimeRuns` | the composition of the five, its properties and its inductive invariants |
| `RunLifecycle` | the abstract specification: the right to execute a run is a token |
| `EventStream` | the outbox, the cursor, the stream |
| `GovernedToolCall` | a session's tool calls from request to final response |
| `WorkflowGraph` | which graphs the store accepts, what an evaluation asks of them, and what an execution reads in them: operators only |
| `WorkflowExecution` | one execution of a workflow, over `WorkflowGraph` |
| `Certification` | tools, agents and workflows, their certificates, evaluations and the requests that look at a certificate |
| `WorkflowVersions` | definitions, their versions, transitions and the second copy in the history |
| `Deployments` | revisions, scenario runs, artifacts and jobs |
| `Knowledge` | a knowledge base: documents, ingestion, index and published versions |
| `Accounts` | accounts, access rows, sessions and the requests that use them |
| `MC...` | the values TLC takes for the constants that are not sets of names |
| the `...Proofs` of `RuntimeRuns`, `GovernedToolCall`, `Certification`, `WorkflowExecution`, `WorkflowVersions`, `Deployments`, `Knowledge` and `Accounts` | the theorems; those on `EventStream` are in `RuntimeRunsProofs` |

"Faulty:" operators beside an action are the plausible bugs that `PROJECT.json`
puts in its place to show that a property notices them. They are not part of
the specification.

### How state and actions correspond to the code

**Runtime runs.**

* `runs[r]` is a row of `workflow_runtime_runs`: `status`, `decision`, the
  idempotency key, `input_payload.approved_hook_ids` (`approved`) and whether
  `completed_at` is set. `matching` stands for the user query: the hooks whose
  conditions it meets. A status of "ABSENT" is a row not yet inserted.
  Payloads, error texts and timestamps are left out. Row ids are numbered in
  the order of `created_at`.
* `Manifest` is the list of actions of the deployment's `before_workflow` hooks.
  A hook is its position. The first matching hook that is not approved decides
  (`_first_matching_hook`), so a `continue` hook hides all later ones: `Gating`
  says which hooks guard a run.
* `worker[w]` is the program counter of `run_once` and its copy of the run.
  `Claim` is the only guarded write (`FOR UPDATE SKIP LOCKED` in a transaction
  that sets RUNNING); the others write whatever the row has become.
* `client[c]`, `request[q]` are the requests in flight; `temporal[r]` is the
  durable workflow. The Temporal server is external: one open workflow per id,
  at-least-once activities, signals to open workflows.
* `starts` and `abandoned` are history: executions of a run, and runs whose
  worker died.

Facts taken from the code that shape the model: the API never passes approved
hooks at submission; the store-backed queue has no depth, so `QueueSaturated`
cannot happen; PENDING and CANCELLED are never written to a run; hook reviews
carry no Temporal workflow, so a signal never decides a hook.

**Event stream.** An event is its place in the order `(created_at, outbox_id)`:
`Insert` takes the place, `Commit` makes the event visible, and the two are
separate because `created_at` is set before the transaction commits. `Page` is
the query with its limit, `ListSince` the cursor applied to the page as the code
does. `Poll`, `PollInterrupted` and `CheckStatus` are the rounds of
`event_stream`, which a lost connection can end after any event; `Connect` keeps
the cursor, as a client does with `after_outbox_id`. The stream ends on a status
the producers write before they append the closing event, so that event may
never be sent; nothing in the repository promises it, and no property does.

**Governed tool calls.** A call of `GovernedToolRunner` writes a policy decision,
an audit event, a `tool_calls` row, a review item and the session's status in
transactions of their own, and the tool commits in yet another. `call[c].pc` is
the place between two of them; `rows`, `policy`, `audit`, `review`, `session` are
the tables, indexed by the call that wrote the row. `effects` and `met` are
history: how often the tool has committed, and which calls were under way at the
same time. The workflow events a call appends are left out, but not that they
can fail: `Abort` ends a call at any place (a process that dies, a sequence
number another call has taken).

* The detectors are abstracted to the decision they come to (`Assessments`), but
  for repeated failures, whose score reaches the review threshold under the
  default thresholds; `FailureLimit` is 3 in the code. `ApplyMode` is
  `review_only`; with `disabled` the checks before the tool are skipped and the
  check of its result is not.
* Callers are the gateway (adapters, the Temporal activity, the tool endpoint),
  an agent run, and a workflow step. Only gateway calls carry a key, only writing
  tools look at it, and a step has a session of its own (`SessionOpenTo`).
* `AddToolCall` and `AddToolCallConflict` are one INSERT under the unique index
  on agent, tool and key, which `init_db` and the migrations both create.

**Workflow execution.** `WorkflowGraph` takes a payload of
POST /v1/workflow-definitions through `_workflow_definition_graph` (nodes or
steps, edges or connections drawn from them) to the definition that is stored,
states the criteria of its evaluation (`GraphDefined`, `TypesMatch`,
`InvalidEdges`), and reads it the way an execution does: `Selected` are the steps
the lead's routing takes, `Connections` the hand-offs. `Chosen` is what a loop with
a condition takes of a sequence, and `Once` the loop with a set of the edges already
`seen`, by which a repeated edge is stored, and handed off along, once. `Start`
reads both lists (`run.plan`, `run.connections`), as the code does before its first
session. An execution comes from
the definition or from a deployment's manifest, which has lost the activation
policies and the step's own `tool_name`: on that path every node runs, and only
`node.runtime.tool_name` calls a tool. `WorkflowExecution` then makes one
session after the other; `run.pc` is the place between two store calls,
`answers` is history.

* A governed call is one step here; `GovernedToolCall` has its parts. A tool that
  raises, and a final response that is only reviewed, answer REVIEW without an
  item, which `CallTool` and `Respond` allow.
* An agent deleted meanwhile (`DeleteAgent`) makes the next store call that needs
  it raise; a workflow whose process died or raised stays RUNNING.
* A step completes its session whatever was answered, so the completion
  evaluator only ever sees COMPLETED sessions.
* On Temporal each attempt of the activity (300 s, unlimited retries) is an
  execution of its own, with a workflow row of its own.

**Certification.** `config[x]` is what is hashed: `body` (two kinds, of which
`Passing` passes its evaluation) and an agent's attached tools. `cert[x]` is the
certificate, `evaluation[e]` a call of `evaluate_tool`, `evaluate_agent` or
`evaluate_workflow_definition` between two of its transactions, `request[q]` a
request that looks at a certificate before it acts. `passed`, `dirty`, `lapsed`,
`moved` and `registered` are history (`History`): configurations that passed,
evaluations overtaken by an edit, certificates they wrote, runs whose workflow
was edited between two reads, tools attached by registering an agent. `production`
is the environment, which decides what `Usable` asks.

**Workflow versions.** `definition[d]` is a row of `workflow_definitions`,
`version[d]` its copy in the history, which `Synced` writes from what was read:
so a request is a read (`torn`, `overlapped` record what a read missed) and a
write. `Unique` stands for the unique indexes.

**Deployments.** Compiling reads the workflow, then its certificate, then inserts
(`ReadWorkflow`, `ReadCertificate`, `Insert`); activation reads and then writes
only what differs from what it read (`Activated`); artifacts are inserted one by
one; a job is opened and closed around the backend. `had`, `certified`, `edited`,
`outdated`, `raced` and `cut` are history. An evaluation is one step,
`Certification` has its parts. Facts that shape the model: the store keeps no
`pass_threshold`, so that a suite passes only when all cases do; nothing in the
API retires a revision but an activation; a PACKAGED revision may be run in
production without the gate (`api/main.py` 1216), and what compiling compares of
the certificate is its status, not its hash.

**Knowledge.** One knowledge base. A source and its document are one row, a
document has one chunk per index version, and the reads of an evaluation are one
step. `Init` is the state after POST /v1/knowledge-bases. `ingester[g]` is the
worker or a sync request, between two transactions of `ingest_knowledge_base`;
requests are numbered and the smallest free one serves; documents are numbered
and the newest is ingested first. `orphaned`, `crowded` and `told` are history:
documents an ingestion died on, documents inserted while another request was past
the limit's check, and the version published last. Ingestion after
create-with-files is a sync without force.

**Accounts.** `AccessKey` is the id under which the access rows of an address are
stored: `@` and `.` are both spelled `_`, so two addresses can share it. A
registration finds the row, then writes it; `SavedUser` writes the attributes
that differ from those read. Legacy accounts are the rows without password of the
migration (`persistence/db.py` 103-120). A request authenticates (`Present`),
reads the user, reads the access, and is checked; `Expire` stands for the 12 hours
of a session. `given`, `writes` and `raced` are history. The active role only
labels a request; an environment is visible by any row even without "read".

## 3. Runs

Every bound is a constant of a `.cfg`. `CHECK_DEADLOCK FALSE` is set because
the finite instances really stop: every request has been answered.

| Run | Instance | What it shows |
|---|---|---|
| `native` | 1 run, hooks `pause_for_review, escalate`, 2 workers, 3 reviews, 3 resolve requests, 2 crashes (176k states) | `RunInvariant` (types, token, approvals, `completed_at`, events); executed at most once and only after the approvals; a RUNNING run is held; a denied run stays stopped; only late pauses strand a run; refinement of `RunLifecycle` |
| `keys` | 2 submissions, 1 key, hooks `pause, block, continue`, 1 worker that does not know the runtime type, unique index | one run per key, and both callers get the same run |
| `settle` | 2 runs, 2 workers, 2 reviews, fairness, no crash | a queued run is executed, blocked or parked |
| `temporal` | 1 run, 2 workers, 2 attempts per node, signals, 1 crash, lost answers | one workflow per run; COMPLETED is final but for two writes |
| `event_stream` | 2 producers, 4 events, page 4, 2 rounds | once, only late events are missed, replay is complete |
| `tool_calls` | 2 calls of any callers and modes, 1 key, failure limit 1, overlapping, dying anywhere (1.26M states) | effects are audited before and recorded after; a key executes twice only for calls that overlap or after a lost record; failures stop the tools; blocked, parked and pending mean what they say |
| `execution` | every graph of up to two steps (three nodes), 3 agents, both paths, 1 deletion, 1 death (629k states) | the graph saved, certified and followed is one; a decision tells the worst answer; an execution ends |
| `certification` | 1 tool, 1 agent, 1 workflow, 2 evaluations, 1 request, 3 edits | certificates are current, earned, founded; what is attached has passed |
| `versions` | 3 definitions, 2 contents, 2 requests, 5 operations (1.61M states) | numbers, lineage, locks; the history is true but for torn reads; changes follow the table |
| `deployments` | 1 workflow, 2 revisions, 1 job, 3 requests, 2 artifacts, 7 operations (244k states) | one active revision, gated, retired for good; revisions, stamps, artifacts and jobs agree |
| `knowledge` | 2 documents, limit 1, worker and sync, 2 requests, 2 index versions, 3 operations, 1 crash (363k states) | documents, chunks, indexes and publication agree; counts are true; uploads are taken up |
| `accounts` | 3 addresses, two with one access key, one legacy, 2 requests, 2 sessions, 4 operations (602k states) | an administrator exists; an accepted request is allowed; nobody's standing changes by others |

The properties named `...Invariant` are conjunctions of named parts, each with its
own comment; the first part is the type invariant.

### Where the code departs from what its docs or a reader would expect

Each property states the exception in so many words, so that it is checked that
there is no other.

* `OnlyLatePausesStrand`: the review item is visible before the worker writes
  REVIEW; a verdict in between is overwritten, and the run is parked with nobody
  to decide it. A pause can also be written over COMPLETED (`CompletedIsFinal`).
* `CompletedIsFinal`: RUNNING is written over the COMPLETED of a workflow that was
  faster than the worker that started it.
* `ReplayIsComplete`: the limit of a page is applied before the cursor; of a run
  with more events than the limit the later ones can never be read.
* `BlockedIsNotDelivered`: a replay hands out the result withheld from the first
  call, and an agent run returns the tool's result beside a blocked response.
* `ReviewIsQueued`: a tool that raises answers REVIEW without a review item, so
  does a replay, and a response under guardrails that only review. A durable
  workflow that gets such an answer waits for a signal nobody can send.
* `PendingReviewPausesSession`: a workflow step completes the session that waits
  for its review.
* `CertificateIsCurrent`: an evaluation certifies over an edit made while it ran.
* `AttachedHavePassed`: registering an agent attaches tools nobody looked at.
* `HistoryIsTrue`, `ChangesByTheRules`: overlapping requests leave a history that
  no moment had, and may edit a definition that was locked meanwhile.
* `OneActive`, `RetiredIsFinal`: overlapping activations.
* `PendingIsTakenUp`: the knowledge worker ends when a document or knowledge base
  is deleted under it; `docker-compose.yml` gives it no restart policy.
* `LimitOfDocuments`, `OneAdministrator`: checks that overlap with another write.
* `AccessOfOthersIsKept`: two addresses that spell one access key.
* `CertifiedRunsItsEdges`, `RequiredNodesRun`: a lead node with another id than
  "lead" loses its edges; the definition's steps may leave a node out.
* `LinksFollowTheGraph`: a node that is called "lead" and is not the lead is taken for
  it, so that no session is the parent of another by that name
  (`workflows/customer_support.py` 368-371).
* `ExecutionEnds`: nothing takes up a workflow whose process died or raised.

Changing one constant of a passing run shows three more: without
`SingleResolution` the later of two verdicts on one item can be the denial while
the approval requeues the run (`DeniedStaysStopped`); without `UniqueIndex`, on a
database made by `init_db`, two submissions with one key create two runs
(`OneRunPerKey`); with a `RuntimeType` of langgraph or strands the worker process
dies and the run stays RUNNING (`QueuedRunsSettle`).

### Why the bounds are enough

Runs interact only through the queue and through keys, so one run exercises
the token, pause and approval logic and two runs the keys and the order of the
queue. Two workers are what a double claim needs. Two pausing hooks make a run
go through pause, approval and claim three times; three requests allow a
resolution for each. Two crashes reach a worker dying with a run and a request
dying in the middle. Two tool calls are what a race for a key needs; the failure
limit of 1 lets the second call meet it. The theorems hold without these bounds.

Elsewhere every race is between two: two evaluations of one item, two requests
on one definition, an ingestion by the worker and one by a request, two
registrations. `Deployments` has three requests so that two activations overlap
with a third request. Three definitions let a version have a version; a document
limit of 1 with two documents is exceeded by the first race; three addresses give
two with a common access key and one that existed before. Two steps give a graph
its parallel, sequential and skipping forms; a third would add nodes with two
predecessors, whose order `Parent` takes from the edges.
`MaxReviews`, `MaxRuns`, `MaxEdits`, `MaxIndexes` bound inserts, `MaxOperations`
the operations begun, `MaxRetries` the attempts of a Temporal node, `MaxCrashes`
the deaths, `MaxDeletions` the agents deleted, `MaxEvents` and `MaxPolls` the
stream. Symmetry is used only in runs without liveness, over sets of names the
specification does not tell apart.

### Assumptions about the environment

* `SingleResolution`: an item gets one resolve request. The code does not
  enforce it (the queue screen lists pending items only). Section 4 says which
  theorems need it.
* `UniqueIndex`: the migrations create it, `init_db` does not.
* Fairness. `FairSpec` of the runs: weak fairness of each worker's actions (a
  polling loop that its deployment restarts), of a request in progress, and of
  Temporal (which retries until it succeeds). `Fairness` of `Knowledge`: the
  worker polls and goes on with what it took up while it is up; nothing promises
  its restart. `WF_vars(Execute)` of `WorkflowExecution`: a process that executes
  goes on unless it dies. No caller has to submit, no reviewer has to resolve, no
  signal has to come, and nothing has to crash.

## 4. Proofs

TLAPS checks every proof to the last leaf, with Z3, Zenon and LS4.

**Runtime runs.** The specification allows any number of runs, workers,
clients, requests, crashes and any manifest.

* `TypeCorrect`: the types, together with `ReferencesExist`: nothing works on a
  row that was not inserted.
* `TokenInvariance` is the core. "Executed at most once" is not inductive: it
  holds because the right to execute is a token. `TokenIsUnique` says the token
  is in one place at most - the queue, one worker, or one review that is pending
  or whose approval is being applied -, `UnusedTokenIsFresh` that the agents
  have not run while it is unused, `OneRequestPerReview` that an approval gives
  back one token. Each action either moves the token or destroys it. From it
  follow `ExecutedOnce`, `ExecutionIsExclusive` and `OneWorkflow`. All need
  `SingleResolution`.
* `KeysAreUnique` needs `UniqueIndex` and its own invariant on keys; `AnswersAgree`
  adds that the run a request was answered with carries the key of the request
  (`AnswersCarryKey`), so that requests with one key are answered with one run.
* `GateInvariance`, `GatesHold`: approvals are copied from the run to a worker
  or to a request and back, so the invariant follows each copy back to a
  reviewer's verdict (`ApprovalsAreReal`); reviews exist only for pausing hooks
  (`ReviewsArePauses`); whoever is past the hooks has all approvals
  (`PassedHooksAreOpen`). No assumption is needed: it holds with repeated
  resolutions, crashes and retries.
* `LifecycleImplemented` is the refinement: the abstract token is at `PlaceOf(r)`, and
  `LifeSteps` says of every action which token it moves, from which place to which,
  or that it moves none; with `TokenInvariant` each of these is a step of
  `RunLifecycle` or a stutter. It is about the runtimes a worker executes itself
  (`RuntimeType # "temporal"`): a durable workflow takes the token out of this system.
* `RunInvariance` adds events and time stamps: each attempt has an event that opened
  it and that no closing event has used (`AttemptsCounted`: a count of events
  against the set of workers past their first event).
* `RunningRunsAreHeld` (`RuntimeType # "temporal"`): every write of RUNNING
  has a holder, and a worker lets go only by another status write or by dying
  (`SettlersMove`), which makes the run abandoned.
* `DeniedRunsStayStopped` needs that an item keeps the verdict of its one request
  (`VerdictsMatch`) and that no token is left when a run is denied or completed
  (`OverInvariant`), and so does `CompletedRunsAreFinal`; `ReviewsSettleRuns` needs the
  types only. `DeniedRunsStayStopped`, `CompletedRunsAreFinal`, the refinement and
  `RunInvariance` need `SingleResolution`.

**Event stream.** With a run that fits in a page (`MaxEvents <= PageLimit`),
`ReceivedExactly` - below the cursor everything visible was received once or
came late - is inductive, and gives `NoneDeliveredTwice`, `NoneMissedButLate`
and `CursorForward`. `ReplaysComplete` needs no such assumption.

**Governed tool calls**, for any number of calls, keys and any limit.

* `ToolCallInvariance`: each place of a call says what it has written
  (`CallInv`), a step leaves the other calls alone (`Locality`), and the index
  keeps keys unique (`KeysUnique`). It gives `ToolCallSafety`, with calls
  overlapping and dying anywhere.
* `MetInvariance` adds what overlapping calls know of each other, through the
  history `met`: two calls under way have met (`MetEachOther`); who executed with
  a key is about to record it, has lost the record, or the key is taken
  (`KeyTaken`), so who is about to execute with it has met all who did
  (`ExecutedMet`); what is about to execute was allowed before the earlier failures
  reached the limit (`AllowedInTime`). It gives `KeyExecutesOnceAlways` and
  `FailuresStop`.
* `AnswersInvariance` says what an answer rests on at each place of a call
  (`AnswerInv`: the decision it carries, whether the result was handed on, and for a
  REVIEW the item, the raised tool, the replay or the guardrail mode it comes
  from), and that a completed session was completed by some call (`SessionInv`). It
  gives `BlockedWithheld`, `ReviewsAreQueued` and `PendingReviewsPause`.

**Certification**, for any tools, agents, workflows, evaluations and edits.

* `Invariance`: `CertificateIsCurrent` alone is not inductive, since a certificate
  is written from what an evaluation read. `EvaluationInv` says what an evaluation
  under way still knows - unless it is `dirty` its copy is the item's
  configuration, its parts had passed, its verdict is recorded - and
  `PassedAreFounded` that whatever passed rests on parts that did. It gives
  `CertificatesCurrent` and, with the invariant on requests (`RequestInv`: what a
  request checked still has passed, because `passed` only grows),
  `CertificationSafety` and `AttachedPassed`.

**Workflow execution**, for any agents and payloads. `TellsTheWorst`: the decision
is written once, from the results, so the invariant says that every answer but
ALLOW, and every review item, is among the results as soon as it is given
(`AnswersAreResults`), and that a completed workflow has the worst of them and
its execution adds none (`CompletedWithWorst`). `SavedIsSound` says what the
acceptance of a payload implies for the evaluation; no induction over steps is needed.

`ExecutionInvariance` ties the three readings of a graph together. What is stored
is a normal form (`WellMade`: a lead, ids that are each one node's, each edge once), an
execution goes by what it read of it at the start (`ReadOnce`), and the sessions
linked so far are those of the plan up to its place (`PlanLinked`). From these
`ParentHands` shows that the parent the code finds by searching the incoming hand-offs in
their order is a session whose node hands off in the saved graph, or the lead
where there is none; a workflow that completes has worked through its plan, and the
plan has all required nodes (`RequiredSelected`). The lemmas on `Chosen` and `Once` speak
of the positions a loop takes, and need no induction over data.

**Workflow versions**, for any definitions and requests. `Knows` says what a
request under way may rely on: what it read still holds unless a transition
passed it by, an edit read a definition that was not locked, a transition's
target is in the table for the status it read, and where the two copies it read
differ the definition is torn. It gives `HistoryTrue` and `ChangesKeepTheRules`.
`VersionInvariance`: the numbers of a root's definitions are 1 to their count
(`Linear`), and the number a request took is at most the next one (`Asked`), so that
an insert either takes the next number or is refused by the unique index. That
a line is finite is part of the invariant, not an assumption.

**Deployments**, for any workflows, revisions, requests and jobs. An activation
retires what it read as active and a compilation inserts what it read of the workflow,
so `ActivationsRead` and `CompilationsRead` say what each still knows: what it read is
as it was, or the revision is `raced`, the request `edited`, the certificate had
lapsed. Everything else follows the rows: a suite that passed has cases
(`SuitesReal`), a generation under way will complete the artifacts (`GenerationsEnough`),
an open job has a request that holds it or its process died (`OpenJobsAreHeld`). It
gives `DeploymentInvariance`, `OneIsActive`, `ActiveRevisionsAreGated` and
`RetirementIsFinal`.

**Knowledge**, for any number of documents, ingesters, requests, index versions and
crashes. Indexing, the counts and the limit are about rows that an ingestion or a
request writes from what it read transactions before, so these invariants are not
inductive; `KnowledgeInductive` adds what each of these still relies on.

* An ingestion holds an index version of its own (`IndexesAreOwn`) and works on
  documents that version lists (`WorksOn`); one that is `alone` has no other beside it
  (`AloneIsAlone`), and after it finished all others opened later versions
  (`LaterAreNewer`).
* `Accounted`: the chunks of one that is alone are those of the documents it has done
  and marked indexed, and the one it is at; once it counts, its counts are theirs. It
  gives `CountsTrue`.
* Ingestions that are not alone can replace each other's chunks, so
  `IndexedHasChunks` cannot name the version that has them: `IndexedIsCarried` says
  that some version does, and that whoever has counted that version's chunks found one
  (`Carries`) and will not delete it as empty. `LaterCarries` adds that what a
  finished version took up and no longer has a chunk of is carried by a later one;
  retrieval reads the version with the greatest number, which has none later, and
  this is `SearchFindsIndexed`.
* `Quota`: a request past the check of the limit leaves room for all files it still has
  to insert, counting the documents that did not come in beside another such request
  (`crowded`). It gives `LimitOfDocuments`; that a deleted knowledge base is empty
  (`EmptyWithout`) and documents are numbered as they come (`InOrder`) carry it
  over the steps.

It gives `KnowledgeInvariance`. Nothing is assumed of the constants but what
`Knowledge` states of them. The proof also corrected the model: an insert by an upload
and one by a create were two arms of one `CASE` whose guards overlapped, which
TLC resolves by their order and TLA+ leaves open.

**Accounts**, for any accounts, requests and sessions. A registration goes on only
from an account without a password, which does not administer; access rows are
kept under the key of the account they name; and whoever registers without
becoming an administrator has seen one (`Relies`). It gives `StandingKept` and
`AdministratorThere`. `AccountInvariance` and `AcceptedAllowed` need what the three reads
of a request know of its account (`ContextRead`: still true, or the account was
written again, or another one shares its access key), and that what an account holds
are the pairs of environment and permission it was given (`PermissionsAreGiven`).
The assumptions on constants are that each address has a key and that what
administrators give are permissions in environments.

Every invariant and action property of the runs is stated by a theorem. Only
model-checked: the liveness properties (`QueuedRunsSettle`, `PendingIsTakenUp`,
`ExecutionEnds`), which with fairness and ENABLED are out of the prover's reach.
Neither the refinement nor `RunningIsHeld` is claimed of runs on Temporal, by a theorem
or by a run: a start recorded after the workflow has completed leaves a run RUNNING
that nobody holds (`CompletedIsFinal` has that exception).

## 5. Plan

Every component of the plan is modelled. What is left, in order:

1. `GovernedToolCall` composed with `WorkflowExecution`, which now takes a
   governed call as one step.
2. The detectors' thresholds and `runtime/isolation.py` as operators, against
   reference definitions.

## 6. Not modelled

For good: the dashboard, telemetry, adapters, code generation, text scoring and
the idle workers, and `runtime/budgets.py`, `isolation.py` and the model gateway,
which are comparisons inside one handler: a model would restate them.

Within modelled parts: payloads, error texts and tracing; the access control of
the endpoints (what `Accounts` says of a request holds of each of them;
POST /v1/agents checks only the environment it names); the rules by which an access
policy is attached; `mark_published` and `mark_failed_attempt`, which have no
caller; `InMemoryRunQueue`, which only tests use; retention of knowledge files in
the object store; a second knowledge base.
