--------------------------- MODULE WorkflowExecution ---------------------------
(***************************************************************************)
(* One execution of a multi-agent workflow, on behalf of a request or of   *)
(* the native runner: the lead's session, a session for each step that was *)
(* selected, the governed call in it, and the completion, each write a     *)
(* transaction.  Agents are deleted and review items resolved meanwhile,   *)
(* and the process may die anywhere; nothing takes the execution up again. *)
(*                                                                         *)
(* A governed call is the answer it gives; its own steps are those of      *)
(* GovernedToolCall.  Sessions are numbered in the order of their links,   *)
(* the lead's being 0.                                                     *)
(***************************************************************************)
EXTENDS WorkflowGraph

CONSTANTS
    Payloads,       \* the definitions that may be posted
    MaxDeletions    \* bound on agents deleted

ASSUME WorkflowExecutionAssumption ==
    /\ Payloads \subseteq [lead: Agents, nodes: Seq(Node), steps: Seq(Step), edges: Seq(Edge),
                           visual: Seq(Edge) \cup {Absent}]
    /\ MaxDeletions \in Nat

VARIABLES
    definition,     \* row of workflow_definitions
    deleted,        \* agents deleted
    workflow,       \* row of agent_workflows
    session,        \* rows of agent_sessions: status by number
    link,           \* rows of workflow_session_links in their sequence
    review,         \* items of review_queue, by session
    score,          \* what the completion evaluator recorded
    run,            \* the executing process
    answers         \* history: what the governance answered in each session

vars == <<definition, deleted, workflow, session, link, review, score, run, answers>>

Decisions == {"ALLOW", "REVIEW", "BLOCK"}

NoDefinition == [lead |-> None]
NotScored == -1
NoWorkflow == [status |-> "none", decision |-> None]

\* What the tables hold: agent_workflows, agent_sessions, workflow_session_links,
\* review_queue and the scores of completion evaluations.
Workflow == {[status |-> "RUNNING", decision |-> None]} \cup [status: {"COMPLETED"}, decision: Decisions]
SessionStatus == {"none", "RUNNING", "REVIEW", "BLOCK", "COMPLETED"}
Link == [session: Nat, id: NodeIds, parent: Int]
ReviewStatus == {"none", "PENDING", "RESOLVED"}
Score == {NotScored, 0, 50, 100}

\* plan are the steps selected and connections the edges between them, session is the
\* number of the session worked at, results the decisions so far.
Run == [pc: {"idle", "lead", "link lead", "next", "session", "link", "call", "respond",
             "complete", "close lead", "finish", "evaluate", "returned", "raised", "died"},
        path: Paths, plan: Seq(Step), connections: Seq(Edge),
        session: Nat, results: Seq(Decisions)]

TypeOK ==
    /\ definition # NoDefinition =>
          /\ definition.nodes \in Seq(StoredNode) /\ definition.steps \in Seq(Step)
          /\ definition.edges \in Seq(Edge)
    /\ deleted \subseteq Agents
    /\ workflow \in Workflow \cup {NoWorkflow}
    /\ session \in [0 .. Len(link) -> SessionStatus]
    /\ link \in Seq(Link)
    /\ \A n \in DOMAIN review : review[n] \in ReviewStatus
    /\ score \in Score
    /\ run \in Run

Init ==
    /\ definition = NoDefinition
    /\ deleted = {}
    /\ workflow = NoWorkflow
    /\ session = [n \in 0 .. 0 |-> "none"]
    /\ link = <<>>
    /\ review = [n \in 0 .. 0 |-> "none"]
    /\ score = NotScored
    /\ run = [pc |-> "idle", path |-> "definition", plan |-> <<>>, connections |-> <<>>,
              session |-> 0, results |-> <<>>]
    /\ answers = [n \in 0 .. 0 |-> {}]

At(pc) == run.pc = pc
Goto(pc) == run' = [run EXCEPT !.pc = pc]

Plan == run.plan
Lead == LeadAgent(definition, run.path)
Current == Plan[run.session]
Agent == IF run.session = 0 THEN Lead ELSE Current.agent
Known(a) == a \notin deleted

rows == <<definition, deleted, workflow, session, link, review, score>>

-----------------------------------------------------------------------------
\* POST /v1/workflow-definitions; a graph that is not accepted changes nothing.
Save(p) ==
    /\ definition = NoDefinition /\ Accepted(p)
    /\ definition' = Definition(p)
    /\ UNCHANGED <<deleted, workflow, session, link, review, score, run, answers>>

\* What is read of the definition, and create_agent_workflow, for a lead agent that
\* exists.
Start(path) ==
    LET Read(pc) == [run EXCEPT !.pc = pc, !.path = path, !.plan = Selected(definition, path),
                                !.connections = Connections(definition, path)] IN
    /\ At("idle") /\ definition # NoDefinition
    /\ IF Known(LeadAgent(definition, path))
       THEN workflow' = [status |-> "RUNNING", decision |-> None] /\ run' = Read("lead")
       ELSE UNCHANGED workflow /\ run' = Read("raised")
    /\ UNCHANGED <<definition, deleted, session, link, review, score, answers>>

\* ensure_agent_session: an agent that was deleted makes it raise.
EnsureSession(from, to) ==
    /\ At(from)
    /\ IF Known(Agent)
       THEN session' = [session EXCEPT ![run.session] = "RUNNING"] /\ Goto(to)
       ELSE UNCHANGED session /\ Goto("raised")
    /\ UNCHANGED <<definition, deleted, workflow, link, review, score, answers>>

\* The rows of one more session.
Grown(f, new) == [m \in 0 .. Len(link) + 1 |-> IF m \in DOMAIN f THEN f[m] ELSE new]

\* The parent of a step's session is that of the first node handing off to it
\* that has one, of the lead otherwise.
SessionsOf(id) == {n \in 1 .. run.session - 1 : Plan[n].id = id}
\* Faulty: the parent is the last session made.
ParentLatest ==
    LET ran == {n \in 1 .. run.session - 1 : Plan[n].id # LeadId}
    IN  IF ran = {} THEN 0 ELSE CHOOSE n \in ran : \A m \in ran : m <= n

Parent ==
    LET from == Incoming(run.connections, Current.id)
        ran == {i \in DOMAIN from : from[i] # LeadId /\ SessionsOf(from[i]) # {}}
    IN  IF ran = {} THEN 0
        ELSE LET first == CHOOSE i \in ran : \A j \in ran : i <= j
             IN  CHOOSE n \in SessionsOf(from[first]) : \A m \in SessionsOf(from[first]) : m <= n

\* link_session_to_workflow, and get_agent_identity, which raises as well.
LinkSession(from, to, id, parent) ==
    /\ At(from)
    /\ IF Known(Agent)
       THEN /\ link' = Append(link, [session |-> run.session, id |-> id, parent |-> parent])
            /\ session' = Grown(session, "none")
            /\ review' = Grown(review, "none")
            /\ answers' = Grown(answers, {})
            /\ Goto(to)
       ELSE UNCHANGED <<link, session, review, answers>> /\ Goto("raised")
    /\ UNCHANGED <<definition, deleted, workflow, score>>

\* The routing is known; the next step that was selected.
NextStep ==
    /\ At("next")
    /\ run' = IF run.session < Len(Plan)
              THEN [run EXCEPT !.pc = "session", !.session = @ + 1]
              ELSE [run EXCEPT !.pc = "close lead"]
    /\ UNCHANGED <<rows, answers>>

\* Faulty: a review outweighs a block.
WorstOfTwo(results) ==
    IF \E i \in DOMAIN results : results[i] = "REVIEW" THEN "REVIEW"
    ELSE IF \E i \in DOMAIN results : results[i] = "BLOCK" THEN "BLOCK" ELSE "ALLOW"

Worst(results) ==
    IF Contains(results, "BLOCK") THEN "BLOCK"
    ELSE IF Contains(results, "REVIEW") THEN "REVIEW" ELSE "ALLOW"

Result(d, pc) == run' = [run EXCEPT !.pc = pc, !.results = Append(@, d)]
Answered(d) == answers' = [answers EXCEPT ![run.session] = @ \cup {d}]

\* A step with a tool calls it: allowed, refused, or parked with an item in the
\* queue; a tool that raises is answered REVIEW without one.
CallTool ==
    /\ At("call") /\ Current.tool /\ Known(Agent)
    /\ \E d \in Decisions :
         /\ session' = IF d = "ALLOW" THEN session ELSE [session EXCEPT ![run.session] = d]
         /\ IF d = "ALLOW" THEN Goto("respond") ELSE Result(d, "complete")
         /\ Answered(d)
         /\ review' \in IF d = "REVIEW" THEN {review, [review EXCEPT ![run.session] = "PENDING"]}
                        ELSE {review}
    /\ UNCHANGED <<definition, deleted, workflow, link, score>>

\* check_final_response: what it blocks is not completed, and is a review where
\* guardrails only review.
Respond ==
    /\ At("respond") /\ Known(Agent)
    /\ \E d \in Decisions :
         /\ session' = [session EXCEPT ![run.session] = IF d = "BLOCK" THEN d ELSE "COMPLETED"]
         /\ Result(d, "complete") /\ Answered(d)
    /\ UNCHANGED <<definition, deleted, workflow, link, review, score>>

\* The runner of an agent that was deleted cannot be made, and a tool that is not
\* registered cannot be got.
CallRaises ==
    /\ (At("call") /\ Current.tool) \/ (At("respond") /\ ~Known(Agent))
    /\ Goto("raised")
    /\ UNCHANGED <<rows, answers>>

\* A step without a tool sums up the steps before it.
Summarise ==
    /\ At("call") /\ ~Current.tool
    /\ Result(Worst(run.results), "complete")
    /\ UNCHANGED <<rows, answers>>

CompleteStep ==
    /\ At("complete")
    /\ session' = [session EXCEPT ![run.session] = "COMPLETED"]
    /\ Goto("next")
    /\ UNCHANGED <<definition, deleted, workflow, link, review, score, answers>>

CloseLead ==
    /\ At("close lead")
    /\ session' = [session EXCEPT ![0] = "COMPLETED"]
    /\ Goto("finish")
    /\ UNCHANGED <<definition, deleted, workflow, link, review, score, answers>>

\* update_agent_workflow.
Completed(d) == [status |-> "COMPLETED", decision |-> d]
\* Faulty: a workflow that waits for a review is not completed.
FinishReviewed ==
    /\ At("finish") /\ \A n \in DOMAIN review : review[n] # "PENDING"
    /\ workflow' = Completed(Worst(run.results))
    /\ Goto("evaluate")
    /\ UNCHANGED <<definition, deleted, session, link, review, score, answers>>

Finish ==
    /\ At("finish")
    /\ workflow' = Completed(Worst(run.results))
    /\ Goto("evaluate")
    /\ UNCHANGED <<definition, deleted, session, link, review, score, answers>>

\* The completion evaluator looks at the sessions linked.
CompletionScore ==
    LET statuses == {session[link[i].session] : i \in DOMAIN link}
    IN  IF statuses = {} \/ "BLOCK" \in statuses THEN 0
        ELSE IF statuses = {"COMPLETED"} THEN 100 ELSE 50

\* The evaluation after the workflow, for a lead agent that has an evaluator, and
\* the result: a lead agent deleted meanwhile makes it raise.
Evaluate ==
    /\ At("evaluate")
    /\ IF Known(Lead)
       THEN score' \in {NotScored, CompletionScore} /\ Goto("returned")
       ELSE UNCHANGED score /\ Goto("raised")
    /\ UNCHANGED <<definition, deleted, workflow, session, link, review, answers>>

Over == run.pc \in {"idle", "returned", "raised", "died"}

Die ==
    /\ ~Over /\ Goto("died")
    /\ UNCHANGED <<rows, answers>>

-----------------------------------------------------------------------------
\* DELETE /v1/agents: sessions and workflows keep its id.
DeleteAgent(a) ==
    /\ Known(a) /\ definition # NoDefinition /\ Cardinality(deleted) < MaxDeletions
    /\ deleted' = deleted \cup {a}
    /\ UNCHANGED <<definition, workflow, session, link, review, score, run, answers>>

\* Resolving an item leaves the session and the workflow alone.
ResolveReviewItem(n) ==
    /\ review[n] = "PENDING"
    /\ review' = [review EXCEPT ![n] = "RESOLVED"]
    /\ UNCHANGED <<definition, deleted, workflow, session, link, score, run, answers>>

Execute ==
    \/ EnsureSession("lead", "link lead") \/ LinkSession("link lead", "next", LeadId, -1)
    \/ NextStep
    \/ EnsureSession("session", "link")
    \/ At("link") /\ LinkSession("link", "call", Current.id, Parent)
    \/ CallTool \/ Respond \/ CallRaises \/ Summarise \/ CompleteStep
    \/ CloseLead \/ Finish \/ Evaluate

Next ==
    \/ \E p \in Payloads : Save(p)
    \/ \E path \in Paths : Start(path)
    \/ Execute
    \/ Die
    \/ \E a \in Agents : DeleteAgent(a)
    \/ \E n \in DOMAIN review : ResolveReviewItem(n)

Spec == Init /\ [][Next]_vars /\ WF_vars(Execute)

-----------------------------------------------------------------------------
\* A graph that was accepted passes the criteria of its evaluation, whichever way
\* it was given: as nodes, as steps, with edges or with the connections drawn.
\* Only a lead that hands off to nobody may fail it.
SavedGraphIsSound ==
    definition # NoDefinition =>
        GraphDefined(definition) /\ TypesMatch(definition) /\ InvalidEdges(definition) = {}

\* The connections an execution follows are the edges that were evaluated: those of
\* a deployment always, those of the definition when each node is one of its
\* steps.  A lead whose node has another id than "lead" is the exception: its
\* edges are not those of a step, and are dropped.
CertifiedRunsItsEdges ==
    definition # NoDefinition /\ Certifiable(definition) =>
        /\ definition.nodes[ManifestLead(definition)].id = LeadId
              => Connections(definition, "manifest") = definition.edges
        /\ Ids(definition.nodes) \subseteq {LeadId} \cup Ids(definition.steps)
              => Connections(definition, "definition") = definition.edges

\* Sessions are linked in their order, and the parent of each is an earlier one
\* whose node hands off to it in the saved graph; the lead's, when none did.  Who
\* is called "lead" is taken for the lead, whatever its agent: no session is the
\* parent of another by that name.
LinksFollowTheGraph ==
    \A i \in DOMAIN link :
        /\ link[i].session = i - 1
        /\ i = 1 <=> link[i].parent = -1
        /\ i > 1 =>
              LET handing == {j \in 2 .. i - 1 :
                                /\ link[j].id # LeadId
                                /\ <<link[j].id, link[i].id>> \in ToSet(definition.edges)}
              IN  IF link[i].parent = 0 THEN handing = {} ELSE link[i].parent + 1 \in handing

\* A workflow completes only after every node that is always activated, or that
\* asks for a human, had its session.  The definition's steps may leave a node
\* out or state another policy; a deployment runs them all.
RequiredNodesRun ==
    workflow.status = "COMPLETED" =>
        \A node \in ToSet(definition.nodes) :
            /\ node.policy \in {"always", "human_required"}
            /\ node.type # "lead_agent" /\ node.id # LeadId
            /\ run.path = "definition" =>
                  \E step \in ToSet(definition.steps) :
                      step.id = node.id /\ step.policy \in {None, "always", "human_required"}
            => \E i \in DOMAIN link : link[i].id = node.id

\* The decision of a completed workflow is no milder than any answer the
\* governance gave in one of its sessions, and a call that left an item in the
\* queue is not told as allowed: by then its session reads COMPLETED.
DecisionTellsTheWorst ==
    workflow.status = "COMPLETED" =>
        LET all == UNION {answers[n] : n \in DOMAIN answers}
        IN  /\ "BLOCK" \in all => workflow.decision = "BLOCK"
            /\ "REVIEW" \in all => workflow.decision # "ALLOW"
            /\ (\E n \in DOMAIN review : review[n] # "none") => workflow.decision # "ALLOW"

\* An execution under way comes to an end: its workflow is completed, or an agent
\* that was deleted made it raise, or its process died and it stays RUNNING.
ExecutionEnds == (workflow.status = "RUNNING") ~> (workflow.status = "COMPLETED" \/ Over)

\* The graph that was accepted, certified and linked is one graph, and all of its
\* required nodes run.
ExecutionInvariant ==
    /\ TypeOK
    /\ SavedGraphIsSound
    /\ CertifiedRunsItsEdges
    /\ LinksFollowTheGraph
    /\ RequiredNodesRun
=============================================================================
