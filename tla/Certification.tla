---------------------------- MODULE Certification ----------------------------
(***************************************************************************)
(* Certificates of tools, agents and workflows.  An evaluation reads the   *)
(* item, opens its certificate, judges what it read and writes the verdict *)
(* in transactions of their own, while edits, grants and other evaluations *)
(* go on: an edit withdraws the certificate, and an evaluation that began  *)
(* before the edit may put it back.  Grants, workflow edits and runs look  *)
(* at a certificate in one transaction and act in a later one.             *)
(*                                                                         *)
(* A request that is refused changes nothing and is left out.              *)
(***************************************************************************)
EXTENDS Integers, FiniteSets

CONSTANTS
    Tools, Agents, Workflows,   \* the registered items
    Uses,           \* the agents each workflow's nodes name
    Configs,        \* what an item may be configured as, attached tools aside
    Passing,        \* the configurations that meet every criterion of their own
    Evaluations,    \* requests that evaluate, each again and again
    Requests,       \* requests that grant a tool, edit or run a workflow
    MaxEdits        \* bound on the changes of items

Items == Tools \cup Agents \cup Workflows

ASSUME CertificationAssumption ==
    /\ Tools \cap Agents = {} /\ Tools \cap Workflows = {} /\ Agents \cap Workflows = {}
    /\ Uses \in [Workflows -> SUBSET Agents]
    /\ Passing \subseteq Configs /\ "absent" \notin Configs
    /\ MaxEdits \in Nat

VARIABLES
    production,     \* whether the items live in a production environment
    config,         \* the configuration of each item
    cert,           \* its row in *_certifications
    passed,         \* the configurations an evaluation_runs row says CERTIFIED of
    evaluation,     \* what each evaluation is doing
    request,        \* what each request is doing
    edits,          \* how many changes of items there were
    dirty,          \* evaluations whose item changed since they read it
    lapsed,         \* items whose certificate was last written by such a one
    moved,          \* runs whose workflow, or its certificate, changed under them
    registered      \* attachments made by registering the agent, not by a grant

vars == <<production, config, cert, passed, evaluation, request, edits, dirty,
          lapsed, moved, registered>>

\* The hash of a configuration is the configuration: hashes do not collide.
Config == [body: Configs, tools: SUBSET Tools]
Absent == [body |-> "absent", tools |-> {}]

CERTIFICATION_STATUSES ==
    {"DRAFT", "EVALUATING", "CERTIFIED", "FAILED", "NEEDS_REEVALUATION"}
LOWER_ENV_ALLOWED_STATUSES == {"DRAFT", "EVALUATING", "CERTIFIED"}

Certificate == [status: CERTIFICATION_STATUSES, hash: Config]
NoCert == [status |-> "NONE", hash |-> Absent]

Idle == [pc |-> "idle", item |-> "none", config |-> Absent, parts |-> FALSE,
         verdict |-> "NONE"]

EvaluationState ==
    [pc: {"read", "create", "ready", "evaluating"}, item: Items, config: Config,
     parts: BOOLEAN, verdict: {"NONE"}]
    \cup
    [pc: {"decided"}, item: Items, config: Config, parts: BOOLEAN,
     verdict: {"CERTIFIED", "FAILED"}]
    \cup
    [pc: {"lost"}, item: Items, config: {Absent}, parts: {FALSE}, verdict: {"NONE"}]

NoRequest == [pc |-> "idle", kind |-> "none", target |-> "none", config |-> Absent]

RequestState ==
    [pc: {"checked"}, kind: {"grant"}, target: Agents,
     config: [body: {"absent"}, tools: SUBSET Tools]]
    \cup
    [pc: {"checked"}, kind: {"edit"}, target: Workflows, config: Config]
    \cup
    [pc: {"read", "ran"}, kind: {"run"}, target: Workflows, config: Config]

TypeOK ==
    /\ production \in BOOLEAN
    /\ config \in [Items -> Config \cup {Absent}]
    /\ cert \in [Items -> Certificate \cup {NoCert}]
    /\ passed \in [Items -> SUBSET Config]
    /\ evaluation \in [Evaluations -> EvaluationState \cup {Idle}]
    /\ request \in [Requests -> RequestState \cup {NoRequest}]
    /\ edits \in Nat
    /\ dirty \subseteq Evaluations
    /\ lapsed \subseteq Items
    /\ moved \subseteq Requests
    /\ registered \subseteq Agents \X Tools

Init ==
    /\ production \in BOOLEAN
    /\ config = [x \in Items |-> Absent]
    /\ cert = [x \in Items |-> NoCert]
    /\ passed = [x \in Items |-> {}]
    /\ evaluation = [e \in Evaluations |-> Idle]
    /\ request = [q \in Requests |-> NoRequest]
    /\ edits = 0
    /\ dirty = {} /\ lapsed = {} /\ moved = {} /\ registered = {}

-----------------------------------------------------------------------------
\* Certificates

Exists(x) == config[x] # Absent
Status(x) == cert[x].status

\* Faulty: an edit invalidates all but what is certified.
InvalidatedUnlessCertified(c) ==
    IF c.status \notin {"NONE", "DRAFT", "NEEDS_REEVALUATION", "CERTIFIED"}
    THEN [c EXCEPT !.status = "NEEDS_REEVALUATION"] ELSE c

\* _invalidate_agent_cert_if_certified, _invalidate_workflow_cert_if_certified
Invalidated(c) ==
    IF c.status \notin {"NONE", "DRAFT", "NEEDS_REEVALUATION"}
    THEN [c EXCEPT !.status = "NEEDS_REEVALUATION"] ELSE c

\* Faulty: production asks no more than other environments.
ToolUsableAsInLowerEnv(t) == Status(t) \in LOWER_ENV_ALLOWED_STATUSES

\* check_tool_certification
ToolUsable(t) ==
    IF production THEN Status(t) = "CERTIFIED"
    ELSE Status(t) \in LOWER_ENV_ALLOWED_STATUSES

\* check_agent_certification and check_workflow_certification: outside
\* production an item without a certificate may be used.
Usable(x) ==
    IF production THEN Status(x) = "CERTIFIED"
    ELSE Status(x) \in LOWER_ENV_ALLOWED_STATUSES \cup {"NONE"}

\* Faulty: parts that may be used count as certified.
PartsCertifiedLater(x, c) ==
    /\ \A t \in c.tools : Status(t) \in LOWER_ENV_ALLOWED_STATUSES
    /\ x \in Workflows => \A a \in Uses[x] : Exists(a) /\ Usable(a)

\* The assignments an evaluation looks at: the certificates of an agent's tools
\* (_check_attached_tools_certified), of a workflow's agents
\* (_check_nodes_certified).
PartsCertified(x, c) ==
    /\ \A t \in c.tools : Status(t) = "CERTIFIED"
    /\ x \in Workflows => \A a \in Uses[x] : Exists(a) /\ Status(a) = "CERTIFIED"

-----------------------------------------------------------------------------
\* Changes of items

Change(x, c) == config' = [config EXCEPT ![x] = c] /\ edits' = edits + 1

Quiet == UNCHANGED <<production, passed, evaluation, request>>

CreateTool(t) ==
    /\ ~Exists(t)
    /\ \E b \in Configs :
        LET c == [body |-> b, tools |-> {}]
        IN  Change(t, c) /\ cert' = [cert EXCEPT ![t] = [status |-> "DRAFT", hash |-> c]]
    /\ Quiet /\ UNCHANGED registered

\* upsert_tool_record: the certificate takes the new hash; only a CERTIFIED one
\* has to be evaluated again.
UpdateTool(t) ==
    /\ Exists(t)
    /\ \E b \in Configs :
        LET c == [body |-> b, tools |-> {}]
            s == IF Status(t) = "CERTIFIED" /\ cert[t].hash # c
                 THEN "NEEDS_REEVALUATION" ELSE Status(t)
        IN  Change(t, c) /\ cert' = [cert EXCEPT ![t] = [status |-> s, hash |-> c]]
    /\ Quiet /\ UNCHANGED registered

\* upsert_agent_identity: the payload names the attached tools, and no
\* certificate of theirs is looked at.
UpsertAgent(a) ==
    /\ \E b \in Configs, T \in SUBSET Tools :
        /\ Change(a, [body |-> b, tools |-> T])
        /\ registered' = (registered \ ({a} \X Tools)) \cup ({a} \X T)
    /\ cert' = [cert EXCEPT ![a] = IF Exists(a) THEN Invalidated(@) ELSE @]
    /\ Quiet

\* Guardrail, evaluator and knowledge assignments, made or deleted, are part of
\* what is certified.
Reassign(a) ==
    /\ Exists(a)
    /\ \E b \in Configs : Change(a, [config[a] EXCEPT !.body = b])
    /\ cert' = [cert EXCEPT ![a] = Invalidated(@)]
    /\ Quiet /\ UNCHANGED registered

AssignGuardrail(a) == Reassign(a)
AssignEvaluator(a) == Reassign(a)
AssignKnowledge(a) == Reassign(a)

RevokeTool(a, t) ==
    /\ Exists(a)
    /\ Change(a, [config[a] EXCEPT !.tools = @ \ {t}])
    /\ cert' = [cert EXCEPT ![a] = Invalidated(@)]
    /\ registered' = registered \ {<<a, t>>}
    /\ Quiet

DeleteAgent(a) ==
    /\ Exists(a)
    /\ Change(a, Absent)
    /\ cert' = [cert EXCEPT ![a] = NoCert]
    /\ registered' = registered \ ({a} \X Tools)
    /\ Quiet

Edit ==
    /\ edits < MaxEdits
    /\ \/ \E t \in Tools : CreateTool(t) \/ UpdateTool(t)
       \/ \E a \in Agents :
            \/ UpsertAgent(a) \/ DeleteAgent(a)
            \/ AssignGuardrail(a) \/ AssignEvaluator(a) \/ AssignKnowledge(a)
            \/ \E t \in Tools : RevokeTool(a, t)

-----------------------------------------------------------------------------
\* Requests that look at a certificate first

Free(q) == request[q].pc \in {"idle", "ran"}

Ask(q, pc, kind, x, c) ==
    request' = [request EXCEPT
        ![q] = [pc |-> pc, kind |-> kind, target |-> x, config |-> c]]

Answer(q) == request' = [request EXCEPT ![q] = NoRequest]

CheckGrant(q) ==
    /\ Free(q)
    /\ \E a \in Agents, t \in Tools :
        /\ Exists(a) /\ Exists(t)
        /\ ToolUsable(t)
        /\ Ask(q, "checked", "grant", a, [Absent EXCEPT !.tools = {t}])
    /\ UNCHANGED <<production, config, cert, passed, evaluation, edits, registered>>

\* grant_agent_tool: an agent deleted in the meantime is a 404.
Grant(q) ==
    /\ request[q].pc = "checked" /\ request[q].kind = "grant"
    /\ LET a == request[q].target
       IN  IF Exists(a)
           THEN /\ edits < MaxEdits
                /\ Change(a, [config[a] EXCEPT !.tools = @ \cup request[q].config.tools])
                /\ cert' = [cert EXCEPT ![a] = Invalidated(@)]
           ELSE UNCHANGED <<config, cert, edits>>
    /\ Answer(q)
    /\ UNCHANGED <<production, passed, evaluation, registered>>

CheckWorkflowEdit(q) ==
    /\ Free(q)
    /\ \E w \in Workflows, b \in Configs :
        /\ \A a \in Uses[w] : Usable(a)
        /\ Ask(q, "checked", "edit", w, [body |-> b, tools |-> {}])
    /\ UNCHANGED <<production, config, cert, passed, evaluation, edits, registered>>

\* upsert_workflow_definition: every agent must exist, or nothing is written.
EditWorkflow(q) ==
    /\ request[q].pc = "checked" /\ request[q].kind = "edit"
    /\ LET w == request[q].target
       IN  IF \A a \in Uses[w] : Exists(a)
           THEN /\ edits < MaxEdits
                /\ Change(w, request[q].config)
                /\ cert' = [cert EXCEPT ![w] = IF Exists(w) THEN Invalidated(@) ELSE @]
           ELSE UNCHANGED <<config, cert, edits>>
    /\ Answer(q)
    /\ UNCHANGED <<production, passed, evaluation, registered>>

\* multi_agent_run without a deployment: the definition is read, then the
\* certificate, and what was read is run.
ReadForRun(q) ==
    /\ Free(q)
    /\ \E w \in Workflows : Exists(w) /\ Ask(q, "read", "run", w, config[w])
    /\ UNCHANGED <<production, config, cert, passed, evaluation, edits, registered>>

CheckRun(q) ==
    /\ request[q].pc = "read"
    /\ IF Usable(request[q].target)
       THEN request' = [request EXCEPT ![q].pc = "ran"]
       ELSE Answer(q)
    /\ UNCHANGED <<production, config, cert, passed, evaluation, edits, registered>>

RequestStep(q) ==
    \/ CheckGrant(q) \/ Grant(q) \/ CheckWorkflowEdit(q) \/ EditWorkflow(q)
    \/ ReadForRun(q) \/ CheckRun(q)

-----------------------------------------------------------------------------
\* evaluate_tool, evaluate_agent, evaluate_workflow_definition

InFlight(e) ==
    evaluation[e].pc \in {"read", "create", "ready", "evaluating", "decided"}

At(e, pc) == evaluation[e].pc = pc
Goto(e, pc) == evaluation' = [evaluation EXCEPT ![e].pc = pc]
End(e) == evaluation' = [evaluation EXCEPT ![e] = Idle]
Item(e) == evaluation[e].item

EvaluationFrame == UNCHANGED <<production, config, request, edits, registered>>

\* The item, and with an agent its assignments, as they are now.
Read(e) ==
    /\ At(e, "idle")
    /\ \E x \in Items :
        /\ Exists(x)
        /\ evaluation' = [evaluation EXCEPT ![e] =
             [pc |-> "read", item |-> x, config |-> config[x],
              parts |-> x \in Agents => PartsCertified(x, config[x]),
              verdict |-> "NONE"]]
    /\ EvaluationFrame /\ UNCHANGED <<cert, passed>>

\* validate_transition lets every status begin an evaluation.
LookUp(e) ==
    /\ At(e, "read")
    /\ Goto(e, IF Status(Item(e)) = "NONE" THEN "create" ELSE "ready")
    /\ EvaluationFrame /\ UNCHANGED <<cert, passed>>

\* create_agent_certification hands back a record made in the meantime;
\* create_workflow_certification violates the unique constraint, and so does a
\* record for an agent that was deleted.
Create(e) ==
    /\ At(e, "create")
    /\ LET x == Item(e)
       IN  \/ /\ Status(x) = "NONE" /\ Exists(x)
              /\ cert' = [cert EXCEPT ![x] = [status |-> "DRAFT",
                                              hash |-> evaluation[e].config]]
              /\ Goto(e, "ready")
           \/ /\ Status(x) # "NONE" /\ x \in Agents
              /\ Goto(e, "ready") /\ UNCHANGED cert
           \/ /\ (Status(x) # "NONE" /\ x \in Workflows) \/ ~Exists(x)
              /\ End(e) /\ UNCHANGED cert
    /\ EvaluationFrame /\ UNCHANGED passed

\* The certificate becomes EVALUATING; a tool's keeps the hash it has.
Open(e) ==
    /\ At(e, "ready")
    /\ LET x == Item(e)
       IN  IF Status(x) = "NONE"
           THEN End(e) /\ UNCHANGED cert
           ELSE /\ cert' = [cert EXCEPT ![x] =
                     [status |-> "EVALUATING",
                      hash |-> IF x \in Tools THEN @.hash ELSE evaluation[e].config]]
                /\ Goto(e, "evaluating")
    /\ EvaluationFrame /\ UNCHANGED passed

\* decide_certification over the criteria, and complete_evaluation_run.  A
\* workflow's agents are looked at only here.
Decide(e) ==
    /\ At(e, "evaluating")
    /\ LET x == Item(e)
           c == evaluation[e].config
           ok == /\ c.body \in Passing
                 /\ evaluation[e].parts
                 /\ x \notin Agents => PartsCertified(x, c)
       IN  /\ evaluation' = [evaluation EXCEPT
                ![e].pc = "decided",
                ![e].verdict = IF ok THEN "CERTIFIED" ELSE "FAILED"]
           /\ passed' = [passed EXCEPT ![x] = IF ok THEN @ \cup {c} ELSE @]
    /\ EvaluationFrame /\ UNCHANGED cert

\* The verdict is written without a look at what the certificate became.
Close(e) ==
    /\ At(e, "decided")
    /\ LET x == Item(e)
       IN  cert' = [cert EXCEPT ![x] =
             IF @ = NoCert THEN @
             ELSE [status |-> evaluation[e].verdict, hash |-> evaluation[e].config]]
    /\ End(e)
    /\ EvaluationFrame /\ UNCHANGED passed

\* The process dies.
Lose(e) ==
    /\ InFlight(e)
    /\ evaluation' = [evaluation EXCEPT
         ![e] = [Idle EXCEPT !.pc = "lost", !.item = Item(e)]]
    /\ EvaluationFrame /\ UNCHANGED <<cert, passed>>

EvaluationStep(e) ==
    Read(e) \/ LookUp(e) \/ Create(e) \/ Open(e) \/ Decide(e) \/ Close(e)

-----------------------------------------------------------------------------
\* What overlapped what, for the properties only.

Closes(e) == At(e, "decided") /\ evaluation'[e] = Idle

History ==
    /\ dirty' = {e \in Evaluations :
                   /\ evaluation'[e].pc \notin {"idle", "lost"}
                   /\ InFlight(e)
                   /\ e \in dirty \/ config'[Item(e)] # config[Item(e)]}
    /\ lapsed' = {x \in Items :
                    IF \E e \in Evaluations : Closes(e) /\ Item(e) = x
                    THEN \E e \in dirty : Closes(e) /\ Item(e) = x
                    ELSE x \in lapsed}
    /\ moved' = {q \in Requests :
                   /\ request'[q].kind = "run"
                   /\ request[q].pc = "read" \/ request'[q] = request[q]
                   /\ \/ q \in moved
                      \/ /\ request[q].pc = "read"
                         /\ LET w == request[q].target
                            IN  w \in lapsed \/ config'[w] # config[w]}

Next ==
    /\ \/ Edit
       \/ \E q \in Requests : RequestStep(q)
       \/ \E e \in Evaluations : EvaluationStep(e) \/ Lose(e)
    /\ History

Spec == Init /\ [][Next]_vars

-----------------------------------------------------------------------------
\* Properties

\* A certificate speaks of the configuration the item has: editing an item
\* withdraws its certificate, and only an evaluation that was under way during
\* the edit can have put it back (the unconditional write at the end of
\* evaluate_*).
CertificateIsCurrent ==
    \A x \in Items : Status(x) = "CERTIFIED" /\ x \notin lapsed
                       => cert[x].hash = config[x]

\* A certificate was earned: a completed evaluation run judged that very
\* configuration and found it good, however edits and other evaluations ran.
CertificateIsBacked ==
    \A x \in Items : Status(x) = "CERTIFIED" => cert[x].hash \in passed[x]

\* Certificates rest on certificates: the tools of a certified agent and the
\* agents of a certified workflow have each passed an evaluation of their own.
CertificateIsFounded ==
    \A x \in Items : Status(x) = "CERTIFIED" =>
        /\ \A t \in cert[x].hash.tools : passed[t] # {}
        /\ x \in Workflows => \A a \in Uses[x] : passed[a] # {}

\* A certificate stays EVALUATING only while an evaluation of it runs, or
\* because the process that ran one died.
EvaluatingIsHeld ==
    \A x \in Items : Status(x) = "EVALUATING" =>
        \E e \in Evaluations :
            Item(e) = x /\ evaluation[e].pc \in {"evaluating", "decided", "lost"}

\* In production every tool granted to an agent and every agent of a stored
\* workflow has passed an evaluation (grant_agent_tool and
\* create_workflow_definition in main.py check it in a transaction of their
\* own); only registering an agent attaches tools unseen.
AttachedHavePassed ==
    production =>
        /\ \A a \in Agents : \A t \in config[a].tools :
             passed[t] # {} \/ <<a, t>> \in registered
        /\ \A w \in Workflows : Exists(w) => \A a \in Uses[w] : passed[a] # {}

\* In production a workflow runs as it was evaluated, unless it was edited
\* between reading it and reading its certificate, or its certificate lapsed.
RunsWereEvaluated ==
    production =>
        \A q \in Requests : request[q].pc = "ran" /\ q \notin moved =>
            request[q].config \in passed[request[q].target]

\* Certificates are earned, rest on earned ones, and are what production runs by.
CertificationInvariant ==
    /\ TypeOK
    /\ CertificateIsBacked
    /\ CertificateIsFounded
    /\ EvaluatingIsHeld
    /\ RunsWereEvaluated
=============================================================================
