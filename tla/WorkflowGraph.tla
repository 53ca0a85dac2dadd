----------------------------- MODULE WorkflowGraph -----------------------------
(***************************************************************************)
(* The graph of a workflow in its three forms: as a request gives it,      *)
(* normalised when the definition is saved, and as an execution reads it,  *)
(* either from the definition or from the manifest of a deployment.  The   *)
(* evaluation that certifies a workflow judges the second form.            *)
(*                                                                         *)
(* An edge is the pair of its ends, which identifies one that has no other *)
(* identifier: of edges between the same nodes the first is kept.          *)
(***************************************************************************)
EXTENDS Integers, Sequences, SequencesExt, FiniteSets

CONSTANTS
    Agents,
    AgentType,      \* the normalised agent_type of each agent
    NodeIds         \* ids of nodes and steps

LeadId == "lead"

Governance == {"review_agent", "approval_agent", "terminal_agent"}
NodeTypes == {"gate_agent", "lead_agent", "task_agent"} \cup Governance
Policies == {"always", "on_risk", "conditional", "human_required"}

ASSUME WorkflowGraphAssumption ==
    /\ LeadId \in NodeIds
    /\ AgentType \in [Agents -> NodeTypes]

None == "none"
Absent == << <<None, None>> >>    \* no visual_connections in the metadata

\* tool says that a tool is called, for a node in its runtime; keywords whether
\* those of its conditions occur in the query.
Keywords == {"match", "miss", None}
Node == [id: NodeIds, agent: Agents \cup {None}, type: NodeTypes \cup {None},
         policy: Policies \cup {None}, tool: BOOLEAN, keywords: Keywords]
StoredNode == [id: NodeIds, agent: Agents, type: NodeTypes, policy: Policies,
               tool: BOOLEAN, keywords: Keywords]
Step == [id: NodeIds, agent: Agents \cup {None}, policy: Policies \cup {None},
         tool: BOOLEAN, keywords: Keywords]
Edge == NodeIds \X NodeIds

Ids(s) == {s[i].id : i \in DOMAIN s}

\* The elements of s in the places kept, in their order: SelectSeq, without a recursion.
Place(kept, n) == CHOOSE i \in kept : Cardinality({j \in kept : j < i}) = n - 1
Chosen(s, kept) == [n \in 1 .. Cardinality(kept) |-> s[Place(kept, n)]]

\* Without what was there before.
FirstPlaces(s) == {i \in DOMAIN s : \A j \in 1 .. i - 1 : s[j] # s[i]}
Once(s) == Chosen(s, FirstPlaces(s))

-----------------------------------------------------------------------------
\* Normalisation

LeadNode(p) == [id |-> LeadId, agent |-> p.lead, type |-> "lead_agent", policy |-> "always",
                tool |-> FALSE, keywords |-> None]

\* A node made of a step keeps the step's tool outside its runtime.
NodeFromStep(s) ==
    [id |-> s.id, agent |-> s.agent, type |-> None,
     policy |-> IF s.policy = None THEN "conditional" ELSE s.policy,
     tool |-> FALSE, keywords |-> s.keywords]

NodesInput(p) ==
    IF p.nodes # <<>> THEN p.nodes
    ELSE <<LeadNode(p)>> \o [i \in DOMAIN p.steps |-> NodeFromStep(p.steps[i])]

DefaultPolicy(type) ==
    CASE type \in {"lead_agent", "gate_agent"} -> "always"
      [] type = "review_agent"                 -> "on_risk"
      [] type = "approval_agent"               -> "human_required"
      [] OTHER                                 -> "conditional"

NormalizeNodes(input) ==
    [i \in DOMAIN input |->
        [input[i] EXCEPT !.type = AgentType[input[i].agent],
                         !.policy = IF @ = None THEN DefaultPolicy(AgentType[input[i].agent])
                                    ELSE @]]

NodesAccepted(input) ==
    /\ \A i \in DOMAIN input :
          /\ input[i].agent # None
          /\ input[i].type \in {None, AgentType[input[i].agent]}
    /\ \A i, j \in DOMAIN input : input[i].id = input[j].id => i = j
    /\ \E i \in DOMAIN input : AgentType[input[i].agent] = "lead_agent"

EdgesInput(p) ==
    IF p.edges # <<>> THEN p.edges
    ELSE IF p.visual # Absent THEN p.visual
    ELSE [i \in DOMAIN p.steps |-> <<LeadId, p.steps[i].id>>]

EdgesAccepted(edges, ids) ==
    \A i \in DOMAIN edges :
        /\ edges[i][1] # edges[i][2]
        /\ edges[i][1] \in ids /\ edges[i][2] \in ids
        /\ edges[i][2] # LeadId

Accepted(p) ==
    /\ p.nodes # <<>> \/ p.steps # <<>>
    /\ NodesAccepted(NodesInput(p))
    /\ EdgesAccepted(EdgesInput(p), Ids(NodesInput(p)))

\* The definition that upsert_workflow_definition stores.
Definition(p) ==
    [lead |-> p.lead, steps |-> p.steps, visual |-> p.visual,
     nodes |-> NormalizeNodes(NodesInput(p)), edges |-> Once(EdgesInput(p))]

-----------------------------------------------------------------------------
\* Evaluation

GraphDefined(w) == \E i \in DOMAIN w.nodes : w.nodes[i].type = "lead_agent"

TypesMatch(w) ==
    \A i \in DOMAIN w.nodes :
        w.nodes[i].type \in NodeTypes /\ w.nodes[i].type = AgentType[w.nodes[i].agent]

InvalidEdges(w) ==
    {e \in ToSet(w.edges) : e[1] = e[2] \/ e[2] = LeadId \/ ~({e[1], e[2]} \subseteq Ids(w.nodes))}
LeadHandsOff(w) == Len(w.nodes) > 1 => \E e \in ToSet(w.edges) : e[1] = LeadId
EdgesValid(w) == InvalidEdges(w) = {} /\ LeadHandsOff(w)

\* The criteria that FAIL, the agents' certificates aside; the missing review path
\* is a REVIEW, which does not.
Certifiable(w) == GraphDefined(w) /\ TypesMatch(w) /\ EdgesValid(w)

-----------------------------------------------------------------------------
\* Execution

\* _workflow_steps: what a step does not say its node does.
StepNode(w, id) == {w.nodes[i] : i \in {j \in DOMAIN w.nodes : w.nodes[j].id = id /\ id # LeadId}}
Enriched(w, s) ==
    IF StepNode(w, s.id) = {} THEN [s EXCEPT !.policy = IF @ = None THEN "conditional" ELSE @]
    ELSE LET node == CHOOSE n \in StepNode(w, s.id) : TRUE IN
         [s EXCEPT !.agent = IF @ = None THEN node.agent ELSE @,
                   !.policy = IF @ = None THEN node.policy ELSE @,
                   !.keywords = IF @ = None THEN node.keywords ELSE @]

\* _workflow_definition_from_manifest: every node but the lead is a step.  The
\* manifest's nodes have neither policy nor conditions.
ManifestLead(w) == CHOOSE i \in DOMAIN w.nodes :
                      /\ w.nodes[i].type = "lead_agent"
                      /\ \A j \in 1 .. i - 1 : w.nodes[j].type # "lead_agent"
ManifestStep(n) == [id |-> n.id, agent |-> n.agent, policy |-> "conditional",
                    tool |-> n.tool, keywords |-> None]

Paths == {"definition", "manifest"}

LeadAgent(w, path) ==
    IF path = "definition" THEN w.lead ELSE w.nodes[ManifestLead(w)].agent

Steps(w, path) ==
    IF path = "definition" THEN [i \in DOMAIN w.steps |-> Enriched(w, w.steps[i])]
    ELSE LET rest == RemoveAt(w.nodes, ManifestLead(w))
         IN  [i \in DOMAIN rest |-> ManifestStep(rest[i])]

\* _workflow_connections: the edges or the connections drawn, those aside that
\* the steps do not know; without either the lead hands off to every step.
Valid(edges, known) ==
    {i \in FirstPlaces(edges) : /\ edges[i][1] # edges[i][2] /\ edges[i][2] # LeadId
                               /\ edges[i][1] \in known /\ edges[i][2] \in known}

Connections(w, path) ==
    LET known == {LeadId} \cup Ids(Steps(w, path))
    IN  IF w.edges # <<>> THEN Chosen(w.edges, Valid(w.edges, known))
        ELSE IF w.visual # Absent THEN Chosen(w.visual, Valid(w.visual, known))
        ELSE Once([i \in DOMAIN Steps(w, path) |-> <<LeadId, Steps(w, path)[i].id>>])

\* _lead_routing_decision.
Activates(s) ==
    \/ s.policy \in {"always", "on_risk", "human_required"}
    \/ s.policy = "conditional" /\ s.keywords # "miss"

\* The selected steps in their order; one without an agent is passed over.
Runs(s) == Activates(s) /\ s.agent # None
Selected(w, path) ==
    LET steps == Steps(w, path) IN Chosen(steps, {i \in DOMAIN steps : Runs(steps[i])})

Incoming(connections, id) ==
    LET into == Chosen(connections, {i \in DOMAIN connections : connections[i][2] = id})
    IN  IF into = <<>> THEN <<LeadId>> ELSE [i \in DOMAIN into |-> into[i][1]]
=============================================================================
