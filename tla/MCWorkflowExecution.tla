-------------------------- MODULE MCWorkflowExecution --------------------------
(***************************************************************************)
(* A lead, a task agent and an approval agent; graphs of up to two steps,  *)
(* given as nodes, as steps, or as both, with edges, with connections      *)
(* drawn, or with neither.  A lead's node has another id than "lead", or   *)
(* shares the graph with a task agent's that has this one.                 *)
(***************************************************************************)
EXTENDS WorkflowExecution, TLC

MCAgentType == "lead" :> "lead_agent" @@ "task" :> "task_agent" @@ "human" :> "approval_agent"

N(id, agent, policy, tool) ==
    [id |-> id, agent |-> agent, type |-> None, policy |-> policy, tool |-> tool,
     keywords |-> None]
S(id, agent, policy, tool, keywords) ==
    [id |-> id, agent |-> agent, policy |-> policy, tool |-> tool, keywords |-> keywords]

NodeLists ==
    {<<N("lead", "lead", None, FALSE), N("a", "task", "always", TRUE),
       N("b", "human", None, FALSE)>>,
     <<N("lead", "lead", None, FALSE), N("a", "task", None, TRUE), N("b", "task", None, TRUE)>>,
     <<N("boss", "lead", None, FALSE), N("a", "task", None, TRUE)>>,
     <<N("a", "task", None, FALSE), N("lead", "lead", None, FALSE), N("a", "human", None, FALSE)>>,
     <<N("boss", "lead", None, FALSE), N("lead", "task", None, TRUE), N("a", "task", None, TRUE)>>,
     <<N("lead", "task", None, FALSE)>>}

StepLists ==
    {<<S("a", "task", "always", TRUE, None), S("b", "human", None, FALSE, "miss")>>,
     <<S("b", "task", None, TRUE, "match"), S("a", "task", "on_risk", TRUE, None)>>,
     <<S("a", "task", None, TRUE, None), S("b", "human", "human_required", TRUE, "miss"),
       S("a", "task", "always", FALSE, None)>>,
     <<S("a", None, None, TRUE, None), S("b", None, None, FALSE, None)>>}

EdgeLists ==
    {<<>>, << <<"lead", "a">>, <<"lead", "a">> >>, << <<"lead", "a">>, <<"a", "b">> >>,
     << <<"lead", "b">>, <<"lead", "a">>, <<"b", "a">> >>,
     << <<"a", "lead">> >>, << <<"boss", "a">> >>}

MCPayloads ==
    [lead: {"lead"}, nodes: {<<>>} \cup NodeLists, steps: {<<>>} \cup StepLists,
     edges: EdgeLists,
     visual: {Absent, <<>>, << <<"lead", "b">>, <<"b", "a">> >>}]
=============================================================================
