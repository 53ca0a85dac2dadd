------------------------- MODULE CertificationProofs -------------------------
(***************************************************************************)
(* Certificates, for any number of items, evaluations, requests and edits: *)
(* what a certificate says was judged, and what it rests on.               *)
(***************************************************************************)
EXTENDS Certification, TLAPS

\* What an edit may do to the certificate d of the item x it makes c.
Withdraws(x, c, d) ==
    /\ c = Absent => d = NoCert
    /\ x \in Tools => d # NoCert
    /\ d.status = "EVALUATING" => cert[x].status = "EVALUATING"
    /\ d.status = "CERTIFIED" => d = cert[x] /\ d.hash = c

EditsItem(x, c, d) ==
    /\ Withdraws(x, c, d)
    /\ config' = [config EXCEPT ![x] = c]
    /\ cert' = [cert EXCEPT ![x] = d]
    /\ UNCHANGED <<production, passed, evaluation>>

Edits == \E x \in Items, c \in Config \cup {Absent}, d \in Certificate \cup {NoCert} :
            EditsItem(x, c, d)

\* An item without a configuration has no certificate, and a tool with one has.
Matched ==
    /\ \A x \in Items : ~Exists(x) => cert[x] = NoCert
    /\ \A t \in Tools : Exists(t) => cert[t] # NoCert

Looks == UNCHANGED <<production, config, cert, passed, evaluation>>

Evaluates == \E e \in Evaluations : EvaluationStep(e) \/ Lose(e)

-----------------------------------------------------------------------------
\* Types

LEMMA ConfigTypes ==
    ASSUME CertificationAssumption
    PROVE  /\ Absent \notin Config
           /\ \A b \in Configs : [body |-> b, tools |-> {}] \in Config
           /\ \A b \in Configs, T \in SUBSET Tools : [body |-> b, tools |-> T] \in Config
           /\ \A c \in Config : c.tools \in SUBSET Tools /\ c.body \in Configs
           /\ \A c \in Config, b \in Configs : [c EXCEPT !.body = b] \in Config
           /\ \A c \in Config, T \in SUBSET Tools : [c EXCEPT !.tools = T] \in Config
BY DEF CertificationAssumption, Absent, Config

LEMMA CertTypes ==
    ASSUME NEW d \in Certificate \cup {NoCert}
    PROVE  /\ Invalidated(d) \in Certificate \cup {NoCert}
           /\ Invalidated(d).status \notin {"EVALUATING", "CERTIFIED"}
           /\ d.status = "NONE" <=> d = NoCert
           /\ d # NoCert => d \in Certificate
           /\ NoCert \notin Certificate
BY DEF Certificate, NoCert, Invalidated, CERTIFICATION_STATUSES

LEMMA ItemKinds ==
    /\ Tools \subseteq Items /\ Agents \subseteq Items /\ Workflows \subseteq Items
BY DEF Items

\* An edit withdraws the certificate of what it changes.
LEMMA EditWithdraws ==
    ASSUME CertificationAssumption, TypeOK, Matched, Edit
    PROVE  Edits /\ request' = request /\ edits' \in Nat
<1> USE ConfigTypes, CertTypes, ItemKinds
<1> USE DEF Quiet, Change
<1>0. ASSUME NEW x \in Items, NEW c \in Config \cup {Absent},
             NEW d \in Certificate \cup {NoCert},
             Withdraws(x, c, d), Change(x, c), cert' = [cert EXCEPT ![x] = d], Quiet
      PROVE  Edits /\ request' = request /\ edits' \in Nat
  <2>1. EditsItem(x, c, d)
    BY <1>0 DEF EditsItem
  <2>2. edits' \in Nat
    BY <1>0 DEF TypeOK
  <2> QED BY <1>0, <2>1, <2>2, Zenon DEF Edits
<1>1. ASSUME NEW t \in Tools, CreateTool(t)
      PROVE  Edits /\ request' = request /\ edits' \in Nat
  <2> DEFINE Of(b) == [body |-> b, tools |-> {}]
             Draft(b) == [status |-> "DRAFT", hash |-> Of(b)]
  <2>1. PICK b \in Configs : Change(t, Of(b)) /\ cert' = [cert EXCEPT ![t] = Draft(b)]
    BY <1>1 DEF CreateTool
  <2>2. Of(b) \in Config /\ Draft(b) \in Certificate
    BY DEF Certificate, CERTIFICATION_STATUSES
  <2>3. Withdraws(t, Of(b), Draft(b))
    BY <2>2 DEF Withdraws
  <2> HIDE DEF Of, Draft
  <2>4. t \in Items /\ Quiet
    BY <1>1 DEF CreateTool
  <2> QED BY <1>0, <2>1, <2>2, <2>3, <2>4
<1>2. ASSUME NEW t \in Tools, UpdateTool(t)
      PROVE  Edits /\ request' = request /\ edits' \in Nat
  <2> DEFINE Of(b) == [body |-> b, tools |-> {}]
             S(b) == IF cert[t].status = "CERTIFIED" /\ cert[t].hash # Of(b)
                     THEN "NEEDS_REEVALUATION" ELSE cert[t].status
             New(b) == [status |-> S(b), hash |-> Of(b)]
  <2>1. PICK b \in Configs : Change(t, Of(b)) /\ cert' = [cert EXCEPT ![t] = New(b)]
    BY <1>2 DEF UpdateTool, Status
  <2>2. cert[t] \in Certificate
    BY <1>2 DEF UpdateTool, TypeOK, Matched
  <2>3. Of(b) \in Config /\ New(b) \in Certificate
    BY <2>2 DEF Certificate, CERTIFICATION_STATUSES
  <2>4. Withdraws(t, Of(b), New(b))
    BY <2>2, <2>3 DEF Withdraws, Certificate
  <2> HIDE DEF Of, S, New
  <2>5. t \in Items /\ Quiet
    BY <1>2 DEF UpdateTool
  <2> QED BY <1>0, <2>1, <2>3, <2>4, <2>5
\* Every change of an agent withdraws its certificate.
<1>3. ASSUME NEW a \in Agents, NEW c \in Config, Change(a, c), Quiet,
             cert' = [cert EXCEPT ![a] = Invalidated(@)]
      PROVE  Edits /\ request' = request /\ edits' \in Nat
  <2>1. Withdraws(a, c, Invalidated(cert[a]))
    BY DEF Withdraws, TypeOK, CertificationAssumption
  <2>2. cert' = [cert EXCEPT ![a] = Invalidated(cert[a])]
    BY <1>3
  <2> QED BY <1>0, <1>3, <2>1, <2>2 DEF TypeOK
<1>4. ASSUME NEW a \in Agents, UpsertAgent(a)
      PROVE  Edits /\ request' = request /\ edits' \in Nat
  <2>1. PICK b \in Configs, T \in SUBSET Tools : Change(a, [body |-> b, tools |-> T])
    BY <1>4 DEF UpsertAgent
  <2>2. CASE Exists(a)
    <3>1. cert' = [cert EXCEPT ![a] = Invalidated(@)] /\ Quiet
      BY <1>4, <2>2 DEF UpsertAgent
    <3> QED BY <1>3, <2>1, <3>1
  <2>3. CASE ~Exists(a)
    <3>1. cert[a] = NoCert /\ cert' = [cert EXCEPT ![a] = NoCert] /\ Quiet
      BY <1>4, <2>3 DEF UpsertAgent, Matched
    <3>2. Withdraws(a, [body |-> b, tools |-> T], NoCert)
      BY <3>1 DEF Withdraws, NoCert, CertificationAssumption
    <3> QED BY <1>0, <2>1, <3>1, <3>2
  <2> QED BY <2>2, <2>3
<1>5. ASSUME NEW a \in Agents, Reassign(a) \/ \E t \in Tools : RevokeTool(a, t)
      PROVE  Edits /\ request' = request /\ edits' \in Nat
  <2>1. config[a] \in Config
    BY <1>5 DEF Reassign, RevokeTool, Exists, TypeOK
  <2>2. \E c \in Config : Change(a, c)
    <3>1. CASE Reassign(a)
      BY <3>1, <2>1 DEF Reassign
    <3>2. ASSUME NEW t \in Tools, RevokeTool(a, t)
          PROVE  \E c \in Config : Change(a, c)
      <4> DEFINE T == config[a].tools \ {t}
      <4>1. T \in SUBSET Tools
        BY <2>1
      <4>2. [config[a] EXCEPT !.tools = T] \in Config
        BY <2>1, <4>1
      <4>3. Change(a, [config[a] EXCEPT !.tools = T])
        BY <3>2 DEF RevokeTool
      <4> QED BY <4>2, <4>3
    <3> QED BY <1>5, <3>1, <3>2
  <2>3. Quiet /\ cert' = [cert EXCEPT ![a] = Invalidated(@)]
    BY <1>5 DEF Reassign, RevokeTool
  <2> QED BY <1>3, <2>2, <2>3
<1>6. ASSUME NEW a \in Agents, DeleteAgent(a)
      PROVE  Edits /\ request' = request /\ edits' \in Nat
  <2>1. Withdraws(a, Absent, NoCert)
    BY DEF Withdraws, NoCert, CertificationAssumption
  <2>2. Change(a, Absent) /\ cert' = [cert EXCEPT ![a] = NoCert] /\ Quiet
    BY <1>6 DEF DeleteAgent
  <2> QED BY <1>0, <2>1, <2>2
<1> QED
  BY <1>1, <1>2, <1>4, <1>5, <1>6, Zenon
     DEF Edit, AssignGuardrail, AssignEvaluator, AssignKnowledge

\* A request looks at certificates, or edits an item it looked at before.
LEMMA RequestSteps ==
    ASSUME CertificationAssumption, TypeOK, Matched, NEW q \in Requests, RequestStep(q)
    PROVE  /\ Edits \/ Looks
           /\ request' \in [Requests -> RequestState \cup {NoRequest}]
           /\ edits' \in Nat /\ registered' = registered
<1> USE ConfigTypes, CertTypes, ItemKinds
<1> USE DEF Ask, Answer, Looks
<1>1. request \in [Requests -> RequestState \cup {NoRequest}] /\ edits \in Nat
  BY DEF TypeOK
<1>2. CASE CheckGrant(q)
  <2>1. PICK a \in Agents, t \in Tools :
           Ask(q, "checked", "grant", a, [Absent EXCEPT !.tools = {t}])
    BY <1>2 DEF CheckGrant
  <2>2. [Absent EXCEPT !.tools = {t}] \in [body: {"absent"}, tools: SUBSET Tools]
    BY DEF Absent
  <2> QED BY <1>1, <1>2, <2>1, <2>2 DEF CheckGrant, RequestState
<1>3. CASE CheckWorkflowEdit(q)
  BY <1>1, <1>3 DEF CheckWorkflowEdit, RequestState
<1>4. CASE ReadForRun(q)
  BY <1>1, <1>4 DEF ReadForRun, RequestState, Exists, TypeOK
<1>5. CASE CheckRun(q)
  <2>1. request[q] \in RequestState /\ request[q].pc = "read"
    BY <1>1, <1>5 DEF CheckRun, NoRequest
  <2>2. [request[q] EXCEPT !.pc = "ran"] \in RequestState
    BY <2>1 DEF RequestState
  <2> QED BY <1>1, <1>5, <2>2 DEF CheckRun
<1>6. ASSUME NEW x \in Items, NEW c \in Config, NEW d \in Certificate \cup {NoCert},
             x \in Tools => d # NoCert,
             d.status \notin {"EVALUATING", "CERTIFIED"},
             Change(x, c), cert' = [cert EXCEPT ![x] = d], Answer(q),
             UNCHANGED <<production, passed, evaluation, registered>>
      PROVE  /\ Edits
             /\ request' \in [Requests -> RequestState \cup {NoRequest}]
             /\ edits' \in Nat /\ registered' = registered
  <2>1. EditsItem(x, c, d)
    BY <1>6 DEF EditsItem, Withdraws, Change
  <2>2. Edits
    BY <2>1, <1>6, Zenon DEF Edits
  <2> QED BY <2>2, <1>6, <1>1 DEF Change
<1>7. CASE Grant(q)
  <2> DEFINE a == request[q].target
             T == config[a].tools \cup request[q].config.tools
  <2>1. a \in Agents /\ request[q].config.tools \in SUBSET Tools
    BY <1>1, <1>7 DEF Grant, RequestState, NoRequest
  <2>2. CASE Exists(a)
    <3>1. config[a] \in Config
      BY <2>1, <2>2 DEF Exists, TypeOK
    <3>2. T \in SUBSET Tools
      BY <2>1, <3>1
    <3>3. [config[a] EXCEPT !.tools = T] \in Config
      BY <3>1, <3>2
    <3>4. /\ Change(a, [config[a] EXCEPT !.tools = T])
          /\ cert' = [cert EXCEPT ![a] = Invalidated(cert[a])]
          /\ Answer(q) /\ UNCHANGED <<production, passed, evaluation, registered>>
      BY <1>7, <2>2 DEF Grant
    <3>5. /\ Invalidated(cert[a]) \in Certificate \cup {NoCert} /\ a \notin Tools
          /\ Invalidated(cert[a]).status \notin {"EVALUATING", "CERTIFIED"}
      BY <2>1 DEF TypeOK, CertificationAssumption
    <3> QED BY <1>6, <2>1, <3>3, <3>4, <3>5
  <2>3. CASE ~Exists(a)
    BY <1>1, <1>7, <2>3 DEF Grant
  <2> QED BY <2>2, <2>3
<1>8. CASE EditWorkflow(q)
  <2> DEFINE w == request[q].target
  <2>1. w \in Workflows /\ request[q].config \in Config
    BY <1>1, <1>8 DEF EditWorkflow, RequestState, NoRequest
  <2>2. CASE \A a \in Uses[w] : Exists(a)
    <3> DEFINE d == IF Exists(w) THEN Invalidated(cert[w]) ELSE cert[w]
    <3>1. /\ Change(w, request[q].config) /\ cert' = [cert EXCEPT ![w] = d]
          /\ Answer(q) /\ UNCHANGED <<production, passed, evaluation, registered>>
      BY <1>8, <2>2 DEF EditWorkflow
    <3>2. /\ d \in Certificate \cup {NoCert} /\ w \notin Tools
          /\ d.status \notin {"EVALUATING", "CERTIFIED"}
      BY <2>1 DEF TypeOK, CertificationAssumption, Matched, NoCert
    <3> HIDE DEF d
    <3> QED BY <1>6, <2>1, <3>1, <3>2
  <2>3. CASE ~(\A a \in Uses[w] : Exists(a))
    BY <1>1, <1>8, <2>3 DEF EditWorkflow
  <2> QED BY <2>2, <2>3
<1> QED
  BY <1>2, <1>3, <1>4, <1>5, <1>7, <1>8, <1>1 DEF RequestStep, CheckGrant,
     CheckWorkflowEdit, ReadForRun, CheckRun

\* A step of one evaluation leaves the others alone.
LEMMA EvaluationSteps ==
    ASSUME CertificationAssumption, TypeOK, NEW e \in Evaluations,
           EvaluationStep(e) \/ Lose(e)
    PROVE  /\ UNCHANGED <<production, config, request, edits, registered>>
           /\ evaluation' \in [Evaluations -> EvaluationState \cup {Idle}]
           /\ \A d \in Evaluations \ {e} : evaluation'[d] = evaluation[d]
           /\ cert' \in [Items -> Certificate \cup {NoCert}]
           /\ passed' \in [Items -> SUBSET Config]
           /\ \A x \in Items : passed[x] \subseteq passed'[x]
           /\ \A x \in Items : cert'[x] # cert[x] => x = Item(e)
<1> USE ConfigTypes, CertTypes, ItemKinds
<1> USE DEF EvaluationFrame, Goto, At, End, Item
<1>1. /\ evaluation \in [Evaluations -> EvaluationState \cup {Idle}]
      /\ cert \in [Items -> Certificate \cup {NoCert}]
      /\ passed \in [Items -> SUBSET Config]
      /\ config \in [Items -> Config \cup {Absent}]
  BY DEF TypeOK
<1>2. CASE Read(e)
  <2>1. PICK x \in Items :
          /\ Exists(x)
          /\ evaluation' = [evaluation EXCEPT ![e] =
               [pc |-> "read", item |-> x, config |-> config[x],
                parts |-> x \in Agents => PartsCertified(x, config[x]),
                verdict |-> "NONE"]]
    BY <1>2 DEF Read
  <2>2. config[x] \in Config
    BY <1>1, <2>1 DEF Exists
  <2>3. (x \in Agents => PartsCertified(x, config[x])) \in BOOLEAN
    OBVIOUS
  <2> DEFINE r == [pc |-> "read", item |-> x, config |-> config[x],
                   parts |-> x \in Agents => PartsCertified(x, config[x]),
                   verdict |-> "NONE"]
  <2>4. r \in EvaluationState
    BY <2>2, <2>3, Zenon DEF EvaluationState
  <2> HIDE DEF r
  <2> QED BY <1>1, <1>2, <2>1, <2>4 DEF Read, r
<1>3. CASE LookUp(e)
  <2>1. evaluation[e] \in EvaluationState
    BY <1>1, <1>3 DEF LookUp, Idle
  <2>2. [evaluation[e] EXCEPT !.pc = IF Status(Item(e)) = "NONE" THEN "create" ELSE "ready"]
          \in EvaluationState
    BY <2>1, <1>3 DEF LookUp, EvaluationState
  <2> QED BY <1>1, <1>3, <2>2 DEF LookUp
<1>4. CASE Create(e)
  <2>1. evaluation[e] \in EvaluationState
    BY <1>1, <1>4 DEF Create, Idle
  <2>2. [evaluation[e] EXCEPT !.pc = "ready"] \in EvaluationState
    BY <2>1, <1>4 DEF Create, EvaluationState
  <2>3. [status |-> "DRAFT", hash |-> evaluation[e].config] \in Certificate
    BY <2>1, <1>4 DEF Create, EvaluationState, Certificate, CERTIFICATION_STATUSES
  <2> QED BY <1>1, <1>4, <2>2, <2>3 DEF Create
<1>5. CASE Open(e)
  <2>1. evaluation[e] \in EvaluationState
    BY <1>1, <1>5 DEF Open, Idle
  <2>2. [evaluation[e] EXCEPT !.pc = "evaluating"] \in EvaluationState
    BY <2>1, <1>5 DEF Open, EvaluationState
  <2>3. Item(e) \in Items /\ evaluation[e].config \in Config
    BY <2>1, <1>5 DEF Open, EvaluationState
  <2>4. CASE Status(Item(e)) = "NONE"
    BY <1>1, <1>5, <2>4 DEF Open
  <2>5. CASE Status(Item(e)) # "NONE"
    <3> DEFINE d == [status |-> "EVALUATING",
                     hash |-> IF Item(e) \in Tools THEN cert[Item(e)].hash
                              ELSE evaluation[e].config]
    <3>1. cert[Item(e)] \in Certificate
      BY <1>1, <2>3, <2>5 DEF Status
    <3>2. d \in Certificate
      BY <3>1, <2>3 DEF Certificate, CERTIFICATION_STATUSES
    <3>3. cert' = [cert EXCEPT ![Item(e)] = d] /\ Goto(e, "evaluating")
      BY <1>5, <2>5 DEF Open
    <3> HIDE DEF d
    <3> QED BY <1>1, <1>5, <2>2, <3>2, <3>3 DEF Open
  <2> QED BY <2>4, <2>5
<1>6. CASE Decide(e)
  <2>1. evaluation[e] \in EvaluationState
    BY <1>1, <1>6 DEF Decide, Idle
  <2>2. /\ [evaluation[e] EXCEPT !.pc = "decided", !.verdict = "CERTIFIED"] \in EvaluationState
        /\ [evaluation[e] EXCEPT !.pc = "decided", !.verdict = "FAILED"] \in EvaluationState
        /\ Item(e) \in Items /\ evaluation[e].config \in Config
    BY <2>1, <1>6 DEF Decide, EvaluationState
  <2>3. \/ /\ evaluation' = [evaluation EXCEPT ![e].pc = "decided", ![e].verdict = "CERTIFIED"]
           /\ passed' = [passed EXCEPT ![Item(e)] = @ \cup {evaluation[e].config}]
        \/ /\ evaluation' = [evaluation EXCEPT ![e].pc = "decided", ![e].verdict = "FAILED"]
           /\ passed' = [passed EXCEPT ![Item(e)] = @]
    BY <1>6 DEF Decide
  <2> QED BY <1>1, <1>6, <2>2, <2>3 DEF Decide
<1>7. CASE Close(e)
  <2>1. evaluation[e] \in EvaluationState
    BY <1>1, <1>7 DEF Close, Idle
  <2>2. /\ Item(e) \in Items
        /\ [status |-> evaluation[e].verdict, hash |-> evaluation[e].config] \in Certificate
    BY <2>1, <1>7 DEF Close, EvaluationState, Certificate, CERTIFICATION_STATUSES
  <2> QED BY <1>1, <1>7, <2>2 DEF Close
<1>8. CASE Lose(e)
  <2>1. evaluation[e] \in EvaluationState
    BY <1>1, <1>8 DEF Lose, InFlight, Idle
  <2>2. [Idle EXCEPT !.pc = "lost", !.item = Item(e)] \in EvaluationState
    BY <2>1 DEF EvaluationState, Idle
  <2> QED BY <1>1, <1>8, <2>2 DEF Lose
<1> QED
  BY <1>2, <1>3, <1>4, <1>5, <1>6, <1>7, <1>8, Zenon DEF EvaluationStep

LEMMA Steps ==
    ASSUME CertificationAssumption, TypeOK, Matched, Next
    PROVE  Edits \/ Looks \/ Evaluates
BY EditWithdraws, RequestSteps, Zenon DEF Next, Evaluates

LEMMA TypeStep ==
    ASSUME CertificationAssumption, TypeOK, Matched, [Next]_vars
    PROVE  TypeOK'
<1>1. CASE UNCHANGED vars
  BY <1>1 DEF TypeOK, vars, Exists
<1>2. ASSUME Next
      PROVE  /\ dirty' \subseteq Evaluations /\ lapsed' \subseteq Items
             /\ moved' \subseteq Requests
  BY <1>2 DEF Next, History
<1>3. ASSUME Edits
      PROVE  /\ config' \in [Items -> Config \cup {Absent}]
             /\ cert' \in [Items -> Certificate \cup {NoCert}]
             /\ UNCHANGED <<production, passed, evaluation>>
  <2>1. PICK x \in Items, c \in Config \cup {Absent}, d \in Certificate \cup {NoCert} :
           EditsItem(x, c, d)
    BY <1>3 DEF Edits
  <2> QED BY <2>1 DEF EditsItem, TypeOK
<1>4. ASSUME Next, Edit
      PROVE  TypeOK'
  <2>1. registered' \subseteq Agents \X Tools
    <3>1. CASE \E t \in Tools : CreateTool(t) \/ UpdateTool(t)
      BY <3>1 DEF CreateTool, UpdateTool, TypeOK
    <3>2. ASSUME NEW a \in Agents, UpsertAgent(a) PROVE registered' \subseteq Agents \X Tools
      BY <3>2 DEF UpsertAgent, TypeOK
    <3>3. ASSUME NEW a \in Agents, DeleteAgent(a) \/ Reassign(a) PROVE registered' \subseteq Agents \X Tools
      BY <3>3 DEF DeleteAgent, Reassign, TypeOK
    <3>4. ASSUME NEW a \in Agents, NEW t \in Tools, RevokeTool(a, t)
          PROVE registered' \subseteq Agents \X Tools
      BY <3>4 DEF RevokeTool, TypeOK
    <3> QED BY <1>4, <3>1, <3>2, <3>3, <3>4, Zenon
            DEF Edit, AssignGuardrail, AssignEvaluator, AssignKnowledge
  <2>2. Edits /\ request' = request /\ edits' \in Nat
    BY <1>4, EditWithdraws
  <2> QED BY <1>2, <1>3, <1>4, <2>1, <2>2 DEF TypeOK
<1>5. ASSUME Next, NEW q \in Requests, RequestStep(q)
      PROVE  TypeOK'
  <2>1. /\ Edits \/ Looks
        /\ request' \in [Requests -> RequestState \cup {NoRequest}]
        /\ edits' \in Nat /\ registered' = registered
    BY <1>5, RequestSteps
  <2> QED BY <1>2, <1>3, <1>5, <2>1 DEF TypeOK, Looks
<1>6. ASSUME Next, NEW e \in Evaluations, EvaluationStep(e) \/ Lose(e)
      PROVE  TypeOK'
  <2>1. /\ UNCHANGED <<production, config, request, edits, registered>>
        /\ evaluation' \in [Evaluations -> EvaluationState \cup {Idle}]
        /\ cert' \in [Items -> Certificate \cup {NoCert}]
        /\ passed' \in [Items -> SUBSET Config]
    BY <1>6, EvaluationSteps
  <2> QED BY <1>2, <1>6, <2>1 DEF TypeOK
<1> QED BY <1>1, <1>4, <1>5, <1>6, Zenon DEF Next

\* What the certificates of the parts of an item must have been for it to pass.
Founded(x, c) ==
    /\ \A t \in c.tools : passed[t] # {}
    /\ x \in Workflows => \A a \in Uses[x] : passed[a] # {}

PassedAreFounded == \A x \in Items : \A c \in passed[x] : Founded(x, c)

\* What an evaluation under way knows.
EvaluationInv ==
    \A e \in Evaluations : InFlight(e) =>
        /\ e \notin dirty => evaluation[e].config = config[Item(e)]
        /\ evaluation[e].parts /\ Item(e) \in Agents
             => \A t \in evaluation[e].config.tools : passed[t] # {}
        /\ evaluation[e].verdict = "CERTIFIED"
             => evaluation[e].config \in passed[Item(e)]

Inv ==
    /\ TypeOK /\ Matched /\ PassedAreFounded /\ EvaluationInv
    /\ CertificateIsBacked /\ CertificateIsCurrent /\ EvaluatingIsHeld

LEMMA InitInv == ASSUME CertificationAssumption, Init PROVE Inv
<1> USE DEF Init
<1>1. TypeOK
  BY DEF TypeOK, CertificationAssumption
<1>2. Matched /\ PassedAreFounded
  BY ItemKinds DEF Matched, PassedAreFounded, Exists
<1>3. EvaluationInv
  BY DEF EvaluationInv, InFlight, Idle
<1>4. CertificateIsBacked /\ CertificateIsCurrent /\ EvaluatingIsHeld
  BY DEF CertificateIsBacked, CertificateIsCurrent, EvaluatingIsHeld, NoCert, Status
<1> QED BY <1>1, <1>2, <1>3, <1>4 DEF Inv

\* An evaluation under way is of an item.
LEMMA UnderWay ==
    ASSUME TypeOK, NEW e \in Evaluations
    PROVE  /\ InFlight(e) => /\ evaluation[e] \in EvaluationState /\ Item(e) \in Items
                             /\ evaluation[e].config \in Config
           /\ InFlight(e) /\ evaluation[e].pc # "decided" => evaluation[e].verdict = "NONE"
           /\ At(e, "decided") => evaluation[e].verdict \in {"CERTIFIED", "FAILED"}
<1>1. evaluation[e] \in EvaluationState \cup {Idle}
  BY DEF TypeOK
<1>2. InFlight(e) \/ At(e, "decided") => evaluation[e] \in EvaluationState
  BY <1>1 DEF InFlight, At, Idle
<1> QED BY <1>2 DEF InFlight, At, Item, EvaluationState

\* Where each step takes its evaluation.
Advances(e, from, to) ==
    evaluation[e].pc \in from /\ \E p \in to : evaluation'[e] = [evaluation[e] EXCEPT !.pc = p]

Stops(e) == evaluation'[e] = Idle

LEMMA Moves ==
    ASSUME TypeOK, NEW e \in Evaluations
    PROVE  /\ Read(e) => evaluation'[e].pc = "read" /\ evaluation[e].pc = "idle"
           /\ LookUp(e) => Advances(e, {"read"}, {"create", "ready"})
           /\ Create(e) => \/ Advances(e, {"create"}, {"ready"})
                           \/ evaluation[e].pc = "create" /\ Stops(e) /\ cert' = cert
           /\ Open(e) => \/ Advances(e, {"ready"}, {"evaluating"})
                         \/ evaluation[e].pc = "ready" /\ Stops(e) /\ cert' = cert
           /\ Decide(e) =>
                /\ evaluation[e].pc = "evaluating" /\ evaluation'[e].pc = "decided"
                /\ evaluation'[e].item = evaluation[e].item
           /\ Close(e) => evaluation[e].pc = "decided" /\ Stops(e)
           /\ Lose(e) => /\ InFlight(e) /\ evaluation'[e].pc = "lost"
                         /\ evaluation'[e].item = evaluation[e].item
<1> USE DEF At, Stops
<1>1. evaluation \in [Evaluations -> EvaluationState \cup {Idle}]
  BY DEF TypeOK
<1>2. /\ \A p : Goto(e, p) => evaluation'[e] = [evaluation[e] EXCEPT !.pc = p]
      /\ End(e) => Stops(e)
  BY <1>1 DEF Goto, End
<1>3. Read(e) => evaluation'[e].pc = "read" /\ evaluation[e].pc = "idle"
  <2> SUFFICES ASSUME Read(e) PROVE evaluation'[e].pc = "read" /\ evaluation[e].pc = "idle"
    OBVIOUS
  <2>1. PICK r \in [pc: {"read"}, item: Items, config: {config[x] : x \in Items},
                    parts: BOOLEAN, verdict: {"NONE"}] :
           evaluation' = [evaluation EXCEPT ![e] = r]
    BY DEF Read
  <2> QED BY <1>1, <2>1 DEF Read
<1>4. LookUp(e) => Advances(e, {"read"}, {"create", "ready"})
  BY <1>2 DEF LookUp, Advances
<1>5. Create(e) => \/ Advances(e, {"create"}, {"ready"})
                   \/ evaluation[e].pc = "create" /\ Stops(e) /\ cert' = cert
  <2>1. Create(e) => /\ evaluation[e].pc = "create"
                     /\ Goto(e, "ready") \/ (End(e) /\ cert' = cert)
    BY DEF Create
  <2>2. Goto(e, "ready") => evaluation'[e] = [evaluation[e] EXCEPT !.pc = "ready"]
    BY <1>2
  <2>3. End(e) => Stops(e)
    BY <1>2
  <2>4. ASSUME evaluation'[e] = [evaluation[e] EXCEPT !.pc = "ready"], evaluation[e].pc = "create"
        PROVE  Advances(e, {"create"}, {"ready"})
    BY <2>4 DEF Advances
  <2> HIDE DEF Stops
  <2> QED BY <2>1, <2>2, <2>3, <2>4
<1>6. Open(e) => \/ Advances(e, {"ready"}, {"evaluating"})
                 \/ evaluation[e].pc = "ready" /\ Stops(e) /\ cert' = cert
  <2>1. Open(e) => /\ evaluation[e].pc = "ready"
                   /\ Goto(e, "evaluating") \/ (End(e) /\ cert' = cert)
    BY DEF Open
  <2>2. Goto(e, "evaluating") => evaluation'[e] = [evaluation[e] EXCEPT !.pc = "evaluating"]
    BY <1>2
  <2>3. End(e) => Stops(e)
    BY <1>2
  <2>4. ASSUME evaluation'[e] = [evaluation[e] EXCEPT !.pc = "evaluating"], evaluation[e].pc = "ready"
        PROVE  Advances(e, {"ready"}, {"evaluating"})
    BY <2>4 DEF Advances
  <2> HIDE DEF Stops
  <2> QED BY <2>1, <2>2, <2>3, <2>4
<1>7. ASSUME Decide(e)
      PROVE  /\ evaluation[e].pc = "evaluating" /\ evaluation'[e].pc = "decided"
             /\ evaluation'[e].item = evaluation[e].item
  <2>1. evaluation[e].pc = "evaluating" /\ InFlight(e)
    BY <1>7 DEF Decide, InFlight
  <2>2. evaluation[e] \in EvaluationState
    BY <2>1, UnderWay
  <2>3. \E v : evaluation' = [evaluation EXCEPT ![e].pc = "decided", ![e].verdict = v]
    BY <1>7, Zenon DEF Decide
  <2> QED BY <1>1, <2>1, <2>2, <2>3 DEF EvaluationState
<1>8. Close(e) => evaluation[e].pc = "decided" /\ Stops(e)
  BY <1>2 DEF Close
<1>9. ASSUME Lose(e)
      PROVE  /\ InFlight(e) /\ evaluation'[e].pc = "lost"
             /\ evaluation'[e].item = evaluation[e].item
  <2>1. evaluation'[e] = [Idle EXCEPT !.pc = "lost", !.item = evaluation[e].item]
    BY <1>1, <1>9 DEF Lose, Item
  <2> QED BY <2>1, <1>9 DEF Lose, Idle
<1> QED BY <1>3, <1>4, <1>5, <1>6, <1>7, <1>8, <1>9

LEMMA MatchedStep ==
    ASSUME CertificationAssumption, TypeOK, Matched, Next
    PROVE  Matched'
<1> USE ItemKinds DEF Exists
<1>1. CASE Edits
  <2>1. PICK x \in Items, c \in Config \cup {Absent}, d \in Certificate \cup {NoCert} :
           EditsItem(x, c, d)
    BY <1>1 DEF Edits
  <2>2. /\ c = Absent => d = NoCert
        /\ x \in Tools => d # NoCert
        /\ config' = [config EXCEPT ![x] = c] /\ cert' = [cert EXCEPT ![x] = d]
    BY <2>1 DEF EditsItem, Withdraws
  <2> QED BY <2>2 DEF Matched, TypeOK
<1>2. CASE Looks
  BY <1>2 DEF Matched, Looks
<1>3. ASSUME NEW e \in Evaluations, EvaluationStep(e) \/ Lose(e)
      PROVE  Matched'
  <2>1. config' = config /\ cert' \in [Items -> Certificate \cup {NoCert}]
    BY <1>3, EvaluationSteps
  <2>2. cert' = cert \/ Create(e) \/ Open(e) \/ Close(e)
    BY <1>3 DEF EvaluationStep, Read, LookUp, Decide, Lose
  <2>3. cert \in [Items -> Certificate \cup {NoCert}]
    BY DEF TypeOK
  <2>4. \A x \in Items : cert[x] = NoCert /\ cert'[x] # NoCert => Exists(x)
    BY <2>2, <2>3 DEF Create, Open, Close, Status, NoCert
  <2>5. \A x \in Items : cert[x] # NoCert => cert'[x] # NoCert
    BY <2>2, <2>3, UnderWay DEF Create, Open, Close, Status, NoCert, At, CERTIFICATION_STATUSES
  <2> QED BY <2>1, <2>4, <2>5 DEF Matched
<1> QED BY <1>1, <1>2, <1>3, Steps, Zenon DEF Evaluates

LEMMA PassedStep ==
    ASSUME CertificationAssumption, TypeOK, Matched, Next
    PROVE  \A x \in Items : passed[x] \subseteq passed'[x]
<1>1. CASE Edits \/ Looks
  BY <1>1 DEF Edits, EditsItem, Looks
<1>2. CASE Evaluates
  BY <1>2, EvaluationSteps DEF Evaluates
<1> QED BY <1>1, <1>2, Steps

LEMMA FoundedStep ==
    ASSUME CertificationAssumption, Inv, Next
    PROVE  PassedAreFounded'
<1> USE ItemKinds DEF Inv
<1>0. Uses \in [Workflows -> SUBSET Agents] /\ TypeOK
  BY DEF CertificationAssumption
<1>1. ASSUME NEW x \in Items, NEW c \in Config, Founded(x, c)
      PROVE  Founded(x, c)'
  <2>1. \A y \in Items : passed[y] # {} => passed'[y] # {}
    BY PassedStep
  <2>2. c.tools \subseteq Items
    BY ConfigTypes
  <2> QED BY <1>0, <1>1, <2>1, <2>2 DEF Founded
<1>2. CASE passed' = passed
  BY <1>0, <1>1, <1>2 DEF PassedAreFounded, TypeOK
<1>3. ASSUME NEW e \in Evaluations, Decide(e)
      PROVE  PassedAreFounded'
  <2> DEFINE x == Item(e)
             c == evaluation[e].config
  <2>1. InFlight(e) /\ x \in Items /\ c \in Config
    BY <1>3, UnderWay DEF Decide, InFlight, At
  <2>2. CASE evaluation[e].parts /\ (x \notin Agents => PartsCertified(x, c))
    <3>1. \A y \in Items : Status(y) = "CERTIFIED" => passed[y] # {}
      BY DEF CertificateIsBacked
    <3>2. Founded(x, c)
      <4>1. CASE x \in Agents
        BY <2>1, <2>2, <4>1 DEF EvaluationInv, Founded, CertificationAssumption
      <4>2. CASE x \notin Agents
        BY <1>0, <2>1, <2>2, <3>1, <4>2, ConfigTypes DEF PartsCertified, Founded
      <4> QED BY <4>1, <4>2
    <3>3. \A y \in Items : passed'[y] \subseteq IF y = x THEN passed[x] \cup {c} ELSE passed[y]
      BY <1>0, <1>3 DEF Decide, TypeOK
    <3> QED BY <1>0, <1>1, <2>1, <3>2, <3>3 DEF PassedAreFounded, TypeOK
  <2>3. CASE ~(evaluation[e].parts /\ (x \notin Agents => PartsCertified(x, c)))
    <3>1. passed' = [passed EXCEPT ![x] = @]
      BY <1>3, <2>3 DEF Decide
    <3> QED BY <1>0, <1>2, <3>1 DEF TypeOK
  <2> QED BY <2>2, <2>3
<1>4. ASSUME ~(\E e \in Evaluations : Decide(e))
      PROVE  passed' = passed
  BY <1>4, Steps DEF Edits, EditsItem, Looks, Evaluates, EvaluationStep, Read, LookUp, Create,
     Open, Close, Lose
<1> QED BY <1>2, <1>3, <1>4

LEMMA BackedStep ==
    ASSUME CertificationAssumption, Inv, Next
    PROVE  CertificateIsBacked'
<1> USE DEF Inv, Status
<1>0. TypeOK /\ cert \in [Items -> Certificate \cup {NoCert}]
  BY DEF TypeOK
<1>1. \A x \in Items : passed[x] \subseteq passed'[x]
  BY PassedStep
<1>2. ASSUME NEW y \in Items, cert'[y].status = "CERTIFIED" => cert'[y] = cert[y]
      PROVE  (Status(y) = "CERTIFIED" => cert[y].hash \in passed[y])'
  BY <1>1, <1>2 DEF CertificateIsBacked
<1>3. CASE Edits
  <2>1. PICK x \in Items, c \in Config \cup {Absent}, d \in Certificate \cup {NoCert} :
           EditsItem(x, c, d)
    BY <1>3 DEF Edits
  <2>2. (d.status = "CERTIFIED" => d = cert[x]) /\ cert' = [cert EXCEPT ![x] = d]
    BY <2>1 DEF EditsItem, Withdraws
  <2> QED BY <1>0, <1>2, <2>2 DEF CertificateIsBacked
<1>4. CASE Looks
  BY <1>2, <1>4 DEF Looks, CertificateIsBacked
<1>5. ASSUME NEW e \in Evaluations, EvaluationStep(e) \/ Lose(e)
      PROVE  CertificateIsBacked'
  <2>1. CASE cert' = cert
    BY <1>2, <2>1 DEF CertificateIsBacked
  <2>2. CASE Create(e) \/ Open(e)
    <3>1. \A y \in Items : cert'[y].status = "CERTIFIED" => cert'[y] = cert[y]
      BY <1>0, <2>2 DEF Create, Open
    <3> QED BY <1>2, <3>1 DEF CertificateIsBacked
  <2>3. CASE Close(e)
    <3> DEFINE x == Item(e)
    <3>1. /\ x \in Items
          /\ evaluation[e].verdict = "CERTIFIED" => evaluation[e].config \in passed[x]
      BY <2>3, UnderWay DEF Close, EvaluationInv, InFlight, At
    <3>2. \A y \in Items : y # x => cert'[y] = cert[y]
      BY <1>0, <2>3 DEF Close
    <3>3. \/ cert'[x] = cert[x]
          \/ cert'[x] = [status |-> evaluation[e].verdict, hash |-> evaluation[e].config]
      BY <1>0, <2>3, <3>1 DEF Close
    <3> QED BY <1>1, <1>2, <3>1, <3>2, <3>3 DEF CertificateIsBacked
  <2> QED BY <1>5, <2>1, <2>2, <2>3 DEF EvaluationStep, Read, LookUp, Decide, Lose
<1> QED BY <1>3, <1>4, <1>5, Steps DEF Evaluates

LEMMA EvaluationInvStep ==
    ASSUME CertificationAssumption, Inv, Next
    PROVE  EvaluationInv'
<1> USE DEF Inv
<1>1. \A e \in Evaluations : e \notin dirty' =>
         \/ evaluation'[e].pc \in {"idle", "lost"}
         \/ ~InFlight(e)
         \/ e \notin dirty /\ config'[Item(e)] = config[Item(e)]
  BY DEF Next, History
<1>2. \A x \in Items : passed[x] \subseteq passed'[x]
  BY PassedStep
<1>3. TypeOK /\ CertificationAssumption
  OBVIOUS
\* An evaluation that stays where it is knows what it knew.
<1>4. ASSUME NEW e \in Evaluations, InFlight(e),
             evaluation'[e].pc \in {"read", "create", "ready", "evaluating", "decided"},
             evaluation'[e].item = evaluation[e].item,
             evaluation'[e].config = evaluation[e].config,
             evaluation'[e].parts = evaluation[e].parts,
             evaluation'[e].verdict = "CERTIFIED"
               => evaluation[e].config \in passed'[Item(e)]
      PROVE  /\ e \notin dirty' => evaluation'[e].config = config'[Item(e)']
             /\ evaluation'[e].parts /\ Item(e)' \in Agents
                  => \A t \in evaluation'[e].config.tools : passed'[t] # {}
             /\ evaluation'[e].verdict = "CERTIFIED"
                  => evaluation'[e].config \in passed'[Item(e)']
  <2>1. Item(e)' = Item(e) /\ Item(e) \in Items /\ evaluation[e].config \in Config
    BY <1>4, UnderWay DEF Item
  <2>2. e \notin dirty' => evaluation'[e].config = config'[Item(e)']
    BY <1>1, <1>4, <2>1 DEF EvaluationInv
  <2>3. evaluation[e].config.tools \subseteq Items
    BY <2>1, ConfigTypes, ItemKinds
  <2> QED BY <1>2, <1>4, <2>1, <2>2, <2>3 DEF EvaluationInv
<1> DEFINE Known(e) ==
        /\ e \notin dirty' => evaluation'[e].config = config'[Item(e)']
        /\ evaluation'[e].parts /\ Item(e)' \in Agents
             => \A t \in evaluation'[e].config.tools : passed'[t] # {}
        /\ evaluation'[e].verdict = "CERTIFIED"
             => evaluation'[e].config \in passed'[Item(e)']
<1>5. ASSUME NEW e \in Evaluations, InFlight(e)', evaluation'[e] = evaluation[e]
      PROVE  Known(e)
  <2>1. InFlight(e)
    BY <1>5 DEF InFlight
  <2>2. evaluation[e].verdict = "CERTIFIED" => evaluation[e].config \in passed'[Item(e)]
    BY <1>2, <2>1, UnderWay DEF EvaluationInv
  <2> QED BY <1>4, <1>5, <2>1, <2>2 DEF InFlight
<1>6. CASE Edits \/ Looks
  <2>1. evaluation' = evaluation
    BY <1>6 DEF Edits, EditsItem, Looks
  <2> QED BY <1>5, <2>1 DEF EvaluationInv
<1>7. ASSUME NEW e \in Evaluations, EvaluationStep(e) \/ Lose(e)
      PROVE  EvaluationInv'
  <2>1. /\ config' = config /\ \A d \in Evaluations \ {e} : evaluation'[d] = evaluation[d]
        /\ evaluation \in [Evaluations -> EvaluationState \cup {Idle}]
    BY <1>7, EvaluationSteps DEF TypeOK
  <2>2. SUFFICES ASSUME InFlight(e)' PROVE Known(e)
    BY <1>5, <2>1 DEF EvaluationInv
  <2>3. CASE Read(e)
    <3>1. PICK x \in Items :
            evaluation' = [evaluation EXCEPT ![e] =
               [pc |-> "read", item |-> x, config |-> config[x],
                parts |-> x \in Agents => PartsCertified(x, config[x]),
                verdict |-> "NONE"]]
      BY <2>3 DEF Read
    <3>2. /\ evaluation'[e].config = config[x] /\ Item(e)' = x
          /\ evaluation'[e].parts = (x \in Agents => PartsCertified(x, config[x]))
          /\ evaluation'[e].verdict = "NONE"
      BY <2>1, <3>1 DEF Item
    <3>3. evaluation'[e].parts /\ x \in Agents =>
              \A t \in config[x].tools : Status(t) = "CERTIFIED"
      BY <3>2 DEF PartsCertified
    <3>4. config[x].tools \subseteq Items
      BY ConfigTypes, ItemKinds DEF TypeOK, Absent
    <3>5. \A t \in Items : Status(t) = "CERTIFIED" => passed'[t] # {}
      BY <1>2 DEF CertificateIsBacked
    <3> QED BY <2>1, <3>2, <3>3, <3>4, <3>5
  <2>4. CASE LookUp(e) \/ Create(e) \/ Open(e)
    <3>1. InFlight(e) /\ evaluation[e].verdict = "NONE"
      BY <2>4, UnderWay DEF LookUp, Create, Open, At, InFlight
    <3>2. /\ evaluation'[e].item = evaluation[e].item
          /\ evaluation'[e].config = evaluation[e].config
          /\ evaluation'[e].parts = evaluation[e].parts
          /\ evaluation'[e].verdict = evaluation[e].verdict
      <4>1. evaluation[e] \in EvaluationState
        BY <3>1, UnderWay
      <4>2. evaluation'[e] # Idle
        BY <2>2 DEF InFlight, Idle
      <4>3. PICK p : evaluation'[e] = [evaluation[e] EXCEPT !.pc = p]
        BY <2>4, <4>2, Moves, Zenon DEF Advances, Stops
      <4> QED BY <4>1, <4>3 DEF EvaluationState
    <3> QED BY <1>4, <2>2, <3>1, <3>2 DEF InFlight
  <2>5. CASE Decide(e)
    <3>1. InFlight(e) /\ Item(e) \in Items /\ evaluation[e].config \in Config
      BY <2>5, UnderWay DEF Decide, At, InFlight
    <3>2. /\ evaluation'[e].item = evaluation[e].item
          /\ evaluation'[e].config = evaluation[e].config
          /\ evaluation'[e].parts = evaluation[e].parts
          /\ evaluation'[e].verdict = "CERTIFIED"
               => evaluation[e].config \in passed'[Item(e)]
      BY <2>1, <2>5, <3>1 DEF Decide, TypeOK
    <3> QED BY <1>4, <2>2, <3>1, <3>2 DEF InFlight
  <2>6. CASE Close(e) \/ Lose(e)
    <3>1. evaluation'[e].pc \in {"idle", "lost"}
      BY <2>6, Moves DEF Stops, Idle
    <3> QED BY <2>2, <3>1 DEF InFlight
  <2> QED BY <1>7, <2>3, <2>4, <2>5, <2>6 DEF EvaluationStep
<1> QED BY <1>6, <1>7, Steps DEF Evaluates

LEMMA CurrentStep ==
    ASSUME CertificationAssumption, Inv, Next
    PROVE  CertificateIsCurrent'
<1> USE DEF Inv, Status
<1>0. /\ TypeOK /\ cert \in [Items -> Certificate \cup {NoCert}]
      /\ config \in [Items -> Config \cup {Absent}]
      /\ evaluation \in [Evaluations -> EvaluationState \cup {Idle}]
  BY DEF TypeOK
<1>1. ASSUME NEW y \in Items, cert'[y] = cert[y], config'[y] = config[y],
             y \in lapsed => y \in lapsed' \/ cert'[y].status # "CERTIFIED"
      PROVE  (Status(y) = "CERTIFIED" /\ y \notin lapsed => cert[y].hash = config[y])'
  BY <1>1 DEF CertificateIsCurrent
<1>2. ASSUME evaluation' = evaluation
      PROVE  lapsed' = lapsed
  <2>1. \A e \in Evaluations : ~Closes(e)
    BY <1>2 DEF Closes, At, Idle
  <2> QED BY <2>1, <1>0 DEF Next, History, TypeOK
<1>3. CASE Edits
  <2>1. PICK x \in Items, c \in Config \cup {Absent}, d \in Certificate \cup {NoCert} :
           EditsItem(x, c, d)
    BY <1>3 DEF Edits
  <2>2. /\ d.status = "CERTIFIED" => d = cert[x] /\ d.hash = c
        /\ config' = [config EXCEPT ![x] = c] /\ cert' = [cert EXCEPT ![x] = d]
        /\ lapsed' = lapsed
    BY <1>2, <2>1 DEF EditsItem, Withdraws
  <2> QED BY <1>0, <1>1, <2>2 DEF CertificateIsCurrent
<1>4. CASE Looks
  BY <1>1, <1>2, <1>4 DEF Looks, CertificateIsCurrent
<1>5. ASSUME NEW e \in Evaluations, EvaluationStep(e) \/ Lose(e)
      PROVE  CertificateIsCurrent'
  <2>1. /\ config' = config /\ \A d \in Evaluations \ {e} : evaluation'[d] = evaluation[d]
        /\ \A y \in Items : cert'[y] # cert[y] => y = Item(e)
    BY <1>5, EvaluationSteps
  <2>2. \A d \in Evaluations : Closes(d) => d = e
    BY <1>0, <2>1 DEF Closes, At, Idle
  <2>3. \A y \in Items : y # Item(e) => (y \in lapsed <=> y \in lapsed')
    BY <2>2 DEF Next, History
  <2>4. \A y \in Items : y # Item(e) =>
           (Status(y) = "CERTIFIED" /\ y \notin lapsed => cert[y].hash = config[y])'
    BY <1>1, <2>1, <2>3
  <2>5. ASSUME NEW x \in Items, x = Item(e)
        PROVE  (Status(x) = "CERTIFIED" /\ x \notin lapsed => cert[x].hash = config[x])'
    <3>1. CASE Close(e)
      <4>1. InFlight(e) /\ Closes(e)
        BY <1>0, <3>1 DEF Close, End, InFlight, At, Closes
      <4>2. x \notin lapsed' => evaluation[e].config = config[x]
        BY <2>5, <4>1 DEF Next, History, EvaluationInv
      <4>3. \/ cert'[x] = NoCert
            \/ cert'[x] = [status |-> evaluation[e].verdict, hash |-> evaluation[e].config]
        BY <1>0, <2>5, <3>1 DEF Close
      <4> QED BY <2>1, <2>5, <4>2, <4>3 DEF NoCert
    <3>2. CASE ~Close(e)
      <4>1. ~Closes(e)
        <5>1. CASE Decide(e) \/ Lose(e)
          BY <5>1, Moves DEF Closes, Idle
        <5>2. CASE Read(e) \/ LookUp(e) \/ Create(e) \/ Open(e)
          BY <5>2, Moves DEF Closes, At, Advances
        <5> QED BY <1>5, <3>2, <5>1, <5>2 DEF EvaluationStep
      <4>2. x \in lapsed <=> x \in lapsed'
        BY <2>2, <2>5, <4>1 DEF Next, History
      <4>3. cert'[x].status = "CERTIFIED" => cert'[x] = cert[x]
        <5>1. CASE Create(e) \/ Open(e)
          BY <1>0, <2>5, <5>1 DEF Create, Open
        <5>2. CASE ~(Create(e) \/ Open(e))
          BY <1>5, <3>2, <5>2 DEF EvaluationStep, Read, LookUp, Decide, Lose
        <5> QED BY <5>1, <5>2
      <4> QED BY <2>1, <2>5, <4>2, <4>3 DEF CertificateIsCurrent
    <3> QED BY <3>1, <3>2
  <2> QED BY <2>4, <2>5 DEF CertificateIsCurrent
<1> QED BY <1>3, <1>4, <1>5, Steps DEF Evaluates

LEMMA HeldStep ==
    ASSUME CertificationAssumption, Inv, Next
    PROVE  EvaluatingIsHeld'
<1> USE DEF Inv, Status
<1>0. /\ TypeOK /\ cert \in [Items -> Certificate \cup {NoCert}]
      /\ evaluation \in [Evaluations -> EvaluationState \cup {Idle}]
  BY DEF TypeOK
<1> DEFINE Holds(e, x) ==
        Item(e) = x /\ evaluation[e].pc \in {"evaluating", "decided", "lost"}
<1>1. CASE Edits
  <2>1. PICK x \in Items, c \in Config \cup {Absent}, d \in Certificate \cup {NoCert} :
           EditsItem(x, c, d)
    BY <1>1 DEF Edits
  <2>2. /\ d.status = "EVALUATING" => cert[x].status = "EVALUATING"
        /\ cert' = [cert EXCEPT ![x] = d] /\ evaluation' = evaluation
    BY <2>1 DEF EditsItem, Withdraws
  <2> QED BY <1>0, <2>2 DEF EvaluatingIsHeld, Item
<1>2. CASE Looks
  BY <1>2 DEF Looks, EvaluatingIsHeld, Item
<1>3. ASSUME NEW e \in Evaluations, EvaluationStep(e) \/ Lose(e)
      PROVE  EvaluatingIsHeld'
  <2>1. /\ \A d \in Evaluations \ {e} : evaluation'[d] = evaluation[d]
        /\ \A y \in Items : cert'[y] # cert[y] => y = Item(e)
    BY <1>3, EvaluationSteps
  <2>2. \A d \in Evaluations \ {e}, y \in Items : Holds(d, y) => Holds(d, y)'
    BY <2>1 DEF Item
  <2>3. ASSUME NEW y \in Items, cert'[y].status = "EVALUATING"
        PROVE  \E d \in Evaluations : Holds(d, y)'
    <3>1. CASE Open(e) /\ y = Item(e)
      <4>1. CASE Goto(e, "evaluating")
        <5>1. evaluation'[e] = [evaluation[e] EXCEPT !.pc = "evaluating"]
          BY <1>0, <4>1 DEF Goto
        <5>2. evaluation[e] \in EvaluationState
          BY <3>1, UnderWay DEF Open, At, InFlight
        <5> QED BY <3>1, <5>1, <5>2 DEF Item, EvaluationState
      <4>2. CASE End(e) /\ UNCHANGED cert
        <5>1. cert[y].status = "EVALUATING"
          BY <2>3, <4>2
        <5>2. Status(Item(e)) = "EVALUATING"
          BY <3>1, <5>1
        <5> QED BY <3>1, <4>1, <5>2 DEF Open
      <4> QED BY <3>1, <4>1, <4>2 DEF Open
    <3>2. CASE Close(e) /\ y = Item(e)
      <4>1. cert'[y] = NoCert \/ cert'[y].status \in {"CERTIFIED", "FAILED"}
        BY <1>0, <3>2, UnderWay DEF Close
      <4> QED BY <2>3, <4>1 DEF NoCert
    <3>3. CASE ~((Open(e) \/ Close(e)) /\ y = Item(e))
      <4>1. cert[y].status = "EVALUATING"
        BY <1>0, <1>3, <2>1, <2>3, <3>3 DEF EvaluationStep, Read, LookUp, Create, Decide, Lose
      <4>2. PICK d \in Evaluations : Holds(d, y)
        BY <4>1 DEF EvaluatingIsHeld
      <4>3. d = e => Holds(e, y)'
        <5>1. ASSUME d = e PROVE Holds(e, y)'
          <6>1. Item(e) = y /\ evaluation[e].pc \in {"evaluating", "decided", "lost"}
            BY <4>2, <5>1
          <6>2. Decide(e) \/ Lose(e)
            <7>1. ~Read(e) /\ ~LookUp(e) /\ ~Create(e) /\ ~Open(e) /\ ~Close(e)
              BY <3>3, <6>1, Moves DEF Advances
            <7> QED BY <1>3, <7>1 DEF EvaluationStep
          <6> QED BY <6>1, <6>2, Moves DEF Item
        <5> QED BY <5>1
      <4> QED BY <2>2, <4>2, <4>3
    <3> QED BY <3>1, <3>2, <3>3
  <2> QED BY <2>3 DEF EvaluatingIsHeld
<1> QED BY <1>1, <1>2, <1>3, Steps DEF Evaluates

THEOREM Invariance == Spec => []Inv
<1> USE CertificationAssumption
<1>1. Init => Inv
  BY InitInv
<1>2. Inv /\ [Next]_vars => Inv'
  <2> SUFFICES ASSUME Inv, [Next]_vars PROVE Inv'
    OBVIOUS
  <2>1. CASE Next
    <3>1. TypeOK' /\ Matched'
      BY <2>1, TypeStep, MatchedStep DEF Inv
    <3> QED BY <2>1, <3>1, FoundedStep, BackedStep, EvaluationInvStep, CurrentStep, HeldStep
            DEF Inv
  <2>2. CASE UNCHANGED vars
    BY <2>2 DEF vars, Inv, TypeOK, Matched, Exists, PassedAreFounded, Founded, EvaluationInv,
       InFlight, Item, CertificateIsBacked, CertificateIsCurrent, EvaluatingIsHeld, Status
  <2> QED BY <2>1, <2>2
<1> QED BY <1>1, <1>2, PTL DEF Spec

\* For any number of items, evaluations and edits every variable keeps its type.
THEOREM TypeCorrect == Spec => []TypeOK
BY Invariance, PTL DEF Inv

\* A certificate speaks of the configuration the item has, unless an evaluation
\* that an edit overlapped put it back (the last write of evaluate_*).
THEOREM CertificatesCurrent == Spec => []CertificateIsCurrent
BY Invariance, PTL DEF Inv

\* Whatever is certified was found good by an evaluation run of just that.
THEOREM CertificatesBacked == Spec => []CertificateIsBacked
BY Invariance, PTL DEF Inv

\* A certificate is EVALUATING only while an evaluation runs, or was lost.
THEOREM EvaluatingHeld == Spec => []EvaluatingIsHeld
BY Invariance, PTL DEF Inv

\* The tools of a certified agent and the agents of a certified workflow have
\* passed evaluations of their own.
THEOREM CertificatesFounded == Spec => []CertificateIsFounded
<1>1. Inv => CertificateIsFounded
  BY DEF Inv, CertificateIsFounded, CertificateIsBacked, PassedAreFounded, Founded
<1> QED BY <1>1, Invariance, PTL

-----------------------------------------------------------------------------
\* Requests

Passed(x) == passed[x] # {}

\* What a request that looked at certificates knows.
RequestInv ==
    \A q \in Requests :
        /\ production /\ request[q].kind = "grant"
             => \A t \in request[q].config.tools : Passed(t)
        /\ production /\ request[q].kind = "edit"
             => \A a \in Uses[request[q].target] : Passed(a)
        /\ request[q].pc = "read" /\ q \notin moved
             => request[q].config = config[request[q].target]
        /\ production /\ request[q].pc = "ran" /\ q \notin moved
             => request[q].config \in passed[request[q].target]

LEMMA RequestTypes ==
    ASSUME TypeOK, NEW q \in Requests
    PROVE  /\ request[q].kind = "grant" =>
                /\ request[q].pc = "checked" /\ request[q].target \in Agents
                /\ request[q].config.tools \in SUBSET Tools
           /\ request[q].kind = "edit" =>
                request[q].pc = "checked" /\ request[q].target \in Workflows
           /\ request[q].pc \in {"read", "ran"} =>
                request[q].target \in Workflows /\ request[q].kind = "run"
<1>1. request[q] \in RequestState \cup {NoRequest}
  BY DEF TypeOK
<1> QED BY <1>1 DEF RequestState, NoRequest

LEMMA UsableInProduction ==
    ASSUME Inv, production
    PROVE  /\ \A t \in Tools : ToolUsable(t) => Passed(t)
           /\ \A x \in Items : Usable(x) => Status(x) = "CERTIFIED" /\ Passed(x)
BY ItemKinds DEF Inv, CertificateIsBacked, ToolUsable, Usable, Passed

LEMMA RequestInvStep ==
    ASSUME CertificationAssumption, Inv, RequestInv, Next
    PROVE  RequestInv'
<1> USE DEF Inv, Passed
<1>0. /\ TypeOK /\ Uses \in [Workflows -> SUBSET Agents]
      /\ request \in [Requests -> RequestState \cup {NoRequest}]
  BY DEF TypeOK, CertificationAssumption
<1>1. /\ \A x \in Items : passed[x] \subseteq passed'[x]
      /\ \A x \in Items : Passed(x) => passed'[x] # {}
  BY PassedStep
<1>2. \A q \in Requests : q \notin moved' =>
         \/ request'[q].kind # "run"
         \/ request[q].pc # "read" /\ request'[q] # request[q]
         \/ /\ q \notin moved
            /\ request[q].pc = "read" => /\ request[q].target \notin lapsed
                                         /\ config'[request[q].target] = config[request[q].target]
  BY DEF Next, History
<1>3. production' = production
  BY Steps, EvaluationSteps DEF Edits, EditsItem, Looks, Evaluates
\* A request that stays where it is knows what it knew.
<1>4. ASSUME NEW q \in Requests, request'[q] = request[q]
      PROVE  /\ production' /\ request'[q].kind = "grant"
                  => \A t \in request'[q].config.tools : Passed(t)'
             /\ production' /\ request'[q].kind = "edit"
                  => \A a \in Uses[request'[q].target] : Passed(a)'
             /\ request'[q].pc = "read" /\ q \notin moved'
                  => request'[q].config = config'[request'[q].target]
             /\ production' /\ request'[q].pc = "ran" /\ q \notin moved'
                  => request'[q].config \in passed'[request'[q].target]
  <2>1. request'[q].pc \in {"read", "ran"} /\ q \notin moved' =>
            /\ q \notin moved
            /\ request[q].pc = "read" => config'[request[q].target] = config[request[q].target]
    BY <1>0, <1>2, <1>4, RequestTypes
  <2> QED BY <1>0, <1>1, <1>3, <1>4, <2>1, RequestTypes, ItemKinds DEF RequestInv
<1> DEFINE Knows(q) ==
             /\ production' /\ request'[q].kind = "grant"
                  => \A t \in request'[q].config.tools : Passed(t)'
             /\ production' /\ request'[q].kind = "edit"
                  => \A a \in Uses[request'[q].target] : Passed(a)'
             /\ request'[q].pc = "read" /\ q \notin moved'
                  => request'[q].config = config'[request'[q].target]
             /\ production' /\ request'[q].pc = "ran" /\ q \notin moved'
                  => request'[q].config \in passed'[request'[q].target]
<1>5. CASE request' = request
  BY <1>4, <1>5 DEF RequestInv
<1>6. ASSUME NEW q \in Requests, RequestStep(q)
      PROVE  RequestInv'
  <2>1. \A p \in Requests \ {q} : request'[p] = request[p]
    BY <1>0, <1>6 DEF RequestStep, CheckGrant, Grant, CheckWorkflowEdit, EditWorkflow, ReadForRun,
       CheckRun, Ask, Answer
  <2>2. SUFFICES Knows(q)
    BY <1>4, <2>1 DEF RequestInv
  <2>3. CASE CheckGrant(q)
    <3>1. PICK a \in Agents, t \in Tools :
             ToolUsable(t) /\ Ask(q, "checked", "grant", a, [Absent EXCEPT !.tools = {t}])
      BY <2>3 DEF CheckGrant
    <3>2. /\ request'[q].kind = "grant" /\ request'[q].pc = "checked"
          /\ request'[q].config.tools = {t}
      BY <1>0, <3>1 DEF Ask, Absent
    <3> QED BY <1>1, <1>3, <3>1, <3>2, UsableInProduction, ItemKinds
  <2>4. CASE CheckWorkflowEdit(q)
    <3>1. PICK w \in Workflows, b \in Configs :
             /\ \A a \in Uses[w] : Usable(a)
             /\ Ask(q, "checked", "edit", w, [body |-> b, tools |-> {}])
      BY <2>4 DEF CheckWorkflowEdit
    <3>2. /\ request'[q].kind = "edit" /\ request'[q].pc = "checked" /\ request'[q].target = w
      BY <1>0, <3>1 DEF Ask
    <3> QED BY <1>0, <1>1, <1>3, <3>1, <3>2, UsableInProduction, ItemKinds
  <2>5. CASE ReadForRun(q)
    <3>1. PICK w \in Workflows : Ask(q, "read", "run", w, config[w])
      BY <2>5 DEF ReadForRun
    <3>2. /\ request'[q].kind = "run" /\ request'[q].pc = "read"
          /\ request'[q].target = w /\ request'[q].config = config[w] /\ config' = config
      BY <1>0, <2>5, <3>1 DEF Ask, ReadForRun
    <3> QED BY <3>2
  <2>6. CASE CheckRun(q)
    <3> DEFINE w == request[q].target
    <3>1. /\ w \in Workflows /\ request[q].kind = "run" /\ request[q].pc = "read"
      BY <1>0, <2>6, RequestTypes DEF CheckRun
    <3>2. CASE Usable(w)
      <4>1. /\ request'[q].pc = "ran" /\ request'[q].kind = "run" /\ request'[q].target = w
            /\ request'[q].config = request[q].config
        <5>1. request[q] \in RequestState
          BY <1>0, <3>1 DEF NoRequest
        <5> QED BY <1>0, <2>6, <3>2, <3>1, <5>1 DEF CheckRun, RequestState
      <4>2. q \notin moved' => request[q].config = config[w] /\ w \notin lapsed
        BY <1>2, <3>1, <4>1 DEF RequestInv
      <4>3. production => Status(w) = "CERTIFIED"
        BY <3>1, <3>2, UsableInProduction, ItemKinds
      <4>4. production /\ q \notin moved' => request[q].config \in passed[w]
        BY <3>1, <4>2, <4>3, ItemKinds DEF CertificateIsCurrent, CertificateIsBacked
      <4> QED BY <1>1, <1>3, <3>1, <4>1, <4>4, ItemKinds
    <3>3. CASE ~Usable(w)
      BY <1>0, <2>6, <3>3 DEF CheckRun, Answer, NoRequest
    <3> QED BY <3>2, <3>3
  <2>7. CASE Grant(q) \/ EditWorkflow(q)
    BY <1>0, <2>7 DEF Grant, EditWorkflow, Answer, NoRequest
  <2> QED BY <1>6, <2>3, <2>4, <2>5, <2>6, <2>7 DEF RequestStep
<1>7. CASE Edit
  BY <1>5, <1>7, EditWithdraws
<1>8. CASE Evaluates
  BY <1>5, <1>8, EvaluationSteps DEF Evaluates
<1> QED BY <1>6, <1>7, <1>8, Zenon DEF Next, Evaluates

\* In production a workflow runs as it was evaluated, unless it was edited
\* between the two reads of multi_agent_run or its certificate had lapsed.
THEOREM RunsEvaluated == Spec => []RunsWereEvaluated
<1> USE CertificationAssumption
<1>1. Init => RequestInv
  BY DEF Init, RequestInv, NoRequest
<1>2. Inv /\ RequestInv /\ [Next]_vars => RequestInv'
  <2>1. CASE UNCHANGED vars
    BY <2>1 DEF vars, RequestInv, Passed
  <2> QED BY <2>1, RequestInvStep
<1>3. RequestInv => RunsWereEvaluated
  BY DEF RequestInv, RunsWereEvaluated
<1> QED BY <1>1, <1>2, <1>3, Invariance, PTL DEF Spec

LEMMA AttachedStep ==
    ASSUME CertificationAssumption, Inv, RequestInv, AttachedHavePassed, Next
    PROVE  AttachedHavePassed'
<1> USE ItemKinds DEF Inv, Exists
<1>0. /\ TypeOK /\ Uses \in [Workflows -> SUBSET Agents]
      /\ config \in [Items -> Config \cup {Absent}]
      /\ Agents \cap Workflows = {} /\ Tools \cap Agents = {} /\ Tools \cap Workflows = {}
  BY DEF TypeOK, CertificationAssumption
<1>1. \A x \in Items : Passed(x) => passed'[x] # {}
  BY PassedStep DEF Passed
<1>2. production' = production
  BY Steps, EvaluationSteps DEF Edits, EditsItem, Looks, Evaluates
<1>3. \A x \in Items : config[x].tools \subseteq Items
  BY <1>0, ConfigTypes DEF Absent
\* What the agents and the workflows have to satisfy after the step.
<1>4. ASSUME production =>
               /\ \A a \in Agents : \A t \in config'[a].tools :
                    t \in Items /\ (Passed(t) \/ <<a, t>> \in registered')
               /\ \A w \in Workflows : config'[w] # Absent => \A a \in Uses[w] : Passed(a)
      PROVE  AttachedHavePassed'
  BY <1>0, <1>1, <1>2, <1>4 DEF AttachedHavePassed, Passed
<1>5. CASE config' = config /\ registered' = registered
  BY <1>3, <1>4, <1>5 DEF AttachedHavePassed, Passed
<1>6. ASSUME NEW x \in Items, x \notin Agents, NEW c, config' = [config EXCEPT ![x] = c],
             registered' = registered,
             production /\ x \in Workflows => \A a \in Uses[x] : Passed(a)
      PROVE  AttachedHavePassed'
  BY <1>0, <1>3, <1>4, <1>6 DEF AttachedHavePassed, Passed
<1>7. ASSUME NEW a \in Agents, NEW c, config' = [config EXCEPT ![a] = c],
             c.tools \subseteq Tools,
             production => \A t \in c.tools : Passed(t) \/ <<a, t>> \in registered',
             \A b \in Agents \ {a}, t \in Tools :
                <<b, t>> \in registered => <<b, t>> \in registered'
      PROVE  AttachedHavePassed'
  <2>1. \A b \in Agents : config[b].tools \subseteq Tools
    BY <1>0, ConfigTypes DEF Absent
  <2> QED BY <1>0, <1>4, <1>7, <2>1 DEF AttachedHavePassed, Passed
<1>8. CASE Edit
  <2>1. ASSUME NEW t \in Tools, CreateTool(t) \/ UpdateTool(t) PROVE AttachedHavePassed'
    <3>1. \E c : config' = [config EXCEPT ![t] = c]
      BY <2>1, Zenon DEF CreateTool, UpdateTool, Change
    <3>2. registered' = registered
      BY <2>1 DEF CreateTool, UpdateTool
    <3> QED BY <1>0, <1>6, <3>1, <3>2
  <2>2. ASSUME NEW a \in Agents, UpsertAgent(a) PROVE AttachedHavePassed'
    <3>1. PICK b \in Configs, T \in SUBSET Tools :
            /\ Change(a, [body |-> b, tools |-> T])
            /\ registered' = (registered \ ({a} \X Tools)) \cup ({a} \X T)
      BY <2>2 DEF UpsertAgent
    <3>2. config' = [config EXCEPT ![a] = [body |-> b, tools |-> T]]
      BY <3>1 DEF Change
    <3>3. \A d \in Agents \ {a}, t \in Tools : <<d, t>> \in registered => <<d, t>> \in registered'
      BY <3>1
    <3> DEFINE c == [body |-> b, tools |-> T]
    <3>4. c.tools = T /\ \A t \in T : <<a, t>> \in registered'
      BY <3>1
    <3> HIDE DEF c
    <3> QED BY <1>7, <3>2, <3>3, <3>4 DEF c
  <2>3. ASSUME NEW a \in Agents, Reassign(a) PROVE AttachedHavePassed'
    <3>1. PICK b \in Configs : config' = [config EXCEPT ![a] = [config[a] EXCEPT !.body = b]]
      BY <2>3 DEF Reassign, Change
    <3> DEFINE c == [config[a] EXCEPT !.body = b]
    <3>2. c.tools = config[a].tools /\ c.tools \subseteq Tools /\ registered' = registered
      BY <1>0, <2>3, ConfigTypes DEF Reassign, Absent, Config
    <3> HIDE DEF c
    <3> QED BY <1>7, <3>1, <3>2 DEF AttachedHavePassed, Passed, c
  <2>4. ASSUME NEW a \in Agents, NEW t \in Tools, RevokeTool(a, t) PROVE AttachedHavePassed'
    <3> DEFINE T == config[a].tools \ {t}
               c == [config[a] EXCEPT !.tools = T]
    <3>1. config' = [config EXCEPT ![a] = c]
      BY <2>4 DEF RevokeTool, Change
    <3>2. c.tools = T /\ T \subseteq Tools
      BY <1>0, <2>4, ConfigTypes DEF RevokeTool, Absent, Config
    <3>3. /\ \A u \in T : <<a, u>> \in registered => <<a, u>> \in registered'
          /\ \A d \in Agents \ {a}, u \in Tools :
               <<d, u>> \in registered => <<d, u>> \in registered'
      BY <2>4 DEF RevokeTool
    <3>4. production => \A u \in T : Passed(u) \/ <<a, u>> \in registered'
      BY <3>3 DEF AttachedHavePassed, Passed
    <3> HIDE DEF T, c
    <3> QED BY <1>7, <3>1, <3>2, <3>3, <3>4
  <2>5. ASSUME NEW a \in Agents, DeleteAgent(a) PROVE AttachedHavePassed'
    <3>1. config' = [config EXCEPT ![a] = Absent] /\ Absent.tools = {}
      BY <2>5 DEF DeleteAgent, Change, Absent
    <3>2. \A d \in Agents \ {a}, u \in Tools : <<d, u>> \in registered => <<d, u>> \in registered'
      BY <2>5 DEF DeleteAgent
    <3> QED BY <1>7, <3>1, <3>2
  <2> QED BY <1>8, <2>1, <2>2, <2>3, <2>4, <2>5, Zenon
          DEF Edit, AssignGuardrail, AssignEvaluator, AssignKnowledge
<1>9. ASSUME NEW q \in Requests, RequestStep(q)
      PROVE  AttachedHavePassed'
  <2>1. registered' = registered
    BY <1>9, RequestSteps
  <2>2. CASE Grant(q)
    <3> DEFINE a == request[q].target
    <3>1. a \in Agents /\ request[q].config.tools \in SUBSET Tools /\ request[q].kind = "grant"
      BY <2>2, RequestTypes DEF Grant
    <3>2. CASE Exists(a)
      <4> DEFINE T == config[a].tools \cup request[q].config.tools
                 c == [config[a] EXCEPT !.tools = T]
      <4>1. config' = [config EXCEPT ![a] = c]
        BY <2>2, <3>2 DEF Grant, Change
      <4>2. config[a] \in Config
        BY <1>0, <3>1, <3>2
      <4>3. c.tools = T /\ T \subseteq Tools
        BY <3>1, <4>2, ConfigTypes DEF Config
      <4>4. production => \A t \in T : Passed(t) \/ <<a, t>> \in registered
        BY <3>1 DEF AttachedHavePassed, RequestInv, Passed
      <4> HIDE DEF c, T, a
      <4>5. a \in Agents
        BY <3>1 DEF a
      <4> QED BY <1>7, <2>1, <4>1, <4>3, <4>4, <4>5
    <3>3. CASE ~Exists(a)
      BY <1>5, <2>1, <2>2, <3>3 DEF Grant
    <3> QED BY <3>2, <3>3
  <2>3. CASE EditWorkflow(q)
    <3> DEFINE w == request[q].target
    <3>1. w \in Workflows /\ request[q].kind = "edit"
      BY <2>3, RequestTypes DEF EditWorkflow
    <3>2. CASE config' = config
      BY <1>5, <2>1, <3>2
    <3>3. CASE config' = [config EXCEPT ![w] = request[q].config]
      <4>1. production => \A a \in Uses[w] : Passed(a)
        BY <3>1 DEF RequestInv
      <4> HIDE DEF w
      <4> QED BY <1>0, <1>6, <2>1, <3>1, <3>3, <4>1
    <3> QED BY <2>3, <3>2, <3>3 DEF EditWorkflow, Change
  <2>4. CASE CheckGrant(q) \/ CheckWorkflowEdit(q) \/ ReadForRun(q) \/ CheckRun(q)
    BY <1>5, <2>1, <2>4 DEF CheckGrant, CheckWorkflowEdit, ReadForRun, CheckRun
  <2> QED BY <1>9, <2>2, <2>3, <2>4 DEF RequestStep
<1>10. CASE Evaluates
  BY <1>5, <1>10, EvaluationSteps DEF Evaluates
<1> QED BY <1>8, <1>9, <1>10, Zenon DEF Next, Evaluates

\* In production what is attached to an agent or named by a workflow passed an
\* evaluation (checked by grant_agent_tool and create_workflow_definition in a
\* transaction of its own), except for what registering the agent attached.
THEOREM AttachedPassed == Spec => []AttachedHavePassed
<1> USE CertificationAssumption
<1>1. Init => RequestInv /\ AttachedHavePassed
  BY ItemKinds DEF Init, RequestInv, NoRequest, AttachedHavePassed, Absent, Exists
<1>2. Inv /\ RequestInv /\ AttachedHavePassed /\ [Next]_vars => (RequestInv /\ AttachedHavePassed)'
  <2>1. CASE UNCHANGED vars
    BY <2>1 DEF vars, RequestInv, Passed, AttachedHavePassed, Exists
  <2> QED BY <2>1, RequestInvStep, AttachedStep
<1> QED BY <1>1, <1>2, Invariance, PTL DEF Spec

\* Certificates are earned, rest on earned ones, and are what production runs by.
THEOREM CertificationSafety == Spec => []CertificationInvariant
BY TypeCorrect, CertificatesBacked, CertificatesFounded, EvaluatingHeld, RunsEvaluated, PTL
   DEF CertificationInvariant

=============================================================================
