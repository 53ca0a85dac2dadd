----------------------- MODULE GovernedToolCallProofs -----------------------
(***************************************************************************)
(* Governed tool calls, for any number of calls, keys and failures: what   *)
(* the audit trail and the tool_calls table say of the tools' effects, and *)
(* when a key executes its tool once.                                      *)
(***************************************************************************)
EXTENDS GovernedToolCall, FiniteSetTheorems, TLAPS

\* A call in one of these places has not executed its tool.
Before == {"idle", "replay", "session", "assess", "policy", "audit", "refuse",
           "queue", "execute", "error"}

\* A call in one of these places has recorded what it executed.
After == {"result", "withhold", "status", "answered", "respond", "response",
          "complete", "done"}

\* A call in one of these places was refused, or its result was.
Refused == {"refuse", "queue", "error", "withhold", "status", "response"}

Allowed(c) ==
    \/ call[c].mode = "disabled"
    \/ policy[c] = "ALLOW" /\ "pre_tool" \in audit[c]

CallInv(c) ==
    /\ call[c].pc \in Before => effects[c] = 0
    /\ At(c, "idle") => rows[c].decision = "NONE" /\ rows[c].key = NoKey
    /\ call[c].pc \in {"policy", "audit"} => call[c].decision \in Decisions
    /\ At(c, "audit") => policy[c] = call[c].decision
    /\ At(c, "execute") \/ effects[c] > 0 => Allowed(c)
    /\ call[c].pc \in Refused => call[c].decision \in {"REVIEW", "BLOCK"}
    /\ call[c].pc \in {"record", "result"} => call[c].result \in Decisions
    /\ rows[c].key # NoKey =>
          Keyed(c) /\ rows[c].key = call[c].key /\ rows[c].decision # "NONE"
    /\ effects[c] > 0 /\ call[c].pc \in After =>
          rows[c].decision # "NONE" /\ (Keyed(c) => rows[c].key = call[c].key)

\* The unique index.
KeysUnique ==
    \A c, d \in Calls : rows[c].key = rows[d].key /\ rows[c].key # NoKey => c = d

Inv == TypeOK /\ (\A c \in Calls : CallInv(c)) /\ KeysUnique

-----------------------------------------------------------------------------
\* The steps

\* What a step of one call leaves of another.
Others(c) ==
    \A d \in Calls : d # c =>
        /\ call'[d] = call[d] /\ rows'[d] = rows[d] /\ policy'[d] = policy[d]
        /\ audit'[d] = audit[d] /\ effects'[d] = effects[d]

LEMMA Locality ==
    ASSUME TypeOK, NEW c \in Calls, Step(c) \/ Abort(c) \/ ResolveReviewItem(c)
    PROVE  Others(c)
<1> USE DEF TypeOK, Others, Goto
<1>1. CASE CallTool(c)
  BY <1>1 DEF CallTool
<1>2. CASE Replay(c) \/ EnsureSession(c) \/ Assess(c) \/ AddPolicyDecision(c) \/ AuditDecision(c)
  BY <1>2 DEF Replay, EnsureSession, Assess, AddPolicyDecision, AuditDecision
<1>3. CASE RecordRefusal(c) \/ AddReviewItem(c) \/ UpdateSessionStatus(c)
  BY <1>3 DEF RecordRefusal, AddReviewItem, UpdateSessionStatus
<1>4. CASE Execute(c) \/ ToolRaises(c) \/ AuditRuntimeError(c)
  BY <1>4 DEF Execute, ToolRaises, AuditRuntimeError
<1>5. CASE AddToolCall(c) \/ AddToolCallConflict(c) \/ CheckResult(c) \/ AuditWithheld(c)
  BY <1>5 DEF AddToolCall, AddToolCallConflict, CheckResult, AuditWithheld
<1>6. CASE Answered(c) \/ CheckFinalResponse(c) \/ AuditResponse(c) \/ CompleteStep(c)
  BY <1>6 DEF Answered, CheckFinalResponse, AuditResponse, CompleteStep
<1>7. CASE Abort(c) \/ ResolveReviewItem(c)
  BY <1>7 DEF Abort, ResolveReviewItem
<1> QED BY <1>1, <1>2, <1>3, <1>4, <1>5, <1>6, <1>7 DEF Step

\* Changing the fields of a call keeps its type.
LEMMA CallTyped ==
    ASSUME TypeOK, NEW c \in Calls, NEW pc \in CallPc,
           NEW d \in Decisions \cup {"NONE"}, NEW r \in Decisions \cup {"NONE"},
           NEW b \in BOOLEAN,
           \/ call' = [call EXCEPT ![c].pc = pc]
           \/ call' = [call EXCEPT ![c].pc = pc, ![c].decision = d]
           \/ call' = [call EXCEPT ![c].pc = pc, ![c].decision = d, ![c].delivered = b]
           \/ call' = [call EXCEPT ![c].pc = pc, ![c].result = r]
           \/ call' = [call EXCEPT ![c].pc = pc, ![c].delivered = b]
    PROVE  call' \in [Calls -> CallState]
<1>1. call \in [Calls -> CallState] /\ call[c] \in CallState
  BY DEF TypeOK
<1>2. /\ [call[c] EXCEPT !.pc = pc] \in CallState
      /\ [call[c] EXCEPT !.pc = pc, !.decision = d] \in CallState
      /\ [call[c] EXCEPT !.pc = pc, !.decision = d, !.delivered = b] \in CallState
      /\ [call[c] EXCEPT !.pc = pc, !.result = r] \in CallState
      /\ [call[c] EXCEPT !.pc = pc, !.delivered = b] \in CallState
  BY <1>1 DEF CallState
<1>3. \/ call' = [call EXCEPT ![c] = [call[c] EXCEPT !.pc = pc]]
      \/ call' = [call EXCEPT ![c] = [call[c] EXCEPT !.pc = pc, !.decision = d]]
      \/ call' = [call EXCEPT ![c] = [call[c] EXCEPT !.pc = pc, !.decision = d, !.delivered = b]]
      \/ call' = [call EXCEPT ![c] = [call[c] EXCEPT !.pc = pc, !.result = r]]
      \/ call' = [call EXCEPT ![c] = [call[c] EXCEPT !.pc = pc, !.delivered = b]]
  BY <1>1
<1> QED BY <1>1, <1>2, <1>3

LEMMA CallTypeStep ==
    ASSUME TypeOK, NEW c \in Calls, Step(c) \/ Abort(c) \/ ResolveReviewItem(c)
    PROVE  call' \in [Calls -> CallState]
<1>1. CASE CallTool(c)
  <2>1. PICK by \in Callers, tool \in Tools, k \in Keys \cup {NoKey}, mode \in Modes :
          /\ SessionOpenTo(by)
          /\ k # NoKey => by = "gateway"
          /\ call' = [call EXCEPT ![c].by = by, ![c].tool = tool, ![c].key = k,
                        ![c].mode = mode,
                        ![c].pc = IF tool = "write" /\ k # NoKey /\ RowsWithKey(k) # {}
                                  THEN "replay" ELSE "session"]
    BY <1>1, Zenon DEF CallTool
  <2> DEFINE pc == IF tool = "write" /\ k # NoKey /\ RowsWithKey(k) # {}
                   THEN "replay" ELSE "session"
  <2>2. pc \in CallPc /\ by \in {"gateway", "agent", "workflow"}
    BY ToolCallAssumption DEF CallPc
  <2>3. call[c] \in CallState /\ call \in [Calls -> CallState]
    BY DEF TypeOK
  <2>4. [call[c] EXCEPT !.by = by, !.tool = tool, !.key = k, !.mode = mode, !.pc = pc]
          \in CallState
    BY <2>2, <2>3 DEF CallState
  <2>5. call' = [call EXCEPT ![c] =
                   [call[c] EXCEPT !.by = by, !.tool = tool, !.key = k, !.mode = mode,
                                   !.pc = pc]]
    BY <2>1, <2>3
  <2> QED BY <2>3, <2>4, <2>5
<1>2. CASE Replay(c)
  <2>1. PICK d \in RowsWithKey(call[c].key) :
          call' = [call EXCEPT ![c].pc = "answered", ![c].decision = rows[d].decision,
                               ![c].delivered = TRUE]
    BY <1>2 DEF Replay
  <2>2. rows[d].decision \in Decisions \cup {"NONE"}
    BY DEF TypeOK, Row, RowsWithKey
  <2> QED BY <2>1, <2>2, CallTyped DEF CallPc
<1>3. CASE EnsureSession(c)
  <2>1. "execute" \in CallPc /\ "assess" \in CallPc /\ "ALLOW" \in Decisions \cup {"NONE"}
    BY DEF CallPc, Decisions
  <2> QED BY <1>3, <2>1, CallTyped DEF EnsureSession
<1>4. CASE Assess(c)
  <2>1. PICK d \in Assessments :
          call' = [call EXCEPT ![c].pc = "policy", ![c].decision = ApplyMode(call[c].mode, d)]
    BY <1>4 DEF Assess
  <2>2. ApplyMode(call[c].mode, d) \in Decisions \cup {"NONE"} /\ "policy" \in CallPc
    BY DEF Assessments, ApplyMode, Decisions, CallPc
  <2> QED BY <2>1, <2>2, CallTyped
<1>5. CASE Execute(c)
  <2>1. PICK d \in {"ALLOW", "BLOCK"} :
          call' = [call EXCEPT ![c].pc = "record", ![c].result = ApplyMode(call[c].mode, d)]
    BY <1>5 DEF Execute
  <2>2. ApplyMode(call[c].mode, d) \in Decisions \cup {"NONE"} /\ "record" \in CallPc
    BY DEF ApplyMode, Decisions, CallPc
  <2> QED BY <2>1, <2>2, CallTyped
<1>6. CASE ToolRaises(c)
  <2>1. "error" \in CallPc /\ "REVIEW" \in Decisions \cup {"NONE"}
    BY DEF CallPc, Decisions
  <2> QED BY <1>6, <2>1, CallTyped DEF ToolRaises
<1>7. CASE CheckResult(c)
  <2>1. /\ "withhold" \in CallPc /\ "answered" \in CallPc
        /\ "BLOCK" \in Decisions \cup {"NONE"}
    BY DEF CallPc, Decisions
  <2> QED BY <1>7, <2>1, CallTyped DEF CheckResult
<1>8. ASSUME NEW pc \in CallPc, Goto(c, pc)
      PROVE  call' \in [Calls -> CallState]
  <2>1. "NONE" \in Decisions \cup {"NONE"} /\ TRUE \in BOOLEAN
    OBVIOUS
  <2> QED BY <1>8, <2>1, CallTyped DEF Goto
<1>9. CASE AddPolicyDecision(c) \/ AuditDecision(c) \/ RecordRefusal(c) \/ AddReviewItem(c)
  BY <1>8, <1>9 DEF AddPolicyDecision, AuditDecision, RecordRefusal, AddReviewItem, CallPc
<1>10. CASE UpdateSessionStatus(c) \/ AuditRuntimeError(c) \/ AddToolCall(c)
  BY <1>8, <1>10 DEF UpdateSessionStatus, AuditRuntimeError, AddToolCall, CallPc
<1>11. CASE AddToolCallConflict(c) \/ AuditWithheld(c) \/ Answered(c)
  BY <1>8, <1>11 DEF AddToolCallConflict, AuditWithheld, Answered, Ended, CallPc
<1>12. CASE AuditResponse(c) \/ CompleteStep(c) \/ Abort(c)
  BY <1>8, <1>12 DEF AuditResponse, CompleteStep, Abort, CallPc
<1>13. CASE ResolveReviewItem(c)
  BY <1>13 DEF ResolveReviewItem, TypeOK
<1>14. CASE CheckFinalResponse(c)
  <2>1. PICK d \in {"ALLOW", "BLOCK"} :
          call' = [call EXCEPT ![c].decision = ApplyMode(call[c].mode, d),
                     ![c].pc = IF ApplyMode(call[c].mode, d) = "BLOCK" THEN "response"
                               ELSE Ended(c),
                     ![c].delivered = call[c].by = "agent"]
    BY <1>14 DEF CheckFinalResponse
  <2> DEFINE decision == ApplyMode(call[c].mode, d)
             pc == IF decision = "BLOCK" THEN "response" ELSE Ended(c)
             agent == call[c].by = "agent"
  <2>2. decision \in Decisions \cup {"NONE"} /\ pc \in CallPc /\ agent \in BOOLEAN
    BY DEF ApplyMode, Decisions, Ended, CallPc
  <2>3. call' = [call EXCEPT ![c].pc = pc, ![c].decision = decision, ![c].delivered = agent]
    BY <2>1, Zenon
  <2> HIDE DEF decision, pc, agent
  <2> QED BY <2>2, <2>3, CallTyped
<1> QED BY <1>1, <1>2, <1>3, <1>4, <1>5, <1>6, <1>7, <1>9, <1>10, <1>11, <1>12, <1>13, <1>14 DEF Step

\* The types of the tables.
LEMMA TypeStep ==
    ASSUME TypeOK, NEW c \in Calls, CallInv(c), Step(c) \/ Abort(c) \/ ResolveReviewItem(c)
    PROVE  TypeOK'
<1>1. call' \in [Calls -> CallState]
  BY CallTypeStep
<1>2. /\ call[c].decision \in Decisions \cup {"NONE"} /\ call[c].result \in Decisions \cup {"NONE"}
      /\ call[c].key \in Keys \cup {NoKey}
  BY DEF TypeOK, CallState
<1>3. rows' \in [Calls -> Row]
  <2>1. CASE RecordRefusal(c)
    <3>1. [rows[c] EXCEPT !.decision = call[c].decision] \in Row
      BY <1>2 DEF TypeOK, Row
    <3>2. rows' = [rows EXCEPT ![c] = [rows[c] EXCEPT !.decision = call[c].decision]]
      BY <2>1 DEF RecordRefusal, TypeOK
    <3> QED BY <3>1, <3>2 DEF TypeOK
  <2>2. CASE AddToolCall(c)
    <3>1. [decision |-> call[c].result, key |-> IF Keyed(c) THEN call[c].key ELSE NoKey] \in Row
      BY <1>2 DEF Row
    <3> QED BY <2>2, <3>1 DEF AddToolCall, TypeOK
  <2>3. CASE UNCHANGED rows
    BY <2>3 DEF TypeOK
  <2> QED BY <2>1, <2>2, <2>3 DEF Step, CallTool, Replay, EnsureSession, Assess,
        AddPolicyDecision, AuditDecision, AddReviewItem, UpdateSessionStatus, Execute,
        ToolRaises, AuditRuntimeError, AddToolCallConflict, CheckResult, AuditWithheld,
        Answered, CheckFinalResponse, AuditResponse, CompleteStep, Abort,
        ResolveReviewItem
<1>4. policy' \in [Calls -> Decisions \cup {"NONE"}]
  <2>1. CASE AddPolicyDecision(c)
    BY <1>2, <2>1 DEF AddPolicyDecision, TypeOK
  <2>2. CASE UNCHANGED policy
    BY <2>2 DEF TypeOK
  <2> QED BY <2>1, <2>2 DEF Step, CallTool, Replay, EnsureSession, Assess,
        RecordRefusal, AuditDecision, AddReviewItem, UpdateSessionStatus, Execute,
        ToolRaises, AuditRuntimeError, AddToolCall, AddToolCallConflict, CheckResult,
        AuditWithheld, Answered, CheckFinalResponse, AuditResponse, CompleteStep, Abort,
        ResolveReviewItem
<1>5. audit' \in [Calls -> SUBSET Stages]
  <2>1. ASSUME NEW s \in Stages, audit' = [audit EXCEPT ![c] = @ \cup {s}]
        PROVE  audit' \in [Calls -> SUBSET Stages]
    BY <2>1 DEF TypeOK
  <2>2. CASE UNCHANGED audit
    BY <2>2 DEF TypeOK
  <2>3. CASE AuditDecision(c) \/ AuditRuntimeError(c)
    BY <2>1, <2>3 DEF AuditDecision, AuditRuntimeError, Stages
  <2>4. CASE AuditWithheld(c) \/ AuditResponse(c)
    BY <2>1, <2>4 DEF AuditWithheld, AuditResponse, Stages
  <2> QED BY <2>2, <2>3, <2>4 DEF Step, CallTool, Replay, EnsureSession, Assess,
        AddPolicyDecision, RecordRefusal, AddReviewItem, UpdateSessionStatus, Execute,
        ToolRaises, AddToolCall, AddToolCallConflict, CheckResult,
        Answered, CheckFinalResponse, AuditResponse, CompleteStep, Abort,
        ResolveReviewItem
<1>6. review' \in [Calls -> {"NONE", "PENDING", "RESOLVED"}]
  BY DEF TypeOK, Step, CallTool, Replay, EnsureSession, Assess, AddPolicyDecision,
        AuditDecision, RecordRefusal, AddReviewItem, UpdateSessionStatus, Execute,
        ToolRaises, AuditRuntimeError, AddToolCall, AddToolCallConflict, CheckResult,
        AuditWithheld, Answered, CheckFinalResponse, AuditResponse, CompleteStep, Abort,
        ResolveReviewItem
<1>7. session' \in {"NONE", "RUNNING", "COMPLETED", "REVIEW", "BLOCK"}
  BY DEF TypeOK, CallInv, Refused, At, Step, CallTool, Replay, EnsureSession, Assess,
        AddPolicyDecision, AuditDecision, RecordRefusal, AddReviewItem, UpdateSessionStatus,
        Execute, ToolRaises, AuditRuntimeError, AddToolCall, AddToolCallConflict, CheckResult,
        AuditWithheld, Answered, CheckFinalResponse, AuditResponse, CompleteStep, Abort,
        ResolveReviewItem
<1>8. effects' \in [Calls -> Nat]
  <2>1. CASE Execute(c)
    BY <2>1 DEF Execute, TypeOK
  <2>2. CASE UNCHANGED effects
    BY <2>2 DEF TypeOK
  <2> QED BY <2>1, <2>2 DEF Step, CallTool, Replay, EnsureSession, Assess,
        AddPolicyDecision, AuditDecision, RecordRefusal, AddReviewItem, UpdateSessionStatus,
        ToolRaises, AuditRuntimeError, AddToolCall, AddToolCallConflict, CheckResult,
        AuditWithheld, Answered, CheckFinalResponse, AuditResponse, CompleteStep, Abort,
        ResolveReviewItem
<1>9. met' \in [Calls -> SUBSET Calls]
  <2>1. CASE CallTool(c)
    BY <2>1 DEF CallTool, Meet, TypeOK
  <2>2. CASE UNCHANGED met
    BY <2>2 DEF TypeOK
  <2> QED BY <2>1, <2>2 DEF Step, Replay, EnsureSession, Assess, AddPolicyDecision,
        AuditDecision, RecordRefusal, AddReviewItem, UpdateSessionStatus, Execute,
        ToolRaises, AuditRuntimeError, AddToolCall, AddToolCallConflict, CheckResult,
        AuditWithheld, Answered, CheckFinalResponse, AuditResponse, CompleteStep, Abort,
        ResolveReviewItem
<1> QED BY <1>1, <1>3, <1>4, <1>5, <1>6, <1>7, <1>8, <1>9 DEF TypeOK

-----------------------------------------------------------------------------
\* The invariant of each call

\* What a change of place leaves of a call.
LEMMA GotoFacts ==
    ASSUME TypeOK, NEW c \in Calls, NEW pc, Goto(c, pc)
    PROVE  /\ call'[c].pc = pc
           /\ call'[c].tool = call[c].tool /\ call'[c].key = call[c].key
           /\ call'[c].mode = call[c].mode /\ call'[c].decision = call[c].decision
           /\ call'[c].result = call[c].result
  BY DEF TypeOK, CallState, Goto

LEMMA CallStep ==
    ASSUME TypeOK, NEW c \in Calls, CallInv(c), Step(c) \/ Abort(c) \/ ResolveReviewItem(c)
    PROVE  CallInv(c)'
<1> USE DEF CallInv, At, Before, After, Refused, Keyed, Allowed
<1>0. /\ call \in [Calls -> CallState] /\ call[c] \in CallState
      /\ rows \in [Calls -> Row] /\ policy \in [Calls -> Decisions \cup {"NONE"}]
      /\ audit \in [Calls -> SUBSET Stages] /\ effects \in [Calls -> Nat]
      /\ rows[c].key \in Keys \cup {NoKey} /\ rows[c].decision \in Decisions \cup {"NONE"}
  BY DEF TypeOK, Row
<1>1. CASE CallTool(c)
  <2>1. /\ At(c, "idle") /\ call'[c].pc \in {"replay", "session"}
        /\ UNCHANGED <<rows, policy, audit, effects>>
    BY <1>0, <1>1 DEF CallTool, CallState
  <2> QED BY <1>0, <2>1
<1>2. CASE Replay(c)
  <2>1. /\ At(c, "replay") /\ call'[c].pc = "answered" /\ call'[c].key = call[c].key
        /\ call'[c].tool = call[c].tool /\ call'[c].mode = call[c].mode
        /\ UNCHANGED <<rows, policy, audit, effects>>
    BY <1>0, <1>2 DEF Replay, CallState
  <2> QED BY <1>0, <2>1
<1>3. CASE EnsureSession(c)
  <2>1. /\ At(c, "session") /\ call'[c].pc \in {"execute", "assess"}
        /\ call'[c].pc = "execute" => call[c].mode = "disabled"
        /\ call'[c].key = call[c].key
        /\ call'[c].tool = call[c].tool /\ call'[c].mode = call[c].mode
        /\ UNCHANGED <<rows, policy, audit, effects>>
    BY <1>0, <1>3 DEF EnsureSession, CallState
  <2> QED BY <1>0, <2>1
<1>4. CASE Assess(c)
  <2>1. /\ At(c, "assess") /\ call'[c].pc = "policy" /\ call'[c].decision \in Decisions
        /\ call'[c].key = call[c].key
        /\ call'[c].tool = call[c].tool /\ call'[c].mode = call[c].mode
        /\ UNCHANGED <<rows, policy, audit, effects>>
    BY <1>0, <1>4 DEF Assess, Assessments, ApplyMode, Decisions, CallState
  <2> QED BY <1>0, <2>1
<1>5. CASE AddPolicyDecision(c)
  <2>1. At(c, "policy") /\ policy'[c] = call[c].decision /\ UNCHANGED <<rows, audit, effects>>
    BY <1>0, <1>5 DEF AddPolicyDecision
  <2>2. Goto(c, "audit")
    BY <1>5 DEF AddPolicyDecision
  <2> QED BY <1>0, <2>1, <2>2, GotoFacts
<1>6. CASE AuditDecision(c)
  <2>1. /\ At(c, "audit") /\ audit'[c] = audit[c] \cup {"pre_tool"}
        /\ UNCHANGED <<rows, policy, effects>>
    BY <1>0, <1>6 DEF AuditDecision
  <2>2. Goto(c, IF call[c].decision = "ALLOW" THEN "execute" ELSE "refuse")
    BY <1>6 DEF AuditDecision
  <2> QED BY <1>0, <2>1, <2>2, GotoFacts DEF Decisions
<1>7. CASE RecordRefusal(c)
  <2>1. /\ At(c, "refuse") /\ rows'[c].decision = call[c].decision /\ rows'[c].key = rows[c].key
        /\ UNCHANGED <<policy, audit, effects>>
    BY <1>0, <1>7 DEF RecordRefusal, Row
  <2>2. Goto(c, IF call[c].decision = "REVIEW" THEN "queue" ELSE "status")
    BY <1>7 DEF RecordRefusal
  <2> QED BY <1>0, <2>1, <2>2, GotoFacts
<1>8. CASE AddReviewItem(c)
  BY <1>0, <1>8, GotoFacts DEF AddReviewItem
<1>9. CASE UpdateSessionStatus(c)
  BY <1>0, <1>9, GotoFacts DEF UpdateSessionStatus
<1>10. CASE Execute(c)
  <2>1. /\ At(c, "execute") /\ call'[c].pc = "record" /\ call'[c].result \in Decisions
        /\ call'[c].key = call[c].key
        /\ call'[c].tool = call[c].tool /\ call'[c].mode = call[c].mode
        /\ UNCHANGED <<rows, policy, audit>>
    BY <1>0, <1>10 DEF Execute, ApplyMode, Decisions, CallState
  <2> QED BY <1>0, <2>1
<1>11. CASE ToolRaises(c)
  <2>1. /\ At(c, "execute") /\ call'[c].pc = "error" /\ call'[c].decision = "REVIEW"
        /\ call'[c].key = call[c].key
        /\ call'[c].tool = call[c].tool /\ call'[c].mode = call[c].mode
        /\ UNCHANGED <<rows, policy, audit, effects>>
    BY <1>0, <1>11 DEF ToolRaises, CallState
  <2> QED BY <1>0, <2>1
<1>12. CASE AuditRuntimeError(c)
  <2>1. /\ At(c, "error") /\ audit[c] \subseteq audit'[c]
        /\ UNCHANGED <<rows, policy, effects>>
    BY <1>0, <1>12 DEF AuditRuntimeError
  <2>2. Goto(c, "status")
    BY <1>12 DEF AuditRuntimeError
  <2> QED BY <1>0, <2>1, <2>2, GotoFacts
<1>13. CASE AddToolCall(c)
  <2>1. /\ At(c, "record") /\ rows'[c].decision = call[c].result
        /\ rows'[c].key = IF Keyed(c) THEN call[c].key ELSE NoKey
        /\ UNCHANGED <<policy, audit, effects>>
    BY <1>0, <1>13 DEF AddToolCall
  <2>2. Goto(c, "result")
    BY <1>13 DEF AddToolCall
  <2> QED BY <1>0, <2>1, <2>2, GotoFacts DEF Decisions
<1>14. CASE AddToolCallConflict(c)
  BY <1>0, <1>14, GotoFacts DEF AddToolCallConflict
<1>15. CASE CheckResult(c)
  <2>1. /\ At(c, "result") /\ call'[c].pc \in {"withhold", "answered"}
        /\ call'[c].pc = "withhold" => call'[c].decision = "BLOCK"
        /\ call'[c].key = call[c].key
        /\ call'[c].tool = call[c].tool /\ call'[c].mode = call[c].mode
        /\ UNCHANGED <<rows, policy, audit, effects>>
    BY <1>0, <1>15 DEF CheckResult, CallState
  <2> QED BY <1>0, <2>1
<1>16. CASE AuditWithheld(c)
  <2>1. /\ At(c, "withhold") /\ audit[c] \subseteq audit'[c]
        /\ UNCHANGED <<rows, policy, effects>>
    BY <1>0, <1>16 DEF AuditWithheld
  <2>2. Goto(c, "status")
    BY <1>16 DEF AuditWithheld
  <2> QED BY <1>0, <2>1, <2>2, GotoFacts
<1>17. CASE Answered(c)
  <2>1. At(c, "answered") /\ UNCHANGED <<rows, policy, audit, effects>>
    BY <1>17 DEF Answered
  <2>2. PICK pc \in {"respond", "complete", "done"} : Goto(c, pc)
    BY <1>17 DEF Answered, Ended
  <2> QED BY <1>0, <2>1, <2>2, GotoFacts
<1>18. CASE CheckFinalResponse(c)
  <2>1. /\ At(c, "respond") /\ call'[c].pc \in {"response", "complete", "done"}
        /\ call'[c].pc = "response" => call'[c].decision = "BLOCK"
        /\ call'[c].key = call[c].key
        /\ call'[c].tool = call[c].tool /\ call'[c].mode = call[c].mode
        /\ UNCHANGED <<rows, policy, audit, effects>>
    BY <1>0, <1>18 DEF CheckFinalResponse, Ended, CallState
  <2> QED BY <1>0, <2>1
<1>19. CASE CompleteStep(c)
  BY <1>0, <1>19, GotoFacts DEF CompleteStep
<1>20. CASE Abort(c)
  <2>1. UNCHANGED <<rows, policy, audit, effects>>
    BY <1>20 DEF Abort
  <2>2. PICK pc \in {"died", "lost"} : Goto(c, pc)
    BY <1>20 DEF Abort
  <2> QED BY <1>0, <2>1, <2>2, GotoFacts
<1>21. CASE ResolveReviewItem(c)
  BY <1>21 DEF ResolveReviewItem
<1>22. CASE AuditResponse(c)
  <2>1. /\ At(c, "response") /\ audit[c] \subseteq audit'[c]
        /\ UNCHANGED <<rows, policy, effects>>
    BY <1>0, <1>22 DEF AuditResponse
  <2>2. Goto(c, "status")
    BY <1>22 DEF AuditResponse
  <2> QED BY <1>0, <2>1, <2>2, GotoFacts
<1> QED BY <1>1, <1>2, <1>3, <1>4, <1>5, <1>6, <1>7, <1>8, <1>9, <1>10, <1>11, <1>12, <1>13,
          <1>14, <1>15, <1>16, <1>17, <1>18, <1>19, <1>20, <1>21, <1>22 DEF Step

-----------------------------------------------------------------------------
\* The invariant

LEMMA InvInit == Init => Inv
  BY DEF Init, Inv, TypeOK, CallInv, KeysUnique, CallState, Row, CallPc, Before, After,
         Refused, At, Keyed, Modes, Tools, Stages

\* Only the row of an executed call carries a key, and the index keeps it unique.
LEMMA KeysStep ==
    ASSUME TypeOK, KeysUnique, NEW c \in Calls, \A d \in Calls : CallInv(d),
           Others(c), Step(c) \/ Abort(c) \/ ResolveReviewItem(c)
    PROVE  KeysUnique'
<1>1. CASE AddToolCall(c)
  <2>1. rows'[c].key = IF Keyed(c) THEN call[c].key ELSE NoKey
    BY <1>1 DEF AddToolCall, TypeOK
  <2>2. rows'[c].key # NoKey => \A d \in Calls : rows[d].key = rows'[c].key => rows[d].decision = "NONE"
    BY <1>1, <2>1 DEF AddToolCall, RowsWithKey
  <2> QED BY <2>1, <2>2 DEF KeysUnique, Others, CallInv
<1>2. CASE ~AddToolCall(c)
  <2>1. rows'[c].key = rows[c].key
    <3>1. CASE RecordRefusal(c)
      BY <3>1 DEF RecordRefusal, TypeOK, Row
    <3>2. CASE ~RecordRefusal(c)
      <4>1. rows' = rows
        BY <1>2, <3>2 DEF Step, CallTool, Replay, EnsureSession, Assess,
            AddPolicyDecision, AuditDecision, AddReviewItem, UpdateSessionStatus,
            Execute, ToolRaises, AuditRuntimeError, AddToolCallConflict, CheckResult,
            AuditWithheld, Answered, CheckFinalResponse, AuditResponse, CompleteStep, Abort,
            ResolveReviewItem
      <4> QED BY <4>1
    <3> QED BY <3>1, <3>2
  <2> QED BY <2>1 DEF KeysUnique, Others
<1> QED BY <1>1, <1>2

LEMMA InvStep == Inv /\ [Next]_vars => Inv'
<1> SUFFICES ASSUME Inv, [Next]_vars
             PROVE  Inv'
  OBVIOUS
<1>1. CASE UNCHANGED vars
  BY <1>1 DEF vars, Inv, TypeOK, CallInv, KeysUnique, At, Keyed, Allowed
<1>2. ASSUME NEW c \in Calls, Step(c) \/ Abort(c) \/ ResolveReviewItem(c)
      PROVE  Inv'
  <2>1. TypeOK /\ (\A d \in Calls : CallInv(d)) /\ KeysUnique
    BY DEF Inv
  <2>2. Others(c)
    BY <1>2, <2>1, Locality
  <2>3. TypeOK' /\ CallInv(c)' /\ KeysUnique'
    BY <1>2, <2>1, <2>2, TypeStep, CallStep, KeysStep
  <2>4. ASSUME NEW d \in Calls, d # c
        PROVE  CallInv(d)'
    BY <2>2, <2>4 DEF Inv, Others, CallInv, At, Keyed, Allowed
  <2> QED BY <2>3, <2>4 DEF Inv
<1> QED BY <1>1, <1>2 DEF Next

\* The invariant holds however many calls there are and however they overlap.
THEOREM ToolCallInvariance == Spec => []Inv
  BY InvInit, InvStep, PTL DEF Spec

\* Every field of every table keeps its type; a session takes only decisions that
\* refuse.
THEOREM ToolCallTypes == Spec => []TypeOK
<1>1. Inv => TypeOK
  BY DEF Inv
<1> QED BY <1>1, ToolCallInvariance, PTL

\* Whatever overlaps or dies, a tool commits only after its call was allowed and
\* audited.
THEOREM EffectsAreAudited == Spec => []AuditedBeforeEffect
<1>1. Inv => AuditedBeforeEffect
  BY DEF Inv, CallInv, Allowed, AuditedBeforeEffect
<1> QED BY <1>1, ToolCallInvariance, PTL

\* A call that ends normally has recorded what it executed.
THEOREM EffectsRecorded == Spec => []EffectsAreRecorded
<1>1. Inv => EffectsAreRecorded
  BY DEF Inv, CallInv, EffectsAreRecorded, At, After
<1> QED BY <1>1, ToolCallInvariance, PTL

\* Of the calls with one key that end normally, one has executed the tool.
THEOREM OneExecutionAnswered == Spec => []OneAnsweredExecution
<1>1. Inv => OneAnsweredExecution
  BY DEF Inv, CallInv, KeysUnique, OneAnsweredExecution, At, After, Keyed
<1> QED BY <1>1, ToolCallInvariance, PTL

-----------------------------------------------------------------------------
\* Calls that overlap

\* A call in one of these places is about to execute its tool, or just has.
Executing == {"session", "assess", "policy", "audit", "execute", "record"}

SameKey(c, d) == Keyed(c) /\ Keyed(d) /\ call[c].key = call[d].key

MetEachOther ==
    \A c, d \in Calls :
        /\ d \in met[c] => c \in met[d]
        /\ c # d /\ Active(c) /\ Active(d) => d \in met[c]

\* Who executed with a key is about to record it, has lost it, or the key is taken.
KeyTaken ==
    \A c \in Calls : Keyed(c) /\ effects[c] > 0 =>
        At(c, "record") \/ At(c, "lost") \/ RowsWithKey(call[c].key) # {}

\* Who is about to execute with a key overlapped with all who did.
ExecutedMet ==
    \A c, d \in Calls :
        c # d /\ SameKey(c, d) /\ effects[c] > 0 /\ call[d].pc \in Executing
        => c \in met[d] \/ At(c, "lost")

\* What is about to execute was allowed before the failures reached the limit.
Cleared(c) ==
    At(c, "execute") \/ (call[c].pc \in {"policy", "audit"} /\ call[c].decision = "ALLOW")

AllowedInTime ==
    \A c \in Calls : Cleared(c) =>
        call[c].mode = "disabled" \/ Cardinality(FailedCalls \ met[c]) < FailureLimit

MetInv == MetEachOther /\ KeyTaken /\ ExecutedMet /\ KeyExecutesOnce /\ AllowedInTime

LEMMA MetInit == Init => MetInv
  BY DEF Init, MetInv, MetEachOther, KeyTaken, ExecutedMet, KeyExecutesOnce, AllowedInTime,
         Cleared, Active, Over, At, Executing

\* Whoever steps is under way or begins.
LEMMA Stepping ==
    ASSUME NEW c \in Calls, Step(c) \/ Abort(c), ~CallTool(c)
    PROVE  Active(c) /\ ~At(c, "lost") /\ met' = met
  BY DEF Step, Replay, EnsureSession, Assess, AddPolicyDecision, AuditDecision,
     RecordRefusal, AddReviewItem, UpdateSessionStatus, Execute, ToolRaises,
     AuditRuntimeError, AddToolCall, AddToolCallConflict, CheckResult, AuditWithheld,
     Answered, CheckFinalResponse, AuditResponse, CompleteStep, Abort, Active, Over, At

\* A step and the rows: only AddToolCall gives a row a key, and only a refusal
\* or an execution adds one.
LEMMA RowsStep ==
    ASSUME Inv, NEW c \in Calls, Step(c) \/ Abort(c), ~AddToolCall(c)
    PROVE  /\ \A k \in Keys : RowsWithKey(k)' = RowsWithKey(k)
           /\ ~RecordRefusal(c) => FailedCalls' = FailedCalls
<1>1. CASE RecordRefusal(c)
  <2>1. \A d \in Calls : rows'[d].key = rows[d].key /\ (d # c => rows'[d] = rows[d])
    BY <1>1 DEF RecordRefusal, Inv, TypeOK, Row
  <2>2. rows'[c].decision # "NONE"
    <3>1. rows'[c].decision = call[c].decision /\ call[c].decision # "NONE"
      BY <1>1 DEF RecordRefusal, Inv, TypeOK, Row, CallInv, Refused, At
    <3> QED BY <3>1
  <2>3. rows[c].key # NoKey => rows[c].decision # "NONE"
    BY DEF Inv, CallInv
  <2> QED BY <1>1, <2>1, <2>2, <2>3, ToolCallAssumption DEF RowsWithKey
<1>2. CASE ~RecordRefusal(c)
  <2>1. rows' = rows
    BY <1>2 DEF Step, CallTool, Replay, EnsureSession, Assess, AddPolicyDecision,
        AuditDecision, AddReviewItem, UpdateSessionStatus, Execute, ToolRaises,
        AuditRuntimeError, AddToolCallConflict, CheckResult, AuditWithheld, Answered,
        CheckFinalResponse, AuditResponse, CompleteStep, Abort
  <2> QED BY <2>1 DEF RowsWithKey, FailedCalls
<1> QED BY <1>1, <1>2

\* How a call gets to a place where it executes.
LEMMA ExecutingStep ==
    ASSUME Inv, NEW c \in Calls, Step(c) \/ Abort(c), ~CallTool(c), call'[c].pc \in Executing
    PROVE  /\ call[c].pc \in Executing /\ ~AddToolCall(c)
           /\ call'[c].key = call[c].key /\ call'[c].tool = call[c].tool
<1> USE DEF Inv, TypeOK, CallState, Executing, At, Goto
<1>1. CASE EnsureSession(c) \/ Assess(c) \/ AddPolicyDecision(c) \/ AuditDecision(c) \/ Execute(c)
  BY <1>1 DEF EnsureSession, Assess, AddPolicyDecision, AuditDecision, Execute, AddToolCall
<1>2. CASE Replay(c)
  <2>1. call'[c].pc = "answered"
    BY <1>2 DEF Replay
  <2> QED BY <2>1
<1>6. CASE RecordRefusal(c) \/ AddReviewItem(c) \/ UpdateSessionStatus(c)
  BY <1>6 DEF RecordRefusal, AddReviewItem, UpdateSessionStatus
<1>3. CASE ToolRaises(c) \/ AuditRuntimeError(c) \/ AddToolCall(c) \/ AddToolCallConflict(c)
  BY <1>3 DEF ToolRaises, AuditRuntimeError, AddToolCall, AddToolCallConflict
<1>4. CASE CheckResult(c) \/ AuditWithheld(c) \/ Answered(c) \/ CheckFinalResponse(c)
  BY <1>4 DEF CheckResult, AuditWithheld, Answered, CheckFinalResponse, Ended
<1>5. CASE AuditResponse(c) \/ CompleteStep(c) \/ Abort(c)
  BY <1>5 DEF AuditResponse, CompleteStep, Abort
<1> QED BY <1>1, <1>2, <1>3, <1>4, <1>5, <1>6 DEF Step

\* After its request a call keeps tool, key and mode.
LEMMA KeptFields ==
    ASSUME Inv, NEW c \in Calls, Step(c) \/ Abort(c), ~At(c, "idle")
    PROVE  /\ call'[c].key = call[c].key /\ call'[c].tool = call[c].tool
           /\ call'[c].mode = call[c].mode /\ call'[c].by = call[c].by
           /\ call'[c].pc # "idle"
<1> USE DEF Inv, TypeOK, CallState, At, Goto
<1>1. CASE EnsureSession(c) \/ Assess(c) \/ AddPolicyDecision(c) \/ AuditDecision(c) \/ Execute(c)
  BY <1>1 DEF EnsureSession, Assess, AddPolicyDecision, AuditDecision, Execute
<1>2. CASE Replay(c)
  BY <1>2 DEF Replay
<1>3. CASE RecordRefusal(c) \/ AddReviewItem(c) \/ UpdateSessionStatus(c) \/ ToolRaises(c)
  BY <1>3 DEF RecordRefusal, AddReviewItem, UpdateSessionStatus, ToolRaises
<1>4. CASE AuditRuntimeError(c) \/ AddToolCall(c) \/ AddToolCallConflict(c) \/ CheckResult(c)
  BY <1>4 DEF AuditRuntimeError, AddToolCall, AddToolCallConflict, CheckResult
<1>5. CASE AuditWithheld(c) \/ Answered(c) \/ CheckFinalResponse(c)
  BY <1>5 DEF AuditWithheld, Answered, CheckFinalResponse, Ended
<1>6. CASE AuditResponse(c) \/ CompleteStep(c) \/ Abort(c)
  BY <1>6 DEF AuditResponse, CompleteStep, Abort
<1>7. CASE CallTool(c)
  BY <1>7 DEF CallTool
<1> QED BY <1>1, <1>2, <1>3, <1>4, <1>5, <1>6, <1>7 DEF Step

\* A key that is taken stays taken.
LEMMA RowsGrow ==
    ASSUME Inv, NEW c \in Calls, Step(c) \/ Abort(c), NEW k \in Keys,
           RowsWithKey(k) # {}
    PROVE  RowsWithKey(k)' # {}
<1>1. CASE ~AddToolCall(c)
  BY <1>1, RowsStep
<1>2. CASE AddToolCall(c)
  <2>1. PICK d \in RowsWithKey(k) : TRUE
    OBVIOUS
  <2>2. CASE d # c
    <3>1. rows'[d] = rows[d]
      BY <1>2, <2>2 DEF AddToolCall, Inv, TypeOK, RowsWithKey
    <3> QED BY <3>1 DEF RowsWithKey
  <2>3. CASE d = c
    <3>1. Keyed(c) /\ call[c].key = k
      BY <2>3, ToolCallAssumption DEF RowsWithKey, Inv, CallInv
    <3> QED BY <1>2, <3>1 DEF AddToolCall
  <2> QED BY <2>2, <2>3
<1> QED BY <1>1, <1>2

LEMMA MetStep ==
    ASSUME Inv, MetInv, NEW c \in Calls, Step(c) \/ Abort(c), Others(c)
    PROVE  /\ MetEachOther' /\ \A d \in Calls : met[d] \subseteq met'[d]
           /\ CallTool(c) => \A d \in Calls : d # c /\ Active(d) => d \in met'[c]
<1>1. CASE CallTool(c)
  <2>1. \A d \in Calls : met'[d] = IF d = c THEN met[c] \cup {e \in Calls : Active(e)}
                               ELSE IF Active(d) THEN met[d] \cup {c} ELSE met[d]
    BY <1>1 DEF CallTool, Meet
  <2>2. \A d \in Calls : d # c => (Active(d)' <=> Active(d))
    BY DEF Others, Active, Over, At
  <2>3. ~Active(c)
    BY <1>1 DEF CallTool, Active
  <2>4. \A d, e \in Calls : d \in met[e] => e \in met[d]
    BY DEF MetInv, MetEachOther
  <2>5. \A d, e \in Calls : d \in met'[e] => e \in met'[d]
    <3>1. \A e \in Calls : e # c => (c \in met'[e] <=> c \in met[e] \/ Active(e))
      BY <2>1
    <3>2. \A e \in Calls : e \in met'[c] <=> e \in met[c] \/ Active(e)
      BY <2>1
    <3>3. \A d, e \in Calls : d # c /\ e # c => (d \in met'[e] <=> d \in met[e])
      BY <2>1
    <3> QED BY <2>4, <3>1, <3>2, <3>3
  <2>6. \A d, e \in Calls : d # e /\ Active(d)' /\ Active(e)' => d \in met'[e]
    BY <2>1, <2>2, <2>5 DEF MetInv, MetEachOther
  <2> QED BY <2>1, <2>5, <2>6 DEF MetEachOther
<1>2. CASE ~CallTool(c)
  <2>1. Active(c) /\ met' = met
    BY <1>2, Stepping
  <2>2. \A d \in Calls : Active(d)' => Active(d)
    BY <2>1 DEF Others, Active, Over, At
  <2> QED BY <1>2, <2>1, <2>2 DEF MetInv, MetEachOther
<1> QED BY <1>1, <1>2

LEMMA KeyTakenStep ==
    ASSUME Inv, MetInv, NEW c \in Calls, Step(c) \/ Abort(c), Others(c)
    PROVE  KeyTaken'
<1>1. ASSUME NEW d \in Calls, d # c, Keyed(d)', effects'[d] > 0
      PROVE  At(d, "record")' \/ At(d, "lost")' \/ RowsWithKey(call[d].key)' # {}
  <2>1. call'[d] = call[d] /\ effects'[d] = effects[d]
    BY <1>1 DEF Others
  <2>2. call[d].key \in Keys
    BY <1>1, <2>1 DEF Keyed, Inv, TypeOK, CallState
  <2>3. At(d, "record") \/ At(d, "lost") \/ RowsWithKey(call[d].key) # {}
    BY <1>1, <2>1 DEF MetInv, KeyTaken, Keyed
  <2>4. RowsWithKey(call[d].key) # {} => {e \in Calls : rows'[e].decision # "NONE" /\ rows'[e].key = call[d].key} # {}
    BY <2>2, RowsGrow DEF RowsWithKey
  <2> QED BY <2>1, <2>3, <2>4 DEF At, RowsWithKey
<1>2. ASSUME Keyed(c)', effects'[c] > 0
      PROVE  At(c, "record")' \/ At(c, "lost")' \/ RowsWithKey(call[c].key)' # {}
  <2>1. CASE Execute(c)
    BY <2>1 DEF Execute, At, Inv, TypeOK, CallState
  <2>2. CASE ~Execute(c)
    <3>1. effects'[c] = effects[c]
      BY <2>2 DEF Step, CallTool, Replay, EnsureSession, Assess, AddPolicyDecision,
         AuditDecision, RecordRefusal, AddReviewItem, UpdateSessionStatus, ToolRaises,
         AuditRuntimeError, AddToolCall, AddToolCallConflict, CheckResult, AuditWithheld,
         Answered, CheckFinalResponse, AuditResponse, CompleteStep, Abort
    <3>2. ~At(c, "idle")
      BY <1>2, <3>1 DEF Inv, CallInv, Before, At
    <3>3. call'[c].key = call[c].key /\ call'[c].tool = call[c].tool
      BY <3>2, KeptFields
    <3>4. Keyed(c) /\ call[c].key \in Keys
      BY <1>2, <3>3 DEF Keyed, Inv, TypeOK, CallState
    <3>5. At(c, "record") \/ RowsWithKey(call[c].key) # {}
      <4>1. ~At(c, "lost")
        BY <3>2, Stepping DEF CallTool
      <4> QED BY <1>2, <3>1, <3>4, <4>1 DEF MetInv, KeyTaken
    <3>6. CASE RowsWithKey(call[c].key) # {}
      BY <3>3, <3>4, <3>6, RowsGrow DEF RowsWithKey
    <3>7. CASE AddToolCall(c)
      <4>1. rows'[c].key = call[c].key /\ rows'[c].decision = call[c].result
        BY <3>4, <3>7 DEF AddToolCall, Inv, TypeOK
      <4>2. call[c].result \in Decisions
        BY <3>7 DEF AddToolCall, At, Inv, CallInv
      <4>3. rows'[c].decision # "NONE"
        BY <4>1, <4>2 DEF Decisions
      <4> QED BY <3>3, <4>1, <4>3 DEF RowsWithKey
    <3>8. CASE At(c, "record") /\ ~AddToolCall(c) /\ RowsWithKey(call[c].key) = {}
      <4>1. Abort(c)
        BY <2>2, <3>8 DEF At, Step, CallTool, Replay, EnsureSession, Assess,
           AddPolicyDecision, AuditDecision, RecordRefusal, AddReviewItem,
           UpdateSessionStatus, ToolRaises, AuditRuntimeError, AddToolCallConflict,
           CheckResult, AuditWithheld, Answered, CheckFinalResponse, AuditResponse,
           CompleteStep
      <4>2. call'[c].pc = "lost"
        BY <3>8, <4>1 DEF Abort, Goto, At, Inv, TypeOK, CallState
      <4> QED BY <4>2 DEF At
    <3> QED BY <3>5, <3>6, <3>7, <3>8
  <2> QED BY <2>1, <2>2
<1> QED BY <1>1, <1>2 DEF KeyTaken

\* Who executed before a step, keeps its key through it, and is not in the middle of it lost.
LEMMA Executed ==
    ASSUME Inv, NEW c \in Calls, Step(c) \/ Abort(c), Others(c),
           NEW d \in Calls, effects[d] > 0
    PROVE  /\ call'[d].key = call[d].key /\ call'[d].tool = call[d].tool
           /\ At(d, "lost") => At(d, "lost")'
<1>1. CASE d # c
  BY <1>1 DEF Others, At
<1>2. CASE d = c
  <2>1. ~At(c, "idle")
    BY <1>2 DEF Inv, CallInv, Before, At
  <2>2. ~CallTool(c)
    BY <2>1 DEF CallTool
  <2> QED BY <1>2, <2>1, <2>2, KeptFields, Stepping
<1> QED BY <1>1, <1>2

\* Only Execute lets a call execute.
LEMMA NewEffect ==
    ASSUME Inv, NEW c \in Calls, Step(c) \/ Abort(c), Others(c),
           NEW d \in Calls, effects'[d] > 0, ~(effects[d] > 0)
    PROVE  d = c /\ Execute(c)
<1>1. d = c
  BY DEF Others
<1>2. ~Execute(c) => effects' = effects
  BY DEF Step, CallTool, Replay, EnsureSession, Assess, AddPolicyDecision,
     AuditDecision, RecordRefusal, AddReviewItem, UpdateSessionStatus, ToolRaises,
     AuditRuntimeError, AddToolCall, AddToolCallConflict, CheckResult, AuditWithheld,
     Answered, CheckFinalResponse, AuditResponse, CompleteStep, Abort
<1> QED BY <1>1, <1>2

LEMMA ExecutedMetStep ==
    ASSUME Inv, MetInv, NEW c \in Calls, Step(c) \/ Abort(c), Others(c)
    PROVE  ExecutedMet'
<1> SUFFICES ASSUME NEW x \in Calls, NEW y \in Calls, x # y, SameKey(x, y)',
                    effects'[x] > 0, call'[y].pc \in Executing
             PROVE  x \in met'[y] \/ At(x, "lost")'
  BY DEF ExecutedMet
<1>1. met[y] \subseteq met'[y]
  BY MetStep
<1>2. CASE y = c /\ CallTool(c)
  <2>1. call'[x] = call[x] /\ effects'[x] = effects[x]
    BY <1>2 DEF Others
  <2>2. Keyed(x) /\ RowsWithKey(call[x].key) = {}
    <3>1. PICK by \in Callers, tool \in Tools, k \in Keys \cup {NoKey}, mode \in Modes :
            /\ SessionOpenTo(by)
            /\ k # NoKey => by = "gateway"
            /\ call' = [call EXCEPT ![c].by = by, ![c].tool = tool, ![c].key = k,
                          ![c].mode = mode,
                          ![c].pc = IF tool = "write" /\ k # NoKey /\ RowsWithKey(k) # {}
                                    THEN "replay" ELSE "session"]
      BY <1>2, Zenon DEF CallTool
    <3>2. /\ call'[c].key = k /\ call'[c].tool = tool
          /\ call'[c].pc = IF tool = "write" /\ k # NoKey /\ RowsWithKey(k) # {}
                           THEN "replay" ELSE "session"
      BY <3>1 DEF Inv, TypeOK, CallState
    <3>3. tool = "write" /\ k # NoKey /\ call[x].key = k /\ Keyed(x)
      BY <1>2, <2>1, <3>2 DEF SameKey, Keyed
    <3> QED BY <1>2, <3>2, <3>3 DEF Executing
  <2>3. At(x, "record") \/ At(x, "lost")
    BY <2>1, <2>2 DEF MetInv, KeyTaken
  <2>4. At(x, "record") => x \in met'[c]
    BY <1>2, MetStep DEF Active, Over, At
  <2> QED BY <1>2, <2>1, <2>3, <2>4 DEF At
<1>3. CASE ~(y = c /\ CallTool(c))
  <2>1. /\ call[y].pc \in Executing
        /\ call'[y].key = call[y].key /\ call'[y].tool = call[y].tool
    <3>1. CASE y = c
      BY <1>3, <3>1, ExecutingStep
    <3>2. CASE y # c
      BY <3>2 DEF Others
    <3> QED BY <3>1, <3>2
  <2>2. CASE effects[x] > 0
    <3>1. /\ call'[x].key = call[x].key /\ call'[x].tool = call[x].tool
          /\ At(x, "lost") => At(x, "lost")'
      BY <2>2, Executed
    <3>2. SameKey(x, y)
      BY <2>1, <3>1 DEF SameKey, Keyed
    <3> QED BY <1>1, <2>1, <2>2, <3>1, <3>2 DEF MetInv, ExecutedMet
  <2>3. CASE ~(effects[x] > 0)
    <3>1. x = c /\ Execute(c)
      BY <2>3, NewEffect
    <3>2. Active(x) /\ Active(y)
      BY <2>1, <3>1 DEF Execute, Active, Over, At, Executing
    <3> QED BY <1>1, <3>2 DEF MetInv, MetEachOther
  <2> QED BY <2>2, <2>3
<1> QED BY <1>2, <1>3

LEMMA KeyStep ==
    ASSUME Inv, MetInv, NEW c \in Calls, Step(c) \/ Abort(c), Others(c)
    PROVE  KeyExecutesOnce'
<1> SUFFICES ASSUME NEW x \in Calls, NEW y \in Calls, x # y, SameKey(x, y)',
                    effects'[x] > 0, effects'[y] > 0
             PROVE  y \in met'[x] \/ At(x, "lost")' \/ At(y, "lost")'
  BY DEF KeyExecutesOnce, SameKey
<1>1. /\ met[x] \subseteq met'[x]
      /\ \A d, e \in Calls : d \in met'[e] => e \in met'[d]
  BY MetStep DEF MetEachOther
<1>2. CASE effects[x] > 0 /\ effects[y] > 0
  <2>1. /\ call'[x].key = call[x].key /\ call'[x].tool = call[x].tool
        /\ At(x, "lost") => At(x, "lost")'
    BY <1>2, Executed
  <2>2. /\ call'[y].key = call[y].key /\ call'[y].tool = call[y].tool
        /\ At(y, "lost") => At(y, "lost")'
    BY <1>2, Executed
  <2>3. SameKey(x, y)
    BY <2>1, <2>2 DEF SameKey, Keyed
  <2> QED BY <1>1, <1>2, <2>1, <2>2, <2>3 DEF MetInv, KeyExecutesOnce, SameKey
<1>3. ASSUME NEW d \in Calls, NEW e \in Calls, d # e, SameKey(d, e)', effects'[d] > 0,
             effects'[e] > 0, ~(effects[e] > 0)
      PROVE  d \in met'[e] \/ At(d, "lost")'
  <2>1. e = c /\ Execute(c)
    BY <1>3, NewEffect
  <2>2. call'[e].pc \in Executing
    BY <2>1 DEF Execute, Executing, Inv, TypeOK, CallState
  <2> QED BY <1>3, <2>2, ExecutedMetStep DEF ExecutedMet
<1> QED BY <1>1, <1>2, <1>3 DEF SameKey

\* The failures a call is judged by stay those from before it began.
LEMMA EarlierFailures ==
    ASSUME Inv, MetInv, NEW c \in Calls, Step(c) \/ Abort(c), Others(c),
           NEW d \in Calls, d # c, Active(d)
    PROVE  (FailedCalls \ met[d])' = FailedCalls \ met[d]
<1>1. CASE CallTool(c)
  <2>1. c \notin FailedCalls /\ FailedCalls' = FailedCalls
    BY <1>1 DEF CallTool, FailedCalls, Inv, CallInv, At
  <2>2. met'[d] = met[d] \cup {c}
    BY <1>1 DEF CallTool, Meet
  <2> QED BY <2>1, <2>2
<1>2. CASE ~CallTool(c)
  <2>1. Active(c) /\ met' = met
    BY <1>2, Stepping
  <2>2. c \in met[d]
    BY <2>1 DEF MetInv, MetEachOther
  <2>3. \A e \in Calls : e # c => rows'[e] = rows[e]
    BY DEF Others
  <2> QED BY <2>1, <2>2, <2>3 DEF FailedCalls
<1> QED BY <1>1, <1>2

LEMMA AllowedInTimeStep ==
    ASSUME Inv, MetInv, NEW c \in Calls, Step(c) \/ Abort(c), Others(c)
    PROVE  AllowedInTime'
<1> DEFINE InTime(d) == Cardinality(FailedCalls \ met[d]) < FailureLimit
<1>1. ASSUME NEW d \in Calls, d # c, Cleared(d)'
      PROVE  (call[d].mode = "disabled" \/ InTime(d))'
  <2>1. call'[d] = call[d]
    BY <1>1 DEF Others
  <2>2. Cleared(d) /\ Active(d)
    BY <1>1, <2>1 DEF Cleared, At, Active, Over
  <2>3. (FailedCalls \ met[d])' = FailedCalls \ met[d]
    BY <1>1, <2>2, EarlierFailures
  <2>4. call[d].mode = "disabled" \/ InTime(d)
    BY <2>2 DEF MetInv, AllowedInTime
  <2>5. InTime(d) => InTime(d)'
    BY <2>3
  <2> QED BY <2>1, <2>4, <2>5
<1>2. ASSUME Cleared(c)'
      PROVE  (call[c].mode = "disabled" \/ InTime(c))'
  <2>1. CASE EnsureSession(c)
    BY <1>2, <2>1 DEF EnsureSession, Cleared, At, Inv, TypeOK, CallState
  <2>2. CASE Assess(c)
    <3>1. PICK d \in Assessments :
            call' = [call EXCEPT ![c].pc = "policy", ![c].decision = ApplyMode(call[c].mode, d)]
      BY <2>2 DEF Assess
    <3>2. call'[c].decision = ApplyMode(call[c].mode, d) /\ call'[c].pc = "policy"
      BY <3>1 DEF Inv, TypeOK, CallState
    <3>3. d = "ALLOW"
      BY <1>2, <3>2 DEF Cleared, At, ApplyMode
    <3>4. ~(Cardinality(FailedCalls) >= FailureLimit)
      BY <3>3 DEF Assessments
    <3>5. IsFiniteSet(FailedCalls)
      BY ToolCallAssumption, FS_Subset DEF FailedCalls
    <3>6. /\ Cardinality(FailedCalls \ met[c]) <= Cardinality(FailedCalls)
          /\ Cardinality(FailedCalls) \in Nat /\ Cardinality(FailedCalls \ met[c]) \in Nat
      <4>1. FailedCalls \ met[c] \in SUBSET FailedCalls
        OBVIOUS
      <4>2. IsFiniteSet(FailedCalls \ met[c])
        BY <3>5, <4>1, FS_Subset
      <4> QED BY <3>5, <4>1, <4>2, FS_Subset, FS_CardinalityType
    <3>7. InTime(c)
      BY <3>4, <3>6, ToolCallAssumption
    <3>8. (FailedCalls \ met[c])' = FailedCalls \ met[c]
      BY <2>2 DEF Assess, FailedCalls
    <3> QED BY <3>7, <3>8
  <2>3. CASE AddPolicyDecision(c) \/ AuditDecision(c)
    <3>1. Cleared(c) /\ call'[c].mode = call[c].mode
      BY <1>2, <2>3 DEF AddPolicyDecision, AuditDecision, Goto, At, Cleared, Inv, TypeOK,
         CallState
    <3>2. (FailedCalls \ met[c])' = FailedCalls \ met[c]
      BY <2>3 DEF AddPolicyDecision, AuditDecision, FailedCalls
    <3>3. call[c].mode = "disabled" \/ InTime(c)
      BY <3>1 DEF MetInv, AllowedInTime
    <3>4. InTime(c) => InTime(c)'
      BY <3>2
    <3> QED BY <3>1, <3>3, <3>4
  <2>4. CASE ~EnsureSession(c) /\ ~Assess(c) /\ ~AddPolicyDecision(c) /\ ~AuditDecision(c)
    <3>1. call'[c].pc \in {"policy", "audit", "execute"}
      BY <1>2 DEF Cleared, At
    <3>2. CASE CallTool(c)
      <4>1. call'[c].pc \in {"replay", "session"}
        BY <3>2 DEF CallTool, Inv, TypeOK, CallState
      <4> QED BY <3>1, <4>1
    <3>3. CASE Replay(c)
      <4>1. call'[c].pc = "answered"
        BY <3>3 DEF Replay, Inv, TypeOK, CallState
      <4> QED BY <3>1, <4>1
    <3>4. CASE RecordRefusal(c) \/ AddReviewItem(c) \/ UpdateSessionStatus(c) \/ Execute(c)
      BY <3>1, <3>4 DEF RecordRefusal, AddReviewItem, UpdateSessionStatus, Execute, Goto, Inv,
         TypeOK, CallState
    <3>5. CASE ToolRaises(c) \/ AuditRuntimeError(c) \/ AddToolCall(c) \/ AddToolCallConflict(c)
      BY <3>1, <3>5 DEF ToolRaises, AuditRuntimeError, AddToolCall, AddToolCallConflict, Goto,
         Inv, TypeOK, CallState
    <3>6. CASE CheckResult(c) \/ AuditWithheld(c) \/ Answered(c) \/ CheckFinalResponse(c)
      BY <3>1, <3>6 DEF CheckResult, AuditWithheld, Answered, CheckFinalResponse, Ended, Goto,
         Inv, TypeOK, CallState
    <3>7. CASE AuditResponse(c) \/ CompleteStep(c) \/ Abort(c)
      BY <3>1, <3>7 DEF AuditResponse, CompleteStep, Abort, Goto, Inv, TypeOK, CallState
    <3> QED BY <2>4, <3>2, <3>3, <3>4, <3>5, <3>6, <3>7 DEF Step
  <2> QED BY <2>1, <2>2, <2>3, <2>4
<1> QED BY <1>1, <1>2 DEF AllowedInTime

LEMMA MetInvStep == Inv /\ MetInv /\ [Next]_vars => MetInv'
<1> SUFFICES ASSUME Inv, MetInv, [Next]_vars
             PROVE  MetInv'
  OBVIOUS
<1>1. CASE UNCHANGED vars
  BY <1>1 DEF vars, MetInv, MetEachOther, KeyTaken, ExecutedMet, KeyExecutesOnce,
     AllowedInTime, Cleared, SameKey, Active, Over, At, Keyed, RowsWithKey, FailedCalls
<1>2. ASSUME NEW c \in Calls, ResolveReviewItem(c)
      PROVE  MetInv'
  BY <1>2 DEF ResolveReviewItem, MetInv, MetEachOther, KeyTaken, ExecutedMet,
     KeyExecutesOnce, AllowedInTime, Cleared, SameKey, Active, Over, At, Keyed, RowsWithKey,
     FailedCalls
<1>3. ASSUME NEW c \in Calls, Step(c) \/ Abort(c)
      PROVE  MetInv'
  <2>1. Others(c)
    BY <1>3, Locality DEF Inv
  <2> QED BY <1>3, <2>1, MetStep, KeyTakenStep, ExecutedMetStep, KeyStep, AllowedInTimeStep
        DEF MetInv
<1> QED BY <1>1, <1>2, <1>3 DEF Next

\* What overlapping calls know of each other.
THEOREM MetInvariance == Spec => []MetInv
  BY MetInit, MetInvStep, ToolCallInvariance, PTL DEF Spec

\* A key executes its tool twice only for calls that overlap, or after the record
\* of an execution was lost, whatever else dies.
THEOREM KeyExecutesOnceAlways == Spec => []KeyExecutesOnce
<1>1. MetInv => KeyExecutesOnce
  BY DEF MetInv
<1> QED BY <1>1, MetInvariance, PTL

\* A call executes no tool under guardrails once the refused calls from before it
\* have reached the limit.
THEOREM FailuresStop == Spec => FailuresStopEffects
<1>1. Inv /\ MetInv /\ [Next]_vars =>
        [\A c \in Calls : effects'[c] # effects[c] =>
            \/ call[c].mode = "disabled"
            \/ Cardinality(FailedCalls \ met[c]) < FailureLimit]_vars
  <2> SUFFICES ASSUME Inv, MetInv, Next, NEW c \in Calls, effects'[c] # effects[c]
               PROVE  \/ call[c].mode = "disabled"
                      \/ Cardinality(FailedCalls \ met[c]) < FailureLimit
    OBVIOUS
  <2>1. PICK d \in Calls : Step(d) \/ Abort(d) \/ ResolveReviewItem(d)
    BY DEF Next
  <2>2. Execute(d)
    BY <2>1 DEF Step, CallTool, Replay, EnsureSession, Assess, AddPolicyDecision,
       AuditDecision, RecordRefusal, AddReviewItem, UpdateSessionStatus, ToolRaises,
       AuditRuntimeError, AddToolCall, AddToolCallConflict, CheckResult, AuditWithheld,
       Answered, CheckFinalResponse, AuditResponse, CompleteStep, Abort, ResolveReviewItem
  <2>3. d = c
    BY <2>2 DEF Execute, Inv, TypeOK
  <2> QED BY <2>2, <2>3 DEF Execute, MetInv, AllowedInTime, Cleared
<1> QED BY <1>1, MetInvariance, ToolCallInvariance, PTL DEF Spec, FailuresStopEffects

\* Every effect of a tool is audited before, recorded after, and answered once.
THEOREM ToolCallSafety == Spec => []ToolCallInvariant
BY ToolCallTypes, EffectsAreAudited, EffectsRecorded, OneExecutionAnswered, PTL
   DEF ToolCallInvariant

-----------------------------------------------------------------------------
\* The answers

\* A call in one of these places has answered nothing yet.
Unanswered == Before \cup {"record", "result", "withhold"}

\* What a refused call with an item in the queue goes through afterwards.
Waiting == {"status", "answered", "complete", "done", "died"}

\* Where a decision to review has not been followed up yet, or never will be.
ReviewUnderWay == {"policy", "audit", "refuse", "queue", "error", "died", "lost"}

\* Who is answered REVIEW, and why.
Explained(c) ==
    \/ review[c] # "NONE"
    \/ "tool_runtime_error" \in audit[c]
    \/ Replayed(c)
    \/ call[c].mode = "review_only" /\ call[c].by # "gateway"

AnswerInv(c) ==
    /\ call[c].pc \in Unanswered => call[c].delivered = FALSE
    /\ call[c].pc \in {"execute", "record", "result", "respond"} => call[c].decision = "ALLOW"
    /\ call[c].delivered = TRUE =>
          effects[c] = 0 \/ call[c].decision = "ALLOW" \/ call[c].by = "agent"
    /\ At(c, "respond") => call[c].by # "gateway"
    /\ At(c, "complete") => call[c].by = "workflow"
    /\ call[c].pc \in {"idle", "replay", "session", "assess", "policy"} => policy[c] = "NONE"
    /\ At(c, "queue") => call[c].decision = "REVIEW"
    /\ review[c] # "NONE" => call[c].decision = "REVIEW" /\ call[c].pc \in Waiting
    /\ call[c].decision = "REVIEW" => call[c].pc \in ReviewUnderWay \/ Explained(c)

\* A call that has completed the session: a workflow's, or one that waits for nothing.
Completed(c) ==
    /\ ~At(c, "idle")
    /\ \/ call[c].by = "workflow"
       \/ review[c] = "NONE" /\ call[c].pc \in {"done", "died"}

SessionInv == session = "COMPLETED" => \E c \in Calls : Completed(c)

Answers == (\A c \in Calls : AnswerInv(c)) /\ SessionInv

LEMMA AnswersInit == Init => Answers
  BY DEF Init, Answers, AnswerInv, SessionInv, Completed, Explained, Replayed, At

\* What a step of one call leaves of another's review item.
LEMMA OtherReviews ==
    ASSUME TypeOK, NEW c \in Calls, Step(c) \/ Abort(c) \/ ResolveReviewItem(c),
           NEW d \in Calls, d # c
    PROVE  review'[d] = review[d]
<1>1. CASE AddReviewItem(c) \/ ResolveReviewItem(c)
  BY <1>1 DEF AddReviewItem, ResolveReviewItem, TypeOK
<1>2. CASE UNCHANGED review
  BY <1>2
<1> QED BY <1>1, <1>2 DEF Step, CallTool, Replay, EnsureSession, Assess, AddPolicyDecision,
      AuditDecision, RecordRefusal, UpdateSessionStatus, Execute, ToolRaises,
      AuditRuntimeError, AddToolCall, AddToolCallConflict, CheckResult, AuditWithheld,
      Answered, CheckFinalResponse, AuditResponse, CompleteStep, Abort

\* What a change of place leaves of the answer.
LEMMA GotoKeepsAnswer ==
    ASSUME TypeOK, NEW c \in Calls, NEW pc, Goto(c, pc)
    PROVE  /\ call'[c].pc = pc /\ call'[c].by = call[c].by /\ call'[c].mode = call[c].mode
           /\ call'[c].decision = call[c].decision /\ call'[c].delivered = call[c].delivered
  BY DEF TypeOK, CallState, Goto

LEMMA AnswerStep ==
    ASSUME TypeOK, NEW c \in Calls, CallInv(c), AnswerInv(c),
           Step(c) \/ Abort(c) \/ ResolveReviewItem(c)
    PROVE  AnswerInv(c)'
<1> DEFINE Same == /\ call'[c].by = call[c].by /\ call'[c].mode = call[c].mode
                   /\ call'[c].decision = call[c].decision
                   /\ call'[c].delivered = call[c].delivered
<1> USE DEF AnswerInv, At, Before, Unanswered, Waiting, ReviewUnderWay, Explained, Replayed
<1>0. /\ call \in [Calls -> CallState] /\ call[c] \in CallState
      /\ policy \in [Calls -> Decisions \cup {"NONE"}]
      /\ audit \in [Calls -> SUBSET Stages] /\ effects \in [Calls -> Nat]
      /\ review \in [Calls -> {"NONE", "PENDING", "RESOLVED"}]
  BY DEF TypeOK
<1>00. call[c].pc \in Before => effects[c] = 0
  BY DEF CallInv
<1>1. CASE CallTool(c)
  <2>1. /\ At(c, "idle") /\ call'[c].pc \in {"replay", "session"}
        /\ call'[c].decision = call[c].decision /\ call'[c].delivered = call[c].delivered
        /\ UNCHANGED <<policy, audit, review, effects>>
    BY <1>0, <1>1 DEF CallTool, CallState
  <2> QED BY <1>0, <1>00, <2>1
<1>2. CASE Replay(c)
  <2>1. /\ At(c, "replay") /\ call'[c].pc = "answered"
        /\ UNCHANGED <<policy, audit, review, effects>>
    BY <1>0, <1>2 DEF Replay, CallState
  <2> QED BY <1>0, <1>00, <2>1
<1>3. CASE EnsureSession(c)
  <2>1. /\ At(c, "session") /\ call'[c].pc \in {"execute", "assess"}
        /\ call'[c].pc = "execute" => call'[c].decision = "ALLOW"
        /\ call'[c].pc = "assess" => call'[c].decision = call[c].decision
        /\ call'[c].by = call[c].by /\ call'[c].delivered = call[c].delivered
        /\ UNCHANGED <<policy, audit, review, effects>>
    BY <1>0, <1>3 DEF EnsureSession, CallState
  <2> QED BY <1>0, <1>00, <2>1
<1>4. CASE Assess(c)
  <2>1. /\ At(c, "assess") /\ call'[c].pc = "policy" /\ call'[c].delivered = call[c].delivered
        /\ UNCHANGED <<policy, audit, review, effects>>
    BY <1>0, <1>4 DEF Assess, CallState
  <2> QED BY <1>0, <1>00, <2>1
<1>5. CASE AddPolicyDecision(c)
  <2>1. At(c, "policy") /\ UNCHANGED <<audit, review, effects>> /\ Goto(c, "audit")
    BY <1>5 DEF AddPolicyDecision
  <2> QED BY <1>0, <1>00, <2>1, GotoKeepsAnswer
<1>6. CASE AuditDecision(c)
  <2>1. At(c, "audit") /\ UNCHANGED <<policy, review, effects>>
    BY <1>6 DEF AuditDecision
  <2>2. Goto(c, IF call[c].decision = "ALLOW" THEN "execute" ELSE "refuse")
    BY <1>6 DEF AuditDecision
  <2> QED BY <1>0, <1>00, <2>1, <2>2, GotoKeepsAnswer
<1>7. CASE RecordRefusal(c)
  <2>1. At(c, "refuse") /\ UNCHANGED <<policy, audit, review, effects>>
    BY <1>7 DEF RecordRefusal
  <2>2. Goto(c, IF call[c].decision = "REVIEW" THEN "queue" ELSE "status")
    BY <1>7 DEF RecordRefusal
  <2> QED BY <1>0, <1>00, <2>1, <2>2, GotoKeepsAnswer
<1>8. CASE AddReviewItem(c)
  <2>1. /\ At(c, "queue") /\ review'[c] = "PENDING" /\ Goto(c, "status")
        /\ UNCHANGED <<policy, audit, effects>>
    BY <1>0, <1>8 DEF AddReviewItem
  <2> QED BY <1>0, <1>00, <2>1, GotoKeepsAnswer
<1>9. CASE UpdateSessionStatus(c)
  <2>1. At(c, "status") /\ Goto(c, "answered") /\ UNCHANGED <<policy, audit, review, effects>>
    BY <1>9 DEF UpdateSessionStatus
  <2> QED BY <1>0, <2>1, GotoKeepsAnswer
<1>10. CASE Execute(c)
  <2>1. /\ At(c, "execute") /\ call'[c].pc = "record" /\ Same
        /\ UNCHANGED <<policy, audit, review>>
    BY <1>0, <1>10 DEF Execute, CallState
  <2> QED BY <1>0, <2>1
<1>11. CASE ToolRaises(c)
  <2>1. /\ At(c, "execute") /\ call'[c].pc = "error" /\ call'[c].delivered = call[c].delivered
        /\ UNCHANGED <<policy, audit, review, effects>>
    BY <1>0, <1>11 DEF ToolRaises, CallState
  <2> QED BY <1>0, <1>00, <2>1
<1>12. CASE AuditRuntimeError(c)
  <2>1. /\ At(c, "error") /\ "tool_runtime_error" \in audit'[c] /\ Goto(c, "status")
        /\ UNCHANGED <<policy, review, effects>>
    BY <1>0, <1>12 DEF AuditRuntimeError
  <2> QED BY <1>0, <1>00, <2>1, GotoKeepsAnswer
<1>13. CASE AddToolCall(c)
  <2>1. At(c, "record") /\ Goto(c, "result") /\ UNCHANGED <<policy, audit, review, effects>>
    BY <1>13 DEF AddToolCall
  <2> QED BY <1>0, <2>1, GotoKeepsAnswer
<1>14. CASE AddToolCallConflict(c)
  <2>1. At(c, "record") /\ Goto(c, "died") /\ UNCHANGED <<policy, audit, review, effects>>
    BY <1>14 DEF AddToolCallConflict
  <2> QED BY <1>0, <2>1, GotoKeepsAnswer
<1>15. CASE CheckResult(c)
  <2>1. /\ At(c, "result") /\ call'[c].pc \in {"withhold", "answered"}
        /\ call'[c].pc = "withhold" =>
              call'[c].decision = "BLOCK" /\ call'[c].delivered = call[c].delivered
        /\ call'[c].pc = "answered" => call'[c].decision = call[c].decision
        /\ UNCHANGED <<policy, audit, review, effects>>
    BY <1>0, <1>15 DEF CheckResult, CallState
  <2> QED BY <1>0, <2>1
<1>16. CASE AuditWithheld(c)
  <2>1. /\ At(c, "withhold") /\ audit[c] \subseteq audit'[c] /\ Goto(c, "status")
        /\ UNCHANGED <<policy, review, effects>>
    BY <1>0, <1>16 DEF AuditWithheld
  <2> QED BY <1>0, <2>1, GotoKeepsAnswer
<1>17. CASE Answered(c)
  <2>1. /\ At(c, "answered") /\ UNCHANGED <<policy, audit, review, effects>>
        /\ Goto(c, IF call[c].by # "gateway" /\ call[c].decision = "ALLOW" THEN "respond"
                   ELSE Ended(c))
    BY <1>17 DEF Answered
  <2> QED BY <1>0, <2>1, GotoKeepsAnswer DEF Ended
<1>18. CASE CheckFinalResponse(c)
  <2>1. PICK d \in {"ALLOW", "BLOCK"} :
          call' = [call EXCEPT ![c].decision = ApplyMode(call[c].mode, d),
                     ![c].pc = IF ApplyMode(call[c].mode, d) = "BLOCK" THEN "response"
                               ELSE Ended(c),
                     ![c].delivered = call[c].by = "agent"]
    BY <1>18 DEF CheckFinalResponse
  <2>2. /\ call'[c].by = call[c].by /\ call'[c].mode = call[c].mode
        /\ call'[c].decision = ApplyMode(call[c].mode, d)
        /\ call'[c].pc = IF ApplyMode(call[c].mode, d) = "BLOCK" THEN "response" ELSE Ended(c)
        /\ call'[c].delivered = TRUE => call[c].by = "agent"
    BY <1>0, <2>1 DEF CallState
  <2>3. At(c, "respond") /\ UNCHANGED <<policy, audit, review, effects>>
    BY <1>18 DEF CheckFinalResponse
  <2>4. call'[c].pc \in {"response", "complete", "done"} /\ (call'[c].pc = "complete" => call[c].by = "workflow")
    BY <2>2 DEF Ended
  <2>5. call'[c].decision = "REVIEW" => call[c].mode = "review_only"
    BY <2>2 DEF ApplyMode
  <2> QED BY <1>0, <2>2, <2>3, <2>4, <2>5
<1>19. CASE AuditResponse(c)
  <2>1. /\ At(c, "response") /\ audit[c] \subseteq audit'[c] /\ Goto(c, "status")
        /\ UNCHANGED <<policy, review, effects>>
    BY <1>0, <1>19 DEF AuditResponse
  <2> QED BY <1>0, <2>1, GotoKeepsAnswer
<1>20. CASE CompleteStep(c)
  <2>1. At(c, "complete") /\ Goto(c, "done") /\ UNCHANGED <<policy, audit, review, effects>>
    BY <1>20 DEF CompleteStep
  <2> QED BY <1>0, <2>1, GotoKeepsAnswer
<1>21. CASE Abort(c)
  <2>1. /\ ~At(c, "idle") /\ UNCHANGED <<policy, audit, review, effects>>
        /\ Goto(c, IF At(c, "record") THEN "lost" ELSE "died")
    BY <1>21 DEF Abort, Active
  <2> QED BY <1>0, <2>1, GotoKeepsAnswer
<1>22. CASE ResolveReviewItem(c)
  <2>1. /\ review[c] = "PENDING" /\ review'[c] = "RESOLVED"
        /\ UNCHANGED <<call, policy, audit, effects>>
    BY <1>0, <1>22 DEF ResolveReviewItem
  <2> QED BY <1>0, <2>1
<1> QED BY <1>1, <1>2, <1>3, <1>4, <1>5, <1>6, <1>7, <1>8, <1>9, <1>10, <1>11, <1>12, <1>13,
          <1>14, <1>15, <1>16, <1>17, <1>18, <1>19, <1>20, <1>21, <1>22 DEF Step

\* Who has completed the session stays as it is.
LEMMA CompletedStays ==
    ASSUME Inv, NEW c \in Calls, Step(c) \/ Abort(c) \/ ResolveReviewItem(c),
           NEW d \in Calls, AnswerInv(d), Completed(d)
    PROVE  Completed(d)'
<1>1. CASE d # c
  <2>1. call'[d] = call[d] /\ review'[d] = review[d]
    BY <1>1, Locality, OtherReviews DEF Inv, Others
  <2> QED BY <2>1 DEF Completed, At
<1>2. CASE d = c
  <2>1. ~CallTool(c) /\ ~At(c, "idle")
    BY <1>2 DEF CallTool, Completed
  <2>2. CASE ResolveReviewItem(c)
    BY <1>2, <2>2 DEF ResolveReviewItem, Completed, At, AnswerInv
  <2>3. CASE ~ResolveReviewItem(c)
    <3>1. /\ call'[c].by = call[c].by /\ call'[c].pc # "idle"
      BY <1>2, <2>1, <2>3, KeptFields
    <3>2. CASE call[c].by = "workflow"
      BY <1>2, <3>1, <3>2 DEF Completed, At
    <3>3. CASE call[c].by # "workflow"
      <4>1. call[c].pc \in {"done", "died"}
        BY <1>2, <3>3 DEF Completed
      <4>2. Active(c)
        BY <2>1, <2>3, Stepping
      <4> QED BY <4>1, <4>2 DEF Active, Over
    <3> QED BY <3>2, <3>3
  <2> QED BY <2>2, <2>3
<1> QED BY <1>1, <1>2

LEMMA SessionStep ==
    ASSUME Inv, \A d \in Calls : AnswerInv(d), SessionInv,
           NEW c \in Calls, Step(c) \/ Abort(c) \/ ResolveReviewItem(c)
    PROVE  SessionInv'
<1>1. call \in [Calls -> CallState] /\ call[c] \in CallState
  BY DEF Inv, TypeOK
<1>2. CASE CompleteStep(c)
  <2>1. call[c].by = "workflow"
    BY <1>2 DEF CompleteStep, AnswerInv
  <2>2. call'[c].pc = "done" /\ call'[c].by = call[c].by
    BY <1>2, GotoKeepsAnswer DEF CompleteStep, Inv
  <2> QED BY <2>1, <2>2 DEF SessionInv, Completed, At
<1>3. CASE CheckFinalResponse(c)
  <2>1. CASE session' = session
    BY <2>1, CompletedStays DEF SessionInv
  <2>2. CASE session' # session
    <3>1. PICK d \in {"ALLOW", "BLOCK"} :
            /\ session' = IF ApplyMode(call[c].mode, d) = "BLOCK" THEN session ELSE "COMPLETED"
            /\ call' = [call EXCEPT ![c].decision = ApplyMode(call[c].mode, d),
                     ![c].pc = IF ApplyMode(call[c].mode, d) = "BLOCK" THEN "response"
                               ELSE Ended(c),
                     ![c].delivered = call[c].by = "agent"]
      BY <1>3 DEF CheckFinalResponse
    <3>2. call'[c].pc = Ended(c) /\ call'[c].by = call[c].by
      BY <1>1, <2>2, <3>1 DEF CallState
    <3>3. review[c] = "NONE" /\ review' = review
      BY <1>3 DEF CheckFinalResponse, AnswerInv, At, Waiting
    <3> QED BY <3>2, <3>3 DEF SessionInv, Completed, At, Ended
  <2> QED BY <2>1, <2>2
<1>4. CASE ~CompleteStep(c) /\ ~CheckFinalResponse(c)
  <2>1. session' = "COMPLETED" => session = "COMPLETED"
    BY <1>4 DEF CallInv, Inv, Refused, At, Step, CallTool, Replay, EnsureSession, Assess,
        AddPolicyDecision, AuditDecision, RecordRefusal, AddReviewItem, UpdateSessionStatus,
        Execute, ToolRaises, AuditRuntimeError, AddToolCall, AddToolCallConflict, CheckResult,
        AuditWithheld, Answered, AuditResponse, Abort, ResolveReviewItem
  <2> QED BY <2>1, CompletedStays DEF SessionInv
<1> QED BY <1>2, <1>3, <1>4

LEMMA AnswersStep == Inv /\ Answers /\ [Next]_vars => Answers'
<1> SUFFICES ASSUME Inv, Answers, [Next]_vars
             PROVE  Answers'
  OBVIOUS
<1>1. CASE UNCHANGED vars
  BY <1>1 DEF vars, Answers, AnswerInv, SessionInv, Completed, Explained, Replayed, At
<1>2. ASSUME NEW c \in Calls, Step(c) \/ Abort(c) \/ ResolveReviewItem(c)
      PROVE  Answers'
  <2>1. AnswerInv(c)'
    BY <1>2, AnswerStep DEF Answers, Inv
  <2>2. ASSUME NEW d \in Calls, d # c
        PROVE  AnswerInv(d)'
    <3>1. /\ call'[d] = call[d] /\ policy'[d] = policy[d] /\ audit'[d] = audit[d]
          /\ effects'[d] = effects[d] /\ review'[d] = review[d]
      BY <1>2, <2>2, Locality, OtherReviews DEF Inv, Others
    <3>2. AnswerInv(d)
      BY DEF Answers
    <3> QED BY <3>1, <3>2 DEF AnswerInv, Explained, Replayed, At
  <2>3. SessionInv'
    BY <1>2, SessionStep DEF Answers
  <2> QED BY <2>1, <2>2, <2>3 DEF Answers
<1> QED BY <1>1, <1>2 DEF Next

\* What every answer rests on: why a call is answered REVIEW, what it delivers, and
\* which calls have completed the session.
THEOREM AnswersInvariance == Spec => []Answers
  BY AnswersInit, AnswersStep, ToolCallInvariance, PTL DEF Spec

\* A call that executed its tool and is answered BLOCK delivers nothing of the result,
\* unless the answer is an agent's.
THEOREM BlockedWithheld == Spec => []BlockedIsNotDelivered
<1>1. Inv /\ Answers => BlockedIsNotDelivered
  BY DEF Inv, TypeOK, Answers, AnswerInv, BlockedIsNotDelivered, CallState
<1> QED BY <1>1, AnswersInvariance, ToolCallInvariance, PTL

\* Whoever is answered REVIEW has an item in the queue, but for a tool that raised, a
\* replay, and a response under guardrails that only review.
THEOREM ReviewsAreQueued == Spec => []ReviewIsQueued
<1>1. Answers => ReviewIsQueued
  BY DEF Answers, AnswerInv, ReviewIsQueued, Explained, ReviewUnderWay, At
<1> QED BY <1>1, AnswersInvariance, PTL

\* A session whose only call waits for review is not completed by anybody.
THEOREM PendingReviewsPause == Spec => []PendingReviewPausesSession
<1>1. Answers => PendingReviewPausesSession
  BY DEF Answers, SessionInv, Completed, PendingReviewPausesSession, At
<1> QED BY <1>1, AnswersInvariance, PTL

=============================================================================
