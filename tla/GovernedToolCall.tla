-------------------------- MODULE GovernedToolCall --------------------------
(***************************************************************************)
(* GovernedToolRunner: the tool calls of one agent in one session, each    *)
(* from its request to the final response.  A call writes policy decision, *)
(* audit event, tool call, review item and session status in transactions  *)
(* of their own, and the tool commits in yet another one, so calls         *)
(* interleave and a call can end between any two of them.                  *)
(*                                                                         *)
(* What the detectors find is data: the decision they come to is any of    *)
(* the three, except that repeated failures raise it.                      *)
(***************************************************************************)
EXTENDS Integers, FiniteSets

CONSTANTS
    Calls,              \* the tool calls made, by whatever caller
    Keys,               \* idempotency keys a caller may send
    NoKey,              \* a call without an idempotency key
    FailureLimit,       \* the refused calls that make a session suspect: 3
    Callers             \* who calls, and so what follows a call

ASSUME ToolCallAssumption ==
    /\ NoKey \notin Keys
    /\ FailureLimit \in Nat
    /\ Callers \subseteq {"gateway", "agent", "workflow"}
    /\ IsFiniteSet(Calls)

VARIABLES
    call,       \* what each call is doing
    rows,       \* tool_calls, by the call that inserted the row
    policy,     \* policy_decisions, by call
    audit,      \* the stages of the audit events of each call
    review,     \* review_queue, by the call that inserted the item
    session,    \* the status of the session
    effects,    \* history: how often the tool has committed, by call
    met         \* history: the calls each call has overlapped with

vars == <<call, rows, policy, audit, review, session, effects, met>>

Decisions == {"ALLOW", "REVIEW", "BLOCK"}
Modes == {"enforce", "review_only", "disabled"}
Tools == {"read", "write"}
Stages == {"pre_tool", "tool_runtime_error", "post_tool_result", "final_response"}

CallPc == {"idle", "replay", "session", "assess", "policy", "audit", "refuse",
           "queue", "execute", "error", "record", "result", "withhold",
           "status", "answered", "respond", "response", "complete", "done", "died", "lost"}

\* decision is the decision the call is answered with, result what the check of
\* the tool's result came to, delivered whether the answer carries that result.
CallState == [pc: CallPc, by: {"gateway", "agent", "workflow"}, tool: Tools,
              key: Keys \cup {NoKey}, mode: Modes, decision: Decisions \cup {"NONE"},
              result: Decisions \cup {"NONE"}, delivered: BOOLEAN]

\* A row of tool_calls; "NONE" is the row not inserted.
Row == [decision: Decisions \cup {"NONE"}, key: Keys \cup {NoKey}]

TypeOK ==
    /\ call \in [Calls -> CallState]
    /\ rows \in [Calls -> Row]
    /\ policy \in [Calls -> Decisions \cup {"NONE"}]
    /\ audit \in [Calls -> SUBSET Stages]
    /\ review \in [Calls -> {"NONE", "PENDING", "RESOLVED"}]
    /\ session \in {"NONE", "RUNNING", "COMPLETED", "REVIEW", "BLOCK"}
    /\ effects \in [Calls -> Nat]
    /\ met \in [Calls -> SUBSET Calls]

Init ==
    /\ call = [c \in Calls |-> [pc |-> "idle", by |-> "gateway", tool |-> "read",
                                key |-> NoKey, mode |-> "enforce", decision |-> "NONE", result |-> "NONE",
                                delivered |-> FALSE]]
    /\ rows = [c \in Calls |-> [decision |-> "NONE", key |-> NoKey]]
    /\ policy = [c \in Calls |-> "NONE"]
    /\ audit = [c \in Calls |-> {}]
    /\ review = [c \in Calls |-> "NONE"]
    /\ session = "NONE"
    /\ effects = [c \in Calls |-> 0]
    /\ met = [c \in Calls |-> {}]

-----------------------------------------------------------------------------

At(c, pc) == call[c].pc = pc
Goto(c, pc) == call' = [call EXCEPT ![c].pc = pc]

Over(c) == call[c].pc \in {"done", "died", "lost"}
Active(c) == ~Over(c) /\ ~At(c, "idle")

\* Only writing tools are idempotent (_is_write_tool).
Keyed(c) == call[c].tool = "write" /\ call[c].key # NoKey

\* What get_tool_call_by_idempotency_key can return.
RowsWithKey(k) == {d \in Calls : rows[d].decision # "NONE" /\ rows[d].key = k}

\* The rows count_failed_tool_calls counts.
FailedCalls == {c \in Calls : rows[c].decision \in {"BLOCK", "REVIEW"}}

\* _apply_mode: outside enforcement a block becomes a review.
ApplyMode(mode, d) == IF mode = "review_only" /\ d = "BLOCK" THEN "REVIEW" ELSE d

\* Faulty: a refusal that waits for review is no failure.
AssessmentsBlockedOnly ==
    IF Cardinality({c \in Calls : rows[c].decision = "BLOCK"}) >= FailureLimit
    THEN Decisions \ {"ALLOW"} ELSE Decisions

\* What the detectors of assess_tool_call may decide: a session with repeated
\* failures is not allowed any further call under the default thresholds.
Assessments ==
    IF Cardinality(FailedCalls) >= FailureLimit THEN Decisions \ {"ALLOW"} ELSE Decisions

-----------------------------------------------------------------------------
\* call_tool: the request and its policy decision

\* A workflow step has a session of its own; other callers may share one.
SessionOpenTo(by) ==
    \A d \in Calls : At(d, "idle") \/ "workflow" \notin {by, call[d].by}

Meet(c) ==
    met' = [d \in Calls |-> IF d = c THEN met[c] \cup {e \in Calls : Active(e)}
                             ELSE IF Active(d) THEN met[d] \cup {c} ELSE met[d]]

\* A caller makes a call: with a key, a writing tool is looked up first.
CallTool(c) ==
    /\ At(c, "idle")
    /\ \E by \in Callers, tool \in Tools, k \in Keys \cup {NoKey}, mode \in Modes :
         /\ SessionOpenTo(by)
         /\ k # NoKey => by = "gateway"
         /\ call' = [call EXCEPT ![c].by = by, ![c].tool = tool, ![c].key = k, ![c].mode = mode,
                    ![c].pc = IF tool = "write" /\ k # NoKey /\ RowsWithKey(k) # {}
                              THEN "replay" ELSE "session"]
    /\ Meet(c)
    /\ UNCHANGED <<rows, policy, audit, review, session, effects>>

\* _replay_idempotent_tool_call answers with the row it found.
Replay(c) ==
    /\ At(c, "replay")
    /\ \E d \in RowsWithKey(call[c].key) :
         call' = [call EXCEPT ![c].pc = "answered", ![c].decision = rows[d].decision,
                              ![c].delivered = TRUE]
    /\ UNCHANGED <<rows, policy, audit, review, session, effects, met>>

\* evaluate_tool_call: the session exists from here on; nothing is checked when
\* the guardrails are disabled.
EnsureSession(c) ==
    /\ At(c, "session")
    /\ session' = IF session = "NONE" THEN "RUNNING" ELSE session
    /\ call' = IF call[c].mode = "disabled"
               THEN [call EXCEPT ![c].pc = "execute", ![c].decision = "ALLOW"]
               ELSE [call EXCEPT ![c].pc = "assess"]
    /\ UNCHANGED <<rows, policy, audit, review, effects, met>>

Assess(c) ==
    /\ At(c, "assess")
    /\ \E d \in Assessments :
         call' = [call EXCEPT ![c].pc = "policy",
                              ![c].decision = ApplyMode(call[c].mode, d)]
    /\ UNCHANGED <<rows, policy, audit, review, session, effects, met>>

AddPolicyDecision(c) ==
    /\ At(c, "policy")
    /\ policy' = [policy EXCEPT ![c] = call[c].decision]
    /\ Goto(c, "audit")
    /\ UNCHANGED <<rows, audit, review, session, effects, met>>

AuditDecision(c) ==
    /\ At(c, "audit")
    /\ audit' = [audit EXCEPT ![c] = @ \cup {"pre_tool"}]
    /\ Goto(c, IF call[c].decision = "ALLOW" THEN "execute" ELSE "refuse")
    /\ UNCHANGED <<rows, policy, review, session, effects, met>>

\* Faulty: only what is enforced is put into the queue.
RecordRefusalQueuesEnforced(c) ==
    /\ At(c, "refuse")
    /\ rows' = [rows EXCEPT ![c].decision = call[c].decision]
    /\ Goto(c, IF call[c].decision = "REVIEW" /\ call[c].mode = "enforce" THEN "queue"
               ELSE "status")
    /\ UNCHANGED <<policy, audit, review, session, effects, met>>

\* A refused call is recorded, without its key.
RecordRefusal(c) ==
    /\ At(c, "refuse")
    /\ rows' = [rows EXCEPT ![c].decision = call[c].decision]
    /\ Goto(c, IF call[c].decision = "REVIEW" THEN "queue" ELSE "status")
    /\ UNCHANGED <<policy, audit, review, session, effects, met>>

AddReviewItem(c) ==
    /\ At(c, "queue")
    /\ review' = [review EXCEPT ![c] = "PENDING"]
    /\ Goto(c, "status")
    /\ UNCHANGED <<rows, policy, audit, session, effects, met>>

\* A call that was not allowed gives its decision to the session.
UpdateSessionStatus(c) ==
    /\ At(c, "status")
    /\ session' = call[c].decision
    /\ Goto(c, "answered")
    /\ UNCHANGED <<rows, policy, audit, review, effects, met>>

-----------------------------------------------------------------------------
\* call_tool: the execution

\* The tool commits; the check of its result follows, in memory.
Execute(c) ==
    /\ At(c, "execute")
    /\ effects' = [effects EXCEPT ![c] = @ + 1]
    /\ \E d \in {"ALLOW", "BLOCK"} :
         call' = [call EXCEPT ![c].pc = "record",
                              ![c].result = ApplyMode(call[c].mode, d)]
    /\ UNCHANGED <<rows, policy, audit, review, session, met>>

\* The tool raises and its transaction is rolled back.
ToolRaises(c) ==
    /\ At(c, "execute")
    /\ call' = [call EXCEPT ![c].pc = "error", ![c].decision = "REVIEW"]
    /\ UNCHANGED <<rows, policy, audit, review, session, effects, met>>

AuditRuntimeError(c) ==
    /\ At(c, "error")
    /\ audit' = [audit EXCEPT ![c] = @ \cup {"tool_runtime_error"}]
    /\ Goto(c, "status")
    /\ UNCHANGED <<rows, policy, review, session, effects, met>>

\* Faulty: the INSERT on a table whose unique index was not created.
AddToolCallWithoutIndex(c) ==
    /\ At(c, "record")
    /\ rows' = [rows EXCEPT ![c] = [decision |-> call[c].result,
                                    key |-> IF Keyed(c) THEN call[c].key ELSE NoKey]]
    /\ Goto(c, "result")
    /\ UNCHANGED <<policy, audit, review, session, effects, met>>

\* Faulty: the key is left to a later update.
AddToolCallWithoutKey(c) ==
    /\ At(c, "record")
    /\ rows' = [rows EXCEPT ![c] = [decision |-> call[c].result, key |-> NoKey]]
    /\ Goto(c, "result")
    /\ UNCHANGED <<policy, audit, review, session, effects, met>>

\* add_tool_call records what was executed, with the key that
\* record_tool_idempotency_key writes once more.
AddToolCall(c) ==
    /\ At(c, "record")
    /\ Keyed(c) => RowsWithKey(call[c].key) = {}
    /\ rows' = [rows EXCEPT ![c] = [decision |-> call[c].result,
                                    key |-> IF Keyed(c) THEN call[c].key ELSE NoKey]]
    /\ Goto(c, "result")
    /\ UNCHANGED <<policy, audit, review, session, effects, met>>

\* The unique index on (agent, tool, key) refuses the row: the call raises.
AddToolCallConflict(c) ==
    /\ At(c, "record")
    /\ Keyed(c) /\ RowsWithKey(call[c].key) # {}
    /\ Goto(c, "died")
    /\ UNCHANGED <<rows, policy, audit, review, session, effects, met>>

\* Faulty: the answer is made before the result is checked.
CheckResultAfterAnswer(c) ==
    /\ At(c, "result")
    /\ call' = IF call[c].result = "BLOCK"
               THEN [call EXCEPT ![c].pc = "withhold", ![c].decision = "BLOCK",
                                 ![c].delivered = TRUE]
               ELSE [call EXCEPT ![c].pc = "answered", ![c].delivered = TRUE]
    /\ UNCHANGED <<rows, policy, audit, review, session, effects, met>>

\* A blocked result is withheld; any other one is delivered.
CheckResult(c) ==
    /\ At(c, "result")
    /\ call' = IF call[c].result = "BLOCK"
               THEN [call EXCEPT ![c].pc = "withhold", ![c].decision = "BLOCK"]
               ELSE [call EXCEPT ![c].pc = "answered", ![c].delivered = TRUE]
    /\ UNCHANGED <<rows, policy, audit, review, session, effects, met>>

AuditWithheld(c) ==
    /\ At(c, "withhold")
    /\ audit' = [audit EXCEPT ![c] = @ \cup {"post_tool_result"}]
    /\ Goto(c, "status")
    /\ UNCHANGED <<rows, policy, review, session, effects, met>>

-----------------------------------------------------------------------------
\* What the caller does with the answer

\* Faulty: every caller ends its session.
EndedAlways(c) == "complete"

\* Where the call goes when the runner is through with it.
Ended(c) == IF call[c].by = "workflow" THEN "complete" ELSE "done"

\* An agent turns an allowed result into a response, and so does a workflow step,
\* which completes its session whatever the answer was; the gateway (an adapter's
\* or the API's) only passes the answer on.  No caller but an adapter sends a key.
Answered(c) ==
    /\ At(c, "answered")
    /\ Goto(c, IF call[c].by # "gateway" /\ call[c].decision = "ALLOW" THEN "respond"
               ELSE Ended(c))
    /\ UNCHANGED <<rows, policy, audit, review, session, effects, met>>

\* check_final_response: a blocked response completes no session, but the API's
\* agent run adds the tool's result to its answer all the same.
CheckFinalResponse(c) ==
    /\ At(c, "respond")
    /\ \E d \in {"ALLOW", "BLOCK"} :
         LET decision == ApplyMode(call[c].mode, d)
         IN  /\ call[c].mode = "disabled" => d = "ALLOW"
             /\ session' = IF decision = "BLOCK" THEN session ELSE "COMPLETED"
             /\ call' = [call EXCEPT ![c].decision = decision,
                                     ![c].pc = IF decision = "BLOCK" THEN "response"
                                               ELSE Ended(c),
                                     ![c].delivered = call[c].by = "agent"]
    /\ UNCHANGED <<rows, policy, audit, review, effects, met>>

AuditResponse(c) ==
    /\ At(c, "response")
    /\ audit' = [audit EXCEPT ![c] = @ \cup {"final_response"}]
    /\ Goto(c, "status")
    /\ UNCHANGED <<rows, policy, review, session, effects, met>>

\* The end of a step of run_multi_agent_customer_support.
CompleteStep(c) ==
    /\ At(c, "complete")
    /\ session' = "COMPLETED"
    /\ Goto(c, "done")
    /\ UNCHANGED <<rows, policy, audit, review, effects, met>>

\* The process dies or a database call raises: a workflow event whose sequence
\* number another call has taken, say.  After the tool's commit and before the row
\* that records it, the execution is lost.
Abort(c) ==
    /\ Active(c)
    /\ Goto(c, IF At(c, "record") THEN "lost" ELSE "died")
    /\ UNCHANGED <<rows, policy, audit, review, session, effects, met>>

\* A reviewer resolves an item: no call is made again for it.
ResolveReviewItem(c) ==
    /\ review[c] = "PENDING"
    /\ review' = [review EXCEPT ![c] = "RESOLVED"]
    /\ UNCHANGED <<call, rows, policy, audit, session, effects, met>>

Step(c) ==
    \/ CallTool(c) \/ Replay(c) \/ EnsureSession(c) \/ Assess(c)
    \/ AddPolicyDecision(c) \/ AuditDecision(c) \/ RecordRefusal(c)
    \/ AddReviewItem(c) \/ UpdateSessionStatus(c)
    \/ Execute(c) \/ ToolRaises(c) \/ AuditRuntimeError(c)
    \/ AddToolCall(c) \/ AddToolCallConflict(c) \/ CheckResult(c) \/ AuditWithheld(c)
    \/ Answered(c) \/ CheckFinalResponse(c) \/ AuditResponse(c)
    \/ CompleteStep(c)

Next == \E c \in Calls : Step(c) \/ Abort(c) \/ ResolveReviewItem(c)

Spec == Init /\ [][Next]_vars

-----------------------------------------------------------------------------
\* Properties

\* No tool commits before its call was allowed and audited in the database,
\* whatever dies afterwards, unless the guardrails are disabled.
AuditedBeforeEffect ==
    \A c \in Calls : effects[c] > 0 =>
        \/ call[c].mode = "disabled"
        \/ policy[c] = "ALLOW" /\ "pre_tool" \in audit[c]

\* A call that ends normally after its tool committed has left a row, so that
\* no answered effect is missing from tool_calls.
EffectsAreRecorded ==
    \A c \in Calls : effects[c] > 0 /\ At(c, "done") => rows[c].decision # "NONE"

\* Of the calls with one key that ended normally, one executed the tool; the
\* others replayed it or were refused, however they overlapped.
OneAnsweredExecution ==
    \A c, d \in Calls :
        /\ Keyed(c) /\ Keyed(d) /\ call[c].key = call[d].key
        /\ effects[c] > 0 /\ effects[d] > 0 /\ At(c, "done") /\ At(d, "done")
        => c = d

\* A writing tool is executed twice for one key only if the two calls overlapped
\* or the record of one execution was lost.
KeyExecutesOnce ==
    \A c, d \in Calls :
        /\ c # d /\ Keyed(c) /\ Keyed(d) /\ call[c].key = call[d].key
        /\ effects[c] > 0 /\ effects[d] > 0
        => d \in met[c] \/ At(c, "lost") \/ At(d, "lost")

\* No tool is executed under guardrails once the refused calls reach the limit,
\* those aside that the call overlapped with.
FailuresStopEffects ==
    [][\A c \in Calls : effects'[c] # effects[c] =>
          \/ call[c].mode = "disabled"
          \/ Cardinality(FailedCalls \ met[c]) < FailureLimit]_vars

\* A call answered from the row of another one; it was decided nothing itself.
Replayed(c) == policy[c] = "NONE" /\ effects[c] = 0

\* A call that executed and is answered BLOCK delivers nothing of the tool's
\* result.  Two answers do: a replay gives the row of a call whose result was
\* withheld, and an agent's answer carries the result of a blocked response.
BlockedIsNotDelivered ==
    \A c \in Calls :
        /\ call[c].pc \in {"answered", "respond", "complete", "done"}
        /\ call[c].decision = "BLOCK" /\ call[c].delivered
        => effects[c] = 0 \/ call[c].by = "agent"

\* A call that is answered REVIEW has put an item into the review queue, where
\* somebody can decide it.  Three answers have not: that of a tool that raised,
\* a replay's, and that of a response under guardrails that only review.
ReviewIsQueued ==
    \A c \in Calls : At(c, "done") /\ call[c].decision = "REVIEW" =>
        \/ review[c] # "NONE"
        \/ "tool_runtime_error" \in audit[c]
        \/ Replayed(c)
        \/ call[c].mode = "review_only" /\ call[c].by # "gateway"

\* A session whose only call waits for review is not completed, but for that of a
\* workflow's step, which ends completed whatever its call was answered.
PendingReviewPausesSession ==
    \A c \in Calls : At(c, "done") /\ review[c] = "PENDING" /\ session = "COMPLETED" =>
        call[c].by = "workflow" \/ \E d \in Calls : d # c /\ ~At(d, "idle")

\* Every effect of a tool is accounted for: allowed and audited before, recorded
\* after, and answered once for its key.
ToolCallInvariant ==
    /\ TypeOK
    /\ AuditedBeforeEffect
    /\ EffectsAreRecorded
    /\ OneAnsweredExecution
=============================================================================
