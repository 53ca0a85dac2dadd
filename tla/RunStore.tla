------------------------------ MODULE RunStore ------------------------------
(***************************************************************************)
(* The three tables every runtime component shares: the runtime runs, the  *)
(* review queue and the runtime event outbox.  Each store method runs in a *)
(* database transaction of its own, so an operator of this module is what  *)
(* one transaction reads or writes; everything between two of them may be  *)
(* interleaved with the transactions of other processes.                   *)
(*                                                                         *)
(* One deployment is modelled: its manifest is the sequence Manifest of    *)
(* the actions of its before_workflow hooks, in manifest order, and its    *)
(* runtime is RuntimeType.                                                 *)
(***************************************************************************)
EXTENDS Integers, Sequences, FiniteSets

CONSTANTS
    MaxRuns,        \* how many rows the model can insert in the runs table
    MaxReviews,     \* how many rows it can insert in the review queue
    Keys,           \* idempotency keys a caller may send
    NoKey,          \* a submission without an idempotency key
    Manifest,       \* the hook actions of the deployment, in order
    RuntimeType     \* the runtime_type of the deployment

HookActions == {"continue", "pause_for_review", "escalate", "block"}

ASSUME StoreAssumption ==
    /\ MaxRuns \in Nat
    /\ MaxReviews \in Nat
    /\ NoKey \notin Keys
    /\ Manifest \in Seq(HookActions)
    /\ RuntimeType \in {"native", "langgraph", "strands", "temporal"}

VARIABLES
    runs,       \* workflow_runtime_runs, by run
    reviews,    \* review_queue, by review
    outbox      \* runtime_event_outbox: the event types of each run, in order

storeVars == <<runs, reviews, outbox>>

RunIds == 1..MaxRuns          \* numbered in the order of created_at
ReviewIds == 1..MaxReviews
Hooks == DOMAIN Manifest      \* a hook is its position in the manifest
NoHook == 0
NoRun == 0
NoReview == 0

ACTIVE_RUN_STATUSES == {"QUEUED", "RUNNING"}
TERMINAL_RUN_STATUSES == {"COMPLETED", "FAILED", "BLOCKED", "REVIEW"}
RunStatus == ACTIVE_RUN_STATUSES \cup TERMINAL_RUN_STATUSES

Decisions == {"NONE", "ALLOW", "REVIEW", "BLOCK", "DENY"}

EventTypes == {"run.started", "run.completed", "run.failed",
               "run.temporal_started",
               "hook.paused", "hook.blocked", "hook.approved", "hook.denied"}

(***************************************************************************)
(* A row of workflow_runtime_runs.  "ABSENT" is the row not yet inserted.  *)
(* matching stands for the user query: the hooks whose conditions it meets *)
(* (every condition is on a field that is fixed when the run is created).  *)
(* approved is input_payload.approved_hook_ids, completed says completed_at*)
(* is set.                                                                 *)
(***************************************************************************)
Run == [status: RunStatus \cup {"ABSENT"}, decision: Decisions,
        key: Keys \cup {NoKey}, matching: SUBSET Hooks,
        approved: SUBSET Hooks, completed: BOOLEAN]

AbsentRun == [status |-> "ABSENT", decision |-> "NONE", key |-> NoKey,
              matching |-> {}, approved |-> {}, completed |-> FALSE]

Review == [status: {"ABSENT", "PENDING", "APPROVED", "DENIED"},
           run: RunIds \cup {NoRun}, hook: Hooks \cup {NoHook}]

AbsentReview == [status |-> "ABSENT", run |-> NoRun, hook |-> NoHook]

StoreTypeOK ==
    /\ runs \in [RunIds -> Run]
    /\ reviews \in [ReviewIds -> Review]
    /\ outbox \in [RunIds -> Seq(EventTypes)]

StoreInit ==
    /\ runs = [r \in RunIds |-> AbsentRun]
    /\ reviews = [v \in ReviewIds |-> AbsentReview]
    /\ outbox = [r \in RunIds |-> <<>>]

-----------------------------------------------------------------------------

Exists(r) == runs[r].status # "ABSENT"

\* The rows get_runtime_run_by_idempotency_key can return; the query returns
\* the newest of them.
RunsWithKey(k) == {r \in RunIds : Exists(r) /\ runs[r].key = k}

IsNewest(r, S) == r \in S /\ \A s \in S : s <= r
IsOldest(r, S) == r \in S /\ \A s \in S : r <= s

\* The rows claim_next_queued_runtime_run selects from.
QueuedRuns == {r \in RunIds : runs[r].status = "QUEUED"}

\* The row the next INSERT creates.
IsNextRun(r) == IsOldest(r, {s \in RunIds : ~Exists(s)})
IsNextReview(v) == IsOldest(v, {u \in ReviewIds : reviews[u].status = "ABSENT"})

QueuedRow(k, m) ==
    [status |-> "QUEUED", decision |-> "NONE", key |-> k, matching |-> m,
     approved |-> {}, completed |-> FALSE]

\* What update_workflow_runtime_run makes of a row when the payload carries a
\* status: the write is unconditional, and a terminal status stamps
\* completed_at unless it is already set.
WithStatus(row, s) ==
    [row EXCEPT !.status = s,
                !.completed = @ \/ s \in TERMINAL_RUN_STATUSES]

WithOutcome(row, s, d) == [WithStatus(row, s) EXCEPT !.decision = d]

UpdateRun(r, row) == runs' = [runs EXCEPT ![r] = row]

AppendEvent(r, e) == outbox' = [outbox EXCEPT ![r] = Append(@, e)]

\* _first_matching_hook: the first hook of the manifest that the query matches
\* and that the run does not carry as approved.
FirstMatchingHook(matching, approved) ==
    LET open == matching \ approved
    IN  IF open = {} THEN NoHook
        ELSE CHOOSE h \in open : \A g \in open : h <= g
=============================================================================
