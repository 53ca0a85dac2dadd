------------------------------ MODULE RunWorker ------------------------------
(***************************************************************************)
(* The workflow-runner processes: RuntimeWorker.run_once in a loop, with   *)
(* RuntimeHookManager.evaluate inside.  A worker claims the oldest queued  *)
(* run and then works from what the claim returned, one transaction per    *)
(* step; nothing of what it writes depends on what the row has become      *)
(* since.  A worker process may die between any two steps and is started   *)
(* again with nothing of the run it held.                                  *)
(***************************************************************************)
EXTENDS RunStore

CONSTANT Workers    \* the workflow-runner processes

VARIABLES
    worker,     \* what each worker is doing
    starts,     \* history: how many times runner.execute was called per run
    abandoned   \* history: the runs a worker held when it died

workerVars == <<worker, starts, abandoned>>

WorkerPc == {"idle", "claimed", "started", "review", "pause", "paused",
             "block", "blocked", "run", "executing", "completed", "failed",
             "temporal", "temporal_started"}

WorkerState == [pc: WorkerPc, run: RunIds \cup {NoRun},
                approved: SUBSET Hooks, hook: Hooks \cup {NoHook}]

Idle == [pc |-> "idle", run |-> NoRun, approved |-> {}, hook |-> NoHook]

WorkerTypeOK ==
    /\ worker \in [Workers -> WorkerState]
    /\ starts \in [RunIds -> Nat]
    /\ abandoned \in SUBSET RunIds

WorkerInit ==
    /\ worker = [w \in Workers |-> Idle]
    /\ starts = [r \in RunIds |-> 0]
    /\ abandoned = {}

Goto(w, pc) == worker' = [worker EXCEPT ![w].pc = pc]

Rest(w) == worker' = [worker EXCEPT ![w] = Idle]

-----------------------------------------------------------------------------

\* Faulty: a claim that only reads, and leaves RUNNING to run_once.
ClaimWithoutStatus(w) ==
    /\ worker[w].pc = "idle"
    /\ \E r \in RunIds :
        /\ IsOldest(r, QueuedRuns)
        /\ worker' = [worker EXCEPT ![w] =
             [pc |-> "claimed", run |-> r, approved |-> runs[r].approved,
              hook |-> NoHook]]
    /\ UNCHANGED <<storeVars, starts, abandoned>>

\* claim_next_queued_runtime_run: the oldest QUEUED row becomes RUNNING.
Claim(w) ==
    /\ worker[w].pc = "idle"
    /\ \E r \in RunIds :
        /\ IsOldest(r, QueuedRuns)
        /\ UpdateRun(r, [runs[r] EXCEPT !.status = "RUNNING"])
        /\ worker' = [worker EXCEPT ![w] =
             [pc |-> "claimed", run |-> r, approved |-> runs[r].approved,
              hook |-> NoHook]]
    /\ UNCHANGED <<reviews, outbox, starts, abandoned>>

\* The second RUNNING write of run_once.
MarkRunning(w) ==
    /\ worker[w].pc = "claimed"
    /\ UpdateRun(worker[w].run, WithStatus(runs[worker[w].run], "RUNNING"))
    /\ Goto(w, "started")
    /\ UNCHANGED <<reviews, outbox, starts, abandoned>>

\* Faulty: only escalate hooks pause.
AfterHookEscalateOnly(h) ==
    IF h = NoHook THEN "run"
    ELSE IF Manifest[h] = "block" THEN "block"
    ELSE IF Manifest[h] # "escalate" THEN "run"
    ELSE "review"

\* Where evaluate sends a run: the action of its first matching hook decides.
AfterHook(h) ==
    IF h = NoHook THEN "run"
    ELSE IF Manifest[h] = "block" THEN "block"
    ELSE IF Manifest[h] = "continue" THEN "run"
    ELSE "review"

\* The run.started event; the hooks are then evaluated from the approvals the
\* claim returned.
AppendStarted(w) ==
    /\ worker[w].pc = "started"
    /\ AppendEvent(worker[w].run, "run.started")
    /\ LET h == FirstMatchingHook(runs[worker[w].run].matching,
                                  worker[w].approved)
       IN  worker' = [worker EXCEPT ![w].hook = h, ![w].pc = AfterHook(h)]
    /\ UNCHANGED <<runs, reviews, starts, abandoned>>

-----------------------------------------------------------------------------
\* _pause_for_review

AddReviewItem(w) ==
    /\ worker[w].pc = "review"
    /\ \E v \in ReviewIds :
        /\ IsNextReview(v)
        /\ reviews' = [reviews EXCEPT ![v] =
             [status |-> "PENDING", run |-> worker[w].run,
              hook |-> worker[w].hook]]
    /\ Goto(w, "pause")
    /\ UNCHANGED <<runs, outbox, starts, abandoned>>

MarkPaused(w) ==
    /\ worker[w].pc = "pause"
    /\ UpdateRun(worker[w].run,
                 WithOutcome(runs[worker[w].run], "REVIEW", "REVIEW"))
    /\ Goto(w, "paused")
    /\ UNCHANGED <<reviews, outbox, starts, abandoned>>

\* _block_run

MarkBlocked(w) ==
    /\ worker[w].pc = "block"
    /\ UpdateRun(worker[w].run,
                 WithOutcome(runs[worker[w].run], "BLOCKED", "DENY"))
    /\ Goto(w, "blocked")
    /\ UNCHANGED <<reviews, outbox, starts, abandoned>>

-----------------------------------------------------------------------------
\* Execution

\* runner.execute starts: from here on the agents' tools may have run.
BeginExecution(w) ==
    /\ worker[w].pc = "run"
    /\ RuntimeType = "native"
    /\ starts' = [starts EXCEPT ![worker[w].run] = @ + 1]
    /\ Goto(w, "executing")
    /\ UNCHANGED <<storeVars, abandoned>>

\* The native runner returns: its status is COMPLETED whatever the decision.
FinishExecution(w) ==
    /\ worker[w].pc = "executing"
    /\ \E d \in {"ALLOW", "REVIEW", "BLOCK"} :
         UpdateRun(worker[w].run, WithOutcome(runs[worker[w].run], "COMPLETED", d))
    /\ Goto(w, "completed")
    /\ UNCHANGED <<reviews, outbox, starts, abandoned>>

\* Faulty: the failure is only reported as an event.
FailExecutionWithoutStatus(w) ==
    /\ worker[w].pc = "executing"
    /\ Goto(w, "failed")
    /\ UNCHANGED <<storeVars, starts, abandoned>>

\* The runner raises.
FailExecution(w) ==
    /\ worker[w].pc = "executing"
    /\ UpdateRun(worker[w].run, WithStatus(runs[worker[w].run], "FAILED"))
    /\ Goto(w, "failed")
    /\ UNCHANGED <<reviews, outbox, starts, abandoned>>

ClosingEvent ==
    [paused |-> "hook.paused", blocked |-> "hook.blocked",
     completed |-> "run.completed", failed |-> "run.failed",
     temporal_started |-> "run.temporal_started"]

\* The event that closes an attempt, after its status write.
AppendClosing(w) ==
    /\ worker[w].pc \in DOMAIN ClosingEvent
    /\ AppendEvent(worker[w].run, ClosingEvent[worker[w].pc])
    /\ Rest(w)
    /\ UNCHANGED <<runs, reviews, starts, abandoned>>

-----------------------------------------------------------------------------
\* The process dies

Die(w) ==
    /\ Rest(w)
    /\ abandoned' = abandoned \cup {worker[w].run}
    /\ UNCHANGED <<storeVars, starts>>

\* default_runner_factory raises outside the try block for a runtime type this
\* worker does not execute: run_once and the main loop end.
RunnerFactoryRaises(w) ==
    /\ worker[w].pc = "run"
    /\ RuntimeType \in {"langgraph", "strands"}
    /\ Die(w)

\* The process is killed, or a database call raises.
WorkerCrash(w) ==
    /\ worker[w].pc # "idle"
    /\ Die(w)

WorkerStep(w) ==
    \/ Claim(w) \/ MarkRunning(w) \/ AppendStarted(w)
    \/ AddReviewItem(w) \/ MarkPaused(w) \/ MarkBlocked(w)
    \/ BeginExecution(w) \/ FinishExecution(w) \/ FailExecution(w)
    \/ AppendClosing(w) \/ RunnerFactoryRaises(w)

WorkerNext == \E w \in Workers : WorkerStep(w) \/ WorkerCrash(w)
=============================================================================
