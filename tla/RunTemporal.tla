----------------------------- MODULE RunTemporal -----------------------------
(***************************************************************************)
(* Deployments whose runtime_type is temporal: the worker starts a durable *)
(* workflow and records that it did; the Temporal worker executes the      *)
(* workflow's activities and the last of them writes the outcome.  Both    *)
(* sides write the same row and neither waits for the other.               *)
(*                                                                         *)
(* The Temporal server is outside the repository: it runs one workflow per *)
(* workflow id at a time, retries an activity until it succeeds, and       *)
(* delivers signals to an open workflow.                                   *)
(***************************************************************************)
EXTENDS RunWorker

CONSTANT MaxRetries     \* bound on the executions of a node, per workflow

ASSUME TemporalAssumption == MaxRetries \in Nat

VARIABLE temporal       \* the durable workflow of each run

TemporalState ==
    [pc: {"none", "execute", "executing", "wait", "complete", "closed"},
     decision: Decisions, review: {"NONE", "APPROVED", "DENIED"},
     attempts: Nat]

NoWorkflow == [pc |-> "none", decision |-> "NONE", review |-> "NONE",
               attempts |-> 0]

TemporalTypeOK == temporal \in [RunIds -> TemporalState]

TemporalInit == temporal = [r \in RunIds |-> NoWorkflow]

Open(r) == temporal[r].pc \notin {"none", "closed"}

-----------------------------------------------------------------------------
\* RuntimeWorker._start_temporal_run

\* The server opens a workflow under the run's workflow id, which no open
\* workflow may have.
OpenWorkflow(r) ==
    /\ ~Open(r)
    /\ temporal' = [temporal EXCEPT ![r] = [NoWorkflow EXCEPT !.pc = "execute"]]

\* start_workflow returns.
StartTemporal(w) ==
    /\ worker[w].pc = "run"
    /\ RuntimeType = "temporal"
    /\ OpenWorkflow(worker[w].run)
    /\ Goto(w, "temporal")
    /\ UNCHANGED <<storeVars, starts, abandoned>>

\* start_workflow raises: no connection, the workflow id is in use, or the
\* workflow was opened and the answer lost.
StartTemporalFails(w) ==
    /\ worker[w].pc = "run"
    /\ RuntimeType = "temporal"
    /\ UpdateRun(worker[w].run, WithStatus(runs[worker[w].run], "FAILED"))
    /\ Goto(w, "failed")
    /\ UNCHANGED temporal \/ OpenWorkflow(worker[w].run)
    /\ UNCHANGED <<reviews, outbox, starts, abandoned>>

\* The worker records the workflow it started, with the status RUNNING.
RecordTemporalStart(w) ==
    /\ worker[w].pc = "temporal"
    /\ UpdateRun(worker[w].run, WithStatus(runs[worker[w].run], "RUNNING"))
    /\ Goto(w, "temporal_started")
    /\ UNCHANGED <<reviews, outbox, starts, abandoned, temporal>>

-----------------------------------------------------------------------------
\* DurableAgentWorkflow.run

\* An attempt of the execute_agent_node activity: runner.execute is called.
ExecuteAgentNode(r) ==
    /\ temporal[r].pc = "execute"
    /\ temporal[r].attempts < MaxRetries
    /\ temporal' = [temporal EXCEPT ![r].pc = "executing",
                                    ![r].attempts = @ + 1]
    /\ starts' = [starts EXCEPT ![r] = @ + 1]
    /\ UNCHANGED <<storeVars, worker, abandoned>>

\* The attempt raises, times out or loses its worker, and is retried.
RetryAgentNode(r) ==
    /\ temporal[r].pc = "executing"
    /\ temporal[r].attempts < MaxRetries
    /\ temporal' = [temporal EXCEPT ![r].pc = "execute"]
    /\ UNCHANGED <<storeVars, workerVars>>

\* The attempt returns; a REVIEW decision makes the workflow wait.
AgentNodeDone(r) ==
    /\ temporal[r].pc = "executing"
    /\ \E d \in {"ALLOW", "REVIEW", "BLOCK"} :
         temporal' = [temporal EXCEPT
           ![r].decision = d,
           ![r].pc = IF d = "REVIEW" THEN "wait" ELSE "complete"]
    /\ UNCHANGED <<storeVars, workerVars>>

\* The signals approve_review and deny_review, for any review item that the
\* workflow's agents have created: the last one received is the decision.
Signal(r, verdict) ==
    /\ Open(r)
    /\ temporal[r].attempts > 0
    /\ temporal' = [temporal EXCEPT ![r].review = verdict]
    /\ UNCHANGED <<storeVars, workerVars>>

ReviewDecided(r) ==
    /\ temporal[r].pc = "wait"
    /\ temporal[r].review # "NONE"
    /\ temporal' = [temporal EXCEPT ![r].pc = "complete"]
    /\ UNCHANGED <<storeVars, workerVars>>

\* complete_runtime_run: the runner's COMPLETED, or BLOCKED for a node result
\* under review that was denied.
CompleteRuntimeRun(r) ==
    LET denied == temporal[r].decision = "REVIEW" /\ temporal[r].review = "DENIED"
    IN  /\ temporal[r].pc = "complete"
        /\ UpdateRun(r, WithOutcome(runs[r],
                          IF denied THEN "BLOCKED" ELSE "COMPLETED",
                          temporal[r].decision))
        /\ temporal' = [temporal EXCEPT ![r].pc = "closed"]
        /\ UNCHANGED <<reviews, outbox, workerVars>>

TemporalWorkerStep(w) ==
    StartTemporal(w) \/ StartTemporalFails(w) \/ RecordTemporalStart(w)

TemporalStep(r) ==
    \/ ExecuteAgentNode(r) \/ RetryAgentNode(r) \/ AgentNodeDone(r)
    \/ ReviewDecided(r) \/ CompleteRuntimeRun(r)

TemporalNext ==
    \/ \E w \in Workers : TemporalWorkerStep(w)
    \/ \E r \in RunIds : \/ TemporalStep(r)
                         \/ \E verdict \in {"APPROVED", "DENIED"} : Signal(r, verdict)
=============================================================================
