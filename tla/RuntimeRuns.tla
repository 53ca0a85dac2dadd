----------------------------- MODULE RuntimeRuns -----------------------------
(***************************************************************************)
(* A deployment's runs from submission to outcome: API requests that       *)
(* submit, workers that claim and execute, Temporal workflows, and         *)
(* reviewers whose verdicts put a paused run back in the queue or block    *)
(* it.  The processes share nothing but the store.                         *)
(***************************************************************************)
EXTENDS RunDispatch, RunTemporal, RunReview

CONSTANT MaxCrashes     \* bound on the processes that die

ASSUME RuntimeRunsAssumption == MaxCrashes \in Nat

VARIABLE crashes        \* how many died

vars == <<runs, reviews, outbox, client, worker, starts, abandoned, temporal,
          request, crashes>>

Init ==
    /\ StoreInit /\ DispatchInit /\ WorkerInit /\ TemporalInit /\ ReviewInit
    /\ crashes = 0

ClientAct(c) ==
    /\ Submit(c) \/ DispatchStep(c)
    /\ UNCHANGED <<workerVars, temporal, request, crashes>>

WorkerAct(w) ==
    /\ \/ WorkerStep(w) /\ UNCHANGED temporal
       \/ TemporalWorkerStep(w)
    /\ UNCHANGED <<client, request, crashes>>

TemporalAct(r) ==
    /\ \/ TemporalStep(r)
       \/ \E verdict \in {"APPROVED", "DENIED"} : Signal(r, verdict)
    /\ UNCHANGED <<client, request, crashes>>

RequestAct(q) ==
    /\ Resolve(q) \/ ReviewStep(q)
    /\ UNCHANGED <<client, workerVars, temporal, crashes>>

Crash ==
    /\ crashes < MaxCrashes
    /\ crashes' = crashes + 1
    /\ \/ \E w \in Workers : WorkerCrash(w) /\ UNCHANGED request
       \/ \E q \in Requests : RequestLost(q) /\ UNCHANGED workerVars
    /\ UNCHANGED <<client, temporal>>

Next ==
    \/ \E c \in Clients : ClientAct(c)
    \/ \E w \in Workers : WorkerAct(w)
    \/ \E r \in RunIds : TemporalAct(r)
    \/ \E q \in Requests : RequestAct(q)
    \/ Crash

Spec == Init /\ [][Next]_vars

(***************************************************************************)
(* A worker polls in a loop and is restarted by its deployment, and a      *)
(* request in progress runs on: each of their steps is taken once it stays *)
(* possible.  No caller has to submit and no reviewer has to resolve.      *)
(***************************************************************************)
FairSpec ==
    /\ Spec
    /\ \A c \in Clients : WF_vars(DispatchStep(c) /\ ClientAct(c))
    /\ \A w \in Workers : WF_vars(WorkerAct(w))
    /\ \A r \in RunIds : WF_vars(TemporalStep(r) /\ TemporalAct(r))
    /\ \A q \in Requests : WF_vars(ReviewStep(q) /\ RequestAct(q))

-----------------------------------------------------------------------------
\* Properties

TypeOK ==
    /\ StoreTypeOK /\ DispatchTypeOK /\ WorkerTypeOK /\ TemporalTypeOK
    /\ ReviewTypeOK
    /\ crashes \in Nat

\* The worker still has the execution of its run, or its pause, to decide.
Working(w) ==
    worker[w].pc \in {"claimed", "started", "review", "block", "run", "executing"}

\* The review can still put its run back in the queue: nobody has decided it,
\* or an approval is about to be applied.
OpenReview(v) ==
    \/ reviews[v].status = "PENDING"
    \/ \E q \in Requests :
         /\ request[q].review = v
         /\ request[q].verdict = "APPROVED"
         /\ request[q].pc \in {"read", "write"}

\* At no time do two workers execute the same run (claim_next_queued_runtime_run
\* against the requeue of _approve).
NoConcurrentExecution ==
    \A w1, w2 \in Workers :
        /\ worker[w1].pc = "executing" /\ worker[w2].pc = "executing"
        /\ worker[w1].run = worker[w2].run
        => w1 = w2

\* However pauses, approvals and crashes interleave, a run's agents are
\* executed at most once: the worker does not retry, and each approval gives
\* back exactly the execution its pause gave up.
ExecutedAtMostOnce == \A r \in RunIds : starts[r] <= 1

\* A run is handed to Temporal once: the executions of its agents are the
\* attempts of one durable workflow.
OneWorkflowPerRun ==
    RuntimeType = "temporal" =>
        \A r \in RunIds : starts[r] = temporal[r].attempts

\* A hook that a reviewer has approved for the run.
ApprovedBySomeone(r, h) ==
    \E q \in Requests :
        /\ request[q].verdict = "APPROVED"
        /\ reviews[request[q].review].run = r
        /\ reviews[request[q].review].hook = h

\* A hook the run must not pass without approval: the query matches it and no
\* continue hook that the query matches comes before it.
Gating(r, h) ==
    /\ h \in runs[r].matching
    /\ Manifest[h] # "continue"
    /\ \A g \in runs[r].matching : g < h => Manifest[g] # "continue"

\* A run is executed only after a reviewer approved every hook that guards it,
\* and so never past a block hook, which no review can approve
\* (RuntimeHookManager.evaluate works from the approvals read at the claim).
ApprovedBeforeExecution ==
    \A r \in RunIds : starts[r] > 0 =>
        \A h \in Hooks : Gating(r, h) =>
            /\ Manifest[h] # "block"
            /\ ApprovedBySomeone(r, h)

\* A run with a denied review does not start executing.
DeniedStaysStopped ==
    [][\A r \in RunIds : starts'[r] > starts[r] =>
         \A v \in ReviewIds :
            ~(reviews[v].run = r /\ reviews[v].status = "DENIED")]_vars

\* A RUNNING run is in the hands of a worker that will settle it, or of its
\* workflow, unless the worker that claimed it died.
RunningIsHeld ==
    \A r \in RunIds : runs[r].status = "RUNNING" =>
        \/ r \in abandoned
        \/ \E w \in Workers :
             /\ Working(w) \/ worker[w].pc = "pause"
             /\ worker[w].run = r
        \/ Open(r)

\* Two runs never share an idempotency key (create_workflow_runtime_run, with
\* the unique index of migration 0003).
OneRunPerKey ==
    \A r, s \in RunIds :
        Exists(r) /\ Exists(s) /\ runs[r].key = runs[s].key /\ runs[r].key # NoKey
        => r = s

\* Two requests with one idempotency key that are answered with a run are
\* answered with the same run, whatever raced between look-up and INSERT.
KeyedRequestsAgree ==
    \A c, d \in Clients :
        /\ client[c].pc = "returned" /\ client[d].pc = "returned"
        /\ client[c].key = client[d].key /\ client[c].key # NoKey
        => client[c].run = client[d].run

\* The events of a run never close more attempts than were started: there is a
\* run.started for each run.completed, run.failed, hook.paused and hook.blocked.
CountEvents(r, E) == Cardinality({i \in DOMAIN outbox[r] : outbox[r][i] \in E})

AttemptsAreOpened ==
    \A r \in RunIds :
        CountEvents(r, {"run.completed", "run.failed", "hook.paused",
                        "hook.blocked"})
          <= CountEvents(r, {"run.started"})

\* A status that ends a run or parks it comes with completed_at, and a queued
\* run has none.
CompletionStamped ==
    \A r \in RunIds :
        /\ runs[r].status \in TERMINAL_RUN_STATUSES => runs[r].completed
        /\ runs[r].status = "QUEUED" => ~runs[r].completed

\* A run that waits for review while no review can still decide it.
Stranded(r) ==
    /\ runs[r].status = "REVIEW"
    /\ \A v \in ReviewIds : reviews[v].run = r =>
          /\ reviews[v].status # "PENDING"
          /\ \A q \in Requests : request[q].review = v => request[q].pc \notin {"read", "write"}

\* Every review that parks a run decides it: what strands a run is a pause that is
\* written after its item was resolved (_pause_for_review adds the item first), or
\* a request that dies between the verdict and the run.
OnlyLatePausesStrand ==
    [][\A r \in RunIds : ~Stranded(r) /\ Stranded(r)' =>
         \/ \E w \in Workers : worker[w].run = r /\ worker[w].pc = "pause"
         \/ crashes' > crashes]_vars

\* COMPLETED is final, but for two writes that look at nothing: the start recorded
\* after the workflow was complete (_start_temporal_run), and a pause written
\* after its approval had sent the run on.
CompletedIsFinal ==
    [][\A r \in RunIds : runs[r].status = "COMPLETED" /\ runs'[r].status # "COMPLETED" =>
         \E w \in Workers : worker[w].run = r /\ worker[w].pc \in {"temporal", "pause"}]_vars

\* The right to execute a run is a token that is never duplicated: the system
\* implements RunLifecycle under this reading of its state.
PlaceOf(r) ==
    IF ~Exists(r) THEN "none"
    ELSE IF runs[r].status = "QUEUED" THEN "queue"
    ELSE IF \E w \in Workers : worker[w].run = r /\ worker[w].pc = "executing"
         THEN "agents"
    ELSE IF \E w \in Workers : worker[w].run = r /\ Working(w) THEN "worker"
    ELSE IF \E v \in ReviewIds : reviews[v].run = r /\ OpenReview(v) THEN "reviewer"
    ELSE "over"

Lifecycle == INSTANCE RunLifecycle WITH
    Runs <- RunIds,
    place <- [r \in RunIds |-> PlaceOf(r)],
    executions <- starts

ImplementsLifecycle == Lifecycle!Spec

\* A submitted run is eventually executed, blocked, or parked for a reviewer.
QueuedRunsSettle ==
    \A r \in RunIds :
        runs[r].status = "QUEUED" ~> runs[r].status \in TERMINAL_RUN_STATUSES

-----------------------------------------------------------------------------
(***************************************************************************)
(* The inductive invariant.  The right to execute a run is a token that    *)
(* exists at most once: it is in the queue, with a worker, or with an open *)
(* review, and while it has not been used the run's agents have not run.   *)
(***************************************************************************)

Queued(r) == runs[r].status = "QUEUED"
Holds(w, r) == worker[w].run = r /\ Working(w)
Awaits(v, r) == reviews[v].run = r /\ OpenReview(v)

Fresh(r) == starts[r] = 0 /\ temporal[r] = NoWorkflow

\* What a process works on has been inserted.
ReferencesExist ==
    /\ \A w \in Workers : worker[w].pc # "idle" =>
         worker[w].run \in RunIds /\ Exists(worker[w].run)
    /\ \A w \in Workers : worker[w].pc \in {"review", "pause"} => worker[w].hook \in Hooks
    /\ \A v \in ReviewIds : reviews[v].status # "ABSENT" =>
         /\ reviews[v].run \in RunIds /\ Exists(reviews[v].run)
         /\ reviews[v].hook \in Hooks
    /\ \A q \in Requests : request[q].pc # "idle" =>
         /\ request[q].review \in ReviewIds
         /\ reviews[request[q].review].status \notin {"ABSENT", "PENDING"}

\* An item gets one resolve request, and only that request resolves it.
OneRequestPerReview ==
    /\ \A q \in Requests : request[q].pc = "idle" => request[q].review = NoReview
    /\ \A p, q \in Requests :
        request[p].review = request[q].review /\ request[p].review # NoReview
        => p = q
    /\ \A v \in ReviewIds : reviews[v].status \in {"APPROVED", "DENIED"} =>
        \E q \in Requests : request[q].review = v

TokenIsUnique ==
    /\ \A r \in RunIds, w \in Workers : ~(Queued(r) /\ Holds(w, r))
    /\ \A r \in RunIds, v \in ReviewIds : ~(Queued(r) /\ Awaits(v, r))
    /\ \A r \in RunIds, w \in Workers, v \in ReviewIds : ~(Holds(w, r) /\ Awaits(v, r))
    /\ \A r \in RunIds, w, x \in Workers : Holds(w, r) /\ Holds(x, r) => w = x
    /\ \A r \in RunIds, v, u \in ReviewIds : Awaits(v, r) /\ Awaits(u, r) => v = u

UnusedTokenIsFresh ==
    /\ \A r \in RunIds : ~Exists(r) \/ Queued(r) => Fresh(r)
    /\ \A r \in RunIds, v \in ReviewIds : Awaits(v, r) => Fresh(r)
    /\ \A r \in RunIds, w \in Workers :
         Holds(w, r) /\ worker[w].pc # "executing" => Fresh(r)

\* What becomes of a used token depends on the runtime.
UsedOnce ==
    \A r \in RunIds :
        IF RuntimeType = "temporal" THEN starts[r] = temporal[r].attempts
        ELSE starts[r] <= 1 /\ temporal[r] = NoWorkflow

\* With one resolution per item, a run's token is never duplicated and is used
\* at most once (claim_next_queued_runtime_run, _pause_for_review, _approve).
TokenInvariant ==
    /\ ReferencesExist
    /\ OneRequestPerReview
    /\ TokenIsUnique
    /\ UnusedTokenIsFresh
    /\ UsedOnce

(***************************************************************************)
(* The inductive invariant behind ApprovedBeforeExecution: an approval is  *)
(* copied from the run to a worker or a request and back, and every copy   *)
(* goes back to a verdict.                                                 *)
(***************************************************************************)

\* Every hook that guards the run is one a reviewer may and did approve.
GateOpen(r) ==
    \A h \in Hooks : Gating(r, h) => Manifest[h] # "block" /\ ApprovedBySomeone(r, h)

\* Only pausing hooks go to review, so no block hook is ever approved.
ReviewsArePauses ==
    /\ \A w \in Workers : worker[w].pc = "review" =>
         Manifest[worker[w].hook] \in {"pause_for_review", "escalate"}
    /\ \A v \in ReviewIds : reviews[v].status # "ABSENT" =>
         Manifest[reviews[v].hook] \in {"pause_for_review", "escalate"}

ApprovalsAreReal ==
    /\ \A q \in Requests : request[q].pc = "idle" => request[q].verdict = "NONE"
    /\ \A r \in RunIds : \A h \in runs[r].approved : ApprovedBySomeone(r, h)
    /\ \A r \in RunIds, w \in Workers : worker[w].pc # "idle" /\ worker[w].run = r =>
         \A h \in worker[w].approved : ApprovedBySomeone(r, h)
    /\ \A r \in RunIds, q \in Requests : request[q].pc = "write" /\ RunOf(q) = r =>
         \A h \in request[q].approved : ApprovedBySomeone(r, h)

PassedHooksAreOpen ==
    \A r \in RunIds :
        /\ \A w \in Workers :
             worker[w].pc \in {"run", "executing"} /\ worker[w].run = r => GateOpen(r)
        /\ starts[r] > 0 \/ temporal[r] # NoWorkflow => Exists(r) /\ GateOpen(r)

\* Every approval a run, a worker or a request carries was given, and only runs
\* whose guarding hooks are approved get past the hooks (evaluate, _approve).
GateInvariant ==
    ReferencesExist /\ ReviewsArePauses /\ ApprovalsAreReal /\ PassedHooksAreOpen

\* What holds of all rows of the runtime at once: the token and the approvals, and
\* beside them that completed_at and the event log follow the status through any
\* sequence of pauses, approvals and claims.
RunInvariant ==
    /\ TypeOK
    /\ TokenInvariant
    /\ GateInvariant
    /\ AttemptsAreOpened
    /\ CompletionStamped
=============================================================================
