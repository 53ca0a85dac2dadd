-------------------------- MODULE RuntimeRunsProofs --------------------------
(***************************************************************************)
(* Theorems about RuntimeRuns, for every number of runs, reviews, clients, *)
(* workers, requests and crashes, and every hook manifest; and about the   *)
(* event stream of a run, for every number of producers and rounds.        *)
(***************************************************************************)
EXTENDS RuntimeRuns, EventStream, TLAPS, WellFoundedInduction, FiniteSetTheorems

-----------------------------------------------------------------------------
\* What the row operators return.

\* update_workflow_runtime_run with a status makes a row of a row.
LEMMA WithStatusType ==
    ASSUME NEW row \in Run, NEW s \in RunStatus
    PROVE  WithStatus(row, s) \in Run
  <1> DEFINE c == row.completed \/ s \in TERMINAL_RUN_STATUSES
  <1>1. c \in BOOLEAN
    OBVIOUS
  <1>2. WithStatus(row, s) = [row EXCEPT !.status = s, !.completed = c]
    BY DEF WithStatus, Run
  <1> HIDE DEF c
  <1> QED BY <1>1, <1>2 DEF Run

\* ... and so does one with a decision.
LEMMA WithOutcomeType ==
    ASSUME NEW row \in Run, NEW s \in RunStatus, NEW d \in Decisions
    PROVE  WithOutcome(row, s, d) \in Run
  <1>1. WithStatus(row, s) \in Run
    BY WithStatusType
  <1> HIDE DEF WithStatus
  <1> QED BY <1>1 DEF WithOutcome, Run

\* A submission makes a row.
LEMMA QueuedRowType ==
    ASSUME NEW k \in Keys \cup {NoKey}, NEW m \in SUBSET Hooks
    PROVE  QueuedRow(k, m) \in Run
  BY DEF QueuedRow, Run, RunStatus, ACTIVE_RUN_STATUSES, Decisions

\* The fields of a row that a status write leaves or sets.
LEMMA WithStatusFields ==
    ASSUME NEW row \in Run, NEW s \in RunStatus
    PROVE  /\ WithStatus(row, s).status = s
           /\ WithStatus(row, s).key = row.key
           /\ WithStatus(row, s).matching = row.matching
           /\ WithStatus(row, s).approved = row.approved
  BY DEF WithStatus, Run

LEMMA WithOutcomeFields ==
    ASSUME NEW row \in Run, NEW s \in RunStatus, NEW d \in Decisions
    PROVE  /\ WithOutcome(row, s, d).status = s
           /\ WithOutcome(row, s, d).key = row.key
           /\ WithOutcome(row, s, d).matching = row.matching
           /\ WithOutcome(row, s, d).approved = row.approved
  BY DEF WithOutcome, WithStatus, Run

\* A set of naturals that is not empty has a least element.
LEMMA LeastElement ==
    ASSUME NEW S \in SUBSET Nat, S # {}
    PROVE  \E x \in S : \A y \in S : x <= y
  <1> DEFINE less == OpToRel(<, Nat)
  <1>1. IsWellFoundedOn(less, Nat)
    BY NatLessThanWellFounded
  <1>2. \A x, y \in Nat : y < x => <<y, x>> \in less
    BY DEF OpToRel
  <1> HIDE DEF less
  <1>3. PICK x \in S : \A y \in S : ~(<<y, x>> \in less)
    BY <1>1, WFMin
  <1>4. \A y \in S : ~(y < x)
    BY <1>2, <1>3
  <1> QED BY <1>4

\* The first matching hook is the least hook that is matched and not approved.
LEMMA FirstMatchingHookMeaning ==
    ASSUME NEW matching \in SUBSET Hooks, NEW approved \in SUBSET Hooks
    PROVE  LET h == FirstMatchingHook(matching, approved)
           IN  \/ h = NoHook /\ matching \subseteq approved
               \/ /\ h \in matching \ approved
                  /\ \A g \in matching \ approved : h <= g
  <1> DEFINE open == matching \ approved
             h == FirstMatchingHook(matching, approved)
  <1>1. CASE open = {}
    BY <1>1 DEF FirstMatchingHook
  <1>2. CASE open # {}
    <2>1. open \in SUBSET Nat
      BY StoreAssumption DEF Hooks
    <2>2. \E x \in open : \A y \in open : x <= y
      BY <1>2, <2>1, LeastElement
    <2>3. h = CHOOSE x \in open : \A y \in open : x <= y
      BY <1>2 DEF FirstMatchingHook
    <2> QED BY <2>2, <2>3
  <1> QED BY <1>1, <1>2

-----------------------------------------------------------------------------
\* Type correctness

\* Writing a row keeps the table a table.
LEMMA UpdateRunType ==
    ASSUME runs \in [RunIds -> Run], NEW r, NEW row, r \in RunIds => row \in Run,
           UpdateRun(r, row)
    PROVE  runs' \in [RunIds -> Run]
  BY DEF UpdateRun

\* Appending an event keeps the outbox one sequence per run.
LEMMA AppendEventType ==
    ASSUME outbox \in [RunIds -> Seq(EventTypes)], NEW r, NEW e \in EventTypes,
           AppendEvent(r, e)
    PROVE  outbox' \in [RunIds -> Seq(EventTypes)]
  <1>1. \A log \in Seq(EventTypes) : Append(log, e) \in Seq(EventTypes)
    OBVIOUS
  <1> QED BY <1>1 DEF AppendEvent

\* A status write to a run keeps the table a table.
LEMMA StatusWriteType ==
    ASSUME runs \in [RunIds -> Run], NEW r, NEW s \in RunStatus,
           UpdateRun(r, WithStatus(runs[r], s))
    PROVE  runs' \in [RunIds -> Run]
  <1>1. r \in RunIds => WithStatus(runs[r], s) \in Run
    BY WithStatusType
  <1> QED BY <1>1, UpdateRunType

LEMMA OutcomeWriteType ==
    ASSUME runs \in [RunIds -> Run], NEW r, NEW s \in RunStatus, NEW d \in Decisions,
           UpdateRun(r, WithOutcome(runs[r], s, d))
    PROVE  runs' \in [RunIds -> Run]
  <1>1. r \in RunIds => WithOutcome(runs[r], s, d) \in Run
    BY WithOutcomeType
  <1> QED BY <1>1, UpdateRunType

\* The submissions preserve the types.
LEMMA DispatchTypeStep ==
    ASSUME StoreTypeOK, DispatchTypeOK, NEW c \in Clients,
           Submit(c) \/ DispatchStep(c)
    PROVE  StoreTypeOK' /\ DispatchTypeOK'
  <1> USE DEF DispatchTypeOK, ClientState, ClientPc
  <1>1. ASSUME NEW r \in RunIds \cup {NoRun}, Return(c, r)
        PROVE  DispatchTypeOK'
    BY <1>1, ZenonT(30) DEF Return
  <1>2. ASSUME NEW pc \in ClientPc, Refuse(c, pc)
        PROVE  DispatchTypeOK'
    BY <1>2 DEF Refuse
  <1>3. CASE Submit(c)
    <2>1. StoreTypeOK'
      BY <1>3 DEF Submit, StoreTypeOK, storeVars
    <2>2. PICK x \in ClientState : client' = [client EXCEPT ![c] = x]
      <3>1. PICK k \in Keys \cup {NoKey}, m \in SUBSET Hooks :
              LET found == IF k = NoKey THEN {} ELSE RunsWithKey(k)
                  req == [client[c] EXCEPT !.key = k, !.matching = m]
              IN  \/ /\ found = {}
                     /\ client' = [client EXCEPT ![c] = [req EXCEPT !.pc = "create"]]
                  \/ \E r \in RunIds :
                      /\ IsNewest(r, found)
                      /\ client' = [client EXCEPT ![c] =
                           IF runs[r].status \in ACTIVE_RUN_STATUSES
                           THEN [req EXCEPT !.pc = "duplicate"]
                           ELSE [req EXCEPT !.pc = "returned", !.run = r]]
        BY <1>3 DEF Submit
      <3> DEFINE req == [client[c] EXCEPT !.key = k, !.matching = m]
      <3>2. req \in ClientState
        OBVIOUS
      <3> HIDE DEF req
      <3>3. /\ [req EXCEPT !.pc = "create"] \in ClientState
            /\ [req EXCEPT !.pc = "duplicate"] \in ClientState
            /\ \A r \in RunIds :
                 [req EXCEPT !.pc = "returned", !.run = r] \in ClientState
        BY <3>2
      <3> QED BY <3>1, <3>3 DEF req
    <2>3. DispatchTypeOK'
      BY <2>2
    <2> QED BY <2>1, <2>3
  <1>4. CASE CreateLookup(c)
    <2>1. DispatchTypeOK'
      BY <1>4, <1>1, <1>2 DEF CreateLookup, RunsWithKey
    <2> QED BY <2>1, <1>4 DEF CreateLookup, StoreTypeOK, storeVars
  <1>5. CASE CreateInsert(c)
    <2>1. PICK r \in RunIds : /\ UpdateRun(r, QueuedRow(client[c].key, client[c].matching))
                              /\ Return(c, r)
      BY <1>5 DEF CreateInsert
    <2>2. QueuedRow(client[c].key, client[c].matching) \in Run
      BY QueuedRowType
    <2>3. runs' \in [RunIds -> Run]
      BY <2>1, <2>2, UpdateRunType DEF StoreTypeOK
    <2>4. DispatchTypeOK'
      BY <2>1, <1>1
    <2> QED BY <2>3, <2>4, <1>5 DEF CreateInsert, StoreTypeOK
  <1>6. CASE CreateConflict(c)
    <2>1. DispatchTypeOK'
      BY <1>6, <1>2 DEF CreateConflict
    <2> QED BY <2>1, <1>6 DEF CreateConflict, StoreTypeOK, storeVars
  <1> QED BY <1>3, <1>4, <1>5, <1>6 DEF DispatchStep

\* The workers' steps preserve the types.
LEMMA WorkerTypeStep ==
    ASSUME StoreTypeOK, WorkerTypeOK, ReferencesExist, NEW w \in Workers,
           WorkerStep(w) \/ WorkerCrash(w)
    PROVE  StoreTypeOK' /\ WorkerTypeOK'
  <1> DEFINE WorkersOK == worker \in [Workers -> WorkerState]
  <1>1. ASSUME NEW pc \in WorkerPc, Goto(w, pc)
        PROVE  WorkersOK'
    BY <1>1 DEF Goto, WorkerTypeOK, WorkerState
  <1>2. ASSUME Rest(w)
        PROVE  WorkersOK'
    BY <1>2 DEF Rest, Idle, WorkerTypeOK, WorkerState, WorkerPc
  <1>3. /\ runs \in [RunIds -> Run] /\ reviews \in [ReviewIds -> Review]
        /\ outbox \in [RunIds -> Seq(EventTypes)]
    BY DEF StoreTypeOK
  <1>4. /\ worker \in [Workers -> WorkerState]
        /\ starts \in [RunIds -> Nat] /\ abandoned \in SUBSET RunIds
    BY DEF WorkerTypeOK
  <1>5. {"claimed", "started", "review", "pause", "paused", "block", "blocked",
         "run", "executing", "completed", "failed"} \subseteq WorkerPc
    BY DEF WorkerPc
  <1>6. RunStatus = {"QUEUED", "RUNNING", "COMPLETED", "FAILED", "BLOCKED", "REVIEW"}
    BY DEF RunStatus, ACTIVE_RUN_STATUSES, TERMINAL_RUN_STATUSES
  <1>7. Decisions = {"NONE", "ALLOW", "REVIEW", "BLOCK", "DENY"}
    BY DEF Decisions
  <1>8. CASE Claim(w)
    <2>1. PICK r \in RunIds :
            /\ UpdateRun(r, [runs[r] EXCEPT !.status = "RUNNING"])
            /\ worker' = [worker EXCEPT ![w] =
                 [pc |-> "claimed", run |-> r, approved |-> runs[r].approved,
                  hook |-> NoHook]]
      BY <1>8 DEF Claim
    <2>2. [runs[r] EXCEPT !.status = "RUNNING"] \in Run
      BY <1>3, <1>6 DEF Run
    <2>3. runs' \in [RunIds -> Run]
      BY <1>3, <2>1, <2>2, UpdateRunType
    <2>4. runs[r].approved \in SUBSET Hooks
      BY <1>3 DEF Run
    <2>5. WorkersOK'
      BY <1>4, <1>5, <2>1, <2>4 DEF WorkerState
    <2> QED BY <1>3, <1>4, <1>8, <2>3, <2>5 DEF Claim, StoreTypeOK, WorkerTypeOK
  <1>9. CASE MarkRunning(w)
    <2>1. runs' \in [RunIds -> Run]
      BY <1>3, <1>6, <1>9, StatusWriteType DEF MarkRunning
    <2>2. WorkersOK'
      BY <1>1, <1>5, <1>9 DEF MarkRunning
    <2> QED BY <1>3, <1>4, <1>9, <2>1, <2>2 DEF MarkRunning, StoreTypeOK, WorkerTypeOK
  <1>10. CASE AppendStarted(w)
    <2> DEFINE h == FirstMatchingHook(runs[worker[w].run].matching, worker[w].approved)
    <2>1. outbox' \in [RunIds -> Seq(EventTypes)]
      BY <1>3, <1>10, AppendEventType DEF AppendStarted, EventTypes
    <2>2. WorkersOK'
      <3>1. worker' = [worker EXCEPT ![w].hook = h, ![w].pc = AfterHook(h)]
        BY <1>10 DEF AppendStarted
      <3>2. AfterHook(h) \in WorkerPc
        BY <1>5 DEF AfterHook
      <3>3. h \in Hooks \cup {NoHook}
        <4>1. worker[w].run \in RunIds
          BY <1>10 DEF AppendStarted, ReferencesExist
        <4>2. /\ runs[worker[w].run].matching \in SUBSET Hooks
              /\ worker[w].approved \in SUBSET Hooks
          BY <1>3, <1>4, <4>1 DEF Run, WorkerState
        <4> QED BY <4>2, FirstMatchingHookMeaning
      <3> QED BY <1>4, <3>1, <3>2, <3>3, ZenonT(30) DEF WorkerState
    <2> QED BY <1>3, <1>4, <1>10, <2>1, <2>2 DEF AppendStarted, StoreTypeOK, WorkerTypeOK
  <1>11. CASE AddReviewItem(w)
    <2>1. PICK v \in ReviewIds :
            reviews' = [reviews EXCEPT ![v] =
              [status |-> "PENDING", run |-> worker[w].run, hook |-> worker[w].hook]]
      BY <1>11 DEF AddReviewItem
    <2>2. [status |-> "PENDING", run |-> worker[w].run, hook |-> worker[w].hook] \in Review
      BY <1>4 DEF Review, WorkerState
    <2>3. reviews' \in [ReviewIds -> Review]
      BY <1>3, <2>1, <2>2
    <2>4. WorkersOK'
      BY <1>1, <1>5, <1>11 DEF AddReviewItem
    <2> QED BY <1>3, <1>4, <1>11, <2>3, <2>4 DEF AddReviewItem, StoreTypeOK, WorkerTypeOK
  <1>12. CASE MarkPaused(w)
    <2>1. runs' \in [RunIds -> Run]
      BY <1>3, <1>6, <1>7, <1>12, OutcomeWriteType DEF MarkPaused
    <2>2. WorkersOK'
      BY <1>1, <1>5, <1>12 DEF MarkPaused
    <2> QED BY <1>3, <1>4, <1>12, <2>1, <2>2 DEF MarkPaused, StoreTypeOK, WorkerTypeOK
  <1>13. CASE MarkBlocked(w)
    <2>1. runs' \in [RunIds -> Run]
      BY <1>3, <1>6, <1>7, <1>13, OutcomeWriteType DEF MarkBlocked
    <2>2. WorkersOK'
      BY <1>1, <1>5, <1>13 DEF MarkBlocked
    <2> QED BY <1>3, <1>4, <1>13, <2>1, <2>2 DEF MarkBlocked, StoreTypeOK, WorkerTypeOK
  <1>14. CASE BeginExecution(w)
    <2>1. WorkersOK'
      BY <1>1, <1>5, <1>14 DEF BeginExecution
    <2>2. starts' \in [RunIds -> Nat]
      <3>1. starts' = [starts EXCEPT ![worker[w].run] = @ + 1]
        BY <1>14 DEF BeginExecution
      <3>2. worker[w].run \in RunIds
        BY <1>14 DEF BeginExecution, ReferencesExist
      <3> QED BY <1>4, <3>1, <3>2
    <2> QED BY <1>3, <1>4, <1>14, <2>1, <2>2
            DEF BeginExecution, storeVars, StoreTypeOK, WorkerTypeOK
  <1>15. CASE FinishExecution(w)
    <2>1. runs' \in [RunIds -> Run]
      BY <1>3, <1>6, <1>7, <1>15, OutcomeWriteType DEF FinishExecution
    <2>2. WorkersOK'
      BY <1>1, <1>5, <1>15 DEF FinishExecution
    <2> QED BY <1>3, <1>4, <1>15, <2>1, <2>2 DEF FinishExecution, StoreTypeOK, WorkerTypeOK
  <1>16. CASE FailExecution(w)
    <2>1. runs' \in [RunIds -> Run]
      BY <1>3, <1>6, <1>16, StatusWriteType DEF FailExecution
    <2>2. WorkersOK'
      BY <1>1, <1>5, <1>16 DEF FailExecution
    <2> QED BY <1>3, <1>4, <1>16, <2>1, <2>2 DEF FailExecution, StoreTypeOK, WorkerTypeOK
  <1>17. CASE AppendClosing(w)
    <2>1. ClosingEvent[worker[w].pc] \in EventTypes
      BY <1>17 DEF AppendClosing, ClosingEvent, EventTypes
    <2>2. outbox' \in [RunIds -> Seq(EventTypes)]
      BY <1>3, <1>17, <2>1, AppendEventType DEF AppendClosing
    <2>3. WorkersOK'
      BY <1>2, <1>17 DEF AppendClosing
    <2> QED BY <1>3, <1>4, <1>17, <2>2, <2>3 DEF AppendClosing, StoreTypeOK, WorkerTypeOK
  <1>18. ASSUME Die(w), worker[w].pc # "idle"
         PROVE  StoreTypeOK' /\ WorkerTypeOK'
    <2>1. WorkersOK'
      BY <1>2, <1>18 DEF Die
    <2>2. abandoned' \in SUBSET RunIds
      BY <1>4, <1>18 DEF Die, ReferencesExist
    <2> QED BY <1>3, <1>4, <1>18, <2>1, <2>2 DEF Die, storeVars, StoreTypeOK, WorkerTypeOK
  <1>19. CASE RunnerFactoryRaises(w)
    BY <1>18, <1>19 DEF RunnerFactoryRaises
  <1>20. CASE WorkerCrash(w)
    BY <1>18, <1>20 DEF WorkerCrash
  <1> QED BY <1>8, <1>9, <1>10, <1>11, <1>12, <1>13, <1>14, <1>15, <1>16, <1>17,
             <1>19, <1>20 DEF WorkerStep

\* The Temporal steps preserve the types.
LEMMA TemporalTypeStep ==
    ASSUME StoreTypeOK, WorkerTypeOK, TemporalTypeOK,
           \/ \E w \in Workers : TemporalWorkerStep(w)
           \/ \E r \in RunIds : \/ TemporalStep(r)
                                \/ \E verdict \in {"APPROVED", "DENIED"} : Signal(r, verdict)
    PROVE  StoreTypeOK' /\ WorkerTypeOK' /\ TemporalTypeOK'
  <1>1. /\ runs \in [RunIds -> Run] /\ reviews \in [ReviewIds -> Review]
        /\ outbox \in [RunIds -> Seq(EventTypes)]
    BY DEF StoreTypeOK
  <1>2. /\ worker \in [Workers -> WorkerState]
        /\ starts \in [RunIds -> Nat] /\ abandoned \in SUBSET RunIds
    BY DEF WorkerTypeOK
  <1>3. temporal \in [RunIds -> TemporalState]
    BY DEF TemporalTypeOK
  <1>4. NoWorkflow \in TemporalState /\ [NoWorkflow EXCEPT !.pc = "execute"] \in TemporalState
    BY DEF NoWorkflow, TemporalState, Decisions
  <1>5. ASSUME NEW r, OpenWorkflow(r)
        PROVE  temporal' \in [RunIds -> TemporalState]
    BY <1>3, <1>4, <1>5 DEF OpenWorkflow
  <1>6. ASSUME NEW w \in Workers, NEW pc \in WorkerPc, Goto(w, pc)
        PROVE  worker' \in [Workers -> WorkerState]
    BY <1>2, <1>6 DEF Goto, WorkerState
  <1>7. RunStatus = {"QUEUED", "RUNNING", "COMPLETED", "FAILED", "BLOCKED", "REVIEW"}
    BY DEF RunStatus, ACTIVE_RUN_STATUSES, TERMINAL_RUN_STATUSES
  <1>8. {"failed", "temporal", "temporal_started"} \subseteq WorkerPc
    BY DEF WorkerPc
  <1>9. ASSUME NEW w \in Workers, StartTemporal(w)
        PROVE  StoreTypeOK' /\ WorkerTypeOK' /\ TemporalTypeOK'
    <2>1. worker' \in [Workers -> WorkerState]
      BY <1>6, <1>8, <1>9 DEF StartTemporal
    <2>2. temporal' \in [RunIds -> TemporalState]
      BY <1>5, <1>9 DEF StartTemporal
    <2> QED BY <1>1, <1>2, <1>9, <2>1, <2>2
            DEF StartTemporal, storeVars, StoreTypeOK, WorkerTypeOK, TemporalTypeOK
  <1>10. ASSUME NEW w \in Workers, StartTemporalFails(w)
         PROVE  StoreTypeOK' /\ WorkerTypeOK' /\ TemporalTypeOK'
    <2>1. worker' \in [Workers -> WorkerState]
      BY <1>6, <1>8, <1>10 DEF StartTemporalFails
    <2>2. temporal' \in [RunIds -> TemporalState]
      BY <1>3, <1>5, <1>10 DEF StartTemporalFails
    <2>3. runs' \in [RunIds -> Run]
      BY <1>1, <1>7, <1>10, StatusWriteType DEF StartTemporalFails
    <2> QED BY <1>1, <1>2, <1>10, <2>1, <2>2, <2>3
            DEF StartTemporalFails, StoreTypeOK, WorkerTypeOK, TemporalTypeOK
  <1>11. ASSUME NEW w \in Workers, RecordTemporalStart(w)
         PROVE  StoreTypeOK' /\ WorkerTypeOK' /\ TemporalTypeOK'
    <2>1. worker' \in [Workers -> WorkerState]
      BY <1>6, <1>8, <1>11 DEF RecordTemporalStart
    <2>2. runs' \in [RunIds -> Run]
      BY <1>1, <1>7, <1>11, StatusWriteType DEF RecordTemporalStart
    <2> QED BY <1>1, <1>2, <1>3, <1>11, <2>1, <2>2
            DEF RecordTemporalStart, StoreTypeOK, WorkerTypeOK, TemporalTypeOK
  <1>12. ASSUME NEW r \in RunIds, ExecuteAgentNode(r)
         PROVE  StoreTypeOK' /\ WorkerTypeOK' /\ TemporalTypeOK'
    <2>1. temporal' \in [RunIds -> TemporalState]
      BY <1>3, <1>12 DEF ExecuteAgentNode, TemporalState
    <2>2. starts' \in [RunIds -> Nat]
      BY <1>2, <1>12 DEF ExecuteAgentNode
    <2> QED BY <1>1, <1>2, <1>12, <2>1, <2>2
            DEF ExecuteAgentNode, storeVars, StoreTypeOK, WorkerTypeOK, TemporalTypeOK
  <1>13. ASSUME NEW r \in RunIds, NEW verdict \in {"APPROVED", "DENIED"},
                RetryAgentNode(r) \/ AgentNodeDone(r) \/ ReviewDecided(r) \/ Signal(r, verdict)
         PROVE  StoreTypeOK' /\ WorkerTypeOK' /\ TemporalTypeOK'
    <2>1. temporal' \in [RunIds -> TemporalState]
      <3>1. CASE RetryAgentNode(r)
        BY <1>3, <3>1 DEF RetryAgentNode, TemporalState
      <3>2. CASE AgentNodeDone(r)
        BY <1>3, <3>2 DEF AgentNodeDone, TemporalState, Decisions
      <3>3. CASE ReviewDecided(r)
        BY <1>3, <3>3 DEF ReviewDecided, TemporalState
      <3>4. CASE Signal(r, verdict)
        BY <1>3, <3>4 DEF Signal, TemporalState
      <3> QED BY <1>13, <3>1, <3>2, <3>3, <3>4
    <2>2. UNCHANGED <<storeVars, workerVars>>
      BY <1>13 DEF RetryAgentNode, AgentNodeDone, ReviewDecided, Signal
    <2> QED BY <1>1, <1>2, <2>1, <2>2
            DEF storeVars, workerVars, StoreTypeOK, WorkerTypeOK, TemporalTypeOK
  <1>14. ASSUME NEW r \in RunIds, CompleteRuntimeRun(r)
         PROVE  StoreTypeOK' /\ WorkerTypeOK' /\ TemporalTypeOK'
    <2>1. temporal' \in [RunIds -> TemporalState]
      BY <1>3, <1>14 DEF CompleteRuntimeRun, TemporalState
    <2>2. PICK s \in RunStatus : UpdateRun(r, WithOutcome(runs[r], s, temporal[r].decision))
      BY <1>7, <1>14 DEF CompleteRuntimeRun
    <2>3. temporal[r].decision \in Decisions
      BY <1>3 DEF TemporalState
    <2>4. runs' \in [RunIds -> Run]
      BY <1>1, <2>2, <2>3, OutcomeWriteType
    <2> QED BY <1>1, <1>2, <1>14, <2>1, <2>4
            DEF CompleteRuntimeRun, workerVars, StoreTypeOK, WorkerTypeOK, TemporalTypeOK
  <1> QED BY <1>9, <1>10, <1>11, <1>12, <1>13, <1>14 DEF TemporalWorkerStep, TemporalStep

\* The steps of a resolve request preserve the types.
LEMMA ReviewTypeStep ==
    ASSUME StoreTypeOK, ReviewTypeOK, ReferencesExist, NEW q \in Requests,
           Resolve(q) \/ ReviewStep(q) \/ RequestLost(q)
    PROVE  StoreTypeOK' /\ ReviewTypeOK'
  <1>1. /\ runs \in [RunIds -> Run] /\ reviews \in [ReviewIds -> Review]
        /\ outbox \in [RunIds -> Seq(EventTypes)]
        /\ request \in [Requests -> RequestState]
    BY DEF StoreTypeOK, ReviewTypeOK
  <1>2. RunStatus = {"QUEUED", "RUNNING", "COMPLETED", "FAILED", "BLOCKED", "REVIEW"}
    BY DEF RunStatus, ACTIVE_RUN_STATUSES, TERMINAL_RUN_STATUSES
  <1>3. request[q].pc # "idle" => RunOf(q) \in RunIds /\ HookOf(q) \in Hooks
    BY DEF ReferencesExist, RunOf, HookOf
  <1>4. ASSUME NEW pc \in RequestPc, request' = [request EXCEPT ![q].pc = pc]
        PROVE  request' \in [Requests -> RequestState]
    BY <1>1, <1>4 DEF RequestState
  <1>5. {"read", "write", "event", "done", "lost"} \subseteq RequestPc
    BY DEF RequestPc
  <1>6. CASE Resolve(q)
    <2>0. PICK v \in ReviewIds, verdict \in {"APPROVED", "DENIED"} :
            /\ reviews' = [reviews EXCEPT ![v].status = verdict]
            /\ request' = [request EXCEPT ![q].pc = "read", ![q].review = v,
                                          ![q].verdict = verdict]
      BY <1>6 DEF Resolve
    <2>1. reviews' \in [ReviewIds -> Review]
      BY <1>1, <2>0 DEF Review
    <2>2. request' \in [Requests -> RequestState]
      BY <1>1, <1>5, <2>0, ZenonT(30) DEF RequestState
    <2> QED BY <1>1, <1>6, <2>1, <2>2 DEF Resolve, StoreTypeOK, ReviewTypeOK
  <1>7. CASE ReadRun(q)
    <2>1. runs[RunOf(q)].approved \in SUBSET Hooks
      BY <1>1, <1>3, <1>7 DEF ReadRun, Run
    <2>2. request' \in [Requests -> RequestState]
      BY <1>1, <1>5, <1>7, <2>1, ZenonT(30) DEF ReadRun, RequestState
    <2> QED BY <1>1, <1>7, <2>2 DEF ReadRun, storeVars, StoreTypeOK, ReviewTypeOK
  <1>8. CASE ApproveRun(q)
    <2> DEFINE row == [runs[RunOf(q)] EXCEPT
                         !.status = "QUEUED", !.decision = "NONE", !.completed = FALSE,
                         !.approved = request[q].approved \cup {HookOf(q)}]
    <2>1. UpdateRun(RunOf(q), row)
      BY <1>8 DEF ApproveRun
    <2>2. row \in Run
      <3>1. request[q].approved \in SUBSET Hooks
        BY <1>1 DEF RequestState
      <3>2. RunOf(q) \in RunIds /\ HookOf(q) \in Hooks
        BY <1>3, <1>8 DEF ApproveRun
      <3>3. request[q].approved \cup {HookOf(q)} \in SUBSET Hooks
        BY <3>1, <3>2
      <3>4. runs[RunOf(q)] \in Run
        BY <1>1, <3>2
      <3> QED BY <1>2, <3>3, <3>4 DEF Run, Decisions
    <2> HIDE DEF row
    <2>3. runs' \in [RunIds -> Run]
      BY <1>1, <2>1, <2>2, UpdateRunType
    <2>4. request' \in [Requests -> RequestState]
      BY <1>4, <1>5, <1>8 DEF ApproveRun
    <2> QED BY <1>1, <1>8, <2>3, <2>4 DEF ApproveRun, StoreTypeOK, ReviewTypeOK
  <1>9. CASE DenyRun(q)
    <2>1. runs' \in [RunIds -> Run]
      BY <1>1, <1>2, <1>9, OutcomeWriteType DEF DenyRun, Decisions
    <2>2. request' \in [Requests -> RequestState]
      BY <1>4, <1>5, <1>9 DEF DenyRun
    <2> QED BY <1>1, <1>9, <2>1, <2>2 DEF DenyRun, StoreTypeOK, ReviewTypeOK
  <1>10. CASE AppendVerdict(q)
    <2>1. outbox' \in [RunIds -> Seq(EventTypes)]
      BY <1>1, <1>10, AppendEventType DEF AppendVerdict, EventTypes
    <2>2. request' \in [Requests -> RequestState]
      BY <1>4, <1>5, <1>10 DEF AppendVerdict
    <2> QED BY <1>1, <1>10, <2>1, <2>2 DEF AppendVerdict, StoreTypeOK, ReviewTypeOK
  <1>11. CASE RequestLost(q)
    <2>1. request' \in [Requests -> RequestState]
      BY <1>4, <1>5, <1>11 DEF RequestLost
    <2> QED BY <1>1, <1>11, <2>1 DEF RequestLost, storeVars, StoreTypeOK, ReviewTypeOK
  <1> QED BY <1>6, <1>7, <1>8, <1>9, <1>10, <1>11 DEF ReviewStep

-----------------------------------------------------------------------------
\* What the steps do to the fields the invariants speak of

LEMMA StatusWriteEffect ==
    ASSUME runs \in [RunIds -> Run], NEW r, NEW s \in RunStatus,
           UpdateRun(r, WithStatus(runs[r], s)) 
    PROVE  \A x \in RunIds :
             /\ runs'[x].status = IF x = r THEN s ELSE runs[x].status
             /\ runs'[x].key = runs[x].key
             /\ runs'[x].matching = runs[x].matching
             /\ runs'[x].approved = runs[x].approved
  <1> TAKE x \in RunIds
  <1>1. CASE x = r
    <2>1. runs'[x] = WithStatus(runs[x], s)
      BY <1>1 DEF UpdateRun
    <2> QED BY <1>1, <2>1, WithStatusFields
  <1>2. CASE x # r
    BY <1>2 DEF UpdateRun
  <1> QED BY <1>1, <1>2

LEMMA OutcomeWriteEffect ==
    ASSUME runs \in [RunIds -> Run], NEW r, NEW s \in RunStatus, NEW d \in Decisions,
           UpdateRun(r, WithOutcome(runs[r], s, d))
    PROVE  \A x \in RunIds :
             /\ runs'[x].status = IF x = r THEN s ELSE runs[x].status
             /\ runs'[x].key = runs[x].key
             /\ runs'[x].matching = runs[x].matching
             /\ runs'[x].approved = runs[x].approved
  <1> TAKE x \in RunIds
  <1>1. CASE x = r
    <2>1. runs'[x] = WithOutcome(runs[x], s, d)
      BY <1>1 DEF UpdateRun
    <2> QED BY <1>1, <2>1, WithOutcomeFields
  <1>2. CASE x # r
    BY <1>2 DEF UpdateRun
  <1> QED BY <1>1, <1>2

LEMMA GotoEffect ==
    ASSUME worker \in [Workers -> WorkerState], NEW w \in Workers, NEW pc, Goto(w, pc)
    PROVE  \A x \in Workers :
             /\ worker'[x].pc = IF x = w THEN pc ELSE worker[x].pc
             /\ worker'[x].run = worker[x].run
             /\ worker'[x].hook = worker[x].hook
             /\ worker'[x].approved = worker[x].approved
  BY DEF Goto, WorkerState

LEMMA RestEffect ==
    ASSUME worker \in [Workers -> WorkerState], NEW w \in Workers, Rest(w)
    PROVE  \A x \in Workers : worker'[x] = IF x = w THEN Idle ELSE worker[x]
  BY DEF Rest

\* A request step that only moves on keeps what the request is about.
LEMMA RequestPcEffect ==
    ASSUME request \in [Requests -> RequestState], NEW q \in Requests, NEW pc,
           request' = [request EXCEPT ![q].pc = pc]
    PROVE  \A x \in Requests :
             /\ request'[x].pc = IF x = q THEN pc ELSE request[x].pc
             /\ request'[x].review = request[x].review
             /\ request'[x].verdict = request[x].verdict
             /\ request'[x].approved = request[x].approved
  BY DEF RequestState

-----------------------------------------------------------------------------
\* References

\* The step forgets no run, gives no worker, review item or request another
\* run or review, and lets no item fall back to pending.
RunsKept == \A r \in RunIds : Exists(r) => Exists(r)'

WorkersKept ==
    \A w \in Workers : worker'[w].pc # "idle" =>
        /\ worker[w].pc # "idle"
        /\ worker'[w].run = worker[w].run
        /\ worker'[w].pc \in {"review", "pause"} =>
             worker[w].pc \in {"review", "pause"} /\ worker'[w].hook = worker[w].hook

ReviewsKept ==
    \A v \in ReviewIds :
        /\ reviews'[v].status # "ABSENT" =>
             /\ reviews[v].status # "ABSENT"
             /\ reviews'[v].run = reviews[v].run
             /\ reviews'[v].hook = reviews[v].hook
        /\ reviews[v].status \notin {"ABSENT", "PENDING"} =>
             reviews'[v].status \notin {"ABSENT", "PENDING"}

RequestsKept ==
    \A q \in Requests : request'[q].pc # "idle" =>
        /\ request[q].pc # "idle"
        /\ request'[q].review = request[q].review

LEMMA KeptReferences ==
    ASSUME ReferencesExist, RunsKept, WorkersKept, ReviewsKept, RequestsKept
    PROVE  ReferencesExist'
  BY DEF ReferencesExist, RunsKept, WorkersKept, ReviewsKept, RequestsKept

LEMMA NothingKept ==
    /\ UNCHANGED runs => RunsKept
    /\ UNCHANGED worker => WorkersKept
    /\ UNCHANGED reviews => ReviewsKept
    /\ UNCHANGED request => RequestsKept
  BY DEF RunsKept, WorkersKept, ReviewsKept, RequestsKept, Exists

\* A status write keeps the runs.
LEMMA StatusWriteKept ==
    ASSUME runs \in [RunIds -> Run], NEW r, NEW s \in RunStatus,
           UpdateRun(r, WithStatus(runs[r], s))
    PROVE  RunsKept
  BY StatusWriteEffect
     DEF RunsKept, Exists, RunStatus, ACTIVE_RUN_STATUSES, TERMINAL_RUN_STATUSES

LEMMA OutcomeWriteKept ==
    ASSUME runs \in [RunIds -> Run], NEW r, NEW s \in RunStatus, NEW d \in Decisions,
           UpdateRun(r, WithOutcome(runs[r], s, d))
    PROVE  RunsKept
  BY OutcomeWriteEffect
     DEF RunsKept, Exists, RunStatus, ACTIVE_RUN_STATUSES, TERMINAL_RUN_STATUSES

\* Every step keeps the references.
LEMMA ReferencesStep ==
    ASSUME TypeOK, ReferencesExist, [Next]_vars
    PROVE  ReferencesExist'
  <1>1. /\ runs \in [RunIds -> Run] /\ reviews \in [ReviewIds -> Review]
        /\ worker \in [Workers -> WorkerState] /\ request \in [Requests -> RequestState]
        /\ temporal \in [RunIds -> TemporalState]
    BY DEF TypeOK, StoreTypeOK, WorkerTypeOK, ReviewTypeOK, TemporalTypeOK
  <1>2. RunStatus = {"QUEUED", "RUNNING", "COMPLETED", "FAILED", "BLOCKED", "REVIEW"}
    BY DEF RunStatus, ACTIVE_RUN_STATUSES, TERMINAL_RUN_STATUSES
  <1>3. Decisions = {"NONE", "ALLOW", "REVIEW", "BLOCK", "DENY"}
    BY DEF Decisions
  <1>4. ASSUME NEW w \in Workers, NEW pc, pc \notin {"review", "pause"} \/ worker[w].pc = "review",
               worker[w].pc # "idle", Goto(w, pc)
        PROVE  WorkersKept
    BY <1>1, <1>4, GotoEffect DEF WorkersKept
  <1>5. ASSUME NEW w \in Workers, Rest(w)
        PROVE  WorkersKept
    BY <1>1, <1>5, RestEffect DEF WorkersKept, Idle
  <1>6. ASSUME NEW q \in Requests, NEW pc, request[q].pc # "idle",
               request' = [request EXCEPT ![q].pc = pc]
        PROVE  RequestsKept
    BY <1>1, <1>6, RequestPcEffect DEF RequestsKept
  <1>7. ASSUME NEW c \in Clients, ClientAct(c)
        PROVE  ReferencesExist'
    <2>1. RunsKept
      <3>1. CASE Submit(c) \/ CreateLookup(c) \/ CreateConflict(c)
        BY <3>1, NothingKept DEF Submit, CreateLookup, CreateConflict, storeVars
      <3>2. CASE CreateInsert(c)
        <4>1. PICK r \in RunIds : UpdateRun(r, QueuedRow(client[c].key, client[c].matching))
          BY <3>2 DEF CreateInsert
        <4> QED BY <1>1, <4>1 DEF UpdateRun, QueuedRow, RunsKept, Exists
      <3> QED BY <1>7, <3>1, <3>2 DEF ClientAct, DispatchStep
    <2>2. UNCHANGED <<reviews, worker, request>>
      BY <1>7 DEF ClientAct, DispatchStep, Submit, CreateLookup, CreateInsert, CreateConflict,
                  storeVars, workerVars
    <2> QED BY <2>1, <2>2, NothingKept, KeptReferences
  <1>8. ASSUME NEW w \in Workers, WorkerStep(w) \/ WorkerCrash(w), UNCHANGED request
        PROVE  ReferencesExist'
    <2>1. CASE Claim(w)
      <3>1. PICK r \in RunIds :
              /\ r \in QueuedRuns
              /\ UpdateRun(r, [runs[r] EXCEPT !.status = "RUNNING"])
              /\ worker' = [worker EXCEPT ![w] =
                   [pc |-> "claimed", run |-> r, approved |-> runs[r].approved,
                    hook |-> NoHook]]
        BY <2>1 DEF Claim, IsOldest
      <3>2. RunsKept /\ Exists(r)'
        BY <1>1, <3>1 DEF UpdateRun, RunsKept, Exists, Run
      <3>3. UNCHANGED reviews
        BY <2>1 DEF Claim
      <3>4. \A x \in Workers : IF x = w THEN worker'[x].pc = "claimed" /\ worker'[x].run = r
                                ELSE worker'[x] = worker[x]
        BY <1>1, <3>1
      <3>5. \A x \in Workers : worker'[x].pc # "idle" =>
              worker'[x].run \in RunIds /\ Exists(worker[x].run)'
        BY <3>2, <3>4 DEF ReferencesExist, RunsKept
      <3>6. \A x \in Workers : worker'[x].pc \in {"review", "pause"} => worker'[x].hook \in Hooks
        BY <3>4 DEF ReferencesExist
      <3>7. ReviewsKept /\ RequestsKept
        BY <1>8, <3>3, NothingKept
      <3> QED BY <3>2, <3>5, <3>6, <3>7
              DEF ReferencesExist, RunsKept, ReviewsKept, RequestsKept
    <2>2. CASE MarkRunning(w)
      BY <1>1, <1>2, <1>4, <1>8, <2>2, StatusWriteKept, NothingKept, KeptReferences
         DEF MarkRunning
    <2>3. CASE AppendStarted(w)
      <3> DEFINE h == FirstMatchingHook(runs[worker[w].run].matching, worker[w].approved)
      <3>1. worker' = [worker EXCEPT ![w].hook = h, ![w].pc = AfterHook(h)]
        BY <2>3 DEF AppendStarted
      <3>2. h \in Hooks \cup {NoHook}
        <4>1. worker[w].run \in RunIds
          BY <2>3 DEF AppendStarted, ReferencesExist
        <4>2. /\ runs[worker[w].run].matching \in SUBSET Hooks
              /\ worker[w].approved \in SUBSET Hooks
          BY <1>1, <4>1 DEF Run, WorkerState
        <4>3. h = NoHook \/ h \in runs[worker[w].run].matching
          BY <4>2, FirstMatchingHookMeaning
        <4> QED BY <4>2, <4>3
      <3> HIDE DEF h
      <3>3. AfterHook(h) \in {"review", "pause"} => h \in Hooks
        BY <3>2 DEF AfterHook
      <3>4. \A x \in Workers : worker'[x].pc # "idle" =>
              worker[x].pc # "idle" /\ worker'[x].run = worker[x].run
        BY <1>1, <2>3, <3>1 DEF AppendStarted, WorkerState
      <3>5. \A x \in Workers : worker'[x].pc \in {"review", "pause"} => worker'[x].hook \in Hooks
        BY <1>1, <3>1, <3>3 DEF ReferencesExist, WorkerState
      <3>6. UNCHANGED <<runs, reviews>>
        BY <2>3 DEF AppendStarted
      <3> QED BY <1>8, <3>4, <3>5, <3>6 DEF ReferencesExist, Exists
    <2>4. CASE AddReviewItem(w)
      <3>1. PICK v \in ReviewIds :
              /\ reviews[v].status = "ABSENT"
              /\ reviews' = [reviews EXCEPT ![v] =
                   [status |-> "PENDING", run |-> worker[w].run, hook |-> worker[w].hook]]
        BY <2>4 DEF AddReviewItem, IsNextReview, IsOldest
      <3>2. /\ worker[w].run \in RunIds /\ Exists(worker[w].run)
            /\ worker[w].hook \in Hooks
        BY <2>4 DEF AddReviewItem, ReferencesExist
      <3>3. UNCHANGED runs
        BY <2>4 DEF AddReviewItem
      <3>4. WorkersKept
        BY <1>4, <2>4 DEF AddReviewItem
      <3>5. \A u \in ReviewIds : reviews'[u].status # "ABSENT" =>
              /\ reviews'[u].run \in RunIds /\ Exists(reviews[u].run)'
              /\ reviews'[u].hook \in Hooks
        <4> TAKE u \in ReviewIds
        <4>1. CASE u = v
          BY <1>1, <3>1, <3>2, <3>3, <4>1 DEF Exists
        <4>2. CASE u # v
          BY <1>1, <3>1, <3>3, <4>2 DEF ReferencesExist, Exists
        <4> QED BY <4>1, <4>2
      <3>6. \A u \in ReviewIds : reviews[u].status \notin {"ABSENT", "PENDING"}
              => reviews'[u].status \notin {"ABSENT", "PENDING"}
        BY <1>1, <3>1
      <3>7. RunsKept /\ RequestsKept
        BY <1>8, <3>3, NothingKept
      <3> QED BY <3>4, <3>5, <3>6, <3>7
              DEF ReferencesExist, RunsKept, WorkersKept, RequestsKept
    <2>5. CASE MarkPaused(w)
      BY <1>1, <1>2, <1>3, <1>4, <1>8, <2>5, OutcomeWriteKept, NothingKept, KeptReferences
         DEF MarkPaused
    <2>6. CASE MarkBlocked(w)
      BY <1>1, <1>2, <1>3, <1>4, <1>8, <2>6, OutcomeWriteKept, NothingKept, KeptReferences
         DEF MarkBlocked
    <2>7. CASE BeginExecution(w)
      BY <1>4, <1>8, <2>7, NothingKept, KeptReferences DEF BeginExecution, storeVars
    <2>8. CASE FinishExecution(w)
      BY <1>1, <1>2, <1>3, <1>4, <1>8, <2>8, OutcomeWriteKept, NothingKept, KeptReferences
         DEF FinishExecution
    <2>9. CASE FailExecution(w)
      BY <1>1, <1>2, <1>4, <1>8, <2>9, StatusWriteKept, NothingKept, KeptReferences
         DEF FailExecution
    <2>10. CASE AppendClosing(w)
      BY <1>5, <1>8, <2>10, NothingKept, KeptReferences DEF AppendClosing
    <2>11. CASE RunnerFactoryRaises(w) \/ WorkerCrash(w)
      BY <1>5, <1>8, <2>11, NothingKept, KeptReferences
         DEF RunnerFactoryRaises, WorkerCrash, Die, storeVars
    <2> QED BY <1>8, <2>1, <2>2, <2>3, <2>4, <2>5, <2>6, <2>7, <2>8, <2>9, <2>10, <2>11
            DEF WorkerStep
  <1>9. ASSUME NEW w \in Workers, TemporalWorkerStep(w), UNCHANGED request
        PROVE  ReferencesExist'
    <2>1. CASE StartTemporal(w)
      BY <1>4, <1>9, <2>1, NothingKept, KeptReferences DEF StartTemporal, storeVars
    <2>2. CASE StartTemporalFails(w)
      BY <1>1, <1>2, <1>4, <1>9, <2>2, StatusWriteKept, NothingKept, KeptReferences
         DEF StartTemporalFails
    <2>3. CASE RecordTemporalStart(w)
      BY <1>1, <1>2, <1>4, <1>9, <2>3, StatusWriteKept, NothingKept, KeptReferences
         DEF RecordTemporalStart
    <2> QED BY <1>9, <2>1, <2>2, <2>3 DEF TemporalWorkerStep
  <1>10. ASSUME NEW r \in RunIds, TemporalAct(r)
         PROVE  ReferencesExist'
    <2>1. UNCHANGED <<worker, reviews, request>>
      BY <1>10 DEF TemporalAct, TemporalStep, ExecuteAgentNode, RetryAgentNode, AgentNodeDone,
                   Signal, ReviewDecided, CompleteRuntimeRun, storeVars, workerVars
    <2>2. RunsKept
      <3>1. CASE CompleteRuntimeRun(r)
        <4>1. PICK s \in RunStatus :
                UpdateRun(r, WithOutcome(runs[r], s, temporal[r].decision))
          BY <1>2, <3>1 DEF CompleteRuntimeRun
        <4>2. temporal[r].decision \in Decisions
          BY <1>1 DEF TemporalState
        <4> QED BY <1>1, <4>1, <4>2, OutcomeWriteKept
      <3>2. CASE ~CompleteRuntimeRun(r)
        BY <1>10, <3>2, NothingKept
           DEF TemporalAct, TemporalStep, ExecuteAgentNode, RetryAgentNode, AgentNodeDone,
               Signal, ReviewDecided, storeVars
      <3> QED BY <3>1, <3>2
    <2> QED BY <2>1, <2>2, NothingKept, KeptReferences
  <1>11. ASSUME NEW q \in Requests, Resolve(q) \/ ReviewStep(q) \/ RequestLost(q),
                UNCHANGED worker
         PROVE  ReferencesExist'
    <2>1. request[q].pc # "idle" => RunOf(q) \in RunIds /\ Exists(RunOf(q))
      BY DEF ReferencesExist, RunOf
    <2>2. CASE Resolve(q)
      <3>1. PICK v \in ReviewIds, verdict \in {"APPROVED", "DENIED"} :
              /\ reviews[v].status # "ABSENT"
              /\ reviews' = [reviews EXCEPT ![v].status = verdict]
              /\ request' = [request EXCEPT ![q].pc = "read", ![q].review = v,
                                            ![q].verdict = verdict]
        BY <2>2 DEF Resolve
      <3>2. ReviewsKept
        BY <1>1, <3>1 DEF ReviewsKept, Review
      <3>3. \A x \in Requests : request'[x].pc # "idle" =>
              /\ request'[x].review \in ReviewIds
              /\ reviews'[request'[x].review].status \notin {"ABSENT", "PENDING"}
        BY <1>1, <3>1, <3>2 DEF ReferencesExist, ReviewsKept, RequestState, Review
      <3>4. UNCHANGED runs
        BY <2>2 DEF Resolve
      <3> QED BY <1>11, <3>2, <3>3, <3>4 DEF ReferencesExist, ReviewsKept, Exists
    <2>3. CASE ReadRun(q)
      <3>1. RequestsKept
        BY <1>1, <2>3 DEF ReadRun, RequestsKept, RequestState
      <3> QED BY <1>11, <2>3, <3>1, NothingKept, KeptReferences DEF ReadRun, storeVars
    <2>4. CASE ApproveRun(q)
      <3>1. RunsKept
        BY <1>1, <2>4 DEF ApproveRun, UpdateRun, RunsKept, Exists, Run
      <3> QED BY <1>6, <1>11, <2>4, <3>1, NothingKept, KeptReferences DEF ApproveRun
    <2>5. CASE DenyRun(q)
      BY <1>1, <1>2, <1>3, <1>6, <1>11, <2>5, OutcomeWriteKept, NothingKept, KeptReferences
         DEF DenyRun
    <2>6. CASE AppendVerdict(q)
      BY <1>6, <1>11, <2>6, NothingKept, KeptReferences DEF AppendVerdict
    <2>7. CASE RequestLost(q)
      BY <1>6, <1>11, <2>7, NothingKept, KeptReferences DEF RequestLost, storeVars
    <2> QED BY <1>11, <2>2, <2>3, <2>4, <2>5, <2>6, <2>7 DEF ReviewStep
  <1>12. CASE UNCHANGED vars
    BY <1>12, NothingKept, KeptReferences DEF vars
  <1> QED BY <1>7, <1>8, <1>9, <1>10, <1>11, <1>12
          DEF Next, WorkerAct, RequestAct, Crash, workerVars

-----------------------------------------------------------------------------
\* Every step preserves the types.
LEMMA TypeStep ==
    ASSUME TypeOK, ReferencesExist, [Next]_vars
    PROVE  TypeOK'
  <1> USE DEF TypeOK
  <1>1. ASSUME NEW c \in Clients, ClientAct(c)
        PROVE  TypeOK'
    <2>1. StoreTypeOK' /\ DispatchTypeOK'
      BY <1>1, DispatchTypeStep DEF ClientAct
    <2> QED BY <1>1, <2>1
            DEF ClientAct, workerVars, WorkerTypeOK, TemporalTypeOK, ReviewTypeOK
  <1>2. ASSUME NEW w \in Workers, WorkerAct(w)
        PROVE  TypeOK'
    <2>1. StoreTypeOK' /\ WorkerTypeOK' /\ TemporalTypeOK'
      BY <1>2, WorkerTypeStep, TemporalTypeStep DEF WorkerAct, TemporalTypeOK
    <2> QED BY <1>2, <2>1 DEF WorkerAct, DispatchTypeOK, ReviewTypeOK
  <1>3. ASSUME NEW r \in RunIds, TemporalAct(r)
        PROVE  TypeOK'
    <2>1. StoreTypeOK' /\ WorkerTypeOK' /\ TemporalTypeOK'
      BY <1>3, TemporalTypeStep DEF TemporalAct
    <2> QED BY <1>3, <2>1 DEF TemporalAct, DispatchTypeOK, ReviewTypeOK
  <1>4. ASSUME NEW q \in Requests, RequestAct(q)
        PROVE  TypeOK'
    <2>1. StoreTypeOK' /\ ReviewTypeOK'
      BY <1>4, ReviewTypeStep DEF RequestAct
    <2> QED BY <1>4, <2>1
            DEF RequestAct, workerVars, DispatchTypeOK, WorkerTypeOK, TemporalTypeOK
  <1>5. CASE Crash
    <2>1. crashes' \in Nat
      BY <1>5 DEF Crash
    <2>2. ASSUME NEW w \in Workers, WorkerCrash(w), UNCHANGED request
          PROVE  TypeOK'
      <3>1. StoreTypeOK' /\ WorkerTypeOK'
        BY <2>2, WorkerTypeStep
      <3> QED BY <1>5, <2>1, <2>2, <3>1
              DEF Crash, DispatchTypeOK, TemporalTypeOK, ReviewTypeOK
    <2>3. ASSUME NEW q \in Requests, RequestLost(q), UNCHANGED workerVars
          PROVE  TypeOK'
      <3>1. StoreTypeOK' /\ ReviewTypeOK'
        BY <2>3, ReviewTypeStep
      <3> QED BY <1>5, <2>1, <2>3, <3>1
              DEF Crash, workerVars, DispatchTypeOK, WorkerTypeOK, TemporalTypeOK
    <2> QED BY <1>5, <2>2, <2>3 DEF Crash
  <1>6. CASE UNCHANGED vars
    BY <1>6 DEF vars, StoreTypeOK, DispatchTypeOK, WorkerTypeOK, TemporalTypeOK, ReviewTypeOK
  <1> QED BY <1>1, <1>2, <1>3, <1>4, <1>5, <1>6 DEF Next

LEMMA InitTyped ==
    ASSUME Init
    PROVE  TypeOK /\ ReferencesExist
  <1> USE DEF Init
  <1>1. StoreTypeOK
    BY DEF StoreInit, StoreTypeOK, AbsentRun, Run, Decisions, AbsentReview, Review
  <1>2. DispatchTypeOK
    BY DEF DispatchInit, DispatchTypeOK, ClientState, ClientPc
  <1>3. WorkerTypeOK
    BY DEF WorkerInit, WorkerTypeOK, Idle, WorkerState, WorkerPc
  <1>4. TemporalTypeOK
    BY DEF TemporalInit, TemporalTypeOK, NoWorkflow, TemporalState, Decisions
  <1>5. ReviewTypeOK
    BY DEF ReviewInit, ReviewTypeOK, RequestState, RequestPc
  <1>6. ReferencesExist
    BY DEF ReferencesExist, StoreInit, AbsentReview, WorkerInit, Idle, ReviewInit
  <1> QED BY <1>1, <1>2, <1>3, <1>4, <1>5, <1>6 DEF TypeOK

\* Every variable of the composed system keeps its type, and what workers and
\* reviewers work on has been inserted.
THEOREM TypeCorrect == Spec => [](TypeOK /\ ReferencesExist)
  <1>1. Init => TypeOK /\ ReferencesExist
    BY InitTyped
  <1>2. TypeOK /\ ReferencesExist /\ [Next]_vars => (TypeOK /\ ReferencesExist)'
    BY TypeStep, ReferencesStep
  <1> QED BY <1>1, <1>2, PTL DEF Spec

-----------------------------------------------------------------------------
\* The token

\* The step makes no token.
TokensShrink ==
    /\ \A r \in RunIds : Exists(r) => Exists(r)'
    /\ \A r \in RunIds : Queued(r)' => Queued(r)
    /\ \A r \in RunIds, w \in Workers : Holds(w, r)' =>
         /\ Holds(w, r)
         /\ worker'[w].pc # "executing" => worker[w].pc # "executing"
    /\ \A r \in RunIds, v \in ReviewIds : Awaits(v, r)' => Awaits(v, r)

LEMMA ShrinkKeepsUnique ==
    ASSUME TokenIsUnique, TokensShrink
    PROVE  TokenIsUnique'
  BY DEF TokenIsUnique, TokensShrink

LEMMA ShrinkKeepsFresh ==
    ASSUME UnusedTokenIsFresh, TokensShrink, \A r \in RunIds : Fresh(r) => Fresh(r)'
    PROVE  UnusedTokenIsFresh'
  BY DEF UnusedTokenIsFresh, TokensShrink

\* A token belongs to a run that was inserted.
LEMMA TokenHasRun ==
    ASSUME ReferencesExist, TypeOK, NEW r \in RunIds
    PROVE  /\ \A w \in Workers : Holds(w, r) => Exists(r)
           /\ \A v \in ReviewIds : Awaits(v, r) => Exists(r) /\ reviews[v].status # "ABSENT"
           /\ Queued(r) => Exists(r)
  BY DEF ReferencesExist, Holds, Working, Awaits, OpenReview, Queued, Exists

\* What does not change where tokens are.
LEMMA TokensUnchanged ==
    /\ UNCHANGED runs => \A r \in RunIds : Queued(r)' = Queued(r) /\ Exists(r)' = Exists(r)
    /\ UNCHANGED worker => \A r \in RunIds, w \in Workers : Holds(w, r)' = Holds(w, r)
    /\ UNCHANGED <<reviews, request>> =>
         \A r \in RunIds, v \in ReviewIds : Awaits(v, r)' = Awaits(v, r)
    /\ UNCHANGED <<starts, temporal>> => \A r \in RunIds : Fresh(r)' = Fresh(r)
  BY DEF Queued, Exists, Holds, Working, Awaits, OpenReview, Fresh

\* The submissions: an INSERT makes the token of a run that had none.
LEMMA DispatchTokenStep ==
    ASSUME TypeOK, ReferencesExist, TokenIsUnique, UnusedTokenIsFresh,
           NEW c \in Clients, ClientAct(c)
    PROVE  TokenIsUnique' /\ UnusedTokenIsFresh'
  <1>1. runs \in [RunIds -> Run]
    BY DEF TypeOK, StoreTypeOK
  <1>2. UNCHANGED <<reviews, worker, starts, temporal, request>>
    BY DEF ClientAct, DispatchStep, Submit, CreateLookup, CreateInsert, CreateConflict,
           storeVars, workerVars
  <1>3. CASE UNCHANGED runs
    <2>1. TokensShrink
      BY <1>2, <1>3, TokensUnchanged DEF TokensShrink
    <2> QED BY <1>2, <2>1, ShrinkKeepsUnique, ShrinkKeepsFresh, TokensUnchanged
  <1>4. CASE CreateInsert(c)
    <2>1. PICK r \in RunIds :
            /\ ~Exists(r)
            /\ UpdateRun(r, QueuedRow(client[c].key, client[c].matching))
      BY <1>4 DEF CreateInsert, IsNextRun, IsOldest
    <2>2. \A x \in RunIds : runs'[x].status = IF x = r THEN "QUEUED" ELSE runs[x].status
      BY <1>1, <2>1 DEF UpdateRun, QueuedRow
    <2>3. \A x \in RunIds : x # r => Queued(x)' = Queued(x) /\ Exists(x)' = Exists(x)
      BY <2>2 DEF Queued, Exists
    <2>4. Exists(r)'
      BY <2>2 DEF Exists
    <2>5. /\ \A w \in Workers : ~Holds(w, r)
          /\ \A v \in ReviewIds : ~Awaits(v, r)
          /\ Fresh(r)
      BY <2>1, TokenHasRun DEF UnusedTokenIsFresh
    <2>6. /\ \A x \in RunIds, w \in Workers : Holds(w, x)' = Holds(w, x)
          /\ \A x \in RunIds, v \in ReviewIds : Awaits(v, x)' = Awaits(v, x)
          /\ \A x \in RunIds : Fresh(x)' = Fresh(x)
      BY <1>2, TokensUnchanged
    <2>7. TokenIsUnique'
      BY <2>3, <2>5, <2>6 DEF TokenIsUnique
    <2>8. UnusedTokenIsFresh'
      BY <1>2, <2>3, <2>5, <2>6 DEF UnusedTokenIsFresh
    <2> QED BY <2>7, <2>8
  <1> QED BY <1>3, <1>4 DEF ClientAct, DispatchStep, Submit, CreateLookup, CreateConflict, storeVars

\* A worker's status write takes no run back into the queue.
LEMMA StatusWriteTokens ==
    ASSUME runs \in [RunIds -> Run], NEW r, NEW s \in RunStatus \ {"QUEUED"},
           UpdateRun(r, WithStatus(runs[r], s))
    PROVE  /\ \A x \in RunIds : Exists(x) => Exists(x)'
           /\ \A x \in RunIds : Queued(x)' => Queued(x)
  BY StatusWriteEffect
     DEF Queued, Exists, RunStatus, ACTIVE_RUN_STATUSES, TERMINAL_RUN_STATUSES

LEMMA OutcomeWriteTokens ==
    ASSUME runs \in [RunIds -> Run], NEW r, NEW s \in RunStatus \ {"QUEUED"},
           NEW d \in Decisions, UpdateRun(r, WithOutcome(runs[r], s, d))
    PROVE  /\ \A x \in RunIds : Exists(x) => Exists(x)'
           /\ \A x \in RunIds : Queued(x)' => Queued(x)
  BY OutcomeWriteEffect
     DEF Queued, Exists, RunStatus, ACTIVE_RUN_STATUSES, TERMINAL_RUN_STATUSES

\* A worker that goes on, or stops, takes no token.
LEMMA GotoTokens ==
    ASSUME worker \in [Workers -> WorkerState], NEW w \in Workers, NEW pc, Goto(w, pc),
           \/ pc \notin {"claimed", "started", "review", "block", "run", "executing"}
           \/ Working(w) /\ pc \in {"started", "review", "block", "run"}
                         /\ worker[w].pc # "executing"
    PROVE  \A r \in RunIds, x \in Workers : Holds(x, r)' =>
             Holds(x, r) /\ (worker'[x].pc # "executing" => worker[x].pc # "executing")
  <1>1. \A x \in Workers : /\ worker'[x].pc = IF x = w THEN pc ELSE worker[x].pc
                           /\ worker'[x].run = worker[x].run
    BY GotoEffect
  <1> QED BY <1>1 DEF Holds, Working

LEMMA RestTokens ==
    ASSUME worker \in [Workers -> WorkerState], NEW w \in Workers, Rest(w)
    PROVE  \A r \in RunIds, x \in Workers : Holds(x, r)' =>
             Holds(x, r) /\ (worker'[x].pc # "executing" => worker[x].pc # "executing")
  BY RestEffect DEF Holds, Working, Idle

\* The workers' steps, except those that use or hand over a token.
LEMMA WorkerTokensShrink ==
    ASSUME TypeOK, NEW w \in Workers,
           \/ MarkRunning(w) \/ AppendStarted(w) \/ MarkPaused(w) \/ MarkBlocked(w)
           \/ FinishExecution(w) \/ FailExecution(w) \/ AppendClosing(w)
           \/ RunnerFactoryRaises(w) \/ WorkerCrash(w),
           UNCHANGED request
    PROVE  TokensShrink /\ UNCHANGED starts
  <1>1. runs \in [RunIds -> Run] /\ worker \in [Workers -> WorkerState]
    BY DEF TypeOK, StoreTypeOK, WorkerTypeOK
  <1>2. {"RUNNING", "COMPLETED", "FAILED", "BLOCKED", "REVIEW"} \subseteq RunStatus \ {"QUEUED"}
    BY DEF RunStatus, ACTIVE_RUN_STATUSES, TERMINAL_RUN_STATUSES
  <1>3. {"ALLOW", "REVIEW", "BLOCK", "DENY"} \subseteq Decisions
    BY DEF Decisions
  <1>4. UNCHANGED <<reviews, starts>>
    BY DEF MarkRunning, AppendStarted, MarkPaused, MarkBlocked, FinishExecution,
           FailExecution, AppendClosing, RunnerFactoryRaises, WorkerCrash, Die, storeVars
  <1>5. \A r \in RunIds, v \in ReviewIds : Awaits(v, r)' = Awaits(v, r)
    BY <1>4, TokensUnchanged
  <1>6. (\A x \in RunIds : Exists(x) => Exists(x)') /\ (\A x \in RunIds : Queued(x)' => Queued(x))
    <2>1. CASE MarkRunning(w)
      BY <1>1, <1>2, <2>1, StatusWriteTokens DEF MarkRunning
    <2>2. CASE MarkPaused(w)
      BY <1>1, <1>2, <1>3, <2>2, OutcomeWriteTokens DEF MarkPaused
    <2>3. CASE MarkBlocked(w)
      BY <1>1, <1>2, <1>3, <2>3, OutcomeWriteTokens DEF MarkBlocked
    <2>4. CASE FinishExecution(w)
      BY <1>1, <1>2, <1>3, <2>4, OutcomeWriteTokens DEF FinishExecution
    <2>5. CASE FailExecution(w)
      BY <1>1, <1>2, <2>5, StatusWriteTokens DEF FailExecution
    <2>6. CASE \/ AppendStarted(w) \/ AppendClosing(w)
               \/ RunnerFactoryRaises(w) \/ WorkerCrash(w)
      BY <2>6, TokensUnchanged
         DEF AppendStarted, AppendClosing, RunnerFactoryRaises, WorkerCrash, Die, storeVars
    <2> QED BY <2>1, <2>2, <2>3, <2>4, <2>5, <2>6
  <1>7. \A r \in RunIds, x \in Workers : Holds(x, r)' =>
          Holds(x, r) /\ (worker'[x].pc # "executing" => worker[x].pc # "executing")
    <2>1. CASE MarkRunning(w)
      BY <1>1, <2>1, GotoTokens DEF MarkRunning, Working
    <2>2. CASE MarkPaused(w) \/ MarkBlocked(w) \/ FinishExecution(w) \/ FailExecution(w)
      BY <1>1, <2>2, GotoTokens DEF MarkPaused, MarkBlocked, FinishExecution, FailExecution
    <2>3. CASE AppendStarted(w)
      <3>1. PICK h : worker' = [worker EXCEPT ![w].hook = h, ![w].pc = AfterHook(h)]
        BY <2>3 DEF AppendStarted
      <3>2. \A x \in Workers : /\ worker'[x].pc = IF x = w THEN AfterHook(h) ELSE worker[x].pc
                               /\ worker'[x].run = worker[x].run
        BY <1>1, <3>1 DEF WorkerState
      <3>3. AfterHook(h) \in {"run", "block", "review"}
        BY DEF AfterHook
      <3>4. worker[w].pc = "started"
        BY <2>3 DEF AppendStarted
      <3> QED BY <3>2, <3>3, <3>4 DEF Holds, Working
    <2>4. CASE AppendClosing(w) \/ RunnerFactoryRaises(w) \/ WorkerCrash(w)
      BY <1>1, <2>4, RestTokens DEF AppendClosing, RunnerFactoryRaises, WorkerCrash, Die
    <2> QED BY <2>1, <2>2, <2>3, <2>4
  <1> QED BY <1>4, <1>5, <1>6, <1>7 DEF TokensShrink

\* A claim moves the token from the queue to the worker.
LEMMA ClaimTokenStep ==
    ASSUME TypeOK, TokenIsUnique, UnusedTokenIsFresh, NEW w \in Workers, Claim(w),
           UNCHANGED <<temporal, request>>
    PROVE  TokenIsUnique' /\ UnusedTokenIsFresh'
  <1>1. runs \in [RunIds -> Run] /\ worker \in [Workers -> WorkerState]
    BY DEF TypeOK, StoreTypeOK, WorkerTypeOK
  <1>2. PICK r \in RunIds :
          /\ Queued(r)
          /\ UpdateRun(r, [runs[r] EXCEPT !.status = "RUNNING"])
          /\ worker' = [worker EXCEPT ![w] =
               [pc |-> "claimed", run |-> r, approved |-> runs[r].approved,
                hook |-> NoHook]]
    BY DEF Claim, IsOldest, QueuedRuns, Queued
  <1>3. \A x \in RunIds : runs'[x].status = IF x = r THEN "RUNNING" ELSE runs[x].status
    BY <1>1, <1>2 DEF UpdateRun, Run
  <1>4. \A x \in Workers : IF x = w THEN worker'[x].pc = "claimed" /\ worker'[x].run = r
                           ELSE worker'[x] = worker[x]
    BY <1>1, <1>2
  <1>5. worker[w].pc = "idle"
    BY DEF Claim
  <1>6. ~Queued(r)' /\ Exists(r)' /\ \A x \in RunIds : x # r => Queued(x)' = Queued(x)
                                                              /\ Exists(x)' = Exists(x)
    BY <1>3 DEF Queued, Exists
  <1>7. \A x \in RunIds, y \in Workers :
          /\ y # w => Holds(y, x)' = Holds(y, x) /\ worker'[y].pc = worker[y].pc
          /\ Holds(w, x)' => x = r
    BY <1>4 DEF Holds, Working
  <1>8. /\ \A x \in RunIds, v \in ReviewIds : Awaits(v, x)' = Awaits(v, x)
        /\ \A x \in RunIds : Fresh(x)' = Fresh(x)
    BY TokensUnchanged DEF Claim
  <1>9. Fresh(r) /\ (\A y \in Workers : ~Holds(y, r)) /\ (\A v \in ReviewIds : ~Awaits(v, r))
    BY <1>2 DEF UnusedTokenIsFresh, TokenIsUnique
  <1>10. TokenIsUnique'
    <2>1. \A x \in RunIds, y \in Workers : ~(Queued(x)' /\ Holds(y, x)')
      BY <1>6, <1>7 DEF TokenIsUnique
    <2>2. \A x \in RunIds, v \in ReviewIds : ~(Queued(x)' /\ Awaits(v, x)')
      BY <1>6, <1>8 DEF TokenIsUnique
    <2>3. \A x \in RunIds, y \in Workers, v \in ReviewIds : ~(Holds(y, x)' /\ Awaits(v, x)')
      BY <1>7, <1>8, <1>9 DEF TokenIsUnique
    <2>4. \A x \in RunIds, y, z \in Workers : Holds(y, x)' /\ Holds(z, x)' => y = z
      BY <1>7, <1>9 DEF TokenIsUnique
    <2>5. \A x \in RunIds, v, u \in ReviewIds : Awaits(v, x)' /\ Awaits(u, x)' => v = u
      BY <1>8 DEF TokenIsUnique
    <2> QED BY <2>1, <2>2, <2>3, <2>4, <2>5 DEF TokenIsUnique
  <1>11. UnusedTokenIsFresh'
    BY <1>6, <1>7, <1>8, <1>9 DEF UnusedTokenIsFresh
  <1> QED BY <1>10, <1>11

\* Inserting the review item moves the token from the worker to the reviewers.
LEMMA AddReviewItemTokenStep ==
    ASSUME TypeOK, ReferencesExist, TokenIsUnique, UnusedTokenIsFresh,
           NEW w \in Workers, AddReviewItem(w), UNCHANGED <<temporal, request>>
    PROVE  TokenIsUnique' /\ UnusedTokenIsFresh'
  <1> DEFINE r == worker[w].run
  <1>1. reviews \in [ReviewIds -> Review] /\ worker \in [Workers -> WorkerState]
    BY DEF TypeOK, StoreTypeOK, WorkerTypeOK
  <1>2. PICK v \in ReviewIds :
          /\ reviews[v].status = "ABSENT"
          /\ reviews' = [reviews EXCEPT ![v] =
               [status |-> "PENDING", run |-> r, hook |-> worker[w].hook]]
    BY DEF AddReviewItem, IsNextReview, IsOldest
  <1>3. worker[w].pc = "review" /\ r \in RunIds
    BY DEF AddReviewItem, ReferencesExist
  <1>4. Holds(w, r) /\ Fresh(r) /\ ~Queued(r)
    BY <1>3 DEF Holds, Working, UnusedTokenIsFresh, TokenIsUnique
  <1>5. /\ \A x \in RunIds : Queued(x)' = Queued(x) /\ Exists(x)' = Exists(x)
        /\ \A x \in RunIds : Fresh(x)' = Fresh(x)
    BY TokensUnchanged DEF AddReviewItem
  <1>6. \A x \in RunIds, y \in Workers :
          /\ Holds(y, x)' => Holds(y, x) /\ y # w
          /\ worker'[y].pc # "executing" => worker[y].pc # "executing"
    <2>1. \A y \in Workers : /\ worker'[y].pc = IF y = w THEN "pause" ELSE worker[y].pc
                             /\ worker'[y].run = worker[y].run
      BY <1>1, GotoEffect DEF AddReviewItem
    <2> QED BY <1>3, <2>1 DEF Holds, Working
  <1>7. \A x \in RunIds, u \in ReviewIds :
          /\ u # v => Awaits(u, x)' = Awaits(u, x)
          /\ Awaits(v, x)' => x = r
    <2>1. \A u \in ReviewIds : u # v => reviews'[u] = reviews[u]
      BY <1>1, <1>2
    <2>2. reviews'[v].run = r
      BY <1>1, <1>2
    <2> QED BY <2>1, <2>2 DEF Awaits, OpenReview
  <1>8. \A y \in Workers : Holds(y, r) => y = w
    BY <1>3, <1>4 DEF TokenIsUnique
  <1>9. \A u \in ReviewIds : ~Awaits(u, r)
    BY <1>3, <1>4 DEF TokenIsUnique
  <1> HIDE DEF r
  <1>10. TokenIsUnique'
    <2>1. \A x \in RunIds, y \in Workers : ~(Queued(x)' /\ Holds(y, x)')
      BY <1>5, <1>6 DEF TokenIsUnique
    <2>2. \A x \in RunIds, u \in ReviewIds : ~(Queued(x)' /\ Awaits(u, x)')
      BY <1>4, <1>5, <1>7 DEF TokenIsUnique
    <2>3. \A x \in RunIds, y \in Workers, u \in ReviewIds : ~(Holds(y, x)' /\ Awaits(u, x)')
      BY <1>6, <1>7, <1>8 DEF TokenIsUnique
    <2>4. \A x \in RunIds, y, z \in Workers : Holds(y, x)' /\ Holds(z, x)' => y = z
      BY <1>6 DEF TokenIsUnique
    <2>5. \A x \in RunIds, t, u \in ReviewIds : Awaits(t, x)' /\ Awaits(u, x)' => t = u
      BY <1>7, <1>9 DEF TokenIsUnique
    <2> QED BY <2>1, <2>2, <2>3, <2>4, <2>5 DEF TokenIsUnique
  <1>11. UnusedTokenIsFresh'
    BY <1>4, <1>5, <1>6, <1>7 DEF UnusedTokenIsFresh
  <1> QED BY <1>10, <1>11

\* A worker that executes the run, or hands it to Temporal, uses the token up.
LEMMA UsingTokenStep ==
    ASSUME TypeOK, ReferencesExist, TokenIsUnique, UnusedTokenIsFresh,
           NEW w \in Workers,
           BeginExecution(w) \/ StartTemporal(w) \/ StartTemporalFails(w),
           BeginExecution(w) => UNCHANGED temporal, UNCHANGED request
    PROVE  TokenIsUnique' /\ UnusedTokenIsFresh'
  <1> DEFINE r == worker[w].run
  <1>1. /\ worker \in [Workers -> WorkerState] /\ starts \in [RunIds -> Nat]
        /\ temporal \in [RunIds -> TemporalState] /\ runs \in [RunIds -> Run]
    BY DEF TypeOK, WorkerTypeOK, TemporalTypeOK, StoreTypeOK
  <1>2. worker[w].pc = "run" /\ r \in RunIds /\ Exists(r)
    BY DEF BeginExecution, StartTemporal, StartTemporalFails, ReferencesExist
  <1>3. Holds(w, r)
    BY <1>2 DEF Holds, Working
  <1>4. /\ \A x \in RunIds : Exists(x) => Exists(x)'
        /\ \A x \in RunIds : Queued(x)' => Queued(x)
    <2>1. CASE StartTemporalFails(w)
      <3>1. "FAILED" \in RunStatus \ {"QUEUED"}
        BY DEF RunStatus, TERMINAL_RUN_STATUSES
      <3> QED BY <1>1, <2>1, <3>1, StatusWriteTokens DEF StartTemporalFails
    <2>2. CASE BeginExecution(w) \/ StartTemporal(w)
      BY <2>2, TokensUnchanged DEF BeginExecution, StartTemporal, storeVars
    <2> QED BY <2>1, <2>2
  <1>5. \A x \in RunIds, y \in Workers : Holds(y, x)' =>
          /\ Holds(y, x)
          /\ y = w \/ worker'[y].pc = worker[y].pc
          /\ y = w => worker'[y].pc = "executing"
    <2>1. PICK pc \in {"executing", "temporal", "failed"} : Goto(w, pc)
      BY DEF BeginExecution, StartTemporal, StartTemporalFails
    <2>2. \A y \in Workers : /\ worker'[y].pc = IF y = w THEN pc ELSE worker[y].pc
                             /\ worker'[y].run = worker[y].run
      BY <1>1, <2>1, GotoEffect
    <2> QED BY <1>2, <2>2 DEF Holds, Working
  <1>6. \A x \in RunIds, v \in ReviewIds : Awaits(v, x)' = Awaits(v, x)
    BY TokensUnchanged DEF BeginExecution, StartTemporal, StartTemporalFails, storeVars
  <1>7. \A x \in RunIds : x # r => Fresh(x)' = Fresh(x)
    BY <1>1 DEF BeginExecution, StartTemporal, StartTemporalFails, OpenWorkflow, Fresh
  <1> HIDE DEF r
  <1>8. TokenIsUnique'
    BY <1>4, <1>5, <1>6 DEF TokenIsUnique
  <1>9. UnusedTokenIsFresh'
    <2>1. /\ ~Queued(r)
          /\ \A v \in ReviewIds : ~Awaits(v, r)
          /\ \A y \in Workers : Holds(y, r) => y = w
      BY <1>2, <1>3 DEF TokenIsUnique
    <2>2. \A x \in RunIds : ~Exists(x)' \/ Queued(x)' => Fresh(x)'
      BY <1>2, <1>4, <1>7, <2>1 DEF UnusedTokenIsFresh
    <2>3. \A x \in RunIds, v \in ReviewIds : Awaits(v, x)' => Fresh(x)'
      BY <1>6, <1>7, <2>1 DEF UnusedTokenIsFresh
    <2>4. \A x \in RunIds, y \in Workers :
            Holds(y, x)' /\ worker'[y].pc # "executing" => Fresh(x)'
      BY <1>3, <1>5, <1>7, <2>1 DEF UnusedTokenIsFresh
    <2> QED BY <2>2, <2>3, <2>4 DEF UnusedTokenIsFresh
  <1> QED BY <1>8, <1>9

\* An approval moves the token from the review back to the queue; the other
\* steps of a resolve request make none.
LEMMA ReviewTokenStep ==
    ASSUME SingleResolution, TypeOK, ReferencesExist, OneRequestPerReview,
           TokenIsUnique, UnusedTokenIsFresh, NEW q \in Requests,
           Resolve(q) \/ ReviewStep(q) \/ RequestLost(q),
           UNCHANGED <<workerVars, temporal>>
    PROVE  TokenIsUnique' /\ UnusedTokenIsFresh'
  <1>1. /\ runs \in [RunIds -> Run] /\ reviews \in [ReviewIds -> Review]
        /\ request \in [Requests -> RequestState]
    BY DEF TypeOK, StoreTypeOK, ReviewTypeOK
  <1>2. /\ \A r \in RunIds, w \in Workers : Holds(w, r)' = Holds(w, r)
        /\ \A r \in RunIds : Fresh(r)' = Fresh(r)
        /\ UNCHANGED worker
    BY TokensUnchanged DEF workerVars
  <1>3. SUFFICES ASSUME ~ApproveRun(q)
                 PROVE  TokensShrink
    <2>1. CASE ~ApproveRun(q)
      BY <1>2, <1>3, <2>1, ShrinkKeepsUnique, ShrinkKeepsFresh
    <2>2. CASE ApproveRun(q)
      <3> DEFINE v == request[q].review
                 r == RunOf(q)
      <3>1. /\ v \in ReviewIds /\ r = reviews[v].run
            /\ reviews[v].status \notin {"ABSENT", "PENDING"}
            /\ r \in RunIds /\ Exists(r)
        BY <2>2 DEF ApproveRun, ReferencesExist, RunOf
      <3>2. Awaits(v, r)
        BY <2>2, <3>1 DEF ApproveRun, Awaits, OpenReview
      <3>3. \A x \in RunIds : runs'[x].status = IF x = r THEN "QUEUED" ELSE runs[x].status
        BY <1>1, <2>2 DEF ApproveRun, UpdateRun, Run
      <3>4. \A x \in RunIds : x # r => Queued(x)' = Queued(x) /\ Exists(x)' = Exists(x)
        BY <3>3 DEF Queued, Exists
      <3>5. \A x \in RunIds : Exists(x) => Exists(x)'
        BY <3>3 DEF Exists
      <3>6. \A p \in Requests :
              /\ request'[p].pc = IF p = q THEN "event" ELSE request[p].pc
              /\ request'[p].review = request[p].review
              /\ request'[p].verdict = request[p].verdict
        BY <1>1, <2>2, RequestPcEffect DEF ApproveRun
      <3>7. UNCHANGED reviews
        BY <2>2 DEF ApproveRun
      <3>8. \A x \in RunIds, u \in ReviewIds : Awaits(u, x)' => Awaits(u, x) /\ u # v
        <4>1. \A p \in Requests : request[p].review = v => p = q
          BY <3>1, StoreAssumption DEF OneRequestPerReview, ReviewIds, NoReview
        <4> QED BY <3>1, <3>6, <3>7, <4>1 DEF Awaits, OpenReview
      <3>9. /\ Fresh(r) /\ ~Queued(r)
            /\ \A w \in Workers : ~Holds(w, r)
            /\ \A u \in ReviewIds : Awaits(u, r) => u = v
        BY <3>1, <3>2 DEF UnusedTokenIsFresh, TokenIsUnique
      <3> HIDE DEF v, r
      <3>10. TokenIsUnique'
        BY <1>2, <3>4, <3>8, <3>9 DEF TokenIsUnique
      <3>11. UnusedTokenIsFresh'
        BY <1>2, <3>4, <3>5, <3>8, <3>9 DEF UnusedTokenIsFresh
      <3> QED BY <3>10, <3>11
    <2> QED BY <2>1, <2>2
  <1>4. (\A x \in RunIds : Exists(x) => Exists(x)') /\ (\A x \in RunIds : Queued(x)' => Queued(x))
    <2>1. CASE DenyRun(q)
      <3>1. "BLOCKED" \in RunStatus \ {"QUEUED"} /\ "DENY" \in Decisions
        BY DEF RunStatus, TERMINAL_RUN_STATUSES, Decisions
      <3> QED BY <1>1, <2>1, <3>1, OutcomeWriteTokens DEF DenyRun
    <2>2. CASE ~DenyRun(q)
      BY <1>3, <2>2, TokensUnchanged
         DEF Resolve, ReviewStep, ReadRun, AppendVerdict, RequestLost, storeVars
    <2> QED BY <2>1, <2>2
  <1>5. \A r \in RunIds, v \in ReviewIds : Awaits(v, r)' => Awaits(v, r)
    <2>1. CASE Resolve(q)
      <3>1. PICK v \in ReviewIds, verdict \in {"APPROVED", "DENIED"} :
              /\ reviews[v].status # "ABSENT"
              /\ \A p \in Requests : request[p].review # v
              /\ reviews' = [reviews EXCEPT ![v].status = verdict]
              /\ request' = [request EXCEPT ![q].pc = "read", ![q].review = v,
                                            ![q].verdict = verdict]
        BY <2>1 DEF Resolve, MayResolve
      <3>2. request[q].pc = "idle"
        BY <2>1 DEF Resolve
      <3>3. reviews[v].status = "PENDING"
        BY <1>1, <3>1 DEF OneRequestPerReview, Review
      <3>4. \A u \in ReviewIds : /\ reviews'[u].run = reviews[u].run
                                 /\ u # v => reviews'[u].status = reviews[u].status
                                 /\ reviews'[v].status # "PENDING"
        BY <1>1, <3>1 DEF Review
      <3>5. \A p \in Requests : IF p = q THEN request'[p].review = v
                                ELSE request'[p] = request[p]
        BY <1>1, <3>1 DEF RequestState
      <3> QED BY <3>1, <3>3, <3>4, <3>5 DEF Awaits, OpenReview
    <2>2. CASE ReadRun(q)
      <3>1. \A p \in Requests :
              /\ request'[p].pc = IF p = q THEN "write" ELSE request[p].pc
              /\ request'[p].review = request[p].review
              /\ request'[p].verdict = request[p].verdict
        BY <1>1, <2>2 DEF ReadRun, RequestState
      <3>2. request[q].pc = "read" /\ UNCHANGED reviews
        BY <2>2 DEF ReadRun, storeVars
      <3> QED BY <3>1, <3>2 DEF Awaits, OpenReview
    <2>3. ASSUME NEW pc \in {"event", "done", "lost"},
                 request' = [request EXCEPT ![q].pc = pc], UNCHANGED reviews
          PROVE  \A r \in RunIds, v \in ReviewIds : Awaits(v, r)' => Awaits(v, r)
      <3>1. \A p \in Requests :
              /\ request'[p].pc = IF p = q THEN pc ELSE request[p].pc
              /\ request'[p].review = request[p].review
              /\ request'[p].verdict = request[p].verdict
        BY <1>1, <2>3, RequestPcEffect
      <3> QED BY <2>3, <3>1 DEF Awaits, OpenReview
    <2>4. CASE DenyRun(q) \/ AppendVerdict(q) \/ RequestLost(q)
      BY <2>3, <2>4 DEF DenyRun, AppendVerdict, RequestLost, storeVars
    <2> QED BY <1>3, <2>1, <2>2, <2>4 DEF ReviewStep
  <1> QED BY <1>2, <1>4, <1>5 DEF TokensShrink

\* The steps of a durable workflow touch no token.
LEMMA TemporalTokenStep ==
    ASSUME TypeOK, TokenIsUnique, UnusedTokenIsFresh, NEW r \in RunIds, TemporalAct(r)
    PROVE  TokenIsUnique' /\ UnusedTokenIsFresh'
  <1>1. /\ runs \in [RunIds -> Run] /\ temporal \in [RunIds -> TemporalState]
        /\ starts \in [RunIds -> Nat]
    BY DEF TypeOK, StoreTypeOK, TemporalTypeOK, WorkerTypeOK
  <1>2. UNCHANGED <<worker, reviews, request>>
    BY DEF TemporalAct, TemporalStep, ExecuteAgentNode, RetryAgentNode, AgentNodeDone,
           Signal, ReviewDecided, CompleteRuntimeRun, storeVars, workerVars
  <1>3. temporal[r].pc # "none"
    BY DEF TemporalAct, TemporalStep, ExecuteAgentNode, RetryAgentNode, AgentNodeDone,
           Signal, ReviewDecided, CompleteRuntimeRun, Open
  <1>4. \A x \in RunIds : Fresh(x) => Fresh(x)'
    <2>1. ~Fresh(r)
      BY <1>3 DEF Fresh, NoWorkflow
    <2>2. \A x \in RunIds : x # r => temporal'[x] = temporal[x] /\ starts'[x] = starts[x]
      BY <1>1 DEF TemporalAct, TemporalStep, ExecuteAgentNode, RetryAgentNode, AgentNodeDone,
                  Signal, ReviewDecided, CompleteRuntimeRun, workerVars
    <2> QED BY <2>1, <2>2 DEF Fresh
  <1>5. (\A x \in RunIds : Exists(x) => Exists(x)') /\ (\A x \in RunIds : Queued(x)' => Queued(x))
    <2>1. CASE CompleteRuntimeRun(r)
      <3>1. {"BLOCKED", "COMPLETED"} \subseteq RunStatus \ {"QUEUED"}
        BY DEF RunStatus, TERMINAL_RUN_STATUSES
      <3>2. PICK s \in RunStatus \ {"QUEUED"} :
              UpdateRun(r, WithOutcome(runs[r], s, temporal[r].decision))
        BY <2>1, <3>1 DEF CompleteRuntimeRun
      <3>3. temporal[r].decision \in Decisions
        BY <1>1 DEF TemporalState
      <3> QED BY <1>1, <3>2, <3>3, OutcomeWriteTokens
    <2>2. CASE ~CompleteRuntimeRun(r)
      BY <2>2, TokensUnchanged
         DEF TemporalAct, TemporalStep, ExecuteAgentNode, RetryAgentNode, AgentNodeDone,
             Signal, ReviewDecided, storeVars
    <2> QED BY <2>1, <2>2
  <1>6. TokensShrink
    BY <1>2, <1>5, TokensUnchanged DEF TokensShrink
  <1> QED BY <1>4, <1>6, ShrinkKeepsUnique, ShrinkKeepsFresh

\* Every step keeps the tokens unique and the unused ones fresh.
LEMMA TokenStep ==
    ASSUME SingleResolution, TypeOK, ReferencesExist, OneRequestPerReview,
           TokenIsUnique, UnusedTokenIsFresh, [Next]_vars
    PROVE  TokenIsUnique' /\ UnusedTokenIsFresh'
  <1>1. ASSUME NEW c \in Clients, ClientAct(c)
        PROVE  TokenIsUnique' /\ UnusedTokenIsFresh'
    BY <1>1, DispatchTokenStep
  <1>2. ASSUME NEW w \in Workers, WorkerAct(w)
        PROVE  TokenIsUnique' /\ UnusedTokenIsFresh'
    <2>1. CASE Claim(w) /\ UNCHANGED temporal
      BY <1>2, <2>1, ClaimTokenStep DEF WorkerAct
    <2>2. CASE AddReviewItem(w) /\ UNCHANGED temporal
      BY <1>2, <2>2, AddReviewItemTokenStep DEF WorkerAct
    <2>3. CASE \/ BeginExecution(w) /\ UNCHANGED temporal
               \/ StartTemporal(w) \/ StartTemporalFails(w)
      <3>1. CASE BeginExecution(w) /\ UNCHANGED temporal
        BY <1>2, <3>1, UsingTokenStep DEF WorkerAct
      <3>2. CASE ~BeginExecution(w)
        BY <1>2, <2>3, <3>2, UsingTokenStep DEF WorkerAct
      <3>3. CASE BeginExecution(w) /\ (StartTemporal(w) \/ StartTemporalFails(w))
        BY <3>3 DEF BeginExecution, StartTemporal, StartTemporalFails
      <3> QED BY <2>3, <3>1, <3>2, <3>3
    <2>4. CASE \/ /\ \/ MarkRunning(w) \/ AppendStarted(w) \/ MarkPaused(w) \/ MarkBlocked(w)
                     \/ FinishExecution(w) \/ FailExecution(w) \/ AppendClosing(w)
                     \/ RunnerFactoryRaises(w)
                  /\ UNCHANGED temporal
               \/ RecordTemporalStart(w)
      <3>1. TokensShrink /\ UNCHANGED <<starts, temporal>>
        <4>1. CASE RecordTemporalStart(w)
          <5>1. "RUNNING" \in RunStatus \ {"QUEUED"}
            BY DEF RunStatus, ACTIVE_RUN_STATUSES, TERMINAL_RUN_STATUSES
          <5>2. runs \in [RunIds -> Run] /\ worker \in [Workers -> WorkerState]
            BY DEF TypeOK, StoreTypeOK, WorkerTypeOK
          <5>3. (\A x \in RunIds : Exists(x) => Exists(x)')
                /\ (\A x \in RunIds : Queued(x)' => Queued(x))
            BY <4>1, <5>1, <5>2, StatusWriteTokens DEF RecordTemporalStart
          <5>4. \A r \in RunIds, x \in Workers : Holds(x, r)' =>
                  Holds(x, r) /\ (worker'[x].pc # "executing" => worker[x].pc # "executing")
            BY <4>1, <5>2, GotoTokens DEF RecordTemporalStart
          <5>5. \A r \in RunIds, v \in ReviewIds : Awaits(v, r)' = Awaits(v, r)
            BY <1>2, <4>1, TokensUnchanged DEF RecordTemporalStart, WorkerAct
          <5> QED BY <4>1, <5>3, <5>4, <5>5 DEF TokensShrink, RecordTemporalStart
        <4>2. CASE ~RecordTemporalStart(w)
          BY <1>2, <2>4, <4>2, WorkerTokensShrink DEF WorkerAct
        <4> QED BY <4>1, <4>2
      <3> QED BY <3>1, ShrinkKeepsUnique, ShrinkKeepsFresh, TokensUnchanged
    <2> QED BY <1>2, <2>1, <2>2, <2>3, <2>4 DEF WorkerAct, WorkerStep, TemporalWorkerStep
  <1>3. ASSUME NEW r \in RunIds, TemporalAct(r)
        PROVE  TokenIsUnique' /\ UnusedTokenIsFresh'
    BY <1>3, TemporalTokenStep
  <1>4. ASSUME NEW q \in Requests, RequestAct(q)
        PROVE  TokenIsUnique' /\ UnusedTokenIsFresh'
    BY <1>4, ReviewTokenStep DEF RequestAct
  <1>5. CASE Crash
    <2>1. ASSUME NEW w \in Workers, WorkerCrash(w), UNCHANGED request
          PROVE  TokenIsUnique' /\ UnusedTokenIsFresh'
      <3>1. TokensShrink /\ UNCHANGED <<starts, temporal>>
        BY <1>5, <2>1, WorkerTokensShrink DEF Crash
      <3> QED BY <3>1, ShrinkKeepsUnique, ShrinkKeepsFresh, TokensUnchanged
    <2>2. ASSUME NEW q \in Requests, RequestLost(q), UNCHANGED workerVars
          PROVE  TokenIsUnique' /\ UnusedTokenIsFresh'
      BY <1>5, <2>2, ReviewTokenStep DEF Crash
    <2> QED BY <1>5, <2>1, <2>2 DEF Crash
  <1>6. CASE UNCHANGED vars
    <2>1. TokensShrink
      BY <1>6, TokensUnchanged DEF TokensShrink, vars
    <2> QED BY <1>6, <2>1, ShrinkKeepsUnique, ShrinkKeepsFresh, TokensUnchanged DEF vars
  <1> QED BY <1>1, <1>2, <1>3, <1>4, <1>5, <1>6 DEF Next

\* With one resolve request per item, a resolved item keeps its request.
LEMMA OneRequestStep ==
    ASSUME SingleResolution, TypeOK, ReferencesExist, OneRequestPerReview, [Next]_vars
    PROVE  OneRequestPerReview'
  <1>1. reviews \in [ReviewIds -> Review] /\ request \in [Requests -> RequestState]
    BY DEF TypeOK, StoreTypeOK, ReviewTypeOK
  <1>2. NoReview \notin ReviewIds
    BY StoreAssumption DEF NoReview, ReviewIds
  <1>3. ASSUME NEW q \in Requests, Resolve(q)
        PROVE  OneRequestPerReview'
    <2>1. PICK v \in ReviewIds, verdict \in {"APPROVED", "DENIED"} :
            /\ \A p \in Requests : request[p].review # v
            /\ reviews' = [reviews EXCEPT ![v].status = verdict]
            /\ request' = [request EXCEPT ![q].pc = "read", ![q].review = v,
                                          ![q].verdict = verdict]
      BY <1>3 DEF Resolve, MayResolve
    <2>2. \A p \in Requests :
            /\ request'[p].review = IF p = q THEN v ELSE request[p].review
            /\ request'[p].pc = IF p = q THEN "read" ELSE request[p].pc
      BY <1>1, <2>1 DEF RequestState
    <2>3. \A u \in ReviewIds : u # v => reviews'[u].status = reviews[u].status
      BY <1>1, <2>1 DEF Review
    <2>4. request[q].review = NoReview
      BY <1>3 DEF Resolve, OneRequestPerReview
    <2>5. \A p \in Requests : request'[p].pc = "idle" => request'[p].review = NoReview
      BY <2>2 DEF OneRequestPerReview
    <2>6. \A p, s \in Requests :
            request'[p].review = request'[s].review /\ request'[p].review # NoReview => p = s
      BY <2>1, <2>2 DEF OneRequestPerReview
    <2>7. \A u \in ReviewIds : reviews'[u].status \in {"APPROVED", "DENIED"} =>
            \E p \in Requests : request'[p].review = u
      <3> SUFFICES ASSUME NEW u \in ReviewIds, reviews'[u].status \in {"APPROVED", "DENIED"}
                   PROVE  \E p \in Requests : request'[p].review = u
        OBVIOUS
      <3>1. CASE u = v
        BY <2>2, <3>1
      <3>2. CASE u # v
        <4>1. PICK p \in Requests : request[p].review = u
          BY <2>3, <3>2 DEF OneRequestPerReview
        <4>2. p # q
          BY <1>2, <2>4, <4>1
        <4> QED BY <2>2, <4>1, <4>2
      <3> QED BY <3>1, <3>2
    <2> QED BY <2>5, <2>6, <2>7 DEF OneRequestPerReview
  <1>4. ASSUME \A p \in Requests : request'[p].review = request[p].review,
               \A p \in Requests : request'[p].pc = "idle" => request[p].pc = "idle",
               \A u \in ReviewIds : reviews'[u].status \in {"APPROVED", "DENIED"} =>
                                    reviews'[u].status = reviews[u].status
        PROVE  OneRequestPerReview'
    BY <1>4 DEF OneRequestPerReview
  <1>5. ASSUME NEW q \in Requests, ReviewStep(q) \/ RequestLost(q)
        PROVE  OneRequestPerReview'
    <2>1. UNCHANGED reviews
      BY <1>5 DEF ReviewStep, ReadRun, ApproveRun, DenyRun, AppendVerdict, RequestLost, storeVars
    <2>2. CASE ReadRun(q)
      <3>1. \A p \in Requests : /\ request'[p].review = request[p].review
                                /\ request'[p].pc = "idle" => request[p].pc = "idle"
        BY <1>1, <2>2 DEF ReadRun, RequestState
      <3> QED BY <1>4, <2>1, <3>1
    <2>3. CASE ~ReadRun(q)
      <3>1. PICK pc \in {"event", "done", "lost"} : request' = [request EXCEPT ![q].pc = pc]
        BY <1>5, <2>3 DEF ReviewStep, ApproveRun, DenyRun, AppendVerdict, RequestLost
      <3>2. \A p \in Requests : /\ request'[p].review = request[p].review
                                /\ request'[p].pc = "idle" => request[p].pc = "idle"
        BY <1>1, <3>1, RequestPcEffect
      <3> QED BY <1>4, <2>1, <3>2
    <2> QED BY <2>2, <2>3
  <1>6. ASSUME UNCHANGED <<reviews, request>>
        PROVE  OneRequestPerReview'
    BY <1>4, <1>6
  <1>7. ASSUME NEW w \in Workers, AddReviewItem(w), UNCHANGED request
        PROVE  OneRequestPerReview'
    <2>1. PICK v \in ReviewIds :
            reviews' = [reviews EXCEPT ![v] =
               [status |-> "PENDING", run |-> worker[w].run, hook |-> worker[w].hook]]
      BY <1>7 DEF AddReviewItem
    <2>2. \A u \in ReviewIds :
            reviews'[u].status = IF u = v THEN "PENDING" ELSE reviews[u].status
      BY <1>1, <2>1
    <2> QED BY <1>4, <1>7, <2>2
  <1>8. CASE \E c \in Clients : ClientAct(c)
    BY <1>6, <1>8 DEF ClientAct, DispatchStep, Submit, CreateLookup, CreateInsert,
                      CreateConflict, storeVars
  <1>9. ASSUME NEW w \in Workers, WorkerAct(w)
        PROVE  OneRequestPerReview'
    <2>1. CASE AddReviewItem(w)
      BY <1>7, <1>9, <2>1 DEF WorkerAct
    <2>2. CASE ~AddReviewItem(w)
      BY <1>6, <1>9, <2>2
         DEF WorkerAct, WorkerStep, TemporalWorkerStep, Claim, MarkRunning, AppendStarted,
             MarkPaused, MarkBlocked, BeginExecution, FinishExecution, FailExecution,
             AppendClosing, RunnerFactoryRaises, Die, StartTemporal, StartTemporalFails,
             RecordTemporalStart, storeVars
    <2> QED BY <2>1, <2>2
  <1>10. CASE \E r \in RunIds : TemporalAct(r)
    BY <1>6, <1>10
       DEF TemporalAct, TemporalStep, ExecuteAgentNode, RetryAgentNode, AgentNodeDone,
           Signal, ReviewDecided, CompleteRuntimeRun, storeVars
  <1>11. CASE \E q \in Requests : RequestAct(q)
    BY <1>3, <1>5, <1>11 DEF RequestAct
  <1>12. CASE Crash
    <2>1. CASE \E w \in Workers : WorkerCrash(w) /\ UNCHANGED request
      BY <1>6, <2>1 DEF WorkerCrash, Die, storeVars
    <2>2. CASE \E q \in Requests : RequestLost(q)
      BY <1>5, <2>2
    <2> QED BY <1>12, <2>1, <2>2 DEF Crash
  <1>13. CASE UNCHANGED vars
    BY <1>6, <1>13 DEF vars
  <1> QED BY <1>8, <1>9, <1>10, <1>11, <1>12, <1>13 DEF Next

\* A token is used once: what uses it finds it fresh.
LEMMA UsedOnceStep ==
    ASSUME TypeOK, ReferencesExist, UnusedTokenIsFresh, UsedOnce, [Next]_vars
    PROVE  UsedOnce'
  <1>1. starts \in [RunIds -> Nat] /\ temporal \in [RunIds -> TemporalState]
    BY DEF TypeOK, WorkerTypeOK, TemporalTypeOK
  <1>2. ASSUME UNCHANGED <<starts, temporal>>
        PROVE  UsedOnce'
    BY <1>2 DEF UsedOnce
  <1>3. ASSUME NEW w \in Workers, worker[w].pc = "run"
        PROVE  worker[w].run \in RunIds /\ Fresh(worker[w].run)
    BY <1>3 DEF ReferencesExist, UnusedTokenIsFresh, Holds, Working
  <1>4. ASSUME NEW w \in Workers, BeginExecution(w), UNCHANGED temporal
        PROVE  UsedOnce'
    <2>1. PICK r \in RunIds : Fresh(r) /\ starts' = [starts EXCEPT ![r] = @ + 1]
      BY <1>3, <1>4 DEF BeginExecution
    <2>2. \A x \in RunIds : starts'[x] = IF x = r THEN 1 ELSE starts[x]
      BY <1>1, <2>1 DEF Fresh
    <2>3. RuntimeType # "temporal"
      BY <1>4 DEF BeginExecution
    <2> QED BY <1>4, <2>2, <2>3 DEF UsedOnce
  <1>5. ASSUME NEW w \in Workers, StartTemporal(w) \/ StartTemporalFails(w)
        PROVE  UsedOnce'
    <2>1. RuntimeType = "temporal" /\ UNCHANGED starts
      BY <1>5 DEF StartTemporal, StartTemporalFails
    <2>2. PICK r \in RunIds :
            /\ Fresh(r)
            /\ UNCHANGED temporal
               \/ temporal' = [temporal EXCEPT ![r] = [NoWorkflow EXCEPT !.pc = "execute"]]
      BY <1>3, <1>5 DEF StartTemporal, StartTemporalFails, OpenWorkflow
    <2>3. \A x \in RunIds : temporal'[x].attempts = temporal[x].attempts
      BY <1>1, <2>2 DEF Fresh, NoWorkflow
    <2> QED BY <2>1, <2>3 DEF UsedOnce
  <1>6. ASSUME NEW r \in RunIds, TemporalAct(r)
        PROVE  UsedOnce'
    <2>1. temporal[r].pc # "none"
      BY <1>6 DEF TemporalAct, TemporalStep, ExecuteAgentNode, RetryAgentNode,
                  AgentNodeDone, Signal, ReviewDecided, CompleteRuntimeRun, Open
    <2>2. RuntimeType = "temporal"
      BY <2>1 DEF UsedOnce, NoWorkflow
    <2>3. CASE ExecuteAgentNode(r)
      <3>1. \A x \in RunIds :
              /\ temporal'[x].attempts = IF x = r THEN temporal[x].attempts + 1
                                         ELSE temporal[x].attempts
              /\ starts'[x] = IF x = r THEN starts[x] + 1 ELSE starts[x]
        BY <1>1, <2>3 DEF ExecuteAgentNode, TemporalState
      <3> QED BY <2>2, <3>1 DEF UsedOnce
    <2>4. CASE ~ExecuteAgentNode(r)
      <3>1. UNCHANGED starts
        BY <1>6, <2>4 DEF TemporalAct, TemporalStep, RetryAgentNode, AgentNodeDone,
                          Signal, ReviewDecided, CompleteRuntimeRun, workerVars
      <3>2. \A x \in RunIds : temporal'[x].attempts = temporal[x].attempts
        BY <1>1, <1>6, <2>4 DEF TemporalAct, TemporalStep, RetryAgentNode, AgentNodeDone,
                                Signal, ReviewDecided, CompleteRuntimeRun, TemporalState
      <3> QED BY <2>2, <3>1, <3>2 DEF UsedOnce
    <2> QED BY <2>3, <2>4
  <1>7. ASSUME NEW w \in Workers, WorkerAct(w)
        PROVE  UsedOnce'
    <2>1. CASE BeginExecution(w) /\ UNCHANGED temporal
      BY <1>4, <2>1
    <2>2. CASE StartTemporal(w) \/ StartTemporalFails(w)
      BY <1>5, <2>2
    <2>3. CASE ~(\/ BeginExecution(w) /\ UNCHANGED temporal
                 \/ StartTemporal(w) \/ StartTemporalFails(w))
      BY <1>2, <1>7, <2>3
         DEF WorkerAct, WorkerStep, TemporalWorkerStep, Claim, MarkRunning, AppendStarted,
             AddReviewItem, MarkPaused, MarkBlocked, FinishExecution, FailExecution,
             AppendClosing, RunnerFactoryRaises, Die, RecordTemporalStart
    <2> QED BY <2>1, <2>2, <2>3
  <1>8. CASE \E c \in Clients : ClientAct(c)
    BY <1>2, <1>8 DEF ClientAct, workerVars
  <1>9. CASE \E q \in Requests : RequestAct(q)
    BY <1>2, <1>9 DEF RequestAct, workerVars
  <1>10. CASE Crash
    BY <1>2, <1>10 DEF Crash, WorkerCrash, Die, workerVars
  <1>11. CASE UNCHANGED vars
    BY <1>2, <1>11 DEF vars
  <1> QED BY <1>6, <1>7, <1>8, <1>9, <1>10, <1>11 DEF Next

LEMMA InitToken ==
    ASSUME Init
    PROVE  TokenInvariant
  <1> USE DEF Init
  <1>1. \A r \in RunIds : Fresh(r) /\ ~Queued(r)
    BY DEF WorkerInit, TemporalInit, StoreInit, AbsentRun, Fresh, Queued
  <1>2. \A r \in RunIds, w \in Workers : ~Holds(w, r)
    BY DEF WorkerInit, Idle, Holds, Working
  <1>3. \A r \in RunIds, v \in ReviewIds : ~Awaits(v, r)
    BY DEF StoreInit, AbsentReview, ReviewInit, Awaits, OpenReview
  <1>4. OneRequestPerReview
    BY DEF StoreInit, AbsentReview, ReviewInit, OneRequestPerReview
  <1>5. TokenIsUnique /\ UnusedTokenIsFresh
    BY <1>1, <1>2, <1>3 DEF TokenIsUnique, UnusedTokenIsFresh
  <1>6. UsedOnce
    BY <1>1 DEF UsedOnce, Fresh, NoWorkflow
  <1> QED BY <1>4, <1>5, <1>6, InitTyped DEF TokenInvariant

\* Provided that an item is resolved once, a run's right to be executed is never
\* duplicated, whatever the interleaving of claims, pauses, approvals, denials,
\* durable workflows and crashes.
THEOREM TokenInvariance ==
    ASSUME SingleResolution
    PROVE  Spec => [](TypeOK /\ TokenInvariant)
  <1>1. Init => TypeOK /\ TokenInvariant
    BY InitTyped, InitToken
  <1>2. TypeOK /\ TokenInvariant /\ [Next]_vars => (TypeOK /\ TokenInvariant)'
    <2> SUFFICES ASSUME TypeOK, TokenInvariant, [Next]_vars
                 PROVE  TypeOK' /\ TokenInvariant'
      OBVIOUS
    <2>1. ReferencesExist /\ OneRequestPerReview /\ TokenIsUnique /\ UnusedTokenIsFresh
          /\ UsedOnce
      BY DEF TokenInvariant
    <2>2. TypeOK' /\ ReferencesExist'
      BY <2>1, TypeStep, ReferencesStep
    <2>3. OneRequestPerReview' /\ TokenIsUnique' /\ UnusedTokenIsFresh' /\ UsedOnce'
      BY <2>1, OneRequestStep, TokenStep, UsedOnceStep
    <2> QED BY <2>2, <2>3 DEF TokenInvariant
  <1> QED BY <1>1, <1>2, PTL DEF Spec

\* A native run's agents are executed at most once in its life.
THEOREM ExecutedOnce ==
    ASSUME SingleResolution, RuntimeType # "temporal"
    PROVE  Spec => []ExecutedAtMostOnce
  <1>1. TokenInvariant => ExecutedAtMostOnce
    BY DEF TokenInvariant, UsedOnce, ExecutedAtMostOnce
  <1> QED BY <1>1, TokenInvariance, PTL

\* No two workers ever execute one run at the same time.
THEOREM ExecutionIsExclusive ==
    ASSUME SingleResolution
    PROVE  Spec => []NoConcurrentExecution
  <1>1. TokenInvariant => NoConcurrentExecution
    BY DEF TokenInvariant, ReferencesExist, TokenIsUnique, Holds, Working,
           NoConcurrentExecution
  <1> QED BY <1>1, TokenInvariance, PTL

\* All executions of a run on Temporal are attempts of one durable workflow.
THEOREM OneWorkflow ==
    ASSUME SingleResolution
    PROVE  Spec => []OneWorkflowPerRun
  <1>1. TokenInvariant => OneWorkflowPerRun
    BY DEF TokenInvariant, UsedOnce, OneWorkflowPerRun
  <1> QED BY <1>1, TokenInvariance, PTL

-----------------------------------------------------------------------------
\* Idempotency keys

\* A row that was not inserted has no key, and no two rows have the same one.
KeyInvariant ==
    /\ \A r \in RunIds : ~Exists(r) => runs[r].key = NoKey
    /\ \A r, s \in RunIds : runs[r].key = runs[s].key /\ runs[r].key # NoKey => r = s

\* What the submission asked for is written once.
SubmittedKept ==
    \A r \in RunIds : runs'[r].key = runs[r].key /\ runs'[r].matching = runs[r].matching

\* Only an approval adds to the approvals.
ApprovedKept ==
    (\A q \in Requests : ~ApproveRun(q)) =>
        \A r \in RunIds : runs'[r].approved = runs[r].approved

RowsSame == SubmittedKept /\ RunsKept /\ ApprovedKept

\* A step that inserts no row changes nothing that was submitted and forgets
\* no row.
LEMMA RowsKept ==
    ASSUME TypeOK, [Next]_vars, \A c \in Clients : ~CreateInsert(c)
    PROVE  RowsSame
  <1>1. runs \in [RunIds -> Run] /\ temporal \in [RunIds -> TemporalState]
    BY DEF TypeOK, StoreTypeOK, TemporalTypeOK
  <1>2. {"RUNNING", "COMPLETED", "FAILED", "BLOCKED", "REVIEW"} \subseteq RunStatus
        /\ {"ALLOW", "REVIEW", "BLOCK", "DENY"} \subseteq Decisions
    BY DEF RunStatus, ACTIVE_RUN_STATUSES, TERMINAL_RUN_STATUSES, Decisions
  <1>3. ASSUME UNCHANGED runs
        PROVE  RowsSame
    BY <1>3 DEF RowsSame, SubmittedKept, RunsKept, ApprovedKept, Exists
  <1>4. ASSUME NEW r, NEW s \in RunStatus, UpdateRun(r, WithStatus(runs[r], s))
        PROVE  RowsSame
    BY <1>1, <1>4, StatusWriteEffect, StatusWriteKept
       DEF RowsSame, SubmittedKept, ApprovedKept
  <1>5. ASSUME NEW r, NEW s \in RunStatus, NEW d \in Decisions,
               UpdateRun(r, WithOutcome(runs[r], s, d))
        PROVE  RowsSame
    BY <1>1, <1>5, OutcomeWriteEffect, OutcomeWriteKept
       DEF RowsSame, SubmittedKept, ApprovedKept
  <1>6. CASE \E c \in Clients : ClientAct(c)
    BY <1>3, <1>6 DEF ClientAct, DispatchStep, Submit, CreateLookup, CreateConflict, storeVars
  <1>7. ASSUME NEW w \in Workers, WorkerAct(w)
        PROVE  RowsSame
    <2>1. CASE Claim(w)
      <3>1. PICK r \in RunIds : UpdateRun(r, [runs[r] EXCEPT !.status = "RUNNING"])
        BY <2>1 DEF Claim
      <3>2. \A x \in RunIds : /\ runs'[x].key = runs[x].key
                              /\ runs'[x].matching = runs[x].matching
                              /\ runs'[x].approved = runs[x].approved
                              /\ runs[x].status # "ABSENT" => runs'[x].status # "ABSENT"
        BY <1>1, <3>1 DEF UpdateRun, Run
      <3> QED BY <3>2 DEF RowsSame, SubmittedKept, RunsKept, ApprovedKept, Exists
    <2>2. CASE MarkRunning(w) \/ FailExecution(w)
               \/ StartTemporalFails(w) \/ RecordTemporalStart(w)
      BY <1>2, <1>4, <2>2
         DEF MarkRunning, FailExecution, StartTemporalFails, RecordTemporalStart
    <2>3. CASE MarkPaused(w) \/ MarkBlocked(w) \/ FinishExecution(w)
      BY <1>2, <1>5, <2>3 DEF MarkPaused, MarkBlocked, FinishExecution
    <2>4. CASE AppendStarted(w) \/ AddReviewItem(w) \/ BeginExecution(w) \/ AppendClosing(w)
               \/ RunnerFactoryRaises(w) \/ StartTemporal(w)
      BY <1>3, <2>4 DEF AppendStarted, AddReviewItem, BeginExecution, AppendClosing,
                        RunnerFactoryRaises, Die, StartTemporal, storeVars
    <2> QED BY <1>7, <2>1, <2>2, <2>3, <2>4 DEF WorkerAct, WorkerStep, TemporalWorkerStep
  <1>8. ASSUME NEW r \in RunIds, TemporalAct(r)
        PROVE  RowsSame
    <2>1. CASE CompleteRuntimeRun(r)
      <3>1. PICK s \in RunStatus : UpdateRun(r, WithOutcome(runs[r], s, temporal[r].decision))
        BY <1>2, <2>1 DEF CompleteRuntimeRun
      <3>2. temporal[r].decision \in Decisions
        BY <1>1 DEF TemporalState
      <3> QED BY <1>5, <3>1, <3>2
    <2>2. CASE ~CompleteRuntimeRun(r)
      BY <1>3, <1>8, <2>2
         DEF TemporalAct, TemporalStep, ExecuteAgentNode, RetryAgentNode, AgentNodeDone,
             Signal, ReviewDecided, storeVars
    <2> QED BY <2>1, <2>2
  <1>9. ASSUME NEW q \in Requests, RequestAct(q)
        PROVE  RowsSame
    <2>1. CASE ApproveRun(q)
      <3>1. \A x \in RunIds : /\ runs'[x].key = runs[x].key
                              /\ runs'[x].matching = runs[x].matching
                              /\ runs[x].status # "ABSENT" => runs'[x].status # "ABSENT"
        BY <1>1, <2>1 DEF ApproveRun, UpdateRun, Run
      <3> QED BY <2>1, <3>1 DEF RowsSame, SubmittedKept, RunsKept, ApprovedKept, Exists
    <2>2. CASE DenyRun(q)
      BY <1>2, <1>5, <2>2 DEF DenyRun
    <2>3. CASE ~ApproveRun(q) /\ ~DenyRun(q)
      BY <1>3, <1>9, <2>3 DEF RequestAct, Resolve, ReviewStep, ReadRun, AppendVerdict, storeVars
    <2> QED BY <2>1, <2>2, <2>3
  <1>10. CASE Crash \/ UNCHANGED vars
    BY <1>3, <1>10 DEF Crash, WorkerCrash, Die, RequestLost, storeVars, vars
  <1> QED BY <1>6, <1>7, <1>8, <1>9, <1>10 DEF Next

LEMMA KeyStep ==
    ASSUME UniqueIndex, TypeOK, KeyInvariant, [Next]_vars
    PROVE  KeyInvariant'
  <1>1. CASE \A c \in Clients : ~CreateInsert(c)
    <2>1. RowsSame
      BY <1>1, RowsKept
    <2> QED BY <2>1 DEF KeyInvariant, RowsSame, SubmittedKept, RunsKept, Exists
  <1>2. ASSUME NEW c \in Clients, CreateInsert(c)
        PROVE  KeyInvariant'
    <2> DEFINE k == client[c].key
    <2>1. PICK r \in RunIds : UpdateRun(r, QueuedRow(k, client[c].matching))
      BY <1>2 DEF CreateInsert
    <2>2. k # NoKey => \A x \in RunIds : Exists(x) => runs[x].key # k
      BY <1>2 DEF CreateInsert, RunsWithKey
    <2> HIDE DEF k
    <2>3. runs \in [RunIds -> Run]
      BY DEF TypeOK, StoreTypeOK
    <2>4. \A x \in RunIds :
            /\ runs'[x].key = IF x = r THEN k ELSE runs[x].key
            /\ runs'[x].status = IF x = r THEN "QUEUED" ELSE runs[x].status
      BY <2>1, <2>3 DEF UpdateRun, QueuedRow
    <2>5. k # NoKey => \A x \in RunIds : runs[x].key # k
      BY <2>2 DEF KeyInvariant
    <2> QED BY <2>4, <2>5 DEF KeyInvariant, Exists
  <1> QED BY <1>1, <1>2

\* With the unique index of the migrations, no interleaving of submissions
\* creates two runs with one idempotency key.
THEOREM KeysAreUnique ==
    ASSUME UniqueIndex
    PROVE  Spec => []OneRunPerKey
  <1>1. Init => TypeOK /\ ReferencesExist /\ KeyInvariant
    BY InitTyped DEF Init, StoreInit, AbsentRun, KeyInvariant
  <1>2. TypeOK /\ ReferencesExist /\ KeyInvariant /\ [Next]_vars
          => (TypeOK /\ ReferencesExist /\ KeyInvariant)'
    BY TypeStep, ReferencesStep, KeyStep
  <1>3. KeyInvariant => OneRunPerKey
    BY DEF KeyInvariant, OneRunPerKey
  <1> QED BY <1>1, <1>2, <1>3, PTL DEF Spec

-----------------------------------------------------------------------------
\* What no step takes back

\* Rows stay, and what was submitted with them stays.
LEMMA RowsPersist ==
    ASSUME TypeOK, [Next]_vars
    PROVE  \A r \in RunIds : Exists(r) =>
             Exists(r)' /\ runs'[r].matching = runs[r].matching
  <1>1. CASE \A c \in Clients : ~CreateInsert(c)
    BY <1>1, RowsKept DEF RowsSame, SubmittedKept, RunsKept
  <1>2. ASSUME NEW c \in Clients, CreateInsert(c)
        PROVE  \A r \in RunIds : Exists(r) =>
                 Exists(r)' /\ runs'[r].matching = runs[r].matching
    <2>1. runs \in [RunIds -> Run]
      BY DEF TypeOK, StoreTypeOK
    <2>2. PICK r \in RunIds : ~Exists(r) /\ \A x \in RunIds : x # r => runs'[x] = runs[x]
      BY <1>2, <2>1 DEF CreateInsert, IsNextRun, IsOldest, UpdateRun
    <2> QED BY <2>2 DEF Exists
  <1> QED BY <1>1, <1>2

\* A request keeps its item and its verdict, an item its run and its hook.
VerdictsKept ==
    \A q \in Requests : request[q].pc # "idle" =>
        /\ request'[q].pc # "idle"
        /\ request'[q].review = request[q].review
        /\ request'[q].verdict = request[q].verdict

ItemsKept ==
    \A v \in ReviewIds : reviews[v].status # "ABSENT" =>
        /\ reviews'[v].status # "ABSENT"
        /\ reviews'[v].run = reviews[v].run
        /\ reviews'[v].hook = reviews[v].hook

LEMMA VerdictsPersist ==
    ASSUME TypeOK, [Next]_vars
    PROVE  VerdictsKept /\ ItemsKept
  <1>1. reviews \in [ReviewIds -> Review] /\ request \in [Requests -> RequestState]
    BY DEF TypeOK, StoreTypeOK, ReviewTypeOK
  <1>2. ASSUME UNCHANGED <<reviews, request>>
        PROVE  VerdictsKept /\ ItemsKept
    BY <1>2 DEF VerdictsKept, ItemsKept
  <1>3. CASE \E c \in Clients : ClientAct(c)
    BY <1>2, <1>3 DEF ClientAct, DispatchStep, Submit, CreateLookup, CreateInsert,
                      CreateConflict, storeVars
  <1>4. ASSUME NEW w \in Workers, WorkerAct(w)
        PROVE  VerdictsKept /\ ItemsKept
    <2>1. CASE AddReviewItem(w)
      <3>1. PICK v \in ReviewIds :
              /\ reviews[v].status = "ABSENT"
              /\ \A u \in ReviewIds : u # v => reviews'[u] = reviews[u]
        BY <1>1, <2>1 DEF AddReviewItem, IsNextReview, IsOldest
      <3> QED BY <1>4, <3>1 DEF VerdictsKept, ItemsKept, WorkerAct
    <2>2. CASE ~AddReviewItem(w)
      BY <1>2, <1>4, <2>2
         DEF WorkerAct, WorkerStep, TemporalWorkerStep, Claim, MarkRunning, AppendStarted,
             MarkPaused, MarkBlocked, BeginExecution, FinishExecution, FailExecution,
             AppendClosing, RunnerFactoryRaises, Die, StartTemporal, StartTemporalFails,
             RecordTemporalStart, storeVars
    <2> QED BY <2>1, <2>2
  <1>5. CASE \E r \in RunIds : TemporalAct(r)
    BY <1>2, <1>5
       DEF TemporalAct, TemporalStep, ExecuteAgentNode, RetryAgentNode, AgentNodeDone,
           Signal, ReviewDecided, CompleteRuntimeRun, storeVars
  <1>6. ASSUME NEW q \in Requests, Resolve(q) \/ ReviewStep(q) \/ RequestLost(q)
        PROVE  VerdictsKept /\ ItemsKept
    <2>1. CASE Resolve(q)
      <3>1. PICK v \in ReviewIds, verdict \in {"APPROVED", "DENIED"} :
              /\ reviews' = [reviews EXCEPT ![v].status = verdict]
              /\ request' = [request EXCEPT ![q].pc = "read", ![q].review = v,
                                            ![q].verdict = verdict]
        BY <2>1 DEF Resolve
      <3>2. \A p \in Requests : p # q => request'[p] = request[p]
        BY <1>1, <3>1
      <3>3. \A u \in ReviewIds : /\ reviews'[u].run = reviews[u].run
                                 /\ reviews'[u].hook = reviews[u].hook
                                 /\ reviews[u].status # "ABSENT" => reviews'[u].status # "ABSENT"
        BY <1>1, <3>1 DEF Review
      <3>4. request[q].pc = "idle"
        BY <2>1 DEF Resolve
      <3> QED BY <3>2, <3>3, <3>4 DEF VerdictsKept, ItemsKept
    <2>2. CASE ~Resolve(q)
      <3>1. UNCHANGED reviews
        BY <1>6, <2>2
           DEF ReviewStep, ReadRun, ApproveRun, DenyRun, AppendVerdict, RequestLost, storeVars
      <3>2. CASE ReadRun(q)
        <4>1. \A p \in Requests :
                /\ request'[p].pc = IF p = q THEN "write" ELSE request[p].pc
                /\ request'[p].review = request[p].review
                /\ request'[p].verdict = request[p].verdict
          BY <1>1, <3>2 DEF ReadRun, RequestState
        <4> QED BY <3>1, <4>1 DEF VerdictsKept, ItemsKept
      <3>3. CASE ~ReadRun(q)
        <4>1. PICK pc \in {"event", "done", "lost"} : request' = [request EXCEPT ![q].pc = pc]
          BY <1>6, <2>2, <3>3 DEF ReviewStep, ApproveRun, DenyRun, AppendVerdict, RequestLost
        <4>2. \A p \in Requests :
                /\ request'[p].pc = IF p = q THEN pc ELSE request[p].pc
                /\ request'[p].review = request[p].review
                /\ request'[p].verdict = request[p].verdict
          BY <1>1, <4>1, RequestPcEffect
        <4> QED BY <3>1, <4>1, <4>2 DEF VerdictsKept, ItemsKept
      <3> QED BY <3>2, <3>3
    <2> QED BY <2>1, <2>2
  <1>7. CASE \E q \in Requests : RequestAct(q)
    BY <1>6, <1>7 DEF RequestAct
  <1>8. CASE Crash
    <2>1. CASE \E w \in Workers : WorkerCrash(w) /\ UNCHANGED request
      BY <1>2, <2>1 DEF WorkerCrash, Die, storeVars
    <2>2. CASE \E q \in Requests : RequestLost(q)
      BY <1>6, <2>2
    <2> QED BY <1>8, <2>1, <2>2 DEF Crash
  <1>9. CASE UNCHANGED vars
    BY <1>2, <1>9 DEF vars
  <1> QED BY <1>3, <1>4, <1>5, <1>7, <1>8, <1>9 DEF Next

\* What was approved stays approved.
LEMMA ApprovalsPersist ==
    ASSUME TypeOK, ReferencesExist, ApprovalsAreReal, [Next]_vars,
           NEW r \in RunIds, NEW h, ApprovedBySomeone(r, h)
    PROVE  ApprovedBySomeone(r, h)'
  <1>1. PICK q \in Requests : /\ request[q].verdict = "APPROVED"
                              /\ reviews[request[q].review].run = r
                              /\ reviews[request[q].review].hook = h
    BY DEF ApprovedBySomeone
  <1>2. request[q].pc # "idle"
    BY <1>1 DEF ApprovalsAreReal
  <1>3. request[q].review \in ReviewIds /\ reviews[request[q].review].status # "ABSENT"
    BY <1>2 DEF ReferencesExist
  <1>4. request'[q].verdict = "APPROVED" /\ request'[q].review = request[q].review
    BY <1>1, <1>2, VerdictsPersist DEF VerdictsKept
  <1>5. reviews'[request[q].review].run = r /\ reviews'[request[q].review].hook = h
    BY <1>1, <1>3, VerdictsPersist DEF ItemsKept
  <1> QED BY <1>4, <1>5 DEF ApprovedBySomeone

\* A run whose hooks are passed stays a run whose hooks are passed.
LEMMA GatesPersist ==
    ASSUME TypeOK, ReferencesExist, ApprovalsAreReal, [Next]_vars,
           NEW r \in RunIds, Exists(r), GateOpen(r)
    PROVE  Exists(r)' /\ GateOpen(r)'
  <1>1. Exists(r)' /\ runs'[r].matching = runs[r].matching
    BY RowsPersist
  <1>2. \A h \in Hooks : Gating(r, h)' => Gating(r, h)
    BY <1>1 DEF Gating
  <1>3. \A h \in Hooks : Gating(r, h) => Manifest[h] # "block" /\ ApprovedBySomeone(r, h)'
    BY ApprovalsPersist DEF GateOpen
  <1> QED BY <1>1, <1>2, <1>3 DEF GateOpen

-----------------------------------------------------------------------------
\* How a worker moves

SameRun(w) ==
    /\ worker[w].pc # "idle"
    /\ worker'[w].run = worker[w].run
    /\ worker'[w].approved = worker[w].approved

TakesRun(w) ==
    \E r \in RunIds :
        /\ worker'[w].pc = "claimed"
        /\ worker'[w].run = r
        /\ worker'[w].approved = runs[r].approved

PassesHooks(w) ==
    /\ SameRun(w)
    /\ worker[w].pc = "started"
    /\ worker'[w].hook = FirstMatchingHook(runs[worker[w].run].matching, worker[w].approved)
    /\ worker'[w].pc = AfterHook(worker'[w].hook)

GoesOn(w) ==
    /\ SameRun(w)
    /\ worker'[w].hook = worker[w].hook
    /\ \/ worker'[w].pc = worker[w].pc
       \/ worker'[w].pc = "executing" /\ worker[w].pc = "run"
       \/ worker'[w].pc \notin {"idle", "review", "run", "executing"}

LEMMA WorkerMoves ==
    ASSUME TypeOK, [Next]_vars, NEW w \in Workers
    PROVE  worker'[w].pc = "idle" \/ TakesRun(w) \/ PassesHooks(w) \/ GoesOn(w)
  <1> DEFINE Goal == worker'[w].pc = "idle" \/ TakesRun(w) \/ PassesHooks(w) \/ GoesOn(w)
  <1>1. worker \in [Workers -> WorkerState]
    BY DEF TypeOK, WorkerTypeOK
  <1>2. ASSUME worker'[w] = worker[w]
        PROVE  Goal
    BY <1>2 DEF GoesOn, SameRun
  <1>3. ASSUME NEW x \in Workers, WorkerStep(x) \/ TemporalWorkerStep(x) \/ WorkerCrash(x)
        PROVE  Goal
    <2>1. CASE Claim(x)
      <3>1. PICK r \in RunIds : worker' = [worker EXCEPT ![x] =
               [pc |-> "claimed", run |-> r, approved |-> runs[r].approved, hook |-> NoHook]]
        BY <2>1 DEF Claim
      <3>2. CASE x = w
        BY <1>1, <3>1, <3>2 DEF TakesRun
      <3>3. CASE x # w
        BY <1>1, <1>2, <3>1, <3>3
      <3> QED BY <3>2, <3>3
    <2>2. CASE AppendStarted(x)
      <3> DEFINE h == FirstMatchingHook(runs[worker[x].run].matching, worker[x].approved)
      <3>1. worker' = [worker EXCEPT ![x].hook = h, ![x].pc = AfterHook(h)]
        BY <2>2 DEF AppendStarted
      <3>2. worker[x].pc = "started"
        BY <2>2 DEF AppendStarted
      <3> HIDE DEF h
      <3>3. IF x = w THEN /\ worker'[w].run = worker[w].run
                          /\ worker'[w].approved = worker[w].approved
                          /\ worker'[w].hook = h
                          /\ worker'[w].pc = AfterHook(h)
            ELSE worker'[w] = worker[w]
        BY <1>1, <3>1 DEF WorkerState
      <3> QED BY <1>2, <3>2, <3>3 DEF PassesHooks, SameRun, h
    <2>3. ASSUME NEW pc, Goto(x, pc), worker[x].pc # "idle",
                 \/ pc = "executing" /\ worker[x].pc = "run"
                 \/ pc \notin {"idle", "review", "run", "executing"}
          PROVE  Goal
      <3>1. /\ worker'[w].pc = IF w = x THEN pc ELSE worker[w].pc
            /\ worker'[w].run = worker[w].run
            /\ worker'[w].hook = worker[w].hook
            /\ worker'[w].approved = worker[w].approved
        BY <1>1, <2>3, GotoEffect
      <3>2. CASE w = x
        BY <2>3, <3>1, <3>2 DEF GoesOn, SameRun
      <3>3. CASE w # x
        BY <1>1, <1>2, <2>3, <3>3 DEF Goto
      <3> QED BY <3>2, <3>3
    <2>4. ASSUME Rest(x)
          PROVE  Goal
      BY <1>1, <1>2, <2>4, RestEffect DEF Idle
    <2>5. CASE \/ MarkRunning(x) \/ AddReviewItem(x) \/ MarkPaused(x) \/ MarkBlocked(x)
      BY <2>3, <2>5 DEF MarkRunning, AddReviewItem, MarkPaused, MarkBlocked
    <2>6. CASE BeginExecution(x) \/ FinishExecution(x) \/ FailExecution(x)
      BY <2>3, <2>6 DEF BeginExecution, FinishExecution, FailExecution
    <2>7. CASE TemporalWorkerStep(x)
      BY <2>3, <2>7
         DEF TemporalWorkerStep, StartTemporal, StartTemporalFails, RecordTemporalStart
    <2>8. CASE AppendClosing(x) \/ RunnerFactoryRaises(x) \/ WorkerCrash(x)
      BY <2>4, <2>8 DEF AppendClosing, RunnerFactoryRaises, WorkerCrash, Die
    <2> QED BY <1>3, <2>1, <2>2, <2>5, <2>6, <2>7, <2>8 DEF WorkerStep
  <1>4. ASSUME UNCHANGED worker
        PROVE  Goal
    BY <1>2, <1>4
  <1>5. CASE \E x \in Workers : WorkerAct(x)
    BY <1>3, <1>5 DEF WorkerAct
  <1>6. CASE \/ \E c \in Clients : ClientAct(c)
             \/ \E q \in Requests : RequestAct(q)
    BY <1>4, <1>6 DEF ClientAct, RequestAct, workerVars
  <1>7. CASE \E r \in RunIds : TemporalAct(r)
    BY <1>4, <1>7
       DEF TemporalAct, TemporalStep, ExecuteAgentNode, RetryAgentNode, AgentNodeDone,
           Signal, ReviewDecided, CompleteRuntimeRun, workerVars
  <1>8. CASE Crash
    BY <1>3, <1>4, <1>8 DEF Crash, workerVars
  <1>9. CASE UNCHANGED vars
    BY <1>4, <1>9 DEF vars
  <1> QED BY <1>5, <1>6, <1>7, <1>8, <1>9 DEF Next

\* What the first matching hook means for the runs that pass it.
LEMMA HookTypes ==
    ASSUME NEW matching \in SUBSET Hooks, NEW approved \in SUBSET Hooks,
           NEW h, h = FirstMatchingHook(matching, approved)
    PROVE  /\ AfterHook(h) = "review" =>
                h \in Hooks /\ Manifest[h] \in {"pause_for_review", "escalate"}
           /\ AfterHook(h) = "run" =>
                \/ matching \subseteq approved
                \/ /\ h \in matching /\ Manifest[h] = "continue"
                   /\ \A g \in matching \ approved : h <= g
  <1>1. \/ h = NoHook /\ matching \subseteq approved
        \/ h \in matching \ approved /\ \A g \in matching \ approved : h <= g
    BY FirstMatchingHookMeaning
  <1>2. CASE h = NoHook /\ matching \subseteq approved
    BY <1>2 DEF AfterHook
  <1>3. CASE h \in matching \ approved /\ \A g \in matching \ approved : h <= g
    <2>1. h \in Hooks /\ h # NoHook
      BY <1>3, StoreAssumption DEF Hooks, NoHook
    <2>2. Manifest[h] \in HookActions
      BY <2>1, StoreAssumption DEF Hooks
    <2> QED BY <1>3, <2>1, <2>2 DEF AfterHook, HookActions
  <1> QED BY <1>1, <1>2, <1>3

-----------------------------------------------------------------------------
\* The invariant, conjunct by conjunct

\* A new review item has the hook of a worker about to pause.
LEMMA NewItems ==
    ASSUME TypeOK, [Next]_vars,
           NEW v \in ReviewIds, reviews[v].status = "ABSENT", reviews'[v].status # "ABSENT"
    PROVE  \E w \in Workers : worker[w].pc = "review" /\ reviews'[v].hook = worker[w].hook
  <1>1. reviews \in [ReviewIds -> Review]
    BY DEF TypeOK, StoreTypeOK
  <1>2. ~UNCHANGED reviews
    OBVIOUS
  <1>3. ASSUME NEW w \in Workers, AddReviewItem(w)
        PROVE  worker[w].pc = "review" /\ reviews'[v].hook = worker[w].hook
    <2>1. PICK u \in ReviewIds : reviews' = [reviews EXCEPT ![u] =
            [status |-> "PENDING", run |-> worker[w].run, hook |-> worker[w].hook]]
      BY <1>3 DEF AddReviewItem
    <2>2. u = v
      BY <1>1, <2>1
    <2> QED BY <1>1, <1>3, <2>1, <2>2 DEF AddReviewItem
  <1>4. ASSUME NEW q \in Requests
        PROVE  ~Resolve(q)
    <2> SUFFICES ASSUME Resolve(q) PROVE FALSE
      OBVIOUS
    <2>1. PICK u \in ReviewIds, verdict \in {"APPROVED", "DENIED"} :
            reviews[u].status # "ABSENT" /\ reviews' = [reviews EXCEPT ![u].status = verdict]
      BY DEF Resolve
    <2> QED BY <1>1, <2>1
  <1>5. ~\E c \in Clients : ClientAct(c)
    BY <1>2 DEF ClientAct, DispatchStep, Submit, CreateLookup, CreateInsert, CreateConflict,
                storeVars
  <1>6. ASSUME NEW w \in Workers, WorkerAct(w)
        PROVE  AddReviewItem(w)
    BY <1>2, <1>6
       DEF WorkerAct, WorkerStep, TemporalWorkerStep, Claim, MarkRunning, AppendStarted,
           MarkPaused, MarkBlocked, BeginExecution, FinishExecution, FailExecution,
           AppendClosing, RunnerFactoryRaises, Die, StartTemporal, StartTemporalFails,
           RecordTemporalStart, storeVars
  <1>7. ~\E r \in RunIds : TemporalAct(r)
    BY <1>2 DEF TemporalAct, TemporalStep, ExecuteAgentNode, RetryAgentNode, AgentNodeDone,
                Signal, ReviewDecided, CompleteRuntimeRun, storeVars
  <1>8. ~\E q \in Requests : RequestAct(q)
    BY <1>2, <1>4 DEF RequestAct, ReviewStep, ReadRun, ApproveRun, DenyRun, AppendVerdict,
                      storeVars
  <1>9. ~Crash /\ ~UNCHANGED vars
    BY <1>2 DEF Crash, WorkerCrash, Die, RequestLost, storeVars, vars
  <1> QED BY <1>3, <1>5, <1>6, <1>7, <1>8, <1>9 DEF Next

LEMMA ReviewsArePausesStep ==
    ASSUME TypeOK, ReferencesExist, ReviewsArePauses, [Next]_vars
    PROVE  ReviewsArePauses'
  <1>1. ASSUME NEW w \in Workers, worker'[w].pc = "review"
        PROVE  Manifest[worker'[w].hook] \in {"pause_for_review", "escalate"}
    <2>1. CASE PassesHooks(w)
      <3>1. worker[w].run \in RunIds
        BY <2>1 DEF PassesHooks, ReferencesExist
      <3>2. runs[worker[w].run].matching \in SUBSET Hooks /\ worker[w].approved \in SUBSET Hooks
        BY <3>1 DEF TypeOK, StoreTypeOK, Run, WorkerTypeOK, WorkerState
      <3> QED BY <1>1, <2>1, <3>2, HookTypes DEF PassesHooks
    <2>2. CASE GoesOn(w)
      BY <1>1, <2>2 DEF GoesOn, ReviewsArePauses
    <2> QED BY <1>1, <2>1, <2>2, WorkerMoves DEF TakesRun
  <1>2. ASSUME NEW v \in ReviewIds, reviews'[v].status # "ABSENT"
        PROVE  Manifest[reviews'[v].hook] \in {"pause_for_review", "escalate"}
    <2>1. CASE reviews[v].status # "ABSENT"
      BY <2>1, VerdictsPersist DEF ItemsKept, ReviewsArePauses
    <2>2. CASE reviews[v].status = "ABSENT"
      BY <1>2, <2>2, NewItems DEF ReviewsArePauses
    <2> QED BY <2>1, <2>2
  <1> QED BY <1>1, <1>2 DEF ReviewsArePauses

\* What a request carries when it is about to write.
LEMMA RequestMoves ==
    ASSUME TypeOK, [Next]_vars, NEW q \in Requests
    PROVE  /\ request'[q].pc = "idle" =>
                request[q].pc = "idle" /\ request'[q].verdict = request[q].verdict
           /\ request'[q].pc = "write" =>
                /\ request[q].pc \in {"read", "write"}
                /\ request'[q].review = request[q].review
                /\ request'[q].approved = IF request[q].pc = "write" THEN request[q].approved
                                          ELSE runs[RunOf(q)].approved
  <1> DEFINE Goal ==
       /\ request'[q].pc = "idle" =>
            request[q].pc = "idle" /\ request'[q].verdict = request[q].verdict
       /\ request'[q].pc = "write" =>
            /\ request[q].pc \in {"read", "write"}
            /\ request'[q].review = request[q].review
            /\ request'[q].approved = IF request[q].pc = "write" THEN request[q].approved
                                      ELSE runs[RunOf(q)].approved
  <1>1. request \in [Requests -> RequestState]
    BY DEF TypeOK, ReviewTypeOK
  <1>2. ASSUME request'[q] = request[q]
        PROVE  Goal
    BY <1>2
  <1>3. ASSUME NEW p \in Requests, Resolve(p) \/ ReviewStep(p) \/ RequestLost(p)
        PROVE  Goal
    <2>1. CASE p # q
      <3>1. request'[q] = request[q]
        BY <1>1, <1>3, <2>1
           DEF Resolve, ReviewStep, ReadRun, ApproveRun, DenyRun, AppendVerdict, RequestLost
      <3> QED BY <1>2, <3>1
    <2>2. CASE p = q
      <3>1. CASE ReadRun(q)
        <4>1. /\ request'[q].pc = "write"
              /\ request'[q].review = request[q].review
              /\ request'[q].approved = runs[RunOf(q)].approved
              /\ request[q].pc = "read"
          BY <1>1, <3>1 DEF ReadRun, RequestState
        <4> QED BY <4>1
      <3>2. CASE ~ReadRun(q)
        <4>1. ASSUME Resolve(q)
              PROVE  request'[q].pc = "read"
          <5>1. PICK v \in ReviewIds, verdict \in {"APPROVED", "DENIED"} :
                  request' = [request EXCEPT ![q].pc = "read", ![q].review = v,
                                             ![q].verdict = verdict]
            BY <4>1 DEF Resolve
          <5> QED BY <1>1, <5>1 DEF RequestState
        <4>2. ASSUME ~Resolve(q)
              PROVE  request'[q].pc \in {"event", "done", "lost"}
          <5>1. PICK pc \in {"event", "done", "lost"} : request' = [request EXCEPT ![q].pc = pc]
            BY <1>3, <2>2, <3>2, <4>2
               DEF ReviewStep, ApproveRun, DenyRun, AppendVerdict, RequestLost
          <5> QED BY <1>1, <5>1, RequestPcEffect
        <4> QED BY <4>1, <4>2
      <3> QED BY <3>1, <3>2
    <2> QED BY <2>1, <2>2
  <1>4. ASSUME UNCHANGED request
        PROVE  Goal
    BY <1>2, <1>4
  <1>5. CASE \E p \in Requests : RequestAct(p)
    BY <1>3, <1>5 DEF RequestAct
  <1>6. CASE \/ \E c \in Clients : ClientAct(c)
             \/ \E w \in Workers : WorkerAct(w)
             \/ \E r \in RunIds : TemporalAct(r)
    BY <1>4, <1>6 DEF ClientAct, WorkerAct, TemporalAct
  <1>7. CASE Crash
    BY <1>3, <1>4, <1>7 DEF Crash
  <1>8. CASE UNCHANGED vars
    BY <1>4, <1>8 DEF vars
  <1> QED BY <1>5, <1>6, <1>7, <1>8 DEF Next

LEMMA ApprovalsStep ==
    ASSUME TypeOK, ReferencesExist, ApprovalsAreReal, [Next]_vars
    PROVE  ApprovalsAreReal'
  <1>1. runs \in [RunIds -> Run] /\ request \in [Requests -> RequestState]
    BY DEF TypeOK, StoreTypeOK, ReviewTypeOK
  <1>2. \A q \in Requests : request'[q].pc = "idle" => request'[q].verdict = "NONE"
    BY RequestMoves DEF ApprovalsAreReal
  <1>3. ASSUME NEW r \in RunIds, NEW h \in runs'[r].approved
        PROVE  ApprovedBySomeone(r, h)'
    <2>1. CASE h \in runs[r].approved
      BY <2>1, ApprovalsPersist DEF ApprovalsAreReal
    <2>2. ASSUME NEW q \in Requests, ApproveRun(q), h \notin runs[r].approved
          PROVE  ApprovedBySomeone(r, h)'
      <3>1. runs' = [runs EXCEPT ![RunOf(q)] =
              [runs[RunOf(q)] EXCEPT !.status = "QUEUED", !.decision = "NONE",
                 !.completed = FALSE, !.approved = request[q].approved \cup {HookOf(q)}]]
        BY <2>2 DEF ApproveRun, UpdateRun
      <3>2. r = RunOf(q)
        BY <1>1, <2>2, <3>1
      <3>3. h \in request[q].approved \cup {HookOf(q)}
        BY <1>1, <3>1, <3>2 DEF Run
      <3>4. request[q].pc = "write" /\ request[q].verdict = "APPROVED"
        BY <2>2 DEF ApproveRun
      <3>5. ApprovedBySomeone(r, h)
        BY <3>2, <3>3, <3>4 DEF ApprovalsAreReal, ApprovedBySomeone, RunOf, HookOf
      <3> QED BY <3>5, ApprovalsPersist
    <2>3. ASSUME NEW c \in Clients, CreateInsert(c), h \notin runs[r].approved
          PROVE  ApprovedBySomeone(r, h)'
      <3>1. PICK x \in RunIds : runs' = [runs EXCEPT ![x] =
              QueuedRow(client[c].key, client[c].matching)]
        BY <2>3 DEF CreateInsert, UpdateRun
      <3>2. runs'[r].approved \subseteq runs[r].approved
        BY <1>1, <3>1 DEF QueuedRow
      <3> QED BY <1>3, <2>3, <3>2
    <2> QED BY <1>3, <2>1, <2>2, <2>3, RowsKept DEF RowsSame, ApprovedKept
  <1>4. ASSUME NEW r \in RunIds, NEW w \in Workers, worker'[w].pc # "idle",
               worker'[w].run = r, NEW h \in worker'[w].approved
        PROVE  ApprovedBySomeone(r, h)'
    <2>1. CASE TakesRun(w)
      BY <1>4, <2>1, ApprovalsPersist DEF TakesRun, ApprovalsAreReal
    <2>2. CASE SameRun(w)
      BY <1>4, <2>2, ApprovalsPersist DEF SameRun, ApprovalsAreReal
    <2> QED BY <1>4, <2>1, <2>2, WorkerMoves DEF PassesHooks, GoesOn
  <1>5. ASSUME NEW r \in RunIds, NEW q \in Requests, request'[q].pc = "write", RunOf(q)' = r,
               NEW h \in request'[q].approved
        PROVE  ApprovedBySomeone(r, h)'
    <2>1. /\ request[q].pc \in {"read", "write"}
          /\ request'[q].review = request[q].review
          /\ request'[q].approved = IF request[q].pc = "write" THEN request[q].approved
                                    ELSE runs[RunOf(q)].approved
      BY <1>5, RequestMoves
    <2>2. request[q].review \in ReviewIds /\ reviews[request[q].review].status # "ABSENT"
      BY <2>1 DEF ReferencesExist
    <2>3. RunOf(q) = r
      BY <1>5, <2>1, <2>2, VerdictsPersist DEF ItemsKept, RunOf
    <2>4. ApprovedBySomeone(r, h)
      BY <1>5, <2>1, <2>3 DEF ApprovalsAreReal
    <2> QED BY <2>4, ApprovalsPersist
  <1> QED BY <1>2, <1>3, <1>4, <1>5 DEF ApprovalsAreReal

\* The hooks let a run pass when all that guard it are approved.
LEMMA PassingOpensGate ==
    ASSUME TypeOK, ReferencesExist, ReviewsArePauses, ApprovalsAreReal,
           NEW w \in Workers, PassesHooks(w), worker'[w].pc = "run"
    PROVE  GateOpen(worker[w].run)
  <1> DEFINE matching == runs[worker[w].run].matching
             approved == worker[w].approved
             h == FirstMatchingHook(matching, approved)
  <1>1. worker[w].pc = "started" /\ worker[w].run \in RunIds
    BY DEF PassesHooks, ReferencesExist
  <1>2. matching \in SUBSET Hooks /\ approved \in SUBSET Hooks
    BY <1>1 DEF TypeOK, StoreTypeOK, Run, WorkerTypeOK, WorkerState
  <1>3. AfterHook(h) = "run"
    BY DEF PassesHooks
  <1>4. \/ matching \subseteq approved
        \/ /\ h \in matching /\ Manifest[h] = "continue"
           /\ \A g \in matching \ approved : h <= g
    BY <1>2, <1>3, HookTypes
  <1>5. \A g \in approved : ApprovedBySomeone(worker[w].run, g)
    BY <1>1 DEF ApprovalsAreReal
  <1>6. \A g \in Hooks : ApprovedBySomeone(worker[w].run, g) => Manifest[g] # "block"
    <2> SUFFICES ASSUME NEW g \in Hooks, ApprovedBySomeone(worker[w].run, g)
                 PROVE  Manifest[g] # "block"
      OBVIOUS
    <2>1. PICK q \in Requests : /\ request[q].verdict = "APPROVED"
                                /\ reviews[request[q].review].hook = g
      BY DEF ApprovedBySomeone
    <2>2. request[q].pc # "idle"
      BY <2>1 DEF ApprovalsAreReal
    <2>3. request[q].review \in ReviewIds /\ reviews[request[q].review].status # "ABSENT"
      BY <2>2 DEF ReferencesExist
    <2> QED BY <2>1, <2>3 DEF ReviewsArePauses
  <1>7. \A g \in Hooks : Gating(worker[w].run, g) => g \in approved
    <2> SUFFICES ASSUME NEW g \in Hooks, Gating(worker[w].run, g), g \notin approved
                 PROVE  FALSE
      OBVIOUS
    <2>1. g \in matching /\ Manifest[g] # "continue"
          /\ \A f \in matching : f < g => Manifest[f] # "continue"
      BY DEF Gating
    <2>2. h \in matching /\ Manifest[h] = "continue" /\ h <= g
      BY <1>4, <2>1
    <2>3. h \in Int /\ g \in Int
      BY <1>2, <2>2, StoreAssumption DEF Hooks
    <2> HIDE DEF h, matching
    <2>4. h < g
      BY <2>1, <2>2, <2>3
    <2> QED BY <2>1, <2>2, <2>4
  <1> QED BY <1>5, <1>6, <1>7 DEF GateOpen

\* What marks a run as executed: a worker or a workflow that passed the hooks.
LEMMA ExecutionMoves ==
    ASSUME TypeOK, [Next]_vars, NEW r \in RunIds,
           starts'[r] > 0 \/ temporal'[r] # NoWorkflow
    PROVE  \/ starts[r] > 0 \/ temporal[r] # NoWorkflow
           \/ \E w \in Workers : worker[w].pc = "run" /\ worker[w].run = r
  <1> DEFINE Goal == \/ starts[r] > 0 \/ temporal[r] # NoWorkflow
                     \/ \E w \in Workers : worker[w].pc = "run" /\ worker[w].run = r
  <1>1. starts \in [RunIds -> Nat] /\ temporal \in [RunIds -> TemporalState]
    BY DEF TypeOK, WorkerTypeOK, TemporalTypeOK
  <1>2. ASSUME starts'[r] = starts[r], temporal'[r] = temporal[r]
        PROVE  Goal
    BY <1>2
  <1>3. ASSUME NEW w \in Workers, WorkerAct(w)
        PROVE  Goal
    <2>1. CASE BeginExecution(w) /\ UNCHANGED temporal
      <3>1. worker[w].pc = "run" /\ starts' = [starts EXCEPT ![worker[w].run] = @ + 1]
        BY <2>1 DEF BeginExecution
      <3>2. worker[w].run # r => starts'[r] = starts[r]
        BY <1>1, <3>1
      <3> QED BY <1>2, <2>1, <3>1, <3>2
    <2>2. CASE StartTemporal(w) \/ StartTemporalFails(w)
      <3>1. /\ worker[w].pc = "run"
            /\ UNCHANGED starts
            /\ \/ UNCHANGED temporal
               \/ temporal' = [temporal EXCEPT ![worker[w].run] =
                                 [NoWorkflow EXCEPT !.pc = "execute"]]
        BY <2>2 DEF StartTemporal, StartTemporalFails, OpenWorkflow
      <3>2. worker[w].run # r => temporal'[r] = temporal[r]
        BY <1>1, <3>1
      <3> QED BY <1>2, <3>1, <3>2
    <2>3. CASE ~(\/ BeginExecution(w) /\ UNCHANGED temporal
                 \/ StartTemporal(w) \/ StartTemporalFails(w))
      BY <1>2, <1>3, <2>3
         DEF WorkerAct, WorkerStep, TemporalWorkerStep, Claim, MarkRunning, AppendStarted,
             AddReviewItem, MarkPaused, MarkBlocked, FinishExecution, FailExecution,
             AppendClosing, RunnerFactoryRaises, Die, RecordTemporalStart
    <2> QED BY <2>1, <2>2, <2>3
  <1>4. ASSUME NEW x \in RunIds, TemporalAct(x)
        PROVE  Goal
    <2>1. temporal[x] # NoWorkflow
      BY <1>4 DEF TemporalAct, TemporalStep, ExecuteAgentNode, RetryAgentNode,
                  AgentNodeDone, Signal, ReviewDecided, CompleteRuntimeRun, Open, NoWorkflow
    <2>2. x # r => starts'[r] = starts[r] /\ temporal'[r] = temporal[r]
      BY <1>1, <1>4 DEF TemporalAct, TemporalStep, ExecuteAgentNode, RetryAgentNode,
                  AgentNodeDone, Signal, ReviewDecided, CompleteRuntimeRun, workerVars
    <2> QED BY <1>2, <2>1, <2>2
  <1>5. CASE (\E c \in Clients : ClientAct(c)) \/ (\E q \in Requests : RequestAct(q))
    BY <1>2, <1>5 DEF ClientAct, RequestAct, workerVars
  <1>6. CASE Crash
    BY <1>2, <1>6 DEF Crash, WorkerCrash, Die, workerVars
  <1>7. CASE UNCHANGED vars
    BY <1>2, <1>7 DEF vars
  <1> QED BY <1>3, <1>4, <1>5, <1>6, <1>7 DEF Next

LEMMA PassedStep ==
    ASSUME TypeOK, GateInvariant, [Next]_vars
    PROVE  PassedHooksAreOpen'
  <1>1. ReferencesExist /\ ReviewsArePauses /\ ApprovalsAreReal /\ PassedHooksAreOpen
    BY DEF GateInvariant
  <1>2. ASSUME NEW r \in RunIds, NEW w \in Workers,
               worker'[w].pc \in {"run", "executing"}, worker'[w].run = r
        PROVE  GateOpen(r)'
    <2>1. SameRun(w) /\ GateOpen(r)
      <3>1. CASE PassesHooks(w)
        <4>1. worker'[w].pc = "run"
          BY <1>2, <3>1 DEF PassesHooks, AfterHook
        <4> QED BY <1>1, <1>2, <3>1, <4>1, PassingOpensGate DEF PassesHooks, SameRun
      <3>2. CASE GoesOn(w)
        BY <1>1, <1>2, <3>2 DEF GoesOn, SameRun, PassedHooksAreOpen
      <3> QED BY <1>2, <3>1, <3>2, WorkerMoves DEF TakesRun
    <2>2. Exists(r)
      BY <1>1, <1>2, <2>1 DEF SameRun, ReferencesExist
    <2> QED BY <1>1, <2>1, <2>2, GatesPersist
  <1>3. ASSUME NEW r \in RunIds, starts'[r] > 0 \/ temporal'[r] # NoWorkflow
        PROVE  Exists(r)' /\ GateOpen(r)'
    <2>1. Exists(r) /\ GateOpen(r)
      BY <1>1, <1>3, ExecutionMoves DEF PassedHooksAreOpen, ReferencesExist
    <2> QED BY <1>1, <2>1, GatesPersist
  <1> QED BY <1>2, <1>3 DEF PassedHooksAreOpen

\* Approvals are never made up, whatever workers, reviewers and crashes do.
THEOREM GateInvariance == Spec => [](TypeOK /\ GateInvariant)
  <1>1. ASSUME Init
        PROVE  TypeOK /\ GateInvariant
    <2>1. ReviewsArePauses /\ ApprovalsAreReal
      BY <1>1 DEF Init, StoreInit, WorkerInit, ReviewInit, AbsentRun, AbsentReview, Idle,
                  ReviewsArePauses, ApprovalsAreReal
    <2>2. PassedHooksAreOpen
      BY <1>1 DEF Init, WorkerInit, TemporalInit, Idle, PassedHooksAreOpen
    <2> QED BY <1>1, <2>1, <2>2, InitTyped DEF GateInvariant
  <1>2. TypeOK /\ GateInvariant /\ [Next]_vars => (TypeOK /\ GateInvariant)'
    <2> SUFFICES ASSUME TypeOK, GateInvariant, [Next]_vars
                 PROVE  TypeOK' /\ GateInvariant'
      OBVIOUS
    <2>1. TypeOK' /\ ReferencesExist'
      BY TypeStep, ReferencesStep DEF GateInvariant
    <2>2. ReviewsArePauses' /\ ApprovalsAreReal' /\ PassedHooksAreOpen'
      BY ReviewsArePausesStep, ApprovalsStep, PassedStep DEF GateInvariant
    <2> QED BY <2>1, <2>2 DEF GateInvariant
  <1> QED BY <1>1, <1>2, PTL DEF Spec

\* A run is executed only after a reviewer approved every hook that guards it,
\* and never past a block hook.
THEOREM GatesHold == Spec => []ApprovedBeforeExecution
  <1>1. GateInvariant => ApprovedBeforeExecution
    BY DEF GateInvariant, PassedHooksAreOpen, GateOpen, ApprovedBeforeExecution
  <1> QED BY <1>1, GateInvariance, PTL

-----------------------------------------------------------------------------
\* What a step writes to a row

\* The statuses a worker writes, each from its own place.
WorkerWrites(w, s) ==
    \/ MarkRunning(w) /\ s = "RUNNING"
    \/ MarkPaused(w) /\ s = "REVIEW"
    \/ MarkBlocked(w) /\ s = "BLOCKED"
    \/ FinishExecution(w) /\ s = "COMPLETED"
    \/ FailExecution(w) /\ s = "FAILED"
    \/ StartTemporalFails(w) /\ s = "FAILED"
    \/ RecordTemporalStart(w) /\ s = "RUNNING"

\* A terminal status is written with completed_at.
Stamped(r, s) ==
    /\ runs'[r].status = s
    /\ s \in TERMINAL_RUN_STATUSES => runs'[r].completed

\* The row is put in the queue, with no completed_at.
Requeued(r) == runs'[r].status = "QUEUED" /\ ~runs'[r].completed

\* How a step can leave the row of r.
RowWritten(r) ==
    \/ runs'[r] = runs[r]
    \/ \E c \in Clients : CreateInsert(c) /\ ~Exists(r) /\ Requeued(r)
    \/ \E w \in Workers :
         /\ Claim(w) /\ Queued(r)
         /\ worker'[w].pc = "claimed" /\ worker'[w].run = r
         /\ Stamped(r, "RUNNING")
    \/ \E w \in Workers, s \in RunStatus \ {"QUEUED"} :
         worker[w].run = r /\ WorkerWrites(w, s) /\ Stamped(r, s)
    \/ CompleteRuntimeRun(r) /\ \E s \in {"COMPLETED", "BLOCKED"} : Stamped(r, s)
    \/ \E q \in Requests : ApproveRun(q) /\ RunOf(q) = r /\ Requeued(r)
    \/ \E q \in Requests : DenyRun(q) /\ RunOf(q) = r /\ Stamped(r, "BLOCKED")

\* A status write leaves the other rows and stamps the row it writes.
LEMMA StatusWriteStamp ==
    ASSUME runs \in [RunIds -> Run], NEW r, NEW s \in RunStatus,
           UpdateRun(r, WithStatus(runs[r], s)), NEW x \in RunIds
    PROVE  /\ x # r => runs'[x] = runs[x]
           /\ x = r => Stamped(x, s)
  <1>1. CASE x # r
    BY <1>1 DEF UpdateRun
  <1>2. CASE x = r
    <2>1. runs'[x] = WithStatus(runs[x], s)
      BY <1>2 DEF UpdateRun
    <2>2. WithStatus(runs[x], s).status = s
      BY WithStatusFields
    <2>3. s \in TERMINAL_RUN_STATUSES => WithStatus(runs[x], s).completed
      <3> DEFINE c == runs[x].completed \/ s \in TERMINAL_RUN_STATUSES
      <3>1. WithStatus(runs[x], s) = [runs[x] EXCEPT !.status = s, !.completed = c]
        BY DEF WithStatus, Run
      <3>2. s \in TERMINAL_RUN_STATUSES => c
        OBVIOUS
      <3> HIDE DEF c
      <3>3. WithStatus(runs[x], s).completed = c
        BY <3>1 DEF Run
      <3> QED BY <3>2, <3>3
    <2> QED BY <1>2, <2>1, <2>2, <2>3 DEF Stamped
  <1> QED BY <1>1, <1>2

\* The same of a write that carries a decision.
LEMMA OutcomeWriteStamp ==
    ASSUME runs \in [RunIds -> Run], NEW r, NEW s \in RunStatus, NEW d \in Decisions,
           UpdateRun(r, WithOutcome(runs[r], s, d)), NEW x \in RunIds
    PROVE  /\ x # r => runs'[x] = runs[x]
           /\ x = r => Stamped(x, s)
  <1>1. CASE x # r
    BY <1>1 DEF UpdateRun
  <1>2. CASE x = r
    <2> DEFINE row == WithStatus(runs[x], s)
               c == runs[x].completed \/ s \in TERMINAL_RUN_STATUSES
    <2>1. row = [runs[x] EXCEPT !.status = s, !.completed = c]
      BY DEF WithStatus, Run
    <2>2. s \in TERMINAL_RUN_STATUSES => c
      OBVIOUS
    <2>3. runs'[x] = [row EXCEPT !.decision = d]
      BY <1>2 DEF UpdateRun, WithOutcome
    <2> HIDE DEF c
    <2>4. row.status = s /\ row.completed = c
      BY <2>1 DEF Run
    <2> HIDE DEF row
    <2>5. runs'[x].status = s /\ runs'[x].completed = c
      BY <2>3, <2>4
    <2> QED BY <1>2, <2>2, <2>5 DEF Stamped
  <1> QED BY <1>1, <1>2

\* The rows a worker writes.
LEMMA WorkerRowWrites ==
    ASSUME TypeOK, NEW w \in Workers, WorkerStep(w) \/ TemporalWorkerStep(w), NEW r \in RunIds
    PROVE  RowWritten(r)
  <1>1. runs \in [RunIds -> Run] /\ worker \in [Workers -> WorkerState]
    BY DEF TypeOK, StoreTypeOK, WorkerTypeOK
  <1>2. {"RUNNING", "COMPLETED", "FAILED", "BLOCKED", "REVIEW"} \subseteq RunStatus \ {"QUEUED"}
        /\ {"ALLOW", "REVIEW", "BLOCK", "DENY"} \subseteq Decisions
    BY DEF RunStatus, ACTIVE_RUN_STATUSES, TERMINAL_RUN_STATUSES, Decisions
  <1>3. CASE Claim(w)
    <2>1. PICK x \in RunIds :
            /\ Queued(x)
            /\ UpdateRun(x, [runs[x] EXCEPT !.status = "RUNNING"])
            /\ worker' = [worker EXCEPT ![w] =
                 [pc |-> "claimed", run |-> x, approved |-> runs[x].approved,
                  hook |-> NoHook]]
      BY <1>3 DEF Claim, IsOldest, QueuedRuns, Queued
    <2>2. worker'[w].pc = "claimed" /\ worker'[w].run = x
      BY <1>1, <2>1
    <2>3. /\ x # r => runs'[r] = runs[r]
          /\ runs'[x].status = "RUNNING"
      BY <1>1, <2>1 DEF UpdateRun, Run
    <2>4. Stamped(x, "RUNNING")
      BY <2>3 DEF Stamped, TERMINAL_RUN_STATUSES
    <2> QED BY <1>3, <2>1, <2>2, <2>3, <2>4 DEF RowWritten
  <1>4. ASSUME NEW s \in RunStatus \ {"QUEUED"}, WorkerWrites(w, s),
               \/ UpdateRun(worker[w].run, WithStatus(runs[worker[w].run], s))
               \/ \E d \in Decisions :
                    UpdateRun(worker[w].run, WithOutcome(runs[worker[w].run], s, d))
        PROVE  RowWritten(r)
    <2>1. /\ r # worker[w].run => runs'[r] = runs[r]
          /\ r = worker[w].run => Stamped(r, s)
      BY <1>1, <1>4, StatusWriteStamp, OutcomeWriteStamp
    <2> QED BY <1>4, <2>1 DEF RowWritten
  <1>5. CASE MarkRunning(w)
    BY <1>2, <1>4, <1>5 DEF MarkRunning, WorkerWrites
  <1>6. CASE MarkPaused(w)
    BY <1>2, <1>4, <1>6 DEF MarkPaused, WorkerWrites
  <1>7. CASE MarkBlocked(w)
    BY <1>2, <1>4, <1>7 DEF MarkBlocked, WorkerWrites
  <1>8. CASE FinishExecution(w)
    BY <1>2, <1>4, <1>8 DEF FinishExecution, WorkerWrites
  <1>9. CASE FailExecution(w)
    BY <1>2, <1>4, <1>9 DEF FailExecution, WorkerWrites
  <1>10. CASE StartTemporalFails(w)
    BY <1>2, <1>4, <1>10 DEF StartTemporalFails, WorkerWrites
  <1>11. CASE RecordTemporalStart(w)
    BY <1>2, <1>4, <1>11 DEF RecordTemporalStart, WorkerWrites
  <1>12. CASE AppendStarted(w) \/ AddReviewItem(w) \/ BeginExecution(w) \/ AppendClosing(w)
              \/ RunnerFactoryRaises(w) \/ StartTemporal(w)
    BY <1>12 DEF AppendStarted, AddReviewItem, BeginExecution, AppendClosing,
                 RunnerFactoryRaises, Die, StartTemporal, storeVars, RowWritten
  <1> QED BY <1>3, <1>5, <1>6, <1>7, <1>8, <1>9, <1>10, <1>11, <1>12
          DEF WorkerStep, TemporalWorkerStep

\* Every write to a row is one of these.
LEMMA RowWrites ==
    ASSUME TypeOK, [Next]_vars, NEW r \in RunIds
    PROVE  RowWritten(r)
  <1>1. /\ runs \in [RunIds -> Run] /\ temporal \in [RunIds -> TemporalState]
        /\ request \in [Requests -> RequestState]
    BY DEF TypeOK, StoreTypeOK, TemporalTypeOK, ReviewTypeOK
  <1>2. {"COMPLETED", "BLOCKED"} \subseteq RunStatus \ {"QUEUED"} /\ "DENY" \in Decisions
    BY DEF RunStatus, ACTIVE_RUN_STATUSES, TERMINAL_RUN_STATUSES, Decisions
  <1>3. ASSUME runs'[r] = runs[r]
        PROVE  RowWritten(r)
    BY <1>3 DEF RowWritten
  <1>4. ASSUME NEW c \in Clients, ClientAct(c)
        PROVE  RowWritten(r)
    <2>1. CASE CreateInsert(c)
      <3>1. PICK x \in RunIds :
              /\ ~Exists(x)
              /\ UpdateRun(x, QueuedRow(client[c].key, client[c].matching))
        BY <2>1 DEF CreateInsert, IsNextRun, IsOldest
      <3>2. /\ x # r => runs'[r] = runs[r]
            /\ Requeued(x)
        BY <1>1, <3>1 DEF UpdateRun, QueuedRow, Requeued
      <3> QED BY <2>1, <3>1, <3>2 DEF RowWritten
    <2>2. CASE ~CreateInsert(c)
      BY <1>3, <1>4, <2>2 DEF ClientAct, DispatchStep, Submit, CreateLookup, CreateConflict,
                              storeVars
    <2> QED BY <2>1, <2>2
  <1>5. ASSUME NEW w \in Workers, WorkerAct(w)
        PROVE  RowWritten(r)
    BY <1>5, WorkerRowWrites DEF WorkerAct
  <1>6. ASSUME NEW x \in RunIds, TemporalAct(x)
        PROVE  RowWritten(r)
    <2>1. CASE CompleteRuntimeRun(x)
      <3>1. PICK s \in {"COMPLETED", "BLOCKED"} :
              UpdateRun(x, WithOutcome(runs[x], s, temporal[x].decision))
        BY <2>1 DEF CompleteRuntimeRun
      <3>2. temporal[x].decision \in Decisions
        BY <1>1 DEF TemporalState
      <3>3. /\ r # x => runs'[r] = runs[r]
            /\ r = x => Stamped(r, s)
        BY <1>1, <1>2, <3>1, <3>2, OutcomeWriteStamp
      <3> QED BY <2>1, <3>3 DEF RowWritten
    <2>2. CASE ~CompleteRuntimeRun(x)
      BY <1>3, <1>6, <2>2
         DEF TemporalAct, TemporalStep, ExecuteAgentNode, RetryAgentNode, AgentNodeDone,
             Signal, ReviewDecided, storeVars
    <2> QED BY <2>1, <2>2
  <1>7. ASSUME NEW q \in Requests, RequestAct(q)
        PROVE  RowWritten(r)
    <2>1. CASE ApproveRun(q)
      <3>1. runs' = [runs EXCEPT ![RunOf(q)] =
              [runs[RunOf(q)] EXCEPT !.status = "QUEUED", !.decision = "NONE",
                 !.completed = FALSE, !.approved = request[q].approved \cup {HookOf(q)}]]
        BY <2>1 DEF ApproveRun, UpdateRun
      <3>2. /\ r # RunOf(q) => runs'[r] = runs[r]
            /\ r = RunOf(q) => Requeued(r)
        BY <1>1, <3>1 DEF Requeued, Run
      <3> QED BY <2>1, <3>2 DEF RowWritten
    <2>2. CASE DenyRun(q)
      <3>1. /\ r # RunOf(q) => runs'[r] = runs[r]
            /\ r = RunOf(q) => Stamped(r, "BLOCKED")
        BY <1>1, <1>2, <2>2, OutcomeWriteStamp DEF DenyRun
      <3> QED BY <2>2, <3>1 DEF RowWritten
    <2>3. CASE ~ApproveRun(q) /\ ~DenyRun(q)
      BY <1>3, <1>7, <2>3 DEF RequestAct, Resolve, ReviewStep, ReadRun, AppendVerdict, storeVars
    <2> QED BY <2>1, <2>2, <2>3
  <1>8. CASE Crash \/ UNCHANGED vars
    BY <1>3, <1>8 DEF Crash, WorkerCrash, Die, RequestLost, storeVars, vars
  <1> QED BY <1>4, <1>5, <1>6, <1>7, <1>8 DEF Next

\* A status that ends a run or parks it comes with completed_at, a queued run has none.
LEMMA StampedStep ==
    ASSUME TypeOK, CompletionStamped, [Next]_vars
    PROVE  CompletionStamped'
  <1> SUFFICES ASSUME NEW r \in RunIds
               PROVE  /\ runs'[r].status \in TERMINAL_RUN_STATUSES => runs'[r].completed
                      /\ runs'[r].status = "QUEUED" => ~runs'[r].completed
    BY DEF CompletionStamped
  <1>1. RowWritten(r)
    BY RowWrites
  <1>2. CASE runs'[r] = runs[r]
    BY <1>2 DEF CompletionStamped
  <1>3. CASE Requeued(r)
    BY <1>3 DEF Requeued, TERMINAL_RUN_STATUSES
  <1>4. CASE \E s \in RunStatus \ {"QUEUED"} : Stamped(r, s)
    BY <1>4 DEF Stamped
  <1>5. {"COMPLETED", "BLOCKED", "RUNNING"} \subseteq RunStatus \ {"QUEUED"}
    BY DEF RunStatus, ACTIVE_RUN_STATUSES, TERMINAL_RUN_STATUSES
  <1> QED BY <1>1, <1>2, <1>3, <1>4, <1>5 DEF RowWritten

-----------------------------------------------------------------------------
\* The event log

\* The events that close an attempt.
Closings == {"run.completed", "run.failed", "hook.paused", "hook.blocked"}

\* The attempts of a run that were opened in its log and are not closed there.
OpenedPc == {"review", "pause", "paused", "block", "blocked", "run", "executing",
             "completed", "failed"}

Attempts(r) == {w \in Workers : worker[w].run = r /\ worker[w].pc \in OpenedPc}

\* Each of them has an event that opened it, which no closing event has used.
AttemptsCounted ==
    \A r \in RunIds :
        /\ IsFiniteSet(Attempts(r))
        /\ CountEvents(r, Closings) + Cardinality(Attempts(r))
             <= CountEvents(r, {"run.started"})

CountIn(log, E) == Cardinality({i \in DOMAIN log : log[i] \in E})

\* The events of a log that are in E are finitely many ...
LEMMA CountIsNat ==
    ASSUME NEW log \in Seq(EventTypes), NEW E
    PROVE  /\ IsFiniteSet({i \in DOMAIN log : log[i] \in E})
           /\ CountIn(log, E) \in Nat
  <1> DEFINE S == {i \in DOMAIN log : log[i] \in E}
  <1>1. DOMAIN log = 1..Len(log) /\ Len(log) \in Nat
    OBVIOUS
  <1>2. IsFiniteSet(1..Len(log))
    BY <1>1, FS_Interval
  <1>3. S \subseteq 1..Len(log)
    BY <1>1
  <1> HIDE DEF S
  <1>4. IsFiniteSet(S)
    BY <1>2, <1>3, FS_Subset
  <1>5. Cardinality(S) \in Nat
    BY <1>4, FS_CardinalityType
  <1> QED BY <1>4, <1>5 DEF S, CountIn

\* ... and an event appended to the log is one more of them or none.
LEMMA CountAppend ==
    ASSUME NEW log \in Seq(EventTypes), NEW e \in EventTypes, NEW E
    PROVE  CountIn(Append(log, e), E) = CountIn(log, E) + (IF e \in E THEN 1 ELSE 0)
  <1> DEFINE longer == Append(log, e)
             S == {i \in DOMAIN log : log[i] \in E}
             T == {i \in DOMAIN longer : longer[i] \in E}
             n == Len(log)
  <1>1. n \in Nat /\ DOMAIN log = 1..n /\ DOMAIN longer = 1..(n + 1)
    OBVIOUS
  <1>2. longer[n + 1] = e /\ \A i \in 1..n : longer[i] = log[i]
    OBVIOUS
  <1> HIDE DEF longer, n
  <1>3. IF e \in E THEN T = S \cup {n + 1} ELSE T = S
    BY <1>1, <1>2
  <1>4. n + 1 \notin S
    BY <1>1
  <1>5. IsFiniteSet(S) /\ Cardinality(S) \in Nat
    BY CountIsNat DEF CountIn
  <1> HIDE DEF S, T
  <1>6. IF e \in E THEN Cardinality(T) = Cardinality(S) + 1 ELSE Cardinality(T) = Cardinality(S)
    BY <1>3, <1>4, <1>5, FS_AddElement
  <1>7. Cardinality(T) = Cardinality(S) + (IF e \in E THEN 1 ELSE 0)
    BY <1>5, <1>6
  <1> QED BY <1>7 DEF S, T, longer, CountIn

\* What a step does to the counts of a run: nothing but let go of attempts, open
\* one, or close one.
LetsGo(r) == outbox'[r] = outbox[r] /\ Attempts(r)' \subseteq Attempts(r)

Opens(r) ==
    \E w \in Workers :
        /\ outbox'[r] = Append(outbox[r], "run.started")
        /\ Attempts(r)' = Attempts(r) \cup {w}

Closes(r) ==
    \E w \in Workers, e \in EventTypes :
        /\ outbox'[r] = Append(outbox[r], e)
        /\ e # "run.started"
        /\ Attempts(r)' = Attempts(r) \ {w}
        /\ e \in Closings => w \in Attempts(r)

Comments(r) ==
    \E e \in EventTypes :
        /\ outbox'[r] = Append(outbox[r], e)
        /\ e \notin Closings /\ e # "run.started"
        /\ Attempts(r)' = Attempts(r)

\* Each of these keeps the count.
LEMMA CountsFollow ==
    ASSUME TypeOK, AttemptsCounted, NEW r \in RunIds,
           LetsGo(r) \/ Opens(r) \/ Closes(r) \/ Comments(r)
    PROVE  /\ IsFiniteSet(Attempts(r)')
           /\ CountEvents(r, Closings)' + Cardinality(Attempts(r)')
                <= CountEvents(r, {"run.started"})'
  <1> DEFINE log == outbox[r]
             lo == outbox'[r]
             A == Attempts(r)
             B == Attempts(r)'
  <1>1. log \in Seq(EventTypes)
    BY DEF TypeOK, StoreTypeOK
  <1>2. /\ CountIn(log, Closings) \in Nat /\ CountIn(log, {"run.started"}) \in Nat
        /\ \A e \in EventTypes :
             /\ CountIn(Append(log, e), Closings) = CountIn(log, Closings) + (IF e \in Closings THEN 1 ELSE 0)
             /\ CountIn(Append(log, e), {"run.started"}) =
                  CountIn(log, {"run.started"}) + (IF e \in {"run.started"} THEN 1 ELSE 0)
    BY <1>1, CountIsNat, CountAppend
  <1>3. IsFiniteSet(A) /\ CountIn(log, Closings) + Cardinality(A) <= CountIn(log, {"run.started"})
    BY DEF AttemptsCounted, CountEvents, CountIn
  <1>4. Cardinality(A) \in Nat
    BY <1>3, FS_CardinalityType
  <1> SUFFICES IsFiniteSet(B) /\ CountIn(lo, Closings) + Cardinality(B) <= CountIn(lo, {"run.started"})
    BY DEF CountEvents, CountIn
  <1>5. CASE LetsGo(r)
    <2>1. B \subseteq A /\ lo = log
      BY <1>5 DEF LetsGo
    <2> HIDE DEF A, B, log, lo
    <2>2. IsFiniteSet(B) /\ Cardinality(B) <= Cardinality(A) /\ Cardinality(B) \in Nat
      BY <1>3, <2>1, FS_Subset, FS_CardinalityType
    <2>3. CountIn(lo, Closings) = CountIn(log, Closings) /\ CountIn(lo, {"run.started"}) = CountIn(log, {"run.started"})
      BY <2>1
    <2> QED BY <1>2, <1>3, <1>4, <2>2, <2>3
  <1>6. CASE Opens(r)
    <2>1. PICK w \in Workers : lo = Append(log, "run.started") /\ B = A \cup {w}
      BY <1>6, Zenon DEF Opens
    <2>2. "run.started" \in EventTypes /\ "run.started" \notin Closings
      BY DEF EventTypes, Closings
    <2> HIDE DEF A, B, log, lo
    <2>3. /\ IsFiniteSet(B)
          /\ Cardinality(B) = IF w \in A THEN Cardinality(A) ELSE Cardinality(A) + 1
      BY <1>3, <2>1, FS_AddElement
    <2>4. CountIn(lo, Closings) = CountIn(log, Closings) /\ CountIn(lo, {"run.started"}) = CountIn(log, {"run.started"}) + 1
      BY <1>2, <2>1, <2>2
    <2> QED BY <1>2, <1>3, <1>4, <2>3, <2>4
  <1>7. CASE Closes(r)
    <2>1. PICK w \in Workers, e \in EventTypes :
            /\ lo = Append(log, e) /\ e # "run.started"
            /\ B = A \ {w} /\ (e \in Closings => w \in A)
      BY <1>7, Zenon DEF Closes
    <2> HIDE DEF A, B, log, lo
    <2>2. /\ IsFiniteSet(B)
          /\ Cardinality(B) = IF w \in A THEN Cardinality(A) - 1 ELSE Cardinality(A)
      BY <1>3, <2>1, FS_RemoveElement
    <2>3. /\ CountIn(lo, Closings) = CountIn(log, Closings) + (IF e \in Closings THEN 1 ELSE 0)
          /\ CountIn(lo, {"run.started"}) = CountIn(log, {"run.started"}) + 0
      BY <1>2, <2>1
    <2> QED BY <1>2, <1>3, <1>4, <2>1, <2>2, <2>3
  <1>8. CASE Comments(r)
    <2>1. PICK e \in EventTypes :
            lo = Append(log, e) /\ e \notin Closings /\ e # "run.started" /\ B = A
      BY <1>8, Zenon DEF Comments
    <2> HIDE DEF A, B, log, lo
    <2>2. CountIn(lo, Closings) = CountIn(log, Closings) + 0
          /\ CountIn(lo, {"run.started"}) = CountIn(log, {"run.started"}) + 0
      BY <1>2, <2>1
    <2> QED BY <1>2, <1>3, <1>4, <2>1, <2>2
  <1> QED BY <1>5, <1>6, <1>7, <1>8

\* The workers' steps.
LEMMA WorkerCounts ==
    ASSUME TypeOK, NEW w \in Workers,
           WorkerStep(w) \/ TemporalWorkerStep(w) \/ WorkerCrash(w), NEW r \in RunIds
    PROVE  LetsGo(r) \/ Opens(r) \/ Closes(r)
  <1> DEFINE Goal == LetsGo(r) \/ Opens(r) \/ Closes(r)
  <1>1. /\ worker \in [Workers -> WorkerState]
        /\ outbox \in [RunIds -> Seq(EventTypes)]
    BY DEF TypeOK, StoreTypeOK, WorkerTypeOK
  <1>2. CASE Claim(w)
    <2>1. PICK x \in RunIds : worker' = [worker EXCEPT ![w] =
             [pc |-> "claimed", run |-> x, approved |-> runs[x].approved, hook |-> NoHook]]
      BY <1>2 DEF Claim
    <2>2. \A y \in Workers : worker'[y] = worker[y] \/ worker'[y].pc = "claimed"
      BY <1>1, <2>1
    <2>3. Attempts(r)' \subseteq Attempts(r)
      BY <2>2 DEF Attempts, OpenedPc
    <2> QED BY <1>2, <2>3 DEF Claim, LetsGo
  <1>3. CASE AppendStarted(w)
    <2> DEFINE h == FirstMatchingHook(runs[worker[w].run].matching, worker[w].approved)
    <2>1. worker' = [worker EXCEPT ![w].hook = h, ![w].pc = AfterHook(h)]
      BY <1>3 DEF AppendStarted
    <2> HIDE DEF h
    <2>2. AfterHook(h) \in OpenedPc
      BY DEF AfterHook, OpenedPc
    <2>3. \A y \in Workers : /\ worker'[y].pc = IF y = w THEN AfterHook(h) ELSE worker[y].pc
                             /\ worker'[y].run = worker[y].run
      BY <1>1, <2>1 DEF WorkerState
    <2>4. outbox'[r] = IF worker[w].run = r THEN Append(outbox[r], "run.started") ELSE outbox[r]
      BY <1>1, <1>3 DEF AppendStarted, AppendEvent
    <2>5. IF worker[w].run = r THEN Attempts(r)' = Attempts(r) \cup {w}
          ELSE Attempts(r)' \subseteq Attempts(r)
      BY <2>2, <2>3 DEF Attempts
    <2> QED BY <2>4, <2>5 DEF Opens, LetsGo
  <1>4. CASE AppendClosing(w)
    <2> DEFINE e == ClosingEvent[worker[w].pc]
    <2>1. /\ e \in EventTypes /\ e # "run.started"
          /\ e \in Closings => worker[w].pc \in OpenedPc
      BY <1>4 DEF AppendClosing, ClosingEvent, EventTypes, Closings, OpenedPc
    <2>2. \A y \in Workers : worker'[y] = IF y = w THEN Idle ELSE worker[y]
      BY <1>1, <1>4, RestEffect DEF AppendClosing
    <2>3. outbox'[r] = IF worker[w].run = r THEN Append(outbox[r], e) ELSE outbox[r]
      BY <1>1, <1>4 DEF AppendClosing, AppendEvent
    <2> HIDE DEF e
    <2>4. Attempts(r)' = Attempts(r) \ {w}
      BY <2>2 DEF Attempts, Idle, OpenedPc
    <2>5. worker[w].run = r /\ e \in Closings => w \in Attempts(r)
      BY <2>1 DEF Attempts
    <2> QED BY <2>1, <2>3, <2>4, <2>5 DEF Closes, LetsGo
  <1>5. ASSUME NEW pc, Goto(w, pc), outbox' = outbox,
               pc \in OpenedPc => worker[w].pc \in OpenedPc
        PROVE  Goal
    <2>1. \A y \in Workers : /\ worker'[y].pc = IF y = w THEN pc ELSE worker[y].pc
                             /\ worker'[y].run = worker[y].run
      BY <1>1, <1>5, GotoEffect
    <2>2. Attempts(r)' \subseteq Attempts(r)
      BY <1>5, <2>1 DEF Attempts
    <2> QED BY <1>5, <2>2 DEF LetsGo
  <1>6. ASSUME Rest(w), outbox' = outbox
        PROVE  Goal
    <2>1. \A y \in Workers : worker'[y] = IF y = w THEN Idle ELSE worker[y]
      BY <1>1, <1>6, RestEffect
    <2>2. Attempts(r)' \subseteq Attempts(r)
      BY <2>1 DEF Attempts, Idle, OpenedPc
    <2> QED BY <1>6, <2>2 DEF LetsGo
  <1>7. CASE MarkRunning(w) \/ AddReviewItem(w) \/ MarkPaused(w) \/ MarkBlocked(w)
    BY <1>5, <1>7 DEF MarkRunning, AddReviewItem, MarkPaused, MarkBlocked, OpenedPc
  <1>8. CASE BeginExecution(w) \/ FinishExecution(w) \/ FailExecution(w)
    BY <1>5, <1>8 DEF BeginExecution, FinishExecution, FailExecution, OpenedPc, storeVars
  <1>9. CASE TemporalWorkerStep(w)
    BY <1>5, <1>9 DEF TemporalWorkerStep, StartTemporal, StartTemporalFails,
                      RecordTemporalStart, OpenedPc, storeVars
  <1>10. CASE RunnerFactoryRaises(w) \/ WorkerCrash(w)
    BY <1>6, <1>10 DEF RunnerFactoryRaises, WorkerCrash, Die, storeVars
  <1> QED BY <1>2, <1>3, <1>4, <1>7, <1>8, <1>9, <1>10 DEF WorkerStep

\* The log never closes more attempts than it opened.
LEMMA CountsStep ==
    ASSUME TypeOK, AttemptsCounted, [Next]_vars
    PROVE  AttemptsCounted'
  <1> SUFFICES ASSUME NEW r \in RunIds
               PROVE  /\ IsFiniteSet(Attempts(r)')
                      /\ CountEvents(r, Closings)' + Cardinality(Attempts(r)')
                           <= CountEvents(r, {"run.started"})'
    BY DEF AttemptsCounted
  <1> SUFFICES LetsGo(r) \/ Opens(r) \/ Closes(r) \/ Comments(r)
    BY CountsFollow
  <1>1. ASSUME UNCHANGED <<worker, outbox>>
        PROVE  LetsGo(r)
    BY <1>1 DEF LetsGo, Attempts
  <1>2. CASE \E c \in Clients : ClientAct(c)
    BY <1>1, <1>2 DEF ClientAct, DispatchStep, Submit, CreateLookup, CreateInsert,
                      CreateConflict, storeVars, workerVars
  <1>3. CASE \E w \in Workers : WorkerAct(w)
    BY <1>3, WorkerCounts DEF WorkerAct
  <1>4. CASE \E x \in RunIds : TemporalAct(x)
    BY <1>1, <1>4 DEF TemporalAct, TemporalStep, ExecuteAgentNode, RetryAgentNode,
                      AgentNodeDone, Signal, ReviewDecided, CompleteRuntimeRun, storeVars,
                      workerVars
  <1>5. ASSUME NEW q \in Requests, RequestAct(q)
        PROVE  LetsGo(r) \/ Comments(r)
    <2>1. CASE AppendVerdict(q)
      <3>1. PICK e \in {"hook.approved", "hook.denied"} : AppendEvent(RunOf(q), e)
        BY <2>1 DEF AppendVerdict
      <3>2. outbox \in [RunIds -> Seq(EventTypes)]
        BY DEF TypeOK, StoreTypeOK
      <3>3. outbox'[r] = outbox[r] \/ outbox'[r] = Append(outbox[r], e)
        BY <3>1, <3>2 DEF AppendEvent
      <3>4. Attempts(r)' = Attempts(r)
        BY <1>5 DEF RequestAct, workerVars, Attempts
      <3>5. e \in EventTypes /\ e \notin Closings /\ e # "run.started"
        BY DEF EventTypes, Closings
      <3> QED BY <3>3, <3>4, <3>5 DEF LetsGo, Comments
    <2>2. CASE ~AppendVerdict(q)
      BY <1>1, <1>5, <2>2 DEF RequestAct, Resolve, ReviewStep, ReadRun, ApproveRun, DenyRun,
                              storeVars, workerVars
    <2> QED BY <2>1, <2>2
  <1>6. CASE Crash
    BY <1>1, <1>6, WorkerCounts DEF Crash, RequestLost, storeVars, workerVars
  <1>7. CASE UNCHANGED vars
    BY <1>1, <1>7 DEF vars
  <1> QED BY <1>2, <1>3, <1>4, <1>5, <1>6, <1>7 DEF Next

\* What holds of all rows of the runtime at once, with one resolution per item.
THEOREM RunInvariance ==
    ASSUME SingleResolution
    PROVE  Spec => []RunInvariant
  <1> DEFINE Books == AttemptsCounted /\ CompletionStamped
  <1>1. Init => TypeOK /\ Books
    <2> SUFFICES ASSUME Init PROVE TypeOK /\ Books
      OBVIOUS
    <2>1. CompletionStamped
      BY DEF Init, StoreInit, AbsentRun, CompletionStamped, TERMINAL_RUN_STATUSES
    <2>2. \A r \in RunIds : Attempts(r) = {} /\ outbox[r] = <<>>
      BY DEF Init, StoreInit, WorkerInit, Idle, Attempts, OpenedPc
    <2>3. IsFiniteSet({}) /\ Cardinality({}) = 0
      BY FS_EmptySet
    <2>4. ASSUME NEW r \in RunIds, NEW E
          PROVE  CountEvents(r, E) = 0
      <3>1. {i \in DOMAIN outbox[r] : outbox[r][i] \in E} = {}
        BY <2>2
      <3> QED BY <2>3, <3>1 DEF CountEvents
    <2>5. AttemptsCounted
      <3> SUFFICES ASSUME NEW r \in RunIds
                   PROVE  /\ IsFiniteSet(Attempts(r))
                          /\ CountEvents(r, Closings) + Cardinality(Attempts(r))
                               <= CountEvents(r, {"run.started"})
        BY DEF AttemptsCounted
      <3>1. CountEvents(r, Closings) = 0 /\ CountEvents(r, {"run.started"}) = 0
        BY <2>4
      <3>2. IsFiniteSet(Attempts(r)) /\ Cardinality(Attempts(r)) = 0
        BY <2>2, <2>3
      <3> QED BY <3>1, <3>2
    <2> QED BY <2>1, <2>5, InitTyped
  <1>2. TypeOK /\ Books /\ [Next]_vars => Books'
    BY CountsStep, StampedStep
  <1>3. TypeOK /\ Books /\ TokenInvariant /\ GateInvariant => RunInvariant
    <2> SUFFICES ASSUME TypeOK, Books, NEW r \in RunIds
                 PROVE  CountEvents(r, Closings) <= CountEvents(r, {"run.started"})
      BY DEF RunInvariant, AttemptsAreOpened, Closings
    <2>1. outbox[r] \in Seq(EventTypes)
      BY DEF TypeOK, StoreTypeOK
    <2>2. CountEvents(r, Closings) \in Nat /\ CountEvents(r, {"run.started"}) \in Nat
      BY <2>1, CountIsNat DEF CountEvents, CountIn
    <2>3. Cardinality(Attempts(r)) \in Nat
      BY FS_CardinalityType DEF AttemptsCounted
    <2> QED BY <2>2, <2>3 DEF AttemptsCounted
  <1>4. Spec => [](TypeOK /\ TokenInvariant) /\ [](TypeOK /\ GateInvariant)
    BY TokenInvariance, GateInvariance
  <1> QED BY <1>1, <1>2, <1>3, <1>4, PTL DEF Spec

-----------------------------------------------------------------------------
\* Which runtime executes

\* Only a native worker executes, once it has called the agents, and only a
\* Temporal worker hands a run on.
PlacesFit ==
    \A w \in Workers :
        /\ worker[w].pc = "executing" =>
             RuntimeType = "native" /\ starts[worker[w].run] > 0
        /\ worker[w].pc = "temporal" => RuntimeType = "temporal"

\* Executions are counted up.
LEMMA StartsGrow ==
    ASSUME TypeOK, [Next]_vars, NEW r \in RunIds
    PROVE  starts'[r] >= starts[r]
  <1>1. starts \in [RunIds -> Nat]
    BY DEF TypeOK, WorkerTypeOK
  <1>2. ASSUME UNCHANGED starts
        PROVE  starts'[r] >= starts[r]
    BY <1>1, <1>2
  <1>3. ASSUME NEW x, starts' = [starts EXCEPT ![x] = @ + 1]
        PROVE  starts'[r] >= starts[r]
    BY <1>1, <1>3
  <1>4. ASSUME NEW w \in Workers, WorkerStep(w) \/ TemporalWorkerStep(w) \/ WorkerCrash(w)
        PROVE  starts'[r] >= starts[r]
    BY <1>2, <1>3, <1>4
       DEF WorkerStep, TemporalWorkerStep, WorkerCrash, Claim, MarkRunning, AppendStarted,
           AddReviewItem, MarkPaused, MarkBlocked, BeginExecution, FinishExecution,
           FailExecution, AppendClosing, RunnerFactoryRaises, StartTemporal,
           StartTemporalFails, RecordTemporalStart, Die
  <1>5. CASE \E x \in RunIds : TemporalAct(x)
    BY <1>2, <1>3, <1>5
       DEF TemporalAct, TemporalStep, ExecuteAgentNode, RetryAgentNode, AgentNodeDone,
           Signal, ReviewDecided, CompleteRuntimeRun, workerVars
  <1> QED BY <1>2, <1>4, <1>5 DEF Next, ClientAct, WorkerAct, RequestAct, Crash, workerVars, vars

\* A worker comes to these places by the two steps that name them.
LEMMA PlacesMove ==
    ASSUME TypeOK, [Next]_vars, NEW w \in Workers,
           worker'[w].pc \in {"executing", "temporal"}
    PROVE  /\ worker'[w].run = worker[w].run
           /\ \/ worker'[w].pc = worker[w].pc
              \/ worker'[w].pc = "executing" /\ BeginExecution(w)
              \/ worker'[w].pc = "temporal" /\ StartTemporal(w)
  <1> DEFINE Goal == /\ worker'[w].run = worker[w].run
                     /\ \/ worker'[w].pc = worker[w].pc
                        \/ worker'[w].pc = "executing" /\ BeginExecution(w)
                        \/ worker'[w].pc = "temporal" /\ StartTemporal(w)
  <1>1. worker \in [Workers -> WorkerState]
    BY DEF TypeOK, WorkerTypeOK
  <1>2. ASSUME worker'[w] = worker[w]
        PROVE  Goal
    BY <1>2
  <1>3. ASSUME NEW x \in Workers, WorkerStep(x) \/ TemporalWorkerStep(x) \/ WorkerCrash(x)
        PROVE  Goal
    <2>1. ASSUME NEW pc, Goto(x, pc), pc \notin {"executing", "temporal"}
          PROVE  Goal
      <3>1. /\ worker'[w].pc = IF w = x THEN pc ELSE worker[w].pc
            /\ worker'[w].run = worker[w].run
        BY <1>1, <2>1, GotoEffect
      <3> QED BY <2>1, <3>1
    <2>2. ASSUME Rest(x)
          PROVE  Goal
      BY <1>1, <2>2, RestEffect DEF Idle
    <2>3. CASE Claim(x)
      <3>1. PICK r \in RunIds : worker' = [worker EXCEPT ![x] =
               [pc |-> "claimed", run |-> r, approved |-> runs[r].approved, hook |-> NoHook]]
        BY <2>3 DEF Claim
      <3> QED BY <1>1, <3>1
    <2>4. CASE AppendStarted(x)
      <3>1. PICK h : worker' = [worker EXCEPT ![x].hook = h, ![x].pc = AfterHook(h)]
        BY <2>4 DEF AppendStarted
      <3>2. /\ worker'[w].pc = IF w = x THEN AfterHook(h) ELSE worker[w].pc
            /\ worker'[w].run = worker[w].run
        BY <1>1, <3>1 DEF WorkerState
      <3> QED BY <3>2 DEF AfterHook
    <2>5. CASE MarkRunning(x) \/ AddReviewItem(x) \/ MarkPaused(x) \/ MarkBlocked(x)
      BY <2>1, <2>5 DEF MarkRunning, AddReviewItem, MarkPaused, MarkBlocked
    <2>6. CASE FinishExecution(x) \/ FailExecution(x) \/ StartTemporalFails(x)
               \/ RecordTemporalStart(x)
      BY <2>1, <2>6 DEF FinishExecution, FailExecution, StartTemporalFails, RecordTemporalStart
    <2>7. CASE BeginExecution(x)
      BY <1>1, <2>7, GotoEffect DEF BeginExecution
    <2>8. CASE StartTemporal(x)
      BY <1>1, <2>8, GotoEffect DEF StartTemporal
    <2>9. CASE AppendClosing(x) \/ RunnerFactoryRaises(x) \/ WorkerCrash(x)
      BY <2>2, <2>9 DEF AppendClosing, RunnerFactoryRaises, WorkerCrash, Die
    <2> QED BY <1>3, <2>3, <2>4, <2>5, <2>6, <2>7, <2>8, <2>9 DEF WorkerStep, TemporalWorkerStep
  <1>4. CASE \E x \in Workers : WorkerAct(x)
    BY <1>3, <1>4 DEF WorkerAct
  <1>5. CASE (\E c \in Clients : ClientAct(c)) \/ (\E q \in Requests : RequestAct(q))
    BY <1>2, <1>5 DEF ClientAct, RequestAct, workerVars
  <1>6. CASE \E x \in RunIds : TemporalAct(x)
    BY <1>2, <1>6
       DEF TemporalAct, TemporalStep, ExecuteAgentNode, RetryAgentNode, AgentNodeDone,
           Signal, ReviewDecided, CompleteRuntimeRun, workerVars
  <1>7. CASE Crash
    BY <1>2, <1>3, <1>7 DEF Crash, workerVars
  <1>8. CASE UNCHANGED vars
    BY <1>2, <1>8 DEF vars
  <1> QED BY <1>4, <1>5, <1>6, <1>7, <1>8 DEF Next

\* Which runtime executes is settled by the deployment.
LEMMA PlacesStep ==
    ASSUME TypeOK, ReferencesExist, PlacesFit, [Next]_vars
    PROVE  PlacesFit'
  <1>1. starts \in [RunIds -> Nat]
    BY DEF TypeOK, WorkerTypeOK
  <1>2. ASSUME NEW w \in Workers, worker'[w].pc = "executing"
        PROVE  RuntimeType = "native" /\ starts'[worker'[w].run] > 0
    <2>1. PICK r \in RunIds : worker[w].run = r
      BY <1>2, PlacesMove DEF BeginExecution, ReferencesExist
    <2>2. starts'[r] >= starts[r] /\ starts'[r] \in Nat
      BY StartsGrow, TypeStep DEF TypeOK, WorkerTypeOK
    <2>3. CASE worker[w].pc = "executing"
      <3>1. RuntimeType = "native" /\ starts[r] > 0
        BY <2>1, <2>3 DEF PlacesFit
      <3>2. worker'[w].run = r
        BY <1>2, <2>1, PlacesMove
      <3> QED BY <1>1, <2>2, <3>1, <3>2
    <2>4. CASE BeginExecution(w)
      <3>1. starts' = [starts EXCEPT ![r] = @ + 1] /\ RuntimeType = "native"
        BY <2>1, <2>4 DEF BeginExecution
      <3>2. worker'[w].run = r
        BY <1>2, <2>1, PlacesMove
      <3> QED BY <1>1, <3>1, <3>2
    <2> QED BY <1>2, <2>3, <2>4, PlacesMove
  <1>3. ASSUME NEW w \in Workers, worker'[w].pc = "temporal"
        PROVE  RuntimeType = "temporal"
    BY <1>3, PlacesMove DEF StartTemporal, PlacesFit
  <1> QED BY <1>2, <1>3 DEF PlacesFit

-----------------------------------------------------------------------------
\* RUNNING runs

\* The worker will write the run's status, or hand it on, unless it dies.
Settles(w, r) == worker[w].run = r /\ (Working(w) \/ worker[w].pc = "pause")

Held(r) == r \in abandoned \/ \E w \in Workers : Settles(w, r)

\* A worker lets go of its run by a status write, by dying, or by giving it to
\* Temporal.
LEMMA SettlersMove ==
    ASSUME TypeOK, RuntimeType # "temporal", [Next]_vars,
           NEW w \in Workers, NEW r \in RunIds, Settles(w, r)
    PROVE  \/ Settles(w, r)'
           \/ r \in abandoned'
           \/ \E s \in {"REVIEW", "BLOCKED", "COMPLETED", "FAILED"} : runs'[r].status = s
  <1> DEFINE Goal == \/ Settles(w, r)'
                     \/ r \in abandoned'
                     \/ \E s \in {"REVIEW", "BLOCKED", "COMPLETED", "FAILED"} :
                          runs'[r].status = s
  <1>1. runs \in [RunIds -> Run] /\ worker \in [Workers -> WorkerState]
    BY DEF TypeOK, StoreTypeOK, WorkerTypeOK
  <1>2. {"COMPLETED", "FAILED", "BLOCKED", "REVIEW"} \subseteq RunStatus
        /\ {"ALLOW", "REVIEW", "BLOCK", "DENY"} \subseteq Decisions
    BY DEF RunStatus, ACTIVE_RUN_STATUSES, TERMINAL_RUN_STATUSES, Decisions
  <1>3. ASSUME worker'[w] = worker[w]
        PROVE  Goal
    BY <1>3 DEF Settles, Working
  <1>4. ASSUME NEW x \in Workers, WorkerStep(x) \/ TemporalWorkerStep(x) \/ WorkerCrash(x), x # w
        PROVE  Goal
    <2>1. worker'[w] = worker[w]
      BY <1>1, <1>4
         DEF WorkerStep, TemporalWorkerStep, WorkerCrash, Claim, MarkRunning, AppendStarted,
             AddReviewItem, MarkPaused, MarkBlocked, BeginExecution, FinishExecution,
             FailExecution, AppendClosing, RunnerFactoryRaises, StartTemporal,
             StartTemporalFails, RecordTemporalStart, Die, Rest, Goto
    <2> QED BY <1>3, <2>1
  <1>5. ASSUME WorkerStep(w) \/ TemporalWorkerStep(w) \/ WorkerCrash(w)
        PROVE  Goal
    <2>1. CASE Claim(w) \/ AppendClosing(w)
      BY <2>1 DEF Claim, AppendClosing, ClosingEvent, Settles, Working
    <2>2. ASSUME NEW pc \in {"started", "review", "block", "run", "executing", "pause"},
                 worker'[w].pc = pc, worker'[w].run = worker[w].run
          PROVE  Goal
      BY <2>2 DEF Settles, Working
    <2>3. CASE MarkRunning(w) \/ AddReviewItem(w) \/ BeginExecution(w)
      BY <1>1, <2>2, <2>3, GotoEffect DEF MarkRunning, AddReviewItem, BeginExecution
    <2>4. CASE AppendStarted(w)
      <3>1. PICK h : worker' = [worker EXCEPT ![w].hook = h, ![w].pc = AfterHook(h)]
        BY <2>4 DEF AppendStarted
      <3>2. worker'[w].pc = AfterHook(h) /\ worker'[w].run = worker[w].run
        BY <1>1, <3>1 DEF WorkerState
      <3> QED BY <2>2, <3>2 DEF AfterHook
    <2>5. CASE MarkPaused(w)
      BY <1>1, <1>2, <2>5, OutcomeWriteEffect DEF MarkPaused, Settles
    <2>6. CASE MarkBlocked(w)
      BY <1>1, <1>2, <2>6, OutcomeWriteEffect DEF MarkBlocked, Settles
    <2>7. CASE FinishExecution(w)
      BY <1>1, <1>2, <2>7, OutcomeWriteEffect DEF FinishExecution, Settles
    <2>8. CASE FailExecution(w)
      BY <1>1, <1>2, <2>8, StatusWriteEffect DEF FailExecution, Settles
    <2>9. CASE RunnerFactoryRaises(w) \/ WorkerCrash(w)
      BY <2>9 DEF RunnerFactoryRaises, WorkerCrash, Die, Settles
    <2>10. CASE TemporalWorkerStep(w)
      BY <2>10 DEF TemporalWorkerStep, StartTemporal, StartTemporalFails, RecordTemporalStart,
                   Settles, Working
    <2> QED BY <1>5, <2>1, <2>3, <2>4, <2>5, <2>6, <2>7, <2>8, <2>9, <2>10 DEF WorkerStep
  <1>6. CASE \E x \in Workers : WorkerAct(x)
    BY <1>4, <1>5, <1>6 DEF WorkerAct
  <1>7. CASE (\E c \in Clients : ClientAct(c)) \/ (\E q \in Requests : RequestAct(q))
    BY <1>3, <1>7 DEF ClientAct, RequestAct, workerVars
  <1>8. CASE \E x \in RunIds : TemporalAct(x)
    BY <1>3, <1>8
       DEF TemporalAct, TemporalStep, ExecuteAgentNode, RetryAgentNode, AgentNodeDone,
           Signal, ReviewDecided, CompleteRuntimeRun, workerVars
  <1>9. CASE Crash
    BY <1>3, <1>4, <1>5, <1>9 DEF Crash, workerVars
  <1>10. CASE UNCHANGED vars
    BY <1>3, <1>10 DEF vars
  <1> QED BY <1>6, <1>7, <1>8, <1>9, <1>10 DEF Next

\* Nobody forgets who died.
LEMMA AbandonedGrows ==
    ASSUME [Next]_vars
    PROVE  abandoned \subseteq abandoned'
  <1>1. ASSUME NEW w \in Workers, WorkerStep(w) \/ TemporalWorkerStep(w) \/ WorkerCrash(w)
        PROVE  abandoned \subseteq abandoned'
    BY <1>1
       DEF WorkerStep, TemporalWorkerStep, WorkerCrash, Claim, MarkRunning, AppendStarted,
           AddReviewItem, MarkPaused, MarkBlocked, BeginExecution, FinishExecution,
           FailExecution, AppendClosing, RunnerFactoryRaises, StartTemporal,
           StartTemporalFails, RecordTemporalStart, Die
  <1>2. CASE \E r \in RunIds : TemporalAct(r)
    BY <1>2
       DEF TemporalAct, TemporalStep, ExecuteAgentNode, RetryAgentNode, AgentNodeDone,
           Signal, ReviewDecided, CompleteRuntimeRun, workerVars
  <1> QED BY <1>1, <1>2 DEF Next, ClientAct, WorkerAct, RequestAct, Crash, workerVars, vars

\* RunningIsHeld where no workflow can have taken the run over.
RunningHeld == \A r \in RunIds : runs[r].status = "RUNNING" => Held(r)

\* A run leaves the hands of its worker only with another status.
LEMMA RunningHeldStep ==
    ASSUME TypeOK, PlacesFit, RuntimeType # "temporal", RunningHeld, [Next]_vars
    PROVE  RunningHeld'
  <1> SUFFICES ASSUME NEW r \in RunIds, runs'[r].status = "RUNNING"
               PROVE  Held(r)'
    BY DEF RunningHeld
  <1>1. worker \in [Workers -> WorkerState]
    BY DEF TypeOK, WorkerTypeOK
  <1>2. CASE Held(r)
    <2>1. CASE r \in abandoned
      BY <2>1, AbandonedGrows DEF Held
    <2>2. ASSUME NEW w \in Workers, Settles(w, r)
          PROVE  Held(r)'
      BY <2>2, SettlersMove DEF Held
    <2> QED BY <1>2, <2>1, <2>2 DEF Held
  <1>3. CASE ~Held(r)
    <2>1. runs'[r] # runs[r]
      BY <1>3 DEF RunningHeld
    <2>2. ASSUME NEW w \in Workers, worker'[w].pc = "claimed", worker'[w].run = r
          PROVE  Held(r)'
      BY <2>2 DEF Held, Settles, Working
    <2>3. ASSUME NEW w \in Workers, worker[w].run = r, MarkRunning(w)
          PROVE  Held(r)'
      BY <1>3, <2>3 DEF Held, Settles, Working, MarkRunning
    <2>4. ASSUME NEW w \in Workers, RecordTemporalStart(w), worker[w].run = r
          PROVE  FALSE
      BY <2>4 DEF RecordTemporalStart, PlacesFit
    <2> QED BY <2>1, <2>2, <2>3, <2>4, RowWrites
            DEF RowWritten, Requeued, Stamped, WorkerWrites
  <1> QED BY <1>2, <1>3

\* A RUNNING run is in the hands of a worker that will settle it, or the worker
\* that claimed it died.
THEOREM RunningRunsAreHeld ==
    ASSUME RuntimeType # "temporal"
    PROVE  Spec => []RunningIsHeld
  <1>1. Init => PlacesFit /\ RunningHeld
    BY DEF Init, StoreInit, AbsentRun, WorkerInit, Idle, PlacesFit, RunningHeld
  <1>2. TypeOK /\ ReferencesExist /\ PlacesFit /\ RunningHeld /\ [Next]_vars
          => (PlacesFit /\ RunningHeld)'
    BY PlacesStep, RunningHeldStep
  <1>3. RunningHeld => RunningIsHeld
    BY DEF RunningHeld, Held, Settles, RunningIsHeld
  <1> QED BY <1>1, <1>2, <1>3, TypeCorrect, PTL DEF Spec

-----------------------------------------------------------------------------
\* Requests that are answered with a run

\* The run a keyed request was answered with carries its key.
AnswersCarryKey ==
    \A c \in Clients : client[c].pc = "returned" /\ client[c].key # NoKey =>
        /\ client[c].run \in RunIds /\ Exists(client[c].run)
        /\ runs[client[c].run].key = client[c].key

\* An answer comes from the run that was found or inserted.
LEMMA AnswersMove ==
    ASSUME TypeOK, NEW c \in Clients, Submit(c) \/ DispatchStep(c),
           NEW d \in Clients, client'[d].pc = "returned", client'[d].key # NoKey
    PROVE  \/ client'[d] = client[d]
           \/ /\ client'[d].run \in RunIds /\ runs'[client'[d].run].status # "ABSENT"
              /\ runs'[client'[d].run].key = client'[d].key
  <1> DEFINE Answered == /\ client'[c].run \in RunIds
                         /\ runs'[client'[c].run].status # "ABSENT"
                         /\ runs'[client'[c].run].key = client'[c].key
  <1>1. client \in [Clients -> ClientState] /\ runs \in [RunIds -> Run]
    BY DEF TypeOK, DispatchTypeOK, StoreTypeOK
  <1>2. CASE d # c
    BY <1>1, <1>2 DEF Submit, DispatchStep, CreateLookup, CreateInsert, CreateConflict,
                      Return, Refuse
  <1>3. ASSUME NEW r \in RunIds, Return(c, r)
        PROVE  client'[c].run = r /\ client'[c].key = client[c].key
    BY <1>1, <1>3 DEF Return, ClientState
  <1>4. CASE d = c /\ Submit(c)
    <2>1. PICK k \in Keys \cup {NoKey}, m \in SUBSET Hooks :
            LET found == IF k = NoKey THEN {} ELSE RunsWithKey(k)
                req == [client[c] EXCEPT !.key = k, !.matching = m]
            IN  \/ /\ found = {}
                   /\ client' = [client EXCEPT ![c] = [req EXCEPT !.pc = "create"]]
                \/ \E r \in RunIds :
                    /\ IsNewest(r, found)
                    /\ client' = [client EXCEPT ![c] =
                         IF runs[r].status \in ACTIVE_RUN_STATUSES
                         THEN [req EXCEPT !.pc = "duplicate"]
                         ELSE [req EXCEPT !.pc = "returned", !.run = r]]
      BY <1>4 DEF Submit
    <2> DEFINE found == IF k = NoKey THEN {} ELSE RunsWithKey(k)
               req == [client[c] EXCEPT !.key = k, !.matching = m]
    <2>2. req \in ClientState /\ req.key = k
      BY <1>1 DEF ClientState
    <2> HIDE DEF req
    <2>3. client'[c] # [req EXCEPT !.pc = "create"]
      BY <1>4, <2>2 DEF ClientState
    <2>4. PICK r \in RunIds :
            /\ r \in found
            /\ client'[c] = IF runs[r].status \in ACTIVE_RUN_STATUSES
                            THEN [req EXCEPT !.pc = "duplicate"]
                            ELSE [req EXCEPT !.pc = "returned", !.run = r]
      BY <1>1, <2>1, <2>3 DEF IsNewest, req
    <2>5. client'[c] # [req EXCEPT !.pc = "duplicate"]
      BY <1>4, <2>2 DEF ClientState
    <2>6. client'[c].run = r /\ client'[c].key = k
      BY <2>2, <2>4, <2>5 DEF ClientState
    <2>7. runs[r].key = k /\ runs[r].status # "ABSENT"
      BY <2>4 DEF RunsWithKey, Exists
    <2>8. UNCHANGED runs
      BY <1>4 DEF Submit, storeVars
    <2> QED BY <1>4, <2>6, <2>7, <2>8
  <1>5. CASE d = c /\ CreateLookup(c)
    <2>1. ASSUME Refuse(c, "insert")
          PROVE  FALSE
      BY <1>1, <1>5, <2>1 DEF Refuse, ClientState
    <2>2. PICK r \in RunIds :
            Return(c, r) /\ (client[c].key # NoKey => Exists(r) /\ runs[r].key = client[c].key)
      BY <1>5, <2>1 DEF CreateLookup, RunsWithKey
    <2>3. UNCHANGED runs
      BY <1>5 DEF CreateLookup, storeVars
    <2> QED BY <1>3, <1>5, <2>2, <2>3 DEF Exists
  <1>6. CASE d = c /\ CreateInsert(c)
    <2>1. PICK r \in RunIds :
            UpdateRun(r, QueuedRow(client[c].key, client[c].matching)) /\ Return(c, r)
      BY <1>6 DEF CreateInsert
    <2>2. runs'[r].key = client[c].key /\ runs'[r].status = "QUEUED"
      BY <1>1, <2>1 DEF UpdateRun, QueuedRow
    <2> QED BY <1>3, <1>6, <2>1, <2>2
  <1>7. CASE d = c /\ CreateConflict(c)
    BY <1>1, <1>7 DEF CreateConflict, Refuse, ClientState
  <1> QED BY <1>2, <1>4, <1>5, <1>6, <1>7 DEF DispatchStep

\* A row keeps its key once it is there.
LEMMA KeysStay ==
    ASSUME TypeOK, [Next]_vars, NEW r \in RunIds, Exists(r)
    PROVE  runs'[r].key = runs[r].key
  <1>1. CASE \A c \in Clients : ~CreateInsert(c)
    BY <1>1, RowsKept DEF RowsSame, SubmittedKept
  <1>2. ASSUME NEW c \in Clients, CreateInsert(c)
        PROVE  runs'[r].key = runs[r].key
    BY <1>2 DEF CreateInsert, IsNextRun, IsOldest, UpdateRun, TypeOK, StoreTypeOK
  <1> QED BY <1>1, <1>2

\* A request is answered with a run of its own key.
LEMMA AnswersStep ==
    ASSUME TypeOK, AnswersCarryKey, [Next]_vars
    PROVE  AnswersCarryKey'
  <1>1. ASSUME NEW d \in Clients, client'[d] = client[d],
               client'[d].pc = "returned", client'[d].key # NoKey
        PROVE  /\ client'[d].run \in RunIds /\ runs'[client'[d].run].status # "ABSENT"
               /\ runs'[client'[d].run].key = client'[d].key
    <2>1. PICK r \in RunIds : r = client[d].run /\ Exists(r) /\ runs[r].key = client[d].key
      BY <1>1 DEF AnswersCarryKey
    <2>2. Exists(r)' /\ runs'[r].key = runs[r].key
      BY <2>1, RowsPersist, KeysStay
    <2> QED BY <1>1, <2>1, <2>2 DEF Exists
  <1>2. CASE UNCHANGED client
    BY <1>1, <1>2 DEF AnswersCarryKey, Exists
  <1>3. ASSUME NEW c \in Clients, ClientAct(c)
        PROVE  AnswersCarryKey'
    BY <1>1, <1>3, AnswersMove DEF ClientAct, AnswersCarryKey, Exists
  <1> QED BY <1>2, <1>3 DEF Next, WorkerAct, TemporalAct, RequestAct, Crash, vars

\* Two requests with one key that are answered with a run are answered with the
\* same run, whatever raced between look-up and INSERT.
THEOREM AnswersAgree ==
    ASSUME UniqueIndex
    PROVE  Spec => []KeyedRequestsAgree
  <1>1. Init => AnswersCarryKey
    BY DEF Init, DispatchInit, AnswersCarryKey
  <1>2. TypeOK /\ AnswersCarryKey /\ [Next]_vars => AnswersCarryKey'
    BY AnswersStep
  <1>3. AnswersCarryKey /\ OneRunPerKey => KeyedRequestsAgree
    BY DEF AnswersCarryKey, OneRunPerKey, KeyedRequestsAgree
  <1> QED BY <1>1, <1>2, <1>3, TypeCorrect, KeysAreUnique, PTL DEF Spec

-----------------------------------------------------------------------------
\* Where the token of a run is

Executes(w, r) == worker[w].run = r /\ worker[w].pc = "executing"

\* The right to execute the run is nowhere.
NoToken(r) ==
    /\ ~Queued(r)
    /\ \A w \in Workers : ~Holds(w, r)
    /\ \A v \in ReviewIds : ~Awaits(v, r)

\* A token that is in one place at most is where PlaceOf says.
PlacesTold ==
    \A r \in RunIds :
        /\ ~Exists(r) => PlaceOf(r) = "none"
        /\ Queued(r) => PlaceOf(r) = "queue"
        /\ \A w \in Workers : Holds(w, r) =>
             PlaceOf(r) = IF worker[w].pc = "executing" THEN "agents" ELSE "worker"
        /\ \A v \in ReviewIds : Awaits(v, r) => PlaceOf(r) = "reviewer"
        /\ Exists(r) /\ NoToken(r) => PlaceOf(r) = "over"

\* The reading of the state by PlaceOf agrees with the tokens ...
LEMMA PlaceMeaning == TypeOK /\ ReferencesExist /\ TokenIsUnique => PlacesTold
  <1> SUFFICES ASSUME TypeOK, ReferencesExist, TokenIsUnique, NEW r \in RunIds
               PROVE  /\ ~Exists(r) => PlaceOf(r) = "none"
                      /\ Queued(r) => PlaceOf(r) = "queue"
                      /\ \A w \in Workers : Holds(w, r) =>
                           PlaceOf(r) = IF worker[w].pc = "executing" THEN "agents" ELSE "worker"
                      /\ \A v \in ReviewIds : Awaits(v, r) => PlaceOf(r) = "reviewer"
                      /\ Exists(r) /\ NoToken(r) => PlaceOf(r) = "over"
    BY DEF PlacesTold
  <1>1. PlaceOf(r) =
          IF ~Exists(r) THEN "none"
          ELSE IF Queued(r) THEN "queue"
          ELSE IF \E w \in Workers : Executes(w, r) THEN "agents"
          ELSE IF \E w \in Workers : Holds(w, r) THEN "worker"
          ELSE IF \E v \in ReviewIds : Awaits(v, r) THEN "reviewer"
          ELSE "over"
    BY DEF PlaceOf, Queued, Executes, Holds, Awaits
  <1>2. \A w \in Workers : Executes(w, r) <=> Holds(w, r) /\ worker[w].pc = "executing"
    BY DEF Executes, Holds, Working
  <1>3. /\ \A w \in Workers : Holds(w, r) => Exists(r)
        /\ \A v \in ReviewIds : Awaits(v, r) => Exists(r)
        /\ Queued(r) => Exists(r)
    BY TokenHasRun
  <1>4. /\ \A w \in Workers : ~(Queued(r) /\ Holds(w, r))
        /\ \A v \in ReviewIds : ~(Queued(r) /\ Awaits(v, r))
        /\ \A w \in Workers, v \in ReviewIds : ~(Holds(w, r) /\ Awaits(v, r))
        /\ \A w, x \in Workers : Holds(w, r) /\ Holds(x, r) => w = x
    BY DEF TokenIsUnique
  <1>5. Queued(r) => PlaceOf(r) = "queue"
    BY <1>1, <1>3
  <1>6. ASSUME NEW w \in Workers, Holds(w, r)
        PROVE  PlaceOf(r) = IF worker[w].pc = "executing" THEN "agents" ELSE "worker"
    BY <1>1, <1>2, <1>3, <1>4, <1>6
  <1>7. ASSUME NEW v \in ReviewIds, Awaits(v, r)
        PROVE  PlaceOf(r) = "reviewer"
    BY <1>1, <1>2, <1>3, <1>4, <1>7
  <1>8. Exists(r) /\ NoToken(r) => PlaceOf(r) = "over"
    BY <1>1, <1>2 DEF NoToken
  <1> QED BY <1>1, <1>5, <1>6, <1>7, <1>8

\* ... and so it does after the step.
LEMMA PlaceMeaningNext == TypeOK' /\ ReferencesExist' /\ TokenIsUnique' => PlacesTold'
  BY PlaceMeaning, PTL

\* Where nothing about the token of a run changes, its place does not.
TokensSame(r) ==
    /\ Exists(r)' <=> Exists(r)
    /\ Queued(r)' <=> Queued(r)
    /\ \A w \in Workers : (Holds(w, r)' <=> Holds(w, r)) /\ (Executes(w, r)' <=> Executes(w, r))
    /\ \A v \in ReviewIds : Awaits(v, r)' <=> Awaits(v, r)

\* PlaceOf reads nothing else.
LEMMA PlaceSame ==
    ASSUME NEW r \in RunIds, TokensSame(r)
    PROVE  PlaceOf(r)' = PlaceOf(r)
  <1>1. PlaceOf(r) =
          IF ~Exists(r) THEN "none"
          ELSE IF Queued(r) THEN "queue"
          ELSE IF \E w \in Workers : Executes(w, r) THEN "agents"
          ELSE IF \E w \in Workers : Holds(w, r) THEN "worker"
          ELSE IF \E v \in ReviewIds : Awaits(v, r) THEN "reviewer"
          ELSE "over"
    BY DEF PlaceOf, Queued, Executes, Holds, Awaits
  <1>2. PlaceOf(r)' =
          IF ~Exists(r)' THEN "none"
          ELSE IF Queued(r)' THEN "queue"
          ELSE IF \E w \in Workers : Executes(w, r)' THEN "agents"
          ELSE IF \E w \in Workers : Holds(w, r)' THEN "worker"
          ELSE IF \E v \in ReviewIds : Awaits(v, r)' THEN "reviewer"
          ELSE "over"
    BY DEF PlaceOf, Queued, Executes, Holds, Awaits
  <1> QED BY <1>1, <1>2 DEF TokensSame

Stays == \A r \in RunIds : PlaceOf(r)' = PlaceOf(r)

\* The token of r moves, and no other.
Moves(r, from, to) ==
    /\ PlaceOf(r) = from /\ PlaceOf(r)' = to
    /\ \A x \in RunIds : x # r => PlaceOf(x)' = PlaceOf(x)

\* Outside Temporal, only BeginExecution counts an execution.
Quiet == RuntimeType # "temporal" => UNCHANGED starts

\* The token of r is used for an execution.
Spends(r) == Moves(r, "worker", "agents") /\ starts' = [starts EXCEPT ![r] = @ + 1]

\* The moves that execute nothing.
Transfers(r) ==
    \/ Moves(r, "none", "queue") \/ Moves(r, "queue", "worker")
    \/ Moves(r, "worker", "reviewer") \/ Moves(r, "reviewer", "queue")
    \/ \E from \in {"queue", "worker", "reviewer", "agents"} : Moves(r, from, "over")

\* What RunLifecycle allows of a step, read on the tokens.
LifeStep ==
    \/ Stays /\ Quiet
    \/ \E r \in RunIds : Spends(r) \/ (Transfers(r) /\ Quiet)

\* What a step needs to know to be placed.
Placed ==
    /\ TypeOK /\ ReferencesExist /\ TokenIsUnique
    /\ TypeOK' /\ ReferencesExist' /\ TokenIsUnique'

-----------------------------------------------------------------------------
\* The workers' moves

\* The worker w works on the run r and on nothing else.
WorksOn(w, r) ==
    /\ worker[w].run = r
    /\ \A x \in Workers : x # w => worker'[x] = worker[x]
    /\ worker'[w].run = r \/ worker'[w] = Idle
    /\ \A x \in RunIds : x # r => runs'[x] = runs[x]
    /\ \A x \in RunIds : Exists(x) => Exists(x)'

\* The tokens of the other runs are not touched ...
LEMMA OthersSame ==
    ASSUME NEW w \in Workers, NEW r \in RunIds, WorksOn(w, r), request' = request,
           NEW x \in RunIds, x # r,
           \A v \in ReviewIds : reviews'[v] = reviews[v] \/
             (reviews[v].run # x /\ reviews'[v].run # x)
    PROVE  TokensSame(x)
  <1>1. (Exists(x)' <=> Exists(x)) /\ (Queued(x)' <=> Queued(x))
    BY DEF WorksOn, Exists, Queued
  <1>2. ASSUME NEW y \in Workers
        PROVE  (Holds(y, x)' <=> Holds(y, x)) /\ (Executes(y, x)' <=> Executes(y, x))
    <2>1. CASE y # w
      BY <2>1 DEF WorksOn, Holds, Working, Executes
    <2>2. CASE y = w
      BY <2>2 DEF WorksOn, Holds, Working, Executes, Idle
    <2> QED BY <2>1, <2>2
  <1>3. \A v \in ReviewIds : Awaits(v, x)' <=> Awaits(v, x)
    BY DEF Awaits, OpenReview
  <1> QED BY <1>1, <1>2, <1>3 DEF TokensSame

\* ... so they stay where they are.
LEMMA OthersKept ==
    ASSUME NEW w \in Workers, NEW r \in RunIds, WorksOn(w, r), reviews' = reviews, request' = request
    PROVE  \A x \in RunIds : x # r => PlaceOf(x)' = PlaceOf(x)
  <1>1. \A v \in ReviewIds : reviews'[v] = reviews[v]
    OBVIOUS
  <1>2. ASSUME NEW x \in RunIds, x # r
        PROVE  TokensSame(x)
    <2>1. \A v \in ReviewIds : reviews'[v] = reviews[v] \/
            (reviews[v].run # x /\ reviews'[v].run # x)
      BY <1>1
    <2> QED BY <1>2, <2>1, OthersSame
  <1>3. ASSUME NEW x \in RunIds, x # r
        PROVE  PlaceOf(x)' = PlaceOf(x)
    BY <1>2, <1>3, PlaceSame
  <1> QED BY <1>3

\* A worker that neither had the token nor has it now ...
LEMMA BystanderSame ==
    ASSUME NEW w \in Workers, NEW r \in RunIds, WorksOn(w, r), reviews' = reviews, request' = request,
           ~Working(w), ~Working(w)', Exists(r), Queued(r)' <=> Queued(r)
    PROVE  TokensSame(r)
  <1>1. ASSUME NEW y \in Workers
        PROVE  (Holds(y, r)' <=> Holds(y, r)) /\ (Executes(y, r)' <=> Executes(y, r))
    <2>1. CASE y # w
      BY <2>1 DEF WorksOn, Holds, Working, Executes
    <2>2. CASE y = w
      BY <2>2 DEF Holds, Working, Executes
    <2> QED BY <2>1, <2>2
  <1>2. \A v \in ReviewIds : Awaits(v, r)' <=> Awaits(v, r)
    BY DEF Awaits, OpenReview
  <1> QED BY <1>1, <1>2 DEF TokensSame, WorksOn

\* ... can still take it out of the queue with a status write.
LEMMA BystanderWrites ==
    ASSUME Placed, NEW w \in Workers, NEW r \in RunIds, WorksOn(w, r),
           reviews' = reviews, request' = request, ~Working(w), ~Working(w)', Exists(r), ~Queued(r)'
    PROVE  Stays \/ Moves(r, "queue", "over")
  <1>1. \A x \in RunIds : x # r => PlaceOf(x)' = PlaceOf(x)
    BY OthersKept
  <1>2. CASE ~Queued(r)
    <2>1. TokensSame(r)
      BY <1>2, BystanderSame
    <2> QED BY <1>1, <2>1, PlaceSame DEF Stays
  <1>3. CASE Queued(r)
    <2>1. PlaceOf(r) = "queue"
      BY <1>3, PlaceMeaning DEF Placed, PlacesTold
    <2>2. \A y \in Workers : ~Holds(y, r)'
      <3> SUFFICES ASSUME NEW y \in Workers PROVE ~Holds(y, r)'
        OBVIOUS
      <3>1. ~Holds(y, r)
        BY <1>3 DEF Placed, TokenIsUnique
      <3>2. CASE y # w
        BY <3>1, <3>2 DEF WorksOn, Holds, Working
      <3>3. CASE y = w
        BY <3>3 DEF Holds
      <3> QED BY <3>2, <3>3
    <2>3. \A v \in ReviewIds : ~Awaits(v, r)'
      BY <1>3 DEF Placed, TokenIsUnique, Awaits, OpenReview
    <2>4. NoToken(r)' /\ Exists(r)'
      BY <2>2, <2>3 DEF NoToken, WorksOn
    <2>5. PlaceOf(r)' = "over"
      BY <2>4, PlaceMeaningNext DEF Placed, PlacesTold
    <2> QED BY <1>1, <2>1, <2>5 DEF Moves
  <1> QED BY <1>2, <1>3

\* A worker that has the token and keeps it.
LEMMA HolderKeeps ==
    ASSUME Placed, NEW w \in Workers, NEW r \in RunIds, WorksOn(w, r),
           reviews' = reviews, request' = request, Holds(w, r), Holds(w, r)'
    PROVE  IF worker[w].pc = "executing" /\ worker'[w].pc # "executing" THEN Moves(r, "agents", "worker")
           ELSE IF worker[w].pc # "executing" /\ worker'[w].pc = "executing"
                THEN Moves(r, "worker", "agents")
           ELSE Stays
  <1>1. \A x \in RunIds : x # r => PlaceOf(x)' = PlaceOf(x)
    BY OthersKept
  <1>2. PlaceOf(r) = IF worker[w].pc = "executing" THEN "agents" ELSE "worker"
    BY PlaceMeaning DEF Placed, PlacesTold
  <1>3. PlaceOf(r)' = IF worker'[w].pc = "executing" THEN "agents" ELSE "worker"
    BY PlaceMeaningNext DEF Placed, PlacesTold
  <1> QED BY <1>1, <1>2, <1>3 DEF Moves, Stays

\* A worker that has the token and drops it.
LEMMA HolderDrops ==
    ASSUME Placed, NEW w \in Workers, NEW r \in RunIds, WorksOn(w, r),
           reviews' = reviews, request' = request, Holds(w, r), ~Working(w)', 
           runs'[r] = runs[r] \/ ~Queued(r)'
    PROVE  Moves(r, IF worker[w].pc = "executing" THEN "agents" ELSE "worker", "over")
  <1>1. \A x \in RunIds : x # r => PlaceOf(x)' = PlaceOf(x)
    BY OthersKept
  <1>2. PlaceOf(r) = IF worker[w].pc = "executing" THEN "agents" ELSE "worker"
    BY PlaceMeaning DEF Placed, PlacesTold
  <1>3. ~Queued(r)'
    <2>1. ~Queued(r)
      BY DEF Placed, TokenIsUnique
    <2> QED BY <2>1 DEF Queued
  <1>4. \A y \in Workers : ~Holds(y, r)'
    <2> SUFFICES ASSUME NEW y \in Workers PROVE ~Holds(y, r)'
      OBVIOUS
    <2>1. CASE y # w
      <3>1. ~Holds(y, r)
        BY <2>1 DEF Placed, TokenIsUnique
      <3> QED BY <2>1, <3>1 DEF WorksOn, Holds, Working
    <2>2. CASE y = w
      BY <2>2 DEF Holds
    <2> QED BY <2>1, <2>2
  <1>5. \A v \in ReviewIds : ~Awaits(v, r)'
    BY DEF Placed, TokenIsUnique, Awaits, OpenReview
  <1>6. NoToken(r)' /\ Exists(r)'
    BY <1>3, <1>4, <1>5, TokenHasRun DEF NoToken, WorksOn, Placed
  <1>7. PlaceOf(r)' = "over"
    BY <1>6, PlaceMeaningNext DEF Placed, PlacesTold
  <1> QED BY <1>1, <1>2, <1>7 DEF Moves

\* What a worker that is not claiming does to the rows and to the other workers.
LEMMA WorkerWorks ==
    ASSUME TypeOK, ReferencesExist, NEW w \in Workers, ~Claim(w),
           \/ WorkerStep(w) /\ UNCHANGED temporal
           \/ TemporalWorkerStep(w) \/ WorkerCrash(w)
    PROVE  \E r \in RunIds : WorksOn(w, r) /\ Exists(r)
  <1>1. runs \in [RunIds -> Run] /\ worker \in [Workers -> WorkerState]
    BY DEF TypeOK, StoreTypeOK, WorkerTypeOK
  <1>2. worker[w].pc # "idle"
    BY DEF WorkerStep, TemporalWorkerStep, MarkRunning, AppendStarted, AddReviewItem,
           MarkPaused, MarkBlocked, BeginExecution, FinishExecution, FailExecution,
           AppendClosing, ClosingEvent, RunnerFactoryRaises, WorkerCrash, StartTemporal,
           StartTemporalFails, RecordTemporalStart
  <1>3. PICK r \in RunIds : r = worker[w].run /\ Exists(r)
    BY <1>2 DEF ReferencesExist
  <1>4. \A x \in Workers : x # w => worker'[x] = worker[x]
    BY <1>1
       DEF WorkerStep, TemporalWorkerStep, MarkRunning, AppendStarted, AddReviewItem,
           MarkPaused, MarkBlocked, BeginExecution, FinishExecution, FailExecution,
           AppendClosing, RunnerFactoryRaises, WorkerCrash, StartTemporal,
           StartTemporalFails, RecordTemporalStart, Die, Rest, Goto
  <1>5. worker'[w].run = r \/ worker'[w] = Idle
    <2>1. CASE AppendStarted(w)
      <3>1. PICK h : worker' = [worker EXCEPT ![w].hook = h, ![w].pc = AfterHook(h)]
        BY <2>1 DEF AppendStarted
      <3> QED BY <1>1, <1>3, <3>1 DEF WorkerState
    <2>2. ASSUME NEW pc, Goto(w, pc)
          PROVE  worker'[w].run = r
      BY <1>1, <1>3, <2>2, GotoEffect
    <2>3. ASSUME Rest(w)
          PROVE  worker'[w] = Idle
      BY <1>1, <2>3 DEF Rest
    <2> QED BY <2>1, <2>2, <2>3
            DEF WorkerStep, TemporalWorkerStep, MarkRunning, AddReviewItem,
                MarkPaused, MarkBlocked, BeginExecution, FinishExecution, FailExecution,
                AppendClosing, RunnerFactoryRaises, WorkerCrash, StartTemporal,
                StartTemporalFails, RecordTemporalStart, Die
  <1>6. \A x \in RunIds : x # r => runs'[x] = runs[x]
    BY <1>1, <1>3
       DEF WorkerStep, TemporalWorkerStep, MarkRunning, AppendStarted, AddReviewItem,
           MarkPaused, MarkBlocked, BeginExecution, FinishExecution, FailExecution,
           AppendClosing, RunnerFactoryRaises, WorkerCrash, StartTemporal,
           StartTemporalFails, RecordTemporalStart, Die, UpdateRun, storeVars
  <1>7. \A x \in RunIds : Exists(x) => Exists(x)'
    <2>1. CASE WorkerStep(w) \/ TemporalWorkerStep(w)
      <3>1. \A x \in RunIds : RowWritten(x)
        BY <2>1, WorkerRowWrites
      <3> QED BY <3>1 DEF RowWritten, Requeued, Stamped, Exists, RunStatus,
                          ACTIVE_RUN_STATUSES, TERMINAL_RUN_STATUSES, WorkerWrites,
                          CreateInsert
    <2>2. CASE WorkerCrash(w)
      BY <2>2 DEF WorkerCrash, Die, storeVars, Exists
    <2> QED BY <2>1, <2>2
  <1> QED BY <1>3, <1>4, <1>5, <1>6, <1>7 DEF WorksOn

\* A claim takes the token out of the queue.
LEMMA ClaimPlaces ==
    ASSUME Placed, NEW w \in Workers, Claim(w), request' = request
    PROVE  \E r \in RunIds : Moves(r, "queue", "worker")
  <1>1. runs \in [RunIds -> Run] /\ worker \in [Workers -> WorkerState]
    BY DEF Placed, TypeOK, StoreTypeOK, WorkerTypeOK
  <1>2. PICK r \in RunIds :
          /\ Queued(r)
          /\ UpdateRun(r, [runs[r] EXCEPT !.status = "RUNNING"])
          /\ worker' = [worker EXCEPT ![w] =
               [pc |-> "claimed", run |-> r, approved |-> runs[r].approved,
                hook |-> NoHook]]
    BY DEF Claim, IsOldest, QueuedRuns, Queued
  <1>3. /\ \A y \in Workers : y # w => worker'[y] = worker[y]
        /\ worker'[w].pc = "claimed" /\ worker'[w].run = r /\ worker[w].pc = "idle"
    BY <1>1, <1>2 DEF Claim
  <1>4. \A x \in RunIds : x # r => runs'[x] = runs[x]
    BY <1>1, <1>2 DEF UpdateRun
  <1>5. reviews' = reviews
    BY DEF Claim
  <1>6. ASSUME NEW x \in RunIds, x # r
        PROVE  PlaceOf(x)' = PlaceOf(x)
    <2>1. (Exists(x)' <=> Exists(x)) /\ (Queued(x)' <=> Queued(x))
      BY <1>4, <1>6 DEF Exists, Queued
    <2>2. ASSUME NEW y \in Workers
          PROVE  (Holds(y, x)' <=> Holds(y, x)) /\ (Executes(y, x)' <=> Executes(y, x))
      <3>1. CASE y # w
        BY <1>3, <3>1 DEF Holds, Working, Executes
      <3>2. CASE y = w
        BY <1>3, <1>6, <3>2 DEF Holds, Working, Executes
      <3> QED BY <3>1, <3>2
    <2>3. \A v \in ReviewIds : Awaits(v, x)' <=> Awaits(v, x)
      BY <1>5 DEF Awaits, OpenReview
    <2> QED BY <2>1, <2>2, <2>3, PlaceSame DEF TokensSame
  <1>7. PlaceOf(r) = "queue"
    BY <1>2, PlaceMeaning DEF Placed, PlacesTold
  <1>8. Holds(w, r)' /\ worker'[w].pc # "executing"
    BY <1>3 DEF Holds, Working
  <1>9. PlaceOf(r)' = "worker"
    BY <1>8, PlaceMeaningNext DEF Placed, PlacesTold
  <1> QED BY <1>6, <1>7, <1>9 DEF Moves

\* The review item takes it over from the worker.
LEMMA AddReviewItemPlaces ==
    ASSUME Placed, NEW w \in Workers, AddReviewItem(w), request' = request,
           NEW r \in RunIds, WorksOn(w, r)
    PROVE  Moves(r, "worker", "reviewer")
  <1>1. reviews \in [ReviewIds -> Review] /\ worker \in [Workers -> WorkerState]
    BY DEF Placed, TypeOK, StoreTypeOK, WorkerTypeOK
  <1>2. PICK v \in ReviewIds :
          /\ reviews[v].status = "ABSENT"
          /\ reviews' = [reviews EXCEPT ![v] =
               [status |-> "PENDING", run |-> worker[w].run, hook |-> worker[w].hook]]
    BY DEF AddReviewItem, IsNextReview, IsOldest
  <1>3. /\ reviews'[v].status = "PENDING" /\ reviews'[v].run = r
        /\ \A u \in ReviewIds : u # v => reviews'[u] = reviews[u]
    BY <1>1, <1>2 DEF WorksOn
  <1>4. ASSUME NEW x \in RunIds, x # r
        PROVE  PlaceOf(x)' = PlaceOf(x)
    <2>1. (Exists(x)' <=> Exists(x)) /\ (Queued(x)' <=> Queued(x))
      BY <1>4 DEF WorksOn, Exists, Queued
    <2>2. ASSUME NEW y \in Workers
          PROVE  (Holds(y, x)' <=> Holds(y, x)) /\ (Executes(y, x)' <=> Executes(y, x))
      <3>1. CASE y # w
        BY <3>1 DEF WorksOn, Holds, Working, Executes
      <3>2. CASE y = w
        BY <1>4, <3>2 DEF WorksOn, Holds, Working, Executes, Idle
      <3> QED BY <3>1, <3>2
    <2>3. ASSUME NEW u \in ReviewIds
          PROVE  Awaits(u, x)' <=> Awaits(u, x)
      <3>1. CASE u # v
        BY <1>3, <3>1 DEF Awaits, OpenReview
      <3>2. CASE u = v
        <4>1. ~Awaits(v, x)
          BY <1>2, TokenHasRun DEF Placed
        <4> QED BY <1>3, <1>4, <3>2, <4>1 DEF Awaits
      <3> QED BY <3>1, <3>2
    <2> QED BY <2>1, <2>2, <2>3, PlaceSame DEF TokensSame
  <1>5. Holds(w, r) /\ worker[w].pc # "executing"
    BY DEF AddReviewItem, Holds, Working, WorksOn
  <1>6. PlaceOf(r) = "worker"
    BY <1>5, PlaceMeaning DEF Placed, PlacesTold
  <1>7. Awaits(v, r)'
    BY <1>3 DEF Awaits, OpenReview
  <1>8. PlaceOf(r)' = "reviewer"
    BY <1>7, PlaceMeaningNext DEF Placed, PlacesTold
  <1> QED BY <1>4, <1>6, <1>8 DEF Moves

\* Where each step of a worker leaves the token.
LEMMA WorkerPlaces ==
    ASSUME Placed, NEW w \in Workers, request' = request,
           \/ WorkerStep(w) /\ UNCHANGED temporal
           \/ TemporalWorkerStep(w) \/ WorkerCrash(w)
    PROVE  LifeStep
  <1>1. runs \in [RunIds -> Run] /\ worker \in [Workers -> WorkerState]
    BY DEF Placed, TypeOK, StoreTypeOK, WorkerTypeOK
  <1>2. {"RUNNING", "COMPLETED", "FAILED", "BLOCKED", "REVIEW"} \subseteq RunStatus \ {"QUEUED"}
        /\ {"ALLOW", "REVIEW", "BLOCK", "DENY"} \subseteq Decisions
    BY DEF RunStatus, ACTIVE_RUN_STATUSES, TERMINAL_RUN_STATUSES, Decisions
  <1>3. CASE Claim(w)
    BY <1>3, ClaimPlaces DEF LifeStep, Transfers, Quiet, Claim
  <1>4. CASE ~Claim(w)
    <2>1. PICK r \in RunIds : WorksOn(w, r) /\ Exists(r)
      BY <1>4, WorkerWorks DEF Placed
    <2>2. worker[w].run = r
      BY <2>1 DEF WorksOn
    <2>3. CASE MarkRunning(w)
      <3>1. worker'[w].pc = "started" /\ worker'[w].run = r
        BY <1>1, <2>2, <2>3, GotoEffect DEF MarkRunning
      <3>2. Holds(w, r) /\ Holds(w, r)' /\ worker[w].pc # "executing"
        BY <2>2, <2>3, <3>1 DEF MarkRunning, Holds, Working
      <3>3. Stays
        BY <2>1, <2>3, <3>1, <3>2, HolderKeeps DEF MarkRunning
      <3> QED BY <2>3, <3>3 DEF LifeStep, Quiet, MarkRunning
    <2>4. CASE AppendStarted(w)
      <3>1. PICK h : worker' = [worker EXCEPT ![w].hook = h, ![w].pc = AfterHook(h)]
        BY <2>4 DEF AppendStarted
      <3>2. worker'[w].pc \in {"run", "block", "review"} /\ worker'[w].run = r
        BY <1>1, <2>2, <3>1 DEF WorkerState, AfterHook
      <3>3. Holds(w, r) /\ Holds(w, r)' /\ worker[w].pc # "executing"
        BY <2>2, <2>4, <3>2 DEF AppendStarted, Holds, Working
      <3>4. Stays
        BY <2>1, <2>4, <3>2, <3>3, HolderKeeps DEF AppendStarted
      <3> QED BY <2>4, <3>4 DEF LifeStep, Quiet, AppendStarted
    <2>5. CASE AddReviewItem(w)
      BY <2>1, <2>5, AddReviewItemPlaces DEF LifeStep, Transfers, Quiet, AddReviewItem
    <2>6. ASSUME ~Working(w), ~Working(w)', ~Queued(r)' \/ runs' = runs, UNCHANGED starts,
                 reviews' = reviews
          PROVE  LifeStep
      <3>1. CASE ~Queued(r)'
        BY <2>1, <2>6, <3>1, BystanderWrites DEF LifeStep, Transfers, Quiet
      <3>2. CASE runs' = runs
        <4>1. Queued(r)' <=> Queued(r)
          BY <3>2 DEF Queued
        <4>2. PlaceOf(r)' = PlaceOf(r)
          BY <2>1, <2>6, <4>1, BystanderSame, PlaceSame
        <4>3. Stays
          BY <2>1, <2>6, <4>2, OthersKept DEF Stays
        <4> QED BY <2>6, <4>3 DEF LifeStep, Quiet
      <3> QED BY <2>6, <3>1, <3>2
    <2>7. CASE MarkPaused(w)
      <3>1. ~Working(w) /\ ~Working(w)'
        BY <1>1, <2>7, GotoEffect DEF MarkPaused, Working
      <3>2. ~Queued(r)'
        BY <1>1, <1>2, <2>2, <2>7, OutcomeWriteEffect DEF MarkPaused, Queued
      <3> QED BY <2>6, <2>7, <3>1, <3>2 DEF MarkPaused
    <2>8. CASE RecordTemporalStart(w)
      <3>1. ~Working(w) /\ ~Working(w)'
        BY <1>1, <2>8, GotoEffect DEF RecordTemporalStart, Working
      <3>2. ~Queued(r)'
        BY <1>1, <1>2, <2>2, <2>8, StatusWriteEffect DEF RecordTemporalStart, Queued
      <3> QED BY <2>6, <2>8, <3>1, <3>2 DEF RecordTemporalStart
    <2>9. CASE AppendClosing(w)
      <3>1. ~Working(w) /\ ~Working(w)'
        BY <1>1, <2>9, RestEffect DEF AppendClosing, ClosingEvent, Working, Idle
      <3> QED BY <2>6, <2>9, <3>1 DEF AppendClosing
    <2>10. ASSUME Holds(w, r), ~Working(w)', runs' = runs \/ ~Queued(r)', Quiet,
                  reviews' = reviews
           PROVE  LifeStep
      <3>1. Moves(r, IF worker[w].pc = "executing" THEN "agents" ELSE "worker", "over")
        BY <2>1, <2>10, HolderDrops
      <3> QED BY <2>10, <3>1 DEF LifeStep, Transfers
    <2>11. CASE MarkBlocked(w)
      <3>1. Holds(w, r) /\ ~Working(w)'
        BY <1>1, <2>2, <2>11, GotoEffect DEF MarkBlocked, Holds, Working
      <3>2. ~Queued(r)'
        BY <1>1, <1>2, <2>2, <2>11, OutcomeWriteEffect DEF MarkBlocked, Queued
      <3> QED BY <2>10, <2>11, <3>1, <3>2 DEF MarkBlocked, Quiet
    <2>12. CASE FinishExecution(w)
      <3>1. Holds(w, r) /\ ~Working(w)'
        BY <1>1, <2>2, <2>12, GotoEffect DEF FinishExecution, Holds, Working
      <3>2. ~Queued(r)'
        BY <1>1, <1>2, <2>2, <2>12, OutcomeWriteEffect DEF FinishExecution, Queued
      <3> QED BY <2>10, <2>12, <3>1, <3>2 DEF FinishExecution, Quiet
    <2>13. CASE FailExecution(w)
      <3>1. Holds(w, r) /\ ~Working(w)'
        BY <1>1, <2>2, <2>13, GotoEffect DEF FailExecution, Holds, Working
      <3>2. ~Queued(r)'
        BY <1>1, <1>2, <2>2, <2>13, StatusWriteEffect DEF FailExecution, Queued
      <3> QED BY <2>10, <2>13, <3>1, <3>2 DEF FailExecution, Quiet
    <2>14. CASE StartTemporalFails(w)
      <3>1. Holds(w, r) /\ ~Working(w)'
        BY <1>1, <2>2, <2>14, GotoEffect DEF StartTemporalFails, Holds, Working
      <3>2. ~Queued(r)'
        BY <1>1, <1>2, <2>2, <2>14, StatusWriteEffect DEF StartTemporalFails, Queued
      <3> QED BY <2>10, <2>14, <3>1, <3>2 DEF StartTemporalFails, Quiet
    <2>15. CASE StartTemporal(w)
      <3>1. Holds(w, r) /\ ~Working(w)'
        BY <1>1, <2>2, <2>15, GotoEffect DEF StartTemporal, Holds, Working
      <3> QED BY <2>10, <2>15, <3>1 DEF StartTemporal, Quiet, storeVars
    <2>16. CASE BeginExecution(w)
      <3>1. worker'[w].pc = "executing" /\ worker'[w].run = r
        BY <1>1, <2>2, <2>16, GotoEffect DEF BeginExecution
      <3>2. Holds(w, r) /\ Holds(w, r)' /\ worker[w].pc # "executing"
        BY <2>2, <2>16, <3>1 DEF BeginExecution, Holds, Working
      <3>3. Moves(r, "worker", "agents")
        BY <2>1, <2>16, <3>1, <3>2, HolderKeeps DEF BeginExecution, storeVars
      <3> QED BY <2>2, <2>16, <3>3 DEF LifeStep, Spends, BeginExecution
    <2>17. ASSUME Die(w)
           PROVE  LifeStep
      <3>1. runs' = runs /\ reviews' = reviews /\ starts' = starts /\ ~Working(w)'
        BY <1>1, <2>17, RestEffect DEF Die, storeVars, Working, Idle
      <3>2. CASE Working(w)
        BY <2>2, <2>10, <3>1, <3>2 DEF Holds, Quiet
      <3>3. CASE ~Working(w)
        BY <2>6, <3>1, <3>3
      <3> QED BY <3>2, <3>3
    <2>18. CASE RunnerFactoryRaises(w) \/ WorkerCrash(w)
      BY <2>17, <2>18 DEF RunnerFactoryRaises, WorkerCrash
    <2> QED BY <1>4, <2>3, <2>4, <2>5, <2>7, <2>8, <2>9, <2>11, <2>12, <2>13, <2>14, <2>15,
               <2>16, <2>18 DEF WorkerStep, TemporalWorkerStep
  <1> QED BY <1>3, <1>4

-----------------------------------------------------------------------------
\* The moves of callers, reviewers and workflows

\* Without a worker step or a verdict, only the status of the rows counts.
LEMMA StatusesPlace ==
    ASSUME worker' = worker, reviews' = reviews, request' = request,
           NEW x \in RunIds, runs'[x].status = runs[x].status
    PROVE  PlaceOf(x)' = PlaceOf(x)
  <1>1. (Exists(x)' <=> Exists(x)) /\ (Queued(x)' <=> Queued(x))
    BY DEF Exists, Queued
  <1>2. \A w \in Workers : (Holds(w, x)' <=> Holds(w, x)) /\ (Executes(w, x)' <=> Executes(w, x))
    BY DEF Holds, Working, Executes
  <1>3. \A v \in ReviewIds : Awaits(v, x)' <=> Awaits(v, x)
    BY DEF Awaits, OpenReview
  <1> QED BY <1>1, <1>2, <1>3, PlaceSame DEF TokensSame

\* A submission puts a new token in the queue.
LEMMA ClientPlaces ==
    ASSUME Placed, NEW c \in Clients, ClientAct(c)
    PROVE  LifeStep
  <1>1. /\ runs \in [RunIds -> Run]
        /\ worker' = worker /\ request' = request /\ starts' = starts
    BY DEF Placed, TypeOK, StoreTypeOK, ClientAct, workerVars
  <1>2. CASE CreateInsert(c)
    <2>1. PICK r \in RunIds :
            ~Exists(r) /\ UpdateRun(r, QueuedRow(client[c].key, client[c].matching))
      BY <1>2 DEF CreateInsert, IsNextRun, IsOldest
    <2>2. reviews' = reviews
      BY <1>2 DEF CreateInsert
    <2>3. \A x \in RunIds : x # r => runs'[x] = runs[x]
      BY <1>1, <2>1 DEF UpdateRun
    <2>4. Queued(r)'
      BY <1>1, <2>1 DEF UpdateRun, QueuedRow, Queued
    <2>5. \A x \in RunIds : x # r => PlaceOf(x)' = PlaceOf(x)
      BY <1>1, <2>2, <2>3, StatusesPlace
    <2>6. PlaceOf(r) = "none"
      BY <2>1, PlaceMeaning DEF Placed, PlacesTold
    <2>7. PlaceOf(r)' = "queue"
      BY <2>4, PlaceMeaningNext DEF Placed, PlacesTold
    <2>8. Moves(r, "none", "queue")
      BY <2>5, <2>6, <2>7 DEF Moves
    <2> QED BY <1>1, <2>8 DEF LifeStep, Transfers, Quiet
  <1>3. CASE ~CreateInsert(c)
    <2>1. runs' = runs /\ reviews' = reviews
      BY <1>3 DEF ClientAct, Submit, DispatchStep, CreateLookup, CreateConflict, storeVars
    <2>2. Stays
      BY <1>1, <2>1, StatusesPlace DEF Stays
    <2> QED BY <1>1, <2>2 DEF LifeStep, Quiet
  <1> QED BY <1>2, <1>3

\* The one review item that the request q is about, and the verdict it brings.
Reaches(q, v) ==
    /\ request'[q].review = v
    /\ reviews'[v].run = reviews[v].run
    /\ \A p \in Requests : p # q => request'[p] = request[p] /\ request[p].review # v
    /\ \A u \in ReviewIds : u # v => reviews'[u] = reviews[u] /\ request[q].review # u

\* A step of a request reaches one item, and only that item.
LEMMA RequestReaches ==
    ASSUME SingleResolution, TypeOK, ReferencesExist, OneRequestPerReview, NEW q \in Requests,
           Resolve(q) \/ ReviewStep(q) \/ RequestLost(q)
    PROVE  \E v \in ReviewIds : Reaches(q, v) /\ reviews[v].status # "ABSENT"
  <1>1. reviews \in [ReviewIds -> Review] /\ request \in [Requests -> RequestState]
    BY DEF TypeOK, StoreTypeOK, ReviewTypeOK
  <1>2. NoReview \notin ReviewIds
    BY StoreAssumption DEF NoReview, ReviewIds
  <1>3. CASE Resolve(q)
    <2>1. PICK v \in ReviewIds, verdict \in {"APPROVED", "DENIED"} :
            /\ reviews[v].status # "ABSENT"
            /\ \A p \in Requests : request[p].review # v
            /\ reviews' = [reviews EXCEPT ![v].status = verdict]
            /\ request' = [request EXCEPT ![q].pc = "read", ![q].review = v,
                                          ![q].verdict = verdict]
      BY <1>3 DEF Resolve, MayResolve
    <2>2. \A u \in ReviewIds : u # v => reviews'[u] = reviews[u]
      BY <1>1, <2>1
    <2>3. reviews'[v].run = reviews[v].run
      BY <1>1, <2>1 DEF Review
    <2>4. request'[q].review = v /\ \A p \in Requests : p # q => request'[p] = request[p]
      BY <1>1, <2>1 DEF RequestState
    <2>5. request[q].review = NoReview
      BY <1>3 DEF Resolve, OneRequestPerReview
    <2> QED BY <1>2, <2>1, <2>2, <2>3, <2>4, <2>5 DEF Reaches
  <1>4. CASE ReviewStep(q) \/ RequestLost(q)
    <2>1. request[q].pc # "idle" /\ reviews' = reviews
      BY <1>4 DEF ReviewStep, ReadRun, ApproveRun, DenyRun, AppendVerdict, RequestLost, storeVars
    <2>2. PICK v \in ReviewIds : request[q].review = v /\ reviews[v].status # "ABSENT"
      BY <2>1 DEF ReferencesExist
    <2>3. request'[q].review = v /\ \A p \in Requests : p # q => request'[p] = request[p]
      <3>1. CASE ReadRun(q)
        BY <1>1, <2>2, <3>1 DEF ReadRun, RequestState
      <3>2. CASE ~ReadRun(q)
        <4>1. \E pc \in {"event", "done", "lost"} : request' = [request EXCEPT ![q].pc = pc]
          BY <1>4, <3>2 DEF ReviewStep, ApproveRun, DenyRun, AppendVerdict, RequestLost
        <4> QED BY <1>1, <2>2, <4>1 DEF RequestState
      <3> QED BY <3>1, <3>2
    <2>4. \A p \in Requests : p # q => request[p].review # v
      BY <1>2, <2>2 DEF OneRequestPerReview
    <2> QED BY <2>1, <2>2, <2>3, <2>4 DEF Reaches
  <1> QED BY <1>3, <1>4

\* The other items wait for what they waited for.
LEMMA OthersWait ==
    ASSUME NEW q \in Requests, NEW v \in ReviewIds, Reaches(q, v)
    PROVE  /\ \A u \in ReviewIds, x \in RunIds : u # v => (Awaits(u, x)' <=> Awaits(u, x))
           /\ OpenReview(v)' <=>
                \/ reviews'[v].status = "PENDING"
                \/ request'[q].verdict = "APPROVED" /\ request'[q].pc \in {"read", "write"}
           /\ \A x \in RunIds : Awaits(v, x) <=> reviews[v].run = x /\ OpenReview(v)
           /\ \A x \in RunIds : Awaits(v, x)' <=> reviews[v].run = x /\ OpenReview(v)'
  <1>1. ASSUME NEW u \in ReviewIds, NEW x \in RunIds, u # v
        PROVE  Awaits(u, x)' <=> Awaits(u, x)
    <2>1. reviews'[u] = reviews[u] /\ request[q].review # u /\ request'[q].review # u
      BY <1>1 DEF Reaches
    <2>2. \A p \in Requests : p # q => request'[p] = request[p]
      BY DEF Reaches
    <2> QED BY <2>1, <2>2 DEF Awaits, OpenReview
  <1>2. OpenReview(v)' <=>
          \/ reviews'[v].status = "PENDING"
          \/ request'[q].verdict = "APPROVED" /\ request'[q].pc \in {"read", "write"}
    BY DEF Reaches, OpenReview
  <1>3. /\ \A x \in RunIds : Awaits(v, x) <=> reviews[v].run = x /\ OpenReview(v)
        /\ \A x \in RunIds : Awaits(v, x)' <=> reviews[v].run = x /\ OpenReview(v)'
    BY DEF Awaits, Reaches
  <1> QED BY <1>1, <1>2, <1>3

\* A request that leaves the rows and the openness of its item alone ...
LEMMA RequestKeeps ==
    ASSUME NEW q \in Requests, NEW v \in ReviewIds, Reaches(q, v), worker' = worker,
           OpenReview(v)' <=> OpenReview(v),
           NEW x \in RunIds, Queued(x)' <=> Queued(x), Exists(x)' <=> Exists(x)
    PROVE  PlaceOf(x)' = PlaceOf(x)
  <1>1. \A w \in Workers : (Holds(w, x)' <=> Holds(w, x)) /\ (Executes(w, x)' <=> Executes(w, x))
    BY DEF Holds, Working, Executes
  <1>2. ASSUME NEW u \in ReviewIds
        PROVE  Awaits(u, x)' <=> Awaits(u, x)
    <2>1. CASE u # v
      BY <2>1, OthersWait
    <2>2. CASE u = v
      BY <2>2, OthersWait
    <2> QED BY <2>1, <2>2
  <1> QED BY <1>1, <1>2, PlaceSame DEF TokensSame

\* ... and one that decides it takes the token from the reviewer.
LEMMA RequestDecides ==
    ASSUME Placed, NEW q \in Requests, NEW v \in ReviewIds, Reaches(q, v), worker' = worker,
           reviews[v].status # "ABSENT", OpenReview(v), ~OpenReview(v)',
           NEW r, r = reviews[v].run,
           \A x \in RunIds : x # r => runs'[x].status = runs[x].status,
           Exists(r)'
    PROVE  /\ Queued(r)' => Moves(r, "reviewer", "queue")
           /\ ~Queued(r)' => Moves(r, "reviewer", "over")
  <1>1. r \in RunIds /\ Awaits(v, r)
    BY DEF Placed, ReferencesExist, Awaits
  <1>2. PlaceOf(r) = "reviewer"
    BY <1>1, PlaceMeaning DEF Placed, PlacesTold
  <1>3. ASSUME NEW x \in RunIds, x # r
        PROVE  PlaceOf(x)' = PlaceOf(x)
    <2>1. (Exists(x)' <=> Exists(x)) /\ (Queued(x)' <=> Queued(x))
      BY <1>3 DEF Exists, Queued
    <2>2. \A w \in Workers : (Holds(w, x)' <=> Holds(w, x)) /\ (Executes(w, x)' <=> Executes(w, x))
      BY DEF Holds, Working, Executes
    <2>3. ASSUME NEW u \in ReviewIds
          PROVE  Awaits(u, x)' <=> Awaits(u, x)
      <3>1. CASE u # v
        BY <3>1, OthersWait
      <3>2. CASE u = v
        BY <1>3, <3>2, OthersWait
      <3> QED BY <3>1, <3>2
    <2> QED BY <2>1, <2>2, <2>3, PlaceSame DEF TokensSame
  <1>4. CASE Queued(r)'
    <2>1. PlaceOf(r)' = "queue"
      BY <1>1, <1>4, PlaceMeaningNext DEF Placed, PlacesTold
    <2> QED BY <1>1, <1>2, <1>3, <1>4, <2>1 DEF Moves
  <1>5. CASE ~Queued(r)'
    <2>1. \A w \in Workers : ~Holds(w, r)'
      BY <1>1 DEF Placed, TokenIsUnique, Holds, Working
    <2>2. ASSUME NEW u \in ReviewIds
          PROVE  ~Awaits(u, r)'
      <3>1. CASE u # v
        <4>1. ~Awaits(u, r)
          BY <1>1, <3>1 DEF Placed, TokenIsUnique
        <4> QED BY <1>1, <3>1, <4>1, OthersWait
      <3>2. CASE u = v
        BY <3>2 DEF Awaits
      <3> QED BY <3>1, <3>2
    <2>3. NoToken(r)'
      BY <1>5, <2>1, <2>2 DEF NoToken
    <2>4. PlaceOf(r)' = "over"
      BY <1>1, <2>3, PlaceMeaningNext DEF Placed, PlacesTold
    <2> QED BY <1>1, <1>2, <1>3, <1>5, <2>4 DEF Moves
  <1> QED BY <1>4, <1>5

\* Where each step of a resolve request leaves the token.
LEMMA RequestPlaces ==
    ASSUME SingleResolution, Placed, OneRequestPerReview, NEW q \in Requests,
           Resolve(q) \/ ReviewStep(q) \/ RequestLost(q), UNCHANGED workerVars
    PROVE  LifeStep
  <1>1. /\ runs \in [RunIds -> Run] /\ reviews \in [ReviewIds -> Review]
        /\ request \in [Requests -> RequestState]
    BY DEF Placed, TypeOK, StoreTypeOK, ReviewTypeOK
  <1>2. worker' = worker /\ starts' = starts
    BY DEF workerVars
  <1>3. PICK v \in ReviewIds : Reaches(q, v) /\ reviews[v].status # "ABSENT"
    BY RequestReaches DEF Placed
  <1>4. PICK r \in RunIds : r = reviews[v].run /\ Exists(r)
    BY <1>3 DEF Placed, ReferencesExist
  <1>5. Quiet
    BY <1>2 DEF Quiet
  <1>6. OpenReview(v)' <=>
          \/ reviews'[v].status = "PENDING"
          \/ request'[q].verdict = "APPROVED" /\ request'[q].pc \in {"read", "write"}
    BY <1>3, OthersWait
  <1>7. OpenReview(v) <=>
          \/ reviews[v].status = "PENDING"
          \/ /\ request[q].review = v
             /\ request[q].verdict = "APPROVED" /\ request[q].pc \in {"read", "write"}
    BY <1>3 DEF OpenReview, Reaches
  <1>8. ASSUME OpenReview(v)' <=> OpenReview(v), runs' = runs
        PROVE  LifeStep
    <2>1. ASSUME NEW x \in RunIds
          PROVE  PlaceOf(x)' = PlaceOf(x)
      <3>1. (Queued(x)' <=> Queued(x)) /\ (Exists(x)' <=> Exists(x))
        BY <1>8 DEF Queued, Exists
      <3> QED BY <1>2, <1>3, <1>8, <3>1, RequestKeeps
    <2> QED BY <1>5, <2>1 DEF LifeStep, Stays
  <1>9. ASSUME OpenReview(v), ~OpenReview(v)', runs' = runs
        PROVE  LifeStep
    <2>1. (\A x \in RunIds : x # r => runs'[x].status = runs[x].status) /\ Exists(r)'
      BY <1>4, <1>9 DEF Exists
    <2>2. Moves(r, "reviewer", "queue") \/ Moves(r, "reviewer", "over")
      BY <1>2, <1>3, <1>4, <1>9, <2>1, RequestDecides
    <2> QED BY <1>4, <1>5, <2>2 DEF LifeStep, Transfers
  <1>10. request[q].review \in {v, NoReview} /\ v # NoReview
    BY <1>1, <1>3, StoreAssumption DEF Reaches, RequestState, ReviewIds, NoReview
  <1>11. CASE Resolve(q)
    <2>1. PICK u \in ReviewIds, verdict \in {"APPROVED", "DENIED"} :
            /\ reviews[u].status # "ABSENT"
            /\ \A p \in Requests : request[p].review # u
            /\ reviews' = [reviews EXCEPT ![u].status = verdict]
            /\ request' = [request EXCEPT ![q].pc = "read", ![q].review = u,
                                          ![q].verdict = verdict]
      BY <1>11 DEF Resolve, MayResolve
    <2>2. request'[q].review = u /\ request'[q].pc = "read" /\ request'[q].verdict = verdict
      BY <1>1, <2>1 DEF RequestState
    <2>3. u = v
      BY <1>3, <2>2 DEF Reaches
    <2>4. reviews[v].status = "PENDING"
      BY <1>1, <2>1, <2>3 DEF Placed, OneRequestPerReview, Review
    <2>5. reviews'[v].status = verdict
      BY <1>1, <2>1, <2>3 DEF Review
    <2>6. OpenReview(v) /\ (OpenReview(v)' <=> verdict = "APPROVED")
      BY <1>6, <1>7, <2>2, <2>4, <2>5
    <2> QED BY <1>8, <1>9, <1>11, <2>6 DEF Resolve
  <1>12. CASE ~Resolve(q)
    <2>1. request[q].pc # "idle" /\ reviews' = reviews
      BY <1>12 DEF ReviewStep, ReadRun, ApproveRun, DenyRun, AppendVerdict, RequestLost, storeVars
    <2>2. request[q].review = v /\ reviews[v].status # "PENDING" /\ RunOf(q) = r
      BY <1>4, <1>10, <2>1, StoreAssumption DEF NoReview, ReviewIds, Placed, ReferencesExist, RunOf
    <2>3. CASE ReadRun(q)
      <3>1. /\ request'[q].verdict = request[q].verdict
            /\ request'[q].pc = "write" /\ request[q].pc = "read"
        BY <1>1, <2>3 DEF ReadRun, RequestState
      <3> QED BY <1>6, <1>7, <1>8, <2>1, <2>2, <2>3, <3>1 DEF ReadRun, storeVars
    <2>4. ASSUME NEW pc \in {"event", "done", "lost"}, request' = [request EXCEPT ![q].pc = pc]
          PROVE  /\ ~OpenReview(v)'
                 /\ OpenReview(v) <=>
                      request[q].verdict = "APPROVED" /\ request[q].pc \in {"read", "write"}
      <3>1. request'[q].pc = pc
        BY <1>1, <2>4 DEF RequestState
      <3> QED BY <1>6, <1>7, <2>1, <2>2, <3>1
    <2>5. CASE AppendVerdict(q)
      BY <1>8, <2>4, <2>5 DEF AppendVerdict
    <2>6. CASE RequestLost(q)
      BY <1>8, <1>9, <2>4, <2>6 DEF RequestLost, storeVars
    <2>7. CASE ApproveRun(q)
      <3>1. runs' = [runs EXCEPT ![r] =
              [runs[r] EXCEPT !.status = "QUEUED", !.decision = "NONE",
                 !.completed = FALSE, !.approved = request[q].approved \cup {HookOf(q)}]]
        BY <2>2, <2>7 DEF ApproveRun, UpdateRun
      <3>2. /\ \A x \in RunIds : x # r => runs'[x].status = runs[x].status
            /\ Queued(r)' /\ Exists(r)'
        BY <1>1, <3>1 DEF Run, Queued, Exists
      <3>3. OpenReview(v) /\ ~OpenReview(v)'
        BY <2>4, <2>7 DEF ApproveRun
      <3>4. Moves(r, "reviewer", "queue")
        BY <1>2, <1>3, <1>4, <3>2, <3>3, RequestDecides
      <3> QED BY <1>5, <3>2, <3>4 DEF LifeStep, Transfers
    <2>8. CASE DenyRun(q)
      <3>1. "BLOCKED" \in RunStatus \ {"QUEUED"} /\ "DENY" \in Decisions
        BY DEF RunStatus, TERMINAL_RUN_STATUSES, Decisions
      <3>2. \A x \in RunIds : runs'[x].status = IF x = r THEN "BLOCKED" ELSE runs[x].status
        BY <1>1, <2>2, <2>8, <3>1, OutcomeWriteEffect DEF DenyRun
      <3>3. ~OpenReview(v)' /\ ~OpenReview(v)
        BY <2>4, <2>8 DEF DenyRun
      <3>4. ASSUME NEW x \in RunIds, x # r \/ ~Queued(r)
            PROVE  PlaceOf(x)' = PlaceOf(x)
        <4>1. (Queued(x)' <=> Queued(x)) /\ (Exists(x)' <=> Exists(x))
          BY <1>4, <3>2, <3>4 DEF Queued, Exists
        <4> QED BY <1>2, <1>3, <3>3, <4>1, RequestKeeps
      <3>5. CASE ~Queued(r)
        BY <1>5, <3>4, <3>5 DEF LifeStep, Stays
      <3>6. CASE Queued(r)
        <4>1. PlaceOf(r) = "queue"
          BY <3>6, PlaceMeaning DEF Placed, PlacesTold
        <4>2. \A w \in Workers : ~Holds(w, r)'
          BY <1>2, <3>6 DEF Placed, TokenIsUnique, Holds, Working
        <4>3. ASSUME NEW u \in ReviewIds
              PROVE  ~Awaits(u, r)'
          <5>1. ~Awaits(u, r)
            BY <3>6 DEF Placed, TokenIsUnique
          <5>2. CASE u # v
            BY <1>3, <5>1, <5>2, OthersWait
          <5>3. CASE u = v
            BY <3>3, <5>3 DEF Awaits
          <5> QED BY <5>2, <5>3
        <4>4. NoToken(r)' /\ Exists(r)'
          BY <3>2, <4>2, <4>3 DEF NoToken, Queued, Exists
        <4>5. PlaceOf(r)' = "over"
          BY <4>4, PlaceMeaningNext DEF Placed, PlacesTold
        <4>6. Moves(r, "queue", "over")
          BY <3>4, <4>1, <4>5 DEF Moves
        <4> QED BY <1>5, <4>6 DEF LifeStep, Transfers
      <3> QED BY <3>5, <3>6
    <2> QED BY <1>12, <2>3, <2>5, <2>6, <2>7, <2>8 DEF ReviewStep
  <1> QED BY <1>11, <1>12

\* A workflow has a run whose token is spent.
LEMMA TemporalPlaces ==
    ASSUME Placed, UnusedTokenIsFresh, UsedOnce, NEW r \in RunIds, TemporalAct(r)
    PROVE  LifeStep
  <1>1. /\ runs \in [RunIds -> Run] /\ temporal \in [RunIds -> TemporalState]
    BY DEF Placed, TypeOK, StoreTypeOK, TemporalTypeOK
  <1>2. temporal[r] # NoWorkflow
    BY DEF TemporalAct, TemporalStep, ExecuteAgentNode, RetryAgentNode, AgentNodeDone,
           ReviewDecided, CompleteRuntimeRun, Signal, Open, NoWorkflow
  <1>3. Quiet
    BY <1>2 DEF UsedOnce, Quiet
  <1>4. worker' = worker /\ reviews' = reviews /\ request' = request
    BY DEF TemporalAct, TemporalStep, ExecuteAgentNode, RetryAgentNode, AgentNodeDone,
           ReviewDecided, CompleteRuntimeRun, Signal, storeVars, workerVars
  <1>5. ~Queued(r) /\ Exists(r)
    BY <1>2 DEF UnusedTokenIsFresh, Fresh
  <1>6. CASE CompleteRuntimeRun(r)
    <2>1. PICK s \in {"COMPLETED", "BLOCKED"} :
            UpdateRun(r, WithOutcome(runs[r], s, temporal[r].decision))
      BY <1>6 DEF CompleteRuntimeRun
    <2>2. s \in RunStatus \ {"QUEUED"} /\ temporal[r].decision \in Decisions
      BY <1>1 DEF TemporalState, RunStatus, TERMINAL_RUN_STATUSES
    <2>3. \A x \in RunIds : runs'[x].status = IF x = r THEN s ELSE runs[x].status
      BY <1>1, <2>1, <2>2, OutcomeWriteEffect
    <2>4. ASSUME NEW x \in RunIds
          PROVE  PlaceOf(x)' = PlaceOf(x)
      <3>1. (Exists(x)' <=> Exists(x)) /\ (Queued(x)' <=> Queued(x))
        BY <1>5, <2>3 DEF Exists, Queued
      <3>2. \A w \in Workers :
              (Holds(w, x)' <=> Holds(w, x)) /\ (Executes(w, x)' <=> Executes(w, x))
        BY <1>4 DEF Holds, Working, Executes
      <3>3. \A v \in ReviewIds : Awaits(v, x)' <=> Awaits(v, x)
        BY <1>4 DEF Awaits, OpenReview
      <3> QED BY <3>1, <3>2, <3>3, PlaceSame DEF TokensSame
    <2> QED BY <1>3, <2>4 DEF LifeStep, Stays
  <1>7. CASE ~CompleteRuntimeRun(r)
    <2>1. runs' = runs
      BY <1>7 DEF TemporalAct, TemporalStep, ExecuteAgentNode, RetryAgentNode, AgentNodeDone,
                  ReviewDecided, Signal, storeVars
    <2>2. Stays
      BY <1>4, <2>1, StatusesPlace DEF Stays
    <2> QED BY <1>3, <2>2 DEF LifeStep
  <1> QED BY <1>6, <1>7

\* Every step moves at most one token, and only along its way.
LEMMA LifeSteps ==
    ASSUME SingleResolution, TypeOK, TokenInvariant, TypeOK', TokenInvariant', [Next]_vars
    PROVE  LifeStep
  <1>1. Placed /\ OneRequestPerReview /\ UnusedTokenIsFresh /\ UsedOnce
    BY DEF Placed, TokenInvariant
  <1>2. CASE \E c \in Clients : ClientAct(c)
    BY <1>1, <1>2, ClientPlaces
  <1>3. CASE \E w \in Workers : WorkerAct(w)
    BY <1>1, <1>3, WorkerPlaces DEF WorkerAct
  <1>4. CASE \E r \in RunIds : TemporalAct(r)
    BY <1>1, <1>4, TemporalPlaces
  <1>5. CASE \E q \in Requests : RequestAct(q)
    BY <1>1, <1>5, RequestPlaces DEF RequestAct
  <1>6. CASE Crash
    BY <1>1, <1>6, WorkerPlaces, RequestPlaces DEF Crash
  <1>7. CASE UNCHANGED vars
    <2>1. worker' = worker /\ reviews' = reviews /\ request' = request /\ runs' = runs
          /\ starts' = starts
      BY <1>7 DEF vars
    <2>2. Stays
      BY <2>1, StatusesPlace DEF Stays
    <2> QED BY <2>1, <2>2 DEF LifeStep, Quiet
  <1> QED BY <1>2, <1>3, <1>4, <1>5, <1>6, <1>7 DEF Next

-----------------------------------------------------------------------------
\* Initially no run has a token ...
LEMMA InitLifecycle ==
    ASSUME Init
    PROVE  Lifecycle!Init
  <1>1. \A r \in RunIds : ~Exists(r)
    BY DEF Init, StoreInit, Exists, AbsentRun
  <1>2. \A r \in RunIds : PlaceOf(r) = "none"
    BY <1>1 DEF PlaceOf
  <1> QED BY <1>2 DEF Lifecycle!Init, Init, WorkerInit

\* ... and a step moves one token as RunLifecycle does, or none.
LEMMA StepLifecycle ==
    ASSUME RuntimeType # "temporal", LifeStep
    PROVE  [Lifecycle!Next]_<<[r \in RunIds |-> PlaceOf(r)], starts>>
  <1> DEFINE place == [r \in RunIds |-> PlaceOf(r)]
  <1>1. CASE Stays /\ Quiet
    BY <1>1 DEF Stays, Quiet
  <1>2. ASSUME NEW r \in RunIds, NEW from, NEW to, Moves(r, from, to)
        PROVE  place[r] = from /\ place' = [place EXCEPT ![r] = to]
    <2>1. place' = [x \in RunIds |-> PlaceOf(x)']
      OBVIOUS
    <2>2. \A x \in RunIds : PlaceOf(x)' = IF x = r THEN to ELSE PlaceOf(x)
      BY <1>2 DEF Moves
    <2> QED BY <1>2, <2>1, <2>2 DEF Moves
  <1> HIDE DEF place
  <1>3. ASSUME NEW r \in RunIds, Spends(r)
        PROVE  Lifecycle!Execute(r)
    BY <1>2, <1>3 DEF Spends, Lifecycle!Execute, Lifecycle!Move, place
  <1>4. ASSUME NEW r \in RunIds, Transfers(r), Quiet
        PROVE  \/ Lifecycle!Submit(r) \/ Lifecycle!Take(r) \/ Lifecycle!Park(r)
               \/ Lifecycle!Approve(r) \/ Lifecycle!Drop(r)
    <2>1. starts' = starts
      BY <1>4 DEF Quiet
    <2>2. CASE Moves(r, "none", "queue")
      BY <1>2, <2>1, <2>2 DEF Lifecycle!Submit, Lifecycle!Move, place
    <2>3. CASE Moves(r, "queue", "worker")
      BY <1>2, <2>1, <2>3 DEF Lifecycle!Take, Lifecycle!Move, place
    <2>4. CASE Moves(r, "worker", "reviewer")
      BY <1>2, <2>1, <2>4 DEF Lifecycle!Park, Lifecycle!Move, place
    <2>5. CASE Moves(r, "reviewer", "queue")
      BY <1>2, <2>1, <2>5 DEF Lifecycle!Approve, Lifecycle!Move, place
    <2>6. CASE \E from \in {"queue", "worker", "reviewer", "agents"} : Moves(r, from, "over")
      BY <1>2, <2>1, <2>6 DEF Lifecycle!Drop, Lifecycle!Move, place
    <2> QED BY <1>4, <2>2, <2>3, <2>4, <2>5, <2>6 DEF Transfers
  <1>5. (\E r \in RunIds : Spends(r) \/ (Transfers(r) /\ Quiet)) => Lifecycle!Next
    BY <1>3, <1>4 DEF Lifecycle!Next
  <1> QED BY <1>1, <1>5 DEF LifeStep

\* The queue, the workers, the reviewers and the database together are the token
\* machine of RunLifecycle, for every number of each of them, wherever the runs
\* are not handed to Temporal (claim_next_queued_runtime_run, run_once,
\* _pause_for_review, _approve, _deny).
THEOREM LifecycleImplemented ==
    ASSUME SingleResolution, RuntimeType # "temporal"
    PROVE  Spec => ImplementsLifecycle
  <1>1. Init => Lifecycle!Init
    BY InitLifecycle
  <1>2. /\ TypeOK /\ TokenInvariant /\ TypeOK' /\ TokenInvariant' /\ [Next]_vars
        => [Lifecycle!Next]_<<[r \in RunIds |-> PlaceOf(r)], starts>>
    BY LifeSteps, StepLifecycle
  <1>3. Spec => [](TypeOK /\ TokenInvariant)
    BY TokenInvariance
  <1> QED BY <1>1, <1>2, <1>3, PTL DEF Spec, ImplementsLifecycle, Lifecycle!Spec

-----------------------------------------------------------------------------
\* What is over stays over

\* A run that has lost its token gets none.
LEMMA NoTokenStays ==
    ASSUME SingleResolution, TypeOK, TokenInvariant, TypeOK', TokenInvariant', [Next]_vars,
           NEW r \in RunIds, Exists(r), NoToken(r)
    PROVE  NoToken(r)'
  <1>1. Placed
    BY DEF Placed, TokenInvariant
  <1>2. PlaceOf(r) = "over"
    BY <1>1, PlaceMeaning DEF Placed, PlacesTold
  <1>3. LifeStep
    BY LifeSteps
  <1>4. PlaceOf(r)' = "over"
    BY <1>2, <1>3 DEF LifeStep, Stays, Spends, Transfers, Moves
  <1>5. PlacesTold'
    BY <1>1, PlaceMeaningNext DEF Placed
  <1> QED BY <1>4, <1>5 DEF PlacesTold, NoToken

\* Only a worker that passed the hooks starts an execution or opens a workflow;
\* what an open workflow does leaves its trace.
LEMMA HistoryMoves ==
    ASSUME TypeOK, [Next]_vars, NEW r \in RunIds
    PROVE  \/ starts'[r] = starts[r] /\ temporal'[r] = temporal[r]
           \/ Open(r) /\ temporal'[r].pc # "none"
           \/ /\ \E w \in Workers : Holds(w, r) /\ worker[w].pc = "run"
              /\ temporal'[r] = temporal[r] \/ temporal'[r].pc # "none"
  <1> DEFINE Goal == \/ starts'[r] = starts[r] /\ temporal'[r] = temporal[r]
                     \/ Open(r) /\ temporal'[r].pc # "none"
                     \/ /\ \E w \in Workers : Holds(w, r) /\ worker[w].pc = "run"
                        /\ temporal'[r] = temporal[r] \/ temporal'[r].pc # "none"
  <1>1. starts \in [RunIds -> Nat] /\ temporal \in [RunIds -> TemporalState]
    BY DEF TypeOK, WorkerTypeOK, TemporalTypeOK
  <1>2. ASSUME starts' = starts, temporal' = temporal
        PROVE  Goal
    BY <1>2
  <1>3. ASSUME NEW w \in Workers, WorkerAct(w)
        PROVE  Goal
    <2>1. CASE BeginExecution(w) /\ UNCHANGED temporal
      <3>1. worker[w].pc = "run" /\ starts' = [starts EXCEPT ![worker[w].run] = @ + 1]
        BY <2>1 DEF BeginExecution
      <3>2. worker[w].run # r => starts'[r] = starts[r]
        BY <1>1, <3>1
      <3> QED BY <2>1, <3>1, <3>2 DEF Holds, Working
    <2>2. CASE StartTemporal(w) \/ StartTemporalFails(w)
      <3>1. /\ worker[w].pc = "run"
            /\ UNCHANGED starts
            /\ \/ UNCHANGED temporal
               \/ temporal' = [temporal EXCEPT ![worker[w].run] =
                                 [NoWorkflow EXCEPT !.pc = "execute"]]
        BY <2>2 DEF StartTemporal, StartTemporalFails, OpenWorkflow
      <3>2. worker[w].run # r => temporal'[r] = temporal[r]
        BY <1>1, <3>1
      <3>3. temporal'[r] = temporal[r] \/ temporal'[r].pc = "execute"
        BY <1>1, <3>1 DEF NoWorkflow
      <3> QED BY <3>1, <3>2, <3>3 DEF Holds, Working
    <2>3. CASE ~(\/ BeginExecution(w) /\ UNCHANGED temporal
                 \/ StartTemporal(w) \/ StartTemporalFails(w))
      BY <1>2, <1>3, <2>3
         DEF WorkerAct, WorkerStep, TemporalWorkerStep, Claim, MarkRunning, AppendStarted,
             AddReviewItem, MarkPaused, MarkBlocked, FinishExecution, FailExecution,
             AppendClosing, RunnerFactoryRaises, Die, RecordTemporalStart
    <2> QED BY <2>1, <2>2, <2>3
  <1>4. ASSUME NEW x \in RunIds, TemporalAct(x)
        PROVE  Goal
    <2>1. Open(x)
      BY <1>4 DEF TemporalAct, TemporalStep, ExecuteAgentNode, RetryAgentNode,
                  AgentNodeDone, Signal, ReviewDecided, CompleteRuntimeRun, Open
    <2>2. x # r => starts'[r] = starts[r] /\ temporal'[r] = temporal[r]
      BY <1>1, <1>4 DEF TemporalAct, TemporalStep, ExecuteAgentNode, RetryAgentNode,
                  AgentNodeDone, Signal, ReviewDecided, CompleteRuntimeRun, workerVars
    <2>3. temporal'[x].pc # "none"
      <3>1. CASE AgentNodeDone(x)
        <4>1. PICK d \in {"ALLOW", "REVIEW", "BLOCK"} :
                temporal' = [temporal EXCEPT ![x].decision = d,
                  ![x].pc = IF d = "REVIEW" THEN "wait" ELSE "complete"]
          BY <3>1 DEF AgentNodeDone
        <4>2. temporal'[x].pc = IF d = "REVIEW" THEN "wait" ELSE "complete"
          BY <1>1, <4>1 DEF TemporalState
        <4> QED BY <4>2
      <3>2. CASE ExecuteAgentNode(x)
        <4>1. temporal'[x].pc = "executing"
          BY <1>1, <3>2 DEF ExecuteAgentNode, TemporalState
        <4> QED BY <4>1
      <3>3. CASE \E verdict \in {"APPROVED", "DENIED"} : Signal(x, verdict)
        <4>1. temporal'[x].pc = temporal[x].pc
          BY <1>1, <3>3 DEF Signal, TemporalState
        <4> QED BY <2>1, <4>1 DEF Open
      <3>4. CASE RetryAgentNode(x) \/ ReviewDecided(x) \/ CompleteRuntimeRun(x)
        <4>1. temporal'[x].pc \in {"execute", "complete", "closed"}
          BY <1>1, <3>4 DEF RetryAgentNode, ReviewDecided, CompleteRuntimeRun, TemporalState
        <4> QED BY <4>1
      <3> QED BY <1>4, <3>1, <3>2, <3>3, <3>4 DEF TemporalAct, TemporalStep
    <2> QED BY <2>1, <2>2, <2>3
  <1>5. CASE (\E c \in Clients : ClientAct(c)) \/ (\E q \in Requests : RequestAct(q))
    BY <1>2, <1>5 DEF ClientAct, RequestAct, workerVars
  <1>6. CASE Crash
    BY <1>2, <1>6 DEF Crash, WorkerCrash, Die, workerVars
  <1>7. CASE UNCHANGED vars
    BY <1>2, <1>7 DEF vars
  <1> QED BY <1>3, <1>4, <1>5, <1>6, <1>7 DEF Next

\* Who touches the review items and the requests.
LEMMA ReviewWrites ==
    ASSUME [Next]_vars
    PROVE  \/ reviews' = reviews /\ request' = request
           \/ \E w \in Workers : AddReviewItem(w) /\ request' = request
           \/ \E q \in Requests : RequestAct(q)
           \/ \E q \in Requests : /\ RequestLost(q) /\ UNCHANGED workerVars
                                  /\ crashes' = crashes + 1
  <1>1. CASE \E c \in Clients : ClientAct(c)
    BY <1>1 DEF ClientAct, DispatchStep, Submit, CreateLookup, CreateInsert, CreateConflict,
                storeVars
  <1>2. CASE \E w \in Workers : WorkerAct(w)
    BY <1>2 DEF WorkerAct, WorkerStep, TemporalWorkerStep, Claim, MarkRunning, AppendStarted,
             MarkPaused, MarkBlocked, BeginExecution, FinishExecution, FailExecution,
             AppendClosing, RunnerFactoryRaises, Die, StartTemporal, StartTemporalFails,
             RecordTemporalStart, storeVars
  <1>3. CASE \E r \in RunIds : TemporalAct(r)
    BY <1>3 DEF TemporalAct, TemporalStep, ExecuteAgentNode, RetryAgentNode, AgentNodeDone,
             Signal, ReviewDecided, CompleteRuntimeRun, storeVars
  <1>4. CASE Crash
    BY <1>4 DEF Crash, WorkerCrash, Die, storeVars
  <1>5. CASE UNCHANGED vars
    BY <1>5 DEF vars
  <1> QED BY <1>1, <1>2, <1>3, <1>4, <1>5 DEF Next

\* A denial takes a token that was not used, and no other step denies.
LEMMA DenialDrops ==
    ASSUME SingleResolution, TypeOK, TokenInvariant, [Next]_vars,
           NEW v \in ReviewIds, reviews'[v].status = "DENIED", reviews[v].status # "DENIED",
           NEW r \in RunIds, reviews'[v].run = r
    PROVE  NoToken(r)' /\ Fresh(r)'
  <1>1. reviews \in [ReviewIds -> Review] /\ request \in [Requests -> RequestState]
    BY DEF TypeOK, StoreTypeOK, ReviewTypeOK
  <1>2. ReferencesExist /\ OneRequestPerReview /\ TokenIsUnique /\ UnusedTokenIsFresh
    BY DEF TokenInvariant
  <1>3. PICK q \in Requests : RequestAct(q) /\ reviews' # reviews
    <2>1. reviews' # reviews
      OBVIOUS
    <2>2. ASSUME NEW w \in Workers, AddReviewItem(w)
          PROVE  FALSE
      <3>1. PICK u \in ReviewIds :
              reviews' = [reviews EXCEPT ![u] =
                 [status |-> "PENDING", run |-> worker[w].run, hook |-> worker[w].hook]]
        BY <2>2 DEF AddReviewItem
      <3> QED BY <1>1, <3>1
    <2> QED BY <2>1, <2>2, ReviewWrites DEF RequestLost, storeVars
  <1>4. Resolve(q)
    BY <1>3 DEF RequestAct, ReviewStep, ReadRun, ApproveRun, DenyRun, AppendVerdict, storeVars
  <1>5. runs' = runs /\ worker' = worker /\ starts' = starts /\ temporal' = temporal
    BY <1>3, <1>4 DEF RequestAct, Resolve, workerVars
  <1>6. PICK u \in ReviewIds, verdict \in {"APPROVED", "DENIED"} :
          /\ reviews[u].status # "ABSENT"
          /\ \A p \in Requests : request[p].review # u
          /\ reviews' = [reviews EXCEPT ![u].status = verdict]
          /\ request' = [request EXCEPT ![q].pc = "read", ![q].review = u,
                                        ![q].verdict = verdict]
    BY <1>4 DEF Resolve, MayResolve
  <1>7. u = v /\ verdict = "DENIED" /\ reviews[v].run = r
    BY <1>1, <1>6 DEF Review
  <1>8. reviews[v].status = "PENDING"
    BY <1>1, <1>2, <1>6, <1>7 DEF OneRequestPerReview, Review
  <1>9. Awaits(v, r)
    BY <1>7, <1>8 DEF Awaits, OpenReview
  <1>10. Fresh(r)'
    BY <1>2, <1>5, <1>9 DEF UnusedTokenIsFresh, Fresh
  <1>11. /\ request'[q].review = v /\ request'[q].verdict = "DENIED"
         /\ \A p \in Requests : p # q => request'[p] = request[p]
    BY <1>1, <1>6, <1>7 DEF RequestState
  <1>12. ASSUME NEW x \in ReviewIds
         PROVE  ~Awaits(x, r)'
    <2>1. CASE x = v
      BY <1>6, <1>7, <1>11, <2>1 DEF Awaits, OpenReview
    <2>2. CASE x # v
      <3>1. ~Awaits(x, r)
        BY <1>2, <1>9, <2>2 DEF TokenIsUnique
      <3>2. reviews'[x] = reviews[x]
        BY <1>1, <1>6, <1>7, <2>2
      <3> QED BY <1>11, <2>2, <3>1, <3>2 DEF Awaits, OpenReview
    <2> QED BY <2>1, <2>2
  <1>13. ~Queued(r)' /\ \A w \in Workers : ~Holds(w, r)'
    BY <1>2, <1>5, <1>9 DEF TokenIsUnique, Queued, Holds, Working
  <1> QED BY <1>10, <1>12, <1>13 DEF NoToken

\* The token of a completed run was used, that of a denied run was not, and
\* neither run has one.
OverInvariant ==
    /\ \A r \in RunIds : runs[r].status = "COMPLETED" => NoToken(r) /\ ~Open(r) /\ ~Fresh(r)
    /\ \A r \in RunIds, v \in ReviewIds :
         reviews[v].status = "DENIED" /\ reviews[v].run = r => NoToken(r) /\ Fresh(r)

\* Without a token, what was executed stays as it is.
LEMMA HistoryKept ==
    ASSUME TypeOK, TokenInvariant, [Next]_vars, NEW r \in RunIds, NoToken(r)
    PROVE  /\ Fresh(r) => Fresh(r)'
           /\ ~Fresh(r) => ~Fresh(r)'
           /\ ~Open(r) => ~Open(r)' /\ starts'[r] = starts[r]
  <1>1. \/ starts'[r] = starts[r] /\ temporal'[r] = temporal[r]
        \/ Open(r) /\ temporal'[r].pc # "none"
    BY HistoryMoves DEF NoToken
  <1>2. CASE starts'[r] = starts[r] /\ temporal'[r] = temporal[r]
    BY <1>2 DEF Fresh, Open
  <1>3. CASE Open(r) /\ temporal'[r].pc # "none"
    BY <1>3 DEF Fresh, Open, NoWorkflow
  <1> QED BY <1>1, <1>2, <1>3

\* A run becomes COMPLETED when its token has been used.
LEMMA CompletionEnds ==
    ASSUME SingleResolution, TypeOK, TokenInvariant, PlacesFit, TypeOK', TokenInvariant',
           [Next]_vars,
           NEW r \in RunIds, runs[r].status # "COMPLETED", runs'[r].status = "COMPLETED"
    PROVE  NoToken(r)' /\ ~Open(r)' /\ ~Fresh(r)'
  <1>1. /\ worker \in [Workers -> WorkerState] /\ temporal \in [RunIds -> TemporalState]
        /\ starts \in [RunIds -> Nat]
    BY DEF TypeOK, WorkerTypeOK, TemporalTypeOK
  <1>2. ReferencesExist /\ TokenIsUnique /\ UnusedTokenIsFresh /\ UsedOnce
    BY DEF TokenInvariant
  <1>3. \/ \E w \in Workers : worker[w].run = r /\ FinishExecution(w)
        \/ CompleteRuntimeRun(r)
    BY RowWrites DEF RowWritten, Requeued, Stamped, WorkerWrites
  <1>4. ASSUME NEW w \in Workers, worker[w].run = r, FinishExecution(w)
        PROVE  NoToken(r)' /\ ~Open(r)' /\ ~Fresh(r)'
    <2>1. Holds(w, r) /\ RuntimeType = "native" /\ starts[r] > 0
      BY <1>4 DEF FinishExecution, Holds, Working, PlacesFit
    <2>2. starts'[r] > 0
      <3>1. starts'[r] >= starts[r] /\ starts'[r] \in Nat
        BY StartsGrow DEF TypeOK, WorkerTypeOK
      <3> QED BY <1>1, <2>1, <3>1
    <2>3. ~Open(r)'
      BY <2>1 DEF TokenInvariant, UsedOnce, Open, NoWorkflow
    <2>4. \A y \in Workers : ~Holds(y, r)'
      <3> SUFFICES ASSUME NEW y \in Workers PROVE ~Holds(y, r)'
        OBVIOUS
      <3>1. worker'[y].pc = IF y = w THEN "completed" ELSE worker[y].pc
        BY <1>1, <1>4, GotoEffect DEF FinishExecution
      <3>2. worker'[y].run = worker[y].run
        BY <1>1, <1>4, GotoEffect DEF FinishExecution
      <3>3. y # w => ~Holds(y, r)
        BY <1>2, <2>1 DEF TokenIsUnique
      <3> QED BY <3>1, <3>2, <3>3 DEF Holds, Working
    <2>5. ASSUME NEW v \in ReviewIds
          PROVE  ~Awaits(v, r)'
      <3>1. Placed
        BY DEF Placed, TokenInvariant
      <3>2. PlaceOf(r) = "agents"
        BY <1>4, <2>1, <3>1, PlaceMeaning DEF Placed, PlacesTold, FinishExecution
      <3>3. PlaceOf(r)' \in {"agents", "over"}
        BY <3>2, LifeSteps DEF LifeStep, Stays, Spends, Transfers, Moves
      <3>4. Awaits(v, r)' => PlaceOf(r)' = "reviewer"
        BY <3>1, PlaceMeaningNext DEF Placed, PlacesTold
      <3> QED BY <3>3, <3>4
    <2> QED BY <2>2, <2>3, <2>4, <2>5 DEF NoToken, Queued, Fresh
  <1>5. CASE CompleteRuntimeRun(r)
    <2>1. temporal[r].pc = "complete" /\ worker' = worker /\ reviews' = reviews
      BY <1>5 DEF CompleteRuntimeRun, workerVars
    <2>2. temporal'[r].pc = "closed"
      BY <1>1, <1>5 DEF CompleteRuntimeRun, TemporalState
    <2>3. ~Fresh(r) /\ RuntimeType = "temporal"
      BY <1>2, <2>1 DEF Fresh, NoWorkflow, UsedOnce
    <2>4. NoToken(r)
      BY <1>2, <2>3 DEF UnusedTokenIsFresh, NoToken, PlacesFit, Holds
    <2>5. Exists(r)
      BY <1>2, <2>3 DEF UnusedTokenIsFresh
    <2> QED BY <2>2, <2>3, <2>4, <2>5, NoTokenStays DEF Open, Fresh, NoWorkflow
  <1> QED BY <1>3, <1>4, <1>5

\* With one resolution per item, the item keeps the verdict of its request.
VerdictsMatch ==
    \A q \in Requests : request[q].pc # "idle" =>
        reviews[request[q].review].status = request[q].verdict

\* Nobody writes over the verdict of a request.
LEMMA VerdictsMatchStep ==
    ASSUME SingleResolution, TypeOK, ReferencesExist, OneRequestPerReview, VerdictsMatch,
           [Next]_vars
    PROVE  VerdictsMatch'
  <1>1. reviews \in [ReviewIds -> Review] /\ request \in [Requests -> RequestState]
    BY DEF TypeOK, StoreTypeOK, ReviewTypeOK
  <1>2. CASE reviews' = reviews /\ request' = request
    BY <1>2 DEF VerdictsMatch
  <1>3. ASSUME NEW w \in Workers, AddReviewItem(w), request' = request
        PROVE  VerdictsMatch'
    <2>1. PICK u \in ReviewIds :
            /\ reviews[u].status = "ABSENT"
            /\ \A x \in ReviewIds : x # u => reviews'[x] = reviews[x]
      BY <1>1, <1>3 DEF AddReviewItem, IsNextReview, IsOldest
    <2>2. ASSUME NEW q \in Requests, request[q].pc # "idle"
          PROVE  reviews'[request[q].review] = reviews[request[q].review]
      BY <2>1, <2>2 DEF ReferencesExist
    <2> QED BY <1>3, <2>2 DEF VerdictsMatch
  <1>4. ASSUME NEW q \in Requests, Resolve(q) \/ ReviewStep(q) \/ RequestLost(q)
        PROVE  VerdictsMatch'
    <2>1. PICK v \in ReviewIds : Reaches(q, v)
      BY <1>4, RequestReaches
    <2>2. ASSUME NEW p \in Requests, p # q, request'[p].pc # "idle"
          PROVE  reviews'[request'[p].review].status = request'[p].verdict
      <3>1. request'[p] = request[p] /\ request[p].review # v
        BY <2>1, <2>2 DEF Reaches
      <3>2. request[p].review \in ReviewIds
        BY <2>2, <3>1 DEF ReferencesExist
      <3>3. reviews'[request[p].review] = reviews[request[p].review]
        BY <2>1, <3>1, <3>2 DEF Reaches
      <3> QED BY <2>2, <3>1, <3>3 DEF VerdictsMatch
    <2>3. reviews'[request'[q].review].status = request'[q].verdict
      <3>1. CASE Resolve(q)
        <4>1. PICK u \in ReviewIds, verdict \in {"APPROVED", "DENIED"} :
                /\ reviews' = [reviews EXCEPT ![u].status = verdict]
                /\ request' = [request EXCEPT ![q].pc = "read", ![q].review = u,
                                              ![q].verdict = verdict]
          BY <3>1 DEF Resolve
        <4>2. request'[q].review = u /\ request'[q].verdict = verdict
          BY <1>1, <4>1 DEF RequestState
        <4>3. reviews'[u].status = verdict
          BY <1>1, <4>1 DEF Review
        <4> QED BY <4>2, <4>3
      <3>2. CASE ~Resolve(q)
        <4>1. reviews' = reviews /\ request[q].pc # "idle"
          BY <1>4, <3>2
             DEF ReviewStep, ReadRun, ApproveRun, DenyRun, AppendVerdict, RequestLost, storeVars
        <4>2. request'[q].review = request[q].review /\ request'[q].verdict = request[q].verdict
          <5>1. CASE ReadRun(q)
            BY <1>1, <5>1 DEF ReadRun, RequestState
          <5>2. CASE ~ReadRun(q)
            <6>1. \E pc \in {"event", "done", "lost"} : request' = [request EXCEPT ![q].pc = pc]
              BY <1>4, <3>2, <5>2
                 DEF ReviewStep, ApproveRun, DenyRun, AppendVerdict, RequestLost
            <6> QED BY <1>1, <6>1 DEF RequestState
          <5> QED BY <5>1, <5>2
        <4> QED BY <4>1, <4>2 DEF VerdictsMatch
      <3> QED BY <3>1, <3>2
    <2> QED BY <2>2, <2>3 DEF VerdictsMatch
  <1> QED BY <1>2, <1>3, <1>4, ReviewWrites DEF RequestAct

\* What is over stays over.
LEMMA OverStep ==
    ASSUME SingleResolution, TypeOK, TokenInvariant, PlacesFit, OverInvariant,
           TypeOK', TokenInvariant', [Next]_vars
    PROVE  OverInvariant'
  <1>1. ReferencesExist
    BY DEF TokenInvariant
  <1>2. ASSUME NEW r \in RunIds, runs'[r].status = "COMPLETED"
        PROVE  NoToken(r)' /\ ~Open(r)' /\ ~Fresh(r)'
    <2>1. CASE runs[r].status = "COMPLETED"
      <3>1. NoToken(r) /\ ~Open(r) /\ ~Fresh(r) /\ Exists(r)
        BY <2>1 DEF OverInvariant, Exists
      <3> QED BY <3>1, NoTokenStays, HistoryKept
    <2>2. CASE runs[r].status # "COMPLETED"
      BY <1>2, <2>2, CompletionEnds
    <2> QED BY <2>1, <2>2
  <1>3. ASSUME NEW r \in RunIds, NEW v \in ReviewIds,
               reviews'[v].status = "DENIED", reviews'[v].run = r
        PROVE  NoToken(r)' /\ Fresh(r)'
    <2>1. CASE reviews[v].status = "DENIED"
      <3>1. reviews[v].run = r
        BY <1>3, <2>1, VerdictsPersist DEF ItemsKept
      <3>2. NoToken(r) /\ Fresh(r) /\ Exists(r)
        BY <1>1, <2>1, <3>1 DEF OverInvariant, ReferencesExist
      <3> QED BY <3>2, NoTokenStays, HistoryKept
    <2>2. CASE reviews[v].status # "DENIED"
      BY <1>3, <2>2, DenialDrops
    <2> QED BY <2>1, <2>2
  <1> QED BY <1>2, <1>3 DEF OverInvariant

\* A used token is gone for good: the run of a denied review and a completed run
\* never get another one (_deny, complete_runtime_run).
LEMMA OverInvariance ==
    ASSUME SingleResolution
    PROVE  Spec => [](TypeOK /\ TokenInvariant /\ PlacesFit /\ VerdictsMatch /\ OverInvariant)
  <1>1. Init => PlacesFit /\ VerdictsMatch /\ OverInvariant
    BY DEF Init, ReviewInit, VerdictsMatch, StoreInit, AbsentRun, AbsentReview, WorkerInit, Idle, PlacesFit, OverInvariant
  <1>2. TypeOK /\ TokenInvariant => ReferencesExist /\ OneRequestPerReview
    BY DEF TokenInvariant
  <1>3. TypeOK /\ ReferencesExist /\ PlacesFit /\ [Next]_vars => PlacesFit'
    BY PlacesStep
  <1>4. /\ TypeOK /\ TokenInvariant /\ PlacesFit /\ OverInvariant
        /\ TypeOK' /\ TokenInvariant' /\ [Next]_vars
        => OverInvariant'
    BY OverStep
  <1>5. TypeOK /\ ReferencesExist /\ OneRequestPerReview /\ VerdictsMatch /\ [Next]_vars
          => VerdictsMatch'
    BY VerdictsMatchStep
  <1> QED BY <1>1, <1>2, <1>3, <1>4, <1>5, TokenInvariance, PTL DEF Spec

\* A run with a denied review does not start executing, on any runtime.
THEOREM DeniedRunsStayStopped ==
    ASSUME SingleResolution
    PROVE  Spec => DeniedStaysStopped
  <1> DEFINE Stopped ==
        \A r \in RunIds : starts'[r] > starts[r] =>
          \A v \in ReviewIds : ~(reviews[v].run = r /\ reviews[v].status = "DENIED")
  <1>1. TypeOK /\ TokenInvariant /\ VerdictsMatch /\ OverInvariant /\ [Next]_vars => [Stopped]_vars
    <2> SUFFICES ASSUME TypeOK, TokenInvariant, OverInvariant, [Next]_vars,
                        NEW r \in RunIds, starts'[r] > starts[r],
                        NEW v \in ReviewIds, reviews[v].run = r, reviews[v].status = "DENIED"
                 PROVE  FALSE
      OBVIOUS
    <2>1. NoToken(r) /\ Fresh(r)
      BY DEF OverInvariant
    <2>2. starts'[r] = starts[r]
      BY <2>1, HistoryKept DEF Fresh, Open, NoWorkflow
    <2>3. starts[r] \in Nat
      BY DEF TypeOK, WorkerTypeOK
    <2> QED BY <2>2, <2>3
  <1> QED BY <1>1, OverInvariance, PTL DEF Spec, DeniedStaysStopped

\* COMPLETED is final, but for a start recorded and a pause written too late.
THEOREM CompletedRunsAreFinal ==
    ASSUME SingleResolution
    PROVE  Spec => CompletedIsFinal
  <1> DEFINE Final ==
        \A r \in RunIds : runs[r].status = "COMPLETED" /\ runs'[r].status # "COMPLETED" =>
          \E w \in Workers : worker[w].run = r /\ worker[w].pc \in {"temporal", "pause"}
  <1>1. TypeOK /\ TokenInvariant /\ VerdictsMatch /\ OverInvariant /\ [Next]_vars => [Final]_vars
    <2> SUFFICES ASSUME TypeOK, TokenInvariant, VerdictsMatch, OverInvariant, [Next]_vars, NEW r \in RunIds,
                        runs[r].status = "COMPLETED", runs'[r].status # "COMPLETED"
                 PROVE  \E w \in Workers : worker[w].run = r /\ worker[w].pc \in {"temporal", "pause"}
      OBVIOUS
    <2>1. NoToken(r) /\ ~Open(r) /\ ~Fresh(r) /\ ~Queued(r) /\ Exists(r)
      BY DEF OverInvariant, NoToken, Exists
    <2>2. \A w \in Workers : ~Holds(w, r)
      BY <2>1 DEF NoToken
    <2>3. ASSUME NEW w \in Workers, worker[w].run = r, NEW s, WorkerWrites(w, s), s # "COMPLETED"
          PROVE  worker[w].pc \in {"temporal", "pause"}
      BY <2>2, <2>3 DEF WorkerWrites, MarkRunning, MarkPaused, MarkBlocked, FailExecution,
                        FinishExecution, StartTemporalFails, RecordTemporalStart, Holds, Working
    <2>4. ~CompleteRuntimeRun(r)
      BY <2>1 DEF CompleteRuntimeRun, Open
    <2>5. ASSUME NEW q \in Requests, RunOf(q) = r, ApproveRun(q) \/ DenyRun(q)
          PROVE  FALSE
      <3>1. PICK v \in ReviewIds : request[q].review = v /\ reviews[v].run = r
        BY <2>5 DEF TokenInvariant, ReferencesExist, ApproveRun, DenyRun, RunOf
      <3>2. CASE ApproveRun(q)
        BY <2>1, <3>1, <3>2 DEF ApproveRun, NoToken, Awaits, OpenReview
      <3>3. CASE DenyRun(q)
        <4>1. reviews[v].status = "DENIED"
          BY <3>1, <3>3 DEF DenyRun, VerdictsMatch
        <4> QED BY <2>1, <3>1, <4>1 DEF OverInvariant
      <3> QED BY <2>5, <3>2, <3>3
    <2> QED BY <2>1, <2>3, <2>4, <2>5, RowWrites DEF RowWritten, Stamped
  <1> QED BY <1>1, OverInvariance, PTL DEF Spec, CompletedIsFinal

-----------------------------------------------------------------------------
\* Runs that wait for a review

\* Only a resolve request takes up a pending item.
LEMMA PendingIsTaken ==
    ASSUME TypeOK, [Next]_vars, NEW v \in ReviewIds,
           reviews[v].status = "PENDING", reviews'[v].status # "PENDING"
    PROVE  \E q \in Requests : request'[q].review = v /\ request'[q].pc = "read"
  <1>1. reviews \in [ReviewIds -> Review] /\ request \in [Requests -> RequestState]
    BY DEF TypeOK, StoreTypeOK, ReviewTypeOK
  <1>2. ASSUME NEW w \in Workers, AddReviewItem(w)
        PROVE  FALSE
    <2>1. PICK u \in ReviewIds :
            reviews' = [reviews EXCEPT ![u] =
               [status |-> "PENDING", run |-> worker[w].run, hook |-> worker[w].hook]]
      BY <1>2 DEF AddReviewItem
    <2> QED BY <1>1, <2>1
  <1>3. PICK q \in Requests : Resolve(q)
    BY <1>2, ReviewWrites
       DEF RequestAct, ReviewStep, ReadRun, ApproveRun, DenyRun, AppendVerdict, RequestLost,
           storeVars
  <1>4. PICK u \in ReviewIds, verdict \in {"APPROVED", "DENIED"} :
          /\ reviews' = [reviews EXCEPT ![u].status = verdict]
          /\ request' = [request EXCEPT ![q].pc = "read", ![q].review = u,
                                        ![q].verdict = verdict]
    BY <1>3 DEF Resolve
  <1>5. request'[q].review = u /\ request'[q].pc = "read"
    BY <1>1, <1>4 DEF RequestState
  <1>6. u = v
    BY <1>1, <1>4
  <1> QED BY <1>5, <1>6

\* A request that has taken an item up writes its run, unless it dies.
LEMMA RequestWrites ==
    ASSUME TypeOK, [Next]_vars, NEW q \in Requests,
           request[q].pc \in {"read", "write"}, request'[q].pc \notin {"read", "write"}
    PROVE  ApproveRun(q) \/ DenyRun(q) \/ crashes' > crashes
  <1>1. request \in [Requests -> RequestState] /\ crashes \in Nat
    BY DEF TypeOK, ReviewTypeOK
  <1>2. request' # request
    OBVIOUS
  <1>3. CASE \E p \in Requests : RequestLost(p) /\ crashes' = crashes + 1
    BY <1>1, <1>3
  <1>4. CASE \E p \in Requests : RequestAct(p)
    <2>1. PICK p \in Requests : Resolve(p) \/ ReviewStep(p)
      BY <1>4 DEF RequestAct
    <2>2. p = q
      <3>1. p # q => request'[q] = request[q]
        BY <1>1, <2>1 DEF Resolve, ReviewStep, ReadRun, ApproveRun, DenyRun, AppendVerdict
      <3> QED BY <3>1
    <2>3. ~Resolve(q) /\ ~AppendVerdict(q)
      BY DEF Resolve, AppendVerdict
    <2>4. ~ReadRun(q)
      <3>1. ASSUME ReadRun(q)
            PROVE  request'[q].pc = "write"
        BY <1>1, <3>1 DEF ReadRun, RequestState
      <3> QED BY <3>1
    <2> QED BY <2>1, <2>2, <2>3, <2>4 DEF ReviewStep
  <1> QED BY <1>2, <1>3, <1>4, ReviewWrites

\* Every review that parks a run decides it: only a pause that comes after its
\* verdict and a request that dies leave a run waiting for nobody.
THEOREM ReviewsSettleRuns == Spec => OnlyLatePausesStrand
  <1> DEFINE Strands ==
        \A r \in RunIds : ~Stranded(r) /\ Stranded(r)' =>
          \/ \E w \in Workers : worker[w].run = r /\ worker[w].pc = "pause"
          \/ crashes' > crashes
  <1>1. TypeOK /\ ReferencesExist /\ [Next]_vars => [Strands]_vars
    <2> SUFFICES ASSUME TypeOK, ReferencesExist, [Next]_vars, NEW r \in RunIds,
                        ~Stranded(r), Stranded(r)'
                 PROVE  \/ \E w \in Workers : worker[w].run = r /\ worker[w].pc = "pause"
                        \/ crashes' > crashes
      OBVIOUS
    <2>1. /\ runs'[r].status = "REVIEW"
          /\ \A v \in ReviewIds : reviews'[v].run = r =>
               /\ reviews'[v].status # "PENDING"
               /\ \A q \in Requests : request'[q].review = v =>
                    request'[q].pc \notin {"read", "write"}
      BY DEF Stranded
    <2>2. CASE runs[r].status # "REVIEW"
      <3>1. \E w \in Workers : worker[w].run = r /\ MarkPaused(w)
        BY <2>1, <2>2, RowWrites DEF RowWritten, Requeued, Stamped, WorkerWrites
      <3> QED BY <3>1 DEF MarkPaused
    <2>3. CASE runs[r].status = "REVIEW"
      <3>1. PICK v \in ReviewIds :
              /\ reviews[v].run = r
              /\ \/ reviews[v].status = "PENDING"
                 \/ \E q \in Requests : request[q].review = v /\ request[q].pc \in {"read", "write"}
        BY <2>3 DEF Stranded
      <3>2. reviews[v].status # "ABSENT"
        BY <3>1 DEF ReferencesExist
      <3>3. reviews'[v].run = r
        BY <3>1, <3>2, VerdictsPersist DEF ItemsKept
      <3>4. CASE reviews[v].status = "PENDING"
        BY <2>1, <3>3, <3>4, PendingIsTaken
      <3>5. ASSUME NEW q \in Requests, request[q].review = v, request[q].pc \in {"read", "write"}
            PROVE  crashes' > crashes
        <4>1. request'[q].review = v
          BY <3>5, VerdictsPersist DEF VerdictsKept
        <4>2. ApproveRun(q) \/ DenyRun(q) \/ crashes' > crashes
          BY <2>1, <3>3, <3>5, <4>1, RequestWrites
        <4>3. RunOf(q) = r
          BY <3>1, <3>5 DEF RunOf
        <4>4. runs \in [RunIds -> Run]
          BY DEF TypeOK, StoreTypeOK
        <4>5. ~ApproveRun(q)
          <5>1. ASSUME ApproveRun(q)
                PROVE  runs'[r].status = "QUEUED"
            BY <4>3, <4>4, <5>1 DEF ApproveRun, UpdateRun, Run
          <5> QED BY <2>1, <5>1
        <4>6. ~DenyRun(q)
          <5>1. "BLOCKED" \in RunStatus /\ "DENY" \in Decisions
            BY DEF RunStatus, TERMINAL_RUN_STATUSES, Decisions
          <5>2. ASSUME DenyRun(q)
                PROVE  runs'[r].status = "BLOCKED"
            BY <4>3, <4>4, <5>1, <5>2, OutcomeWriteEffect DEF DenyRun
          <5> QED BY <2>1, <5>2
        <4> QED BY <4>2, <4>5, <4>6
      <3> QED BY <3>1, <3>4, <3>5
    <2> QED BY <2>2, <2>3
  <1> QED BY <1>1, TypeCorrect, PTL DEF Spec, OnlyLatePausesStrand

-----------------------------------------------------------------------------
\* The event stream of a run

\* The run fits in one page.
Fits == MaxEvents <= PageLimit

\* What the client received is what was there below its cursor: the events of
\* the order (created_at, outbox_id) up to the cursor, each of them once.
ReceivedExactly ==
    /\ cursor # NoEvent => cursor \in visible /\ received[cursor] = 1
    /\ \A e \in Events :
          /\ received[e] \in {0, 1}
          /\ received[e] = 1 => e \in visible /\ e <= cursor
          /\ e \in visible /\ e < cursor /\ received[e] = 0 => e \in late

-----------------------------------------------------------------------------
\* The page

\* A run with no more events than the limit fits in one page.
LEMMA PageIsAll ==
    ASSUME StreamTypeOK, Fits
    PROVE  Page = visible
<1>1. ASSUME NEW e \in visible
      PROVE  Cardinality({d \in visible : d < e}) < PageLimit
  <2>1. e \in 1..MaxEvents /\ MaxEvents \in Nat /\ PageLimit \in Nat
    BY EventStreamAssumption DEF StreamTypeOK, Events
  <2>2. IsFiniteSet(1..(e - 1)) /\ Cardinality(1..(e - 1)) = e - 1
    BY <2>1, FS_Interval
  <2>3. {d \in visible : d < e} \subseteq 1..(e - 1)
    <3> SUFFICES ASSUME NEW d \in visible, d < e
                 PROVE  d \in 1..(e - 1)
      OBVIOUS
    <3>1. d \in 1..MaxEvents
      BY DEF StreamTypeOK, Events
    <3> QED BY <2>1, <3>1
  <2>4. Cardinality({d \in visible : d < e}) <= e - 1
    BY <2>2, <2>3, FS_Subset
  <2>5. Cardinality({d \in visible : d < e}) \in Nat
    BY <2>2, <2>3, FS_Subset, FS_CardinalityType
  <2> QED BY <2>1, <2>4, <2>5 DEF Fits
<1> QED BY <1>1 DEF Page

\* So a client is sent the events after its cursor and no other.
LEMMA ListSinceIsAfter ==
    ASSUME StreamTypeOK, Fits, ReceivedExactly
    PROVE  ListSince(cursor) = {e \in visible : cursor < e}
<1>1. Page = visible
  BY PageIsAll
<1>2. CASE cursor = NoEvent
  <2>1. cursor \notin visible /\ \A e \in visible : cursor < e
    BY <1>2 DEF StreamTypeOK, Events, NoEvent
  <2> QED BY <1>1, <2>1 DEF ListSince
<1>3. CASE cursor # NoEvent
  BY <1>1, <1>3 DEF ListSince, ReceivedExactly
<1> QED BY <1>2, <1>3

\* Receiving a first part of these events keeps the account exact, and moves the
\* cursor forward.
LEMMA ReceiveStep ==
    ASSUME StreamTypeOK, Fits, ReceivedExactly,
           NEW batch, NEW last \in 0..MaxEvents,
           batch = {e \in ListSince(cursor) : e <= last} \/ batch = ListSince(cursor),
           Receive(batch), visible' = visible, late' = late
    PROVE  /\ received' \in [Events -> Nat] /\ cursor' \in Events \cup {NoEvent}
           /\ ReceivedExactly'
           /\ cursor <= cursor'
<1> USE DEF NoEvent
<1>1. ListSince(cursor) = {e \in visible : cursor < e}
  BY ListSinceIsAfter
<1>2. MaxEvents \in Nat /\ visible \subseteq Events /\ Events \subseteq Nat \ {0}
  BY EventStreamAssumption DEF StreamTypeOK, Events
<1>3. cursor \in Nat
  BY <1>2 DEF StreamTypeOK
<1>4. batch \subseteq visible /\ \A e \in batch : cursor < e
  BY <1>1
<1>5. \A e \in Events : received'[e] = IF e \in batch THEN received[e] + 1 ELSE received[e]
  BY DEF Receive
<1>6. CASE batch = {}
  <2>1. cursor' = cursor /\ received' = received
    BY <1>5, <1>6 DEF Receive, StreamTypeOK
  <2> QED BY <1>3, <2>1 DEF ReceivedExactly, StreamTypeOK
<1>7. CASE batch # {}
  <2>1. cursor' \in batch /\ \A e \in batch : e <= cursor'
    BY <1>7 DEF Receive
  <2>2. cursor' \in Nat /\ cursor < cursor'
    BY <1>2, <1>4, <2>1
  <2>3. \A e \in batch : received[e] = 0
    BY <1>2, <1>3, <1>4 DEF ReceivedExactly
  <2>4. cursor' \in visible' /\ received'[cursor'] = 1
    BY <1>2, <1>4, <1>5, <2>1, <2>3
  <2>5. received' \in [Events -> Nat]
    BY DEF Receive, StreamTypeOK
  <2>6. ASSUME NEW e \in Events
        PROVE  /\ received'[e] \in {0, 1}
               /\ received'[e] = 1 => e \in visible' /\ e <= cursor'
               /\ e \in visible' /\ e < cursor' /\ received'[e] = 0 => e \in late'
    <3>1. CASE e \in batch
      BY <1>4, <1>5, <2>1, <2>3, <3>1
    <3>2. CASE e \notin batch
      <4>1. received'[e] = received[e]
        BY <1>5, <3>2
      <4>2. ASSUME e \in visible, e < cursor'
            PROVE  e <= cursor
        <5>1. e \in Nat /\ last \in Nat
          BY <1>2
        <5>2. CASE batch = ListSince(cursor)
          BY <1>1, <1>3, <3>2, <4>2, <5>1, <5>2
        <5>3. CASE batch = {d \in ListSince(cursor) : d <= last}
          <6>1. cursor' <= last
            BY <2>1, <5>3
          <6>2. e <= last
            BY <2>2, <4>2, <5>1, <6>1
          <6> QED BY <1>1, <1>3, <3>2, <4>2, <5>1, <5>3, <6>2
        <5> QED BY <5>2, <5>3
      <4> QED BY <1>2, <1>3, <2>2, <4>1, <4>2 DEF ReceivedExactly
    <3> QED BY <3>1, <3>2
  <2>7. ReceivedExactly'
    BY <2>4, <2>6 DEF ReceivedExactly
  <2>8. cursor' \in Events /\ cursor <= cursor'
    BY <1>2, <1>3, <1>4, <2>1, <2>2
  <2> QED BY <2>5, <2>7, <2>8
<1> QED BY <1>6, <1>7

-----------------------------------------------------------------------------
\* Every step

\* An open stream has a round left.
RoundsLeft == stream.pc # "closed" => stream.left # 0

StreamInv == StreamTypeOK /\ RoundsLeft /\ ReceivedExactly

LEMMA StreamStepPreserves ==
    ASSUME StreamInv, Fits, [StreamNext]_streamVars
    PROVE  StreamInv' /\ cursor <= cursor'
<1> USE EventStreamAssumption DEF StreamInv, RoundsLeft, Events, NoEvent
<1>1. ASSUME NEW p \in Producers, Insert(p)
      PROVE  StreamInv' /\ cursor <= cursor'
  BY <1>1 DEF Insert, StreamTypeOK, ReceivedExactly
<1>2. ASSUME NEW p \in Producers, Commit(p)
      PROVE  StreamInv' /\ cursor <= cursor'
  <2>1. inserting[p] \in Events /\ cursor' = cursor /\ received' = received
    BY <1>2 DEF Commit, StreamTypeOK
  <2>2. StreamTypeOK' /\ RoundsLeft' /\ cursor <= cursor'
    <3>1. visible' \in SUBSET Events /\ late' \in SUBSET Events
      BY <1>2, <2>1 DEF Commit, StreamTypeOK
    <3>2. inserting' \in [Producers -> Events \cup {NoEvent}]
      BY <1>2 DEF Commit, StreamTypeOK
    <3>3. UNCHANGED <<clock, runOver, stream, cursor, received>>
      BY <1>2 DEF Commit
    <3> QED BY <3>1, <3>2, <3>3 DEF StreamTypeOK
  <2>3. visible' = visible \cup {inserting[p]}
    BY <1>2 DEF Commit
  <2>4. late \subseteq late' /\ (inserting[p] < cursor => inserting[p] \in late')
    BY <1>2 DEF Commit
  <2>5. ReceivedExactly'
    BY <2>1, <2>3, <2>4 DEF ReceivedExactly
  <2> QED BY <2>2, <2>5
<1>3. ASSUME NEW p \in Producers, Rollback(p)
      PROVE  StreamInv' /\ cursor <= cursor'
  BY <1>3 DEF Rollback, StreamTypeOK, ReceivedExactly
<1>4. CASE WriteStatus
  BY <1>4 DEF WriteStatus, StreamTypeOK, ReceivedExactly
<1>5. CASE Connect
  BY <1>5 DEF Connect, StreamTypeOK, ReceivedExactly
<1>6. CASE List
  <2>1. 0 \in 0..MaxEvents /\ Receive(ListSince(cursor)) /\ UNCHANGED <<clock, inserting, visible, runOver, stream, late>>
    BY <1>6 DEF List
  <2>2. /\ received' \in [Events -> Nat] /\ cursor' \in Events \cup {NoEvent}
        /\ ReceivedExactly' /\ cursor <= cursor'
    BY <2>1, ReceiveStep
  <2> QED BY <2>1, <2>2 DEF StreamTypeOK
<1>7. CASE Poll
  <2>1. /\ 0 \in 0..MaxEvents /\ Receive(ListSince(cursor))
        /\ UNCHANGED <<clock, inserting, visible, runOver, late>>
        /\ stream.pc = "poll" /\ stream' = [stream EXCEPT !.pc = "status"]
    BY <1>7 DEF Poll
  <2>2. /\ received' \in [Events -> Nat] /\ cursor' \in Events \cup {NoEvent}
        /\ ReceivedExactly' /\ cursor <= cursor'
    BY <2>1, ReceiveStep
  <2> QED BY <2>1, <2>2 DEF StreamTypeOK
<1>8. CASE PollInterrupted
  <2>1. /\ UNCHANGED <<clock, inserting, visible, runOver, late>>
        /\ stream' = [stream EXCEPT !.pc = "closed"]
    BY <1>8 DEF PollInterrupted
  <2>2. PICK last \in 0..MaxEvents : Receive({e \in ListSince(cursor) : e <= last})
    BY <1>8 DEF PollInterrupted
  <2>3. /\ received' \in [Events -> Nat] /\ cursor' \in Events \cup {NoEvent}
        /\ ReceivedExactly' /\ cursor <= cursor'
    BY <2>1, <2>2, ReceiveStep
  <2> QED BY <2>1, <2>3 DEF StreamTypeOK
<1>9. CASE CheckStatus
  <2>1. UNCHANGED <<clock, inserting, visible, runOver, cursor, received, late>>
    BY <1>9 DEF CheckStatus
  <2>2. stream' \in [pc: {"closed", "poll", "status"}, left: 0..MaxPolls] /\ RoundsLeft'
    <3>1. stream.pc = "status" /\ stream.left \in 1..MaxPolls
      BY <1>9 DEF CheckStatus, StreamTypeOK
    <3>2. CASE stream' = [stream EXCEPT !.pc = "closed"]
      BY <3>2 DEF StreamTypeOK
    <3>3. CASE stream.left # 1 /\ stream' = [stream EXCEPT !.pc = "poll", !.left = @ - 1]
      <4>1. stream.left - 1 \in 1..MaxPolls
        BY <3>1, <3>3
      <4>2. stream' = [pc |-> "poll", left |-> stream.left - 1]
        BY <3>3 DEF StreamTypeOK
      <4> QED BY <4>1, <4>2
    <3> QED BY <1>9, <3>2, <3>3 DEF CheckStatus
  <2> QED BY <2>1, <2>2 DEF StreamTypeOK, ReceivedExactly
<1>10. CASE UNCHANGED streamVars
  BY <1>10 DEF streamVars, StreamTypeOK, ReceivedExactly
<1> QED BY <1>1, <1>2, <1>3, <1>4, <1>5, <1>6, <1>7, <1>8, <1>9, <1>10 DEF StreamNext, StreamStep

\* A run that fits in a page is received exactly: no event twice, and none missed
\* but those committed behind the cursor.
THEOREM ReceivedExactlyAlways ==
    ASSUME Fits
    PROVE  StreamSpec => []StreamInv
<1>1. ASSUME StreamInit
      PROVE  StreamInv
  <2>1. StreamTypeOK
    <3>1. 0 \in 0..MaxEvents /\ 0 \in 0..MaxPolls
      BY EventStreamAssumption
    <3>2. stream \in [pc: {"closed", "poll", "status"}, left: 0..MaxPolls]
      BY <1>1, <3>1 DEF StreamInit
    <3> QED BY <1>1, <3>1, <3>2 DEF StreamInit, StreamTypeOK, NoEvent
  <2>2. ReceivedExactly
    BY <1>1 DEF StreamInit, ReceivedExactly, NoEvent
  <2> QED BY <1>1, <2>1, <2>2 DEF StreamInit, StreamInv, RoundsLeft
<1>2. StreamInv /\ [StreamNext]_streamVars => StreamInv'
  BY StreamStepPreserves
<1> QED BY <1>1, <1>2, PTL DEF StreamSpec

\* No event of a run that fits in a page is sent twice over any reconnections.
THEOREM NoneDeliveredTwice ==
    ASSUME Fits
    PROVE  StreamSpec => []DeliveredOnce
<1>1. StreamInv => DeliveredOnce
  BY DEF StreamInv, ReceivedExactly, DeliveredOnce
<1> QED BY <1>1, ReceivedExactlyAlways, PTL

\* Only events that commit behind the cursor can be missed.
THEOREM NoneMissedButLate ==
    ASSUME Fits
    PROVE  StreamSpec => []OnlyLateEventsAreMissed
<1>1. StreamInv => OnlyLateEventsAreMissed
  BY DEF StreamInv, StreamTypeOK, ReceivedExactly, OnlyLateEventsAreMissed
<1> QED BY <1>1, ReceivedExactlyAlways, PTL

\* The cursor of a client never moves back.
THEOREM CursorForward ==
    ASSUME Fits
    PROVE  StreamSpec => NeverBackwards
<1>1. StreamInv /\ [StreamNext]_streamVars => [cursor <= cursor']_streamVars
  BY StreamStepPreserves
<1> QED BY <1>1, ReceivedExactlyAlways, PTL DEF StreamSpec, NeverBackwards

-----------------------------------------------------------------------------
\* A run of any length

\* Every committed event was given a place, whatever a client does.
InPlace ==
    /\ clock \in 0..MaxEvents
    /\ inserting \in [Producers -> Events \cup {NoEvent}]
    /\ visible \in SUBSET Events

LEMMA InPlaceStep ==
    ASSUME InPlace, [StreamNext]_streamVars
    PROVE  InPlace'
<1> USE EventStreamAssumption DEF InPlace, Events, NoEvent
<1>1. ASSUME NEW p \in Producers, Insert(p)
      PROVE  InPlace'
  BY <1>1 DEF Insert
<1>2. ASSUME NEW p \in Producers, Commit(p)
      PROVE  InPlace'
  BY <1>2 DEF Commit
<1>3. ASSUME NEW p \in Producers, Rollback(p)
      PROVE  InPlace'
  BY <1>3 DEF Rollback
<1>4. CASE UNCHANGED <<clock, inserting, visible>>
  BY <1>4
<1> QED BY <1>1, <1>2, <1>3, <1>4
           DEF StreamNext, WriteStatus, Connect, List, StreamStep, Poll, PollInterrupted,
               CheckStatus, streamVars

\* While all that was committed fits in a page, a client that replays from any
\* event gets every event after it.
THEOREM ReplaysComplete == StreamSpec => []ReplayIsComplete
<1>1. StreamInit => InPlace
  BY EventStreamAssumption DEF StreamInit, InPlace, NoEvent
<1>2. InPlace /\ [StreamNext]_streamVars => InPlace'
  BY InPlaceStep
<1>3. InPlace => ReplayIsComplete
  <2> SUFFICES ASSUME InPlace, Cardinality(visible) <= PageLimit
               PROVE  Page = visible
    BY DEF ReplayIsComplete, ListSince
  <2>1. IsFiniteSet(visible)
    <3>1. IsFiniteSet(1..MaxEvents)
      BY EventStreamAssumption, FS_Interval
    <3> QED BY <3>1, FS_Subset DEF InPlace, Events
  <2>2. ASSUME NEW e \in visible
        PROVE  Cardinality({d \in visible : d < e}) < PageLimit
    <3> DEFINE before == {d \in visible : d < e}
    <3>1. before \subseteq visible /\ before # visible
      BY EventStreamAssumption DEF InPlace, Events
    <3>2. /\ Cardinality(before) <= Cardinality(visible)
          /\ Cardinality(before) # Cardinality(visible)
          /\ Cardinality(before) \in Nat /\ Cardinality(visible) \in Nat
      BY <2>1, <3>1, FS_Subset, FS_CardinalityType
    <3> QED BY <3>2, EventStreamAssumption
  <2> QED BY <2>2 DEF Page
<1> QED BY <1>1, <1>2, <1>3, PTL DEF StreamSpec
=============================================================================
