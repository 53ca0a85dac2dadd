------------------------------ MODULE RunReview ------------------------------
(***************************************************************************)
(* POST /v1/review-queue/{review_id}/resolve for the review of a runtime   *)
(* hook, and RuntimeReviewResumeService behind it.  A request writes the   *)
(* status of the review item, reads the run, writes the run and appends an *)
(* event, each in a transaction of its own.  Neither the item's status nor *)
(* the run's is checked, so an item can be resolved twice and the run can  *)
(* be in any state; the queue screen lists pending items, which is what    *)
(* SingleResolution assumes of the reviewers.                              *)
(***************************************************************************)
EXTENDS RunStore

CONSTANTS
    Requests,           \* the resolve requests reviewers make
    SingleResolution    \* whether an item gets one resolve request at most

ASSUME ReviewAssumption == SingleResolution \in BOOLEAN

VARIABLE request        \* what each resolve request is doing

RequestPc == {"idle", "read", "write", "event", "done", "lost"}

RequestState == [pc: RequestPc, review: ReviewIds \cup {NoReview},
                 verdict: {"NONE", "APPROVED", "DENIED"},
                 approved: SUBSET Hooks]

ReviewTypeOK == request \in [Requests -> RequestState]

ReviewInit ==
    request = [q \in Requests |->
                 [pc |-> "idle", review |-> NoReview, verdict |-> "NONE",
                  approved |-> {}]]

RunOf(q) == reviews[request[q].review].run
HookOf(q) == reviews[request[q].review].hook

\* The item was never resolved, or reviewers resolve items more than once.
MayResolve(v) ==
    SingleResolution => \A q \in Requests : request[q].review # v

-----------------------------------------------------------------------------

\* resolve_review_item: the verdict is written, whatever the status was.
Resolve(q) ==
    /\ request[q].pc = "idle"
    /\ \E v \in ReviewIds, verdict \in {"APPROVED", "DENIED"} :
        /\ reviews[v].status # "ABSENT"
        /\ MayResolve(v)
        /\ reviews' = [reviews EXCEPT ![v].status = verdict]
        /\ request' = [request EXCEPT ![q].pc = "read", ![q].review = v,
                                      ![q].verdict = verdict]
    /\ UNCHANGED <<runs, outbox>>

\* _approve and _deny read the run; the approvals it carries are kept.
ReadRun(q) ==
    /\ request[q].pc = "read"
    /\ request' = [request EXCEPT ![q].pc = "write",
                                  ![q].approved = runs[RunOf(q)].approved]
    /\ UNCHANGED storeVars

\* Faulty: an approval that keeps the completed_at of the pause.
ApproveRunKeepsCompletion(q) ==
    /\ request[q].pc = "write"
    /\ request[q].verdict = "APPROVED"
    /\ UpdateRun(RunOf(q),
         [runs[RunOf(q)] EXCEPT
            !.status = "QUEUED", !.decision = "NONE",
            !.approved = request[q].approved \cup {HookOf(q)}])
    /\ request' = [request EXCEPT ![q].pc = "event"]
    /\ UNCHANGED <<reviews, outbox>>

\* Faulty: any resolution resumes the run.
ApproveRunAnyVerdict(q) ==
    /\ request[q].pc = "write"
    /\ UpdateRun(RunOf(q),
         [runs[RunOf(q)] EXCEPT
            !.status = "QUEUED", !.decision = "NONE", !.completed = FALSE,
            !.approved = request[q].approved \cup {HookOf(q)}])
    /\ request' = [request EXCEPT ![q].pc = "event"]
    /\ UNCHANGED <<reviews, outbox>>

\* _approve puts the run back in the queue with the hook approved.
ApproveRun(q) ==
    /\ request[q].pc = "write"
    /\ request[q].verdict = "APPROVED"
    /\ UpdateRun(RunOf(q),
         [runs[RunOf(q)] EXCEPT
            !.status = "QUEUED", !.decision = "NONE", !.completed = FALSE,
            !.approved = request[q].approved \cup {HookOf(q)}])
    /\ request' = [request EXCEPT ![q].pc = "event"]
    /\ UNCHANGED <<reviews, outbox>>

\* Faulty: a denial that only records its decision.
DenyRunKeepsStatus(q) ==
    /\ request[q].pc = "write"
    /\ request[q].verdict = "DENIED"
    /\ UpdateRun(RunOf(q), [runs[RunOf(q)] EXCEPT !.decision = "DENY"])
    /\ request' = [request EXCEPT ![q].pc = "event"]
    /\ UNCHANGED <<reviews, outbox>>

\* _deny blocks the run.
DenyRun(q) ==
    /\ request[q].pc = "write"
    /\ request[q].verdict = "DENIED"
    /\ UpdateRun(RunOf(q), WithOutcome(runs[RunOf(q)], "BLOCKED", "DENY"))
    /\ request' = [request EXCEPT ![q].pc = "event"]
    /\ UNCHANGED <<reviews, outbox>>

AppendVerdict(q) ==
    /\ request[q].pc = "event"
    /\ AppendEvent(RunOf(q), IF request[q].verdict = "APPROVED"
                             THEN "hook.approved" ELSE "hook.denied")
    /\ request' = [request EXCEPT ![q].pc = "done"]
    /\ UNCHANGED <<runs, reviews>>

\* The API process dies, or a database call raises, in the middle of a request.
RequestLost(q) ==
    /\ request[q].pc \in {"read", "write", "event"}
    /\ request' = [request EXCEPT ![q].pc = "lost"]
    /\ UNCHANGED storeVars

ReviewStep(q) ==
    ReadRun(q) \/ ApproveRun(q) \/ DenyRun(q) \/ AppendVerdict(q)

ReviewNext == \E q \in Requests : Resolve(q) \/ ReviewStep(q) \/ RequestLost(q)
=============================================================================
