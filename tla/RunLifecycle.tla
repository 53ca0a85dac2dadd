----------------------------- MODULE RunLifecycle -----------------------------
(***************************************************************************)
(* What a deployment promises of a run, without queue, workers, reviewers  *)
(* or database: the right to execute the run is a token.  It lies in the   *)
(* queue, with a worker or with a reviewer, and it is spent by the one     *)
(* execution it stands for.  It can be dropped on the way - a denial, a    *)
(* block hook, a crash - and nothing ever makes another one.               *)
(***************************************************************************)
EXTENDS Naturals

CONSTANT Runs

VARIABLES
    place,          \* where the token of each run is
    executions      \* how many times the agents of each run were executed

Place == {"none", "queue", "worker", "reviewer", "agents", "over"}

Init ==
    /\ place = [r \in Runs |-> "none"]
    /\ executions = [r \in Runs |-> 0]

Move(r, from, to) ==
    /\ place[r] = from
    /\ place' = [place EXCEPT ![r] = to]

Submit(r) == Move(r, "none", "queue") /\ UNCHANGED executions
Take(r) == Move(r, "queue", "worker") /\ UNCHANGED executions
Park(r) == Move(r, "worker", "reviewer") /\ UNCHANGED executions
Approve(r) == Move(r, "reviewer", "queue") /\ UNCHANGED executions

Execute(r) ==
    /\ Move(r, "worker", "agents")
    /\ executions' = [executions EXCEPT ![r] = @ + 1]

Drop(r) ==
    /\ \E from \in {"queue", "worker", "reviewer", "agents"} : Move(r, from, "over")
    /\ UNCHANGED executions

Next ==
    \E r \in Runs :
        \/ Submit(r) \/ Take(r) \/ Park(r) \/ Approve(r) \/ Execute(r) \/ Drop(r)

Spec == Init /\ [][Next]_<<place, executions>>
=============================================================================
