---------------------------- MODULE JobLifecycle ----------------------------
(***************************************************************************)
(* What a client of the API may rely on: the life of a job and the outcome  *)
(* recorded for it, with no queue, worker, lock or fault in sight.  A       *)
(* completed job can only be taken back where commits may be acknowledged   *)
(* wrongly (AckLoss).                                                       *)
(***************************************************************************)
CONSTANTS Jobs, Results, NoResult, AckLoss

VARIABLES state, outcome

Init ==
    /\ state = [j \in Jobs |-> "absent"]
    /\ outcome = [j \in Jobs |-> NoResult]

Moves(j, from, to) ==
    /\ state[j] = from
    /\ state' = [state EXCEPT ![j] = to]

Create(j) == Moves(j, "absent", "pending") /\ UNCHANGED outcome

Start(j) == Moves(j, "pending", "processing") /\ UNCHANGED outcome

Retry(j) == Moves(j, "failed", "processing") /\ UNCHANGED outcome

Complete(j) ==
    /\ Moves(j, "processing", "completed")
    /\ \E r \in Results : outcome' = [outcome EXCEPT ![j] = r]

Fail(j) == Moves(j, "processing", "failed") /\ UNCHANGED outcome

Retract(j) ==
    /\ AckLoss
    /\ Moves(j, "completed", "failed")
    /\ UNCHANGED outcome

Next ==
    \E j \in Jobs :
        Create(j) \/ Start(j) \/ Retry(j) \/ Complete(j) \/ Fail(j) \/ Retract(j)

vars == <<state, outcome>>

Spec == Init /\ [][Next]_vars

\* A pending job is started and a processing job ends.
FairSpec ==
    /\ Spec
    /\ \A j \in Jobs : WF_vars(Start(j)) /\ WF_vars(Complete(j) \/ Fail(j))
=============================================================================
