----------------------------- MODULE Deployment -----------------------------
(***************************************************************************)
(* Who takes part - jobs, worker processes, the possible outcomes of a      *)
(* pipeline run - and the faults of the environment.  A run names the kinds *)
(* of fault it allows (FaultKinds) and how many may happen in one behaviour *)
(* (MaxFaults), so that every action caused by a fault is visible as such   *)
(* and bounded.                                                             *)
(*                                                                          *)
(*   "crash"      a worker process dies                                     *)
(*   "apicrash"   the API process dies in the middle of an upload           *)
(*   "db"         a statement or a COMMIT fails and is rolled back          *)
(*   "lostack"    a COMMIT is applied but its caller is told it failed      *)
(*   "disk"       writing the upload raises OSError                         *)
(*   "broker"     publishing raises (whether or not the message got there)  *)
(*   "visibility" Redis restores a message whose worker is still busy       *)
(***************************************************************************)
EXTENDS Naturals

CONSTANTS
    Jobs,        \* one per upload request
    Workers,     \* processes of the Celery worker pool
    Results,     \* possible outcomes of a pipeline run
    EmptyFiles,  \* the jobs whose file holds no row that can be stored
    NoJob, NoWorker, NoResult,
    FaultKinds, MaxFaults

AllFaults ==
    {"crash", "apicrash", "db", "lostack", "disk", "broker", "visibility"}

ASSUME DeploymentAssumption ==
    /\ NoJob \notin Jobs
    /\ NoWorker \notin Workers
    /\ NoResult \notin Results
    /\ EmptyFiles \subseteq Jobs
    /\ FaultKinds \subseteq AllFaults
    /\ MaxFaults \in Nat

VARIABLE faults   \* how many more faults may happen

FaultsTypeOK == faults \in 0..MaxFaults

FaultsInit == faults = MaxFaults

Fault(kind) ==
    /\ kind \in FaultKinds
    /\ faults > 0
    /\ faults' = faults - 1

NoFault == UNCHANGED faults
=============================================================================
