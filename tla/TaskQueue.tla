----------------------------- MODULE TaskQueue ------------------------------
(***************************************************************************)
(* The Celery queue in Redis, as app/workers/celery_app.py configures it:   *)
(* late acknowledgement, rejection when a worker is lost, and the default   *)
(* visibility timeout.  A message carries only a job id, so the queue is a  *)
(* function from the job to the state of its one message.  A restored       *)
(* message keeps its delivery tag, so an acknowledgement removes it if and  *)
(* only if it is unacknowledged at that moment, whoever holds it.           *)
(***************************************************************************)
EXTENDS Deployment

VARIABLE msgs

MsgStates == {"unsent", "ready", "unacked", "acked"}

QueueTypeOK == msgs \in [Jobs -> MsgStates]

QueueInit == msgs = [j \in Jobs |-> "unsent"]

\* process_job.delay(job_id)
Publish(j) == msgs' = [msgs EXCEPT ![j] = "ready"]

\* Mutant: task_acks_late is off.
DeliverAcked(j) ==
    /\ msgs[j] = "ready"
    /\ msgs' = [msgs EXCEPT ![j] = "acked"]

\* A worker reserves the message; task_acks_late keeps it until the task ends.
Deliver(j) ==
    /\ msgs[j] = "ready"
    /\ msgs' = [msgs EXCEPT ![j] = "unacked"]

\* Mutant: the end of a task does not acknowledge its message.
AcknowledgeNever(j) == UNCHANGED msgs

\* The task ended, with a result or an exception: both acknowledge.
Acknowledge(j) ==
    msgs' = [msgs EXCEPT ![j] = IF @ = "unacked" THEN "acked" ELSE @]

\* The message goes back to the list.
Restore(j) ==
    /\ msgs[j] = "unacked"
    /\ msgs' = [msgs EXCEPT ![j] = "ready"]
=============================================================================
