----------------------------- MODULE JobWorker ------------------------------
(***************************************************************************)
(* The Celery task process_job (app/workers/tasks.py) in each of several    *)
(* worker processes, and the broker's redelivery of its message.            *)
(*                                                                          *)
(*   idle -> lock -> decide -> run -> persist -> ack -> idle                *)
(*                       |       \______\_> fail _/                         *)
(*                       \____________ skip _____/                          *)
(***************************************************************************)
EXTENDS JobStore, TaskQueue

VARIABLES
    pc,    \* where in process_job the worker is
    task,  \* the job it was handed
    seen,  \* the status Phase A read under the row lock
    run    \* what run_pipeline returned

workerVars == <<pc, task, seen, run>>

Running == {"run", "persist", "fail"}   \* claimed, and not finished with

WorkerTypeOK ==
    /\ pc \in [Workers -> Running \cup {"idle", "lock", "decide", "ack"}]
    /\ task \in [Workers -> Jobs \cup {NoJob}]
    /\ seen \in [Workers -> JobStatus \cup {"absent"}]
    /\ run \in [Workers -> Results \cup {NoResult}]

WorkerInit ==
    /\ pc = [w \in Workers |-> "idle"]
    /\ task = [w \in Workers |-> NoJob]
    /\ seen = [w \in Workers |-> "absent"]
    /\ run = [w \in Workers |-> NoResult]

Becomes(w, p, j, s, r) ==
    /\ pc' = [pc EXCEPT ![w] = p]
    /\ task' = [task EXCEPT ![w] = j]
    /\ seen' = [seen EXCEPT ![w] = s]
    /\ run' = [run EXCEPT ![w] = r]

GoesOn(w, p)   == Becomes(w, p, task[w], "absent", NoResult)
BecomesIdle(w) == Becomes(w, "idle", NoJob, "absent", NoResult)

-----------------------------------------------------------------------------
StartTask(w, j) ==
    /\ pc[w] = "idle"
    /\ Deliver(j)
    /\ Becomes(w, "lock", j, "absent", NoResult)
    /\ NoFault /\ UNCHANGED storeVars

\* SELECT ... FOR UPDATE returns; without a row there is nothing to do.
LockJob(w) ==
    LET j == task[w] IN
    /\ pc[w] = "lock"
    /\ Unlocked(j)
    /\ IF status[j] = "absent"
       THEN GoesOn(w, "ack") /\ UNCHANGED row_lock
       ELSE /\ Becomes(w, "decide", j, status[j], NoResult)
            /\ row_lock' = [row_lock EXCEPT ![j] = w]
    /\ NoFault /\ UNCHANGED <<jobRow, results, files, msgs>>

\* Mutants: the guard of Phase A forgets one of its two statuses.
MustSkipCompleted(s) == s = "completed"
MustSkipProcessing(s) == s = "processing"

MustSkip(s) == s \in {"processing", "completed"}

\* Mutant: the session of a skipped delivery is never closed.
SkipJobKeepsLock(w) ==
    /\ pc[w] = "decide"
    /\ MustSkip(seen[w])
    /\ GoesOn(w, "ack")
    /\ NoFault /\ UNCHANGED <<storeVars, msgs>>

SkipJob(w) ==
    /\ pc[w] = "decide"
    /\ MustSkip(seen[w])
    /\ Release(task[w])
    /\ GoesOn(w, "ack")
    /\ NoFault /\ UNCHANGED <<jobRow, results, files, msgs>>

ClaimJob(w) ==
    /\ pc[w] = "decide"
    /\ ~MustSkip(seen[w])
    /\ CommitClaim(task[w])
    /\ GoesOn(w, "run")
    /\ NoFault /\ UNCHANGED msgs

\* Phase A is outside the try: its exceptions end the task, which is
\* acknowledged without anything recorded on the job.
PhaseAFails(w) ==
    /\ Fault("db")
    /\ pc[w] \in {"lock", "decide"}
    /\ IF pc[w] = "decide" THEN Release(task[w]) ELSE UNCHANGED row_lock
    /\ GoesOn(w, "ack")
    /\ UNCHANGED <<jobRow, results, files, msgs>>

ClaimCommitLost(w) ==
    /\ Fault("lostack")
    /\ pc[w] = "decide"
    /\ ~MustSkip(seen[w])
    /\ CommitClaim(task[w])
    /\ GoesOn(w, "ack")
    /\ UNCHANGED msgs

\* Phase B: read the file, ask the LLM, compute the results.
RunPipeline(w) ==
    /\ pc[w] = "run"
    /\ IF files[task[w]] = "none"
       THEN GoesOn(w, "fail")
       ELSE \E r \in Results : Becomes(w, "persist", task[w], "absent", r)
    /\ NoFault /\ UNCHANGED <<storeVars, msgs>>

\* Mutant: the work is outside the try, so its exceptions only end the task.
ProcessingFailsUnseen(w) ==
    /\ pc[w] \in {"run", "persist"}
    /\ GoesOn(w, "ack")
    /\ NoFault /\ UNCHANGED <<storeVars, msgs>>

\* An exception in Phase B or C that left the database as it was: bad data,
\* a violated CHECK, a failed statement or COMMIT.
ProcessingFails(w) ==
    /\ pc[w] \in {"run", "persist"}
    /\ GoesOn(w, "fail")
    /\ NoFault /\ UNCHANGED <<storeVars, msgs>>

Persist(w) ==
    /\ pc[w] = "persist"
    /\ Unlocked(task[w])
    /\ CommitResults(task[w], run[w])
    /\ GoesOn(w, "ack")
    /\ NoFault /\ UNCHANGED msgs

\* Phase C is committed, yet commit() raises into the except block.
PersistCommitLost(w) ==
    /\ Fault("lostack")
    /\ pc[w] = "persist"
    /\ Unlocked(task[w])
    /\ CommitResults(task[w], run[w])
    /\ GoesOn(w, "fail")
    /\ UNCHANGED msgs

RecordFailure(w) ==
    /\ pc[w] = "fail"
    /\ Unlocked(task[w])
    /\ CommitFailure(task[w])
    /\ GoesOn(w, "ack")
    /\ NoFault /\ UNCHANGED msgs

\* The except block's own transaction fails: its exception ends the task.
RecordFails(w) ==
    /\ Fault("db")
    /\ pc[w] = "fail"
    /\ GoesOn(w, "ack")
    /\ UNCHANGED <<storeVars, msgs>>

Ack(w) ==
    /\ pc[w] = "ack"
    /\ Acknowledge(task[w])
    /\ BecomesIdle(w)
    /\ NoFault /\ UNCHANGED storeVars

\* The process dies; the pool starts another one in its place.
Crash(w) ==
    /\ Fault("crash")
    /\ pc[w] # "idle"
    /\ IF pc[w] = "decide" THEN Release(task[w]) ELSE UNCHANGED row_lock
    /\ BecomesIdle(w)
    /\ UNCHANGED <<jobRow, results, files, msgs>>

-----------------------------------------------------------------------------
Held(j) == \E w \in Workers : task[w] = j

\* The worker that held the message is lost: rejected, or timed out later.
RedeliverOrphan(j) ==
    /\ ~Held(j)
    /\ Restore(j)
    /\ NoFault /\ UNCHANGED <<storeVars, workerVars>>

\* The task outlives the visibility timeout: a second copy while it runs.
VisibilityTimeout(j) ==
    /\ Fault("visibility")
    /\ Held(j)
    /\ Restore(j)
    /\ UNCHANGED <<storeVars, workerVars>>

\* What a live worker does once it has a task.
WorkerProgress(w) ==
    \/ LockJob(w) \/ SkipJob(w) \/ ClaimJob(w) \/ RunPipeline(w)
    \/ Persist(w) \/ RecordFailure(w) \/ Ack(w)

WorkerNext(w) ==
    \/ \E j \in Jobs : StartTask(w, j)
    \/ WorkerProgress(w)
    \/ PhaseAFails(w) \/ ClaimCommitLost(w) \/ ProcessingFails(w)
    \/ PersistCommitLost(w) \/ RecordFails(w) \/ Crash(w)

BrokerNext(j) == RedeliverOrphan(j) \/ VisibilityTimeout(j)
=============================================================================
