----------------------------- MODULE JobSystem ------------------------------
(***************************************************************************)
(* Uploads, queue, workers and database together, and the properties of     *)
(* the whole.                                                               *)
(***************************************************************************)
EXTENDS UploadService, JobWorker

vars == <<faults, storeVars, msgs, upload, workerVars>>

TypeOK ==
    /\ FaultsTypeOK
    /\ StoreTypeOK
    /\ QueueTypeOK
    /\ UploadTypeOK
    /\ WorkerTypeOK

Init ==
    /\ FaultsInit
    /\ StoreInit
    /\ QueueInit
    /\ UploadInit
    /\ WorkerInit

\* Every request is answered, every message consumed, every worker idle.
Quiescent ==
    /\ \A j \in Jobs : /\ upload[j] \in {"accepted", "rejected", "error"}
                       /\ msgs[j] \in {"unsent", "acked"}
    /\ \A w \in Workers : pc[w] = "idle"

Next ==
    \/ \E j \in Jobs : UploadNext(j) /\ UNCHANGED workerVars
    \/ \E w \in Workers : WorkerNext(w) /\ UNCHANGED upload
    \/ \E j \in Jobs : BrokerNext(j) /\ UNCHANGED upload
    \/ Quiescent /\ UNCHANGED vars

Spec == Init /\ [][Next]_vars

(***************************************************************************)
(* Fairness.  The API's event loop finishes a request it has begun; a       *)
(* worker process executes its task (an LLM call returns or raises); Redis  *)
(* hands a waiting message to an idle worker and restores the message of a  *)
(* lost one.  No fault and no new request is ever required.                 *)
(***************************************************************************)
Fairness ==
    /\ \A j \in Jobs :
        /\ WF_vars(UploadProgress(j) /\ UNCHANGED workerVars)
        /\ WF_vars((\E w \in Workers : StartTask(w, j)) /\ UNCHANGED upload)
        /\ WF_vars(RedeliverOrphan(j) /\ UNCHANGED upload)
    /\ \A w \in Workers : WF_vars(WorkerProgress(w) /\ UNCHANGED upload)

FairSpec == Spec /\ Fairness

-----------------------------------------------------------------------------
\* However often a message is delivered, a job has at most one worker between
\* its claim and its last commit (the FOR UPDATE guard of process_job).
AtMostOneRunner ==
    \A v, w \in Workers :
        pc[v] \in Running /\ pc[w] \in Running /\ task[v] = task[w] => v = w

\* Whoever runs a job finds it claimed: no skipped, failed or redelivered
\* delivery leaves a runner behind on a job somebody may claim again.
RunnerHasClaim ==
    \A w \in Workers :
        /\ pc[w] \in {"run", "persist"} => status[task[w]] = "processing"
        /\ pc[w] = "fail" => status[task[w]] \in {"processing", "completed"}

\* error_message is "populated only when status == failed" and always then,
\* through retries, skips and half-reported commits.
ErrorIffFailed == \A j \in Jobs : error_message[j] <=> status[j] = "failed"

\* The runs whose rows the job's transactions are.
ResultsOf(j) == {t.run : t \in {u \in transactions : u.job = j}}

\* What they should be if run r is the last that wrote any.
RowsOf(j, r) == IF j \in EmptyFiles THEN {} ELSE {r} \ {NoResult}

\* Row counts, summary and transactions come from one and the same run; no
\* rerun duplicates or mixes them; a completed job has a summary, and rows
\* unless its file has none to store.
ResultsAtomic ==
    \A j \in Jobs :
        /\ summary[j] = row_count[j]
        /\ ResultsOf(j) = RowsOf(j, summary[j])
        /\ status[j] = "completed" => summary[j] # NoResult

\* The claim check is good: a message is only published for a committed job,
\* and a committed job has its whole file, so no worker ever finds either
\* missing or truncated.
ClaimCheck ==
    \A j \in Jobs :
        /\ msgs[j] # "unsent" => status[j] # "absent"
        /\ status[j] # "absent" => files[j] = "full"

\* Late acknowledgement: while an accepted job is pending its message is still
\* in Redis, whatever crashes (holds unless a Phase A statement can fail).
PendingHasMessage ==
    \A j \in Jobs :
        upload[j] = "accepted" /\ status[j] = "pending"
            => msgs[j] \in {"ready", "unacked"}

\* A job that is processing is being processed (holds unless workers crash or
\* database calls fail).
ProcessingHasRunner ==
    \A j \in Jobs :
        status[j] = "processing" =>
            \E w \in Workers : task[w] = j /\ pc[w] \in Running

\* completed is final, and its results never change again (holds unless a
\* commit can be acknowledged wrongly).
CompletedIsFinal ==
    [][\A j \in Jobs :
        status[j] = "completed" =>
            /\ status'[j] = "completed"
            /\ summary'[j] = summary[j]
            /\ ResultsOf(j)' = ResultsOf(j)]_vars

\* The system implements the life cycle a client relies on.
Lifecycle ==
    INSTANCE JobLifecycle WITH
        state <- status, outcome <- summary, AckLoss <- "lostack" \in FaultKinds

ImplementsLifecycle == Lifecycle!Spec

\* ... with its fairness: every job created is started, and every start ends.
ImplementsFairLifecycle == Lifecycle!FairSpec

\* An accepted upload ends, and stays, completed or failed.
AcceptedTerminates ==
    \A j \in Jobs : upload[j] = "accepted" ~> [](status[j] \in Terminal)

\* Every message is consumed in the end, however often it was redelivered.
QueueDrains ==
    \A j \in Jobs : msgs[j] = "ready" ~> [](msgs[j] = "acked")

\* An accepted job does not stay pending, whoever crashes.
AcceptedIsClaimed ==
    \A j \in Jobs : upload[j] = "accepted" ~> [](status[j] # "pending")

-----------------------------------------------------------------------------
(***************************************************************************)
(* What a document of the repository says and the code does not do; a run   *)
(* that ends in a violation checks it.                                      *)
(***************************************************************************)
\* "a crashed task is re-run rather than silently lost" (DESIGN.md:364): a
\* job in processing ends.
ProcessingEnds ==
    \A j \in Jobs : status[j] = "processing" ~> status[j] \in Terminal

-----------------------------------------------------------------------------
(***************************************************************************)
(* The inductive invariant: what the properties above rest on.              *)
(***************************************************************************)
\* A worker has a task unless it is idle, and an outcome only to persist it.
TaskOK ==
    \A w \in Workers :
        /\ pc[w] = "idle" <=> task[w] = NoJob
        /\ pc[w] = "persist" => run[w] # NoResult
        /\ pc[w] # "idle" => msgs[task[w]] # "unsent"

\* The row lock is held exactly between Phase A's SELECT and its COMMIT, so
\* what Phase A read is still true when it decides.
LockOK ==
    /\ \A w \in Workers, j \in Jobs :
          row_lock[j] = w <=> pc[w] = "decide" /\ task[w] = j
    /\ \A w \in Workers :
          pc[w] = "decide" => seen[w] = status[task[w]] /\ seen[w] # "absent"

\* How far a request got determines what it has left behind.
RequestOK ==
    \A j \in Jobs :
        /\ upload[j] \in {"none", "flushed", "stored", "rejected"}
              => status[j] = "absent"
        /\ upload[j] = "stored" => files[j] = "full"
        /\ upload[j] = "committed" => status[j] = "pending" /\ msgs[j] = "unsent"
        /\ upload[j] = "accepted" => msgs[j] # "unsent"
        /\ msgs[j] = "unsent" => status[j] \in {"absent", "pending"}

\* Only a misreported commit takes a completed job into the except block.
LostOK ==
    \A w \in Workers :
        pc[w] = "fail" /\ status[task[w]] = "completed" => "lostack" \in FaultKinds

IInv ==
    /\ TypeOK
    /\ TaskOK
    /\ LockOK
    /\ RequestOK
    /\ LostOK
    /\ RunnerHasClaim
    /\ AtMostOneRunner
    /\ ErrorIffFailed
    /\ ResultsAtomic
    /\ ClaimCheck
=============================================================================
