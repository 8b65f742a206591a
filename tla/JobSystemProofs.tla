-------------------------- MODULE JobSystemProofs ---------------------------
(***************************************************************************)
(* What holds of JobSystem for any jobs, workers, results and faults.       *)
(*                                                                          *)
(* The argument: while a worker is between Phase A's SELECT and its COMMIT  *)
(* it owns the row lock (LockOK), so it decides on the status the row still *)
(* has; a claim therefore never meets another runner (AtMostOneRunner with  *)
(* RunnerHasClaim), and everything a runner commits it commits alone.       *)
(***************************************************************************)
EXTENDS JobSystem, TLAPS

(***************************************************************************)
(* Lemmas about the operators the actions are built from.                   *)
(***************************************************************************)
\* The budget of faults stays within its bounds.
LEMMA FaultsType ==
    ASSUME FaultsTypeOK, NEW k, Fault(k) \/ NoFault
    PROVE  FaultsTypeOK'
BY DeploymentAssumption DEF FaultsTypeOK, Fault, NoFault

\* Moving a worker keeps its variables typed.
LEMMA BecomesType ==
    ASSUME WorkerTypeOK,
           NEW w \in Workers, NEW p \in Running \cup {"idle", "lock", "decide", "ack"},
           NEW j \in Jobs \cup {NoJob}, NEW s \in JobStatus \cup {"absent"},
           NEW r \in Results \cup {NoResult},
           Becomes(w, p, j, s, r)
    PROVE  WorkerTypeOK'
BY DEF WorkerTypeOK, Becomes

\* persist_results leaves exactly the new run's rows - none of an empty file -
\* and other jobs' alone.
LEMMA ResultsReplaced ==
    ASSUME transactions \subseteq [job : Jobs, run : Results],
           NEW j \in Jobs, NEW r \in Results, PersistResults(j, r), NEW i \in Jobs
    PROVE  ResultsOf(i)' = IF i = j THEN RowsOf(j, r) ELSE ResultsOf(i)
<1>1. \A t \in transactions' : t.job = j => t.run = r /\ j \notin EmptyFiles
  BY DEF PersistResults, TransactionsKept, NewRows
<1>2. j \notin EmptyFiles => [job |-> j, run |-> r] \in transactions'
  BY DEF PersistResults, NewRows
<1>3. \A t : t.job # j => (t \in transactions' <=> t \in transactions)
  BY DEF PersistResults, TransactionsKept, NewRows
<1>4. CASE i = j
  <2> r # NoResult
    BY DeploymentAssumption
  <2>1. CASE j \in EmptyFiles
    <3>1. ResultsOf(j)' = {}
      BY <1>1, <2>1 DEF ResultsOf
    <3> QED
      BY <1>4, <2>1, <3>1 DEF RowsOf
  <2>2. CASE j \notin EmptyFiles
    <3>1. ResultsOf(j)' \subseteq {r} /\ r \in ResultsOf(j)'
      BY <1>1, <1>2, <2>2 DEF ResultsOf
    <3> QED
      BY <1>4, <2>2, <3>1 DEF RowsOf
  <2> QED
    BY <2>1, <2>2
<1>5. CASE i # j
  <2>1. {u \in transactions : u.job = i}' = {u \in transactions : u.job = i}
    BY <1>3, <1>5
  <2> QED
    BY <1>5, <2>1 DEF ResultsOf
<1> QED
  BY <1>4, <1>5

\* What ResultsAtomic says of one job survives what leaves its results alone.
LEMMA ResultsUntouched ==
    ASSUME ResultsAtomic, UNCHANGED <<row_count, results>>,
           \A j \in Jobs : status'[j] = "completed" => status[j] = "completed"
    PROVE  ResultsAtomic'
BY DEF ResultsAtomic, ResultsOf, RowsOf, results

(***************************************************************************)
(* Type correctness.  A worker only commits with a task and an outcome, so  *)
(* the step needs TaskOK.                                                   *)
(***************************************************************************)
LEMMA UploadTypeStep ==
    ASSUME TypeOK, NEW j \in Jobs, UploadNext(j), UNCHANGED workerVars
    PROVE  TypeOK'
<1> USE DEF TypeOK, UploadNext, UploadProgress, RejectUpload, CreateJob, StoreFile,
        StoreFileFails, CommitJob, CommitJobLost, UploadDbError, Enqueue,
        EnqueueFails, ApiCrash
<1>1. WorkerTypeOK'
  BY DEF WorkerTypeOK, workerVars
<1>2. FaultsTypeOK'
  BY FaultsType
<1>3. UploadTypeOK'
  BY DEF UploadTypeOK, Goes, InProgress
<1>4. QueueTypeOK'
  BY DEF QueueTypeOK, MsgStates, Publish
<1>5. StoreTypeOK'
  BY DEF StoreTypeOK, storeVars, jobRow, results, CommitNewJob, JobStatus
<1> QED
  BY <1>1, <1>2, <1>3, <1>4, <1>5

LEMMA WorkerTypeStep ==
    ASSUME TypeOK, TaskOK, NEW w \in Workers, WorkerNext(w), UNCHANGED upload
    PROVE  TypeOK'
<1> USE DEF TypeOK, WorkerNext, WorkerProgress, StartTask, LockJob, SkipJob, ClaimJob,
        PhaseAFails, ClaimCommitLost, RunPipeline, ProcessingFails, Persist,
        PersistCommitLost, RecordFailure, RecordFails, Ack, Crash
<1>1. UploadTypeOK'
  BY DEF UploadTypeOK
<1>2. FaultsTypeOK'
  BY FaultsType
<1>3. QueueTypeOK'
  BY DEF QueueTypeOK, MsgStates, Deliver, Acknowledge
<1>4. WorkerTypeOK'
  <2>1. PICK p \in Running \cup {"idle", "lock", "decide", "ack"},
             j \in Jobs \cup {NoJob}, s \in JobStatus \cup {"absent"},
             r \in Results \cup {NoResult} : Becomes(w, p, j, s, r)
    BY DEF WorkerTypeOK, StoreTypeOK, TaskOK, Running, GoesOn, BecomesIdle
  <2> QED
    BY <2>1, BecomesType
<1>5. StoreTypeOK'
  <2>1. pc[w] # "idle" => task[w] \in Jobs
    BY DEF WorkerTypeOK, TaskOK
  <2>2. pc[w] = "persist" => run[w] \in Results
    BY DEF WorkerTypeOK, TaskOK
  <2>3. CASE UNCHANGED storeVars
    BY <2>3 DEF StoreTypeOK, storeVars, jobRow, results
  <2>4. CASE LockJob(w) \/ SkipJob(w) \/ PhaseAFails(w) \/ Crash(w)
    BY <2>1, <2>4 DEF StoreTypeOK, jobRow, results, Release
  <2>5. CASE ClaimJob(w) \/ ClaimCommitLost(w)
    BY <2>1, <2>5 DEF StoreTypeOK, results, CommitClaim, Release, JobStatus
  <2>6. CASE Persist(w) \/ PersistCommitLost(w)
    <3>1. transactions' \subseteq [job : Jobs, run : Results]
      BY <2>1, <2>2, <2>6 DEF StoreTypeOK, CommitResults, PersistResults,
         TransactionsKept, NewRows
    <3> QED
      BY <2>1, <2>2, <2>6, <3>1 DEF StoreTypeOK, CommitResults, PersistResults, JobStatus
  <2>7. CASE RecordFailure(w)
    BY <2>1, <2>7 DEF StoreTypeOK, results, CommitFailure, JobStatus
  <2> QED
    BY <2>3, <2>4, <2>5, <2>6, <2>7
<1> QED
  BY <1>1, <1>2, <1>3, <1>4, <1>5

LEMMA BrokerTypeStep ==
    ASSUME TypeOK, NEW j \in Jobs, BrokerNext(j), UNCHANGED upload
    PROVE  TypeOK'
<1> USE DEF TypeOK, BrokerNext, RedeliverOrphan, VisibilityTimeout
<1>1. FaultsTypeOK'
  BY FaultsType
<1>2. QueueTypeOK'
  BY DEF QueueTypeOK, MsgStates, Restore
<1>3. StoreTypeOK' /\ UploadTypeOK' /\ WorkerTypeOK'
  BY DEF StoreTypeOK, UploadTypeOK, WorkerTypeOK, storeVars, jobRow, results, workerVars
<1> QED
  BY <1>1, <1>2, <1>3

(***************************************************************************)
(* Every step preserves the inductive invariant: one step per action.       *)
(***************************************************************************)
LEMMA InitIInv == Init => IInv
<1> SUFFICES ASSUME Init PROVE IInv
  OBVIOUS
<1> USE DEF Init, FaultsInit, StoreInit, QueueInit, UploadInit, WorkerInit
<1>1. TypeOK
  BY DeploymentAssumption DEF TypeOK, FaultsTypeOK, StoreTypeOK, QueueTypeOK, MsgStates,
     UploadTypeOK, WorkerTypeOK
<1>2. TaskOK /\ LockOK /\ RequestOK /\ LostOK
  BY DeploymentAssumption DEF TaskOK, LockOK, RequestOK, LostOK
<1>3. RunnerHasClaim /\ AtMostOneRunner /\ ErrorIffFailed /\ ClaimCheck
  BY DEF RunnerHasClaim, AtMostOneRunner, Running, ErrorIffFailed, ClaimCheck
<1>4. ResultsAtomic
  BY DEF ResultsAtomic, ResultsOf, RowsOf
<1> QED
  BY <1>1, <1>2, <1>3, <1>4 DEF IInv

LEMMA UploadStep ==
    ASSUME IInv, NEW j \in Jobs, UploadNext(j), UNCHANGED workerVars
    PROVE  IInv'
<1> DEFINE Rest == /\ TaskOK /\ LockOK /\ RequestOK /\ LostOK /\ RunnerHasClaim
                   /\ AtMostOneRunner /\ ErrorIffFailed /\ ClaimCheck
<1>1. TypeOK'
  BY UploadTypeStep DEF IInv
<1>2. ResultsAtomic'
  <2>1. UNCHANGED <<row_count, results>>
    BY DEF UploadNext, UploadProgress, RejectUpload, CreateJob, StoreFile, StoreFileFails,
       CommitJob, CommitJobLost, UploadDbError, Enqueue, EnqueueFails, ApiCrash,
       storeVars, jobRow, CommitNewJob
  <2>2. \A i \in Jobs : status'[i] = "completed" => status[i] = "completed"
    BY DEF UploadNext, UploadProgress, RejectUpload, CreateJob, StoreFile, StoreFileFails,
       CommitJob, CommitJobLost, UploadDbError, Enqueue, EnqueueFails, ApiCrash,
       storeVars, jobRow, CommitNewJob, IInv, TypeOK, StoreTypeOK
  <2> QED
    BY <2>1, <2>2, ResultsUntouched DEF IInv
<1>3. Rest'
  <2> USE DeploymentAssumption DEF IInv, TypeOK, StoreTypeOK, QueueTypeOK, UploadTypeOK,
          WorkerTypeOK, TaskOK, LockOK, RequestOK, LostOK, RunnerHasClaim,
          AtMostOneRunner, ErrorIffFailed, ClaimCheck, Running, InProgress,
          storeVars, jobRow, results, workerVars, Goes
  <2>1. CASE RejectUpload(j)
    BY <2>1 DEF RejectUpload
  <2>2. CASE CreateJob(j)
    BY <2>2 DEF CreateJob
  <2>3. CASE StoreFile(j)
    BY <2>3 DEF StoreFile
  <2>4. CASE StoreFileFails(j)
    BY <2>4 DEF StoreFileFails
  <2>5. CASE CommitJob(j)
    BY <2>5 DEF CommitJob, CommitNewJob
  <2>6. CASE CommitJobLost(j)
    BY <2>6 DEF CommitJobLost, CommitNewJob
  <2>7. CASE UploadDbError(j)
    BY <2>7 DEF UploadDbError
  <2>8. CASE Enqueue(j)
    BY <2>8 DEF Enqueue, Publish
  <2>9. CASE EnqueueFails(j)
    BY <2>9 DEF EnqueueFails, Publish
  <2>10. CASE ApiCrash(j)
    BY <2>10 DEF ApiCrash
  <2> QED
    BY <2>1, <2>2, <2>3, <2>4, <2>5, <2>6, <2>7, <2>8, <2>9, <2>10
       DEF UploadNext, UploadProgress
<1> QED
  BY <1>1, <1>2, <1>3 DEF IInv

LEMMA WorkerStep ==
    ASSUME IInv, NEW w \in Workers, WorkerNext(w), UNCHANGED upload
    PROVE  IInv'
<1> DEFINE Rest == /\ TaskOK /\ LockOK /\ RequestOK /\ LostOK /\ RunnerHasClaim
                   /\ AtMostOneRunner /\ ErrorIffFailed /\ ClaimCheck
<1>1. TypeOK'
  BY WorkerTypeStep DEF IInv
<1>2. ResultsAtomic'
  <2>1. pc[w] # "idle" => task[w] \in Jobs
    BY DEF IInv, TypeOK, WorkerTypeOK, TaskOK
  <2>2. CASE Persist(w) \/ PersistCommitLost(w)
    <3>1. run[w] \in Results /\ task[w] \in Jobs
      BY <2>1, <2>2 DEF Persist, PersistCommitLost, IInv, TypeOK, WorkerTypeOK, TaskOK
    <3>2. CommitResults(task[w], run[w])
      BY <2>2 DEF Persist, PersistCommitLost
    <3>3. \A i \in Jobs :
            ResultsOf(i)' = IF i = task[w] THEN RowsOf(i, run[w]) ELSE ResultsOf(i)
      BY <3>1, <3>2, ResultsReplaced DEF CommitResults, IInv, TypeOK, StoreTypeOK
    <3> QED
      BY <3>1, <3>2, <3>3, DeploymentAssumption
         DEF CommitResults, PersistResults, ResultsAtomic, IInv, TypeOK, StoreTypeOK
  <2>3. CASE ~(Persist(w) \/ PersistCommitLost(w))
    <3>1. UNCHANGED <<row_count, results>>
      BY <2>3 DEF WorkerNext, WorkerProgress, StartTask, LockJob, SkipJob, ClaimJob,
         PhaseAFails, ClaimCommitLost, RunPipeline, ProcessingFails, RecordFailure,
         RecordFails, Ack, Crash, storeVars, jobRow, CommitClaim, CommitFailure
    <3>2. \A i \in Jobs : status'[i] = "completed" => status[i] = "completed"
      BY <2>1, <2>3 DEF WorkerNext, WorkerProgress, StartTask, LockJob, SkipJob,
         ClaimJob, PhaseAFails, ClaimCommitLost, RunPipeline, ProcessingFails,
         RecordFailure, RecordFails, Ack, Crash, storeVars, jobRow, CommitClaim,
         CommitFailure, IInv, TypeOK, StoreTypeOK
    <3> QED
      BY <3>1, <3>2, ResultsUntouched DEF IInv
  <2> QED
    BY <2>2, <2>3
<1>3. Rest'
  <2> USE DeploymentAssumption DEF IInv, TypeOK, StoreTypeOK, QueueTypeOK, UploadTypeOK,
          WorkerTypeOK, TaskOK, LockOK, RequestOK, LostOK, RunnerHasClaim,
          AtMostOneRunner, ErrorIffFailed, ClaimCheck, Running, JobStatus,
          storeVars, jobRow, results, Becomes, GoesOn, BecomesIdle
  <2>1. CASE \E j \in Jobs : StartTask(w, j)
    BY <2>1 DEF StartTask, Deliver
  <2>2. CASE LockJob(w)
    BY <2>2 DEF LockJob, Unlocked
  <2>3. CASE SkipJob(w)
    BY <2>3 DEF SkipJob, Release
  <2>4. CASE ClaimJob(w)
    BY <2>4 DEF ClaimJob, MustSkip, CommitClaim, Release
  <2>5. CASE PhaseAFails(w)
    BY <2>5 DEF PhaseAFails, Release
  <2>6. CASE ClaimCommitLost(w)
    BY <2>6 DEF ClaimCommitLost, MustSkip, CommitClaim, Release
  <2>7. CASE RunPipeline(w)
    BY <2>7 DEF RunPipeline
  <2>8. CASE ProcessingFails(w)
    BY <2>8 DEF ProcessingFails
  <2>9. CASE Persist(w)
    BY <2>9 DEF Persist, Unlocked, CommitResults, PersistResults
  <2>10. CASE PersistCommitLost(w)
    BY <2>10 DEF PersistCommitLost, Fault, Unlocked, CommitResults, PersistResults
  <2>11. CASE RecordFailure(w)
    BY <2>11 DEF RecordFailure, Unlocked, CommitFailure
  <2>12. CASE RecordFails(w)
    BY <2>12 DEF RecordFails
  <2>13. CASE Ack(w)
    BY <2>13 DEF Ack, Acknowledge
  <2>14. CASE Crash(w)
    BY <2>14 DEF Crash, Release
  <2> QED
    BY <2>1, <2>2, <2>3, <2>4, <2>5, <2>6, <2>7, <2>8, <2>9, <2>10, <2>11, <2>12,
       <2>13, <2>14 DEF WorkerNext, WorkerProgress
<1> QED
  BY <1>1, <1>2, <1>3 DEF IInv

LEMMA BrokerStep ==
    ASSUME IInv, NEW j \in Jobs, BrokerNext(j), UNCHANGED upload
    PROVE  IInv'
<1>1. TypeOK'
  BY BrokerTypeStep DEF IInv
<1>2. UNCHANGED <<jobRow, results, row_lock, files, workerVars>> /\ Restore(j)
  BY DEF BrokerNext, RedeliverOrphan, VisibilityTimeout, storeVars
<1>3. ResultsAtomic'
  BY <1>2, ResultsUntouched DEF IInv, jobRow
<1>4. TaskOK' /\ RequestOK' /\ ClaimCheck'
  BY <1>2 DEF IInv, TypeOK, QueueTypeOK, Restore, jobRow, workerVars, TaskOK, RequestOK,
     ClaimCheck
<1>5. LockOK' /\ LostOK' /\ RunnerHasClaim' /\ AtMostOneRunner' /\ ErrorIffFailed'
  BY <1>2 DEF IInv, jobRow, workerVars, LockOK, LostOK, RunnerHasClaim, AtMostOneRunner,
     ErrorIffFailed
<1> QED
  BY <1>1, <1>3, <1>4, <1>5 DEF IInv

LEMMA StepIInv == IInv /\ [Next]_vars => IInv'
<1> SUFFICES ASSUME IInv, [Next]_vars PROVE IInv'
  OBVIOUS
<1>1. CASE UNCHANGED vars
  <2>1. ResultsAtomic'
    BY <1>1, ResultsUntouched DEF vars, storeVars, jobRow, IInv
  <2>2. TypeOK'
    BY <1>1 DEF vars, storeVars, jobRow, results, workerVars, IInv, TypeOK, FaultsTypeOK,
       StoreTypeOK, QueueTypeOK, UploadTypeOK, WorkerTypeOK
  <2> QED
    BY <1>1, <2>1, <2>2 DEF vars, storeVars, jobRow, workerVars, IInv, TaskOK, LockOK,
       RequestOK, LostOK, RunnerHasClaim, AtMostOneRunner, ErrorIffFailed, ClaimCheck
<1>2. CASE Quiescent /\ UNCHANGED vars
  BY <1>1, <1>2
<1>3. CASE \E j \in Jobs : UploadNext(j) /\ UNCHANGED workerVars
  BY <1>3, UploadStep
<1>4. CASE \E w \in Workers : WorkerNext(w) /\ UNCHANGED upload
  BY <1>4, WorkerStep
<1>5. CASE \E j \in Jobs : BrokerNext(j) /\ UNCHANGED upload
  BY <1>5, BrokerStep
<1> QED
  BY <1>1, <1>2, <1>3, <1>4, <1>5 DEF Next

(***************************************************************************)
(* Theorems.                                                                *)
(***************************************************************************)
\* IInv is an invariant: together with the parts below, what the run
\* "all_faults" checks on two jobs and two workers.
THEOREM Invariant == Spec => []IInv
BY InitIInv, StepIInv, PTL DEF Spec

\* Every variable stays in its type.
THEOREM TypeCorrect == Spec => []TypeOK
BY Invariant, PTL DEF IInv

\* At most one worker at a time runs a job, however often the broker delivers
\* its message and whichever worker crashes (the guard of process_job).
THEOREM MutualExclusion == Spec => []AtMostOneRunner
BY Invariant, PTL DEF IInv

\* A worker that runs a job finds the job claimed.
THEOREM ClaimHolds == Spec => []RunnerHasClaim
BY Invariant, PTL DEF IInv

\* error_message is set exactly on failed jobs.
THEOREM ErrorsExplainFailures == Spec => []ErrorIffFailed
BY Invariant, PTL DEF IInv

\* Row counts, summary and transactions are always those of one run.
THEOREM ResultsAreAtomic == Spec => []ResultsAtomic
BY Invariant, PTL DEF IInv

\* A message is only published for a committed job whose file is complete.
THEOREM ClaimCheckIsGood == Spec => []ClaimCheck
BY Invariant, PTL DEF IInv

(***************************************************************************)
(* What a step does to a job as its client sees it.                         *)
(***************************************************************************)
\* A job's status and summary change only along the edges of the life cycle.
LEMMA LifecycleStep ==
    ASSUME IInv, [Next]_vars
    PROVE  [Lifecycle!Next]_(Lifecycle!vars)
<1> USE DEF Lifecycle!vars, Lifecycle!Next, Lifecycle!Moves
<1>1. CASE UNCHANGED vars
  BY <1>1 DEF vars, storeVars, jobRow, results
<1>2. ASSUME NEW j \in Jobs, UploadNext(j)
      PROVE  Lifecycle!Create(j) \/ UNCHANGED <<status, summary>>
  BY <1>2 DEF Lifecycle!Create, UploadNext, UploadProgress, RejectUpload, CreateJob,
     StoreFile, StoreFileFails, CommitJob, CommitJobLost, UploadDbError, Enqueue,
     EnqueueFails, ApiCrash, CommitNewJob, Goes, storeVars, jobRow, results, IInv, RequestOK
<1>3. ASSUME NEW w \in Workers, WorkerNext(w)
      PROVE  \/ UNCHANGED <<status, summary>>
             \/ \E j \in Jobs : \/ Lifecycle!Start(j) \/ Lifecycle!Retry(j)
                                \/ Lifecycle!Complete(j) \/ Lifecycle!Fail(j)
                                \/ Lifecycle!Retract(j)
  <2>1. pc[w] # "idle" => task[w] \in Jobs
    BY DEF IInv, TypeOK, WorkerTypeOK, TaskOK
  <2>2. CASE ClaimJob(w) \/ ClaimCommitLost(w)
    <3>1. status[task[w]] \in {"pending", "failed"}
      BY <2>1, <2>2 DEF ClaimJob, ClaimCommitLost, MustSkip, IInv, LockOK, TypeOK,
         StoreTypeOK, JobStatus
    <3> QED
      BY <2>1, <2>2, <3>1 DEF ClaimJob, ClaimCommitLost, CommitClaim, results,
         Lifecycle!Start, Lifecycle!Retry
  <2>3. CASE Persist(w) \/ PersistCommitLost(w)
    <3>1. status[task[w]] = "processing" /\ run[w] \in Results /\ task[w] \in Jobs
      BY <2>1, <2>3 DEF Persist, PersistCommitLost, IInv, TypeOK, WorkerTypeOK, TaskOK,
         RunnerHasClaim
    <3> QED
      BY <2>3, <3>1 DEF Persist, PersistCommitLost, CommitResults, PersistResults,
         Lifecycle!Complete
  <2>4. CASE RecordFailure(w)
    <3>1. \/ status[task[w]] = "processing"
          \/ status[task[w]] = "completed" /\ "lostack" \in FaultKinds
      BY <2>4 DEF RecordFailure, IInv, RunnerHasClaim, LostOK
    <3> QED
      BY <2>1, <2>4, <3>1 DEF RecordFailure, CommitFailure, results, Lifecycle!Fail,
         Lifecycle!Retract
  <2>5. CASE ~(\/ ClaimJob(w) \/ ClaimCommitLost(w) \/ Persist(w)
               \/ PersistCommitLost(w) \/ RecordFailure(w))
    BY <1>3, <2>5 DEF WorkerNext, WorkerProgress, StartTask, LockJob, SkipJob, PhaseAFails,
       RunPipeline, ProcessingFails, RecordFails, Ack, Crash, storeVars, jobRow, results
  <2> QED
    BY <2>2, <2>3, <2>4, <2>5
<1>4. ASSUME NEW j \in Jobs, BrokerNext(j) PROVE UNCHANGED <<status, summary>>
  BY <1>4 DEF BrokerNext, RedeliverOrphan, VisibilityTimeout, storeVars, jobRow, results
<1> QED
  BY <1>1, <1>2, <1>3, <1>4 DEF Next

\* The system implements the life cycle of JobLifecycle: no queue, worker,
\* crash or fault shows a client a transition the life cycle does not have.
THEOREM Refinement == Spec => ImplementsLifecycle
<1>1. Init => Lifecycle!Init
  BY DEF Init, StoreInit, Lifecycle!Init
<1> QED
  BY <1>1, LifecycleStep, Invariant, PTL DEF Spec, ImplementsLifecycle, Lifecycle!Spec

\* What a step may not do to a completed job.
KeepsCompleted ==
    \A j \in Jobs :
        status[j] = "completed" =>
            /\ status'[j] = "completed"
            /\ summary'[j] = summary[j]
            /\ ResultsOf(j)' = ResultsOf(j)

LEMMA CompletedStep ==
    ASSUME "lostack" \notin FaultKinds, IInv, [Next]_vars PROVE KeepsCompleted
<1> SUFFICES ASSUME NEW j \in Jobs, status[j] = "completed"
             PROVE  /\ status'[j] = "completed"
                    /\ summary'[j] = summary[j]
                    /\ ResultsOf(j)' = ResultsOf(j)
  BY DEF KeepsCompleted
<1>1. /\ status'[j] = "completed"
      /\ summary'[j] = summary[j]
  <2>1. [Lifecycle!Next]_(Lifecycle!vars)
    BY LifecycleStep
  <2> QED
    BY <2>1 DEF Lifecycle!Next, Lifecycle!vars, Lifecycle!Moves, Lifecycle!Create,
       Lifecycle!Start, Lifecycle!Retry, Lifecycle!Complete, Lifecycle!Fail,
       Lifecycle!Retract, IInv, TypeOK, StoreTypeOK
<1>2. ResultsOf(j)' = ResultsOf(j)
  <2>1. IInv' /\ ResultsAtomic /\ ResultsAtomic'
    BY StepIInv DEF IInv
  <2> QED
    BY <1>1, <2>1 DEF ResultsAtomic
<1> QED
  BY <1>1, <1>2

\* Where commits are acknowledged correctly, a completed job stays completed
\* and keeps its results.
THEOREM CompletedStays ==
    ASSUME "lostack" \notin FaultKinds
    PROVE  Spec => CompletedIsFinal
<1>1. ASSUME IInv, [Next]_vars PROVE [KeepsCompleted]_vars
  BY <1>1, CompletedStep
<1> QED
  BY <1>1, Invariant, PTL DEF Spec, CompletedIsFinal, KeepsCompleted

(***************************************************************************)
(* Nothing is lost where the faults that lose it are excluded.              *)
(***************************************************************************)
\* A task that ends has taken its job out of pending.
AckedIsClaimed == \A w \in Workers : pc[w] = "ack" => status[task[w]] # "pending"

\* Unless database calls fail, the message of an accepted job stays in Redis
\* as long as the job is pending: late acknowledgement works through crashes,
\* redeliveries and visibility timeouts.
THEOREM NoPendingJobForgotten ==
    ASSUME "db" \notin FaultKinds
    PROVE  Spec => []PendingHasMessage
<1> DEFINE J == IInv /\ AckedIsClaimed /\ PendingHasMessage
<1>1. Init => J
  <2> SUFFICES ASSUME Init PROVE AckedIsClaimed /\ PendingHasMessage
    BY InitIInv
  <2> QED
    BY DEF Init, StoreInit, UploadInit, WorkerInit, AckedIsClaimed, PendingHasMessage
<1>2. J /\ [Next]_vars => J'
  <2> SUFFICES ASSUME J, [Next]_vars PROVE AckedIsClaimed' /\ PendingHasMessage'
    BY StepIInv
  <2> USE DEF AckedIsClaimed, PendingHasMessage, storeVars, jobRow, workerVars
  <2>1. CASE UNCHANGED vars
    BY <2>1 DEF vars
  <2>2. ASSUME NEW j \in Jobs, UploadNext(j), UNCHANGED workerVars
        PROVE  AckedIsClaimed' /\ PendingHasMessage'
    BY <2>2 DEF UploadNext, UploadProgress, RejectUpload, CreateJob, StoreFile,
       StoreFileFails, CommitJob, CommitJobLost, UploadDbError, Enqueue, EnqueueFails,
       ApiCrash, CommitNewJob, Publish, Goes, IInv, TypeOK, StoreTypeOK, QueueTypeOK,
       UploadTypeOK, WorkerTypeOK, TaskOK, RequestOK, ClaimCheck
  <2>3. ASSUME NEW w \in Workers, WorkerNext(w), UNCHANGED upload
        PROVE  AckedIsClaimed' /\ PendingHasMessage'
    <3> USE DEF IInv, TypeOK, StoreTypeOK, QueueTypeOK, WorkerTypeOK, TaskOK, LockOK,
            ClaimCheck, Becomes, GoesOn, BecomesIdle
    <3>1. CASE \E j \in Jobs : StartTask(w, j)
      BY <2>3, <3>1 DEF StartTask, Deliver
    <3>2. CASE LockJob(w) \/ SkipJob(w)
      BY <2>3, <3>2 DEF LockJob, SkipJob, MustSkip
    <3>3. CASE ClaimJob(w) \/ ClaimCommitLost(w)
      BY <2>3, <3>3 DEF ClaimJob, ClaimCommitLost, CommitClaim
    <3>4. CASE RunPipeline(w) \/ ProcessingFails(w)
      BY <2>3, <3>4 DEF RunPipeline, ProcessingFails
    <3>5. CASE Persist(w) \/ PersistCommitLost(w)
      BY <2>3, <3>5 DEF Persist, PersistCommitLost, CommitResults
    <3>6. CASE RecordFailure(w)
      BY <2>3, <3>6 DEF RecordFailure, CommitFailure
    <3>7. CASE Ack(w)
      BY <2>3, <3>7, DeploymentAssumption DEF Ack, Acknowledge
    <3>8. CASE Crash(w)
      BY <2>3, <3>8 DEF Crash
    <3>9. ~PhaseAFails(w) /\ ~RecordFails(w)
      BY DEF PhaseAFails, RecordFails, Fault
    <3> QED
      BY <2>3, <3>1, <3>2, <3>3, <3>4, <3>5, <3>6, <3>7, <3>8, <3>9
         DEF WorkerNext, WorkerProgress
  <2>4. ASSUME NEW j \in Jobs, BrokerNext(j), UNCHANGED upload
        PROVE  AckedIsClaimed' /\ PendingHasMessage'
    BY <2>4 DEF BrokerNext, RedeliverOrphan, VisibilityTimeout, Restore, IInv, TypeOK,
       QueueTypeOK
  <2> QED
    BY <2>1, <2>2, <2>3, <2>4 DEF Next
<1> QED
  BY <1>1, <1>2, PTL DEF Spec

\* Unless workers crash or database calls fail, a processing job has a worker
\* processing it: nobody waits for a job that nobody works on.
THEOREM NoProcessingJobAbandoned ==
    ASSUME FaultKinds \cap {"crash", "db", "lostack"} = {}
    PROVE  Spec => []ProcessingHasRunner
<1> DEFINE J == IInv /\ ProcessingHasRunner
<1>1. Init => J
  BY InitIInv DEF Init, StoreInit, ProcessingHasRunner
<1>2. J /\ [Next]_vars => J'
  <2> SUFFICES ASSUME J, [Next]_vars PROVE ProcessingHasRunner'
    BY StepIInv
  <2> USE DEF ProcessingHasRunner, Running, storeVars, jobRow, workerVars
  <2>1. CASE UNCHANGED vars
    BY <2>1 DEF vars
  <2>2. ASSUME NEW j \in Jobs, UploadNext(j), UNCHANGED workerVars
        PROVE  ProcessingHasRunner'
    BY <2>2 DEF UploadNext, UploadProgress, RejectUpload, CreateJob, StoreFile,
       StoreFileFails, CommitJob, CommitJobLost, UploadDbError, Enqueue, EnqueueFails,
       ApiCrash, CommitNewJob, IInv, TypeOK, StoreTypeOK
  <2>3. ASSUME NEW w \in Workers, WorkerNext(w), UNCHANGED upload
        PROVE  ProcessingHasRunner'
    <3> USE DEF IInv, TypeOK, StoreTypeOK, WorkerTypeOK, TaskOK, Becomes, GoesOn,
            BecomesIdle
    <3>1. CASE \E j \in Jobs : StartTask(w, j)
      BY <2>3, <3>1 DEF StartTask
    <3>2. CASE LockJob(w) \/ SkipJob(w)
      BY <2>3, <3>2 DEF LockJob, SkipJob
    <3>3. CASE ClaimJob(w)
      BY <2>3, <3>3 DEF ClaimJob, CommitClaim
    <3>4. CASE RunPipeline(w) \/ ProcessingFails(w)
      BY <2>3, <3>4 DEF RunPipeline, ProcessingFails
    <3>5. CASE Persist(w) \/ RecordFailure(w)
      BY <2>3, <3>5 DEF Persist, RecordFailure, CommitResults, CommitFailure
    <3>6. CASE Ack(w)
      BY <2>3, <3>6 DEF Ack
    <3>7. /\ ~PhaseAFails(w) /\ ~RecordFails(w) /\ ~Crash(w)
          /\ ~ClaimCommitLost(w) /\ ~PersistCommitLost(w)
      BY DEF PhaseAFails, RecordFails, Crash, ClaimCommitLost, PersistCommitLost, Fault
    <3> QED
      BY <2>3, <3>1, <3>2, <3>3, <3>4, <3>5, <3>6, <3>7 DEF WorkerNext, WorkerProgress
  <2>4. ASSUME NEW j \in Jobs, BrokerNext(j), UNCHANGED upload
        PROVE  ProcessingHasRunner'
    BY <2>4 DEF BrokerNext, RedeliverOrphan, VisibilityTimeout
  <2> QED
    BY <2>1, <2>2, <2>3, <2>4 DEF Next
<1> QED
  BY <1>1, <1>2, PTL DEF Spec
=============================================================================
