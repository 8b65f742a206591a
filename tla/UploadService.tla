--------------------------- MODULE UploadService ----------------------------
(***************************************************************************)
(* POST /jobs: upload_job (app/api/routes_jobs.py) and                      *)
(* create_job_from_upload (app/services/job_service.py).  A job stands for  *)
(* one upload request; upload[j] is how far the request got.  The handler   *)
(* is a coroutine that never awaits once the body is read, so one API       *)
(* process runs at most one of them at a time.                              *)
(*                                                                          *)
(*   none -> flushed -> stored -> committed -> accepted (202)               *)
(*   rejected (4xx): nothing committed;  error (5xx or no answer)           *)
(***************************************************************************)
EXTENDS JobStore, TaskQueue

VARIABLE upload

InProgress == {"flushed", "stored", "committed"}

UploadTypeOK ==
    upload \in [Jobs -> InProgress \cup {"none", "accepted", "rejected", "error"}]

UploadInit == upload = [j \in Jobs |-> "none"]

EventLoopFree == \A j \in Jobs : upload[j] \notin InProgress

Goes(j, from, to) ==
    /\ upload[j] = from
    /\ upload' = [upload EXCEPT ![j] = to]

\* Extension, size or header is wrong: 4xx before anything is written.
RejectUpload(j) ==
    /\ EventLoopFree
    /\ Goes(j, "none", "rejected")
    /\ NoFault /\ UNCHANGED <<storeVars, msgs>>

\* Mutant: create_job commits instead of flushing.
CreateJobCommits(j) ==
    /\ EventLoopFree
    /\ Goes(j, "none", "flushed")
    /\ CommitNewJob(j)
    /\ NoFault /\ UNCHANGED <<files, msgs>>

\* INSERT and flush inside the open transaction: the row is not visible yet.
CreateJob(j) ==
    /\ EventLoopFree
    /\ Goes(j, "none", "flushed")
    /\ NoFault /\ UNCHANGED <<storeVars, msgs>>

StoreFile(j) ==
    /\ Goes(j, "flushed", "stored")
    /\ files' = [files EXCEPT ![j] = "full"]
    /\ NoFault /\ UNCHANGED <<jobRow, results, row_lock, msgs>>

\* OSError: the row is rolled back; write_bytes may have left part of the file.
StoreFileFails(j) ==
    /\ Fault("disk")
    /\ Goes(j, "flushed", "rejected")
    /\ \E f \in {"none", "partial"} : files' = [files EXCEPT ![j] = f]
    /\ UNCHANGED <<jobRow, results, row_lock, msgs>>

CommitJob(j) ==
    /\ Goes(j, "stored", "committed")
    /\ CommitNewJob(j)
    /\ NoFault /\ UNCHANGED <<files, msgs>>

\* The COMMIT went through but the handler sees an exception: 500, no message.
CommitJobLost(j) ==
    /\ Fault("lostack")
    /\ Goes(j, "stored", "error")
    /\ CommitNewJob(j)
    /\ UNCHANGED <<files, msgs>>

\* Any other statement (INSERT, COMMIT, the refresh after it) raises: 500.
UploadDbError(j) ==
    /\ Fault("db")
    /\ \/ EventLoopFree /\ Goes(j, "none", "error")
       \/ Goes(j, "stored", "error")
       \/ Goes(j, "committed", "error")
    /\ UNCHANGED <<storeVars, msgs>>

Enqueue(j) ==
    /\ Goes(j, "committed", "accepted")
    /\ Publish(j)
    /\ NoFault /\ UNCHANGED storeVars

\* delay() raises: 500 for a job that is committed, and maybe even enqueued.
EnqueueFails(j) ==
    /\ Fault("broker")
    /\ Goes(j, "committed", "error")
    /\ Publish(j) \/ UNCHANGED msgs
    /\ UNCHANGED storeVars

\* The process dies: an open transaction is gone, a file half written stays.
ApiCrash(j) ==
    /\ Fault("apicrash")
    /\ \E s \in InProgress : Goes(j, s, "error")
    /\ \/ UNCHANGED files
       \/ upload[j] = "flushed" /\ files' = [files EXCEPT ![j] = "partial"]
    /\ UNCHANGED <<jobRow, results, row_lock, msgs>>

\* What the request does unless something fails.
UploadProgress(j) == StoreFile(j) \/ CommitJob(j) \/ Enqueue(j)

UploadNext(j) ==
    \/ RejectUpload(j) \/ CreateJob(j) \/ UploadProgress(j)
    \/ StoreFileFails(j) \/ CommitJobLost(j) \/ UploadDbError(j)
    \/ EnqueueFails(j) \/ ApiCrash(j)
=============================================================================
