------------------------------ MODULE JobStore ------------------------------
(***************************************************************************)
(* What the API and the workers share: the PostgreSQL tables (app/models,   *)
(* app/repositories, app/services/persistence.py) and the upload volume.    *)
(* A table is a function from the job to its columns; status "absent" means *)
(* there is no committed row.  An action below is one committed             *)
(* transaction, so it changes everything it writes in one step.             *)
(*                                                                          *)
(* The outcome of one pipeline run is a member r of Results: it stands for  *)
(* the row counts, the batch of transactions and the summary that run       *)
(* computed (two runs over one file may differ: they ask an LLM).  Which    *)
(* rows are storable depends on the file alone, so a run over a file of     *)
(* EmptyFiles writes its summary and no transaction.                        *)
(***************************************************************************)
EXTENDS Deployment

VARIABLES
    status,         \* jobs.status, or "absent"
    error_message,  \* jobs.error_message IS NOT NULL
    completed_at,   \* jobs.completed_at IS NOT NULL
    row_count,      \* the run jobs.row_count_raw/_clean come from
    transactions,   \* rows of transactions, each with the run that wrote it
    summary,        \* the run job_summaries' row comes from (job_id is UNIQUE)
    row_lock,       \* who holds SELECT ... FOR UPDATE on the job's row
    files           \* the job's file in UPLOAD_DIR

jobRow    == <<status, error_message, completed_at, row_count>>
results   == <<transactions, summary>>
storeVars == <<jobRow, results, row_lock, files>>

JobStatus == {"pending", "processing", "completed", "failed"}
Terminal  == {"completed", "failed"}

StoreTypeOK ==
    /\ status \in [Jobs -> JobStatus \cup {"absent"}]
    /\ error_message \in [Jobs -> BOOLEAN]
    /\ completed_at \in [Jobs -> BOOLEAN]
    /\ row_count \in [Jobs -> Results \cup {NoResult}]
    /\ transactions \subseteq [job : Jobs, run : Results]
    /\ summary \in [Jobs -> Results \cup {NoResult}]
    /\ row_lock \in [Jobs -> Workers \cup {NoWorker}]
    /\ files \in [Jobs -> {"none", "partial", "full"}]

StoreInit ==
    /\ status = [j \in Jobs |-> "absent"]
    /\ error_message = [j \in Jobs |-> FALSE]
    /\ completed_at = [j \in Jobs |-> FALSE]
    /\ row_count = [j \in Jobs |-> NoResult]
    /\ transactions = {}
    /\ summary = [j \in Jobs |-> NoResult]
    /\ row_lock = [j \in Jobs |-> NoWorker]
    /\ files = [j \in Jobs |-> "none"]

-----------------------------------------------------------------------------
\* Mutant: a SELECT without FOR UPDATE.
UnlockedAlways(j) == TRUE

\* An UPDATE of the row waits for a FOR UPDATE lock somebody else holds.
Unlocked(j) == row_lock[j] = NoWorker

\* A connection that ends (COMMIT, ROLLBACK or a lost process) frees its locks.
Release(j) == row_lock' = [row_lock EXCEPT ![j] = NoWorker]

\* The INSERT of a pending job becomes visible.
CommitNewJob(j) ==
    /\ status' = [status EXCEPT ![j] = "pending"]
    /\ UNCHANGED <<error_message, completed_at, row_count, results, row_lock>>

\* Mutant: the error of an earlier failure stays.
CommitClaimKeepsError(j) ==
    /\ status' = [status EXCEPT ![j] = "processing"]
    /\ Release(j)
    /\ UNCHANGED <<error_message, completed_at, row_count, results, files>>

\* Phase A: pending or failed -> processing; completed_at keeps its value.
CommitClaim(j) ==
    /\ status' = [status EXCEPT ![j] = "processing"]
    /\ error_message' = [error_message EXCEPT ![j] = FALSE]
    /\ Release(j)
    /\ UNCHANGED <<completed_at, row_count, results, files>>

\* Mutant: a rerun inserts without deleting.
TransactionsAllKept(j) == transactions

\* DELETE FROM transactions WHERE job_id = j: the rows that survive.
TransactionsKept(j) == {t \in transactions : t.job # j}

\* The batch of rows a run inserts: none if cleaning kept none.
NewRows(j, r) == IF j \in EmptyFiles THEN {} ELSE {[job |-> j, run |-> r]}

\* Mutant: the old summary is deleted and no new one is added.
PersistWithoutSummary(j, r) ==
    /\ transactions' = TransactionsKept(j) \cup NewRows(j, r)
    /\ summary' = [summary EXCEPT ![j] = NoResult]
    /\ row_count' = [row_count EXCEPT ![j] = r]

\* DELETE then INSERT, and the row counts on the job.
PersistResults(j, r) ==
    /\ transactions' = TransactionsKept(j) \cup NewRows(j, r)
    /\ summary' = [summary EXCEPT ![j] = r]
    /\ row_count' = [row_count EXCEPT ![j] = r]

\* Phase C: the results and status = completed, in one COMMIT.
CommitResults(j, r) ==
    /\ PersistResults(j, r)
    /\ status' = [status EXCEPT ![j] = "completed"]
    /\ completed_at' = [completed_at EXCEPT ![j] = TRUE]
    /\ UNCHANGED <<error_message, row_lock, files>>

\* Mutant: the except block forgets to commit.
CommitFailureForgotten(j) == UNCHANGED <<jobRow, results, row_lock, files>>

\* The except block: failed, whatever the status was.
CommitFailure(j) ==
    /\ status' = [status EXCEPT ![j] = "failed"]
    /\ error_message' = [error_message EXCEPT ![j] = TRUE]
    /\ completed_at' = [completed_at EXCEPT ![j] = TRUE]
    /\ UNCHANGED <<row_count, results, row_lock, files>>
=============================================================================
