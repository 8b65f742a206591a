----------------------------- MODULE JobQueries -----------------------------
(***************************************************************************)
(* GET /jobs/{id}/status and GET /jobs/{id}/results (app/api/routes_jobs.py *)
(* with the repositories they call), beside uploads and workers.  The       *)
(* session runs at READ COMMITTED, so each SELECT of a request sees the     *)
(* database of its own moment; an action is one SELECT, or the last SELECT  *)
(* together with the answer built from it.                                  *)
(*                                                                          *)
(*   job -> summary -> (status: answer)                                     *)
(*                     (results: 409, or count -> items -> answer)          *)
(***************************************************************************)
EXTENDS JobSystem

CONSTANT Clients

VARIABLE req   \* each client's latest request: what it has read so far

Endpoints == {"status", "results"}

\* A request for e that has read the row of j, or found none.  A request for
\* results names a page; beyond: its offset lies behind the job's last row.
Asked(at, e, j, beyond, row_status, count) ==
    [at |-> at, endpoint |-> e, job |-> j, beyond |-> beyond, code |-> 404,
     status |-> row_status, row_count |-> count, summary |-> NoResult,
     total |-> {}, items |-> {}]

\* No request yet.
Fresh == Asked("answered", "status", NoJob, FALSE, "absent", NoResult)

Requests ==
    [at : {"summary", "count", "items", "answered"}, endpoint : Endpoints,
     job : Jobs \cup {NoJob}, beyond : BOOLEAN, code : {200, 404, 409},
     status : JobStatus \cup {"absent"}, row_count : Results \cup {NoResult},
     summary : Results \cup {NoResult},
     total : SUBSET Results, items : SUBSET Results]

QTypeOK == req \in [Clients -> Requests]

QInit == Init /\ req = [c \in Clients |-> Fresh]

-----------------------------------------------------------------------------
\* get_job, first SELECT: the row, or 404.
ReadJob(c, e, j, beyond) ==
    /\ req[c].at = "answered"
    /\ beyond => e = "results"
    /\ req' = [req EXCEPT ![c] =
                Asked(IF status[j] = "absent" THEN "answered" ELSE "summary",
                      e, j, beyond, status[j], row_count[j])]

\* Mutant: only failed jobs are refused.
Results409Failed(r) == r.endpoint = "results" /\ r.status = "failed"

\* Only completed jobs have results to page through.
Results409(r) == r.endpoint = "results" /\ r.status # "completed"

Answer(r, code) == [r EXCEPT !.at = "answered", !.code = code]

\* get_job, second SELECT (selectinload of the summary).
ReadSummary(c) ==
    /\ req[c].at = "summary"
    /\ LET r == [req[c] EXCEPT !.summary = summary[req[c].job]]
       IN  req' = [req EXCEPT ![c] =
                CASE Results409(r)            -> Answer(r, 409)
                  [] r.endpoint = "status"    -> Answer(r, 200)
                  [] OTHER                    -> [r EXCEPT !.at = "count"]]

\* list_for_job, first SELECT: count(*).
ReadCount(c) ==
    /\ req[c].at = "count"
    /\ req' = [req EXCEPT ![c] = [@ EXCEPT !.at = "items", !.total = ResultsOf(req[c].job)]]

\* The rows of a page: with limit at least 1, empty only behind the last row.
Page(r) == IF r.beyond THEN {} ELSE ResultsOf(r.job)

\* list_for_job, second SELECT: limit and offset.
ReadItems(c) ==
    /\ req[c].at = "items"
    /\ req' = [req EXCEPT ![c] = Answer([@ EXCEPT !.items = Page(req[c])], 200)]

ClientNext(c) ==
    \/ \E e \in Endpoints, j \in Jobs, beyond \in BOOLEAN : ReadJob(c, e, j, beyond)
    \/ ReadSummary(c) \/ ReadCount(c) \/ ReadItems(c)

QNext ==
    \/ Next /\ UNCHANGED req
    \/ \E c \in Clients : ClientNext(c) /\ UNCHANGED vars

qvars == <<vars, req>>

QSpec == QInit /\ [][QNext]_qvars

-----------------------------------------------------------------------------
Answered(c, e) == req[c].at = "answered" /\ req[c].code = 200 /\ req[c].endpoint = e

\* A status answer that says completed carries the summary, although row and
\* summary are read by two statements and a rerun may replace them in between.
CompletedHasSummary ==
    \A c \in Clients :
        Answered(c, "status") /\ req[c].status = "completed"
            => req[c].summary # NoResult

\* A results answer is one run's: row counts, summary, total and the page's
\* items agree although four statements read them (holds unless a commit can
\* be acknowledged wrongly).
ResultsFromOneRun ==
    \A c \in Clients :
        Answered(c, "results") =>
            /\ req[c].summary = req[c].row_count
            /\ req[c].total = RowsOf(req[c].job, req[c].summary)
            /\ req[c].items = IF req[c].beyond THEN {} ELSE req[c].total

\* A client that polls a job never sees it go back: not from completed, and
\* never to pending or unknown (same condition).
PollingIsMonotonic ==
    [][\A c \in Clients :
        req'[c].job = req[c].job /\ req[c].status # "absent" =>
            /\ req[c].status = "completed" => req'[c].status = "completed"
            /\ req'[c].status = "pending" => req[c].status = "pending"
            /\ req'[c].status # "absent"]_qvars
=============================================================================
