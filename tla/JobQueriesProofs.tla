-------------------------- MODULE JobQueriesProofs --------------------------
(***************************************************************************)
(* What a client may rely on, for any jobs, workers, clients and faults.     *)
(*                                                                           *)
(* The argument: what was completed once has results ever since, whoever     *)
(* takes it back or runs it again (SummaryStays).  Where commits are         *)
(* acknowledged correctly, a job that a request has read as completed never  *)
(* changes again (CompletedStep), so whatever the next SELECTs of the        *)
(* request read is of the run that the row speaks of.                        *)
(***************************************************************************)
EXTENDS JobQueries, JobSystemProofs

\* A page asked for shows rows if the job has any and the page reaches them.
HasRows(r) == r.job \notin EmptyFiles
Reaches(r) == HasRows(r) /\ ~r.beyond

\* What a request has read, beside what the database holds now: a job that
\* was completed has had results ever since.
ReadOK(r) ==
    /\ r.at # "answered" => r.status # "absent"
    /\ r.status # "absent" =>
          /\ r.job \in Jobs /\ status[r.job] # "absent"
          /\ status[r.job] = "pending" => r.status = "pending"
    /\ r.at \in {"count", "items"} => r.endpoint = "results" /\ r.status = "completed"
    /\ r.status = "completed" => summary[r.job] # NoResult
    /\ r.status = "completed" /\ r.at # "summary" => r.summary # NoResult
    /\ r.at = "items" /\ HasRows(r) => r.total # {}
    /\ r.at = "answered" /\ r.code = 200 /\ r.endpoint = "results" =>
          /\ r.status = "completed"
          /\ HasRows(r) => r.total # {}
          /\ Reaches(r) => r.items # {}

\* Where commits are acknowledged correctly, the very same ones.
ReadSame(r) ==
    /\ r.status = "completed" =>
          status[r.job] = "completed" /\ r.row_count = summary[r.job]
    /\ r.status = "completed" /\ r.at # "summary" => r.summary = summary[r.job]
    /\ r.at = "items" => r.total = RowsOf(r.job, summary[r.job])
    /\ r.at = "answered" /\ r.code = 200 /\ r.endpoint = "results" =>
          /\ r.total = RowsOf(r.job, summary[r.job])
          /\ r.items = IF r.beyond THEN {} ELSE r.total

ReadAll(r) == ReadOK(r) /\ ("lostack" \notin FaultKinds => ReadSame(r))

QInv == IInv /\ QTypeOK /\ \A c \in Clients : ReadAll(req[c])

\* The status of a job never returns to pending, nor does the job disappear.
LEMMA NeverPendingAgain ==
    ASSUME IInv, [Next]_vars, NEW j \in Jobs, status[j] # "absent"
    PROVE  status'[j] # "absent" /\ (status'[j] = "pending" => status[j] = "pending")
<1>1. [Lifecycle!Next]_(Lifecycle!vars)
  BY LifecycleStep
<1> QED
  BY <1>1 DEF Lifecycle!Next, Lifecycle!vars, Lifecycle!Moves, Lifecycle!Create,
     Lifecycle!Start, Lifecycle!Retry, Lifecycle!Complete, Lifecycle!Fail,
     Lifecycle!Retract, IInv, TypeOK, StoreTypeOK

\* Nor are the results of a job ever taken away, though they may be replaced.
LEMMA SummaryStays ==
    ASSUME IInv, [Next]_vars, NEW j \in Jobs, summary[j] # NoResult
    PROVE  summary'[j] # NoResult
<1>1. [Lifecycle!Next]_(Lifecycle!vars)
  BY LifecycleStep
<1> QED
  BY <1>1, DeploymentAssumption
  DEF Lifecycle!Next, Lifecycle!vars, Lifecycle!Create, Lifecycle!Start, Lifecycle!Retry,
      Lifecycle!Complete, Lifecycle!Fail, Lifecycle!Retract, IInv, TypeOK, StoreTypeOK

\* Uploads and workers leave what a request has read true.
LEMMA SystemQInv ==
    ASSUME QInv, [Next]_vars, UNCHANGED req
    PROVE  QInv'
<1>1. IInv' /\ QTypeOK'
  BY StepIInv DEF QInv, QTypeOK
<1>2. ASSUME NEW c \in Clients PROVE ReadAll(req[c])'
  <2> DEFINE r == req[c]
  <2>1. req'[c] = r /\ ReadAll(r)
    BY DEF QInv
  <2>2. ASSUME r.status # "absent"
        PROVE  /\ r.job \in Jobs /\ status'[r.job] # "absent"
               /\ status'[r.job] = "pending" => r.status = "pending"
    <3>1. r.job \in Jobs /\ status[r.job] # "absent"
      BY <2>1, <2>2 DEF ReadAll, ReadOK, ReadSame
    <3>2. status'[r.job] # "absent" /\ (status'[r.job] = "pending" => status[r.job] = "pending")
      BY <3>1, NeverPendingAgain DEF QInv
    <3> QED
      BY <2>1, <2>2, <3>1, <3>2 DEF ReadAll, ReadOK, ReadSame
  <2>3. ASSUME r.status = "completed"
        PROVE  summary'[r.job] # NoResult
    <3>1. r.job \in Jobs /\ summary[r.job] # NoResult
      BY <2>1, <2>3 DEF ReadAll, ReadOK
    <3> QED
      BY <3>1, SummaryStays DEF QInv
  <2>4. ASSUME "lostack" \notin FaultKinds, r.status = "completed"
        PROVE  status'[r.job] = "completed" /\ summary'[r.job] = summary[r.job]
    <3>1. r.job \in Jobs /\ status[r.job] = "completed"
      BY <2>1, <2>4 DEF ReadAll, ReadOK, ReadSame
    <3> QED
      BY <2>4, <3>1, CompletedStep DEF QInv, KeepsCompleted
  <2> HIDE DEF r
  <2>5. ReadOK(req[c])'
    BY <2>1, <2>2, <2>3 DEF ReadAll, ReadOK, HasRows, Reaches
  <2>6. "lostack" \notin FaultKinds => ReadSame(req[c])'
    BY <2>1, <2>4 DEF ReadAll, ReadOK, ReadSame
  <2> QED
    BY <2>1, <2>5, <2>6 DEF ReadAll, ReadOK, ReadSame
<1> QED
  BY <1>1, <1>2 DEF QInv

\* A completed job has the results its row speaks of.
LEMMA CompletedHas ==
    ASSUME IInv, NEW j \in Jobs, status[j] = "completed"
    PROVE  /\ row_count[j] = summary[j] /\ summary[j] # NoResult
           /\ ResultsOf(j) = RowsOf(j, summary[j])
BY DEF IInv, ResultsAtomic

LEMMA SummaryHas ==
    ASSUME IInv, NEW j \in Jobs, summary[j] # NoResult
    PROVE  /\ ResultsOf(j) = RowsOf(j, summary[j])
           /\ j \notin EmptyFiles => ResultsOf(j) # {}
<1>1. ResultsOf(j) = RowsOf(j, summary[j])
  BY DEF IInv, ResultsAtomic
<1> QED
  BY <1>1 DEF RowsOf

LEMMA ResultsOfType ==
    ASSUME IInv, NEW j \in Jobs PROVE ResultsOf(j) \subseteq Results
BY DEF IInv, TypeOK, StoreTypeOK, ResultsOf

\* An answer keeps what was read.
LEMMA AnswerKeeps ==
    ASSUME NEW r \in Requests, NEW code \in {200, 404, 409}
    PROVE  /\ Answer(r, code) \in Requests
           /\ Answer(r, code).at = "answered" /\ Answer(r, code).code = code
           /\ Answer(r, code).endpoint = r.endpoint /\ Answer(r, code).job = r.job
           /\ Answer(r, code).status = r.status /\ Answer(r, code).row_count = r.row_count
           /\ Answer(r, code).summary = r.summary /\ Answer(r, code).beyond = r.beyond
           /\ Answer(r, code).total = r.total /\ Answer(r, code).items = r.items
<1> DEFINE a == Answer(r, code)
<1>1. a = [r EXCEPT !.at = "answered", !.code = code]
  BY DEF Answer
<1>2. r = [at |-> r.at, endpoint |-> r.endpoint, job |-> r.job, beyond |-> r.beyond,
           code |-> r.code,
           status |-> r.status, row_count |-> r.row_count, summary |-> r.summary,
           total |-> r.total, items |-> r.items]
  BY DEF Requests
<1> HIDE DEF a
<1>3. a = [at |-> "answered", endpoint |-> r.endpoint, job |-> r.job, beyond |-> r.beyond,
           code |-> code,
           status |-> r.status, row_count |-> r.row_count, summary |-> r.summary,
           total |-> r.total, items |-> r.items]
  BY <1>1, <1>2
<1>4. /\ a \in Requests
      /\ a.at = "answered" /\ a.code = code
      /\ a.endpoint = r.endpoint /\ a.job = r.job /\ a.status = r.status
      /\ a.row_count = r.row_count /\ a.summary = r.summary /\ a.beyond = r.beyond
      /\ a.total = r.total /\ a.items = r.items
  BY <1>3 DEF Requests
<1> QED
  BY <1>4 DEF a

\* A request reads one thing more.
LEMMA ClientQInv ==
    ASSUME QInv, NEW c \in Clients, ClientNext(c), UNCHANGED vars
    PROVE  QInv'
<1> DEFINE r == req[c]
<1>1. IInv' /\ IInv /\ status' = status /\ summary' = summary /\ row_count' = row_count
  <2>1. IInv' /\ IInv
    BY StepIInv DEF QInv
  <2> QED
    BY <2>1 DEF vars, storeVars, jobRow, results
<1>2. r \in Requests /\ ReadAll(r) /\ req \in [Clients -> Requests]
  BY DEF QInv, QTypeOK
<1>3. r = [at |-> r.at, endpoint |-> r.endpoint, job |-> r.job, beyond |-> r.beyond,
           code |-> r.code,
           status |-> r.status, row_count |-> r.row_count, summary |-> r.summary,
           total |-> r.total, items |-> r.items]
  BY <1>2 DEF Requests
<1>4. ASSUME NEW q \in Requests, req'[c] = q, ReadAll(q)
      PROVE  QInv'
  <2>1. req' = [req EXCEPT ![c] = q]
    BY <1>2, <1>4 DEF ClientNext, ReadJob, ReadSummary, ReadCount, ReadItems
  <2>2. QTypeOK'
    BY <1>2, <2>1 DEF QTypeOK
  <2>3. ASSUME NEW d \in Clients PROVE ReadAll(req'[d])
    BY <1>2, <1>4, <2>3, <2>1 DEF QInv
  <2>4. ASSUME NEW d \in Clients PROVE ReadAll(req[d])'
    BY <1>1, <2>3 DEF ReadAll, ReadOK, ReadSame
  <2> QED
    BY <1>1, <2>2, <2>4 DEF QInv
<1>5. CASE \E e \in Endpoints, j \in Jobs, beyond \in BOOLEAN : ReadJob(c, e, j, beyond)
  <2> PICK e \in Endpoints, j \in Jobs, beyond \in BOOLEAN : ReadJob(c, e, j, beyond)
    BY <1>5
  <2> DEFINE at == IF status[j] = "absent" THEN "answered" ELSE "summary"
             q == [at |-> at, endpoint |-> e, job |-> j, beyond |-> beyond, code |-> 404,
                   status |-> status[j], row_count |-> row_count[j], summary |-> NoResult,
                   total |-> {}, items |-> {}]
  <2>1. req'[c] = q
    BY <1>2 DEF ReadJob, Asked
  <2>2. /\ status[j] \in JobStatus \cup {"absent"}
        /\ row_count[j] \in Results \cup {NoResult}
    BY <1>1 DEF IInv, TypeOK, StoreTypeOK
  <2>3. q \in Requests
    BY <2>2 DEF Requests
  <2>4. ReadAll(q)
    BY <1>1, CompletedHas DEF ReadAll, ReadOK, ReadSame, HasRows, Reaches
  <2> HIDE DEF q
  <2> QED
    BY <1>4, <2>1, <2>3, <2>4
<1>6. CASE ReadSummary(c)
  <2> DEFINE s == [r EXCEPT !.summary = summary[r.job]]
  <2>1. r.at = "summary" /\ r.status # "absent" /\ r.job \in Jobs
    BY <1>2, <1>6 DEF ReadSummary, ReadAll, ReadOK, ReadSame
  <2>2. summary[r.job] \in Results \cup {NoResult}
    BY <1>1, <2>1 DEF IInv, TypeOK, StoreTypeOK
  <2>3. /\ s \in Requests /\ s.summary = summary[r.job]
        /\ s.at = r.at /\ s.endpoint = r.endpoint /\ s.job = r.job /\ s.code = r.code
        /\ s.status = r.status /\ s.row_count = r.row_count /\ s.beyond = r.beyond
        /\ s.total = r.total /\ s.items = r.items
    BY <1>2, <2>2 DEF Requests
  <2>4. req'[c] =
            CASE Results409(s)            -> Answer(s, 409)
              [] s.endpoint = "status"    -> Answer(s, 200)
              [] OTHER                    -> [s EXCEPT !.at = "count"]
    BY <1>2, <1>6 DEF ReadSummary
  <2> HIDE DEF s
  <2>5. CASE Results409(s)
    <3>1. req'[c] = Answer(s, 409)
      <4>1. s.endpoint # "status"
        BY <2>5 DEF Results409
      <4> QED
        BY <2>4, <2>5, <4>1
    <3>2. ReadAll(Answer(s, 409))
      BY <1>2, <2>1, <2>3, <2>5, AnswerKeeps DEF ReadAll, ReadOK, ReadSame, Results409
    <3> QED
      BY <1>4, <2>3, <3>1, <3>2, AnswerKeeps
  <2>6. CASE s.endpoint = "status"
    <3>1. ~Results409(s)
      BY <2>6 DEF Results409
    <3>2. req'[c] = Answer(s, 200)
      BY <2>4, <2>6, <3>1
    <3>3. ReadAll(Answer(s, 200))
      BY <1>2, <2>1, <2>3, <2>6, AnswerKeeps DEF ReadAll, ReadOK, ReadSame
    <3> QED
      BY <1>4, <2>3, <3>2, <3>3, AnswerKeeps
  <2>7. CASE ~Results409(s) /\ s.endpoint # "status"
    <3> DEFINE q == [s EXCEPT !.at = "count"]
    <3>1. req'[c] = q
      BY <2>4, <2>7
    <3>2. /\ q \in Requests /\ q.at = "count" /\ q.summary = s.summary
          /\ q.endpoint = s.endpoint /\ q.job = s.job /\ q.status = s.status
          /\ q.row_count = s.row_count /\ q.beyond = s.beyond
      BY <2>3 DEF Requests
    <3>3. s.endpoint = "results" /\ s.status = "completed"
      BY <2>3, <2>7 DEF Results409, Requests, Endpoints
    <3> HIDE DEF q
    <3>4. ReadAll(q)
      BY <1>2, <2>1, <2>3, <3>2, <3>3 DEF ReadAll, ReadOK, ReadSame
    <3> QED
      BY <1>4, <3>1, <3>2, <3>4
  <2> QED
    BY <2>5, <2>6, <2>7
<1>7. CASE ReadCount(c)
  <2> DEFINE total == ResultsOf(r.job)
             q == [at |-> "items", endpoint |-> r.endpoint, job |-> r.job, beyond |-> r.beyond,
                   code |-> r.code,
                   status |-> r.status, row_count |-> r.row_count, summary |-> r.summary,
                   total |-> total, items |-> r.items]
  <2>1. r.at = "count" /\ r.status = "completed" /\ r.job \in Jobs
    BY <1>2, <1>7 DEF ReadCount, ReadAll, ReadOK, ReadSame
  <2>2. /\ total = RowsOf(r.job, summary[r.job]) /\ total \subseteq Results
        /\ HasRows(r) => total # {}
    BY <1>1, <1>2, <2>1, SummaryHas, ResultsOfType DEF ReadAll, ReadOK, ReadSame, HasRows
  <2> HIDE DEF total
  <2>3. req'[c] = q
    <3>1. req'[c] = [r EXCEPT !.at = "items", !.total = total]
      BY <1>2, <1>7 DEF ReadCount, total
    <3> QED
      BY <1>3, <3>1
  <2>4. q \in Requests
    BY <1>2, <2>2 DEF Requests
  <2>5. ReadAll(q)
    BY <1>2, <2>1, <2>2 DEF ReadAll, ReadOK, ReadSame, HasRows
  <2> HIDE DEF q
  <2> QED
    BY <1>4, <2>3, <2>4, <2>5
<1>8. CASE ReadItems(c)
  <2> DEFINE items == Page(r)
             s == [r EXCEPT !.items = items]
  <2>1. r.at = "items" /\ r.status = "completed" /\ r.job \in Jobs
    BY <1>2, <1>8 DEF ReadItems, ReadAll, ReadOK, ReadSame
  <2>2. /\ items = IF r.beyond THEN {} ELSE RowsOf(r.job, summary[r.job])
        /\ items \subseteq Results
        /\ Reaches(r) => items # {}
    BY <1>1, <1>2, <2>1, SummaryHas, ResultsOfType
       DEF ReadAll, ReadOK, ReadSame, Page, HasRows, Reaches
  <2>3. req'[c] = Answer(s, 200)
    BY <1>2, <1>8 DEF ReadItems
  <2> HIDE DEF items
  <2>4. /\ s \in Requests /\ s.items = items
        /\ s.endpoint = r.endpoint /\ s.job = r.job /\ s.status = r.status
        /\ s.row_count = r.row_count /\ s.summary = r.summary /\ s.total = r.total
        /\ s.beyond = r.beyond
    BY <1>2, <2>2 DEF Requests
  <2> HIDE DEF s
  <2>5. ReadAll(Answer(s, 200))
    BY <1>2, <2>1, <2>2, <2>4, AnswerKeeps
       DEF ReadAll, ReadOK, ReadSame, HasRows, Reaches
  <2> QED
    BY <1>4, <2>3, <2>4, <2>5, AnswerKeeps
<1> QED
  BY <1>5, <1>6, <1>7, <1>8 DEF ClientNext

-----------------------------------------------------------------------------
LEMMA InitQInv == QInit => QInv
<1> SUFFICES ASSUME QInit PROVE QInv
  OBVIOUS
<1>1. Fresh \in Requests /\ ReadAll(Fresh)
  BY DEF Fresh, Asked, Requests, Endpoints, ReadAll, ReadOK, ReadSame
<1>2. QTypeOK /\ \A c \in Clients : req[c] = Fresh
  BY <1>1 DEF QInit, QTypeOK
<1> QED
  BY <1>1, <1>2, InitIInv DEF QInit, QInv

\* What a request has read of a job was never taken away since, and, where
\* commits are acknowledged correctly, agrees with what it is going to read.
THEOREM ReadsInvariant == QSpec => []QInv
<1>1. ASSUME QInv, [QNext]_qvars PROVE QInv'
  <2>1. CASE UNCHANGED qvars
    BY <1>1, <2>1, SystemQInv DEF qvars
  <2>2. CASE Next /\ UNCHANGED req
    BY <1>1, <2>2, SystemQInv
  <2>3. CASE \E c \in Clients : ClientNext(c) /\ UNCHANGED vars
    BY <1>1, <2>3, ClientQInv
  <2> QED
    BY <1>1, <2>1, <2>2, <2>3 DEF QNext
<1> QED
  BY <1>1, InitQInv, PTL DEF QSpec

\* GET /jobs/{id}/status never answers completed without the summary, though
\* the job and its summary are read by two statements: a misreported commit may
\* take the job back in between and a rerun replace the summary, but never remove it.
THEOREM CompletedAnswersHaveSummary == QSpec => []CompletedHasSummary
<1>1. QInv => CompletedHasSummary
  BY DEF QInv, ReadAll, ReadOK, Answered, CompletedHasSummary
<1> QED
  BY <1>1, ReadsInvariant, PTL

\* GET /jobs/{id}/results never mixes two runs of the pipeline, though four
\* statements make its answer.
THEOREM ResultsAnswersAreOneRun ==
    ASSUME "lostack" \notin FaultKinds
    PROVE  QSpec => []ResultsFromOneRun
<1>1. ASSUME QInv PROVE ResultsFromOneRun
  <2> SUFFICES ASSUME NEW c \in Clients, Answered(c, "results")
               PROVE  /\ req[c].summary = req[c].row_count
                      /\ req[c].total = RowsOf(req[c].job, req[c].summary)
                      /\ req[c].items = IF req[c].beyond THEN {} ELSE req[c].total
    BY DEF ResultsFromOneRun
  <2> QED
    BY <1>1 DEF QInv, ReadAll, ReadOK, ReadSame, Answered
<1> QED
  BY <1>1, ReadsInvariant, PTL

\* A results answer never comes without its summary, nor, if the file has rows
\* to store, with a total of none or with an empty page before its last row.
ResultsAreFull ==
    \A c \in Clients :
        Answered(c, "results") =>
            /\ req[c].summary # NoResult
            /\ HasRows(req[c]) => req[c].total # {}
            /\ Reaches(req[c]) => req[c].items # {}

\* GET /jobs/{id}/results shows a completed job's summary and the rows its file
\* has, under any faults: persist_results replaces them in one transaction and
\* nothing else deletes them.
THEOREM ResultsAnswersAreFull == QSpec => []ResultsAreFull
<1>1. QInv => ResultsAreFull
  BY DEF QInv, ReadAll, ReadOK, Answered, ResultsAreFull
<1> QED
  BY <1>1, ReadsInvariant, PTL

\* What a client that polls one job may see next.
NeverBack(c) ==
    req'[c].job = req[c].job /\ req[c].status # "absent" =>
        /\ req'[c].status = "pending" => req[c].status = "pending"
        /\ req'[c].status # "absent"

StaysCompleted(c) ==
    req'[c].job = req[c].job /\ req[c].status # "absent" =>
        (req[c].status = "completed" => req'[c].status = "completed")

PollOK(c) == NeverBack(c) /\ ("lostack" \notin FaultKinds => StaysCompleted(c))

LEMMA PollStep == QInv /\ [QNext]_qvars => [\A c \in Clients : PollOK(c)]_qvars
<1>1. ASSUME QInv, [QNext]_qvars PROVE [\A c \in Clients : PollOK(c)]_qvars
  <2> SUFFICES ASSUME NEW c \in Clients, QNext PROVE PollOK(c)
    BY <1>1
  <2> DEFINE r == req[c]
  <2>1. ReadAll(r) /\ r \in Requests /\ req \in [Clients -> Requests]
    BY <1>1 DEF QInv, QTypeOK
  <2>2. CASE req' = req
    BY <2>2 DEF PollOK, NeverBack, StaysCompleted
  <2>3. ASSUME NEW d \in Clients, NEW e \in Endpoints, NEW j \in Jobs,
               NEW beyond \in BOOLEAN, ReadJob(d, e, j, beyond)
        PROVE  PollOK(c)
    <3>1. CASE d # c
      <4>1. req'[c] = req[c]
        BY <2>1, <2>3, <3>1 DEF ReadJob
      <4> QED
        BY <4>1 DEF PollOK, NeverBack, StaysCompleted
    <3>2. CASE d = c
      <4>1. req'[c].job = j /\ req'[c].status = status[j]
        BY <2>1, <2>3, <3>2 DEF ReadJob, Asked
      <4>2. ASSUME r.job = j, r.status # "absent"
            PROVE  /\ "lostack" \notin FaultKinds /\ r.status = "completed" =>
                          status[j] = "completed"
                   /\ status[j] = "pending" => r.status = "pending"
                   /\ status[j] # "absent"
        BY <2>1, <4>2 DEF ReadAll, ReadOK, ReadSame
      <4> QED
        BY <4>1, <4>2 DEF PollOK, NeverBack, StaysCompleted
    <3> QED
      BY <3>1, <3>2
  <2>4. ASSUME NEW d \in Clients, ReadSummary(d) \/ ReadCount(d) \/ ReadItems(d)
        PROVE  PollOK(c)
    <3>1. CASE d # c
      <4>1. req'[c] = req[c]
        BY <2>1, <2>4, <3>1 DEF ReadSummary, ReadCount, ReadItems
      <4> QED
        BY <4>1 DEF PollOK, NeverBack, StaysCompleted
    <3>2. CASE d = c
      <4>1. r = [at |-> r.at, endpoint |-> r.endpoint, job |-> r.job, beyond |-> r.beyond,
                 code |-> r.code,
                 status |-> r.status, row_count |-> r.row_count, summary |-> r.summary,
                 total |-> r.total, items |-> r.items]
        BY <2>1 DEF Requests
      <4>2. req'[c].status = r.status
        <5>1. CASE ReadCount(c)
          <6>1. req'[c] = [r EXCEPT !.at = "items", !.total = ResultsOf(r.job)]
            BY <2>1, <5>1 DEF ReadCount
          <6> QED
            BY <4>1, <6>1
        <5>2. CASE ReadItems(c)
          <6>1. req'[c] = [[r EXCEPT !.items = Page(r)]
                             EXCEPT !.at = "answered", !.code = 200]
            BY <2>1, <5>2 DEF ReadItems, Answer
          <6> QED
            BY <4>1, <6>1
        <5>3. CASE ReadSummary(c)
          <6> DEFINE s == [r EXCEPT !.summary = summary[r.job]]
          <6>1. s.status = r.status
            BY <4>1
          <6>2. s = [at |-> s.at, endpoint |-> s.endpoint, job |-> s.job, beyond |-> s.beyond,
                     code |-> s.code,
                     status |-> s.status, row_count |-> s.row_count, summary |-> s.summary,
                     total |-> s.total, items |-> s.items]
            BY <4>1
          <6>3. \/ req'[c] = [s EXCEPT !.at = "answered", !.code = 409]
                \/ req'[c] = [s EXCEPT !.at = "answered", !.code = 200]
                \/ req'[c] = [s EXCEPT !.at = "count"]
            BY <2>1, <5>3 DEF ReadSummary, Answer
          <6> HIDE DEF s
          <6> QED
            BY <6>1, <6>2, <6>3
        <5> QED
          BY <2>4, <3>2, <5>1, <5>2, <5>3
      <4> QED
        BY <4>2 DEF PollOK, NeverBack, StaysCompleted
    <3> QED
      BY <3>1, <3>2
  <2> QED
    BY <2>2, <2>3, <2>4 DEF QNext, ClientNext
<1> QED
  BY <1>1

\* A client that polls a job never sees it return to pending, nor vanish:
\* under any faults, misreported commits included.
THEOREM PollsNeverRestart == QSpec => [][\A c \in Clients : NeverBack(c)]_qvars
<1>1. QInv /\ [QNext]_qvars => [\A c \in Clients : NeverBack(c)]_qvars
  BY PollStep DEF PollOK
<1> QED
  BY <1>1, ReadsInvariant, PTL DEF QSpec

\* The step of PollingIsMonotonic.
Monotonic(c) ==
    req'[c].job = req[c].job /\ req[c].status # "absent" =>
        /\ req[c].status = "completed" => req'[c].status = "completed"
        /\ req'[c].status = "pending" => req[c].status = "pending"
        /\ req'[c].status # "absent"

\* Where commits are acknowledged correctly, it does not see it leave completed
\* either.
THEOREM PollsAreMonotonic ==
    ASSUME "lostack" \notin FaultKinds
    PROVE  QSpec => PollingIsMonotonic
<1>1. ASSUME QInv, [QNext]_qvars
      PROVE  [\A c \in Clients : Monotonic(c)]_qvars
  BY <1>1, PollStep DEF PollOK, NeverBack, StaysCompleted, Monotonic
<1> QED
  BY <1>1, ReadsInvariant, PTL DEF QSpec, PollingIsMonotonic, Monotonic
=============================================================================
