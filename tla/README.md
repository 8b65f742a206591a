# Verification of the transaction processing pipeline

TLA+ models, TLC runs and TLAPS proofs for the service in `src/`: an API takes a
CSV upload, commits a job and queues one Celery task; a worker cleans the rows,
flags anomalies, asks an LLM for categories and a narrative, and commits the
results; clients poll.

## 1. Inventory

| Part | Code | State it keeps | Operations | Interacts with |
|---|---|---|---|---|
| Upload API | `api/routes_jobs.py` upload, `services/job_service.py` | none of its own; one open transaction per request | validate, INSERT+flush, write file, COMMIT, refresh, `process_job.delay` | tables, upload volume, queue |
| Worker task | `workers/tasks.py` | local variables of one delivery | Phase A (lock, guard, claim), B (pipeline), C (persist), except block | tables, volume, queue, LLM |
| Queue | `workers/celery_app.py`, Redis | one message per job: ready, unacknowledged, gone | publish, deliver, late ack, reject, restore | API, workers |
| Persistence | `models/`, `repositories/`, `services/persistence.py`, Alembic | `jobs`, `transactions`, `job_summaries`, row locks, files | one transaction per phase | everybody |
| Polling API | `routes_jobs.py` status, results | one request: up to four SELECTs | `get_job`, 404/409, `list_for_job` | tables |
| Listing API | `routes_jobs.py` list, `api/deps.py` | as above | count, page | tables |
| LLM stages | `services/classifier.py`, `services/summary.py` (second half), `llm/` | a row's `llm_category`/`llm_failed`; attempt and sleep of a call | batch, call, retry, mark, summarise | worker task |
| Cleaning, anomaly, aggregates | `services/cleaning.py`, `anomaly.py`, `summary.py` (first half) | none: pure functions | parse, drop, deduplicate; medians, rules; totals | worker task |
| Stack | `docker-compose.yml`, `alembic/`, `main.py` | containers, volumes, health | up, down, healthcheck, migrate, serve | everybody |
| Readiness | `api/routes_health.py` | one request: two probes | probe PostgreSQL, probe Redis, answer | servers |
| Config, logging, schemas | the rest | settings read once | wiring, copying | everybody |

What is hard here, in the order of how much it matters:

* **at-least-once delivery**: a message may be delivered again after a crash, or
  while the first copy still runs (Redis' visibility timeout is not configured);
  a row lock and a status guard are all that keeps two runs apart;
* **three systems, no common transaction**: row, file and message are written
  one after the other by the API, and row and acknowledgement by the worker; a
  crash or an error between any two leaves some of them;
* **reruns**: a failed job that is delivered again runs over its old results;
* **reads in several statements** at READ COMMITTED beside all that;
* **an LLM that may raise or answer anything**, behind bounded retries.

`PROJECT.json` lists each of these under `hazards` at its line.

What makes each part correct: the *upload path*, a message only for a committed job
and a committed job only with its whole file; the *worker*, one runner per job, all
or nothing results, an error exactly on failed jobs, completed final, every accepted
job ends; the *queue*, no pending job without message, every message consumed; the
*polling API*, answers that agree with themselves and never go back; the *LLM
stages*, every uncategorised row decided, failure of a batch confined to it,
attempts and sleeps bounded; *cleaning*, no duplicates, however they are written,
and nothing valid dropped; *anomalies*, never the typical row; *aggregates*, every
successful payment once, rupees and dollars apart; *listing*, a walk that misses
nothing, total and page that agree; the *stack*, no request and no task before the
tables, and a start that needs no hand; *readiness*, an answer that was true during
the request.

## 2. Modules

```
Deployment            constants, kinds of fault, the budget of faults
  JobStore            tables, row locks, upload volume (one action = one transaction)
  TaskQueue           the Celery queue
    UploadService     POST /jobs/upload
    JobWorker         process_job in several workers, the broker's redelivery
      JobSystem       the composition, its properties, the inductive invariant
        JobQueries    GET status and results, SELECT by SELECT
JobLifecycle          abstract: what a client may rely on (JobSystem refines it)
  JobListing          GET /jobs, page after page, over the life cycles of jobs
LlmStage              classify_uncategorised and the narrative, call by call
Cleaning              clean_rows, record by record
Reports               from the cleaned rows to the INSERTs: anomalies, aggregates
Startup               docker compose up and down, migration, readiness
MC*                   instances for TLC;  *Proofs  theorems
SetFacts              lemmas on finite sets for the proofs: induction, sums, ranks, powers
```

* **JobStore.** `status[j] = "absent"` is "no committed row". The NULL-ness of
  `error_message` and `completed_at` is kept, their text and time are not. The
  outcome of a pipeline run is one value of `Results`, standing for its row counts,
  its transactions and its summary together: `row_count`, `summary` and the `run` of
  each member of `transactions` say *which run* wrote them, which is what atomicity
  and reruns are about. Whether a file has rows to store at all does not depend on
  the run: one of `EmptyFiles` has none, and a run over it writes a summary, counts
  of zero and no transaction (`NewRows`). `row_lock` is `SELECT ... FOR UPDATE`; an
  UPDATE of the row waits for it (`Unlocked`).
* **TaskQueue.** A message carries only the job id. Redis' transport keeps a
  message's delivery tag when it restores it, so an acknowledgement removes the
  message exactly if it is unacknowledged at that moment (`Acknowledge`).
* **UploadService.** `upload[j]` is how far the request is. `upload_job` is a
  coroutine that never awaits after reading the body, so one API process has at
  most one request between flush and publish (`EventLoopFree`). Every step has
  its failing variant, and `ApiCrash` may come between any two.
* **JobWorker.** `pc[w]` is the position in `process_job`. An exception in
  Phase A ends the task, which Celery acknowledges (`PhaseAFails`); one in B or
  C goes to the except block (`ProcessingFails`); the except block may fail
  itself (`RecordFails`); a COMMIT may be applied and still raise
  (`ClaimCommitLost`, `PersistCommitLost`). `Crash` is the death of a prefork
  child: its connection's locks are freed, the message stays unacknowledged
  until `RedeliverOrphan`. Retries of the publisher may put a message in the
  queue twice; that has the effect of `VisibilityTimeout` and has no action.
* **JobSystem.** All of it, with properties and the parts of `IInv`.
* **JobQueries.** A request records what each SELECT returned. A page of the
  results either reaches the job's rows or begins beyond the last of them
  (`beyond`), and is then empty; which of the rows it shows is not told apart.
* **LlmStage.** The variable `cfg` is a member of the constant `Settings`, so one
  run covers zero and negative values of settings that `config.py` does not
  validate. A delay is an integer in any unit; `time.sleep` takes it if it is
  neither negative nor longer than `LongestSleep` (`Sleepable`), else it raises out
  of `with_retries` and the call is over early, as `Exhausted` says. A negative
  delay stands for NaN, a too long one for infinity, which do the same. An answer
  classifies a row as allowed, unknown or missing; wrong JSON is an exception inside
  the call (`client.py`) and is retried.
* **Cleaning.** A text is padded or not and has a body: a number in thousandths with
  or without marks, three groups of digits with a separator, any other word, or
  nothing. The parsers are modelled on that: `Cents` rounds half to even as
  `quantize` does, `Normalise` goes through `Upper` (`str.upper` as a function on
  the words), `Matches` says what `strptime` takes (four digits for `%Y`, one or two
  for `%m` and `%d`, a date that exists) and `ParseDate` takes the first format that
  matches. `MaxCents` is the most that Decimal's 28 digits hold. `Spellings` says
  independently of them which texts mean a value. `header` holds the columns whose
  header is spelled as the code spells it; the upload accepts others too. `Columns`
  keeps apart the columns that are treated apart; `other` stands for the four that
  are only stripped. `surplus` marks a line with more fields than the header, on
  which a blank line makes `clean_rows` raise.
* **Reports.** One file, with the settings of `cfg`, runs through
  `detect_anomalies`, the effect of `classify_uncategorised` (whole batches fail,
  any category may come; no client, a batch size of zero and a negative one do what
  LlmStage says), `build_summary` and `persist_results`. The narrative is null, a
  text, or `"unstorable"`: an object, or a text that psycopg2 refuses. Amounts are
  integers, as cents are; the median is kept doubled. `IsTwiceMedian` says what
  `statistics.median` returns by the ranks of the two middle values, without
  sorting; `Place` does the same for the top three. `NaN` is what
  `Decimal("nan").quantize` returns; `Insertable` is the CHECK and the width of
  NUMERIC(14,2), `Overlong` a text wider than its column.
* **JobListing.** It works on `JobLifecycle`, which `JobSystem` implements,
  with `created` for the order of `created_at`. That order has no ties and is the
  order of the commits, because the one API process runs one upload at a time
  (`EventLoopFree`). `walk` is a client that reads pages until one is short; each
  request is the count and the page, two SELECTs with anything in between. `Listed`
  gives a job its place by counting the matching jobs up to it (`Matching`): it is
  what filtering `created` gives, and can be reasoned about.
* **Startup.** Servers, PostgreSQL's volume, the queue (which has no volume),
  the API's way from `alembic upgrade head` to serving, and a worker that does
  not wait for it. An image that finds its volume empty first runs a server of
  its own (`init`), which `pg_isready` cannot tell from the real one. `disturbed`
  remembers that this happened, or that a server was lost, since the last `up`.
  `check` is a readiness request, with what was up and down while it ran.

An operator that a comment marks as *Mutant* is a faulty variant of the one that
follows; no specification uses it. `PROJECT.json` says which property detects it
when it takes the other's place, so each property is known to depend on the code.

**Faults.** A run names the kinds (`FaultKinds`) and bounds their number
(`MaxFaults`); an action caused by a fault says so with `Fault(kind)`. An
exception of the pipeline itself (bad data, a violated CHECK) needs no fault.

## 3. Runs

| Run | Instance | Shows |
|---|---|---|
| `all_faults` | 2 jobs, 2 workers, 2 results, any 4 faults of 7 kinds | `IInv`, one runner per job, its claim, errors, atomic results, claim check, refinement of `JobLifecycle` |
| `crashes` | as above without failing or misreported database calls, 3 faults, fair | pending jobs keep their message; completed is final; messages are consumed; accepted jobs are claimed |
| `progress` | slow tasks and failing file writes, 3 faults, fair | processing jobs have a worker; accepted jobs end; `JobLifecycle` with its fairness |
| `result_reads` | 2 jobs, one with an empty file, 2 workers, 1 client, pages within and beyond, crashes, database errors, redelivery | completed comes with a summary; a results answer is one run's; polling is monotonic |
| `llm_stage` | 1000 settings, 0 to 3 rows | rows decided, retries and sleeps bounded, the stage ends |
| `cleaning` | 3 records of 17 kinds, 64 headers | nothing storable lost or doubled, order kept, raw count; every spelling of a value is read as it; no text is a date in two formats |
| `reports` | some ten thousand files of up to 5 rows, 2 accounts, 5 merchants | few outliers, totals of one currency complete, top three right, uncategorised spend explained, only unstorable values and batches of zero fail a file |
| `listing` | 3 jobs, pages of 1 or 2, all filters, fair | a walk misses nothing, pages hold what their total promises, walks end |
| `startup` | any number of ups, downs and outages, 2 messages, fair | only a migrated database is served, tasks find their tables, readiness is justified, the stack comes up |
| `stuck_after_crash` | 1 crash | *violated*: a job in processing ends |
| `reports_currencies` | files in both currencies | *violated*: what is reported of a merchant or category is in one currency |
| `header_spelling` | 1 good record | *violated*: what the upload accepts is read |

**Bounds.** Jobs meet only in the event loop and in the pool of workers, so two
suffice for every interference; a third delivery of a job can only wait at the
lock or skip, so two workers show every conflict (and the proofs are for any
number). Two results tell a rerun from the run before it. The longest chains of
interest - crash before the ack of a failed job, redelivery, visibility timeout
during the rerun, misreported commit - take four faults. Three rows in batches of
1, 2 and 4 give full, uneven and single batches; three attempts are the default;
`LongestSleep` = 5 makes the delay 3 one that can be slept once and 8 one that never
can. One of the two jobs has an empty file, so both kinds of results meet.
Symmetry is used in safety runs only; the model never compares jobs, workers or
results. Deadlock is checked: `Quiescent` lets the system stop exactly when every
request is answered, every message consumed and every worker idle. `LlmStage`
and `Cleaning` end, so their runs do not check it. Three records are a row, a
different one and a repetition of the first; the seventeen kinds differ from a good
record in one column or two: half a cent up and down, a leap day with the year first
and last, one that does not exist, padding, casing, too large amounts, so that pairs
equal only after cleaning are there. With `MaxCents` = 1000 both sides of that limit
are. In `reports` five rows give odd and even medians with ties and an outlier on each
side of the threshold, and four merchants for three places. In `listing` three jobs
and pages of one and two give full, short and empty pages, and uploads between any
two SELECTs. `startup` needs no bound but the number of messages.

**Fairness.** Required: the API finishes a request it has begun; a worker
executes its task; an idle worker gets a waiting message; the message of a lost
worker is restored. Each is weak: uvicorn, the worker loop and Redis serve them
without regard to anything that could disable them for ever, and a row lock is
held for two statements only. The worker's fairness includes that an LLM call
ends: `client.py` passes no timeout, the SDK's default is assumed. Not required:
any fault, any new request. A lost worker is replaced by its pool; that a whole
container is restarted is not assumed (compose has no `restart:`). `listing`:
the API answers a request (no new walk, no upload is required). `startup`: Docker
starts what it may start, runs its healthchecks, and what it has started gets on;
no outage ends by itself and nobody has to say `up`.

**Divergences found.**
* `tasks.py:60`: the guard skips every job in processing, also when the claiming
  worker is dead; the redelivery that late acknowledgement buys is then thrown
  away. Crashes before the claim are recovered (`AcceptedIsClaimed`).
* `summary.py:48`: totals per merchant and category add rupees and dollars, which
  `summary.py:11` and `models/summary.py:40` call wrong (`CurrenciesNotMixed`).
  `SpendConserved` speaks of files whose payments are in one currency.
* `summary.py:86`: the narrative is not validated; an object fails Phase C, against
  DESIGN.md:414 and 543. `FailsOnUnstorableOnly` of the run `reports` lists it among
  the causes of failure, and is proved with it (`UnstorableFails`).
* `cleaning.py:106`: columns are looked up by exact name, although the upload
  compares headers without case; "Amount" costs a file all its rows, silently.

Noted and not worth a run: a failed COMMIT leaves an orphan file
(`job_service.py:78` says the two are committed together); a reclaimed failed job
keeps its `completed_at`; a status answer may say processing and carry a summary,
read by a second SELECT; with `LLM_MAX_RETRIES=0` the assertion of `retry.py:42`
fails; Phase A has neither try nor retry, so a database error there leaves a pending
job without a message (DESIGN.md:352 describes task-level retries; run `crashes`
shows that nothing else does); there is no outbox and no sweeper behind a failing
publish (DESIGN.md:96); a delay that `sleep` refuses, negative or too long,
ends the retries of a call early; a walk through a *filtered* listing can skip a job, as one
that changes status moves the later ones to earlier pages, and so can a client that
stops at `total`; on an empty volume `pg_isready` may be satisfied too early and the
API exits for good (DESIGN.md:446 promises a cold start without manual steps). Each
is a hazard in `PROJECT.json`.

## 4. Proofs

`JobSystemProofs` proves, for any sets of jobs, workers and results and any
faults (from `DeploymentAssumption` alone):

* `Invariant`: `Spec => []IInv`, hence type correctness, `AtMostOneRunner`,
  `RunnerHasClaim`, `ErrorIffFailed`, `ResultsAtomic`, `ClaimCheck`;
* `Refinement`: `Spec => Lifecycle!Spec`, step by step from the invariant;
* where the kinds of fault named in the theorem are excluded,
  `CompletedIsFinal`, `PendingHasMessage`, `ProcessingHasRunner`.

Mutual exclusion is not inductive by itself. Its argument: a worker that has read
the row holds its lock until it decides, so what it has seen is still the status
(`LockOK`); a runner's job is processing, or completed if a commit was
misreported (`RunnerHasClaim`); both statuses make a second worker skip, so the
second claim cannot happen. `RequestOK` ties the progress of an upload to the row,
the file and the message it has left; `TaskOK` says that a worker's task came
from a published message; `LostOK` says where a completed job can be in an except
block. One step of each proof is one action, and steps common to several actions
are lemmas.

`LlmStageProofs` proves `RowsDecided`, `RetriesCounted` and `SleepsDouble` for any
settings, negative delays and delays that cannot be slept included. The
strengthening is `Split`: rows up to `start` are decided, those after it untouched,
and the current batch has been sent once per failed attempt. `Sleeps` is the
geometric sum of the backoff. `WorkShrinks` is termination without ENABLED:
`WorkLeft`, what rows and attempts are left, is a natural number that every step
makes smaller, so that weak fairness of the stage is all that `Terminates` adds.

`CleaningProofs` proves `DuplicatesRemoved` and `RowsCounted` for files of any
length and any records. `KeepsFirsts` is inductive with the types: a new row's first
source is the record just read, and the sources of the rows before it are earlier,
so a record appended changes none of them (`SameRows`, `NewRow`).
`SpellingNormalised` goes the other way through each parser, from a value to the
texts that mean it and back (`RoundsBack`, `DateReadsBack`, `ReadsBack`): it needs
that rounding undoes a difference of less than half a cent, and that the format a
date was written in is the only one that matches (`FormatsDiffer`). The last is a
theorem of its own, `FormatsAreExclusive`: the formats differ in the separator or in
where the four digits are.

`JobQueriesProofs` proves the three properties of the polling API for any clients,
jobs and workers. `ReadOK` relates what a request has read to the job as it is
*now*: one read at all is never pending again unless it was read as pending, and one
read as completed has results, of this run or a later one. That needs no exclusion:
`CompletedHasSummary`, `PollsNeverRestart` and `ResultsAnswersAreFull` hold under
any faults; the last says that an answer has its summary, a count if the file has
rows to store, and items if the page reaches them. A misreported commit can turn a
completed job into a failed one whose results stay, or be followed by another run,
so `ResultsFromOneRun` and "completed stays completed" (`ReadSame`) exclude it. Both
lean on `IInv` and on `CompletedStep` of `JobSystemProofs`.

`JobListingProofs` proves `WalkMissesNothing` and `PageKeepsItsPromise` as the run
states them, for any jobs and page limits: without a filter, and through the
completed jobs where none is retracted. The invariant is `NotYetSeenIsAhead`: of
the jobs listed when the walk began, those whose place (`Matching`) is not beyond
the offset have been seen. An upload shifts every job by one place in the table,
and a job that becomes completed is one more before those behind it, so no place
ever gets smaller (`MatchingGrows`, by an injection; `ListGrows`). `ListedFacts`
says that the listing has exactly the matching jobs, each at its place.
`OffsetsInTable` holds for every filter: a walk never asks beyond the table, so it
can only go on while jobs keep coming.

`StartupProofs` proves `ServesMigratedOnly`, `TaskFindsSchema` and
`ReadinessIsJustified`, for any messages. `SchemaInv` says that a booting API and a
queued message each imply a migrated volume; `CheckInv` what a readiness request has
seen up or down after each probe.

`ReportsProofs` proves the five properties of the run `reports`, for files of any
length, any amounts, any settings and any outcome of the classification. The
invariant `RInv` goes phase by phase: after `detect_anomalies` no amount is NaN and
outliers are few; after classification the failed rows are exactly the uncategorised
ones without an answer (`Marked`, unless the batch size is negative), and batches
are not of zero; from then on the summary is what `build_summary` makes of the rows
and the answer, and a file is stored exactly if the columns accept it. On it rest
* `FewStoredOutliers`: an outlier lies above the upper middle value, and more than
  half of the rows do not (`FewAboveMedian`). With negative amounts it is false, so
  it needs the COMMIT, which takes none;
* `PaymentsCountedOnce`: the rows split by category and by merchant, and a sum over
  a set is the sum of the sums over its parts (`SumByKey`);
* `TopThree`: `Precedes` orders the merchants without ties, because no two have the
  same first row, so that places are a ranking and each is taken (`RankOnto`);
* `UncategorisedIsFailed` and `UnstorableFails`;
* `DetectionIsDetermined`: ordered by amount and place, the amounts of an account are
  a ranking too, so each rank is taken by one amount (`AtRankExists`, `AtRankUnique`).
  The median, defined by rank, exists and is unique, so no file is stuck in front of
  `detect_anomalies` and none has two sets of outliers.

`SetFacts` has what these need of finite sets. The library's induction theorems take
an operator as parameter, which no installed prover can instantiate;
`SubsetInduction` states the induction over finite sets in first-order form, for a
*set* of subsets (one that holds every subset of `S` all of whose strict subsets it
holds, holds `S`). It follows from the well-foundedness of strict
inclusion, of which the library has a first-order statement. From it come the
existence of the function that folds a sum (`SummingExists`), hence the recursion
equation of `SumFunctionOnSet` (`SumRecursion`), sums over unions (`SumDisjointUnion`)
and by key; `RankOnto`, that the places of a finite ranking are 1..n; and powers of
two, by counting subsets (`PowerDoubles`).

Only model-checked: liveness, which needs ENABLED (`QueueDrains`,
`AcceptedIsClaimed`, `AcceptedTerminates`, `ImplementsFairLifecycle`, `Terminates`,
`WalkEnds`, `StackComesUp`). `WorkShrinks` and `OffsetsInTable` are the safety half
of two of them. Every invariant and every safety property of an action that a
passing run checks is a theorem, where a theorem names excluded kinds of fault under
the same exclusions as its run or weaker ones.

## 5. Not modelled

Prompts, logging, the field-by-field copies of the response schemas, the URLs of
`config.py`. `job_repo.delete_job`, which nothing calls. Which rows a results page
shows, apart from none beyond the last: one tag stands for a batch. In `Cleaning`, amounts
with more than three decimals and NaN. The rounding of JSON amounts to floats. Offline migrations, downgrades, the image build, containers
stopped or restarted one by one. Time: nothing is said of how long anything takes.
What becomes of *jobs* when Redis or PostgreSQL loses its data: `Startup` has the
loss, `JobSystem` one life of both.

## 6. Plan

Done: all modules of section 2 and the proofs of section 4. What could follow:

1. A composition of `Startup` and `JobSystem`: what a lost queue does to pending
   jobs, a lost volume to files.
2. The safety half of the other liveness properties: a measure of the worker's task
   and of a start of the stack that their steps make smaller.
