----------------------------- MODULE JobListing -----------------------------
(***************************************************************************)
(* GET /jobs (list_jobs in app/api/routes_jobs.py and repositories/          *)
(* job_repo.py), page after page, while jobs are uploaded and processed.     *)
(* The jobs live as JobLifecycle says, which JobSystem implements; a request *)
(* is two SELECTs at READ COMMITTED, the count and the page.                 *)
(*                                                                           *)
(* created is the order of created_at, newest first.  created_at is the      *)
(* start of the upload's transaction, and the one API process runs one       *)
(* upload after the other (EventLoopFree), so the order is that of the       *)
(* commits.  A client walks: it asks for the next offset until a page is     *)
(* shorter than its limit.                                                   *)
(***************************************************************************)
EXTENDS Integers, Sequences, FiniteSets, Functions

CONSTANTS Jobs, Results, NoResult, AckLoss,
          MaxLimit    \* le=100 of PaginationParams

ASSUME ListingAssumption ==
    /\ MaxLimit \in Nat \ {0}
    /\ AckLoss \in BOOLEAN

VARIABLES state, outcome, created, walk

lvars == <<state, outcome, created, walk>>

Lifecycle == INSTANCE JobLifecycle

JobStatus == {"pending", "processing", "completed", "failed"}

\* Mutant: ge=0.
PageLimitsFromZero == 0..MaxLimit

\* Query(50, ge=1, le=100); the status filter, or none.
PageLimits == 1..MaxLimit

Filters == JobStatus \cup {"any"}

\* The walk: the jobs there were at its start, those it has been given, and
\* its latest request.
Walks ==
    [at : {"asking", "counted", "ended"}, filter : Filters, limit : Nat, offset : Nat,
     total : Nat, items : Seq(Jobs), seen : SUBSET Jobs, base : SUBSET Jobs]

ListingTypeOK ==
    /\ state \in [Jobs -> JobStatus \cup {"absent"}]
    /\ created \in Seq(Jobs)
    /\ walk \in Walks

ListingInit ==
    /\ Lifecycle!Init
    /\ created = <<>>
    /\ walk = [at |-> "ended", filter |-> "any", limit |-> 1, offset |-> 0,
               total |-> 0, items |-> <<>>, seen |-> {}, base |-> {}]

-----------------------------------------------------------------------------
Upload(j) ==
    /\ Lifecycle!Create(j)
    /\ created' = <<j>> \o created
    /\ UNCHANGED walk

Process(j) ==
    /\ \/ Lifecycle!Start(j) \/ Lifecycle!Retry(j) \/ Lifecycle!Complete(j)
       \/ Lifecycle!Fail(j) \/ Lifecycle!Retract(j)
    /\ UNCHANGED <<created, walk>>

\* WHERE status = filter
Matches(filter, j) == filter = "any" \/ state[j] = filter

\* How many of the k newest jobs match.
Matching(filter, k) == Cardinality({h \in 1..k : Matches(filter, created[h])})

\* ... ORDER BY created_at DESC: the p-th is the one that makes p.
Listed(filter) ==
    [p \in 1..Matching(filter, Len(created)) |->
        created[CHOOSE k \in DOMAIN created :
                    Matches(filter, created[k]) /\ Matching(filter, k) = p]]

AskFirst(filter, limit) ==
    /\ walk.at = "ended"
    /\ walk' = [at |-> "asking", filter |-> filter, limit |-> limit, offset |-> 0,
                total |-> 0, items |-> <<>>, seen |-> {}, base |-> Range(Listed(filter))]
    /\ UNCHANGED <<state, outcome, created>>

\* Mutant: the filter is forgotten.
CountAll ==
    /\ walk.at = "asking"
    /\ walk' = [walk EXCEPT !.at = "counted", !.total = Len(created)]
    /\ UNCHANGED <<state, outcome, created>>

\* SELECT count(*) with the same filter.
Count ==
    /\ walk.at = "asking"
    /\ walk' = [walk EXCEPT !.at = "counted", !.total = Len(Listed(walk.filter))]
    /\ UNCHANGED <<state, outcome, created>>

LesserOf(m, n) == IF m <= n THEN m ELSE n

\* Mutant: OFFSET counts from one.
PageFromOne(list, offset, limit) ==
    SubSeq(list, offset + 2, LesserOf(offset + 1 + limit, Len(list)))

\* LIMIT and OFFSET.
Page(list, offset, limit) == SubSeq(list, offset + 1, LesserOf(offset + limit, Len(list)))

\* SELECT of the page, and the answer; the client goes on or is done.
ReadPage ==
    /\ walk.at = "counted"
    /\ LET items == Page(Listed(walk.filter), walk.offset, walk.limit)
       IN  walk' = [walk EXCEPT !.at = IF Len(items) < walk.limit THEN "ended" ELSE "asking",
                                !.offset = @ + walk.limit,
                                !.items = items,
                                !.seen = @ \cup Range(items)]
    /\ UNCHANGED <<state, outcome, created>>

ListingNext ==
    \/ \E j \in Jobs : Upload(j) \/ Process(j)
    \/ \E filter \in Filters, limit \in PageLimits : AskFirst(filter, limit)
    \/ Count \/ ReadPage

ListingSpec == ListingInit /\ [][ListingNext]_lvars

\* The API answers what it is asked.
ListingFairSpec == ListingSpec /\ WF_lvars(Count) /\ WF_lvars(ReadPage)

-----------------------------------------------------------------------------
\* The listings that only grow: no job is deleted, none leaves completed.
Growing == {"any"} \cup (IF AckLoss THEN {} ELSE {"completed"})

\* A walk through a listing that only grows is given every job that was
\* listed when it began, however many come in between its pages: newer jobs
\* push the older ones to later pages, never to earlier ones.
WalkMissesNothing ==
    walk.at = "ended" /\ walk.filter \in Growing => walk.base \subseteq walk.seen

\* The page holds all that its own total promises, although the count is
\* another statement.
PageKeepsItsPromise ==
    (walk.filter \in Growing /\ walk.at # "counted" /\ walk.offset > 0) =>
        Len(walk.items) >= LesserOf(walk.limit, walk.total - (walk.offset - walk.limit))

\* Every walk ends.
WalkEnds == walk.at = "asking" ~> walk.at = "ended"
=============================================================================
