-------------------------- MODULE JobListingProofs --------------------------
(***************************************************************************)
(* A walk through a listing, for any number of jobs and pages of any length. *)
(***************************************************************************)
EXTENDS JobListing, SetFacts, SequenceTheorems

Walking == walk.at \in {"asking", "counted"}

Entries(filter) == {j \in Range(created) : Matches(filter, j)}

\* Whatever has come before, the jobs of the walk's beginning that the client
\* has not been given are still beyond its offset.
NotYetSeenIsAhead ==
    Walking => \A k \in DOMAIN created :
        /\ Matches(walk.filter, created[k]) /\ created[k] \in walk.base
        /\ Matching(walk.filter, k) <= walk.offset
        => created[k] \in walk.seen

WalkOK ==
    /\ walk.base \subseteq Entries(walk.filter)
    /\ NotYetSeenIsAhead
    /\ walk.at = "ended" => walk.base \subseteq walk.seen
    /\ walk.at = "counted" => walk.total <= Matching(walk.filter, Len(created))
    /\ walk.at # "counted" /\ walk.offset > 0 =>
          Len(walk.items) >= LesserOf(walk.limit, walk.total - (walk.offset - walk.limit))

\* The listed jobs are uploaded ones.
ListedExist ==
    /\ created \in Seq(Jobs)
    /\ state \in [Jobs -> JobStatus \cup {"absent"}]
    /\ \A k \in DOMAIN created : state[created[k]] # "absent"

\* The fields of the walk, one by one, as the provers need them.
WalkFields ==
    /\ walk = [at |-> walk.at, filter |-> walk.filter, limit |-> walk.limit,
               offset |-> walk.offset, total |-> walk.total, items |-> walk.items,
               seen |-> walk.seen, base |-> walk.base]
    /\ walk.at \in {"asking", "counted", "ended"} /\ walk.filter \in Filters
    /\ walk.limit \in Nat \ {0} /\ walk.offset \in Nat /\ walk.total \in Nat
    /\ walk.items \in Seq(Jobs) /\ walk.seen \subseteq Jobs /\ walk.base \subseteq Jobs

\* A request is for a page that begins in the table, or right behind it.
OffsetInTable == Walking => walk.offset <= Len(created)

IInv ==
    /\ ListedExist
    /\ WalkFields
    /\ OffsetInTable
    /\ walk.filter \in Growing => WalkOK

-----------------------------------------------------------------------------
\* The listing is all the entries, each at the place that Matching gives it.
LEMMA ListedFacts ==
    ASSUME ListedExist, NEW filter
    PROVE  LET list == Listed(filter)
           IN  /\ list \in Seq(Jobs)
               /\ Len(list) = Matching(filter, Len(created))
               /\ Range(list) = Entries(filter)
               /\ \A k \in DOMAIN created : Matches(filter, created[k]) =>
                     Matching(filter, k) \in DOMAIN list /\ list[Matching(filter, k)] = created[k]
<1> DEFINE S == {k \in DOMAIN created : Matches(filter, created[k])}
           R == {p \in S \X S : p[1] < p[2]}
           n == Matching(filter, Len(created))
           list == Listed(filter)
<1>1. DOMAIN created = 1..Len(created) /\ Len(created) \in Nat /\ created \in Seq(Jobs)
  BY DEF ListedExist
<1>2. IsFiniteSet(S) /\ S \in SUBSET Nat /\ n = Cardinality(S) /\ n \in Nat
  <2>1. IsFiniteSet(1..Len(created)) /\ S \in SUBSET (1..Len(created))
    BY <1>1, FS_Interval
  <2>2. S = {h \in 1..Len(created) : Matches(filter, created[h])}
    BY <1>1
  <2> QED
    BY <1>1, <2>1, <2>2, FS_Subset, FS_CardinalityType DEF Matching
<1>3. IsRanking(R, S)
  BY <1>2 DEF IsRanking
<1>4. ASSUME NEW k \in S PROVE Matching(filter, k) = Rank(k, R, S)
  <2> DEFINE upTo == {h \in 1..k : Matches(filter, created[h])}
  <2>1. upTo = Before(k, R, S) \cup {k} /\ k \notin Before(k, R, S)
    BY <1>1 DEF Before
  <2>2. IsFiniteSet(Before(k, R, S))
    BY <1>2, FS_Subset DEF Before
  <2>3. Cardinality(Before(k, R, S)) \in Nat
    BY <2>2, FS_CardinalityType
  <2>4. Cardinality(upTo) = Cardinality(Before(k, R, S)) + 1
    <3> HIDE DEF upTo, R, S
    <3> QED
      BY <2>1, <2>2, FS_AddElement
  <2> QED
    BY <2>3, <2>4 DEF Matching, Rank
<1> DEFINE at(p) == CHOOSE k \in DOMAIN created :
                       Matches(filter, created[k]) /\ Matching(filter, k) = p
<1>5. list = [p \in 1..n |-> created[at(p)]]
  BY DEF Listed
<1>6. ASSUME NEW p \in 1..n PROVE at(p) \in S /\ Matching(filter, at(p)) = p
  <2>1. \E k \in S : Rank(k, R, S) = p
    <3> HIDE DEF S, R, n
    <3> QED
      BY <1>2, <1>3, RankOnto
  <2>2. \E k \in DOMAIN created : Matches(filter, created[k]) /\ Matching(filter, k) = p
    BY <1>4, <2>1
  <2> QED
    BY <2>2
<1>7. \A k \in S : Matching(filter, k) \in 1..n
  BY <1>2, <1>3, <1>4, RankType
<1>8. ASSUME NEW k \in S, NEW l \in S, Matching(filter, k) = Matching(filter, l)
      PROVE  k = l
  <2>1. Rank(k, R, S) = Rank(l, R, S) /\ Rank(k, R, S) \in 1..n
    BY <1>4, <1>7, <1>8
  <2>2. <<k, l>> \notin R /\ <<l, k>> \notin R
    <3>1. ~(Rank(k, R, S) < Rank(l, R, S)) /\ ~(Rank(l, R, S) < Rank(k, R, S))
      BY <1>2, <2>1
    <3> HIDE DEF S, R, n
    <3> QED
      BY <1>2, <1>3, <3>1, RankOrdered
  <2> QED
    BY <1>3, <2>2 DEF IsRanking
<1> HIDE DEF at, n, list, R
<1>9. \A p \in 1..n : list[p] = created[at(p)] /\ list[p] \in Jobs
  BY <1>1, <1>5, <1>6
<1>10. DOMAIN list = 1..n /\ list \in Seq(Jobs) /\ Len(list) = n
  BY <1>2, <1>5, <1>9
<1>11. \A k \in S : list[Matching(filter, k)] = created[k]
  BY <1>6, <1>7, <1>8, <1>9
<1>12. Range(list) = Entries(filter)
  <2>1. ASSUME NEW p \in 1..n PROVE list[p] \in Entries(filter)
    BY <1>6, <1>9 DEF Entries, Range
  <2>2. ASSUME NEW j \in Entries(filter) PROVE \E p \in 1..n : list[p] = j
    <3>1. PICK k \in S : created[k] = j
      BY DEF Entries, Range
    <3> QED
      BY <1>7, <1>11, <3>1
  <2> QED
    BY <1>10, <2>1, <2>2 DEF Range
<1> QED
  BY <1>7, <1>10, <1>11, <1>12 DEF n, list

\* A job that goes on matching keeps its place or moves towards the end.
LEMMA MatchingGrows ==
    ASSUME NEW S, NEW T, NEW shift \in Nat, NEW k \in Nat, NEW l \in Nat,
           S \subseteq 1..k, T \subseteq 1..l, \A h \in S : h + shift \in T
    PROVE  Cardinality(S) <= Cardinality(T) /\ Cardinality(S) \in Nat /\ Cardinality(T) \in Nat
<1> DEFINE f == [h \in S |-> h + shift]
<1>1. IsFiniteSet(S) /\ IsFiniteSet(T)
  <2>1. IsFiniteSet(1..k) /\ IsFiniteSet(1..l)
    BY FS_Interval
  <2> QED
    BY <2>1, FS_Subset
<1>2. f \in Injection(S, T)
  <2>1. \A h, i \in S : h + shift = i + shift => h = i
    OBVIOUS
  <2> QED
    BY <2>1 DEF Injection, IsInjective
<1> HIDE DEF f
<1> QED
  BY <1>1, <1>2, FS_Injection, FS_CardinalityType

LEMMA MatchingInTable ==
    ASSUME ListedExist, NEW filter
    PROVE  Matching(filter, Len(created)) <= Len(created) /\ Len(created) \in Nat
<1> DEFINE n == Len(created)
           S == {h \in 1..n : Matches(filter, created[h])}
<1>1. n \in Nat
  BY DEF ListedExist
<1>2. IsFiniteSet(1..n) /\ Cardinality(1..n) = n
  <2> HIDE DEF n
  <2> QED
    BY <1>1, FS_Interval
<1>3. Cardinality(S) <= Cardinality(1..n)
  BY <1>2, FS_Subset
<1> QED
  BY <1>1, <1>2, <1>3 DEF Matching

\* What is on a page.
LEMMA PageFacts ==
    ASSUME NEW S, NEW list \in Seq(S), NEW offset \in Nat, NEW limit \in Nat
    PROVE  LET items == Page(list, offset, limit)
           IN  /\ items \in Seq(S)
               /\ \A k \in DOMAIN list :
                     offset < k /\ k <= offset + limit => list[k] \in Range(items)
               /\ Len(items) >= LesserOf(limit, Len(list) - offset)
               /\ Len(items) <= limit
               /\ limit > 0 /\ Len(items) = limit => offset + limit <= Len(list)
<1> DEFINE last == LesserOf(offset + limit, Len(list))
           items == Page(list, offset, limit)
<1>1. /\ Len(list) \in Nat /\ last \in Nat
      /\ last <= offset + limit /\ last <= Len(list)
      /\ last = offset + limit \/ last = Len(list)
  BY DEF LesserOf
<1>2. \A i \in (offset + 1)..last : list[i] \in S
  BY <1>1, ElementOfSeq
<1>3. CASE offset + 1 <= last
  <2>1. /\ items \in Seq(S)
        /\ Len(items) = last - offset
        /\ \A i \in 1..(last - offset) : items[i] = list[offset + i]
    BY <1>1, <1>2, <1>3, SubSeqProperties DEF Page
  <2>2. \A k \in DOMAIN list : offset < k /\ k <= offset + limit => list[k] \in Range(items)
    <3> SUFFICES ASSUME NEW k \in DOMAIN list, offset < k, k <= offset + limit
                 PROVE  list[k] \in Range(items)
      OBVIOUS
    <3>1. k \in Nat /\ k <= Len(list) /\ k <= last
      BY <1>1
    <3>2. k - offset \in 1..(last - offset) /\ offset + (k - offset) = k
      BY <1>1, <3>1
    <3>3. k - offset \in DOMAIN items /\ items[k - offset] = list[k]
      BY <2>1, <3>2, LenProperties
    <3> QED
      BY <3>3 DEF Range
  <2> HIDE DEF items
  <2>3. /\ Len(items) >= LesserOf(limit, Len(list) - offset) /\ Len(items) <= limit
        /\ Len(items) = limit => offset + limit <= Len(list)
    BY <1>1, <2>1 DEF LesserOf
  <2> QED
    BY <2>1, <2>2, <2>3 DEF items
<1>4. CASE ~(offset + 1 <= last)
  <2>1. items = <<>>
    BY <1>1, <1>4, SubSeqProperties DEF Page
  <2>2. \A k \in DOMAIN list : ~(offset < k /\ k <= offset + limit)
    BY <1>1, <1>4
  <2> QED
    BY <1>1, <1>4, <2>1, <2>2 DEF LesserOf
<1> QED
  BY <1>1, <1>3, <1>4

-----------------------------------------------------------------------------
LEMMA InitIInv == ListingInit => IInv
<1> SUFFICES ASSUME ListingInit PROVE IInv
  OBVIOUS
<1>1. created = <<>> /\ created \in Seq(Jobs) /\ DOMAIN created = {}
  BY DEF ListingInit
<1>2. ListedExist
  BY <1>1 DEF ListingInit, Lifecycle!Init, ListedExist
<1>3. WalkFields
  BY DEF ListingInit, WalkFields, Filters
<1>4. WalkOK
  BY <1>1 DEF ListingInit, WalkOK, NotYetSeenIsAhead, Walking
<1>5. OffsetInTable
  BY DEF ListingInit, OffsetInTable, Walking
<1> QED
  BY <1>2, <1>3, <1>4, <1>5 DEF IInv

\* What the walk has been given stays true of a listing that grows: each entry
\* is shift places further down the table, and what the walk began with was
\* an entry before.
LEMMA ListGrows ==
    ASSUME ListedExist, WalkFields, WalkOK, walk' = walk, NEW shift \in Nat,
           DOMAIN created = 1..Len(created), Len(created) \in Nat,
           DOMAIN created' = 1..Len(created'), Len(created') = Len(created) + shift,
           \A k \in DOMAIN created :
              /\ created'[k + shift] = created[k]
              /\ walk.filter = "any" \/ state[created[k]] = walk.filter =>
                    walk.filter = "any" \/ state'[created[k]] = walk.filter,
           \A k \in DOMAIN created' :
              created'[k] \in walk.base => k - shift \in DOMAIN created
    PROVE  WalkOK'
<1> DEFINE f == walk.filter
           Up(k) == {h \in 1..k : f = "any" \/ state[created[h]] = f}
           Down(k) == {h \in 1..k : f = "any" \/ state'[created'[h]] = f}
<1>0. /\ walk'.filter = f /\ walk'.base = walk.base /\ walk'.seen = walk.seen
      /\ walk'.offset = walk.offset /\ walk'.at = walk.at /\ walk'.total = walk.total
      /\ walk'.items = walk.items /\ walk'.limit = walk.limit
  OBVIOUS
<1>1. \A k : Matching(f, k) = Cardinality(Up(k)) /\ Matching(f, k)' = Cardinality(Down(k))
  BY <1>0 DEF Matching, Matches
<1>2. \A k \in DOMAIN created :
          f = "any" \/ state[created[k]] = f => f = "any" \/ state'[created[k]] = f
  OBVIOUS
<1>3. ASSUME NEW k \in 0..Len(created)
      PROVE  /\ Cardinality(Up(k)) <= Cardinality(Down(k + shift))
             /\ Cardinality(Up(k)) \in Nat /\ Cardinality(Down(k + shift)) \in Nat
  <2>1. ASSUME NEW h \in Up(k) PROVE h + shift \in Down(k + shift)
    <3>1. h \in DOMAIN created /\ h + shift \in 1..(k + shift)
      OBVIOUS
    <3>2. created'[h + shift] = created[h]
      BY <3>1
    <3>3. f = "any" \/ state'[created[h]] = f
      BY <1>2, <3>1
    <3> QED
      BY <3>1, <3>2, <3>3
  <2>2. Up(k) \subseteq 1..k /\ Down(k + shift) \subseteq 1..(k + shift)
    OBVIOUS
  <2>3. k \in Nat /\ k + shift \in Nat
    OBVIOUS
  <2> DEFINE S == Up(k)
             T == Down(k + shift)
             l == k + shift
  <2>4. S \subseteq 1..k /\ T \subseteq 1..l /\ l \in Nat /\ \A h \in S : h + shift \in T
    BY <2>1, <2>2, <2>3
  <2>5. Cardinality(S) <= Cardinality(T) /\ Cardinality(S) \in Nat /\ Cardinality(T) \in Nat
    <3> HIDE DEF S, T, l
    <3> QED
      BY <2>3, <2>4, MatchingGrows
  <2> QED
    BY <2>5
<1>4. walk'.base \subseteq Entries(walk.filter)'
  <2>1. ASSUME NEW j \in walk.base
        PROVE  j \in Range(created') /\ (f = "any" \/ state'[j] = f)
    <3>1. PICK k \in DOMAIN created : created[k] = j /\ (f = "any" \/ state[j] = f)
      BY <2>1 DEF WalkOK, Entries, Range, Matches
    <3>2. k + shift \in DOMAIN created' /\ created'[k + shift] = j
      BY <3>1
    <3> QED
      BY <1>2, <3>1, <3>2 DEF Range
  <2> QED
    BY <1>0, <2>1 DEF Entries, Matches
<1>5. ASSUME Walking, NEW k \in DOMAIN created', created'[k] \in walk.base,
             Cardinality(Down(k)) <= walk.offset
      PROVE  created'[k] \in walk.seen
  <2> DEFINE l == k - shift
  <2>1. l \in DOMAIN created /\ l + shift = k /\ l \in 0..Len(created)
    BY <1>5
  <2>2. created'[k] = created[l]
    BY <2>1
  <2>3. Matches(f, created[l])
    BY <1>5, <2>2 DEF WalkOK, Entries
  <2>4. Cardinality(Up(l)) <= walk.offset
    <3>1. /\ Cardinality(Up(l)) <= Cardinality(Down(k))
          /\ Cardinality(Up(l)) \in Nat /\ Cardinality(Down(k)) \in Nat
      <4> HIDE DEF l, Up, Down
      <4> QED
        BY <1>3, <2>1
    <3>2. walk.offset \in Nat
      BY DEF WalkFields
    <3> HIDE DEF l, Up, Down
    <3> QED
      BY <1>5, <3>1, <3>2
  <2>5. Matching(f, l) <= walk.offset
    BY <1>1, <2>4
  <2> HIDE DEF l, Up, Down
  <2> QED
    BY <1>5, <2>1, <2>2, <2>3, <2>5 DEF WalkOK, NotYetSeenIsAhead
<1> HIDE DEF Up, Down
<1>6. NotYetSeenIsAhead'
  <2>1. Walking' = Walking
    BY <1>0 DEF Walking
  <2> QED
    BY <1>0, <1>1, <1>5, <2>1 DEF NotYetSeenIsAhead
<1>7. walk.at = "counted" => walk.total <= Matching(f, Len(created))'
  <2> DEFINE m == Len(created)
             up == Cardinality(Up(m))
             down == Cardinality(Down(m + shift))
  <2>1. up <= down /\ up \in Nat /\ down \in Nat
    BY <1>3
  <2>2. walk.at = "counted" => walk.total <= up
    BY <1>1 DEF WalkOK
  <2>3. Matching(f, Len(created))' = down
    BY <1>0 DEF Matching, Matches, Down
  <2>4. walk.total \in Nat
    BY DEF WalkFields
  <2> HIDE DEF up, down
  <2> QED
    BY <2>1, <2>2, <2>3, <2>4
<1>8. walk'.at = "ended" => walk'.base \subseteq walk'.seen
  BY <1>0 DEF WalkOK
<1>9. walk'.at # "counted" /\ walk'.offset > 0 =>
          Len(walk'.items) >= LesserOf(walk'.limit, walk'.total - (walk'.offset - walk'.limit))
  BY <1>0 DEF WalkOK
<1> QED
  BY <1>0, <1>4, <1>6, <1>7, <1>8, <1>9 DEF WalkOK

\* An upload moves every job one place further from the front, and the new
\* job is none of the walk's beginning.
LEMMA UploadIInv ==
    ASSUME IInv, NEW j \in Jobs, Upload(j) PROVE IInv'
<1>1. /\ created' = <<j>> \o created /\ walk' = walk
      /\ created \in Seq(Jobs) /\ WalkFields /\ ListedExist
      /\ state[j] = "absent" /\ state' = [state EXCEPT ![j] = "pending"]
  BY DEF Upload, Lifecycle!Create, Lifecycle!Moves, IInv, ListedExist
<1>2. /\ created' \in Seq(Jobs) /\ Len(created') = Len(created) + 1
      /\ Len(created) \in Nat
      /\ DOMAIN created = 1..Len(created) /\ DOMAIN created' = 1..Len(created')
      /\ \A k \in 2..Len(created') : created'[k] = created[k - 1]
      /\ created'[1] = j
  <2>1. <<j>> \in Seq(Jobs) /\ Len(<<j>>) = 1 /\ <<j>>[1] = j
    OBVIOUS
  <2> QED
    BY <1>1, <2>1, ConcatProperties, LenProperties
<1>3. \A k \in DOMAIN created :
          /\ created[k] \in Jobs /\ created[k] # j /\ state'[created[k]] = state[created[k]]
          /\ k + 1 \in 2..Len(created') /\ created'[k + 1] = created[k]
  BY <1>1, <1>2 DEF ListedExist
<1>4. ListedExist'
  <2>1. ASSUME NEW k \in DOMAIN created' PROVE state'[created'[k]] # "absent"
    <3>1. CASE k = 1
      BY <1>1, <1>2, <3>1 DEF ListedExist
    <3>2. CASE k \in 2..Len(created')
      <4>1. k - 1 \in DOMAIN created /\ created'[k] = created[k - 1]
        BY <1>2, <3>2
      <4> QED
        BY <1>1, <1>3, <4>1 DEF ListedExist
    <3> QED
      BY <1>2, <3>1, <3>2
  <2> QED
    BY <1>1, <1>2, <2>1 DEF ListedExist, JobStatus
<1>5. ASSUME WalkOK PROVE WalkOK'
  <2>1. j \notin walk.base
    <3>1. j \notin Range(created)
      BY <1>3 DEF Range
    <3> QED
      BY <1>5, <3>1 DEF WalkOK, Entries
  <2>2. ASSUME NEW k \in DOMAIN created', created'[k] \in walk.base
        PROVE  k - 1 \in DOMAIN created
    BY <1>2, <2>1, <2>2
  <2>3. ASSUME NEW k \in DOMAIN created
        PROVE  /\ created'[k + 1] = created[k]
               /\ walk.filter = "any" \/ state[created[k]] = walk.filter =>
                     walk.filter = "any" \/ state'[created[k]] = walk.filter
    <3>1. state'[created[k]] = state[created[k]] /\ created'[k + 1] = created[k]
      BY <1>3
    <3> QED
      BY <3>1
  <2> QED
    <3> DEFINE shift == 1
    <3>1. shift \in Nat /\ Len(created') = Len(created) + shift
      BY <1>2
    <3>2. \A k \in DOMAIN created' : created'[k] \in walk.base => k - shift \in DOMAIN created
      BY <2>2
    <3> QED
      BY <1>1, <1>2, <1>5, <2>3, <3>1, <3>2, ListGrows
<1>6. WalkFields'
  BY <1>1 DEF WalkFields
<1>7. OffsetInTable'
  BY <1>1, <1>2 DEF IInv, OffsetInTable, Walking, WalkFields
<1> QED
  BY <1>1, <1>4, <1>5, <1>6, <1>7 DEF IInv

\* A job that is processed stays listed, unless the listing is one that jobs
\* leave.
LEMMA ProcessIInv ==
    ASSUME IInv, NEW j \in Jobs, Process(j) PROVE IInv'
<1>1. /\ created' = created /\ walk' = walk /\ WalkFields /\ ListedExist
      /\ \E to \in JobStatus : state' = [state EXCEPT ![j] = to]
      /\ ~AckLoss => state[j] # "completed"
  BY DEF Process, Lifecycle!Start, Lifecycle!Retry, Lifecycle!Complete, Lifecycle!Fail,
         Lifecycle!Retract, Lifecycle!Moves, JobStatus, IInv
<1>2. DOMAIN created = 1..Len(created) /\ Len(created) \in Nat /\ created \in Seq(Jobs)
  BY <1>1 DEF ListedExist
<1>3. ListedExist'
  BY <1>1 DEF ListedExist, JobStatus
<1>4. ASSUME walk.filter \in Growing, WalkOK PROVE WalkOK'
  <2>1. ASSUME NEW k \in DOMAIN created, walk.filter = "any" \/ state[created[k]] = walk.filter
        PROVE  walk.filter = "any" \/ state'[created[k]] = walk.filter
    <3>1. walk.filter = "any" \/ (walk.filter = "completed" /\ ~AckLoss)
      BY <1>4 DEF Growing
    <3>2. CASE walk.filter = "any"
      BY <1>1, <3>2
    <3>3. CASE walk.filter = "completed" /\ ~AckLoss
      <4>1. walk.filter # "any" /\ state[created[k]] = "completed"
        BY <2>1, <3>3
      <4>2. created[k] # j
        BY <1>1, <3>3, <4>1
      <4>3. state'[created[k]] = state[created[k]]
        BY <1>1, <4>2 DEF ListedExist
      <4> QED
        BY <1>1, <3>3, <4>1, <4>3
    <3> QED
      BY <3>1, <3>2, <3>3
  <2>2. ASSUME NEW k \in DOMAIN created
        PROVE  /\ created'[k + 0] = created[k]
               /\ walk.filter = "any" \/ state[created[k]] = walk.filter =>
                     walk.filter = "any" \/ state'[created[k]] = walk.filter
    <3>1. k + 0 = k
      BY <1>2
    <3> QED
      BY <1>1, <2>1, <3>1
  <2>3. \A k \in DOMAIN created' : created'[k] \in walk.base => k - 0 \in DOMAIN created
    BY <1>1, <1>2
  <2>4. Len(created') = Len(created) + 0 /\ DOMAIN created' = 1..Len(created') /\ 0 \in Nat
    BY <1>1, <1>2
  <2> QED
    BY <1>1, <1>2, <1>4, <2>2, <2>3, <2>4, ListGrows
<1>5. WalkFields'
  BY <1>1 DEF WalkFields
<1>6. OffsetInTable'
  BY <1>1 DEF IInv, OffsetInTable, Walking
<1> QED
  BY <1>1, <1>3, <1>4, <1>5, <1>6 DEF IInv

\* The jobs of the walk's beginning are all beyond its offset.
LEMMA AskFirstIInv ==
    ASSUME IInv, NEW filter \in Filters, NEW limit \in PageLimits, AskFirst(filter, limit)
    PROVE  IInv'
<1>1. /\ created' = created /\ state' = state /\ ListedExist
      /\ walk' = [at |-> "asking", filter |-> filter, limit |-> limit, offset |-> 0,
                  total |-> 0, items |-> <<>>, seen |-> {}, base |-> Range(Listed(filter))]
      /\ limit \in Nat \ {0}
  BY ListingAssumption DEF AskFirst, IInv, PageLimits
<1>2. Range(Listed(filter)) = Entries(filter)
  BY <1>1, ListedFacts
<1>3. Entries(filter) \subseteq Jobs
  BY <1>1 DEF Entries, Range, ListedExist
<1>4. WalkFields'
  BY <1>1, <1>2, <1>3 DEF WalkFields
<1>5. WalkOK'
  <2>1. walk'.base \subseteq Entries(walk.filter)'
    <3>1. Entries(filter)' = Entries(filter)
      BY <1>1 DEF Entries, Matches
    <3> QED
      BY <1>1, <1>2, <3>1
  <2>2. ASSUME NEW k \in DOMAIN created, Matches(filter, created[k])
        PROVE  Matching(filter, k)' > 0
    <3>1. Matching(filter, k) \in DOMAIN Listed(filter) /\ Listed(filter) \in Seq(Jobs)
      BY <1>1, <2>2, ListedFacts
    <3>2. Matching(filter, k)' = Matching(filter, k)
      BY <1>1 DEF Matching, Matches
    <3> QED
      BY <3>1, <3>2
  <2>3. NotYetSeenIsAhead'
    <3>1. walk'.offset = 0 /\ walk'.filter = filter
      BY <1>1
    <3>2. \A k \in DOMAIN created : Matches(filter, created[k])' => Matching(filter, k)' > 0
      BY <1>1, <2>2 DEF Matches
    <3>3. \A k \in DOMAIN created : Matches(filter, created[k]) => Matching(filter, k) \in Nat
      <4>1. Listed(filter) \in Seq(Jobs)
        BY <1>1, ListedFacts
      <4> QED
        BY <1>1, <4>1, ListedFacts
    <3>4. \A k : Matching(filter, k)' = Matching(filter, k)
               /\ (Matches(filter, created[k])' <=> Matches(filter, created[k]))
      BY <1>1 DEF Matching, Matches
    <3>5. \A k \in DOMAIN created :
              Matches(filter, created[k])' => ~(Matching(filter, k)' <= walk'.offset)
      BY <3>1, <3>2, <3>3, <3>4
    <3> QED
      BY <1>1, <3>1, <3>5 DEF NotYetSeenIsAhead
  <2>4. walk'.at = "asking" /\ walk'.offset = 0
    BY <1>1
  <2> QED
    BY <2>1, <2>3, <2>4 DEF WalkOK
<1>6. ListedExist'
  BY <1>1 DEF ListedExist
<1>7. OffsetInTable'
  BY <1>1 DEF OffsetInTable, ListedExist
<1> QED
  BY <1>1, <1>4, <1>5, <1>6, <1>7 DEF IInv

LEMMA CountIInv ==
    ASSUME IInv, Count PROVE IInv'
<1>1. /\ created' = created /\ state' = state /\ ListedExist
      /\ walk.at = "asking" /\ WalkFields
      /\ walk' = [walk EXCEPT !.at = "counted", !.total = Len(Listed(walk.filter))]
  BY DEF Count, IInv
<1>2. /\ walk'.at = "counted" /\ walk'.total = Len(Listed(walk.filter))
      /\ walk'.filter = walk.filter /\ walk'.limit = walk.limit
      /\ walk'.offset = walk.offset /\ walk'.items = walk.items
      /\ walk'.seen = walk.seen /\ walk'.base = walk.base
  BY <1>1 DEF WalkFields
<1>3. walk'.total = Matching(walk.filter, Len(created)) /\ walk'.total \in Nat
  <2>1. Listed(walk.filter) \in Seq(Jobs)
    BY <1>1, ListedFacts
  <2> QED
    BY <1>1, <1>2, <2>1, ListedFacts
<1>4. WalkFields'
  BY <1>1, <1>3 DEF WalkFields
<1>5. ASSUME WalkOK PROVE WalkOK'
  <2>1. \A k : Matching(walk.filter, k)' = Matching(walk.filter, k)
             /\ (Matches(walk.filter, created[k])' <=> Matches(walk.filter, created[k]))
    BY <1>1, <1>2 DEF Matching, Matches
  <2>2. Entries(walk.filter)' = Entries(walk.filter)
    BY <1>1, <1>2 DEF Entries, Matches
  <2>3. NotYetSeenIsAhead'
    BY <1>1, <1>2, <1>5, <2>1 DEF WalkOK, NotYetSeenIsAhead, Walking
  <2>4. Matching(walk.filter, Len(created))' = Matching(walk.filter, Len(created))
    BY <1>1, <2>1
  <2> QED
    BY <1>1, <1>2, <1>3, <1>5, <2>2, <2>3, <2>4 DEF WalkOK
<1>6. ListedExist'
  BY <1>1 DEF ListedExist
<1>7. OffsetInTable'
  BY <1>1, <1>2 DEF IInv, OffsetInTable, Walking
<1> QED
  BY <1>1, <1>2, <1>4, <1>5, <1>6, <1>7 DEF IInv

\* The page gives the client the jobs up to the next offset, and a short one
\* those up to the end.
LEMMA ReadPageIInv ==
    ASSUME IInv, ReadPage PROVE IInv'
<1> DEFINE f == walk.filter
           list == Listed(f)
           items == Page(list, walk.offset, walk.limit)
           size == Matching(f, Len(created))
<1>1. /\ created' = created /\ state' = state /\ ListedExist
      /\ walk.at = "counted" /\ WalkFields
      /\ walk' = [walk EXCEPT !.at = IF Len(items) < walk.limit THEN "ended" ELSE "asking",
                              !.offset = @ + walk.limit,
                              !.items = items,
                              !.seen = @ \cup Range(items)]
  BY DEF ReadPage, IInv
<1>2. /\ list \in Seq(Jobs) /\ Len(list) = size /\ Range(list) = Entries(f)
      /\ \A k \in DOMAIN created : Matches(f, created[k]) =>
            Matching(f, k) \in DOMAIN list /\ list[Matching(f, k)] = created[k]
  BY <1>1, ListedFacts
<1>3. walk.offset \in Nat /\ walk.limit \in Nat \ {0} /\ walk.total \in Nat /\ f \in Filters
  BY <1>1 DEF WalkFields
<1>4. /\ items \in Seq(Jobs)
      /\ \A p \in DOMAIN list :
            walk.offset < p /\ p <= walk.offset + walk.limit => list[p] \in Range(items)
      /\ Len(items) >= LesserOf(walk.limit, size - walk.offset)
      /\ Len(items) <= walk.limit
      /\ Len(items) = walk.limit => walk.offset + walk.limit <= size
  <2> HIDE DEF list, size
  <2>1. /\ items \in Seq(Jobs)
        /\ \A p \in DOMAIN list :
              walk.offset < p /\ p <= walk.offset + walk.limit => list[p] \in Range(items)
        /\ Len(items) >= LesserOf(walk.limit, Len(list) - walk.offset)
        /\ Len(items) <= walk.limit
        /\ walk.limit > 0 /\ Len(items) = walk.limit => walk.offset + walk.limit <= Len(list)
    BY <1>2, <1>3, PageFacts
  <2>2. walk.limit > 0
    BY <1>3
  <2> HIDE DEF items
  <2> QED
    BY <1>2, <2>1, <2>2
<1> HIDE DEF items, list, size
<1>5. Len(items) \in Nat /\ size \in Nat /\ DOMAIN list = 1..size /\ Range(items) \subseteq Jobs
  BY <1>2, <1>4 DEF Range
<1>6. /\ walk'.at = (IF Len(items) < walk.limit THEN "ended" ELSE "asking")
      /\ walk'.offset = walk.offset + walk.limit
      /\ walk'.items = items /\ walk'.seen = walk.seen \cup Range(items)
      /\ walk'.filter = f /\ walk'.limit = walk.limit
      /\ walk'.total = walk.total /\ walk'.base = walk.base
  BY <1>1 DEF WalkFields
<1>7. WalkFields'
  <2> DEFINE at == IF Len(items) < walk.limit THEN "ended" ELSE "asking"
             offset == walk.offset + walk.limit
             seen == walk.seen \cup Range(items)
  <2>1. /\ at \in {"asking", "counted", "ended"} /\ offset \in Nat
        /\ seen \subseteq Jobs /\ walk.base \subseteq Jobs
    BY <1>1, <1>3, <1>5 DEF WalkFields
  <2> HIDE DEF at, offset, seen
  <2>2. walk' = [at |-> at, filter |-> f, limit |-> walk.limit,
                 offset |-> offset, total |-> walk.total, items |-> items,
                 seen |-> seen, base |-> walk.base]
    <3>1. walk' = [walk EXCEPT !.at = at, !.offset = offset, !.items = items, !.seen = seen]
      BY <1>1 DEF at, offset, seen
    <3> QED
      BY <1>1, <3>1 DEF WalkFields
  <2>3. /\ walk'.at = at /\ walk'.offset = offset /\ walk'.items = items /\ walk'.seen = seen
        /\ walk'.filter = f /\ walk'.limit = walk.limit
        /\ walk'.total = walk.total /\ walk'.base = walk.base
    BY <2>2
  <2>4. walk' = [at |-> walk'.at, filter |-> walk'.filter, limit |-> walk'.limit,
                 offset |-> walk'.offset, total |-> walk'.total, items |-> walk'.items,
                 seen |-> walk'.seen, base |-> walk'.base]
    BY <2>2, <2>3
  <2> QED
    BY <1>3, <1>4, <2>1, <2>3, <2>4 DEF WalkFields
<1>8. /\ Entries(f)' = Entries(f)
      /\ \A k : Matching(f, k)' = Matching(f, k)
                /\ (Matches(f, created[k])' <=> Matches(f, created[k]))
  BY <1>1, <1>6 DEF Entries, Matching, Matches
<1>9. ASSUME WalkOK PROVE WalkOK'
  <2>1. ASSUME NEW k \in DOMAIN created, Matches(f, created[k]), created[k] \in walk.base,
               Matching(f, k) <= walk.offset + walk.limit
        PROVE  created[k] \in walk'.seen
    <3> DEFINE p == Matching(f, k)
    <3>1. p \in DOMAIN list /\ list[p] = created[k]
      BY <1>2, <2>1
    <3>2. p \in Nat
      BY <1>5, <3>1
    <3>3. CASE p <= walk.offset
      BY <1>1, <1>6, <1>9, <2>1, <3>3 DEF WalkOK, NotYetSeenIsAhead, Walking
    <3>4. CASE walk.offset < p
      <4>1. p <= walk.offset + walk.limit
        BY <2>1
      <4> HIDE DEF p
      <4> QED
        BY <1>4, <1>6, <3>1, <3>4, <4>1
    <3> HIDE DEF p
    <3> QED
      BY <1>3, <3>2, <3>3, <3>4
  <2>2. NotYetSeenIsAhead'
    <3>1. \A k \in DOMAIN created :
              Matches(f, created[k])' /\ created[k] \in walk.base /\ Matching(f, k)' <= walk'.offset
                  => created[k] \in walk'.seen
      BY <1>6, <1>8, <2>1
    <3> QED
      BY <1>1, <1>6, <3>1 DEF NotYetSeenIsAhead
  <2>3. ASSUME walk'.at = "ended" PROVE walk'.base \subseteq walk'.seen
    <3>1. Len(items) < walk.limit
      BY <1>6, <2>3
    <3>2. size <= walk.offset + walk.limit
      BY <1>3, <1>4, <1>5, <3>1 DEF LesserOf
    <3>3. ASSUME NEW j \in walk.base PROVE j \in walk'.seen
      <4>1. PICK k \in DOMAIN created : created[k] = j /\ Matches(f, created[k])
        BY <1>9, <3>3 DEF WalkOK, Entries, Range
      <4>2. Matching(f, k) \in 1..size
        BY <1>2, <1>5, <4>1
      <4>3. Matching(f, k) <= walk.offset + walk.limit
        BY <1>3, <1>5, <3>2, <4>2
      <4> QED
        BY <2>1, <4>1, <4>3
    <3> QED
      BY <1>6, <3>3
  <2>4. Len(walk'.items) >= LesserOf(walk'.limit, walk'.total - (walk'.offset - walk'.limit))
    <3>1. walk.total <= size
      BY <1>1, <1>9 DEF WalkOK, size
    <3>2. walk'.total - (walk'.offset - walk'.limit) = walk.total - walk.offset
      BY <1>3, <1>6
    <3> QED
      BY <1>3, <1>4, <1>5, <1>6, <3>1, <3>2 DEF LesserOf
  <2>5. walk'.base \subseteq Entries(walk.filter)'
    BY <1>6, <1>8, <1>9 DEF WalkOK
  <2>6. walk'.at # "counted"
    BY <1>6
  <2> QED
    BY <1>6, <2>2, <2>3, <2>4, <2>5, <2>6 DEF WalkOK
<1>10. ListedExist'
  BY <1>1 DEF ListedExist
<1>11. OffsetInTable'
  <2>1. size <= Len(created) /\ Len(created) \in Nat
    BY <1>1, MatchingInTable DEF size
  <2>2. walk'.at = "asking" => walk.offset + walk.limit <= size
    BY <1>3, <1>4, <1>5, <1>6
  <2> QED
    BY <1>1, <1>3, <1>5, <1>6, <2>1, <2>2 DEF OffsetInTable, Walking
<1> QED
  BY <1>1, <1>6, <1>7, <1>9, <1>10, <1>11 DEF IInv

LEMMA StutterIInv ==
    ASSUME IInv, UNCHANGED lvars PROVE IInv'
BY DEF IInv, ListedExist, WalkFields, OffsetInTable, WalkOK, NotYetSeenIsAhead, Walking,
       Entries, Matches, Matching, lvars

\* The invariant is inductive: what a client has of a listing, at every step
\* of list_jobs, of an upload and of a worker.
THEOREM ListingInvariant == ListingSpec => []IInv
<1>1. IInv /\ [ListingNext]_lvars => IInv'
  BY UploadIInv, ProcessIInv, AskFirstIInv, CountIInv, ReadPageIInv, StutterIInv
  DEF ListingNext
<1> QED
  BY <1>1, InitIInv, PTL DEF ListingSpec

-----------------------------------------------------------------------------
\* The table and the walk have their types, whatever is uploaded.
THEOREM ListingTypes == ListingSpec => []ListingTypeOK
<1>1. IInv => ListingTypeOK
  <2> SUFFICES ASSUME IInv PROVE ListingTypeOK
    OBVIOUS
  <2>1. WalkFields /\ ListedExist
    BY DEF IInv
  <2>2. walk \in Walks
    BY <2>1 DEF WalkFields, Walks
  <2> QED
    BY <2>1, <2>2 DEF ListedExist, ListingTypeOK
<1> QED
  BY <1>1, ListingInvariant, PTL

\* A client that pages through GET /jobs until a page is short, without a
\* filter or through the completed jobs when none of them is retracted, is
\* given every job that was listed when it began, whatever is uploaded and
\* processed meanwhile.
THEOREM WalkIsComplete == ListingSpec => []WalkMissesNothing
<1>1. IInv => WalkMissesNothing
  BY DEF IInv, WalkOK, WalkMissesNothing
<1> QED
  BY <1>1, ListingInvariant, PTL

\* A page of such a listing holds all that the total beside it promises,
\* although another SELECT counted it.
THEOREM PagesKeepPromise == ListingSpec => []PageKeepsItsPromise
<1>1. IInv => PageKeepsItsPromise
  BY DEF IInv, WalkOK, PageKeepsItsPromise
<1> QED
  BY <1>1, ListingInvariant, PTL

\* Whatever the filter, and whatever leaves the listing meanwhile: no request
\* of a walk is for an offset beyond the table.  As each page moves the offset
\* on (PageLimits has no 0), a walk ends unless jobs keep coming.
THEOREM OffsetsInTable == ListingSpec => [](walk.at # "ended" => walk.offset <= Len(created))
<1>1. IInv => (walk.at # "ended" => walk.offset <= Len(created))
  BY DEF IInv, OffsetInTable, Walking, WalkFields
<1> QED
  BY <1>1, ListingInvariant, PTL
=============================================================================
