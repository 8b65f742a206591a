---------------------------- MODULE ReportsProofs ----------------------------
(***************************************************************************)
(* The properties of Reports, on files of any length.                        *)
(***************************************************************************)
EXTENDS Reports, SetFacts

NonNegative(I) == \A i \in I : rows[i].amount \in Nat

OutliersOf(account) == {i \in RowsOf(account) : "amount_outlier" \in reasons[i]}

FewOutliers ==
    \A account \in Accounts :
        RowsOf(account) # {} /\ NonNegative(RowsOf(account)) =>
            2 * Cardinality(OutliersOf(account)) < Cardinality(RowsOf(account))

Marked ==
    ~(cfg.has_client /\ cfg.batch_size < 0) =>
        \A i \in DOMAIN rows : effective_category(i) = Uncategorised <=> i \in llm_failed

IsSummary == summary = SummaryData(summary.narrative, summary.risk_level)

\* What is known of the file and of the summary in each phase.
RInv ==
    /\ TypeOK
    /\ phase \notin {"cleaned", "raised"} => ~HasNaN /\ FewOutliers
    /\ phase \in {"classified", "summarised", "stored"} => Marked /\ ~ZeroBatches
    /\ phase \in {"cleaned", "detected", "classified"} => summary = NoSummary
    /\ phase \in {"summarised", "stored"} => IsSummary
    /\ phase = "stored" => Accepted
    /\ phase = "raised" =>
          \/ HasNaN /\ summary = NoSummary
          \/ ~HasNaN /\ ZeroBatches /\ summary = NoSummary
          \/ ~HasNaN /\ ~ZeroBatches /\ Marked /\ IsSummary /\ ~Accepted

\* The rows above the median are fewer than half: what lies at or below the
\* upper middle value takes more than half of the places.
LEMMA FewAboveMedian ==
    ASSUME NEW I, IsFiniteSet(I), I # {}, NonNegative(I),
           NEW m, IsTwiceMedian(I, m),
           NEW O \in SUBSET I, \A i \in O : Outlier(rows[i], m)
    PROVE  2 * Cardinality(O) < Cardinality(I)
<1>1. PICK low \in {rows[i].amount : i \in I}, high \in {rows[i].amount : i \in I} :
          AtRank(I, Cardinality(I) \div 2, high) /\ m = low + high
  BY DEF IsTwiceMedian
<1>2. low \in Nat /\ high \in Nat
  BY DEF NonNegative
<1> DEFINE n == Cardinality(I)
           atMost == {i \in I : rows[i].amount <= high}
<1>3. n \in Nat /\ n \div 2 \in Nat /\ n - 2 * (n \div 2) \in {0, 1}
  BY FS_CardinalityType
<1>4. /\ IsFiniteSet(atMost) /\ Cardinality(atMost) \in Nat
      /\ IsFiniteSet(O) /\ Cardinality(O) \in Nat
  BY FS_Subset, FS_CardinalityType
<1>5. n \div 2 < Cardinality(atMost)
  BY <1>1 DEF AtRank
<1>6. O \cap atMost = {}
  <2> SUFFICES ASSUME NEW i \in O, rows[i].amount <= high PROVE FALSE
    OBVIOUS
  <2>1. rows[i].amount \in Nat /\ 2 * rows[i].amount > 3 * (low + high)
    BY <1>1 DEF Outlier, NonNegative
  <2> QED
    BY <1>2, <2>1
<1>7. Cardinality(O) + Cardinality(atMost) <= n
  <2>1. O \cup atMost \in SUBSET I
    OBVIOUS
  <2>2. Cardinality(O \cup atMost) <= n
    BY <2>1, FS_Subset
  <2>3. Cardinality(O \cup atMost) = Cardinality(O) + Cardinality(atMost) - Cardinality({})
    BY <1>4, <1>6, FS_Union
  <2> QED
    BY <1>4, <2>2, <2>3, FS_EmptySet
<1> HIDE DEF n, atMost
<1>8. 2 * Cardinality(O) < n
  BY <1>3, <1>4, <1>5, <1>7
<1> QED
  BY <1>8 DEF n

LEMMA RowFacts ==
    ASSUME TypeOK
    PROVE  /\ IsFiniteSet(DOMAIN rows) /\ DOMAIN rows \in SUBSET Nat
           /\ \A i \in DOMAIN rows : rows[i].amount \in Int \cup {NaN}
           /\ \A i \in DOMAIN rows : rows[i].currency \in {"INR", "USD"}
           /\ \A account : RowsOf(account) \in SUBSET (DOMAIN rows)
                             /\ IsFiniteSet(RowsOf(account))
<1>1. DOMAIN rows = 1..Len(rows) /\ Len(rows) \in Nat
  BY DEF TypeOK
<1>2. IsFiniteSet(DOMAIN rows) /\ DOMAIN rows \in SUBSET Nat
  BY <1>1, FS_Interval
<1>3. \A i \in DOMAIN rows : rows[i] \in Row
  BY DEF TypeOK
<1>4. /\ \A i \in DOMAIN rows : rows[i].amount \in Int \cup {NaN}
      /\ \A i \in DOMAIN rows : rows[i].currency \in {"INR", "USD"}
  BY <1>3 DEF Row
<1>5. \A account : RowsOf(account) \in SUBSET (DOMAIN rows)
  BY DEF RowsOf
<1> QED
  BY <1>2, <1>4, <1>5, FS_Subset

LEMMA InitRInv == Init => RInv
<1> SUFFICES ASSUME Init PROVE RInv
  OBVIOUS
<1>1. rows \in Seq(Row) /\ cfg \in Settings
  BY ReportsAssumption DEF Init
<1> QED
  BY <1>1 DEF Init, RInv, TypeOK, Reasons

\* Rows, reasons and categories determine the summary, the answer apart.
LEMMA SameSummary ==
    ASSUME rows' = rows, reasons' = reasons, llm_category' = llm_category
    PROVE  \A n, k : SummaryData(n, k)' = SummaryData(n, k)
<1>1. \A I : Spend(I)' = Spend(I)
  BY DEF Spend
<1>2. CategoryBreakdown' = CategoryBreakdown
  BY DEF CategoryBreakdown, effective_category, Success, Spend
<1>3. TopMerchants' = TopMerchants
  BY DEF TopMerchants, Place, Precedes, Success, SuccessAt, Spend
<1> QED
  BY <1>2, <1>3 DEF SummaryData, SuccessIn, Success, Spend

LEMMA DetectRInv == ASSUME RInv, DetectAnomalies PROVE RInv'
<1>1. /\ TypeOK /\ rows' = rows /\ cfg' = cfg /\ phase' = "detected" /\ ~HasNaN
      /\ llm_failed' = llm_failed /\ llm_category' = llm_category /\ summary' = NoSummary
  BY DEF RInv, DetectAnomalies
<1>2. PICK twice \in TwiceMedians :
          reasons' = [i \in DOMAIN rows |-> Tripped(rows[i], twice[rows[i].account_id])]
  BY DEF DetectAnomalies
<1>3. TypeOK'
  BY <1>1, <1>2 DEF TypeOK, Tripped
<1>4. ASSUME NEW account \in Accounts, RowsOf(account) # {}, NonNegative(RowsOf(account))
      PROVE  2 * Cardinality({i \in RowsOf(account) : "amount_outlier" \in reasons'[i]})
                < Cardinality(RowsOf(account))
  <2> DEFINE O == {i \in RowsOf(account) : "amount_outlier" \in reasons'[i]}
  <2>1. account \in DOMAIN twice
    BY <1>4 DEF RowsOf, TwiceMedians
  <2>2. IsTwiceMedian(RowsOf(account), twice[account])
    BY <2>1 DEF TwiceMedians
  <2>3. \A i \in O : Outlier(rows[i], twice[account])
    BY <1>2 DEF RowsOf, Tripped
  <2>4. IsFiniteSet(RowsOf(account))
    BY <1>1, RowFacts
  <2> QED
    BY <1>4, <2>2, <2>3, <2>4, FewAboveMedian
<1>5. FewOutliers'
  BY <1>1, <1>4 DEF FewOutliers, OutliersOf, RowsOf, NonNegative
<1>6. ~HasNaN'
  BY <1>1 DEF HasNaN
<1> QED
  BY <1>1, <1>3, <1>5, <1>6 DEF RInv

\* Later steps leave rows and reasons alone.
LEMMA SameFindings ==
    ASSUME RInv, rows' = rows, reasons' = reasons
    PROVE  HasNaN' = HasNaN /\ FewOutliers' = FewOutliers
<1>1. HasNaN' = HasNaN
  BY DEF HasNaN
<1>2. FewOutliers' = FewOutliers
  BY DEF FewOutliers, OutliersOf, RowsOf, NonNegative
<1> QED
  BY <1>1, <1>2

LEMMA RaisesRInv == ASSUME RInv, DetectRaises PROVE RInv'
<1>1. TypeOK'
  BY DEF RInv, TypeOK, DetectRaises
<1>2. HasNaN' /\ summary' = NoSummary /\ phase' = "raised"
  BY DEF RInv, DetectRaises, HasNaN
<1> QED
  BY <1>1, <1>2 DEF RInv

LEMMA ClassifyRaisesRInv == ASSUME RInv, ClassifyRaises PROVE RInv'
<1>1. /\ TypeOK /\ rows' = rows /\ cfg' = cfg /\ reasons' = reasons /\ phase' = "raised"
      /\ ~HasNaN /\ ZeroBatches /\ summary' = NoSummary
      /\ llm_category' = llm_category /\ llm_failed' = llm_failed
  BY DEF RInv, ClassifyRaises
<1>2. TypeOK'
  BY <1>1 DEF TypeOK
<1>3. ~HasNaN' /\ ZeroBatches'
  BY <1>1 DEF HasNaN, ZeroBatches, Targets
<1> QED
  BY <1>1, <1>2, <1>3 DEF RInv

\* What is marked are targets: all of them without a client.
LEMMA FailedAreTargets ==
    ASSUME NEW failed \in MayFail
    PROVE  failed \in SUBSET Targets /\ (~cfg.has_client => failed = Targets)
<1>1. CASE ~cfg.has_client
  BY <1>1 DEF MayFail
<1>2. CASE cfg.has_client /\ ~InBatches
  <2>1. failed = {}
    BY <1>2 DEF MayFail
  <2> QED
    BY <1>2, <2>1
<1>3. CASE cfg.has_client /\ InBatches
  <2>1. \E failing : failed = {i \in Targets : Batch(i) \in failing}
    BY <1>3 DEF MayFail
  <2> QED
    BY <1>3, <2>1
<1> QED
  BY <1>1, <1>2, <1>3

\* What is left uncategorised are the rows of the failed batches.
LEMMA ClassifyRInv == ASSUME RInv, Classify PROVE RInv'
<1>1. /\ TypeOK /\ rows' = rows /\ cfg' = cfg /\ reasons' = reasons /\ phase' = "classified"
      /\ ~HasNaN /\ FewOutliers /\ ~ZeroBatches /\ summary' = NoSummary
  BY DEF RInv, Classify
<1>2. PICK failed \in MayFail :
          \E given \in [(IF InBatches THEN Targets \ failed ELSE {}) -> Categories] :
            /\ llm_failed' = failed
            /\ llm_category' = [i \in DOMAIN rows |->
                  IF i \in DOMAIN given THEN given[i] ELSE NoCategory]
  BY DEF Classify
<1>3. PICK given \in [(IF InBatches THEN Targets \ failed ELSE {}) -> Categories] :
          /\ llm_failed' = failed
          /\ llm_category' = [i \in DOMAIN rows |->
                IF i \in DOMAIN given THEN given[i] ELSE NoCategory]
  BY <1>2
<1>4. failed \in SUBSET Targets /\ (~cfg.has_client => failed = Targets)
  BY <1>2, FailedAreTargets
<1>5. Targets \in SUBSET (DOMAIN rows)
  BY DEF Targets
<1>6. DOMAIN given = (IF InBatches THEN Targets \ failed ELSE {})
  OBVIOUS
<1>7. TypeOK'
  <2>1. \A i \in DOMAIN given : given[i] \in Categories
    OBVIOUS
  <2>2. llm_category' \in [DOMAIN rows -> Categories \cup {NoCategory}]
    BY <1>3, <2>1
  <2>3. llm_failed' \subseteq DOMAIN rows
    BY <1>3, <1>4, <1>5
  <2> QED
    BY <1>1, <2>2, <2>3 DEF TypeOK
<1>8. ASSUME ~(cfg.has_client /\ cfg.batch_size < 0), NEW i \in DOMAIN rows
      PROVE  effective_category(i)' = Uncategorised <=> i \in llm_failed'
  <2>1. CASE rows[i].category # Uncategorised
    <3>1. effective_category(i)' = rows[i].category
      BY <2>1, <1>1 DEF effective_category
    <3>2. i \notin Targets
      BY <2>1 DEF Targets
    <3> QED
      BY <2>1, <3>1, <3>2, <1>3, <1>4
  <2>2. CASE i \in failed
    <3>1. rows[i].category = Uncategorised /\ llm_category'[i] = NoCategory
      BY <2>2, <1>3, <1>4, <1>6 DEF Targets
    <3>2. effective_category(i)' = Uncategorised
      BY <3>1, <1>1 DEF effective_category
    <3> QED
      BY <2>2, <3>2, <1>3
  <2>3. CASE i \in Targets \ failed
    <3>1. InBatches
      <4>1. cfg.has_client /\ Targets # {}
        BY <2>3, <1>4
      <4>2. cfg.batch_size \in Int /\ cfg.batch_size # 0
        BY <1>1, <4>1 DEF ZeroBatches, TypeOK, Settings
      <4>3. ~(cfg.batch_size < 0)
        BY <1>8, <4>1
      <4>4. cfg.batch_size > 0
        BY <4>2, <4>3
      <4> QED
        BY <4>1, <4>4 DEF InBatches
    <3>2. i \in DOMAIN given
      BY <2>3, <3>1, <1>6
    <3>3. llm_category'[i] = given[i] /\ given[i] \in Categories
      BY <3>2, <1>3
    <3>4. llm_category'[i] # NoCategory /\ llm_category'[i] # Uncategorised
      BY <3>3, ReportsAssumption
    <3>5. effective_category(i)' = llm_category'[i]
      BY <2>3, <3>4, <1>1 DEF effective_category, Targets
    <3> QED
      BY <2>3, <3>4, <3>5, <1>3
  <2>4. rows[i].category = Uncategorised => i \in Targets
    BY DEF Targets
  <2> QED
    BY <2>1, <2>2, <2>3, <2>4
<1>9. Marked'
  BY <1>1, <1>8 DEF Marked
<1>10. ~HasNaN' /\ FewOutliers'
  BY <1>1, SameFindings
<1>11. ~ZeroBatches'
  BY <1>1 DEF ZeroBatches, Targets
<1> QED
  BY <1>1, <1>7, <1>9, <1>10, <1>11 DEF RInv

\* The COMMIT and everything after the classification.
LEMMA SameMarks ==
    ASSUME rows' = rows, cfg' = cfg, llm_category' = llm_category, llm_failed' = llm_failed
    PROVE  Marked' = Marked /\ ZeroBatches' = ZeroBatches
<1>1. Marked' = Marked
  BY DEF Marked, effective_category
<1>2. ZeroBatches' = ZeroBatches
  BY DEF ZeroBatches, Targets
<1> QED
  BY <1>1, <1>2

LEMMA SummariseRInv == ASSUME RInv, Summarise PROVE RInv'
<1>1. /\ TypeOK /\ ~HasNaN /\ FewOutliers /\ Marked /\ ~ZeroBatches /\ phase' = "summarised"
      /\ rows' = rows /\ cfg' = cfg /\ reasons' = reasons
      /\ llm_category' = llm_category /\ llm_failed' = llm_failed
  BY DEF RInv, Summarise
<1>2. TypeOK'
  BY <1>1 DEF TypeOK
<1>3. ~HasNaN' /\ FewOutliers'
  BY <1>1, SameFindings
<1>4. Marked' /\ ~ZeroBatches'
  BY <1>1, SameMarks
<1>5. PICK narrative \in Narratives, risk_level \in RiskLevels :
          summary' = SummaryData(narrative, risk_level)
  BY DEF Summarise
<1>6. summary'.narrative = narrative /\ summary'.risk_level = risk_level
  BY <1>5 DEF SummaryData
<1>7. SummaryData(narrative, risk_level)' = SummaryData(narrative, risk_level)
  BY <1>1, SameSummary
<1>8. IsSummary'
  BY <1>5, <1>6, <1>7 DEF IsSummary, SummaryData
<1> QED
  BY <1>1, <1>2, <1>3, <1>4, <1>8 DEF RInv

LEMMA SameIsSummary ==
    ASSUME rows' = rows, reasons' = reasons, llm_category' = llm_category, summary' = summary
    PROVE  IsSummary' = IsSummary
<1>1. SummaryData(summary.narrative, summary.risk_level)'
        = SummaryData(summary.narrative, summary.risk_level)
  BY SameSummary DEF SummaryData
<1> QED
  BY <1>1 DEF IsSummary

LEMMA PersistRInv == ASSUME RInv, Persist PROVE RInv'
<1>1. /\ TypeOK /\ ~HasNaN /\ FewOutliers /\ Marked /\ ~ZeroBatches /\ IsSummary
      /\ phase' = (IF Accepted THEN "stored" ELSE "raised")
      /\ summary' = summary /\ rows' = rows /\ cfg' = cfg /\ reasons' = reasons
      /\ llm_category' = llm_category /\ llm_failed' = llm_failed
  BY DEF RInv, Persist
<1>2. TypeOK'
  BY <1>1 DEF TypeOK
<1>3. ~HasNaN' /\ FewOutliers'
  BY <1>1, SameFindings
<1>4. Marked' /\ ~ZeroBatches'
  BY <1>1, SameMarks
<1>5. IsSummary'
  BY <1>1, SameIsSummary
<1>6. Accepted' = Accepted
  BY <1>1 DEF Accepted
<1> QED
  BY <1>1, <1>2, <1>3, <1>4, <1>5, <1>6 DEF RInv

LEMMA StutterRInv == ASSUME RInv, UNCHANGED vars PROVE RInv'
<1>1. /\ phase' = phase /\ summary' = summary /\ rows' = rows /\ cfg' = cfg
      /\ reasons' = reasons /\ llm_category' = llm_category /\ llm_failed' = llm_failed
  BY DEF vars
<1>2. TypeOK' = TypeOK
  BY <1>1 DEF TypeOK
<1>3. HasNaN' = HasNaN /\ FewOutliers' = FewOutliers
  BY <1>1, SameFindings
<1>4. Marked' = Marked /\ ZeroBatches' = ZeroBatches
  BY <1>1, SameMarks
<1>5. IsSummary' = IsSummary
  BY <1>1, SameIsSummary
<1>6. Accepted' = Accepted
  BY <1>1 DEF Accepted
<1> QED
  BY <1>1, <1>2, <1>3, <1>4, <1>5, <1>6 DEF RInv

\* The invariant is inductive: what is known of a file in each phase of the
\* pipeline, and of the summary once there is one.
THEOREM ReportsInvariant == Spec => []RInv
<1>1. RInv /\ [Next]_vars => RInv'
  BY DetectRInv, RaisesRInv, ClassifyRaisesRInv, ClassifyRInv, SummariseRInv, PersistRInv,
     StutterRInv DEF Next
<1> QED
  BY <1>1, InitRInv, PTL DEF Spec

-----------------------------------------------------------------------------
LEMMA SummaryMade ==
    ASSUME RInv, summary.made
    PROVE  TypeOK /\ ~HasNaN /\ Marked /\ IsSummary
<1>1. summary # NoSummary
  BY DEF NoSummary
<1> QED
  BY <1>1 DEF RInv, TypeOK

LEMMA SuccessFacts ==
    ASSUME TypeOK
    PROVE  /\ Success \in SUBSET (DOMAIN rows) /\ IsFiniteSet(Success)
           /\ Success \in SUBSET Nat
<1>1. Success \in SUBSET (DOMAIN rows)
  BY DEF Success
<1> QED
  BY <1>1, RowFacts, FS_Subset

\* Sums of the amounts of rows are integers.
LEMMA SpendType ==
    ASSUME TypeOK, ~HasNaN, NEW I \in SUBSET (DOMAIN rows)
    PROVE  Spend(I) \in Int
<1>1. IsFiniteSet(I)
  BY RowFacts, FS_Subset
<1>2. \A i \in I : [j \in DOMAIN rows |-> rows[j].amount][i] \in Int
  BY RowFacts DEF HasNaN
<1> QED
  BY <1>1, <1>2, SumType DEF Spend

\* What the breakdown calls uncategorised is what the failed batches left, in
\* every file and for every answer.
THEOREM UncategorisedIsFailed == Spec => []UncategorisedSpendIsFailures
<1>1. ASSUME RInv PROVE UncategorisedSpendIsFailures
  <2> SUFFICES ASSUME summary.made, ~(cfg.has_client /\ cfg.batch_size < 0)
               PROVE  /\ Uncategorised \in DOMAIN summary.category_breakdown
                            <=> llm_failed \cap Success # {}
                      /\ Uncategorised \in DOMAIN summary.category_breakdown =>
                            summary.category_breakdown[Uncategorised]
                               = Spend(llm_failed \cap Success)
    BY DEF UncategorisedSpendIsFailures
  <2>1. TypeOK /\ Marked /\ summary.category_breakdown = CategoryBreakdown
    BY <1>1, SummaryMade DEF IsSummary, SummaryData
  <2>2. \A i \in Success : effective_category(i) = Uncategorised <=> i \in llm_failed
    BY <2>1, SuccessFacts DEF Marked
  <2>3. {i \in Success : effective_category(i) = Uncategorised} = llm_failed \cap Success
    BY <2>2
  <2>4. DOMAIN CategoryBreakdown = {effective_category(i) : i \in Success}
    BY DEF CategoryBreakdown
  <2>5. Uncategorised \in DOMAIN CategoryBreakdown =>
            CategoryBreakdown[Uncategorised] = Spend(llm_failed \cap Success)
    BY <2>3 DEF CategoryBreakdown
  <2> QED
    BY <2>1, <2>2, <2>4, <2>5
<1> QED
  BY <1>1, ReportsInvariant, PTL

\* A file is lost exactly if it holds a value that its column does not take, if
\* the LLM's narrative is none, or if its rows go in batches of zero.
THEOREM UnstorableFails == Spec => []FailsOnUnstorableOnly
<1>1. ASSUME RInv PROVE FailsOnUnstorableOnly
  <2> DEFINE BadRow == \E i \in DOMAIN rows :
                 \/ rows[i].amount = NaN \/ rows[i].amount < 0 \/ rows[i].amount > MaxAmount
                 \/ rows[i].merchant \in Overlong
             BadTotal == \E c \in {"INR", "USD"} : Spend(SuccessIn(c)) > MaxTotal
             BadNarrative == summary.made /\ summary.narrative = "unstorable"
             NoBatches == /\ cfg.has_client /\ cfg.batch_size = 0
                          /\ \E i \in DOMAIN rows : rows[i].category = Uncategorised
  <2> SUFFICES ASSUME Ended
               PROVE  phase = "raised" <=> BadRow \/ BadTotal \/ BadNarrative \/ NoBatches
    BY DEF FailsOnUnstorableOnly
  <2>1. TypeOK
    BY <1>1 DEF RInv
  <2>2. NoBatches <=> ZeroBatches
    BY DEF ZeroBatches, Targets
  <2>3. CASE HasNaN
    <3>1. phase = "raised"
      BY <1>1, <2>3 DEF Ended, RInv
    <3> QED
      BY <2>3, <3>1 DEF HasNaN
  <2>4. CASE ~HasNaN /\ ZeroBatches
    <3>1. phase = "raised"
      BY <1>1, <2>4 DEF Ended, RInv
    <3> QED
      BY <2>2, <2>4, <3>1
  <2>5. CASE ~HasNaN /\ ~ZeroBatches
    <3>1. IsSummary /\ (phase = "raised" <=> ~Accepted)
      BY <1>1, <2>5 DEF Ended, RInv
    <3>2. \A i \in DOMAIN rows : rows[i].amount \in Int
      BY <2>1, <2>5, RowFacts DEF HasNaN
    <3>3. \A c : SuccessIn(c) \in SUBSET (DOMAIN rows)
      BY DEF SuccessIn, Success
    <3>4. \A c : Spend(SuccessIn(c)) \in Int
      BY <2>1, <2>5, <3>3, SpendType
    <3>5. /\ summary.made
          /\ summary.total_spend_inr = Spend(SuccessIn("INR"))
          /\ summary.total_spend_usd = Spend(SuccessIn("USD"))
      BY <3>1 DEF IsSummary, SummaryData
    <3>6. MaxAmount \in Nat /\ MaxTotal \in Nat /\ NaN \notin Int
      BY ReportsAssumption
    <3>7. BadRow <=> ~\A i \in DOMAIN rows :
                         Insertable(rows[i].amount) /\ rows[i].merchant \notin Overlong
      BY <3>2, <3>6 DEF Insertable
    <3>8. BadTotal <=> ~(/\ summary.total_spend_inr <= MaxTotal
                         /\ summary.total_spend_usd <= MaxTotal)
      BY <3>4, <3>5, <3>6
    <3>9. BadNarrative <=> ~(summary.narrative # "unstorable")
      BY <3>5
    <3> HIDE DEF BadRow, BadTotal, BadNarrative, NoBatches
    <3> QED
      BY <2>2, <2>5, <3>1, <3>7, <3>8, <3>9 DEF Accepted
  <2> QED
    BY <2>3, <2>4, <2>5
<1> QED
  BY <1>1, ReportsInvariant, PTL

-----------------------------------------------------------------------------
\* The merchants, in the order of the report.
Paid == {rows[i].merchant : i \in Success}

Order == {p \in Paid \X Paid : Precedes(p[1], p[2])}

\* Each has a payment of its own that came first: no two tie in the order.
LEMMA FirstPayments ==
    ASSUME TypeOK
    PROVE  /\ IsFiniteSet(Paid)
           /\ \A m \in Paid : Min(SuccessAt(m)) \in SuccessAt(m) /\ Min(SuccessAt(m)) \in Nat
           /\ \A m, n \in Paid : Min(SuccessAt(m)) = Min(SuccessAt(n)) => m = n
<1>1. IsFiniteSet(Paid)
  <2> DEFINE of == [i \in Success |-> rows[i].merchant]
  <2>1. IsFiniteSet({of[i] : i \in Success})
    BY SuccessFacts, ImageFinite
  <2>2. {of[i] : i \in Success} = Paid
    BY DEF Paid
  <2> QED
    BY <2>1, <2>2
<1>2. ASSUME NEW m \in Paid
      PROVE  Min(SuccessAt(m)) \in SuccessAt(m) /\ Min(SuccessAt(m)) \in Nat
  <2>1. SuccessAt(m) \in SUBSET Success /\ SuccessAt(m) # {}
    BY DEF SuccessAt, Paid
  <2>2. IsFiniteSet(SuccessAt(m)) /\ SuccessAt(m) \in SUBSET Nat /\ SuccessAt(m) \in SUBSET Int
    BY <2>1, SuccessFacts, FS_Subset
  <2>3. Min(SuccessAt(m)) \in SuccessAt(m)
    BY <2>1, <2>2, MinIsLeast
  <2> QED
    BY <2>2, <2>3
<1>3. ASSUME NEW m \in Paid, NEW n \in Paid, Min(SuccessAt(m)) = Min(SuccessAt(n))
      PROVE  m = n
  <2>1. Min(SuccessAt(m)) \in SuccessAt(m) /\ Min(SuccessAt(m)) \in SuccessAt(n)
    BY <1>2, <1>3
  <2> QED
    BY <2>1 DEF SuccessAt
<1> QED
  BY <1>1, <1>2, <1>3

LEMMA OrderIsRanking ==
    ASSUME TypeOK, ~HasNaN
    PROVE  IsRanking(Order, Paid)
<1> DEFINE t(m) == Spend(SuccessAt(m))
           f(m) == Min(SuccessAt(m))
<1>1. \A m \in Paid : t(m) \in Int /\ f(m) \in Int
  <2>1. \A m : SuccessAt(m) \in SUBSET (DOMAIN rows)
    BY DEF SuccessAt, Success
  <2> QED
    BY <2>1, SpendType, FirstPayments
<1>2. \A m, n \in Paid : f(m) = f(n) => m = n
  BY FirstPayments
<1>3. \A m, n \in Paid : <<m, n>> \in Order <=> t(m) > t(n) \/ (t(m) = t(n) /\ f(m) < f(n))
  BY DEF Order, Precedes
<1> HIDE DEF t, f
<1>4. \A m \in Paid : <<m, m>> \notin Order
  BY <1>1, <1>3
<1>5. \A m, n, o \in Paid : <<m, n>> \in Order /\ <<n, o>> \in Order => <<m, o>> \in Order
  BY <1>1, <1>3
<1>6. \A m, n \in Paid : m = n \/ <<m, n>> \in Order \/ <<n, m>> \in Order
  <2> SUFFICES ASSUME NEW m \in Paid, NEW n \in Paid, m # n
               PROVE  <<m, n>> \in Order \/ <<n, m>> \in Order
    OBVIOUS
  <2>1. f(m) # f(n)
    BY <1>2
  <2> QED
    BY <1>1, <1>3, <2>1
<1> QED
  BY <1>4, <1>5, <1>6 DEF IsRanking

LEMMA PlaceIsRank == ASSUME NEW m \in Paid PROVE Place(m, Paid) = Rank(m, Order, Paid)
<1>1. {n \in Paid : Precedes(n, m)} = Before(m, Order, Paid)
  BY DEF Before, Order
<1> QED
  BY <1>1 DEF Place, Rank

Shown == Min({3, Cardinality(Paid)})

\* The k-th of the list is the merchant whose place is k.
LEMMA TopIsRanked ==
    ASSUME TypeOK, ~HasNaN
    PROVE  /\ Shown \in Nat /\ Shown <= Cardinality(Paid) /\ Cardinality(Paid) \in Nat
           /\ Shown = 3 \/ (Shown < 3 /\ Shown = Cardinality(Paid))
           /\ DOMAIN TopMerchants = 1..Shown /\ Len(TopMerchants) = Shown
           /\ \A k \in 1..Shown :
                 /\ TopMerchants[k].merchant \in Paid
                 /\ Rank(TopMerchants[k].merchant, Order, Paid) = k
                 /\ TopMerchants[k].total = Spend(SuccessAt(TopMerchants[k].merchant))
<1>1. IsFiniteSet(Paid) /\ Cardinality(Paid) \in Nat
  BY FirstPayments, FS_CardinalityType
<1>2. /\ Shown \in Nat /\ Shown <= Cardinality(Paid)
      /\ Shown = 3 \/ (Shown < 3 /\ Shown = Cardinality(Paid))
  <2> DEFINE both == {3, Cardinality(Paid)}
  <2>1. both \in SUBSET Int /\ IsFiniteSet(both) /\ both # {}
    <3>1. IsFiniteSet({3})
      BY FS_Singleton
    <3>2. IsFiniteSet({3} \cup {Cardinality(Paid)})
      BY <3>1, FS_AddElement
    <3>3. both = {3} \cup {Cardinality(Paid)}
      OBVIOUS
    <3> QED
      BY <1>1, <3>2, <3>3
  <2> HIDE DEF both
  <2>2. Min(both) \in both /\ \A y \in both : Min(both) <= y
    BY <2>1, MinIsLeast
  <2> QED
    BY <1>1, <2>2 DEF both, Shown
<1> DEFINE top(k) == CHOOSE m \in Paid : Place(m, Paid) = k
<1>3. TopMerchants = [k \in 1..Shown |->
                         [merchant |-> top(k), total |-> Spend(SuccessAt(top(k))),
                          count |-> Cardinality(SuccessAt(top(k)))]]
  BY DEF TopMerchants, Paid, Shown
<1>4. ASSUME NEW k \in 1..Shown
      PROVE  top(k) \in Paid /\ Rank(top(k), Order, Paid) = k
  <2>1. k \in 1..Cardinality(Paid)
    BY <1>1, <1>2
  <2>2. \E m \in Paid : Place(m, Paid) = k
    BY <1>1, <2>1, OrderIsRanking, RankOnto, PlaceIsRank
  <2>3. top(k) \in Paid /\ Place(top(k), Paid) = k
    BY <2>2
  <2> QED
    BY <2>3, PlaceIsRank
<1> HIDE DEF top
<1>5. DOMAIN TopMerchants = 1..Shown /\ Len(TopMerchants) = Shown
  BY <1>2, <1>3
<1>6. \A k \in 1..Shown :
          /\ TopMerchants[k].merchant = top(k)
          /\ TopMerchants[k].total = Spend(SuccessAt(top(k)))
  BY <1>3
<1> QED
  BY <1>1, <1>2, <1>4, <1>5, <1>6

\* The list is in descending order, and no merchant that is left out has taken
\* more than one of it, whatever the amounts and the ties.
THEOREM TopThree == Spec => []TopThreeComplete
<1>1. ASSUME RInv, summary.made
      PROVE  LET top == TopMerchants
                 listed == {top[k].merchant : k \in DOMAIN top}
             IN  /\ Cardinality(listed) = Len(top)
                 /\ \A k \in DOMAIN top : top[k].total = Spend(SuccessAt(top[k].merchant))
                 /\ \A k, l \in DOMAIN top : k < l => top[k].total >= top[l].total
                 /\ \A i \in Success : rows[i].merchant \notin listed =>
                       /\ Len(top) = 3
                       /\ \A k \in DOMAIN top :
                             top[k].total >= Spend(SuccessAt(rows[i].merchant))
  <2> DEFINE at(k) == TopMerchants[k].merchant
             listed == {at(k) : k \in 1..Shown}
  <2>1. TypeOK /\ ~HasNaN
    BY <1>1, SummaryMade
  <2>2. /\ Shown \in Nat /\ DOMAIN TopMerchants = 1..Shown /\ Len(TopMerchants) = Shown
        /\ Shown = 3 \/ (Shown < 3 /\ Shown = Cardinality(Paid))
        /\ \A k \in 1..Shown :
              /\ at(k) \in Paid /\ Rank(at(k), Order, Paid) = k
              /\ TopMerchants[k].total = Spend(SuccessAt(at(k)))
    BY <2>1, TopIsRanked
  <2>3. IsFiniteSet(Paid) /\ IsRanking(Order, Paid)
    BY <2>1, FirstPayments, OrderIsRanking
  <2>4. \A m \in Paid : Rank(m, Order, Paid) \in 1..Cardinality(Paid)
    BY <2>3, RankType
  <2>5. ASSUME NEW m \in Paid, NEW n \in Paid, Rank(m, Order, Paid) < Rank(n, Order, Paid)
        PROVE  Spend(SuccessAt(m)) >= Spend(SuccessAt(n))
    <3>1. Spend(SuccessAt(m)) \in Int /\ Spend(SuccessAt(n)) \in Int
      <4>1. \A o : SuccessAt(o) \in SUBSET (DOMAIN rows)
        BY DEF SuccessAt, Success
      <4> QED
        BY <2>1, <4>1, SpendType
    <3>2. Cardinality(Paid) \in Nat
      BY <2>3, FS_CardinalityType
    <3>3. m # n /\ ~(Rank(n, Order, Paid) < Rank(m, Order, Paid))
      BY <2>4, <2>5, <3>2
    <3>4. <<m, n>> \in Order
      BY <2>3, <3>3, RankOrdered DEF IsRanking
    <3> QED
      BY <3>1, <3>4 DEF Order, Precedes
  <2>6. Cardinality(listed) = Shown
    <3> DEFINE f == [k \in 1..Shown |-> at(k)]
    <3>1. f \in Surjection(1..Shown, listed)
      BY DEF Surjection
    <3>2. \A k, l \in 1..Shown : f[k] = f[l] => k = l
      BY <2>2
    <3> HIDE DEF listed, f
    <3>3. f \in Bijection(1..Shown, listed)
      BY <3>1, <3>2 DEF Bijection, Surjection, Injection, IsInjective
    <3>4. IsFiniteSet(1..Shown) /\ Cardinality(1..Shown) = Shown
      BY <2>2, FS_Interval
    <3> QED
      BY <3>3, <3>4, FS_Bijection DEF ExistsBijection
  <2>7. ASSUME NEW k \in 1..Shown, NEW l \in 1..Shown, k < l
        PROVE  TopMerchants[k].total >= TopMerchants[l].total
    BY <2>2, <2>5, <2>7
  <2>8. ASSUME NEW i \in Success, rows[i].merchant \notin listed
        PROVE  /\ Shown = 3
               /\ \A k \in 1..Shown :
                     TopMerchants[k].total >= Spend(SuccessAt(rows[i].merchant))
    <3> DEFINE m == rows[i].merchant
               r == Rank(m, Order, Paid)
    <3>1. m \in Paid
      BY DEF Paid
    <3>2. r \in 1..Cardinality(Paid) /\ Cardinality(Paid) \in Nat
      BY <2>3, <2>4, <3>1, FS_CardinalityType
    <3>3. r \notin 1..Shown
      <4> SUFFICES ASSUME r \in 1..Shown PROVE FALSE
        OBVIOUS
      <4>1. at(r) \in Paid /\ Rank(at(r), Order, Paid) = r
        BY <2>2
      <4>2. at(r) # m
        BY <2>8
      <4>3. <<at(r), m>> \in Order \/ <<m, at(r)>> \in Order
        BY <2>3, <3>1, <4>1, <4>2 DEF IsRanking
      <4>4. r < r
        BY <2>3, <3>1, <4>1, <4>3, RankOrdered
      <4> QED
        BY <3>2, <4>4
    <3>4. Shown = 3
      BY <2>2, <3>2, <3>3
    <3>5. \A k \in 1..Shown : Rank(at(k), Order, Paid) < Rank(m, Order, Paid)
      BY <2>2, <3>2, <3>3
    <3>6. \A k \in 1..Shown : Spend(SuccessAt(at(k))) >= Spend(SuccessAt(m))
      BY <2>2, <2>5, <3>1, <3>5
    <3> QED
      BY <2>2, <3>4, <3>6
  <2> QED
    BY <2>2, <2>6, <2>7, <2>8
<1>2. ASSUME RInv PROVE TopThreeComplete
  <2> DEFINE top == summary.top_merchants
             listed == {top[k].merchant : k \in DOMAIN top}
             Taken(m) == Spend({i \in DOMAIN rows :
                                   rows[i].merchant = m /\ rows[i].status = "SUCCESS"})
  <2> SUFFICES ASSUME summary.made
               PROVE  /\ Cardinality(listed) = Len(top)
                      /\ \A k \in DOMAIN top : top[k].total = Taken(top[k].merchant)
                      /\ \A k, l \in DOMAIN top : k < l => top[k].total >= top[l].total
                      /\ \A i \in Success : rows[i].merchant \notin listed =>
                            /\ Len(top) = 3
                            /\ \A k \in DOMAIN top : top[k].total >= Taken(rows[i].merchant)
    BY DEF TopThreeComplete
  <2>1. \A m : Taken(m) = Spend(SuccessAt(m))
    <3>1. \A m : {i \in DOMAIN rows : rows[i].merchant = m /\ rows[i].status = "SUCCESS"}
                   = SuccessAt(m)
      BY DEF SuccessAt, Success
    <3> QED
      BY <3>1
  <2>2. top = TopMerchants
    BY <1>2, SummaryMade DEF IsSummary, SummaryData
  <2> HIDE DEF Taken
  <2> QED
    BY <1>1, <1>2, <2>1, <2>2
<1> QED
  BY <1>2, ReportsInvariant, PTL

\* Every successful payment of a file in one currency is counted once: in the
\* total, by category and, if no merchant is left out, by merchant.
THEOREM PaymentsCountedOnce == Spec => []SpendConserved
<1>1. ASSUME RInv, summary.made
      PROVE  LET totals == [k \in DOMAIN TopMerchants |-> TopMerchants[k].total]
             IN  /\ SumFunction(CategoryBreakdown) = Spend(Success)
                 /\ Len(TopMerchants) < 3 => SumFunction(totals) = Spend(Success)
  <2> DEFINE amount == [i \in DOMAIN rows |-> rows[i].amount]
  <2>1. TypeOK /\ ~HasNaN
    BY <1>1, SummaryMade
  <2>2. IsFiniteSet(Success) /\ Success \in SUBSET (DOMAIN rows)
    BY <2>1, SuccessFacts
  <2>3. \A i \in Success : amount[i] \in Int
    BY <2>1, <2>2, RowFacts DEF HasNaN
  <2>4. \A I : Spend(I) = SumFunctionOnSet(amount, I)
    BY DEF Spend
  <2> HIDE DEF amount
  <2>5. SumFunction(CategoryBreakdown) = Spend(Success)
    <3> DEFINE key == [i \in Success |-> effective_category(i)]
               K == {key[i] : i \in Success}
               g == CategoryBreakdown
    <3>1. K = DOMAIN g
      BY DEF CategoryBreakdown
    <3>2. \A c \in K : g[c] = SumFunctionOnSet(amount, WithKey(c, key, Success))
      <4> SUFFICES ASSUME NEW c \in K
                   PROVE  g[c] = SumFunctionOnSet(amount, WithKey(c, key, Success))
        OBVIOUS
      <4>1. {i \in Success : effective_category(i) = c} = WithKey(c, key, Success)
        BY DEF WithKey
      <4>2. g[c] = Spend({i \in Success : effective_category(i) = c})
        BY <3>1 DEF CategoryBreakdown
      <4> QED
        BY <2>4, <4>1, <4>2
    <3>3. IsFiniteSet(K) /\ \A i \in Success : key[i] \in K
      BY <2>2, ImageFinite
    <3> HIDE DEF key, K, g
    <3>4. SumFunctionOnSet(g, K) = SumFunctionOnSet(amount, Success)
      BY <2>2, <2>3, <3>2, <3>3, SumByKey
    <3> QED
      BY <2>4, <3>1, <3>4 DEF SumFunction, g
  <2>6. ASSUME Len(TopMerchants) < 3
        PROVE  SumFunction([k \in DOMAIN TopMerchants |-> TopMerchants[k].total])
                  = Spend(Success)
    <3> DEFINE at(k) == TopMerchants[k].merchant
               g == [k \in DOMAIN TopMerchants |-> TopMerchants[k].total]
               K == 1..Shown
               key == [i \in Success |-> Rank(rows[i].merchant, Order, Paid)]
    <3>1. /\ Shown = Cardinality(Paid) /\ Cardinality(Paid) \in Nat
          /\ DOMAIN TopMerchants = K
          /\ \A k \in K :
                /\ at(k) \in Paid /\ Rank(at(k), Order, Paid) = k
                /\ TopMerchants[k].total = Spend(SuccessAt(at(k)))
      BY <2>1, <2>6, TopIsRanked
    <3>2. IsFiniteSet(Paid) /\ IsRanking(Order, Paid)
      BY <2>1, FirstPayments, OrderIsRanking
    <3>3. \A i \in Success : key[i] \in K
      <4>1. \A i \in Success : rows[i].merchant \in Paid
        BY DEF Paid
      <4> QED
        BY <3>1, <3>2, <4>1, RankType
    <3>4. ASSUME NEW k \in K PROVE WithKey(k, key, Success) = SuccessAt(at(k))
      <4> SUFFICES ASSUME NEW i \in Success PROVE key[i] = k <=> rows[i].merchant = at(k)
        BY DEF SuccessAt, WithKey
      <4>1. rows[i].merchant \in Paid /\ at(k) \in Paid /\ Rank(at(k), Order, Paid) = k
        BY <3>1 DEF Paid
      <4>2. k \in Int
        BY <3>1
      <4>3. rows[i].merchant # at(k) =>
              \/ <<rows[i].merchant, at(k)>> \in Order
              \/ <<at(k), rows[i].merchant>> \in Order
        BY <3>2, <4>1 DEF IsRanking
      <4>4. rows[i].merchant # at(k) => key[i] < k \/ k < key[i]
        BY <3>2, <4>1, <4>3, RankOrdered
      <4>5. rows[i].merchant # at(k) => key[i] # k
        BY <3>1, <3>3, <4>2, <4>4
      <4> QED
        BY <4>1, <4>5
    <3>5. \A k \in K : g[k] = SumFunctionOnSet(amount, WithKey(k, key, Success))
      BY <2>4, <3>1, <3>4
    <3>6. IsFiniteSet(K)
      BY <3>1, FS_Interval
    <3>7. DOMAIN g = K
      BY <3>1
    <3> HIDE DEF K, key, g
    <3>8. SumFunctionOnSet(g, K) = SumFunctionOnSet(amount, Success)
      BY <2>2, <2>3, <3>3, <3>5, <3>6, SumByKey
    <3>9. SumFunction(g) = Spend(Success)
      BY <2>4, <3>7, <3>8 DEF SumFunction
    <3> QED
      BY <3>9 DEF g
  <2> QED
    BY <2>5, <2>6
<1>2. ASSUME RInv PROVE SpendConserved
  <2> SUFFICES ASSUME summary.made, NEW currency \in {"INR", "USD"},
                      \A i \in Success : rows[i].currency = currency
               PROVE  LET total == IF currency = "INR" THEN summary.total_spend_inr
                                                       ELSE summary.total_spend_usd
                          top == summary.top_merchants
                      IN  /\ SumFunction(summary.category_breakdown) = total
                          /\ Len(top) < 3 =>
                                SumFunction([k \in DOMAIN top |-> top[k].total]) = total
                          /\ total = Spend({i \in DOMAIN rows : rows[i].status = "SUCCESS"})
    BY DEF SpendConserved
  <2>1. IsSummary
    BY <1>2, SummaryMade
  <2>2. SuccessIn(currency) = Success
    BY DEF SuccessIn
  <2>3. /\ summary.total_spend_inr = Spend(SuccessIn("INR"))
        /\ summary.total_spend_usd = Spend(SuccessIn("USD"))
        /\ summary.top_merchants = TopMerchants
        /\ summary.category_breakdown = CategoryBreakdown
    BY <2>1 DEF IsSummary, SummaryData
  <2>4. (IF currency = "INR" THEN summary.total_spend_inr ELSE summary.total_spend_usd)
          = Spend(Success)
    BY <2>2, <2>3
  <2>5. Success = {i \in DOMAIN rows : rows[i].status = "SUCCESS"}
    BY DEF Success
  <2> QED
    BY <1>1, <1>2, <2>3, <2>4, <2>5
<1> QED
  BY <1>2, ReportsInvariant, PTL

\* In what is stored, fewer than half of an account's rows are outliers,
\* whatever the amounts: the 3x-median rule never calls the typical row one.
THEOREM FewStoredOutliers == Spec => []OutliersAreFew
<1>1. ASSUME RInv PROVE OutliersAreFew
  <2> SUFFICES ASSUME phase = "stored", NEW account \in Accounts, RowsOf(account) # {}
               PROVE  2 * Cardinality({i \in RowsOf(account) : "amount_outlier" \in reasons[i]})
                         < Cardinality(RowsOf(account))
    BY DEF OutliersAreFew
  <2>1. FewOutliers /\ ~HasNaN /\ Accepted /\ TypeOK
    BY <1>1 DEF RInv
  <2>2. \A i \in DOMAIN rows : rows[i].amount \in Nat
    <3>1. \A i \in DOMAIN rows : rows[i].amount \in Int /\ 0 <= rows[i].amount
      BY <2>1, RowFacts DEF HasNaN, Accepted, Insertable
    <3> QED
      BY <3>1
  <2>3. NonNegative(RowsOf(account))
    BY <2>2 DEF NonNegative, RowsOf
  <2> QED
    BY <2>1, <2>3 DEF FewOutliers, OutliersOf
<1> QED
  BY <1>1, ReportsInvariant, PTL

-----------------------------------------------------------------------------
(***************************************************************************)
(* The medians by rank are what statistics.median computes: one number for  *)
(* each account of the file.                                                *)
(***************************************************************************)
\* Rows by amount, those of equal amounts by their place in the file.
ByAmount(I) ==
    {p \in I \X I : \/ rows[p[1]].amount < rows[p[2]].amount
                    \/ rows[p[1]].amount = rows[p[2]].amount /\ p[1] < p[2]}

\* Every position of the sorted amounts has one value.
LEMMA AtRankExists ==
    ASSUME TypeOK, ~HasNaN, NEW I \in SUBSET (DOMAIN rows), NEW r \in 0..(Cardinality(I) - 1)
    PROVE  \E v \in {rows[i].amount : i \in I} : AtRank(I, r, v)
<1>1. /\ IsFiniteSet(I) /\ Cardinality(I) \in Nat /\ I \in SUBSET Nat
      /\ \A i \in I : rows[i].amount \in Int
  BY RowFacts, FS_Subset, FS_CardinalityType DEF HasNaN
<1> DEFINE R == ByAmount(I)
<1>2. IsRanking(R, I)
  BY <1>1 DEF IsRanking, ByAmount
<1> HIDE DEF R
<1>3. r + 1 \in 1..Cardinality(I) /\ r \in Nat
  BY <1>1
<1>4. PICK k \in I : Rank(k, R, I) = r + 1
  BY <1>1, <1>2, <1>3, RankOnto
<1> DEFINE v == rows[k].amount
           before == Before(k, R, I)
           below == {i \in I : rows[i].amount < v}
           upTo == {i \in I : rows[i].amount <= v}
<1>5. /\ below \in SUBSET before /\ before \cup {k} \in SUBSET upTo
      /\ k \notin before /\ before \in SUBSET I /\ upTo \in SUBSET I
  BY <1>1 DEF Before, R, ByAmount
<1> HIDE DEF v, below, upTo, before
<1>6. /\ IsFiniteSet(before) /\ IsFiniteSet(upTo)
      /\ Cardinality(before) \in Nat /\ Cardinality(upTo) \in Nat
  BY <1>1, <1>5, FS_Subset, FS_CardinalityType
<1>7. Cardinality(before) = r
  BY <1>3, <1>4, <1>6 DEF Rank, before
<1>8. Cardinality(below) <= r
  BY <1>5, <1>6, <1>7, FS_Subset
<1>9. r < Cardinality(upTo)
  <2>1. Cardinality(before \cup {k}) = r + 1
    BY <1>5, <1>6, <1>7, FS_AddElement
  <2>2. Cardinality(before \cup {k}) <= Cardinality(upTo)
    BY <1>5, <1>6, FS_Subset
  <2> QED
    BY <1>3, <1>6, <2>1, <2>2
<1>10. AtRank(I, r, v)
  BY <1>8, <1>9 DEF AtRank, v, below, upTo
<1> QED
  BY <1>10 DEF v

LEMMA AtRankUnique ==
    ASSUME TypeOK, ~HasNaN, NEW I \in SUBSET (DOMAIN rows), NEW r \in Nat,
           NEW v \in Int, NEW w \in Int, AtRank(I, r, v), AtRank(I, r, w)
    PROVE  ~(v < w)
<1> SUFFICES ASSUME v < w PROVE FALSE
  OBVIOUS
<1> DEFINE upTo == {i \in I : rows[i].amount <= v}
           below == {i \in I : rows[i].amount < w}
<1>1. /\ IsFiniteSet(I) /\ \A i \in I : rows[i].amount \in Int
  BY RowFacts, FS_Subset DEF HasNaN
<1>2. upTo \in SUBSET below /\ below \in SUBSET I
  BY <1>1
<1>3. r < Cardinality(upTo) /\ Cardinality(below) <= r
  BY DEF AtRank
<1> HIDE DEF upTo, below
<1>4. IsFiniteSet(below) /\ IsFiniteSet(upTo)
  BY <1>1, <1>2, FS_Subset
<1>5. /\ Cardinality(below) \in Nat /\ Cardinality(upTo) \in Nat
      /\ Cardinality(upTo) <= Cardinality(below)
  BY <1>2, <1>4, FS_Subset, FS_CardinalityType
<1> QED
  BY <1>3, <1>5

LEMMA MedianIsDetermined ==
    ASSUME TypeOK, ~HasNaN, NEW I \in SUBSET (DOMAIN rows), I # {}
    PROVE  /\ \E i, j \in I : IsTwiceMedian(I, rows[i].amount + rows[j].amount)
           /\ \A m, n : IsTwiceMedian(I, m) /\ IsTwiceMedian(I, n) => m = n
<1> DEFINE n == Cardinality(I)
           low == (n - 1) \div 2
           high == n \div 2
<1>1. /\ IsFiniteSet(I) /\ n \in Nat \ {0}
      /\ \A i \in I : rows[i].amount \in Int
  BY RowFacts, FS_Subset, FS_CardinalityType, FS_EmptySet DEF HasNaN
<1>2. low \in 0..(n - 1) /\ high \in 0..(n - 1)
  <2> HIDE DEF n
  <2> QED
    BY <1>1
<1>3. ASSUME NEW r \in 0..(n - 1) PROVE \E i \in I : AtRank(I, r, rows[i].amount)
  BY <1>3, AtRankExists
<1>4. ASSUME NEW r \in 0..(n - 1), NEW i \in I, NEW j \in I,
             AtRank(I, r, rows[i].amount), AtRank(I, r, rows[j].amount)
      PROVE  rows[i].amount = rows[j].amount
  <2>1. rows[i].amount \in Int /\ rows[j].amount \in Int /\ r \in Nat
    BY <1>1, <1>4
  <2>2. ~(rows[i].amount < rows[j].amount) /\ ~(rows[j].amount < rows[i].amount)
    BY <1>4, <2>1, AtRankUnique
  <2> QED
    BY <2>1, <2>2
<1>5. \A m : IsTwiceMedian(I, m) <=>
          \E i, j \in I : /\ AtRank(I, low, rows[i].amount) /\ AtRank(I, high, rows[j].amount)
                          /\ m = rows[i].amount + rows[j].amount
  BY DEF IsTwiceMedian
<1> HIDE DEF low, high, n
<1>6. PICK i \in I, j \in I : AtRank(I, low, rows[i].amount) /\ AtRank(I, high, rows[j].amount)
  BY <1>2, <1>3
<1>7. IsTwiceMedian(I, rows[i].amount + rows[j].amount)
  BY <1>5, <1>6
<1>8. ASSUME NEW m, IsTwiceMedian(I, m) PROVE m = rows[i].amount + rows[j].amount
  <2>1. PICK k \in I, l \in I : /\ AtRank(I, low, rows[k].amount)
                                /\ AtRank(I, high, rows[l].amount)
                                /\ m = rows[k].amount + rows[l].amount
    BY <1>5, <1>8
  <2>2. rows[k].amount = rows[i].amount /\ rows[l].amount = rows[j].amount
    BY <1>2, <1>4, <1>6, <2>1
  <2> QED
    BY <2>1, <2>2
<1> QED
  BY <1>7, <1>8

\* Whatever the amounts and their ties, detect_anomalies finds one median for
\* each account: DetectAnomalies can be taken, and in one way only.
THEOREM DetectionIsDetermined ==
    Spec => [](phase = "cleaned" /\ ~HasNaN =>
                  \E twice \in TwiceMedians : \A other \in TwiceMedians : other = twice)
<1>1. ASSUME RInv, ~HasNaN
      PROVE  \E twice \in TwiceMedians : \A other \in TwiceMedians : other = twice
  <2> DEFINE D == {rows[i].account_id : i \in DOMAIN rows}
             Sums == {rows[i].amount + rows[j].amount : i, j \in DOMAIN rows}
             twice == [a \in D |-> CHOOSE m \in Sums : IsTwiceMedian(RowsOf(a), m)]
  <2>1. TypeOK
    BY <1>1 DEF RInv
  <2>2. ASSUME NEW a \in D
        PROVE  /\ \E m \in Sums : IsTwiceMedian(RowsOf(a), m)
               /\ \A m, n : IsTwiceMedian(RowsOf(a), m) /\ IsTwiceMedian(RowsOf(a), n) => m = n
    <3>1. RowsOf(a) \in SUBSET (DOMAIN rows) /\ RowsOf(a) # {}
      BY <2>1, RowFacts DEF RowsOf
    <3> QED
      BY <1>1, <2>1, <3>1, MedianIsDetermined
  <2>3. TwiceMedians = {t \in [D -> Sums] : \A a \in D : IsTwiceMedian(RowsOf(a), t[a])}
    BY DEF TwiceMedians
  <2> HIDE DEF D, Sums
  <2>4. twice \in TwiceMedians
    BY <2>2, <2>3
  <2>5. \A other \in TwiceMedians : other = twice
    BY <2>2, <2>3, <2>4
  <2> QED
    BY <2>4, <2>5
<1> QED
  BY <1>1, ReportsInvariant, PTL
=============================================================================
