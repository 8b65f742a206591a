------------------------------- MODULE Reports -------------------------------
(***************************************************************************)
(* What the pipeline computes from the cleaned rows, and what of it the      *)
(* tables accept: detect_anomalies, the effect of classify_uncategorised     *)
(* (LlmStage has its calls), the aggregates of build_summary, the INSERTs.   *)
(*                                                                           *)
(*   cleaned -> detected -> classified -> summarised -> stored               *)
(*       \ raised (NaN) \ raised (batches of 0)   \ raised (what no column     *)
(*                                                          takes)           *)
(*                                                                           *)
(* Amounts count cents.  NaN is what Decimal("nan").quantize returns: it     *)
(* passes cleaning, and every ordered comparison with it raises.  A merchant *)
(* is a spelling: totals are kept per spelling, Domestic has all of them;    *)
(* one that is too long for its column stands for every text it refuses.     *)
(***************************************************************************)
EXTENDS Integers, Sequences, FiniteSets, FiniteSetsExt

CONSTANTS
    Merchants, Domestic, Accounts, Uncategorised, NaN,
    Overlong,                \* merchants longer than String(255)
    Categories,              \* those of CSV rows and of ALLOWED_CATEGORIES
    MaxAmount, MaxTotal,     \* NUMERIC(14,2) and NUMERIC(16,2)
    Inputs                   \* cleaned rows, and the settings they are processed under

NoCategory == "none"

Row ==
    [merchant : Merchants, amount : Int \cup {NaN}, currency : {"INR", "USD"},
     status : {"SUCCESS", "FAILED", "PENDING"}, category : Categories \cup {Uncategorised},
     account_id : Accounts]

\* Whether there is an LLM client, and LLM_BATCH_SIZE, which nothing validates.
Settings == [has_client : BOOLEAN, batch_size : Int]

ASSUME ReportsAssumption ==
    /\ Domestic \cup Overlong \subseteq Merchants
    /\ Uncategorised \notin Categories /\ NoCategory \notin Categories
    /\ NaN \notin Int
    /\ MaxAmount \in Nat /\ MaxTotal \in Nat
    /\ Inputs \subseteq [rows : Seq(Row), cfg : Settings]

NoSummary == [made |-> FALSE]

VARIABLES
    rows, cfg, phase,
    reasons,       \* per row: the rules it trips
    llm_category,  \* per row: the category the LLM gave, or none
    llm_failed,    \* the rows of failed batches
    summary

vars == <<rows, cfg, phase, reasons, llm_category, llm_failed, summary>>

Reasons == {"amount_outlier", "usd_domestic"}

TypeOK ==
    /\ rows \in Seq(Row) /\ cfg \in Settings
    /\ phase \in {"cleaned", "detected", "classified", "summarised", "stored", "raised"}
    /\ reasons \in [DOMAIN rows -> SUBSET Reasons]
    /\ llm_category \in [DOMAIN rows -> Categories \cup {NoCategory}]
    /\ llm_failed \subseteq DOMAIN rows

Init ==
    /\ \E input \in Inputs : rows = input.rows /\ cfg = input.cfg
    /\ phase = "cleaned"
    /\ reasons = [i \in DOMAIN rows |-> {}]
    /\ llm_category = [i \in DOMAIN rows |-> NoCategory]
    /\ llm_failed = {}
    /\ summary = NoSummary

-----------------------------------------------------------------------------
RowsOf(account) == {i \in DOMAIN rows : rows[i].account_id = account}

\* v is the value at position r, from 0, of the sorted amounts of the rows I.
AtRank(I, r, v) ==
    /\ \E i \in I : rows[i].amount = v
    /\ Cardinality({i \in I : rows[i].amount < v}) <= r
    /\ r < Cardinality({i \in I : rows[i].amount <= v})

\* Mutant: statistics.median_low.
IsTwiceMedianLow(I, m) ==
    \E low \in {rows[i].amount : i \in I} :
        AtRank(I, (Cardinality(I) - 1) \div 2, low) /\ m = low + low

\* statistics.median is the mean of the two middle values, which are one if
\* the number of values is odd.
IsTwiceMedian(I, m) ==
    \E low, high \in {rows[i].amount : i \in I} :
        /\ AtRank(I, (Cardinality(I) - 1) \div 2, low)
        /\ AtRank(I, Cardinality(I) \div 2, high)
        /\ m = low + high

\* Rule 1, for the double of the median; rule 2.
Outlier(row, m) == m > 0 /\ 2 * row.amount > 3 * m

UsdDomestic(row) == row.currency = "USD" /\ row.merchant \in Domestic

HasNaN == \E i \in DOMAIN rows : rows[i].amount = NaN

\* Doubles of the medians of the accounts in the file.
TwiceMedians ==
    {twice \in [{rows[i].account_id : i \in DOMAIN rows} ->
                  {rows[i].amount + rows[j].amount : i, j \in DOMAIN rows}] :
        \A account \in DOMAIN twice : IsTwiceMedian(RowsOf(account), twice[account])}

Tripped(row, m) ==
    {r \in Reasons : \/ r = "amount_outlier" /\ Outlier(row, m)
                     \/ r = "usd_domestic" /\ UsdDomestic(row)}

DetectAnomalies ==
    /\ phase = "cleaned" /\ ~HasNaN
    /\ \E twice \in TwiceMedians :
          reasons' = [i \in DOMAIN rows |-> Tripped(rows[i], twice[rows[i].account_id])]
    /\ phase' = "detected"
    /\ UNCHANGED <<rows, cfg, llm_category, llm_failed, summary>>

\* Sorting two or more amounts compares each; the median of one is compared
\* with 0.
DetectRaises ==
    /\ phase = "cleaned" /\ HasNaN
    /\ phase' = "raised"
    /\ UNCHANGED <<rows, cfg, reasons, llm_category, llm_failed, summary>>

\* classifier.py: targets
Targets == {i \in DOMAIN rows : rows[i].category = Uncategorised}

\* Rows are sent in batches; range() with a negative step makes none.
InBatches == cfg.has_client /\ cfg.batch_size > 0

Batch(i) == Cardinality({t \in Targets : t < i}) \div cfg.batch_size

\* The rows that may be marked: all without a client; with one, those of some
\* of the batches (LlmStage has the calls).
MayFail ==
    IF ~cfg.has_client THEN {Targets}
    ELSE IF ~InBatches THEN {{}}
    ELSE {{i \in Targets : Batch(i) \in failing} :
              failing \in SUBSET {Batch(i) : i \in Targets}}

\* range(0, n, 0) raises, outside the try.
ZeroBatches == Targets # {} /\ cfg.has_client /\ cfg.batch_size = 0

ClassifyRaises ==
    /\ phase = "detected" /\ ZeroBatches
    /\ phase' = "raised"
    /\ UNCHANGED <<rows, cfg, reasons, llm_category, llm_failed, summary>>

Classify ==
    /\ phase = "detected" /\ ~ZeroBatches
    /\ \E failed \in MayFail :
         \E given \in [(IF InBatches THEN Targets \ failed ELSE {}) -> Categories] :
            /\ llm_failed' = failed
            /\ llm_category' = [i \in DOMAIN rows |->
                  IF i \in DOMAIN given THEN given[i] ELSE NoCategory]
    /\ phase' = "classified"
    /\ UNCHANGED <<rows, cfg, reasons, summary>>

-----------------------------------------------------------------------------
\* Mutant: the answer of the LLM is not used.
CategoryInFile(i) == rows[i].category

effective_category(i) ==
    IF rows[i].category = Uncategorised /\ llm_category[i] # NoCategory
    THEN llm_category[i]
    ELSE rows[i].category

Success == {i \in DOMAIN rows : rows[i].status = "SUCCESS"}

Spend(I) == SumFunctionOnSet([i \in DOMAIN rows |-> rows[i].amount], I)

SuccessIn(currency) == {i \in Success : rows[i].currency = currency}

SuccessAt(merchant) == {i \in Success : rows[i].merchant = merchant}

\* Mutant: sorted by number of payments.
PrecedesByCount(a, b) ==
    \/ Cardinality(SuccessAt(a)) > Cardinality(SuccessAt(b))
    \/ /\ Cardinality(SuccessAt(a)) = Cardinality(SuccessAt(b))
       /\ Min(SuccessAt(a)) < Min(SuccessAt(b))

\* sorted(..., reverse=True) keeps equal totals in the order of insertion.
Precedes(a, b) ==
    \/ Spend(SuccessAt(a)) > Spend(SuccessAt(b))
    \/ /\ Spend(SuccessAt(a)) = Spend(SuccessAt(b))
       /\ Min(SuccessAt(a)) < Min(SuccessAt(b))

Place(merchant, all) == 1 + Cardinality({m \in all : Precedes(m, merchant)})

\* The first three, as a function of their place.
TopMerchants ==
    LET all == {rows[i].merchant : i \in Success}
    IN  [k \in 1..Min({3, Cardinality(all)}) |->
            LET m == CHOOSE m \in all : Place(m, all) = k
            IN  [merchant |-> m, total |-> Spend(SuccessAt(m)),
                 count |-> Cardinality(SuccessAt(m))]]

\* Mutant: read under one key, written under the other.
CategoryBreakdownByFile ==
    [c \in {rows[i].category : i \in Success} |->
        Spend({i \in Success : effective_category(i) = c})]

CategoryBreakdown ==
    [c \in {effective_category(i) : i \in Success} |->
        Spend({i \in Success : effective_category(i) = c})]

SummaryData(narrative, risk_level) ==
    [made |-> TRUE,
     total_spend_inr |-> Spend(SuccessIn("INR")),
     total_spend_usd |-> Spend(SuccessIn("USD")),
     top_merchants |-> TopMerchants,
     category_breakdown |-> CategoryBreakdown,
     anomaly_count |-> Cardinality({i \in DOMAIN rows : reasons[i] # {}}),
     narrative |-> narrative,
     risk_level |-> risk_level]

\* The answer gives the narrative as it comes: "unstorable" is what the driver
\* refuses for a TEXT column, an object or a text with a NUL.  Narrative and risk
\* level are null if there is no answer.
Narratives == IF cfg.has_client THEN {"null", "text", "unstorable"} ELSE {"null"}
RiskLevels == IF cfg.has_client THEN {"null", "level"} ELSE {"null"}

Summarise ==
    /\ phase = "classified"
    /\ \E narrative \in Narratives, risk_level \in RiskLevels :
          summary' = SummaryData(narrative, risk_level)
    /\ phase' = "summarised"
    /\ UNCHANGED <<rows, cfg, reasons, llm_category, llm_failed>>

-----------------------------------------------------------------------------
\* Mutant: NUMERIC without the CHECK.
FitsNumeric(amount) == -MaxAmount <= amount /\ amount <= MaxAmount

\* ck_transactions_amount_non_negative, NUMERIC(14,2)
Insertable(amount) == 0 <= amount /\ amount <= MaxAmount

Accepted ==
    /\ \A i \in DOMAIN rows :
          Insertable(rows[i].amount) /\ rows[i].merchant \notin Overlong
    /\ summary.total_spend_inr <= MaxTotal /\ summary.total_spend_usd <= MaxTotal
    /\ summary.narrative # "unstorable"

\* persist_results and its COMMIT: all rows and the summary, or none.
Persist ==
    /\ phase = "summarised"
    /\ phase' = IF Accepted THEN "stored" ELSE "raised"
    /\ UNCHANGED <<rows, cfg, reasons, llm_category, llm_failed, summary>>

Ended == phase \in {"stored", "raised"}

Next ==
    \/ DetectAnomalies \/ DetectRaises \/ Classify \/ ClassifyRaises \/ Summarise \/ Persist
    \/ Ended /\ UNCHANGED vars

Spec == Init /\ [][Next]_vars

-----------------------------------------------------------------------------
\* In what is stored, fewer than half of an account's rows are outliers: none
\* of an account with one or two rows, never the typical one.  (It takes that
\* no amount is negative: -4 and 10 have the median 3.)
OutliersAreFew ==
    phase = "stored" =>
        \A account \in Accounts :
            RowsOf(account) # {} =>
                2 * Cardinality({i \in RowsOf(account) : "amount_outlier" \in reasons[i]})
                    < Cardinality(RowsOf(account))

\* Where all successful payments are in one currency, the aggregates account
\* for each of them once: the categories add up to that currency's total, and so
\* do the merchants if all are listed.
SpendConserved ==
    \A currency \in {"INR", "USD"} :
        summary.made /\ (\A i \in Success : rows[i].currency = currency) =>
            LET total == IF currency = "INR" THEN summary.total_spend_inr
                                             ELSE summary.total_spend_usd
                top == summary.top_merchants
            IN  /\ SumFunction(summary.category_breakdown) = total
                /\ Len(top) < 3 => SumFunction([k \in DOMAIN top |-> top[k].total]) = total
                /\ total = Spend({i \in DOMAIN rows : rows[i].status = "SUCCESS"})

\* "INR and USD are reported separately (no FX conversion - mixing currencies
\* would be wrong)" (summary.py:10-11, models/summary.py:40-41): what is reported
\* of a category or a merchant is money of one currency.
CurrenciesNotMixed ==
    summary.made =>
        LET top == summary.top_merchants
            cats == summary.category_breakdown
        IN  /\ \A c \in DOMAIN cats : \E currency \in {"INR", "USD"} :
                  cats[c] = Spend({i \in SuccessIn(currency) : effective_category(i) = c})
            /\ \A k \in DOMAIN top : \E currency \in {"INR", "USD"} :
                  top[k].total = Spend(SuccessIn(currency) \cap SuccessAt(top[k].merchant))

\* No merchant that is left out of the top three has taken more than one that
\* is listed, and the list is in descending order.
TopThreeComplete ==
    summary.made =>
        LET top == summary.top_merchants
            listed == {top[k].merchant : k \in DOMAIN top}
            Taken(m) == Spend({i \in DOMAIN rows :
                                   rows[i].merchant = m /\ rows[i].status = "SUCCESS"})
        IN  /\ Cardinality(listed) = Len(top)
            /\ \A k \in DOMAIN top : top[k].total = Taken(top[k].merchant)
            /\ \A k, l \in DOMAIN top : k < l => top[k].total >= top[l].total
            /\ \A i \in Success : rows[i].merchant \notin listed =>
                  Len(top) = 3 /\ \A k \in DOMAIN top : top[k].total >= Taken(rows[i].merchant)

\* What the breakdown calls uncategorised is the spend of the failed batches,
\* neither more nor less (for a batch size range() can walk).
UncategorisedSpendIsFailures ==
    summary.made /\ ~(cfg.has_client /\ cfg.batch_size < 0) =>
        LET cats == summary.category_breakdown
        IN  /\ Uncategorised \in DOMAIN cats <=> llm_failed \cap Success # {}
            /\ Uncategorised \in DOMAIN cats =>
                  cats[Uncategorised] = Spend(llm_failed \cap Success)

\* Between cleaning and the COMMIT a file fails exactly if it holds a value that
\* no column takes, in a row, in a total or in the narrative the LLM wrote, or
\* if there are rows to classify in batches of none.  An empty file, an account
\* with one row, a tie, a failing batch or an invented category never fails it.
FailsOnUnstorableOnly ==
    Ended =>
        (phase = "raised" <=>
            \/ \E i \in DOMAIN rows :
                  \/ rows[i].amount = NaN \/ rows[i].amount < 0 \/ rows[i].amount > MaxAmount
                  \/ rows[i].merchant \in Overlong
            \/ \E c \in {"INR", "USD"} : Spend(SuccessIn(c)) > MaxTotal
            \/ summary.made /\ summary.narrative = "unstorable"
            \/ /\ cfg.has_client /\ cfg.batch_size = 0
               /\ \E i \in DOMAIN rows : rows[i].category = Uncategorised)
=============================================================================
