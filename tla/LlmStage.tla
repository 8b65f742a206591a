------------------------------ MODULE LlmStage ------------------------------
(***************************************************************************)
(* The two stages of run_pipeline that call the LLM: classify_uncategorised *)
(* (app/services/classifier.py), batch by batch, then the narrative of      *)
(* build_summary (app/services/summary.py), each call under with_retries    *)
(* (app/llm/retry.py).  Rows are the uncategorised ones only, numbered in   *)
(* file order; the stages never touch another one.                          *)
(*                                                                          *)
(* The LLM may do anything: raise, leave refs out, invent categories, or    *)
(* answer with JSON of the wrong shape.                                     *)
(***************************************************************************)
EXTENDS Integers

CONSTANTS
    Settings,       \* the configurations and inputs considered
    LongestSleep    \* what time.sleep takes at most

\* app/core/config.py validates none of the numbers.
ASSUME LlmAssumption ==
    /\ LongestSleep \in Nat
    /\ Settings \subseteq
        [targets : Nat,          \* how many rows are uncategorised
         has_client : BOOLEAN,   \* GEMINI_API_KEY is set
         batch_size : Int,       \* LLM_BATCH_SIZE
         max_retries : Int,      \* LLM_MAX_RETRIES
         base_delay : Int]       \* LLM_RETRY_BASE_DELAY, in any unit of time

VARIABLES
    cfg,           \* the member of Settings this run has
    phase,         \* classify -> summarise -> done, or raised
    start,         \* how many rows the earlier batches took
    attempt,       \* the attempt the current call is at, from 1
    slept,         \* how long the current call has slept
    llm_category,  \* per row: null, an allowed category, or Other
    llm_failed,    \* per row
    calls,         \* per row: how many calls had the row in their batch
    narrative,     \* null, text, or an object, which no TEXT column takes (Reports)
    risk_level     \* null or one of the three levels

rowVars   == <<llm_category, llm_failed, calls>>
reportVars == <<narrative, risk_level>>
llmVars   == <<cfg, phase, start, attempt, slept, rowVars, reportVars>>

Rows == 1..cfg.targets

TypeOK ==
    /\ cfg \in Settings
    /\ phase \in {"classify", "summarise", "done", "raised"}
    /\ start \in Nat
    /\ attempt \in Nat \ {0} /\ slept \in Nat
    /\ llm_category \in [Rows -> {"null", "allowed", "Other"}]
    /\ llm_failed \in [Rows -> BOOLEAN]
    /\ calls \in [Rows -> Nat]
    /\ narrative \in {"null", "text", "object"}
    /\ risk_level \in {"null", "level"}

Init ==
    /\ cfg \in Settings
    /\ phase = "classify"
    /\ start = 0
    /\ attempt = 1
    /\ slept = 0
    /\ llm_category = [i \in Rows |-> "null"]
    /\ llm_failed = [i \in Rows |-> FALSE]
    /\ calls = [i \in Rows |-> 0]
    /\ narrative = "null"
    /\ risk_level = "null"

-----------------------------------------------------------------------------
(***************************************************************************)
(* with_retries: attempts 1..max_retries, and after the n-th, unless it is  *)
(* the last, a sleep of base_delay * 2^(n-1).  time.sleep raises ValueError *)
(* if that is negative (or NaN) and OverflowError if it is too long (or     *)
(* infinite): out of the except block, so no further attempt is made.       *)
(***************************************************************************)
\* The for loop has an iteration for this attempt: func() is called.
Called == attempt <= cfg.max_retries

\* The delay after the n-th attempt.
Delay(base, n) == base * 2^(n - 1)

Sleepable(base, n) == Delay(base, n) \in 0..LongestSleep

\* Mutant: a sleep after the last attempt, too.
RaisedOffByOne ==
    /\ attempt <= cfg.max_retries
    /\ Sleepable(cfg.base_delay, attempt)
    /\ attempt' = attempt + 1
    /\ slept' = slept + Delay(cfg.base_delay, attempt)

\* An attempt raised and another one follows.
Raised ==
    /\ attempt < cfg.max_retries
    /\ Sleepable(cfg.base_delay, attempt)
    /\ attempt' = attempt + 1
    /\ slept' = slept + Delay(cfg.base_delay, attempt)

\* with_retries raises: the last attempt has failed, there was none at all, or
\* the sleep before the next one raised.
Exhausted == attempt >= cfg.max_retries \/ ~Sleepable(cfg.base_delay, attempt)

\* Mutant: all calls share one budget of attempts.
NewCallContinues == UNCHANGED <<attempt, slept>>

NewCall == attempt' = 1 /\ slept' = 0

-----------------------------------------------------------------------------
Skips(p) == phase' = p /\ UNCHANGED <<cfg, start, attempt, slept, reportVars>>

\* Nothing to classify; range(0, n, negative) has no batch either.
NoBatches ==
    /\ phase = "classify"
    /\ cfg.targets = 0 \/ (cfg.has_client /\ cfg.batch_size < 0)
    /\ Skips("summarise") /\ UNCHANGED rowVars

NoClient ==
    /\ phase = "classify" /\ cfg.targets > 0 /\ ~cfg.has_client
    /\ llm_failed' = [i \in Rows |-> TRUE]
    /\ Skips("summarise") /\ UNCHANGED <<llm_category, calls>>

\* range(0, n, 0) raises, outside the try.
ZeroBatchSize ==
    /\ phase = "classify" /\ cfg.targets > 0 /\ cfg.has_client /\ cfg.batch_size = 0
    /\ Skips("raised") /\ UNCHANGED rowVars

Classifying ==
    phase = "classify" /\ cfg.targets > 0 /\ cfg.has_client /\ cfg.batch_size > 0

\* rows[start : start + size]
Batch == {i \in Rows : start < i /\ i <= start + cfg.batch_size}

CountCall == calls' = [i \in Rows |-> calls[i] + (IF i \in Batch THEN 1 ELSE 0)]

NextBatch ==
    /\ start' = start + cfg.batch_size
    /\ phase' = IF start' >= cfg.targets THEN "summarise" ELSE "classify"
    /\ NewCall

\* What is missing from the answer or out of contract becomes Other.
BatchClassified ==
    /\ Classifying /\ Called
    /\ CountCall
    /\ \E answer \in [Batch -> {"allowed", "unknown", "missing"}] :
         llm_category' = [i \in Rows |->
            IF i \notin Batch THEN llm_category[i]
            ELSE IF answer[i] = "allowed" THEN "allowed" ELSE "Other"]
    /\ NextBatch
    /\ UNCHANGED <<cfg, llm_failed, reportVars>>

BatchRetried ==
    /\ Classifying
    /\ Raised
    /\ CountCall
    /\ UNCHANGED <<cfg, phase, start, llm_category, llm_failed, reportVars>>

\* Mutant: a batch that fails gives up on the rows after it, too.
MarksRest == {i \in Rows : start < i}

\* Which rows a failing batch marks.
Marks == Batch

\* with_retries raised: the batch is marked and the loop goes on.
BatchFailed ==
    /\ Classifying
    /\ Exhausted
    /\ IF Called THEN CountCall ELSE UNCHANGED calls
    /\ llm_failed' = [i \in Rows |-> llm_failed[i] \/ i \in Marks]
    /\ NextBatch
    /\ UNCHANGED <<cfg, llm_category, reportVars>>

-----------------------------------------------------------------------------
Finishes == phase = "summarise" /\ phase' = "done" /\ UNCHANGED <<cfg, start, rowVars>>

SummarySkipped ==
    /\ Finishes
    /\ ~cfg.has_client
    /\ UNCHANGED <<attempt, slept, reportVars>>

\* The narrative is taken as it comes.  A risk level outside the three
\* becomes null, and so it stays where looking at the answer raises.
SummaryWritten ==
    /\ Finishes
    /\ cfg.has_client /\ Called
    /\ narrative' \in {"null", "text", "object"}
    /\ risk_level' \in {"null", "level"}
    /\ NewCall

SummaryRetried ==
    /\ phase = "summarise" /\ cfg.has_client
    /\ Raised
    /\ UNCHANGED <<cfg, phase, start, rowVars, reportVars>>

\* Mutant: a summary that fails is asked for again, for ever.
SummaryFailedForever ==
    /\ phase = "summarise" /\ cfg.has_client /\ Exhausted
    /\ NewCall
    /\ UNCHANGED <<cfg, phase, start, rowVars, reportVars>>

\* with_retries raised: narrative and risk level stay null.
SummaryFailed ==
    /\ Finishes
    /\ cfg.has_client /\ Exhausted
    /\ NewCall
    /\ UNCHANGED reportVars

Next ==
    \/ NoBatches \/ NoClient \/ ZeroBatchSize
    \/ BatchClassified \/ BatchRetried \/ BatchFailed
    \/ SummarySkipped \/ SummaryWritten \/ SummaryRetried \/ SummaryFailed

Spec == Init /\ [][Next]_llmVars

\* Every LLM call returns or raises in the end (the client's own timeout).
FairSpec == Spec /\ WF_llmVars(Next)

-----------------------------------------------------------------------------
\* Once classification is over, every uncategorised row is either classified
\* or marked llm_failed, never both and never neither: a failing batch costs
\* its own rows and no others (for a batch size range() can walk).
EveryTargetDecided ==
    phase \in {"summarise", "done"} /\ ~(cfg.has_client /\ cfg.batch_size < 0) =>
        \A i \in Rows : llm_failed[i] <=> llm_category[i] = "null"

\* Each batch has all its attempts to itself: a row is marked only after
\* max_retries calls, or after the call whose delay time.sleep refuses; a row is
\* never sent more often, and no row is sent before its turn.
RetriesPerBatch ==
    \A i \in Rows :
        /\ calls[i] <= IF cfg.max_retries > 0 THEN cfg.max_retries ELSE 0
        /\ llm_failed[i] /\ cfg.has_client =>
              \/ calls[i] >= cfg.max_retries
              \/ calls[i] > 0 /\ ~Sleepable(cfg.base_delay, calls[i])
        /\ phase = "classify" /\ start + cfg.batch_size < i => calls[i] = 0

\* The sleeps of a call double from base_delay, none follows the last attempt,
\* and an attempt is only repeated after a delay that could be slept.
BackoffBounded ==
    /\ slept = cfg.base_delay * (2^(attempt - 1) - 1)
    /\ attempt > 1 => attempt <= cfg.max_retries /\ Sleepable(cfg.base_delay, attempt - 1)

\* The stage ends, whatever the LLM does.
Terminates == <>(phase \in {"done", "raised"})
=============================================================================
