--------------------------- MODULE LlmStageProofs ---------------------------
(***************************************************************************)
(* What holds of LlmStage for any settings and any number of rows.          *)
(***************************************************************************)
EXTENDS LlmStage, SetFacts

\* The rows split at start: those before it are decided, those after it are
\* untouched, and the current batch has been sent once per failed attempt.
Split ==
    /\ phase = "classify" /\ start > 0
         => cfg.targets > 0 /\ cfg.has_client /\ cfg.batch_size > 0
    /\ phase = "classify" =>
         \A i \in Rows :
            IF i <= start
            THEN llm_failed[i] <=> llm_category[i] = "null"
            ELSE /\ llm_category[i] = "null" /\ ~llm_failed[i]
                 /\ calls[i] = IF i <= start + cfg.batch_size THEN attempt - 1 ELSE 0

AttemptsCounted ==
    /\ attempt > 1 => attempt <= cfg.max_retries /\ Sleepable(cfg.base_delay, attempt - 1)
    /\ attempt > 1 /\ phase = "classify" => Classifying

\* The sleeps so far, whatever the stage does with the call.
Sleeps == slept = cfg.base_delay * (2^(attempt - 1) - 1)

IInv == TypeOK /\ Sleeps /\ AttemptsCounted /\ Split /\ EveryTargetDecided /\ RetriesPerBatch

\* What the assumption says of the settings of a run.
LEMMA CfgType ==
    ASSUME cfg \in Settings
    PROVE  /\ cfg.targets \in Nat /\ cfg.has_client \in BOOLEAN
           /\ cfg.batch_size \in Int /\ cfg.max_retries \in Int
           /\ cfg.base_delay \in Int
BY LlmAssumption

LEMMA InitIInv == Init => IInv
<1> SUFFICES ASSUME Init PROVE IInv
  OBVIOUS
<1> USE CfgType DEF Init
<1>1. TypeOK
  BY DEF TypeOK
<1>2. AttemptsCounted
  BY DEF AttemptsCounted
<1>3. Split
  BY DEF Split, Rows
<1>4. EveryTargetDecided
  BY DEF EveryTargetDecided
<1>5. RetriesPerBatch
  BY DEF RetriesPerBatch, Rows
<1>6. Sleeps
  BY PowerOfZero DEF Sleeps
<1> QED
  BY <1>1, <1>2, <1>3, <1>4, <1>5, <1>6 DEF IInv

\* A call that is retried doubles its last sleep; every other step leaves the
\* call alone or begins a new one.
LEMMA StepSleeps ==
    ASSUME TypeOK, Sleeps, [Next]_llmVars
    PROVE  slept' \in Nat /\ Sleeps'
<1>0. cfg.base_delay \in Int /\ attempt \in Nat \ {0} /\ slept \in Nat
  BY CfgType DEF TypeOK
<1>1. /\ cfg' = cfg
      /\ NewCall \/ Raised \/ UNCHANGED <<attempt, slept>>
  BY DEF Next, llmVars, NoBatches, NoClient, ZeroBatchSize, Skips, BatchClassified,
         BatchRetried, BatchFailed, NextBatch, Finishes, SummarySkipped, SummaryWritten,
         SummaryRetried, SummaryFailed
<1>2. CASE NewCall
  <2>1. attempt' - 1 = 0 /\ slept' = 0
    BY <1>2 DEF NewCall
  <2>2. cfg.base_delay * (2^(attempt' - 1) - 1) = 0
    BY <1>0, <2>1, PowerOfZero
  <2> QED
    BY <1>1, <2>1, <2>2 DEF Sleeps
<1>3. CASE Raised
  <2> DEFINE p == 2^(attempt - 1)
             b == cfg.base_delay
  <2>1. attempt - 1 \in Nat /\ attempt' - 1 = (attempt - 1) + 1
    BY <1>0, <1>3 DEF Raised
  <2>2. p \in Nat /\ 2^(attempt' - 1) = 2 * p
    BY <2>1, PowerIsSubsets, PowerDoubles
  <2>3. slept' = slept + b * p /\ slept = b * (p - 1)
    BY <1>3 DEF Raised, Sleeps, Delay
  <2>4. b \in Int /\ slept \in Nat /\ b * p >= 0
    BY <1>0, <1>3, LlmAssumption DEF Raised, Sleepable, Delay
  <2>5. slept' \in Nat /\ slept' = b * (2 * p - 1)
    <3> HIDE DEF p, b
    <3>1. b * p \in Int
      BY <2>2, <2>4
    <3>2. b * (p - 1) + b * p = b * (2 * p - 1)
      BY <2>2, <2>4
    <3> QED
      BY <2>3, <2>4, <3>1, <3>2
  <2> QED
    BY <1>1, <2>2, <2>5 DEF Sleeps
<1>4. CASE UNCHANGED <<attempt, slept>>
  BY <1>0, <1>1, <1>4 DEF Sleeps
<1> QED
  BY <1>1, <1>2, <1>3, <1>4

\* What CountCall does to the counters, row by row.
CountedCall ==
    /\ calls' \in [Rows -> Nat]
    /\ \A i \in Rows : calls'[i] = IF i \in Batch THEN calls[i] + 1 ELSE calls[i]

LEMMA CountCallCounts ==
    ASSUME TypeOK, CountCall PROVE CountedCall
BY DEF TypeOK, CountCall, CountedCall

LEMMA StepIInv == IInv /\ [Next]_llmVars => IInv'
<1> SUFFICES ASSUME IInv, [Next]_llmVars PROVE IInv'
  OBVIOUS
<1>0. /\ cfg.targets \in Nat /\ cfg.has_client \in BOOLEAN
      /\ cfg.batch_size \in Int /\ cfg.max_retries \in Int
  BY CfgType DEF IInv, TypeOK
<1>12. slept' \in Nat /\ Sleeps'
  BY StepSleeps DEF IInv
<1> USE <1>0, <1>12 DEF IInv, TypeOK, AttemptsCounted, Classifying, Split, Rows,
        EveryTargetDecided, RetriesPerBatch, rowVars, reportVars
<1>1. CASE UNCHANGED llmVars
  BY <1>1 DEF llmVars
<1>2. CASE NoBatches
  BY <1>2 DEF NoBatches, Skips
<1>3. CASE NoClient
  BY <1>3 DEF NoClient, Skips
<1>4. CASE ZeroBatchSize
  BY <1>4 DEF ZeroBatchSize, Skips
<1>5. CASE BatchClassified
  <2>1. /\ Classifying /\ attempt <= cfg.max_retries
        /\ cfg' = cfg /\ llm_failed' = llm_failed
        /\ narrative' = narrative /\ risk_level' = risk_level
        /\ start' = start + cfg.batch_size /\ attempt' = 1
        /\ phase' = IF start' >= cfg.targets THEN "summarise" ELSE "classify"
    BY <1>5 DEF BatchClassified, Called, NextBatch, NewCall
  <2>2. /\ llm_category' \in [Rows -> {"null", "allowed", "Other"}]
        /\ \A i \in Rows :
             IF i \in Batch THEN llm_category'[i] # "null"
                            ELSE llm_category'[i] = llm_category[i]
    BY <1>5 DEF BatchClassified
  <2>3. CountedCall
    BY <1>5, CountCallCounts DEF BatchClassified
  <2> QED
    BY <2>1, <2>2, <2>3 DEF Batch, CountedCall
<1>6. CASE BatchRetried
  <2>1. /\ Classifying /\ attempt < cfg.max_retries /\ attempt' = attempt + 1
        /\ Sleepable(cfg.base_delay, attempt)
        /\ UNCHANGED <<cfg, phase, start, llm_category, llm_failed, narrative, risk_level>>
    BY <1>6 DEF BatchRetried, Raised
  <2>2. CountedCall
    BY <1>6, CountCallCounts DEF BatchRetried
  <2> QED
    BY <2>1, <2>2 DEF Batch, CountedCall
<1>7. CASE BatchFailed
  <2>1. /\ Classifying
        /\ attempt >= cfg.max_retries \/ ~Sleepable(cfg.base_delay, attempt)
        /\ UNCHANGED <<cfg, llm_category, narrative, risk_level>>
        /\ start' = start + cfg.batch_size /\ attempt' = 1
        /\ phase' = IF start' >= cfg.targets THEN "summarise" ELSE "classify"
    BY <1>7 DEF BatchFailed, Exhausted, NextBatch, NewCall
  <2>2. /\ llm_failed' \in [Rows -> BOOLEAN]
        /\ \A i \in Rows : llm_failed'[i] <=> llm_failed[i] \/ i \in Batch
    BY <1>7 DEF BatchFailed, Marks
  <2>3. CASE attempt <= cfg.max_retries
    <3>1. CountedCall
      BY <1>7, <2>3, CountCallCounts DEF BatchFailed, Called
    <3> QED
      BY <2>1, <2>2, <2>3, <3>1 DEF Batch, CountedCall
  <2>4. CASE ~(attempt <= cfg.max_retries)
    <3>1. calls' = calls
      BY <1>7, <2>4 DEF BatchFailed, Called
    <3> QED
      BY <2>1, <2>2, <2>4, <3>1 DEF Batch
  <2> QED
    BY <2>3, <2>4
<1>8. CASE SummarySkipped
  BY <1>8 DEF SummarySkipped, Finishes
<1>9. CASE SummaryWritten
  BY <1>9 DEF SummaryWritten, Finishes, NewCall
<1>10. CASE SummaryRetried
  BY <1>10 DEF SummaryRetried, Raised
<1>11. CASE SummaryFailed
  BY <1>11 DEF SummaryFailed, Finishes, NewCall
<1> QED
  BY <1>1, <1>2, <1>3, <1>4, <1>5, <1>6, <1>7, <1>8, <1>9, <1>10, <1>11 DEF Next

LEMMA Invariant == Spec => []IInv
BY InitIInv, StepIInv, PTL DEF Spec

\* For any number of rows, batch size and limit of attempts: after
\* classification every uncategorised row is classified or marked, not both.
THEOREM RowsDecided == Spec => []EveryTargetDecided
BY Invariant, PTL DEF IInv

\* ... and every batch gets all of its attempts and never more.
THEOREM RetriesCounted == Spec => []RetriesPerBatch
BY Invariant, PTL DEF IInv

\* ... and the sleeps of a call, after n failed attempts, add up to
\* base_delay * (2^n - 1), with none after the last attempt.
THEOREM SleepsDouble == Spec => []BackoffBounded
<1>1. IInv => BackoffBounded
  BY DEF IInv, Sleeps, AttemptsCounted, BackoffBounded
<1> QED
  BY <1>1, Invariant, PTL

-----------------------------------------------------------------------------
(***************************************************************************)
(* Termination, as far as it does not need ENABLED: the rows and attempts   *)
(* that are left are a number that every step makes smaller.                *)
(***************************************************************************)
\* A call that is given no attempt at all still fails once.
Tries == IF cfg.max_retries > 0 THEN cfg.max_retries ELSE 1

RowsLeft == IF start < cfg.targets THEN cfg.targets - start ELSE 0

WorkLeft ==
    IF phase = "classify" THEN Tries + Tries * RowsLeft + (Tries - attempt) + 1
    ELSE IF phase = "summarise" THEN (Tries - attempt) + 1
    ELSE 0

\* range() has a batch only where a row is left.
BatchHasRow == phase = "classify" => start < cfg.targets \/ start = 0

LEMMA StepBatchHasRow == TypeOK /\ BatchHasRow /\ [Next]_llmVars => BatchHasRow'
<1> SUFFICES ASSUME TypeOK, BatchHasRow, [Next]_llmVars PROVE BatchHasRow'
  OBVIOUS
<1>1. CASE NextBatch /\ cfg' = cfg
  <2>1. start' \in Int /\ cfg.targets \in Nat
    BY <1>1, CfgType DEF NextBatch, TypeOK
  <2> QED
    BY <1>1, <2>1 DEF NextBatch, BatchHasRow
<1>2. CASE phase' # "classify" \/ UNCHANGED <<cfg, phase, start>>
  BY <1>2 DEF BatchHasRow
<1> QED
  BY <1>1, <1>2
  DEF Next, llmVars, NoBatches, NoClient, ZeroBatchSize, Skips, BatchClassified, BatchRetried,
      BatchFailed, Finishes, SummarySkipped, SummaryWritten, SummaryRetried, SummaryFailed

LEMMA WorkIsNatural ==
    ASSUME TypeOK, AttemptsCounted
    PROVE  /\ WorkLeft \in Nat /\ Tries \in Nat \ {0} /\ RowsLeft \in Nat
           /\ attempt \in 1..Tries /\ Tries * RowsLeft \in Nat
<1>1. cfg.targets \in Nat /\ cfg.max_retries \in Int /\ attempt \in Nat \ {0} /\ start \in Nat
  BY CfgType DEF TypeOK
<1>2. Tries \in Nat \ {0} /\ RowsLeft \in Nat /\ attempt \in 1..Tries
  BY <1>1 DEF Tries, RowsLeft, AttemptsCounted
<1> DEFINE product == Tries * RowsLeft
<1>3. product \in Nat
  BY <1>2
<1> HIDE DEF product
<1>4. Tries + product + (Tries - attempt) + 1 \in Nat /\ (Tries - attempt) + 1 \in Nat
  BY <1>2, <1>3
<1> QED
  BY <1>2, <1>3, <1>4 DEF WorkLeft, product

\* A batch takes at least one row off the work, and starts a new call.
LEMMA BatchShrinksWork ==
    ASSUME TypeOK, AttemptsCounted, BatchHasRow, Classifying, NextBatch, cfg' = cfg
    PROVE  WorkLeft' < WorkLeft
<1> DEFINE t == Tries
           left == RowsLeft
           rest == RowsLeft'
<1>1. /\ t \in Nat \ {0} /\ left \in Nat /\ attempt \in 1..t
  BY WorkIsNatural
<1>2. /\ Tries' = t /\ attempt' = 1 /\ phase = "classify"
      /\ phase' = IF start' >= cfg.targets THEN "summarise" ELSE "classify"
  BY DEF Tries, NextBatch, NewCall, Classifying
<1>3. rest \in Nat /\ rest + 1 <= left
  <2>1. /\ cfg.targets \in Nat \ {0} /\ cfg.batch_size \in Nat \ {0} /\ start \in Nat
    BY CfgType DEF TypeOK, Classifying
  <2>2. start < cfg.targets /\ start' = start + cfg.batch_size
    BY <1>2, <2>1 DEF BatchHasRow, NextBatch
  <2> QED
    BY <2>1, <2>2 DEF RowsLeft
<1>4. WorkLeft = t + t * left + (t - attempt) + 1
  BY <1>2 DEF WorkLeft
<1>5. WorkLeft' <= t + t * rest + t
  <2>1. WorkLeft' = IF start' >= cfg.targets THEN (t - 1) + 1 ELSE t + t * rest + (t - 1) + 1
    BY <1>2 DEF WorkLeft
  <2> HIDE DEF t, rest
  <2>2. t * rest \in Nat
    BY <1>1, <1>3
  <2> QED
    BY <1>1, <2>1, <2>2
<1> HIDE DEF t, left, rest
<1>6. t * (rest + 1) <= t * left
  BY <1>1, <1>3
<1>7. t * (rest + 1) = t * rest + t /\ t * rest \in Nat /\ t * left \in Nat
  BY <1>1, <1>3
<1> DEFINE before == t * left
           after == t * rest
<1>8. after + t <= before /\ after \in Nat /\ before \in Nat
  BY <1>6, <1>7
<1> HIDE DEF before, after
<1>9. t + after + t < t + before + (t - attempt) + 1
  BY <1>1, <1>8
<1>10. WorkLeft' \in Int
  BY <1>1, <1>2, <1>7 DEF WorkLeft, t, rest
<1> QED
  BY <1>1, <1>4, <1>5, <1>8, <1>9, <1>10 DEF before, after

\* What is left to do is a natural number that every step makes smaller: for
\* any settings, and whatever the LLM does, run_pipeline's LLM stage has no
\* infinite behaviour, and the first value of WorkLeft bounds its steps.
THEOREM WorkShrinks == Spec => [](WorkLeft \in Nat) /\ [][WorkLeft' < WorkLeft]_llmVars
<1> DEFINE Inv == IInv /\ BatchHasRow
<1>1. Init => Inv
  BY InitIInv DEF Init, BatchHasRow
<1>2. Inv /\ [Next]_llmVars => Inv'
  BY StepIInv, StepBatchHasRow DEF IInv
<1>3. Inv => WorkLeft \in Nat
  BY WorkIsNatural DEF IInv
<1>4. ASSUME Inv, Next PROVE WorkLeft' < WorkLeft
  <2>0. /\ TypeOK /\ AttemptsCounted /\ BatchHasRow
        /\ WorkLeft \in Nat /\ Tries \in Nat /\ attempt \in 1..Tries /\ Tries * RowsLeft \in Nat
    BY <1>4, WorkIsNatural DEF IInv
  <2>1. CASE BatchClassified \/ BatchFailed
    BY <2>0, <2>1, BatchShrinksWork DEF BatchClassified, BatchFailed, Classifying
  <2>2. CASE BatchRetried \/ SummaryRetried
    <3>1. /\ phase' = phase /\ phase \in {"classify", "summarise"} /\ attempt' = attempt + 1
          /\ Tries' = Tries /\ RowsLeft' = RowsLeft
      BY <2>2 DEF BatchRetried, SummaryRetried, Classifying, Raised, Tries, RowsLeft
    <3> DEFINE t == Tries
               product == Tries * RowsLeft
    <3>2. /\ WorkLeft = IF phase = "classify" THEN t + product + (t - attempt) + 1
                        ELSE (t - attempt) + 1
          /\ WorkLeft' = IF phase = "classify" THEN t + product + (t - (attempt + 1)) + 1
                         ELSE (t - (attempt + 1)) + 1
      BY <3>1 DEF WorkLeft
    <3>3. t \in Nat /\ product \in Nat /\ attempt \in Nat
      BY <2>0
    <3> HIDE DEF t, product
    <3> QED
      BY <3>2, <3>3
  <2>3. CASE NoBatches \/ NoClient
    <3>1. phase = "classify" /\ phase' = "summarise" /\ attempt' = attempt /\ Tries' = Tries
      BY <2>3 DEF NoBatches, NoClient, Skips, Tries
    <3> DEFINE t == Tries
               product == Tries * RowsLeft
    <3>2. WorkLeft = t + product + (t - attempt) + 1 /\ WorkLeft' = (t - attempt) + 1
      BY <3>1 DEF WorkLeft
    <3>3. t \in Nat \ {0} /\ product \in Nat /\ attempt \in Nat
      BY <2>0
    <3> HIDE DEF t, product
    <3> QED
      BY <3>2, <3>3
  <2>4. CASE ZeroBatchSize \/ SummarySkipped \/ SummaryWritten \/ SummaryFailed
    <3>1. WorkLeft' = 0 /\ phase \in {"classify", "summarise"}
      BY <2>4 DEF ZeroBatchSize, SummarySkipped, SummaryWritten, SummaryFailed, Finishes,
                  Skips, WorkLeft
    <3> DEFINE product == Tries * RowsLeft
    <3>2. WorkLeft = IF phase = "classify" THEN Tries + product + (Tries - attempt) + 1
                     ELSE (Tries - attempt) + 1
      BY <3>1 DEF WorkLeft
    <3>3. product \in Nat
      BY <2>0
    <3> HIDE DEF product
    <3> QED
      BY <2>0, <3>1, <3>2, <3>3
  <2> QED
    BY <1>4, <2>1, <2>2, <2>3, <2>4 DEF Next
<1>5. Inv /\ [Next]_llmVars => [WorkLeft' < WorkLeft]_llmVars
  BY <1>4
<1> HIDE DEF Inv
<1> QED
  BY <1>1, <1>2, <1>3, <1>5, PTL DEF Spec
=============================================================================
