----------------------------- MODULE MCLlmStage -----------------------------
(***************************************************************************)
(* Instances of LlmStage for TLC.  Three rows in batches of one, two or     *)
(* more cover a full, an uneven and a single batch; three attempts are the  *)
(* default of LLM_MAX_RETRIES.                                              *)
(***************************************************************************)
EXTENDS LlmStage

\* Every kind of setting the configuration admits, zero and negative ones
\* included.  With LongestSleep = 5 the delay 3 can be slept once, the delay 8
\* never, as the infinite one; NaN does what a negative delay does.
AllSettings ==
    [targets : 0..3, has_client : BOOLEAN, batch_size : {-1, 0, 1, 2, 4},
     max_retries : {-1, 0, 1, 2, 3}, base_delay : {-1, 0, 1, 3, 8}]
=============================================================================
