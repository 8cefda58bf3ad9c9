---------------------------- MODULE MCCapNotice ----------------------------
(***************************************************************************)
(* Instances of CapNotice.  A day has two ticks and a week two days; the   *)
(* jobs are jobs of SCHEDULE_CONFIG with their limits.                     *)
(***************************************************************************)
EXTENDS CapNotice

\* daily_auto_order and daily_rule_signals: one run, none after the cutoff
OrderJob ==
  [span |-> 2, starts |-> {0}, fixed |-> TRUE, delay |-> 0, open |-> 2,
   until |-> 1, max |-> 1, retries |-> 0, rerun |-> FALSE, forgiven |-> 0,
   gap |-> 0, backfill |-> FALSE]

\* weekly_model_training: recovered on the day of its firing only
TrainingJob ==
  [span |-> 4, starts |-> {0}, fixed |-> TRUE, delay |-> 0, open |-> 2,
   until |-> 4, max |-> 1, retries |-> 0, rerun |-> FALSE, forgiven |-> 0,
   gap |-> 0, backfill |-> FALSE]

MCConfig == [j \in Jobs |-> IF j = "training" THEN TrainingJob ELSE OrderJob]
=============================================================================
