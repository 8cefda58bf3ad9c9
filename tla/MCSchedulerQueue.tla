--------------------------- MODULE MCSchedulerQueue ---------------------------
(***************************************************************************)
(* Instances of SchedulerQueue.  The jobs are jobs of SCHEDULE_CONFIG with  *)
(* the hours of their period scaled to ticks and their limits to one or two.*)
(***************************************************************************)
EXTENDS SchedulerQueue

(* daily_backup: retried inside the run, picked up again when it was cut    *)
(* short, no cutoff, and missed days are made up for.                       *)
BackupJob ==
  [span |-> 2, starts |-> {0}, fixed |-> TRUE, delay |-> 0, open |-> 2,
   until |-> 2, max |-> 1, retries |-> 1, rerun |-> TRUE, forgiven |-> 1,
   gap |-> 0, backfill |-> TRUE]

(* daily_horizon_exit: one attempt, picked up again when it was cut short,  *)
(* and not moved any more from half past nine.                              *)
ExitJob ==
  [span |-> 3, starts |-> {0}, fixed |-> TRUE, delay |-> 0, open |-> 3,
   until |-> 2, max |-> 1, retries |-> 0, rerun |-> TRUE, forgiven |-> 1,
   gap |-> 0, backfill |-> FALSE]

(* weekly_model_training: attempts with a gap between the failures, and an  *)
(* interrupted one counts.                                                  *)
WeeklyJob ==
  [span |-> 4, starts |-> {0}, fixed |-> TRUE, delay |-> 0, open |-> 4,
   until |-> 4, max |-> 2, retries |-> 0, rerun |-> FALSE, forgiven |-> 1,
   gap |-> 1, backfill |-> FALSE]

MCConfig ==
  [j \in Jobs |-> CASE j = "backup" -> BackupJob
                    [] j = "exit"   -> ExitJob
                    [] j = "weekly" -> WeeklyJob]

(* A cron thread and a poller of the daemon, and a thread per process that  *)
(* `--run-now` starts, named as its process.                                *)
MCOwner == [t \in Threads |-> IF t \in Manuals THEN t ELSE Daemon]
MCKind == [t \in Threads |-> IF t \in Manuals THEN "manual" ELSE t]
MCWatches == [t \in Threads |-> Jobs]
MCPlans == {<<j>> : j \in Jobs}
=============================================================================
