--------------------------- MODULE SchedulerEvents ---------------------------
(***************************************************************************)
(* The records of the scheduler's state file (scheduler_queue_state.json)  *)
(* and every judgement that is read off them: how often a job counts as    *)
(* executed in a period, whether the period has succeeded, which runs of   *)
(* an earlier boot have vanished, and whether a recovery still has to keep *)
(* its distance from the last failure.                                     *)
(*                                                                         *)
(* Time is counted in ticks.  A period of job j is `span` ticks long and   *)
(* is named by its number (the code's period_key is the date, the ISO      *)
(* week or the month); offsets such as `until` count from its beginning.   *)
(***************************************************************************)
EXTENDS Integers, FiniteSets, SequencesExt

CONSTANTS
  Jobs,       \* the job ids of SCHEDULE_CONFIG
  Config,     \* Config[j]: the settings of job j that decide when it may run
  MaxEvents   \* records the state file keeps (5000 in the code)

(* span      length of a period                                             *)
(* starts    offsets of the cron firings in a period                        *)
(* fixed     hour and minute are numbers, so there is one firing to recover *)
(* delay     recovery_delay_minutes                                         *)
(* open      offset at which the days on which a recovery is considered end *)
(* until     recovery_until; the span when the job has no cutoff            *)
(* max       max_executions_per_period                                      *)
(* retries   max_retries                                                    *)
(* rerun     rerun_if_interrupted                                           *)
(* forgiven  max_interrupted_reruns_per_period                              *)
(* gap       recovery_min_gap_minutes; 0 when the job has none              *)
(* backfill  missed earlier periods are made up for                         *)
JobConfig ==
  [span : Nat \ {0}, starts : SUBSET Nat, fixed : BOOLEAN, delay : Nat,
   open : Nat, until : Nat, max : Nat, retries : Nat, rerun : BOOLEAN,
   forgiven : Nat, gap : Nat, backfill : BOOLEAN]

ASSUME ConfigAssumption ==
  /\ Config \in [Jobs -> JobConfig]
  /\ \A j \in Jobs : Config[j].fixed => Cardinality(Config[j].starts) = 1

ASSUME MaxEventsAssumption == MaxEvents \in Nat \ {0}

Status == {"started", "retry", "success", "error", "skipped_limit"}

Reason == {"scheduled", "recovery", "recovery_backfill", "manual"}

(* run is 0 in the records that carry no run_id; at is the started_at of a  *)
(* start and the finished_at of an end; noGap is skip_recovery_gap.         *)
Event ==
  [job : Jobs, period : Nat, status : Status, reason : Reason, run : Nat,
   boot : Nat, at : Nat, noGap : BOOLEAN]

Period(j, t) == t \div Config[j].span
Offset(j, t) == t % Config[j].span

(* Deviation: the slice starts one record too early.                        *)
TrimOneTooMany(e) ==
  IF Len(e) > MaxEvents THEN SubSeq(e, Len(e) - MaxEvents, Len(e)) ELSE e

(* The file keeps its newest MaxEvents records.                             *)
Trim(e) ==
  IF Len(e) > MaxEvents THEN SubSeq(e, Len(e) - MaxEvents + 1, Len(e)) ELSE e

-----------------------------------------------------------------------------

RecordsOf(e, j, p) == {x \in ToSet(e) : x.job = j /\ x.period = p}

HasSuccess(e, j, p) == \E x \in RecordsOf(e, j, p) : x.status = "success"

FinishedRuns(e, j, p) ==
  {x.run : x \in {y \in RecordsOf(e, j, p) : y.status \in {"success", "error"}}}

(* The starts with no end: the run is going on, or its process is gone, or  *)
(* the record of its end could not be written.                              *)
OpenStarts(e, j, p) ==
  {x \in RecordsOf(e, j, p) :
     x.status = "started" /\ x.run \notin FinishedRuns(e, j, p)}

(* Deviation: boot_id is not compared, only the seconds.                    *)
InterruptedByTimeAlone(e, j, p, b, t) ==
  {x \in OpenStarts(e, j, p) : x.at <= t}

(* The open starts that boot b, which came up at time t, takes for runs of  *)
(* a process that no longer exists.                                         *)
Interrupted(e, j, p, b, t) ==
  {x \in OpenStarts(e, j, p) : x.boot # b /\ x.at < t}

Lesser(a, b) == IF a <= b THEN a ELSE b

Forgiven(e, j, p, b, t) ==
  IF Config[j].rerun
  THEN Lesser(Cardinality(Interrupted(e, j, p, b, t)), Config[j].forgiven)
  ELSE 0

(* Deviation: only recorded ends count.                                     *)
CountEndsOnly(e, j, p, b, t) == Cardinality(FinishedRuns(e, j, p))

ExecutionCount(e, j, p, b, t) ==
  Cardinality(FinishedRuns(e, j, p)) + Cardinality(OpenStarts(e, j, p))
    - Forgiven(e, j, p, b, t)

-----------------------------------------------------------------------------

(* The attempts a recovery keeps its distance from: the failures, and the   *)
(* starts too unless the job picks up interrupted work at once.  A run that *)
(* gave up waiting for a lock has already waited.                           *)
Attempts(e, j, p) ==
  LET waited == {x.run : x \in {y \in ToSet(e) : y.noGap}}
      kinds  == IF Config[j].rerun THEN {"error"} ELSE {"started", "error"}
  IN  {x \in RecordsOf(e, j, p) : x.run \notin waited /\ x.status \in kinds}

WithinRecoveryGap(e, j, p, t) ==
  \E x \in Attempts(e, j, p) : t < x.at + Config[j].gap

PastRecoveryUntil(j, t) == Offset(j, t) >= Config[j].until

(* Today is a day on which the job may be recovered, and its firing is at   *)
(* least recovery_delay_minutes ago.                                        *)
DueForRecovery(j, t) ==
  /\ Config[j].fixed
  /\ Offset(j, t) < Config[j].open
  /\ \A s \in Config[j].starts : s + Config[j].delay <= Offset(j, t)
=============================================================================
