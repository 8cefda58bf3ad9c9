---------------------------- MODULE SchedulerQueue ----------------------------
(***************************************************************************)
(* SchedulerQueueManager and the callers that drive it.                    *)
(*                                                                         *)
(* One daemon process runs a cron thread per job and three pollers that    *)
(* recover what was missed; `run_scheduler.py --run-now` starts further,   *)
(* short-lived processes.  All of them share one state file.  A process    *)
(* holds _lock and the file lock from the reload of the file to its        *)
(* replacement, so each such section is one action here; between two       *)
(* sections everything interleaves, and a process may die at any point.    *)
(***************************************************************************)
EXTENDS SchedulerEvents

CONSTANTS
  Daemon,      \* the resident scheduler process
  Manuals,     \* the processes of an immediate run
  Threads,     \* every thread that calls run_job
  Owner,       \* Owner[t]: the process of thread t
  Kind,        \* Kind[t]: "cron", "poller" or "manual"
  Watches,     \* Watches[t]: the jobs thread t looks after
  Plans,       \* the job lists an immediate run goes through
  Grace,       \* misfire_grace_time
  Horizon,     \* bound: the clock stops here
  MaxBoots,    \* bound: process starts in a behaviour
  MaxRuns,     \* bound: runs in a behaviour
  WriteFaults, \* the state file may fail to be replaced
  ReadFaults,  \* the state file may fail to be opened
  Tears        \* the state file may be damaged from outside

Procs == {Daemon} \union Manuals

ASSUME ThreadAssumption ==
  /\ Daemon \notin Manuals
  /\ Owner \in [Threads -> Procs]
  /\ Kind \in [Threads -> {"cron", "poller", "manual"}]
  /\ Watches \in [Threads -> SUBSET Jobs]
  /\ \A t \in Threads : Kind[t] = "manual" <=> Owner[t] \in Manuals
  /\ Plans \subseteq Seq(Jobs)

ASSUME BoundAssumption ==
  /\ {Grace, Horizon, MaxBoots, MaxRuns} \subseteq Nat
  /\ {WriteFaults, ReadFaults, Tears} \subseteq BOOLEAN

VARIABLES
  now,         \* the clock
  disk,        \* the records in the state file; empty when it is missing or torn
  torn,        \* the file is there and cannot be parsed
  boots,       \* process starts so far; the newest boot_id
  runs,        \* runs so far; the newest run_id
  boot,        \* boot[p]: boot_id of process p, 0 while p is down
  bootedAt,    \* bootedAt[p]: when p came up
  mem,         \* mem[p]: _state["events"] of p
  quarantined, \* quarantined[p]: _state_corrupted of p
  inProgress,  \* inProgress[p]: _in_progress_jobs of p
  fired,       \* fired[j]: the last cron firing of j in this boot of the daemon
  th           \* th[t]: where thread t is

file     == <<disk, torn>>
counters == <<boots, runs>>
procs    == <<boot, bootedAt>>
vars == <<now, file, counters, procs, mem, quarantined, inProgress, fired, th>>

NoPeriod == -1

(* A call of run_job; its period_key is NoPeriod until it is made, unless   *)
(* the caller gives one.                                                    *)
Call == [job : Jobs, period : Nat \union {NoPeriod}, reason : Reason]

(* calls lists the run_job calls the thread still makes, the current one    *)
(* first.  A poller is "looking" between the judgement of the current and   *)
(* of the missed periods.  A thread is "called" from the entry of run_job   *)
(* to its locked section, "running" while the job's body runs, "failed"     *)
(* when recording a retry raised, and "returned" or "raised" once the end   *)
(* is recorded.                                                             *)
Thread ==
  [pc : {"idle", "looking", "called", "running", "failed", "returned", "raised"},
   calls : Seq(Call), run : Nat, attempt : Nat]

IdleThread == [pc |-> "idle", calls |-> <<>>, run |-> 0, attempt |-> 0]

Up(p) == boot[p] # 0
Current(t) == Head(th[t].calls)
InBody(t) == th[t].pc \in {"running", "failed", "returned", "raised"}
Idle(t) == th[t].pc = "idle"

CountFor(p, e, j, k) == ExecutionCount(e, j, k, boot[p], bootedAt[p])

-----------------------------------------------------------------------------
(* The state file                                                           *)

ReadOutcome == {"ok", "torn", "error"}

Reads(o) ==
  \/ o = IF torn THEN "torn" ELSE "ok"
  \/ ReadFaults /\ o = "error"

(* Deviation: a section works on what the process already holds.            *)
KeepsOwnCopy(p, o) == mem[p]

(* _reload_state: what process p holds once its read came out as o.         *)
Loaded(p, o) == IF o = "ok" THEN disk ELSE mem[p]

(* _reload_state: a torn file is moved aside and p stops its recoveries.    *)
Reload(p, o) ==
  /\ Reads(o)
  /\ quarantined' = [quarantined EXCEPT ![p] = @ \/ o = "torn"]

(* A section that reads and writes nothing.                                 *)
Refresh(p, o) ==
  /\ Reload(p, o)
  /\ mem' = [mem EXCEPT ![p] = Loaded(p, o)]
  /\ torn' = (torn /\ o # "torn")
  /\ UNCHANGED disk

(* _append_event, _append_event_locked, _save_state: reload, add the record,*)
(* replace the file.                                                        *)
Record(p, o, x) ==
  /\ Reload(p, o)
  /\ mem' = [mem EXCEPT ![p] = Trim(Append(Loaded(p, o), x))]
  /\ disk' = Trim(Append(Loaded(p, o), x))
  /\ torn' = FALSE

(* The same section when _save_state raises: the record stays in memory.    *)
RecordLost(p, o, x) ==
  /\ WriteFaults
  /\ Reload(p, o)
  /\ mem' = [mem EXCEPT ![p] = Trim(Append(Loaded(p, o), x))]
  /\ torn' = (torn /\ o # "torn")
  /\ UNCHANGED disk

(* A record with no run_id, and one of a run.  The stamps that nothing      *)
(* reads are left out: those of a skip, of a retry and of a success.        *)
Note(t, status) ==
  [job |-> Current(t).job, period |-> Current(t).period, status |-> status,
   reason |-> Current(t).reason, run |-> 0, boot |-> 0, at |-> 0, noGap |-> FALSE]

(* Deviation: the start carries no run_id.                                  *)
StartWithoutRunId(t, run) ==
  [Note(t, "started") EXCEPT !.boot = boot[Owner[t]], !.at = now]

StartRecord(t, run) ==
  [Note(t, "started") EXCEPT !.run = run, !.boot = boot[Owner[t]], !.at = now]

EndRecord(t, status, noGap) ==
  [Note(t, status) EXCEPT !.run = th[t].run, !.noGap = noGap,
                          !.at = IF status = "error" THEN now ELSE 0]

-----------------------------------------------------------------------------
(* Who calls run_job                                                        *)

(* The latest firing of job j at or before the clock, -1 if there is none.  *)
LastFiring(j) ==
  LET base   == Period(j, now) * Config[j].span
      passed == {base + s : s \in Config[j].starts} \intersect 0 .. now
  IN  IF passed = {} THEN -1 ELSE CHOOSE d \in passed : \A e \in passed : e <= d

(* The cron trigger of j is owed a firing.  Its job store lives in memory,  *)
(* so a firing from before the boot is not made up for here.                *)
FiringDue(j) ==
  /\ Up(Daemon)
  /\ LastFiring(j) > fired[j]
  /\ bootedAt[Daemon] <= LastFiring(j)
  /\ now <= LastFiring(j) + Grace

CallOf(j, k, r) == [job |-> j, period |-> k, reason |-> r]

(* The thread makes the first of the calls; run_job builds the period_key   *)
(* from the clock unless the caller gave one.                               *)
Making(calls) ==
  IF calls = <<>> THEN IdleThread
  ELSE [IdleThread EXCEPT
          !.pc = "called",
          !.calls = [calls EXCEPT ![1].period =
            IF @ = NoPeriod THEN Period(calls[1].job, now) ELSE @]]

(* APScheduler runs _managed_runner for the latest firing (coalesce); a run *)
(* that starts late does not run past its cutoff.                           *)
CronFire(t, j) ==
  /\ Kind[t] = "cron" /\ j \in Watches[t]
  /\ Idle(t)
  /\ FiringDue(j)
  /\ fired' = [fired EXCEPT ![j] = LastFiring(j)]
  /\ th' = [th EXCEPT ![t] =
              IF PastRecoveryUntil(j, now) THEN IdleThread
              ELSE Making(<<CallOf(j, NoPeriod, "scheduled")>>)]
  /\ UNCHANGED <<now, file, counters, procs, mem, quarantined, inProgress>>

(* max_instances = 1: a firing that falls into the previous run is dropped. *)
CronMiss(t, j) ==
  /\ Kind[t] = "cron" /\ j \in Watches[t]
  /\ ~Idle(t)
  /\ FiringDue(j)
  /\ fired' = [fired EXCEPT ![j] = LastFiring(j)]
  /\ UNCHANGED <<now, file, counters, procs, mem, quarantined, inProgress, th>>

(* should_recover, up to the reload of the file ...                         *)
WorthALook(p, j) ==
  /\ j \notin inProgress[p]
  /\ DueForRecovery(j, now)
  /\ ~PastRecoveryUntil(j, now)

(* ... and on the records e it finds there.                                 *)
NotDone(p, e, j, k) ==
  /\ ~HasSuccess(e, j, k)
  /\ CountFor(p, e, j, k) < Config[j].max

ShouldRecover(p, e, j) ==
  LET k == Period(j, now)
  IN  NotDone(p, e, j, k) /\ ~WithinRecoveryGap(e, j, k, now)

(* get_missed_past_periods, with the lookback_days = 2 of its caller: the   *)
(* newest first.  Behaviours begin in period 0.                             *)
Backfill(p, e, j, k) ==
  IF k >= 0 /\ NotDone(p, e, j, k)
  THEN <<CallOf(j, k, "recovery_backfill")>>
  ELSE <<>>

MissedPeriods(p, e, j) ==
  LET k == Period(j, now)
  IN  Backfill(p, e, j, k - 1) \o Backfill(p, e, j, k - 2)

(* Deviation: a successful read is enough.                                  *)
MayRecoverAfterAnyRead(p, o) == o = "ok"

(* _reload_state_for_recovery: may recoveries be judged on what was read?   *)
MayRecover(p, o) == o = "ok" /\ ~quarantined[p]

(* The thread goes on to the missed periods of j.                           *)
Looking(j) ==
  IF Config[j].backfill
  THEN [IdleThread EXCEPT
          !.pc = "looking", !.calls = <<CallOf(j, NoPeriod, "recovery_backfill")>>]
  ELSE IdleThread

(* _recover_job on one job of the poller: the current period if it should   *)
(* be recovered, else the missed ones before it.  The two judgements and    *)
(* the run_job calls they lead to are critical sections of their own.       *)
Poll(t, j) ==
  LET p == Owner[t]
  IN  /\ Kind[t] = "poller" /\ j \in Watches[t]
      /\ Up(p)
      /\ Idle(t)
      /\ \/ /\ ~WorthALook(p, j)
            /\ th' = [th EXCEPT ![t] = Looking(j)]
            /\ UNCHANGED <<file, mem, quarantined>>
         \/ /\ WorthALook(p, j)
            /\ \E o \in ReadOutcome :
                 /\ Refresh(p, o)
                 /\ th' = [th EXCEPT ![t] =
                      IF MayRecover(p, o) /\ ShouldRecover(p, disk, j)
                      THEN Making(<<CallOf(j, NoPeriod, "recovery")>>)
                      ELSE Looking(j)]
      /\ UNCHANGED <<now, counters, procs, inProgress, fired>>

LookBack(t) ==
  LET p == Owner[t]
  IN  /\ th[t].pc = "looking"
      /\ \E o \in ReadOutcome :
           /\ Refresh(p, o)
           /\ th' = [th EXCEPT ![t] =
                Making(IF MayRecover(p, o) THEN MissedPeriods(p, disk, Current(t).job)
                       ELSE <<>>)]
      /\ UNCHANGED <<now, counters, procs, inProgress, fired>>

-----------------------------------------------------------------------------
(* run_job                                                                  *)

(* Deviation: nobody looks at _in_progress_jobs.                            *)
NeverBusy(t) == FALSE

(* This process is running the job already.                                 *)
Busy(t) == Current(t).job \in inProgress[Owner[t]]

SkipInProgress(t) ==
  /\ th[t].pc = "called"
  /\ Busy(t)
  /\ th' = [th EXCEPT ![t] = Making(Tail(th[t].calls))]
  /\ UNCHANGED <<now, file, counters, procs, mem, quarantined, inProgress, fired>>

(* Deviation: the limit itself is still allowed.                            *)
AdmittedAtLimit(t, e) ==
  \/ Current(t).reason = "manual"
  \/ CountFor(Owner[t], e, Current(t).job, Current(t).period)
       <= Config[Current(t).job].max

(* Does the count allow a run, on the records e?  A manual run is forced.   *)
Admitted(t, e) ==
  \/ Current(t).reason = "manual"
  \/ CountFor(Owner[t], e, Current(t).job, Current(t).period)
       < Config[Current(t).job].max

(* The count is used up: leave a record and return; if it cannot be written *)
(* the exception ends the caller's remaining calls.                         *)
SkipAtLimit(t) ==
  LET p == Owner[t]
      x == Note(t, "skipped_limit")
  IN  /\ th[t].pc = "called"
      /\ ~Busy(t)
      /\ \E o \in ReadOutcome :
           /\ ~Admitted(t, Loaded(p, o))
           /\ \/ /\ Record(p, o, x)
                 /\ th' = [th EXCEPT ![t] = Making(Tail(th[t].calls))]
              \/ /\ RecordLost(p, o, x)
                 /\ th' = [th EXCEPT ![t] = IdleThread]
      /\ UNCHANGED <<now, counters, procs, inProgress, fired>>

(* The start is recorded before the body runs; without the record it does   *)
(* not run.                                                                 *)
Admit(t) ==
  LET p == Owner[t]
      x == StartRecord(t, runs + 1)
  IN  /\ th[t].pc = "called"
      /\ ~Busy(t)
      /\ runs < MaxRuns
      /\ \E o \in ReadOutcome :
           /\ Admitted(t, Loaded(p, o))
           /\ \/ /\ Record(p, o, x)
                 /\ inProgress' = [inProgress EXCEPT ![p] = @ \union {Current(t).job}]
                 /\ th' = [th EXCEPT ![t] = [@ EXCEPT !.pc = "running", !.run = runs + 1]]
              \/ /\ RecordLost(p, o, x)
                 /\ th' = [th EXCEPT ![t] = IdleThread]
                 /\ UNCHANGED inProgress
      /\ runs' = runs + 1
      /\ UNCHANGED <<now, boots, procs, fired>>

(* _run_with_retry: the body failed and is tried again.  When the record of *)
(* the retry cannot be written, the run fails with that exception.          *)
Retry(t) ==
  LET p == Owner[t]
      x == Note(t, "retry")
  IN  /\ th[t].pc = "running"
      /\ th[t].attempt < Config[Current(t).job].retries
      /\ \E o \in ReadOutcome :
           \/ /\ Record(p, o, x)
              /\ th' = [th EXCEPT ![t].attempt = @ + 1]
           \/ /\ RecordLost(p, o, x)
              /\ th' = [th EXCEPT ![t].pc = "failed"]
      /\ UNCHANGED <<now, counters, procs, inProgress, fired>>

(* The body ended.  The record of the end may be lost: the exception is     *)
(* logged and the job's own outcome is what the caller sees.  A failure may *)
(* come at any attempt (NonRetryableJobError), noGap is a run that gave up  *)
(* waiting for a lock.                                                      *)
Finish(t, status, noGap) ==
  LET p == Owner[t]
      x == EndRecord(t, status, noGap)
  IN  /\ th[t].pc = "running" \/ (th[t].pc = "failed" /\ status = "error" /\ ~noGap)
      /\ noGap => Config[Current(t).job].gap > 0
      /\ \E o \in ReadOutcome : Record(p, o, x) \/ RecordLost(p, o, x)
      /\ th' = [th EXCEPT ![t].pc =
                   IF status = "success" THEN "returned" ELSE "raised"]
      /\ UNCHANGED <<now, counters, procs, inProgress, fired>>

(* Deviation: the mark stays when the job raised.                           *)
ReleaseAfterSuccessOnly(t) ==
  LET p == Owner[t]
  IN  /\ th[t].pc \in {"returned", "raised"}
      /\ inProgress' = IF th[t].pc = "raised" THEN inProgress
                       ELSE [inProgress EXCEPT ![p] = @ \ {Current(t).job}]
      /\ th' = [th EXCEPT ![t] =
           Making(IF th[t].pc = "returned" THEN Tail(th[t].calls) ELSE <<>>)]
      /\ UNCHANGED <<now, file, counters, procs, mem, quarantined, fired>>

(* The mark of the running job is taken off, whatever happened before.  An  *)
(* exception ends the caller's remaining calls.                             *)
Release(t) ==
  LET p == Owner[t]
  IN  /\ th[t].pc \in {"returned", "raised"}
      /\ inProgress' = [inProgress EXCEPT ![p] = @ \ {Current(t).job}]
      /\ th' = [th EXCEPT ![t] =
           Making(IF th[t].pc = "returned" THEN Tail(th[t].calls) ELSE <<>>)]
      /\ UNCHANGED <<now, file, counters, procs, mem, quarantined, fired>>

-----------------------------------------------------------------------------
(* Processes, the clock and the disk                                        *)

(* __init__: a new boot_id, and the file is read for the first time.        *)
Start(p) ==
  /\ ~Up(p)
  /\ boots < MaxBoots
  /\ boots' = boots + 1
  /\ boot' = [boot EXCEPT ![p] = boots + 1]
  /\ bootedAt' = [bootedAt EXCEPT ![p] = now]
  /\ \E o \in ReadOutcome : Refresh(p, o)

BootDaemon ==
  /\ Start(Daemon)
  /\ fired' = [j \in Jobs |-> -1]
  /\ UNCHANGED <<now, runs, inProgress, th>>

(* run_now: one forced call after the other.                                *)
RunNow(t, plan) ==
  /\ Kind[t] = "manual"
  /\ Start(Owner[t])
  /\ th' = [th EXCEPT ![t] =
       Making([i \in DOMAIN plan |-> CallOf(plan[i], NoPeriod, "manual")])]
  /\ UNCHANGED <<now, runs, inProgress, fired>>

Gone(p) ==
  /\ boot' = [boot EXCEPT ![p] = 0]
  /\ bootedAt' = [bootedAt EXCEPT ![p] = 0]
  /\ mem' = [mem EXCEPT ![p] = <<>>]
  /\ quarantined' = [quarantined EXCEPT ![p] = FALSE]
  /\ inProgress' = [inProgress EXCEPT ![p] = {}]
  /\ th' = [t \in Threads |-> IF Owner[t] = p THEN IdleThread ELSE th[t]]
  /\ UNCHANGED <<now, file, counters, fired>>

(* A deploy, a kill or a reboot: no `finally` runs.  The bound keeps a boot *)
(* in hand for the daemon.                                                  *)
Crash(p) ==
  /\ Up(p)
  /\ p = Daemon => boots < MaxBoots
  /\ Gone(p)

(* An immediate run has made all its calls, or one of them raised.          *)
Exit(p) ==
  /\ p \in Manuals /\ Up(p)
  /\ \A t \in Threads : Owner[t] = p => Idle(t)
  /\ Gone(p)

Tick ==
  /\ now < Horizon
  /\ now' = now + 1
  /\ UNCHANGED <<file, counters, procs, mem, quarantined, inProgress, fired, th>>

Tear ==
  /\ Tears /\ ~torn
  /\ torn' = TRUE
  /\ disk' = <<>>
  /\ UNCHANGED <<now, counters, procs, mem, quarantined, inProgress, fired, th>>

-----------------------------------------------------------------------------

Init ==
  /\ now = 0
  /\ disk = <<>> /\ torn = FALSE
  /\ boots = 0 /\ runs = 0
  /\ boot = [p \in Procs |-> 0]
  /\ bootedAt = [p \in Procs |-> 0]
  /\ mem = [p \in Procs |-> <<>>]
  /\ quarantined = [p \in Procs |-> FALSE]
  /\ inProgress = [p \in Procs |-> {}]
  /\ fired = [j \in Jobs |-> -1]
  /\ th = [t \in Threads |-> IdleThread]

ThreadStep(t) ==
  \/ \E j \in Jobs : CronFire(t, j) \/ CronMiss(t, j) \/ Poll(t, j)
  \/ LookBack(t) \/ SkipInProgress(t) \/ SkipAtLimit(t)
  \/ Admit(t) \/ Retry(t) \/ Release(t)
  \/ \E noGap \in BOOLEAN : Finish(t, "error", noGap)
  \/ Finish(t, "success", FALSE)
  \/ \E plan \in Plans : RunNow(t, plan)

Next ==
  \/ \E t \in Threads : ThreadStep(t)
  \/ BootDaemon
  \/ \E p \in Procs : Crash(p) \/ Exit(p)
  \/ Tick
  \/ Tear

Spec == Init /\ [][Next]_vars

(* The container restarts a daemon that died (restart: always), APScheduler *)
(* keeps firing the pollers, a thread that has begun a call carries it      *)
(* through, and a job's body ends.  Nothing makes the clock move, the body  *)
(* succeed or anyone run a job by hand.                                     *)
Fairness ==
  /\ WF_vars(BootDaemon)
  /\ \A t \in {u \in Threads : Kind[u] = "poller"}, j \in Jobs : WF_vars(Poll(t, j))
  /\ \A t \in {u \in Threads : Owner[u] = Daemon} :
       /\ WF_vars(\/ LookBack(t) \/ SkipInProgress(t) \/ SkipAtLimit(t) \/ Admit(t)
                  \/ \E s \in {"success", "error"} : Finish(t, s, FALSE)
                  \/ Release(t))

FairSpec == Spec /\ Fairness

-----------------------------------------------------------------------------
(* Properties                                                               *)

(* Every variable keeps its type, and the file never holds more records     *)
(* than _append_event_locked leaves in it.                                  *)
TypeOK ==
  /\ now \in Nat /\ boots \in Nat /\ runs \in Nat
  /\ disk \in Seq(Event) /\ Len(disk) <= MaxEvents
  /\ torn \in BOOLEAN
  /\ boot \in [Procs -> Nat]
  /\ bootedAt \in [Procs -> Nat]
  /\ mem \in [Procs -> Seq(Event)]
  /\ quarantined \in [Procs -> BOOLEAN]
  /\ inProgress \in [Procs -> SUBSET Jobs]
  /\ fired \in [Jobs -> Int]
  /\ th \in [Threads -> Thread]

(* A job never runs twice at once inside a process: the cron thread, a      *)
(* poller and a backfill that judged the job missed at the same moment      *)
(* exclude each other through _in_progress_jobs.                            *)
OneRunPerProcess ==
  \A t, u \in Threads :
    (t # u /\ Owner[t] = Owner[u] /\ InBody(t) /\ InBody(u))
      => Current(t).job # Current(u).job

Unforced(j, k) ==
  {x \in RecordsOf(disk, j, k) : x.status = "started" /\ x.reason # "manual"}

(* However often processes die, restart and lose the record of an end, a    *)
(* period is never attempted more than max_executions_per_period times on   *)
(* its own, plus the interruptions the job is allowed to be forgiven.       *)
CapHolds ==
  \A j \in Jobs : \A x \in ToSet(disk) : x.job = j =>
    Cardinality(Unforced(j, x.period))
      <= Config[j].max + (IF Config[j].rerun THEN Config[j].forgiven ELSE 0)

(* A body runs only while the file holds the record of its start, so a      *)
(* crash at any moment leaves a trace that is counted after the restart.    *)
RunningIsRecorded ==
  \A t \in Threads : InBody(t) =>
    \E x \in ToSet(disk) :
      /\ x.status = "started" /\ x.run = th[t].run
      /\ x.job = Current(t).job /\ x.period = Current(t).period

(* A section adds one record to the file as the processes before it left it:*)
(* it drops nothing another process wrote in between (scheduler_queue.py    *)
(* module docstring).                                                       *)
NoLostRecord ==
  [][disk' # disk =>
       disk' # <<>> /\ disk' = Trim(Append(disk, Last(disk')))]_disk

(* The runs a process takes for vanished are gone: none of them still runs. *)
InterruptedRunsAreDead ==
  \A p \in Procs, t \in Threads :
    (Up(p) /\ InBody(t)) =>
      \A j \in Jobs : \A x \in ToSet(disk) :
        x \in Interrupted(disk, j, x.period, boot[p], bootedAt[p])
          => x.run # th[t].run

(* The thread is making the calls of a recovery.                            *)
Recovering(t) == Kind[t] = "poller" /\ ~Idle(t) /\ th[t].pc # "looking"

(* Once a process has moved a torn file aside it recovers nothing until it  *)
(* is restarted, also after a scheduled run has written the file anew and   *)
(* every read succeeds again.                                               *)
RecoveryStaysOff ==
  [][\A t \in Threads :
       (quarantined[Owner[t]] /\ ~Recovering(t)) => ~Recovering(t)']_vars

(* A job that a fresh look at the file would recover does not stay so for   *)
(* ever: a poller runs it, however often the daemon dies on the way, or its *)
(* own limits take it out.  A daemon that moved a torn file aside has given *)
(* recovery up.                                                             *)
Owed(j) ==
  LET k == Period(j, now)
  IN  /\ DueForRecovery(j, now) /\ ~PastRecoveryUntil(j, now)
      /\ ~HasSuccess(disk, j, k)
      /\ CountFor(Daemon, disk, j, k) < Config[j].max
      /\ ~WithinRecoveryGap(disk, j, k, now)
      /\ ~quarantined[Daemon]

RecoveryHappens == \A j \in Jobs : []<>~Owed(j)

(* The file is a ledger of runs: seen through its starts and ends, whatever *)
(* the processes, their copies and their crashes do.                        *)
LedgerEntry(x) ==
  [job |-> x.job, period |-> x.period, run |-> x.run, forced |-> x.reason = "manual"]

LedgerClosed ==
  {LedgerEntry(x) : x \in {y \in ToSet(disk) : y.status \in {"success", "error"}}}

LedgerOpen ==
  {LedgerEntry(x) : x \in {y \in ToSet(disk) : y.status = "started"}} \ LedgerClosed

Ledger == INSTANCE RunLedger WITH
  open <- LedgerOpen, closed <- LedgerClosed,
  Limit <- [j \in Jobs |-> Config[j].max],
  Pardon <- [j \in Jobs |-> IF Config[j].rerun THEN Config[j].forgiven ELSE 0]

LedgerSpec == Ledger!Spec
=============================================================================
