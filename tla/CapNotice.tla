------------------------------ MODULE CapNotice ------------------------------
(***************************************************************************)
(* The notices about periods that went by without a success                *)
(* (src/orchestration/scheduler_cap_notice.py).                            *)
(*                                                                         *)
(* After each judgement that a job is not to be recovered, the poller of   *)
(* the daemon looks for periods of the job that nobody will make up for    *)
(* and tells of each once.  What was told is remembered in the process     *)
(* and, by a record, in the state file, which keeps its newest records     *)
(* only.  Sending, each record, and the job's own runs are steps of their  *)
(* own, and the process may die between any two.                           *)
(*                                                                         *)
(* The jobs share nothing but the room in the file, so a behaviour follows *)
(* one job, and the records of the others are there from the beginning.    *)
(***************************************************************************)
EXTENDS SchedulerEvents

CONSTANTS
  Weekly,    \* the jobs of _CAP_NOTICES
  MissedDay, \* the jobs of _MISSED_DAY_NOTICES
  PastDay,   \* the jobs of _PAST_DAY_NOTICES
  Day,       \* ticks of a day
  DayRange,     \* _PAST_DAY_RANGE
  Horizon,   \* bound: the clock stops here
  MaxBoots,  \* bound: boots of the daemon
  MaxRuns,   \* bound: runs of the job
  MaxOthers, \* bound: records of other processes
  Faults     \* whether reading, sending and recording may fail

ASSUME NoticeAssumption ==
  /\ Jobs = Weekly \cup MissedDay \cup PastDay
  /\ Weekly \cap (MissedDay \cup PastDay) = {} /\ "other" \notin Jobs
  /\ Day \in Nat \ {0} /\ DayRange \in Nat
  /\ \A j \in Jobs \ Weekly : Config[j].span = Day
  /\ \A j \in Weekly : Config[j].span % Day = 0
  /\ Horizon \in Nat /\ MaxBoots \in Nat \ {0} /\ MaxRuns \in Nat /\ MaxOthers \in Nat
  /\ Faults \in BOOLEAN

VARIABLES
  job,      \* the job that the behaviour follows
  now,      \* the clock
  disk,     \* the events of the state file
  up,       \* whether the daemon is up
  boots,    \* the number of its boots; the newest boot_id
  bootedAt, \* when it came up
  running,  \* the run of the job in this process (_in_progress_jobs): <<run, period>>
  runs,     \* the number of runs so far
  others,   \* the number of records of other processes so far
  sent,     \* _cap_notices_sent, the periods of the job
  scanned,  \* _past_days_scanned, the days
  poll,     \* where the poller is in notify_recovery_cap, and its local variables
  told,     \* history: <<period, boot>> of every notice that went out
  noted,    \* history: the periods whose notice was ever recorded
  done      \* history: the periods whose success was ever recorded

world == <<now, up, boots, bootedAt>>
work == <<running, runs, others>>
memory == <<sent, scanned>>
history == <<told, noted, done>>
vars == <<job, world, disk, work, memory, poll, history>>

NotRunning == << >>
Idle == [pc |-> "idle", find |-> "none", at |-> 0, periods |-> {}]

DayOf(t) == t \div Day

Rec(status, period, run) ==
  [job |-> job, period |-> period, status |-> status, run |-> run, boot |-> boots,
   at |-> now, noGap |-> FALSE]

OtherRecord(t) ==
  [job |-> "other", period |-> 0, status |-> "success", run |-> 0, boot |-> 0,
   at |-> t, noGap |-> FALSE]

\* The time that the judgement of the period goes by
Base == IF poll = Idle THEN now ELSE poll.at

\* The first tick of the days, or weeks, that a look at time t reaches
Reach(t) ==
  IF job \in Weekly THEN (Period(job, t) - 1) * Config[job].span ELSE (DayOf(t) - DayRange) * Day

\* What may leave the file.  It holds some 55 days of records, far more than a
\* look reaches.  Behaviours go further: a record of any earlier period may
\* leave, except before one that was stamped on an earlier day.
MayLeave(x) ==
  \/ x.at < Reach(Base)
  \/ /\ Period(job, x.at) < Period(job, Base)
     /\ \A y \in ToSet(disk) : DayOf(x.at) <= DayOf(y.at)

\* _append_event
Add(r) ==
  /\ Len(disk) = MaxEvents => MayLeave(Head(disk))
  /\ disk' = Trim(Append(disk, r))

-----------------------------------------------------------------------------
\* The scheduler has run before: other jobs have left records in the file
Init ==
  /\ job \in Jobs
  /\ now = 0
  /\ disk = <<OtherRecord(-1)>>
  /\ up = TRUE /\ boots = 1 /\ bootedAt = 0
  /\ running = NotRunning /\ runs = 0 /\ others = 0
  /\ sent = {} /\ scanned = {} /\ poll = Idle
  /\ told = {} /\ noted = {} /\ done = {}

-----------------------------------------------------------------------------
(* The runs of the job, which SchedulerQueue models in full *)

Count(p) == ExecutionCount(disk, job, p, boots, bootedAt)
ReachedCap(p) == Count(p) >= Config[job].max

Start ==
  /\ up /\ running = NotRunning /\ runs < MaxRuns
  /\ DueForRecovery(job, now) /\ ~PastRecoveryUntil(job, now)
  /\ LET p == Period(job, now) IN
       /\ ~HasSuccess(disk, job, p) /\ ~ReachedCap(p)
       /\ Add(Rec("started", p, runs + 1))
       /\ running' = <<runs + 1, p>>
  /\ runs' = runs + 1
  /\ UNCHANGED <<job, world, others, memory, poll, history>>

Finish ==
  /\ running # NotRunning
  /\ \/ Add(Rec("error", running[2], running[1])) /\ UNCHANGED done
     \/ Add(Rec("success", running[2], running[1])) /\ done' = done \cup {running[2]}
     \/ Faults /\ UNCHANGED <<disk, done>>
  /\ running' = NotRunning
  /\ UNCHANGED <<job, world, runs, others, memory, poll, told, noted>>

\* Another process leaves a record: of an immediate run of the job that ended
\* well, or of another job
Elsewhere ==
  /\ others < MaxOthers
  /\ \/ /\ Add([Rec("success", Period(job, now), MaxRuns + 1) EXCEPT !.boot = 0])
        /\ done' = done \cup {Period(job, now)}
     \/ Add(OtherRecord(now)) /\ UNCHANGED done
  /\ others' = others + 1
  /\ UNCHANGED <<job, world, running, runs, memory, poll, told, noted>>

Tick ==
  /\ now < Horizon
  /\ now' = now + 1
  /\ UNCHANGED <<job, up, boots, bootedAt, disk, work, memory, poll, history>>

Crash ==
  /\ up /\ boots < MaxBoots
  /\ up' = FALSE
  /\ running' = NotRunning /\ sent' = {} /\ scanned' = {} /\ poll' = Idle
  /\ UNCHANGED <<job, now, boots, bootedAt, disk, runs, others, history>>

Boot ==
  /\ ~up
  /\ up' = TRUE /\ boots' = boots + 1 /\ bootedAt' = now
  /\ UNCHANGED <<job, now, disk, work, memory, poll, history>>

-----------------------------------------------------------------------------
(* What the notices are about *)

\* Deviation: what an earlier boot told is forgotten
UnreportedHere(p) == p \notin sent /\ ~HasSuccess(disk, job, p)

\* _still_unreported
StillUnreported(p) ==
  /\ p \notin sent
  /\ ~HasSuccess(disk, job, p)
  /\ ~\E x \in RecordsOf(disk, job, p) : x.status = "notice"

\* _oldest_event_day: the day before which nothing is known any more
Kept(day) == disk # << >> /\ day > DayOf(Head(disk).at)

\* _capped_period: from the firing to the end of the week, at the cap
Capped(t) ==
  LET p == Period(job, t) IN
  {q \in {p} : /\ \A s \in Config[job].starts : s + Config[job].delay <= Offset(job, t)
               /\ StillUnreported(q) /\ ReachedCap(q)}

\* _week_recovery_ended: the last day of its recovery is over
RecoveryEnded(week, t) ==
  DayOf(t) * Day >= week * Config[job].span + Config[job].open

\* _ended_week: last week or this one
Ended(t) ==
  {w \in {Period(job, t) - 1, Period(job, t)} \cap Nat :
     Kept(DayOf(w * Config[job].span)) /\ RecoveryEnded(w, t) /\ StillUnreported(w)}

\* _missed_day: nothing is recovered today any more
Missed(t) ==
  {p \in {Period(job, t)} : /\ DueForRecovery(job, t)
                            /\ StillUnreported(p)
                            /\ ReachedCap(p) \/ PastRecoveryUntil(job, t)}

\* Deviation: days of which the file keeps no records are read as well
PastWithoutRecords(t) ==
  {d \in (DayOf(t) - DayRange) .. (DayOf(t) - 1) : d >= 0 /\ StillUnreported(d)}

\* _past_days_without_success
Past(t) ==
  {d \in (DayOf(t) - DayRange) .. (DayOf(t) - 1) : Kept(d) /\ StillUnreported(d)}

Found(find, t) ==
  CASE find = "capped" -> Capped(t)
    [] find = "ended"  -> {w \in Ended(t) : \A v \in Ended(t) : w <= v}
    [] find = "missed" -> Missed(t)
    [] find = "past"   -> Past(t)

-----------------------------------------------------------------------------
(* notify_recovery_cap *)

First == IF job \in Weekly THEN "capped" ELSE IF job \in MissedDay THEN "missed" ELSE "past"

\* The job is running in this process, or the day was scanned before.  This
\* look comes before the file is read.
NoLook(find, t) ==
  \/ running # NotRunning
  \/ find \in {"ended", "past"} /\ DayOf(t) \in scanned

Enter(find, t) ==
  IF NoLook(find, t) THEN Idle ELSE [Idle EXCEPT !.pc = "judge", !.find = find, !.at = t]

Poll ==
  /\ up /\ poll = Idle /\ ~NoLook(First, now)
  /\ poll' = Enter(First, now)
  /\ UNCHANGED <<job, world, disk, work, memory, history>>

\* The notice of the period is done with: the past days come next
NextNotice ==
  poll' = IF poll.find = "missed" /\ job \in PastDay THEN Enter("past", poll.at) ELSE Idle

\* There is no period of this kind: an ended week is looked for in its stead
FoundNone ==
  IF poll.find = "capped" THEN poll' = Enter("ended", poll.at) ELSE NextNotice

\* The file could not be read
JudgeFails ==
  /\ poll.pc = "judge" /\ Faults
  /\ FoundNone
  /\ UNCHANGED <<job, world, disk, work, memory, history>>

\* Deviation: the day is marked as scanned before anything is told
JudgeMarks ==
  /\ poll.pc = "judge"
  /\ poll' = [poll EXCEPT !.pc = "send",
                          !.periods = Found(poll.find, poll.at)]
  /\ scanned' = scanned \cup {DayOf(poll.at)}
  /\ UNCHANGED <<job, world, disk, work, sent, history>>

Judge ==
  LET found == Found(poll.find, poll.at) IN
  /\ poll.pc = "judge"
  /\ IF found = {}
       THEN /\ FoundNone
            /\ scanned' = IF poll.find \in {"ended", "past"} /\ disk # << >>
                          THEN scanned \cup {DayOf(poll.at)} ELSE scanned
       ELSE /\ poll' = [poll EXCEPT !.pc = "send", !.periods = found]
            /\ UNCHANGED scanned
  /\ UNCHANGED <<job, world, disk, work, sent, history>>

\* A period counts as told in this boot before the first record is written
Send ==
  /\ poll.pc = "send"
  /\ sent' = sent \cup poll.periods
  /\ told' = told \cup {<<p, boots>> : p \in poll.periods}
  /\ poll' = [poll EXCEPT !.pc = "record"]
  /\ UNCHANGED <<job, world, disk, work, scanned, noted, done>>

\* Deviation: the periods count as told although nothing went out
SendFailsMarked ==
  /\ poll.pc = "send" /\ Faults
  /\ sent' = sent \cup poll.periods
  /\ NextNotice
  /\ UNCHANGED <<job, world, disk, work, scanned, history>>

SendFails ==
  /\ poll.pc = "send" /\ Faults
  /\ NextNotice
  /\ UNCHANGED <<job, world, disk, work, memory, history>>

\* _record_sent, from the oldest period on; the record is stamped with the time
\* at which the poll began
RecordSent ==
  /\ poll.pc = "record"
  /\ \E p \in poll.periods :
       /\ \A q \in poll.periods : p <= q
       /\ Add([Rec("notice", p, 0) EXCEPT !.at = poll.at])
       /\ noted' = noted \cup {p}
       /\ poll' = [poll EXCEPT !.periods = @ \ {p}]
  /\ UNCHANGED <<job, world, work, memory, told, done>>

\* All is recorded, or a record could not be written and ends the loop
Recorded ==
  /\ poll.pc = "record" /\ (poll.periods = {} \/ Faults)
  /\ NextNotice
  /\ UNCHANGED <<job, world, disk, work, memory, history>>

Notice == JudgeFails \/ Judge \/ Send \/ SendFails \/ RecordSent \/ Recorded

Next ==
  \/ Start \/ Finish \/ Elsewhere \/ Tick \/ Crash \/ Boot
  \/ Poll \/ Notice

Spec == Init /\ [][Next]_vars

(***************************************************************************)
(* The daemon is started again, its runs end, the poller comes round every *)
(* few minutes, and what fails one time works some other time.             *)
(***************************************************************************)
Fairness ==
  /\ WF_vars(Boot) /\ WF_vars(Finish) /\ WF_vars(Poll) /\ WF_vars(Notice)
  /\ SF_vars(Judge /\ poll.find \in {"ended", "past"})
  /\ SF_vars(Send /\ poll.find \in {"ended", "past"})
  /\ SF_vars(Send /\ poll.find = "capped")

FairSpec == Spec /\ Fairness

-----------------------------------------------------------------------------
Periods == 0 .. Horizon

\* The state has the types of the code.
TypeOK ==
  /\ job \in Jobs /\ now \in 0 .. Horizon /\ Len(disk) <= MaxEvents
  /\ up \in BOOLEAN /\ boots \in 1 .. MaxBoots /\ bootedAt \in 0 .. now
  /\ sent \subseteq Periods /\ scanned \subseteq Periods
  /\ ~up => running = NotRunning /\ poll = Idle /\ sent = {} /\ scanned = {}
  /\ poll.pc \in {"idle", "judge", "send", "record"}
  /\ poll.periods \subseteq Periods

(***************************************************************************)
(* A notice is never sent again: not in the boot that sent it, whether or  *)
(* not it could be recorded, and not in a later one once it was recorded,  *)
(* even when the record has left the file since                            *)
(* (scheduler_cap_notice.py:9, 425, 468).                                  *)
(***************************************************************************)
ToldOnce ==
  poll.pc = "send" =>
    \A p \in poll.periods : <<p, boots>> \notin told /\ p \notin noted

(***************************************************************************)
(* No notice is prepared about a period whose success was recorded before  *)
(* it was judged, even when that record has left the file since            *)
(* (scheduler_cap_notice.py:218).                                          *)
(***************************************************************************)
NoFalseAlarm ==
  [][poll.pc = "judge" /\ poll'.pc = "send"
       => poll'.periods \cap done = {}]_vars

(***************************************************************************)
(* Nothing more is scanned on a day marked as scanned, so the mark must    *)
(* mean that no period before it is left to tell                           *)
(* (scheduler_cap_notice.py:123, 205).                                     *)
(***************************************************************************)
ScanIsFinal ==
  up /\ DayOf(now) \in scanned =>
    IF job \in Weekly THEN Ended(now) = {} ELSE Past(now) = {}

\* What a later poll of the period will still look at
InReach(p) ==
  IF job \in Weekly
  THEN /\ RecoveryEnded(p, now) /\ p >= Period(job, now) - 1
       /\ Kept(DayOf(p * Config[job].span))
  ELSE job \in PastDay /\ p < DayOf(now) /\ p >= DayOf(now) - DayRange /\ Kept(p)

\* The periods in reach that went by without a success and were never told of
Untold ==
  {p \in Periods : InReach(p) /\ p \notin done /\ \A b \in 1 .. boots : <<p, b>> \notin told}

(***************************************************************************)
(* A period that went by without a success is told of, unless it passes    *)
(* out of reach (the range, the records kept) before or a success comes    *)
(* late, whatever fails or dies on the way                                 *)
(* (scheduler_cap_notice.py:10, 12).                                       *)
(***************************************************************************)
EveryMissTold == []<>(Untold = {})
=============================================================================
