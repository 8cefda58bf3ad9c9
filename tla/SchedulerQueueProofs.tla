------------------------- MODULE SchedulerQueueProofs -------------------------
(***************************************************************************)
(* Theorems about SchedulerQueue, for every set of jobs, processes and     *)
(* threads, every configuration and every bound.                           *)
(***************************************************************************)
EXTENDS SchedulerQueue, SequenceTheorems, FunctionTheorems, FiniteSetTheorems,
        WellFoundedInduction, TLAPS

-----------------------------------------------------------------------------
(* Types                                                                    *)

(* What a thread's record must satisfy: exactly the idle threads have no    *)
(* call left, and a call that has been made has its period.                 *)
GoodThread ==
  {x \in Thread : /\ x.pc = "idle" <=> x.calls = <<>>
                  /\ x.pc \notin {"idle", "looking"} => Head(x.calls).period \in Nat}

(* The file's part of TypeOK, and what a section leaves of it.              *)
FileTypeOK ==
  /\ disk \in Seq(Event) /\ Len(disk) <= MaxEvents
  /\ torn \in BOOLEAN
  /\ mem \in [Procs -> Seq(Event)]
  /\ quarantined \in [Procs -> BOOLEAN]

(* The inductive form of TypeOK.                                            *)
TypeInv ==
  /\ now \in Nat /\ boots \in Nat /\ runs \in Nat
  /\ FileTypeOK
  /\ boot \in [Procs -> Nat] /\ bootedAt \in [Procs -> Nat]
  /\ inProgress \in [Procs -> SUBSET Jobs]
  /\ fired \in [Jobs -> Int]
  /\ th \in [Threads -> GoodThread]

LEMMA TrimType ==
  ASSUME NEW e \in Seq(Event)
  PROVE  Trim(e) \in Seq(Event) /\ Len(Trim(e)) <= MaxEvents
BY MaxEventsAssumption, SubSeqProperties DEF Trim

LEMMA PeriodType ==
  ASSUME NEW j \in Jobs, NEW n \in Nat
  PROVE  Period(j, n) \in Nat /\ Offset(j, n) \in Nat
BY ConfigAssumption DEF Period, Offset, JobConfig

LEMMA LoadedType ==
  ASSUME FileTypeOK, NEW p \in Procs, NEW o
  PROVE  Loaded(p, o) \in Seq(Event)
BY DEF FileTypeOK, Loaded

LEMMA RefreshType ==
  ASSUME FileTypeOK, NEW p \in Procs, NEW o, Refresh(p, o)
  PROVE  FileTypeOK'
BY LoadedType DEF FileTypeOK, Refresh, Reload

LEMMA RecordType ==
  ASSUME FileTypeOK, NEW p \in Procs, NEW o, NEW x \in Event,
         Record(p, o, x) \/ RecordLost(p, o, x)
  PROVE  FileTypeOK'
<1>1. Append(Loaded(p, o), x) \in Seq(Event)
  BY LoadedType, AppendProperties
<1>2. /\ Trim(Append(Loaded(p, o), x)) \in Seq(Event)
      /\ Len(Trim(Append(Loaded(p, o), x))) <= MaxEvents
  BY <1>1, TrimType
<1> QED  BY <1>2 DEF FileTypeOK, Record, RecordLost, Reload

LEMMA MakingType ==
  ASSUME NEW calls \in Seq(Call), now \in Nat
  PROVE  Making(calls) \in GoodThread
<1>1. CASE calls = <<>>
  BY <1>1 DEF Making, IdleThread, GoodThread, Thread
<1>2. CASE calls # <<>>
  <2>1. 1 \in 1 .. Len(calls) /\ calls[1] \in Call
    BY <1>2, EmptySeq, ElementOfSeq
  <2> DEFINE k == IF calls[1].period = NoPeriod THEN Period(calls[1].job, now)
                  ELSE calls[1].period
             c == [calls EXCEPT ![1].period = IF @ = NoPeriod THEN Period(calls[1].job, now) ELSE @]
  <2>2. k \in Nat
    BY <2>1, PeriodType DEF Call
  <2>3. [calls[1] EXCEPT !.period = k] \in Call
    BY <2>1, <2>2 DEF Call
  <2>4. c = [calls EXCEPT ![1] = [calls[1] EXCEPT !.period = k]]
    OBVIOUS
  <2>5. c \in Seq(Call) /\ Len(c) = Len(calls)
    BY <2>1, <2>3, <2>4, ExceptSeq
  <2>6. c # <<>> /\ Head(c).period \in Nat
    <3>1. c # <<>>
      BY <2>1, <2>5, EmptySeq
    <3>2. Head(c) = c[1]
      BY <2>5, <3>1, HeadTailProperties
    <3>3. c[1] = [calls[1] EXCEPT !.period = k]
      BY <2>1, <2>3, <2>4, ExceptSeq
    <3> QED  BY <2>1, <2>2, <3>1, <3>2, <3>3 DEF Call
  <2>7. Making(calls) = [pc |-> "called", calls |-> c, run |-> 0, attempt |-> 0]
    BY <1>2 DEF Making, IdleThread
  <2> HIDE DEF c, k
  <2> QED  BY <2>5, <2>6, <2>7 DEF GoodThread, Thread
<1> QED  BY <1>1, <1>2

LEMMA MaxExists ==
  ASSUME NEW n \in Nat, NEW S \in SUBSET (0 .. n), S # {}
  PROVE  \E d \in S : \A e \in S : e <= d
<1> DEFINE T == {m \in Nat : n - m \in S}
<1>1. T \subseteq Nat /\ T # {}
  <2>1. PICK d \in S : TRUE
    OBVIOUS
  <2>2. n - d \in Nat /\ n - (n - d) = d
    OBVIOUS
  <2>3. n - d \in T
    BY <2>2
  <2> QED  BY <2>3
<1>2. PICK x \in T : \A y \in T : ~ (<<y, x>> \in OpToRel(<, Nat))
  <2> HIDE DEF T
  <2> QED BY <1>1, WFMin, NatLessThanWellFounded
<1>3. ASSUME NEW e \in S
      PROVE  e <= n - x
  <2>1. e \in 0 .. n /\ x \in Nat
    OBVIOUS
  <2>2. n - e \in T
    <3>1. n - e \in Nat /\ n - (n - e) = e
      BY <2>1
    <3> QED BY <3>1
  <2>3. ~ (n - e < x)
    BY <1>2, <2>1, <2>2 DEF OpToRel
  <2> QED BY <2>1, <2>3
<1> QED BY <1>3

LEMMA LastFiringType ==
  ASSUME NEW j \in Jobs, now \in Nat
  PROVE  LastFiring(j) \in Int
<1> DEFINE passed == {Period(j, now) * Config[j].span + s : s \in Config[j].starts}
                       \intersect 0 .. now
<1>1. passed \in SUBSET (0 .. now)
  OBVIOUS
<1>2. CASE passed = {}
  BY <1>2 DEF LastFiring
<1>3. CASE passed # {}
  <2>1. \E d \in passed : \A e \in passed : e <= d
    BY <1>1, <1>3, MaxExists
  <2>2. LastFiring(j) = CHOOSE d \in passed : \A e \in passed : e <= d
    BY <1>3 DEF LastFiring
  <2> HIDE DEF passed
  <2>3. LastFiring(j) \in passed
    BY <2>1, <2>2
  <2>4. LastFiring(j) \in 0 .. now
    BY <1>1, <2>3
  <2> QED  BY <2>4
<1> QED  BY <1>2, <1>3

LEMMA OneCallType ==
  ASSUME now \in Nat, NEW j \in Jobs, NEW r \in Reason,
         NEW k \in Nat \union {NoPeriod}
  PROVE  /\ <<CallOf(j, k, r)>> \in Seq(Call)
         /\ Making(<<CallOf(j, k, r)>>) \in GoodThread
<1>1. <<CallOf(j, k, r)>> \in Seq(Call)
  BY DEF CallOf, Call
<1> QED  BY <1>1, MakingType

LEMMA NoCallType ==
  ASSUME now \in Nat
  PROVE  IdleThread \in GoodThread /\ Making(<<>>) \in GoodThread
BY MakingType, EmptySeq DEF IdleThread, GoodThread, Thread

LEMMA MissedPeriodsType ==
  ASSUME now \in Nat, NEW p, NEW e, NEW j \in Jobs
  PROVE  MissedPeriods(p, e, j) \in Seq(Call)
<1>1. ASSUME NEW k \in Int
      PROVE  Backfill(p, e, j, k) \in Seq(Call)
  <2>1. CASE k >= 0
    <3>1. k \in Nat /\ "recovery_backfill" \in Reason
      BY <2>1 DEF Reason
    <3> QED  BY <3>1, OneCallType, EmptySeq DEF Backfill
  <2>2. CASE ~(k >= 0)
    BY <2>2, EmptySeq DEF Backfill
  <2> QED  BY <2>1, <2>2
<1>2. Period(j, now) - 1 \in Int /\ Period(j, now) - 2 \in Int
  BY PeriodType
<1> QED  BY <1>1, <1>2, ConcatProperties DEF MissedPeriods

(* A thread that is not idle has a current call.                            *)
LEMMA CurrentType ==
  ASSUME TypeInv, NEW t \in Threads, th[t].pc # "idle"
  PROVE  /\ Current(t) \in Call /\ Current(t).job \in Jobs
         /\ Tail(th[t].calls) \in Seq(Call)
<1>1. th[t].calls \in Seq(Call) /\ th[t].calls # <<>>
  BY DEF TypeInv, GoodThread, Thread
<1>2. Head(th[t].calls) \in Call /\ Tail(th[t].calls) \in Seq(Call)
  BY <1>1, HeadTailProperties
<1> QED  BY <1>2 DEF Current, Call

LEMMA TypeInvImpliesTypeOK == TypeInv => TypeOK
<1>1. GoodThread \subseteq Thread
  BY DEF GoodThread
<1> QED  BY <1>1 DEF TypeInv, TypeOK, FileTypeOK

LEMMA OwnerType ==
  ASSUME NEW t \in Threads
  PROVE  Owner[t] \in Procs
BY ThreadAssumption

LEMMA InitType == Init => TypeInv
<1> SUFFICES ASSUME Init PROVE TypeInv
  OBVIOUS
<1>1. IdleThread \in GoodThread
  BY NoCallType DEF Init
<1>2. <<>> \in Seq(Event) /\ Len(<<>>) <= MaxEvents
  BY EmptySeq, MaxEventsAssumption
<1>3. FileTypeOK
  BY <1>2 DEF Init, FileTypeOK
<1>4. th \in [Threads -> GoodThread]
  BY <1>1 DEF Init
<1> QED  BY <1>3, <1>4 DEF TypeInv, Init

LEMMA CronType ==
  ASSUME TypeInv, NEW t \in Threads, NEW j \in Jobs,
         CronFire(t, j) \/ CronMiss(t, j)
  PROVE  TypeInv'
<1>1. LastFiring(j) \in Int
  BY LastFiringType DEF TypeInv
<1>2. IdleThread \in GoodThread
      /\ Making(<<CallOf(j, NoPeriod, "scheduled")>>) \in GoodThread
  BY NoCallType, OneCallType DEF TypeInv, Reason
<1>3. CASE CronFire(t, j)
  BY <1>1, <1>2, <1>3
  DEF TypeInv, CronFire, file, counters, procs, FileTypeOK
<1>4. CASE CronMiss(t, j)
  BY <1>1, <1>4 DEF TypeInv, CronMiss, file, counters, procs, FileTypeOK
<1> QED  BY <1>3, <1>4

LEMMA LookingType ==
  ASSUME NEW j \in Jobs, now \in Nat
  PROVE  Looking(j) \in GoodThread
<1>1. IdleThread \in GoodThread
      /\ <<CallOf(j, NoPeriod, "recovery_backfill")>> \in Seq(Call)
  BY NoCallType, OneCallType DEF Reason
<1>2. <<CallOf(j, NoPeriod, "recovery_backfill")>> # <<>>
  OBVIOUS
<1> QED  BY <1>1, <1>2 DEF Looking, IdleThread, GoodThread, Thread

LEMMA PollType ==
  ASSUME TypeInv, NEW t \in Threads, NEW j \in Jobs, Poll(t, j)
  PROVE  TypeInv'
<1>1. Looking(j) \in GoodThread
      /\ Making(<<CallOf(j, NoPeriod, "recovery")>>) \in GoodThread
  BY LookingType, OneCallType DEF TypeInv, Reason
<1>2. th' \in [Threads -> GoodThread]
  BY <1>1 DEF TypeInv, Poll
<1>3. FileTypeOK'
  <2>1. CASE UNCHANGED <<file, mem, quarantined>>
    BY <2>1 DEF TypeInv, FileTypeOK, file
  <2>2. CASE \E o \in ReadOutcome : Refresh(Owner[t], o)
    BY <2>2, RefreshType, OwnerType DEF TypeInv
  <2> QED  BY <2>1, <2>2 DEF Poll
<1> QED  BY <1>2, <1>3 DEF TypeInv, Poll, counters, procs

LEMMA LookBackType ==
  ASSUME TypeInv, NEW t \in Threads, LookBack(t)
  PROVE  TypeInv'
<1>1. PICK o \in ReadOutcome :
        /\ Refresh(Owner[t], o)
        /\ th' = [th EXCEPT ![t] =
             Making(IF MayRecover(Owner[t], o)
                    THEN MissedPeriods(Owner[t], disk, Current(t).job) ELSE <<>>)]
  BY DEF LookBack
<1>2. Current(t).job \in Jobs
  BY CurrentType DEF LookBack
<1>3. MissedPeriods(Owner[t], disk, Current(t).job) \in Seq(Call)
  BY <1>2, MissedPeriodsType DEF TypeInv
<1>4. (IF MayRecover(Owner[t], o)
       THEN MissedPeriods(Owner[t], disk, Current(t).job) ELSE <<>>) \in Seq(Call)
  BY <1>3, EmptySeq
<1>5. th' \in [Threads -> GoodThread]
  BY <1>1, <1>4, MakingType DEF TypeInv
<1>6. FileTypeOK'
  BY <1>1, RefreshType, OwnerType DEF TypeInv
<1> QED  BY <1>5, <1>6 DEF TypeInv, LookBack, counters, procs

(* The thread goes on to its next call.                                     *)
LEMMA NextCallType ==
  ASSUME TypeInv, NEW t \in Threads, th[t].pc # "idle"
  PROVE  Making(Tail(th[t].calls)) \in GoodThread /\ Making(<<>>) \in GoodThread
BY CurrentType, MakingType, NoCallType DEF TypeInv

LEMMA SkipInProgressType ==
  ASSUME TypeInv, NEW t \in Threads, SkipInProgress(t)
  PROVE  TypeInv'
<1>1. Making(Tail(th[t].calls)) \in GoodThread
  BY NextCallType DEF SkipInProgress
<1> QED  BY <1>1 DEF TypeInv, FileTypeOK, SkipInProgress, file, counters, procs

(* The records a thread leaves.                                             *)
LEMMA NoteType ==
  ASSUME TypeInv, NEW t \in Threads, th[t].pc \notin {"idle", "looking"}
  PROVE  /\ \A status \in Status : Note(t, status) \in Event
         /\ \A run \in Nat : StartRecord(t, run) \in Event
         /\ \A status \in Status, noGap \in BOOLEAN : EndRecord(t, status, noGap) \in Event
<1>1. Current(t) \in Call /\ Current(t).job \in Jobs /\ Current(t).period \in Nat
  BY CurrentType DEF TypeInv, GoodThread, Current
<1>2. \A status \in Status : Note(t, status) \in Event
  BY <1>1 DEF Note, Event, Call
<1>3. ASSUME NEW run \in Nat
      PROVE  StartRecord(t, run) \in Event
  <2>1. boot[Owner[t]] \in Nat /\ now \in Nat
    BY OwnerType DEF TypeInv
  <2>2. Note(t, "started") \in Event
    BY <1>2 DEF Status
  <2> QED  BY <2>1, <2>2 DEF StartRecord, Event
<1>4. ASSUME NEW status \in Status, NEW noGap \in BOOLEAN
      PROVE  EndRecord(t, status, noGap) \in Event
  <2>1. th[t].run \in Nat /\ now \in Nat
    BY DEF TypeInv, GoodThread, Thread
  <2>2. Note(t, status) \in Event
    BY <1>2
  <2> QED  BY <2>1, <2>2 DEF EndRecord, Event
<1> QED  BY <1>2, <1>3, <1>4

LEMMA SkipAtLimitType ==
  ASSUME TypeInv, NEW t \in Threads, SkipAtLimit(t)
  PROVE  TypeInv'
<1> DEFINE x == Note(t, "skipped_limit")
<1>1. x \in Event
  BY NoteType DEF SkipAtLimit, Status
<1>2. PICK o \in ReadOutcome :
        \/ /\ Record(Owner[t], o, x)
           /\ th' = [th EXCEPT ![t] = Making(Tail(th[t].calls))]
        \/ /\ RecordLost(Owner[t], o, x)
           /\ th' = [th EXCEPT ![t] = IdleThread]
  BY DEF SkipAtLimit
<1> HIDE DEF x
<1>3. FileTypeOK'
  BY <1>1, <1>2, RecordType, OwnerType DEF TypeInv
<1>4. Making(Tail(th[t].calls)) \in GoodThread /\ IdleThread \in GoodThread
  BY NextCallType, NoCallType DEF SkipAtLimit, TypeInv
<1>5. th' \in [Threads -> GoodThread]
  BY <1>2, <1>4 DEF TypeInv
<1> QED  BY <1>3, <1>5 DEF TypeInv, SkipAtLimit, counters, procs

LEMMA AdmitType ==
  ASSUME TypeInv, NEW t \in Threads, Admit(t)
  PROVE  TypeInv'
<1> DEFINE x == StartRecord(t, runs + 1)
           running == [th EXCEPT ![t] = [@ EXCEPT !.pc = "running", !.run = runs + 1]]
           marked == [inProgress EXCEPT ![Owner[t]] = @ \union {Current(t).job}]
<1>1. x \in Event /\ runs + 1 \in Nat
  BY NoteType DEF Admit, TypeInv
<1>2. PICK o \in ReadOutcome :
        \/ Record(Owner[t], o, x) /\ inProgress' = marked /\ th' = running
        \/ /\ RecordLost(Owner[t], o, x)
           /\ th' = [th EXCEPT ![t] = IdleThread]
           /\ UNCHANGED inProgress
  BY DEF Admit
<1>3. FileTypeOK'
  <2> HIDE DEF x
  <2> QED  BY <1>1, <1>2, RecordType, OwnerType DEF TypeInv
<1>4. running \in [Threads -> GoodThread]
  <2> DEFINE y == [th[t] EXCEPT !.pc = "running", !.run = runs + 1]
  <2>1. y.pc = "running" /\ y.run = runs + 1
        /\ y.calls = th[t].calls /\ y.attempt = th[t].attempt /\ y \in Thread
    BY <1>1 DEF TypeInv, GoodThread, Thread
  <2>2. y \in GoodThread
    BY <2>1 DEF TypeInv, GoodThread, Admit
  <2> HIDE DEF y
  <2>3. running = [th EXCEPT ![t] = y]
    BY DEF y
  <2> QED  BY <2>2, <2>3 DEF TypeInv
<1>5. marked \in [Procs -> SUBSET Jobs]
  BY CurrentType, OwnerType DEF TypeInv, Admit
<1>6. IdleThread \in GoodThread
  BY NoCallType DEF TypeInv
<1> HIDE DEF x, running, marked
<1>7. th' \in [Threads -> GoodThread] /\ inProgress' \in [Procs -> SUBSET Jobs]
  BY <1>2, <1>4, <1>5, <1>6 DEF TypeInv
<1> QED  BY <1>1, <1>3, <1>7 DEF TypeInv, Admit, procs

LEMMA RetryType ==
  ASSUME TypeInv, NEW t \in Threads, Retry(t)
  PROVE  TypeInv'
<1> DEFINE x == Note(t, "retry")
<1>1. x \in Event
  BY NoteType DEF Retry, Status
<1>2. PICK o \in ReadOutcome :
        \/ Record(Owner[t], o, x) /\ th' = [th EXCEPT ![t].attempt = @ + 1]
        \/ RecordLost(Owner[t], o, x) /\ th' = [th EXCEPT ![t].pc = "failed"]
  BY DEF Retry
<1>3. FileTypeOK'
  <2> HIDE DEF x
  <2> QED  BY <1>1, <1>2, RecordType, OwnerType DEF TypeInv
<1>4. th' \in [Threads -> GoodThread]
  <2>1. [th[t] EXCEPT !.attempt = @ + 1] \in GoodThread
    BY DEF TypeInv, GoodThread, Thread, Retry
  <2>2. [th[t] EXCEPT !.pc = "failed"] \in GoodThread
    BY DEF TypeInv, GoodThread, Thread, Retry
  <2> QED  BY <1>2, <2>1, <2>2 DEF TypeInv
<1> QED  BY <1>3, <1>4 DEF TypeInv, Retry, counters, procs

LEMMA FinishType ==
  ASSUME TypeInv, NEW t \in Threads, NEW status \in {"success", "error"},
         NEW noGap \in BOOLEAN, Finish(t, status, noGap)
  PROVE  TypeInv'
<1> DEFINE x == EndRecord(t, status, noGap)
<1>1. x \in Event
  BY NoteType DEF Finish, Status
<1>2. PICK o \in ReadOutcome : Record(Owner[t], o, x) \/ RecordLost(Owner[t], o, x)
  BY DEF Finish
<1>3. FileTypeOK'
  <2> HIDE DEF x
  <2> QED  BY <1>1, <1>2, RecordType, OwnerType DEF TypeInv
<1>4. th' \in [Threads -> GoodThread]
  BY DEF TypeInv, GoodThread, Thread, Finish
<1> QED  BY <1>3, <1>4 DEF TypeInv, Finish, counters, procs

LEMMA ReleaseType ==
  ASSUME TypeInv, NEW t \in Threads, Release(t)
  PROVE  TypeInv'
<1>1. Making(Tail(th[t].calls)) \in GoodThread /\ Making(<<>>) \in GoodThread
  BY NextCallType DEF Release
<1>2. th' \in [Threads -> GoodThread]
  BY <1>1 DEF TypeInv, Release
<1>3. inProgress' \in [Procs -> SUBSET Jobs]
  BY OwnerType DEF TypeInv, Release
<1> QED  BY <1>2, <1>3 DEF TypeInv, FileTypeOK, Release, file, counters, procs

LEMMA StartType ==
  ASSUME TypeInv, NEW p \in Procs, Start(p)
  PROVE  /\ FileTypeOK' /\ boots' \in Nat
         /\ boot' \in [Procs -> Nat] /\ bootedAt' \in [Procs -> Nat]
<1>1. FileTypeOK'
  BY RefreshType DEF TypeInv, Start
<1> QED  BY <1>1 DEF TypeInv, Start

LEMMA RunNowType ==
  ASSUME TypeInv, NEW t \in Threads, NEW plan \in Plans, RunNow(t, plan)
  PROVE  TypeInv'
<1> DEFINE calls == [i \in DOMAIN plan |-> CallOf(plan[i], NoPeriod, "manual")]
<1>1. plan \in Seq(Jobs)
  BY ThreadAssumption
<1>2. \A i \in 1 .. Len(plan) : CallOf(plan[i], NoPeriod, "manual") \in Call
  BY <1>1, ElementOfSeq DEF CallOf, Call, Reason
<1>3. calls \in [1 .. Len(plan) -> Call] /\ Len(plan) \in Nat
  BY <1>1, <1>2, LenProperties
<1>4. calls \in Seq(Call)
  <2> HIDE DEF calls
  <2> QED  BY <1>3
<1>5. Making(calls) \in GoodThread
  <2> HIDE DEF calls
  <2> QED  BY <1>4, MakingType DEF TypeInv
<1>6. th' \in [Threads -> GoodThread]
  BY <1>5 DEF TypeInv, RunNow
<1>7. Start(Owner[t]) /\ Owner[t] \in Procs
  BY OwnerType DEF RunNow
<1> QED  BY <1>6, <1>7, StartType DEF TypeInv, RunNow

LEMMA GoneType ==
  ASSUME TypeInv, NEW p \in Procs, Gone(p)
  PROVE  TypeInv'
<1>1. IdleThread \in GoodThread /\ <<>> \in Seq(Event)
  BY NoCallType, EmptySeq DEF TypeInv
<1>2. th' \in [Threads -> GoodThread]
  BY <1>1 DEF TypeInv, Gone
<1>3. FileTypeOK'
  BY <1>1 DEF TypeInv, FileTypeOK, Gone, file
<1> QED  BY <1>2, <1>3 DEF TypeInv, Gone, counters

LEMMA StepType == TypeInv /\ [Next]_vars => TypeInv'
<1> SUFFICES ASSUME TypeInv, [Next]_vars PROVE TypeInv'
  OBVIOUS
<1>1. ASSUME NEW t \in Threads, ThreadStep(t)
      PROVE  TypeInv'
  <2>1. CASE \E j \in Jobs : CronFire(t, j) \/ CronMiss(t, j)
    BY <2>1, CronType
  <2>2. CASE \E j \in Jobs : Poll(t, j)
    BY <2>2, PollType
  <2>3. CASE LookBack(t)
    BY <2>3, LookBackType
  <2>4. CASE SkipInProgress(t)
    BY <2>4, SkipInProgressType
  <2>5. CASE SkipAtLimit(t)
    BY <2>5, SkipAtLimitType
  <2>6. CASE Admit(t)
    BY <2>6, AdmitType
  <2>7. CASE Retry(t)
    BY <2>7, RetryType
  <2>8. CASE Release(t)
    BY <2>8, ReleaseType
  <2>9. CASE \E noGap \in BOOLEAN : Finish(t, "error", noGap)
    BY <2>9, FinishType
  <2>10. CASE Finish(t, "success", FALSE)
    BY <2>10, FinishType
  <2>11. CASE \E plan \in Plans : RunNow(t, plan)
    BY <2>11, RunNowType
  <2> QED
    BY <1>1, <2>1, <2>2, <2>3, <2>4, <2>5, <2>6, <2>7, <2>8, <2>9, <2>10, <2>11
    DEF ThreadStep
<1>2. CASE BootDaemon
  <2>1. FileTypeOK' /\ boots' \in Nat /\ boot' \in [Procs -> Nat] /\ bootedAt' \in [Procs -> Nat]
    BY <1>2, StartType DEF BootDaemon, Procs
  <2> QED  BY <1>2, <2>1 DEF BootDaemon, TypeInv
<1>3. ASSUME NEW p \in Procs, Crash(p) \/ Exit(p)
      PROVE  TypeInv'
  BY <1>3, GoneType DEF Crash, Exit
<1>4. CASE Tick
  BY <1>4 DEF Tick, TypeInv, FileTypeOK, file, counters, procs
<1>5. CASE Tear
  <2>1. <<>> \in Seq(Event) /\ Len(<<>>) <= MaxEvents
    BY EmptySeq, MaxEventsAssumption
  <2> QED  BY <1>5, <2>1 DEF Tear, TypeInv, FileTypeOK, counters, procs
<1>6. CASE UNCHANGED vars
  BY <1>6 DEF vars, TypeInv, FileTypeOK, file, counters, procs
<1> QED  BY <1>1, <1>2, <1>3, <1>4, <1>5, <1>6 DEF Next

(* The variables of the scheduler keep their types and the state file never *)
(* holds more records than _append_event_locked leaves in it, for every     *)
(* configuration of the jobs, with every fault of the file.                 *)
THEOREM TypeCorrect == Spec => []TypeOK
<1>1. Spec => []TypeInv
  BY InitType, StepType, PTL DEF Spec
<1> QED  BY <1>1, TypeInvImpliesTypeOK, PTL

-----------------------------------------------------------------------------
(* One run of a job per process                                             *)

(* _in_progress_jobs covers the runs of its process: this is what Busy      *)
(* relies on, and what OneRunPerProcess alone does not say.                 *)
RunningIsMarked ==
  \A t \in Threads : InBody(t) => Current(t).job \in inProgress[Owner[t]]

ExclusionInv == TypeInv /\ RunningIsMarked /\ OneRunPerProcess

(* Every thread in its body was there before the step, on the same call.    *)
NoneEnters ==
  \A u \in Threads : InBody(u)' => (InBody(u) /\ Current(u)' = Current(u))

LEMMA MakingOutside ==
  ASSUME NEW calls
  PROVE  Making(calls).pc \in {"idle", "called"} /\ IdleThread.pc = "idle"
BY DEF Making, IdleThread

(* A step that lets nobody in and takes no mark off keeps the exclusion.    *)
LEMMA QuietStep ==
  ASSUME ExclusionInv, TypeInv', NoneEnters, UNCHANGED inProgress
  PROVE  ExclusionInv'
BY DEF ExclusionInv, RunningIsMarked, OneRunPerProcess, NoneEnters

(* So does a step that only moves thread t to a place outside a body.       *)
Leaves(t, x) ==
  x.pc \in {"idle", "looking", "called"} /\ th' = [th EXCEPT ![t] = x]

LEMMA LeavingStep ==
  ASSUME ExclusionInv, NEW t \in Threads, \E x : Leaves(t, x)
  PROVE  NoneEnters
<1>1. PICK x : Leaves(t, x)
  OBVIOUS
<1>2. th'[t] = x /\ \A u \in Threads \ {t} : th'[u] = th[u]
  BY <1>1 DEF Leaves, ExclusionInv, TypeInv
<1> QED  BY <1>1, <1>2 DEF Leaves, NoneEnters, InBody, Current

LEMMA AdmitExclusion ==
  ASSUME ExclusionInv, TypeInv', NEW t \in Threads, Admit(t)
  PROVE  ExclusionInv'
<1>1. CASE th' = [th EXCEPT ![t] = IdleThread] /\ UNCHANGED inProgress
  <2>1. Leaves(t, IdleThread)
    BY <1>1, MakingOutside DEF Leaves
  <2>2. NoneEnters
    BY <2>1, LeavingStep
  <2> QED  BY <1>1, <2>2, QuietStep
<1>2. CASE /\ th' = [th EXCEPT ![t] = [@ EXCEPT !.pc = "running", !.run = runs + 1]]
           /\ inProgress' = [inProgress EXCEPT ![Owner[t]] = @ \union {Current(t).job}]
  <2>1. /\ th'[t].calls = th[t].calls
        /\ \A u \in Threads \ {t} : th'[u] = th[u]
    BY <1>2 DEF ExclusionInv, TypeInv, GoodThread, Thread
  <2>2. /\ \A u \in Threads : Current(u)' = Current(u)
        /\ \A u \in Threads \ {t} : InBody(u)' => InBody(u)
    BY <2>1 DEF Current, InBody
  <2>3. /\ Current(t).job \in inProgress'[Owner[t]]
        /\ \A u \in Threads : inProgress[Owner[u]] \subseteq inProgress'[Owner[u]]
    BY <1>2, OwnerType DEF ExclusionInv, TypeInv
  <2>4. RunningIsMarked'
    BY <2>2, <2>3 DEF ExclusionInv, RunningIsMarked
  <2>5. Current(t).job \notin inProgress[Owner[t]]
    BY DEF Admit, Busy
  <2>6. OneRunPerProcess'
    BY <2>2, <2>5 DEF ExclusionInv, RunningIsMarked, OneRunPerProcess
  <2> QED  BY <2>4, <2>6 DEF ExclusionInv
<1> QED  BY <1>1, <1>2 DEF Admit

LEMMA ReleaseExclusion ==
  ASSUME ExclusionInv, TypeInv', NEW t \in Threads, Release(t)
  PROVE  ExclusionInv'
<1> DEFINE x == Making(IF th[t].pc = "returned" THEN Tail(th[t].calls) ELSE <<>>)
<1>1. x.pc \in {"idle", "called"} /\ th' = [th EXCEPT ![t] = x]
  BY MakingOutside DEF Release
<1>2. th'[t] = x /\ \A u \in Threads \ {t} : th'[u] = th[u]
  BY <1>1 DEF ExclusionInv, TypeInv
<1> HIDE DEF x
<1>3. /\ ~InBody(t)' /\ InBody(t)
      /\ \A u \in Threads \ {t} : InBody(u)' = InBody(u) /\ Current(u)' = Current(u)
  BY <1>1, <1>2 DEF InBody, Current, Release
<1>4. \A u \in Threads : inProgress'[Owner[u]] =
        IF Owner[u] = Owner[t] THEN inProgress[Owner[u]] \ {Current(t).job}
        ELSE inProgress[Owner[u]]
  BY OwnerType DEF Release, ExclusionInv, TypeInv
<1>5. \A u \in Threads \ {t} :
        (InBody(u) /\ Owner[u] = Owner[t]) => Current(u).job # Current(t).job
  BY <1>3 DEF ExclusionInv, OneRunPerProcess
<1>6. ASSUME NEW u \in Threads, InBody(u)'
      PROVE  Current(u)'.job \in inProgress'[Owner[u]]
  <2>1. u # t /\ InBody(u) /\ Current(u)' = Current(u)
    BY <1>3, <1>6
  <2>2. Current(u).job \in inProgress[Owner[u]]
    BY <2>1 DEF ExclusionInv, RunningIsMarked
  <2> QED  BY <1>4, <1>5, <2>1, <2>2
<1>7. OneRunPerProcess'
  BY <1>3 DEF ExclusionInv, OneRunPerProcess
<1> QED  BY <1>6, <1>7 DEF ExclusionInv, RunningIsMarked

LEMMA GoneExclusion ==
  ASSUME ExclusionInv, TypeInv', NEW p \in Procs, Gone(p)
  PROVE  ExclusionInv'
<1>1. \A u \in Threads :
        IF Owner[u] = p THEN ~InBody(u)'
        ELSE /\ InBody(u)' = InBody(u) /\ Current(u)' = Current(u)
             /\ inProgress'[Owner[u]] = inProgress[Owner[u]]
  BY OwnerType, MakingOutside DEF Gone, InBody, Current, ExclusionInv, TypeInv
<1> QED  BY <1>1 DEF ExclusionInv, RunningIsMarked, OneRunPerProcess

LEMMA StayingStep ==
  ASSUME ExclusionInv, TypeInv', UNCHANGED <<th, inProgress>>
  PROVE  ExclusionInv'
BY QuietStep DEF NoneEnters, InBody, Current

LEMMA ThreadExclusion ==
  ASSUME ExclusionInv, TypeInv', NEW t \in Threads, ThreadStep(t)
  PROVE  ExclusionInv'
<1>1. ASSUME NEW j \in Jobs, CronFire(t, j)
      PROVE  ExclusionInv'
  <2>1. UNCHANGED inProgress
        /\ \/ Leaves(t, IdleThread)
           \/ Leaves(t, Making(<<CallOf(j, NoPeriod, "scheduled")>>))
    BY <1>1, MakingOutside DEF CronFire, Leaves
  <2> QED  BY <2>1, LeavingStep, QuietStep
<1>2. ASSUME NEW j \in Jobs, CronMiss(t, j)
      PROVE  ExclusionInv'
  BY <1>2, StayingStep DEF CronMiss
<1>3. ASSUME NEW j \in Jobs, Poll(t, j)
      PROVE  ExclusionInv'
  <2>1. Looking(j).pc \in {"idle", "looking"}
    BY DEF Looking, IdleThread
  <2>2. UNCHANGED inProgress
        /\ \/ Leaves(t, Looking(j))
           \/ Leaves(t, Making(<<CallOf(j, NoPeriod, "recovery")>>))
    BY <1>3, <2>1, MakingOutside DEF Poll, Leaves
  <2> QED  BY <2>2, LeavingStep, QuietStep
<1>4. CASE LookBack(t)
  <2>1. PICK o \in ReadOutcome : th' = [th EXCEPT ![t] =
          Making(IF MayRecover(Owner[t], o)
                 THEN MissedPeriods(Owner[t], disk, Current(t).job) ELSE <<>>)]
    BY <1>4 DEF LookBack
  <2>2. Leaves(t, Making(IF MayRecover(Owner[t], o)
                         THEN MissedPeriods(Owner[t], disk, Current(t).job) ELSE <<>>))
    BY <2>1, MakingOutside DEF Leaves
  <2>3. UNCHANGED inProgress
    BY <1>4 DEF LookBack
  <2> QED  BY <2>2, <2>3, LeavingStep, QuietStep
<1>5. CASE SkipInProgress(t)
  <2>1. UNCHANGED inProgress /\ Leaves(t, Making(Tail(th[t].calls)))
    BY <1>5, MakingOutside DEF SkipInProgress, Leaves
  <2> QED  BY <2>1, LeavingStep, QuietStep
<1>6. CASE SkipAtLimit(t)
  <2>1. UNCHANGED inProgress
        /\ (Leaves(t, Making(Tail(th[t].calls))) \/ Leaves(t, IdleThread))
    BY <1>6, MakingOutside DEF SkipAtLimit, Leaves
  <2> QED  BY <2>1, LeavingStep, QuietStep
<1>7. CASE Admit(t)
  BY <1>7, AdmitExclusion
<1>8. CASE Retry(t)
  <2>1. UNCHANGED inProgress /\ th[t].pc = "running"
    BY <1>8 DEF Retry
  <2>2. \/ th' = [th EXCEPT ![t].attempt = @ + 1]
        \/ th' = [th EXCEPT ![t].pc = "failed"]
    BY <1>8 DEF Retry
  <2>3. \A u \in Threads : /\ th'[u].calls = th[u].calls
                           /\ u # t => th'[u] = th[u]
    BY <2>2 DEF ExclusionInv, TypeInv, GoodThread, Thread
  <2>4. NoneEnters
    BY <2>1, <2>3 DEF NoneEnters, InBody, Current
  <2> QED  BY <2>1, <2>4, QuietStep
<1>9. ASSUME NEW status \in {"success", "error"}, NEW noGap \in BOOLEAN,
             Finish(t, status, noGap)
      PROVE  ExclusionInv'
  <2>1. UNCHANGED inProgress /\ InBody(t)
    BY <1>9 DEF Finish, InBody
  <2>2. th' = [th EXCEPT ![t].pc = IF status = "success" THEN "returned" ELSE "raised"]
    BY <1>9 DEF Finish
  <2>3. NoneEnters
    BY <2>1, <2>2 DEF NoneEnters, InBody, Current, ExclusionInv, TypeInv, GoodThread, Thread
  <2> QED  BY <2>1, <2>3, QuietStep
<1>10. CASE Release(t)
  BY <1>10, ReleaseExclusion
<1>11. ASSUME NEW plan \in Plans, RunNow(t, plan)
       PROVE  ExclusionInv'
  <2>1. UNCHANGED inProgress
        /\ Leaves(t, Making([i \in DOMAIN plan |-> CallOf(plan[i], NoPeriod, "manual")]))
    BY <1>11, MakingOutside DEF RunNow, Leaves
  <2> QED  BY <2>1, LeavingStep, QuietStep
<1> QED
  BY <1>1, <1>2, <1>3, <1>4, <1>5, <1>6, <1>7, <1>8, <1>9, <1>10, <1>11
  DEF ThreadStep

(* However the cron thread, the pollers and the backfill of one process     *)
(* interleave, no job runs twice at once in it: Busy is enough, for any     *)
(* number of threads and with every fault of the file and every crash.      *)
THEOREM Exclusion == Spec => []OneRunPerProcess
<1>1. Init => ExclusionInv
  <2> SUFFICES ASSUME Init PROVE ExclusionInv
    OBVIOUS
  <2>1. \A t \in Threads : ~InBody(t)
    BY DEF Init, InBody, IdleThread
  <2> QED  BY <2>1, InitType DEF ExclusionInv, RunningIsMarked, OneRunPerProcess
<1>2. ExclusionInv /\ [Next]_vars => ExclusionInv'
  <2> SUFFICES ASSUME ExclusionInv, [Next]_vars PROVE ExclusionInv'
    OBVIOUS
  <2>1. TypeInv'
    BY StepType DEF ExclusionInv
  <2>2. CASE \E t \in Threads : ThreadStep(t)
    BY <2>1, <2>2, ThreadExclusion
  <2>3. CASE \E p \in Procs : Crash(p) \/ Exit(p)
    BY <2>1, <2>3, GoneExclusion DEF Crash, Exit
  <2>4. CASE BootDaemon \/ Tick \/ Tear \/ UNCHANGED vars
    BY <2>1, <2>4, StayingStep DEF BootDaemon, Tick, Tear, vars
  <2> QED  BY <2>2, <2>3, <2>4 DEF Next
<1>3. ExclusionInv => OneRunPerProcess
  BY DEF ExclusionInv
<1> QED  BY <1>1, <1>2, <1>3, PTL DEF Spec

-----------------------------------------------------------------------------
(* Nothing another process recorded is dropped                              *)

LEMMA TrimKeepsLast ==
  ASSUME NEW e \in Seq(Event), NEW x \in Event
  PROVE  /\ Trim(Append(e, x)) # <<>>
         /\ Last(Trim(Append(e, x))) = x
<1> DEFINE a == Append(e, x)
<1>1. /\ a \in Seq(Event) /\ Len(a) \in Nat /\ Len(a) > 0
      /\ a[Len(a)] = x
  BY AppendProperties, LenProperties
<1> HIDE DEF a
<1>2. CASE Len(a) <= MaxEvents
  <2>1. Trim(a) = a
    BY <1>1, <1>2, MaxEventsAssumption DEF Trim
  <2> QED  BY <1>1, <2>1 DEF Last, a
<1>3. CASE Len(a) > MaxEvents
  <2> DEFINE m == Len(a) - MaxEvents + 1
             b == SubSeq(a, m, Len(a))
  <2>1. m \in 1 .. Len(a) /\ MaxEvents \in Nat \ {0}
    BY <1>1, <1>3, MaxEventsAssumption
  <2>2. \A i \in m .. Len(a) : a[i] \in Event
    BY <1>1, <2>1, ElementOfSeq
  <2>3. /\ b \in Seq(Event) /\ Len(b) = MaxEvents
        /\ \A i \in 1 .. Len(b) : b[i] = a[m + i - 1]
    BY <1>1, <2>1, <2>2, SubSeqProperties
  <2>4. b # <<>> /\ b[Len(b)] = x
    <3>1. /\ Len(b) \in 1 .. Len(b) /\ Len(b) # 0
          /\ m + Len(b) - 1 = Len(a)
      BY <1>1, <2>1, <2>3
    <3>2. b[Len(b)] = a[Len(a)]
      BY <2>3, <3>1
    <3> HIDE DEF b
    <3> QED  BY <1>1, <2>3, <3>1, <3>2, EmptySeq
  <2>5. Trim(a) = b
    BY <1>3 DEF Trim
  <2> HIDE DEF b
  <2> QED  BY <2>4, <2>5 DEF Last, a
<1> QED  BY <1>1, <1>2, <1>3, MaxEventsAssumption

(* What a step may do to the records when every read succeeds.              *)
Appends ==
  \E x \in Event : disk' = Trim(Append(disk, x))

WholeInv == TypeInv /\ torn = FALSE

LEMMA SectionAppends ==
  ASSUME ~ReadFaults, WholeInv, NEW p \in Procs, NEW o, NEW x \in Event,
         Record(p, o, x) \/ RecordLost(p, o, x)
  PROVE  torn' = FALSE /\ (disk' = disk \/ Appends)
<1>1. o = "ok"
  BY DEF WholeInv, Record, RecordLost, Reload, Reads
<1> QED  BY <1>1 DEF WholeInv, Record, RecordLost, Loaded, Appends

LEMMA QuietSection ==
  ASSUME ~ReadFaults, WholeInv, NEW p \in Procs, NEW o, Refresh(p, o)
  PROVE  torn' = FALSE /\ disk' = disk
BY DEF WholeInv, Refresh, Reload, Reads

LEMMA ThreadAppends ==
  ASSUME ~ReadFaults, WholeInv, NEW t \in Threads, ThreadStep(t)
  PROVE  torn' = FALSE /\ (disk' = disk \/ Appends)
<1>1. CASE \E j \in Jobs : CronFire(t, j) \/ CronMiss(t, j)
  BY <1>1 DEF CronFire, CronMiss, file, WholeInv
<1>2. CASE \E j \in Jobs : Poll(t, j)
  BY <1>2, QuietSection, OwnerType DEF Poll, file, WholeInv
<1>3. CASE LookBack(t)
  BY <1>3, QuietSection, OwnerType DEF LookBack
<1>4. CASE SkipInProgress(t)
  BY <1>4 DEF SkipInProgress, file, WholeInv
<1>5. CASE SkipAtLimit(t)
  <2>1. Note(t, "skipped_limit") \in Event
    BY <1>5, NoteType DEF SkipAtLimit, WholeInv, Status
  <2> QED  BY <1>5, <2>1, SectionAppends, OwnerType DEF SkipAtLimit
<1>6. CASE Admit(t)
  <2>1. StartRecord(t, runs + 1) \in Event
    BY <1>6, NoteType DEF Admit, WholeInv, TypeInv
  <2> QED  BY <1>6, <2>1, SectionAppends, OwnerType DEF Admit
<1>7. CASE Retry(t)
  <2>1. Note(t, "retry") \in Event
    BY <1>7, NoteType DEF Retry, WholeInv, Status
  <2> QED  BY <1>7, <2>1, SectionAppends, OwnerType DEF Retry
<1>8. ASSUME NEW status \in {"success", "error"}, NEW noGap \in BOOLEAN,
             Finish(t, status, noGap)
      PROVE  torn' = FALSE /\ (disk' = disk \/ Appends)
  <2>1. EndRecord(t, status, noGap) \in Event
    BY <1>8, NoteType DEF Finish, WholeInv, Status
  <2> QED  BY <1>8, <2>1, SectionAppends, OwnerType DEF Finish
<1>9. CASE Release(t)
  BY <1>9 DEF Release, file, WholeInv
<1>10. CASE \E plan \in Plans : RunNow(t, plan)
  BY <1>10, QuietSection, OwnerType DEF RunNow, Start
<1> QED
  BY <1>1, <1>2, <1>3, <1>4, <1>5, <1>6, <1>7, <1>8, <1>9, <1>10 DEF ThreadStep

LEMMA StepAppends ==
  ASSUME ~ReadFaults, ~Tears
  PROVE  WholeInv /\ [Next]_vars => torn' = FALSE /\ (disk' = disk \/ Appends)
<1> SUFFICES ASSUME WholeInv, [Next]_vars
             PROVE  torn' = FALSE /\ (disk' = disk \/ Appends)
  OBVIOUS
<1>1. CASE \E t \in Threads : ThreadStep(t)
  BY <1>1, ThreadAppends
<1>2. CASE BootDaemon
  BY <1>2, QuietSection DEF BootDaemon, Start, Procs
<1>3. CASE \E p \in Procs : Crash(p) \/ Exit(p)
  BY <1>3 DEF Crash, Exit, Gone, file, WholeInv
<1>4. CASE Tick \/ UNCHANGED vars
  BY <1>4 DEF Tick, vars, file, WholeInv
<1>5. ~Tear
  BY DEF Tear
<1> QED  BY <1>1, <1>2, <1>3, <1>4, <1>5 DEF Next

(* While the file can be read and nobody damages it, a section adds its one *)
(* record to whatever the other processes left: reloading inside the lock   *)
(* is enough, also when saves fail and processes die.                       *)
THEOREM NothingLost ==
  ASSUME ~ReadFaults, ~Tears
  PROVE  Spec => NoLostRecord
<1>1. Init => WholeInv
  BY InitType DEF WholeInv, Init
<1>2. WholeInv /\ [Next]_vars => WholeInv'
  BY StepType, StepAppends DEF WholeInv
<1>3. WholeInv /\ [Next]_vars =>
        [disk' # disk =>
           disk' # <<>> /\ disk' = Trim(Append(disk, Last(disk')))]_disk
  <2> SUFFICES ASSUME WholeInv, Appends
               PROVE  disk' # <<>> /\ disk' = Trim(Append(disk, Last(disk')))
    BY StepAppends
  <2>1. PICK x \in Event : disk' = Trim(Append(disk, x))
    BY DEF Appends
  <2>2. disk \in Seq(Event)
    BY DEF WholeInv, TypeInv, FileTypeOK
  <2> QED  BY <2>1, <2>2, TrimKeepsLast
<1> QED  BY <1>1, <1>2, <1>3, PTL DEF Spec, NoLostRecord

-----------------------------------------------------------------------------
(* A process that moved a torn file aside recovers nothing                  *)

StaysOff(u) == (quarantined[Owner[u]] /\ ~Recovering(u)) => ~Recovering(u)'

(* A step of thread t moves no other thread, and t itself begins nothing    *)
(* that it was not about already unless its process may still recover.      *)
LEMMA ThreadStaysOff ==
  ASSUME TypeInv, NEW t \in Threads, ThreadStep(t), NEW u \in Threads
  PROVE  StaysOff(u)
<1>1. IdleThread.pc = "idle" /\ Making(<<>>).pc = "idle"
  BY DEF IdleThread, Making
<1>2. ASSUME NEW j \in Jobs, CronFire(t, j) \/ CronMiss(t, j)
      PROVE  StaysOff(u)
  <2>1. Kind[t] # "poller" /\ \A w \in Threads \ {t} : th'[w] = th[w]
    BY <1>2 DEF CronFire, CronMiss, TypeInv
  <2> QED  BY <2>1 DEF StaysOff, Recovering, Idle
<1>3. ASSUME NEW j \in Jobs, Poll(t, j)
      PROVE  StaysOff(u)
  <2>1. \A w \in Threads \ {t} : th'[w] = th[w]
    BY <1>3 DEF Poll, TypeInv
  <2>2. quarantined[Owner[t]] => th'[t] = Looking(j)
    BY <1>3 DEF Poll, TypeInv, MayRecover
  <2>3. Looking(j).pc \in {"idle", "looking"}
    BY DEF Looking, IdleThread
  <2> QED  BY <2>1, <2>2, <2>3 DEF StaysOff, Recovering, Idle
<1>4. CASE LookBack(t)
  <2>1. PICK o \in ReadOutcome : th' = [th EXCEPT ![t] =
          Making(IF MayRecover(Owner[t], o)
                 THEN MissedPeriods(Owner[t], disk, Current(t).job) ELSE <<>>)]
    BY <1>4 DEF LookBack
  <2>2. \A w \in Threads \ {t} : th'[w] = th[w]
    BY <2>1 DEF TypeInv
  <2>3. quarantined[Owner[t]] => th'[t] = Making(<<>>)
    BY <2>1 DEF TypeInv, MayRecover
  <2> QED  BY <1>1, <2>2, <2>3 DEF StaysOff, Recovering, Idle
<1>5. CASE th[t].pc \notin {"idle", "looking"} /\ \A w \in Threads \ {t} : th'[w] = th[w]
  BY <1>5 DEF StaysOff, Recovering, Idle
<1>6. CASE SkipInProgress(t) \/ SkipAtLimit(t) \/ Admit(t) \/ Retry(t) \/ Release(t)
  BY <1>5, <1>6 DEF SkipInProgress, SkipAtLimit, Admit, Retry, Release, TypeInv
<1>7. CASE Finish(t, "success", FALSE) \/ \E noGap \in BOOLEAN : Finish(t, "error", noGap)
  BY <1>5, <1>7 DEF Finish, TypeInv
<1>8. ASSUME NEW plan \in Plans, RunNow(t, plan)
      PROVE  StaysOff(u)
  <2>1. Kind[t] # "poller" /\ \A w \in Threads \ {t} : th'[w] = th[w]
    BY <1>8 DEF RunNow, TypeInv
  <2> QED  BY <2>1 DEF StaysOff, Recovering, Idle
<1> QED
  BY <1>2, <1>3, <1>4, <1>6, <1>7, <1>8 DEF ThreadStep

(* Once a process has found the state file torn, none of its threads begins *)
(* a recovery again, whatever a later reload reads (_state_corrupted is     *)
(* never taken back).                                                       *)
THEOREM RecoveryOff == Spec => RecoveryStaysOff
<1>1. TypeInv /\ [Next]_vars =>
        [\A t \in Threads :
           (quarantined[Owner[t]] /\ ~Recovering(t)) => ~Recovering(t)']_vars
  <2> SUFFICES ASSUME TypeInv, Next, NEW u \in Threads
               PROVE  StaysOff(u)
    BY DEF StaysOff
  <2>1. CASE \E t \in Threads : ThreadStep(t)
    BY <2>1, ThreadStaysOff
  <2>2. CASE \E p \in Procs : Crash(p) \/ Exit(p)
    <3>1. th'[u] = th[u] \/ th'[u].pc = "idle"
      BY <2>2 DEF Crash, Exit, Gone, IdleThread, TypeInv
    <3> QED  BY <3>1 DEF StaysOff, Recovering, Idle
  <2>3. CASE BootDaemon \/ Tick \/ Tear
    BY <2>3 DEF BootDaemon, Tick, Tear, StaysOff, Recovering, Idle
  <2> QED  BY <2>1, <2>2, <2>3 DEF Next
<1> QED  BY <1>1, InitType, StepType, PTL DEF Spec, RecoveryStaysOff

-----------------------------------------------------------------------------
(* The records of the file and of the copies that processes hold            *)

LEMMA AppendSet ==
  ASSUME NEW e \in Seq(Event), NEW x \in Event
  PROVE  /\ Append(e, x) \in Seq(Event)
         /\ ToSet(Append(e, x)) = ToSet(e) \union {x}
<1>1. /\ Append(e, x) \in Seq(Event) /\ Len(Append(e, x)) = Len(e) + 1
      /\ \A i \in 1 .. Len(e) : Append(e, x)[i] = e[i]
      /\ Append(e, x)[Len(e) + 1] = x
  BY AppendProperties
<1>2. /\ DOMAIN e = 1 .. Len(e) /\ Len(e) \in Nat
      /\ DOMAIN Append(e, x) = 1 .. (Len(e) + 1)
  BY <1>1, LenProperties
<1>3. ToSet(Append(e, x)) \subseteq ToSet(e) \union {x}
  BY <1>1, <1>2 DEF ToSet
<1>4. ToSet(e) \subseteq ToSet(Append(e, x))
  BY <1>1, <1>2 DEF ToSet
<1>5. x \in ToSet(Append(e, x))
  BY <1>1, <1>2 DEF ToSet
<1> QED  BY <1>1, <1>3, <1>4, <1>5

LEMMA TrimSet ==
  ASSUME NEW e \in Seq(Event)
  PROVE  ToSet(Trim(e)) \subseteq ToSet(e)
<1>1. CASE Len(e) > MaxEvents
  <2> DEFINE m == Len(e) - MaxEvents + 1
             b == SubSeq(e, m, Len(e))
  <2>1. /\ Len(e) \in Nat /\ MaxEvents \in Nat \ {0} /\ m \in 1 .. Len(e)
        /\ DOMAIN e = 1 .. Len(e)
    BY <1>1, LenProperties, MaxEventsAssumption
  <2>2. \A i \in m .. Len(e) : e[i] \in Event
    BY <2>1, ElementOfSeq
  <2>3. /\ b \in Seq(Event) /\ Len(b) = Len(e) - m + 1
        /\ \A i \in 1 .. Len(e) - m + 1 : b[i] = e[m + i - 1]
    BY <2>1, <2>2, SubSeqProperties
  <2>4. DOMAIN b = 1 .. Len(e) - m + 1
    BY <2>3, LenProperties
  <2>5. Trim(e) = b
    BY <1>1 DEF Trim
  <2> HIDE DEF m, b
  <2>6. ASSUME NEW i \in 1 .. Len(e) - m + 1
        PROVE  b[i] \in ToSet(e)
    BY <2>1, <2>3 DEF ToSet
  <2> QED  BY <2>4, <2>5, <2>6 DEF ToSet
<1>2. CASE ~(Len(e) > MaxEvents)
  BY <1>2 DEF Trim
<1> QED  BY <1>1, <1>2

LEMMA SetFinite ==
  ASSUME NEW e \in Seq(Event)
  PROVE  IsFiniteSet(ToSet(e)) /\ ToSet(e) \subseteq Event
<1>1. /\ Len(e) \in Nat /\ e \in [1 .. Len(e) -> Event] /\ DOMAIN e = 1 .. Len(e)
  BY LenProperties
<1>2. e \in [1 .. Len(e) -> ToSet(e)] /\ ToSet(e) \subseteq Event
  BY <1>1 DEF ToSet
<1>3. \A x \in ToSet(e) : \E i \in 1 .. Len(e) : e[i] = x
  BY <1>1 DEF ToSet
<1>4. e \in Surjection(1 .. Len(e), ToSet(e))
  BY <1>2, <1>3, Fun_IsSurj
<1>5. IsFiniteSet(1 .. Len(e))
  BY <1>1, FS_Interval
<1> QED  BY <1>2, <1>4, <1>5, FS_Surjection

(* What a section may start from: the file, or what a process holds of it.  *)
Copies == {disk} \union {mem[p] : p \in Procs}
Known == UNION {ToSet(e) : e \in Copies}

LEMMA CopiesType ==
  ASSUME TypeInv
  PROVE  /\ Copies \subseteq Seq(Event)
         /\ Known \subseteq Event
         /\ \A p \in Procs : mem[p] \in Copies
<1>1. Copies \subseteq Seq(Event)
  BY DEF Copies, TypeInv, FileTypeOK
<1> QED  BY <1>1, SetFinite DEF Known, Copies

(* A record that a step adds: a start has a new run_id, any other record is *)
(* of no run or of one that began before.                                   *)
NewRecord(x) ==
  /\ x \in Event
  /\ IF x.status = "started" THEN x.run = runs + 1 /\ runs' = runs + 1 ELSE x.run <= runs

(* A start is only added where the count of its period allows it.           *)
Room(e, x) ==
  (x.status = "started" /\ x.reason # "manual") =>
    \E p \in Procs : CountFor(p, e, x.job, x.period) < Config[x.job].max

Added(x) == {Trim(Append(e, x)) : e \in {f \in Copies : Room(f, x)}}

(* No step invents records: what is held afterwards was held before, but    *)
(* for one record added at the end of one of the copies.                    *)
Adds ==
  \/ Copies' \subseteq Copies \union {<<>>}
  \/ \E x : NewRecord(x) /\ Copies' \subseteq Copies \union Added(x)

RunsBound == \A t \in Threads : th[t].run <= runs

LEMMA RefreshCopies ==
  ASSUME TypeInv, NEW p \in Procs, NEW o, Refresh(p, o)
  PROVE  Copies' \subseteq Copies
<1>1. disk' = disk /\ Loaded(p, o) \in Copies
  BY DEF Refresh, Loaded, Copies
<1>2. \A q \in Procs : mem'[q] \in {mem[q], Loaded(p, o)}
  BY DEF Refresh, TypeInv, FileTypeOK
<1> QED  BY <1>1, <1>2 DEF Copies

LEMMA RecordCopies ==
  ASSUME TypeInv, NEW p \in Procs, NEW o, NEW x, Record(p, o, x) \/ RecordLost(p, o, x)
  PROVE  /\ Loaded(p, o) \in Copies
         /\ Copies' \subseteq Copies \union {Trim(Append(Loaded(p, o), x))}
<1> DEFINE e == Trim(Append(Loaded(p, o), x))
<1>1. Loaded(p, o) \in Copies
  BY DEF Loaded, Copies
<1>2. disk' \in {disk, e} /\ mem' = [mem EXCEPT ![p] = e]
  BY DEF Record, RecordLost
<1> HIDE DEF e
<1>3. \A q \in Procs : mem'[q] \in {mem[q], e}
  BY <1>2 DEF TypeInv, FileTypeOK
<1>4. Copies' \subseteq Copies \union {e}
  BY <1>2, <1>3 DEF Copies
<1> QED  BY <1>1, <1>4 DEF e

LEMMA SectionAdds ==
  ASSUME TypeInv, NEW p \in Procs, NEW o, NEW x, Record(p, o, x) \/ RecordLost(p, o, x),
         NewRecord(x), Room(Loaded(p, o), x)
  PROVE  Adds
<1>1. /\ Loaded(p, o) \in Copies
      /\ Copies' \subseteq Copies \union {Trim(Append(Loaded(p, o), x))}
  BY RecordCopies
<1>2. Trim(Append(Loaded(p, o), x)) \in Added(x)
  BY <1>1 DEF Added
<1> QED  BY <1>1, <1>2 DEF Adds

LEMMA KeepsCopies ==
  ASSUME UNCHANGED <<disk, mem>>
  PROVE  Adds
BY DEF Adds, Copies

LEMMA ThreadAdds ==
  ASSUME TypeInv, RunsBound, NEW t \in Threads, ThreadStep(t)
  PROVE  Adds
<1>1. CASE \E j \in Jobs : CronFire(t, j) \/ CronMiss(t, j)
  BY <1>1, KeepsCopies DEF CronFire, CronMiss, file
<1>2. CASE \E j \in Jobs : Poll(t, j)
  BY <1>2, KeepsCopies, RefreshCopies, OwnerType DEF Poll, file, Adds
<1>3. CASE LookBack(t)
  BY <1>3, RefreshCopies, OwnerType DEF LookBack, Adds
<1>4. CASE SkipInProgress(t) \/ Release(t)
  BY <1>4, KeepsCopies DEF SkipInProgress, Release, file
<1>5. CASE SkipAtLimit(t)
  <2> DEFINE x == Note(t, "skipped_limit")
  <2>1. x \in Event
    BY <1>5, NoteType DEF SkipAtLimit, Status
  <2>2. NewRecord(x) /\ \A e : Room(e, x)
    BY <2>1 DEF Note, NewRecord, Room, TypeInv
  <2>3. PICK o \in ReadOutcome : Record(Owner[t], o, x) \/ RecordLost(Owner[t], o, x)
    BY <1>5 DEF SkipAtLimit
  <2> HIDE DEF x
  <2> QED  BY <2>2, <2>3, SectionAdds, OwnerType
<1>6. CASE Admit(t)
  <2> DEFINE x == StartRecord(t, runs + 1)
  <2>1. x \in Event /\ runs \in Nat
    BY <1>6, NoteType DEF Admit, TypeInv
  <2>2. /\ x.status = "started" /\ x.run = runs + 1 /\ x.reason = Current(t).reason
        /\ x.job = Current(t).job /\ x.period = Current(t).period
    BY DEF StartRecord, Note
  <2>3. NewRecord(x)
    BY <1>6, <2>1, <2>2 DEF NewRecord, Admit
  <2>4. PICK o \in ReadOutcome : /\ Admitted(t, Loaded(Owner[t], o))
                                 /\ Record(Owner[t], o, x) \/ RecordLost(Owner[t], o, x)
    BY <1>6 DEF Admit
  <2> HIDE DEF x
  <2>5. Room(Loaded(Owner[t], o), x)
    BY <2>2, <2>4, OwnerType DEF Room, Admitted
  <2> QED  BY <2>3, <2>4, <2>5, SectionAdds, OwnerType
<1>7. CASE Retry(t)
  <2> DEFINE x == Note(t, "retry")
  <2>1. x \in Event
    BY <1>7, NoteType DEF Retry, Status
  <2>2. NewRecord(x) /\ \A e : Room(e, x)
    BY <2>1 DEF Note, NewRecord, Room, TypeInv
  <2>3. PICK o \in ReadOutcome : Record(Owner[t], o, x) \/ RecordLost(Owner[t], o, x)
    BY <1>7 DEF Retry
  <2> HIDE DEF x
  <2> QED  BY <2>2, <2>3, SectionAdds, OwnerType
<1>8. ASSUME NEW status \in {"success", "error"}, NEW noGap \in BOOLEAN,
             Finish(t, status, noGap)
      PROVE  Adds
  <2> DEFINE x == EndRecord(t, status, noGap)
  <2>1. x \in Event
    BY <1>8, NoteType DEF Finish, Status
  <2>2. x.status = status /\ x.run = th[t].run
    BY DEF EndRecord, Note
  <2>3. PICK o \in ReadOutcome : Record(Owner[t], o, x) \/ RecordLost(Owner[t], o, x)
    BY <1>8 DEF Finish
  <2> HIDE DEF x
  <2>4. NewRecord(x) /\ \A e : Room(e, x)
    BY <2>1, <2>2 DEF NewRecord, Room, RunsBound
  <2> QED  BY <2>3, <2>4, SectionAdds, OwnerType
<1>9. CASE \E plan \in Plans : RunNow(t, plan)
  BY <1>9, RefreshCopies, OwnerType DEF RunNow, Start, Adds
<1> QED
  BY <1>1, <1>2, <1>3, <1>4, <1>5, <1>6, <1>7, <1>8, <1>9 DEF ThreadStep

LEMMA StepAdds ==
  ASSUME TypeInv, RunsBound, [Next]_vars
  PROVE  Adds
<1>1. CASE \E t \in Threads : ThreadStep(t)
  BY <1>1, ThreadAdds
<1>2. CASE BootDaemon
  BY <1>2, RefreshCopies DEF BootDaemon, Start, Procs, Adds
<1>3. ASSUME NEW p \in Procs, Gone(p)
      PROVE  Adds
  <2>1. disk' = disk /\ \A q \in Procs : mem'[q] \in {mem[q], <<>>}
    BY <1>3 DEF Gone, file, TypeInv, FileTypeOK
  <2> QED  BY <2>1 DEF Adds, Copies
<1>4. CASE Tick \/ UNCHANGED vars
  BY <1>4, KeepsCopies DEF Tick, vars, file
<1>5. CASE Tear
  <2>1. disk' = <<>> /\ mem' = mem
    BY <1>5 DEF Tear
  <2> QED  BY <2>1 DEF Adds, Copies
<1> QED  BY <1>1, <1>2, <1>3, <1>4, <1>5 DEF Next, Crash, Exit

LEMMA RunsGrow ==
  ASSUME TypeInv, RunsBound, [Next]_vars
  PROVE  runs' >= runs /\ RunsBound'
<1>1. \A calls : Making(calls).run = 0 /\ IdleThread.run = 0
  BY DEF Making, IdleThread
<1>2. \A j : Looking(j).run = 0
  BY DEF Looking, IdleThread
<1>3. /\ runs \in Nat /\ \A t \in Threads : th[t].run \in Nat
      /\ DOMAIN th = Threads
  BY DEF TypeInv, GoodThread, Thread
<1>4. ASSUME NEW t \in Threads, ThreadStep(t)
      PROVE  runs' >= runs /\ RunsBound'
  <2>1. CASE Admit(t)
    <3>1. runs' = runs + 1
      BY <2>1 DEF Admit
    <3>2. \A u \in Threads : th'[u].run \in {th[u].run, 0, runs + 1}
      BY <1>1, <1>3, <2>1 DEF Admit, TypeInv, GoodThread, Thread
    <3> QED  BY <1>3, <3>1, <3>2 DEF RunsBound
  <2>2. CASE UNCHANGED runs /\ \A u \in Threads : th'[u].run \in {th[u].run, 0}
    BY <1>3, <2>2 DEF RunsBound
  <2>3. CASE \E j \in Jobs : CronFire(t, j) \/ CronMiss(t, j) \/ Poll(t, j)
    BY <1>1, <1>2, <1>3, <2>2, <2>3 DEF CronFire, CronMiss, Poll, counters
  <2>4. CASE LookBack(t) \/ SkipInProgress(t) \/ SkipAtLimit(t) \/ Release(t)
    BY <1>1, <1>3, <2>2, <2>4 DEF LookBack, SkipInProgress, SkipAtLimit, Release, counters
  <2>5. CASE Retry(t)
    <3>1. \E r : th' = [th EXCEPT ![t] = r] /\ r.run = th[t].run
      <4>1. [th[t] EXCEPT !.attempt = @ + 1].run = th[t].run
            /\ [th[t] EXCEPT !.pc = "failed"].run = th[t].run
        BY DEF TypeInv, GoodThread, Thread
      <4> QED  BY <2>5, <4>1 DEF Retry
    <3>2. \A u \in Threads : th'[u].run = th[u].run
      BY <1>3, <3>1
    <3> QED  BY <2>2, <2>5, <3>2 DEF Retry, counters
  <2>6. ASSUME NEW status, NEW noGap, Finish(t, status, noGap)
        PROVE  runs' >= runs /\ RunsBound'
    BY <1>3, <2>2, <2>6 DEF Finish, counters, TypeInv, GoodThread, Thread
  <2>7. CASE \E plan \in Plans : RunNow(t, plan)
    BY <1>1, <1>3, <2>2, <2>7 DEF RunNow
  <2> QED  BY <1>4, <2>1, <2>3, <2>4, <2>5, <2>6, <2>7 DEF ThreadStep
<1>5. CASE BootDaemon \/ Tick \/ Tear \/ UNCHANGED vars
  BY <1>3, <1>5 DEF BootDaemon, Tick, Tear, vars, counters, RunsBound
<1>6. CASE \E p \in Procs : Crash(p) \/ Exit(p)
  BY <1>1, <1>3, <1>6 DEF Crash, Exit, Gone, counters, RunsBound
<1> QED  BY <1>4, <1>5, <1>6 DEF Next

(* A run_id is given once: the records of a start that carry the same one   *)
(* are copies of each other, wherever they are held.                        *)
RecordInv ==
  /\ TypeInv
  /\ RunsBound
  /\ \A x \in Known : x.run <= runs
  /\ \A x, y \in Known :
       (x.status = "started" /\ y.status = "started" /\ x.run = y.run) => x = y

LEMMA KnownGrows ==
  ASSUME TypeInv, TypeInv'
  PROVE  /\ Copies' \subseteq Copies \union {<<>>} => Known' \subseteq Known
         /\ \A x \in Event : Copies' \subseteq Copies \union Added(x)
              => Known' \subseteq Known \union {x}
<1>1. ToSet(<<>>) = {}
  BY EmptySeq DEF ToSet
<1>2. Known' = UNION {ToSet(e) : e \in Copies'}
  BY DEF Known
<1>3. ASSUME Copies' \subseteq Copies \union {<<>>}
      PROVE  Known' \subseteq Known
  BY <1>1, <1>2, <1>3 DEF Known
<1>4. ASSUME NEW x \in Event, Copies' \subseteq Copies \union Added(x)
      PROVE  Known' \subseteq Known \union {x}
  <2>1. ASSUME NEW e \in Copies
        PROVE  ToSet(Trim(Append(e, x))) \subseteq ToSet(e) \union {x}
    <3>1. e \in Seq(Event)
      BY CopiesType
    <3>2. Append(e, x) \in Seq(Event) /\ ToSet(Append(e, x)) = ToSet(e) \union {x}
      BY <3>1, AppendSet
    <3> HIDE DEF Known
    <3> QED  BY <3>2, TrimSet
  <2>2. ASSUME NEW e \in Copies'
        PROVE  ToSet(e) \subseteq Known \union {x}
    <3>1. CASE e \in Copies
      BY <3>1 DEF Known
    <3>2. CASE e \in Added(x)
      BY <2>1, <3>2 DEF Known, Added
    <3> QED  BY <1>4, <3>1, <3>2
  <2> QED  BY <1>2, <2>2
<1> QED  BY <1>3, <1>4

LEMMA RecordStep == RecordInv /\ [Next]_vars => RecordInv'
<1> SUFFICES ASSUME RecordInv, [Next]_vars PROVE RecordInv'
  OBVIOUS
<1>1. /\ TypeInv /\ TypeInv' /\ RunsBound' /\ Adds
      /\ runs \in Nat /\ runs' \in Nat /\ runs' >= runs
  BY StepType, RunsGrow, StepAdds DEF RecordInv, TypeInv
<1>2. Known \subseteq Event
  BY <1>1, CopiesType
<1>3. \A x \in Known : x.run \in Nat /\ x.run <= runs /\ x.run <= runs'
  BY <1>1, <1>2 DEF RecordInv, Event
<1>4. CASE Known' \subseteq Known
  BY <1>1, <1>3, <1>4 DEF RecordInv
<1>5. ASSUME NEW x, NewRecord(x), Known' \subseteq Known \union {x}
      PROVE  RecordInv'
  <2>1. x.run \in Nat /\ x.run <= runs'
    BY <1>1, <1>5 DEF NewRecord, Event
  <2>2. ASSUME NEW y \in Known', NEW z \in Known',
               y.status = "started", z.status = "started", y.run = z.run
        PROVE  y = z
    <3>1. CASE y \in Known /\ z \in Known
      BY <2>2, <3>1 DEF RecordInv
    <3>2. CASE x.status # "started"
      BY <1>5, <2>2, <3>1, <3>2
    <3>3. CASE x.status = "started"
      <4>1. \A w \in Known : w.run < x.run
        BY <1>1, <1>3, <1>5, <2>1, <3>3 DEF NewRecord
      <4> QED  BY <1>3, <1>5, <2>1, <2>2, <3>1, <4>1
    <3> QED  BY <3>2, <3>3
  <2>3. \A y \in Known' : y.run <= runs'
    BY <1>3, <1>5, <2>1
  <2> QED  BY <1>1, <2>2, <2>3 DEF RecordInv
<1> QED  BY <1>1, <1>4, <1>5, KnownGrows DEF Adds, NewRecord

LEMMA RecordInit == Init => RecordInv
<1> SUFFICES ASSUME Init PROVE RecordInv
  OBVIOUS
<1>1. ToSet(<<>>) = {} /\ Copies \subseteq {<<>>}
  BY EmptySeq DEF ToSet, Copies, Init
<1>2. Known = {}
  BY <1>1 DEF Known
<1> QED  BY <1>2, InitType DEF RecordInv, RunsBound, Init, IdleThread

-----------------------------------------------------------------------------
(* The limit of a period                                                    *)

Pardoned(j) == IF Config[j].rerun THEN Config[j].forgiven ELSE 0

UnforcedIn(e, j, k) ==
  {x \in RecordsOf(e, j, k) : x.status = "started" /\ x.reason # "manual"}

CapIn(e) ==
  \A j \in Jobs, k \in Nat :
    Cardinality(UnforcedIn(e, j, k)) <= Config[j].max + Pardoned(j)

(* What a process counts is no less than the starts it finds, but for those *)
(* it forgives: each start is open or is of a finished run of its own.      *)
LEMMA StartsCounted ==
  ASSUME NEW e \in Seq(Event), NEW j \in Jobs, NEW k \in Nat, NEW b, NEW t,
         \A x, y \in ToSet(e) :
           (x.status = "started" /\ y.status = "started" /\ x.run = y.run) => x = y
  PROVE  /\ IsFiniteSet(UnforcedIn(e, j, k))
         /\ Cardinality(UnforcedIn(e, j, k)) \in Nat
         /\ ExecutionCount(e, j, k, b, t) \in Int
         /\ Cardinality(UnforcedIn(e, j, k)) <= ExecutionCount(e, j, k, b, t) + Pardoned(j)
<1> DEFINE O == OpenStarts(e, j, k)
           F == FinishedRuns(e, j, k)
           U == UnforcedIn(e, j, k)
           E == U \ O
           ends == {y \in RecordsOf(e, j, k) : y.status \in {"success", "error"}}
           I == Interrupted(e, j, k, b, t)
<1>1. IsFiniteSet(ToSet(e)) /\ ToSet(e) \subseteq Event
  BY SetFinite
<1>2. IsFiniteSet(RecordsOf(e, j, k)) /\ RecordsOf(e, j, k) \subseteq ToSet(e)
  BY <1>1, FS_Subset DEF RecordsOf
<1>3. IsFiniteSet(O) /\ IsFiniteSet(U) /\ IsFiniteSet(E) /\ IsFiniteSet(ends)
  <2>1. O \in SUBSET RecordsOf(e, j, k) /\ U \in SUBSET RecordsOf(e, j, k)
        /\ E \in SUBSET RecordsOf(e, j, k) /\ ends \in SUBSET RecordsOf(e, j, k)
    BY DEF OpenStarts, UnforcedIn
  <2> HIDE DEF O, U, E, ends
  <2> QED  BY <1>2, <2>1, FS_Subset
<1>4. IsFiniteSet(F)
  <2> DEFINE run == [y \in ends |-> y.run]
  <2>1. F = {y.run : y \in ends}
    BY DEF FinishedRuns
  <2> HIDE DEF F, ends
  <2>2. run \in [ends -> F] /\ \A r \in F : \E y \in ends : run[y] = r
    BY <2>1
  <2> HIDE DEF run
  <2> QED  BY <1>3, <2>2, Fun_IsSurj, FS_Surjection
<1>5. Cardinality(E) <= Cardinality(F)
  <2> DEFINE run == [y \in E |-> y.run]
  <2>1. \A x \in E : x.run \in F /\ x.status = "started" /\ x \in ToSet(e)
    BY DEF UnforcedIn, OpenStarts, RecordsOf
  <2>2. run \in [E -> F] /\ \A x, y \in E : run[x] = run[y] => x = y
    <3> HIDE DEF E, F
    <3> QED  BY <2>1
  <2> HIDE DEF run, E, F
  <2> QED  BY <1>4, <2>2, Fun_IsInj, FS_Injection
<1>6. Cardinality(I) \in Nat
  <2>1. I \in SUBSET O
    BY DEF Interrupted
  <2> HIDE DEF I, O
  <2> QED  BY <1>3, <2>1, FS_Subset, FS_CardinalityType
<1>7. Forgiven(e, j, k, b, t) \in Nat /\ Forgiven(e, j, k, b, t) <= Pardoned(j)
  <2>1. Config[j].forgiven \in Nat
    BY ConfigAssumption DEF JobConfig
  <2> QED  BY <1>6, <2>1 DEF Forgiven, Lesser, Pardoned
<1>8. ExecutionCount(e, j, k, b, t)
        = Cardinality(F) + Cardinality(O) - Forgiven(e, j, k, b, t)
  BY DEF ExecutionCount
<1> HIDE DEF O, F, ends, I
<1>9. /\ Cardinality(U) \in Nat /\ Cardinality(E) \in Nat
      /\ Cardinality(O) \in Nat /\ Cardinality(F) \in Nat
  BY <1>3, <1>4, FS_CardinalityType
<1>10. Cardinality(U) <= Cardinality(O) + Cardinality(E)
  <2>1. U \in SUBSET (O \union E)
    OBVIOUS
  <2>2. /\ IsFiniteSet(O \union E)
        /\ Cardinality(O \union E) = Cardinality(O) + Cardinality(E) - Cardinality(O \cap E)
    BY <1>3, FS_Union
  <2>3. Cardinality(O \cap E) \in Nat
    BY <1>3, FS_Intersection, FS_CardinalityType
  <2>4. Cardinality(U) <= Cardinality(O \union E)
    BY <2>1, <2>2, FS_Subset
  <2> HIDE DEF U, E
  <2> QED  BY <1>9, <2>2, <2>3, <2>4
<1>11. Pardoned(j) \in Nat
  BY ConfigAssumption DEF JobConfig, Pardoned
<1> HIDE DEF U, E
<1> QED  BY <1>3, <1>5, <1>7, <1>8, <1>9, <1>10, <1>11 DEF U

(* Every copy keeps to the limit: the file and what a process still holds   *)
(* of it, from which a section starts when the file cannot be read.         *)
CountInv ==
  /\ RecordInv
  /\ \A e \in Copies : CapIn(e)

LEMMA EmptyCap == CapIn(<<>>)
<1>1. ToSet(<<>>) = {}
  BY EmptySeq DEF ToSet
<1>2. \A j \in Jobs, k \in Nat : UnforcedIn(<<>>, j, k) = {}
  BY <1>1 DEF UnforcedIn, RecordsOf
<1>3. \A j \in Jobs : Config[j].max \in Nat /\ Pardoned(j) \in Nat
  BY ConfigAssumption DEF JobConfig, Pardoned
<1>4. Cardinality({}) = 0
  BY FS_EmptySet
<1>5. \A j \in Jobs, k \in Nat :
        Cardinality(UnforcedIn(<<>>, j, k)) <= Config[j].max + Pardoned(j)
  <2> TAKE j \in Jobs, k \in Nat
  <2>1. Cardinality(UnforcedIn(<<>>, j, k)) = 0
    BY <1>2, <1>4
  <2> QED  BY <1>3, <2>1
<1> QED  BY <1>5 DEF CapIn

(* A section that may add its record leaves a copy within the limit.        *)
LEMMA AddedKeepsCap ==
  ASSUME CountInv, NEW x \in Event, NEW e \in Copies, Room(e, x)
  PROVE  CapIn(Trim(Append(e, x)))
<1> DEFINE a == Append(e, x)
           n == Trim(a)
<1>1. /\ e \in Seq(Event) /\ a \in Seq(Event)
      /\ ToSet(n) \subseteq ToSet(e) \union {x}
  <2>1. e \in Seq(Event)
    BY CopiesType DEF CountInv, RecordInv
  <2>2. a \in Seq(Event) /\ ToSet(a) = ToSet(e) \union {x}
    BY <2>1, AppendSet
  <2> HIDE DEF a
  <2> QED  BY <2>1, <2>2, TrimSet
<1> HIDE DEF a, n
<1>2. ASSUME NEW j \in Jobs, NEW k \in Nat
      PROVE  Cardinality(UnforcedIn(n, j, k)) <= Config[j].max + Pardoned(j)
  <2> DEFINE U == UnforcedIn(e, j, k)
             V == UnforcedIn(n, j, k)
  <2>1. \A y, z \in ToSet(e) :
          (y.status = "started" /\ z.status = "started" /\ y.run = z.run) => y = z
    BY DEF CountInv, RecordInv, Known
  <2>2. IsFiniteSet(U) /\ Cardinality(U) \in Nat
        /\ \A b, t : /\ ExecutionCount(e, j, k, b, t) \in Int
                     /\ Cardinality(U) <= ExecutionCount(e, j, k, b, t) + Pardoned(j)
    BY <1>1, <2>1, StartsCounted
  <2>3. Config[j].max \in Nat /\ Pardoned(j) \in Nat
    BY ConfigAssumption DEF JobConfig, Pardoned
  <2>4. Cardinality(U) <= Config[j].max + Pardoned(j)
    BY DEF CountInv, CapIn
  <2>5. CASE x \in V
    <3>1. x.status = "started" /\ x.reason # "manual" /\ x.job = j /\ x.period = k
      BY <2>5 DEF UnforcedIn, RecordsOf
    <3>2. PICK p \in Procs : CountFor(p, e, j, k) < Config[j].max
      BY <3>1 DEF Room
    <3>3. Cardinality(U) + 1 <= Config[j].max + Pardoned(j)
      BY <2>2, <2>3, <3>2 DEF CountFor
    <3>4. V \in SUBSET (U \union {x})
      BY <1>1 DEF UnforcedIn, RecordsOf
    <3> HIDE DEF U, V
    <3>5. IsFiniteSet(U \union {x}) /\ Cardinality(U \union {x}) <= Cardinality(U) + 1
      BY <2>2, FS_AddElement
    <3>6. /\ Cardinality(V) <= Cardinality(U \union {x})
          /\ Cardinality(V) \in Nat /\ Cardinality(U \union {x}) \in Nat
      BY <3>4, <3>5, FS_Subset, FS_CardinalityType
    <3>7. Cardinality(V) <= Config[j].max + Pardoned(j)
      BY <2>2, <2>3, <3>3, <3>5, <3>6
    <3> QED  BY <3>7 DEF V
  <2>6. CASE x \notin V
    <3>1. V \in SUBSET U
      BY <1>1, <2>6 DEF UnforcedIn, RecordsOf
    <3> HIDE DEF U, V
    <3>2. Cardinality(V) <= Cardinality(U) /\ Cardinality(V) \in Nat
      BY <2>2, <3>1, FS_Subset, FS_CardinalityType
    <3>3. Cardinality(V) <= Config[j].max + Pardoned(j)
      BY <2>2, <2>3, <2>4, <3>2
    <3> QED  BY <3>3 DEF V
  <2> QED  BY <2>5, <2>6
<1> QED  BY <1>2 DEF CapIn, n, a

LEMMA CountStep == CountInv /\ [Next]_vars => CountInv'
<1> SUFFICES ASSUME CountInv, [Next]_vars PROVE CountInv'
  OBVIOUS
<1>1. RecordInv' /\ Adds
  BY RecordStep, StepAdds DEF CountInv, RecordInv
<1>2. ASSUME NEW e \in Copies'
      PROVE  CapIn(e)
  <2>1. CASE e \in Copies \union {<<>>}
    BY <2>1, EmptyCap DEF CountInv
  <2>2. ASSUME NEW x, NewRecord(x), e \in Added(x)
        PROVE  CapIn(e)
    BY <2>2, AddedKeepsCap DEF NewRecord, Added
  <2> QED  BY <1>1, <2>1, <2>2 DEF Adds
<1>3. \A e \in Copies' : CapIn(e)'
  BY <1>2 DEF CapIn, UnforcedIn, RecordsOf, Pardoned
<1> QED  BY <1>1, <1>3 DEF CountInv

(* However processes die, start again, lose the record of an end or find a  *)
(* damaged file, a period is never attempted more often on the job's own    *)
(* account than max_executions_per_period and the forgiven interruptions    *)
(* allow (_count_executions): for every configuration, with immediate runs  *)
(* beside the daemon, with every fault of the file, and also when the file  *)
(* has dropped its oldest records.                                          *)
THEOREM CapKept == Spec => []CapHolds
<1>1. Init => CountInv
  <2> SUFFICES ASSUME Init PROVE CountInv
    OBVIOUS
  <2>1. Copies \subseteq {<<>>}
    BY DEF Copies, Init
  <2> QED  BY <2>1, RecordInit, EmptyCap DEF CountInv
<1>2. CountInv => CapHolds
  <2> SUFFICES ASSUME CountInv, NEW j \in Jobs, NEW x \in ToSet(disk), x.job = j
               PROVE  Cardinality(Unforced(j, x.period)) <= Config[j].max + Pardoned(j)
    BY DEF CapHolds, Pardoned
  <2>1. x.period \in Nat
    BY SetFinite DEF CountInv, RecordInv, TypeInv, FileTypeOK, Event
  <2> QED  BY <2>1 DEF CountInv, CapIn, Copies, Unforced, UnforcedIn
<1> QED  BY <1>1, <1>2, CountStep, PTL DEF Spec

-----------------------------------------------------------------------------
(* Which runs a process takes for vanished                                  *)

(* A thread that makes calls belongs to a process that is up.               *)
Alive == \A t \in Threads : ~Idle(t) => Up(Owner[t])

(* A thread in its body was there before the step, with the same run.       *)
Stays(u) ==
  InBody(u)' => /\ InBody(u) /\ th'[u].run = th[u].run /\ Current(u)' = Current(u)
                /\ th'[u].pc \in {"running", "failed"} => th[u].pc \in {"running", "failed"}

KeepsBoot(u) == (~Idle(u) /\ ~Idle(u)') => boot'[Owner[u]] = boot[Owner[u]]

LEMMA OthersStay ==
  ASSUME TypeInv, NEW t \in Threads, NEW r, th' = [th EXCEPT ![t] = r]
  PROVE  /\ th'[t] = r
         /\ \A u \in Threads \ {t} : th'[u] = th[u]
         /\ \A u \in Threads \ {t} : Stays(u) /\ Idle(u)' = Idle(u)
<1>1. th'[t] = r /\ \A u \in Threads \ {t} : th'[u] = th[u]
  BY DEF TypeInv
<1> QED  BY <1>1 DEF Stays, InBody, Current, Idle

(* What a step of a thread does to the threads: one is moved, and only      *)
(* Admit takes it into a body.                                              *)
LEMMA ThreadMoves ==
  ASSUME TypeInv, NEW t \in Threads, ThreadStep(t)
  PROVE  /\ \A u \in Threads \ {t} : th'[u] = th[u] /\ Stays(u)
         /\ Stays(t) \/ Admit(t)
<1>1. ASSUME NEW r, th' = [th EXCEPT ![t] = r], r.pc \in {"idle", "looking", "called"}
      PROVE  \A u \in Threads : Stays(u) /\ (u # t => th'[u] = th[u])
  <2>1. th'[t] = r /\ \A u \in Threads \ {t} : th'[u] = th[u] /\ Stays(u)
    BY <1>1, OthersStay
  <2>2. Stays(t)
    BY <1>1, <2>1 DEF Stays, InBody
  <2> QED  BY <2>1, <2>2
<1>2. \A calls : Making(calls).pc \in {"idle", "looking", "called"}
                 /\ IdleThread.pc \in {"idle", "looking", "called"}
  BY MakingOutside
<1>3. \A j : Looking(j).pc \in {"idle", "looking", "called"}
  BY DEF Looking, IdleThread
<1>4. CASE \E j \in Jobs : CronFire(t, j) \/ Poll(t, j)
  <2>1. \E r : th' = [th EXCEPT ![t] = r] /\ r.pc \in {"idle", "looking", "called"}
    BY <1>2, <1>3, <1>4 DEF CronFire, Poll
  <2> QED  BY <1>1, <2>1
<1>5. CASE \E j \in Jobs : CronMiss(t, j)
  BY <1>5 DEF CronMiss, Stays, InBody, Current
<1>6. CASE LookBack(t) \/ SkipInProgress(t) \/ SkipAtLimit(t) \/ Release(t)
           \/ \E plan \in Plans : RunNow(t, plan)
  <2>1. \E r : th' = [th EXCEPT ![t] = r] /\ r.pc \in {"idle", "looking", "called"}
    BY <1>2, <1>6 DEF LookBack, SkipInProgress, SkipAtLimit, Release, RunNow
  <2> QED  BY <1>1, <2>1
<1>7. CASE Admit(t)
  <2>1. \E r : th' = [th EXCEPT ![t] = r]
    BY <1>7 DEF Admit
  <2> QED  BY <1>7, <2>1, OthersStay
<1>8. CASE Retry(t)
  <2>1. \E r : /\ th' = [th EXCEPT ![t] = r]
               /\ r.run = th[t].run /\ r.calls = th[t].calls
    <3>1. LET a == [th[t] EXCEPT !.attempt = @ + 1]
              b == [th[t] EXCEPT !.pc = "failed"]
          IN  /\ a.run = th[t].run /\ a.calls = th[t].calls
              /\ b.run = th[t].run /\ b.calls = th[t].calls
      BY DEF TypeInv, GoodThread, Thread
    <3> QED  BY <1>8, <3>1 DEF Retry
  <2>2. th[t].pc = "running"
    BY <1>8 DEF Retry
  <2>3. Stays(t)
    BY <2>1, <2>2, OthersStay DEF Stays, InBody, Current
  <2> QED  BY <2>1, <2>3, OthersStay
<1>9. ASSUME NEW status, NEW noGap, Finish(t, status, noGap)
      PROVE  \A u \in Threads : Stays(u) /\ (u # t => th'[u] = th[u])
  <2>1. \E r : /\ th' = [th EXCEPT ![t] = r]
               /\ r.run = th[t].run /\ r.calls = th[t].calls
    <3> DEFINE r == [th[t] EXCEPT !.pc = IF status = "success" THEN "returned" ELSE "raised"]
    <3>1. r.run = th[t].run /\ r.calls = th[t].calls
      BY DEF TypeInv, GoodThread, Thread
    <3>2. th' = [th EXCEPT ![t] = r]
      BY <1>9 DEF Finish
    <3> QED  BY <3>1, <3>2
  <2>2. th[t].pc \in {"running", "failed"}
    BY <1>9 DEF Finish
  <2>3. Stays(t)
    BY <2>1, <2>2, OthersStay DEF Stays, InBody, Current
  <2> QED  BY <2>1, <2>3, OthersStay
<1> QED  BY <1>4, <1>5, <1>6, <1>7, <1>8, <1>9 DEF ThreadStep

LEMMA StepMoves ==
  ASSUME TypeInv, [Next]_vars
  PROVE  \/ \A u \in Threads : Stays(u)
         \/ \E t \in Threads : Admit(t) /\ \A u \in Threads \ {t} : Stays(u)
<1>1. CASE \E t \in Threads : ThreadStep(t)
  BY <1>1, ThreadMoves
<1>2. CASE UNCHANGED th
  BY <1>2 DEF Stays, InBody, Current
<1>3. CASE BootDaemon \/ Tick \/ Tear \/ UNCHANGED vars
  BY <1>2, <1>3 DEF BootDaemon, Tick, Tear, vars
<1>4. ASSUME NEW p \in Procs, Gone(p)
      PROVE  \A u \in Threads : Stays(u)
  BY <1>4, MakingOutside DEF Gone, Stays, InBody, Current
<1> QED  BY <1>1, <1>3, <1>4 DEF Next, Crash, Exit

(* A process keeps its boot_id while one of its threads makes calls.        *)
LEMMA BootStep ==
  ASSUME TypeInv, Alive, [Next]_vars
  PROVE  Alive' /\ \A u \in Threads : KeepsBoot(u)
<1>1. ASSUME UNCHANGED boot, \A u \in Threads : Idle(u) => Idle(u)'
      PROVE  Alive' /\ \A u \in Threads : KeepsBoot(u)
  BY <1>1 DEF Alive, KeepsBoot, Up
<1>2. ASSUME UNCHANGED boot, NEW t \in Threads, Up(Owner[t]),
             \A u \in Threads \ {t} : th'[u] = th[u]
      PROVE  Alive' /\ \A u \in Threads : KeepsBoot(u)
  BY <1>2 DEF Alive, KeepsBoot, Up, Idle
<1>3. ASSUME NEW p \in Procs, Start(p), \A u \in Threads : Owner[u] # p => th'[u] = th[u]
      PROVE  Alive' /\ \A u \in Threads : KeepsBoot(u)
  <2>1. boot'[p] = boots + 1 /\ boot'[p] # 0 /\ \A q \in Procs \ {p} : boot'[q] = boot[q]
    BY <1>3 DEF Start, TypeInv
  <2>2. \A u \in Threads : Owner[u] = p => Idle(u)
    BY <1>3 DEF Start, Alive
  <2>3. \A u \in Threads : Owner[u] # p => Idle(u)' = Idle(u)
    BY <1>3 DEF Idle
  <2>4. \A u \in Threads : Owner[u] \in Procs
    BY OwnerType
  <2> QED  BY <2>1, <2>2, <2>3, <2>4 DEF Alive, KeepsBoot, Up
<1>4. ASSUME NEW t \in Threads, ThreadStep(t)
      PROVE  Alive' /\ \A u \in Threads : KeepsBoot(u)
  <2>1. \A u \in Threads \ {t} : th'[u] = th[u]
    BY <1>4, ThreadMoves
  <2>2. CASE \E j \in Jobs : CronFire(t, j) \/ CronMiss(t, j) \/ Poll(t, j)
    <3>1. Up(Owner[t])
      <4>1. Kind[t] = "cron" => Owner[t] = Daemon
        BY ThreadAssumption, OwnerType DEF Procs
      <4> QED  BY <2>2, <4>1 DEF CronFire, CronMiss, FiringDue, Poll
    <3>2. UNCHANGED boot
      BY <2>2 DEF CronFire, CronMiss, Poll, procs
    <3> QED  BY <1>2, <2>1, <3>1, <3>2
  <2>3. CASE \/ LookBack(t) \/ SkipInProgress(t) \/ SkipAtLimit(t)
             \/ Admit(t) \/ Retry(t) \/ Release(t)
             \/ \E status, noGap : Finish(t, status, noGap)
    <3>1. ~Idle(t)
      BY <2>3 DEF LookBack, SkipInProgress, SkipAtLimit, Admit, Retry, Release, Finish, Idle
    <3>2. UNCHANGED boot
      BY <2>3
      DEF LookBack, SkipInProgress, SkipAtLimit, Admit, Retry, Release, Finish, procs
    <3> QED  BY <1>2, <2>1, <3>1, <3>2 DEF Alive
  <2>4. CASE \E plan \in Plans : RunNow(t, plan)
    <3>1. Start(Owner[t]) /\ \A u \in Threads : Owner[u] # Owner[t] => th'[u] = th[u]
      BY <2>1, <2>4 DEF RunNow
    <3> QED  BY <1>3, <3>1, OwnerType
  <2> QED  BY <1>4, <2>2, <2>3, <2>4 DEF ThreadStep
<1>5. CASE BootDaemon
  BY <1>3, <1>5 DEF BootDaemon, Procs
<1>6. ASSUME NEW p \in Procs, Gone(p)
      PROVE  Alive' /\ \A u \in Threads : KeepsBoot(u)
  <2>1. \A u \in Threads :
          IF Owner[u] = p THEN Idle(u)'
          ELSE Idle(u)' = Idle(u) /\ boot'[Owner[u]] = boot[Owner[u]]
    BY <1>6, OwnerType, MakingOutside DEF Gone, Idle, TypeInv
  <2> QED  BY <2>1 DEF Alive, KeepsBoot, Up
<1>7. CASE Tick \/ Tear \/ UNCHANGED vars
  <2>1. UNCHANGED <<boot, th>>
    BY <1>7 DEF Tick, Tear, vars, procs
  <2> QED  BY <1>1, <2>1 DEF Idle
<1> QED  BY <1>4, <1>5, <1>6, <1>7 DEF Next, Crash, Exit

(* The record of a run's start carries the boot_id of the process whose     *)
(* thread is in its body.                                                   *)
OwnBoot ==
  \A t \in Threads : InBody(t) =>
    \A x \in Known : (x.status = "started" /\ x.run = th[t].run) => x.boot = boot[Owner[t]]

BootInv == RecordInv /\ Alive /\ OwnBoot

(* What Admit adds to what is known.                                        *)
LEMMA AdmitKnown ==
  ASSUME TypeInv, TypeInv', NEW t \in Threads, Admit(t)
  PROVE  Known' \subseteq Known \union {StartRecord(t, runs + 1)}
<1> DEFINE x == StartRecord(t, runs + 1)
<1>1. x \in Event
  BY NoteType DEF Admit, TypeInv
<1>2. PICK o \in ReadOutcome : /\ Admitted(t, Loaded(Owner[t], o))
                               /\ Record(Owner[t], o, x) \/ RecordLost(Owner[t], o, x)
  BY DEF Admit
<1>3. x.reason = Current(t).reason /\ x.job = Current(t).job /\ x.period = Current(t).period
  BY DEF StartRecord, Note
<1> HIDE DEF x
<1>4. Room(Loaded(Owner[t], o), x)
  BY <1>2, <1>3, OwnerType DEF Room, Admitted
<1>5. Copies' \subseteq Copies \union Added(x)
  BY <1>2, <1>4, RecordCopies, OwnerType DEF Added
<1> QED  BY <1>1, <1>5, KnownGrows DEF x

LEMMA AdmitEnters ==
  ASSUME TypeInv, NEW t \in Threads, Admit(t), InBody(t)'
  PROVE  /\ th'[t].pc = "running" /\ th'[t].run = runs + 1
         /\ Current(t)' = Current(t)
         /\ \E o \in ReadOutcome : /\ Admitted(t, Loaded(Owner[t], o))
                                  /\ Record(Owner[t], o, StartRecord(t, runs + 1))
<1> DEFINE r == [th[t] EXCEPT !.pc = "running", !.run = runs + 1]
<1>1. r.pc = "running" /\ r.run = runs + 1 /\ r.calls = th[t].calls
  BY DEF TypeInv, GoodThread, Thread
<1>2. th' # [th EXCEPT ![t] = IdleThread]
  BY MakingOutside DEF InBody, TypeInv
<1>3. /\ th' = [th EXCEPT ![t] = r]
      /\ \E o \in ReadOutcome : /\ Admitted(t, Loaded(Owner[t], o))
                               /\ Record(Owner[t], o, StartRecord(t, runs + 1))
  BY <1>2 DEF Admit
<1>4. th'[t] = r
  BY <1>3 DEF TypeInv
<1> QED  BY <1>1, <1>3, <1>4 DEF Current

(* A record that a step adds is not the start of a run that is going on.    *)
LEMMA BootInvStep == BootInv /\ [Next]_vars => BootInv'
<1> SUFFICES ASSUME BootInv, [Next]_vars PROVE BootInv'
  OBVIOUS
<1>1. /\ RecordInv' /\ Alive' /\ Adds /\ TypeInv /\ TypeInv' /\ RunsBound
      /\ \A u \in Threads : KeepsBoot(u)
  BY RecordStep, BootStep, StepAdds DEF BootInv, RecordInv
<1>2. runs \in Nat /\ \A u \in Threads : th[u].run \in Nat /\ th[u].run <= runs
  BY <1>1 DEF TypeInv, GoodThread, Thread, RunsBound
<1>3. \A x \in Known' : x \in Known \/ NewRecord(x)
  BY <1>1, KnownGrows DEF Adds, NewRecord
<1>4. ASSUME NEW u \in Threads, Stays(u), InBody(u)',
             NEW x \in Known', x.status = "started", x.run = th'[u].run
      PROVE  x.boot = boot'[Owner[u]]
  <2>1. InBody(u) /\ th'[u].run = th[u].run
    BY <1>4 DEF Stays
  <2>2. x \in Known
    BY <1>2, <1>3, <1>4, <2>1 DEF NewRecord
  <2>3. x.boot = boot[Owner[u]]
    BY <1>4, <2>1, <2>2 DEF BootInv, OwnBoot
  <2>4. ~Idle(u) /\ ~Idle(u)'
    BY <1>4, <2>1 DEF InBody, Idle
  <2> QED  BY <1>1, <2>3, <2>4 DEF KeepsBoot
<1>5. CASE \A u \in Threads : Stays(u)
  BY <1>1, <1>4, <1>5 DEF BootInv, OwnBoot
<1>6. ASSUME NEW t \in Threads, Admit(t), \A u \in Threads \ {t} : Stays(u)
      PROVE  BootInv'
  <2>1. ASSUME InBody(t)', NEW x \in Known', x.status = "started", x.run = th'[t].run
        PROVE  x.boot = boot'[Owner[t]]
    <3>1. th'[t].run = runs + 1
      BY <1>1, <1>6, <2>1, AdmitEnters
    <3>2. x \notin Known
      BY <1>2, <2>1, <3>1 DEF BootInv, RecordInv
    <3>3. x = StartRecord(t, runs + 1)
      BY <1>1, <1>6, <2>1, <3>2, AdmitKnown
    <3>4. x.boot = boot[Owner[t]]
      BY <3>3 DEF StartRecord, Note
    <3> QED  BY <1>6, <3>4 DEF Admit, procs
  <2> QED  BY <1>1, <1>4, <1>6, <2>1 DEF BootInv, OwnBoot
<1> QED  BY <1>1, <1>5, <1>6, StepMoves

LEMMA BootInit == Init => BootInv
<1> SUFFICES ASSUME Init PROVE BootInv
  OBVIOUS
<1>1. \A t \in Threads : Idle(t) /\ ~InBody(t)
  BY DEF Init, IdleThread, Idle, InBody
<1> QED  BY <1>1, RecordInit DEF BootInv, Alive, OwnBoot

(* A restarted daemon never forgives a run that is going on: a start it     *)
(* takes for interrupted (_interrupted_started_events) belongs to a process *)
(* that is gone, for any number of threads, restarts and faults of the      *)
(* file.  An immediate run beside the daemon is a process of its own, whose *)
(* running job the other does take for interrupted.                         *)
THEOREM VanishedRunsAreGone ==
  ASSUME Manuals = {}
  PROVE  Spec => []InterruptedRunsAreDead
<1>1. BootInv => InterruptedRunsAreDead
  <2> SUFFICES ASSUME BootInv, NEW p \in Procs, NEW t \in Threads, InBody(t),
                      NEW j \in Jobs, NEW x \in ToSet(disk),
                      x \in Interrupted(disk, j, x.period, boot[p], bootedAt[p]),
                      x.run = th[t].run
               PROVE  FALSE
    BY DEF InterruptedRunsAreDead
  <2>1. Owner[t] = p
    BY OwnerType DEF Procs
  <2>2. x \in Known /\ x.status = "started" /\ x.boot # boot[p]
    BY DEF Known, Copies, Interrupted, OpenStarts
  <2> QED  BY <2>1, <2>2 DEF BootInv, OwnBoot
<1> QED  BY <1>1, BootInit, BootInvStep, PTL DEF Spec

-----------------------------------------------------------------------------
(* The file as a ledger of runs                                             *)

(* The file has room: the next record drops none.                           *)
Roomy == Len(disk) < MaxEvents

LEMMA RoomyAppend ==
  ASSUME TypeInv, Roomy, NEW x \in Event
  PROVE  /\ Trim(Append(disk, x)) = Append(disk, x)
         /\ ToSet(Trim(Append(disk, x))) = ToSet(disk) \union {x}
<1>1. disk \in Seq(Event)
  BY DEF TypeInv, FileTypeOK
<1>2. Len(Append(disk, x)) = Len(disk) + 1 /\ Len(disk) \in Nat
  BY <1>1, AppendProperties, LenProperties
<1>3. Trim(Append(disk, x)) = Append(disk, x)
  BY <1>2, MaxEventsAssumption DEF Roomy, Trim
<1> QED  BY <1>1, <1>3, AppendSet

(* Whole, and with room, a section adds its record to the file or leaves it.*)
LEMMA SectionRecords ==
  ASSUME ~ReadFaults, WholeInv, Roomy, NEW p \in Procs, NEW o, NEW x \in Event
  PROVE  /\ Record(p, o, x) => ToSet(disk') = ToSet(disk) \union {x}
         /\ RecordLost(p, o, x) => disk' = disk
         /\ Record(p, o, x) \/ RecordLost(p, o, x) => Loaded(p, o) = disk
<1>1. Record(p, o, x) \/ RecordLost(p, o, x) => o = "ok"
  BY DEF WholeInv, Record, RecordLost, Reload, Reads
<1> QED  BY <1>1, RoomyAppend DEF WholeInv, Record, RecordLost, Loaded

(* The three kinds of step the ledger tells apart.                          *)
Plain ==
  /\ \A u \in Threads : Stays(u)
  /\ \/ ToSet(disk') = ToSet(disk)
     \/ \E x \in Event : /\ x.status \in {"retry", "skipped_limit"}
                         /\ ToSet(disk') = ToSet(disk) \union {x}

Begins(t) ==
  /\ \A u \in Threads \ {t} : Stays(u)
  /\ th'[t].pc = "running" /\ th'[t].run = runs + 1 /\ Current(t)' = Current(t)
  /\ th[t].pc = "called"
  /\ Admitted(t, disk)
  /\ ToSet(disk') = ToSet(disk) \union {StartRecord(t, runs + 1)}

Ends(t) ==
  /\ \A u \in Threads : Stays(u)
  /\ th[t].pc \in {"running", "failed"} /\ th'[t].pc \notin {"running", "failed"}
  /\ \E status \in {"success", "error"}, noGap \in BOOLEAN :
       ToSet(disk') = ToSet(disk) \union {EndRecord(t, status, noGap)}

LEMMA AdmitKind ==
  ASSUME ~ReadFaults, WholeInv, Roomy, NEW t \in Threads, Admit(t)
  PROVE  Begins(t) \/ Plain
<1>1. TypeInv /\ StartRecord(t, runs + 1) \in Event /\ \A u \in Threads \ {t} : Stays(u)
  <2>1. TypeInv /\ StartRecord(t, runs + 1) \in Event
    BY NoteType DEF Admit, WholeInv, TypeInv
  <2>2. \E r : th' = [th EXCEPT ![t] = r]
    BY DEF Admit
  <2> QED  BY <2>1, <2>2, OthersStay
<1>2. CASE InBody(t)'
  <2>1. PICK o \in ReadOutcome : /\ Admitted(t, Loaded(Owner[t], o))
                                 /\ Record(Owner[t], o, StartRecord(t, runs + 1))
    BY <1>1, <1>2, AdmitEnters
  <2>2. /\ Loaded(Owner[t], o) = disk
        /\ ToSet(disk') = ToSet(disk) \union {StartRecord(t, runs + 1)}
    BY <1>1, <2>1, SectionRecords, OwnerType
  <2>3. /\ th'[t].pc = "running" /\ th'[t].run = runs + 1 /\ Current(t)' = Current(t)
    BY <1>1, <1>2, AdmitEnters
  <2> QED  BY <1>1, <2>1, <2>2, <2>3 DEF Begins, Admit
<1>3. CASE ~InBody(t)'
  <2> DEFINE r == [th[t] EXCEPT !.pc = "running", !.run = runs + 1]
  <2>1. th' # [th EXCEPT ![t] = r]
    <3>1. r.pc = "running"
      BY <1>1 DEF TypeInv, GoodThread, Thread
    <3> HIDE DEF r
    <3> QED  BY <1>1, <1>3, <3>1 DEF InBody, TypeInv
  <2>2. \E o : RecordLost(Owner[t], o, StartRecord(t, runs + 1))
    BY <2>1 DEF Admit
  <2>3. disk' = disk
    BY <1>1, <2>2, SectionRecords, OwnerType
  <2> QED  BY <1>1, <1>3, <2>3 DEF Plain, Stays
<1> QED  BY <1>2, <1>3

LEMMA FinishKind ==
  ASSUME ~ReadFaults, WholeInv, Roomy, NEW t \in Threads,
         NEW status \in {"success", "error"}, NEW noGap \in BOOLEAN,
         Finish(t, status, noGap), \A u \in Threads : Stays(u)
  PROVE  Ends(t) \/ Plain
<1>1. EndRecord(t, status, noGap) \in Event
  BY NoteType DEF Finish, WholeInv, Status
<1>2. th[t].pc \in {"running", "failed"} /\ th'[t].pc \notin {"running", "failed"}
  BY DEF Finish, WholeInv, TypeInv, GoodThread, Thread
<1>3. \/ ToSet(disk') = ToSet(disk) \union {EndRecord(t, status, noGap)}
      \/ disk' = disk
  BY <1>1, SectionRecords, OwnerType DEF Finish
<1> QED  BY <1>2, <1>3 DEF Ends, Plain

LEMMA StepKind ==
  ASSUME ~ReadFaults, ~Tears, WholeInv, Roomy, [Next]_vars
  PROVE  Plain \/ \E t \in Threads : Begins(t) \/ Ends(t)
<1>1. (\E t \in Threads : Admit(t)) \/ \A u \in Threads : Stays(u)
  BY StepMoves DEF WholeInv
<1>2. CASE \E t \in Threads : Admit(t)
  BY <1>2, AdmitKind
<1>3. ASSUME \A u \in Threads : Stays(u), disk' = disk
      PROVE  Plain
  BY <1>3 DEF Plain
<1>4. ASSUME \A u \in Threads : Stays(u), NEW t \in Threads, ThreadStep(t), ~Admit(t)
      PROVE  Plain \/ Ends(t)
  <2>1. CASE \E j \in Jobs : CronFire(t, j) \/ CronMiss(t, j) \/ Poll(t, j)
    <3>1. disk' = disk
      BY <2>1 DEF CronFire, CronMiss, Poll, file, Refresh
    <3> QED  BY <1>3, <1>4, <3>1
  <2>2. CASE LookBack(t) \/ SkipInProgress(t) \/ Release(t) \/ \E plan \in Plans : RunNow(t, plan)
    <3>1. disk' = disk
      BY <2>2 DEF LookBack, SkipInProgress, Release, RunNow, Start, file, Refresh
    <3> QED  BY <1>3, <1>4, <3>1
  <2>3. ASSUME NEW status \in {"retry", "skipped_limit"}, th[t].pc # "idle", th[t].pc # "looking",
               \E o : \/ Record(Owner[t], o, Note(t, status))
                      \/ RecordLost(Owner[t], o, Note(t, status))
        PROVE  Plain
    <3>1. Note(t, status) \in Event /\ Note(t, status).status = status
      BY <2>3, NoteType DEF WholeInv, Status, Note
    <3>2. \/ ToSet(disk') = ToSet(disk) \union {Note(t, status)}
          \/ disk' = disk
      BY <2>3, <3>1, SectionRecords, OwnerType
    <3> QED  BY <1>4, <2>3, <3>1, <3>2 DEF Plain
  <2>4. CASE SkipAtLimit(t)
    BY <2>3, <2>4 DEF SkipAtLimit
  <2>5. CASE Retry(t)
    BY <2>3, <2>5 DEF Retry
  <2>6. CASE \E status \in {"success", "error"}, noGap \in BOOLEAN : Finish(t, status, noGap)
    BY <1>4, <2>6, FinishKind
  <2> QED  BY <1>4, <2>1, <2>2, <2>4, <2>5, <2>6 DEF ThreadStep
<1>5. CASE BootDaemon
  <2>1. disk' = disk /\ th' = th
    BY <1>5 DEF BootDaemon, Start, Refresh
  <2> QED  BY <1>3, <2>1 DEF Stays, InBody, Current
<1>6. CASE \E p \in Procs : Crash(p) \/ Exit(p)
  <2>1. disk' = disk /\ \A t \in Threads : ~Admit(t)
    <3>1. disk' = disk /\ runs' = runs
      BY <1>6 DEF Crash, Exit, Gone, file, counters
    <3>2. runs \in Nat
      BY DEF WholeInv, TypeInv
    <3>3. \A t \in Threads : Admit(t) => runs' = runs + 1
      BY DEF Admit
    <3> QED  BY <3>1, <3>2, <3>3
  <2> QED  BY <1>1, <1>3, <2>1
<1>7. CASE Tick \/ UNCHANGED vars
  <2>1. disk' = disk /\ th' = th
    BY <1>7 DEF Tick, vars, file
  <2> QED  BY <1>3, <2>1 DEF Stays, InBody, Current
<1>8. ~Tear
  BY DEF Tear
<1> QED  BY <1>1, <1>2, <1>4, <1>5, <1>6, <1>7, <1>8 DEF Next

(* Every run in its body has its start in the file, every recorded end has  *)
(* the start it belongs to, and a run that has not come to its end has no   *)
(* end in the file: with runs told apart by run_id, that is what makes the  *)
(* records a ledger.                                                        *)
Starts == {x \in ToSet(disk) : x.status = "started"}
Endings == {x \in ToSet(disk) : x.status \in {"success", "error"}}

SameRun(x, y) ==
  x.run = y.run /\ x.job = y.job /\ x.period = y.period /\ x.reason = y.reason

IsStartOf(x, t) ==
  /\ x.run = th[t].run /\ x.job = Current(t).job
  /\ x.period = Current(t).period /\ x.reason = Current(t).reason

RunsApart ==
  \A t, u \in Threads : (t # u /\ InBody(t) /\ InBody(u)) => th[t].run # th[u].run

StartsRecorded == \A t \in Threads : InBody(t) => \E x \in Starts : IsStartOf(x, t)

EndsHaveStarts == \A y \in Endings : \E x \in Starts : SameRun(x, y)

GoingOnIsOpen ==
  \A t \in Threads : th[t].pc \in {"running", "failed"} =>
    \A y \in Endings : y.run # th[t].run

BookInv ==
  /\ RecordInv /\ torn = FALSE
  /\ RunsApart /\ StartsRecorded /\ EndsHaveStarts /\ GoingOnIsOpen

LEMMA BookTypes ==
  ASSUME BookInv
  PROVE  /\ WholeInv /\ RunsBound /\ runs \in Nat
         /\ \A t \in Threads : th[t].run \in Nat /\ th[t].run <= runs
         /\ ToSet(disk) \subseteq Event
         /\ \A x \in ToSet(disk) : x.run \in Nat /\ x.run <= runs
         /\ \A x, y \in Starts : x.run = y.run => x = y
<1>1. TypeInv /\ RunsBound
  BY DEF BookInv, RecordInv
<1>2. ToSet(disk) \subseteq Known /\ Known \subseteq Event
  BY <1>1, CopiesType DEF Known, Copies
<1>3. \A x \in Known : x.run <= runs
  BY DEF BookInv, RecordInv
<1>4. \A x, y \in Starts : x.run = y.run => x = y
  BY <1>2 DEF Starts, BookInv, RecordInv
<1> QED
  BY <1>1, <1>2, <1>3, <1>4
  DEF WholeInv, BookInv, TypeInv, GoodThread, Thread, RunsBound, Event

LEMMA PlainBook ==
  ASSUME BookInv, Plain
  PROVE  (RunsApart /\ StartsRecorded /\ EndsHaveStarts /\ GoingOnIsOpen)'
<1>1. Starts' = Starts /\ Endings' = Endings
  BY DEF Plain, Starts, Endings
<1>2. \A u \in Threads : InBody(u)' =>
        InBody(u) /\ th'[u].run = th[u].run /\ Current(u)' = Current(u)
  BY DEF Plain, Stays
<1>3. RunsApart' /\ EndsHaveStarts'
  BY <1>1, <1>2 DEF RunsApart, EndsHaveStarts, SameRun, BookInv
<1>4. StartsRecorded'
  BY <1>1, <1>2 DEF StartsRecorded, IsStartOf, BookInv
<1>5. GoingOnIsOpen'
  BY <1>1 DEF GoingOnIsOpen, BookInv, Plain, Stays, InBody
<1> QED  BY <1>3, <1>4, <1>5

LEMMA BeginBook ==
  ASSUME BookInv, NEW t \in Threads, Begins(t)
  PROVE  (RunsApart /\ StartsRecorded /\ EndsHaveStarts /\ GoingOnIsOpen)'
<1> DEFINE x == StartRecord(t, runs + 1)
<1>1. /\ x.status = "started" /\ x.run = runs + 1
      /\ x.job = Current(t).job /\ x.period = Current(t).period
      /\ x.reason = Current(t).reason
  BY DEF StartRecord, Note
<1>2. ToSet(disk') = ToSet(disk) \union {x}
  BY DEF Begins
<1> HIDE DEF x
<1>3. Starts' = Starts \union {x} /\ Endings' = Endings
  BY <1>1, <1>2 DEF Starts, Endings
<1>4. \A u \in Threads \ {t} : InBody(u)' =>
        InBody(u) /\ th'[u].run = th[u].run /\ Current(u)' = Current(u)
  BY DEF Begins, Stays
<1>5. th'[t].run = runs + 1 /\ Current(t)' = Current(t)
  BY DEF Begins
<1>6. /\ runs \in Nat
      /\ \A u \in Threads : th[u].run \in Nat /\ th[u].run # runs + 1
      /\ \A y \in Endings : y.run # runs + 1
  <2>1. \A y \in Endings : y.run \in Nat /\ y.run <= runs
    BY BookTypes DEF Endings
  <2> QED  BY <2>1, BookTypes
<1>7. RunsApart'
  BY <1>4, <1>5, <1>6 DEF RunsApart, BookInv
<1>8. EndsHaveStarts'
  BY <1>3 DEF EndsHaveStarts, SameRun, BookInv
<1>9. StartsRecorded'
  BY <1>1, <1>3, <1>4, <1>5 DEF StartsRecorded, IsStartOf, BookInv
<1>10. GoingOnIsOpen'
  BY <1>3, <1>5, <1>6 DEF GoingOnIsOpen, BookInv, Begins, Stays, InBody
<1> QED  BY <1>7, <1>8, <1>9, <1>10

LEMMA EndBook ==
  ASSUME BookInv, NEW t \in Threads, Ends(t)
  PROVE  (RunsApart /\ StartsRecorded /\ EndsHaveStarts /\ GoingOnIsOpen)'
<1>1. PICK status \in {"success", "error"}, noGap \in BOOLEAN :
        ToSet(disk') = ToSet(disk) \union {EndRecord(t, status, noGap)}
  BY DEF Ends
<1> DEFINE y == EndRecord(t, status, noGap)
<1>2. y.status \in {"success", "error"} /\ IsStartOf(y, t)
  BY DEF EndRecord, Note, IsStartOf
<1>3. InBody(t)
  BY DEF Ends, InBody
<1> HIDE DEF y
<1>4. Starts' = Starts /\ Endings' = Endings \union {y}
  BY <1>1, <1>2 DEF Starts, Endings, y
<1>5. \A u \in Threads : InBody(u)' =>
        InBody(u) /\ th'[u].run = th[u].run /\ Current(u)' = Current(u)
  BY DEF Ends, Stays
<1>6. RunsApart'
  BY <1>5 DEF RunsApart, BookInv
<1>7. StartsRecorded'
  BY <1>4, <1>5 DEF StartsRecorded, IsStartOf, BookInv
<1>8. EndsHaveStarts'
  <2>1. \E x \in Starts : SameRun(x, y)
    BY <1>2, <1>3 DEF BookInv, StartsRecorded, IsStartOf, SameRun
  <2> QED  BY <1>4, <2>1 DEF EndsHaveStarts, SameRun, BookInv
<1>9. GoingOnIsOpen'
  <2> SUFFICES ASSUME NEW u \in Threads, th'[u].pc \in {"running", "failed"}, NEW z \in Endings'
               PROVE  z.run # th'[u].run
    BY DEF GoingOnIsOpen
  <2>1. /\ u # t /\ InBody(u)' /\ InBody(u) /\ th'[u].run = th[u].run
        /\ th[u].pc \in {"running", "failed"}
    BY DEF Ends, Stays, InBody
  <2>2. CASE z \in Endings
    BY <2>1, <2>2 DEF BookInv, GoingOnIsOpen
  <2>3. CASE z = y
    BY <1>2, <1>3, <2>1, <2>3 DEF BookInv, RunsApart, IsStartOf
  <2> QED  BY <1>4, <2>2, <2>3
<1> QED  BY <1>6, <1>7, <1>8, <1>9

LEMMA BookStep ==
  ASSUME ~ReadFaults, ~Tears
  PROVE  BookInv /\ Roomy /\ [Next]_vars => BookInv'
<1> SUFFICES ASSUME BookInv, Roomy, [Next]_vars PROVE BookInv'
  OBVIOUS
<1>1. RecordInv' /\ torn' = FALSE /\ WholeInv
  BY RecordStep, StepAppends, BookTypes DEF BookInv
<1>2. (RunsApart /\ StartsRecorded /\ EndsHaveStarts /\ GoingOnIsOpen)'
  BY <1>1, StepKind, PlainBook, BeginBook, EndBook
<1> QED  BY <1>1, <1>2 DEF BookInv

LEMMA BookInit == Init => BookInv
<1> SUFFICES ASSUME Init PROVE BookInv
  OBVIOUS
<1>1. \A t \in Threads : ~InBody(t) /\ th[t].pc \notin {"running", "failed"}
  BY DEF Init, IdleThread, InBody
<1>2. ToSet(disk) = {}
  BY EmptySeq DEF ToSet, Init
<1> QED
  BY <1>1, <1>2, RecordInit
  DEF BookInv, RunsApart, StartsRecorded, EndsHaveStarts, GoingOnIsOpen, Endings, Init

(* A body runs only while the file holds the record of its start, with      *)
(* saves that fail, processes that die and immediate runs beside the        *)
(* daemon; the file must be readable, undamaged and not yet at the 5000     *)
(* records from which on it drops its oldest.                               *)
THEOREM StartsAreRecorded ==
  ASSUME ~ReadFaults, ~Tears
  PROVE  Spec /\ []Roomy => []RunningIsRecorded
<1>1. BookInv => RunningIsRecorded
  BY DEF BookInv, StartsRecorded, IsStartOf, Starts, RunningIsRecorded
<1> QED  BY <1>1, BookInit, BookStep, PTL DEF Spec

(* The sets of the ledger: an entry is open exactly while its start is.     *)
OpenNow == {x \in Starts : \A y \in Endings : y.run # x.run}

EntriesAreThose ==
  /\ LedgerClosed = {LedgerEntry(y) : y \in Endings}
  /\ LedgerOpen = {LedgerEntry(x) : x \in OpenNow}

LEMMA EntrySets == BookInv => EntriesAreThose
<1> SUFFICES ASSUME BookInv PROVE EntriesAreThose
  OBVIOUS
<1>1. LedgerClosed = {LedgerEntry(y) : y \in Endings}
  BY DEF LedgerClosed, Endings
<1>2. LedgerOpen = {LedgerEntry(x) : x \in Starts} \ LedgerClosed
  BY DEF LedgerOpen, Starts
<1>3. ASSUME NEW x \in Starts
      PROVE  LedgerEntry(x) \in LedgerClosed <=> \E y \in Endings : y.run = x.run
  <2>1. ASSUME NEW y \in Endings, LedgerEntry(y) = LedgerEntry(x)
        PROVE  y.run = x.run
    BY <2>1 DEF LedgerEntry
  <2>2. ASSUME NEW y \in Endings, y.run = x.run
        PROVE  LedgerEntry(y) = LedgerEntry(x)
    <3>1. PICK s \in Starts : SameRun(s, y)
      BY DEF BookInv, EndsHaveStarts
    <3>2. s = x
      BY <2>2, <3>1, BookTypes DEF SameRun
    <3> QED  BY <3>1, <3>2 DEF SameRun, LedgerEntry
  <2> QED  BY <1>1, <2>1, <2>2
<1> QED  BY <1>1, <1>2, <1>3 DEF EntriesAreThose, OpenNow

LEMMA EntrySetsAfter == BookInv' => EntriesAreThose'
BY EntrySets, PTL

LEMMA LedgerCardinality == \A S : Ledger!Cardinality(S) = Cardinality(S)
BY DEF Ledger!Cardinality, Cardinality

LEMMA SameSize ==
  ASSUME NEW S, NEW T, IsFiniteSet(S), NEW f \in [S -> T],
         \A a, b \in S : f[a] = f[b] => a = b,
         \A y \in T : \E a \in S : f[a] = y
  PROVE  IsFiniteSet(T) /\ Cardinality(T) = Cardinality(S)
BY Fun_IsBij, FS_Bijection DEF ExistsBijection

(* What the queue counts is what the ledger counts.                         *)
LEMMA CountsAgree ==
  ASSUME BookInv, NEW j \in Jobs, NEW k
  PROVE  /\ Cardinality(Ledger!Of(LedgerOpen, j, k)) = Cardinality(OpenStarts(disk, j, k))
         /\ Cardinality(Ledger!Of(LedgerClosed, j, k)) = Cardinality(FinishedRuns(disk, j, k))
         /\ Cardinality(OpenStarts(disk, j, k)) \in Nat
         /\ Cardinality(FinishedRuns(disk, j, k)) \in Nat
         /\ IsFiniteSet(OpenStarts(disk, j, k))
<1>1. IsFiniteSet(ToSet(disk))
  BY BookTypes, SetFinite DEF WholeInv, TypeInv, FileTypeOK
<1> DEFINE O == OpenStarts(disk, j, k)
           F == FinishedRuns(disk, j, k)
           Open == Ledger!Of(LedgerOpen, j, k)
           Closed == Ledger!Of(LedgerClosed, j, k)
           ends == {y \in Endings : y.job = j /\ y.period = k}
<1>2. F = {y.run : y \in ends}
  BY DEF FinishedRuns, RecordsOf, Endings
<1>3. \A x \in Starts, y \in Endings :
        (x.run = y.run /\ x.job = j /\ x.period = k) => y \in ends
  <2> SUFFICES ASSUME NEW x \in Starts, NEW y \in Endings, x.run = y.run,
                      x.job = j, x.period = k
               PROVE  y \in ends
    OBVIOUS
  <2>1. PICK s \in Starts : SameRun(s, y)
    BY DEF BookInv, EndsHaveStarts
  <2>2. s = x
    BY <2>1, BookTypes DEF SameRun
  <2> QED  BY <2>1, <2>2 DEF SameRun
<1>4. O = {x \in Starts : /\ x.job = j /\ x.period = k
                          /\ \A y \in Endings : y.run # x.run}
  <2>1. O = {x \in Starts : x.job = j /\ x.period = k /\ x.run \notin F}
    BY DEF OpenStarts, RecordsOf, Starts
  <2> HIDE DEF F, O
  <2> QED  BY <1>2, <1>3, <2>1
<1>5. Open = {LedgerEntry(x) : x \in O}
  BY <1>4, EntrySets DEF Ledger!Of, LedgerEntry, EntriesAreThose, OpenNow
<1>6. Closed = {LedgerEntry(y) : y \in ends}
  BY EntrySets DEF Ledger!Of, LedgerEntry, EntriesAreThose
<1>7. IsFiniteSet(O) /\ IsFiniteSet(ends)
  <2>1. O \in SUBSET ToSet(disk) /\ ends \in SUBSET ToSet(disk)
    BY DEF OpenStarts, RecordsOf, Endings
  <2> HIDE DEF O, ends
  <2> QED  BY <1>1, <2>1, FS_Subset
<1>8. IsFiniteSet(Open) /\ Cardinality(Open) = Cardinality(O)
  <2> DEFINE f == [x \in O |-> LedgerEntry(x)]
  <2>1. \A x, y \in O : LedgerEntry(x) = LedgerEntry(y) => x = y
    BY <1>4, BookTypes DEF LedgerEntry
  <2> HIDE DEF O, Open
  <2>2. f \in [O -> Open] /\ \A y \in Open : \E x \in O : f[x] = y
    BY <1>5
  <2>3. \A x, y \in O : f[x] = f[y] => x = y
    BY <2>1
  <2> HIDE DEF f
  <2> QED  BY <1>7, <2>2, <2>3, SameSize
<1>9. IsFiniteSet(F) /\ IsFiniteSet(Closed) /\ Cardinality(Closed) = Cardinality(F)
  <2>1. \A x, y \in ends : x.run = y.run => LedgerEntry(x) = LedgerEntry(y)
    <3> SUFFICES ASSUME NEW x \in ends, NEW y \in ends, x.run = y.run
                 PROVE  LedgerEntry(x) = LedgerEntry(y)
      OBVIOUS
    <3>1. PICK a \in Starts, b \in Starts : SameRun(a, x) /\ SameRun(b, y)
      BY DEF BookInv, EndsHaveStarts
    <3>2. a = b
      BY <3>1, BookTypes DEF SameRun
    <3> QED  BY <3>1, <3>2 DEF SameRun, LedgerEntry
  <2>2. \A y : LedgerEntry(y).run = y.run
    BY DEF LedgerEntry
  <2>3. IsFiniteSet(Closed)
    <3> DEFINE g == [y \in ends |-> LedgerEntry(y)]
    <3> HIDE DEF ends, Closed
    <3>1. g \in [ends -> Closed] /\ \A c \in Closed : \E y \in ends : g[y] = c
      BY <1>6
    <3> HIDE DEF g
    <3> QED  BY <1>7, <3>1, Fun_IsSurj, FS_Surjection
  <2> DEFINE f == [c \in Closed |-> c.run]
  <2> HIDE DEF ends, Closed, F
  <2>4. \A c \in Closed : c.run \in F
    BY <1>2, <1>6, <2>2
  <2>5. f \in [Closed -> F] /\ \A r \in F : \E c \in Closed : f[c] = r
    BY <1>2, <1>6, <2>2, <2>4
  <2>6. \A c, d \in Closed : f[c] = f[d] => c = d
    BY <1>6, <2>1, <2>2
  <2> HIDE DEF f
  <2> QED  BY <2>3, <2>5, <2>6, SameSize
<1> HIDE DEF O, F, Open, Closed
<1> QED  BY <1>7, <1>8, <1>9, FS_CardinalityType DEF O, F, Open, Closed

(* The limit the queue applies is the ledger's: what it forgives are open   *)
(* runs, and no more of them than the job's pardon.                         *)
LEMMA AdmittedMayBegin ==
  ASSUME BookInv, NEW t \in Threads, th[t].pc = "called", Admitted(t, disk)
  PROVE  \/ Current(t).reason = "manual"
         \/ Ledger!MayBegin(Current(t).job, Current(t).period)
<1> DEFINE j == Current(t).job
           k == Current(t).period
           p == Owner[t]
           f == Forgiven(disk, j, k, boot[p], bootedAt[p])
           I == Interrupted(disk, j, k, boot[p], bootedAt[p])
           O == OpenStarts(disk, j, k)
           F == FinishedRuns(disk, j, k)
<1>1. j \in Jobs
  BY BookTypes, CurrentType DEF WholeInv, Call
<1>2. /\ IsFiniteSet(O) /\ Cardinality(O) \in Nat /\ Cardinality(F) \in Nat
      /\ Cardinality(Ledger!Of(LedgerOpen, j, k)) = Cardinality(O)
      /\ Cardinality(Ledger!Of(LedgerClosed, j, k)) = Cardinality(F)
  BY <1>1, CountsAgree
<1>3. Cardinality(I) \in Nat /\ Cardinality(I) <= Cardinality(O)
  <2>1. I \in SUBSET O
    BY DEF Interrupted
  <2> HIDE DEF I, O
  <2> QED  BY <1>2, <2>1, FS_Subset, FS_CardinalityType
<1>4. f \in 0 .. Pardoned(j) /\ f <= Cardinality(O) /\ Config[j].max \in Nat
  <2>1. Config[j].forgiven \in Nat /\ Config[j].max \in Nat /\ Config[j].rerun \in BOOLEAN
    BY <1>1, ConfigAssumption DEF JobConfig
  <2>2. CASE Config[j].rerun
    <3>1. f = Lesser(Cardinality(I), Config[j].forgiven) /\ Pardoned(j) = Config[j].forgiven
      BY <2>2 DEF Forgiven, Pardoned
    <3> HIDE DEF f, I, O, j
    <3> QED  BY <1>2, <1>3, <2>1, <3>1 DEF Lesser
  <2>3. CASE ~Config[j].rerun
    <3>1. f = 0 /\ Pardoned(j) = 0
      BY <2>3 DEF Forgiven, Pardoned
    <3> HIDE DEF f, I, O, j
    <3> QED  BY <1>2, <2>1, <3>1
  <2> QED  BY <2>1, <2>2, <2>3
<1>5. CASE Current(t).reason # "manual"
  <2>1. Cardinality(F) + Cardinality(O) - f < Config[j].max
    BY <1>5 DEF Admitted, CountFor, ExecutionCount
  <2>2. /\ [i \in Jobs |-> Config[i].max][j] = Config[j].max
        /\ [i \in Jobs |-> IF Config[i].rerun THEN Config[i].forgiven ELSE 0][j] = Pardoned(j)
    BY <1>1 DEF Pardoned
  <2> HIDE DEF f, O, F, j, k
  <2>3. Cardinality(O) + Cardinality(F) - f < Config[j].max
    BY <1>2, <1>4, <2>1
  <2>4. /\ f \in 0 .. [i \in Jobs |-> IF Config[i].rerun THEN Config[i].forgiven ELSE 0][j]
        /\ f <= Cardinality(Ledger!Of(LedgerOpen, j, k))
        /\ Cardinality(Ledger!Of(LedgerOpen, j, k)) + Cardinality(Ledger!Of(LedgerClosed, j, k)) - f
             < [i \in Jobs |-> Config[i].max][j]
    BY <1>2, <1>4, <2>2, <2>3
  <2>5. Ledger!MayBegin(j, k)
    BY <2>4, LedgerCardinality DEF Ledger!MayBegin
  <2> QED  BY <2>5 DEF j, k
<1> QED  BY <1>5

LEMMA BeginRefines ==
  ASSUME BookInv, BookInv', NEW t \in Threads, Begins(t)
  PROVE  Ledger!Next
<1> DEFINE x == StartRecord(t, runs + 1)
           r == LedgerEntry(x)
<1>1. /\ x.status = "started" /\ x.run = runs + 1
      /\ x.job = Current(t).job /\ x.period = Current(t).period
      /\ x.reason = Current(t).reason
  BY DEF StartRecord, Note
<1>2. ToSet(disk') = ToSet(disk) \union {x}
  BY DEF Begins
<1> HIDE DEF x
<1>3. Starts' = Starts \union {x} /\ Endings' = Endings
  BY <1>1, <1>2 DEF Starts, Endings
<1>4. runs \in Nat /\ \A y \in Starts \union Endings : y.run # runs + 1
  BY BookTypes DEF Starts, Endings
<1>5. \A y : LedgerEntry(y).run = y.run
  BY DEF LedgerEntry
<1>6. \A s \in LedgerOpen \union LedgerClosed : s.run # r.run
  <2> HIDE DEF r
  <2>1. r.run = runs + 1
    BY <1>1, <1>5 DEF r
  <2>2. \A s \in LedgerOpen \union LedgerClosed : \E y \in Starts \union Endings : s = LedgerEntry(y)
    BY EntrySets DEF EntriesAreThose, OpenNow
  <2> QED  BY <1>4, <1>5, <2>1, <2>2
<1>7. LedgerOpen' = LedgerOpen \union {r} /\ LedgerClosed' = LedgerClosed
  <2>1. \A y \in Endings : y.run # x.run
    BY <1>1, <1>4
  <2>2. OpenNow' = OpenNow \union {x}
    BY <1>3, <2>1 DEF OpenNow
  <2> QED  BY <1>3, <2>2, EntrySets, EntrySetsAfter DEF EntriesAreThose
<1>8. r.forced \/ Ledger!MayBegin(r.job, r.period)
  <2>1. r.job = Current(t).job /\ r.period = Current(t).period
        /\ r.forced = (Current(t).reason = "manual")
    BY <1>1 DEF LedgerEntry
  <2>2. \/ Current(t).reason = "manual"
        \/ Ledger!MayBegin(Current(t).job, Current(t).period)
    BY AdmittedMayBegin DEF Begins
  <2> HIDE DEF r
  <2> QED  BY <2>1, <2>2
<1> HIDE DEF r
<1>9. r \in LedgerOpen' \ LedgerOpen
  BY <1>6, <1>7
<1>10. Ledger!Begin(r)
  BY <1>6, <1>7, <1>8 DEF Ledger!Begin
<1> QED  BY <1>9, <1>10 DEF Ledger!Next

LEMMA EndRefines ==
  ASSUME BookInv, BookInv', NEW t \in Threads, Ends(t)
  PROVE  Ledger!Next
<1>1. PICK status \in {"success", "error"}, noGap \in BOOLEAN :
        ToSet(disk') = ToSet(disk) \union {EndRecord(t, status, noGap)}
  BY DEF Ends
<1> DEFINE y == EndRecord(t, status, noGap)
           r == LedgerEntry(y)
<1>2. y.status \in {"success", "error"} /\ IsStartOf(y, t)
  BY DEF EndRecord, Note, IsStartOf
<1> HIDE DEF y
<1>3. Starts' = Starts /\ Endings' = Endings \union {y}
  BY <1>1, <1>2 DEF Starts, Endings, y
<1>4. PICK x \in Starts : IsStartOf(x, t)
  BY DEF Ends, InBody, BookInv, StartsRecorded
<1>5. r = LedgerEntry(x) /\ x.run = y.run
  BY <1>2, <1>4 DEF IsStartOf, LedgerEntry
<1>6. \A z \in Endings : z.run # y.run
  BY <1>2 DEF BookInv, GoingOnIsOpen, Ends, IsStartOf
<1>7. r \in LedgerOpen
  BY <1>4, <1>5, <1>6, EntrySets DEF EntriesAreThose, OpenNow
<1>8. \A z : LedgerEntry(z).run = z.run
  BY DEF LedgerEntry
<1> HIDE DEF r
<1>9. LedgerClosed' = LedgerClosed \union {r}
  BY <1>3, EntrySets, EntrySetsAfter DEF r, EntriesAreThose
<1>10. LedgerOpen' = LedgerOpen \ {r}
  <2>1. \A s \in Starts : s.run = y.run <=> LedgerEntry(s) = r
    BY <1>4, <1>5, <1>8, BookTypes
  <2>2. OpenNow' = {z \in OpenNow : z.run # y.run}
    BY <1>3 DEF OpenNow
  <2>3. OpenNow \subseteq Starts
    BY DEF OpenNow
  <2> QED  BY <2>1, <2>2, <2>3, EntrySets, EntrySetsAfter DEF EntriesAreThose
<1> QED  BY <1>7, <1>9, <1>10 DEF Ledger!Next, Ledger!Close

(* The queue keeps the ledger: under the same conditions on the file, every *)
(* step of the processes begins one run within its limit, ends one run that *)
(* was open, or leaves the ledger as it was, so what is proved of RunLedger *)
(* holds of the records the scheduler leaves behind.                        *)
THEOREM QueueKeepsLedger ==
  ASSUME ~ReadFaults, ~Tears
  PROVE  Spec /\ []Roomy => LedgerSpec
<1>1. Init => Ledger!Init
  <2> SUFFICES ASSUME Init PROVE Ledger!Init
    OBVIOUS
  <2>1. ToSet(disk) = {}
    BY EmptySeq DEF ToSet, Init
  <2>2. LedgerOpen = {} /\ LedgerClosed = {}
    BY <2>1 DEF LedgerOpen, LedgerClosed
  <2> QED  BY <2>2 DEF Ledger!Init
<1>2. BookInv /\ BookInv' /\ Roomy /\ [Next]_vars => [Ledger!Next]_(Ledger!vars)
  <2> SUFFICES ASSUME BookInv, BookInv', Roomy, [Next]_vars
               PROVE  Ledger!Next \/ UNCHANGED Ledger!vars
    OBVIOUS
  <2>1. WholeInv
    BY BookTypes
  <2>2. CASE Plain
    <3>1. Starts' = Starts /\ Endings' = Endings
      BY <2>2 DEF Plain, Starts, Endings
    <3>2. LedgerOpen' = LedgerOpen /\ LedgerClosed' = LedgerClosed
      BY <3>1, EntrySets, EntrySetsAfter DEF EntriesAreThose, OpenNow
    <3> QED  BY <3>2 DEF Ledger!vars
  <2> QED  BY <2>1, <2>2, StepKind, BeginRefines, EndRefines
<1> QED  BY <1>1, <1>2, BookInit, BookStep, PTL DEF Spec, LedgerSpec, Ledger!Spec
-----------------------------------------------------------------------------
(* The ledger bounds the runs of a period, for any limits.                  *)

(* The limits the queue gives its ledger.                                   *)
RunLimit == [j \in Jobs |-> Config[j].max]
RunPardon == [j \in Jobs |-> IF Config[j].rerun THEN Config[j].forgiven ELSE 0]

LEMMA LimitsAreNat ==
  \A j \in Jobs : RunLimit[j] \in Nat /\ RunPardon[j] \in Nat
BY ConfigAssumption DEF RunLimit, RunPardon, JobConfig

(* LimitHolds and MayBegin as they read with the queue's limits.            *)
WithinLimits ==
  \A j \in Jobs, k \in Nat :
    Cardinality(Ledger!Unforced(j, k)) <= RunLimit[j] + RunPardon[j]

LEMMA LimitHoldsIs == Ledger!LimitHolds <=> WithinLimits
BY LedgerCardinality DEF Ledger!LimitHolds, WithinLimits, RunLimit, RunPardon

LEMMA MayBeginIs ==
  ASSUME NEW j, NEW k, Ledger!MayBegin(j, k)
  PROVE  \E f \in 0 .. RunPardon[j] :
           Cardinality(Ledger!Of(LedgerOpen, j, k))
             + Cardinality(Ledger!Of(LedgerClosed, j, k)) - f < RunLimit[j]
BY LedgerCardinality DEF Ledger!MayBegin, RunLimit, RunPardon

(* The runs of a period that are open and closed never overlap and are      *)
(* finitely many: only then do the two counts of MayBegin add up to the     *)
(* number of runs that LimitHolds bounds.                                   *)
LedgerInv ==
  /\ IsFiniteSet(LedgerOpen) /\ IsFiniteSet(LedgerClosed)
  /\ LedgerOpen \intersect LedgerClosed = {}
  /\ WithinLimits

LEMMA PartsFinite ==
  ASSUME NEW S, IsFiniteSet(S), NEW j, NEW k
  PROVE  IsFiniteSet(Ledger!Of(S, j, k)) /\ Cardinality(Ledger!Of(S, j, k)) \in Nat
<1>1. Ledger!Of(S, j, k) \in SUBSET S
  BY DEF Ledger!Of
<1> QED  BY <1>1, FS_Subset, FS_CardinalityType

LEMMA BeginKeepsLimit ==
  ASSUME LedgerInv, NEW r \in LedgerOpen' \ LedgerOpen, Ledger!Begin(r)
  PROVE  LedgerInv'
<1>1. /\ r \notin LedgerOpen \union LedgerClosed
      /\ LedgerOpen' = LedgerOpen \union {r} /\ LedgerClosed' = LedgerClosed
  BY DEF Ledger!Begin
<1>2. /\ IsFiniteSet(LedgerOpen') /\ IsFiniteSet(LedgerClosed')
      /\ LedgerOpen' \intersect LedgerClosed' = {}
  BY <1>1, FS_AddElement DEF LedgerInv
<1>3. ASSUME NEW j \in Jobs, NEW k \in Nat
      PROVE  Cardinality(Ledger!Unforced(j, k))' <= RunLimit[j] + RunPardon[j]
  <2> DEFINE before == Ledger!Unforced(j, k)
             runsOf == Ledger!Of(LedgerOpen \union LedgerClosed, j, k)
  <2>1. IsFiniteSet(LedgerOpen \union LedgerClosed)
    BY FS_Union DEF LedgerInv
  <2>2. IsFiniteSet(runsOf) /\ before \in SUBSET runsOf
    BY <2>1, PartsFinite DEF Ledger!Unforced
  <2>3. /\ IsFiniteSet(before) /\ Cardinality(before) \in Nat
        /\ Cardinality(before) <= Cardinality(runsOf)
    BY <2>2, FS_Subset, FS_CardinalityType
  <2>4. Cardinality(before) <= RunLimit[j] + RunPardon[j]
    BY DEF LedgerInv, WithinLimits
  <2>5. CASE r.forced \/ r.job # j \/ r.period # k
    <3>1. Ledger!Unforced(j, k)' = before
      BY <1>1, <2>5 DEF Ledger!Unforced, Ledger!Of
    <3> QED  BY <2>4, <3>1
  <2>6. CASE ~r.forced /\ r.job = j /\ r.period = k
    <3>1. Ledger!Unforced(j, k)' = before \union {r}
      BY <1>1, <2>6 DEF Ledger!Unforced, Ledger!Of
    <3>2. Cardinality(before \union {r}) <= Cardinality(before) + 1
      BY <2>3, FS_AddElement
    <3> DEFINE O == Ledger!Of(LedgerOpen, j, k)
               C == Ledger!Of(LedgerClosed, j, k)
    <3>3. PICK f \in 0 .. RunPardon[j] : Cardinality(O) + Cardinality(C) - f < RunLimit[j]
      BY <2>6, MayBeginIs DEF Ledger!Begin
    <3>4. /\ runsOf = O \union C /\ O \intersect C = {}
          /\ IsFiniteSet(O) /\ IsFiniteSet(C)
          /\ Cardinality(O) \in Nat /\ Cardinality(C) \in Nat
      <4>1. runsOf = O \union C /\ O \intersect C = {}
        BY DEF Ledger!Of, LedgerInv
      <4>2. /\ IsFiniteSet(O) /\ Cardinality(O) \in Nat
            /\ IsFiniteSet(C) /\ Cardinality(C) \in Nat
        BY PartsFinite DEF LedgerInv
      <4> QED  BY <4>1, <4>2
    <3>5. RunLimit[j] \in Nat /\ RunPardon[j] \in Nat
      BY LimitsAreNat
    <3> HIDE DEF before, runsOf, O, C
    <3>6. Cardinality(runsOf) = Cardinality(O) + Cardinality(C)
      <4>1. Cardinality(O \union C)
              = Cardinality(O) + Cardinality(C) - Cardinality(O \intersect C)
        BY <3>4, FS_Union
      <4>2. Cardinality(O \intersect C) = 0
        BY <3>4, FS_EmptySet
      <4>3. Cardinality(runsOf) = Cardinality(O) + Cardinality(C) - 0
        BY <3>4, <4>1, <4>2
      <4> QED  BY <3>4, <4>3
    <3>7. Cardinality(runsOf) < RunLimit[j] + RunPardon[j]
      BY <3>3, <3>4, <3>5, <3>6
    <3>8. Cardinality(before \union {r}) \in Nat
      BY <2>3, FS_AddElement, FS_CardinalityType
    <3> QED  BY <2>3, <3>1, <3>2, <3>4, <3>5, <3>6, <3>7, <3>8
  <2> QED  BY <2>5, <2>6
<1> QED  BY <1>2, <1>3 DEF LedgerInv, WithinLimits

LEMMA CloseKeepsLimit ==
  ASSUME LedgerInv, NEW r \in LedgerOpen, Ledger!Close(r)
  PROVE  LedgerInv'
<1>1. LedgerOpen' \union LedgerClosed' = LedgerOpen \union LedgerClosed /\ LedgerOpen' \intersect LedgerClosed' = {}
  BY DEF Ledger!Close, LedgerInv
<1>2. IsFiniteSet(LedgerOpen') /\ IsFiniteSet(LedgerClosed')
  BY FS_AddElement, FS_RemoveElement DEF Ledger!Close, LedgerInv
<1>3. \A j, k : Ledger!Unforced(j, k)' = Ledger!Unforced(j, k)
  BY <1>1 DEF Ledger!Unforced, Ledger!Of
<1> QED  BY <1>1, <1>2, <1>3 DEF LedgerInv, WithinLimits

(* In the records the scheduler leaves behind, a period is attempted on the *)
(* job's own account at most as often as max_executions_per_period and      *)
(* max_interrupted_reruns_per_period together allow: forgiving never        *)
(* accumulates, because a forgiven run stays in the ledger and is only left *)
(* out once.  The conditions are those of QueueKeepsLedger.                 *)
THEOREM LimitKept ==
  ASSUME ~ReadFaults, ~Tears
  PROVE  Spec /\ []Roomy => []Ledger!LimitHolds
<1>1. Ledger!Init => LedgerInv
  <2> SUFFICES ASSUME Ledger!Init PROVE LedgerInv
    OBVIOUS
  <2>1. \A j \in Jobs, k \in Nat : Ledger!Unforced(j, k) = {}
    BY DEF Ledger!Init, Ledger!Unforced, Ledger!Of
  <2>2. Cardinality({}) = 0 /\ IsFiniteSet({})
    BY FS_EmptySet
  <2>3. ASSUME NEW j \in Jobs, NEW k \in Nat
        PROVE  Cardinality(Ledger!Unforced(j, k)) <= RunLimit[j] + RunPardon[j]
    <3>1. Cardinality(Ledger!Unforced(j, k)) = 0
      BY <2>1, <2>2
    <3>2. RunLimit[j] \in Nat /\ RunPardon[j] \in Nat
      BY LimitsAreNat
    <3> QED  BY <3>1, <3>2
  <2> QED  BY <2>2, <2>3 DEF Ledger!Init, LedgerInv, WithinLimits
<1>2. LedgerInv /\ [Ledger!Next]_(Ledger!vars) => LedgerInv'
  <2> SUFFICES ASSUME LedgerInv, [Ledger!Next]_(Ledger!vars) PROVE LedgerInv'
    OBVIOUS
  <2>1. CASE \E r \in LedgerOpen : Ledger!Close(r)
    BY <2>1, CloseKeepsLimit
  <2>2. CASE \E r \in LedgerOpen' \ LedgerOpen : Ledger!Begin(r)
    BY <2>2, BeginKeepsLimit
  <2>3. CASE UNCHANGED Ledger!vars
    BY <2>3 DEF Ledger!vars, LedgerInv, WithinLimits, Ledger!Unforced, Ledger!Of
  <2> QED  BY <2>1, <2>2, <2>3 DEF Ledger!Next
<1>3. LedgerInv => Ledger!LimitHolds
  BY LimitHoldsIs DEF LedgerInv
<1> QED  BY <1>1, <1>2, <1>3, QueueKeepsLedger, PTL DEF LedgerSpec, Ledger!Spec
=============================================================================
