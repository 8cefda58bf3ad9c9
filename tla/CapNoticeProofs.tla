--------------------------- MODULE CapNoticeProofs ---------------------------
(***************************************************************************)
(* What holds of the notices in every instance of CapNotice, with any      *)
(* limits of the jobs, any room in the file and with every failure: the    *)
(* types of the state, that no notice is sent again, that none is sent     *)
(* about a period that succeeded, and that a day marked as scanned has     *)
(* nothing left to tell.                                                   *)
(***************************************************************************)
EXTENDS CapNotice, SequenceTheorems, TLAPS

Span == Config[job].span

-----------------------------------------------------------------------------
(* Periods and days *)

\* The quotient: where a time lies among the multiples of a length
LEMMA Quotient ==
  ASSUME NEW t \in Int, NEW d \in Nat \ {0}
  PROVE  /\ t \div d \in Int
         /\ (t \div d) * d <= t /\ t < (t \div d) * d + d
         /\ t >= 0 => t \div d \in Nat
OBVIOUS

\* A multiple is reached when its number is
LEMMA Reached ==
  ASSUME NEW t \in Int, NEW d \in Nat \ {0}, NEW p \in Int
  PROVE  /\ p * d <= t <=> p <= t \div d
         /\ (p * d) \div d = p
<1>1. \A u, q \in Int : q * d <= u <=> q <= u \div d
  <2> SUFFICES ASSUME NEW u \in Int, NEW q \in Int
               PROVE  q * d <= u <=> q <= u \div d
    OBVIOUS
  <2> DEFINE w == u \div d
  <2>1. w \in Int /\ w * d <= u /\ u < w * d + d
    BY Quotient
  <2> HIDE DEF w
  <2>2. CASE q <= w
    <3>1. q * d <= w * d
      BY <2>1, <2>2
    <3>2. q * d \in Int /\ w * d \in Int
      BY <2>1
    <3> QED  BY <3>1, <3>2, <2>1, <2>2
  <2>3. CASE q >= w + 1
    <3>1. q * d >= w * d + d
      <4>1. q * d >= (w + 1) * d
        BY <2>1, <2>3
      <4>2. (w + 1) * d = w * d + d
        BY <2>1
      <4> QED  BY <4>1, <4>2
    <3>2. q * d \in Int /\ w * d \in Int
      BY <2>1
    <3> QED  BY <3>1, <3>2, <2>1, <2>3
  <2> QED  BY <2>1, <2>2, <2>3 DEF w
<1>2. p * d <= t <=> p <= t \div d
  BY <1>1
<1>3. (p * d) \div d = p
  <2> DEFINE u == p * d
             w == u \div d
  <2>1. u \in Int
    OBVIOUS
  <2>2. w \in Int /\ w * d <= u /\ u < w * d + d
    BY <2>1, Quotient
  <2>3. p <= w
    BY <1>1, <2>1
  <2>4. w <= p
    <3>1. w * d <= p * d
      BY <2>2
    <3>2. ~(w >= p + 1)
      <4> SUFFICES ASSUME w >= p + 1 PROVE FALSE
        OBVIOUS
      <4> HIDE DEF w, u
      <4>1. w * d >= (p + 1) * d
        BY <2>2
      <4>2. (p + 1) * d = p * d + d
        OBVIOUS
      <4>3. p * d \in Int /\ w * d \in Int
        BY <2>2
      <4> QED  BY <3>1, <4>1, <4>2, <4>3
    <3> QED  BY <2>2, <3>2
  <2> QED  BY <2>2, <2>3, <2>4
<1> QED  BY <1>2, <1>3

LEMMA QuotientGrows ==
  ASSUME NEW a \in Int, NEW b \in Int, NEW d \in Nat \ {0}, a <= b
  PROVE  a \div d <= b \div d
<1>1. a \div d \in Int /\ (a \div d) * d <= a /\ (a \div d) * d \in Int
  BY Quotient
<1>2. (a \div d) * d <= b
  BY <1>1
<1> QED  BY <1>1, <1>2, Reached

\* What is below a multiple lies in an earlier stretch
LEMMA Below ==
  ASSUME NEW a \in Int, NEW p \in Int, NEW d \in Nat \ {0}, a < p * d
  PROVE  a \div d < p
<1>1. ~(p <= a \div d)
  BY Reached
<1> QED  BY <1>1, Quotient

\* Times of one day are of one week
LEMMA SameWeek ==
  ASSUME NEW a \in Nat, NEW b \in Nat, NEW d \in Nat \ {0}, NEW s \in Nat \ {0},
         s % d = 0, a \div d = b \div d
  PROVE  a \div s <= b \div s
<1> DEFINE k == s \div d
           q == a \div s
<1>1. k \in Int /\ s = k * d
  <2>1. k \in Int /\ s % d \in 0 .. (d - 1)
    BY Quotient
  <2>2. s = d * k + (s % d)
    OBVIOUS
  <2> HIDE DEF k
  <2>3. d * k = k * d /\ k * d \in Int
    BY <2>1
  <2>4. s % d = 0
    OBVIOUS
  <2> QED  BY <2>1, <2>2, <2>3, <2>4
<1>2. q \in Int /\ q * s <= a
  BY Quotient
<1> HIDE DEF k, q
<1> DEFINE m == q * k
<1>3. q * s = m * d /\ m \in Int
  BY <1>1, <1>2
<1> HIDE DEF m
<1>4. m <= a \div d
  BY <1>2, <1>3, Reached
<1>5. m * d <= b
  BY <1>3, <1>4, Reached
<1>6. q <= b \div s
  BY <1>2, <1>3, <1>5, Reached
<1> QED  BY <1>6 DEF q

-----------------------------------------------------------------------------
(* The inductive invariant.  A period whose success, or whose notice, was  *)
(* recorded is known by the record or, when that has left the file, passed *)
(* by: no look reaches it any more, or the file has no record as old.      *)

Records ==
  [job : Jobs \cup {"other"}, period : Nat,
   status : {"started", "error", "success", "notice"}, run : Nat, boot : Nat,
   at : Nat \cup {-1}, noGap : BOOLEAN]

Polls ==
  [pc : {"idle", "judge", "send", "record"},
   find : {"none", "capped", "ended", "missed", "past"},
   at : 0 .. Horizon, periods : SUBSET Periods]

TypeInv ==
  /\ job \in Jobs /\ now \in 0 .. Horizon
  /\ disk \in Seq(Records) /\ Len(disk) \in 1 .. MaxEvents
  /\ up \in BOOLEAN /\ boots \in 1 .. MaxBoots /\ bootedAt \in 0 .. now
  /\ running \in {NotRunning} \cup (Nat \X Periods)
  /\ runs \in Nat /\ others \in Nat
  /\ sent \subseteq Periods /\ scanned \subseteq Periods
  /\ poll \in Polls
  /\ told \subseteq Periods \X (1 .. boots)
  /\ noted \subseteq Periods /\ done \subseteq Periods
  /\ ~up => /\ running = NotRunning /\ poll = Idle /\ sent = {} /\ scanned = {}
            /\ boots < MaxBoots

\* A record of the job, and what is at work, is of a period that has begun
Begun ==
  /\ \A x \in ToSet(disk) : x.job = job => x.period * Span <= x.at
  /\ running # NotRunning => running[2] * Span <= now
  /\ \A p \in poll.periods : p * Span <= poll.at
  /\ poll.at <= now

\* The poller looks for what its job is looked after for
Looks ==
  /\ poll.pc = "idle" => poll = Idle
  /\ poll # Idle => poll.find \in IF job \in Weekly THEN {"capped", "ended"} ELSE {"missed", "past"}
  /\ \A d \in scanned : d <= DayOf(now)

HasNotice(p) == \E x \in RecordsOf(disk, job, p) : x.status = "notice"

PassedBy(p) ==
  /\ p < Period(job, Base)
  /\ \/ p * Span < Reach(Base)
     \/ \A y \in ToSet(disk) : DayOf(p * Span) <= DayOf(y.at)

Remembered ==
  /\ \A p \in noted : HasNotice(p) \/ PassedBy(p)
  /\ \A p \in done : HasSuccess(disk, job, p) \/ PassedBy(p)

Told ==
  /\ up => \A p \in Periods : <<p, boots>> \in told => p \in sent
  /\ poll.pc = "send" => \A p \in poll.periods : p \notin sent /\ p \notin noted

BaseInv == TypeInv /\ Begun /\ Looks

-----------------------------------------------------------------------------
(* Facts about the settings, the file and what a look finds *)

LEMMA Lengths ==
  ASSUME job \in Jobs
  PROVE  /\ Span \in Nat \ {0} /\ Day \in Nat \ {0} /\ DayRange \in Nat
         /\ job \in Weekly => Span % Day = 0
         /\ job \notin Weekly => Span = Day
BY ConfigAssumption, NoticeAssumption DEF JobConfig, Span

LEMMA Scaled ==
  ASSUME NEW a \in Int, NEW b \in Int, NEW d \in Nat \ {0}
  PROVE  a <= b <=> a * d <= b * d
<1>1. b * d \in Int /\ (b * d) \div d = b
  BY Reached
<1> QED  BY <1>1, Reached

\* The reach of a look begins with a day, no later than the period it goes by
LEMMA ReachIs ==
  ASSUME job \in Jobs, NEW t \in Nat
  PROVE  /\ Period(job, t) \in Nat /\ DayOf(t) \in Nat
         /\ Reach(t) \in Int /\ \E m \in Int : Reach(t) = m * Day
         /\ job \in Weekly => Reach(t) = (Period(job, t) - 1) * Span
         /\ job \notin Weekly => Reach(t) = (DayOf(t) - DayRange) * Day
<1>1. Span \in Nat \ {0} /\ Day \in Nat \ {0} /\ DayRange \in Nat
  BY Lengths
<1>2. Period(job, t) \in Nat /\ DayOf(t) \in Nat
  BY <1>1, Quotient DEF Period, DayOf, Span
<1>3. CASE job \in Weekly
  <2>1. Reach(t) = (Period(job, t) - 1) * Span
    BY <1>3 DEF Reach, Span
  <2> DEFINE k == Span \div Day
  <2>2. k \in Int /\ Span % Day = 0
    BY <1>1, <1>3, Quotient, Lengths
  <2>3. Span = Day * k + (Span % Day)
    BY <1>1
  <2> HIDE DEF k
  <2>4. Span = Day * k
    BY <1>1, <2>2, <2>3
  <2> DEFINE q == Period(job, t) - 1
  <2>5. q \in Int /\ Reach(t) = q * Span
    BY <1>2, <2>1
  <2> HIDE DEF q
  <2> DEFINE w == q * k
  <2>6. q * Span = w * Day /\ w \in Int
    BY <1>1, <2>2, <2>4, <2>5
  <2>7. q * Span \in Int
    BY <1>1, <2>5
  <2> HIDE DEF w
  <2>8. \E i \in Int : Reach(t) = i * Day
    BY <2>5, <2>6
  <2>9. Reach(t) \in Int
    BY <2>5, <2>7
  <2> QED  BY <1>2, <1>3, <2>1, <2>8, <2>9, Zenon
<1>4. CASE job \notin Weekly
  <2>1. Reach(t) = (DayOf(t) - DayRange) * Day
    BY <1>4 DEF Reach
  <2>2. DayOf(t) - DayRange \in Int
    BY <1>1, <1>2
  <2> QED  BY <1>1, <1>2, <1>4, <2>1, <2>2
<1> QED  BY <1>3, <1>4

LEMMA OutOfReach ==
  ASSUME job \in Jobs, NEW t \in Nat, NEW p \in Int, p * Span < Reach(t)
  PROVE  /\ p < Period(job, t)
         /\ job \in Weekly => p < Period(job, t) - 1
         /\ job \notin Weekly => p < DayOf(t) - DayRange
<1>1. Span \in Nat \ {0} /\ Day \in Nat \ {0} /\ DayRange \in Nat
  BY Lengths
<1>2. Period(job, t) \in Nat /\ DayOf(t) \in Nat
  BY ReachIs
<1>3. \A q \in Int : p * Span < q * Span => p < q
  <2> SUFFICES ASSUME NEW q \in Int, p * Span < q * Span PROVE p < q
    OBVIOUS
  <2>1. p * Span \in Int /\ q * Span \in Int
    BY <1>1
  <2>2. q <= p => q * Span <= p * Span
    BY <1>1, Scaled
  <2> QED  BY <2>1, <2>2
<1>4. CASE job \in Weekly
  <2>1. p * Span < (Period(job, t) - 1) * Span
    BY <1>4, ReachIs
  <2>2. Period(job, t) - 1 \in Int
    BY <1>2
  <2>3. p < Period(job, t) - 1
    BY <1>3, <2>1, <2>2
  <2> QED  BY <1>2, <1>4, <2>3
<1>5. CASE job \notin Weekly
  <2>1. Span = Day /\ Reach(t) = (DayOf(t) - DayRange) * Day
    BY <1>5, ReachIs, Lengths
  <2>2. DayOf(t) - DayRange \in Int
    BY <1>1, <1>2
  <2>3. p < DayOf(t) - DayRange
    BY <1>3, <2>1, <2>2
  <2>4. Period(job, t) = DayOf(t)
    BY <2>1 DEF Period, DayOf, Span
  <2> QED  BY <1>1, <1>2, <1>5, <2>3, <2>4
<1> QED  BY <1>4, <1>5

LEMMA ReachGrows ==
  ASSUME job \in Jobs, NEW s \in Nat, NEW t \in Nat, s <= t
  PROVE  Reach(s) <= Reach(t) /\ Period(job, s) <= Period(job, t)
<1>1. Span \in Nat \ {0} /\ Day \in Nat \ {0} /\ DayRange \in Nat
  BY Lengths
<1>2. /\ Period(job, s) \in Nat /\ Period(job, t) \in Nat
      /\ DayOf(s) \in Nat /\ DayOf(t) \in Nat
  BY ReachIs
<1>3. Period(job, s) <= Period(job, t) /\ DayOf(s) <= DayOf(t)
  <2>1. s \div Span <= t \div Span
    BY <1>1, QuotientGrows
  <2>2. s \div Day <= t \div Day
    BY <1>1, QuotientGrows
  <2> QED  BY <2>1, <2>2 DEF Period, DayOf, Span
<1>4. CASE job \in Weekly
  <2>1. Period(job, s) - 1 \in Int /\ Period(job, t) - 1 \in Int
        /\ Period(job, s) - 1 <= Period(job, t) - 1
    BY <1>2, <1>3
  <2>2. (Period(job, s) - 1) * Span <= (Period(job, t) - 1) * Span
    BY <1>1, <2>1, Scaled
  <2> QED  BY <1>3, <1>4, <2>2, ReachIs
<1>5. CASE job \notin Weekly
  <2>1. DayOf(s) - DayRange \in Int /\ DayOf(t) - DayRange \in Int
        /\ DayOf(s) - DayRange <= DayOf(t) - DayRange
    BY <1>1, <1>2, <1>3
  <2>2. (DayOf(s) - DayRange) * Day <= (DayOf(t) - DayRange) * Day
    BY <1>1, <2>1, Scaled
  <2> QED  BY <1>3, <1>5, <2>2, ReachIs
<1> QED  BY <1>4, <1>5

\* What is in a sequence
LEMMA Members ==
  ASSUME NEW S, NEW e \in Seq(S)
  PROVE  /\ ToSet(e) \subseteq S
         /\ \A i \in 1 .. Len(e) : e[i] \in ToSet(e)
         /\ \A x \in ToSet(e) : \E i \in 1 .. Len(e) : e[i] = x
         /\ e # <<>> => Head(e) = e[1] /\ 1 \in 1 .. Len(e)
BY DEF ToSet

\* A record is added: only the oldest one may leave
LEMMA Added ==
  ASSUME TypeInv, NEW r \in Records, Add(r)
  PROVE  /\ disk' \in Seq(Records) /\ Len(disk') \in 1 .. MaxEvents
         /\ ToSet(disk') \subseteq ToSet(disk) \cup {r}
         /\ r \in ToSet(disk')
         /\ \A x \in ToSet(disk) : x \in ToSet(disk') \/ (x = Head(disk) /\ MayLeave(x))
         /\ Head(disk') = Head(disk) \/ MayLeave(Head(disk))
<1> DEFINE n == Len(disk)
           a == Append(disk, r)
<1>1. disk \in Seq(Records) /\ n \in 1 .. MaxEvents /\ MaxEvents \in Nat \ {0}
  BY MaxEventsAssumption DEF TypeInv
<1>2. /\ a \in Seq(Records) /\ Len(a) = n + 1 /\ a[n + 1] = r
      /\ \A i \in 1 .. n : a[i] = disk[i]
  BY <1>1
<1>3. disk' = Trim(a) /\ (n = MaxEvents => MayLeave(Head(disk)))
  BY DEF Add
<1>4. /\ \A i \in 1 .. n : disk[i] \in ToSet(disk)
      /\ \A x \in ToSet(disk) : \E i \in 1 .. n : disk[i] = x
      /\ Head(disk) = disk[1] /\ 1 \in 1 .. n
  BY <1>1, Members
<1> HIDE DEF n, a
<1>5. CASE n # MaxEvents
  <2>1. disk' = a
    BY <1>1, <1>2, <1>3, <1>5 DEF Trim
  <2>2. /\ \A i \in 1 .. (n + 1) : disk'[i] \in ToSet(disk')
        /\ \A x \in ToSet(disk') : \E i \in 1 .. (n + 1) : disk'[i] = x
        /\ Head(disk') = disk'[1]
    <3>1. a \in Seq(Records) /\ Len(a) = n + 1 /\ a # <<>>
      BY <1>1, <1>2
    <3>2. /\ \A i \in 1 .. Len(a) : a[i] \in ToSet(a)
          /\ \A x \in ToSet(a) : \E i \in 1 .. Len(a) : a[i] = x
      BY <3>1, Members
    <3>3. Head(a) = a[1]
      BY <3>1, Members
    <3> QED  BY <2>1, <3>1, <3>2, <3>3
  <2>3. ToSet(disk') \subseteq ToSet(disk) \cup {r}
    <3> SUFFICES ASSUME NEW x \in ToSet(disk') PROVE x \in ToSet(disk) \cup {r}
      OBVIOUS
    <3>1. PICK i \in 1 .. (n + 1) : disk'[i] = x
      BY <2>2
    <3>2. CASE i = n + 1
      BY <1>2, <2>1, <3>1, <3>2
    <3>3. CASE i # n + 1
      <4>1. i \in 1 .. n
        BY <1>1, <3>1, <3>3
      <4> QED  BY <1>2, <1>4, <2>1, <3>1, <4>1
    <3> QED  BY <3>2, <3>3
  <2>4. r \in ToSet(disk')
    <3>1. n + 1 \in 1 .. (n + 1)
      BY <1>1
    <3> QED  BY <1>2, <2>1, <2>2, <3>1
  <2>5. \A x \in ToSet(disk) : x \in ToSet(disk')
    <3> SUFFICES ASSUME NEW x \in ToSet(disk) PROVE x \in ToSet(disk')
      OBVIOUS
    <3>1. PICK i \in 1 .. n : disk[i] = x
      BY <1>4
    <3>2. i \in 1 .. (n + 1)
      BY <1>1, <3>1
    <3> QED  BY <1>2, <2>1, <2>2, <3>1, <3>2
  <2>6. Head(disk') = Head(disk)
    BY <1>2, <1>4, <2>1, <2>2
  <2>7. disk' \in Seq(Records) /\ Len(disk') \in 1 .. MaxEvents
    BY <1>1, <1>2, <1>5, <2>1
  <2> QED  BY <2>3, <2>4, <2>5, <2>6, <2>7
<1>6. CASE n = MaxEvents
  <2>1. disk' = SubSeq(a, 2, n + 1)
    BY <1>1, <1>2, <1>3, <1>6 DEF Trim
  <2>2. /\ disk' \in Seq(Records) /\ Len(disk') = n
        /\ \A i \in 1 .. n : disk'[i] = a[i + 1]
    BY <1>1, <1>2, <2>1, SubSeqProperties
  <2>3. /\ \A i \in 1 .. n : disk'[i] \in ToSet(disk')
        /\ \A x \in ToSet(disk') : \E i \in 1 .. n : disk'[i] = x
    BY <2>2, Members
  <2>4. ToSet(disk') \subseteq ToSet(disk) \cup {r}
    <3> SUFFICES ASSUME NEW x \in ToSet(disk') PROVE x \in ToSet(disk) \cup {r}
      OBVIOUS
    <3>1. PICK i \in 1 .. n : a[i + 1] = x
      BY <2>2, <2>3
    <3>2. CASE i = n
      BY <1>2, <3>1, <3>2
    <3>3. CASE i # n
      <4>1. i + 1 \in 1 .. n
        BY <1>1, <3>1, <3>3
      <4> QED  BY <1>2, <1>4, <3>1, <4>1
    <3> QED  BY <3>2, <3>3
  <2>5. r \in ToSet(disk')
    <3>1. n \in 1 .. n
      BY <1>1
    <3> QED  BY <1>2, <2>2, <2>3, <3>1
  <2>6. \A x \in ToSet(disk) : x \in ToSet(disk') \/ x = Head(disk)
    <3> SUFFICES ASSUME NEW x \in ToSet(disk), x # Head(disk) PROVE x \in ToSet(disk')
      OBVIOUS
    <3>1. PICK i \in 1 .. n : disk[i] = x
      BY <1>4
    <3>2. i # 1
      BY <1>4, <3>1
    <3>3. i - 1 \in 1 .. n /\ (i - 1) + 1 = i
      BY <1>1, <3>1, <3>2
    <3>4. disk'[i - 1] = x
      BY <1>2, <2>2, <3>1, <3>3
    <3> QED  BY <2>3, <3>3, <3>4
  <2>7. Len(disk') \in 1 .. MaxEvents
    BY <1>1, <1>6, <2>2
  <2> QED  BY <1>3, <1>6, <2>2, <2>4, <2>5, <2>6, <2>7
<1> QED  BY <1>5, <1>6

LEMMA BaseIs ==
  ASSUME BaseInv
  PROVE  /\ job \in Jobs /\ Base \in Nat /\ Base <= now /\ now \in Nat
         /\ now \in 0 .. Horizon /\ Base \in 0 .. Horizon
         /\ poll # Idle => Base = poll.at
         /\ poll = Idle => Base = now
<1>1. job \in Jobs /\ now \in 0 .. Horizon /\ Horizon \in Nat /\ poll \in Polls /\ poll.at <= now
  BY NoticeAssumption DEF BaseInv, TypeInv, Begun
<1>2. poll.at \in 0 .. Horizon
  BY <1>1 DEF Polls
<1> QED  BY <1>1, <1>2 DEF Base

\* A step that leaves the file alone, or adds one record to it
Written == disk' = disk \/ \E r \in Records : Add(r) /\ r.at >= Base

LEMMA FileStep ==
  ASSUME BaseInv, Written
  PROVE  /\ \A x \in ToSet(disk) : x \in ToSet(disk') \/ MayLeave(x)
         /\ \A y \in ToSet(disk') : y \in ToSet(disk) \/ (y.at \in Nat /\ y.at >= Base)
         /\ Head(disk') = Head(disk) \/ MayLeave(Head(disk))
         /\ Head(disk) \in ToSet(disk) /\ Head(disk') \in ToSet(disk')
         /\ \A x \in ToSet(disk) : x \in Records
<1>1. TypeInv /\ disk \in Seq(Records) /\ disk # <<>>
  BY DEF BaseInv, TypeInv
<1>2. Head(disk) \in ToSet(disk) /\ ToSet(disk) \subseteq Records
  BY <1>1, Members
<1>3. CASE disk' = disk
  BY <1>2, <1>3
<1>4. CASE \E r \in Records : Add(r) /\ r.at >= Base
  <2>1. PICK r \in Records : Add(r) /\ r.at >= Base
    BY <1>4
  <2>2. /\ disk' \in Seq(Records) /\ Len(disk') \in 1 .. MaxEvents
        /\ ToSet(disk') \subseteq ToSet(disk) \cup {r}
        /\ \A x \in ToSet(disk) : x \in ToSet(disk') \/ (x = Head(disk) /\ MayLeave(x))
        /\ Head(disk') = Head(disk) \/ MayLeave(Head(disk))
    BY <1>1, <2>1, Added
  <2>3. disk' # <<>>
    BY <2>2
  <2>4. Head(disk') \in ToSet(disk')
    BY <2>2, <2>3, Members
  <2>5. r.at \in Nat
    BY <2>1, BaseIs DEF Records
  <2> QED  BY <1>2, <2>1, <2>2, <2>4, <2>5
<1> QED  BY <1>3, <1>4 DEF Written

LEMMA RecordTimes ==
  ASSUME BaseInv, NEW x \in ToSet(disk)
  PROVE  /\ x.at \in Int /\ x.at >= -1 /\ x.period \in Nat
         /\ x.job = job => x.period * Span <= x.at /\ x.period <= Period(job, x.at)
<1>1. job \in Jobs /\ x \in Records
  BY Members DEF BaseInv, TypeInv
<1>2. x.at \in Int /\ x.at >= -1 /\ x.period \in Nat
  BY <1>1 DEF Records
<1>3. Span \in Nat \ {0}
  BY <1>1, Lengths
<1>4. ASSUME x.job = job PROVE x.period * Span <= x.at
  BY <1>4 DEF BaseInv, Begun
<1>5. x.period * Span <= x.at => x.period <= Period(job, x.at)
  <2>1. x.period * Span <= x.at => x.period <= x.at \div Span
    BY <1>2, <1>3, Reached
  <2> QED  BY <2>1 DEF Period, Span
<1> QED  BY <1>2, <1>4, <1>5

\* The period of a record that may leave is passed by
LEMMA LeavingPassed ==
  ASSUME BaseInv, NEW x \in ToSet(disk), MayLeave(x), x.job = job
  PROVE  PassedBy(x.period)
<1> DEFINE p == x.period
<1>1. job \in Jobs /\ Base \in Nat /\ Span \in Nat \ {0} /\ Day \in Nat \ {0}
  BY BaseIs, Lengths
<1>2. /\ x.at \in Int /\ p \in Nat /\ p * Span <= x.at /\ p <= Period(job, x.at)
      /\ p * Span \in Int
  BY <1>1, RecordTimes
<1>3. Period(job, Base) \in Nat /\ Reach(Base) \in Int
  BY <1>1, ReachIs
<1>4. CASE x.at < Reach(Base)
  <2>1. p * Span < Reach(Base)
    BY <1>2, <1>3, <1>4
  <2>2. p < Period(job, Base)
    BY <1>1, <1>2, <2>1, OutOfReach
  <2> QED  BY <2>1, <2>2 DEF PassedBy
<1>5. CASE /\ Period(job, x.at) < Period(job, Base)
           /\ \A y \in ToSet(disk) : DayOf(x.at) <= DayOf(y.at)
  <2>1. Period(job, x.at) \in Int
    <3>1. x.at \div Span \in Int
      BY <1>1, <1>2, Quotient
    <3> QED  BY <3>1 DEF Period, Span
  <2>2. p < Period(job, Base)
    BY <1>2, <1>3, <1>5, <2>1
  <2>3. DayOf(p * Span) <= DayOf(x.at) /\ DayOf(p * Span) \in Int /\ DayOf(x.at) \in Int
    BY <1>1, <1>2, QuotientGrows, Quotient DEF DayOf
  <2>4. ASSUME NEW y \in ToSet(disk) PROVE DayOf(p * Span) <= DayOf(y.at)
    <3>1. DayOf(y.at) \in Int
      BY <1>1, RecordTimes, Quotient DEF DayOf
    <3> QED  BY <1>5, <2>3, <3>1
  <2> QED  BY <2>2, <2>4 DEF PassedBy
<1> QED  BY <1>4, <1>5 DEF MayLeave

\* What is passed by stays so, while the time that is gone by does not go back
LEMMA PassedStays ==
  ASSUME BaseInv, Written, job' = job, Base' \in Nat, Base <= Base',
         NEW p \in Nat, PassedBy(p)
  PROVE  PassedBy(p)'
<1>1. job \in Jobs /\ Base \in Nat /\ Span \in Nat \ {0} /\ Day \in Nat \ {0}
  BY BaseIs, Lengths
<1>2. PICK b \in Nat : b = Base'
  OBVIOUS
<1>3. Reach(Base) <= Reach(b) /\ Period(job, Base) <= Period(job, b)
  BY <1>1, <1>2, ReachGrows
<1>4. /\ Reach(Base) \in Int /\ Reach(b) \in Int
      /\ Period(job, Base) \in Nat /\ Period(job, b) \in Nat
  BY <1>1, ReachIs
<1>5. /\ Reach(Base)' = Reach(b) /\ Period(job, Base)' = Period(job, b)
      /\ (p * Span)' = p * Span /\ DayOf(p * Span)' = DayOf(p * Span)
  BY <1>2 DEF Reach, Period, Span, DayOf
<1>6. p * Span \in Int
  BY <1>1
<1>7. p < Period(job, Base) /\ p < Period(job, b)
  BY <1>3, <1>4 DEF PassedBy
<1>8. CASE p * Span < Reach(Base)
  <2>1. p * Span < Reach(b)
    BY <1>3, <1>4, <1>6, <1>8
  <2> QED  BY <1>5, <1>7, <2>1 DEF PassedBy
<1>9. CASE \A y \in ToSet(disk) : DayOf(p * Span) <= DayOf(y.at)
  <2>1. ASSUME NEW y \in ToSet(disk') PROVE DayOf(p * Span) <= DayOf(y.at)
    <3>1. CASE y \in ToSet(disk)
      BY <1>9, <3>1
    <3>2. CASE y.at \in Nat /\ y.at >= Base
      <4>1. p <= Base \div Span
        BY <1>7, <1>4 DEF Period, Span
      <4>2. p * Span <= Base
        BY <1>1, <4>1, Reached
      <4>3. p * Span <= y.at
        BY <1>1, <1>6, <3>2, <4>2
      <4> DEFINE w == p * Span
      <4>4. w \in Int /\ w <= y.at /\ y.at \in Int
        BY <1>6, <3>2, <4>3
      <4> HIDE DEF w
      <4>5. w \div Day <= y.at \div Day
        BY <1>1, <4>4, QuotientGrows
      <4> QED  BY <4>5 DEF w, DayOf
    <3> QED  BY <3>1, <3>2, FileStep
  <2> QED  BY <1>5, <1>7, <2>1 DEF PassedBy
<1> QED  BY <1>8, <1>9 DEF PassedBy

\* What a record tells of stays known, by the record or because it is passed by
LEMMA KnownStays ==
  ASSUME BaseInv, Written, job' = job, Base' \in Nat, Base <= Base',
         NEW p \in Nat
  PROVE  /\ HasNotice(p) \/ PassedBy(p) => HasNotice(p)' \/ PassedBy(p)'
         /\ HasSuccess(disk, job, p) \/ PassedBy(p)
              => HasSuccess(disk, job, p)' \/ PassedBy(p)'
<1>1. PassedBy(p) => PassedBy(p)'
  BY PassedStays
<1>2. ASSUME NEW x \in ToSet(disk), x.job = job, x.period = p, ~PassedBy(p)
      PROVE  x \in ToSet(disk')
  <2>1. ~MayLeave(x)
    BY <1>2, LeavingPassed
  <2> QED  BY <2>1, FileStep
<1>3. HasNotice(p) /\ ~PassedBy(p) => HasNotice(p)'
  BY <1>2 DEF HasNotice, RecordsOf
<1>4. HasSuccess(disk, job, p) /\ ~PassedBy(p) => HasSuccess(disk, job, p)'
  BY <1>2 DEF HasSuccess, RecordsOf
<1> QED  BY <1>1, <1>3, <1>4

\* A look finds periods that have begun, that nobody was told of, and none
\* that is passed by
LEMMA LookFinds ==
  ASSUME BaseInv, poll # Idle, NEW p \in Found(poll.find, poll.at)
  PROVE  /\ p \in Nat /\ p * Span <= poll.at /\ p \in Periods
         /\ StillUnreported(p) /\ ~PassedBy(p)
<1> DEFINE t == poll.at
<1>1. /\ job \in Jobs /\ Span \in Nat \ {0} /\ Day \in Nat \ {0} /\ DayRange \in Nat
      /\ t = Base /\ t \in Nat /\ t \in 0 .. Horizon /\ Horizon \in Nat
  BY BaseIs, Lengths, NoticeAssumption
<1>2. Period(job, t) \in Nat /\ DayOf(t) \in Nat /\ Reach(t) \in Int
  BY <1>1, ReachIs
<1>3. poll.find \in IF job \in Weekly THEN {"capped", "ended"} ELSE {"missed", "past"}
  BY DEF BaseInv, Looks
<1>4. Head(disk) \in ToSet(disk)
  BY Members DEF BaseInv, TypeInv
<1>5. DayOf(Head(disk).at) \in Int /\ DayOf(Head(disk).at) >= -1
  <2>1. Head(disk).at \in Int /\ Head(disk).at >= -1
    BY <1>4, RecordTimes
  <2>2. (-1) * Day <= -1
    BY <1>1
  <2>3. (-1) * Day <= Head(disk).at
    BY <1>1, <2>1, <2>2
  <2>4. -1 <= Head(disk).at \div Day
    BY <1>1, <2>1, <2>3, Reached
  <2> QED  BY <1>1, <2>1, <2>4, Quotient DEF DayOf
<1>6. ASSUME p \in Nat, p <= Period(job, t)
      PROVE  p * Span <= t /\ p \in Periods
  <2>1. p <= t \div Span
    BY <1>6 DEF Period, Span
  <2>2. p * Span <= t
    BY <1>1, <1>6, <2>1, Reached
  <2>3. p * 1 <= p * Span /\ p * Span \in Int
    BY <1>1, <1>6
  <2>4. p <= Horizon
    BY <1>1, <1>6, <2>2, <2>3
  <2> QED  BY <1>6, <2>2, <2>4 DEF Periods
<1>7. CASE p = Period(job, t) /\ StillUnreported(p)
  BY <1>1, <1>2, <1>6, <1>7 DEF PassedBy
<1>8. CASE p \in Ended(t) /\ job \in Weekly
  <2>1. /\ p \in {Period(job, t) - 1, Period(job, t)} \cap Nat
        /\ Kept(DayOf(p * Span)) /\ StillUnreported(p)
    BY <1>8 DEF Ended, Span
  <2>2. ~(\A y \in ToSet(disk) : DayOf(p * Span) <= DayOf(y.at))
    <3>1. DayOf(p * Span) > DayOf(Head(disk).at)
      BY <2>1 DEF Kept
    <3>2. DayOf(p * Span) \in Int
      <4>1. p * Span \in Int
        BY <1>1, <2>1
      <4> QED  BY <1>1, <4>1, Quotient DEF DayOf
    <3> QED  BY <1>4, <1>5, <3>1, <3>2
  <2>3. job \in Weekly => ~(p * Span < Reach(t))
    <3>1. p * Span < Reach(t) /\ job \in Weekly => p < Period(job, t) - 1
      BY <1>1, <2>1, OutOfReach
    <3> QED  BY <1>2, <2>1, <3>1
  <2>4. job \in Weekly
    BY <1>8
  <2>5. p \in Nat /\ p <= Period(job, t)
    BY <1>2, <2>1
  <2>6. ~PassedBy(p)
    BY <1>1, <2>2, <2>3, <2>4 DEF PassedBy
  <2>7. p * Span <= t /\ p \in Periods
    BY <1>6, <2>5
  <2> QED  BY <2>1, <2>5, <2>6, <2>7
<1>9. CASE p \in Past(t) /\ job \notin Weekly
  <2>1. /\ p \in (DayOf(t) - DayRange) .. (DayOf(t) - 1)
        /\ Kept(p) /\ StillUnreported(p) /\ Span = Day
    BY <1>1, <1>9, Lengths DEF Past
  <2>2. p \in Nat /\ p > DayOf(Head(disk).at)
    BY <1>1, <1>2, <1>5, <2>1 DEF Kept
  <2>3. DayOf(p * Span) = p
    BY <1>1, <2>1, <2>2, Reached DEF DayOf
  <2>4. ~(\A y \in ToSet(disk) : DayOf(p * Span) <= DayOf(y.at))
    BY <1>4, <1>5, <2>2, <2>3
  <2>5. ~(p * Span < Reach(t))
    <3>1. p * Span < Reach(t) => p < DayOf(t) - DayRange
      BY <1>1, <1>9, <2>2, OutOfReach
    <3> QED  BY <1>1, <1>2, <2>1, <3>1
  <2>6. Period(job, t) = DayOf(t)
    BY <2>1 DEF Period, DayOf, Span
  <2> QED  BY <1>1, <1>2, <1>6, <2>1, <2>2, <2>4, <2>5, <2>6 DEF PassedBy
<1>10. \/ p = Period(job, t) /\ StillUnreported(p)
       \/ p \in Ended(t) /\ job \in Weekly
       \/ p \in Past(t) /\ job \notin Weekly
  <2>1. CASE poll.find = "capped"
    BY <2>1 DEF Found, Capped
  <2>2. CASE poll.find = "ended"
    BY <1>3, <2>2 DEF Found
  <2>3. CASE poll.find = "missed"
    BY <2>3 DEF Found, Missed
  <2>4. CASE poll.find = "past"
    BY <1>3, <2>4 DEF Found
  <2> QED  BY <1>3, <2>1, <2>2, <2>3, <2>4
<1> QED  BY <1>7, <1>8, <1>9, <1>10

-----------------------------------------------------------------------------
(* The types, step by step *)

LEMMA RecordTypes ==
  ASSUME TypeInv
  PROVE  /\ \A s \in {"started", "error", "success", "notice"} : \A p \in Nat : \A n \in Nat :
              /\ Rec(s, p, n) \in Records
              /\ Rec(s, p, n).period = p /\ Rec(s, p, n).at = now /\ Rec(s, p, n).job = job
         /\ OtherRecord(now) \in Records /\ OtherRecord(now).job = "other"
         /\ OtherRecord(now).at = now
<1>1. job \in Jobs /\ now \in Nat /\ boots \in Nat
  BY NoticeAssumption DEF TypeInv
<1> QED  BY <1>1 DEF Records, Rec, OtherRecord

LEMMA Resting == /\ Idle \in Polls /\ Idle.pc = "idle" /\ Idle.periods = {} /\ Idle.at = 0
BY NoticeAssumption DEF Idle, Polls

Finds == IF job \in Weekly THEN {"capped", "ended"} ELSE {"missed", "past"}

\* The poll is over, or goes on to judge something else
GoesOn ==
  \/ poll' = Idle
  \/ /\ poll' \in Polls /\ poll'.pc = "judge" /\ poll'.find \in Finds
     /\ poll'.at = poll.at /\ poll'.periods = {}

LEMMA Entered ==
  ASSUME TypeInv, NEW find \in Finds, NEW t \in 0 .. Horizon
  PROVE  \/ Enter(find, t) = Idle
         \/ /\ Enter(find, t) \in Polls /\ Enter(find, t).pc = "judge"
            /\ Enter(find, t).find = find /\ Enter(find, t).at = t
            /\ Enter(find, t).periods = {}
<1>1. find \in {"none", "capped", "ended", "missed", "past"}
  BY DEF Finds
<1>2. CASE NoLook(find, t)
  BY <1>2 DEF Enter
<1>3. CASE ~NoLook(find, t)
  <2>1. Enter(find, t) = [pc |-> "judge", find |-> find, at |-> t, periods |-> {}]
    BY <1>3 DEF Enter, Idle
  <2> QED  BY <1>1, <2>1 DEF Polls
<1> QED  BY <1>2, <1>3

LEMMA NextGoesOn ==
  ASSUME BaseInv, poll # Idle
  PROVE  (NextNotice => GoesOn) /\ (FoundNone => GoesOn)
<1>1. /\ TypeInv /\ poll \in Polls /\ poll.at \in 0 .. Horizon
      /\ poll.find \in Finds
  BY DEF BaseInv, Looks, TypeInv, Polls, Finds
<1>2. ASSUME NextNotice PROVE GoesOn
  <2>1. CASE poll.find = "missed" /\ job \in PastDay
    <3>1. "past" \in Finds /\ poll' = Enter("past", poll.at)
      BY <1>1, <1>2, <2>1 DEF Finds, NextNotice
    <3> QED  BY <1>1, <3>1, Entered DEF GoesOn
  <2>2. CASE ~(poll.find = "missed" /\ job \in PastDay)
    BY <1>2, <2>2 DEF NextNotice, GoesOn
  <2> QED  BY <2>1, <2>2
<1>3. ASSUME FoundNone PROVE GoesOn
  <2>1. CASE poll.find = "capped"
    <3>1. "ended" \in Finds /\ poll' = Enter("ended", poll.at)
      BY <1>1, <1>3, <2>1 DEF Finds, FoundNone
    <3> QED  BY <1>1, <3>1, Entered DEF GoesOn
  <2> QED  BY <1>2, <1>3, <2>1 DEF FoundNone
<1> QED  BY <1>2, <1>3

\* The record that a step adds is of a period that has begun
LEMMA AddsBegun ==
  ASSUME BaseInv, NEW r \in Records, Add(r), job' = job,
         r.job = job => r.period * Span <= r.at
  PROVE  /\ disk' \in Seq(Records) /\ Len(disk') \in 1 .. MaxEvents
         /\ \A x \in ToSet(disk') : x.job = job' => (x.period * Span)' <= x.at
<1>1. /\ disk' \in Seq(Records) /\ Len(disk') \in 1 .. MaxEvents
      /\ ToSet(disk') \subseteq ToSet(disk) \cup {r}
  BY Added DEF BaseInv
<1>2. Span' = Span
  BY DEF Span
<1>3. \A x \in ToSet(disk') : x.job = job => x.period * Span <= x.at
  BY <1>1 DEF BaseInv, Begun
<1> QED  BY <1>1, <1>2, <1>3

\* A period that has begun
LEMMA PeriodBegins ==
  ASSUME job \in Jobs, now \in 0 .. Horizon
  PROVE  /\ Period(job, now) \in Nat /\ Period(job, now) \in Periods
         /\ Period(job, now) * Span <= now
<1>1. Span \in Nat \ {0} /\ now \in Nat /\ Horizon \in Nat
  BY Lengths, NoticeAssumption
<1> DEFINE p == Period(job, now)
<1>2. p \in Nat
  BY <1>1, ReachIs
<1>3. p <= now \div Span
  BY <1>1, Quotient DEF Period, Span
<1> HIDE DEF p
<1>4. p * Span <= now
  BY <1>1, <1>2, <1>3, Reached
<1>5. p * 1 <= p * Span /\ p * Span \in Int
  BY <1>1, <1>2
<1>6. p \in Periods
  BY <1>1, <1>2, <1>4, <1>5 DEF Periods
<1> QED  BY <1>2, <1>4, <1>6 DEF p

LEMMA StartBase ==
  ASSUME BaseInv, Start
  PROVE  BaseInv' /\ Written
<1> DEFINE p == Period(job, now)
           r == Rec("started", p, runs + 1)
<1>1. /\ TypeInv /\ Begun /\ Looks /\ job \in Jobs /\ now \in 0 .. Horizon /\ runs \in Nat
  BY DEF BaseInv, TypeInv
<1>2. p \in Nat /\ p \in Periods /\ p * Span <= now
  BY <1>1, PeriodBegins
<1>3. r \in Records /\ r.at = now /\ r.period = p
  BY <1>1, <1>2, RecordTypes
<1>4. /\ Add(r) /\ running' = <<runs + 1, p>> /\ runs' = runs + 1
      /\ UNCHANGED <<job, now, up, boots, bootedAt, others, sent, scanned, poll, told, noted, done>>
  BY DEF Start, world, memory, history
<1> HIDE DEF p, r
<1>5. /\ disk' \in Seq(Records) /\ Len(disk') \in 1 .. MaxEvents
      /\ \A x \in ToSet(disk') : x.job = job' => (x.period * Span)' <= x.at
  BY <1>2, <1>3, <1>4, AddsBegun
<1>6. Written
  BY <1>3, <1>4, BaseIs DEF Written
<1>7. TypeInv'
  <2>1. running' \in Nat \X Periods /\ runs' \in Nat
    BY <1>1, <1>2, <1>4
  <2>2. up
    BY DEF Start
  <2> QED  BY <1>1, <1>4, <1>5, <2>1, <2>2 DEF TypeInv, Polls, Periods, Idle
<1>8. Begun'
  <2>1. Span' = Span /\ running'[2] = p
    BY <1>4 DEF Span
  <2> QED  BY <1>1, <1>2, <1>4, <1>5, <2>1 DEF Begun
<1>9. Looks'
  BY <1>1, <1>4 DEF Looks, Idle, DayOf
<1> QED  BY <1>6, <1>7, <1>8, <1>9 DEF BaseInv

\* A step that writes a record of the job or of another, and ends or keeps the run
LEMMA WriteBase ==
  ASSUME BaseInv, NEW r \in Records, Add(r),
         r.job = job => r.period * Span <= r.at, r.at = now,
         running' = running \/ running' = NotRunning, done' \subseteq Periods, others' \in Nat,
         UNCHANGED <<job, world, runs, memory, poll, told, noted>>
  PROVE  BaseInv' /\ Written
<1>1. /\ TypeInv /\ Begun /\ Looks
      /\ UNCHANGED <<job, now, up, boots, bootedAt, runs, sent, scanned, poll, told, noted>>
  BY DEF BaseInv, world, memory
<1>2. /\ disk' \in Seq(Records) /\ Len(disk') \in 1 .. MaxEvents
      /\ \A x \in ToSet(disk') : x.job = job' => (x.period * Span)' <= x.at
  BY <1>1, AddsBegun
<1>3. Written
  BY BaseIs DEF Written
<1>4. TypeInv'
  BY <1>1, <1>2 DEF TypeInv, Polls, Periods, Idle
<1>5. Begun'
  <2>1. Span' = Span
    BY <1>1 DEF Span
  <2>2. running' # NotRunning => running'[2] * Span <= now
    BY <1>1 DEF Begun
  <2> QED  BY <1>1, <1>2, <2>1, <2>2 DEF Begun
<1>6. Looks'
  BY <1>1 DEF Looks, Idle, DayOf
<1> QED  BY <1>3, <1>4, <1>5, <1>6 DEF BaseInv

LEMMA RunsBase ==
  ASSUME BaseInv, Finish \/ Elsewhere
  PROVE  BaseInv' /\ Written
<1>1. /\ TypeInv /\ Begun /\ job \in Jobs /\ now \in 0 .. Horizon /\ done \subseteq Periods
      /\ others \in Nat /\ running \in {NotRunning} \cup (Nat \X Periods) /\ Periods \subseteq Nat
  BY NoticeAssumption DEF BaseInv, TypeInv, Periods
<1>2. CASE Finish
  <2>1. running \in Nat \X Periods /\ running[2] * Span <= now
    BY <1>1, <1>2 DEF Finish, Begun
  <2>2. running[1] \in Nat /\ running[2] \in Nat /\ running[2] \in Periods
    BY <1>1, <2>1
  <2>3. CASE Add(Rec("error", running[2], running[1])) /\ UNCHANGED done
    <3> DEFINE r == Rec("error", running[2], running[1])
    <3>1. r \in Records /\ r.at = now /\ r.period = running[2]
      BY <1>1, <2>2, RecordTypes
    <3> HIDE DEF r
    <3>2. /\ Add(r) /\ running' = NotRunning /\ done' \subseteq Periods /\ others' \in Nat
          /\ UNCHANGED <<job, world, runs, memory, poll, told, noted>>
      BY <1>1, <1>2, <2>3 DEF Finish, r
    <3> QED  BY <2>1, <3>1, <3>2, WriteBase
  <2>4. CASE Add(Rec("success", running[2], running[1])) /\ done' = done \cup {running[2]}
    <3> DEFINE r == Rec("success", running[2], running[1])
    <3>1. r \in Records /\ r.at = now /\ r.period = running[2]
      BY <1>1, <2>2, RecordTypes
    <3> HIDE DEF r
    <3>2. /\ Add(r) /\ running' = NotRunning /\ done' \subseteq Periods /\ others' \in Nat
          /\ UNCHANGED <<job, world, runs, memory, poll, told, noted>>
      BY <1>1, <1>2, <2>2, <2>4 DEF Finish, r
    <3> QED  BY <2>1, <3>1, <3>2, WriteBase
  <2>5. CASE UNCHANGED <<disk, done>>
    <3>1. /\ running' = NotRunning
          /\ UNCHANGED <<job, now, up, boots, bootedAt, disk, runs, others, sent, scanned, poll,
                         told, noted, done>>
      BY <1>2, <2>5 DEF Finish, world, memory
    <3>2. TypeInv'
      BY <1>1, <3>1 DEF TypeInv, Polls, Periods, Idle
    <3>3. Begun'
      BY <1>1, <3>1 DEF Begun, Span
    <3>4. Looks'
      BY <3>1 DEF BaseInv, Looks, Idle, DayOf
    <3> QED  BY <3>1, <3>2, <3>3, <3>4 DEF BaseInv, Written
  <2> QED  BY <1>2, <2>3, <2>4, <2>5 DEF Finish
<1>3. CASE Elsewhere
  <2> DEFINE p == Period(job, now)
  <2>1. p \in Nat /\ p \in Periods /\ p * Span <= now
    BY <1>1, PeriodBegins
  <2>2. /\ others' \in Nat /\ running' = running
        /\ UNCHANGED <<job, world, runs, memory, poll, told, noted>>
    BY <1>1, <1>3 DEF Elsewhere
  <2>3. CASE /\ Add([Rec("success", p, MaxRuns + 1) EXCEPT !.boot = 0])
             /\ done' = done \cup {p}
    <3> DEFINE r == [Rec("success", p, MaxRuns + 1) EXCEPT !.boot = 0]
    <3>1. r \in Records /\ r.at = now /\ r.period = p
      <4>1. MaxRuns + 1 \in Nat
        BY NoticeAssumption
      <4>2. Rec("success", p, MaxRuns + 1) \in Records
        BY <1>1, <2>1, <4>1, RecordTypes
      <4> QED  BY <4>2 DEF Records, Rec
    <3>2. Add(r) /\ done' \subseteq Periods
      BY <1>1, <2>1, <2>3
    <3> HIDE DEF r, p
    <3> QED  BY <2>1, <2>2, <3>1, <3>2, WriteBase
  <2>4. CASE Add(OtherRecord(now)) /\ UNCHANGED done
    <3> DEFINE r == OtherRecord(now)
    <3>1. r \in Records /\ r.at = now /\ r.job # job
      BY <1>1, RecordTypes, NoticeAssumption
    <3>2. Add(r) /\ done' \subseteq Periods
      BY <1>1, <2>4
    <3> HIDE DEF r
    <3> QED  BY <2>2, <3>1, <3>2, WriteBase
  <2> QED  BY <1>3, <2>3, <2>4 DEF Elsewhere
<1> QED  BY <1>2, <1>3

LEMMA WorldBase ==
  ASSUME BaseInv, Tick \/ Crash \/ Boot
  PROVE  BaseInv' /\ Written
<1>1. /\ TypeInv /\ Begun /\ Looks /\ job \in Jobs /\ now \in Nat /\ now + 1 \in Nat
      /\ Day \in Nat \ {0} /\ Span \in Nat \ {0}
      /\ Horizon \in Nat
  BY Lengths, NoticeAssumption DEF BaseInv, TypeInv
<1>2. CASE Tick
  <2>1. /\ now' = now + 1 /\ now < Horizon
        /\ UNCHANGED <<job, up, boots, bootedAt, disk, running, runs, others, sent, scanned,
                       poll, told, noted, done>>
    BY <1>2 DEF Tick, work, memory, history
  <2>2. TypeInv'
    BY <1>1, <2>1 DEF TypeInv, Polls, Periods, Idle
  <2>3. Begun'
    <3>1. Span' = Span
      BY <2>1 DEF Span
    <3>2. poll.at \in Nat
      BY <1>1 DEF TypeInv, Polls
    <3>3. ASSUME running # NotRunning PROVE running[2] * Span <= now + 1
      <4>1. running[2] \in Nat /\ running[2] * Span <= now
        BY <1>1, <3>3, NoticeAssumption DEF TypeInv, Begun, Periods
      <4>2. running[2] * Span \in Int
        BY <1>1, <4>1
      <4> QED  BY <1>1, <4>1, <4>2
    <3> QED  BY <1>1, <2>1, <3>1, <3>2, <3>3 DEF Begun
  <2>4. Looks'
    <3>1. DayOf(now) <= DayOf(now + 1) /\ DayOf(now) \in Nat /\ DayOf(now + 1) \in Nat
      BY <1>1, QuotientGrows, Quotient DEF DayOf
    <3>2. DayOf(now)' = DayOf(now + 1)
      BY <2>1 DEF DayOf
    <3>3. \A d \in scanned : d \in Nat /\ d <= DayOf(now)
      BY <1>1, NoticeAssumption DEF TypeInv, Looks, Periods
    <3>4. \A d \in scanned' : d <= DayOf(now)'
      BY <2>1, <3>1, <3>2, <3>3
    <3>5. poll' = poll /\ job' = job
      BY <2>1
    <3> QED  BY <1>1, <3>4, <3>5 DEF Looks, Idle
  <2> QED  BY <2>1, <2>2, <2>3, <2>4 DEF BaseInv, Written
<1>3. CASE Crash
  <2>1. /\ up' = FALSE /\ boots < MaxBoots
        /\ running' = NotRunning /\ sent' = {} /\ scanned' = {} /\ poll' = Idle
        /\ UNCHANGED <<job, now, boots, bootedAt, disk, runs, others, told, noted, done>>
    BY <1>3 DEF Crash, history
  <2>2. TypeInv'
    BY <1>1, <2>1, Resting DEF TypeInv, Polls, Periods, Idle
  <2>3. Begun'
    BY <1>1, <2>1, Resting DEF Begun, Span, Idle
  <2>4. Looks'
    BY <2>1 DEF Looks, Idle
  <2> QED  BY <2>1, <2>2, <2>3, <2>4 DEF BaseInv, Written
<1>4. CASE Boot
  <2>1. /\ ~up /\ up' = TRUE /\ boots' = boots + 1 /\ bootedAt' = now
        /\ UNCHANGED <<job, now, disk, running, runs, others, sent, scanned, poll, told, noted, done>>
    BY <1>4 DEF Boot, work, memory, history
  <2>2. TypeInv'
    <3>1. boots < MaxBoots /\ boots \in Nat /\ MaxBoots \in Nat
      BY <1>1, <2>1, NoticeAssumption DEF TypeInv
    <3>2. boots' \in 1 .. MaxBoots /\ told' \subseteq Periods \X (1 .. boots')
      BY <1>1, <2>1, <3>1 DEF TypeInv
    <3> QED  BY <1>1, <2>1, <3>2 DEF TypeInv, Polls, Periods, Idle
  <2>3. Begun'
    BY <1>1, <2>1 DEF Begun, Span
  <2>4. Looks'
    BY <1>1, <2>1 DEF Looks, Idle, DayOf
  <2> QED  BY <2>1, <2>2, <2>3, <2>4 DEF BaseInv, Written
<1> QED  BY <1>2, <1>3, <1>4

\* A step of the poller that writes no record
LEMMA QuietBase ==
  ASSUME BaseInv, up, UNCHANGED <<job, world, disk, work, noted, done>>,
         poll' \in Polls, poll'.at <= now, \A p \in poll'.periods : p * Span <= poll'.at,
         poll' = Idle \/ (poll'.pc # "idle" /\ poll'.find \in Finds),
         sent' \subseteq Periods, told' \subseteq Periods \X (1 .. boots),
         scanned' = scanned \/ (scanned' = scanned \cup {DayOf(poll.at)} /\ poll # Idle)
  PROVE  BaseInv' /\ Written
<1>1. /\ TypeInv /\ Begun /\ Looks /\ job \in Jobs /\ now \in 0 .. Horizon /\ Horizon \in Nat
      /\ Day \in Nat \ {0} /\ poll \in Polls /\ poll.at <= now
      /\ UNCHANGED <<job, now, up, boots, bootedAt, disk, running, runs, others, noted, done>>
  BY Lengths, NoticeAssumption DEF BaseInv, TypeInv, Begun, world, work
<1>2. scanned' \subseteq Periods /\ \A d \in scanned' : d <= DayOf(now)
  <2>1. scanned \subseteq Periods /\ \A d \in scanned : d <= DayOf(now)
    BY <1>1 DEF TypeInv, Looks
  <2>2. DayOf(poll.at) \in Periods /\ DayOf(poll.at) <= DayOf(now)
    <3>1. poll.at \in Nat /\ now \in Nat
      BY <1>1 DEF Polls
    <3>2. DayOf(poll.at) \in Nat /\ DayOf(now) \in Nat /\ DayOf(poll.at) <= DayOf(now)
      <4>1. poll.at \div Day \in Nat /\ now \div Day \in Nat
        BY <1>1, <3>1, Quotient
      <4>2. poll.at \div Day <= now \div Day
        BY <1>1, <3>1, QuotientGrows
      <4> QED  BY <4>1, <4>2 DEF DayOf
    <3>3. DayOf(now) <= now
      <4> DEFINE q == DayOf(now)
      <4>1. q \in Nat /\ q * Day <= now
        BY <1>1, <3>1, Quotient DEF DayOf
      <4> HIDE DEF q
      <4>2. q * 1 <= q * Day /\ q * Day \in Int
        BY <1>1, <4>1
      <4>3. q <= now
        BY <3>1, <4>1, <4>2
      <4> QED  BY <4>3 DEF q
    <3> QED  BY <1>1, <3>2, <3>3 DEF Periods
  <2> QED  BY <2>1, <2>2
<1>3. TypeInv'
  BY <1>1, <1>2 DEF TypeInv, Polls, Periods, Idle
<1>4. Begun'
  <2>1. Span' = Span
    BY <1>1 DEF Span
  <2> QED  BY <1>1, <2>1 DEF Begun
<1>5. Looks'
  <2>1. DayOf(now)' = DayOf(now) /\ job' = job
    BY <1>1 DEF DayOf
  <2>2. poll'.pc = "idle" => poll' = Idle
    OBVIOUS
  <2>3. poll' # Idle => poll'.find \in Finds'
    BY <2>1 DEF Finds
  <2>4. \A d \in scanned' : d <= DayOf(now)'
    BY <1>2, <2>1
  <2>5. (poll = Idle)' <=> poll' = Idle
    BY DEF Idle
  <2> QED  BY <2>2, <2>3, <2>4, <2>5 DEF Looks, Finds
<1> QED  BY <1>1, <1>3, <1>4, <1>5 DEF BaseInv, Written

LEMMA GoesOnBase ==
  ASSUME BaseInv, poll # Idle, GoesOn, UNCHANGED <<job, world, disk, work, noted, done>>,
         sent' \subseteq Periods, told' \subseteq Periods \X (1 .. boots),
         scanned' = scanned \/ scanned' = scanned \cup {DayOf(poll.at)}
  PROVE  BaseInv' /\ Written
<1>1. up /\ poll.at <= now /\ 0 <= now
  BY NoticeAssumption DEF BaseInv, TypeInv, Begun
<1>2. /\ poll' \in Polls /\ poll'.at <= now /\ poll'.periods = {}
      /\ poll' = Idle \/ (poll'.pc # "idle" /\ poll'.find \in Finds)
  BY <1>1, Resting DEF GoesOn
<1> QED  BY <1>1, <1>2, QuietBase

LEMMA PollerBase ==
  ASSUME BaseInv, Poll \/ Notice
  PROVE  BaseInv' /\ Written
<1>1. /\ TypeInv /\ Begun /\ Looks /\ job \in Jobs /\ now \in 0 .. Horizon /\ poll \in Polls
      /\ sent \subseteq Periods /\ told \subseteq Periods \X (1 .. boots) /\ boots \in 1 .. MaxBoots
      /\ scanned \subseteq Periods /\ MaxBoots \in Nat /\ poll.at <= now
  BY NoticeAssumption DEF BaseInv, TypeInv, Begun
<1>2. ASSUME Poll PROVE BaseInv' /\ Written
  <2>1. First \in Finds
    <3>1. job \in MissedDay \/ job \in PastDay \/ job \in Weekly
      BY <1>1, NoticeAssumption
    <3> QED  BY <3>1 DEF First, Finds
  <2>2. /\ up /\ poll' = Enter(First, now)
        /\ UNCHANGED <<job, world, disk, work, sent, scanned, told, noted, done>>
    BY <1>2 DEF Poll, memory, history
  <2>3. \/ poll' = Idle
        \/ /\ poll' \in Polls /\ poll'.pc = "judge" /\ poll'.find \in Finds
           /\ poll'.at = now /\ poll'.periods = {}
    BY <1>1, <2>1, <2>2, Entered
  <2>4. /\ poll' \in Polls /\ poll'.at <= now /\ poll'.periods = {}
        /\ poll' = Idle \/ (poll'.pc # "idle" /\ poll'.find \in Finds)
    BY <1>1, <2>3, Resting
  <2> QED  BY <1>1, <2>2, <2>4, QuietBase
<1>3. ASSUME Notice PROVE poll # Idle /\ up /\ poll.find \in Finds
  <2>1. poll.pc # "idle"
    BY <1>3 DEF Notice, JudgeFails, Judge, Send, SendFails, RecordSent, Recorded
  <2> QED  BY <1>1, <2>1, Resting DEF TypeInv, Looks, Finds
<1>4. ASSUME JudgeFails PROVE BaseInv' /\ Written
  <2>1. /\ FoundNone
        /\ UNCHANGED <<job, world, disk, work, sent, scanned, told, noted, done>>
    BY <1>4 DEF JudgeFails, memory, history
  <2> QED  BY <1>1, <1>3, <1>4, <2>1, NextGoesOn, GoesOnBase DEF Notice
<1>5. ASSUME Judge PROVE BaseInv' /\ Written
  <2> DEFINE found == Found(poll.find, poll.at)
  <2>1. UNCHANGED <<job, world, disk, work, sent, told, noted, done>>
    BY <1>5 DEF Judge, history
  <2>2. CASE found = {}
    <3>1. FoundNone /\ (scanned' = scanned \/ scanned' = scanned \cup {DayOf(poll.at)})
      BY <1>5, <2>2 DEF Judge
    <3> QED  BY <1>1, <1>3, <1>5, <2>1, <3>1, NextGoesOn, GoesOnBase DEF Notice
  <2>3. CASE found # {}
    <3>1. poll' = [poll EXCEPT !.pc = "send", !.periods = found] /\ scanned' = scanned
      BY <1>5, <2>3 DEF Judge
    <3>2. \A p \in found : p \in Periods /\ p * Span <= poll.at
      BY <1>3, <1>5, LookFinds DEF Notice
    <3> HIDE DEF found
    <3>3. /\ poll' \in Polls /\ poll'.at = poll.at /\ poll'.periods = found
          /\ poll'.pc = "send" /\ poll'.find = poll.find
      BY <1>1, <3>1, <3>2 DEF Polls
    <3>4. \A p \in poll'.periods : p * Span <= poll'.at
      BY <3>2, <3>3
    <3> QED  BY <1>1, <1>3, <1>5, <2>1, <3>1, <3>3, <3>4, QuietBase DEF Notice
  <2> QED  BY <2>2, <2>3
<1>6. ASSUME Send PROVE BaseInv' /\ Written
  <2>1. /\ sent' = sent \cup poll.periods
        /\ told' = told \cup {<<p, boots>> : p \in poll.periods}
        /\ poll' = [poll EXCEPT !.pc = "record"]
        /\ UNCHANGED <<job, world, disk, work, scanned, noted, done>>
    BY <1>6 DEF Send
  <2>2. poll.periods \subseteq Periods /\ boots \in 1 .. boots
    BY <1>1 DEF Polls
  <2>3. sent' \subseteq Periods /\ told' \subseteq Periods \X (1 .. boots)
    BY <1>1, <2>1, <2>2
  <2>4. /\ poll' \in Polls /\ poll'.at = poll.at /\ poll'.periods = poll.periods
        /\ poll'.pc = "record" /\ poll'.find = poll.find
    BY <1>1, <2>1 DEF Polls
  <2>5. \A p \in poll'.periods : p * Span <= poll'.at
    BY <1>1, <2>4 DEF Begun
  <2> QED  BY <1>1, <1>3, <1>6, <2>1, <2>3, <2>4, <2>5, QuietBase DEF Notice
<1>7. ASSUME SendFails \/ Recorded PROVE BaseInv' /\ Written
  <2>1. /\ NextNotice
        /\ UNCHANGED <<job, world, disk, work, sent, scanned, told, noted, done>>
    BY <1>7 DEF SendFails, Recorded, memory, history
  <2> QED  BY <1>1, <1>3, <1>7, <2>1, NextGoesOn, GoesOnBase DEF Notice
<1>8. ASSUME RecordSent PROVE BaseInv' /\ Written
  <2>1. PICK p \in poll.periods :
          /\ Add([Rec("notice", p, 0) EXCEPT !.at = poll.at])
          /\ noted' = noted \cup {p}
          /\ poll' = [poll EXCEPT !.periods = @ \ {p}]
    BY <1>8 DEF RecordSent
  <2>2. UNCHANGED <<job, now, up, boots, bootedAt, running, runs, others, sent, scanned, told, done>>
    BY <1>8 DEF RecordSent, world, work, memory
  <2>3. p \in Periods /\ p \in Nat /\ p * Span <= poll.at /\ poll.at \in Nat
    BY <1>1 DEF Polls, Periods, Begun
  <2> DEFINE r == [Rec("notice", p, 0) EXCEPT !.at = poll.at]
  <2>4. r \in Records /\ r.at = poll.at /\ r.period = p
    <3>1. Rec("notice", p, 0) \in Records /\ Rec("notice", p, 0).period = p
      BY <1>1, <2>3, RecordTypes
    <3> QED  BY <2>3, <3>1 DEF Records
  <2> HIDE DEF r
  <2>5. Add(r) /\ r.at = Base
    BY <1>3, <1>8, <2>1, <2>4, BaseIs DEF r, Notice
  <2>6. /\ disk' \in Seq(Records) /\ Len(disk') \in 1 .. MaxEvents
        /\ \A x \in ToSet(disk') : x.job = job' => (x.period * Span)' <= x.at
    BY <2>2, <2>3, <2>4, <2>5, AddsBegun
  <2>7. Written
    BY <2>4, <2>5, BaseIs DEF Written
  <2>8. /\ poll' \in Polls /\ poll'.at = poll.at /\ poll'.periods = poll.periods \ {p}
        /\ poll'.pc = poll.pc /\ poll'.find = poll.find
    BY <1>1, <2>1 DEF Polls
  <2>9. poll.pc = "record" /\ poll'.pc # "idle" /\ poll' # Idle /\ up /\ poll.find \in Finds
    BY <1>3, <1>8, <2>8, Resting DEF RecordSent, Notice
  <2>10. TypeInv'
    BY <1>1, <2>1, <2>2, <2>3, <2>6, <2>8, <2>9 DEF TypeInv, Polls, Periods
  <2>11. Begun'
    <3>1. Span' = Span
      BY <2>2 DEF Span
    <3> QED  BY <1>1, <2>2, <2>6, <2>8, <3>1 DEF Begun
  <2>12. Looks'
    <3>1. DayOf(now)' = DayOf(now)
      BY <2>2 DEF DayOf
    <3> QED  BY <1>1, <2>2, <2>8, <2>9, <3>1 DEF Looks, Finds
  <2> QED  BY <2>7, <2>10, <2>11, <2>12 DEF BaseInv
<1> QED  BY <1>2, <1>4, <1>5, <1>6, <1>7, <1>8 DEF Notice

LEMMA BaseInit == Init => BaseInv
<1> SUFFICES ASSUME Init PROVE BaseInv
  OBVIOUS
<1>1. /\ job \in Jobs /\ now = 0 /\ disk = <<OtherRecord(-1)>> /\ Horizon \in Nat
      /\ up = TRUE /\ boots = 1 /\ bootedAt = 0 /\ running = NotRunning /\ runs = 0 /\ others = 0
      /\ sent = {} /\ scanned = {} /\ poll = Idle /\ told = {} /\ noted = {} /\ done = {}
      /\ MaxBoots \in Nat \ {0} /\ MaxEvents \in Nat \ {0} /\ "other" \notin Jobs
  BY NoticeAssumption, MaxEventsAssumption DEF Init
<1>2. OtherRecord(-1) \in Records /\ OtherRecord(-1).job = "other"
  BY DEF OtherRecord, Records
<1>3. /\ disk \in Seq(Records) /\ Len(disk) = 1 /\ disk[1] = OtherRecord(-1)
      /\ ToSet(disk) = {OtherRecord(-1)}
  BY <1>1, <1>2 DEF ToSet
<1>4. TypeInv
  BY <1>1, <1>3, Resting DEF TypeInv
<1>5. Begun
  BY <1>1, <1>2, <1>3, Resting DEF Begun
<1>6. Looks
  BY <1>1, Resting DEF Looks
<1> QED  BY <1>4, <1>5, <1>6 DEF BaseInv

LEMMA BaseFact ==
  BaseInv => /\ Base \in Nat /\ Base <= now /\ now \in Nat
             /\ poll # Idle => Base = poll.at
             /\ poll = Idle => Base = now
BY BaseIs

\* Every step keeps the types, and the time that judgements go by goes forward
LEMMA BaseStep ==
  ASSUME BaseInv, [Next]_vars
  PROVE  /\ BaseInv' /\ Written /\ job' = job
         /\ Base \in Nat /\ Base' \in Nat /\ Base <= Base'
<1>1. BaseInv' /\ Written
  <2>1. CASE UNCHANGED vars
    <3>1. UNCHANGED <<job, now, up, boots, bootedAt, disk, running, runs, others, sent, scanned,
                      poll, told, noted, done>>
      BY <2>1 DEF vars, world, work, memory, history
    <3>2. TypeInv'
      BY <3>1 DEF BaseInv, TypeInv, Polls, Periods, Idle
    <3>3. Begun'
      BY <3>1 DEF BaseInv, Begun, Span
    <3>4. Looks'
      BY <3>1 DEF BaseInv, Looks, Idle, DayOf
    <3> QED  BY <3>1, <3>2, <3>3, <3>4 DEF BaseInv, Written
  <2> QED  BY <2>1, StartBase, RunsBase, WorldBase, PollerBase DEF Next
<1>2. job' = job
  BY DEF Next, vars, Start, Finish, Elsewhere, Tick, Crash, Boot, Poll, Notice, JudgeFails, Judge,
         Send, SendFails, RecordSent, Recorded
<1>3. (/\ Base \in Nat /\ Base <= now /\ now \in Nat
       /\ poll # Idle => Base = poll.at
       /\ poll = Idle => Base = now)'
  BY <1>1, BaseFact, PTL
<1>4. /\ Base \in Nat /\ Base <= now /\ now \in Nat
      /\ poll # Idle => Base = poll.at
      /\ poll = Idle => Base = now
  BY BaseFact
<1>5. Idle' = Idle
  BY DEF Idle
<1>6. now' \in Nat /\ now <= now'
  <2>1. now' = now \/ now' = now + 1
    BY DEF Next, vars, Start, Finish, Elsewhere, Tick, Crash, Boot, Poll, Notice, JudgeFails, Judge,
           Send, SendFails, RecordSent, Recorded, world
  <2> QED  BY <1>4, <2>1
<1>7. \/ poll' = poll \/ poll' = Idle
      \/ poll = Idle /\ poll'.at = now
      \/ poll # Idle /\ poll'.at = poll.at
  <2>1. CASE Start \/ Finish \/ Elsewhere \/ Tick \/ Crash \/ Boot \/ UNCHANGED vars
    BY <2>1 DEF vars, Start, Finish, Elsewhere, Tick, Crash, Boot
  <2>2. CASE Poll
    <3>1. First \in Finds
      <4>1. job \in MissedDay \/ job \in PastDay \/ job \in Weekly
        BY NoticeAssumption DEF BaseInv, TypeInv
      <4> QED  BY <4>1 DEF First, Finds
    <3>2. poll = Idle /\ poll' = Enter(First, now) /\ now \in 0 .. Horizon
      BY <2>2 DEF Poll, BaseInv, TypeInv
    <3> QED  BY <3>1, <3>2, Entered DEF BaseInv
  <2>3. CASE Notice
    <3>1. poll # Idle /\ poll \in Polls
      BY <2>3, Resting DEF BaseInv, TypeInv, Notice, JudgeFails, Judge, Send, SendFails, RecordSent, Recorded
    <3>2. CASE JudgeFails \/ SendFails \/ Recorded
      BY <3>1, <3>2, NextGoesOn DEF JudgeFails, SendFails, Recorded, GoesOn
    <3>3. CASE Judge
      BY <3>1, <3>3, NextGoesOn DEF Judge, GoesOn, Polls
    <3>4. CASE Send \/ RecordSent
      BY <3>1, <3>4 DEF Send, RecordSent, Polls
    <3> QED  BY <2>3, <3>2, <3>3, <3>4 DEF Notice
  <2> QED  BY <2>1, <2>2, <2>3 DEF Next
<1>8. Base <= Base'
  BY <1>3, <1>4, <1>5, <1>6, <1>7
<1> QED  BY <1>1, <1>2, <1>3, <1>4, <1>8

(***************************************************************************)
(* The state keeps its types, whatever fails and whenever the daemon dies. *)
(***************************************************************************)
THEOREM TypeCorrect == Spec => []TypeOK
<1>1. BaseInv => TypeOK
  BY NoticeAssumption DEF BaseInv, TypeInv, TypeOK, Polls
<1>2. BaseInv /\ [Next]_vars => BaseInv'
  BY BaseStep
<1> QED  BY <1>1, <1>2, BaseInit, PTL DEF Spec

-----------------------------------------------------------------------------
(* What was recorded is remembered *)

LEMMA RecordIsIn ==
  ASSUME BaseInv, NEW r \in Records, Add(r), r.job = job, job' = job
  PROVE  r \in RecordsOf(disk, job, r.period)'
<1>1. r \in ToSet(disk')
  BY Added DEF BaseInv
<1> QED  BY <1>1 DEF RecordsOf

LEMMA RememberedStep ==
  ASSUME BaseInv, Remembered, [Next]_vars
  PROVE  Remembered'
<1>1. /\ Written /\ job' = job /\ Base' \in Nat /\ Base <= Base'
  BY BaseStep
<1>2. /\ job \in Jobs /\ now \in 0 .. Horizon /\ noted \subseteq Nat /\ done \subseteq Nat
      /\ TypeInv /\ Periods \subseteq Nat
  BY NoticeAssumption DEF BaseInv, TypeInv, Periods
<1>3. \A p \in noted : HasNotice(p)' \/ PassedBy(p)'
  BY <1>1, <1>2, KnownStays DEF Remembered
<1>4. \A p \in done : HasSuccess(disk, job, p)' \/ PassedBy(p)'
  BY <1>1, <1>2, KnownStays DEF Remembered
<1>5. noted' = noted \/ RecordSent
  BY DEF Next, vars, history, Start, Finish, Elsewhere, Tick, Crash, Boot, Poll, Notice, JudgeFails,
         Judge, Send, SendFails, Recorded
<1>6. done' = done \/ Finish \/ Elsewhere
  BY DEF Next, vars, history, Start, Tick, Crash, Boot, Poll, Notice, JudgeFails,
         Judge, Send, SendFails, RecordSent, Recorded
<1>7. \A p \in noted' : HasNotice(p)' \/ PassedBy(p)'
  <2>1. CASE RecordSent
    <3>1. PICK p \in poll.periods :
            /\ Add([Rec("notice", p, 0) EXCEPT !.at = poll.at]) /\ noted' = noted \cup {p}
      BY <2>1 DEF RecordSent
    <3> DEFINE r == [Rec("notice", p, 0) EXCEPT !.at = poll.at]
    <3>2. p \in Nat /\ poll.at \in Nat
      BY <1>2, NoticeAssumption DEF TypeInv, Polls, Periods
    <3>3. Rec("notice", p, 0) \in Records
      BY <1>2, <3>2, RecordTypes
    <3>4. r \in Records /\ r.period = p /\ r.job = job /\ r.status = "notice"
      BY <3>2, <3>3 DEF Records, Rec
    <3>5. Add(r)
      BY <3>1
    <3> HIDE DEF r
    <3>6. r \in RecordsOf(disk, job, p)'
      BY <1>1, <3>4, <3>5, RecordIsIn
    <3>7. HasNotice(p)'
      BY <3>4, <3>6 DEF HasNotice
    <3> QED  BY <1>3, <3>1, <3>7
  <2> QED  BY <1>3, <1>5, <2>1
<1>8. \A p \in done' : HasSuccess(disk, job, p)' \/ PassedBy(p)'
  <2>1. ASSUME NEW r \in Records, Add(r), r.job = job, r.status = "success",
               done' = done \cup {r.period}
        PROVE  \A p \in done' : HasSuccess(disk, job, p)' \/ PassedBy(p)'
    <3>1. r \in RecordsOf(disk, job, r.period)'
      BY <1>1, <2>1, RecordIsIn
    <3>2. HasSuccess(disk, job, r.period)'
      BY <2>1, <3>1 DEF HasSuccess
    <3> QED  BY <1>4, <2>1, <3>2
  <2>2. CASE Finish /\ done' # done
    <3> DEFINE r == Rec("success", running[2], running[1])
    <3>1. Add(r) /\ done' = done \cup {running[2]} /\ running # NotRunning
      BY <2>2 DEF Finish
    <3>2. running[1] \in Nat /\ running[2] \in Nat
      BY <1>2, <3>1 DEF TypeInv
    <3>3. r \in Records /\ r.period = running[2] /\ r.job = job
      BY <1>2, <3>2, RecordTypes
    <3>4. r.status = "success"
      BY DEF Rec
    <3> HIDE DEF r
    <3> QED  BY <2>1, <3>1, <3>3, <3>4
  <2>3. CASE Elsewhere /\ done' # done
    <3> DEFINE p == Period(job, now)
               r == [Rec("success", p, MaxRuns + 1) EXCEPT !.boot = 0]
    <3>1. Add(r) /\ done' = done \cup {p}
      BY <2>3 DEF Elsewhere
    <3>2. p \in Nat /\ MaxRuns + 1 \in Nat
      BY <1>2, PeriodBegins, NoticeAssumption
    <3>3. Rec("success", p, MaxRuns + 1) \in Records
      BY <1>2, <3>2, RecordTypes
    <3>4. r \in Records /\ r.period = p /\ r.job = job /\ r.status = "success"
      BY <3>3 DEF Records, Rec
    <3> HIDE DEF r, p
    <3> QED  BY <2>1, <3>1, <3>4
  <2> QED  BY <1>4, <1>6, <2>2, <2>3
<1> QED  BY <1>7, <1>8 DEF Remembered

\* What a look finds was neither told of nor made up for
LEMMA FindsNew ==
  ASSUME BaseInv, Remembered, poll # Idle, NEW p \in Found(poll.find, poll.at)
  PROVE  p \notin sent /\ p \notin noted /\ p \notin done
<1>1. StillUnreported(p) /\ ~PassedBy(p)
  BY LookFinds
<1> QED  BY <1>1 DEF Remembered, StillUnreported, HasNotice

LEMMA ToldStep ==
  ASSUME BaseInv, Remembered, Told, [Next]_vars
  PROVE  Told'
<1>1. TypeInv /\ boots \in Nat /\ told \subseteq Periods \X (1 .. boots)
  BY NoticeAssumption DEF BaseInv, TypeInv
<1>2. CASE UNCHANGED <<up, boots, told, sent, noted>> /\ (poll' = poll \/ poll'.pc # "send")
  BY <1>2 DEF Told
<1>3. CASE Crash
  BY <1>3, Resting DEF Crash, Told
<1>4. CASE Boot
  <2>1. boots' = boots + 1 /\ told' = told /\ poll = Idle /\ poll' = poll
    BY <1>1, <1>4 DEF Boot, history, TypeInv
  <2>2. \A p \in Periods : <<p, boots'>> \notin told'
    BY <1>1, <2>1
  <2> QED  BY <2>1, <2>2, Resting DEF Told
<1>5. CASE Send
  <2>1. /\ sent' = sent \cup poll.periods /\ poll' = [poll EXCEPT !.pc = "record"]
        /\ told' = told \cup {<<p, boots>> : p \in poll.periods}
        /\ up' = up /\ boots' = boots
    BY <1>5 DEF Send, world
  <2>2. poll'.pc = "record"
    BY <1>1, <2>1 DEF TypeInv, Polls
  <2> QED  BY <2>1, <2>2 DEF Told
<1>6. CASE Judge /\ poll'.pc = "send"
  <2>1. poll.pc = "judge" /\ poll # Idle /\ poll \in Polls
    BY <1>1, <1>6, Resting DEF Judge, TypeInv
  <2>2. UNCHANGED <<up, boots, told, sent, noted>>
    BY <1>6 DEF Judge, world, history
  <2>3. poll'.periods = Found(poll.find, poll.at)
    <3>1. CASE Found(poll.find, poll.at) = {}
      <4>1. GoesOn
        BY <1>6, <2>1, <3>1, NextGoesOn DEF Judge
      <4> QED  BY <1>6, <4>1, Resting DEF GoesOn
    <3>2. CASE Found(poll.find, poll.at) # {}
      BY <1>6, <2>1, <3>2 DEF Judge, Polls
    <3> QED  BY <3>1, <3>2
  <2> QED  BY <2>1, <2>2, <2>3, FindsNew DEF Told
<1>7. CASE RecordSent
  <2>1. UNCHANGED <<up, boots, told, sent>> /\ poll.pc = "record"
    BY <1>7 DEF RecordSent, world, memory
  <2>2. poll'.pc = "record"
    BY <1>1, <1>7 DEF RecordSent, TypeInv, Polls
  <2> QED  BY <2>1, <2>2 DEF Told
<1>8. CASE Poll \/ JudgeFails \/ SendFails \/ Recorded \/ (Judge /\ poll'.pc # "send")
  <2>1. UNCHANGED <<up, boots, told, sent, noted>>
    BY <1>8 DEF Poll, JudgeFails, SendFails, Recorded, Judge, world, memory, history
  <2>2. ASSUME Poll PROVE poll'.pc # "send"
    BY <2>2 DEF Poll, Enter, Idle
  <2>3. ASSUME JudgeFails \/ SendFails \/ Recorded PROVE poll'.pc # "send"
    <3>1. poll # Idle
      BY <2>3, Resting DEF JudgeFails, SendFails, Recorded
    <3>2. GoesOn
      BY <2>3, <3>1, NextGoesOn DEF JudgeFails, SendFails, Recorded
    <3> QED  BY <3>2, Resting DEF GoesOn
  <2> QED  BY <1>2, <1>8, <2>1, <2>2, <2>3
<1>9. CASE Start \/ Finish \/ Elsewhere \/ Tick \/ UNCHANGED vars
  BY <1>2, <1>9 DEF Start, Finish, Elsewhere, Tick, vars, world, memory, history
<1> QED  BY <1>3, <1>4, <1>5, <1>6, <1>7, <1>8, <1>9 DEF Next, Notice

(***************************************************************************)
(* A notice is never sent again, in the boot that sent it or in a later    *)
(* one, even when its record has left the file since                       *)
(* (scheduler_cap_notice.py:9, 425, 468).                                  *)
(***************************************************************************)
THEOREM NoticesAreSentOnce == Spec => []ToldOnce
<1> DEFINE Inv == BaseInv /\ Remembered /\ Told
<1>1. Init => Inv
  <2>1. Init => /\ noted = {} /\ done = {} /\ told = {} /\ poll = Idle
    BY DEF Init
  <2> QED  BY <2>1, BaseInit, Resting DEF Remembered, Told
<1>2. Inv /\ [Next]_vars => Inv'
  BY BaseStep, RememberedStep, ToldStep
<1>3. Inv => ToldOnce
  <2> SUFFICES ASSUME Inv, poll.pc = "send", NEW p \in poll.periods
               PROVE  <<p, boots>> \notin told /\ p \notin noted
    BY DEF ToldOnce
  <2>1. up /\ p \in Periods
    BY Resting DEF BaseInv, TypeInv, Polls
  <2> QED  BY <2>1 DEF Told
<1> QED  BY <1>1, <1>2, <1>3, PTL DEF Spec

(***************************************************************************)
(* No notice is prepared about a period whose success was recorded before  *)
(* it was judged, even when that record has left the file since            *)
(* (scheduler_cap_notice.py:218).                                          *)
(***************************************************************************)
THEOREM NoticesAreTrue == Spec => NoFalseAlarm
<1> DEFINE Inv == BaseInv /\ Remembered
<1>1. Init => Inv
  <2>1. Init => noted = {} /\ done = {}
    BY DEF Init
  <2> QED  BY <2>1, BaseInit DEF Remembered
<1>2. Inv /\ [Next]_vars => Inv'
  BY BaseStep, RememberedStep
<1>3. Inv /\ [Next]_vars
        => [poll.pc = "judge" /\ poll'.pc = "send" => poll'.periods \cap done = {}]_vars
  <2> SUFFICES ASSUME Inv, [Next]_vars, poll.pc = "judge", poll'.pc = "send"
               PROVE  poll'.periods \cap done = {}
    OBVIOUS
  <2>1. poll # Idle /\ poll \in Polls
    BY Resting DEF BaseInv, TypeInv
  <2>2. Judge
    <3>1. poll' # poll /\ poll'.pc # poll.pc
      OBVIOUS
    <3>2. ~UNCHANGED vars /\ ~Start /\ ~Finish /\ ~Elsewhere /\ ~Tick /\ ~Boot
      BY <3>1 DEF vars, Start, Finish, Elsewhere, Tick, Boot
    <3>3. ~Crash /\ ~Poll
      BY <2>1, Resting DEF Crash, Poll
    <3>4. ~JudgeFails
      <4>1. JudgeFails => GoesOn
        BY <2>1, NextGoesOn DEF JudgeFails
      <4> QED  BY <4>1, Resting DEF GoesOn
    <3>5. ~Send /\ ~SendFails /\ ~RecordSent /\ ~Recorded
      BY DEF Send, SendFails, RecordSent, Recorded
    <3> QED  BY <3>2, <3>3, <3>4, <3>5 DEF Next, Notice
  <2>3. poll'.periods = Found(poll.find, poll.at)
    <3>1. CASE Found(poll.find, poll.at) = {}
      <4>1. GoesOn
        BY <2>1, <2>2, <3>1, NextGoesOn DEF Judge
      <4> QED  BY <4>1, Resting DEF GoesOn
    <3>2. CASE Found(poll.find, poll.at) # {}
      BY <2>1, <2>2, <3>2 DEF Judge, Polls
    <3> QED  BY <3>1, <3>2
  <2> QED  BY <2>1, <2>3, FindsNew
<1> QED  BY <1>1, <1>2, <1>3, PTL DEF Spec, NoFalseAlarm

-----------------------------------------------------------------------------
(* A day that was scanned has nothing left to tell *)

\* What a scan of the day would find
Left(t) == IF job \in Weekly THEN Ended(t) ELSE Past(t)

\* The first day, or week, of a period
LEMMA LeftIs ==
  ASSUME BaseInv, NEW t \in Nat, NEW p \in Left(t)
  PROVE  /\ p \in Nat /\ p * Span \in Int /\ ~(p * Span < Reach(t))
         /\ StillUnreported(p) /\ Kept(DayOf(p * Span))
<1>1. /\ job \in Jobs /\ Span \in Nat \ {0} /\ Day \in Nat \ {0} /\ DayRange \in Nat
  BY BaseIs, Lengths
<1>2. Period(job, t) \in Nat /\ DayOf(t) \in Nat /\ Reach(t) \in Int
  BY <1>1, ReachIs
<1>3. CASE job \in Weekly
  <2>1. /\ p \in Nat /\ p >= Period(job, t) - 1
        /\ Kept(DayOf(p * Span)) /\ StillUnreported(p)
    BY <1>2, <1>3 DEF Left, Ended, Span
  <2>2. p * Span < Reach(t) => p < Period(job, t) - 1
    BY <1>1, <1>3, <2>1, OutOfReach
  <2>3. p * Span \in Int
    BY <1>1, <2>1
  <2> QED  BY <1>2, <2>1, <2>2, <2>3
<1>4. CASE job \notin Weekly
  <2>1. /\ p \in (DayOf(t) - DayRange) .. (DayOf(t) - 1)
        /\ Kept(p) /\ StillUnreported(p) /\ Span = Day
    BY <1>1, <1>4, Lengths DEF Left, Past
  <2>2. p > DayOf(Head(disk).at)
    BY <2>1 DEF Kept
  <2>3. DayOf(Head(disk).at) \in Int /\ DayOf(Head(disk).at) >= -1
    <3>1. Head(disk) \in ToSet(disk)
      BY Members DEF BaseInv, TypeInv
    <3>2. Head(disk).at \in Int /\ Head(disk).at >= -1
      BY <3>1, RecordTimes
    <3>3. (-1) * Day <= -1
      BY <1>1
    <3>4. (-1) * Day <= Head(disk).at
      BY <1>1, <3>2, <3>3
    <3>5. -1 <= Head(disk).at \div Day
      BY <1>1, <3>2, <3>4, Reached
    <3> QED  BY <1>1, <3>2, <3>5, Quotient DEF DayOf
  <2>4. p \in Nat
    BY <1>1, <1>2, <2>1, <2>2, <2>3
  <2>5. DayOf(p * Span) = p /\ p * Span \in Int
    BY <1>1, <2>1, <2>4, Reached DEF DayOf
  <2>6. p * Span < Reach(t) => p < DayOf(t) - DayRange
    BY <1>1, <1>4, <2>4, OutOfReach
  <2> QED  BY <1>1, <1>2, <2>1, <2>4, <2>5, <2>6
<1> QED  BY <1>3, <1>4

LEMMA LeftFact ==
  BaseInv => \A q \in Left(now) :
               /\ q \in Nat /\ q * Span \in Int /\ ~(q * Span < Reach(now))
               /\ StillUnreported(q) /\ Kept(DayOf(q * Span))
BY BaseFact, LeftIs

\* Another time of the same day finds the same
LEMMA SameDay ==
  ASSUME job \in Jobs, NEW s \in Nat, NEW t \in Nat, DayOf(s) = DayOf(t)
  PROVE  Left(s) = Left(t)
<1>1. /\ Span \in Nat \ {0} /\ Day \in Nat \ {0}
  BY Lengths
<1>2. CASE job \in Weekly
  <2>1. Span % Day = 0
    BY <1>2, Lengths
  <2>2. s \div Span <= t \div Span /\ t \div Span <= s \div Span
    BY <1>1, <2>1, SameWeek DEF DayOf
  <2>3. s \div Span \in Nat /\ t \div Span \in Nat
    BY <1>1, Quotient
  <2>4. Period(job, s) = Period(job, t)
    BY <2>2, <2>3 DEF Period, Span
  <2>5. \A w : RecoveryEnded(w, s) <=> RecoveryEnded(w, t)
    BY DEF RecoveryEnded
  <2> QED  BY <1>2, <2>4, <2>5 DEF Left, Ended
<1>3. CASE job \notin Weekly
  BY <1>3 DEF Left, Past
<1> QED  BY <1>2, <1>3

\* What a step that leaves the clock alone leaves to be told was left before
LEMMA LeftShrinks ==
  ASSUME BaseInv, [Next]_vars, now' = now, sent \subseteq sent'
  PROVE  Left(now)' \subseteq Left(now)
<1>1. /\ BaseInv' /\ Written /\ job' = job
      /\ Base \in Nat /\ Base' \in Nat /\ Base <= Base'
  BY BaseStep
<1>2. /\ job \in Jobs /\ now \in Nat /\ Span \in Nat \ {0} /\ Day \in Nat \ {0}
  BY BaseIs, Lengths
<1>3. (/\ Base \in Nat /\ Base <= now /\ now \in Nat
       /\ poll # Idle => Base = poll.at
       /\ poll = Idle => Base = now)'
  BY <1>1, BaseFact, PTL
<1>4. PICK b \in Nat : b = Base'
  BY <1>1
<1>5. Base <= b /\ b <= now
  BY <1>1, <1>3, <1>4
<1>6. /\ Reach(Base) <= Reach(now) /\ Reach(b) <= Reach(now)
      /\ Reach(Base) \in Int /\ Reach(b) \in Int /\ Reach(now) \in Int
      /\ Period(job, Base) <= Period(job, now)
      /\ \E m \in Int : Reach(Base) = m * Day
  BY <1>1, <1>2, <1>4, <1>5, BaseIs, ReachGrows, ReachIs
<1> SUFFICES ASSUME NEW p \in Left(now)' PROVE p \in Left(now)
  OBVIOUS
<1>7. (/\ p \in Nat /\ p * Span \in Int /\ ~(p * Span < Reach(now))
       /\ StillUnreported(p) /\ Kept(DayOf(p * Span)))'
  <2>1. (\A q \in Left(now) :
           /\ q \in Nat /\ q * Span \in Int /\ ~(q * Span < Reach(now))
           /\ StillUnreported(q) /\ Kept(DayOf(q * Span)))'
    BY <1>1, LeftFact, PTL
  <2> QED  BY <2>1
<1>8. /\ Span' = Span /\ Reach(now)' = Reach(now) /\ Reach(Base)' = Reach(b)
      /\ DayOf(p * Span)' = DayOf(p * Span)
      /\ Period(job, now)' = Period(job, now)
  BY <1>1, <1>4 DEF Span, Reach, Period, DayOf
<1>9. p \in Nat /\ p * Span \in Int /\ p * Span >= Reach(now)
  BY <1>2, <1>6, <1>7, <1>8
<1> DEFINE e == DayOf(p * Span)
<1>10. e \in Int
  BY <1>2, <1>9, Quotient DEF DayOf
<1>11. /\ Head(disk) \in ToSet(disk) /\ Head(disk') \in ToSet(disk')
       /\ Head(disk') = Head(disk) \/ MayLeave(Head(disk))
       /\ \A y \in ToSet(disk') : y \in ToSet(disk) \/ (y.at \in Nat /\ y.at >= Base)
  BY <1>1, FileStep
<1>12. e > DayOf(Head(disk').at)
  BY <1>7, <1>8 DEF Kept, DayOf
<1>13. Kept(e)
  <2> DEFINE h == Head(disk)
             k == Head(disk')
  <2>1. h.at \in Int /\ DayOf(h.at) \in Int
    BY <1>2, <1>11, RecordTimes, Quotient DEF DayOf
  <2>2. k.at \in Int /\ DayOf(k.at) \in Int
    <3>1. k.at \in Int
      BY <1>11, RecordTimes
    <3> QED  BY <1>2, <3>1, Quotient DEF DayOf
  <2>3. DayOf(h.at) < e
    <3>1. CASE k = h
      BY <1>12, <3>1
    <3>2. CASE h.at < Reach(Base)
      <4>1. PICK m \in Int : Reach(Base) = m * Day
        BY <1>6
      <4>2. h.at \div Day < m
        BY <1>2, <2>1, <3>2, <4>1, Below
      <4> DEFINE w == p * Span
      <4>3. w \in Int /\ m * Day <= w
        BY <1>6, <1>9, <4>1
      <4> HIDE DEF w
      <4>4. m <= w \div Day
        BY <1>2, <4>3, Reached
      <4>5. w \div Day \in Int /\ h.at \div Day \in Int
        BY <1>2, <2>1, <4>3, Quotient
      <4>6. h.at \div Day < w \div Day
        BY <4>2, <4>4, <4>5
      <4> QED  BY <4>6 DEF w, DayOf
    <3>3. CASE /\ Period(job, h.at) < Period(job, Base)
               /\ \A y \in ToSet(disk) : DayOf(h.at) <= DayOf(y.at)
      <4>1. CASE k \in ToSet(disk)
        BY <1>10, <1>12, <2>1, <2>2, <3>3, <4>1
      <4>2. CASE k.at >= Base
        <5>1. ~(Base <= h.at)
          <6>1. Base <= h.at => Base \div Span <= h.at \div Span
            BY <1>1, <1>2, <2>1, QuotientGrows
          <6>2. h.at \div Span \in Int /\ Base \div Span \in Int
            BY <1>1, <1>2, <2>1, Quotient
          <6> QED  BY <3>3, <6>1, <6>2 DEF Period, Span
        <5>2. h.at <= k.at
          BY <1>1, <2>1, <2>2, <4>2, <5>1
        <5>3. h.at \div Day <= k.at \div Day
          BY <1>2, <2>1, <2>2, <5>2, QuotientGrows
        <5>4. DayOf(h.at) <= DayOf(k.at)
          BY <5>3 DEF DayOf
        <5> QED  BY <1>10, <1>12, <2>1, <2>2, <5>4
      <4> QED  BY <1>11, <4>1, <4>2
    <3> QED  BY <1>11, <3>1, <3>2, <3>3 DEF MayLeave
  <2>4. disk # <<>>
    BY DEF BaseInv, TypeInv
  <2> QED  BY <1>10, <2>1, <2>3, <2>4 DEF Kept
<1>14. ~PassedBy(p)'
  <2>1. ~(p * Span < Reach(b))
    BY <1>6, <1>9
  <2>2. Head(disk').at \in Int /\ DayOf(Head(disk').at) \in Int
    <3>1. Head(disk').at \in Int
      BY <1>11, RecordTimes
    <3> QED  BY <1>2, <3>1, Quotient DEF DayOf
  <2>3. ~(\A y \in ToSet(disk') : DayOf(p * Span) <= DayOf(y.at))
    BY <1>10, <1>11, <1>12, <2>2
  <2>4. (p * Span < Reach(Base))' <=> p * Span < Reach(b)
    BY <1>8
  <2>5. (\A y \in ToSet(disk) : DayOf(p * Span) <= DayOf(y.at))'
          <=> \A y \in ToSet(disk') : DayOf(p * Span) <= DayOf(y.at)
    BY <1>1 DEF DayOf, Span
  <2> QED  BY <2>1, <2>3, <2>4, <2>5 DEF PassedBy
<1>15. StillUnreported(p)
  <2>1. p \notin sent' /\ ~HasSuccess(disk, job, p)' /\ ~HasNotice(p)'
    BY <1>7 DEF StillUnreported, HasNotice
  <2>2. ~HasNotice(p) /\ ~HasSuccess(disk, job, p)
    BY <1>1, <1>9, <1>14, <2>1, KnownStays
  <2> QED  BY <2>1, <2>2 DEF StillUnreported, HasNotice
<1>16. CASE job \in Weekly
  <2>1. p \in {Period(job, now) - 1, Period(job, now)} \cap Nat /\ RecoveryEnded(p, now)
    BY <1>1, <1>16 DEF Left, Ended, Period, RecoveryEnded, DayOf
  <2> QED  BY <1>13, <1>15, <1>16, <2>1 DEF Left, Ended, Span
<1>17. CASE job \notin Weekly
  <2>1. p \in (DayOf(now) - DayRange) .. (DayOf(now) - 1)
    BY <1>1, <1>17 DEF Left, Past, DayOf
  <2>2. e = p
    BY <1>2, <1>9, <1>17, Lengths, Reached DEF DayOf
  <2> QED  BY <1>13, <1>15, <1>17, <2>1, <2>2 DEF Left, Past
<1> QED  BY <1>16, <1>17

Scanned == up /\ DayOf(now) \in scanned => Left(now) = {}

LEMMA ScanStep ==
  ASSUME BaseInv, Scanned, [Next]_vars
  PROVE  Scanned'
<1> SUFFICES ASSUME up', (DayOf(now) \in scanned)' PROVE Left(now)' = {}
  BY DEF Scanned
<1>1. job' = job /\ TypeInv /\ Looks /\ job \in Jobs /\ now \in Nat /\ Day \in Nat \ {0}
  BY BaseStep, BaseIs, Lengths DEF BaseInv
<1>2. up
  <2>1. ~Boot
    BY <1>1 DEF Boot, memory, TypeInv
  <2> QED  BY <1>1, <2>1 DEF Next, vars, world, Start, Finish, Elsewhere, Tick, Crash, Poll, Notice,
                             JudgeFails, Judge, Send, SendFails, RecordSent, Recorded
<1>3. CASE now' = now /\ DayOf(now) \in scanned
  <2>1. Left(now) = {}
    BY <1>2, <1>3 DEF Scanned
  <2>2. sent \subseteq sent'
    <3>1. ~Crash
      BY DEF Crash
    <3> QED  BY <3>1 DEF Next, vars, memory, Start, Finish, Elsewhere, Tick, Boot, Poll, Notice,
                         JudgeFails, Judge, Send, SendFails, RecordSent, Recorded
  <2> QED  BY <1>3, <2>1, <2>2, LeftShrinks
<1>4. CASE now' # now
  <2>1. /\ now' = now + 1 /\ scanned' = scanned /\ sent' = sent /\ disk' = disk
    BY <1>4 DEF Next, vars, world, memory, Start, Finish, Elsewhere, Tick, Crash, Boot, Poll, Notice,
                JudgeFails, Judge, Send, SendFails, RecordSent, Recorded
  <2>2. DayOf(now)' = DayOf(now + 1)
    BY <2>1 DEF DayOf
  <2>3. DayOf(now + 1) <= DayOf(now)
    BY <2>1, <2>2, <1>1 DEF Looks
  <2>4. now \div Day <= (now + 1) \div Day
    BY <1>1, QuotientGrows
  <2>5. DayOf(now) \in Nat /\ DayOf(now + 1) \in Nat
    BY <1>1, ReachIs
  <2>6. DayOf(now) = DayOf(now + 1)
    BY <2>3, <2>4, <2>5 DEF DayOf
  <2>7. Left(now) = {}
    <3>1. DayOf(now) \in scanned
      BY <2>1, <2>2, <2>6
    <3> QED  BY <1>2, <3>1 DEF Scanned
  <2>8. Left(now + 1) = {}
    BY <1>1, <2>6, <2>7, SameDay
  <2>9. Left(now)' = Left(now + 1)
    BY <1>1, <2>1 DEF Left, Ended, Past, Period, Kept, RecoveryEnded, StillUnreported, DayOf
  <2> QED  BY <2>8, <2>9
<1>5. CASE now' = now /\ DayOf(now) \notin scanned
  <2>1. DayOf(now) \in scanned'
    BY <1>5 DEF DayOf
  <2>2. Judge /\ ~JudgeFails
    BY <1>5, <2>1 DEF Next, vars, memory, Start, Finish, Elsewhere, Tick, Crash, Boot, Poll, Notice,
                      JudgeFails, Judge, Send, SendFails, RecordSent, Recorded
  <2>3. /\ Found(poll.find, poll.at) = {} /\ poll.find \in {"ended", "past"}
        /\ DayOf(now) = DayOf(poll.at)
    BY <1>5, <2>1, <2>2 DEF Judge
  <2>4. poll # Idle /\ poll.at \in Nat
    BY <1>1, <2>2, Resting DEF Judge, TypeInv, Polls
  <2>5. poll.find \in Finds
    BY <1>1, <2>4 DEF Looks, Finds
  <2>6. Left(poll.at) = {}
    <3>1. CASE poll.find = "ended"
      <4>1. job \in Weekly
        BY <2>5, <3>1 DEF Finds
      <4> DEFINE t == poll.at
                 q == Period(job, t)
      <4>2. Ended(t) \subseteq {q - 1, q} /\ q \in Nat
        BY <1>1, <2>4, ReachIs DEF Ended
      <4>3. {w \in Ended(t) : \A v \in Ended(t) : w <= v} = {}
        BY <2>3, <3>1 DEF Found
      <4> HIDE DEF q
      <4>4. Ended(t) = {}
        <5>1. CASE q - 1 \in Ended(t)
          BY <4>2, <4>3, <5>1
        <5>2. CASE q - 1 \notin Ended(t)
          <6>1. Ended(t) \subseteq {q}
            BY <4>2, <5>2
          <6> QED  BY <4>2, <4>3, <6>1
        <5> QED  BY <5>1, <5>2
      <4> QED  BY <4>1, <4>4 DEF Left
    <3>2. CASE poll.find = "past"
      <4>1. job \notin Weekly
        BY <2>5, <3>2 DEF Finds
      <4>2. Past(poll.at) = {}
        BY <2>3, <3>2 DEF Found
      <4> QED  BY <4>1, <4>2 DEF Left
    <3> QED  BY <2>3, <3>1, <3>2
  <2>7. Left(now) = {}
    BY <1>1, <2>3, <2>4, <2>6, SameDay
  <2>8. sent' = sent
    BY <2>2 DEF Judge
  <2> QED  BY <1>5, <2>7, <2>8, LeftShrinks
<1> QED  BY <1>3, <1>4, <1>5

(***************************************************************************)
(* On a day marked as scanned no earlier period is left to tell, whatever  *)
(* is recorded and leaves the file after the mark was made                 *)
(* (scheduler_cap_notice.py:123, 205).                                     *)
(***************************************************************************)
THEOREM ScansAreFinal == Spec => []ScanIsFinal
<1> DEFINE Inv == BaseInv /\ Scanned
<1>1. Init => Inv
  <2>1. Init => scanned = {}
    BY DEF Init
  <2> QED  BY <2>1, BaseInit DEF Scanned
<1>2. Inv /\ [Next]_vars => Inv'
  BY BaseStep, ScanStep
<1>3. Inv => ScanIsFinal
  BY DEF Scanned, ScanIsFinal, Left
<1> QED  BY <1>1, <1>2, <1>3, PTL DEF Spec
=============================================================================
