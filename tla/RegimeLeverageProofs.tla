------------------------ MODULE RegimeLeverageProofs ------------------------
(***************************************************************************)
(* Proofs about the regime position, for any runs and bounds: the types;   *)
(* that positions follow one another when runs do not overlap; and that no *)
(* bar is passed over when, besides, no bar closes within a run.           *)
(***************************************************************************)
EXTENDS RegimeLeverage, TLAPS

Pcs == {"idle", "fetch", "decide", "insert"}

\* The local variables of a run when c bars have closed
Jobs(c) ==
  [pc : Pcs, snap : Rows, seen : SUBSET (1 .. c + 1), blank : SUBSET (1 .. c + 1),
   low : SUBSET (1 .. c + 1), write : Rows]

(* TypeOK, and that an entry to be inserted is within the bound of positions *)
TypeInv ==
  /\ closed \in 0 .. MaxBars /\ hit \subseteq 1 .. closed + 1
  /\ row \in Rows /\ check \in 0 .. closed /\ opened \in 0 .. MaxOpened
  /\ judged \subseteq 1 .. closed
  /\ job \in [Runs -> Jobs(closed)]
  /\ \A p \in Runs :
       job[p].write.reason = "regime_entry" => job[p].write.pos \in 0 .. MaxOpened

-----------------------------------------------------------------------------
(* Types *)

LEMMA NoRowType == NoRow \in Rows
BY DEF NoRow, Rows, Reasons

LEMMA IdleType == \A c \in Nat : Idle \in Jobs(c)
BY NoRowType DEF Idle, Jobs, Pcs

\* A step that changes nothing but one run's variables
LEMMA JobTyped ==
  ASSUME TypeInv, NEW p \in Runs, NEW j \in Jobs(closed),
         j.write.reason = "regime_entry" => j.write.pos \in 0 .. MaxOpened,
         job' = [job EXCEPT ![p] = j],
         closed' = closed
  PROVE  /\ job' \in [Runs -> Jobs(closed')]
         /\ \A q \in Runs :
              job'[q].write.reason = "regime_entry" => job'[q].write.pos \in 0 .. MaxOpened
BY DEF TypeInv

LEMMA EndTyped ==
  ASSUME TypeInv, NEW p \in Runs, End(p), closed' = closed
  PROVE  /\ job' \in [Runs -> Jobs(closed')]
         /\ \A q \in Runs :
              job'[q].write.reason = "regime_entry" => job'[q].write.pos \in 0 .. MaxOpened
<1>1. Idle \in Jobs(closed)
  BY IdleType DEF TypeInv
<1>2. Idle.write.reason # "regime_entry"
  BY DEF Idle, NoRow
<1> QED BY <1>1, <1>2, JobTyped DEF End

LEMMA WriteTyped ==
  ASSUME TypeInv, NEW p \in Runs, NEW r \in Rows, Write(p, r), closed' = closed,
         r.reason = "regime_entry" => r.pos \in 0 .. MaxOpened
  PROVE  /\ job' \in [Runs -> Jobs(closed')]
         /\ \A q \in Runs :
              job'[q].write.reason = "regime_entry" => job'[q].write.pos \in 0 .. MaxOpened
<1> DEFINE j == [Idle EXCEPT !.pc = "insert", !.write = r]
<1>1. j \in Jobs(closed) /\ j.write = r
  BY NoRowType DEF TypeInv, Idle, Jobs, Pcs
<1>2. job' = [job EXCEPT ![p] = j]
  BY DEF Write
<1> HIDE DEF j
<1> QED BY <1>1, <1>2, JobTyped

\* What a daily run judges has closed
LEMMA JudgedClosed ==
  ASSUME TypeInv, NEW p \in Runs
  PROVE  Unchecked(p) \subseteq 1 .. closed
<1>1. job[p].seen \subseteq 1 .. closed + 1 /\ closed \in Nat
  BY DEF TypeInv, Jobs
<1> DEFINE shut == {b \in job[p].seen : b <= closed}
<1>2. shut \subseteq 1 .. closed
  BY <1>1
<1>3. Unchecked(p) \subseteq shut
  BY DEF Unchecked
<1> QED BY <1>2, <1>3

LEMMA JudgeTyped ==
  ASSUME TypeInv, NEW p \in Runs, Judge(p)
  PROVE  judged' \subseteq 1 .. closed
BY JudgedClosed DEF Judge, Judged, TypeInv

LEMMA TypeInit == Init => TypeInv
<1> SUFFICES ASSUME Init PROVE TypeInv
  OBVIOUS
<1>1. Idle \in Jobs(closed) /\ NoRow \in Rows
  BY IdleType, NoRowType DEF Init
<1>2. Idle.write.reason # "regime_entry"
  BY DEF Idle, NoRow
<1> QED BY <1>1, <1>2, RegimeAssumption DEF Init, TypeInv

LEMMA MarketTyped ==
  ASSUME TypeInv, Fall \/ CloseBar
  PROVE  TypeInv'
<1>1. CASE Fall
  BY <1>1 DEF Fall, table, TypeInv
<1>2. CASE CloseBar
  <2>1. closed \in Nat /\ closed' = closed + 1 /\ closed' \in 0 .. MaxBars
    BY <1>2, RegimeAssumption DEF CloseBar, TypeInv
  <2>2. 1 .. closed + 1 \subseteq 1 .. closed' + 1 /\ 1 .. closed \subseteq 1 .. closed'
        /\ 0 .. closed \subseteq 0 .. closed'
    BY <2>1
  <2>3. Jobs(closed) \subseteq Jobs(closed')
    BY <2>2 DEF Jobs
  <2>4. job' \in [Runs -> Jobs(closed')]
    BY <1>2, <2>3 DEF CloseBar, TypeInv
  <2> QED BY <1>2, <2>1, <2>2, <2>4 DEF CloseBar, table, TypeInv
<1> QED BY <1>1, <1>2

\* The steps of a run before it decides
LEMMA ReadTyped ==
  ASSUME TypeInv, NEW p \in Runs, Begin(p) \/ Fetch(p) \/ Abort(p)
  PROVE  TypeInv'
<1>0. job[p] \in Jobs(closed) /\ row \in Rows /\ closed \in Nat
      /\ (job[p].write.reason = "regime_entry" => job[p].write.pos \in 0 .. MaxOpened)
  BY DEF TypeInv
<1>1. CASE Begin(p)
  <2> DEFINE j == [job[p] EXCEPT !.pc = "fetch", !.snap = row]
             i == [job[p] EXCEPT !.pc = "fetch"]
  <2>1. j \in Jobs(closed) /\ j.write = job[p].write
    BY <1>0 DEF Jobs, Pcs
  <2>2. i \in Jobs(closed) /\ i.write = job[p].write
    BY <1>0 DEF Jobs, Pcs
  <2>3. job' = [job EXCEPT ![p] = j] \/ job' = [job EXCEPT ![p] = i]
    BY <1>1 DEF Begin, Goto
  <2> HIDE DEF j, i
  <2>4. UNCHANGED <<closed, hit, row, check, opened, judged>>
    BY <1>1 DEF Begin, market, table
  <2>5. /\ job' \in [Runs -> Jobs(closed')]
        /\ \A q \in Runs :
             job'[q].write.reason = "regime_entry" => job'[q].write.pos \in 0 .. MaxOpened
    BY <1>0, <2>1, <2>2, <2>3, <2>4, JobTyped
  <2> QED BY <2>4, <2>5 DEF TypeInv
<1>2. CASE Fetch(p)
  <2> PICK seen \in SUBSET (1 .. closed + 1) : \E blank \in SUBSET seen : Download(p, seen, blank)
    BY <1>2 DEF Fetch
  <2> PICK blank \in SUBSET seen : Download(p, seen, blank)
    OBVIOUS
  <2> DEFINE s == IF p \in Dailies THEN job[p].snap ELSE row
             j == [job[p] EXCEPT !.pc = "decide", !.seen = seen, !.blank = blank,
                                 !.low = hit \cap (seen \ blank), !.snap = s]
  <2>1. s \in Rows
    BY <1>0 DEF Jobs
  <2>2. j \in Jobs(closed) /\ j.write = job[p].write
    <3> HIDE DEF s
    <3> QED BY <1>0, <2>1 DEF Jobs, Pcs
  <2>3. job' = [job EXCEPT ![p] = j]
    BY DEF Download
  <2> HIDE DEF j, s
  <2>4. UNCHANGED <<closed, hit, row, check, opened, judged>>
    BY DEF Download, market, table
  <2>5. /\ job' \in [Runs -> Jobs(closed')]
        /\ \A q \in Runs :
             job'[q].write.reason = "regime_entry" => job'[q].write.pos \in 0 .. MaxOpened
    BY <1>0, <2>2, <2>3, <2>4, JobTyped
  <2> QED BY <2>4, <2>5 DEF TypeInv
<1>3. CASE Abort(p)
  <2>1. End(p) /\ UNCHANGED <<closed, hit, row, check, opened, judged>>
    BY <1>3 DEF Abort, market, table
  <2> QED BY <2>1, EndTyped DEF TypeInv
<1> QED BY <1>1, <1>2, <1>3

LEMMA DailyTyped ==
  ASSUME TypeInv, NEW p \in Runs, Daily(p)
  PROVE  TypeInv'
<1>1. UNCHANGED <<closed, hit, row, check, opened>> /\ Judge(p)
  BY DEF Daily, DecideExit, DecideNoop, market, table
<1>2. job[p].snap \in Rows
  BY DEF TypeInv, Jobs
<1>3. PICK r \in Rows : Write(p, r) /\ r.reason # "regime_entry"
  <2>1. CASE DecideExit(p)
    <3>1. [NoRow EXCEPT !.reason = "exit"] \in Rows
          /\ [NoRow EXCEPT !.reason = "exit"].reason # "regime_entry"
      BY NoRowType DEF Rows, Reasons
    <3> QED BY <2>1, <3>1 DEF DecideExit
  <2>2. CASE DecideNoop(p)
    <3>1. [job[p].snap EXCEPT !.reason = "daily_noop"] \in Rows
          /\ [job[p].snap EXCEPT !.reason = "daily_noop"].reason # "regime_entry"
      BY <1>2 DEF Rows, Reasons
    <3> QED BY <2>2, <3>1 DEF DecideNoop
  <2> QED BY <2>1, <2>2 DEF Daily
<1>4. judged' \subseteq 1 .. closed'
  BY <1>1, JudgeTyped
<1>5. /\ job' \in [Runs -> Jobs(closed')]
      /\ \A q \in Runs :
           job'[q].write.reason = "regime_entry" => job'[q].write.pos \in 0 .. MaxOpened
  BY <1>1, <1>3, WriteTyped
<1> QED BY <1>1, <1>4, <1>5 DEF TypeInv

LEMMA WeeklyTyped ==
  ASSUME TypeInv, NEW p \in Runs, Weekly(p)
  PROVE  TypeInv'
<1>0. job[p].snap \in Rows /\ closed \in Nat /\ opened \in 0 .. MaxOpened /\ MaxOpened \in Nat
  BY RegimeAssumption DEF TypeInv, Jobs
<1>1. PICK reason \in Reasons, pos \in Nat, entry \in Nat :
        /\ DecideWeekly(p, reason, pos, entry)
        /\ reason = "regime_entry" => pos \in 0 .. MaxOpened
  <2>1. CASE DecideEntry(p)
    <3>1. opened + 1 \in 0 .. MaxOpened
      BY <1>0, <2>1 DEF DecideEntry
    <3>2. DecideWeekly(p, "regime_entry", opened + 1, closed)
      BY <2>1 DEF DecideEntry
    <3>3. "regime_entry" \in Reasons /\ opened + 1 \in Nat
      BY <1>0 DEF Reasons
    <3> QED BY <1>0, <3>1, <3>2, <3>3
  <2>2. CASE DecideFlip(p)
    BY <2>2 DEF DecideFlip, Reasons
  <2>3. CASE DecideStay(p)
    <3>1. job[p].snap.pos \in Nat /\ job[p].snap.entry \in Nat
      BY <1>0 DEF Rows
    <3>2. DecideWeekly(p, "weekly_noop", job[p].snap.pos, job[p].snap.entry)
      BY <2>3 DEF DecideStay
    <3> QED BY <3>1, <3>2 DEF Reasons
  <2> QED BY <2>1, <2>2, <2>3 DEF Weekly
<1> DEFINE r == [reason |-> reason, pos |-> pos, entry |-> entry, at |-> 0]
<1>2. r \in Rows /\ (r.reason = "regime_entry" => r.pos \in 0 .. MaxOpened)
  BY <1>1 DEF Rows
<1>3. Write(p, r) /\ UNCHANGED <<closed, hit, row, check, opened, judged>>
  BY <1>1 DEF DecideWeekly, market, table
<1> HIDE DEF r
<1>4. /\ job' \in [Runs -> Jobs(closed')]
      /\ \A q \in Runs :
           job'[q].write.reason = "regime_entry" => job'[q].write.pos \in 0 .. MaxOpened
  BY <1>2, <1>3, WriteTyped
<1> QED BY <1>3, <1>4 DEF TypeInv

LEMMA InsertTyped ==
  ASSUME TypeInv, NEW p \in Runs, Insert(p)
  PROVE  TypeInv'
<1> DEFINE w == job[p].write
<1>1. w \in Rows /\ closed \in 0 .. MaxBars /\ MaxBars \in Nat
      /\ (w.reason = "regime_entry" => w.pos \in 0 .. MaxOpened)
  BY RegimeAssumption DEF TypeInv, Jobs
<1>2. End(p) /\ UNCHANGED <<closed, hit>> /\ row' = [w EXCEPT !.at = closed]
  BY DEF Insert, market
<1>3. row' \in Rows
  BY <1>1, <1>2 DEF Rows
<1>4. check' \in 0 .. closed /\ opened' \in 0 .. MaxOpened
  BY <1>1 DEF Insert, TypeInv
<1>5. judged' \subseteq 1 .. closed
  BY DEF Insert, TypeInv
<1>6. /\ job' \in [Runs -> Jobs(closed')]
      /\ \A q \in Runs :
           job'[q].write.reason = "regime_entry" => job'[q].write.pos \in 0 .. MaxOpened
  BY <1>2, EndTyped
<1> QED BY <1>2, <1>3, <1>4, <1>5, <1>6 DEF TypeInv

LEMMA TypeStep == TypeInv /\ [Next]_vars => TypeInv'
<1> SUFFICES ASSUME TypeInv, [Next]_vars PROVE TypeInv'
  OBVIOUS
<1>1. CASE UNCHANGED vars
  BY <1>1 DEF vars, market, table, TypeInv
<1>2. CASE Fall \/ CloseBar
  BY <1>2, MarketTyped
<1>3. CASE \E p \in Runs : Begin(p) \/ Fetch(p) \/ Abort(p) \/ Insert(p)
  BY <1>3, ReadTyped, InsertTyped
<1>4. CASE \E p \in Dailies : Daily(p)
  BY <1>4, DailyTyped DEF Runs
<1>5. CASE \E p \in Weeklies : Weekly(p)
  BY <1>5, WeeklyTyped DEF Runs
<1> QED BY <1>1, <1>2, <1>3, <1>4, <1>5 DEF Next

LEMMA TypeAlways == Spec => []TypeInv
BY TypeInit, TypeStep, PTL DEF Spec

(***************************************************************************)
(* Every variable keeps its type, for any runs, overlapping or not, and no *)
(* more than MaxOpened positions are opened (TypeOK).                      *)
(***************************************************************************)
THEOREM TypeCorrect == Spec => []TypeOK
<1>1. TypeInv => TypeOK
  BY DEF TypeInv, TypeOK, Jobs, Pcs
<1> QED BY <1>1, TypeAlways, PTL

-----------------------------------------------------------------------------
(* Positions                                                               *)

\* Runs do not overlap
OneAtATime ==
  \A p, q \in Runs : job[p].pc # "idle" /\ job[q].pc # "idle" => p = q

\* A run goes by the last row there is
Reading(p) == job[p].pc = "decide" \/ (p \in Dailies /\ job[p].pc = "fetch")

RowCurrent ==
  \A p \in Runs : Reading(p) =>
    job[p].snap = row /\ (p \in Dailies => Held(row))

\* What row w makes of the position: it carries it on, closes it, or opens one
Follows(w) ==
  \/ w.reason \in {"daily_noop", "weekly_noop"} /\ w.pos = row.pos /\ w.entry = row.entry
  \/ w.reason = "exit" /\ Held(row) /\ ~Held(w)
  \/ w.reason = "regime_entry" /\ ~Held(row) /\ w.pos = opened + 1

WritesFollow == \A p \in Runs : job[p].pc = "insert" => Follows(job[p].write)

SerialInv == OneAtATime /\ RowCurrent /\ WritesFollow

LEMMA SerialInit == Init => SerialInv
BY DEF Init, SerialInv, OneAtATime, RowCurrent, Reading, WritesFollow, Idle

LEMMA SerialMarket ==
  ASSUME SerialInv, Fall \/ CloseBar
  PROVE  SerialInv'
BY DEF SerialInv, OneAtATime, RowCurrent, Reading, WritesFollow, Follows, Held,
       Fall, CloseBar, table

LEMMA SerialRead ==
  ASSUME Serial, TypeInv, SerialInv, NEW p \in Runs, Begin(p) \/ Fetch(p) \/ Abort(p)
  PROVE  SerialInv'
<1>0. UNCHANGED <<row, opened>> /\ DOMAIN job = Runs /\ job[p] \in Jobs(closed)
  BY DEF Begin, Fetch, Download, Abort, table, TypeInv
<1>1. CASE Begin(p)
  <2>1. \A q \in Runs : job[q].pc = "idle"
    BY <1>1 DEF Begin
  <2>2. /\ \A q \in Runs \ {p} : job'[q].pc = "idle"
        /\ job'[p].pc = "fetch"
        /\ p \in Dailies => job'[p].snap = row /\ Held(row)
    BY <1>0, <1>1, <2>1 DEF Begin, Goto, Jobs
  <2> QED BY <1>0, <2>2 DEF SerialInv, OneAtATime, RowCurrent, Reading, WritesFollow, Held
<1>2. CASE Fetch(p)
  <2>1. job[p].pc = "fetch"
    BY <1>2 DEF Fetch, Download
  <2> PICK seen \in SUBSET (1 .. closed + 1) : \E blank \in SUBSET seen : Download(p, seen, blank)
    BY <1>2 DEF Fetch
  <2> PICK blank \in SUBSET seen : Download(p, seen, blank)
    OBVIOUS
  <2>2. /\ \A q \in Runs \ {p} : job'[q] = job[q]
        /\ job'[p].pc = "decide"
        /\ job'[p].snap = IF p \in Dailies THEN job[p].snap ELSE row
    BY <1>0 DEF Download, Jobs
  <2>3. p \in Dailies => job[p].snap = row /\ Held(row)
    BY <2>1 DEF SerialInv, RowCurrent, Reading
  <2> QED BY <1>0, <2>1, <2>2, <2>3
          DEF SerialInv, OneAtATime, RowCurrent, Reading, WritesFollow, Follows, Held
<1>3. CASE Abort(p)
  <2>1. /\ \A q \in Runs \ {p} : job'[q] = job[q]
        /\ job'[p].pc = "idle"
    BY <1>0, <1>3 DEF Abort, End, Idle
  <2> QED BY <1>0, <2>1 DEF SerialInv, OneAtATime, RowCurrent, Reading, WritesFollow, Follows, Held
<1> QED BY <1>1, <1>2, <1>3

\* A run that has decided waits for its INSERT with a row that follows
LEMMA SerialWrite ==
  ASSUME SerialInv, NEW p \in Runs, NEW w, job \in [Runs -> Jobs(closed)],
         job[p].pc = "decide", Write(p, w), Follows(w), UNCHANGED <<row, opened>>
  PROVE  SerialInv'
<1>1. /\ \A q \in Runs \ {p} : job'[q] = job[q]
      /\ job'[p].pc = "insert" /\ job'[p].write = w
  BY DEF Write, Idle
<1> QED BY <1>1 DEF SerialInv, OneAtATime, RowCurrent, Reading, WritesFollow, Follows, Held

LEMMA SerialDecide ==
  ASSUME TypeInv, SerialInv, NEW p \in Runs,
         (p \in Dailies /\ Daily(p)) \/ (p \in Weeklies /\ Weekly(p))
  PROVE  SerialInv'
<1>0. /\ job \in [Runs -> Jobs(closed)] /\ job[p].pc = "decide"
      /\ UNCHANGED <<row, opened>>
  BY DEF TypeInv, Daily, DecideExit, DecideNoop, Weekly, DecideEntry, DecideFlip,
         DecideStay, DecideWeekly, table
<1>1. job[p].snap = row /\ (p \in Dailies => Held(row)) /\ row \in Rows
  BY <1>0 DEF SerialInv, RowCurrent, Reading, TypeInv
<1>2. CASE p \in Dailies /\ DecideExit(p)
  <2>1. Follows([NoRow EXCEPT !.reason = "exit"])
    BY <1>1, <1>2 DEF Follows, Held, NoRow
  <2> QED BY <1>0, <1>2, <2>1, SerialWrite DEF DecideExit
<1>3. CASE DecideNoop(p)
  <2>1. Follows([job[p].snap EXCEPT !.reason = "daily_noop"])
    BY <1>1 DEF Follows, Rows
  <2> QED BY <1>0, <1>3, <2>1, SerialWrite DEF DecideNoop
<1>4. CASE DecideEntry(p)
  <2> DEFINE w == [reason |-> "regime_entry", pos |-> opened + 1, entry |-> closed, at |-> 0]
  <2>1. Follows(w)
    BY <1>1, <1>4 DEF Follows, DecideEntry
  <2>2. Write(p, w)
    BY <1>4 DEF DecideEntry, DecideWeekly
  <2> QED BY <1>0, <2>1, <2>2, SerialWrite
<1>5. CASE DecideFlip(p)
  <2> DEFINE w == [reason |-> "exit", pos |-> 0, entry |-> 0, at |-> 0]
  <2>1. Follows(w)
    BY <1>1, <1>5 DEF Follows, Held, DecideFlip
  <2>2. Write(p, w)
    BY <1>5 DEF DecideFlip, DecideWeekly
  <2> QED BY <1>0, <2>1, <2>2, SerialWrite
<1>6. CASE DecideStay(p)
  <2> DEFINE w == [reason |-> "weekly_noop", pos |-> job[p].snap.pos,
                   entry |-> job[p].snap.entry, at |-> 0]
  <2>1. Follows(w)
    BY <1>1 DEF Follows
  <2>2. Write(p, w)
    BY <1>6 DEF DecideStay, DecideWeekly
  <2> QED BY <1>0, <2>1, <2>2, SerialWrite
<1> QED BY <1>2, <1>3, <1>4, <1>5, <1>6, RegimeAssumption DEF Daily, Weekly

LEMMA SerialInsert ==
  ASSUME TypeInv, SerialInv, NEW p \in Runs, Insert(p)
  PROVE  SerialInv'
<1>1. /\ \A q \in Runs \ {p} : job'[q] = job[q]
      /\ job'[p].pc = "idle" /\ job[p].pc = "insert"
  BY DEF Insert, End, Idle, TypeInv
<1>2. \A q \in Runs : job'[q].pc = "idle"
  BY <1>1 DEF SerialInv, OneAtATime
<1> QED BY <1>2 DEF SerialInv, OneAtATime, RowCurrent, Reading, WritesFollow

LEMMA SerialStep ==
  ASSUME Serial
  PROVE  TypeInv /\ SerialInv /\ [Next]_vars => SerialInv'
<1> SUFFICES ASSUME TypeInv, SerialInv, [Next]_vars PROVE SerialInv'
  OBVIOUS
<1>1. CASE UNCHANGED vars
  BY <1>1 DEF vars, market, table, SerialInv, OneAtATime, RowCurrent, Reading, WritesFollow,
              Follows, Held
<1>2. CASE Fall \/ CloseBar
  BY <1>2, SerialMarket
<1>3. CASE \E p \in Runs : Begin(p) \/ Fetch(p) \/ Abort(p) \/ Insert(p)
  BY <1>3, SerialRead, SerialInsert
<1>4. CASE \E p \in Dailies : Daily(p)
  BY <1>4, SerialDecide DEF Runs
<1>5. CASE \E p \in Weeklies : Weekly(p)
  BY <1>5, SerialDecide DEF Runs
<1> QED BY <1>1, <1>2, <1>3, <1>4, <1>5 DEF Next

LEMMA SerialAlways ==
  ASSUME Serial
  PROVE  Spec => []SerialInv
<1>1. TypeInv /\ SerialInv /\ [Next]_vars => SerialInv'
  BY SerialStep
<1> QED BY <1>1, SerialInit, TypeAlways, PTL DEF Spec

(***************************************************************************)
(* When runs do not overlap, a position that was closed never comes back   *)
(* and none is replaced by another, whatever fails (PositionsFollow).      *)
(***************************************************************************)
THEOREM PositionsStayApart ==
  ASSUME Serial
  PROVE  Spec => PositionsFollow
<1> DEFINE Step == row' # row => \/ row'.pos = row.pos /\ row'.entry = row.entry
                                 \/ Held(row) /\ ~Held(row')
                                 \/ ~Held(row) /\ row'.pos > opened
<1>1. TypeInv /\ SerialInv /\ [Next]_vars => [Step]_vars
  <2> SUFFICES ASSUME TypeInv, SerialInv, Next, row' # row PROVE Step
    OBVIOUS
  <2>1. PICK p \in Runs : Insert(p)
    <3>1. Fall \/ CloseBar => UNCHANGED row
      BY DEF Fall, CloseBar, table
    <3>2. \A p \in Runs : Begin(p) \/ Fetch(p) \/ Abort(p) => UNCHANGED row
      <4>1. ASSUME NEW p \in Runs, Begin(p) \/ Abort(p) PROVE UNCHANGED row
        BY <4>1, Zenon DEF Begin, Abort, table
      <4>2. ASSUME NEW p \in Runs, NEW seen, NEW blank, Download(p, seen, blank)
            PROVE  UNCHANGED row
        BY <4>2, Zenon DEF Download, table
      <4> QED BY <4>1, <4>2, Zenon DEF Fetch
    <3>3. \A p \in Dailies : Daily(p) => UNCHANGED row
      BY DEF Daily, DecideExit, DecideNoop, table
    <3>4. \A p \in Weeklies : Weekly(p) => UNCHANGED row
      BY DEF Weekly, DecideEntry, DecideFlip, DecideStay, DecideWeekly, table
    <3> QED BY <3>1, <3>2, <3>3, <3>4 DEF Next
  <2> DEFINE w == job[p].write
  <2>2. Follows(w) /\ w \in Rows /\ row' = [w EXCEPT !.at = closed] /\ opened \in Nat
    BY <2>1, RegimeAssumption DEF SerialInv, WritesFollow, Insert, TypeInv, Jobs
  <2> HIDE DEF w
  <2>3. row'.pos = w.pos /\ row'.entry = w.entry
    BY <2>2 DEF Rows
  <2> QED BY <2>2, <2>3 DEF Follows, Held
<1>2. Spec => [][Step]_vars
  BY <1>1, TypeAlways, SerialAlways, PTL DEF Spec
<1> QED BY <1>2 DEF PositionsFollow

-----------------------------------------------------------------------------
(* Bars                                                                    *)

\* The time of the last row of a daily run is the time of the last look
LookKnown == row.reason = "daily_noop" => row.at = check

\* A run that decides knows every low of a bar that has closed
LowsKnown ==
  \A p \in Dailies : job[p].pc = "decide" =>
    \A b \in job[p].seen \ job[p].blank : b <= closed /\ b \in hit => b \in job[p].low

\* Bar b was judged and does not close the position
Passed(b) == b \in judged /\ b \notin hit

\* Before the row of a daily run is inserted every bar up to now has passed, and
\* an entry is inserted before another bar closes
WritesChecked ==
  \A p \in Runs : job[p].pc = "insert" =>
    /\ job[p].write.reason = "daily_noop" => \A b \in (row.entry + 1) .. closed : Passed(b)
    /\ job[p].write.reason = "regime_entry" => job[p].write.entry = closed

BarInv == LookKnown /\ LowsKnown /\ WritesChecked /\ NoBarPassedOver

LEMMA BarInit == Init => BarInv
BY RegimeAssumption
   DEF Init, BarInv, LookKnown, LowsKnown, WritesChecked, NoBarPassedOver, Idle, NoRow, Held, Runs

LEMMA BarMarket ==
  ASSUME Prompt, TypeInv, BarInv, Fall \/ CloseBar
  PROVE  BarInv'
<1>0. closed \in Nat /\ check \in 0 .. closed /\ row.entry \in Nat
      /\ hit \subseteq 1 .. closed + 1
  BY DEF TypeInv, Rows
<1>1. CASE Fall
  <2>1. hit' = hit \cup {closed + 1} /\ UNCHANGED <<closed, row, check, opened, judged, job>>
    BY <1>1 DEF Fall, table
  <2>2. \A b \in Nat : b <= closed => (b \in hit' <=> b \in hit)
    BY <1>0, <2>1
  <2>3. LookKnown' /\ LowsKnown'
    BY <1>0, <2>1, <2>2 DEF BarInv, LookKnown, LowsKnown
  <2>4. \A b \in Nat : b <= closed /\ Passed(b) => Passed(b)'
    BY <2>1, <2>2 DEF Passed
  <2>5. WritesChecked'
    BY <1>0, <2>1, <2>4 DEF BarInv, WritesChecked
  <2>6. NoBarPassedOver'
    BY <1>0, <2>1, <2>4 DEF BarInv, NoBarPassedOver, Passed, Held
  <2> QED BY <2>3, <2>5, <2>6 DEF BarInv
<1>2. CASE CloseBar
  <2>1. \A p \in Runs : job[p].pc \notin {"decide", "insert"}
    BY <1>2 DEF CloseBar
  <2>2. UNCHANGED <<hit, row, check, opened, judged, job>>
    BY <1>2 DEF CloseBar, table
  <2> QED BY <2>1, <2>2
          DEF BarInv, LookKnown, LowsKnown, WritesChecked, NoBarPassedOver, Held, Runs
<1> QED BY <1>1, <1>2

\* A step of run p that neither decides nor inserts
LEMMA BarRead ==
  ASSUME TypeInv, BarInv, NEW p \in Runs, Begin(p) \/ Fetch(p) \/ Abort(p)
  PROVE  BarInv'
<1>0. UNCHANGED <<closed, hit, row, check, opened, judged>> /\ job \in [Runs -> Jobs(closed)]
  BY DEF Begin, Fetch, Download, Abort, market, table, TypeInv
<1>1. /\ \A q \in Runs \ {p} : job'[q] = job[q]
      /\ job'[p].pc # "insert"
      /\ job'[p].pc = "decide" =>
           \A b \in job'[p].seen \ job'[p].blank : b \in hit => b \in job'[p].low
  <2>1. CASE Begin(p)
    BY <1>0, <2>1 DEF Begin, Goto, Jobs
  <2>2. CASE Fetch(p)
    <3> PICK seen \in SUBSET (1 .. closed + 1) :
               \E blank \in SUBSET seen : Download(p, seen, blank)
      BY <2>2 DEF Fetch
    <3> PICK blank \in SUBSET seen : Download(p, seen, blank)
      OBVIOUS
    <3>1. /\ \A q \in Runs \ {p} : job'[q] = job[q]
          /\ job'[p].pc = "decide"
          /\ job'[p].seen = seen /\ job'[p].blank = blank
          /\ job'[p].low = hit \cap (seen \ blank)
      BY <1>0 DEF Download, Jobs
    <3> QED BY <3>1
  <2>3. CASE Abort(p)
    BY <1>0, <2>3 DEF Abort, End, Idle
  <2> QED BY <2>1, <2>2, <2>3
<1> QED BY <1>0, <1>1
        DEF BarInv, LookKnown, LowsKnown, WritesChecked, Passed, NoBarPassedOver, Held, Runs

\* A run that has decided waits for its INSERT with a row that was checked
LEMMA BarWrite ==
  ASSUME TypeInv, BarInv, NEW p \in Runs, NEW w, Write(p, w),
         UNCHANGED <<closed, hit, row, check, opened>>, judged \subseteq judged',
         w.reason = "daily_noop" => \A b \in (row.entry + 1) .. closed : Passed(b)',
         w.reason = "regime_entry" => w.entry = closed
  PROVE  BarInv'
<1>1. /\ \A q \in Runs \ {p} : job'[q] = job[q]
      /\ job'[p].pc = "insert" /\ job'[p].write = w
  BY DEF Write, Idle, TypeInv
<1>2. \A b : Passed(b) => Passed(b)'
  BY DEF Passed
<1>3. WritesChecked'
  <2> SUFFICES ASSUME NEW q \in Runs, job'[q].pc = "insert"
               PROVE  /\ job'[q].write.reason = "daily_noop" =>
                           \A b \in (row.entry + 1) .. closed : Passed(b)'
                      /\ job'[q].write.reason = "regime_entry" => job'[q].write.entry = closed
    BY DEF WritesChecked
  <2> QED BY <1>1, <1>2 DEF BarInv, WritesChecked
<1>4. LookKnown' /\ LowsKnown'
  BY <1>1 DEF BarInv, LookKnown, LowsKnown, Runs
<1>5. NoBarPassedOver'
  BY DEF BarInv, NoBarPassedOver, Held
<1> QED BY <1>3, <1>4, <1>5 DEF BarInv

\* The run that finds nothing has judged every bar since the last look
LEMMA NoopChecks ==
  ASSUME TypeInv, SerialInv, BarInv, NEW p \in Dailies, DecideNoop(p)
  PROVE  \A b \in (row.entry + 1) .. closed : b \in judged \cup Judged(p) /\ b \notin hit
<1>0. /\ job[p].pc = "decide" /\ closed \in Nat /\ check \in 0 .. closed
      /\ row.entry \in Nat /\ hit \subseteq 1 .. closed + 1
      /\ job[p].seen \subseteq 1 .. closed + 1
  BY DEF DecideNoop, TypeInv, Jobs, Rows, Runs
<1>1. job[p].snap = row /\ Held(row)
  BY <1>0 DEF SerialInv, RowCurrent, Reading, Runs
<1>2. LastCheck(p) = check
  BY <1>1 DEF LastCheck, BarInv, LookKnown
<1>3. Judged(p) = Unchecked(p) /\ Unchecked(p) \cap job[p].low = {}
      /\ Unchecked(p) \cap job[p].blank = {}
  BY DEF DecideNoop, Stops, Judged
<1>4. PICK last \in Unchecked(p) : last >= closed /\ (check + 1) .. last \subseteq job[p].seen
  BY <1>2 DEF DecideNoop, NoGap
<1>5. last = closed
  BY <1>0, <1>4, JudgedClosed DEF Runs
<1>6. ASSUME NEW b \in (check + 1) .. closed
      PROVE  b \in Judged(p) /\ b \notin hit
  <2> DEFINE new == {c \in {d \in job[p].seen : d <= closed} : c > check}
  <2>1. b \in job[p].seen /\ b \in new
    BY <1>0, <1>4, <1>5
  <2>2. Unchecked(p) = new
    BY <1>2, <2>1 DEF Unchecked
  <2>3. b \notin job[p].low /\ b \notin job[p].blank
    BY <1>3, <2>1, <2>2
  <2>4. b \notin hit
    BY <1>0, <2>1, <2>3 DEF BarInv, LowsKnown
  <2> QED BY <1>3, <2>1, <2>2, <2>4
<1>7. \A b \in (row.entry + 1) .. check : b \in judged /\ b \notin hit
  BY <1>1 DEF BarInv, NoBarPassedOver
<1>8. ASSUME NEW b \in (row.entry + 1) .. closed
      PROVE  b \in (row.entry + 1) .. check \/ b \in (check + 1) .. closed
  BY <1>0
<1> QED BY <1>6, <1>7, <1>8

LEMMA BarDecide ==
  ASSUME TypeInv, SerialInv, BarInv, NEW p \in Runs,
         (p \in Dailies /\ Daily(p)) \/ (p \in Weeklies /\ Weekly(p))
  PROVE  BarInv'
<1>0. UNCHANGED <<closed, hit, row, check, opened>>
  BY DEF Daily, DecideExit, DecideNoop, Weekly, DecideEntry, DecideFlip,
         DecideStay, DecideWeekly, market, table
<1>1. CASE p \in Dailies /\ DecideExit(p)
  <2>1. judged \subseteq judged'
    BY <1>1 DEF DecideExit, Judge
  <2>2. [NoRow EXCEPT !.reason = "exit"].reason = "exit"
    BY DEF NoRow
  <2>3. Write(p, [NoRow EXCEPT !.reason = "exit"])
    BY <1>1 DEF DecideExit
  <2> QED BY <1>0, <2>1, <2>2, <2>3, BarWrite
<1>2. CASE p \in Dailies /\ DecideNoop(p)
  <2>1. job[p].snap = row /\ row \in Rows
    BY <1>2 DEF DecideNoop, SerialInv, RowCurrent, Reading, TypeInv
  <2>2. judged' = judged \cup Judged(p)
    BY <1>2, <2>1 DEF DecideNoop, Judge
  <2>3. \A b \in (row.entry + 1) .. closed : Passed(b)'
    BY <1>0, <1>2, <2>2, NoopChecks DEF Passed
  <2>4. [row EXCEPT !.reason = "daily_noop"].reason = "daily_noop"
    BY <2>1 DEF Rows
  <2>5. Write(p, [row EXCEPT !.reason = "daily_noop"])
    BY <1>2, <2>1 DEF DecideNoop
  <2> QED BY <1>0, <2>2, <2>3, <2>4, <2>5, BarWrite
<1>3. CASE p \in Weeklies /\ Weekly(p)
  <2>1. PICK reason, pos, entry :
          /\ reason \in {"regime_entry", "exit", "weekly_noop"}
          /\ DecideWeekly(p, reason, pos, entry)
          /\ reason = "regime_entry" => entry = closed
    BY <1>3 DEF Weekly, DecideEntry, DecideFlip, DecideStay
  <2> DEFINE w == [reason |-> reason, pos |-> pos, entry |-> entry, at |-> 0]
  <2>2. Write(p, w) /\ UNCHANGED judged
    BY <2>1 DEF DecideWeekly
  <2>3. w.reason # "daily_noop" /\ (w.reason = "regime_entry" => w.entry = closed)
    BY <2>1
  <2> HIDE DEF w
  <2> QED BY <1>0, <2>2, <2>3, BarWrite
<1> QED BY <1>1, <1>2, <1>3 DEF Daily

LEMMA BarInsert ==
  ASSUME TypeInv, SerialInv, BarInv, NEW p \in Runs, Insert(p)
  PROVE  BarInv'
<1> DEFINE w == job[p].write
<1>0. /\ w \in Rows /\ row \in Rows /\ closed \in Nat /\ check \in 0 .. closed
      /\ job[p].pc = "insert" /\ opened \in Nat
  BY RegimeAssumption DEF Insert, TypeInv, Jobs
<1>1. \A q \in Runs : job'[q].pc = "idle"
  <2>1. /\ \A q \in Runs \ {p} : job'[q] = job[q]
        /\ job'[p].pc = "idle"
    BY DEF Insert, End, Idle, TypeInv
  <2> QED BY <1>0, <2>1 DEF SerialInv, OneAtATime
<1>2. LowsKnown' /\ WritesChecked'
  BY <1>1 DEF LowsKnown, WritesChecked, Runs
<1>3. Follows(w) /\ (w.reason = "daily_noop" => \A b \in (row.entry + 1) .. closed : Passed(b))
      /\ (w.reason = "regime_entry" => w.entry = closed)
  BY <1>0 DEF SerialInv, WritesFollow, BarInv, WritesChecked
<1>4. /\ row' = [w EXCEPT !.at = closed]
      /\ check' = IF w.reason \in {"daily_noop", "regime_entry"} THEN closed ELSE check
      /\ judged' = IF w.pos = row.pos THEN judged ELSE {}
      /\ UNCHANGED <<closed, hit>>
  BY DEF Insert, market
<1> HIDE DEF w
<1>5. row'.reason = w.reason /\ row'.pos = w.pos /\ row'.entry = w.entry /\ row'.at = closed
  BY <1>0, <1>4 DEF Rows
<1>6. LookKnown'
  BY <1>4, <1>5 DEF LookKnown
<1>7. NoBarPassedOver'
  <2> SUFFICES ASSUME Held(row'), NEW b \in (row'.entry + 1) .. check'
               PROVE  b \in judged' /\ b \notin hit'
    BY DEF NoBarPassedOver, Held
  <2>1. CASE w.reason = "daily_noop"
    <3>1. w.pos = row.pos /\ w.entry = row.entry /\ check' = closed
      BY <1>3, <1>4, <2>1 DEF Follows
    <3>2. Passed(b)
      BY <1>3, <1>5, <2>1, <3>1
    <3> QED BY <1>4, <3>1, <3>2 DEF Passed
  <2>2. CASE w.reason = "weekly_noop"
    <3>1. w.pos = row.pos /\ w.entry = row.entry /\ check' = check
      BY <1>3, <1>4, <2>2 DEF Follows
    <3> QED BY <1>4, <1>5, <3>1 DEF BarInv, NoBarPassedOver, Held
  <2>3. CASE w.reason = "regime_entry"
    <3>1. w.entry = closed /\ check' = closed
      BY <1>3, <1>4, <2>3
    <3> QED BY <1>0, <1>5, <3>1
  <2>4. CASE w.reason = "exit"
    BY <1>3, <1>5, <2>4 DEF Follows, Held
  <2> QED BY <1>3, <2>1, <2>2, <2>3, <2>4 DEF Follows
<1> QED BY <1>2, <1>6, <1>7 DEF BarInv

LEMMA BarStep ==
  ASSUME Prompt
  PROVE  TypeInv /\ SerialInv /\ BarInv /\ [Next]_vars => BarInv'
<1> SUFFICES ASSUME TypeInv, SerialInv, BarInv, [Next]_vars PROVE BarInv'
  OBVIOUS
<1>1. CASE UNCHANGED vars
  BY <1>1 DEF vars, market, table, BarInv, LookKnown, LowsKnown, WritesChecked, Passed,
              NoBarPassedOver, Held
<1>2. CASE Fall \/ CloseBar
  BY <1>2, BarMarket
<1>3. CASE \E p \in Runs : Begin(p) \/ Fetch(p) \/ Abort(p) \/ Insert(p)
  BY <1>3, BarRead, BarInsert
<1>4. CASE \E p \in Dailies : Daily(p)
  BY <1>4, BarDecide DEF Runs
<1>5. CASE \E p \in Weeklies : Weekly(p)
  BY <1>5, BarDecide DEF Runs
<1> QED BY <1>1, <1>2, <1>3, <1>4, <1>5 DEF Next

(***************************************************************************)
(* When runs do not overlap and no bar closes between a download and its   *)
(* INSERT, every bar between the entry and the last look has been judged   *)
(* and does not close the position (NoBarPassedOver), however many bars    *)
(* are late, missing or without a low, and whatever fails.                 *)
(***************************************************************************)
THEOREM EveryBarJudged ==
  ASSUME Serial, Prompt
  PROVE  Spec => []NoBarPassedOver
<1>1. TypeInv /\ SerialInv /\ BarInv /\ [Next]_vars => BarInv'
  BY BarStep
<1>2. Spec => []SerialInv
  BY SerialAlways
<1>3. Spec => []BarInv
  BY <1>1, <1>2, BarInit, TypeAlways, PTL DEF Spec
<1>4. BarInv => NoBarPassedOver
  BY DEF BarInv
<1> QED BY <1>3, <1>4, PTL
=============================================================================
