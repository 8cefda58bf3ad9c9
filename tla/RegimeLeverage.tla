--------------------------- MODULE RegimeLeverage ---------------------------
(***************************************************************************)
(* The leveraged position in the US index that the regime jobs open and    *)
(* close (src/trading/regime_leverage_strategy/service.py and              *)
(* repository.py).                                                         *)
(*                                                                         *)
(* The weekly run enters when the regime is up and leaves when it turns.   *)
(* The daily run looks at the low of every daily bar that has closed since *)
(* the last look, and closes the position at the first low that meets the  *)
(* stop or the margin call.  Any bar may be missing from what a run is     *)
(* given, or come with a low that is not a number.  The state is a table   *)
(* that is only appended to, and a run reads it, decides and inserts in    *)
(* separate transactions.                                                  *)
(*                                                                         *)
(* Time is the number of business days whose bar has closed.  Prices are   *)
(* represented by whether a bar's low closes the position, the regime by a *)
(* choice.                                                                 *)
(***************************************************************************)
EXTENDS Naturals, FiniteSets

CONSTANTS
  Dailies,   \* callers of run_regime_leverage_daily_margin_check
  Weeklies,  \* callers of run_regime_leverage_weekly_check
  Serial,    \* whether no two runs overlap, as the timetable has it
  Prompt,    \* whether no bar closes between the download of a run and its INSERT
  MaxBars,   \* bound: bars
  MaxOpened  \* bound: positions

ASSUME RegimeAssumption ==
  /\ Dailies \cap Weeklies = {}
  /\ Serial \in BOOLEAN /\ Prompt \in BOOLEAN
  /\ MaxBars \in Nat /\ MaxOpened \in Nat

VARIABLES
  closed,  \* the bars 1 .. closed have closed, and closed + 1 is running
  hit,     \* the bars whose low (so far) meets the stop or the margin call
  row,     \* get_latest_snapshot: the last row of regime_leverage_log
  check,   \* get_last_daily_check_at: the time of its last daily_noop or regime_entry
  opened,  \* the number of positions opened so far
  judged,  \* history: the closed bars a daily run has judged for the position held
  job      \* job[p]: where run p is, and its local variables

market == <<closed, hit>>
table == <<row, check, opened>>
vars == <<market, table, judged, job>>

Runs == Dailies \cup Weeklies
Bars == 1 .. MaxBars
Reasons == {"none", "regime_entry", "weekly_noop", "daily_noop", "exit"}

\* A row: pos is the position it carries (0: no shares), entry its entry_date,
\* at its executed_at, which the database sets at the INSERT.
NoRow == [reason |-> "none", pos |-> 0, entry |-> 0, at |-> 0]
Held(r) == r.pos # 0

\* Of a download: the bars in it, those without a low, those whose low closes
Idle == [pc |-> "idle", snap |-> NoRow, seen |-> {}, blank |-> {}, low |-> {},
         write |-> NoRow]

-----------------------------------------------------------------------------
Init ==
  /\ closed = 0 /\ hit = {}
  /\ row = NoRow /\ check = 0 /\ opened = 0
  /\ judged = {}
  /\ job = [p \in Runs |-> Idle]

Fall ==
  /\ closed < MaxBars
  /\ hit' = hit \cup {closed + 1}
  /\ UNCHANGED <<closed, table, judged, job>>

CloseBar ==
  /\ closed < MaxBars
  /\ Prompt => \A p \in Runs : job[p].pc \notin {"decide", "insert"}
  /\ closed' = closed + 1
  /\ UNCHANGED <<hit, table, judged, job>>

-----------------------------------------------------------------------------
Goto(p, pc) == job' = [job EXCEPT ![p].pc = pc]
End(p) == job' = [job EXCEPT ![p] = Idle]

\* What it read is not used again
Write(p, r) == job' = [job EXCEPT ![p] = [Idle EXCEPT !.pc = "insert", !.write = r]]

\* A daily run reads the last row first, a weekly one after the download
Begin(p) ==
  /\ job[p].pc = "idle"
  /\ Serial => \A q \in Runs : job[q].pc = "idle"
  /\ IF p \in Dailies
       THEN Held(row) /\ job' = [job EXCEPT ![p].pc = "fetch", ![p].snap = row]
       ELSE Goto(p, "fetch")
  /\ UNCHANGED <<market, table, judged>>

\* _load_spy_daily: the download holds the bars of seen, those of blank without
\* a low.  It may hold the running bar, with the low so far.
Download(p, seen, blank) ==
  /\ job[p].pc = "fetch"
  /\ job' = [job EXCEPT ![p].pc = "decide", ![p].seen = seen, ![p].blank = blank,
                        ![p].low = hit \cap (seen \ blank),
                        ![p].snap = IF p \in Dailies THEN @ ELSE row]
  /\ UNCHANGED <<market, table, judged>>

Fetch(p) ==
  \E seen \in SUBSET (1 .. closed + 1) : \E blank \in SUBSET seen : Download(p, seen, blank)

\* Reading, downloading or inserting fails, a price is not usable (the exchange
\* rate, the averages), the data is late or has gaps, or the process dies:
\* nothing is written
Abort(p) ==
  /\ job[p].pc # "idle"
  /\ End(p)
  /\ UNCHANGED <<market, table, judged>>

-----------------------------------------------------------------------------
(* The daily run *)

\* A deviation: the time of the last row, whichever run wrote it
LastRow(p) == job[p].snap.at

\* The time of the last look
LastCheck(p) == IF job[p].snap.reason = "daily_noop" THEN job[p].snap.at ELSE check

\* Deviation: only the last bar is judged
UncheckedLast(p) ==
  {b \in job[p].seen : b <= closed /\ \A c \in job[p].seen : c <= closed => c <= b}

\* select_unchecked_closed_bars: all that closed since, or else the last one
Unchecked(p) ==
  LET shut == {b \in job[p].seen : b <= closed}
      new == {b \in shut : b > LastCheck(p)}
  IN IF new # {} THEN new ELSE {b \in shut : \A c \in shut : c <= b}

\* The bars are judged in order, up to the first that closes the position or
\* has no low
Stops(p) == Unchecked(p) \cap (job[p].low \cup job[p].blank)
Judged(p) == {b \in Unchecked(p) : \A s \in Stops(p) : b <= s}

Judge(p) == judged' = IF row.pos = job[p].snap.pos THEN judged \cup Judged(p) ELSE judged

\* The low of a bar closes the position: written whatever is late or missing
DecideExit(p) ==
  /\ job[p].pc = "decide" /\ p \in Dailies
  /\ \E b \in Unchecked(p) \cap job[p].low : \A s \in Stops(p) : b <= s
  /\ Judge(p)
  /\ Write(p, [NoRow EXCEPT !.reason = "exit"])
  /\ UNCHANGED <<market, table>>

\* No business day since the last look is missing before the last bar
\* (_missing_business_days), and the last bar is the one expected by now
NoGap(p) ==
  \E last \in Unchecked(p) :
    /\ last >= closed
    /\ (LastCheck(p) + 1) .. last \subseteq job[p].seen

\* Nothing closes the position: with every bar there the row is written, and
\* its time becomes the last look; otherwise the run ends (Abort)
DecideNoop(p) ==
  /\ job[p].pc = "decide" /\ p \in Dailies
  /\ Stops(p) = {} /\ NoGap(p)
  /\ Judge(p)
  /\ Write(p, [job[p].snap EXCEPT !.reason = "daily_noop"])
  /\ UNCHANGED <<market, table>>

-----------------------------------------------------------------------------
(* The weekly run: the last row of the download, which must be whole and at *)
(* least the last bar that has closed, is judged                            *)

Current(p) ==
  \E b \in job[p].seen \ job[p].blank : b >= closed /\ \A c \in job[p].seen : c <= b

DecideWeekly(p, reason, pos, entry) ==
  /\ job[p].pc = "decide" /\ p \in Weeklies
  /\ Current(p)
  /\ Write(p, [reason |-> reason, pos |-> pos, entry |-> entry, at |-> 0])
  /\ UNCHANGED <<market, table, judged>>

\* A deviation: an entry on top of the position held
EntryAlways(p) ==
  opened < MaxOpened /\ DecideWeekly(p, "regime_entry", opened + 1, closed)

\* decide_weekly_entry: the regime is up and the cash buys at least one share
DecideEntry(p) ==
  /\ ~Held(job[p].snap) /\ opened < MaxOpened
  /\ DecideWeekly(p, "regime_entry", opened + 1, closed)

\* decide_weekly_exit: the regime has turned
DecideFlip(p) == Held(job[p].snap) /\ DecideWeekly(p, "exit", 0, 0)

\* Nothing changes: the row repeats the position, if there is one
DecideStay(p) == DecideWeekly(p, "weekly_noop", job[p].snap.pos, job[p].snap.entry)

-----------------------------------------------------------------------------
\* insert_snapshot
Insert(p) ==
  LET w == job[p].write IN
  /\ job[p].pc = "insert"
  /\ row' = [w EXCEPT !.at = closed]
  /\ check' = IF w.reason \in {"daily_noop", "regime_entry"} THEN closed ELSE check
  /\ opened' = IF w.reason = "regime_entry" THEN w.pos ELSE opened
  /\ judged' = IF w.pos = row.pos THEN judged ELSE {}
  /\ End(p)
  /\ UNCHANGED market

Daily(p) == DecideExit(p) \/ DecideNoop(p)
Weekly(p) == DecideEntry(p) \/ DecideFlip(p) \/ DecideStay(p)

Next ==
  \/ Fall \/ CloseBar
  \/ \E p \in Runs : Begin(p) \/ Fetch(p) \/ Abort(p) \/ Insert(p)
  \/ \E p \in Dailies : Daily(p)
  \/ \E p \in Weeklies : Weekly(p)

Spec == Init /\ [][Next]_vars

(***************************************************************************)
(* The daily run comes again every day; the data is whole some day, and a  *)
(* step that fails one day works some other day.  A run ends.              *)
(***************************************************************************)
Fairness ==
  /\ \A p \in Runs : WF_vars(Abort(p))
  /\ \A p \in Dailies :
       /\ SF_vars(Begin(p)) /\ SF_vars(Download(p, 1 .. closed, {}))
       /\ SF_vars(DecideExit(p)) /\ SF_vars(Insert(p))

FairSpec == Spec /\ Fairness

-----------------------------------------------------------------------------
Rows == [reason : Reasons, pos : Nat, entry : Nat, at : Nat]

\* The state has the types of the code.
TypeOK ==
  /\ closed \in 0 .. MaxBars /\ hit \subseteq 1 .. closed + 1
  /\ row \in Rows /\ check \in 0 .. closed /\ opened \in 0 .. MaxOpened
  /\ judged \subseteq 1 .. closed
  /\ job \in [Runs -> [pc : {"idle", "fetch", "decide", "insert"}, snap : Rows,
                       seen : SUBSET (1 .. closed + 1), blank : SUBSET (1 .. closed + 1),
                       low : SUBSET (1 .. closed + 1), write : Rows]]

(***************************************************************************)
(* While a position is held, every bar that closed after its entry and up  *)
(* to the last look has been judged by a daily run, and none of them       *)
(* closes the position: a bar that is late, missing or without a low is    *)
(* never passed over, nor because of the row of a weekly run in between    *)
(* (service.py:462, 496, 504).                                             *)
(***************************************************************************)
NoBarPassedOver ==
  Held(row) => \A b \in (row.entry + 1) .. check : b \in judged /\ b \notin hit

(***************************************************************************)
(* A position that was closed never comes back, and no position is         *)
(* replaced by another: a row carries on the position of the row before    *)
(* it, closes it, or opens a new one when there is none                    *)
(* (repository.py:67, run_scheduler.py:617).                               *)
(***************************************************************************)
PositionsFollow ==
  [][row' # row => \/ row'.pos = row.pos /\ row'.entry = row.entry
                   \/ Held(row) /\ ~Held(row')
                   \/ ~Held(row) /\ row'.pos > opened]_vars

\* A bar that closed after the entry closes the position
StopDue == Held(row) /\ \E b \in hit : b \in (row.entry + 1) .. closed

(***************************************************************************)
(* A low that meets the stop or the margin call after the entry ends the   *)
(* position, however late its bar comes and whatever fails on the way      *)
(* (service.py:442).                                                       *)
(***************************************************************************)
StopHonoured == []<>(~StopDue)
=============================================================================
