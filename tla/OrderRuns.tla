----------------------------- MODULE OrderRuns -----------------------------
(***************************************************************************)
(* The jobs that place orders in a day: the 8:50 run (run_daily_auto_order *)
(* with the steps of trading/execution), the 9:00 horizon exit and the     *)
(* 16:30 rule run (trading/rule_execution.py).  Each reads the positions   *)
(* and the waiting orders, decides, and sends orders one by one; anything  *)
(* it reads or sends may fail, and the daemon may die between two steps.   *)
(* Between the runs the waiting orders are settled (PaperBroker shows how; *)
(* here only what becomes of an order).                                    *)
(*                                                                         *)
(* A slot <<side, s>> is what a symbol may hold on one side.  An entry     *)
(* (BUY, SHORT) opens a slot, an exit (SELL, SHORT_COVER) closes it.       *)
(* Prices, predictions and thresholds are choices: a score says which way  *)
(* the prediction or the rule points, and which positions are beyond their *)
(* stop or target is chosen when it is looked at.                          *)
(***************************************************************************)
EXTENDS Integers, FiniteSets

CONSTANTS
  Symbols,
  MaxPositions,  \* MAX_POSITIONS
  MaxOrders,     \* MAX_ORDERS_PER_RUN
  ShortSide,     \* ENABLE_SHORT_SIDE
  Faults,        \* the reads and statements that may fail
  Late,          \* whether the morning's runs may be at work while orders are settled
  Fragile        \* whether the daemon may die between an entry and its exit date

Runs == {"auto", "horizon", "rule"}
Slots == {"long", "short"} \X Symbols

ASSUME OrderAssumption ==
  /\ IsFiniteSet(Symbols)
  /\ MaxPositions \in Nat /\ MaxOrders \in Nat
  /\ ShortSide \in BOOLEAN /\ Late \in BOOLEAN /\ Fragile \in BOOLEAN

VARIABLES
  pos,    \* what is held: "open" has no exit date, "due" is past it
  entry,  \* the waiting entry: "rule" of this evening, "older" of another
          \* evening, "bare" of a morning and without its exit date, "dated"
  exits,  \* the number of exits waiting
  phase,  \* "dawn" (8:50 to 9:05), "open" (the settlements), "dusk" (16:30)
  left,   \* the executions a run has left today
  well,   \* the runs that ended today without a failure
  job     \* job[r]: where run r is, and its local variables

books == <<pos, entry, exits>>
day == <<phase, left, well>>
vars == <<books, day, job>>

-----------------------------------------------------------------------------
Longs == {s \in Symbols : pos[<<"long", s>>] # "none"}
PendingBuys == {s \in Symbols : entry[<<"long", s>>] # "none"}

\* paper_short_positions: what is sold short and what waits to be
ShortRows == {s \in Symbols : \/ pos[<<"short", s>>] # "none"
                              \/ entry[<<"short", s>>] # "none"}

\* paper_orders: the exits that wait
Waiting == {x \in Slots : exits[x] > 0}

\* Where a prediction or a rule points
Scores == {"up", "down", "flat"}

\* The outcomes of an operation that may fail
Works(f) == IF f \in Faults THEN BOOLEAN ELSE {TRUE}

\* short_position_row: the short sales whose row cannot be worked out when f
\* reads them come back as if all of them still waited to be filled
Lame(f) == IF f \in Faults THEN SUBSET {x \in Slots : x[1] = "short" /\ pos[x] # "none"}
                            ELSE {{}}

\* evaluate_trading_gate, rule 4: registered short sales count, waiting buys do not
Room == Cardinality(Longs) + Cardinality(ShortRows) < MaxPositions

Idle == [pc |-> "idle", step |-> "none", todo |-> {}, cur |-> {}, held |-> {},
         claimed |-> {}, rows |-> {}, owned |-> {}, lame |-> {}, seen |-> {},
         sent |-> {}, struck |-> {}, score |-> [s \in Symbols |-> "flat"],
         open |-> FALSE, corr |-> FALSE, only |-> FALSE, bad |-> FALSE,
         count |-> 0, placed |-> 0]

\* max_executions_per_period of SCHEDULE_CONFIG
Limit == [r \in Runs |-> IF r = "rule" THEN 2 ELSE 1]

Init ==
  /\ pos = [x \in Slots |-> "none"]
  /\ entry = [x \in Slots |-> "none"]
  /\ exits = [x \in Slots |-> 0]
  /\ phase = "dawn" /\ left = Limit /\ well = {}
  /\ job = [r \in Runs |-> Idle]

At(r, pc) == job[r].pc = pc
AllIdle == \A r \in Runs : At(r, "idle")

\* The hours of a run, with its recoveries until 9:30
OnTime(r) == IF r = "rule" THEN phase = "dusk"
             ELSE phase = "dawn" \/ (Late /\ phase = "open")

Start(r) ==
  /\ At(r, "idle") /\ OnTime(r) /\ left[r] > 0 /\ r \notin well
  /\ left' = [left EXCEPT ![r] = @ - 1]
  /\ job' = [job EXCEPT ![r].pc = IF r = "rule" THEN "read" ELSE "lock"]
  /\ UNCHANGED <<books, phase, well>>

\* The job returns, or raises: an exception on the way, or errors counted
Finish(r, bad) ==
  /\ job' = [job EXCEPT ![r] = Idle]
  /\ well' = IF bad THEN well ELSE well \cup {r}
  /\ UNCHANGED <<phase, left>>

-----------------------------------------------------------------------------
(* The exits of positions past their date, in the 8:50 run and at 9:00     *)

\* Deviation: the morning's two jobs judge at the same time
ListExpiredUnlocked(r) ==
  /\ At(r, "lock")
  /\ \E ok \in Works("due"), shorts \in Works("due"), pend \in Works("pending"),
        lame \in Lame("due") :
       LET seen == IF pend THEN Waiting ELSE {}
           due == IF ok THEN {x \in Slots : pos[x] = "due"} \ seen ELSE {}
           unread == IF shorts THEN {} ELSE {x \in due : x[1] = "short"}
       IN job' = [job EXCEPT ![r].pc = "send", ![r].step = "expired",
                             ![r].todo = due \ (unread \cup lame), ![r].lame = lame,
                             ![r].bad = ~ok \/ unread # {}]
  /\ UNCHANGED <<books, day>>

\* exit_expired_positions up to its orders, under _HORIZON_EXIT_LOCK.  Short
\* sales that cannot be read at all count as failed, those that can but whose
\* rows cannot be worked out are passed over.
ListExpired(r) ==
  /\ At(r, "lock")
  /\ \A q \in Runs : ~(At(q, "send") /\ job[q].step = "expired")
  /\ \E ok \in Works("due"), shorts \in Works("due"), pend \in Works("pending"),
        lame \in Lame("due") :
       LET seen == IF pend THEN Waiting ELSE {}
           due == IF ok THEN {x \in Slots : pos[x] = "due"} \ seen ELSE {}
           unread == IF shorts THEN {} ELSE {x \in due : x[1] = "short"}
       IN job' = [job EXCEPT ![r].pc = "send", ![r].step = "expired",
                             ![r].todo = due \ (unread \cup lame), ![r].lame = lame,
                             ![r].bad = ~ok \/ unread # {}]
  /\ UNCHANGED <<books, day>>

-----------------------------------------------------------------------------
(* The 8:50 run: run_order_steps                                           *)

\* _evaluate_entry_gate: losses may close it, and so does a failure
Gate(r) ==
  /\ At(r, "gate")
  /\ \E ok \in Works("gate"), pass \in BOOLEAN :
       job' = [job EXCEPT ![r].pc = "predict", ![r].open = ok /\ pass /\ Room,
                          ![r].corr = ok, ![r].bad = @ \/ ~ok]
  /\ UNCHANGED <<books, day>>

\* The predictions and what is held; without either only stops and targets
Predict(r) ==
  /\ At(r, "predict")
  /\ \/ \E score \in [Symbols -> Scores] :
          job' = [job EXCEPT ![r].pc = "survey", ![r].score = score,
                             ![r].held = Longs]
     \/ \E ok \in Works("predict") :
          job' = [job EXCEPT ![r].pc = "stops", ![r].only = TRUE,
                             ![r].bad = @ \/ ~ok]
  /\ UNCHANGED <<books, day>>

\* The waiting buys, the correlation gate, and predictions that are stale
\* or lack their parameters; after a failure of the gate (corr is FALSE)
\* the buys are not read, and a failure here closes it as well
Survey(r) ==
  /\ At(r, "survey")
  /\ \E ok \in Works("buys"), corr \in BOOLEAN, usable \in BOOLEAN :
       LET read == ok /\ job[r].corr
       IN job' = [job EXCEPT ![r].pc = "stops", ![r].corr = read /\ corr,
                    ![r].open = @ /\ read /\ usable,
                    ![r].claimed = job[r].held \cup (IF read THEN PendingBuys ELSE {}),
                    ![r].bad = @ \/ ~read]
  /\ UNCHANGED <<books, day>>

\* Deviation: short sales that cannot be read are taken for none
ListStopsInSilence(r) ==
  /\ At(r, "stops")
  /\ \E shorts \in Works("shorts"), pend \in Works("pending") :
     \E struck \in SUBSET {x \in Slots : pos[x] # "none"} :
       job' = [job EXCEPT ![r].pc = "send", ![r].step = "stops",
                 ![r].todo = {x \in struck : x[1] = "long" \/ shorts}
                               \ (IF pend THEN Waiting ELSE {}),
                 ![r].struck = struck,
                 ![r].only = @]
  /\ UNCHANGED <<books, day>>

\* _check_sl_tp_exits up to its orders.  When the short sales cannot be read
\* the failure is raised after the long positions are done; one whose row
\* cannot be worked out is reported and never struck.
ListStops(r) ==
  /\ At(r, "stops")
  /\ \E shorts \in Works("shorts"), pend \in Works("pending") :
     \E struck \in SUBSET {x \in Slots : pos[x] # "none"} :
       job' = [job EXCEPT ![r].pc = "send", ![r].step = "stops",
                 ![r].todo = {x \in struck : x[1] = "long" \/ shorts}
                               \ (IF pend THEN Waiting ELSE {}),
                 ![r].struck = struck,
                 ![r].only = @ \/ ~shorts, ![r].bad = @ \/ ~shorts]
  /\ UNCHANGED <<books, day>>

\* A read whose failure ends the run: of the positions before the stops, and
\* of the short sales before the buys
StepsFail(r) ==
  /\ \/ At(r, "stops") /\ "positions" \in Faults
     \/ At(r, "buys") /\ "shorts" \in Faults
  /\ Finish(r, TRUE)
  /\ UNCHANGED books

\* The sell signals: by the score, or by the exit model
ListSells(r) ==
  /\ At(r, "sells")
  /\ \E pend \in Works("pending") :
     \E picked \in SUBSET {<<"long", s>> : s \in job[r].held \cap Longs} :
       LET seen == IF pend THEN Waiting ELSE {}
           sells == {x \in picked : \A y \in job[r].sent : y[2] # x[2]}
       IN job' = [job EXCEPT ![r].pc = "send", ![r].step = "sells",
                    ![r].seen = seen, ![r].todo = sells \ seen,
                    ![r].struck = @ \cup sells]
  /\ UNCHANGED <<books, day>>

\* What may be entered: not held, not waiting, not sold short
Candidates(r, side, score, rows) ==
  {<<side, s>> : s \in {t \in Symbols \ (job[r].claimed \cup rows) :
                          job[r].score[t] = score}}

\* Deviation: the short sales take up no room
ListBuysOfLongs(r) ==
  /\ At(r, "buys")
  /\ \E picked \in SUBSET Candidates(r, "long", "up", ShortRows),
        lame \in Lame("shorts") :
       /\ Cardinality(picked) <= MaxOrders
       /\ picked # {} => job[r].open /\ job[r].corr
       /\ job' = [job EXCEPT ![r].pc = "send", ![r].step = "buys",
                    ![r].todo = picked, ![r].rows = ShortRows,
                    ![r].owned = {s \in Symbols : /\ pos[<<"short", s>>] # "none"
                                                  /\ <<"short", s>> \notin lame},
                    ![r].count = Cardinality(job[r].claimed)]
  /\ UNCHANGED <<books, day>>

\* The buy signals that pass the sector limit, the best MaxOrders of them;
\* those not worth an order drop out too.  What is sold short is read here, for
\* the covers as well (owned).
ListBuys(r) ==
  /\ At(r, "buys")
  /\ \E picked \in SUBSET Candidates(r, "long", "up", ShortRows),
        lame \in Lame("shorts") :
       /\ Cardinality(picked) <= MaxOrders
       /\ picked # {} => job[r].open /\ job[r].corr
       /\ job' = [job EXCEPT ![r].pc = "send", ![r].step = "buys",
                    ![r].todo = picked, ![r].rows = ShortRows,
                    ![r].owned = {s \in Symbols : /\ pos[<<"short", s>>] # "none"
                                                  /\ <<"short", s>> \notin lame},
                    ![r].count = Cardinality(job[r].claimed) + Cardinality(ShortRows)]
  /\ UNCHANGED <<books, day>>

\* The buy signals for what is sold short and could be worked out
ListCovers(r) ==
  /\ At(r, "covers")
  /\ LET covers == {<<"short", s>> : s \in {t \in job[r].owned : job[r].score[t] = "up"}}
     IN job' = [job EXCEPT ![r].pc = "send", ![r].step = "covers",
                  ![r].todo = covers \ job[r].seen, ![r].struck = @ \cup covers]
  /\ UNCHANGED <<books, day>>

\* Deviation: a symbol whose buy waits may be sold short
ListShortsOfUnheld(r) ==
  /\ At(r, "shorts")
  /\ \E picked \in SUBSET {<<"short", s>> : s \in {t \in Symbols \ (job[r].held \cup job[r].rows) :
                                               job[r].score[t] = "down"}} :
       /\ Cardinality(picked) <= MaxOrders
       /\ picked # {} => job[r].open
       /\ job' = [job EXCEPT ![r].pc = "send", ![r].step = "shorts",
                    ![r].todo = picked]
  /\ UNCHANGED <<books, day>>

ListShorts(r) ==
  /\ At(r, "shorts")
  /\ \E picked \in SUBSET Candidates(r, "short", "down", job[r].rows) :
       /\ Cardinality(picked) <= MaxOrders
       /\ picked # {} => job[r].open
       /\ job' = [job EXCEPT ![r].pc = "send", ![r].step = "shorts",
                    ![r].todo = picked]
  /\ UNCHANGED <<books, day>>

-----------------------------------------------------------------------------
(* The 16:30 run: execute_rule_paper_trades                                *)

ReadHeld(r) ==
  /\ At(r, "read")
  /\ \/ \E score \in [Symbols -> Scores] :
          /\ job' = [job EXCEPT ![r].pc = "screen", ![r].score = score,
                                ![r].held = Longs]
          /\ UNCHANGED day
     \/ "positions" \in Faults /\ Finish(r, TRUE)
  /\ UNCHANGED books

\* Deviation: a run counts its own buys only
ScreenAfresh(r) ==
  /\ At(r, "screen")
  /\ \E ok \in Works("buys"), pass \in BOOLEAN, pend \in Works("pending") :
       LET claimed == job[r].held \cup PendingBuys
           sells == {x \in Slots : /\ x[1] = "long" /\ x[2] \in job[r].held
                                   /\ job[r].score[x[2]] = "down"}
       IN \E picked \in SUBSET {x \in Slots :
                                  /\ x[1] = "long" /\ job[r].score[x[2]] = "up"
                                  /\ x[2] \notin claimed \cup ShortRows} :
            /\ picked # {} => ok /\ pass /\ Room
            /\ job' = [job EXCEPT ![r].pc = "send", ![r].step = "rule",
                         ![r].todo = picked \cup
                                       (sells \ (IF pend THEN Waiting ELSE {})),
                         ![r].struck = sells, ![r].bad = ~ok,
                         ![r].count = Cardinality(claimed) + Cardinality(ShortRows),
                         ![r].placed = 0]
  /\ UNCHANGED <<books, day>>

\* The steps that only buys need, whose failure stops the buys alone, and
\* the waiting exits
Screen(r) ==
  /\ At(r, "screen")
  /\ \E ok \in Works("buys"), pass \in BOOLEAN, pend \in Works("pending") :
       LET claimed == job[r].held \cup PendingBuys
           sells == {x \in Slots : /\ x[1] = "long" /\ x[2] \in job[r].held
                                   /\ job[r].score[x[2]] = "down"}
       IN \E picked \in SUBSET {x \in Slots :
                                  /\ x[1] = "long" /\ job[r].score[x[2]] = "up"
                                  /\ x[2] \notin claimed \cup ShortRows} :
            /\ picked # {} => ok /\ pass /\ Room
            /\ job' = [job EXCEPT ![r].pc = "send", ![r].step = "rule",
                         ![r].todo = picked \cup
                                       (sells \ (IF pend THEN Waiting ELSE {})),
                         ![r].struck = sells, ![r].bad = ~ok,
                         ![r].count = Cardinality(claimed) + Cardinality(ShortRows),
                         ![r].placed = Cardinality({x \in Slots : entry[x] = "rule"})]
  /\ UNCHANGED <<books, day>>

-----------------------------------------------------------------------------
(* Sending what was listed                                                 *)

Enters(r, x) == \/ job[r].step \in {"buys", "shorts"}
                \/ job[r].step = "rule" /\ job[r].score[x[2]] = "up"

\* A failed order is counted and the next one sent; a failed record after an
\* order is counted too
SendExit(r) ==
  /\ At(r, "send")
  /\ \E x \in job[r].todo :
       /\ ~Enters(r, x)
       /\ \E ok \in Works(IF job[r].step = "expired" THEN "due" ELSE "send") :
            /\ exits' = IF ok THEN [exits EXCEPT ![x] = @ + 1] ELSE exits
            /\ job' = [job EXCEPT ![r].todo = @ \ {x}, ![r].bad = @ \/ ~ok,
                         ![r].sent = IF ok /\ job[r].step = "stops"
                                       THEN @ \cup {x} ELSE @]
  /\ UNCHANGED <<pos, entry, day>>

\* The caps, looked at before each entry
Full(r) == \/ job[r].count >= MaxPositions
           \/ job[r].step = "rule" /\ job[r].placed >= MaxOrders

PassOver(r) ==
  /\ At(r, "send") /\ Full(r)
  /\ \E x \in job[r].todo :
       /\ Enters(r, x)
       /\ job' = [job EXCEPT ![r].todo = @ \ {x}]
  /\ UNCHANGED <<books, day>>

\* send_order of a BUY answers "rejected" when one waits already; a morning's
\* entry then gets its exit date (Link)
SendEntry(r) ==
  /\ At(r, "send") /\ ~Full(r)
  /\ \E x \in job[r].todo :
       /\ Enters(r, x)
       /\ \/ /\ entry' = [entry EXCEPT ![x] = IF @ # "none" THEN @
                                              ELSE IF r = "rule" THEN "rule" ELSE "bare"]
             /\ job' = [job EXCEPT ![r].todo = @ \ {x}, ![r].count = @ + 1,
                          ![r].placed = @ + 1,
                          ![r].pc = IF r = "rule" \/ entry[x] # "none" THEN @ ELSE "link",
                          ![r].cur = IF r = "rule" \/ entry[x] # "none" THEN {} ELSE {x}]
          \/ /\ "send" \in Faults
             /\ job' = [job EXCEPT ![r].todo = @ \ {x}, ![r].bad = TRUE]
             /\ UNCHANGED entry
  /\ UNCHANGED <<pos, exits, day>>

\* Deviation: an entry whose date cannot be written is left waiting
LinkOrLeave(r) ==
  /\ At(r, "link")
  /\ \E x \in job[r].cur, ok \in Works("link"), undone \in Works("cancel") :
       /\ entry' = [entry EXCEPT ![x] = IF @ # "bare" THEN @
                                        ELSE IF ok THEN "dated"
                                        ELSE @]
       /\ pos' = [pos EXCEPT ![x] = IF ok /\ entry[x] = "none" /\ @ = "open"
                                      THEN "dated" ELSE @]
       /\ job' = [job EXCEPT ![r].pc = "send", ![r].cur = {}, ![r].bad = @ \/ ~ok]
  /\ UNCHANGED <<exits, day>>

\* _record_order: the exit date is written, or the entry is taken back
Link(r) ==
  /\ At(r, "link")
  /\ \E x \in job[r].cur, ok \in Works("link"), undone \in Works("cancel") :
       /\ entry' = [entry EXCEPT ![x] = IF @ # "bare" THEN @
                                        ELSE IF ok THEN "dated"
                                        ELSE IF undone THEN "none" ELSE @]
       /\ pos' = [pos EXCEPT ![x] = IF ok /\ entry[x] = "none" /\ @ = "open"
                                      THEN "dated" ELSE @]
       /\ job' = [job EXCEPT ![r].pc = "send", ![r].cur = {}, ![r].bad = @ \/ ~ok]
  /\ UNCHANGED <<exits, day>>

\* The end of a list: what comes next, or the end of the run
StepAfter(r) ==
  CASE job[r].step = "expired" -> IF r = "auto" THEN "gate" ELSE "end"
    [] job[r].step = "stops"   -> IF job[r].only THEN "end" ELSE "sells"
    [] job[r].step = "sells"   -> "buys"
    [] job[r].step = "buys"    -> IF ShortSide THEN "covers" ELSE "end"
    [] job[r].step = "covers"  -> "shorts"
    [] OTHER                   -> "end"

Done(r) ==
  /\ At(r, "send") /\ job[r].todo = {}
  /\ \/ /\ StepAfter(r) # "end"
        /\ job' = [job EXCEPT ![r].pc = StepAfter(r)]
        /\ UNCHANGED day
     \/ /\ StepAfter(r) = "end"
        /\ Finish(r, job[r].bad)
  /\ UNCHANGED books

-----------------------------------------------------------------------------
(* The settlements, the clock and the daemon                               *)

\* settle_pending_orders: an entry is filled, or falls through (expired,
\* rejected for want of cash)
SettleEntry(x) ==
  /\ phase = "open" /\ entry[x] # "none"
  /\ entry' = [entry EXCEPT ![x] = "none"]
  /\ \/ pos' = [pos EXCEPT ![x] = IF entry[x] = "dated" THEN "dated" ELSE "open"]
     \/ UNCHANGED pos
  /\ UNCHANGED <<exits, day, job>>

\* An exit closes the position, or expires, or finds nothing to close
SettleExit(x) ==
  /\ phase = "open" /\ exits[x] > 0
  /\ exits' = [exits EXCEPT ![x] = @ - 1]
  /\ \/ pos' = [pos EXCEPT ![x] = "none"]
     \/ UNCHANGED pos
  /\ UNCHANGED <<entry, day, job>>

Open ==
  /\ phase = "dawn" /\ (Late \/ AllIdle)
  /\ phase' = "open"
  /\ UNCHANGED <<books, left, well, job>>

Close ==
  /\ phase = "open" /\ AllIdle
  /\ phase' = "dusk"
  /\ UNCHANGED <<books, left, well, job>>

\* The next business day: some exit dates have passed
NextDay ==
  /\ phase = "dusk" /\ AllIdle
  /\ phase' = "dawn" /\ left' = Limit /\ well' = {}
  /\ \E due \in SUBSET {x \in Slots : pos[x] = "dated"} :
       pos' = [x \in Slots |-> IF x \in due THEN "due" ELSE pos[x]]
  /\ entry' = [x \in Slots |-> IF entry[x] = "rule" THEN "older" ELSE entry[x]]
  /\ UNCHANGED <<exits, job>>

\* The daemon dies and starts again: the queue runs what rerun_if_interrupted
\* names once more
Crash ==
  /\ ~AllIdle /\ (Fragile \/ ~At("auto", "link"))
  /\ job' = [r \in Runs |-> Idle]
  /\ left' = [r \in Runs |-> IF r # "auto" /\ ~At(r, "idle") THEN left[r] + 1
                             ELSE left[r]]
  /\ UNCHANGED <<books, phase, well>>

-----------------------------------------------------------------------------
Sending(r) == SendExit(r) \/ SendEntry(r) \/ PassOver(r) \/ Link(r) \/ Done(r)

Morning(r) ==
  \/ Gate(r) \/ Predict(r) \/ Survey(r) \/ ListStops(r) \/ StepsFail(r)
  \/ ListSells(r) \/ ListBuys(r) \/ ListCovers(r) \/ ListShorts(r)

Next ==
  \/ \E r \in Runs : Start(r) \/ Sending(r)
  \/ \E r \in Runs \ {"rule"} : ListExpired(r)
  \/ Morning("auto")
  \/ ReadHeld("rule") \/ Screen("rule")
  \/ \E x \in Slots : SettleEntry(x) \/ SettleExit(x)
  \/ Open \/ Close \/ NextDay \/ Crash

Spec == Init /\ [][Next]_vars

-----------------------------------------------------------------------------
Holding == {"none", "open", "dated", "due"}
Entering == {"none", "rule", "older", "bare", "dated"}
Places == {"idle", "lock", "gate", "predict", "survey", "stops", "sells", "buys",
           "covers", "shorts", "read", "screen", "send", "link"}
Steps == {"none", "expired", "stops", "sells", "buys", "covers", "shorts", "rule"}
Jobs == [pc : Places, step : Steps, todo : SUBSET Slots, cur : SUBSET Slots,
         held : SUBSET Symbols, claimed : SUBSET Symbols, rows : SUBSET Symbols,
         owned : SUBSET Symbols, lame : SUBSET Slots, seen : SUBSET Slots,
         sent : SUBSET Slots, struck : SUBSET Slots, score : [Symbols -> Scores],
         open : BOOLEAN, corr : BOOLEAN, only : BOOLEAN, bad : BOOLEAN, count : Nat, placed : Nat]

\* The state has the types of the code.
TypeOK ==
  /\ pos \in [Slots -> Holding]
  /\ entry \in [Slots -> Entering]
  /\ exits \in [Slots -> Nat]
  /\ phase \in {"dawn", "open", "dusk"}
  /\ left \in [Runs -> Nat] /\ well \subseteq Runs
  /\ job \in [Runs -> Jobs]

(***************************************************************************)
(* The symbols held, bought or sold short, with those that wait to be,     *)
(* never exceed the cap, whatever the runs of the morning and the evening  *)
(* leave to each other (runner.py:282, rule_execution.py:204).             *)
(***************************************************************************)
CapKept ==
  Cardinality(Longs \cup PendingBuys) + Cardinality(ShortRows) <= MaxPositions

(***************************************************************************)
(* No symbol is bought while it is sold short, nor sold short while it is  *)
(* bought, waiting orders included (runner.py:261, 454;                    *)
(* rule_execution.py:129).                                                 *)
(***************************************************************************)
SidesApart ==
  (Longs \cup PendingBuys) \cap ShortRows = {}

(***************************************************************************)
(* A position is never given a second exit while one waits: not by the     *)
(* sections of a run, by a run after it, nor by the horizon exit beside    *)
(* the 8:50 run (pending.py:1, daily.py:380).                              *)
(***************************************************************************)
OneExitWaits ==
  \A x \in Slots : exits[x] <= 1

(***************************************************************************)
(* A run that ends without a failure has ordered every exit it owed: of    *)
(* each position beyond its stop or target, of each sell signal and, in    *)
(* the morning, of each position past its date (daily.py:368, sl_tp.py:62, *)
(* horizon_exit.py:67).  All but the short sales whose row could not be    *)
(* worked out: those no stop or target strikes (sl_tp.py:82), no signal    *)
(* covers (runner.py:412) and no passed date closes (horizon_exit.py:113), *)
(* and the run ends well.                                                  *)
(***************************************************************************)
Owed(r) ==
  job[r].struck \cup
    (IF r = "rule" THEN {} ELSE {x \in Slots : pos[x] = "due"} \ job[r].lame)

SuccessMeansExits ==
  [][\A r \in Runs : r \in well' \ well => \A x \in Owed(r) : exits[x] > 0]_vars

(***************************************************************************)
(* However often the rule run of an evening is run again, after a failure  *)
(* or a death of the daemon, it places no more buys that day than one run  *)
(* may (rule_execution.py:151).                                            *)
(***************************************************************************)
RuleDayLimit ==
  Cardinality({x \in Slots : entry[x] = "rule"}) <= MaxOrders

(***************************************************************************)
(* No entry of a morning waits without its exit date, but while the run is *)
(* about to write it: a position without a date would never be closed by   *)
(* the horizon exit (recording.py:129).                                    *)
(***************************************************************************)
EntriesDated ==
  \A x \in Slots : entry[x] = "bare" => x \in job["auto"].cur
=============================================================================
