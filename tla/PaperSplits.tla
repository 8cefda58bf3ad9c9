----------------------------- MODULE PaperSplits -----------------------------
(***************************************************************************)
(* Stock splits in the paper broker                                        *)
(* (src/trading/brokers/paper/split_adjust.py and its callers in           *)
(* paper_broker.py, fill.py, pending_short.py and position_rows.py).       *)
(*                                                                         *)
(* A row of a position and a waiting order count shares in the units of    *)
(* the day they are stamped with.  When a split has gone ex since then,    *)
(* whoever reads the row multiplies it and stamps it anew, and the         *)
(* settlement multiplies the order.  Stamps are in UTC and read as dates,  *)
(* so before 9:00 JST they are of the day before.  The record of splits    *)
(* comes from outside and may be missing.                                  *)
(*                                                                         *)
(* One symbol is followed, and splits make whole shares of whole shares.   *)
(* Prices are left out, except that a price shows when it is of other      *)
(* units than another.                                                     *)
(***************************************************************************)
EXTENDS Integers, Sequences, FiniteSetsExt

CONSTANTS
  MaxDay,    \* bound: days
  MaxOrders, \* bound: orders
  Factor,    \* Factor[S]: the product of the ratios of the splits that go ex on the days S
  Settings,  \* what a behaviour may do: records [stacks, down]
  Flaky      \* whether the record may be there at one read of it in an operation and
             \* not at the next, or missing when a short sale is cancelled

ASSUME SplitAssumption ==
  /\ MaxDay \in Nat \ {0} /\ MaxOrders \in Nat
  /\ Settings \subseteq [stacks : BOOLEAN, down : BOOLEAN]
  /\ Flaky \in BOOLEAN

ExDays == 2 .. MaxDay

ASSUME FactorAssumption ==
  /\ Factor \in [SUBSET ExDays -> Nat]
  /\ Factor[{}] = 1
  /\ \A S \in SUBSET ExDays : S # {} => Factor[S] > 1
  /\ \A S, T \in SUBSET ExDays :
       S \intersect T = {} => Factor[S \union T] = Factor[S] * Factor[T]

VARIABLES
  ex,      \* the days on which a split goes ex
  setting, \* stacks: entries beside a position, exits beside an entry that waits;
           \* down: the record may be missing
  day,
  part,    \* "early" (before 9:00), "open" (the settlements), "dusk"
  known,   \* the splits in the record
  row,     \* row[side]: paper_positions, paper_short_positions; qty 0: no row
  orders,  \* paper_orders by created_at; meant (history): what an exit is to close,
           \* in the units of the last day
  desk,    \* who orders: a run of the morning, at 9:00 or of the evening
  settler, \* settle_pending_orders
  reader,  \* another caller of get_positions or get_short_positions
  net      \* history: the shares filled, in the units of the last day

calendar == <<ex, setting, day, part>>
vars == <<calendar, known, row, orders, desk, settler, reader, net>>

Sides == {"long", "short"}
Entry == [long |-> "BUY", short |-> "SHORT"]
Exit == [long |-> "SELL", short |-> "SHORT_COVER"]
SideOf(o) == IF o.kind \in {"BUY", "SELL"} THEN "long" ELSE "short"

NoRow == [qty |-> 0, at |-> 0]
Unknown == {0}  \* fetch_splits: None
Idle == [pc |-> "idle", side |-> "long", raw |-> NoRow, got |-> Unknown, qty |-> 0,
         id |-> 0, todo |-> {}, meant |-> 0]

\* CURRENT_TIMESTAMP, read as a date (_to_jst_date of a stamp without a zone)
Stamp == IF part = "early" THEN day - 1 ELSE day

Pending(kind) == {i \in DOMAIN orders : orders[i].status = "pending" /\ orders[i].kind = kind}

-----------------------------------------------------------------------------
(* split_adjust.py                                                         *)

\* split_factor_since
Since(splits, date) == Factor[{e \in splits : e > date}]

\* split_factor_between: 1 when the record is not known
Between(splits, since, until) ==
  IF splits = Unknown \/ since > until THEN 1
  ELSE Factor[{e \in splits : e > since /\ e <= until}]

\* Deviation: the row is stamped with the time of its adjustment
StampNow(splits, date) == Stamp

\* _stamp_after_splits
StampAfter(splits, date) == Max({Stamp} \cup {e \in splits : e > date})

\* _adjust_holding: what becomes of the row r, of which another read the stamp
\* `date` before
Adjusted(splits, date, r) ==
  IF splits = Unknown \/ Since(splits, date) = 1 \/ r = NoRow \/ Since(splits, r.at) = 1
  THEN r
  ELSE [qty |-> r.qty * Since(splits, r.at), at |-> StampAfter(splits, r.at)]

\* _adjust_holding: the row its caller, who read raw, goes on with
Returned(splits, raw, r) ==
  IF splits = Unknown \/ Since(splits, raw.at) = 1 THEN raw
  ELSE Adjusted(splits, raw.at, r)

\* fetch_splits
Fetches == {known} \cup (IF setting.down THEN {Unknown} ELSE {})

\* The next read of the record in the same operation
FetchesAgain(got) == IF Flaky THEN {known, Unknown} ELSE IF got = Unknown THEN {got} ELSE {known}

-----------------------------------------------------------------------------
Init ==
  /\ ex \in SUBSET ExDays
  /\ setting \in Settings
  /\ day = 1 /\ part = "open" /\ known = {}
  /\ row = [x \in Sides |-> NoRow]
  /\ orders = << >>
  /\ desk = Idle /\ settler = Idle /\ reader = Idle
  /\ net = [x \in Sides |-> 0]

\* A split is in the record before the opening of its day, or at the latest then
Publish ==
  /\ part = "early" /\ desk = Idle
  /\ day \in ex \ known
  /\ known' = known \cup {day}
  /\ UNCHANGED <<calendar, row, orders, desk, settler, reader, net>>

Tick ==
  /\ desk = Idle /\ settler = Idle
  /\ \/ part = "early" /\ part' = "open" /\ UNCHANGED day
     \/ part = "open" /\ part' = "dusk" /\ UNCHANGED day
     \/ part = "dusk" /\ part' = "early" /\ day < MaxDay /\ day' = day + 1
  /\ known' = IF part = "early" THEN ex \cap (1 .. day) ELSE known
  /\ UNCHANGED <<ex, setting, row, orders, desk, settler, reader, net>>

-----------------------------------------------------------------------------
(* get_positions and get_short_positions of anyone: the row is read, the   *)
(* record is fetched, and the row is read again and written                *)

Read ==
  /\ reader = Idle
  /\ \E x \in Sides :
       /\ row[x] # NoRow
       /\ reader' = [Idle EXCEPT !.pc = "read", !.side = x, !.raw = row[x]]
  /\ UNCHANGED <<calendar, known, row, orders, desk, settler, net>>

Adjust ==
  /\ reader.pc = "read"
  /\ \E splits \in Fetches :
       row' = [row EXCEPT ![reader.side] = Adjusted(splits, reader.raw.at, @)]
  /\ reader' = Idle
  /\ UNCHANGED <<calendar, known, orders, desk, settler, net>>

-----------------------------------------------------------------------------
(* Orders.  No desk is at work while a round is.                           *)

Insert(kind, qty, signal) ==
  orders' = Append(orders, [kind |-> kind, qty |-> qty, at |-> Stamp, signal |-> signal,
                            status |-> "pending", meant |-> desk.meant])

MayOrder == settler = Idle /\ Len(orders) < MaxOrders

\* An entry where nothing is held or waits, and with `stacks` beside a position
MayEnter(x) ==
  /\ MayOrder /\ desk = Idle
  /\ Pending(Exit[x]) = {}
  /\ setting.stacks \/ row[x] = NoRow

\* send_order of a BUY; the orders of the rules carry no price of their signal
Buy ==
  /\ MayEnter("long") /\ Pending("BUY") = {}
  /\ \E signal \in BOOLEAN : Insert("BUY", 1, signal)
  /\ UNCHANGED <<calendar, known, row, desk, settler, reader, net>>

\* The position is read for an exit, or by send_order of a SHORT
Look ==
  /\ MayOrder /\ desk = Idle
  /\ \/ \E x \in Sides :
          /\ row[x] # NoRow
          /\ desk' = [Idle EXCEPT !.pc = "look", !.side = x, !.raw = row[x]]
     \/ /\ MayEnter("short")
        /\ desk' = [Idle EXCEPT !.pc = "stored", !.side = "short", !.raw = row["short"]]
  /\ UNCHANGED <<calendar, known, row, orders, settler, reader, net>>

\* Deviation: what waits is counted as it was ordered
CoverableAsOrdered(splits, raw, qty) ==
  LET waits == MapThenSumSet(LAMBDA i : orders[i].qty, Pending("SHORT"))
  IN qty - Min({qty, (waits * qty) \div raw.qty})

\* pending_in_row_units: what waits, in the units of the row
WaitsInRow(splits, raw) ==
  MapThenSumSet(LAMBDA i : orders[i].qty * Between(splits, orders[i].at, raw.at),
                Pending("SHORT"))

\* split_filled_short: what waits is not held yet
Coverable(splits, raw, qty) ==
  qty - Min({qty, (WaitsInRow(splits, raw) * qty) \div raw.qty})

\* The position is adjusted and its shares counted
Count ==
  /\ desk.pc = "look"
  /\ \E splits \in Fetches : \E again \in FetchesAgain(splits) :
       LET r == Returned(splits, desk.raw, row[desk.side])
       IN /\ row' = [row EXCEPT ![desk.side] = Adjusted(splits, desk.raw.at, @)]
          /\ desk' = [desk EXCEPT !.pc = "sell", !.meant = net[desk.side],
                        !.qty = IF desk.side = "long" THEN r.qty
                                ELSE Coverable(again, desk.raw, r.qty)]
  /\ UNCHANGED <<calendar, known, orders, settler, reader, net>>

\* An exit of all there is, or none.  With `stacks` also beside an entry that
\* waits, but not before 9:00.
Sell ==
  /\ desk.pc = "sell"
  /\ \/ /\ desk.qty > 0 /\ Pending(Exit[desk.side]) = {}
        /\ (setting.stacks /\ part # "early") \/ Pending(Entry[desk.side]) = {}
        /\ \E signal \in BOOLEAN : Insert(Exit[desk.side], desk.qty, signal)
     \/ UNCHANGED orders
  /\ desk' = Idle
  /\ UNCHANGED <<calendar, known, row, settler, reader, net>>

\* adjust_stored_short_for_splits
AdjustStored ==
  /\ desk.pc = "stored"
  /\ \E splits \in Fetches : \E again \in FetchesAgain(splits) :
       /\ row' = [row EXCEPT !["short"] =
                    IF desk.raw = NoRow THEN @ ELSE Adjusted(splits, desk.raw.at, @)]
       /\ desk' = [desk EXCEPT !.pc = "insert", !.got = again]
  /\ UNCHANGED <<calendar, known, orders, settler, reader, net>>

InsertShort ==
  /\ desk.pc = "insert"
  /\ Insert("SHORT", 1, TRUE)
  /\ desk' = [desk EXCEPT !.pc = "register", !.id = Len(orders) + 1]
  /\ UNCHANGED <<calendar, known, row, settler, reader, net>>

ReadShort ==
  /\ desk.pc = "register"
  /\ desk' = [desk EXCEPT !.pc = "write", !.raw = row["short"]]
  /\ UNCHANGED <<calendar, known, row, orders, settler, reader, net>>

\* The short sale is added to what was read, in the units of the row
Register ==
  /\ desk.pc = "write"
  /\ LET o == orders[desk.id]
         old == desk.raw
     IN row' = [row EXCEPT !["short"] =
                  IF old = NoRow THEN [qty |-> o.qty, at |-> Stamp]
                  ELSE [qty |-> old.qty + o.qty * Between(desk.got, o.at, old.at),
                        at |-> Max({@.at, Stamp})]]
  /\ desk' = [desk EXCEPT !.pc = "link"]
  /\ UNCHANGED <<calendar, known, orders, settler, reader, net>>

\* _record_order: the order gets the price of its signal, or is cancelled
Link ==
  /\ desk.pc = "link"
  /\ \/ desk' = Idle /\ UNCHANGED orders
     \/ /\ orders' = [orders EXCEPT ![desk.id].status = "cancelled"]
        /\ desk' = [desk EXCEPT !.pc = "undo"]
  /\ UNCHANGED <<calendar, known, row, settler, reader, net>>

ReadUndo ==
  /\ desk.pc = "undo"
  /\ \E splits \in IF Flaky THEN Fetches ELSE {known} :
       LET o == orders[desk.id]
       IN desk' = [desk EXCEPT !.pc = "withdraw", !.raw = row["short"],
                     !.qty = o.qty * Between(splits, o.at, row["short"].at)]
  /\ UNCHANGED <<calendar, known, row, orders, settler, reader, net>>

\* _undo_short_registration of n shares of the row that was read as old
Withdrawn(old, n, r) ==
  IF old.qty <= n THEN NoRow ELSE [qty |-> old.qty - n, at |-> Max({r.at, Stamp})]

Undo ==
  /\ desk.pc = "withdraw"
  /\ row' = [row EXCEPT !["short"] = Withdrawn(desk.raw, desk.qty, @)]
  /\ desk' = Idle
  /\ UNCHANGED <<calendar, known, orders, settler, reader, net>>

-----------------------------------------------------------------------------
(* settle_pending_orders                                                   *)

BeginRound ==
  /\ part = "open" /\ settler = Idle /\ desk = Idle
  /\ \E i \in DOMAIN orders : orders[i].status = "pending"
  /\ settler' = [Idle EXCEPT !.pc = "next",
                   !.todo = {i \in DOMAIN orders : orders[i].status = "pending"}]
  /\ UNCHANGED <<calendar, known, row, orders, desk, reader, net>>

EndRound ==
  /\ settler.pc = "next" /\ settler.todo = {}
  /\ settler' = Idle
  /\ UNCHANGED <<calendar, known, row, orders, desk, reader, net>>

Past == [settler EXCEPT !.pc = "next", !.todo = @ \ {settler.id}]
Its == orders[settler.id]

\* The bar of the oldest order is unusable, or its position is read
Take ==
  /\ settler.pc = "next" /\ settler.todo # {}
  /\ LET i == Min(settler.todo)
     IN \/ settler' = [settler EXCEPT !.todo = @ \ {i}]
        \/ settler' = [settler EXCEPT !.pc = "held", !.id = i, !.side = SideOf(orders[i]),
                                      !.raw = row[SideOf(orders[i])]]
  /\ UNCHANGED <<calendar, known, row, orders, desk, reader, net>>

\* adjust_order_for_splits: the position
AdjustHeld ==
  /\ settler.pc = "held"
  /\ \E splits \in Fetches :
       /\ row' = [row EXCEPT ![settler.side] =
                    IF settler.raw = NoRow THEN @ ELSE Adjusted(splits, settler.raw.at, @)]
       /\ settler' = [settler EXCEPT !.pc = "order", !.got = splits,
                        !.raw = IF @ = NoRow THEN @ ELSE Returned(splits, @, row[settler.side])]
  /\ UNCHANGED <<calendar, known, orders, desk, reader, net>>

\* looks_like_split_gap: the opening price is of other units than the price of
\* the signal, the limit or the position's
Gap ==
  \/ Its.signal /\ Since(ex \cap (1 .. day), Its.at) > 1
  \/ settler.raw # NoRow /\ Its.kind # "SHORT" /\ Since(ex \cap (1 .. day), settler.raw.at) > 1

OrderQty(splits, o) == IF splits = Unknown THEN o.qty ELSE o.qty * Since(splits, o.at)

\* adjust_order_for_splits: the order
AdjustOrder ==
  /\ settler.pc = "order"
  /\ \E splits \in FetchesAgain(settler.got) :
       settler' = IF splits = Unknown /\ Gap THEN Past
                  ELSE [settler EXCEPT !.pc = "fill", !.qty = OrderQty(splits, Its)]
  /\ UNCHANGED <<calendar, known, row, orders, desk, reader, net>>

\* A limit is not reached: a short sale takes back its registration
Expire ==
  /\ settler.pc = "fill" /\ Its.signal
  /\ orders' = [orders EXCEPT ![settler.id].status = "expired"]
  /\ row' = IF Its.kind = "SHORT" THEN [row EXCEPT !["short"] = Withdrawn(@, settler.qty, @)]
            ELSE row
  /\ settler' = Past
  /\ UNCHANGED <<calendar, known, desk, reader, net>>

\* apply_fill reads the row ...
ReadRow ==
  /\ settler.pc = "fill"
  /\ settler' = [settler EXCEPT !.pc = "write", !.raw = row[settler.side]]
  /\ UNCHANGED <<calendar, known, row, orders, desk, reader, net>>

\* ... and writes what follows from it, stamped with the time of the fill.  A
\* short sale is registered already, and its shares are not written again.
Fill ==
  LET kind == Its.kind
      x == settler.side
      old == settler.raw
      n == IF kind = Exit[x] THEN Min({settler.qty, old.qty}) ELSE settler.qty
      left == CASE kind = "BUY"   -> old.qty + n
                [] kind = "SHORT" -> IF old = NoRow THEN n ELSE row[x].qty
                [] OTHER          -> old.qty - n
  IN /\ settler.pc = "write"
     /\ row' = [row EXCEPT ![x] = IF left = 0 THEN NoRow ELSE [qty |-> left, at |-> Stamp]]
     /\ orders' = [orders EXCEPT ![settler.id].status = IF n = 0 THEN "rejected" ELSE "filled"]
     /\ net' = [net EXCEPT ![x] = (IF kind = Exit[x] THEN @ - n * Since(ex, Stamp)
                                   ELSE @ + n * Since(ex, Stamp))]
     /\ settler' = Past
     /\ UNCHANGED <<calendar, known, desk, reader>>

-----------------------------------------------------------------------------
Desk ==
  \/ Buy \/ Look \/ Count \/ Sell
  \/ AdjustStored \/ InsertShort \/ ReadShort \/ Register \/ Link \/ ReadUndo \/ Undo
Round == BeginRound \/ EndRound \/ Take \/ AdjustHeld \/ AdjustOrder \/ Expire \/ ReadRow \/ Fill

Next == Publish \/ Tick \/ Read \/ Adjust \/ Desk \/ Round

Spec == Init /\ [][Next]_vars

-----------------------------------------------------------------------------
Row == [qty : Nat, at : Nat]

Order ==
  [kind : {Entry[x] : x \in Sides} \cup {Exit[x] : x \in Sides}, qty : Nat \ {0}, at : Nat,
   signal : BOOLEAN, status : {"pending", "filled", "cancelled", "expired", "rejected"},
   meant : Int]

Worker ==
  [pc : {"idle", "read",
         "look", "sell", "stored", "insert", "register", "write", "link", "undo", "withdraw",
         "next", "held", "order", "fill"},
   side : Sides, raw : Row, got : (SUBSET ExDays) \cup {Unknown}, qty : Nat, id : Nat,
   todo : SUBSET Nat, meant : Int]

(***************************************************************************)
(* Rows and orders count whole shares, and no row is kept for none         *)
(* (fill.py:80, 145; paper_broker.py:64).                                  *)
(***************************************************************************)
TypeOK ==
  /\ ex \in SUBSET ExDays /\ known \in SUBSET ExDays
  /\ setting \in Settings /\ day \in 1 .. MaxDay /\ part \in {"early", "open", "dusk"}
  /\ row \in [Sides -> Row] /\ \A x \in Sides : row[x].qty = 0 => row[x] = NoRow
  /\ orders \in Seq(Order)
  /\ desk \in Worker /\ settler \in Worker /\ reader \in Worker
  /\ net \in [Sides -> Int]

\* The short sales in the row that are not filled, in the units of the last day
InRow(i) == IF desk.id = i THEN desk.pc \in {"link", "undo", "withdraw"}
            ELSE orders[i].status = "pending"
Registered ==
  MapThenSumSet(LAMBDA i : orders[i].qty * Since(ex, orders[i].at),
                {i \in DOMAIN orders : orders[i].kind = "SHORT" /\ InRow(i)})

(***************************************************************************)
(* Every split is applied exactly once to every share: what a row holds,   *)
(* brought from its own units to those of the last day, is what was        *)
(* filled and what is registered, whoever adjusts the row, before the      *)
(* opening or after, between a read and a write of another, and when the   *)
(* record is missing (split_adjust.py:149, 178; paper_broker.py:53, 165).  *)
(***************************************************************************)
SplitsOnce ==
  /\ row["long"].qty * Since(ex, row["long"].at) = net["long"]
  /\ row["short"].qty * Since(ex, row["short"].at) = net["short"] + Registered

(***************************************************************************)
(* An exit closes what was filled when its shares were counted, no less    *)
(* and no more: also when a split goes ex between the order and its fill,  *)
(* when the shares were counted in the new units before the opening of     *)
(* that day, and when a short sale that is registered waits beside them    *)
(* (split_adjust.py:183; pending_short.py:26; paper_broker.py:302).        *)
(***************************************************************************)
ExitsCloseWhatWasHeld ==
  [][~setting.down =>
       \A i \in DOMAIN orders :
         (orders[i].kind \in {"SELL", "SHORT_COVER"} /\ orders[i].status = "pending"
           /\ orders'[i].status = "filled")
         => net[SideOf(orders[i])] - net'[SideOf(orders[i])] = orders[i].meant]_vars
=============================================================================
