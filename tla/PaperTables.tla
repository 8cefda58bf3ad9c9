----------------------------- MODULE PaperTables -----------------------------
(***************************************************************************)
(* The rows of the paper broker's tables and what its statements write     *)
(* into them: the registration of a short sale, its withdrawal, and the    *)
(* fill of an order.                                                       *)
(*                                                                         *)
(* Every write is computed from a row read by an earlier statement, so the *)
(* operators take both: `read`, the row as it was read, and `cur`, the row *)
(* at the time of the write.  Prices are in a unit that makes the averages *)
(* integers.  Stock splits are not modelled.                               *)
(***************************************************************************)
EXTENDS Integers, FiniteSets, Sequences, FiniteSetsExt

CONSTANTS
  Symbols,  \* the symbols traded
  Bars      \* the daily bars a symbol may have: open, high and low

ASSUME BarAssumption ==
  \A b \in Bars : /\ b \in [open : Nat, high : Nat, low : Nat]
                  /\ b.low <= b.open /\ b.open <= b.high

Positive == Nat \ {0}

Side == {"BUY", "SELL", "SHORT", "SHORT_COVER"}

Status == {"pending", "filled", "cancelled", "expired", "rejected"}

(* A row of paper_orders.  limit is its price column, 0 for a market order; *)
(* price is fill_price and pnl is realized_pnl.                             *)
Order ==
  [symbol : Symbols, side : Side, qty : Positive, limit : Nat, status : Status,
   price : Nat, pnl : Int]

NewOrder(s, side, q, limit) ==
  [symbol |-> s, side |-> side, qty |-> q, limit |-> limit,
   status |-> "pending", price |-> 0, pnl |-> 0]

(* A row of paper_positions or paper_short_positions; qty 0 is no row.      *)
Row == [qty : Nat, avg : Int]
NoRow == [qty |-> 0, avg |-> 0]

Lesser(a, b) == IF a <= b THEN a ELSE b
Greater(a, b) == IF a <= b THEN b ELSE a

-----------------------------------------------------------------------------
(* The bar of the day and the price of the fill                             *)

Buys(o) == o.side \in {"BUY", "SHORT_COVER"}

(* A market order is always reached, a limit order when the bar touches it. *)
Reached(o, b) ==
  \/ o.limit = 0
  \/ Buys(o) /\ b.low <= o.limit
  \/ ~Buys(o) /\ b.high >= o.limit

(* Deviation: a limit order that is reached is filled at the open.          *)
FillAtOpen(o, b) == b.open

FillPrice(o, b) ==
  IF o.limit = 0 THEN b.open
  ELSE IF Buys(o) THEN Lesser(o.limit, b.open) ELSE Greater(o.limit, b.open)

-----------------------------------------------------------------------------
(* Rows                                                                     *)

Worth(row) == row.avg * row.qty

(* q shares for an amount are added at the weighted average.                *)
Added(row, q, amount) ==
  [qty |-> row.qty + q, avg |-> (Worth(row) + amount) \div (row.qty + q)]

Reduced(row, q) ==
  IF row.qty <= q THEN NoRow ELSE [row EXCEPT !.qty = @ - q]

(* Deviation: the average is kept when a registration is taken back.        *)
ReducedOnly(read, q, amount) == Reduced(read, q)

(* _undo_short_registration: q shares registered for an amount are taken    *)
(* out again.                                                               *)
TakenBack(read, q, amount) ==
  IF read.qty <= q THEN NoRow
  ELSE [qty |-> read.qty - q, avg |-> (Worth(read) - amount) \div (read.qty - q)]

(* The fill of a short sale replaces the amount it was registered for.      *)
Repriced(read, q, price, limit) ==
  IF read.qty = 0 THEN [qty |-> q, avg |-> price]
  ELSE [read EXCEPT !.avg = @ + ((price - limit) * q) \div read.qty]

(* apply_fill: the shares that are filled.                                  *)
FillQty(o, read) ==
  IF o.side \in {"SELL", "SHORT_COVER"} THEN Lesser(o.qty, read.qty) ELSE o.qty

(* apply_fill: the row it writes after it read `read`.                      *)
FillRow(o, price, read) ==
  CASE o.side = "BUY"   -> Added(read, o.qty, o.qty * price)
    [] o.side = "SHORT" -> Repriced(read, o.qty, price, o.limit)
    [] OTHER            -> Reduced(read, o.qty)

(* apply_fill: realized_pnl.                                                *)
FillPnl(o, price, read) ==
  CASE o.side = "SELL"        -> (price - read.avg) * FillQty(o, read)
    [] o.side = "SHORT_COVER" -> (read.avg - price) * FillQty(o, read)
    [] OTHER                  -> 0

(* Deviation: opening a short pays its amount into the balance.             *)
ShortPaysIn(o, price, read) ==
  CASE o.side = "BUY"         -> -(o.qty * price)
    [] o.side = "SELL"        -> FillQty(o, read) * price
    [] o.side = "SHORT_COVER" -> FillPnl(o, price, read)
    [] OTHER                  -> o.qty * price

(* apply_fill: what is added to the balance.  A short moves no cash until   *)
(* it is covered.                                                           *)
FillCash(o, price, read) ==
  CASE o.side = "BUY"         -> -(o.qty * price)
    [] o.side = "SELL"        -> FillQty(o, read) * price
    [] o.side = "SHORT_COVER" -> FillPnl(o, price, read)
    [] OTHER                  -> 0

(* The INSERT of a row for a symbol that has one by now violates the        *)
(* primary key.                                                             *)
Clashes(read, cur) == read.qty = 0 /\ cur.qty > 0

(* INSERT when no row was read; an UPDATE or a DELETE of a row that is gone *)
(* by now changes nothing.                                                  *)
Stored(read, cur, new) ==
  IF read.qty > 0 /\ cur.qty = 0 THEN cur ELSE new

(* The UPDATE of a fill sets the average only (a short sale), the quantity  *)
(* only (a sale or a cover), or both (a buy).                               *)
StoredFill(o, price, read, cur) ==
  LET new == FillRow(o, price, read) IN
  Stored(read, cur,
    IF read.qty = 0 \/ new.qty = 0 THEN new
    ELSE CASE o.side = "SHORT" -> [cur EXCEPT !.avg = new.avg]
           [] o.side = "BUY"   -> new
           [] OTHER            -> [cur EXCEPT !.qty = new.qty])
=============================================================================
