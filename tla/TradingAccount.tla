---------------------------- MODULE TradingAccount ----------------------------
(***************************************************************************)
(* What the paper broker promises the owner of the account, without its    *)
(* desks, its rounds and the rows they read and write: orders wait, and    *)
(* each is dropped or traded, once and in one step.  Cash and the shares   *)
(* held move only when an order is traded, together, by the quantity and   *)
(* the price of the trade, and a price is never worse than the limit.      *)
(***************************************************************************)
EXTENDS Integers

CONSTANTS
  Symbols,
  Opening   \* the cash at the start

(* An order is a record [id, symbol, side, qty, limit], limit 0 for none; a *)
(* trade is a record [id, symbol, side, qty, price, gain].                  *)
VARIABLES
  cash,
  held,     \* held[s]: the shares of s that are held
  placed,   \* orders placed so far; the newest id
  waiting,  \* orders that were neither dropped nor traded
  trades    \* the trades so far

vars == <<cash, held, placed, waiting, trades>>

Init ==
  /\ cash = Opening
  /\ held = [s \in Symbols |-> 0]
  /\ placed = 0
  /\ waiting = {}
  /\ trades = {}

Place(x) ==
  /\ x.id = placed + 1
  /\ placed' = x.id
  /\ waiting' = waiting \union {x}
  /\ UNCHANGED <<cash, held, trades>>

Drop(x) ==
  /\ waiting' = waiting \ {x}
  /\ UNCHANGED <<cash, held, placed, trades>>

NoWorse(x, price) ==
  x.limit # 0 =>
    IF x.side \in {"BUY", "SHORT_COVER"} THEN price <= x.limit ELSE price >= x.limit

(* A symbol is bought while none of it is held.                             *)
Buy(x, t) ==
  /\ held[x.symbol] = 0
  /\ t.qty = x.qty
  /\ held' = [held EXCEPT ![x.symbol] = t.qty]
  /\ cash' = cash - t.qty * t.price

(* Of what is held, as much as the order names is sold.                     *)
Sell(x, t) ==
  /\ t.qty > 0
  /\ t.qty = IF x.qty <= held[x.symbol] THEN x.qty ELSE held[x.symbol]
  /\ held' = [held EXCEPT ![x.symbol] = @ - t.qty]
  /\ cash' = cash + t.qty * t.price

(* Opening a short moves no cash, covering it the gain.                     *)
TradeShort(x, t) ==
  /\ held' = held
  /\ cash' = IF x.side = "SHORT" THEN cash ELSE cash + t.gain

Trade(x, t) ==
  /\ t.id = x.id /\ t.symbol = x.symbol /\ t.side = x.side
  /\ NoWorse(x, t.price)
  /\ CASE x.side = "BUY"  -> Buy(x, t)
       [] x.side = "SELL" -> Sell(x, t)
       [] OTHER           -> TradeShort(x, t)
  /\ waiting' = waiting \ {x}
  /\ trades' = trades \union {t}
  /\ UNCHANGED placed

Next ==
  \/ \E x \in waiting' \ waiting : Place(x)
  \/ \E x \in waiting \ waiting' : Drop(x) \/ \E t \in trades' \ trades : Trade(x, t)

Spec == Init /\ [][Next]_vars
=============================================================================
