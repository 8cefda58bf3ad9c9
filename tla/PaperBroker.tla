----------------------------- MODULE PaperBroker -----------------------------
(***************************************************************************)
(* The paper broker (PaperBroker.send_order, cancel_order and              *)
(* settle_pending_orders) under the jobs that call it.                     *)
(*                                                                         *)
(* A desk is a thread that places orders: it decides from what it reads of *)
(* the account and calls send_order, and cancels an entry whose exit date  *)
(* could not be recorded.  A settler is a thread inside                    *)
(* settle_pending_orders: the job of 9:05, its retries of 9:15 to 9:55, or *)
(* a run by hand.  Connections commit every statement by themselves, so a  *)
(* desk's statements are actions of their own; the settlement of one order *)
(* is a transaction, whose reads are actions of their own and whose writes *)
(* happen together at its commit.                                          *)
(***************************************************************************)
EXTENDS PaperTables

CONSTANTS
  Settlers,  \* threads that settle
  Desks,     \* threads that place orders
  Lots,      \* quantities of an entry
  Limits,    \* prices of a limit order
  Opening,   \* the balance at the start
  Stacks,    \* a desk also adds to a short position, which send_order accepts
  Quiet,     \* no desk is at work while orders are settled
  Faults,    \* statements may fail and processes may die
  MaxOrders  \* bound: no desk decides on an order beyond this many

ASSUME AccountAssumption ==
  /\ Symbols # {}
  /\ Lots \subseteq Positive
  /\ Limits \subseteq Positive
  /\ Opening \in Nat
  /\ MaxOrders \in Nat
  /\ {Stacks, Quiet, Faults} \subseteq BOOLEAN

VARIABLES
  orders,   \* paper_orders, in the order of created_at
  cash,     \* paper_balance
  long,     \* long[s]: the row of s in paper_positions
  short,    \* short[s]: the row of s in paper_short_positions
  settler,  \* settler[c]: where settler c is
  desk      \* desk[d]: where desk d is

account == <<cash, long, short>>
vars == <<orders, account, settler, desk>>

(* A settler has the orders it read as pending and has still to look at,    *)
(* and of the current one the fill price, whether it is reached, and the    *)
(* row it read.  From "claimed" to "ready" it is inside the transaction     *)
(* that holds the row of the order.                                         *)
Settler ==
  [pc : {"idle", "settling", "claimed", "cleared", "ready"},
   todo : SUBSET Nat, order : Nat, price : Nat, reached : BOOLEAN, row : Row]

Settling(todo) ==
  [pc |-> "settling", todo |-> todo, order |-> 0, price |-> 0,
   reached |-> FALSE, row |-> NoRow]

IdleSettler == [Settling({}) EXCEPT !.pc = "idle"]

(* A desk goes through decided, checked (a buy), inserted and registering   *)
(* (a short sale), sent, and, when it cancels, cancelling, cancelled and    *)
(* undoing.  found is what the SELECT of a cancellation returned.           *)
Desk ==
  [pc : {"idle", "decided", "checked", "inserted", "registering", "sent",
         "cancelling", "cancelled", "undoing"},
   side : Side, symbol : Symbols, qty : Nat, limit : Nat, order : Nat,
   row : Row, found : BOOLEAN]

Decision(s, side, q, limit) ==
  [pc |-> "decided", side |-> side, symbol |-> s, qty |-> q, limit |-> limit,
   order |-> 0, row |-> NoRow, found |-> FALSE]

IdleDesk == [Decision(CHOOSE s \in Symbols : TRUE, "BUY", 0, 0) EXCEPT !.pc = "idle"]

Ids == DOMAIN orders
Pending == {o \in Ids : orders[o].status = "pending"}
Waiting(s, side) ==
  {o \in Pending : orders[o].symbol = s /\ orders[o].side = side}

InTransaction(c) == settler[c].pc \in {"claimed", "cleared", "ready"}

(* The row lock that SELECT ... FOR UPDATE holds until the commit.          *)
Locked(o) == \E c \in Settlers : InTransaction(c) /\ settler[c].order = o

SettlersIdle == \A c \in Settlers : settler[c].pc = "idle"
DesksIdle == \A d \in Desks : desk[d].pc = "idle"

-----------------------------------------------------------------------------
(* Placing an order                                                         *)

PendingShortQty(s) ==
  MapThenSumSet(LAMBDA o : orders[o].qty, Waiting(s, "SHORT"))

(* Deviation: the registration of a pending short sale counts as held.      *)
WholeRow(s) == short[s].qty

(* get_short_positions, coverable_short_qty: the shares of the row that     *)
(* have been filled.                                                        *)
Coverable(s) == short[s].qty - Lesser(short[s].qty, PendingShortQty(s))

(* An entry needs a symbol that is neither held nor about to be bought, and *)
(* not sold short, though send_order would take another short sale of it.   *)
MayEnter(s, side) ==
  /\ long[s].qty = 0
  /\ Waiting(s, "BUY") = {}
  /\ \/ short[s].qty = 0
     \/ side = "SHORT" /\ Stacks

(* Deviation: an exit that waits to be settled is not looked for.           *)
ExitsEvenIfWaiting(s, side) ==
  IF side = "SELL" THEN long[s].qty ELSE Coverable(s)

(* The shares an exit closes: all that is held, and none while an exit of   *)
(* the same side waits to be settled.                                       *)
ExitQty(s, side) ==
  IF Waiting(s, side) # {} THEN 0
  ELSE IF side = "SELL" THEN long[s].qty ELSE Coverable(s)

(* A run reads the account and decides; it sends the order later.           *)
Decide(d) ==
  /\ desk[d].pc = "idle"
  /\ Quiet => SettlersIdle
  /\ Len(orders) < MaxOrders
  /\ \E s \in Symbols, side \in Side, limit \in {0} \union Limits :
       \E q \in IF side \in {"BUY", "SHORT"}
                THEN IF MayEnter(s, side) THEN Lots ELSE {}
                ELSE {ExitQty(s, side)} \intersect Positive :
         desk' = [desk EXCEPT ![d] = Decision(s, side, q, limit)]
  /\ UNCHANGED <<orders, account, settler>>

(* send_order: a buy waits for no other buy of the symbol.                  *)
CheckWaiting(d) ==
  /\ desk[d].pc = "decided"
  /\ desk[d].side = "BUY"
  /\ desk' = [desk EXCEPT ![d] =
       IF Waiting(@.symbol, "BUY") = {} THEN [@ EXCEPT !.pc = "checked"]
       ELSE IdleDesk]
  /\ UNCHANGED <<orders, account, settler>>

(* send_order: the INSERT.  A short sale has still to be registered; after  *)
(* an exit nothing remains to be done.                                      *)
Insert(d) ==
  /\ \/ desk[d].pc = "checked"
     \/ desk[d].pc = "decided" /\ desk[d].side # "BUY"
  /\ orders' = Append(orders, NewOrder(desk[d].symbol, desk[d].side,
                                       desk[d].qty, desk[d].limit))
  /\ desk' = [desk EXCEPT ![d] =
       CASE @.side = "BUY"   -> [@ EXCEPT !.pc = "sent", !.order = Len(orders) + 1]
         [] @.side = "SHORT" -> [@ EXCEPT !.pc = "inserted", !.order = Len(orders) + 1]
         [] OTHER            -> IdleDesk]
  /\ UNCHANGED <<account, settler>>

(* send_order: the SELECT before the registration of a short sale.          *)
ReadShort(d) ==
  /\ desk[d].pc = "inserted"
  /\ desk' = [desk EXCEPT ![d] =
       [@ EXCEPT !.pc = "registering", !.row = short[desk[d].symbol]]]
  /\ UNCHANGED <<orders, account, settler>>

(* send_order: the registration; an INSERT that clashes raises, and the     *)
(* order stays without one.                                                 *)
Register(d) ==
  /\ desk[d].pc = "registering"
  /\ LET me == desk[d]
         cur == short[me.symbol]
     IN IF Clashes(me.row, cur)
        THEN desk' = [desk EXCEPT ![d] = IdleDesk] /\ UNCHANGED short
        ELSE /\ short' = [short EXCEPT ![me.symbol] =
                  Stored(me.row, cur, Added(me.row, me.qty, me.limit * me.qty))]
             /\ desk' = [desk EXCEPT ![d] = [@ EXCEPT !.pc = "sent", !.row = NoRow]]
  /\ UNCHANGED <<orders, cash, long, settler>>

(* _record_order: the exit date of the entry is recorded.                   *)
Link(d) ==
  /\ desk[d].pc = "sent"
  /\ desk' = [desk EXCEPT ![d] = IdleDesk]
  /\ UNCHANGED <<orders, account, settler>>

-----------------------------------------------------------------------------
(* Cancelling an order                                                      *)

(* _record_order: it could not be recorded; cancel_order reads the order.   *)
StartCancel(d) ==
  /\ desk[d].pc = "sent"
  /\ desk' = [desk EXCEPT ![d] =
       [@ EXCEPT !.pc = "cancelling", !.found = desk[d].order \in Pending]]
  /\ UNCHANGED <<orders, account, settler>>

(* Deviation: the UPDATE does not ask for a pending order.                  *)
CancelAnyway(o) == [orders EXCEPT ![o].status = "cancelled"]

(* cancel_order: the UPDATE of an order that is still pending.              *)
Cancelled(o) ==
  IF o \in Pending THEN [orders EXCEPT ![o].status = "cancelled"] ELSE orders

(* cancel_order: the UPDATE waits for a transaction that holds the order.   *)
Cancel(d) ==
  /\ desk[d].pc = "cancelling"
  /\ ~Locked(desk[d].order)
  /\ orders' = Cancelled(desk[d].order)
  /\ desk' = [desk EXCEPT ![d] =
       IF @.found /\ @.side = "SHORT" THEN [@ EXCEPT !.pc = "cancelled"]
       ELSE IdleDesk]
  /\ UNCHANGED <<account, settler>>

(* _undo_short_registration: the SELECT; without a row it is over.          *)
ReadUndo(d) ==
  /\ desk[d].pc = "cancelled"
  /\ desk' = [desk EXCEPT ![d] =
       IF short[@.symbol].qty = 0 THEN IdleDesk
       ELSE [@ EXCEPT !.pc = "undoing", !.row = short[desk[d].symbol]]]
  /\ UNCHANGED <<orders, account, settler>>

(* _undo_short_registration: the DELETE or the UPDATE.                      *)
Undo(d) ==
  /\ desk[d].pc = "undoing"
  /\ LET me == desk[d] IN
       short' = [short EXCEPT ![me.symbol] =
         Stored(me.row, @, TakenBack(me.row, me.qty, me.limit * me.qty))]
  /\ desk' = [desk EXCEPT ![d] = IdleDesk]
  /\ UNCHANGED <<orders, cash, long, settler>>

-----------------------------------------------------------------------------
(* Settling                                                                 *)

(* settle_pending_orders: the orders that are pending are read.             *)
BeginRound(c) ==
  /\ settler[c].pc = "idle"
  /\ Quiet => DesksIdle
  /\ settler' = [settler EXCEPT ![c] = Settling(Pending)]
  /\ UNCHANGED <<orders, account, desk>>

EndRound(c) ==
  /\ settler[c].pc = "settling"
  /\ settler[c].todo = {}
  /\ settler' = [settler EXCEPT ![c] = IdleSettler]
  /\ UNCHANGED <<orders, account, desk>>

(* The order settler c looks at: the oldest of those it has left.           *)
Faces(c, o) ==
  /\ settler[c].pc = "settling"
  /\ o \in settler[c].todo
  /\ \A x \in settler[c].todo : o <= x

Rest(c, o) == settler[c].todo \ {o}

(* The bar of today is missing, stale or NaN, the order came after the      *)
(* close, its splits are not known, or the data raised: it stays pending.   *)
Skip(c, o) ==
  /\ Faces(c, o)
  /\ settler' = [settler EXCEPT ![c] = Settling(Rest(c, o))]
  /\ UNCHANGED <<orders, account, desk>>

(* Deviation: the order is not looked at again after it was read.           *)
AnyOrder(o) == TRUE

(* claim_pending: whether the SELECT ... FOR UPDATE returns the order.      *)
StillPending(o) == o \in Pending

(* claim_pending: the order is locked and still pending; its bar gives the  *)
(* price.                                                                   *)
Claim(c, o) ==
  /\ Faces(c, o)
  /\ ~Locked(o)
  /\ StillPending(o)
  /\ \E b \in Bars :
       settler' = [settler EXCEPT ![c] =
         [@ EXCEPT !.pc = "claimed", !.todo = Rest(c, o), !.order = o,
                   !.price = FillPrice(orders[o], b),
                   !.reached = Reached(orders[o], b)]]
  /\ UNCHANGED <<orders, account, desk>>

(* claim_pending: another round has settled the order, or it was cancelled. *)
PassOver(c, o) ==
  /\ Faces(c, o)
  /\ ~Locked(o)
  /\ ~StillPending(o)
  /\ settler' = [settler EXCEPT ![c] = Settling(Rest(c, o))]
  /\ UNCHANGED <<orders, account, desk>>

Mine(c) == orders[settler[c].order]
Cost(c) == Mine(c).qty * settler[c].price

Close(c, status) ==
  /\ orders' = [orders EXCEPT ![settler[c].order].status = status]
  /\ settler' = [settler EXCEPT ![c] = Settling(@.todo)]

(* Deviation: a buy needs any cash at all.                                  *)
HasSomeCash(c) == cash > 0

HasCash(c) == Cost(c) <= cash

(* Deviation: a round turns to the next order and leaves this one pending.  *)
LeavePending(c) ==
  /\ settler' = [settler EXCEPT ![c] = Settling(@.todo)]
  /\ UNCHANGED orders

Reject(c) == Close(c, "rejected")

(* A buy that is reached needs the cash.                                    *)
NeedsCash(c) == Mine(c).side = "BUY" /\ settler[c].reached

CheckCash(c) ==
  /\ settler[c].pc = "claimed"
  /\ NeedsCash(c) => HasCash(c)
  /\ settler' = [settler EXCEPT ![c] = [@ EXCEPT !.pc = "cleared"]]
  /\ UNCHANGED <<orders, account, desk>>

RejectBuy(c) ==
  /\ settler[c].pc = "claimed"
  /\ NeedsCash(c)
  /\ ~HasCash(c)
  /\ Reject(c)
  /\ UNCHANGED <<account, desk>>

(* Longs and shorts have a table each.                                      *)
Shorts(o) == orders[o].side \in {"SHORT", "SHORT_COVER"}
RowOf(o) == IF Shorts(o) THEN short[orders[o].symbol] ELSE long[orders[o].symbol]

(* apply_fill or _undo_short_registration: the SELECT.                      *)
ReadRow(c) ==
  /\ settler[c].pc = "cleared"
  /\ settler' = [settler EXCEPT ![c] =
       [@ EXCEPT !.pc = "ready", !.row = RowOf(settler[c].order)]]
  /\ UNCHANGED <<orders, account, desk>>

Store(o, row) ==
  IF Shorts(o)
  THEN short' = [short EXCEPT ![orders[o].symbol] = row] /\ UNCHANGED long
  ELSE long' = [long EXCEPT ![orders[o].symbol] = row] /\ UNCHANGED short

(* Deviation: an expired short sale keeps its registration.                 *)
KeepsRegistration(c) == UNCHANGED account

(* An expired short sale gives its registration back.                       *)
Withdraw(c) ==
  /\ IF Mine(c).side = "SHORT" /\ settler[c].row.qty > 0
     THEN Store(settler[c].order,
                Stored(settler[c].row, RowOf(settler[c].order),
                       TakenBack(settler[c].row, Mine(c).qty,
                                 Mine(c).limit * Mine(c).qty)))
     ELSE UNCHANGED <<long, short>>
  /\ UNCHANGED cash

(* A limit order the bar does not touch expires.                            *)
Expire(c) ==
  /\ settler[c].pc = "ready"
  /\ ~settler[c].reached
  /\ Withdraw(c)
  /\ Close(c, "expired")
  /\ UNCHANGED desk

FillsNothing(c) == FillQty(Mine(c), settler[c].row) = 0

(* An exit of something that is not held is rejected.                       *)
RejectExit(c) ==
  /\ settler[c].pc = "ready"
  /\ settler[c].reached
  /\ FillsNothing(c)
  /\ Reject(c)
  /\ UNCHANGED <<account, desk>>

ClashesNow(c) ==
  /\ Mine(c).side \in {"BUY", "SHORT"}
  /\ Clashes(settler[c].row, RowOf(settler[c].order))

(* apply_fill and the commit: the balance, the row and the order.           *)
Fill(c) ==
  /\ settler[c].pc = "ready"
  /\ settler[c].reached
  /\ ~FillsNothing(c)
  /\ ~ClashesNow(c)
  /\ LET o == settler[c].order
         read == settler[c].row
         price == settler[c].price
     IN /\ cash' = cash + FillCash(Mine(c), price, read)
        /\ Store(o, StoredFill(Mine(c), price, read, RowOf(o)))
        /\ orders' = [orders EXCEPT ![o] =
             [@ EXCEPT !.status = "filled", !.qty = FillQty(Mine(c), read),
                       !.price = price, !.pnl = FillPnl(Mine(c), price, read)]]
        /\ settler' = [settler EXCEPT ![c] = Settling(@.todo)]
  /\ UNCHANGED desk

(* The transaction raises and is rolled back; the order stays pending.      *)
GiveUp(c) ==
  /\ InTransaction(c)
  /\ \/ Faults
     \/ settler[c].pc = "ready" /\ settler[c].reached /\ ClashesNow(c)
  /\ settler' = [settler EXCEPT ![c] = Settling(@.todo)]
  /\ UNCHANGED <<orders, account, desk>>

-----------------------------------------------------------------------------
(* The process of a thread dies, or a statement outside a transaction       *)
(* raises: what was committed stays.                                        *)

AbandonRound(c) ==
  /\ Faults
  /\ settler[c].pc # "idle"
  /\ settler' = [settler EXCEPT ![c] = IdleSettler]
  /\ UNCHANGED <<orders, account, desk>>

AbandonOrder(d) ==
  /\ Faults
  /\ desk[d].pc # "idle"
  /\ desk' = [desk EXCEPT ![d] = IdleDesk]
  /\ UNCHANGED <<orders, account, settler>>

-----------------------------------------------------------------------------
Init ==
  /\ orders = <<>>
  /\ cash = Opening
  /\ long = [s \in Symbols |-> NoRow]
  /\ short = [s \in Symbols |-> NoRow]
  /\ settler = [c \in Settlers |-> IdleSettler]
  /\ desk = [d \in Desks |-> IdleDesk]

DeskStep(d) ==
  \/ CheckWaiting(d) \/ Insert(d) \/ ReadShort(d) \/ Register(d) \/ Link(d)
  \/ StartCancel(d) \/ Cancel(d) \/ ReadUndo(d) \/ Undo(d)

Look(c, o) == Skip(c, o) \/ Claim(c, o) \/ PassOver(c, o)

TransactionStep(c) ==
  \/ CheckCash(c) \/ RejectBuy(c) \/ ReadRow(c)
  \/ Expire(c) \/ RejectExit(c) \/ Fill(c) \/ GiveUp(c)

RoundStep(c) ==
  \/ BeginRound(c) \/ EndRound(c)
  \/ \E o \in settler[c].todo : Look(c, o)
  \/ TransactionStep(c)

Next ==
  \/ \E d \in Desks : Decide(d) \/ DeskStep(d) \/ AbandonOrder(d)
  \/ \E c \in Settlers : RoundStep(c) \/ AbandonRound(c)

Spec == Init /\ [][Next]_vars

(* The steps of a thread that is at work are taken, rounds are begun again  *)
(* and again, and the bar of an order is not missing for ever.              *)
Fairness ==
  /\ \A d \in Desks : WF_vars(DeskStep(d))
  /\ \A c \in Settlers : WF_vars(RoundStep(c))
  /\ \A o \in 1..MaxOrders : SF_vars(\E c \in Settlers : Claim(c, o))

FairSpec == Spec /\ Fairness

-----------------------------------------------------------------------------
(* Properties                                                               *)

TypeOK ==
  /\ orders \in Seq(Order)
  /\ cash \in Int
  /\ long \in [Symbols -> Row]
  /\ short \in [Symbols -> Row]
  /\ settler \in [Settlers -> Settler]
  /\ desk \in [Desks -> Desk]

Of(s, side, status) ==
  {o \in Ids : /\ orders[o].symbol = s
               /\ orders[o].side = side
               /\ orders[o].status = status}

Filled == {o \in Ids : orders[o].status = "filled"}
Shares(S) == MapThenSumSet(LAMBDA o : orders[o].qty, S)
Amount(S) == MapThenSumSet(LAMBDA o : orders[o].qty * orders[o].price, S)
Provisional(S) == MapThenSumSet(LAMBDA o : orders[o].qty * orders[o].limit, S)
Pnl(S) == MapThenSumSet(LAMBDA o : orders[o].pnl, S)

FilledOn(side) == {o \in Filled : orders[o].side = side}

(* The balance is the opening balance moved by each filled order once,      *)
(* however rounds overlap, fail and die: claim_pending and the transaction  *)
(* of apply_fill.                                                           *)
CashMatchesFills ==
  cash = Opening - Amount(FilledOn("BUY")) + Amount(FilledOn("SELL"))
         + Pnl(FilledOn("SHORT_COVER"))

(* An order that was filled, cancelled, rejected or expired is not touched  *)
(* again, by a second round or by a cancellation that read it as pending.   *)
SettledOnce ==
  [][\A o \in Ids : orders[o].status # "pending" => orders'[o] = orders[o]]_vars

(* The shares held are those bought and not sold, although each fill        *)
(* writes an absolute quantity computed from a row that it read without a   *)
(* lock.                                                                    *)
LongMatchesFills ==
  \A s \in Symbols :
    long[s].qty = Shares(Of(s, "BUY", "filled")) - Shares(Of(s, "SELL", "filled"))

(* Cash and the positions at cost are the opening balance and the profits   *)
(* recorded on the orders: fills and get_pnl_summary tell the same story.   *)
BooksBalance ==
  cash + MapThenSumSet(LAMBDA s : Worth(long[s]), Symbols) = Opening + Pnl(Filled)

(* No desk is between the INSERT of a short sale and its registration, or   *)
(* between its cancellation and the end of the withdrawal.                  *)
Registered(s) ==
  \A d \in Desks :
    desk[d].pc \in {"inserted", "registering", "cancelled", "undoing"} =>
      desk[d].symbol # s

(* A row of paper_short_positions is what was sold short and not covered,   *)
(* and what waits to be sold short: send_order, apply_fill, the withdrawals *)
(* of a cancelled and of an expired order.                                  *)
ShortMatchesOrders ==
  \A s \in Symbols : Registered(s) =>
    short[s].qty = Shares(Of(s, "SHORT", "filled"))
                   - Shares(Of(s, "SHORT_COVER", "filled"))
                   + Shares(Of(s, "SHORT", "pending"))

(* Until a short is covered, the amount of its row is the amount of the     *)
(* fills and the provisional amounts of what waits: every provisional       *)
(* amount is replaced by its fill or taken back, exactly once.              *)
ShortAmountMatchesOrders ==
  \A s \in Symbols : Registered(s) /\ Of(s, "SHORT_COVER", "filled") = {} =>
    Worth(short[s]) = Amount(Of(s, "SHORT", "filled"))
                      + Provisional(Of(s, "SHORT", "pending"))

(* No more shares are covered than were sold short: a registration that     *)
(* waits is never covered (coverable_short_qty), nor a short covered twice. *)
CoverOnlyFilled ==
  \A s \in Symbols :
    Shares(Of(s, "SHORT_COVER", "filled")) <= Shares(Of(s, "SHORT", "filled"))

(* A buy is filled only from the cash there is: the test of                 *)
(* settle_pending_orders, for a buy was sized without those that wait.      *)
BuysStaySolvent ==
  [][\A o \in Pending :
       orders'[o].status = "filled" /\ orders[o].side = "BUY" => cash' >= 0]_vars

(* An order whose bar comes is settled at last: filled, rejected or         *)
(* expired; none is carried over for ever.                                  *)
EveryOrderDecided ==
  \A o \in 1..MaxOrders : (o \in Pending) ~> (o \in Ids \ Pending)

(* The account as its owner sees it.                                        *)
SharesHeld == [s \in Symbols |-> long[s].qty]

WaitingOrder(o) ==
  [id |-> o, symbol |-> orders[o].symbol, side |-> orders[o].side,
   qty |-> orders[o].qty, limit |-> orders[o].limit]

WaitingOrders == {WaitingOrder(o) : o \in Pending}

TradeOf(o) ==
  [id |-> o, symbol |-> orders[o].symbol, side |-> orders[o].side,
   qty |-> orders[o].qty, price |-> orders[o].price, gain |-> orders[o].pnl]

Trades == {TradeOf(o) : o \in Filled}

Account == INSTANCE TradingAccount WITH
  held <- SharesHeld, placed <- Len(orders), waiting <- WaitingOrders, trades <- Trades

(* Seen from outside, an order is dropped or traded in one step, with the   *)
(* cash and the shares it moves and at no worse a price than its limit:     *)
(* what overlapping rounds read without a lock, and where they fail or die, *)
(* never shows (claim_pending, apply_fill, cancel_order).                   *)
AccountSpec == Account!Spec
=============================================================================
