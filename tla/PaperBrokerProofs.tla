-------------------------- MODULE PaperBrokerProofs --------------------------
(***************************************************************************)
(* What holds of the paper broker for any number of threads, symbols and   *)
(* orders.                                                                 *)
(***************************************************************************)
EXTENDS PaperBroker, SumLemmas

-----------------------------------------------------------------------------
(* What the statements write are rows, whatever they read.                  *)

LEMMA AddedIsRow ==
  ASSUME NEW row \in Row, NEW q \in Positive, NEW amount \in Int
  PROVE  Added(row, q, amount) \in Row
<1>1. row.qty \in Nat /\ row.avg \in Int
  BY DEF Row
<1>2. row.avg * row.qty \in Int
  BY <1>1
<1>3. (row.avg * row.qty + amount) \div (row.qty + q) \in Int
  <2>1. row.qty + q \in Positive
    BY <1>1 DEF Positive
  <2> DEFINE a == row.avg * row.qty + amount
             b == row.qty + q
  <2>2. a \in Int /\ b \in Int /\ b > 0
    BY <1>1, <1>2, <2>1 DEF Positive
  <2> HIDE DEF a, b
  <2>3. a \div b \in Int
    BY <2>2
  <2> QED BY <2>3 DEF a, b
<1> QED BY <1>1, <1>3 DEF Added, Worth, Row, Positive

LEMMA TakenBackIsRow ==
  ASSUME NEW row \in Row, NEW q \in Positive, NEW amount \in Int
  PROVE  TakenBack(row, q, amount) \in Row
<1>1. row.qty \in Nat /\ row.avg \in Int
  BY DEF Row
<1>2. CASE row.qty <= q
  BY <1>2 DEF TakenBack, NoRow, Row
<1>3. CASE ~(row.qty <= q)
  <2> DEFINE a == row.avg * row.qty - amount
             b == row.qty - q
  <2>1. row.avg * row.qty \in Int
    BY <1>1
  <2>2. a \in Int /\ b \in Nat /\ b > 0
    BY <1>1, <1>3, <2>1 DEF Positive
  <2>3. TakenBack(row, q, amount) = [qty |-> b, avg |-> a \div b]
    BY <1>3 DEF TakenBack, Worth
  <2> HIDE DEF a, b
  <2>4. a \div b \in Int
    BY <2>2
  <2> QED BY <2>2, <2>3, <2>4 DEF Row
<1> QED BY <1>2, <1>3

LEMMA RepricedIsRow ==
  ASSUME NEW row \in Row, NEW q \in Positive, NEW p \in Nat, NEW limit \in Nat
  PROVE  Repriced(row, q, p, limit) \in Row
<1>1. row.qty \in Nat /\ row.avg \in Int
  BY DEF Row
<1>2. CASE row.qty = 0
  BY <1>2 DEF Repriced, Row, Positive
<1>3. CASE row.qty # 0
  <2> DEFINE a == (p - limit) * q
             b == row.qty
  <2>1. a \in Int /\ b \in Nat /\ b > 0
    BY <1>1, <1>3 DEF Positive
  <2>2. Repriced(row, q, p, limit) = [row EXCEPT !.avg = row.avg + a \div b]
    BY <1>3 DEF Repriced
  <2> HIDE DEF a, b
  <2>3. row.avg + a \div b \in Int
    BY <1>1, <2>1
  <2> QED BY <2>2, <2>3 DEF Row
<1> QED BY <1>2, <1>3

LEMMA FillRowIsRow ==
  ASSUME NEW o \in Order, NEW p \in Nat, NEW row \in Row
  PROVE  FillRow(o, p, row) \in Row
<1>1. o.qty \in Positive /\ o.limit \in Nat /\ o.side \in Side
  BY DEF Order
<1>2. CASE o.side = "BUY"
  <2>1. o.qty * p \in Int
    BY <1>1 DEF Positive
  <2> QED BY <1>1, <1>2, <2>1, AddedIsRow DEF FillRow
<1>3. CASE o.side = "SHORT"
  BY <1>1, <1>3, RepricedIsRow DEF FillRow
<1>4. CASE o.side \notin {"BUY", "SHORT"}
  BY <1>1, <1>4 DEF FillRow, Reduced, NoRow, Row, Positive
<1> QED BY <1>2, <1>3, <1>4

LEMMA StoredFillIsRow ==
  ASSUME NEW o \in Order, NEW p \in Nat, NEW row \in Row, NEW cur \in Row
  PROVE  StoredFill(o, p, row, cur) \in Row
<1> DEFINE new == FillRow(o, p, row)
<1>1. new \in Row
  BY FillRowIsRow
<1>2. o.side \in Side
  BY DEF Order
<1>3. [cur EXCEPT !.avg = new.avg] \in Row /\ [cur EXCEPT !.qty = new.qty] \in Row
  BY <1>1 DEF Row
<1> HIDE DEF new
<1> QED
  BY <1>1, <1>2, <1>3 DEF StoredFill, Stored, new, Side

LEMMA FillTypes ==
  ASSUME NEW o \in Order, NEW p \in Nat, NEW row \in Row
  PROVE  /\ FillQty(o, row) \in Nat
         /\ FillPnl(o, p, row) \in Int
         /\ FillCash(o, p, row) \in Int
<1>1. o.qty \in Positive /\ o.side \in Side /\ row.qty \in Nat /\ row.avg \in Int
  BY DEF Order, Row
<1>2. FillQty(o, row) \in Nat
  BY <1>1 DEF FillQty, Lesser, Positive
<1>3. FillPnl(o, p, row) \in Int
  <2> DEFINE n == FillQty(o, row)
  <2>1. n \in Nat
    BY <1>2
  <2> HIDE DEF n
  <2>2. (p - row.avg) * n \in Int /\ (row.avg - p) * n \in Int
    BY <1>1, <2>1
  <2> QED BY <2>2 DEF FillPnl, n
<1>4. -(o.qty * p) \in Int /\ FillQty(o, row) * p \in Int
  BY <1>1, <1>2 DEF Positive
<1>5. FillCash(o, p, row) \in Int
  BY <1>3, <1>4 DEF FillCash
<1> QED BY <1>2, <1>3, <1>5

LEMMA FillPriceIsNat ==
  ASSUME NEW o \in Order, NEW b \in Bars
  PROVE  FillPrice(o, b) \in Nat /\ Reached(o, b) \in BOOLEAN
<1>1. o.limit \in Nat /\ b.open \in Nat
  BY BarAssumption DEF Order
<1> QED BY <1>1 DEF FillPrice, Lesser, Greater, Reached

-----------------------------------------------------------------------------
(* Types                                                                    *)

(* A desk that is at work has shares to order.                              *)
Sized == \A d \in Desks : desk[d].pc # "idle" => desk[d].qty \in Positive

(* An order that a thread knows of exists.                                  *)
Known ==
  /\ \A c \in Settlers :
       settler[c].todo \subseteq Ids /\ (InTransaction(c) => settler[c].order \in Ids)
  /\ \A d \in Desks :
       desk[d].pc \in {"inserted", "registering", "sent", "cancelling"} =>
         desk[d].order \in Ids

TypeInv == TypeOK /\ Sized /\ Known

(* The shapes a thread's record takes.                                      *)
LEMMA DecisionIsDesk ==
  ASSUME NEW s \in Symbols, NEW side \in Side, NEW q \in Nat, NEW limit \in Nat
  PROVE  /\ Decision(s, side, q, limit) \in Desk
         /\ Decision(s, side, q, limit).pc = "decided"
         /\ Decision(s, side, q, limit).qty = q
BY DEF Decision, Desk, NoRow, Row

LEMMA IdleDeskIsDesk == IdleDesk \in Desk /\ IdleDesk.pc = "idle"
<1> DEFINE s == CHOOSE s \in Symbols : TRUE
           r == Decision(s, "BUY", 0, 0)
<1>1. s \in Symbols
  BY AccountAssumption
<1>2. r \in Desk
  BY <1>1, DecisionIsDesk DEF Side
<1>3. IdleDesk = [r EXCEPT !.pc = "idle"]
  BY DEF IdleDesk
<1> HIDE DEF r
<1> QED BY <1>2, <1>3 DEF Desk

LEMMA SettlingIsSettler ==
  ASSUME NEW todo \in SUBSET Nat
  PROVE  /\ Settling(todo) \in Settler
         /\ Settling(todo).pc = "settling"
         /\ Settling(todo).todo = todo
BY DEF Settling, Settler, NoRow, Row

LEMMA IdleSettlerIsSettler ==
  IdleSettler \in Settler /\ IdleSettler.pc = "idle" /\ IdleSettler.todo = {}
<1> DEFINE r == Settling({})
<1>1. r \in Settler /\ r.todo = {}
  BY SettlingIsSettler
<1>2. IdleSettler = [r EXCEPT !.pc = "idle"]
  BY DEF IdleSettler
<1> HIDE DEF r
<1> QED BY <1>1, <1>2 DEF Settler

LEMMA InitTypes == Init => TypeInv
<1> SUFFICES ASSUME Init PROVE TypeInv
  OBVIOUS
<1>1. TypeOK
  BY IdleDeskIsDesk, IdleSettlerIsSettler, AccountAssumption
     DEF Init, TypeOK, NoRow, Row
<1>2. Sized
  BY IdleDeskIsDesk DEF Init, Sized
<1>3. Known
  BY IdleDeskIsDesk, IdleSettlerIsSettler DEF Init, Known, InTransaction
<1> QED BY <1>1, <1>2, <1>3 DEF TypeInv

(* A step of a desk that changes no table.                                  *)
LEMMA DeskMoves ==
  ASSUME TypeInv, NEW d \in Desks, NEW r \in Desk,
         desk' = [desk EXCEPT ![d] = r],
         r.pc # "idle" => r.qty \in Positive,
         r.pc \in {"inserted", "registering", "sent", "cancelling"} => r.order \in Ids',
         orders' \in Seq(Order), Ids \subseteq Ids',
         long' \in [Symbols -> Row], short' \in [Symbols -> Row],
         UNCHANGED <<cash, settler>>
  PROVE  TypeInv'
<1>1. desk' \in [Desks -> Desk] /\ desk'[d] = r
      /\ \A e \in Desks : e # d => desk'[e] = desk[e]
  BY DEF TypeInv, TypeOK
<1>2. TypeOK'
  BY <1>1 DEF TypeInv, TypeOK
<1>3. Sized'
  BY <1>1 DEF TypeInv, Sized
<1>4. Known'
  BY <1>1 DEF TypeInv, Known, InTransaction
<1> QED BY <1>2, <1>3, <1>4 DEF TypeInv

(* A step of a settler.                                                     *)
LEMMA SettlerMoves ==
  ASSUME TypeInv, NEW c \in Settlers, NEW r \in Settler,
         settler' = [settler EXCEPT ![c] = r],
         r.todo \subseteq Ids',
         r.pc \in {"claimed", "cleared", "ready"} => r.order \in Ids',
         orders' \in Seq(Order), Ids' = Ids, cash' \in Int,
         long' \in [Symbols -> Row], short' \in [Symbols -> Row],
         UNCHANGED desk
  PROVE  TypeInv'
<1>1. settler' \in [Settlers -> Settler] /\ settler'[c] = r
      /\ \A e \in Settlers : e # c => settler'[e] = settler[e]
  BY DEF TypeInv, TypeOK
<1>2. TypeOK'
  BY <1>1 DEF TypeInv, TypeOK
<1>3. Sized'
  BY DEF TypeInv, Sized
<1>4. Known'
  BY <1>1 DEF TypeInv, Known, InTransaction
<1> QED BY <1>2, <1>3, <1>4 DEF TypeInv

LEMMA DecideTypes ==
  ASSUME TypeInv, NEW d \in Desks, Decide(d)
  PROVE  TypeInv'
<1> DEFINE Qty(s, side) == IF side \in {"BUY", "SHORT"}
                           THEN IF MayEnter(s, side) THEN Lots ELSE {}
                           ELSE {ExitQty(s, side)} \intersect Positive
<1>1. PICK s \in Symbols, side \in Side, limit \in {0} \union Limits :
        \E q \in Qty(s, side) :
          desk' = [desk EXCEPT ![d] = Decision(s, side, q, limit)]
  BY DEF Decide
<1>2. PICK q \in Qty(s, side) :
        desk' = [desk EXCEPT ![d] = Decision(s, side, q, limit)]
  BY <1>1
<1>3. q \in Positive /\ q \in Nat /\ limit \in Nat
  BY <1>2, AccountAssumption DEF Positive
<1>4. /\ Decision(s, side, q, limit) \in Desk
      /\ Decision(s, side, q, limit).pc = "decided"
      /\ Decision(s, side, q, limit).qty = q
  BY <1>3, DecisionIsDesk
<1>5. /\ UNCHANGED <<orders, cash, long, short, settler>>
      /\ orders' \in Seq(Order) /\ Ids \subseteq Ids'
      /\ long' \in [Symbols -> Row] /\ short' \in [Symbols -> Row]
  BY DEF Decide, account, TypeInv, TypeOK, Ids
<1> HIDE DEF Qty
<1> QED BY <1>2, <1>3, <1>4, <1>5, DeskMoves

(* What an INSERT appends.                                                  *)
LEMMA InsertGrows ==
  ASSUME TypeInv, NEW d \in Desks, Insert(d)
  PROVE  /\ orders' = Append(orders, NewOrder(desk[d].symbol, desk[d].side,
                                              desk[d].qty, desk[d].limit))
         /\ orders' \in Seq(Order)
         /\ Ids' = Ids \union {Len(orders) + 1}
         /\ Len(orders) + 1 \in Nat
         /\ Len(orders) + 1 \notin Ids
         /\ \A o \in Ids : orders'[o] = orders[o]
<1>1. desk[d] \in Desk /\ desk[d].qty \in Positive /\ orders \in Seq(Order)
  BY DEF TypeInv, TypeOK, Sized, Insert
<1> DEFINE x == NewOrder(desk[d].symbol, desk[d].side, desk[d].qty, desk[d].limit)
<1>2. x \in Order
  BY <1>1 DEF NewOrder, Order, Desk, Status
<1>3. orders' = Append(orders, x)
  BY DEF Insert
<1> HIDE DEF x
<1> QED BY <1>1, <1>2, <1>3 DEF x, Ids

LEMMA CancelledKeepsIds ==
  ASSUME orders \in Seq(Order), NEW o
  PROVE  /\ Cancelled(o) \in Seq(Order)
         /\ DOMAIN Cancelled(o) = Ids
         /\ \A x \in Ids : orders[x].status # "pending" => Cancelled(o)[x] = orders[x]
<1>1. CASE o \in Pending
  <2>1. o \in Ids /\ orders[o] \in Order
    BY <1>1 DEF Pending, Ids
  <2> DEFINE y == [orders[o] EXCEPT !.status = "cancelled"]
  <2>2. y \in Order
    BY <2>1 DEF Order, Status
  <2>3. Cancelled(o) = [orders EXCEPT ![o] = y]
    BY <1>1 DEF Cancelled
  <2>4. orders[o].status = "pending"
    BY <1>1 DEF Pending
  <2> HIDE DEF y
  <2> QED BY <2>1, <2>2, <2>3, <2>4 DEF Ids
<1>2. CASE o \notin Pending
  BY <1>2 DEF Cancelled, Ids
<1> QED BY <1>1, <1>2

LEMMA DeskTypes ==
  ASSUME TypeInv, NEW d \in Desks, DeskStep(d) \/ AbandonOrder(d)
  PROVE  TypeInv'
<1> DEFINE me == desk[d]
<1>1. /\ me \in Desk
      /\ me.pc # "idle" => me.qty \in Positive
      /\ me.pc \in {"inserted", "registering", "sent", "cancelling"} => me.order \in Ids
      /\ IdleDesk \in Desk /\ IdleDesk.pc = "idle"
  BY IdleDeskIsDesk DEF TypeInv, TypeOK, Sized, Known
<1>2. me.symbol \in Symbols /\ short[me.symbol] \in Row
      /\ short \in [Symbols -> Row] /\ long \in [Symbols -> Row]
      /\ orders \in Seq(Order) /\ Ids \subseteq Ids
  BY <1>1 DEF TypeInv, TypeOK, Desk
<1>3. CASE CheckWaiting(d)
  <2> DEFINE r == IF Waiting(me.symbol, "BUY") = {} THEN [me EXCEPT !.pc = "checked"]
                  ELSE IdleDesk
  <2>1. desk' = [desk EXCEPT ![d] = r] /\ UNCHANGED <<orders, cash, long, short, settler>>
        /\ me.pc = "decided"
    BY <1>3 DEF CheckWaiting, account
  <2>2. r \in Desk /\ (r.pc # "idle" => r.qty \in Positive)
        /\ r.pc \notin {"inserted", "registering", "sent", "cancelling"}
    BY <1>1, <2>1 DEF Desk
  <2>3. Ids' = Ids
    BY <2>1 DEF Ids
  <2> HIDE DEF r
  <2> QED BY <1>2, <2>1, <2>2, <2>3, DeskMoves
<1>4. CASE Insert(d)
  <2> DEFINE n == Len(orders) + 1
             r == CASE me.side = "BUY"   -> [me EXCEPT !.pc = "sent", !.order = n]
                    [] me.side = "SHORT" -> [me EXCEPT !.pc = "inserted", !.order = n]
                    [] OTHER             -> IdleDesk
  <2>1. desk' = [desk EXCEPT ![d] = r] /\ UNCHANGED <<cash, long, short, settler>>
        /\ me.pc \in {"checked", "decided"}
    BY <1>4 DEF Insert, account
  <2>2. n \in Nat /\ n \in Ids' /\ Ids \subseteq Ids' /\ orders' \in Seq(Order)
    BY <1>4, InsertGrows
  <2> HIDE DEF n
  <2>3. r \in Desk /\ (r.pc # "idle" => r.qty \in Positive)
        /\ (r.pc \in {"inserted", "registering", "sent", "cancelling"} => r.order \in Ids')
    BY <1>1, <2>1, <2>2 DEF Desk
  <2> HIDE DEF r
  <2> QED BY <1>2, <2>1, <2>2, <2>3, DeskMoves
<1>5. CASE ReadShort(d)
  <2> DEFINE r == [me EXCEPT !.pc = "registering", !.row = short[me.symbol]]
  <2>1. desk' = [desk EXCEPT ![d] = r] /\ UNCHANGED <<orders, cash, long, short, settler>>
        /\ me.pc = "inserted"
    BY <1>5 DEF ReadShort, account
  <2>2. r \in Desk /\ r.qty \in Positive /\ r.order = me.order /\ me.order \in Ids
    BY <1>1, <1>2, <2>1 DEF Desk
  <2>3. Ids' = Ids
    BY <2>1 DEF Ids
  <2> HIDE DEF r
  <2> QED BY <1>2, <2>1, <2>2, <2>3, DeskMoves
<1>6. CASE Register(d)
  <2>1. me.pc = "registering" /\ UNCHANGED <<orders, cash, long, settler>>
    BY <1>6 DEF Register
  <2>2. Ids' = Ids
    BY <2>1 DEF Ids
  <2>3. CASE Clashes(me.row, short[me.symbol])
    <3>1. desk' = [desk EXCEPT ![d] = IdleDesk] /\ UNCHANGED short
      BY <1>6, <2>3 DEF Register
    <3> QED BY <1>1, <1>2, <2>1, <2>2, <3>1, DeskMoves
  <2>4. CASE ~Clashes(me.row, short[me.symbol])
    <3> DEFINE r == [me EXCEPT !.pc = "sent", !.row = NoRow]
               new == Stored(me.row, short[me.symbol],
                             Added(me.row, me.qty, me.limit * me.qty))
    <3>1. desk' = [desk EXCEPT ![d] = r] /\ short' = [short EXCEPT ![me.symbol] = new]
      BY <1>6, <2>4 DEF Register
    <3>2. me.limit * me.qty \in Int /\ me.row \in Row /\ me.qty \in Positive
      BY <1>1, <2>1 DEF Desk, Positive
    <3>3. new \in Row
      BY <1>2, <3>2, AddedIsRow DEF Stored
    <3>4. r \in Desk /\ r.qty \in Positive /\ r.order = me.order
      <4>1. NoRow \in Row
        BY DEF NoRow, Row
      <4> QED BY <1>1, <2>1, <4>1 DEF Desk
    <3>5. me.order \in Ids
      BY <1>1, <2>1
    <3> HIDE DEF r, new
    <3> QED BY <1>2, <2>1, <2>2, <3>1, <3>3, <3>4, <3>5, DeskMoves
  <2> QED BY <2>3, <2>4
<1>7. CASE Link(d) \/ AbandonOrder(d)
  <2>1. desk' = [desk EXCEPT ![d] = IdleDesk]
        /\ UNCHANGED <<orders, cash, long, short, settler>>
    BY <1>7 DEF Link, AbandonOrder, account
  <2>2. Ids' = Ids
    BY <2>1 DEF Ids
  <2> QED BY <1>1, <1>2, <2>1, <2>2, DeskMoves
<1>8. CASE StartCancel(d)
  <2> DEFINE r == [me EXCEPT !.pc = "cancelling", !.found = me.order \in Pending]
  <2>1. desk' = [desk EXCEPT ![d] = r] /\ UNCHANGED <<orders, cash, long, short, settler>>
        /\ me.pc = "sent"
    BY <1>8 DEF StartCancel, account
  <2>2. (me.order \in Pending) \in BOOLEAN
    OBVIOUS
  <2>3. r \in Desk /\ r.qty \in Positive /\ r.order = me.order /\ me.order \in Ids
    BY <1>1, <2>1, <2>2 DEF Desk
  <2>4. Ids' = Ids
    BY <2>1 DEF Ids
  <2> HIDE DEF r
  <2> QED BY <1>2, <2>1, <2>3, <2>4, DeskMoves
<1>9. CASE Cancel(d)
  <2> DEFINE r == IF me.found /\ me.side = "SHORT" THEN [me EXCEPT !.pc = "cancelled"]
                  ELSE IdleDesk
  <2>1. desk' = [desk EXCEPT ![d] = r] /\ UNCHANGED <<cash, long, short, settler>>
        /\ me.pc = "cancelling" /\ orders' = Cancelled(me.order)
    BY <1>9 DEF Cancel, account
  <2>2. r \in Desk /\ (r.pc # "idle" => r.qty \in Positive)
        /\ r.pc \in {"idle", "cancelled"}
    BY <1>1, <2>1 DEF Desk
  <2>3. orders' \in Seq(Order) /\ Ids' = Ids
    BY <1>2, <2>1, CancelledKeepsIds DEF Ids
  <2> HIDE DEF r
  <2> QED BY <1>2, <2>1, <2>2, <2>3, DeskMoves
<1>10. CASE ReadUndo(d)
  <2> DEFINE r == IF short[me.symbol].qty = 0 THEN IdleDesk
                  ELSE [me EXCEPT !.pc = "undoing", !.row = short[me.symbol]]
  <2>1. desk' = [desk EXCEPT ![d] = r] /\ UNCHANGED <<orders, cash, long, short, settler>>
        /\ me.pc = "cancelled"
    BY <1>10 DEF ReadUndo, account
  <2>2. r \in Desk /\ (r.pc # "idle" => r.qty \in Positive)
        /\ r.pc \in {"idle", "undoing"}
    BY <1>1, <1>2, <2>1 DEF Desk
  <2>3. Ids' = Ids
    BY <2>1 DEF Ids
  <2> HIDE DEF r
  <2> QED BY <1>2, <2>1, <2>2, <2>3, DeskMoves
<1>11. CASE Undo(d)
  <2> DEFINE new == Stored(me.row, short[me.symbol],
                           TakenBack(me.row, me.qty, me.limit * me.qty))
  <2>1. desk' = [desk EXCEPT ![d] = IdleDesk] /\ UNCHANGED <<orders, cash, long, settler>>
        /\ me.pc = "undoing" /\ short' = [short EXCEPT ![me.symbol] = new]
    BY <1>11 DEF Undo
  <2>2. me.limit * me.qty \in Int /\ me.row \in Row /\ me.qty \in Positive
    BY <1>1, <2>1 DEF Desk, Positive
  <2>3. new \in Row
    BY <1>2, <2>2, TakenBackIsRow DEF Stored
  <2>4. Ids' = Ids
    BY <2>1 DEF Ids
  <2> HIDE DEF new
  <2> QED BY <1>1, <1>2, <2>1, <2>3, <2>4, DeskMoves
<1> QED
  BY <1>3, <1>4, <1>5, <1>6, <1>7, <1>8, <1>9, <1>10, <1>11 DEF DeskStep

(* The settlement of one order writes only its own row of paper_orders.     *)
LEMMA CloseKeepsIds ==
  ASSUME TypeInv, NEW c \in Settlers, NEW status \in Status,
         InTransaction(c), Close(c, status)
  PROVE  /\ orders' \in Seq(Order) /\ Ids' = Ids
         /\ settler' = [settler EXCEPT ![c] = Settling(settler[c].todo)]
<1>1. settler[c].order \in Ids /\ orders \in Seq(Order) /\ settler \in [Settlers -> Settler]
  BY DEF TypeInv, TypeOK, Known
<1> DEFINE o == settler[c].order
           y == [orders[o] EXCEPT !.status = status]
<1>2. orders[o] \in Order
  BY <1>1 DEF Ids
<1>3. y \in Order
  BY <1>2 DEF Order
<1>4. orders' = [orders EXCEPT ![o] = y]
  BY <1>1 DEF Close
<1>5. settler' = [settler EXCEPT ![c] = Settling(settler[c].todo)]
  BY <1>1 DEF Close
<1> HIDE DEF y, o
<1> QED BY <1>1, <1>3, <1>4, <1>5 DEF Ids, o

LEMMA SettlerTypes ==
  ASSUME TypeInv, NEW c \in Settlers, RoundStep(c) \/ AbandonRound(c)
  PROVE  TypeInv'
<1> DEFINE me == settler[c]
<1>1. /\ me \in Settler
      /\ me.todo \in SUBSET Nat /\ me.todo \subseteq Ids
      /\ me.pc \in {"claimed", "cleared", "ready"} => me.order \in Ids
      /\ settler \in [Settlers -> Settler]
  BY DEF TypeInv, TypeOK, Known, InTransaction, Settler
<1>2. /\ short \in [Symbols -> Row] /\ long \in [Symbols -> Row]
      /\ orders \in Seq(Order) /\ cash \in Int
      /\ Ids \in SUBSET Nat
  BY DEF TypeInv, TypeOK, Ids
<1>3. UNCHANGED orders => Ids' = Ids
  BY DEF Ids
<1>4. ASSUME NEW todo \in SUBSET Nat, todo \subseteq Ids, Ids' = Ids,
             settler' = [settler EXCEPT ![c] = Settling(todo)],
             orders' \in Seq(Order), cash' \in Int,
             long' \in [Symbols -> Row], short' \in [Symbols -> Row],
             UNCHANGED desk
      PROVE  TypeInv'
  <2>1. Settling(todo) \in Settler /\ Settling(todo).pc = "settling"
        /\ Settling(todo).todo = todo
    BY SettlingIsSettler
  <2> QED BY <1>4, <2>1, SettlerMoves
<1>5. CASE BeginRound(c)
  <2>1. Pending \in SUBSET Nat /\ Pending \subseteq Ids
    BY <1>2 DEF Pending
  <2> QED BY <1>2, <1>3, <1>4, <1>5, <2>1 DEF BeginRound, account
<1>6. CASE EndRound(c) \/ AbandonRound(c)
  <2>1. settler' = [settler EXCEPT ![c] = IdleSettler]
        /\ UNCHANGED <<orders, cash, long, short, desk>>
    BY <1>6 DEF EndRound, AbandonRound, account
  <2> QED BY <1>2, <1>3, <2>1, IdleSettlerIsSettler, SettlerMoves
<1>7. ASSUME NEW o \in me.todo, Skip(c, o) \/ PassOver(c, o)
      PROVE  TypeInv'
  <2>1. settler' = [settler EXCEPT ![c] = Settling(Rest(c, o))]
        /\ UNCHANGED <<orders, cash, long, short, desk>>
    BY <1>7 DEF Skip, PassOver, account
  <2>2. Rest(c, o) \in SUBSET Nat /\ Rest(c, o) \subseteq Ids
    BY <1>1 DEF Rest
  <2> QED BY <1>2, <1>3, <1>4, <2>1, <2>2
<1>8. ASSUME NEW o \in me.todo, Claim(c, o)
      PROVE  TypeInv'
  <2>1. PICK b \in Bars :
          settler' = [settler EXCEPT ![c] =
            [me EXCEPT !.pc = "claimed", !.todo = Rest(c, o), !.order = o,
                       !.price = FillPrice(orders[o], b),
                       !.reached = Reached(orders[o], b)]]
    BY <1>1, <1>8 DEF Claim
  <2>2. UNCHANGED <<orders, cash, long, short, desk>>
    BY <1>8 DEF Claim, account
  <2>3. o \in Ids /\ o \in Nat /\ orders[o] \in Order
    BY <1>1, <1>2 DEF Ids
  <2>4. FillPrice(orders[o], b) \in Nat /\ Reached(orders[o], b) \in BOOLEAN
    BY <2>3, FillPriceIsNat
  <2>5. Rest(c, o) \in SUBSET Nat /\ Rest(c, o) \subseteq Ids
    BY <1>1 DEF Rest
  <2> DEFINE p == FillPrice(orders[o], b)
             h == Reached(orders[o], b)
             todo == Rest(c, o)
             r == [me EXCEPT !.pc = "claimed", !.todo = todo, !.order = o,
                             !.price = p, !.reached = h]
  <2>6. settler' = [settler EXCEPT ![c] = r]
    BY <2>1
  <2>7. p \in Nat /\ h \in BOOLEAN /\ todo \in SUBSET Nat /\ todo \subseteq Ids
    BY <2>4, <2>5
  <2> HIDE DEF p, h, todo
  <2>8. r \in Settler /\ r.todo = todo /\ r.order = o
    BY <1>1, <2>3, <2>7 DEF Settler
  <2> HIDE DEF r
  <2> QED BY <1>2, <1>3, <2>2, <2>3, <2>6, <2>7, <2>8, SettlerMoves
<1>9. CASE CheckCash(c)
  <2> DEFINE r == [me EXCEPT !.pc = "cleared"]
  <2>1. settler' = [settler EXCEPT ![c] = r] /\ UNCHANGED <<orders, cash, long, short, desk>>
        /\ me.pc = "claimed"
    BY <1>9 DEF CheckCash, account
  <2>2. r \in Settler /\ r.todo = me.todo /\ r.order = me.order
    BY <1>1 DEF Settler
  <2> HIDE DEF r
  <2> QED BY <1>1, <1>2, <1>3, <2>1, <2>2, SettlerMoves
<1>10. CASE ReadRow(c)
  <2> DEFINE r == [me EXCEPT !.pc = "ready", !.row = RowOf(me.order)]
  <2>1. settler' = [settler EXCEPT ![c] = r] /\ UNCHANGED <<orders, cash, long, short, desk>>
        /\ me.pc = "cleared"
    BY <1>10 DEF ReadRow, account
  <2>2. RowOf(me.order) \in Row
    <3>1. orders[me.order] \in Order
      BY <1>1, <1>2, <2>1 DEF Ids
    <3> QED BY <1>2, <3>1 DEF RowOf, Order
  <2>3. r \in Settler /\ r.todo = me.todo /\ r.order = me.order
    BY <1>1, <2>2 DEF Settler
  <2> HIDE DEF r
  <2> QED BY <1>1, <1>2, <1>3, <2>1, <2>3, SettlerMoves
<1>11. CASE RejectBuy(c) \/ RejectExit(c)
  <2>1. Close(c, "rejected") /\ InTransaction(c) /\ UNCHANGED <<cash, long, short, desk>>
    BY <1>11 DEF RejectBuy, RejectExit, Reject, InTransaction, account
  <2>2. "rejected" \in Status
    BY DEF Status
  <2>3. orders' \in Seq(Order) /\ Ids' = Ids
        /\ settler' = [settler EXCEPT ![c] = Settling(me.todo)]
    BY <2>1, <2>2, CloseKeepsIds
  <2> QED BY <1>1, <1>2, <1>4, <2>1, <2>3
<1>12. CASE GiveUp(c)
  <2>1. settler' = [settler EXCEPT ![c] = Settling(me.todo)]
        /\ UNCHANGED <<orders, cash, long, short, desk>>
    BY <1>1, <1>12 DEF GiveUp, account
  <2> QED BY <1>1, <1>2, <1>3, <1>4, <2>1
<1>13. CASE Expire(c)
  <2>1. Close(c, "expired") /\ InTransaction(c) /\ Withdraw(c) /\ UNCHANGED desk
        /\ me.pc = "ready"
    BY <1>13 DEF Expire, InTransaction
  <2>2. orders' \in Seq(Order) /\ Ids' = Ids
        /\ settler' = [settler EXCEPT ![c] = Settling(me.todo)]
    <3>1. "expired" \in Status
      BY DEF Status
    <3> QED BY <2>1, <3>1, CloseKeepsIds
  <2>3. orders[me.order] \in Order /\ me.row \in Row
    BY <1>1, <1>2, <2>1 DEF Ids, Settler
  <2>4. RowOf(me.order) \in Row
    BY <1>2, <2>3 DEF RowOf, Order
  <2> DEFINE x == orders[me.order]
             new == Stored(me.row, RowOf(me.order),
                           TakenBack(me.row, x.qty, x.limit * x.qty))
  <2>5. new \in Row
    <3>1. x.qty \in Positive /\ x.limit * x.qty \in Int
      BY <2>3 DEF Order, Positive
    <3> QED BY <2>3, <2>4, <3>1, TakenBackIsRow DEF Stored
  <2>6. cash' = cash /\ (Store(me.order, new) \/ UNCHANGED <<long, short>>)
    BY <2>1 DEF Withdraw, Mine
  <2> HIDE DEF new, x
  <2>7. long' \in [Symbols -> Row] /\ short' \in [Symbols -> Row]
    BY <1>2, <2>5, <2>6 DEF Store
  <2> QED BY <1>1, <1>2, <1>4, <2>1, <2>2, <2>6, <2>7
<1>14. CASE Fill(c)
  <2> DEFINE o == me.order
             x == orders[o]
             qty == FillQty(x, me.row)
             pnl == FillPnl(x, me.price, me.row)
             new == StoredFill(x, me.price, me.row, RowOf(o))
             y == [x EXCEPT !.status = "filled", !.qty = qty, !.price = me.price,
                            !.pnl = pnl]
  <2>1. /\ me.pc = "ready" /\ qty # 0 /\ UNCHANGED desk
        /\ cash' = cash + FillCash(x, me.price, me.row)
        /\ Store(o, new)
        /\ orders' = [orders EXCEPT ![o] = y]
        /\ settler' = [settler EXCEPT ![c] = Settling(me.todo)]
    BY <1>1, <1>14 DEF Fill, FillsNothing, Mine
  <2>2. o \in Ids /\ x \in Order /\ me.row \in Row /\ me.price \in Nat
    BY <1>1, <1>2, <2>1 DEF Ids, Settler
  <2>3. RowOf(o) \in Row
    BY <1>2, <2>2 DEF RowOf, Order
  <2>4. new \in Row
    BY <2>2, <2>3, StoredFillIsRow
  <2>5. qty \in Nat /\ pnl \in Int /\ FillCash(x, me.price, me.row) \in Int
    BY <2>2, FillTypes
  <2>6. y \in Order
    <3> HIDE DEF x, qty, pnl
    <3> QED BY <2>1, <2>2, <2>5 DEF Order, Status, Positive
  <2>7. cash' \in Int
    BY <1>2, <2>1, <2>5
  <2> HIDE DEF new, y, o
  <2>8. orders' \in Seq(Order) /\ Ids' = Ids
    BY <1>2, <2>1, <2>2, <2>6 DEF Ids
  <2>9. long' \in [Symbols -> Row] /\ short' \in [Symbols -> Row]
    BY <1>2, <2>1, <2>4 DEF Store
  <2> QED BY <1>1, <1>4, <2>1, <2>7, <2>8, <2>9
<1> QED
  BY <1>5, <1>6, <1>7, <1>8, <1>9, <1>10, <1>11, <1>12, <1>13, <1>14
     DEF RoundStep, Look, TransactionStep

LEMMA TypesPreserved == TypeInv /\ [Next]_vars => TypeInv'
<1> SUFFICES ASSUME TypeInv, [Next]_vars PROVE TypeInv'
  OBVIOUS
<1>1. ASSUME NEW d \in Desks, Decide(d) PROVE TypeInv'
  BY <1>1, DecideTypes
<1>2. ASSUME NEW d \in Desks, DeskStep(d) \/ AbandonOrder(d) PROVE TypeInv'
  BY <1>2, DeskTypes
<1>3. ASSUME NEW c \in Settlers, RoundStep(c) \/ AbandonRound(c) PROVE TypeInv'
  BY <1>3, SettlerTypes
<1>4. CASE UNCHANGED vars
  BY <1>4 DEF vars, account, TypeInv, TypeOK, Sized, Known, Ids, InTransaction
<1> QED BY <1>1, <1>2, <1>3, <1>4 DEF Next

LEMMA TypesHold == Spec => []TypeInv
<1>1. Init => TypeInv
  BY InitTypes
<1>2. TypeInv /\ [Next]_vars => TypeInv'
  BY TypesPreserved
<1> QED BY <1>1, <1>2, PTL DEF Spec

(* The account keeps its shape: quantities are never negative, and an order *)
(* in the books always has shares, whatever the threads' reads and writes   *)
(* interleave to.                                                           *)
THEOREM TypeCorrect == Spec => []TypeOK
<1>1. TypeInv => TypeOK
  BY DEF TypeInv
<1> QED BY <1>1, TypesHold, PTL

-----------------------------------------------------------------------------
(* An order is settled once                                                 *)

(* The lock of claim_pending: an order in a transaction is still pending,   *)
(* and no two transactions hold the same one.                               *)
Held ==
  /\ \A c \in Settlers : InTransaction(c) => settler[c].order \in Pending
  /\ \A c, e \in Settlers :
       InTransaction(c) /\ InTransaction(e) /\ settler[c].order = settler[e].order
         => c = e

LEMMA DeskKeepsHeld ==
  ASSUME TypeInv, Held, NEW d \in Desks,
         Decide(d) \/ DeskStep(d) \/ AbandonOrder(d)
  PROVE  /\ Held'
         /\ Ids \subseteq Ids' /\ settler' = settler /\ cash' = cash
         /\ \A o \in Ids : orders[o].status # "pending" => orders'[o] = orders[o]
         /\ \A o \in Ids : orders'[o].status = "filled" => orders'[o] = orders[o]
         /\ \A o \in Ids : Locked(o) => orders'[o] = orders[o]
<1>1. CASE Insert(d)
  <2>1. Ids \subseteq Ids' /\ settler' = settler /\ cash' = cash
        /\ \A o \in Ids : orders'[o] = orders[o]
    BY <1>1, InsertGrows DEF Insert, account
  <2> QED BY <2>1 DEF Held, Pending, InTransaction
<1>2. CASE Cancel(d)
  <2> DEFINE o == desk[d].order
  <2>1. settler' = settler /\ cash' = cash /\ ~Locked(o) /\ orders' = Cancelled(o)
    BY <1>2 DEF Cancel, account
  <2>2. orders \in Seq(Order)
    BY DEF TypeInv, TypeOK
  <2>3. Ids' = Ids
        /\ \A x \in Ids : orders[x].status # "pending" => orders'[x] = orders[x]
    BY <2>1, <2>2, CancelledKeepsIds DEF Ids
  <2>4. /\ \A x \in Ids : x # o => orders'[x] = orders[x]
        /\ \A x \in Ids : orders'[x].status = "filled" => orders'[x] = orders[x]
    <3>1. CASE o \in Pending
      <4>1. o \in Ids /\ orders' = [orders EXCEPT ![o].status = "cancelled"]
        BY <2>1, <3>1 DEF Cancelled, Pending
      <4>2. orders[o] \in Order
        BY <2>2, <4>1 DEF Ids
      <4>3. orders'[o].status = "cancelled"
        BY <4>1, <4>2 DEF Ids, Order
      <4> QED BY <4>1, <4>3 DEF Ids
    <3>2. CASE o \notin Pending
      BY <2>1, <3>2 DEF Cancelled
    <3> QED BY <3>1, <3>2
  <2>5. ASSUME NEW x \in Ids, Locked(x) PROVE orders'[x] = orders[x]
    <3>1. x # o
      BY <2>1, <2>5
    <3> QED BY <2>4, <3>1
  <2>6. Held'
    BY <2>1, <2>3, <2>5 DEF Held, Pending, InTransaction, Locked
  <2> QED BY <2>1, <2>3, <2>4, <2>5, <2>6
<1>3. CASE \/ Decide(d) \/ CheckWaiting(d) \/ ReadShort(d) \/ Register(d) \/ Link(d)
           \/ StartCancel(d) \/ ReadUndo(d) \/ Undo(d) \/ AbandonOrder(d)
  <2>1. UNCHANGED <<orders, settler, cash>>
    BY <1>3 DEF Decide, CheckWaiting, ReadShort, Register, Link, StartCancel,
                ReadUndo, Undo, AbandonOrder, account
  <2> QED BY <2>1 DEF Held, Pending, Ids, InTransaction
<1> QED BY <1>1, <1>2, <1>3 DEF DeskStep

(* A settler that is, afterwards, in no transaction has changed at most the *)
(* order it held.                                                           *)
LEMMA LeavingKeepsHeld ==
  ASSUME TypeInv, Held, NEW c \in Settlers, NEW r,
         r.pc \notin {"claimed", "cleared", "ready"},
         settler' = [settler EXCEPT ![c] = r],
         Ids' = Ids,
         \A o \in Ids : (InTransaction(c) => o # settler[c].order) => orders'[o] = orders[o]
  PROVE  /\ Held'
         /\ \A o \in Ids : orders[o].status # "pending" => orders'[o] = orders[o]
<1>1. settler'[c] = r /\ \A e \in Settlers : e # c => settler'[e] = settler[e]
  BY DEF TypeInv, TypeOK
<1> QED BY <1>1 DEF Held, InTransaction, Pending

LEMMA CloseChangesOne ==
  ASSUME TypeInv, NEW c \in Settlers, NEW status \in Status \ {"filled"},
         InTransaction(c), Close(c, status)
  PROVE  /\ \A o \in Ids : o # settler[c].order => orders'[o] = orders[o]
         /\ orders'[settler[c].order].status # "filled"
<1>1. settler[c].order \in Ids /\ orders \in Seq(Order)
      /\ orders[settler[c].order] \in Order
  BY DEF TypeInv, TypeOK, Known, Ids
<1> QED BY <1>1 DEF Close, Ids, Order

LEMMA SettlerKeepsHeld ==
  ASSUME TypeInv, Held, NEW c \in Settlers, RoundStep(c) \/ AbandonRound(c)
  PROVE  /\ Held'
         /\ \A o \in Ids : orders[o].status # "pending" => orders'[o] = orders[o]
<1>1. settler \in [Settlers -> Settler] /\ \A todo : Settling(todo).pc = "settling"
      /\ IdleSettler.pc = "idle"
  BY IdleSettlerIsSettler DEF TypeInv, TypeOK, Settling
<1>2. CASE \/ BeginRound(c) \/ EndRound(c) \/ AbandonRound(c) \/ GiveUp(c)
           \/ \E o \in settler[c].todo : Skip(c, o) \/ PassOver(c, o)
  <2>1. UNCHANGED orders
        /\ \/ settler' = [settler EXCEPT ![c] = IdleSettler]
           \/ \E todo : settler' = [settler EXCEPT ![c] = Settling(todo)]
    BY <1>1, <1>2 DEF BeginRound, EndRound, AbandonRound, GiveUp, Skip, PassOver
  <2>2. Ids' = Ids
    BY <2>1 DEF Ids
  <2>3. CASE settler' = [settler EXCEPT ![c] = IdleSettler]
    BY <1>1, <2>1, <2>2, <2>3, LeavingKeepsHeld
  <2>4. ASSUME NEW todo, settler' = [settler EXCEPT ![c] = Settling(todo)]
        PROVE  Held'
    BY <1>1, <2>1, <2>2, <2>4, LeavingKeepsHeld
  <2> QED BY <2>1, <2>3, <2>4
<1>3. ASSUME NEW o \in settler[c].todo, Claim(c, o)
      PROVE  Held' /\ UNCHANGED orders
  <2>1. /\ settler'[c].order = o /\ settler'[c].pc = "claimed"
        /\ \A e \in Settlers : e # c => settler'[e] = settler[e]
        /\ UNCHANGED orders
        /\ ~Locked(o) /\ o \in Pending
    <3>1. PICK b \in Bars :
            settler' = [settler EXCEPT ![c] =
              [settler[c] EXCEPT !.pc = "claimed", !.todo = Rest(c, o), !.order = o,
                                 !.price = FillPrice(orders[o], b),
                                 !.reached = Reached(orders[o], b)]]
      BY <1>1, <1>3 DEF Claim
    <3>2. settler[c] \in Settler
      BY <1>1
    <3> QED BY <1>1, <1>3, <3>1, <3>2 DEF Claim, StillPending, Settler
  <2> QED BY <2>1 DEF Held, Pending, Ids, InTransaction, Locked
<1>4. CASE CheckCash(c) \/ ReadRow(c)
  <2>1. settler[c] \in Settler
    BY <1>1
  <2>2. /\ InTransaction(c)
        /\ settler'[c].order = settler[c].order
        /\ \A e \in Settlers : e # c => settler'[e] = settler[e]
        /\ UNCHANGED orders
    BY <1>1, <1>4, <2>1 DEF CheckCash, ReadRow, InTransaction, Settler
  <2> QED BY <2>2 DEF Held, Pending, Ids, InTransaction
<1>5. CASE RejectBuy(c) \/ RejectExit(c) \/ Expire(c)
  <2>1. PICK status \in {"rejected", "expired"} : Close(c, status)
    BY <1>5 DEF RejectBuy, RejectExit, Expire, Reject
  <2>2. InTransaction(c) /\ status \in Status \ {"filled"}
    BY <1>5, <2>1 DEF RejectBuy, RejectExit, Expire, InTransaction, Status
  <2>3. Ids' = Ids /\ settler' = [settler EXCEPT ![c] = Settling(settler[c].todo)]
    BY <2>1, <2>2, CloseKeepsIds
  <2>4. \A o \in Ids : o # settler[c].order => orders'[o] = orders[o]
    BY <2>1, <2>2, CloseChangesOne
  <2> QED BY <1>1, <2>2, <2>3, <2>4, LeavingKeepsHeld
<1>6. CASE Fill(c)
  <2>1. /\ InTransaction(c) /\ settler' = [settler EXCEPT ![c] = Settling(settler[c].todo)]
        /\ Ids' = Ids
        /\ \A o \in Ids : o # settler[c].order => orders'[o] = orders[o]
    BY <1>1, <1>6 DEF Fill, InTransaction, Ids
  <2> QED BY <1>1, <2>1, LeavingKeepsHeld
<1> QED
  BY <1>2, <1>3, <1>4, <1>5, <1>6 DEF RoundStep, Look, TransactionStep, CheckCash, ReadRow

LEMMA HeldPreserved ==
  TypeInv /\ Held /\ [Next]_vars =>
    /\ Held'
    /\ \A o \in Ids : orders[o].status # "pending" => orders'[o] = orders[o]
<1> DEFINE Once == \A o \in Ids : orders[o].status # "pending" => orders'[o] = orders[o]
<1> SUFFICES ASSUME TypeInv, Held, [Next]_vars PROVE Held' /\ Once
  OBVIOUS
<1>1. ASSUME NEW d \in Desks, Decide(d) \/ DeskStep(d) \/ AbandonOrder(d)
      PROVE  Held' /\ Once
  BY <1>1, DeskKeepsHeld
<1>2. ASSUME NEW c \in Settlers, RoundStep(c) \/ AbandonRound(c)
      PROVE  Held' /\ Once
  BY <1>2, SettlerKeepsHeld
<1>3. CASE UNCHANGED vars
  <2>1. UNCHANGED <<orders, settler>>
    BY <1>3 DEF vars
  <2>2. Once
    BY <2>1
  <2>3. Held'
    BY <2>1 DEF Held, Pending, Ids, InTransaction
  <2> QED BY <2>2, <2>3
<1> QED BY <1>1, <1>2, <1>3 DEF Next

LEMMA HeldAlways == Spec => []Held
<1>1. Init => Held
  BY IdleSettlerIsSettler DEF Init, Held, InTransaction
<1>2. TypeInv /\ Held /\ [Next]_vars => Held'
  BY HeldPreserved
<1> QED BY <1>1, <1>2, TypesHold, PTL DEF Spec

(* However many rounds overlap, and whatever is cancelled meanwhile, no     *)
(* order that was filled, cancelled, rejected or expired changes again:     *)
(* claim_pending and the condition of cancel_order's UPDATE.                *)
THEOREM OrderSettledOnce == Spec => SettledOnce
<1>1. TypeInv /\ Held /\ [Next]_vars =>
        [\A o \in Ids : orders[o].status # "pending" => orders'[o] = orders[o]]_vars
  BY HeldPreserved
<1> QED BY <1>1, TypesHold, HeldAlways, PTL DEF Spec, SettledOnce

-----------------------------------------------------------------------------
(* What a fill does to the cash                                             *)

LEMMA FillEffect ==
  ASSUME TypeInv, NEW c \in Settlers, Fill(c)
  PROVE  LET o == settler[c].order
             x == orders[o]
             qty == FillQty(x, settler[c].row)
         IN /\ InTransaction(c) /\ settler[c].pc = "ready" /\ settler[c].reached
            /\ o \in Ids /\ x \in Order /\ settler[c].row \in Row /\ settler[c].price \in Nat
            /\ \A e \in Ids : e # o => orders'[e] = orders[e]
            /\ orders'[o].side = x.side
            /\ orders'[o].status = "filled"
            /\ orders'[o].qty = qty
            /\ orders'[o].price = settler[c].price
            /\ orders'[o].pnl = FillPnl(x, settler[c].price, settler[c].row)
            /\ cash' = cash + FillCash(x, settler[c].price, settler[c].row)
<1> DEFINE o == settler[c].order
           x == orders[o]
           qty == FillQty(x, settler[c].row)
           pnl == FillPnl(x, settler[c].price, settler[c].row)
           y == [x EXCEPT !.status = "filled", !.qty = qty, !.price = settler[c].price,
                          !.pnl = pnl]
<1>1. InTransaction(c) /\ settler[c].pc = "ready" /\ settler[c].reached
  BY DEF Fill, InTransaction
<1>2. settler[c] \in Settler /\ o \in Ids /\ orders \in Seq(Order)
  BY <1>1 DEF TypeInv, TypeOK, Known
<1>3. x \in Order /\ settler[c].row \in Row /\ settler[c].price \in Nat
  BY <1>2 DEF Ids, Settler
<1>4. orders' = [orders EXCEPT ![o] = y]
      /\ cash' = cash + FillCash(x, settler[c].price, settler[c].row)
  BY DEF Fill, Mine
<1>5. y.side = x.side /\ y.status = "filled" /\ y.qty = qty
      /\ y.price = settler[c].price /\ y.pnl = pnl
  <2> HIDE DEF x, qty, pnl
  <2> QED BY <1>3 DEF Order
<1> HIDE DEF y
<1>6. orders'[o] = y /\ \A e \in Ids : e # o => orders'[e] = orders[e]
  BY <1>2, <1>4 DEF Ids
<1> QED BY <1>1, <1>2, <1>3, <1>4, <1>5, <1>6

(* Every other step leaves the cash alone and fills nothing.                *)
LEMMA OthersFillNothing ==
  ASSUME TypeInv, NEW c \in Settlers, RoundStep(c) \/ AbandonRound(c), ~Fill(c)
  PROVE  /\ cash' = cash
         /\ \A o \in Ids : orders'[o].status = "filled" => orders'[o] = orders[o]
<1>1. CASE RejectBuy(c) \/ RejectExit(c) \/ Expire(c)
  <2>1. PICK status \in {"rejected", "expired"} : Close(c, status)
    BY <1>1 DEF RejectBuy, RejectExit, Expire, Reject
  <2>2. InTransaction(c) /\ status \in Status \ {"filled"} /\ cash' = cash
    BY <1>1, <2>1 DEF RejectBuy, RejectExit, Expire, Withdraw, InTransaction, Status, account
  <2>3. /\ \A o \in Ids : o # settler[c].order => orders'[o] = orders[o]
        /\ orders'[settler[c].order].status # "filled"
    BY <2>1, <2>2, CloseChangesOne
  <2> QED BY <2>2, <2>3
<1>2. CASE ~(RejectBuy(c) \/ RejectExit(c) \/ Expire(c))
  <2>1. UNCHANGED <<orders, cash>>
    BY <1>2 DEF RoundStep, AbandonRound, Look, TransactionStep, BeginRound, EndRound,
                Skip, Claim, PassOver, CheckCash, ReadRow, GiveUp, account
  <2> QED BY <2>1
<1> QED BY <1>1, <1>2

(* What an order says it moved.                                             *)
CashOf(x) ==
  CASE x.side = "BUY"         -> -(x.qty * x.price)
    [] x.side = "SELL"        -> x.qty * x.price
    [] x.side = "SHORT_COVER" -> x.pnl
    [] OTHER                  -> 0

(* The balance moves only in the step that fills an order, one order at a   *)
(* time, and by what that order then says.                                  *)
CashFollowsFills ==
  [][\/ cash' = cash /\ \A o \in Pending : orders'[o].status # "filled"
     \/ \E o \in Pending :
          /\ orders'[o].status = "filled"
          /\ \A e \in Ids \ {o} : orders'[e] = orders[e]
          /\ cash' = cash + CashOf(orders'[o])]_vars

(* Whatever the rounds and the desks do to each other, the balance is the   *)
(* opening balance moved by the orders that were filled, each once: the     *)
(* step from which, with SettledOnce, CashMatchesFills follows.             *)
THEOREM CashMovesWithFills == Spec => CashFollowsFills
<1> DEFINE Still == cash' = cash /\ \A o \in Pending : orders'[o].status # "filled"
           Moved(o) == /\ orders'[o].status = "filled"
                       /\ \A e \in Ids \ {o} : orders'[e] = orders[e]
                       /\ cash' = cash + CashOf(orders'[o])
<1>1. TypeInv /\ Held /\ [Next]_vars => [Still \/ \E o \in Pending : Moved(o)]_vars
  <2> SUFFICES ASSUME TypeInv, Held, Next PROVE Still \/ \E o \in Pending : Moved(o)
    OBVIOUS
  <2>1. ASSUME NEW d \in Desks, Decide(d) \/ DeskStep(d) \/ AbandonOrder(d)
        PROVE  Still
    BY <2>1, DeskKeepsHeld DEF Pending
  <2>2. ASSUME NEW c \in Settlers, RoundStep(c) \/ AbandonRound(c), ~Fill(c)
        PROVE  Still
    BY <2>2, OthersFillNothing DEF Pending
  <2>3. ASSUME NEW c \in Settlers, Fill(c)
        PROVE  \E o \in Pending : Moved(o)
    <3> DEFINE o == settler[c].order
               x == orders[o]
               y == orders'[o]
    <3>1. /\ InTransaction(c) /\ x \in Order /\ settler[c].row \in Row
          /\ settler[c].price \in Nat
          /\ \A e \in Ids : e # o => orders'[e] = orders[e]
          /\ y.status = "filled" /\ y.side = x.side
          /\ y.qty = FillQty(x, settler[c].row) /\ y.price = settler[c].price
          /\ y.pnl = FillPnl(x, settler[c].price, settler[c].row)
          /\ cash' = cash + FillCash(x, settler[c].price, settler[c].row)
      BY <2>3, FillEffect
    <3>2. o \in Pending
      BY <3>1 DEF Held
    <3>3. FillCash(x, settler[c].price, settler[c].row) = CashOf(y)
      <4>1. x.side \in Side
        BY <3>1 DEF Order
      <4> HIDE DEF x, y
      <4> QED BY <3>1, <4>1 DEF FillCash, CashOf, FillQty, Side
    <3> QED BY <3>1, <3>2, <3>3
  <2> QED BY <2>1, <2>2, <2>3 DEF Next
<1> QED BY <1>1, TypesHold, HeldAlways, PTL DEF Spec, CashFollowsFills

-----------------------------------------------------------------------------
(* Solvency                                                                 *)

(* A buy that passed the test of the cash still has the cash.               *)
Funded ==
  \A c \in Settlers :
    settler[c].pc \in {"cleared", "ready"} /\ NeedsCash(c) => HasCash(c)

LEMMA FundedPreserved ==
  ASSUME \A c, e \in Settlers : c = e
  PROVE  TypeInv /\ Held /\ Funded /\ [Next]_vars => Funded'
<1> SUFFICES ASSUME TypeInv, Held, Funded, [Next]_vars PROVE Funded'
  OBVIOUS
<1>1. ASSUME UNCHANGED <<settler, cash>>,
             \A c \in Settlers : InTransaction(c) =>
               orders'[settler[c].order] = orders[settler[c].order]
      PROVE  Funded'
  BY <1>1 DEF Funded, InTransaction, NeedsCash, HasCash, Mine, Cost
<1>2. ASSUME NEW d \in Desks, Decide(d) \/ DeskStep(d) \/ AbandonOrder(d)
      PROVE  Funded'
  <2>1. UNCHANGED <<settler, cash>> /\ \A o \in Ids : Locked(o) => orders'[o] = orders[o]
    BY <1>2, DeskKeepsHeld
  <2>2. ASSUME NEW c \in Settlers, InTransaction(c)
        PROVE  orders'[settler[c].order] = orders[settler[c].order]
    <3>1. settler[c].order \in Ids
      BY <2>2 DEF TypeInv, Known
    <3>2. Locked(settler[c].order)
      BY <2>2 DEF Locked
    <3> QED BY <2>1, <3>1, <3>2
  <2> QED BY <1>1, <2>1, <2>2
<1>3. ASSUME NEW c \in Settlers, RoundStep(c) \/ AbandonRound(c)
      PROVE  Funded'
  <2>1. settler \in [Settlers -> Settler] /\ settler[c] \in Settler
        /\ \A e \in Settlers : e = c
    BY DEF TypeInv, TypeOK
  <2>2. CASE CheckCash(c)
    <3>1. /\ settler'[c].order = settler[c].order /\ settler'[c].price = settler[c].price
          /\ settler'[c].reached = settler[c].reached
          /\ UNCHANGED <<orders, cash>> /\ (NeedsCash(c) => HasCash(c))
      BY <2>1, <2>2 DEF CheckCash, Settler, account
    <3> QED BY <2>1, <3>1 DEF Funded, NeedsCash, HasCash, Mine, Cost
  <2>3. CASE ReadRow(c)
    <3>1. /\ settler'[c].order = settler[c].order /\ settler'[c].price = settler[c].price
          /\ settler'[c].reached = settler[c].reached /\ settler[c].pc = "cleared"
          /\ UNCHANGED <<orders, cash>>
      BY <2>1, <2>3 DEF ReadRow, Settler, account
    <3> QED BY <2>1, <3>1 DEF Funded, NeedsCash, HasCash, Mine, Cost
  <2>4. CASE ~CheckCash(c) /\ ~ReadRow(c)
    <3>1. settler'[c].pc \in {"idle", "settling", "claimed"}
      <4>1. \A todo : Settling(todo).pc = "settling"
        BY DEF Settling
      <4>2. ASSUME NEW o \in settler[c].todo, Claim(c, o)
            PROVE  settler'[c].pc = "claimed"
        BY <2>1, <4>2 DEF Claim, Settler
      <4> QED
        BY <1>3, <2>1, <2>4, <4>1, <4>2, IdleSettlerIsSettler
           DEF RoundStep, AbandonRound, Look, TransactionStep, BeginRound, EndRound,
               Skip, PassOver, RejectBuy, RejectExit, Reject, Expire, Fill, Close, GiveUp
    <3> QED BY <2>1, <3>1 DEF Funded
  <2> QED BY <2>2, <2>3, <2>4
<1>4. CASE UNCHANGED vars
  <2>1. UNCHANGED <<settler, orders, cash>>
    BY <1>4 DEF vars, account
  <2> QED BY <1>1, <2>1
<1> QED BY <1>2, <1>3, <1>4 DEF Next

(* When rounds do not overlap, a buy never takes the balance below zero,    *)
(* whatever was ordered and however many orders wait.  PaperOverdraft shows *)
(* why the hypothesis is needed.                                            *)
THEOREM SoleRoundStaysSolvent ==
  ASSUME \A c, e \in Settlers : c = e
  PROVE  Spec => BuysStaySolvent
<1> DEFINE Solvent(o) == orders'[o].status = "filled" /\ orders[o].side = "BUY" => cash' >= 0
<1>1. Init => Funded
  BY IdleSettlerIsSettler DEF Init, Funded
<1>2. TypeInv /\ Held /\ Funded /\ [Next]_vars => Funded'
  BY FundedPreserved
<1>3. TypeInv /\ Held /\ Funded /\ [Next]_vars => [\A o \in Pending : Solvent(o)]_vars
  <2> SUFFICES ASSUME TypeInv, Held, Funded, Next, NEW o \in Pending,
                      orders'[o].status = "filled", orders[o].side = "BUY"
               PROVE  cash' >= 0
    OBVIOUS
  <2>1. o \in Ids /\ orders[o].status = "pending"
    BY DEF Pending
  <2>2. PICK c \in Settlers : Fill(c)
    <3>1. ASSUME NEW d \in Desks, Decide(d) \/ DeskStep(d) \/ AbandonOrder(d)
          PROVE  FALSE
      BY <2>1, <3>1, DeskKeepsHeld
    <3>2. ASSUME NEW c \in Settlers, RoundStep(c) \/ AbandonRound(c), ~Fill(c)
          PROVE  FALSE
      BY <2>1, <3>2, OthersFillNothing
    <3> QED BY <3>1, <3>2 DEF Next
  <2> DEFINE x == orders[settler[c].order]
             p == settler[c].price
  <2>3. /\ settler[c].pc = "ready" /\ settler[c].reached /\ x \in Order /\ p \in Nat
        /\ \A e \in Ids : e # settler[c].order => orders'[e] = orders[e]
        /\ cash' = cash + FillCash(x, p, settler[c].row)
    BY <2>2, FillEffect
  <2>4. o = settler[c].order
    BY <2>1, <2>3
  <2>5. x.side = "BUY" /\ x.qty * p <= cash
    BY <2>3, <2>4 DEF Funded, NeedsCash, HasCash, Mine, Cost
  <2>6. x.qty * p \in Nat /\ cash \in Int
    <3>1. x.qty \in Nat /\ p \in Nat
      BY <2>3 DEF Order, Positive
    <3> HIDE DEF x, p
    <3> QED BY <3>1 DEF TypeInv, TypeOK
  <2> HIDE DEF x, p
  <2>7. cash' = cash + -(x.qty * p)
    BY <2>3, <2>5 DEF FillCash
  <2> QED BY <2>5, <2>6, <2>7
<1> QED BY <1>1, <1>2, <1>3, TypesHold, HeldAlways, PTL DEF Spec, BuysStaySolvent

-----------------------------------------------------------------------------
(* The sums of the model                                                    *)

LEMMA IdsFinite == ASSUME TypeInv PROVE IsFiniteSet(Ids)
<1>1. orders \in Seq(Order)
  BY DEF TypeInv, TypeOK
<1>2. Len(orders) \in Int /\ Ids = 1 .. Len(orders)
  BY <1>1 DEF Ids
<1> QED  BY <1>2, FS_Interval

QtyOf == [o \in Ids |-> orders[o].qty]
AmountOf == [o \in Ids |-> orders[o].qty * orders[o].price]
PnlOf == [o \in Ids |-> orders[o].pnl]

LEMMA ColumnsAreInt ==
  ASSUME TypeInv, NEW S \in SUBSET Ids
  PROVE  /\ IsFiniteSet(S)
         /\ IntOn(QtyOf, S) /\ IntOn(AmountOf, S) /\ IntOn(PnlOf, S)
<1>1. ASSUME NEW o \in S
      PROVE  orders[o].qty \in Int /\ orders[o].qty * orders[o].price \in Int
             /\ orders[o].pnl \in Int
  <2>1. orders[o] \in Order
    BY DEF TypeInv, TypeOK, Ids
  <2>2. orders[o].qty \in Int /\ orders[o].price \in Int /\ orders[o].pnl \in Int
    BY <2>1 DEF Order, Positive
  <2> QED  BY <2>2
<1>2. IsFiniteSet(S)
  BY IdsFinite, FS_Subset
<1> QED  BY <1>1, <1>2 DEF IntOn, QtyOf, AmountOf, PnlOf

LEMMA SharesTotal ==
  ASSUME TypeInv, NEW S \in SUBSET Ids
  PROVE  Shares(S) = Total(QtyOf, S)
<1> DEFINE Iter(g) == g = [s \in SUBSET S |->
             IF s = {} THEN 0
             ELSE orders[CHOOSE x \in s : TRUE].qty + g[s \ {CHOOSE x \in s : TRUE}]]
<1>1. Shares(S) = (CHOOSE g : Iter(g))[S]
  BY DEF Shares, MapThenSumSet, MapThenFoldSet
<1>2. ASSUME NEW g PROVE Iter(g) <=> Iterates(g, QtyOf, S)
  <2>1. \A s \in SUBSET S : s # {} =>
          QtyOf[CHOOSE x \in s : TRUE] = orders[CHOOSE x \in s : TRUE].qty
    BY DEF QtyOf
  <2> QED  BY <2>1 DEF Iterates
<1> HIDE DEF Iter
<1>3. IsFiniteSet(S) /\ IntOn(QtyOf, S)
  BY ColumnsAreInt
<1>4. \E g : Iter(g)
  BY <1>2, <1>3, TotalIterates
<1>5. \E g : Iter(g) /\ Shares(S) = g[S]
  BY <1>1, <1>4
<1> QED  BY <1>2, <1>3, <1>5, IteratesIsTotal

LEMMA AmountTotal ==
  ASSUME TypeInv, NEW S \in SUBSET Ids
  PROVE  Amount(S) = Total(AmountOf, S)
<1> DEFINE Iter(g) == g = [s \in SUBSET S |->
             IF s = {} THEN 0
             ELSE orders[CHOOSE x \in s : TRUE].qty * orders[CHOOSE x \in s : TRUE].price
                  + g[s \ {CHOOSE x \in s : TRUE}]]
<1>1. Amount(S) = (CHOOSE g : Iter(g))[S]
  BY DEF Amount, MapThenSumSet, MapThenFoldSet
<1>2. ASSUME NEW g PROVE Iter(g) <=> Iterates(g, AmountOf, S)
  <2>1. \A s \in SUBSET S : s # {} =>
          AmountOf[CHOOSE x \in s : TRUE]
            = orders[CHOOSE x \in s : TRUE].qty * orders[CHOOSE x \in s : TRUE].price
    BY DEF AmountOf
  <2> QED  BY <2>1 DEF Iterates
<1> HIDE DEF Iter
<1>3. IsFiniteSet(S) /\ IntOn(AmountOf, S)
  BY ColumnsAreInt
<1>4. \E g : Iter(g)
  BY <1>2, <1>3, TotalIterates
<1>5. \E g : Iter(g) /\ Amount(S) = g[S]
  BY <1>1, <1>4
<1> QED  BY <1>2, <1>3, <1>5, IteratesIsTotal

LEMMA PnlTotal ==
  ASSUME TypeInv, NEW S \in SUBSET Ids
  PROVE  Pnl(S) = Total(PnlOf, S)
<1> DEFINE Iter(g) == g = [s \in SUBSET S |->
             IF s = {} THEN 0
             ELSE orders[CHOOSE x \in s : TRUE].pnl + g[s \ {CHOOSE x \in s : TRUE}]]
<1>1. Pnl(S) = (CHOOSE g : Iter(g))[S]
  BY DEF Pnl, MapThenSumSet, MapThenFoldSet
<1>2. ASSUME NEW g PROVE Iter(g) <=> Iterates(g, PnlOf, S)
  <2>1. \A s \in SUBSET S : s # {} =>
          PnlOf[CHOOSE x \in s : TRUE] = orders[CHOOSE x \in s : TRUE].pnl
    BY DEF PnlOf
  <2> QED  BY <2>1 DEF Iterates
<1> HIDE DEF Iter
<1>3. IsFiniteSet(S) /\ IntOn(PnlOf, S)
  BY ColumnsAreInt
<1>4. \E g : Iter(g)
  BY <1>2, <1>3, TotalIterates
<1>5. \E g : Iter(g) /\ Pnl(S) = g[S]
  BY <1>1, <1>4
<1> QED  BY <1>2, <1>3, <1>5, IteratesIsTotal

(* Orders that stay as they are sum to what they did, and one more adds     *)
(* what it says.                                                            *)
LEMMA SumStays ==
  ASSUME TypeInv, NEW S \in SUBSET Ids, S \subseteq Ids',
         \A o \in S : orders'[o] = orders[o]
  PROVE  /\ Total(QtyOf', S) = Total(QtyOf, S)
         /\ Total(AmountOf', S) = Total(AmountOf, S)
         /\ Total(PnlOf', S) = Total(PnlOf, S)
<1>1. \A o \in S : QtyOf'[o] = QtyOf[o] /\ AmountOf'[o] = AmountOf[o] /\ PnlOf'[o] = PnlOf[o]
  BY DEF QtyOf, AmountOf, PnlOf
<1> QED  BY <1>1, TotalSame

LEMMA SumGrows ==
  ASSUME TypeInv, TypeInv', NEW S \in SUBSET Ids, S \subseteq Ids',
         \A o \in S : orders'[o] = orders[o], NEW x \in Ids' \ S
  PROVE  /\ Total(QtyOf', S \union {x}) = Total(QtyOf, S) + orders'[x].qty
         /\ Total(AmountOf', S \union {x})
              = Total(AmountOf, S) + orders'[x].qty * orders'[x].price
         /\ Total(PnlOf', S \union {x}) = Total(PnlOf, S) + orders'[x].pnl
<1>1. \A o \in S : QtyOf'[o] = QtyOf[o] /\ AmountOf'[o] = AmountOf[o] /\ PnlOf'[o] = PnlOf[o]
  BY DEF QtyOf, AmountOf, PnlOf
<1>2. /\ QtyOf'[x] = orders'[x].qty
      /\ AmountOf'[x] = orders'[x].qty * orders'[x].price
      /\ PnlOf'[x] = orders'[x].pnl
  BY DEF QtyOf, AmountOf, PnlOf
<1>3. IsFiniteSet(S) /\ IntOn(QtyOf, S) /\ IntOn(AmountOf, S) /\ IntOn(PnlOf, S)
  BY ColumnsAreInt
<1>4. orders'[x].qty \in Int /\ orders'[x].qty * orders'[x].price \in Int
      /\ orders'[x].pnl \in Int
  <2>1. orders'[x] \in Order
    BY DEF TypeInv, TypeOK, Ids
  <2>2. orders'[x].qty \in Int /\ orders'[x].price \in Int /\ orders'[x].pnl \in Int
    BY <2>1 DEF Order, Positive
  <2>3. \A a, b \in Int : a * b \in Int
    OBVIOUS
  <2> QED  BY <2>2, <2>3
<1>5. x \notin S
  OBVIOUS
<1>6. Total(QtyOf', S \union {x}) = Total(QtyOf, S) + orders'[x].qty
  <2>1. QtyOf'[x] \in Int /\ IsFiniteSet(S) /\ IntOn(QtyOf, S) /\ \A o \in S : QtyOf'[o] = QtyOf[o]
    BY <1>1, <1>2, <1>3, <1>4
  <2>2. Total(QtyOf', S \union {x}) = Total(QtyOf, S) + QtyOf'[x]
    BY <1>5, <2>1, TotalGrows
  <2> QED  BY <1>2, <2>2
<1>7. Total(AmountOf', S \union {x}) = Total(AmountOf, S) + orders'[x].qty * orders'[x].price
  <2> DEFINE m == orders'[x].qty * orders'[x].price
  <2>1. m \in Int /\ AmountOf'[x] = m
    BY <1>2, <1>4
  <2> HIDE DEF m
  <2>2. Total(AmountOf', S \union {x}) = Total(AmountOf, S) + m
    BY <1>1, <1>3, <1>5, <2>1, TotalGrows
  <2> QED  BY <2>2 DEF m
<1>8. Total(PnlOf', S \union {x}) = Total(PnlOf, S) + orders'[x].pnl
  <2>1. PnlOf'[x] \in Int /\ IsFiniteSet(S) /\ IntOn(PnlOf, S) /\ \A o \in S : PnlOf'[o] = PnlOf[o]
    BY <1>1, <1>2, <1>3, <1>4
  <2>2. Total(PnlOf', S \union {x}) = Total(PnlOf, S) + PnlOf'[x]
    BY <1>5, <2>1, TotalGrows
  <2> QED  BY <1>2, <2>2
<1> QED  BY <1>6, <1>7, <1>8

LEMMA TotalsAreInt ==
  ASSUME TypeInv, NEW S \in SUBSET Ids
  PROVE  Total(QtyOf, S) \in Nat /\ Total(AmountOf, S) \in Int /\ Total(PnlOf, S) \in Int
<1>1. IsFiniteSet(S) /\ IntOn(QtyOf, S) /\ IntOn(AmountOf, S) /\ IntOn(PnlOf, S)
  BY ColumnsAreInt
<1>2. \A o \in S : QtyOf[o] \in Nat
  <2>1. \A o \in S : orders[o] \in Order
    BY DEF TypeInv, TypeOK, Ids
  <2> QED  BY <2>1 DEF QtyOf, Order, Positive
<1> QED  BY <1>1, <1>2, TotalInt, TotalNat

-----------------------------------------------------------------------------
(* The filled orders                                                        *)

LEMMA FilledStays ==
  ASSUME TypeInv, Held, Next, \A c \in Settlers : ~Fill(c)
  PROVE  cash' = cash /\ Filled' = Filled /\ \A o \in Filled : orders'[o] = orders[o]
<1>1. ASSUME NEW d \in Desks, Decide(d) \/ DeskStep(d) \/ AbandonOrder(d)
      PROVE  /\ cash' = cash
             /\ \A o \in Ids : orders'[o].status = "filled" => orders'[o] = orders[o]
             /\ \A o \in Ids' \ Ids : orders'[o].status = "pending"
             /\ Ids \subseteq Ids'
  <2>1. CASE Insert(d)
    <3>1. /\ orders \in Seq(Order)
          /\ orders' = Append(orders, NewOrder(desk[d].symbol, desk[d].side,
                                               desk[d].qty, desk[d].limit))
          /\ Ids' = Ids \union {Len(orders) + 1}
      BY <2>1, InsertGrows DEF TypeInv, TypeOK
    <3>2. orders'[Len(orders) + 1].status = "pending"
      <4>1. \A s, side, q, limit : NewOrder(s, side, q, limit).status = "pending"
        BY DEF NewOrder
      <4> QED  BY <3>1, <4>1
    <3> QED  BY <1>1, <3>1, <3>2, DeskKeepsHeld
  <2>2. CASE Cancel(d)
    <3>1. Ids' = Ids
      BY <2>2, CancelledKeepsIds DEF Cancel, TypeInv, TypeOK, Ids
    <3> QED  BY <1>1, <3>1, DeskKeepsHeld
  <2>3. CASE ~Insert(d) /\ ~Cancel(d)
    <3>1. UNCHANGED orders
      BY <1>1, <2>3 DEF Decide, DeskStep, CheckWaiting, ReadShort, Register, Link,
                        StartCancel, ReadUndo, Undo, AbandonOrder
    <3> QED  BY <1>1, <3>1, DeskKeepsHeld DEF Ids
  <2> QED  BY <2>1, <2>2, <2>3
<1>2. ASSUME NEW c \in Settlers, RoundStep(c) \/ AbandonRound(c)
      PROVE  /\ cash' = cash
             /\ \A o \in Ids : orders'[o].status = "filled" => orders'[o] = orders[o]
             /\ Ids' = Ids
  <2>1. CASE RejectBuy(c) \/ RejectExit(c) \/ Expire(c)
    <3>1. PICK status \in {"rejected", "expired"} : Close(c, status)
      BY <2>1 DEF RejectBuy, RejectExit, Expire, Reject
    <3>2. InTransaction(c) /\ status \in Status
      BY <2>1, <3>1 DEF RejectBuy, RejectExit, Expire, InTransaction, Status
    <3> QED  BY <1>2, <3>1, <3>2, CloseKeepsIds, OthersFillNothing
  <2>2. CASE ~(RejectBuy(c) \/ RejectExit(c) \/ Expire(c))
    <3>1. UNCHANGED orders
      BY <1>2, <2>2 DEF RoundStep, AbandonRound, Look, TransactionStep, BeginRound, EndRound,
                  Skip, Claim, PassOver, CheckCash, ReadRow, GiveUp
    <3> QED  BY <1>2, <3>1, OthersFillNothing DEF Ids
  <2> QED  BY <2>1, <2>2
<1>3. \A o \in Filled : orders'[o] = orders[o]
  BY HeldPreserved DEF Filled
<1>4. /\ cash' = cash
      /\ \A o \in Ids : orders'[o].status = "filled" => orders'[o] = orders[o]
      /\ \A o \in Ids' \ Ids : orders'[o].status = "pending"
      /\ Ids \subseteq Ids'
  BY <1>1, <1>2 DEF Next
<1>5. Filled' = Filled
  BY <1>3, <1>4 DEF Filled
<1> QED  BY <1>3, <1>4, <1>5

LEMMA FilledGrows ==
  ASSUME TypeInv, Held, NEW c \in Settlers, Fill(c)
  PROVE  /\ settler[c].order \in Pending \ Filled
         /\ Ids' = Ids
         /\ Filled' = Filled \union {settler[c].order}
         /\ \A o \in Filled : orders'[o] = orders[o]
<1> DEFINE o == settler[c].order
<1>1. /\ InTransaction(c) /\ o \in Ids
      /\ \A e \in Ids : e # o => orders'[e] = orders[e]
      /\ orders'[o].status = "filled"
  BY FillEffect
<1>2. o \in Pending \ Filled
  BY <1>1 DEF Held, Pending, Filled
<1>3. Ids' = Ids
  BY DEF Fill, Ids
<1>4. Filled' = Filled \union {o}
  BY <1>1, <1>2, <1>3 DEF Filled
<1> QED  BY <1>1, <1>2, <1>3, <1>4 DEF Filled

-----------------------------------------------------------------------------
(* The balance                                                              *)

CashInv ==
  cash = Opening - Total(AmountOf, FilledOn("BUY")) + Total(AmountOf, FilledOn("SELL"))
         + Total(PnlOf, FilledOn("SHORT_COVER"))

LEMMA FilledOnSubset == \A side : FilledOn(side) \in SUBSET Ids /\ FilledOn(side) \subseteq Filled
BY DEF FilledOn, Filled

(* A fill moves the balance by what the order then says.                    *)
LEMMA FillMovesCash ==
  ASSUME TypeInv, TypeInv', Held, CashInv, NEW c \in Settlers, Fill(c)
  PROVE  CashInv'
<1> DEFINE o == settler[c].order
           y == orders'[o]
           S(side) == FilledOn(side)
<1>1. /\ o \in Pending \ Filled /\ Ids' = Ids
      /\ Filled' = Filled \union {o}
      /\ \A e \in Filled : orders'[e] = orders[e]
  BY FilledGrows
<1>2. /\ o \in Ids /\ o \in Ids' /\ y.side = orders[o].side /\ y.side \in Side
      /\ y.qty = FillQty(orders[o], settler[c].row)
      /\ y.price = settler[c].price
      /\ y.pnl = FillPnl(orders[o], settler[c].price, settler[c].row)
      /\ cash' = cash + FillCash(orders[o], settler[c].price, settler[c].row)
  BY <1>1, FillEffect DEF Order
<1>3. \A side : /\ S(side) \in SUBSET Ids /\ S(side) \subseteq Ids' /\ o \notin S(side)
                /\ \A e \in S(side) : orders'[e] = orders[e]
                /\ FilledOn(side)' = IF y.side = side THEN S(side) \union {o} ELSE S(side)
  BY <1>1, <1>2, FilledOnSubset DEF FilledOn
<1> HIDE DEF S
<1>4. \A side :
        /\ Total(AmountOf', FilledOn(side)')
             = Total(AmountOf, S(side)) + IF y.side = side THEN y.qty * y.price ELSE 0
        /\ Total(PnlOf', FilledOn(side)')
             = Total(PnlOf, S(side)) + IF y.side = side THEN y.pnl ELSE 0
  <2> TAKE side
  <2>1. CASE y.side = side
    <3>1. /\ Total(AmountOf', S(side) \union {o}) = Total(AmountOf, S(side)) + y.qty * y.price
          /\ Total(PnlOf', S(side) \union {o}) = Total(PnlOf, S(side)) + y.pnl
      BY <1>2, <1>3, SumGrows
    <3> QED  BY <1>3, <2>1, <3>1
  <2>2. CASE y.side # side
    <3>1. /\ Total(AmountOf', S(side)) = Total(AmountOf, S(side))
          /\ Total(PnlOf', S(side)) = Total(PnlOf, S(side))
      BY <1>3, SumStays
    <3>2. Total(AmountOf, S(side)) \in Int /\ Total(PnlOf, S(side)) \in Int
      BY <1>3, TotalsAreInt
    <3> QED  BY <1>3, <2>2, <3>1, <3>2
  <2> QED  BY <2>1, <2>2
<1>5. \A side : Total(AmountOf, S(side)) \in Int /\ Total(PnlOf, S(side)) \in Int
  BY <1>3, TotalsAreInt
<1>6. y.qty * y.price \in Int /\ y.pnl \in Int /\ cash \in Int /\ Opening \in Int
  <2>1. y \in Order
    BY <1>2 DEF TypeInv, TypeOK, Ids
  <2>2. y.qty \in Int /\ y.price \in Int /\ y.pnl \in Int
    BY <2>1 DEF Order, Positive
  <2> QED  BY <2>2, AccountAssumption DEF TypeInv, TypeOK
<1>7. cash' = cash + CashOf(y)
  BY <1>2 DEF FillCash, CashOf, FillQty, Side
<1>8. cash = Opening - Total(AmountOf, S("BUY")) + Total(AmountOf, S("SELL"))
             + Total(PnlOf, S("SHORT_COVER"))
  BY DEF CashInv, S
<1> HIDE DEF y, o
<1> DEFINE m == y.qty * y.price
<1>9. CashOf(y) = CASE y.side = "BUY" -> -m [] y.side = "SELL" -> m
                    [] y.side = "SHORT_COVER" -> y.pnl [] OTHER -> 0
  BY DEF CashOf
<1> HIDE DEF m
<1>10. cash' = Opening - Total(AmountOf', FilledOn("BUY")')
               + Total(AmountOf', FilledOn("SELL")') + Total(PnlOf', FilledOn("SHORT_COVER")')
  <2>1. m \in Int /\ \A side : Total(AmountOf', FilledOn(side)')
             = Total(AmountOf, S(side)) + IF y.side = side THEN m ELSE 0
    BY <1>4, <1>6 DEF m
  <2>2. Total(PnlOf', FilledOn("SHORT_COVER")')
             = Total(PnlOf, S("SHORT_COVER")) + IF y.side = "SHORT_COVER" THEN y.pnl ELSE 0
    BY <1>4
  <2>3. y.side \in Side
    BY <1>2 DEF y
  <2> QED  BY <1>5, <1>6, <1>7, <1>8, <1>9, <2>1, <2>2, <2>3 DEF Side
<1> QED  BY <1>10 DEF CashInv

LEMMA CashInvPreserved == TypeInv /\ TypeInv' /\ Held /\ CashInv /\ [Next]_vars => CashInv'
<1> SUFFICES ASSUME TypeInv, TypeInv', Held, CashInv, [Next]_vars PROVE CashInv'
  OBVIOUS
<1>1. ASSUME NEW c \in Settlers, Fill(c) PROVE CashInv'
  BY <1>1, FillMovesCash
<1>2. ASSUME cash' = cash, Filled' = Filled, \A o \in Filled : orders'[o] = orders[o]
      PROVE  CashInv'
  <2>1. \A side : FilledOn(side)' = FilledOn(side) /\ FilledOn(side) \in SUBSET Ids
                  /\ FilledOn(side) \subseteq Ids'
                  /\ \A o \in FilledOn(side) : orders'[o] = orders[o]
    BY <1>2 DEF FilledOn, Filled
  <2>2. \A side : /\ Total(AmountOf', FilledOn(side)) = Total(AmountOf, FilledOn(side))
                  /\ Total(PnlOf', FilledOn(side)) = Total(PnlOf, FilledOn(side))
    BY <2>1, SumStays
  <2> QED  BY <1>2, <2>1, <2>2 DEF CashInv
<1>3. CASE Next /\ \A c \in Settlers : ~Fill(c)
  BY <1>2, <1>3, FilledStays
<1>4. CASE UNCHANGED vars
  <2>1. UNCHANGED <<orders, cash>>
    BY <1>4 DEF vars, account
  <2> QED  BY <1>2, <2>1 DEF Filled, Ids
<1> QED  BY <1>1, <1>3, <1>4

(* The balance is the opening balance moved by every filled order once, for *)
(* any number of rounds and desks, whatever fails, dies and is retried.     *)
THEOREM BalanceIsTheFills == Spec => []CashMatchesFills
<1>1. Init => CashInv
  <2> SUFFICES ASSUME Init PROVE CashInv
    OBVIOUS
  <2>1. \A side : FilledOn(side) = {}
    BY DEF Init, FilledOn, Filled, Ids
  <2>2. \A side : Total(AmountOf, FilledOn(side)) = 0 /\ Total(PnlOf, FilledOn(side)) = 0
    BY <2>1, TotalEmpty
  <2>3. cash = Opening /\ Opening \in Int
    BY AccountAssumption DEF Init
  <2> QED  BY <2>2, <2>3 DEF CashInv
<1>2. TypeInv /\ TypeInv' /\ Held /\ CashInv /\ [Next]_vars => CashInv'
  BY CashInvPreserved
<1>3. TypeInv /\ CashInv => CashMatchesFills
  BY FilledOnSubset, AmountTotal, PnlTotal DEF CashInv, CashMatchesFills
<1> QED  BY <1>1, <1>2, <1>3, TypesHold, HeldAlways, PTL DEF Spec

-----------------------------------------------------------------------------
(* What a step leaves of an order                                           *)

LEMMA OrdersKeep ==
  ASSUME TypeInv, Held, Next
  PROVE  /\ Ids \subseteq Ids'
         /\ \A o \in Ids : /\ orders'[o].symbol = orders[o].symbol
                           /\ orders'[o].side = orders[o].side
                           /\ orders'[o].limit = orders[o].limit
         /\ \A o \in Ids : orders'[o].status = "pending" => orders'[o] = orders[o]
<1> DEFINE Keeps == /\ Ids \subseteq Ids'
                    /\ \A o \in Ids : /\ orders'[o].symbol = orders[o].symbol
                                      /\ orders'[o].side = orders[o].side
                                      /\ orders'[o].limit = orders[o].limit
                    /\ \A o \in Ids : orders'[o].status = "pending" => orders'[o] = orders[o]
<1>1. orders \in Seq(Order) /\ \A o \in Ids : orders[o] \in Order
  BY DEF TypeInv, TypeOK, Ids
<1>2. CASE UNCHANGED orders
  BY <1>2 DEF Ids
<1>3. ASSUME NEW o \in Ids, NEW status \in Status \ {"pending"},
             orders' = [orders EXCEPT ![o].status = status]
      PROVE  Keeps
  <2> DEFINE y == [orders[o] EXCEPT !.status = status]
  <2>1. orders' = [orders EXCEPT ![o] = y]
    BY <1>3
  <2>2. y.symbol = orders[o].symbol /\ y.side = orders[o].side /\ y.limit = orders[o].limit
        /\ y.status # "pending"
    BY <1>1 DEF Order
  <2> HIDE DEF y
  <2> QED  BY <1>1, <2>1, <2>2 DEF Ids
<1>4. ASSUME NEW d \in Desks, Decide(d) \/ DeskStep(d) \/ AbandonOrder(d)
      PROVE  Keeps
  <2>1. CASE Insert(d)
    BY <2>1, InsertGrows
  <2>2. CASE Cancel(d)
    <3>1. orders' = Cancelled(desk[d].order)
      BY <2>2 DEF Cancel
    <3>2. CASE desk[d].order \in Pending
      <4>1. desk[d].order \in Ids
            /\ orders' = [orders EXCEPT ![desk[d].order].status = "cancelled"]
        BY <3>1, <3>2 DEF Cancelled, Pending
      <4>2. "cancelled" \in Status \ {"pending"}
        BY DEF Status
      <4> QED  BY <1>3, <4>1, <4>2
    <3>3. CASE desk[d].order \notin Pending
      BY <1>2, <3>1, <3>3 DEF Cancelled
    <3> QED  BY <3>2, <3>3
  <2>3. CASE ~Insert(d) /\ ~Cancel(d)
    <3>1. UNCHANGED orders
      BY <1>4, <2>3 DEF Decide, DeskStep, CheckWaiting, ReadShort, Register, Link,
                        StartCancel, ReadUndo, Undo, AbandonOrder
    <3> QED  BY <1>2, <3>1
  <2> QED  BY <2>1, <2>2, <2>3
<1>5. ASSUME NEW c \in Settlers, RoundStep(c) \/ AbandonRound(c)
      PROVE  Keeps
  <2>1. CASE RejectBuy(c) \/ RejectExit(c) \/ Expire(c)
    <3>1. PICK status \in {"rejected", "expired"} : Close(c, status)
      BY <2>1 DEF RejectBuy, RejectExit, Expire, Reject
    <3>2. settler[c].order \in Ids /\ status \in Status \ {"pending"}
      BY <2>1 DEF RejectBuy, RejectExit, Expire, InTransaction, Status, TypeInv, Known
    <3> QED  BY <1>3, <3>1, <3>2 DEF Close
  <2>2. CASE Fill(c)
    <3> DEFINE o == settler[c].order
               x == orders[o]
               q == FillQty(x, settler[c].row)
               m == FillPnl(x, settler[c].price, settler[c].row)
               y == [x EXCEPT !.status = "filled", !.qty = q,
                              !.price = settler[c].price, !.pnl = m]
    <3>1. o \in Ids /\ x \in Order
      BY <1>1, <2>2, FillEffect
    <3>2. orders' = [orders EXCEPT ![o] = y]
      BY <2>2 DEF Fill, Mine
    <3>3. y.symbol = x.symbol /\ y.side = x.side /\ y.limit = x.limit /\ y.status # "pending"
      <4> HIDE DEF x, q, m
      <4> QED  BY <3>1 DEF Order
    <3> HIDE DEF y
    <3> QED  BY <1>1, <3>1, <3>2, <3>3 DEF Ids
  <2>3. CASE ~(RejectBuy(c) \/ RejectExit(c) \/ Expire(c) \/ Fill(c))
    <3>1. UNCHANGED orders
      BY <1>5, <2>3 DEF RoundStep, AbandonRound, Look, TransactionStep, BeginRound, EndRound,
                  Skip, Claim, PassOver, CheckCash, ReadRow, GiveUp
    <3> QED  BY <1>2, <3>1
  <2> QED  BY <2>1, <2>2, <2>3
<1> QED  BY <1>4, <1>5 DEF Next

(* The shares filled on a side of a symbol.                                 *)
FilledQty(s, side) == Total(QtyOf, Of(s, side, "filled"))

LEMMA OfSubset ==
  \A s, side, status : Of(s, side, status) \in SUBSET Ids
                       /\ Of(s, side, "filled") \subseteq Filled
BY DEF Of, Filled

LEMMA FilledQtyIsNat ==
  ASSUME TypeInv
  PROVE  \A s, side : FilledQty(s, side) \in Nat
BY OfSubset, TotalsAreInt DEF FilledQty

LEMMA FilledQtyStays ==
  ASSUME TypeInv, Filled' = Filled, \A o \in Filled : orders'[o] = orders[o]
  PROVE  \A s, side : FilledQty(s, side)' = FilledQty(s, side)
<1> TAKE s, side
<1>1. Of(s, side, "filled")' = Of(s, side, "filled")
  BY DEF Of, Filled
<1>2. /\ Of(s, side, "filled") \in SUBSET Ids /\ Of(s, side, "filled") \subseteq Ids'
      /\ \A o \in Of(s, side, "filled") : orders'[o] = orders[o]
  BY OfSubset DEF Filled
<1>3. Total(QtyOf', Of(s, side, "filled")) = Total(QtyOf, Of(s, side, "filled"))
  BY <1>2, SumStays
<1> QED  BY <1>1, <1>3 DEF FilledQty

LEMMA FilledQtyGrows ==
  ASSUME TypeInv, TypeInv', Held, NEW c \in Settlers, Fill(c)
  PROVE  \A s, side :
           FilledQty(s, side)' = FilledQty(s, side) +
             IF Mine(c).symbol = s /\ Mine(c).side = side
             THEN FillQty(Mine(c), settler[c].row) ELSE 0
<1> DEFINE o == settler[c].order
<1> TAKE s, side
<1> DEFINE S == Of(s, side, "filled")
<1>1. /\ o \in Pending \ Filled /\ Ids' = Ids
      /\ Filled' = Filled \union {o}
      /\ \A e \in Filled : orders'[e] = orders[e]
  BY FilledGrows
<1>2. orders'[o].qty = FillQty(Mine(c), settler[c].row)
  BY FillEffect DEF Mine
<1>3. o \in Ids' /\ orders'[o].symbol = Mine(c).symbol /\ orders'[o].side = Mine(c).side
  <2>1. Next
    BY DEF Next, RoundStep, TransactionStep
  <2> QED  BY <1>1, <2>1, OrdersKeep DEF Mine, Pending
<1>4. /\ S \in SUBSET Ids /\ S \subseteq Ids' /\ o \notin S
      /\ \A e \in S : orders'[e] = orders[e]
  BY <1>1, OfSubset DEF Of, Filled
<1>5. CASE Mine(c).symbol = s /\ Mine(c).side = side
  <2>1. S' = S \union {o}
    BY <1>1, <1>3, <1>5 DEF Of, Filled
  <2>2. Total(QtyOf', S \union {o}) = Total(QtyOf, S) + orders'[o].qty
    BY <1>3, <1>4, SumGrows
  <2> QED  BY <1>2, <1>5, <2>1, <2>2 DEF FilledQty
<1>6. CASE ~(Mine(c).symbol = s /\ Mine(c).side = side)
  <2>1. S' = S
    BY <1>1, <1>3, <1>6 DEF Of, Filled
  <2>2. Total(QtyOf', S) = Total(QtyOf, S) /\ Total(QtyOf, S) \in Nat
    BY <1>4, SumStays, TotalsAreInt
  <2> QED  BY <1>6, <2>1, <2>2 DEF FilledQty
<1> QED  BY <1>5, <1>6

(* What the fill of a buy or of a sale writes over the row it read, when    *)
(* the row is still the same and a buy finds none.                          *)
LEMMA LongFill ==
  ASSUME NEW x \in Order, NEW p \in Nat, NEW row \in Row, x.side \in {"BUY", "SELL"},
         x.side = "BUY" => row.qty = 0
  PROVE  /\ StoredFill(x, p, row, row).qty
              = IF x.side = "BUY" THEN row.qty + FillQty(x, row) ELSE row.qty - FillQty(x, row)
         /\ Worth(StoredFill(x, p, row, row))
              = Worth(row) + FillPnl(x, p, row) - FillCash(x, p, row)
<1> DEFINE q == x.qty
           n == row.qty
           a == row.avg
<1>1. q \in Nat /\ q > 0 /\ n \in Nat /\ a \in Int /\ row = [qty |-> n, avg |-> a]
  BY DEF Order, Row, Positive
<1>2. CASE x.side = "BUY"
  <2>1. StoredFill(x, p, row, row) = Added(row, q, q * p) /\ n = 0
    BY <1>2 DEF StoredFill, Stored, FillRow
  <2>2. q * p \in Int
    BY <1>1
  <2>3. Worth(row) = 0
    BY <1>1, <2>1 DEF Worth
  <2>4. (q * p) \div q = p
    BY <1>1
  <2>5. Added(row, q, q * p) = [qty |-> n + q, avg |-> p]
    <3>1. Worth(row) + q * p = q * p /\ n + q = q
      BY <1>1, <2>1, <2>2, <2>3
    <3> QED  BY <2>4, <3>1 DEF Added
  <2>6. Worth(Added(row, q, q * p)) = q * p
    BY <1>1, <2>1, <2>5 DEF Worth
  <2>7. FillQty(x, row) = q /\ FillCash(x, p, row) = -(q * p) /\ FillPnl(x, p, row) = 0
    BY <1>2 DEF FillQty, FillCash, FillPnl
  <2> HIDE DEF q, n
  <2> QED  BY <1>1, <1>2, <2>1, <2>2, <2>3, <2>5, <2>6, <2>7
<1>3. CASE x.side = "SELL"
  <2> DEFINE k == FillQty(x, row)
  <2>0. k = Lesser(q, n)
    BY <1>3 DEF FillQty
  <2>1. FillCash(x, p, row) = k * p /\ FillPnl(x, p, row) = (p - a) * k
    BY <1>3 DEF FillCash, FillPnl
  <2>2. FillRow(x, p, row) = Reduced(row, q)
    BY <1>3 DEF FillRow
  <2>3. CASE n <= q
    <3>1. k = n
      <4> HIDE DEF k
      <4> QED  BY <1>1, <2>0, <2>3 DEF Lesser
    <3>2. StoredFill(x, p, row, row) = NoRow
      BY <1>1, <2>2, <2>3 DEF StoredFill, Stored, Reduced, NoRow
    <3>3. Worth(NoRow) = 0 /\ NoRow.qty = 0 /\ Worth(row) = a * n
      BY DEF Worth, NoRow
    <3> HIDE DEF k, n, a, q
    <3>4. a * n + (p - a) * n - n * p = 0
      BY <1>1
    <3> QED  BY <1>1, <1>3, <2>1, <3>1, <3>2, <3>3, <3>4 DEF n, a, k
  <2>4. CASE ~(n <= q)
    <3>1. k = q
      <4> HIDE DEF k
      <4> QED  BY <1>1, <2>0, <2>4 DEF Lesser
    <3>2. StoredFill(x, p, row, row) = [qty |-> n - q, avg |-> a]
      <4>1. Reduced(row, q) = [qty |-> n - q, avg |-> a] /\ n - q # 0 /\ n # 0
        BY <1>1, <2>4 DEF Reduced
      <4> QED  BY <1>1, <1>3, <2>2, <4>1 DEF StoredFill, Stored
    <3>3. Worth(StoredFill(x, p, row, row)) = a * (n - q) /\ Worth(row) = a * n
      BY <3>2 DEF Worth
    <3>4. a * (n - q) = a * n + (p - a) * q - q * p
      <4> HIDE DEF q, n, a
      <4> QED  BY <1>1
    <3> HIDE DEF k
    <3> QED  BY <1>1, <1>3, <2>1, <3>1, <3>2, <3>3, <3>4 DEF k
  <2> QED  BY <2>3, <2>4
<1> QED  BY <1>2, <1>3

-----------------------------------------------------------------------------
(* Longs                                                                    *)

(* What waits for the row of a symbol in paper_positions.                   *)
ForLong(s) == {o \in Pending : orders[o].symbol = s /\ ~Shorts(o)}

(* A desk has decided on a buy or a sale that it has not inserted yet.      *)
DecidedLong(d) ==
  desk[d].pc \in {"decided", "checked"} /\ desk[d].side \in {"BUY", "SELL"}

(* One order at a time for a row: a buy while there is none, a sale while   *)
(* there is one; so what a round has read of it is still what it holds.     *)
OneForLong ==
  /\ \A s \in Symbols : \A o, p \in ForLong(s) : o = p
  /\ \A s \in Symbols : \A o \in ForLong(s) : orders[o].side = "BUY" <=> long[s].qty = 0
  /\ \A d \in Desks : DecidedLong(d) =>
       /\ ForLong(desk[d].symbol) = {}
       /\ desk[d].side = "BUY" <=> long[desk[d].symbol].qty = 0
  /\ \A c \in Settlers : settler[c].pc = "ready" /\ ~Shorts(settler[c].order) =>
       settler[c].row = long[Mine(c).symbol]

(* An order that waits no longer leaves room.                               *)
LEMMA OneForLongWhenFewer ==
  ASSUME TypeInv, OneForLong, long' = long,
         \A s : ForLong(s)' \subseteq ForLong(s),
         \A s : \A o \in ForLong(s)' : orders'[o].side = orders[o].side,
         \A d \in Desks : DecidedLong(d)' => DecidedLong(d)
           /\ desk'[d].symbol = desk[d].symbol /\ desk'[d].side = desk[d].side,
         \A c \in Settlers : settler'[c].pc = "ready" /\ ~Shorts(settler[c].order)' =>
           settler'[c].row = long[Mine(c)'.symbol]
  PROVE  OneForLong'
BY DEF OneForLong

LEMMA DeskKeepsLong ==
  ASSUME \A d, e \in Desks : d = e, TypeInv, Held, OneForLong, NEW d \in Desks,
         Decide(d) \/ DeskStep(d) \/ AbandonOrder(d)
  PROVE  OneForLong' /\ long' = long
<1> DEFINE me == desk[d]
<1>1. /\ settler' = settler /\ Ids \subseteq Ids'
      /\ \A o \in Ids : Locked(o) => orders'[o] = orders[o]
      /\ \A e \in Desks : e = d
      /\ me \in Desk /\ desk \in [Desks -> Desk]
  BY DeskKeepsHeld DEF TypeInv, TypeOK
<1>2. Next
  BY DEF Next
<1>3. /\ \A o \in Ids : /\ orders'[o].symbol = orders[o].symbol
                        /\ orders'[o].side = orders[o].side
      /\ \A o \in Ids : orders'[o].status = "pending" => orders'[o] = orders[o]
  BY <1>2, OrdersKeep
<1>4. long' = long
  BY DEF Decide, DeskStep, CheckWaiting, Insert, ReadShort, Register, Link, StartCancel,
         Cancel, ReadUndo, Undo, AbandonOrder, account
<1>5. \A c \in Settlers : settler'[c].pc = "ready" /\ ~Shorts(settler[c].order)' =>
        settler'[c].row = long[Mine(c)'.symbol]
  <2> SUFFICES ASSUME NEW c \in Settlers, settler[c].pc = "ready",
                      ~Shorts(settler[c].order)'
               PROVE  settler[c].row = long[Mine(c)'.symbol]
    BY <1>1
  <2>1. settler[c].order \in Ids /\ Locked(settler[c].order)
    BY DEF TypeInv, Known, Locked, InTransaction
  <2>2. orders'[settler[c].order] = orders[settler[c].order]
    BY <1>1, <2>1
  <2> QED  BY <1>1, <2>2 DEF OneForLong, Shorts, Mine
<1>6. CASE Decide(d)
  <2> DEFINE Qty(s, side) == IF side \in {"BUY", "SHORT"}
                             THEN IF MayEnter(s, side) THEN Lots ELSE {}
                             ELSE {ExitQty(s, side)} \intersect Positive
  <2>1. PICK s \in Symbols, side \in Side, limit \in {0} \union Limits :
          \E q \in Qty(s, side) :
            desk' = [desk EXCEPT ![d] = Decision(s, side, q, limit)]
    BY <1>6 DEF Decide
  <2>2. PICK q \in Qty(s, side) : desk' = [desk EXCEPT ![d] = Decision(s, side, q, limit)]
    BY <2>1
  <2>3. desk'[d].symbol = s /\ desk'[d].side = side
    BY <1>1, <2>2 DEF Decision
  <2>4. \A o \in ForLong(s) : orders[o].side \in {"BUY", "SELL"}
    <3>1. \A o \in Ids : orders[o] \in Order
      BY DEF TypeInv, TypeOK, Ids
    <3> QED  BY <3>1 DEF ForLong, Shorts, Pending, Order, Side
  <2>5. CASE side = "BUY"
    <3>1. long[s].qty = 0 /\ Waiting(s, "BUY") = {}
      BY <2>2, <2>5 DEF MayEnter
    <3>2. ForLong(s) = {}
      BY <2>4, <3>1 DEF OneForLong, ForLong, Waiting
    <3> QED  BY <1>1, <1>4, <1>5, <1>6, <2>3, <2>5, <3>1, <3>2
             DEF OneForLong, ForLong, Pending, Ids, Shorts, DecidedLong, Decide
  <2>6. CASE side = "SELL"
    <3>1. q = ExitQty(s, side) /\ q \in Positive
      BY <2>2, <2>6
    <3>2. long[s].qty # 0 /\ Waiting(s, "SELL") = {}
      BY <2>6, <3>1 DEF ExitQty, Positive
    <3>3. ForLong(s) = {}
      BY <2>4, <3>2 DEF OneForLong, ForLong, Waiting
    <3> QED  BY <1>1, <1>4, <1>5, <1>6, <2>3, <2>6, <3>2, <3>3
             DEF OneForLong, ForLong, Pending, Ids, Shorts, DecidedLong, Decide
  <2>7. CASE side \notin {"BUY", "SELL"}
    BY <1>1, <1>4, <1>5, <1>6, <2>3, <2>7
       DEF OneForLong, ForLong, Pending, Ids, Shorts, DecidedLong, Decide
  <2> QED  BY <1>4, <2>5, <2>6, <2>7
<1>7. CASE Insert(d)
  <2> DEFINE n == Len(orders) + 1
             x == NewOrder(me.symbol, me.side, me.qty, me.limit)
  <2>1. /\ Ids' = Ids \union {n} /\ n \notin Ids
        /\ \A o \in Ids : orders'[o] = orders[o]
        /\ orders'[n] = x
    <3>1. orders \in Seq(Order) /\ orders' = Append(orders, x)
      BY <1>7, InsertGrows DEF TypeInv, TypeOK
    <3>2. orders'[n] = x
      BY <3>1
    <3> QED  BY <1>7, <3>2, InsertGrows
  <2>2. x.symbol = me.symbol /\ x.side = me.side
    BY DEF NewOrder
  <2> HIDE DEF n, x
  <2>3. \A s : /\ ForLong(s) \subseteq ForLong(s)'
               /\ ForLong(s)' \subseteq ForLong(s) \union
                    IF me.side \in {"SHORT", "SHORT_COVER"} THEN {}
                    ELSE IF s = me.symbol THEN {n} ELSE {}
    BY <2>1, <2>2 DEF ForLong, Pending, Shorts
  <2>4. ~DecidedLong(d)'
    BY <1>1, <1>7, IdleDeskIsDesk DEF Insert, DecidedLong, Desk
  <2>5. me.symbol \in Symbols /\ me.pc \in {"decided", "checked"} /\ me.side \in Side
    BY <1>1, <1>7 DEF Insert, Desk
  <2>6. CASE me.side \in {"SHORT", "SHORT_COVER"}
    BY <1>1, <1>4, <1>5, <2>1, <2>3, <2>4, <2>6 DEF OneForLong, ForLong, Pending
  <2>7. CASE me.side \notin {"SHORT", "SHORT_COVER"}
    <3>1. ForLong(me.symbol) = {} /\ (me.side = "BUY" <=> long[me.symbol].qty = 0)
      BY <1>1, <2>5, <2>7 DEF OneForLong, DecidedLong, Side
    <3>2. \A s \in Symbols : ForLong(s)' \subseteq IF s = me.symbol THEN {n} ELSE ForLong(s)
      BY <2>3, <3>1
    <3>3. \A o \in Ids : orders'[o].side = orders[o].side
      BY <1>3
    <3>4. \A s \in Symbols : \A o \in ForLong(s)' : orders'[o].side = "BUY" <=> long[s].qty = 0
      <4> TAKE s \in Symbols
      <4> TAKE o \in ForLong(s)'
      <4>1. CASE s = me.symbol
        BY <2>1, <2>2, <3>1, <3>2, <4>1
      <4>2. CASE s # me.symbol
        BY <3>2, <3>3, <4>2 DEF OneForLong, ForLong, Pending
      <4> QED  BY <4>1, <4>2
    <3>5. \A s \in Symbols : \A o, p \in ForLong(s)' : o = p
      BY <3>2 DEF OneForLong
    <3> QED  BY <1>1, <1>4, <1>5, <2>4, <3>4, <3>5 DEF OneForLong
  <2> QED  BY <1>4, <2>6, <2>7
<1>8. CASE ~Decide(d) /\ ~Insert(d)
  <2>1. Ids' = Ids
    <3>1. CASE Cancel(d)
      BY <3>1, CancelledKeepsIds DEF Cancel, TypeInv, TypeOK, Ids
    <3>2. CASE ~Cancel(d)
      <4>1. UNCHANGED orders
        BY <1>8, <3>2 DEF DeskStep, CheckWaiting, ReadShort, Register, Link, StartCancel,
                          ReadUndo, Undo, AbandonOrder
      <4> QED  BY <4>1 DEF Ids
    <3> QED  BY <3>1, <3>2
  <2>2. \A s : ForLong(s)' \subseteq ForLong(s)
    BY <1>3, <2>1 DEF ForLong, Pending, Shorts
  <2>3. \A s : \A o \in ForLong(s)' : orders'[o].side = orders[o].side
    BY <1>3, <2>1 DEF ForLong, Pending
  <2>4. DecidedLong(d)' => DecidedLong(d)
          /\ desk'[d].symbol = me.symbol /\ desk'[d].side = me.side
    <3>1. CASE CheckWaiting(d)
      BY <1>1, <3>1, IdleDeskIsDesk DEF CheckWaiting, DecidedLong, Desk
    <3>2. CASE ~CheckWaiting(d)
      <4>1. desk'[d].pc \notin {"decided", "checked"}
        <5>1. CASE desk' = [desk EXCEPT ![d] = IdleDesk]
          BY <1>1, <5>1, IdleDeskIsDesk
        <5>2. CASE ReadShort(d)
          BY <1>1, <5>2 DEF ReadShort, Desk
        <5>3. CASE Register(d)
          <6>1. CASE ~Clashes(me.row, short[me.symbol])
            <7>1. desk' = [desk EXCEPT ![d] = [me EXCEPT !.pc = "sent", !.row = NoRow]]
              BY <5>3, <6>1 DEF Register
            <7> QED  BY <1>1, <7>1 DEF Desk
          <6>2. CASE Clashes(me.row, short[me.symbol])
            BY <5>1, <5>3, <6>2 DEF Register
          <6> QED  BY <6>1, <6>2
        <5>4. CASE StartCancel(d)
          BY <1>1, <5>4 DEF StartCancel, Desk
        <5>5. CASE Cancel(d)
          BY <1>1, <5>5, IdleDeskIsDesk DEF Cancel, Desk
        <5>6. CASE ReadUndo(d)
          BY <1>1, <5>6, IdleDeskIsDesk DEF ReadUndo, Desk
        <5> QED
          BY <1>8, <3>2, <5>1, <5>2, <5>3, <5>4, <5>5, <5>6
             DEF DeskStep, Link, Undo, AbandonOrder
      <4> QED  BY <4>1 DEF DecidedLong
    <3> QED  BY <3>1, <3>2
  <2> QED  BY <1>1, <1>4, <1>5, <2>2, <2>3, <2>4, OneForLongWhenFewer
<1> QED  BY <1>6, <1>7, <1>8

(* A settler writes over the row that it read.                              *)
LEMMA SettlerKeepsLong ==
  ASSUME TypeInv, Held, OneForLong, NEW c \in Settlers,
         RoundStep(c) \/ AbandonRound(c), ~Fill(c)
  PROVE  OneForLong' /\ long' = long
<1>1. settler \in [Settlers -> Settler] /\ settler[c] \in Settler
      /\ \A todo : Settling(todo).pc = "settling"
      /\ IdleSettler.pc = "idle"
  BY IdleSettlerIsSettler DEF TypeInv, TypeOK, Settling
<1>2. Next
  BY DEF Next
<1>3. /\ \A o \in Ids : /\ orders'[o].symbol = orders[o].symbol
                        /\ orders'[o].side = orders[o].side
      /\ \A o \in Ids : orders'[o].status = "pending" => orders'[o] = orders[o]
  BY <1>2, OrdersKeep
<1>4. /\ desk' = desk /\ long' = long /\ Ids' = Ids
      /\ \A e \in Settlers : e # c => settler'[e] = settler[e]
  <2>1. CASE RejectBuy(c) \/ RejectExit(c) \/ Expire(c)
    <3>1. PICK status \in {"rejected", "expired"} : Close(c, status)
      BY <2>1 DEF RejectBuy, RejectExit, Expire, Reject
    <3>2. InTransaction(c) /\ status \in Status
      BY <2>1, <3>1 DEF RejectBuy, RejectExit, Expire, InTransaction, Status
    <3>3. desk' = desk /\ long' = long
      BY <2>1 DEF RejectBuy, RejectExit, Expire, Withdraw, Store, Shorts, Mine, account
    <3> QED  BY <1>1, <3>1, <3>2, <3>3, CloseKeepsIds
  <2>2. CASE ~(RejectBuy(c) \/ RejectExit(c) \/ Expire(c))
    <3>1. UNCHANGED <<orders, desk, long>>
          /\ \E r : settler' = [settler EXCEPT ![c] = r]
      BY <2>2 DEF RoundStep, AbandonRound, Look, TransactionStep, BeginRound, EndRound,
                  Skip, Claim, PassOver, CheckCash, ReadRow, GiveUp, account
    <3> QED  BY <1>1, <3>1 DEF Ids
  <2> QED  BY <2>1, <2>2
<1>5. settler'[c].pc = "ready" =>
        settler'[c].order = settler[c].order /\ settler'[c].row = RowOf(settler[c].order)
        /\ UNCHANGED orders
  <2>1. CASE ReadRow(c)
    BY <1>1, <2>1 DEF ReadRow, Settler
  <2>2. CASE ~ReadRow(c)
    <3>1. settler'[c].pc # "ready"
      <4>1. CASE CheckCash(c)
        BY <1>1, <4>1 DEF CheckCash, Settler
      <4>2. ASSUME NEW o \in settler[c].todo, Claim(c, o)
            PROVE  settler'[c].pc # "ready"
        BY <1>1, <4>2 DEF Claim, Settler
      <4> QED
        BY <1>1, <2>2, <4>1, <4>2
           DEF RoundStep, AbandonRound, Look, TransactionStep, BeginRound, EndRound,
               Skip, PassOver, RejectBuy, RejectExit, Reject, Expire, Close, GiveUp
    <3> QED  BY <3>1
  <2> QED  BY <2>1, <2>2
<1>6. ASSUME NEW e \in Settlers, settler'[e].pc = "ready", ~Shorts(settler[e].order)'
      PROVE  settler'[e].row = long[Mine(e)'.symbol]
  <2>1. CASE e = c
    BY <1>5, <1>6, <2>1 DEF RowOf, Shorts, Mine
  <2>2. CASE e # c
    <3>1. settler'[e] = settler[e] /\ settler[e].order \in Ids
      BY <1>4, <1>6, <2>2 DEF TypeInv, Known, InTransaction
    <3>2. settler[e].row = long[Mine(e).symbol]
      BY <1>3, <1>6, <3>1 DEF OneForLong, Shorts
    <3> QED  BY <1>3, <3>1, <3>2 DEF Mine
  <2> QED  BY <2>1, <2>2
<1>7. \A s : ForLong(s)' \subseteq ForLong(s)
  BY <1>3, <1>4 DEF ForLong, Pending, Shorts
<1>8. \A s : \A o \in ForLong(s)' : orders'[o].side = orders[o].side
  BY <1>3, <1>4 DEF ForLong, Pending
<1> QED  BY <1>4, <1>6, <1>7, <1>8, OneForLongWhenFewer DEF DecidedLong

(* What a fill does to the rows of longs.                                   *)
LEMMA FillMovesLong ==
  ASSUME TypeInv, Held, OneForLong, NEW c \in Settlers, Fill(c)
  PROVE  LET x == Mine(c)
             p == settler[c].price
             row == settler[c].row
         IN IF x.side \in {"BUY", "SELL"}
            THEN /\ row = long[x.symbol] /\ x \in Order
                 /\ x.side = "BUY" <=> row.qty = 0
                 /\ long' = [long EXCEPT ![x.symbol] = StoredFill(x, p, row, row)]
            ELSE long' = long
<1> DEFINE o == settler[c].order
           x == Mine(c)
<1>1. settler[c].pc = "ready" /\ x \in Order /\ InTransaction(c)
  BY FillEffect DEF Mine
<1>2. Store(o, StoredFill(x, settler[c].price, settler[c].row, RowOf(o)))
  BY DEF Fill
<1>3. CASE x.side \in {"BUY", "SELL"}
  <2>1. ~Shorts(o)
    BY <1>3 DEF Shorts, Mine
  <2>2. settler[c].row = long[x.symbol] /\ RowOf(o) = long[x.symbol]
    BY <1>1, <2>1 DEF OneForLong, RowOf, Mine
  <2>3. o \in ForLong(x.symbol) /\ x.symbol \in Symbols
    BY <1>1, <2>1 DEF Held, ForLong, Mine, Order
  <2>4. x.side = "BUY" <=> long[x.symbol].qty = 0
    BY <2>3 DEF OneForLong, Mine
  <2> QED  BY <1>1, <1>2, <1>3, <2>1, <2>2, <2>4 DEF Store, Mine
<1>4. CASE x.side \notin {"BUY", "SELL"}
  <2>1. Shorts(o)
    BY <1>1, <1>4 DEF Shorts, Mine, Order, Side
  <2> QED  BY <1>2, <1>4, <2>1 DEF Store
<1> QED  BY <1>3, <1>4

LEMMA FillKeepsLong ==
  ASSUME TypeInv, TypeInv', Held, OneForLong, NEW c \in Settlers, Fill(c)
  PROVE  OneForLong'
<1> DEFINE o == settler[c].order
<1>1. /\ o \in Pending \ Filled /\ Ids' = Ids /\ InTransaction(c)
      /\ \A e \in Ids : e # o => orders'[e] = orders[e]
      /\ orders'[o].status = "filled"
  BY FilledGrows, FillEffect
<1>2. Next
  BY DEF Next, RoundStep, TransactionStep
<1>3. PICK s \in Symbols : Mine(c).symbol = s
  <2>1. orders[o] \in Order
    BY <1>1 DEF TypeInv, TypeOK, Ids, Pending
  <2> QED  BY <2>1 DEF Mine, Order
<1>4. /\ settler'[c].pc = "settling" /\ desk' = desk
      /\ \A e \in Settlers : e # c => settler'[e] = settler[e]
  BY DEF Fill, Settling, TypeInv, TypeOK
<1>5. \A t : ForLong(t)' = ForLong(t) \ {o}
  BY <1>1 DEF ForLong, Pending, Shorts
<1>6. CASE Shorts(o)
  <2>1. long' = long
    <3>1. Mine(c).side \notin {"BUY", "SELL"}
      BY <1>6 DEF Shorts, Mine
    <3> QED  BY <3>1, FillMovesLong
  <2>2. \A t : \A e \in ForLong(t)' : orders'[e].side = orders[e].side
    BY <1>1, <1>5 DEF ForLong, Pending
  <2>3. ASSUME NEW e \in Settlers, settler'[e].pc = "ready", ~Shorts(settler[e].order)'
        PROVE  settler'[e].row = long[Mine(e)'.symbol]
    <3>1. e # c /\ settler'[e] = settler[e] /\ settler[e].order \in Ids
      BY <1>4, <2>3 DEF TypeInv, Known, InTransaction
    <3>2. settler[e].order # o
      BY <1>1, <2>3, <3>1 DEF Held, InTransaction
    <3>3. orders'[settler[e].order] = orders[settler[e].order]
      BY <1>1, <3>1, <3>2
    <3> QED  BY <2>3, <3>1, <3>3 DEF OneForLong, Shorts, Mine
  <2> QED  BY <1>4, <1>5, <2>1, <2>2, <2>3, OneForLongWhenFewer DEF DecidedLong
<1>7. CASE ~Shorts(o)
  <2>1. o \in ForLong(s)
    BY <1>1, <1>3, <1>7 DEF ForLong, Mine
  <2>2. ForLong(s)' = {}
    BY <1>3, <1>5, <2>1 DEF OneForLong
  <2>3. \A t \in Symbols : t # s => long'[t] = long[t]
    BY <1>3, FillMovesLong DEF TypeInv, TypeOK
  <2>4. \A d \in Desks : DecidedLong(d) => desk[d].symbol \in Symbols /\ desk[d].symbol # s
    BY <2>1 DEF OneForLong, TypeInv, TypeOK, Desk
  <2>5. \A t \in Symbols : \A e \in ForLong(t)' :
          t # s /\ e \in ForLong(t) /\ orders'[e].side = orders[e].side
    BY <1>1, <1>5, <2>2 DEF ForLong, Pending
  <2>6. ASSUME NEW e \in Settlers, settler'[e].pc = "ready", ~Shorts(settler[e].order)'
        PROVE  settler'[e].row = long'[Mine(e)'.symbol]
    <3>1. e # c /\ settler'[e] = settler[e] /\ settler[e].order \in Pending
      BY <1>4, <2>6 DEF Held, InTransaction
    <3>2. settler[e].order # o
      BY <1>1, <2>6, <3>1 DEF Held, InTransaction
    <3>3. orders'[settler[e].order] = orders[settler[e].order]
          /\ orders[settler[e].order] \in Order
      BY <1>1, <3>1, <3>2 DEF Pending, TypeInv, TypeOK, Ids
    <3>4. ~Shorts(settler[e].order) /\ Mine(e)' = Mine(e) /\ Mine(e).symbol \in Symbols
      BY <2>6, <3>1, <3>3 DEF Shorts, Mine, Order
    <3>5. settler[e].order \in ForLong(Mine(e).symbol)
      BY <3>1, <3>4 DEF ForLong, Mine
    <3>6. Mine(e).symbol # s
      BY <1>3, <2>1, <3>2, <3>5 DEF OneForLong
    <3> QED  BY <2>3, <2>6, <3>1, <3>4, <3>6 DEF OneForLong
  <2> QED  BY <1>4, <2>2, <2>3, <2>4, <2>5, <2>6 DEF OneForLong, DecidedLong
<1> QED  BY <1>6, <1>7

LEMMA OneForLongPreserved ==
  ASSUME \A d, e \in Desks : d = e
  PROVE  TypeInv /\ TypeInv' /\ Held /\ OneForLong /\ [Next]_vars => OneForLong'
<1> SUFFICES ASSUME TypeInv, TypeInv', Held, OneForLong, [Next]_vars PROVE OneForLong'
  OBVIOUS
<1>1. ASSUME NEW d \in Desks, Decide(d) \/ DeskStep(d) \/ AbandonOrder(d)
      PROVE  OneForLong'
  BY <1>1, DeskKeepsLong
<1>2. ASSUME NEW c \in Settlers, RoundStep(c) \/ AbandonRound(c)
      PROVE  OneForLong'
  BY <1>2, SettlerKeepsLong, FillKeepsLong
<1>3. CASE UNCHANGED vars
  <2>1. UNCHANGED <<orders, long, settler, desk>>
    BY <1>3 DEF vars, account
  <2> QED  BY <2>1 DEF OneForLong, ForLong, DecidedLong, Pending, Ids, Shorts, Mine
<1> QED  BY <1>1, <1>2, <1>3 DEF Next

LEMMA OneForLongAtFirst == Init => OneForLong
<1> SUFFICES ASSUME Init PROVE OneForLong
  OBVIOUS
<1>1. Pending = {}
  BY DEF Init, Pending, Ids
<1>2. \A d \in Desks : desk[d].pc = "idle"
  BY IdleDeskIsDesk DEF Init
<1>3. \A c \in Settlers : settler[c].pc = "idle"
  BY IdleSettlerIsSettler DEF Init
<1> QED  BY <1>1, <1>2, <1>3 DEF OneForLong, ForLong, DecidedLong

LongInv ==
  \A s \in Symbols : long[s].qty = FilledQty(s, "BUY") - FilledQty(s, "SELL")

LEMMA LongInvPreserved ==
  ASSUME \A d, e \in Desks : d = e
  PROVE  TypeInv /\ TypeInv' /\ Held /\ OneForLong /\ LongInv /\ [Next]_vars => LongInv'
<1> SUFFICES ASSUME TypeInv, TypeInv', Held, OneForLong, LongInv, [Next]_vars PROVE LongInv'
  OBVIOUS
<1>1. ASSUME NEW c \in Settlers, Fill(c)
      PROVE  LongInv'
  <2> SUFFICES ASSUME NEW s \in Symbols
               PROVE  long'[s].qty = FilledQty(s, "BUY")' - FilledQty(s, "SELL")'
    BY DEF LongInv
  <2> DEFINE x == Mine(c)
             p == settler[c].price
             row == settler[c].row
             k == FillQty(x, row)
  <2>1. \A side : FilledQty(s, side)' = FilledQty(s, side) +
                    IF x.symbol = s /\ x.side = side THEN k ELSE 0
    BY <1>1, FilledQtyGrows
  <2>2. /\ FilledQty(s, "BUY") \in Nat /\ FilledQty(s, "SELL") \in Nat
        /\ long[s].qty = FilledQty(s, "BUY") - FilledQty(s, "SELL")
    BY FilledQtyIsNat DEF LongInv
  <2>3. x \in Order /\ row \in Row /\ p \in Nat /\ k \in Nat
    <3>1. x \in Order /\ row \in Row /\ p \in Nat
      BY <1>1, FillEffect DEF Mine
    <3> QED  BY <3>1, FillTypes
  <2>4. long \in [Symbols -> Row]
    BY DEF TypeInv, TypeOK
  <2>5. CASE x.side \in {"BUY", "SELL"} /\ x.symbol = s
    <3>1. /\ row = long[s] /\ (x.side = "BUY" <=> row.qty = 0)
          /\ long' = [long EXCEPT ![s] = StoredFill(x, p, row, row)]
      BY <1>1, <2>5, FillMovesLong
    <3>2. StoredFill(x, p, row, row).qty
            = IF x.side = "BUY" THEN row.qty + k ELSE row.qty - k
      BY <2>3, <2>5, <3>1, LongFill
    <3>3. long'[s].qty = IF x.side = "BUY" THEN long[s].qty + k ELSE long[s].qty - k
      BY <2>4, <3>1, <3>2
    <3> HIDE DEF x, k
    <3> QED  BY <2>1, <2>2, <2>3, <2>5, <3>3
  <2>6. CASE ~(x.side \in {"BUY", "SELL"} /\ x.symbol = s)
    <3>1. long'[s] = long[s]
      BY <1>1, <2>4, <2>6, FillMovesLong
    <3> HIDE DEF x, k
    <3> QED  BY <2>1, <2>2, <2>6, <3>1
  <2> QED  BY <2>5, <2>6
<1>2. ASSUME long' = long, Filled' = Filled, \A o \in Filled : orders'[o] = orders[o]
      PROVE  LongInv'
  BY <1>2, FilledQtyStays DEF LongInv
<1>3. CASE Next /\ \A c \in Settlers : ~Fill(c)
  <2>1. long' = long
    BY <1>3, DeskKeepsLong, SettlerKeepsLong DEF Next
  <2> QED  BY <1>2, <1>3, <2>1, FilledStays
<1>4. CASE UNCHANGED vars
  <2>1. UNCHANGED <<orders, long>>
    BY <1>4 DEF vars, account
  <2> QED  BY <1>2, <2>1 DEF Filled, Ids
<1> QED  BY <1>1, <1>3, <1>4

LEMMA OneForLongAlways ==
  ASSUME \A d, e \in Desks : d = e
  PROVE  Spec => []OneForLong
<1>1. TypeInv /\ TypeInv' /\ Held /\ OneForLong /\ [Next]_vars => OneForLong'
  BY OneForLongPreserved
<1> QED  BY <1>1, OneForLongAtFirst, TypesHold, HeldAlways, PTL DEF Spec

LEMMA NothingFilledAtFirst ==
  ASSUME Init
  PROVE  Filled = {} /\ \A s, side : FilledQty(s, side) = 0
<1>1. Filled = {} /\ \A s, side : Of(s, side, "filled") = {}
  BY DEF Init, Filled, Ids, Of
<1> QED  BY <1>1, TotalEmpty DEF FilledQty

(* With one desk, the shares held are those bought and not sold, whatever   *)
(* the rounds read and write over each other, fail or repeat: the quantity  *)
(* that apply_fill writes was read without a lock, but the row of a symbol  *)
(* never has two orders that wait for it.                                   *)
THEOREM HoldingsAreTheFills ==
  ASSUME \A d, e \in Desks : d = e
  PROVE  Spec => []LongMatchesFills
<1>1. Init => LongInv
  <2> SUFFICES ASSUME Init PROVE LongInv
    OBVIOUS
  <2>1. \A s \in Symbols : long[s].qty = 0
    BY DEF Init, NoRow
  <2> QED  BY <2>1, NothingFilledAtFirst DEF LongInv
<1>2. TypeInv /\ TypeInv' /\ Held /\ OneForLong /\ LongInv /\ [Next]_vars => LongInv'
  BY LongInvPreserved
<1>3. TypeInv /\ LongInv => LongMatchesFills
  <2> SUFFICES ASSUME TypeInv, LongInv, NEW s \in Symbols
               PROVE  long[s].qty = Shares(Of(s, "BUY", "filled"))
                                    - Shares(Of(s, "SELL", "filled"))
    BY DEF LongMatchesFills
  <2>1. \A side : Shares(Of(s, side, "filled")) = FilledQty(s, side)
    BY OfSubset, SharesTotal DEF FilledQty
  <2> QED  BY <2>1 DEF LongInv
<1> QED  BY <1>1, <1>2, <1>3, OneForLongAlways, TypesHold, HeldAlways, PTL DEF Spec

-----------------------------------------------------------------------------
(* The books                                                                *)

WorthOf == [s \in Symbols |-> Worth(long[s])]
LongWorth == MapThenSumSet(LAMBDA s : Worth(long[s]), Symbols)

LEMMA WorthIsInt ==
  ASSUME TypeInv
  PROVE  \A s \in Symbols : WorthOf[s] = Worth(long[s]) /\ WorthOf[s] \in Int
<1> TAKE s \in Symbols
<1>1. long[s].avg \in Int /\ long[s].qty \in Int
  BY DEF TypeInv, TypeOK, Row
<1>2. \A a, b \in Int : a * b \in Int
  OBVIOUS
<1> QED  BY <1>1, <1>2 DEF WorthOf, Worth

LEMMA WorthTotal ==
  ASSUME TypeInv, IsFiniteSet(Symbols)
  PROVE  LongWorth = Total(WorthOf, Symbols)
<1> DEFINE Iter(g) == g = [s \in SUBSET Symbols |->
             IF s = {} THEN 0
             ELSE Worth(long[CHOOSE x \in s : TRUE]) + g[s \ {CHOOSE x \in s : TRUE}]]
<1>1. LongWorth = (CHOOSE g : Iter(g))[Symbols]
  BY DEF LongWorth, MapThenSumSet, MapThenFoldSet
<1>2. ASSUME NEW g PROVE Iter(g) <=> Iterates(g, WorthOf, Symbols)
  <2>1. \A s \in SUBSET Symbols : s # {} =>
          WorthOf[CHOOSE x \in s : TRUE] = Worth(long[CHOOSE x \in s : TRUE])
    BY DEF WorthOf
  <2> QED  BY <2>1 DEF Iterates
<1> HIDE DEF Iter
<1>3. IntOn(WorthOf, Symbols)
  BY WorthIsInt DEF IntOn
<1>4. \E g : Iter(g)
  BY <1>2, <1>3, TotalIterates
<1>5. \E g : Iter(g) /\ LongWorth = g[Symbols]
  BY <1>1, <1>4
<1> QED  BY <1>2, <1>3, <1>5, IteratesIsTotal

BooksInv == cash + Total(WorthOf, Symbols) = Opening + Total(PnlOf, Filled)

LEMMA FillBalances ==
  ASSUME IsFiniteSet(Symbols), TypeInv, TypeInv', Held, OneForLong, BooksInv,
         NEW c \in Settlers, Fill(c)
  PROVE  BooksInv'
<1> DEFINE o == settler[c].order
           x == Mine(c)
           p == settler[c].price
           row == settler[c].row
<1>1. /\ o \in Pending \ Filled /\ Ids' = Ids
      /\ Filled' = Filled \union {o}
      /\ \A e \in Filled : orders'[e] = orders[e]
  BY FilledGrows
<1>2. /\ x \in Order /\ row \in Row /\ p \in Nat
      /\ orders'[o].pnl = FillPnl(x, p, row)
      /\ cash' = cash + FillCash(x, p, row)
  BY FillEffect DEF Mine
<1>3. FillPnl(x, p, row) \in Int /\ FillCash(x, p, row) \in Int
  BY <1>2, FillTypes
<1>4. Total(PnlOf', Filled') = Total(PnlOf, Filled) + FillPnl(x, p, row)
  <2>1. Filled \in SUBSET Ids /\ Filled \subseteq Ids' /\ o \in Ids' \ Filled
    BY <1>1 DEF Filled, Pending
  <2> QED  BY <1>1, <1>2, <2>1, SumGrows
<1>5. Total(PnlOf, Filled) \in Int
  BY TotalsAreInt DEF Filled
<1>6. Total(WorthOf, Symbols) \in Int /\ IntOn(WorthOf, Symbols)
  BY WorthIsInt, TotalInt DEF IntOn
<1>7. Total(WorthOf', Symbols) = Total(WorthOf, Symbols) + FillPnl(x, p, row) - FillCash(x, p, row)
  <2>1. CASE x.side \in {"BUY", "SELL"}
    <3>1. PICK s \in Symbols : x.symbol = s
      BY <1>2 DEF Order
    <3>2. /\ row = long[s] /\ (x.side = "BUY" <=> row.qty = 0)
          /\ long' = [long EXCEPT ![s] = StoredFill(x, p, row, row)]
      BY <2>1, <3>1, FillMovesLong
    <3>3. Worth(StoredFill(x, p, row, row))
            = Worth(row) + FillPnl(x, p, row) - FillCash(x, p, row)
      BY <1>2, <2>1, <3>2, LongFill
    <3>4. /\ long'[s] = StoredFill(x, p, row, row)
          /\ \A t \in Symbols : t # s => long'[t] = long[t]
      BY <3>2 DEF TypeInv, TypeOK
    <3>5. \A t \in Symbols : t # s => WorthOf'[t] = WorthOf[t]
      BY <3>4 DEF WorthOf
    <3>6. /\ WorthOf[s] = Worth(row) /\ WorthOf[s] \in Int
          /\ WorthOf'[s] = Worth(row) + FillPnl(x, p, row) - FillCash(x, p, row)
      BY <3>2, <3>3, <3>4, WorthIsInt DEF WorthOf
    <3> HIDE DEF x, p, row
    <3>7. WorthOf'[s] \in Int
      BY <1>3, <3>6
    <3>8. Total(WorthOf', Symbols) = Total(WorthOf, Symbols) - WorthOf[s] + WorthOf'[s]
      BY <1>6, <3>5, <3>7, TotalChanges
    <3> QED  BY <1>3, <1>6, <3>6, <3>8
  <2>2. CASE x.side \notin {"BUY", "SELL"}
    <3>1. long' = long
      BY <2>2, FillMovesLong
    <3>2. WorthOf' = WorthOf
      BY <3>1 DEF WorthOf
    <3>3. FillPnl(x, p, row) = FillCash(x, p, row)
      BY <2>2 DEF FillPnl, FillCash
    <3> HIDE DEF x, p, row
    <3> QED  BY <1>3, <1>6, <3>2, <3>3
  <2> QED  BY <2>1, <2>2
<1>8. cash \in Int /\ Opening \in Int
  BY AccountAssumption DEF TypeInv, TypeOK
<1> HIDE DEF x, p, row
<1> QED  BY <1>2, <1>3, <1>4, <1>5, <1>6, <1>7, <1>8 DEF BooksInv

LEMMA BooksInvPreserved ==
  ASSUME IsFiniteSet(Symbols), \A d, e \in Desks : d = e
  PROVE  TypeInv /\ TypeInv' /\ Held /\ OneForLong /\ BooksInv /\ [Next]_vars => BooksInv'
<1> SUFFICES ASSUME TypeInv, TypeInv', Held, OneForLong, BooksInv, [Next]_vars
             PROVE  BooksInv'
  OBVIOUS
<1>1. ASSUME NEW c \in Settlers, Fill(c) PROVE BooksInv'
  BY <1>1, FillBalances
<1>2. ASSUME cash' = cash, long' = long, Filled' = Filled,
             \A o \in Filled : orders'[o] = orders[o]
      PROVE  BooksInv'
  <2>1. Total(PnlOf', Filled) = Total(PnlOf, Filled)
    <3>1. Filled \in SUBSET Ids /\ Filled \subseteq Ids'
      BY <1>2 DEF Filled
    <3> QED  BY <1>2, <3>1, SumStays
  <2>2. WorthOf' = WorthOf
    BY <1>2 DEF WorthOf
  <2> QED  BY <1>2, <2>1, <2>2 DEF BooksInv
<1>3. CASE Next /\ \A c \in Settlers : ~Fill(c)
  <2>1. long' = long
    BY <1>3, DeskKeepsLong, SettlerKeepsLong DEF Next
  <2> QED  BY <1>2, <1>3, <2>1, FilledStays
<1>4. CASE UNCHANGED vars
  <2>1. UNCHANGED <<orders, cash, long>>
    BY <1>4 DEF vars, account
  <2> QED  BY <1>2, <2>1 DEF Filled, Ids
<1> QED  BY <1>1, <1>3, <1>4

(* With one desk, what the account is worth at cost is what it began with   *)
(* and the profits recorded on the orders: the balance, the averages of     *)
(* paper_positions and realized_pnl agree after every fill.                 *)
THEOREM BooksAgree ==
  ASSUME IsFiniteSet(Symbols), \A d, e \in Desks : d = e
  PROVE  Spec => []BooksBalance
<1>1. Init => BooksInv
  <2> SUFFICES ASSUME Init PROVE BooksInv
    OBVIOUS
  <2>1. Total(PnlOf, Filled) = 0
    BY NothingFilledAtFirst, TotalEmpty
  <2> DEFINE zero == [s \in Symbols |-> 0]
  <2>2. \A s \in Symbols : WorthOf[s] = zero[s]
    BY DEF Init, NoRow, Worth, WorthOf
  <2>3. Total(WorthOf, Symbols) = Total(zero, Symbols)
    BY <2>2, TotalSame
  <2>4. Total(zero, Symbols) = 0
    <3>1. Cells(zero, Symbols) = {} /\ Below(zero, Symbols) = {}
      BY DEF Cells, Below
    <3>2. Cardinality({}) = 0
      BY FS_EmptySet
    <3> QED  BY <3>1, <3>2 DEF Total
  <2>5. cash = Opening /\ Opening \in Int
    BY AccountAssumption DEF Init
  <2> QED  BY <2>1, <2>3, <2>4, <2>5 DEF BooksInv
<1>2. TypeInv /\ TypeInv' /\ Held /\ OneForLong /\ BooksInv /\ [Next]_vars => BooksInv'
  BY BooksInvPreserved
<1>3. TypeInv /\ BooksInv => BooksBalance
  <2> SUFFICES ASSUME TypeInv, BooksInv PROVE BooksBalance
    OBVIOUS
  <2>1. Pnl(Filled) = Total(PnlOf, Filled)
    BY PnlTotal DEF Filled
  <2>2. LongWorth = Total(WorthOf, Symbols)
    BY WorthTotal
  <2> QED  BY <2>1, <2>2 DEF BooksInv, BooksBalance, LongWorth
<1> QED  BY <1>1, <1>2, <1>3, OneForLongAlways, TypesHold, HeldAlways, PTL DEF Spec

-----------------------------------------------------------------------------
(* Shorts                                                                   *)

(* The shares that wait to be sold short.                                   *)
WaitingQty(s) == Total(QtyOf, Of(s, "SHORT", "pending"))

LEMMA WaitingQtyIsNat ==
  ASSUME TypeInv
  PROVE  \A s : WaitingQty(s) \in Nat
BY OfSubset, TotalsAreInt DEF WaitingQty

LEMMA WaitingQtyStays ==
  ASSUME TypeInv, Pending' = Pending, \A o \in Pending : orders'[o] = orders[o]
  PROVE  \A s : WaitingQty(s)' = WaitingQty(s)
<1> TAKE s
<1>1. Of(s, "SHORT", "pending")' = Of(s, "SHORT", "pending")
  BY DEF Of, Pending
<1>2. /\ Of(s, "SHORT", "pending") \in SUBSET Ids /\ Of(s, "SHORT", "pending") \subseteq Ids'
      /\ \A o \in Of(s, "SHORT", "pending") : orders'[o] = orders[o]
  BY OfSubset DEF Pending, Of
<1>3. Total(QtyOf', Of(s, "SHORT", "pending")) = Total(QtyOf, Of(s, "SHORT", "pending"))
  BY <1>2, SumStays
<1> QED  BY <1>1, <1>3 DEF WaitingQty

(* An order that waits, or begins to wait, and what it adds.                *)
Share(x, s) == IF x.symbol = s /\ x.side = "SHORT" THEN x.qty ELSE 0

LEMMA WaitingQtyGrows ==
  ASSUME TypeInv, TypeInv', NEW n \in Ids' \ Ids, Ids' = Ids \union {n},
         \A o \in Ids : orders'[o] = orders[o], orders'[n].status = "pending"
  PROVE  \A s : WaitingQty(s)' = WaitingQty(s) + Share(orders'[n], s)
<1> TAKE s
<1> DEFINE S == Of(s, "SHORT", "pending")
<1>1. /\ S \in SUBSET Ids /\ S \subseteq Ids' /\ n \notin S
      /\ \A o \in S : orders'[o] = orders[o]
  BY OfSubset
<1>2. CASE orders'[n].symbol = s /\ orders'[n].side = "SHORT"
  <2>1. S' = S \union {n}
    BY <1>2 DEF Of
  <2>2. Total(QtyOf', S \union {n}) = Total(QtyOf, S) + orders'[n].qty
    BY <1>1, SumGrows
  <2> QED  BY <1>2, <2>1, <2>2 DEF WaitingQty, Share
<1>3. CASE ~(orders'[n].symbol = s /\ orders'[n].side = "SHORT")
  <2>1. S' = S
    BY <1>3 DEF Of
  <2>2. Total(QtyOf', S) = Total(QtyOf, S) /\ Total(QtyOf, S) \in Nat
    BY <1>1, SumStays, TotalsAreInt
  <2> QED  BY <1>3, <2>1, <2>2 DEF WaitingQty, Share
<1> QED  BY <1>2, <1>3

LEMMA WaitingQtyShrinks ==
  ASSUME TypeInv, NEW x \in Pending, Ids' = Ids,
         \A o \in Ids : o # x => orders'[o] = orders[o], orders'[x].status # "pending"
  PROVE  \A s : /\ WaitingQty(s)' = WaitingQty(s) - Share(orders[x], s)
                /\ Share(orders[x], s) <= WaitingQty(s)
                /\ Share(orders[x], s) \in Nat
<1> TAKE s
<1> DEFINE S == Of(s, "SHORT", "pending")
           r == S \ {x}
<1>1. r \in SUBSET Ids /\ r \subseteq Ids' /\ \A o \in r : orders'[o] = orders[o]
  BY OfSubset
<1>2. S' = r
  BY DEF Of
<1>3. Total(QtyOf', r) = Total(QtyOf, r) /\ Total(QtyOf, r) \in Nat
  BY <1>1, SumStays, TotalsAreInt
<1>4. x \in Ids /\ orders[x].qty \in Nat
  <2>1. x \in Ids /\ orders[x] \in Order
    BY DEF Pending, TypeInv, TypeOK, Ids
  <2> QED  BY <2>1 DEF Order, Positive
<1>0. WaitingQty(s) = Total(QtyOf, S) /\ WaitingQty(s)' = Total(QtyOf', r)
  BY <1>2 DEF WaitingQty
<1>5. CASE orders[x].symbol = s /\ orders[x].side = "SHORT"
  <2>1. x \in S /\ S = r \union {x}
    BY <1>5 DEF Of, Pending
  <2>2. IsFiniteSet(r) /\ IntOn(QtyOf, r)
    BY <1>1, ColumnsAreInt
  <2>3. QtyOf[x] = orders[x].qty
    BY <1>4 DEF QtyOf
  <2> HIDE DEF S
  <2>4. x \notin r
    OBVIOUS
  <2> HIDE DEF r
  <2>5. Total(QtyOf, r \union {x}) = Total(QtyOf, r) + QtyOf[x]
    BY <1>4, <2>2, <2>3, <2>4, TotalAdd
  <2>6. Share(orders[x], s) = orders[x].qty
    BY <1>5 DEF Share
  <2> QED  BY <1>0, <1>3, <1>4, <2>1, <2>3, <2>5, <2>6
<1>6. CASE ~(orders[x].symbol = s /\ orders[x].side = "SHORT")
  <2>1. S = r
    BY <1>6 DEF Of
  <2> QED  BY <1>2, <1>3, <1>6, <2>1 DEF WaitingQty, Share
<1> QED  BY <1>5, <1>6

(* What a fill, a registration and a withdrawal do to the shares of a row   *)
(* that is still the one that was read.                                     *)
LEMMA ShortFill ==
  ASSUME NEW x \in Order, NEW p \in Nat, NEW row \in Row,
         x.side \in {"SHORT", "SHORT_COVER"}, x.side = "SHORT" => row.qty > 0
  PROVE  StoredFill(x, p, row, row).qty
           = IF x.side = "SHORT" THEN row.qty ELSE row.qty - FillQty(x, row)
<1> DEFINE q == x.qty
           n == row.qty
           a == row.avg
<1>1. q \in Nat /\ q > 0 /\ n \in Nat /\ a \in Int /\ row = [qty |-> n, avg |-> a]
  BY DEF Order, Row, Positive
<1>2. CASE x.side = "SHORT"
  <2> DEFINE b == a + ((p - x.limit) * q) \div n
  <2>1. FillRow(x, p, row) = [row EXCEPT !.avg = b]
    BY <1>2 DEF FillRow, Repriced
  <2> HIDE DEF b
  <2>2. FillRow(x, p, row) = [qty |-> n, avg |-> b]
    BY <1>1, <2>1
  <2>3. StoredFill(x, p, row, row) = [row EXCEPT !.avg = b]
    BY <1>1, <1>2, <2>2 DEF StoredFill, Stored
  <2> QED  BY <1>1, <1>2, <2>3
<1>3. CASE x.side = "SHORT_COVER"
  <2>0. FillQty(x, row) = Lesser(q, n)
    BY <1>3 DEF FillQty
  <2>1. FillRow(x, p, row) = Reduced(row, q)
    BY <1>3 DEF FillRow
  <2>2. CASE n <= q
    BY <1>1, <1>3, <2>0, <2>1, <2>2 DEF StoredFill, Stored, Reduced, NoRow, Lesser
  <2>3. CASE ~(n <= q)
    <3>1. Reduced(row, q) = [qty |-> n - q, avg |-> a] /\ n - q # 0 /\ n # 0
      BY <1>1, <2>3 DEF Reduced
    <3>2. StoredFill(x, p, row, row) = [row EXCEPT !.qty = n - q]
      BY <1>1, <1>3, <2>1, <3>1 DEF StoredFill, Stored
    <3> QED  BY <1>1, <1>3, <2>0, <2>3, <3>2 DEF Lesser
  <2> QED  BY <2>2, <2>3
<1> QED  BY <1>2, <1>3

LEMMA RegisteredQty ==
  ASSUME NEW row \in Row, NEW q \in Positive, NEW amount
  PROVE  Stored(row, row, Added(row, q, amount)).qty = row.qty + q
BY DEF Stored, Added, Row, Positive

LEMMA WithdrawnQty ==
  ASSUME NEW row \in Row, NEW q \in Positive, NEW amount, q <= row.qty
  PROVE  Stored(row, row, TakenBack(row, q, amount)).qty = row.qty - q
BY DEF Stored, TakenBack, Row, Positive, NoRow

(* What a desk has inserted and not registered yet, or cancelled and not    *)
(* taken back yet.                                                          *)
Gap(r, s) ==
  IF r.symbol # s THEN 0
  ELSE IF r.pc \in {"inserted", "registering"} THEN -r.qty
  ELSE IF r.pc \in {"cancelled", "undoing"} THEN r.qty
  ELSE 0

(* The shares sold short and not covered.                                   *)
Net(s) == FilledQty(s, "SHORT") - FilledQty(s, "SHORT_COVER")

RowsMatch(d) ==
  \A s \in Symbols : short[s].qty = Net(s) + WaitingQty(s) + Gap(desk[d], s)

(* A cover that waits, or is decided on, finds the shares it closes.        *)
CoversFit(d) ==
  /\ \A s \in Symbols :
       /\ Net(s) >= 0
       /\ \A o, p \in Waiting(s, "SHORT_COVER") : o = p
       /\ \A o \in Waiting(s, "SHORT_COVER") : orders[o].qty <= Net(s)
  /\ desk[d].pc = "decided" /\ desk[d].side = "SHORT_COVER" =>
       /\ Waiting(desk[d].symbol, "SHORT_COVER") = {}
       /\ desk[d].qty <= Net(desk[d].symbol)

(* What a desk at work knows is still so: nobody settles meanwhile.         *)
AtWork(r) ==
  /\ r.pc \in {"inserted", "registering", "sent", "cancelling"} =>
       /\ r.order \in Pending
       /\ orders[r.order].symbol = r.symbol
       /\ orders[r.order].side = r.side
       /\ orders[r.order].qty = r.qty
  /\ r.pc \in {"inserted", "registering", "cancelled", "undoing"} => r.side = "SHORT"
  /\ r.pc \in {"registering", "undoing"} => r.row = short[r.symbol]
  /\ r.pc = "cancelling" => r.found
  /\ r.pc = "checked" => r.side = "BUY"

(* What a settler has read of a row is still what it holds.                 *)
RowStands(c) ==
  settler[c].pc = "ready" /\ Shorts(settler[c].order) =>
    settler[c].row = short[Mine(c).symbol]

Apart(d, c) == desk[d].pc = "idle" \/ settler[c].pc = "idle"

ShortInv(d, c) ==
  RowsMatch(d) /\ CoversFit(d) /\ AtWork(desk[d]) /\ RowStands(c) /\ Apart(d, c)

LEMMA NetIsInt == ASSUME TypeInv PROVE \A s : Net(s) \in Int
BY FilledQtyIsNat DEF Net

LEMMA GapIsInt ==
  ASSUME NEW r \in Desk
  PROVE  \A s : Gap(r, s) \in Int
BY DEF Gap, Desk

(* A step of the desk that leaves the orders alone.                         *)
LEMMA DeskLeavesOrders ==
  ASSUME NEW d \in Desks, NEW c \in Settlers, TypeInv, TypeInv', ShortInv(d, c),
         settler[c].pc = "idle", UNCHANGED <<orders, settler>>,
         \A s \in Symbols : short'[s].qty = short[s].qty + Gap(desk'[d], s) - Gap(desk[d], s),
         AtWork(desk[d])',
         desk'[d].pc # "decided"
  PROVE  ShortInv(d, c)'
<1>1. /\ Filled' = Filled /\ Pending' = Pending /\ Ids' = Ids
      /\ \A s, side : Waiting(s, side)' = Waiting(s, side)
  BY DEF Filled, Pending, Ids, Waiting
<1>2. \A s : Net(s)' = Net(s) /\ WaitingQty(s)' = WaitingQty(s)
  BY <1>1, FilledQtyStays, WaitingQtyStays DEF Net
<1>3. RowsMatch(d)'
  <2> SUFFICES ASSUME NEW s \in Symbols
               PROVE  short'[s].qty = Net(s)' + WaitingQty(s)' + Gap(desk'[d], s)
    BY DEF RowsMatch
  <2>1. Net(s) \in Int /\ WaitingQty(s) \in Int
    BY NetIsInt, WaitingQtyIsNat
  <2>2. Gap(desk[d], s) \in Int /\ Gap(desk'[d], s) \in Int
    BY GapIsInt DEF TypeInv, TypeOK
  <2>3. short[s].qty = Net(s) + WaitingQty(s) + Gap(desk[d], s)
    BY DEF ShortInv, RowsMatch
  <2> QED  BY <1>2, <2>1, <2>2, <2>3
<1>4. CoversFit(d)'
  BY <1>1, <1>2 DEF ShortInv, CoversFit
<1>5. RowStands(c)' /\ Apart(d, c)'
  BY DEF RowStands, Apart
<1> QED  BY <1>3, <1>4, <1>5 DEF ShortInv

LEMMA DeskKeepsShort ==
  ASSUME NEW d, Desks = {d}, NEW c, Settlers = {c}, Quiet, ~Faults,
         TypeInv, TypeInv', Held, ShortInv(d, c), Decide(d) \/ DeskStep(d) \/ AbandonOrder(d)
  PROVE  ShortInv(d, c)'
<1> DEFINE me == desk[d]
<1>0. d \in Desks /\ c \in Settlers
  OBVIOUS
<1>1. /\ settler' = settler /\ Ids \subseteq Ids'
      /\ me \in Desk /\ desk \in [Desks -> Desk] /\ orders \in Seq(Order)
      /\ me.pc # "idle" => me.qty \in Positive
  BY <1>0, DeskKeepsHeld DEF TypeInv, TypeOK, Sized
<1>2. settler[c].pc = "idle"
  BY <1>0 DEF Decide, DeskStep, AbandonOrder, CheckWaiting, Insert, ReadShort, Register, Link,
              StartCancel, Cancel, ReadUndo, Undo, SettlersIdle, ShortInv, Apart
<1>3. /\ Filled' = Filled /\ \A o \in Filled : orders'[o] = orders[o]
  <2>1. Next
    BY <1>0 DEF Next
  <2>2. \A e \in Settlers : ~Fill(e)
    BY <1>2 DEF Fill
  <2> QED  BY <2>1, <2>2, FilledStays
<1>4. \A s : Net(s)' = Net(s)
  BY <1>3, FilledQtyStays DEF Net
<1>5. RowStands(c)' /\ Apart(d, c)'
  BY <1>1, <1>2 DEF RowStands, Apart
<1>6. me.symbol \in Symbols /\ short[me.symbol] \in Row /\ short \in [Symbols -> Row]
  BY <1>1 DEF TypeInv, TypeOK, Desk
<1>7. RowsMatch(d) /\ CoversFit(d) /\ AtWork(me)
  BY DEF ShortInv
<1>8. IdleDesk.pc = "idle"
  BY IdleDeskIsDesk
<1>9. \A s : Gap(me, s) \in Int /\ Net(s) \in Int /\ WaitingQty(s) \in Nat
  BY <1>1, GapIsInt, NetIsInt, WaitingQtyIsNat
<1>10. CASE Decide(d)
  <2> DEFINE Qty(s, side) == IF side \in {"BUY", "SHORT"}
                             THEN IF MayEnter(s, side) THEN Lots ELSE {}
                             ELSE {ExitQty(s, side)} \intersect Positive
  <2>1. PICK s \in Symbols, side \in Side, limit \in {0} \union Limits :
          \E q \in Qty(s, side) :
            desk' = [desk EXCEPT ![d] = Decision(s, side, q, limit)]
    BY <1>10 DEF Decide
  <2>2. PICK q \in Qty(s, side) : desk' = [desk EXCEPT ![d] = Decision(s, side, q, limit)]
    BY <2>1
  <2>3. UNCHANGED <<orders, short>> /\ me.pc = "idle"
    BY <1>10 DEF Decide, account
  <2>4. desk'[d].symbol = s /\ desk'[d].side = side /\ desk'[d].qty = q
        /\ desk'[d].pc = "decided"
    BY <1>0, <1>1, <2>2 DEF Decision
  <2>5. /\ Pending' = Pending
        /\ \A t, k : Waiting(t, k)' = Waiting(t, k)
        /\ \A t : WaitingQty(t)' = WaitingQty(t)
    BY <2>3, WaitingQtyStays DEF Pending, Ids, Waiting
  <2>6. \A t : Gap(me, t) = 0 /\ Gap(desk'[d], t) = 0
    BY <2>3, <2>4 DEF Gap
  <2>7. RowsMatch(d)'
    BY <1>4, <1>7, <2>3, <2>5, <2>6 DEF RowsMatch
  <2>8. ASSUME side = "SHORT_COVER"
        PROVE  Waiting(s, "SHORT_COVER") = {} /\ q <= Net(s)
    <3>1. q = ExitQty(s, side) /\ q \in Positive
      BY <2>2, <2>8
    <3>2. Waiting(s, "SHORT_COVER") = {} /\ q = Coverable(s)
      BY <2>8, <3>1 DEF ExitQty, Positive
    <3>3. PendingShortQty(s) = WaitingQty(s)
      <4>1. Waiting(s, "SHORT") = Of(s, "SHORT", "pending")
        BY DEF Waiting, Of, Pending
      <4>2. PendingShortQty(s) = Shares(Waiting(s, "SHORT"))
        BY DEF PendingShortQty, Shares
      <4> QED  BY <4>1, <4>2, OfSubset, SharesTotal DEF WaitingQty
    <3>4. short[s].qty = Net(s) + WaitingQty(s) + 0 /\ Net(s) >= 0
      BY <1>7, <2>6 DEF RowsMatch, CoversFit
    <3>5. Coverable(s) = Net(s)
      BY <1>9, <3>3, <3>4 DEF Coverable, Lesser
    <3> QED  BY <1>9, <3>2, <3>5
  <2>9. CoversFit(d)'
    BY <1>4, <1>7, <2>3, <2>4, <2>5, <2>8 DEF CoversFit
  <2>10. AtWork(desk[d])'
    BY <2>4 DEF AtWork
  <2> QED  BY <1>5, <2>7, <2>9, <2>10 DEF ShortInv
<1>11. CASE Insert(d)
  <2> DEFINE n == Len(orders) + 1
             x == NewOrder(me.symbol, me.side, me.qty, me.limit)
  <2>1. /\ Ids' = Ids \union {n} /\ n \in Ids' \ Ids
        /\ \A o \in Ids : orders'[o] = orders[o]
        /\ orders'[n] = x
    <3>1. orders' = Append(orders, x)
      BY <1>0, <1>11, InsertGrows
    <3>2. orders'[n] = x
      BY <1>1, <3>1
    <3> QED  BY <1>0, <1>11, <3>2, InsertGrows
  <2>2. x.symbol = me.symbol /\ x.side = me.side /\ x.qty = me.qty /\ x.status = "pending"
    BY DEF NewOrder
  <2>3. /\ short' = short /\ me.pc \in {"decided", "checked"}
        /\ desk'[d] = CASE me.side = "BUY"   -> [me EXCEPT !.pc = "sent", !.order = n]
                        [] me.side = "SHORT" -> [me EXCEPT !.pc = "inserted", !.order = n]
                        [] OTHER             -> IdleDesk
    BY <1>0, <1>1, <1>11 DEF Insert, account
  <2> HIDE DEF n, x
  <2>4. \A s : WaitingQty(s)' = WaitingQty(s) + Share(x, s)
    BY <2>1, <2>2, WaitingQtyGrows
  <2>5. \A s : Gap(me, s) = 0
    BY <2>3 DEF Gap
  <2>6. \A s : Share(x, s) + Gap(desk'[d], s) = 0
    <3> TAKE s
    <3>1. me.qty \in Int
      BY <1>1 DEF Desk
    <3>2. CASE me.side = "SHORT"
      <4>1. desk'[d].symbol = me.symbol /\ desk'[d].qty = me.qty /\ desk'[d].pc = "inserted"
        BY <1>1, <2>3, <3>2 DEF Desk
      <4> QED  BY <2>2, <3>1, <3>2, <4>1 DEF Share, Gap
    <3>3. CASE me.side # "SHORT"
      <4>1. desk'[d].pc \in {"sent", "idle"}
        BY <1>1, <1>8, <2>3, <3>3 DEF Desk
      <4> QED  BY <2>2, <3>3, <4>1 DEF Share, Gap
    <3> QED  BY <3>2, <3>3
  <2>7. RowsMatch(d)'
    <3> SUFFICES ASSUME NEW s \in Symbols
                 PROVE  short'[s].qty = Net(s)' + WaitingQty(s)' + Gap(desk'[d], s)
      BY DEF RowsMatch
    <3>1. Share(x, s) \in Int
      BY <1>1, <2>2 DEF Share, Desk
    <3>2. Gap(desk'[d], s) \in Int
      BY <1>0, GapIsInt DEF TypeInv, TypeOK
    <3>3. short[s].qty = Net(s) + WaitingQty(s) + Gap(me, s)
      BY <1>7 DEF RowsMatch
    <3> QED  BY <1>4, <1>9, <2>3, <2>4, <2>5, <2>6, <3>1, <3>2, <3>3
  <2>8. \A s : Waiting(s, "SHORT_COVER")'
                 \subseteq Waiting(s, "SHORT_COVER") \union
                             IF me.side = "SHORT_COVER" /\ me.symbol = s THEN {n} ELSE {}
    BY <2>1, <2>2 DEF Waiting, Pending
  <2>9. me.side = "SHORT_COVER" =>
          me.pc = "decided" /\ Waiting(me.symbol, "SHORT_COVER") = {} /\ me.qty <= Net(me.symbol)
    BY <1>7, <2>3 DEF AtWork, CoversFit
  <2>10. desk'[d].pc # "decided"
    BY <1>1, <1>8, <2>3 DEF Desk
  <2>11. CoversFit(d)'
    <3> SUFFICES ASSUME NEW s \in Symbols
                 PROVE  /\ Net(s)' >= 0
                        /\ \A o, p \in Waiting(s, "SHORT_COVER")' : o = p
                        /\ \A o \in Waiting(s, "SHORT_COVER")' : orders'[o].qty <= Net(s)'
      BY <2>10 DEF CoversFit
    <3>1. CASE me.side = "SHORT_COVER" /\ me.symbol = s
      <4>1. Waiting(s, "SHORT_COVER")' \subseteq {n}
        BY <2>8, <2>9, <3>1
      <4> QED  BY <1>4, <1>7, <2>1, <2>2, <2>9, <3>1, <4>1 DEF CoversFit
    <3>2. CASE ~(me.side = "SHORT_COVER" /\ me.symbol = s)
      <4>1. Waiting(s, "SHORT_COVER")' \subseteq Waiting(s, "SHORT_COVER")
        BY <2>8, <3>2
      <4>2. \A o \in Waiting(s, "SHORT_COVER") : orders'[o] = orders[o]
        BY <2>1 DEF Waiting, Pending
      <4> QED  BY <1>4, <1>7, <4>1, <4>2 DEF CoversFit
    <3> QED  BY <3>1, <3>2
  <2>12. AtWork(desk[d])'
    <3>1. CASE me.side = "BUY"
      <4>1. /\ desk'[d].pc = "sent" /\ desk'[d].order = n /\ desk'[d].symbol = me.symbol
            /\ desk'[d].side = me.side /\ desk'[d].qty = me.qty
        BY <1>1, <2>3, <3>1 DEF Desk
      <4> QED  BY <2>1, <2>2, <4>1 DEF AtWork, Pending
    <3>2. CASE me.side = "SHORT"
      <4>1. /\ desk'[d].pc = "inserted" /\ desk'[d].order = n /\ desk'[d].symbol = me.symbol
            /\ desk'[d].side = me.side /\ desk'[d].qty = me.qty
        BY <1>1, <2>3, <3>2 DEF Desk
      <4> QED  BY <2>1, <2>2, <3>2, <4>1 DEF AtWork, Pending
    <3>3. CASE me.side \notin {"BUY", "SHORT"}
      BY <1>8, <2>3, <3>3 DEF AtWork
    <3> QED  BY <3>1, <3>2, <3>3
  <2> QED  BY <1>5, <2>7, <2>11, <2>12 DEF ShortInv
<1>12. CASE Cancel(d)
  <2> DEFINE o == me.order
  <2>1. /\ short' = short /\ me.pc = "cancelling" /\ orders' = Cancelled(o)
        /\ desk'[d] = IF me.found /\ me.side = "SHORT" THEN [me EXCEPT !.pc = "cancelled"]
                      ELSE IdleDesk
    BY <1>0, <1>1, <1>12 DEF Cancel, account
  <2>2. /\ o \in Pending /\ me.found /\ orders[o].symbol = me.symbol
        /\ orders[o].side = me.side /\ orders[o].qty = me.qty
    BY <1>7, <2>1 DEF AtWork
  <2>3. /\ Ids' = Ids /\ orders'[o].status = "cancelled"
        /\ \A x \in Ids : x # o => orders'[x] = orders[x]
    <3>1. orders' = [orders EXCEPT ![o].status = "cancelled"] /\ o \in Ids
      BY <2>1, <2>2 DEF Cancelled, Pending
    <3>2. orders[o] \in Order
      BY <1>1, <3>1 DEF Ids
    <3> QED  BY <3>1, <3>2 DEF Ids, Order
  <2>4. \A s : WaitingQty(s)' = WaitingQty(s) - Share(orders[o], s)
    BY <2>2, <2>3, WaitingQtyShrinks
  <2>5. \A s : Gap(me, s) = 0 /\ Gap(desk'[d], s) = Share(orders[o], s)
    <3>1. CASE me.side = "SHORT"
      <4>1. desk'[d].symbol = me.symbol /\ desk'[d].qty = me.qty /\ desk'[d].pc = "cancelled"
        BY <1>1, <2>1, <2>2, <3>1 DEF Desk
      <4> QED  BY <2>1, <2>2, <3>1, <4>1 DEF Share, Gap
    <3>2. CASE me.side # "SHORT"
      <4>1. desk'[d].pc = "idle"
        BY <1>8, <2>1, <3>2
      <4> QED  BY <2>1, <2>2, <3>2, <4>1 DEF Share, Gap
    <3> QED  BY <3>1, <3>2
  <2>6. \A s : Share(orders[o], s) \in Int
    BY <1>1, <2>2 DEF Share, Desk
  <2>7. RowsMatch(d)'
    BY <1>4, <1>7, <1>9, <2>1, <2>4, <2>5, <2>6 DEF RowsMatch
  <2>8. \A s : Waiting(s, "SHORT_COVER")' \subseteq Waiting(s, "SHORT_COVER") \ {o}
    BY <2>3 DEF Waiting, Pending
  <2>9. desk'[d].pc \in {"cancelled", "idle"}
    BY <1>1, <1>8, <2>1 DEF Desk
  <2>10. CoversFit(d)'
    <3>1. \A s : \A x \in Waiting(s, "SHORT_COVER")' : orders'[x] = orders[x]
      BY <2>3, <2>8 DEF Waiting, Pending
    <3> QED  BY <1>4, <1>7, <2>8, <2>9, <3>1 DEF CoversFit
  <2>11. AtWork(desk[d])'
    <3>1. desk'[d].pc = "cancelled" => desk'[d].side = "SHORT"
      BY <1>1, <1>8, <2>1 DEF Desk
    <3> QED  BY <2>9, <3>1 DEF AtWork
  <2> QED  BY <1>5, <2>7, <2>10, <2>11 DEF ShortInv
<1>13. CASE CheckWaiting(d)
  <2>1. /\ UNCHANGED <<orders, short>> /\ me.pc = "decided" /\ me.side = "BUY"
        /\ (desk'[d] = IdleDesk \/ desk'[d] = [me EXCEPT !.pc = "checked"])
    BY <1>0, <1>1, <1>13 DEF CheckWaiting, account
  <2>2. desk'[d].pc = "idle" \/ (desk'[d].pc = "checked" /\ desk'[d].side = "BUY")
    BY <1>1, <1>8, <2>1 DEF Desk
  <2>3. \A s : Gap(me, s) = 0 /\ Gap(desk'[d], s) = 0
    BY <2>1, <2>2 DEF Gap
  <2>4. AtWork(desk[d])' /\ desk'[d].pc # "decided"
    BY <2>2 DEF AtWork
  <2> QED  BY <1>0, <1>1, <1>2, <1>6, <2>1, <2>3, <2>4, DeskLeavesOrders DEF Row
<1>14. CASE ReadShort(d)
  <2>1. /\ UNCHANGED <<orders, short>> /\ me.pc = "inserted"
        /\ desk'[d] = [me EXCEPT !.pc = "registering", !.row = short[me.symbol]]
    BY <1>0, <1>1, <1>14 DEF ReadShort, account
  <2>2. /\ desk'[d].pc = "registering" /\ desk'[d].row = short[me.symbol]
        /\ desk'[d].symbol = me.symbol /\ desk'[d].qty = me.qty
        /\ desk'[d].side = me.side /\ desk'[d].order = me.order
    BY <1>1, <2>1 DEF Desk
  <2>3. \A s : Gap(desk'[d], s) = Gap(me, s)
    BY <2>1, <2>2 DEF Gap
  <2>4. AtWork(desk[d])'
    BY <1>7, <2>1, <2>2 DEF AtWork, Pending, Ids
  <2>5. \A s \in Symbols : short'[s].qty = short[s].qty + Gap(desk'[d], s) - Gap(me, s)
    BY <1>6, <1>9, <2>1, <2>3 DEF Row
  <2> QED  BY <1>0, <1>1, <1>2, <2>1, <2>2, <2>4, <2>5, DeskLeavesOrders
<1>15. CASE Register(d)
  <2>1. UNCHANGED orders /\ me.pc = "registering" /\ me.row = short[me.symbol]
        /\ me.side = "SHORT"
    BY <1>7, <1>15 DEF Register, AtWork
  <2>2. ~Clashes(me.row, short[me.symbol])
    BY <2>1 DEF Clashes
  <2>3. /\ short' = [short EXCEPT ![me.symbol] =
                      Stored(me.row, me.row, Added(me.row, me.qty, me.limit * me.qty))]
        /\ desk'[d] = [me EXCEPT !.pc = "sent", !.row = NoRow]
    BY <1>0, <1>1, <1>15, <2>1, <2>2 DEF Register
  <2>4. /\ desk'[d].pc = "sent" /\ desk'[d].symbol = me.symbol /\ desk'[d].qty = me.qty
        /\ desk'[d].side = me.side /\ desk'[d].order = me.order
    BY <1>1, <2>3 DEF Desk
  <2>5. AtWork(desk[d])'
    BY <1>7, <2>1, <2>4 DEF AtWork, Pending, Ids
  <2>6. me.qty \in Positive
    BY <1>1, <2>1
  <2>7. short'[me.symbol].qty = short[me.symbol].qty + me.qty
    BY <1>6, <2>1, <2>3, <2>6, RegisteredQty
  <2>8. \A s \in Symbols : short'[s].qty = short[s].qty + Gap(desk'[d], s) - Gap(me, s)
    BY <1>6, <2>1, <2>3, <2>4, <2>6, <2>7 DEF Gap, Row, Positive
  <2> QED  BY <1>0, <1>1, <1>2, <2>1, <2>4, <2>5, <2>8, DeskLeavesOrders
<1>16. CASE Link(d)
  <2>1. UNCHANGED <<orders, short>> /\ me.pc = "sent" /\ desk'[d] = IdleDesk
    BY <1>0, <1>1, <1>16 DEF Link, account
  <2>2. \A s : Gap(me, s) = 0 /\ Gap(desk'[d], s) = 0
    BY <1>8, <2>1 DEF Gap
  <2>3. AtWork(desk[d])' /\ desk'[d].pc # "decided"
    BY <1>8, <2>1 DEF AtWork
  <2> QED  BY <1>0, <1>1, <1>2, <1>6, <2>1, <2>2, <2>3, DeskLeavesOrders DEF Row
<1>17. CASE StartCancel(d)
  <2>1. /\ UNCHANGED <<orders, short>> /\ me.pc = "sent"
        /\ desk'[d] = [me EXCEPT !.pc = "cancelling", !.found = me.order \in Pending]
    BY <1>0, <1>1, <1>17 DEF StartCancel, account
  <2>2. /\ desk'[d].pc = "cancelling" /\ desk'[d].found = (me.order \in Pending)
        /\ desk'[d].symbol = me.symbol /\ desk'[d].qty = me.qty
        /\ desk'[d].side = me.side /\ desk'[d].order = me.order
    BY <1>1, <2>1 DEF Desk
  <2>3. \A s : Gap(me, s) = 0 /\ Gap(desk'[d], s) = 0
    BY <2>1, <2>2 DEF Gap
  <2>4. AtWork(desk[d])'
    BY <1>7, <2>1, <2>2 DEF AtWork, Pending, Ids
  <2>5. desk'[d].pc # "decided"
    BY <2>2
  <2>6. \A s \in Symbols : short'[s].qty = short[s].qty + Gap(desk'[d], s) - Gap(me, s)
    BY <1>6, <2>1, <2>3 DEF Row
  <2> QED  BY <1>0, <1>1, <1>2, <2>1, <2>4, <2>5, <2>6, DeskLeavesOrders
<1>18. CASE ReadUndo(d)
  <2>1. UNCHANGED <<orders, short>> /\ me.pc = "cancelled" /\ me.side = "SHORT"
    BY <1>7, <1>18 DEF ReadUndo, AtWork, account
  <2>2. short[me.symbol].qty # 0
    <3>1. short[me.symbol].qty = Net(me.symbol) + WaitingQty(me.symbol) + me.qty
          /\ Net(me.symbol) >= 0
      BY <1>6, <1>7, <2>1 DEF RowsMatch, CoversFit, Gap
    <3>2. me.qty \in Positive
      BY <1>1, <2>1
    <3> QED  BY <1>9, <3>1, <3>2 DEF Positive
  <2>3. desk'[d] = [me EXCEPT !.pc = "undoing", !.row = short[me.symbol]]
    BY <1>0, <1>1, <1>18, <2>2 DEF ReadUndo
  <2>4. /\ desk'[d].pc = "undoing" /\ desk'[d].row = short[me.symbol]
        /\ desk'[d].symbol = me.symbol /\ desk'[d].qty = me.qty /\ desk'[d].side = me.side
    BY <1>1, <2>3 DEF Desk
  <2>5. \A s : Gap(desk'[d], s) = Gap(me, s)
    BY <2>1, <2>4 DEF Gap
  <2>6. AtWork(desk[d])'
    BY <2>1, <2>4 DEF AtWork
  <2>7. \A s \in Symbols : short'[s].qty = short[s].qty + Gap(desk'[d], s) - Gap(me, s)
    BY <1>6, <1>9, <2>1, <2>5 DEF Row
  <2> QED  BY <1>0, <1>1, <1>2, <2>1, <2>4, <2>6, <2>7, DeskLeavesOrders
<1>19. CASE Undo(d)
  <2>1. /\ UNCHANGED orders /\ me.pc = "undoing" /\ me.row = short[me.symbol]
        /\ desk'[d] = IdleDesk
    BY <1>0, <1>1, <1>7, <1>19 DEF Undo, AtWork
  <2>2. short' = [short EXCEPT ![me.symbol] =
                    Stored(me.row, me.row, TakenBack(me.row, me.qty, me.limit * me.qty))]
    BY <1>19, <2>1 DEF Undo
  <2>3. me.qty \in Positive /\ me.qty <= short[me.symbol].qty
    <3>1. short[me.symbol].qty = Net(me.symbol) + WaitingQty(me.symbol) + me.qty
          /\ Net(me.symbol) >= 0
      BY <1>6, <1>7, <2>1 DEF RowsMatch, CoversFit, Gap
    <3>2. me.qty \in Positive
      BY <1>1, <2>1
    <3> QED  BY <1>9, <3>1, <3>2 DEF Positive
  <2>4. short'[me.symbol].qty = short[me.symbol].qty - me.qty
    BY <1>6, <2>1, <2>2, <2>3, WithdrawnQty
  <2>5. \A s \in Symbols : short'[s].qty = short[s].qty + Gap(desk'[d], s) - Gap(me, s)
    BY <1>6, <1>8, <2>1, <2>2, <2>3, <2>4 DEF Gap, Row, Positive
  <2>6. AtWork(desk[d])' /\ desk'[d].pc # "decided"
    BY <1>8, <2>1 DEF AtWork
  <2> QED  BY <1>0, <1>1, <1>2, <2>1, <2>5, <2>6, DeskLeavesOrders
<1> QED
  BY <1>10, <1>11, <1>12, <1>13, <1>14, <1>15, <1>16, <1>17, <1>18, <1>19
     DEF DeskStep, AbandonOrder

(* The desk is idle while an order is settled.                              *)
LEMMA DeskWaits ==
  ASSUME NEW d, Desks = {d}, NEW c, Settlers = {c}, Quiet, ShortInv(d, c),
         RoundStep(c) \/ AbandonRound(c)
  PROVE  desk' = desk /\ desk[d].pc = "idle"
<1>1. desk' = desk
  BY DEF RoundStep, AbandonRound, Look, TransactionStep, BeginRound, EndRound, Skip, Claim,
         PassOver, CheckCash, RejectBuy, ReadRow, Expire, RejectExit, Fill, GiveUp
<1>2. CASE BeginRound(c)
  BY <1>1, <1>2 DEF BeginRound, DesksIdle
<1>3. CASE ~BeginRound(c)
  <2>1. settler[c].pc # "idle"
    BY <1>3 DEF RoundStep, AbandonRound, Look, TransactionStep, EndRound, Skip, Claim,
         PassOver, Faces, CheckCash, RejectBuy, ReadRow, Expire, RejectExit, Fill, GiveUp,
         InTransaction
  <2> QED  BY <1>1, <2>1 DEF ShortInv, Apart
<1> QED  BY <1>2, <1>3

(* An order that was settled leaves the rows and the covers right.          *)
LEMMA SettlingKeepsShort ==
  ASSUME NEW d \in Desks, NEW c \in Settlers, TypeInv, ShortInv(d, c),
         desk' = desk, desk[d].pc = "idle", settler'[c].pc = "settling",
         NEW o \in Pending, Ids' = Ids, \A e \in Ids : e # o => orders'[e] = orders[e],
         orders'[o].status # "pending",
         \A s \in Symbols : short'[s].qty - short[s].qty
                              = Net(s)' - Net(s) - Share(orders[o], s),
         \A s \in Symbols : Net(s)' >= Net(s)
           \/ (o \in Waiting(s, "SHORT_COVER") /\ Net(s)' >= Net(s) - orders[o].qty),
         short' \in [Symbols -> Row], \A s : Net(s)' \in Int
  PROVE  ShortInv(d, c)'
<1>1. \A s : /\ WaitingQty(s)' = WaitingQty(s) - Share(orders[o], s)
             /\ Share(orders[o], s) \in Nat
             /\ WaitingQty(s) \in Nat /\ Net(s) \in Int
             /\ Gap(desk[d], s) = 0
  BY WaitingQtyShrinks, WaitingQtyIsNat, NetIsInt DEF Gap
<1>2. RowsMatch(d)'
  <2> SUFFICES ASSUME NEW s \in Symbols
               PROVE  short'[s].qty = Net(s)' + WaitingQty(s)' + Gap(desk'[d], s)
    BY DEF RowsMatch
  <2>1. short[s].qty \in Int /\ short'[s].qty \in Int
    BY DEF TypeInv, TypeOK, Row
  <2>2. short[s].qty = Net(s) + WaitingQty(s) + Gap(desk[d], s)
    BY DEF ShortInv, RowsMatch
  <2>3. Gap(desk'[d], s) = 0 /\ Net(s)' \in Int
    BY <1>1
  <2>4. short'[s].qty - short[s].qty = Net(s)' - Net(s) - Share(orders[o], s)
    OBVIOUS
  <2>5. WaitingQty(s)' = WaitingQty(s) - Share(orders[o], s) /\ Share(orders[o], s) \in Nat
        /\ WaitingQty(s) \in Nat /\ Net(s) \in Int /\ Gap(desk[d], s) = 0
    BY <1>1
  <2>6. short'[s].qty = Net(s)' + (WaitingQty(s) - Share(orders[o], s)) + 0
    <3> DEFINE a == short[s].qty
               b == short'[s].qty
               n == Net(s)
               m == Net(s)'
               w == WaitingQty(s)
               h == Share(orders[o], s)
    <3>1. a \in Int /\ b \in Int /\ n \in Int /\ m \in Int /\ w \in Int /\ h \in Int
      BY <2>1, <2>3, <2>5
    <3>2. a = n + w + 0
      BY <2>2, <2>5
    <3>3. b - a = m - n - h
      BY <2>4
    <3> HIDE DEF a, b, n, m, w, h
    <3>4. b = m + (w - h) + 0
      BY <3>1, <3>2, <3>3
    <3> QED  BY <3>4 DEF b, m, w, h
  <2> QED  BY <2>3, <2>5, <2>6
<1>3. CoversFit(d)'
  <2> SUFFICES ASSUME NEW s \in Symbols
               PROVE  /\ Net(s)' >= 0
                      /\ \A e, p \in Waiting(s, "SHORT_COVER")' : e = p
                      /\ \A e \in Waiting(s, "SHORT_COVER")' : orders'[e].qty <= Net(s)'
    BY DEF CoversFit
  <2>1. Waiting(s, "SHORT_COVER")' = Waiting(s, "SHORT_COVER") \ {o}
        /\ \A e \in Waiting(s, "SHORT_COVER")' : orders'[e] = orders[e]
    BY DEF Waiting, Pending
  <2>2. /\ Net(s) >= 0
        /\ \A e, p \in Waiting(s, "SHORT_COVER") : e = p
        /\ \A e \in Waiting(s, "SHORT_COVER") : orders[e].qty <= Net(s)
    BY DEF ShortInv, CoversFit
  <2>3. \A e \in Waiting(s, "SHORT_COVER") : orders[e].qty \in Nat
    <3>1. \A e \in Ids : orders[e] \in Order
      BY DEF TypeInv, TypeOK, Ids
    <3> QED  BY <3>1 DEF Waiting, Pending, Order, Positive
  <2>4. CASE Net(s)' >= Net(s)
    BY <1>1, <2>1, <2>2, <2>3, <2>4
  <2>5. CASE o \in Waiting(s, "SHORT_COVER") /\ Net(s)' >= Net(s) - orders[o].qty
    BY <1>1, <2>1, <2>2, <2>3, <2>5
  <2> QED  BY <2>4, <2>5
<1>4. AtWork(desk[d])' /\ RowStands(c)' /\ Apart(d, c)'
  BY DEF AtWork, RowStands, Apart
<1> QED  BY <1>2, <1>3, <1>4 DEF ShortInv

LEMMA SettlerKeepsShort ==
  ASSUME NEW d, Desks = {d}, NEW c, Settlers = {c}, Quiet,
         TypeInv, TypeInv', Held, ShortInv(d, c), RoundStep(c) \/ AbandonRound(c)
  PROVE  ShortInv(d, c)'
<1> DEFINE o == settler[c].order
           x == Mine(c)
<1>0. d \in Desks /\ c \in Settlers
  OBVIOUS
<1>1. /\ desk' = desk /\ desk[d].pc = "idle"
      /\ settler \in [Settlers -> Settler] /\ settler[c] \in Settler
      /\ \A todo : Settling(todo).pc = "settling"
      /\ IdleSettler.pc = "idle"
      /\ short \in [Symbols -> Row] /\ short' \in [Symbols -> Row]
  BY <1>0, DeskWaits, IdleSettlerIsSettler DEF TypeInv, TypeOK, Settling
<1>2. \A s : Net(s) \in Int /\ Net(s)' \in Int
  <2>1. (\A s : Net(s) \in Int)'
    BY NetIsInt, PTL
  <2> QED  BY <2>1, NetIsInt
<1>3. InTransaction(c) => o \in Pending /\ x \in Order /\ x = orders[o]
  BY <1>0 DEF Held, Mine, Pending, TypeInv, TypeOK, Ids
<1>4. ASSUME NEW status \in Status \ {"filled", "pending"}, Close(c, status),
             InTransaction(c),
             \A s \in Symbols : short'[s].qty = short[s].qty - Share(orders[o], s)
      PROVE  ShortInv(d, c)'
  <2>1. Ids' = Ids /\ settler'[c].pc = "settling"
    BY <1>0, <1>1, <1>4, CloseKeepsIds
  <2>2. /\ \A e \in Ids : e # o => orders'[e] = orders[e]
        /\ orders'[o].status = status
    <3>1. orders \in Seq(Order) /\ o \in Ids /\ orders[o] \in Order
      BY <1>3, <1>4 DEF TypeInv, TypeOK, Pending, Ids
    <3> QED  BY <1>4, <3>1 DEF Close, Ids, Order
  <2>3. Filled' = Filled /\ \A e \in Filled : orders'[e] = orders[e]
    BY <1>3, <1>4, <2>1, <2>2 DEF Filled, Pending
  <2>4. \A s : Net(s)' = Net(s)
    BY <2>3, FilledQtyStays DEF Net
  <2>5. \A s : Share(orders[o], s) \in Nat
    BY <1>3, <1>4 DEF Share, Order, Positive
  <2>6. \A s \in Symbols : short'[s].qty - short[s].qty
                             = Net(s)' - Net(s) - Share(orders[o], s)
    BY <1>1, <1>2, <1>4, <2>4, <2>5 DEF Row
  <2>7. \A s \in Symbols : Net(s)' >= Net(s)
    BY <1>2, <2>4
  <2> HIDE DEF o
  <2> QED  BY <1>0, <1>1, <1>2, <1>3, <1>4, <2>1, <2>2, <2>6, <2>7, SettlingKeepsShort
<1>5. CASE RejectBuy(c)
  <2>1. Close(c, "rejected") /\ InTransaction(c) /\ short' = short /\ x.side = "BUY"
    BY <1>5 DEF RejectBuy, Reject, NeedsCash, InTransaction, account
  <2>2. \A s : Share(orders[o], s) = 0
    BY <1>3, <2>1 DEF Share
  <2>3. "rejected" \in Status \ {"filled", "pending"}
    BY DEF Status
  <2>4. \A s \in Symbols : short[s].qty = short[s].qty - 0
    BY <1>1 DEF Row
  <2> QED  BY <1>4, <2>1, <2>2, <2>3, <2>4
<1>6. CASE RejectExit(c)
  <2>1. Close(c, "rejected") /\ InTransaction(c) /\ short' = short
        /\ FillQty(x, settler[c].row) = 0
    BY <1>6 DEF RejectExit, Reject, FillsNothing, InTransaction, account
  <2>2. x.side # "SHORT"
    BY <1>3, <2>1 DEF FillQty, Order, Positive
  <2>3. \A s : Share(orders[o], s) = 0
    BY <1>3, <2>1, <2>2 DEF Share
  <2>4. "rejected" \in Status \ {"filled", "pending"}
    BY DEF Status
  <2>5. \A s \in Symbols : short[s].qty = short[s].qty - 0
    BY <1>1 DEF Row
  <2> QED  BY <1>4, <2>1, <2>3, <2>4, <2>5
<1>7. CASE Expire(c)
  <2>1. Close(c, "expired") /\ InTransaction(c) /\ Withdraw(c) /\ settler[c].pc = "ready"
    BY <1>7 DEF Expire, InTransaction
  <2>2. "expired" \in Status \ {"filled", "pending"}
    BY DEF Status
  <2>3. x \in Order /\ x = orders[o] /\ o \in Pending /\ x.qty \in Positive
        /\ x.symbol \in Symbols
    BY <1>3, <2>1 DEF Order
  <2>4. CASE x.side = "SHORT"
    <3>1. Shorts(o)
      BY <2>3, <2>4 DEF Shorts
    <3>2. settler[c].row = short[x.symbol] /\ RowOf(o) = short[x.symbol]
      BY <2>1, <2>3, <3>1 DEF ShortInv, RowStands, RowOf
    <3>3. short[x.symbol] \in Row
      BY <1>1, <2>3
    <3>4. x.qty <= short[x.symbol].qty
      <4>1. x.qty <= WaitingQty(x.symbol) /\ WaitingQty(x.symbol) \in Nat
        <5>1. o \in Of(x.symbol, "SHORT", "pending")
          BY <2>3, <2>4 DEF Of, Pending
        <5> DEFINE S == Of(x.symbol, "SHORT", "pending")
        <5>2. S \in SUBSET Ids
          BY OfSubset
        <5> HIDE DEF S
        <5>3. IsFiniteSet(S \ {o}) /\ IntOn(QtyOf, S \ {o}) /\ Total(QtyOf, S \ {o}) \in Nat
          BY <5>2, ColumnsAreInt, TotalsAreInt
        <5>4. QtyOf[o] = x.qty
          BY <2>3 DEF QtyOf, Pending
        <5>5. QtyOf[o] \in Nat
          BY <2>3, <5>4 DEF Positive
        <5>6. o \notin S \ {o} /\ S = (S \ {o}) \union {o}
          BY <5>1 DEF S
        <5>7. Total(QtyOf, (S \ {o}) \union {o}) = Total(QtyOf, S \ {o}) + QtyOf[o]
          <6> DEFINE r == S \ {o}
          <6>1. IsFiniteSet(r) /\ IntOn(QtyOf, r) /\ o \notin r /\ QtyOf[o] \in Int
            BY <5>3, <5>5, <5>6
          <6> HIDE DEF r
          <6>2. Total(QtyOf, r \union {o}) = Total(QtyOf, r) + QtyOf[o]
            BY <6>1, TotalAdd
          <6> QED  BY <6>2 DEF r
        <5>8. Total(QtyOf, S) = Total(QtyOf, S \ {o}) + x.qty
          BY <5>4, <5>6, <5>7
        <5> QED  BY <5>3, <5>4, <5>5, <5>8, WaitingQtyIsNat DEF WaitingQty, S
      <4>2. short[x.symbol].qty = Net(x.symbol) + WaitingQty(x.symbol) + 0 /\ Net(x.symbol) >= 0
        BY <1>1, <2>3 DEF ShortInv, RowsMatch, CoversFit, Gap
      <4> QED  BY <1>2, <2>3, <4>1, <4>2 DEF Positive
    <3>5. short' = [short EXCEPT ![x.symbol] =
                      Stored(short[x.symbol], short[x.symbol],
                             TakenBack(short[x.symbol], x.qty, x.limit * x.qty))]
      <4>1. settler[c].row.qty > 0
        BY <2>3, <3>2, <3>3, <3>4 DEF Positive, Row
      <4> QED  BY <2>1, <2>3, <2>4, <3>1, <3>2, <4>1 DEF Withdraw, Store
    <3>6. short'[x.symbol].qty = short[x.symbol].qty - x.qty
      BY <1>1, <2>3, <3>3, <3>4, <3>5, WithdrawnQty
    <3>7. \A s \in Symbols : short'[s].qty = short[s].qty - Share(orders[o], s)
      <4> TAKE s \in Symbols
      <4>1. CASE s = x.symbol
        BY <2>3, <2>4, <3>6, <4>1 DEF Share
      <4>2. CASE s # x.symbol
        <5>1. short'[s] = short[s] /\ Share(orders[o], s) = 0 /\ short[s].qty \in Nat
          BY <1>1, <2>3, <3>5, <4>2 DEF Share, Row
        <5> QED  BY <5>1
      <4> QED  BY <4>1, <4>2
    <3> QED  BY <1>4, <2>1, <2>2, <3>7
  <2>5. CASE x.side # "SHORT"
    <3>1. short' = short
      BY <2>1, <2>5 DEF Withdraw
    <3>2. \A s : Share(orders[o], s) = 0
      BY <2>3, <2>5 DEF Share
    <3>3. \A s \in Symbols : short[s].qty = short[s].qty - 0
      BY <1>1 DEF Row
    <3> QED  BY <1>4, <2>1, <2>2, <3>1, <3>2, <3>3
  <2> QED  BY <2>4, <2>5
<1>8. CASE Fill(c)
  <2> DEFINE row == settler[c].row
             p == settler[c].price
             k == FillQty(x, row)
  <2>1. /\ settler[c].pc = "ready" /\ o \in Pending \ Filled /\ Ids' = Ids
        /\ x \in Order /\ row \in Row /\ p \in Nat /\ x = orders[o]
        /\ \A e \in Ids : e # o => orders'[e] = orders[e]
        /\ orders'[o].status = "filled"
    BY <1>0, <1>8, FilledGrows, FillEffect DEF Mine
  <2>2. settler'[c].pc = "settling"
    BY <1>0, <1>1, <1>8 DEF Fill
  <2>3. k \in Nat /\ (k = x.qty \/ x.side \in {"SELL", "SHORT_COVER"}) /\ k <= x.qty
    BY <2>1 DEF FillQty, Lesser, Order, Row, Positive
  <2>4. \A s : Net(s)' = Net(s) + (IF x.symbol = s /\ x.side = "SHORT" THEN k ELSE 0)
                                - (IF x.symbol = s /\ x.side = "SHORT_COVER" THEN k ELSE 0)
    <3>1. \A s, side : FilledQty(s, side)' = FilledQty(s, side) +
                         IF x.symbol = s /\ x.side = side THEN k ELSE 0
      BY <1>0, <1>8, FilledQtyGrows
    <3>2. \A s, side : FilledQty(s, side) \in Nat
      BY FilledQtyIsNat
    <3> HIDE DEF x, k
    <3> QED  BY <2>3, <3>1, <3>2 DEF Net
  <2>5. Store(o, StoredFill(x, p, row, RowOf(o)))
    BY <1>8 DEF Fill
  <2>6. x.symbol \in Symbols /\ x.qty \in Positive
    BY <2>1 DEF Order
  <2>7. CASE x.side \notin {"SHORT", "SHORT_COVER"}
    <3>1. ~Shorts(o)
      BY <2>1, <2>7 DEF Shorts
    <3>2. short' = short
      BY <2>5, <3>1 DEF Store
    <3>3. \A s : Share(orders[o], s) = 0 /\ Net(s)' = Net(s)
      BY <1>2, <2>1, <2>4, <2>7 DEF Share
    <3>4. \A s \in Symbols : short'[s].qty - short[s].qty
                               = Net(s)' - Net(s) - Share(orders[o], s)
      BY <1>1, <1>2, <3>2, <3>3 DEF Row
    <3>5. \A s \in Symbols : Net(s)' >= Net(s)
      BY <1>2, <3>3
    <3> HIDE DEF o
    <3> QED  BY <1>0, <1>1, <1>2, <2>1, <2>2, <3>4, <3>5, SettlingKeepsShort
  <2>8. CASE x.side \in {"SHORT", "SHORT_COVER"}
    <3>1. Shorts(o)
      BY <2>1, <2>8 DEF Shorts
    <3>2. row = short[x.symbol] /\ RowOf(o) = short[x.symbol]
      BY <2>1, <3>1 DEF ShortInv, RowStands, RowOf
    <3>3. short' = [short EXCEPT ![x.symbol] = StoredFill(x, p, row, row)]
      BY <2>1, <2>5, <3>1, <3>2 DEF Store
    <3>4. \A s \in Symbols : s # x.symbol => short'[s] = short[s]
      BY <1>1, <3>3
    <3>5. /\ WaitingQty(x.symbol) \in Nat /\ Net(x.symbol) >= 0
          /\ short[x.symbol].qty = Net(x.symbol) + WaitingQty(x.symbol) + 0
          /\ Share(orders[o], x.symbol) <= WaitingQty(x.symbol)
      BY <1>1, <2>1, <2>6, WaitingQtyIsNat, WaitingQtyShrinks
         DEF ShortInv, RowsMatch, CoversFit, Gap
    <3>6. CASE x.side = "SHORT"
      <4>1. row.qty > 0 /\ k = x.qty
        <5>1. Share(orders[o], x.symbol) = x.qty
          BY <2>1, <3>6 DEF Share
        <5>2. k = x.qty
          BY <3>6 DEF FillQty
        <5> QED  BY <1>2, <2>6, <3>2, <3>5, <5>1, <5>2 DEF Positive
      <4>2. short'[x.symbol].qty = short[x.symbol].qty
        <5>1. StoredFill(x, p, row, row).qty = row.qty
          BY <2>1, <3>6, <4>1, ShortFill
        <5> QED  BY <1>1, <2>6, <3>2, <3>3, <5>1
      <4>3. \A s : Net(s)' = Net(s) + Share(orders[o], s) /\ Share(orders[o], s) \in Nat
        BY <1>2, <2>1, <2>3, <2>4, <3>6, <4>1 DEF Share
      <4>4. \A s \in Symbols : short'[s].qty = short[s].qty /\ short[s].qty \in Nat
        BY <1>1, <3>4, <4>2 DEF Row
      <4>5. \A s \in Symbols : short'[s].qty - short[s].qty
                                 = Net(s)' - Net(s) - Share(orders[o], s)
        BY <1>2, <4>3, <4>4
      <4>6. \A s \in Symbols : Net(s)' >= Net(s)
        BY <1>2, <4>3
      <4> HIDE DEF o
      <4> QED  BY <1>0, <1>1, <1>2, <2>1, <2>2, <4>5, <4>6, SettlingKeepsShort
    <3>7. CASE x.side = "SHORT_COVER"
      <4>1. short'[x.symbol].qty = short[x.symbol].qty - k
        <5>1. StoredFill(x, p, row, row).qty = row.qty - k
          BY <2>1, <3>7, ShortFill
        <5> QED  BY <1>1, <2>6, <3>2, <3>3, <5>1
      <4>2. \A s : Share(orders[o], s) = 0
        BY <2>1, <3>7 DEF Share
      <4>3. \A s \in Symbols : short'[s].qty - short[s].qty
                                 = Net(s)' - Net(s) - Share(orders[o], s)
        <5> TAKE s \in Symbols
        <5>0. short[s].qty \in Nat
          BY <1>1 DEF Row
        <5>1. CASE s = x.symbol
          <6>1. Net(s)' = Net(s) + 0 - k
            BY <2>4, <3>7, <5>1
          <6> HIDE DEF k
          <6> QED  BY <1>2, <2>3, <4>1, <4>2, <5>0, <5>1, <6>1
        <5>2. CASE s # x.symbol
          <6>1. Net(s)' = Net(s) + 0 - 0
            BY <2>4, <5>2
          <6> QED  BY <1>2, <3>4, <4>2, <5>0, <5>2, <6>1
        <5> QED  BY <5>1, <5>2
      <4>4. o \in Waiting(x.symbol, "SHORT_COVER")
        BY <2>1, <3>7 DEF Waiting
      <4>5. \A s \in Symbols : Net(s)' >= Net(s)
              \/ (o \in Waiting(s, "SHORT_COVER") /\ Net(s)' >= Net(s) - orders[o].qty)
        <5> TAKE s \in Symbols
        <5>1. CASE s = x.symbol
          <6>1. Net(s)' = Net(s) + 0 - k
            BY <2>4, <3>7, <5>1
          <6>2. Net(s)' >= Net(s) - x.qty
            <7> HIDE DEF k
            <7> QED  BY <1>2, <2>3, <2>6, <6>1 DEF Positive
          <6> QED  BY <2>1, <4>4, <5>1, <6>2
        <5>2. CASE s # x.symbol
          <6>1. Net(s)' = Net(s) + 0 - 0
            BY <2>4, <5>2
          <6> QED  BY <1>2, <6>1
        <5> QED  BY <5>1, <5>2
      <4> HIDE DEF o
      <4> QED  BY <1>0, <1>1, <1>2, <2>1, <2>2, <4>3, <4>5, SettlingKeepsShort
    <3> QED  BY <2>8, <3>6, <3>7
  <2> QED  BY <2>7, <2>8
<1>9. CASE ~(RejectBuy(c) \/ RejectExit(c) \/ Expire(c) \/ Fill(c))
  <2>1. UNCHANGED <<orders, short>>
    BY <1>9 DEF RoundStep, AbandonRound, Look, TransactionStep, BeginRound, EndRound,
                Skip, Claim, PassOver, CheckCash, ReadRow, GiveUp, account
  <2>2. RowStands(c)'
    <3>1. CASE ReadRow(c)
      <4>1. settler'[c].order = o /\ settler'[c].row = RowOf(o)
        BY <1>0, <1>1, <3>1 DEF ReadRow, Settler
      <4> QED  BY <2>1, <4>1 DEF RowStands, RowOf, Shorts, Mine
    <3>2. CASE ~ReadRow(c)
      <4>1. settler'[c].pc # "ready"
        <5>1. CASE CheckCash(c)
          BY <1>0, <1>1, <5>1 DEF CheckCash, Settler
        <5>2. ASSUME NEW e \in settler[c].todo, Claim(c, e)
              PROVE  settler'[c].pc # "ready"
          BY <1>0, <1>1, <5>2 DEF Claim, Settler
        <5> QED
          BY <1>0, <1>1, <1>9, <3>2, <5>1, <5>2
             DEF RoundStep, AbandonRound, Look, TransactionStep, BeginRound, EndRound,
                 Skip, PassOver, GiveUp
      <4> QED  BY <4>1 DEF RowStands
    <3> QED  BY <3>1, <3>2
  <2>3. /\ Filled' = Filled /\ Pending' = Pending /\ Ids' = Ids
        /\ \A s, side : Waiting(s, side)' = Waiting(s, side)
    BY <2>1 DEF Filled, Pending, Ids, Waiting
  <2>4. \A s : Net(s)' = Net(s) /\ WaitingQty(s)' = WaitingQty(s)
    BY <2>1, <2>3, FilledQtyStays, WaitingQtyStays DEF Net
  <2>5. RowsMatch(d)' /\ CoversFit(d)'
    BY <1>1, <2>1, <2>3, <2>4 DEF ShortInv, RowsMatch, CoversFit
  <2>6. AtWork(desk[d])' /\ Apart(d, c)'
    BY <1>1 DEF AtWork, Apart
  <2> QED  BY <2>2, <2>5, <2>6 DEF ShortInv
<1> QED  BY <1>5, <1>6, <1>7, <1>8, <1>9

LEMMA ShortInvPreserved ==
  ASSUME NEW d, Desks = {d}, NEW c, Settlers = {c}, Quiet, ~Faults
  PROVE  TypeInv /\ TypeInv' /\ Held /\ ShortInv(d, c) /\ [Next]_vars => ShortInv(d, c)'
<1> SUFFICES ASSUME TypeInv, TypeInv', Held, ShortInv(d, c), [Next]_vars
             PROVE  ShortInv(d, c)'
  OBVIOUS
<1>1. CASE Decide(d) \/ DeskStep(d) \/ AbandonOrder(d)
  BY <1>1, DeskKeepsShort
<1>2. CASE RoundStep(c) \/ AbandonRound(c)
  BY <1>2, SettlerKeepsShort
<1>3. CASE UNCHANGED vars
  <2>1. UNCHANGED <<orders, short, settler, desk>>
    BY <1>3 DEF vars, account
  <2>2. /\ Filled' = Filled /\ Pending' = Pending /\ Ids' = Ids
        /\ \A s, side : Waiting(s, side)' = Waiting(s, side)
    BY <2>1 DEF Filled, Pending, Ids, Waiting
  <2>3. \A s : Net(s)' = Net(s) /\ WaitingQty(s)' = WaitingQty(s)
    BY <2>1, <2>2, FilledQtyStays, WaitingQtyStays DEF Net
  <2>4. RowsMatch(d)' /\ CoversFit(d)'
    BY <2>1, <2>2, <2>3 DEF ShortInv, RowsMatch, CoversFit
  <2>5. AtWork(desk[d])' /\ RowStands(c)' /\ Apart(d, c)'
    BY <2>1, <2>2 DEF ShortInv, AtWork, RowStands, Apart, Shorts, Mine
  <2> QED  BY <2>4, <2>5 DEF ShortInv
<1> QED  BY <1>1, <1>2, <1>3 DEF Next

LEMMA ShortInvAtFirst ==
  ASSUME NEW d, Desks = {d}, NEW c, Settlers = {c}, Init
  PROVE  ShortInv(d, c)
<1>1. /\ Pending = {} /\ desk[d].pc = "idle" /\ settler[c].pc = "idle"
      /\ \A s \in Symbols : short[s].qty = 0
  BY IdleDeskIsDesk, IdleSettlerIsSettler DEF Init, Pending, Ids, NoRow
<1>2. \A s : Net(s) = 0 /\ WaitingQty(s) = 0
  <2>1. \A s : Of(s, "SHORT", "pending") = {}
    BY <1>1 DEF Of, Pending
  <2>2. \A s : WaitingQty(s) = 0
    BY <2>1, TotalEmpty DEF WaitingQty
  <2> QED  BY <2>2, NothingFilledAtFirst DEF Net
<1> QED  BY <1>1, <1>2 DEF ShortInv, RowsMatch, CoversFit, AtWork, RowStands, Apart, Gap, Waiting

LEMMA ShortInvAlways ==
  ASSUME NEW d, Desks = {d}, NEW c, Settlers = {c}, Quiet, ~Faults
  PROVE  Spec => []ShortInv(d, c)
<1>1. Init => ShortInv(d, c)
  BY ShortInvAtFirst
<1>2. TypeInv /\ TypeInv' /\ Held /\ ShortInv(d, c) /\ [Next]_vars => ShortInv(d, c)'
  BY ShortInvPreserved
<1> QED  BY <1>1, <1>2, TypesHold, HeldAlways, PTL DEF Spec

(* When no desk works while orders are settled, and nothing dies, a row of  *)
(* paper_short_positions is what was sold short and not covered and what    *)
(* waits to be sold short, through every registration, withdrawal, expiry   *)
(* and fill.                                                                *)
THEOREM ShortRowsAreTheOrders ==
  ASSUME NEW d, Desks = {d}, NEW c, Settlers = {c}, Quiet, ~Faults
  PROVE  Spec => []ShortMatchesOrders
<1>1. TypeInv /\ ShortInv(d, c) => ShortMatchesOrders
  <2> SUFFICES ASSUME TypeInv, ShortInv(d, c), NEW s \in Symbols, Registered(s)
               PROVE  short[s].qty = Shares(Of(s, "SHORT", "filled"))
                                     - Shares(Of(s, "SHORT_COVER", "filled"))
                                     + Shares(Of(s, "SHORT", "pending"))
    BY DEF ShortMatchesOrders
  <2>1. /\ Shares(Of(s, "SHORT", "filled")) = FilledQty(s, "SHORT")
        /\ Shares(Of(s, "SHORT_COVER", "filled")) = FilledQty(s, "SHORT_COVER")
        /\ Shares(Of(s, "SHORT", "pending")) = WaitingQty(s)
    BY OfSubset, SharesTotal DEF FilledQty, WaitingQty
  <2>2. Gap(desk[d], s) = 0
    BY DEF Registered, Gap
  <2>3. short[s].qty = Net(s) + WaitingQty(s) + Gap(desk[d], s)
    BY DEF ShortInv, RowsMatch
  <2>4. Net(s) \in Int /\ WaitingQty(s) \in Nat
    BY NetIsInt, WaitingQtyIsNat
  <2> QED  BY <2>1, <2>2, <2>3, <2>4 DEF Net
<1> QED  BY <1>1, ShortInvAlways, TypesHold, PTL

(* Under the same conditions no more shares are covered than were sold      *)
(* short: the quantity of a cover was computed (coverable_short_qty) before *)
(* it waited, and is still there when it is filled.                         *)
THEOREM CoversAreFilledShorts ==
  ASSUME NEW d, Desks = {d}, NEW c, Settlers = {c}, Quiet, ~Faults
  PROVE  Spec => []CoverOnlyFilled
<1>1. TypeInv /\ ShortInv(d, c) => CoverOnlyFilled
  <2> SUFFICES ASSUME TypeInv, ShortInv(d, c), NEW s \in Symbols
               PROVE  Shares(Of(s, "SHORT_COVER", "filled")) <= Shares(Of(s, "SHORT", "filled"))
    BY DEF CoverOnlyFilled
  <2>1. /\ Shares(Of(s, "SHORT", "filled")) = FilledQty(s, "SHORT")
        /\ Shares(Of(s, "SHORT_COVER", "filled")) = FilledQty(s, "SHORT_COVER")
    BY OfSubset, SharesTotal DEF FilledQty
  <2>2. Net(s) >= 0
    BY DEF ShortInv, CoversFit
  <2> QED  BY <2>1, <2>2, FilledQtyIsNat DEF Net
<1> QED  BY <1>1, ShortInvAlways, TypesHold, PTL

-----------------------------------------------------------------------------
(* The amounts of the shorts                                                *)

ProvOf == [o \in Ids |-> orders[o].qty * orders[o].limit]

LEMMA ProductIsInt == \A a, b \in Int : a * b \in Int /\ a * b = b * a
OBVIOUS

LEMMA ProvIsInt ==
  ASSUME TypeInv, NEW S \in SUBSET Ids
  PROVE  IsFiniteSet(S) /\ IntOn(ProvOf, S) /\ Total(ProvOf, S) \in Int
<1>1. ASSUME NEW o \in S
      PROVE  ProvOf[o] \in Int
  <2>1. orders[o] \in Order
    BY DEF TypeInv, TypeOK, Ids
  <2>2. orders[o].qty \in Int /\ orders[o].limit \in Int
    BY <2>1 DEF Order, Positive
  <2>3. orders[o].qty * orders[o].limit \in Int
    BY <2>2, ProductIsInt
  <2> QED  BY <2>3 DEF ProvOf
<1>2. IsFiniteSet(S)
  BY IdsFinite, FS_Subset
<1>3. IntOn(ProvOf, S)
  BY <1>1 DEF IntOn
<1> QED  BY <1>2, <1>3, TotalInt

LEMMA ProvisionalTotal ==
  ASSUME TypeInv, NEW S \in SUBSET Ids
  PROVE  Provisional(S) = Total(ProvOf, S)
<1> DEFINE Iter(g) == g = [s \in SUBSET S |->
             IF s = {} THEN 0
             ELSE orders[CHOOSE x \in s : TRUE].qty * orders[CHOOSE x \in s : TRUE].limit
                  + g[s \ {CHOOSE x \in s : TRUE}]]
<1>1. Provisional(S) = (CHOOSE g : Iter(g))[S]
  BY DEF Provisional, MapThenSumSet, MapThenFoldSet
<1>2. ASSUME NEW g PROVE Iter(g) <=> Iterates(g, ProvOf, S)
  <2>1. \A s \in SUBSET S : s # {} =>
          ProvOf[CHOOSE x \in s : TRUE]
            = orders[CHOOSE x \in s : TRUE].qty * orders[CHOOSE x \in s : TRUE].limit
    BY DEF ProvOf
  <2> QED  BY <2>1 DEF Iterates
<1> HIDE DEF Iter
<1>3. IsFiniteSet(S) /\ IntOn(ProvOf, S)
  BY ProvIsInt
<1>4. \E g : Iter(g)
  BY <1>2, <1>3, TotalIterates
<1>5. \E g : Iter(g) /\ Provisional(S) = g[S]
  BY <1>1, <1>4
<1> QED  BY <1>2, <1>3, <1>5, IteratesIsTotal

(* The amount the shorts of a symbol were filled for, and the one that      *)
(* those that wait are registered for.                                      *)
FilledAmount(s) == Total(AmountOf, Of(s, "SHORT", "filled"))
WaitingAmount(s) == Total(ProvOf, Of(s, "SHORT", "pending"))

(* What an order that waits adds to the second one.                         *)
Part(x, s) == IF x.symbol = s /\ x.side = "SHORT" THEN x.qty * x.limit ELSE 0

LEMMA PartIsInt ==
  ASSUME NEW x \in Order
  PROVE  \A s : Part(x, s) \in Int
<1>1. x.qty \in Int /\ x.limit \in Int
  BY DEF Order, Positive
<1>2. x.qty * x.limit \in Int
  BY <1>1, ProductIsInt
<1> QED  BY <1>2 DEF Part

LEMMA AmountsAreInt ==
  ASSUME TypeInv
  PROVE  \A s : FilledAmount(s) \in Int /\ WaitingAmount(s) \in Int
BY OfSubset, TotalsAreInt, ProvIsInt DEF FilledAmount, WaitingAmount

LEMMA WaitingAmountStays ==
  ASSUME TypeInv, Pending' = Pending, \A o \in Pending : orders'[o] = orders[o]
  PROVE  \A s : WaitingAmount(s)' = WaitingAmount(s)
<1> TAKE s
<1>1. Of(s, "SHORT", "pending")' = Of(s, "SHORT", "pending")
  BY DEF Of, Pending
<1>2. \A o \in Of(s, "SHORT", "pending") : ProvOf'[o] = ProvOf[o]
  BY <1>1 DEF Of, Pending, ProvOf
<1>3. Total(ProvOf', Of(s, "SHORT", "pending")) = Total(ProvOf, Of(s, "SHORT", "pending"))
  BY <1>2, TotalSame
<1> QED  BY <1>1, <1>3 DEF WaitingAmount

LEMMA WaitingAmountGrows ==
  ASSUME TypeInv, TypeInv', NEW n \in Ids' \ Ids, Ids' = Ids \union {n},
         \A o \in Ids : orders'[o] = orders[o], orders'[n].status = "pending"
  PROVE  \A s : WaitingAmount(s)' = WaitingAmount(s) + Part(orders'[n], s)
<1> TAKE s
<1> DEFINE S == Of(s, "SHORT", "pending")
           m == orders'[n].qty * orders'[n].limit
<1>1. /\ S \in SUBSET Ids /\ n \notin S
      /\ \A o \in S : ProvOf'[o] = ProvOf[o]
  BY OfSubset DEF ProvOf
<1>2. m \in Int
  <2>1. orders'[n] \in Order
    BY DEF TypeInv, TypeOK, Ids
  <2>2. orders'[n].qty \in Int /\ orders'[n].limit \in Int
    BY <2>1 DEF Order, Positive
  <2> QED  BY <2>2, ProductIsInt
<1>3. ProvOf'[n] = m
  BY DEF ProvOf
<1>4. IsFiniteSet(S) /\ IntOn(ProvOf, S) /\ Total(ProvOf, S) \in Int
  BY <1>1, ProvIsInt
<1>5. CASE orders'[n].symbol = s /\ orders'[n].side = "SHORT"
  <2>1. S' = S \union {n}
    BY <1>5 DEF Of
  <2>2. Part(orders'[n], s) = m
    BY <1>5 DEF Part
  <2>3. ProvOf'[n] \in Int /\ n \notin S /\ IsFiniteSet(S) /\ IntOn(ProvOf, S)
        /\ \A o \in S : ProvOf'[o] = ProvOf[o]
    BY <1>1, <1>2, <1>3, <1>4
  <2> HIDE DEF S, m
  <2>4. Total(ProvOf', S \union {n}) = Total(ProvOf, S) + ProvOf'[n]
    BY <2>3, TotalGrows
  <2> QED  BY <1>3, <2>1, <2>2, <2>4 DEF WaitingAmount, S
<1>6. CASE ~(orders'[n].symbol = s /\ orders'[n].side = "SHORT")
  <2>1. S' = S
    BY <1>6 DEF Of
  <2>2. Total(ProvOf', S) = Total(ProvOf, S)
    BY <1>1, TotalSame
  <2>3. Part(orders'[n], s) = 0
    BY <1>6 DEF Part
  <2> QED  BY <1>4, <2>1, <2>2, <2>3 DEF WaitingAmount
<1> QED  BY <1>5, <1>6

LEMMA WaitingAmountShrinks ==
  ASSUME TypeInv, NEW x \in Pending, Ids' = Ids,
         \A o \in Ids : o # x => orders'[o] = orders[o], orders'[x].status # "pending"
  PROVE  \A s : WaitingAmount(s)' = WaitingAmount(s) - Part(orders[x], s)
<1> TAKE s
<1> DEFINE S == Of(s, "SHORT", "pending")
           r == S \ {x}
<1>1. r \in SUBSET Ids /\ S \in SUBSET Ids
  BY OfSubset
<1>2. S' = r
  BY DEF Of
<1>3. \A o \in r : ProvOf'[o] = ProvOf[o]
  BY <1>1 DEF ProvOf
<1>4. Total(ProvOf', r) = Total(ProvOf, r)
  BY <1>3, TotalSame
<1>5. IsFiniteSet(r) /\ IntOn(ProvOf, r) /\ Total(ProvOf, r) \in Int
  BY <1>1, ProvIsInt
<1>6. WaitingAmount(s) = Total(ProvOf, S) /\ WaitingAmount(s)' = Total(ProvOf, r)
  BY <1>2, <1>4 DEF WaitingAmount
<1>7. x \in Ids /\ orders[x] \in Order
  BY DEF Pending, TypeInv, TypeOK, Ids
<1>8. CASE orders[x].symbol = s /\ orders[x].side = "SHORT"
  <2>1. x \in S /\ S = r \union {x} /\ x \notin r
    BY <1>8 DEF Of, Pending
  <2>2. ProvOf[x] = Part(orders[x], s)
    BY <1>7, <1>8 DEF ProvOf, Part
  <2>3. Part(orders[x], s) \in Int
    BY <1>7, PartIsInt
  <2> HIDE DEF S, r
  <2>4. Total(ProvOf, r \union {x}) = Total(ProvOf, r) + ProvOf[x]
    BY <1>5, <2>1, <2>2, <2>3, TotalAdd
  <2> QED  BY <1>5, <1>6, <2>1, <2>2, <2>3, <2>4
<1>9. CASE ~(orders[x].symbol = s /\ orders[x].side = "SHORT")
  <2>1. S = r
    BY <1>9 DEF Of
  <2>2. Part(orders[x], s) = 0
    BY <1>9 DEF Part
  <2> QED  BY <1>5, <1>6, <2>1, <2>2
<1> QED  BY <1>8, <1>9

LEMMA FilledAmountStays ==
  ASSUME TypeInv, Filled' = Filled, \A o \in Filled : orders'[o] = orders[o]
  PROVE  \A s : FilledAmount(s)' = FilledAmount(s)
<1> TAKE s
<1>1. Of(s, "SHORT", "filled")' = Of(s, "SHORT", "filled")
  BY DEF Of, Filled
<1>2. /\ Of(s, "SHORT", "filled") \in SUBSET Ids /\ Of(s, "SHORT", "filled") \subseteq Ids'
      /\ \A o \in Of(s, "SHORT", "filled") : orders'[o] = orders[o]
  BY OfSubset DEF Filled
<1>3. Total(AmountOf', Of(s, "SHORT", "filled")) = Total(AmountOf, Of(s, "SHORT", "filled"))
  BY <1>2, SumStays
<1> QED  BY <1>1, <1>3 DEF FilledAmount

LEMMA FilledAmountGrows ==
  ASSUME TypeInv, TypeInv', Held, NEW c \in Settlers, Fill(c)
  PROVE  \A s :
           FilledAmount(s)' = FilledAmount(s) +
             IF Mine(c).symbol = s /\ Mine(c).side = "SHORT"
             THEN Mine(c).qty * settler[c].price ELSE 0
<1> DEFINE o == settler[c].order
<1> TAKE s
<1> DEFINE S == Of(s, "SHORT", "filled")
<1>1. /\ o \in Pending \ Filled /\ Ids' = Ids
      /\ Filled' = Filled \union {o}
      /\ \A e \in Filled : orders'[e] = orders[e]
  BY FilledGrows
<1>2. /\ orders'[o].qty = FillQty(Mine(c), settler[c].row)
      /\ orders'[o].price = settler[c].price
  BY FillEffect DEF Mine
<1>3. o \in Ids' /\ orders'[o].symbol = Mine(c).symbol /\ orders'[o].side = Mine(c).side
  <2>1. Next
    BY DEF Next, RoundStep, TransactionStep
  <2> QED  BY <1>1, <2>1, OrdersKeep DEF Mine, Pending
<1>4. /\ S \in SUBSET Ids /\ S \subseteq Ids' /\ o \notin S
      /\ \A e \in S : orders'[e] = orders[e]
  BY <1>1, OfSubset DEF Of, Filled
<1>5. CASE Mine(c).symbol = s /\ Mine(c).side = "SHORT"
  <2>1. S' = S \union {o}
    BY <1>1, <1>3, <1>5 DEF Of, Filled
  <2>2. Total(AmountOf', S \union {o}) = Total(AmountOf, S) + orders'[o].qty * orders'[o].price
    BY <1>3, <1>4, SumGrows
  <2>3. orders'[o].qty = Mine(c).qty
    BY <1>2, <1>5 DEF FillQty
  <2> QED  BY <1>2, <1>5, <2>1, <2>2, <2>3 DEF FilledAmount
<1>6. CASE ~(Mine(c).symbol = s /\ Mine(c).side = "SHORT")
  <2>1. S' = S
    BY <1>1, <1>3, <1>6 DEF Of, Filled
  <2>2. Total(AmountOf', S) = Total(AmountOf, S) /\ Total(AmountOf, S) \in Int
    BY <1>4, SumStays, TotalsAreInt
  <2> QED  BY <1>6, <2>1, <2>2 DEF FilledAmount
<1> QED  BY <1>5, <1>6

(* The averages are exact: prices are in a unit fine enough for the ones    *)
(* that the statements compute.  The code keeps averages unrounded.         *)
Whole(a, b) == (a \div b) * b = a

(* The averages that the next statement of a desk or a settler computes.    *)
WholeAtDesk(me) ==
  /\ me.pc = "registering" =>
       Whole(Worth(me.row) + me.limit * me.qty, me.row.qty + me.qty)
  /\ me.pc = "undoing" /\ me.row.qty > me.qty =>
       Whole(Worth(me.row) - me.limit * me.qty, me.row.qty - me.qty)

WholeAtSettler(me, x) ==
  me.pc = "ready" /\ x.side = "SHORT" =>
    /\ me.reached /\ me.row.qty > 0 => Whole((me.price - x.limit) * x.qty, me.row.qty)
    /\ ~me.reached /\ me.row.qty > x.qty =>
         Whole(Worth(me.row) - x.limit * x.qty, me.row.qty - x.qty)

WholeAverages ==
  /\ \A d \in Desks : WholeAtDesk(desk[d])
  /\ \A c \in Settlers : WholeAtSettler(settler[c], Mine(c))

LEMMA RegisteredWorth ==
  ASSUME NEW row \in Row, NEW q \in Positive, NEW amount \in Int,
         Whole(Worth(row) + amount, row.qty + q)
  PROVE  Worth(Stored(row, row, Added(row, q, amount))) = Worth(row) + amount
<1> DEFINE a == Worth(row) + amount
           b == row.qty + q
<1>1. Added(row, q, amount) = [qty |-> b, avg |-> a \div b]
  BY DEF Added
<1>2. ~(row.qty > 0 /\ row.qty = 0)
  BY DEF Row
<1>3. Stored(row, row, Added(row, q, amount)) = [qty |-> b, avg |-> a \div b]
  BY <1>1, <1>2 DEF Stored
<1>4. (a \div b) * b = a
  BY DEF Whole
<1> HIDE DEF a, b
<1>5. Worth([qty |-> b, avg |-> a \div b]) = (a \div b) * b
  BY DEF Worth
<1> QED  BY <1>3, <1>4, <1>5 DEF a

LEMMA WithdrawnWorth ==
  ASSUME NEW row \in Row, NEW q \in Positive, NEW amount \in Int, row.qty > q,
         Whole(Worth(row) - amount, row.qty - q)
  PROVE  Worth(Stored(row, row, TakenBack(row, q, amount))) = Worth(row) - amount
<1> DEFINE a == Worth(row) - amount
           b == row.qty - q
<1>1. ~(row.qty <= q) /\ ~(row.qty > 0 /\ row.qty = 0)
  BY DEF Row, Positive
<1>2. TakenBack(row, q, amount) = [qty |-> b, avg |-> a \div b]
  BY <1>1 DEF TakenBack
<1>3. Stored(row, row, TakenBack(row, q, amount)) = [qty |-> b, avg |-> a \div b]
  BY <1>1, <1>2 DEF Stored
<1>4. (a \div b) * b = a
  BY DEF Whole
<1> HIDE DEF a, b
<1>5. Worth([qty |-> b, avg |-> a \div b]) = (a \div b) * b
  BY DEF Worth
<1> QED  BY <1>3, <1>4, <1>5 DEF a

LEMMA EmptiedWorth ==
  ASSUME NEW row \in Row, NEW q \in Positive, NEW amount, row.qty <= q
  PROVE  Worth(Stored(row, row, TakenBack(row, q, amount))) = 0
<1>1. ~(row.qty > 0 /\ row.qty = 0)
  BY DEF Row
<1>2. Stored(row, row, TakenBack(row, q, amount)) = NoRow
  BY <1>1 DEF Stored, TakenBack
<1> QED  BY <1>2 DEF Worth, NoRow

LEMMA Distributes == \A a, b, c \in Int : (a + b) * c = a * c + b * c
OBVIOUS

LEMMA ShortFillWorth ==
  ASSUME NEW x \in Order, NEW p \in Nat, NEW row \in Row, x.side = "SHORT", row.qty > 0,
         Whole((p - x.limit) * x.qty, row.qty)
  PROVE  Worth(StoredFill(x, p, row, row)) = Worth(row) + (p - x.limit) * x.qty
<1> DEFINE m == (p - x.limit) * x.qty
           n == row.qty
           a == row.avg
           e == m \div n
<1>1. n \in Nat /\ n > 0 /\ a \in Int /\ row = [qty |-> n, avg |-> a]
  BY DEF Row
<1>2. e \in Int /\ e * n = m
  <2>1. p - x.limit \in Int /\ x.qty \in Int
    BY DEF Order, Positive
  <2>2. m \in Int
    BY <2>1, ProductIsInt
  <2>3. (m \div n) * n = m
    BY DEF Whole
  <2> HIDE DEF m, n
  <2>4. m \div n \in Int
    BY <1>1, <2>2
  <2> QED  BY <2>3, <2>4
<1>3. FillRow(x, p, row) = [row EXCEPT !.avg = @ + e]
  BY <1>1 DEF FillRow, Repriced
<1>4. x.side # "BUY"
  OBVIOUS
<1> HIDE DEF m, n, a, e
<1>5. FillRow(x, p, row) = [qty |-> n, avg |-> a + e]
  BY <1>1, <1>3
<1>6. StoredFill(x, p, row, row) = [row EXCEPT !.avg = a + e]
  BY <1>1, <1>5 DEF StoredFill, Stored
<1>7. StoredFill(x, p, row, row) = [qty |-> n, avg |-> a + e]
  BY <1>1, <1>6
<1>8. Worth(StoredFill(x, p, row, row)) = (a + e) * n /\ Worth(row) = a * n
  BY <1>1, <1>7 DEF Worth
<1>9. (a + e) * n = a * n + e * n
  BY <1>1, <1>2, Distributes
<1> QED  BY <1>2, <1>8, <1>9 DEF m

(* What a desk has inserted and not registered yet, or cancelled and not    *)
(* taken back yet, as an amount.                                            *)
AmountGap(r, s) ==
  IF r.symbol # s THEN 0
  ELSE IF r.pc \in {"inserted", "registering"} THEN -(r.qty * r.limit)
  ELSE IF r.pc \in {"cancelled", "undoing"} THEN r.qty * r.limit
  ELSE 0

LEMMA AmountGapIsInt ==
  ASSUME NEW r \in Desk
  PROVE  \A s : AmountGap(r, s) \in Int
<1>1. r.qty \in Int /\ r.limit \in Int
  BY DEF Desk
<1>2. r.qty * r.limit \in Int
  BY <1>1, ProductIsInt
<1> QED  BY <1>2 DEF AmountGap

Uncovered(s) == Of(s, "SHORT_COVER", "filled") = {}

(* The row of an uncovered short is worth what the fills and the            *)
(* registrations say, but for what the desk has under way.                  *)
AmountsMatch(d) ==
  \A s \in Symbols : Uncovered(s) =>
    Worth(short[s]) = FilledAmount(s) + WaitingAmount(s) + AmountGap(desk[d], s)

(* The order a desk may still cancel was placed at the price it knows.      *)
LimitStands(r) ==
  r.pc \in {"inserted", "registering", "sent", "cancelling"} =>
    orders[r.order].limit = r.limit

AmountInv(d) == AmountsMatch(d) /\ LimitStands(desk[d])

(* A symbol that a step leaves uncovered was uncovered before it.           *)
LEMMA CoveredStays ==
  ASSUME TypeInv, Held, Next, NEW s, Uncovered(s)'
  PROVE  Uncovered(s)
<1>1. SUFFICES ASSUME NEW o \in Of(s, "SHORT_COVER", "filled") PROVE FALSE
  BY DEF Uncovered
<1>2. o \in Ids /\ orders[o].status = "filled"
  BY <1>1 DEF Of
<1>3. orders'[o] = orders[o] /\ Ids \subseteq Ids'
  BY <1>2, HeldPreserved, OrdersKeep
<1> QED  BY <1>1, <1>2, <1>3 DEF Uncovered, Of

LEMMA ShortWorthIsInt == ASSUME TypeInv, NEW s \in Symbols PROVE Worth(short[s]) \in Int
<1>1. short[s].avg \in Int /\ short[s].qty \in Int
  BY DEF TypeInv, TypeOK, Row
<1> QED  BY <1>1, ProductIsInt DEF Worth

LEMMA NoShares ==
  ASSUME TypeInv, NEW S \in SUBSET Ids, Total(QtyOf, S) = 0
  PROVE  S = {}
<1> SUFFICES ASSUME NEW o \in S PROVE FALSE
  OBVIOUS
<1>1. IsFiniteSet(S)
  BY ColumnsAreInt
<1>2. \A e \in S : QtyOf[e] \in Nat /\ QtyOf[e] > 0
  <2>1. \A e \in S : orders[e] \in Order
    BY DEF TypeInv, TypeOK, Ids
  <2> QED  BY <2>1 DEF QtyOf, Order, Positive
<1>3. QtyOf[o] <= Total(QtyOf, S)
  BY <1>1, <1>2, TotalBounds
<1> QED  BY <1>2, <1>3

(* A row that is gone leaves no amount to account for: its shares were all  *)
(* that was sold short or waited.                                           *)
LEMMA EmptyRowMatches ==
  ASSUME NEW d, NEW c
  PROVE  TypeInv /\ ShortInv(d, c) /\ desk[d].pc = "idle" =>
           \A s \in Symbols : short[s].qty = 0 /\ Uncovered(s) =>
             Worth(short[s]) = FilledAmount(s) + WaitingAmount(s) + AmountGap(desk[d], s)
<1> SUFFICES ASSUME TypeInv, ShortInv(d, c), desk[d].pc = "idle",
                    NEW s \in Symbols, short[s].qty = 0, Uncovered(s)
             PROVE  Worth(short[s])
                      = FilledAmount(s) + WaitingAmount(s) + AmountGap(desk[d], s)
  OBVIOUS
<1>1. Gap(desk[d], s) = 0 /\ AmountGap(desk[d], s) = 0
  BY DEF Gap, AmountGap
<1>2. short[s].qty = Net(s) + WaitingQty(s) + 0
  BY <1>1 DEF ShortInv, RowsMatch
<1>3. FilledQty(s, "SHORT_COVER") = 0
  BY TotalEmpty DEF Uncovered, FilledQty
<1>4. FilledQty(s, "SHORT") = 0 /\ WaitingQty(s) = 0
  BY <1>2, <1>3, FilledQtyIsNat, WaitingQtyIsNat DEF Net
<1>5. Of(s, "SHORT", "filled") = {} /\ Of(s, "SHORT", "pending") = {}
  BY <1>4, OfSubset, NoShares DEF FilledQty, WaitingQty
<1>6. FilledAmount(s) = 0 /\ WaitingAmount(s) = 0
  BY <1>5, TotalEmpty DEF FilledAmount, WaitingAmount
<1>7. Worth(short[s]) = 0
  <2>1. short[s].avg \in Int
    BY DEF TypeInv, TypeOK, Row
  <2> QED  BY <2>1 DEF Worth
<1> QED  BY <1>1, <1>6, <1>7

LEMMA EmptyRowMatchesAfter ==
  ASSUME NEW d, NEW c
  PROVE  (TypeInv /\ ShortInv(d, c) /\ desk[d].pc = "idle")' =>
           (\A s \in Symbols : short[s].qty = 0 /\ Uncovered(s) =>
              Worth(short[s]) = FilledAmount(s) + WaitingAmount(s) + AmountGap(desk[d], s))'
BY EmptyRowMatches, PTL

(* A step of the desk that leaves the orders alone.                         *)
LEMMA DeskLeavesAmounts ==
  ASSUME NEW d \in Desks, TypeInv, TypeInv', AmountInv(d), UNCHANGED orders,
         \A s \in Symbols : Uncovered(s) =>
           Worth(short'[s]) = Worth(short[s]) + AmountGap(desk'[d], s) - AmountGap(desk[d], s),
         LimitStands(desk[d])'
  PROVE  AmountInv(d)'
<1>1. /\ Filled' = Filled /\ Pending' = Pending /\ Ids' = Ids
      /\ \A s : Uncovered(s)' = Uncovered(s)
  BY DEF Filled, Pending, Ids, Uncovered, Of
<1>2. \A s : FilledAmount(s)' = FilledAmount(s) /\ WaitingAmount(s)' = WaitingAmount(s)
  BY <1>1, FilledAmountStays, WaitingAmountStays
<1>3. ASSUME NEW s \in Symbols, Uncovered(s)'
      PROVE  Worth(short'[s]) = FilledAmount(s)' + WaitingAmount(s)' + AmountGap(desk'[d], s)
  <2>1. FilledAmount(s) \in Int /\ WaitingAmount(s) \in Int
    BY AmountsAreInt
  <2>2. AmountGap(desk[d], s) \in Int /\ AmountGap(desk'[d], s) \in Int
    BY AmountGapIsInt DEF TypeInv, TypeOK
  <2>3. Worth(short[s]) = FilledAmount(s) + WaitingAmount(s) + AmountGap(desk[d], s)
    BY <1>1, <1>3 DEF AmountInv, AmountsMatch
  <2>4. Worth(short'[s]) = Worth(short[s]) + AmountGap(desk'[d], s) - AmountGap(desk[d], s)
    BY <1>1, <1>3
  <2> QED  BY <1>2, <2>1, <2>2, <2>3, <2>4
<1> QED  BY <1>3 DEF AmountInv, AmountsMatch

LEMMA DeskKeepsAmounts ==
  ASSUME NEW d, Desks = {d}, NEW c, Settlers = {c}, Quiet, ~Faults,
         TypeInv, TypeInv', Held, ShortInv(d, c), ShortInv(d, c)', AmountInv(d),
         WholeAverages, Decide(d) \/ DeskStep(d) \/ AbandonOrder(d)
  PROVE  AmountInv(d)'
<1> DEFINE me == desk[d]
<1>0. d \in Desks /\ c \in Settlers /\ Next
  BY DEF Next
<1>1. /\ me \in Desk /\ desk \in [Desks -> Desk] /\ desk'[d] \in Desk
      /\ orders \in Seq(Order) /\ me.qty \in Nat /\ me.limit \in Nat
      /\ me.pc # "idle" => me.qty \in Positive
  BY <1>0, DeskKeepsHeld DEF TypeInv, TypeOK, Sized, Desk
<1>2. settler[c].pc = "idle"
  BY <1>0 DEF Decide, DeskStep, AbandonOrder, CheckWaiting, Insert, ReadShort, Register, Link,
              StartCancel, Cancel, ReadUndo, Undo, SettlersIdle, ShortInv, Apart
<1>3. /\ Filled' = Filled /\ \A o \in Filled : orders'[o] = orders[o]
  <2>1. \A e \in Settlers : ~Fill(e)
    BY <1>2 DEF Fill
  <2> QED  BY <1>0, <2>1, FilledStays
<1>4. \A s : FilledAmount(s)' = FilledAmount(s) /\ (Uncovered(s)' => Uncovered(s))
  BY <1>0, <1>3, FilledAmountStays, CoveredStays
<1>5. me.symbol \in Symbols /\ short[me.symbol] \in Row /\ short \in [Symbols -> Row]
  BY <1>1 DEF TypeInv, TypeOK, Desk
<1>6. AmountsMatch(d) /\ LimitStands(me) /\ AtWork(me)
  BY DEF ShortInv, AmountInv
<1>7. IdleDesk.pc = "idle"
  BY IdleDeskIsDesk
<1>8. \A s : /\ AmountGap(me, s) \in Int /\ AmountGap(desk'[d], s) \in Int
             /\ FilledAmount(s) \in Int /\ WaitingAmount(s) \in Int
  BY <1>1, AmountGapIsInt, AmountsAreInt
<1>9. \A s \in Symbols : Worth(short[s]) \in Int
  BY ShortWorthIsInt
<1>10. me.qty * me.limit \in Int /\ me.limit * me.qty = me.qty * me.limit
  BY <1>1, ProductIsInt
<1>11. CASE UNCHANGED <<orders, short>> /\ LimitStands(desk[d])'
            /\ \A s : AmountGap(desk'[d], s) = AmountGap(me, s)
  <2>1. \A s \in Symbols : Worth(short'[s])
                             = Worth(short[s]) + AmountGap(desk'[d], s) - AmountGap(me, s)
    BY <1>8, <1>9, <1>11
  <2> QED  BY <1>0, <1>11, <2>1, DeskLeavesAmounts
<1>12. CASE Decide(d)
  <2>1. UNCHANGED <<orders, short>> /\ me.pc = "idle" /\ desk'[d].pc = "decided"
    <3>1. PICK s \in Symbols, side \in Side, limit \in {0} \union Limits : \E q :
             desk' = [desk EXCEPT ![d] = Decision(s, side, q, limit)]
      BY <1>12 DEF Decide
    <3> QED  BY <1>0, <1>1, <1>12, <3>1 DEF Decide, Decision, account
  <2>2. \A s : AmountGap(me, s) = 0 /\ AmountGap(desk'[d], s) = 0
    BY <2>1 DEF AmountGap
  <2> QED  BY <1>11, <2>1, <2>2 DEF LimitStands
<1>13. CASE Insert(d)
  <2> DEFINE n == Len(orders) + 1
             x == NewOrder(me.symbol, me.side, me.qty, me.limit)
  <2>1. /\ Ids' = Ids \union {n} /\ n \in Ids' \ Ids
        /\ \A o \in Ids : orders'[o] = orders[o]
        /\ orders'[n] = x
    <3>1. orders' = Append(orders, x)
      BY <1>0, <1>13, InsertGrows
    <3>2. orders'[n] = x
      BY <1>1, <3>1
    <3> QED  BY <1>0, <1>13, <3>2, InsertGrows
  <2>2. /\ x.symbol = me.symbol /\ x.side = me.side /\ x.qty = me.qty
        /\ x.limit = me.limit /\ x.status = "pending"
    BY DEF NewOrder
  <2>3. /\ short' = short /\ me.pc \in {"decided", "checked"}
        /\ desk'[d] = CASE me.side = "BUY"   -> [me EXCEPT !.pc = "sent", !.order = n]
                        [] me.side = "SHORT" -> [me EXCEPT !.pc = "inserted", !.order = n]
                        [] OTHER             -> IdleDesk
    BY <1>0, <1>1, <1>13 DEF Insert, account
  <2> HIDE DEF n, x
  <2>4. \A s : WaitingAmount(s)' = WaitingAmount(s) + Part(x, s)
    BY <2>1, <2>2, WaitingAmountGrows
  <2>5. \A s : AmountGap(me, s) = 0
    BY <2>3 DEF AmountGap
  <2>6. \A s : Part(x, s) \in Int /\ Part(x, s) + AmountGap(desk'[d], s) = 0
    <3> TAKE s
    <3> DEFINE m == me.qty * me.limit
    <3>1. m \in Int
      BY <1>10
    <3>2. CASE me.side = "SHORT"
      <4>1. desk'[d].symbol = me.symbol /\ desk'[d].qty = me.qty
            /\ desk'[d].limit = me.limit /\ desk'[d].pc = "inserted"
        BY <1>1, <2>3, <3>2 DEF Desk
      <4>2. Part(x, s) = (IF me.symbol = s THEN m ELSE 0)
            /\ AmountGap(desk'[d], s) = (IF me.symbol = s THEN -m ELSE 0)
        BY <2>2, <3>2, <4>1 DEF Part, AmountGap
      <4> HIDE DEF m
      <4> QED  BY <3>1, <4>2
    <3>3. CASE me.side # "SHORT"
      <4>1. desk'[d].pc \in {"sent", "idle"}
        BY <1>1, <1>7, <2>3, <3>3 DEF Desk
      <4> QED  BY <2>2, <3>3, <4>1 DEF Part, AmountGap
    <3> QED  BY <3>2, <3>3
  <2>7. AmountsMatch(d)'
    <3> SUFFICES ASSUME NEW s \in Symbols, Uncovered(s)'
                 PROVE  Worth(short'[s]) = FilledAmount(s)' + WaitingAmount(s)'
                                             + AmountGap(desk'[d], s)
      BY DEF AmountsMatch
    <3>1. Worth(short[s]) = FilledAmount(s) + WaitingAmount(s) + AmountGap(me, s)
      BY <1>4, <1>6 DEF AmountsMatch
    <3>2. short'[s] = short[s]
      BY <2>3
    <3> QED  BY <1>4, <1>8, <2>4, <2>5, <2>6, <3>1, <3>2
  <2>8. LimitStands(desk[d])'
    <3>1. CASE me.side \in {"BUY", "SHORT"}
      <4>1. desk'[d].order = n /\ desk'[d].limit = me.limit
        BY <1>1, <2>3, <3>1 DEF Desk
      <4> QED  BY <2>1, <2>2, <4>1 DEF LimitStands
    <3>2. CASE me.side \notin {"BUY", "SHORT"}
      BY <1>7, <2>3, <3>2 DEF LimitStands
    <3> QED  BY <3>1, <3>2
  <2> QED  BY <2>7, <2>8 DEF AmountInv
<1>14. CASE Cancel(d)
  <2> DEFINE o == me.order
  <2>1. /\ short' = short /\ me.pc = "cancelling" /\ orders' = Cancelled(o)
        /\ desk'[d] = IF me.found /\ me.side = "SHORT" THEN [me EXCEPT !.pc = "cancelled"]
                      ELSE IdleDesk
    BY <1>0, <1>1, <1>14 DEF Cancel, account
  <2>2. /\ o \in Pending /\ me.found /\ orders[o].symbol = me.symbol
        /\ orders[o].side = me.side /\ orders[o].qty = me.qty /\ orders[o].limit = me.limit
    BY <1>6, <2>1 DEF AtWork, LimitStands
  <2>3. /\ Ids' = Ids /\ orders'[o].status = "cancelled"
        /\ \A x \in Ids : x # o => orders'[x] = orders[x]
    <3>1. orders' = [orders EXCEPT ![o].status = "cancelled"] /\ o \in Ids
      BY <2>1, <2>2 DEF Cancelled, Pending
    <3>2. orders[o] \in Order
      BY <1>1, <3>1 DEF Ids
    <3> QED  BY <3>1, <3>2 DEF Ids, Order
  <2>4. \A s : WaitingAmount(s)' = WaitingAmount(s) - Part(orders[o], s)
    BY <2>2, <2>3, WaitingAmountShrinks
  <2>5. \A s : AmountGap(me, s) = 0 /\ AmountGap(desk'[d], s) = Part(orders[o], s)
    <3>1. CASE me.side = "SHORT"
      <4>1. desk'[d].symbol = me.symbol /\ desk'[d].qty = me.qty
            /\ desk'[d].limit = me.limit /\ desk'[d].pc = "cancelled"
        BY <1>1, <2>1, <2>2, <3>1 DEF Desk
      <4> QED  BY <2>1, <2>2, <3>1, <4>1 DEF Part, AmountGap
    <3>2. CASE me.side # "SHORT"
      <4>1. desk'[d].pc = "idle"
        BY <1>7, <2>1, <3>2
      <4> QED  BY <2>1, <2>2, <3>2, <4>1 DEF Part, AmountGap
    <3> QED  BY <3>1, <3>2
  <2> HIDE DEF o
  <2>6. AmountsMatch(d)'
    <3> SUFFICES ASSUME NEW s \in Symbols, Uncovered(s)'
                 PROVE  Worth(short'[s]) = FilledAmount(s)' + WaitingAmount(s)'
                                             + AmountGap(desk'[d], s)
      BY DEF AmountsMatch
    <3>1. Worth(short[s]) = FilledAmount(s) + WaitingAmount(s) + AmountGap(me, s)
      BY <1>4, <1>6 DEF AmountsMatch
    <3>2. short'[s] = short[s]
      BY <2>1
    <3>3. AmountGap(me, s) = 0 /\ Part(orders[o], s) = AmountGap(desk'[d], s)
          /\ WaitingAmount(s)' = WaitingAmount(s) - Part(orders[o], s)
      BY <2>4, <2>5
    <3> QED  BY <1>4, <1>8, <3>1, <3>2, <3>3
  <2>7. desk'[d].pc \in {"cancelled", "idle"}
    BY <1>1, <1>7, <2>1 DEF Desk
  <2> QED  BY <2>6, <2>7 DEF AmountInv, LimitStands
<1>15. CASE CheckWaiting(d)
  <2>1. /\ UNCHANGED <<orders, short>> /\ me.pc = "decided"
        /\ (desk'[d] = IdleDesk \/ desk'[d] = [me EXCEPT !.pc = "checked"])
    BY <1>0, <1>1, <1>15 DEF CheckWaiting, account
  <2>2. desk'[d].pc \in {"idle", "checked"}
    BY <1>1, <1>7, <2>1 DEF Desk
  <2>3. \A s : AmountGap(desk'[d], s) = AmountGap(me, s)
    BY <2>1, <2>2 DEF AmountGap
  <2> QED  BY <1>11, <2>1, <2>2, <2>3 DEF LimitStands
<1>16. CASE ReadShort(d)
  <2>1. /\ UNCHANGED <<orders, short>> /\ me.pc = "inserted"
        /\ desk'[d] = [me EXCEPT !.pc = "registering", !.row = short[me.symbol]]
    BY <1>0, <1>1, <1>16 DEF ReadShort, account
  <2>2. /\ desk'[d].pc = "registering" /\ desk'[d].symbol = me.symbol
        /\ desk'[d].qty = me.qty /\ desk'[d].limit = me.limit /\ desk'[d].order = me.order
    BY <1>1, <2>1 DEF Desk
  <2>3. \A s : AmountGap(desk'[d], s) = AmountGap(me, s)
    BY <2>1, <2>2 DEF AmountGap
  <2>4. LimitStands(desk[d])'
    BY <1>6, <2>1, <2>2 DEF LimitStands
  <2> QED  BY <1>11, <2>1, <2>3, <2>4
<1>17. CASE Register(d)
  <2>1. UNCHANGED orders /\ me.pc = "registering" /\ me.row = short[me.symbol]
    BY <1>6, <1>17 DEF Register, AtWork
  <2>2. ~Clashes(me.row, short[me.symbol])
    BY <2>1 DEF Clashes
  <2>3. /\ short' = [short EXCEPT ![me.symbol] =
                      Stored(me.row, me.row, Added(me.row, me.qty, me.limit * me.qty))]
        /\ desk'[d] = [me EXCEPT !.pc = "sent", !.row = NoRow]
    BY <1>0, <1>1, <1>17, <2>1, <2>2 DEF Register
  <2>4. desk'[d].pc = "sent" /\ desk'[d].limit = me.limit /\ desk'[d].order = me.order
    BY <1>1, <2>3 DEF Desk
  <2>5. LimitStands(desk[d])'
    BY <1>6, <2>1, <2>4 DEF LimitStands
  <2>6. Whole(Worth(me.row) + me.limit * me.qty, me.row.qty + me.qty)
    BY <1>0, <2>1 DEF WholeAverages, WholeAtDesk
  <2> DEFINE m == me.limit * me.qty
  <2>7. Worth(Stored(me.row, me.row, Added(me.row, me.qty, m))) = Worth(me.row) + m
    <3>1. me.row \in Row /\ me.qty \in Positive /\ m \in Int
      BY <1>1, <1>5, <1>10, <2>1
    <3> HIDE DEF m, me
    <3> QED  BY <2>6, <3>1, RegisteredWorth DEF m
  <2>8. AmountGap(me, me.symbol) = -m /\ m \in Int
    BY <1>10, <2>1 DEF AmountGap
  <2>9. \A s : /\ AmountGap(desk'[d], s) = 0
               /\ s # me.symbol => AmountGap(me, s) = 0
    BY <2>4 DEF AmountGap
  <2>10. short'[me.symbol] = Stored(me.row, me.row, Added(me.row, me.qty, m))
         /\ \A s \in Symbols : s # me.symbol => short'[s] = short[s]
    BY <1>5, <2>3
  <2> HIDE DEF m
  <2>11. \A s \in Symbols : Worth(short'[s])
                              = Worth(short[s]) + AmountGap(desk'[d], s) - AmountGap(me, s)
    <3> TAKE s \in Symbols
    <3>1. CASE s = me.symbol
      <4>1. Worth(short'[s]) = Worth(short[s]) + m
        BY <2>1, <2>7, <2>10, <3>1
      <4> QED  BY <1>9, <2>8, <2>9, <3>1, <4>1
    <3>2. CASE s # me.symbol
      BY <1>9, <2>9, <2>10, <3>2
    <3> QED  BY <3>1, <3>2
  <2> QED  BY <1>0, <2>1, <2>5, <2>11, DeskLeavesAmounts
<1>18. CASE Link(d)
  <2>1. UNCHANGED <<orders, short>> /\ me.pc = "sent" /\ desk'[d] = IdleDesk
    BY <1>0, <1>1, <1>18 DEF Link, account
  <2>2. \A s : AmountGap(desk'[d], s) = AmountGap(me, s)
    BY <1>7, <2>1 DEF AmountGap
  <2> QED  BY <1>7, <1>11, <2>1, <2>2 DEF LimitStands
<1>19. CASE StartCancel(d)
  <2>1. /\ UNCHANGED <<orders, short>> /\ me.pc = "sent"
        /\ desk'[d] = [me EXCEPT !.pc = "cancelling", !.found = me.order \in Pending]
    BY <1>0, <1>1, <1>19 DEF StartCancel, account
  <2>2. desk'[d].pc = "cancelling" /\ desk'[d].limit = me.limit /\ desk'[d].order = me.order
    BY <1>1, <2>1 DEF Desk
  <2>3. \A s : AmountGap(desk'[d], s) = AmountGap(me, s)
    BY <2>1, <2>2 DEF AmountGap
  <2>4. LimitStands(desk[d])'
    BY <1>6, <2>1, <2>2 DEF LimitStands
  <2> QED  BY <1>11, <2>1, <2>3, <2>4
<1>20. CASE ReadUndo(d)
  <2>1. UNCHANGED <<orders, short>> /\ me.pc = "cancelled"
    BY <1>20 DEF ReadUndo, account
  <2>2. short[me.symbol].qty # 0
    <3>1. short[me.symbol].qty = Net(me.symbol) + WaitingQty(me.symbol) + me.qty
          /\ Net(me.symbol) >= 0
      BY <1>5, <2>1 DEF ShortInv, RowsMatch, CoversFit, Gap
    <3>2. me.qty \in Positive /\ WaitingQty(me.symbol) \in Nat /\ Net(me.symbol) \in Int
      BY <1>1, <2>1, WaitingQtyIsNat, NetIsInt
    <3> QED  BY <3>1, <3>2 DEF Positive
  <2>3. desk'[d] = [me EXCEPT !.pc = "undoing", !.row = short[me.symbol]]
    BY <1>0, <1>1, <1>20, <2>2 DEF ReadUndo
  <2>4. /\ desk'[d].pc = "undoing" /\ desk'[d].symbol = me.symbol
        /\ desk'[d].qty = me.qty /\ desk'[d].limit = me.limit
    BY <1>1, <2>3 DEF Desk
  <2>5. \A s : AmountGap(desk'[d], s) = AmountGap(me, s)
    BY <2>1, <2>4 DEF AmountGap
  <2> QED  BY <1>11, <2>1, <2>4, <2>5 DEF LimitStands
<1>21. CASE Undo(d)
  <2>1. /\ UNCHANGED orders /\ me.pc = "undoing" /\ me.row = short[me.symbol]
        /\ desk'[d] = IdleDesk
    BY <1>0, <1>1, <1>6, <1>21 DEF Undo, AtWork
  <2> DEFINE m == me.limit * me.qty
             new == Stored(me.row, me.row, TakenBack(me.row, me.qty, m))
  <2>2. short' = [short EXCEPT ![me.symbol] = new]
    BY <1>21, <2>1 DEF Undo
  <2>3. short'[me.symbol] = new /\ \A s \in Symbols : s # me.symbol => short'[s] = short[s]
    BY <1>5, <2>2
  <2>4. AmountGap(me, me.symbol) = m /\ m \in Int
    BY <1>10, <2>1 DEF AmountGap
  <2>5. \A s : /\ AmountGap(desk'[d], s) = 0
               /\ s # me.symbol => AmountGap(me, s) = 0
    BY <1>7, <2>1 DEF AmountGap
  <2>6. me.row \in Row /\ me.qty \in Positive
    BY <1>1, <1>5, <2>1
  <2>7. LimitStands(desk[d])'
    BY <1>7, <2>1 DEF LimitStands
  <2>8. CASE me.row.qty > me.qty
    <3>1. Whole(Worth(me.row) - m, me.row.qty - me.qty)
      BY <1>0, <2>1, <2>8 DEF WholeAverages, WholeAtDesk
    <3>2. Worth(new) = Worth(me.row) - m
      <4> HIDE DEF m, me
      <4> QED  BY <2>4, <2>6, <2>8, <3>1, WithdrawnWorth
    <3> HIDE DEF m, new
    <3>3. \A s \in Symbols : Worth(short'[s])
                               = Worth(short[s]) + AmountGap(desk'[d], s) - AmountGap(me, s)
      <4> TAKE s \in Symbols
      <4>1. CASE s = me.symbol
        BY <1>9, <2>1, <2>3, <2>4, <2>5, <3>2, <4>1
      <4>2. CASE s # me.symbol
        BY <1>9, <2>3, <2>5, <4>2
      <4> QED  BY <4>1, <4>2
    <3> QED  BY <1>0, <2>1, <2>7, <3>3, DeskLeavesAmounts
  <2>9. CASE ~(me.row.qty > me.qty)
    <3>1. new.qty = 0
      BY <2>6, <2>9 DEF Stored, TakenBack, NoRow, Row, Positive
    <3> HIDE DEF m, new
    <3>2. AmountsMatch(d)'
      <4> SUFFICES ASSUME NEW s \in Symbols, Uncovered(s)'
                   PROVE  Worth(short'[s]) = FilledAmount(s)' + WaitingAmount(s)'
                                               + AmountGap(desk'[d], s)
        BY DEF AmountsMatch
      <4>1. CASE s = me.symbol
        <5>1. short'[s].qty = 0 /\ desk'[d].pc = "idle"
          BY <1>7, <2>1, <2>3, <3>1, <4>1
        <5> QED  BY <5>1, EmptyRowMatchesAfter
      <4>2. CASE s # me.symbol
        <5>1. Worth(short[s]) = FilledAmount(s) + WaitingAmount(s) + AmountGap(me, s)
          BY <1>4, <1>6 DEF AmountsMatch
        <5>2. WaitingAmount(s)' = WaitingAmount(s)
          BY <2>1, WaitingAmountStays DEF Pending, Ids
        <5> QED  BY <1>4, <2>3, <2>5, <4>2, <5>1, <5>2
      <4> QED  BY <4>1, <4>2
    <3> QED  BY <2>7, <3>2 DEF AmountInv
  <2> QED  BY <2>8, <2>9
<1>22. CASE AbandonOrder(d)
  BY <1>22 DEF AbandonOrder
<1> QED
  BY <1>12, <1>13, <1>14, <1>15, <1>16, <1>17, <1>18, <1>19, <1>20, <1>21, <1>22 DEF DeskStep

(* An order that was settled leaves the amounts right.                      *)
LEMMA SettlingKeepsAmounts ==
  ASSUME NEW d \in Desks, TypeInv, TypeInv', AmountInv(d),
         desk' = desk, desk[d].pc = "idle",
         NEW o \in Pending, Ids' = Ids, \A e \in Ids : e # o => orders'[e] = orders[e],
         orders'[o].status # "pending",
         \A s \in Symbols : Uncovered(s)' =>
           /\ Uncovered(s)
           /\ \/ Worth(short'[s]) = Worth(short[s]) + FilledAmount(s)' - FilledAmount(s)
                                      - Part(orders[o], s)
              \/ Worth(short'[s]) = FilledAmount(s)' + WaitingAmount(s)' + AmountGap(desk'[d], s)
  PROVE  AmountInv(d)'
<1>1. \A s : AmountGap(desk[d], s) = 0 /\ AmountGap(desk'[d], s) = 0
  BY DEF AmountGap
<1>2. \A s : WaitingAmount(s)' = WaitingAmount(s) - Part(orders[o], s)
  BY WaitingAmountShrinks
<1>3. \A s : Part(orders[o], s) \in Int
  <2>1. orders[o] \in Order
    BY DEF TypeInv, TypeOK, Pending, Ids
  <2> QED  BY <2>1, PartIsInt
<1>4. \A s : FilledAmount(s) \in Int /\ WaitingAmount(s) \in Int
  BY AmountsAreInt
<1>5. \A s : FilledAmount(s)' \in Int
  <2>1. (\A s : FilledAmount(s) \in Int /\ WaitingAmount(s) \in Int)'
    BY AmountsAreInt, PTL
  <2> QED  BY <2>1
<1>6. ASSUME NEW s \in Symbols, Uncovered(s)'
      PROVE  Worth(short'[s]) = FilledAmount(s)' + WaitingAmount(s)' + AmountGap(desk'[d], s)
  <2>1. Worth(short[s]) = FilledAmount(s) + WaitingAmount(s) + AmountGap(desk[d], s)
    BY <1>6 DEF AmountInv, AmountsMatch
  <2>2. CASE Worth(short'[s]) = Worth(short[s]) + FilledAmount(s)' - FilledAmount(s)
                                  - Part(orders[o], s)
    BY <1>1, <1>2, <1>3, <1>4, <1>5, <2>1, <2>2
  <2> QED  BY <1>6, <2>2
<1>7. LimitStands(desk[d])'
  BY DEF LimitStands
<1> QED  BY <1>6, <1>7 DEF AmountInv, AmountsMatch

LEMMA SettlerKeepsAmounts ==
  ASSUME NEW d, Desks = {d}, NEW c, Settlers = {c}, Quiet,
         TypeInv, TypeInv', Held, ShortInv(d, c), ShortInv(d, c)', AmountInv(d),
         WholeAverages, RoundStep(c) \/ AbandonRound(c)
  PROVE  AmountInv(d)'
<1> DEFINE o == settler[c].order
           x == Mine(c)
<1>0. d \in Desks /\ c \in Settlers /\ Next
  BY DEF Next
<1>1. /\ desk' = desk /\ desk[d].pc = "idle"
      /\ settler \in [Settlers -> Settler] /\ settler[c] \in Settler
      /\ short \in [Symbols -> Row] /\ short' \in [Symbols -> Row]
  BY <1>0, DeskWaits DEF TypeInv, TypeOK
<1>2. \A s : Uncovered(s)' => Uncovered(s)
  BY <1>0, CoveredStays
<1>3. InTransaction(c) => o \in Pending /\ x \in Order /\ x = orders[o] /\ x.symbol \in Symbols
                          /\ x.qty \in Positive /\ x.limit \in Nat
  <2>1. InTransaction(c) => o \in Pending /\ x \in Order /\ x = orders[o]
    BY <1>0 DEF Held, Mine, Pending, TypeInv, TypeOK, Ids
  <2> HIDE DEF x, o
  <2>2. x \in Order => x.symbol \in Symbols /\ x.qty \in Positive /\ x.limit \in Nat
    BY DEF Order
  <2> QED  BY <2>1, <2>2
<1>4. \A s \in Symbols : Worth(short[s]) \in Int
  BY ShortWorthIsInt
<1>5. \A s : FilledAmount(s) \in Int /\ WaitingAmount(s) \in Int
  BY AmountsAreInt
<1>6. ASSUME NEW status \in Status \ {"filled", "pending"}, Close(c, status),
             InTransaction(c),
             \A s \in Symbols :
               \/ Worth(short'[s]) = Worth(short[s]) - Part(orders[o], s)
               \/ s = x.symbol /\ short'[s].qty = 0
      PROVE  AmountInv(d)'
  <2>1. Ids' = Ids
    BY <1>0, <1>6, CloseKeepsIds
  <2>2. /\ \A e \in Ids : e # o => orders'[e] = orders[e]
        /\ orders'[o].status = status
    <3>1. orders \in Seq(Order) /\ o \in Ids /\ orders[o] \in Order
      BY <1>3, <1>6 DEF TypeInv, TypeOK, Pending, Ids
    <3> QED  BY <1>6, <3>1 DEF Close, Ids, Order
  <2>3. Filled' = Filled /\ \A e \in Filled : orders'[e] = orders[e]
    BY <1>3, <1>6, <2>1, <2>2 DEF Filled, Pending
  <2>4. \A s : FilledAmount(s)' = FilledAmount(s)
    BY <2>3, FilledAmountStays
  <2>5. \A s : Part(orders[o], s) \in Int
    BY <1>3, <1>6, PartIsInt
  <2>6. \A s \in Symbols : Uncovered(s)' =>
          /\ Uncovered(s)
          /\ \/ Worth(short'[s]) = Worth(short[s]) + FilledAmount(s)' - FilledAmount(s)
                                     - Part(orders[o], s)
             \/ Worth(short'[s]) = FilledAmount(s)' + WaitingAmount(s)' + AmountGap(desk'[d], s)
    <3> SUFFICES ASSUME NEW s \in Symbols, Uncovered(s)'
                 PROVE  \/ Worth(short'[s]) = Worth(short[s]) + FilledAmount(s)'
                                                - FilledAmount(s) - Part(orders[o], s)
                        \/ Worth(short'[s]) = FilledAmount(s)' + WaitingAmount(s)'
                                                + AmountGap(desk'[d], s)
      BY <1>2
    <3>1. CASE short'[s].qty = 0
      BY <1>1, <3>1, EmptyRowMatchesAfter
    <3>2. CASE short'[s].qty # 0
      <4>1. Worth(short'[s]) = Worth(short[s]) - Part(orders[o], s)
        BY <1>6, <3>2
      <4>2. FilledAmount(s)' = FilledAmount(s) /\ FilledAmount(s) \in Int
            /\ Worth(short[s]) \in Int /\ Part(orders[o], s) \in Int
        BY <1>4, <1>5, <2>4, <2>5
      <4> QED  BY <4>1, <4>2
    <3> QED  BY <3>1, <3>2
  <2> HIDE DEF o
  <2> QED  BY <1>0, <1>1, <1>3, <1>6, <2>1, <2>2, <2>6, SettlingKeepsAmounts
<1>7. CASE RejectBuy(c) \/ RejectExit(c)
  <2>1. Close(c, "rejected") /\ InTransaction(c) /\ short' = short
    BY <1>7 DEF RejectBuy, RejectExit, Reject, InTransaction, account
  <2>2. x.side # "SHORT"
    <3>1. CASE RejectBuy(c)
      BY <3>1 DEF RejectBuy, NeedsCash
    <3>2. CASE RejectExit(c)
      BY <1>3, <2>1, <3>2 DEF RejectExit, FillsNothing, FillQty, Positive
    <3> QED  BY <1>7, <3>1, <3>2
  <2>3. \A s : Part(orders[o], s) = 0
    BY <1>3, <2>1, <2>2 DEF Part
  <2>4. "rejected" \in Status \ {"filled", "pending"}
    BY DEF Status
  <2>5. \A s \in Symbols : Worth(short[s]) = Worth(short[s]) - 0
    BY <1>4
  <2> QED  BY <1>6, <2>1, <2>3, <2>4, <2>5
<1>8. CASE Expire(c)
  <2>1. /\ Close(c, "expired") /\ InTransaction(c) /\ Withdraw(c)
        /\ settler[c].pc = "ready" /\ ~settler[c].reached
    BY <1>8 DEF Expire, InTransaction
  <2>2. "expired" \in Status \ {"filled", "pending"}
    BY DEF Status
  <2>3. o \in Pending /\ x \in Order /\ x = orders[o] /\ x.symbol \in Symbols
        /\ x.qty \in Positive /\ x.limit \in Nat
    BY <1>3, <2>1
  <2>4. CASE x.side = "SHORT"
    <3> DEFINE row == short[x.symbol]
               m == x.limit * x.qty
               new == Stored(row, row, TakenBack(row, x.qty, m))
    <3>1. Shorts(o)
      BY <2>3, <2>4 DEF Shorts
    <3>2. settler[c].row = row /\ RowOf(o) = row
      BY <2>1, <2>3, <3>1 DEF ShortInv, RowStands, RowOf
    <3>3. row \in Row /\ m \in Int /\ x.qty * x.limit = m
      BY <1>1, <2>3, ProductIsInt DEF Positive
    <3>4. Part(orders[o], x.symbol) = m
          /\ \A s : s # x.symbol => Part(orders[o], s) = 0
      BY <2>3, <2>4, <3>3 DEF Part
    <3>5. CASE row.qty > 0
      <4>1. short' = [short EXCEPT ![x.symbol] = new]
        BY <2>1, <2>3, <2>4, <3>1, <3>2, <3>5 DEF Withdraw, Store
      <4>2. short'[x.symbol] = new /\ \A s \in Symbols : s # x.symbol => short'[s] = short[s]
        BY <1>1, <2>3, <4>1
      <4>3. new.qty = 0 \/ Worth(new) = Worth(row) - m
        <5>1. CASE row.qty > x.qty
          <6>1. Whole(Worth(row) - m, row.qty - x.qty)
            BY <1>0, <2>1, <2>4, <3>2, <5>1 DEF WholeAverages, WholeAtSettler
          <6> HIDE DEF m, row, x
          <6> QED  BY <2>3, <3>3, <5>1, <6>1, WithdrawnWorth
        <5>2. CASE ~(row.qty > x.qty)
          BY <2>3, <3>3, <5>2 DEF Stored, TakenBack, NoRow, Row, Positive
        <5> QED  BY <5>1, <5>2
      <4> HIDE DEF new, m
      <4>4. \A s \in Symbols :
              \/ Worth(short'[s]) = Worth(short[s]) - Part(orders[o], s)
              \/ s = x.symbol /\ short'[s].qty = 0
        <5> TAKE s \in Symbols
        <5>1. CASE s = x.symbol
          BY <3>4, <4>2, <4>3, <5>1
        <5>2. CASE s # x.symbol
          BY <1>4, <3>4, <4>2, <5>2
        <5> QED  BY <5>1, <5>2
      <4> QED  BY <1>6, <2>1, <2>2, <4>4
    <3>6. CASE ~(row.qty > 0)
      <4>1. short' = short
        BY <2>1, <3>2, <3>6 DEF Withdraw
      <4>2. row.qty = 0
        BY <3>3, <3>6 DEF Row
      <4>3. \A s \in Symbols :
              \/ Worth(short'[s]) = Worth(short[s]) - Part(orders[o], s)
              \/ s = x.symbol /\ short'[s].qty = 0
        BY <1>4, <3>4, <4>1, <4>2
      <4> QED  BY <1>6, <2>1, <2>2, <4>3
    <3> QED  BY <3>5, <3>6
  <2>5. CASE x.side # "SHORT"
    <3>1. short' = short
      BY <2>1, <2>5 DEF Withdraw
    <3>2. \A s : Part(orders[o], s) = 0
      BY <2>3, <2>5 DEF Part
    <3>3. \A s \in Symbols : Worth(short[s]) = Worth(short[s]) - 0
      BY <1>4
    <3> QED  BY <1>6, <2>1, <2>2, <3>1, <3>2, <3>3
  <2> QED  BY <2>4, <2>5
<1>9. CASE Fill(c)
  <2> DEFINE row == settler[c].row
             p == settler[c].price
  <2>1. /\ settler[c].pc = "ready" /\ settler[c].reached
        /\ o \in Pending \ Filled /\ Ids' = Ids
        /\ x \in Order /\ row \in Row /\ p \in Nat /\ x = orders[o]
        /\ \A e \in Ids : e # o => orders'[e] = orders[e]
        /\ orders'[o].status = "filled" /\ orders'[o].side = x.side
    BY <1>0, <1>9, FilledGrows, FillEffect DEF Mine
  <2>2. x.symbol \in Symbols /\ x.qty \in Int /\ x.limit \in Int
    BY <2>1 DEF Order, Positive
  <2>3. Store(o, StoredFill(x, p, row, RowOf(o)))
    BY <1>9 DEF Fill
  <2>4. \A s : FilledAmount(s)' = FilledAmount(s) +
                 IF x.symbol = s /\ x.side = "SHORT" THEN x.qty * p ELSE 0
    BY <1>0, <1>9, FilledAmountGrows
  <2>5. orders'[o].symbol = x.symbol
    BY <1>0, <2>1, OrdersKeep DEF Pending
  <2>6. \A s \in Symbols : Uncovered(s)' =>
          Worth(short'[s]) = Worth(short[s]) + FilledAmount(s)' - FilledAmount(s)
                               - Part(orders[o], s)
    <3> SUFFICES ASSUME NEW s \in Symbols, Uncovered(s)'
                 PROVE  Worth(short'[s]) = Worth(short[s]) + FilledAmount(s)'
                                             - FilledAmount(s) - Part(orders[o], s)
      OBVIOUS
    <3>1. CASE x.side = "SHORT" /\ x.symbol = s
      <4>1. Shorts(o)
        BY <2>1, <3>1 DEF Shorts
      <4>2. row = short[s] /\ RowOf(o) = short[s]
        BY <2>1, <3>1, <4>1 DEF ShortInv, RowStands, RowOf
      <4>3. short'[s] = StoredFill(x, p, row, row)
        BY <1>1, <2>1, <2>3, <3>1, <4>1, <4>2 DEF Store
      <4>4. row.qty > 0
        <5>1. Share(orders[o], s) = x.qty /\ x.qty \in Positive
          BY <2>1, <3>1 DEF Share, Order
        <5>2. Share(orders[o], s) <= WaitingQty(s)
          BY <2>1, WaitingQtyShrinks
        <5>3. short[s].qty = Net(s) + WaitingQty(s) + 0 /\ Net(s) >= 0
          BY <1>1 DEF ShortInv, RowsMatch, CoversFit, Gap
        <5>4. WaitingQty(s) \in Nat /\ Net(s) \in Int
          BY WaitingQtyIsNat, NetIsInt
        <5> HIDE DEF row, x
        <5> QED  BY <4>2, <5>1, <5>2, <5>3, <5>4 DEF Positive
      <4>5. Whole((p - x.limit) * x.qty, row.qty)
        BY <1>0, <2>1, <3>1, <4>4 DEF WholeAverages, WholeAtSettler
      <4>6. Worth(short'[s]) = Worth(row) + (p - x.limit) * x.qty
        <5> HIDE DEF x, p, row
        <5> QED  BY <2>1, <3>1, <4>3, <4>4, <4>5, ShortFillWorth
      <4> DEFINE a == x.qty * p
                 b == x.qty * x.limit
      <4>7. (p - x.limit) * x.qty = a - b /\ a \in Int /\ b \in Int
        <5> HIDE DEF x
        <5>1. p \in Int /\ -x.limit \in Int
          BY <2>1, <2>2
        <5>2. (p + (-x.limit)) * x.qty = p * x.qty + (-x.limit) * x.qty
          BY <2>2, <5>1, Distributes
        <5> QED  BY <2>1, <2>2, <5>1, <5>2
      <4>8. Part(orders[o], s) = b /\ FilledAmount(s)' = FilledAmount(s) + a
        BY <2>1, <2>4, <3>1 DEF Part
      <4>9. Worth(short'[s]) = Worth(short[s]) + (a - b)
        BY <4>2, <4>6, <4>7
      <4> HIDE DEF a, b, x, p, o
      <4> QED  BY <1>4, <1>5, <4>7, <4>8, <4>9
    <3>2. CASE x.side = "SHORT_COVER" /\ x.symbol = s
      <4>1. o \in Of(s, "SHORT_COVER", "filled")'
        BY <2>1, <2>5, <3>2 DEF Of, Pending
      <4> QED  BY <4>1 DEF Uncovered
    <3>3. CASE ~(x.side \in {"SHORT", "SHORT_COVER"} /\ x.symbol = s)
      <4>1. short'[s] = short[s]
        BY <1>1, <2>1, <2>3, <3>3 DEF Store, Shorts
      <4>2. FilledAmount(s)' = FilledAmount(s) + 0 /\ Part(orders[o], s) = 0
        BY <2>1, <2>4, <3>3 DEF Part
      <4> HIDE DEF o
      <4> QED  BY <1>4, <1>5, <4>1, <4>2
    <3> QED  BY <3>1, <3>2, <3>3
  <2> HIDE DEF o
  <2> QED  BY <1>0, <1>1, <1>2, <2>1, <2>6, SettlingKeepsAmounts
<1>10. CASE ~(RejectBuy(c) \/ RejectExit(c) \/ Expire(c) \/ Fill(c))
  <2>1. UNCHANGED <<orders, short>>
    BY <1>10 DEF RoundStep, AbandonRound, Look, TransactionStep, BeginRound, EndRound,
                 Skip, Claim, PassOver, CheckCash, ReadRow, GiveUp, account
  <2>2. LimitStands(desk[d])'
    BY <1>1 DEF LimitStands
  <2>3. \A s \in Symbols : Worth(short'[s])
                             = Worth(short[s]) + AmountGap(desk'[d], s) - AmountGap(desk[d], s)
    <3>1. \A s : AmountGap(desk[d], s) = 0 /\ AmountGap(desk'[d], s) = 0
      BY <1>1 DEF AmountGap
    <3> QED  BY <1>4, <2>1, <3>1
  <2> QED  BY <1>0, <2>1, <2>2, <2>3, DeskLeavesAmounts
<1> QED  BY <1>7, <1>8, <1>9, <1>10

LEMMA AmountInvPreserved ==
  ASSUME NEW d, Desks = {d}, NEW c, Settlers = {c}, Quiet, ~Faults
  PROVE  TypeInv /\ TypeInv' /\ Held /\ ShortInv(d, c) /\ ShortInv(d, c)' /\ WholeAverages
         /\ AmountInv(d) /\ [Next]_vars => AmountInv(d)'
<1> SUFFICES ASSUME TypeInv, TypeInv', Held, ShortInv(d, c), ShortInv(d, c)', WholeAverages,
                    AmountInv(d), [Next]_vars
             PROVE  AmountInv(d)'
  OBVIOUS
<1>1. CASE Decide(d) \/ DeskStep(d) \/ AbandonOrder(d)
  BY <1>1, DeskKeepsAmounts
<1>2. CASE RoundStep(c) \/ AbandonRound(c)
  BY <1>2, SettlerKeepsAmounts
<1>3. CASE UNCHANGED vars
  <2>1. UNCHANGED <<orders, short, desk>>
    BY <1>3 DEF vars, account
  <2>2. LimitStands(desk[d])'
    BY <2>1 DEF AmountInv, LimitStands
  <2>3. \A s \in Symbols : Worth(short'[s])
                             = Worth(short[s]) + AmountGap(desk'[d], s) - AmountGap(desk[d], s)
    <3>1. desk[d] \in Desk
      BY DEF TypeInv, TypeOK
    <3> QED  BY <2>1, <3>1, ShortWorthIsInt, AmountGapIsInt
  <2> QED  BY <2>1, <2>2, <2>3, DeskLeavesAmounts
<1> QED  BY <1>1, <1>2, <1>3 DEF Next

(* Under the conditions of ShortRowsAreTheOrders, and while the averages    *)
(* that the statements compute are exact in the unit of the prices, the     *)
(* amount of a short that was not covered yet is the amount of its fills    *)
(* and the provisional amounts of what waits: every registration, however   *)
(* it ends, is replaced by its fill or taken back exactly once.             *)
THEOREM ShortAmountsAreTheOrders ==
  ASSUME NEW d, Desks = {d}, NEW c, Settlers = {c}, Quiet, ~Faults
  PROVE  Spec /\ []WholeAverages => []ShortAmountMatchesOrders
<1>1. Init => AmountInv(d)
  <2> SUFFICES ASSUME Init PROVE AmountInv(d)
    OBVIOUS
  <2>1. desk[d].pc = "idle" /\ Pending = {} /\ \A s \in Symbols : Worth(short[s]) = 0
    BY IdleDeskIsDesk DEF Init, Pending, Ids, NoRow, Worth
  <2>2. \A s, status : Of(s, "SHORT", status) = {}
    BY DEF Init, Of, Ids
  <2>3. \A s : FilledAmount(s) = 0 /\ WaitingAmount(s) = 0
    BY <2>2, TotalEmpty DEF FilledAmount, WaitingAmount
  <2> QED  BY <2>1, <2>3 DEF AmountInv, AmountsMatch, LimitStands, AmountGap
<1>2. TypeInv /\ TypeInv' /\ Held /\ ShortInv(d, c) /\ ShortInv(d, c)' /\ WholeAverages
      /\ AmountInv(d) /\ [Next]_vars => AmountInv(d)'
  BY AmountInvPreserved
<1>3. TypeInv /\ AmountInv(d) => ShortAmountMatchesOrders
  <2> SUFFICES ASSUME TypeInv, AmountInv(d), NEW s \in Symbols, Registered(s), Uncovered(s)
               PROVE  Worth(short[s]) = Amount(Of(s, "SHORT", "filled"))
                                        + Provisional(Of(s, "SHORT", "pending"))
    BY DEF ShortAmountMatchesOrders, Uncovered
  <2>1. /\ Amount(Of(s, "SHORT", "filled")) = FilledAmount(s)
        /\ Provisional(Of(s, "SHORT", "pending")) = WaitingAmount(s)
    BY OfSubset, AmountTotal, ProvisionalTotal DEF FilledAmount, WaitingAmount
  <2>2. AmountGap(desk[d], s) = 0
    BY DEF Registered, AmountGap
  <2>3. Worth(short[s]) = FilledAmount(s) + WaitingAmount(s) + AmountGap(desk[d], s)
    BY DEF AmountInv, AmountsMatch
  <2> QED  BY <2>1, <2>2, <2>3, AmountsAreInt
<1> QED  BY <1>1, <1>2, <1>3, ShortInvAlways, TypesHold, HeldAlways, PTL DEF Spec

-----------------------------------------------------------------------------
(* The account                                                              *)

LEMMA FillPriceFits ==
  ASSUME NEW o \in Order, NEW b \in Bars
  PROVE  o.limit # 0 =>
           IF Buys(o) THEN FillPrice(o, b) <= o.limit ELSE FillPrice(o, b) >= o.limit
<1>1. o.limit \in Nat /\ b.open \in Nat
  BY BarAssumption DEF Order
<1> QED  BY <1>1 DEF FillPrice, Lesser, Greater

(* The price a transaction works with is no worse than the limit of its     *)
(* order.                                                                   *)
PriceFits ==
  \A c \in Settlers : InTransaction(c) =>
    LET x == Mine(c)
        p == settler[c].price
    IN x.limit # 0 => IF Buys(x) THEN p <= x.limit ELSE p >= x.limit

(* What a settler works on and at which price is decided when it claims the *)
(* order.                                                                   *)
LEMMA PriceIsClaimed ==
  ASSUME TypeInv, NEW c \in Settlers, RoundStep(c) \/ AbandonRound(c),
         settler'[c].pc \in {"claimed", "cleared", "ready"}
  PROVE  \/ \E o \in settler[c].todo : Claim(c, o)
         \/ /\ InTransaction(c)
            /\ settler'[c].order = settler[c].order
            /\ settler'[c].price = settler[c].price
<1>1. settler \in [Settlers -> Settler] /\ settler[c] \in Settler
      /\ \A todo : Settling(todo).pc = "settling"
      /\ IdleSettler.pc = "idle"
  BY IdleSettlerIsSettler DEF TypeInv, TypeOK, Settling
<1>2. CASE CheckCash(c) \/ ReadRow(c)
  <2>1. CASE CheckCash(c)
    BY <1>1, <2>1 DEF CheckCash, Settler, InTransaction
  <2>2. CASE ReadRow(c)
    BY <1>1, <2>2 DEF ReadRow, Settler, InTransaction
  <2> QED  BY <1>2, <2>1, <2>2
<1>3. CASE ~(CheckCash(c) \/ ReadRow(c) \/ \E o \in settler[c].todo : Claim(c, o))
  <2>1. settler'[c].pc \in {"settling", "idle"}
    BY <1>1, <1>3
       DEF RoundStep, AbandonRound, Look, TransactionStep, BeginRound, EndRound,
           Skip, PassOver, RejectBuy, RejectExit, Reject, Expire, Close, Fill, GiveUp
  <2> QED  BY <2>1
<1> QED  BY <1>2, <1>3

LEMMA OneSettlerMoves ==
  ASSUME TypeInv, NEW c \in Settlers, RoundStep(c) \/ AbandonRound(c)
  PROVE  \A e \in Settlers : e # c => settler'[e] = settler[e]
<1>1. \E r : settler' = [settler EXCEPT ![c] = r]
  BY DEF RoundStep, AbandonRound, Look, TransactionStep, BeginRound, EndRound, Skip, Claim,
         PassOver, CheckCash, RejectBuy, ReadRow, RejectExit, Reject, Expire, Close, Fill,
         GiveUp
<1> QED  BY <1>1 DEF TypeInv, TypeOK

LEMMA PriceFitsPreserved == TypeInv /\ Held /\ PriceFits /\ [Next]_vars => PriceFits'
<1> SUFFICES ASSUME TypeInv, Held, PriceFits, [Next]_vars,
                    NEW c \in Settlers, InTransaction(c)'
             PROVE  LET x == Mine(c)'
                        p == settler'[c].price
                    IN x.limit # 0 => IF Buys(x) THEN p <= x.limit ELSE p >= x.limit
  BY DEF PriceFits
<1>1. CASE UNCHANGED vars
  <2>1. UNCHANGED <<orders, settler>>
    BY <1>1 DEF vars
  <2> QED  BY <2>1 DEF PriceFits, InTransaction, Mine
<1>2. ASSUME Next, InTransaction(c), settler'[c].order = settler[c].order,
             settler'[c].price = settler[c].price
      PROVE  LET x == Mine(c)'
                 p == settler'[c].price
             IN x.limit # 0 => IF Buys(x) THEN p <= x.limit ELSE p >= x.limit
  <2>1. settler[c].order \in Ids
    BY <1>2 DEF TypeInv, Known
  <2>2. Mine(c)'.limit = Mine(c).limit /\ Mine(c)'.side = Mine(c).side
    BY <1>2, <2>1, OrdersKeep DEF Mine
  <2> QED  BY <1>2, <2>2 DEF PriceFits, Buys
<1>3. ASSUME NEW d \in Desks, Decide(d) \/ DeskStep(d) \/ AbandonOrder(d)
      PROVE  settler' = settler
  BY <1>3, DeskKeepsHeld
<1>4. ASSUME NEW e \in Settlers, RoundStep(e) \/ AbandonRound(e)
      PROVE  \/ InTransaction(c) /\ settler'[c].order = settler[c].order
                /\ settler'[c].price = settler[c].price
             \/ \E o \in settler[c].todo : Claim(c, o)
  <2>1. CASE e = c
    BY <1>4, <2>1, PriceIsClaimed DEF InTransaction
  <2>2. CASE e # c
    <3>1. settler'[c] = settler[c]
      BY <1>4, <2>2, OneSettlerMoves
    <3> QED  BY <3>1 DEF InTransaction
  <2> QED  BY <2>1, <2>2
<1>5. ASSUME NEW o \in settler[c].todo, Claim(c, o)
      PROVE  LET x == Mine(c)'
                 p == settler'[c].price
             IN x.limit # 0 => IF Buys(x) THEN p <= x.limit ELSE p >= x.limit
  <2>1. PICK b \in Bars :
          settler' = [settler EXCEPT ![c] =
            [@ EXCEPT !.pc = "claimed", !.todo = Rest(c, o), !.order = o,
                      !.price = FillPrice(orders[o], b),
                      !.reached = Reached(orders[o], b)]]
    BY <1>5 DEF Claim
  <2>2. settler \in [Settlers -> Settler] /\ settler[c] \in Settler
    BY DEF TypeInv, TypeOK
  <2>3. settler'[c].order = o /\ settler'[c].price = FillPrice(orders[o], b)
    BY <2>1, <2>2 DEF Settler
  <2>4. o \in Ids /\ orders[o] \in Order /\ orders' = orders
    BY <1>5 DEF TypeInv, TypeOK, Known, Ids, Claim
  <2>5. Mine(c)' = orders[o]
    BY <2>3, <2>4 DEF Mine
  <2> QED  BY <2>3, <2>4, <2>5, FillPriceFits
<1>6. CASE Next
  <2>1. \/ InTransaction(c) /\ settler'[c].order = settler[c].order
                /\ settler'[c].price = settler[c].price
        \/ \E o \in settler[c].todo : Claim(c, o)
    <3>1. settler' = settler => InTransaction(c)
      BY DEF InTransaction
    <3> QED  BY <1>3, <1>4, <1>6, <3>1 DEF Next
  <2> QED  BY <1>2, <1>5, <1>6, <2>1
<1> QED  BY <1>1, <1>6

LEMMA AccountStarts == Init => Account!Init
<1> SUFFICES ASSUME Init PROVE Account!Init
  OBVIOUS
<1>1. Pending = {} /\ Filled = {} /\ Len(orders) = 0
  BY DEF Init, Pending, Filled, Ids
<1>2. SharesHeld = [s \in Symbols |-> 0]
  BY DEF Init, SharesHeld, NoRow
<1> QED  BY <1>1, <1>2 DEF Init, Account!Init, WaitingOrders, Trades

LEMMA SameLength ==
  ASSUME TypeInv, TypeInv', Ids' = Ids
  PROVE  Len(orders') = Len(orders)
<1>1. orders \in Seq(Order) /\ orders' \in Seq(Order)
  BY DEF TypeInv, TypeOK
<1>2. Len(orders) \in Nat /\ Len(orders') \in Nat /\ 1..Len(orders) = 1..Len(orders')
  BY <1>1 DEF Ids
<1>3. \A m, n \in Nat : m < n => n \in 1..n /\ n \notin 1..m
  OBVIOUS
<1>4. ~(Len(orders) < Len(orders')) /\ ~(Len(orders') < Len(orders))
  BY <1>2, <1>3
<1> QED  BY <1>2, <1>4

LEMMA TradesStay ==
  ASSUME Filled' = Filled, \A o \in Filled : orders'[o] = orders[o]
  PROVE  Trades' = Trades
<1>1. \A o \in Filled : TradeOf(o)' = TradeOf(o)
  BY DEF TradeOf
<1> QED  BY <1>1 DEF Trades

(* An order that waits no longer, and which it was.                         *)
LEMMA OneWaitsNoLonger ==
  ASSUME TypeInv, NEW o \in Pending, Ids' = Ids, orders'[o].status # "pending",
         \A e \in Ids : e # o => orders'[e] = orders[e]
  PROVE  /\ WaitingOrder(o) \in WaitingOrders \ WaitingOrders'
         /\ WaitingOrders' = WaitingOrders \ {WaitingOrder(o)}
<1>1. Pending' = Pending \ {o}
  BY DEF Pending
<1>2. \A e \in Pending \ {o} : WaitingOrder(e)' = WaitingOrder(e)
  BY DEF WaitingOrder, Pending
<1>3. \A e \in Pending \ {o} : WaitingOrder(e) # WaitingOrder(o)
  <2>1. \A e : WaitingOrder(e).id = e
    BY DEF WaitingOrder
  <2> QED  BY <2>1
<1>4. WaitingOrders' = WaitingOrders \ {WaitingOrder(o)}
  BY <1>1, <1>2, <1>3 DEF WaitingOrders
<1>5. WaitingOrder(o) \in WaitingOrders
  BY DEF WaitingOrders
<1> QED  BY <1>4, <1>5

(* INSERT: an order is placed.                                              *)
LEMMA InsertPlaces ==
  ASSUME TypeInv, TypeInv', Held, NEW d \in Desks, Insert(d), long' = long
  PROVE  Account!Next
<1>0. PICK n : n = Len(orders) + 1
  OBVIOUS
<1> DEFINE x == WaitingOrder(n)'
<1>1. /\ orders \in Seq(Order) /\ Ids' = Ids \union {n} /\ n \notin Ids
      /\ \A o \in Ids : orders'[o] = orders[o]
      /\ orders' = Append(orders, NewOrder(desk[d].symbol, desk[d].side,
                                           desk[d].qty, desk[d].limit))
  BY <1>0, InsertGrows DEF TypeInv, TypeOK
<1>2. Len(orders') = n /\ orders'[n].status = "pending"
  <2> DEFINE y == NewOrder(desk[d].symbol, desk[d].side, desk[d].qty, desk[d].limit)
  <2>1. y.status = "pending"
    BY DEF NewOrder
  <2>2. orders' = Append(orders, y)
    BY <1>1
  <2> HIDE DEF y
  <2>3. Len(orders') = Len(orders) + 1 /\ orders'[Len(orders) + 1] = y
    BY <1>1, <2>2
  <2> QED  BY <1>0, <2>1, <2>3
<1>3. Pending' = Pending \union {n} /\ Filled' = Filled
  BY <1>1, <1>2 DEF Pending, Filled
<1>4. cash' = cash /\ SharesHeld' = SharesHeld
  BY DEF Insert, account, SharesHeld
<1>5. Trades' = Trades
  BY <1>1, <1>3, TradesStay DEF Filled
<1>6. WaitingOrders' = WaitingOrders \union {x} /\ x \notin WaitingOrders
  <2>1. \A e \in Pending : WaitingOrder(e)' = WaitingOrder(e)
    BY <1>1 DEF WaitingOrder, Pending
  <2>2. x.id = n /\ \A e \in Pending : WaitingOrder(e).id # n
    BY <1>1 DEF WaitingOrder, Pending
  <2> HIDE DEF x
  <2> QED  BY <1>3, <2>1, <2>2 DEF WaitingOrders, x
<1>7. x.id = n
  BY DEF WaitingOrder
<1> HIDE DEF x
<1>8. Account!Place(x)
  BY <1>0, <1>2, <1>4, <1>5, <1>6, <1>7 DEF Account!Place
<1> QED  BY <1>6, <1>8 DEF Account!Next

(* A cancellation, a rejection, an expiry: an order is dropped.             *)
LEMMA LeavingDrops ==
  ASSUME TypeInv, TypeInv', NEW o \in Pending, Ids' = Ids, cash' = cash, long' = long,
         orders'[o].status \notin {"pending", "filled"},
         \A e \in Ids : e # o => orders'[e] = orders[e]
  PROVE  Account!Next
<1>1. WaitingOrder(o) \in WaitingOrders \ WaitingOrders'
      /\ WaitingOrders' = WaitingOrders \ {WaitingOrder(o)}
  BY OneWaitsNoLonger
<1>2. Len(orders') = Len(orders)
  BY SameLength
<1>3. Filled' = Filled /\ \A e \in Filled : orders'[e] = orders[e]
  BY DEF Filled, Pending
<1>4. Trades' = Trades /\ SharesHeld' = SharesHeld
  BY <1>3, TradesStay DEF SharesHeld
<1>5. Account!Drop(WaitingOrder(o))
  BY <1>1, <1>2, <1>4 DEF Account!Drop
<1> QED  BY <1>1, <1>5 DEF Account!Next

LEMMA AccountStands ==
  ASSUME UNCHANGED <<orders, cash, long>>
  PROVE  UNCHANGED Account!vars
BY DEF Account!vars, SharesHeld, WaitingOrders, WaitingOrder, Trades, TradeOf, Pending,
       Filled, Ids

(* The commit of a fill: an order is traded.                                *)
LEMMA FillTrades ==
  ASSUME TypeInv, TypeInv', Held, OneForLong, PriceFits, NEW c \in Settlers, Fill(c)
  PROVE  Account!Next
<1>0. PICK o : o = settler[c].order
  OBVIOUS
<1> DEFINE x == Mine(c)
           p == settler[c].price
           row == settler[c].row
           k == FillQty(x, row)
           w == WaitingOrder(o)
           t == TradeOf(o)'
<1>1. /\ InTransaction(c) /\ x \in Order /\ row \in Row /\ p \in Nat
      /\ \A e \in Ids : e # o => orders'[e] = orders[e]
      /\ orders'[o].side = x.side /\ orders'[o].status = "filled"
      /\ orders'[o].qty = k /\ orders'[o].price = p
      /\ orders'[o].pnl = FillPnl(x, p, row)
      /\ cash' = cash + FillCash(x, p, row)
  BY <1>0, FillEffect DEF Mine
<1>2. /\ o \in Pending \ Filled /\ Ids' = Ids /\ Filled' = Filled \union {o}
      /\ \A e \in Filled : orders'[e] = orders[e]
  BY <1>0, FilledGrows
<1>3. Next
  BY DEF Next, RoundStep, TransactionStep
<1>4. orders'[o].symbol = x.symbol
  BY <1>0, <1>2, <1>3, OrdersKeep DEF Mine, Pending
<1>5. /\ t.id = o /\ t.symbol = x.symbol /\ t.side = x.side /\ t.qty = k /\ t.price = p
      /\ t.gain = FillPnl(x, p, row)
  BY <1>1, <1>4 DEF TradeOf
<1>6. /\ w.id = o /\ w.symbol = x.symbol /\ w.side = x.side /\ w.qty = x.qty
      /\ w.limit = x.limit
  BY <1>0 DEF WaitingOrder, Mine
<1>7. w \in WaitingOrders \ WaitingOrders' /\ WaitingOrders' = WaitingOrders \ {w}
  BY <1>1, <1>2, OneWaitsNoLonger
<1>8. Trades' = Trades \union {t} /\ t \in Trades' \ Trades
  <2>1. \A e \in Filled : TradeOf(e)' = TradeOf(e) /\ TradeOf(e).id = e
    BY <1>2 DEF TradeOf
  <2> HIDE DEF t
  <2> QED  BY <1>2, <1>5, <2>1 DEF Trades, t
<1>9. Len(orders') = Len(orders)
  BY <1>2, SameLength
<1>10. Account!NoWorse(w, t.price)
  <2>1. x.limit # 0 => IF Buys(x) THEN p <= x.limit ELSE p >= x.limit
    BY <1>1 DEF PriceFits
  <2> HIDE DEF t, w, x, p
  <2> QED  BY <1>5, <1>6, <2>1 DEF Account!NoWorse, Buys
<1>11. /\ x.side \in Side /\ x.symbol \in Symbols /\ x.qty \in Nat /\ k \in Nat
       /\ row.qty \in Nat /\ long \in [Symbols -> Row] /\ k # 0
  <2>1. k # 0
    BY DEF Fill, FillsNothing
  <2> HIDE DEF k, x, row
  <2> QED  BY <1>1, <2>1, FillTypes DEF k, Order, Row, Positive, TypeInv, TypeOK
<1>12. \A s \in Symbols : SharesHeld[s] = long[s].qty
  BY DEF SharesHeld
<1>13. ASSUME x.side \in {"BUY", "SELL"}
       PROVE  /\ SharesHeld[x.symbol] = row.qty
              /\ x.side = "BUY" => row.qty = 0
              /\ SharesHeld' = [SharesHeld EXCEPT ![x.symbol] =
                                  IF x.side = "BUY" THEN row.qty + k ELSE row.qty - k]
  <2> DEFINE new == StoredFill(x, p, row, row)
  <2>1. /\ row = long[x.symbol] /\ (x.side = "BUY" <=> row.qty = 0)
        /\ long' = [long EXCEPT ![x.symbol] = new]
    BY <1>13, FillMovesLong
  <2>2. new.qty = IF x.side = "BUY" THEN row.qty + k ELSE row.qty - k
    BY <1>1, <1>13, <2>1, LongFill
  <2> HIDE DEF new, k, x, row
  <2>3. \A s \in Symbols : long'[s] = IF s = x.symbol THEN new ELSE long[s]
    BY <1>11, <2>1
  <2> QED  BY <1>11, <1>12, <2>1, <2>2, <2>3 DEF SharesHeld
<1> HIDE DEF w, t, x, k, row, p
<1>14. CASE x.side = "BUY"
  <2>1. k = x.qty /\ FillCash(x, p, row) = -(x.qty * p)
    BY <1>14 DEF k, FillQty, FillCash
  <2>2. x.qty * p \in Int /\ cash \in Int
    BY <1>1, <1>11 DEF TypeInv, TypeOK
  <2>3. cash' = cash - x.qty * p
    BY <1>1, <2>1, <2>2
  <2>4. SharesHeld[x.symbol] = 0 /\ SharesHeld' = [SharesHeld EXCEPT ![x.symbol] = k]
    BY <1>11, <1>13, <1>14
  <2>5. Account!Buy(w, t)
    BY <1>5, <1>6, <2>1, <2>3, <2>4 DEF Account!Buy
  <2>6. Account!Trade(w, t)
    BY <1>5, <1>6, <1>7, <1>8, <1>9, <1>10, <1>14, <2>5 DEF Account!Trade
  <2> QED  BY <1>7, <1>8, <2>6 DEF Account!Next
<1>15. CASE x.side = "SELL"
  <2>1. k = (IF x.qty <= row.qty THEN x.qty ELSE row.qty) /\ FillCash(x, p, row) = k * p
    BY <1>15 DEF k, FillQty, FillCash, Lesser
  <2>2. cash' = cash + k * p
    BY <1>1, <2>1
  <2>3. /\ SharesHeld[x.symbol] = row.qty
        /\ SharesHeld' = [SharesHeld EXCEPT ![x.symbol] = SharesHeld[x.symbol] - k]
    BY <1>13, <1>15
  <2>4. k > 0
    BY <1>11
  <2>5. Account!Sell(w, t)
    BY <1>5, <1>6, <2>1, <2>2, <2>3, <2>4 DEF Account!Sell
  <2>6. Account!Trade(w, t)
    BY <1>5, <1>6, <1>7, <1>8, <1>9, <1>10, <1>15, <2>5 DEF Account!Trade
  <2> QED  BY <1>7, <1>8, <2>6 DEF Account!Next
<1>16. CASE x.side \notin {"BUY", "SELL"}
  <2>1. long' = long
    BY <1>16, FillMovesLong DEF x
  <2>2. SharesHeld' = SharesHeld
    BY <2>1 DEF SharesHeld
  <2>3. cash' = IF x.side = "SHORT" THEN cash ELSE cash + FillPnl(x, p, row)
    <3>1. cash + 0 = cash
      BY DEF TypeInv, TypeOK
    <3> QED  BY <1>1, <1>11, <1>16, <3>1 DEF FillCash, Side
  <2>4. Account!TradeShort(w, t)
    BY <1>5, <1>6, <2>2, <2>3 DEF Account!TradeShort
  <2>5. Account!Trade(w, t)
    BY <1>5, <1>6, <1>7, <1>8, <1>9, <1>10, <1>16, <2>4 DEF Account!Trade
  <2> QED  BY <1>7, <1>8, <2>5 DEF Account!Next
<1> QED  BY <1>14, <1>15, <1>16

LEMMA DeskStepsOfAccount ==
  ASSUME \A d, e \in Desks : d = e, TypeInv, TypeInv', Held, OneForLong,
         NEW d \in Desks, Decide(d) \/ DeskStep(d) \/ AbandonOrder(d)
  PROVE  Account!Next \/ UNCHANGED Account!vars
<1>1. long' = long /\ cash' = cash
  BY DeskKeepsLong, DeskKeepsHeld
<1>2. CASE Insert(d)
  BY <1>1, <1>2, InsertPlaces
<1>3. CASE Cancel(d)
  <2>1. PICK o : o = desk[d].order
    OBVIOUS
  <2>2. orders' = Cancelled(o)
    BY <1>3, <2>1 DEF Cancel
  <2>3. CASE o \in Pending
    <3>1. orders' = [orders EXCEPT ![o].status = "cancelled"] /\ o \in Ids
      BY <2>2, <2>3 DEF Cancelled, Pending
    <3>2. orders \in Seq(Order) /\ orders[o] \in Order
      BY <3>1 DEF TypeInv, TypeOK, Ids
    <3>3. /\ Ids' = Ids /\ orders'[o].status = "cancelled"
          /\ \A e \in Ids : e # o => orders'[e] = orders[e]
      BY <3>1, <3>2 DEF Ids, Order
    <3> QED  BY <1>1, <2>3, <3>3, LeavingDrops
  <2>4. CASE o \notin Pending
    BY <1>1, <2>2, <2>4, AccountStands DEF Cancelled
  <2> QED  BY <2>3, <2>4
<1>4. CASE ~Insert(d) /\ ~Cancel(d)
  <2>1. UNCHANGED orders
    BY <1>4 DEF Decide, DeskStep, CheckWaiting, ReadShort, Register, Link,
                StartCancel, ReadUndo, Undo, AbandonOrder
  <2> QED  BY <1>1, <2>1, AccountStands
<1> QED  BY <1>2, <1>3, <1>4

LEMMA SettlerStepsOfAccount ==
  ASSUME TypeInv, TypeInv', Held, OneForLong, NEW c \in Settlers,
         RoundStep(c) \/ AbandonRound(c), ~Fill(c)
  PROVE  Account!Next \/ UNCHANGED Account!vars
<1>1. long' = long /\ cash' = cash
  BY SettlerKeepsLong, OthersFillNothing
<1>2. CASE RejectBuy(c) \/ RejectExit(c) \/ Expire(c)
  <2>1. PICK o : o = settler[c].order
    OBVIOUS
  <2>2. PICK status \in {"rejected", "expired"} : Close(c, status)
    BY <1>2 DEF RejectBuy, RejectExit, Expire, Reject
  <2>3. InTransaction(c) /\ status \in Status
    BY <1>2, <2>2 DEF RejectBuy, RejectExit, Expire, InTransaction, Status
  <2>4. o \in Pending /\ o \in Ids
    BY <2>1, <2>3 DEF Held, Pending
  <2>5. Ids' = Ids
    BY <2>2, <2>3, CloseKeepsIds
  <2>6. orders \in Seq(Order) /\ orders[o] \in Order
    BY <2>4 DEF TypeInv, TypeOK, Ids
  <2>7. /\ orders'[o].status = status
        /\ \A e \in Ids : e # o => orders'[e] = orders[e]
    BY <2>1, <2>2, <2>4, <2>6 DEF Close, Ids, Order
  <2> QED  BY <1>1, <2>2, <2>4, <2>5, <2>7, LeavingDrops
<1>3. CASE ~(RejectBuy(c) \/ RejectExit(c) \/ Expire(c))
  <2>1. UNCHANGED orders
    BY <1>3 DEF RoundStep, AbandonRound, Look, TransactionStep, BeginRound, EndRound,
                Skip, Claim, PassOver, CheckCash, ReadRow, GiveUp
  <2> QED  BY <1>1, <2>1, AccountStands
<1> QED  BY <1>2, <1>3

(* With one desk, the account behaves as TradingAccount promises: although  *)
(* rounds overlap, read rows without a lock, fail, die and begin again, an  *)
(* order is dropped or traded in a single step that moves cash and shares   *)
(* together, at no worse a price than its limit, and an order settled is    *)
(* never traded again.                                                      *)
THEOREM AccountKeepsItsPromise ==
  ASSUME \A d, e \in Desks : d = e
  PROVE  Spec => AccountSpec
<1> USE DEF AccountSpec
<1>1. Init => Account!Init
  BY AccountStarts
<1>2. Init => PriceFits
  BY IdleSettlerIsSettler DEF Init, PriceFits, InTransaction
<1>3. TypeInv /\ Held /\ PriceFits /\ [Next]_vars => PriceFits'
  BY PriceFitsPreserved
<1>4. TypeInv /\ TypeInv' /\ Held /\ OneForLong /\ PriceFits /\ [Next]_vars
        => [Account!Next]_(Account!vars)
  <2> SUFFICES ASSUME TypeInv, TypeInv', Held, OneForLong, PriceFits, [Next]_vars
               PROVE  Account!Next \/ UNCHANGED Account!vars
    OBVIOUS
  <2>1. ASSUME NEW d \in Desks, Decide(d) \/ DeskStep(d) \/ AbandonOrder(d)
        PROVE  Account!Next \/ UNCHANGED Account!vars
    BY <2>1, DeskStepsOfAccount
  <2>2. ASSUME NEW c \in Settlers, RoundStep(c) \/ AbandonRound(c)
        PROVE  Account!Next \/ UNCHANGED Account!vars
    BY <2>2, FillTrades, SettlerStepsOfAccount
  <2>3. CASE UNCHANGED vars
    BY <2>3, AccountStands DEF vars, account
  <2> QED  BY <2>1, <2>2, <2>3 DEF Next
<1> QED
  BY <1>1, <1>2, <1>3, <1>4, TypesHold, HeldAlways, OneForLongAlways, PTL
     DEF Spec, Account!Spec
=============================================================================
