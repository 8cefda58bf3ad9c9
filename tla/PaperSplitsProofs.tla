-------------------------- MODULE PaperSplitsProofs --------------------------
(***************************************************************************)
(* Proofs about stock splits in the paper broker: types, that every split  *)
(* is applied once to every share, and that an exit closes what was held.  *)
(***************************************************************************)
EXTENDS PaperSplits, SumLemmas

-----------------------------------------------------------------------------
(* The largest and the smallest number of a finite set.                    *)

LEMMA MaxOfFinite ==
  ASSUME NEW S, \A y \in S : y \in Int, IsFiniteSet(S), S # {}
  PROVE  Max(S) \in S /\ \A y \in S : Max(S) >= y
<1>0. \A bad \in SUBSET SUBSET S :
        bad # {} => \E m \in bad : \A s \in bad : s \subseteq m => s = m
  BY SmallestSet
<1> DEFINE ups == {{y \in S : y >= x} : x \in S}
<1>1. ups \in SUBSET SUBSET S /\ ups # {}
  OBVIOUS
<1> HIDE DEF ups
<1>2. PICK m \in ups : \A s \in ups : s \subseteq m => s = m
  BY <1>0, <1>1
<1>3. PICK x \in S : m = {y \in S : y >= x}
  BY DEF ups
<1>4. ASSUME NEW y \in S, ~(x >= y)
      PROVE  FALSE
  <2> DEFINE s == {z \in S : z >= y}
  <2>1. \A z \in S : z \in Int
    OBVIOUS
  <2>2. x \in m /\ x \notin s
    BY <1>3, <1>4, <2>1
  <2>3. \A z \in S : z >= y => z >= x
    BY <1>4, <2>1
  <2>4. s \subseteq m
    BY <1>3, <2>3
  <2>5. s \in ups
    BY DEF ups
  <2> HIDE DEF s
  <2> QED  BY <1>2, <2>2, <2>4, <2>5
<1>5. \E z \in S : \A y \in S : z >= y
  BY <1>4
<1> QED  BY <1>5 DEF Max

LEMMA MinOfFinite ==
  ASSUME NEW S, \A y \in S : y \in Int, IsFiniteSet(S), S # {}
  PROVE  Min(S) \in S /\ \A y \in S : Min(S) <= y
<1>0. \A bad \in SUBSET SUBSET S :
        bad # {} => \E m \in bad : \A s \in bad : s \subseteq m => s = m
  BY SmallestSet
<1> DEFINE downs == {{y \in S : y <= x} : x \in S}
<1>1. downs \in SUBSET SUBSET S /\ downs # {}
  OBVIOUS
<1> HIDE DEF downs
<1>2. PICK m \in downs : \A s \in downs : s \subseteq m => s = m
  BY <1>0, <1>1
<1>3. PICK x \in S : m = {y \in S : y <= x}
  BY DEF downs
<1>4. ASSUME NEW y \in S, ~(x <= y)
      PROVE  FALSE
  <2> DEFINE s == {z \in S : z <= y}
  <2>1. \A z \in S : z \in Int
    OBVIOUS
  <2>2. x \in m /\ x \notin s
    BY <1>3, <1>4, <2>1
  <2>3. \A z \in S : z <= y => z <= x
    BY <1>4, <2>1
  <2>4. s \subseteq m
    BY <1>3, <2>3
  <2>5. s \in downs
    BY DEF downs
  <2> HIDE DEF s
  <2> QED  BY <1>2, <2>2, <2>4, <2>5
<1>5. \E z \in S : \A y \in S : z <= y
  BY <1>4
<1> QED  BY <1>5 DEF Min

LEMMA MaxOfTwo ==
  ASSUME NEW a \in Int, NEW b \in Int
  PROVE  Max({a, b}) = IF a >= b THEN a ELSE b
<1>1. \E z \in {a, b} : \A y \in {a, b} : z >= y
  OBVIOUS
<1>2. Max({a, b}) \in {a, b} /\ \A y \in {a, b} : Max({a, b}) >= y
  BY <1>1 DEF Max
<1> QED  BY <1>2

LEMMA MinOfTwo ==
  ASSUME NEW a \in Int, NEW b \in Int
  PROVE  Min({a, b}) = IF a <= b THEN a ELSE b
<1>1. \E z \in {a, b} : \A y \in {a, b} : z <= y
  OBVIOUS
<1>2. Min({a, b}) \in {a, b} /\ \A y \in {a, b} : Min({a, b}) <= y
  BY <1>1 DEF Min
<1> QED  BY <1>2

-----------------------------------------------------------------------------
(* Factors of splits.                                                      *)

LEMMA ExDaysFinite ==
  /\ \A e \in ExDays : e \in Nat /\ e >= 2
  /\ \A S \in SUBSET ExDays : IsFiniteSet(S)
<1>1. IsFiniteSet(ExDays)
  BY FS_Interval, SplitAssumption DEF ExDays
<1>2. \A e \in ExDays : e \in Nat /\ e >= 2
  BY SplitAssumption DEF ExDays
<1> QED  BY <1>1, <1>2, FS_Subset

LEMMA DaysOf ==
  ASSUME NEW S \in SUBSET ExDays
  PROVE  \A e \in S : e \in ExDays /\ e \in Nat /\ e >= 2
BY ExDaysFinite

LEMMA FactorPositive ==
  ASSUME NEW S \in SUBSET ExDays
  PROVE  Factor[S] \in Nat \ {0} /\ (Factor[S] = 1 <=> S = {})
BY FactorAssumption

LEMMA SinceType ==
  ASSUME NEW S \in SUBSET ExDays, NEW d \in Int
  PROVE  /\ Since(S, d) \in Nat \ {0}
         /\ Since(S, d) = 1 <=> \A e \in S : e <= d
<1> DEFINE T == {e \in S : e > d}
<1>1. T \in SUBSET ExDays
  OBVIOUS
<1>2. T = {} <=> \A e \in S : e <= d
  <2>1. \A e \in S : e > d <=> ~(e <= d)
    BY DaysOf
  <2>2. T = {} <=> \A e \in S : ~(e > d)
    OBVIOUS
  <2> QED  BY <2>1, <2>2
<1> HIDE DEF T
<1>3. Since(S, d) = Factor[T]
  BY DEF Since, T
<1> QED  BY <1>1, <1>2, <1>3, FactorPositive

LEMMA KnownIsNotUnknown == \A S \in SUBSET ExDays : S # Unknown
BY ExDaysFinite DEF Unknown

LEMMA BetweenType ==
  ASSUME NEW S \in (SUBSET ExDays) \cup {Unknown}, NEW c, NEW d
  PROVE  Between(S, c, d) \in Nat \ {0}
<1>1. CASE S = Unknown \/ c > d
  BY <1>1 DEF Between
<1>2. CASE ~(S = Unknown \/ c > d)
  <2>1. S \in SUBSET ExDays
    BY <1>2
  <2>3. {e \in S : e > c /\ e <= d} \in SUBSET ExDays
    BY <2>1
  <2>2. Between(S, c, d) = Factor[{e \in S : e > c /\ e <= d}]
    BY <1>2 DEF Between
  <2> QED  BY <2>2, <2>3, FactorPositive
<1> QED  BY <1>1, <1>2

\* What went ex since c went ex between c and d or since d.
LEMMA SinceSplits ==
  ASSUME NEW S \in SUBSET ExDays, NEW c \in Int, NEW d \in Int, c <= d
  PROVE  Since(S, c) = Between(S, c, d) * Since(S, d)
<1> DEFINE A == {e \in S : e > c /\ e <= d}
           B == {e \in S : e > d}
<1>5. \A e \in S : e \in ExDays /\ e \in Int
  BY DaysOf
<1>6. \A e \in S : /\ ~(e <= d /\ e > d)
                  /\ e > c <=> (e > c /\ e <= d) \/ e > d
  BY <1>5
<1>1. A \in SUBSET ExDays /\ B \in SUBSET ExDays /\ A \intersect B = {}
  BY <1>5, <1>6
<1>2. {e \in S : e > c} = A \union B
  BY <1>6
<1>3. Between(S, c, d) = Factor[A]
  BY KnownIsNotUnknown DEF Between
<1>4. Since(S, d) = Factor[B] /\ Since(S, c) = Factor[A \union B]
  BY <1>2 DEF Since
<1> HIDE DEF A, B
<1> QED  BY <1>1, <1>3, <1>4, FactorAssumption

LEMMA BetweenNone ==
  ASSUME NEW S, NEW c, NEW d, c > d
  PROVE  Between(S, c, d) = 1
BY DEF Between

-----------------------------------------------------------------------------
(* Types.                                                                  *)

Holding == {r \in Row : r.qty = 0 => r = NoRow}
Splits == (SUBSET ExDays) \cup {Unknown}
Sent == {"register", "write", "link", "undo", "withdraw"}
Filling == {"held", "order", "fill", "write"}

TypeInv ==
  /\ TypeOK
  /\ desk.raw \in Holding /\ settler.raw \in Holding /\ reader.raw \in Holding
  /\ desk.pc = "look" => desk.raw # NoRow
  /\ desk.pc \in Sent => desk.id \in DOMAIN orders
  /\ settler.todo \subseteq DOMAIN orders
  /\ settler.pc \in Filling =>
       settler.id \in DOMAIN orders /\ settler.side = SideOf(orders[settler.id])

LEMMA HoldingFields ==
  ASSUME NEW r \in Holding
  PROVE  /\ r \in Row /\ r.qty \in Nat /\ r.at \in Nat
         /\ r # NoRow => r.qty > 0
         /\ r = NoRow => r.qty = 0
BY DEF Holding, Row, NoRow

LEMMA HoldingMade ==
  ASSUME NEW q \in Nat \ {0}, NEW t \in Nat
  PROVE  [qty |-> q, at |-> t] \in Holding
BY DEF Holding, Row

LEMMA NoRowHolds == NoRow \in Holding /\ NoRow \in Row /\ NoRow.qty = 0
BY DEF Holding, Row, NoRow

LEMMA IdleWorker == Idle \in Worker /\ Idle.raw \in Holding /\ Idle.id = 0 /\ Idle.todo = {}
                    /\ Idle.pc = "idle"
BY NoRowHolds DEF Idle, Worker, Sides

LEMMA RowsHold ==
  ASSUME TypeOK
  PROVE  row \in [Sides -> Holding]
BY DEF TypeOK, Holding

LEMMA HeldRows ==
  ASSUME NEW r \in [Sides -> Holding]
  PROVE  r \in [Sides -> Row] /\ \A x \in Sides : r[x].qty = 0 => r[x] = NoRow
BY DEF Holding

LEMMA StampType ==
  ASSUME TypeOK
  PROVE  Stamp \in Nat /\ Stamp <= day /\ day \in Nat /\ (part # "early" => Stamp = day)
         /\ (part = "early" => Stamp = day - 1)
<1>1. day \in Nat /\ day >= 1
  BY SplitAssumption DEF TypeOK
<1> QED  BY <1>1 DEF Stamp

\* The stamp after splits is that of now or the day of one of them.
LEMMA StampAfterType ==
  ASSUME NEW S \in SUBSET ExDays, NEW d \in Int, Stamp \in Nat
  PROVE  /\ StampAfter(S, d) \in Nat /\ StampAfter(S, d) >= Stamp
         /\ \A e \in S : e > d => StampAfter(S, d) >= e
         /\ StampAfter(S, d) = Stamp \/ StampAfter(S, d) \in {e \in S : e > d}
<1> DEFINE A == {e \in S : e > d}
           T == {Stamp} \cup A
<1>1. A \subseteq S /\ A \in SUBSET ExDays
  OBVIOUS
<1>2. \A e \in S : e \in Nat
  BY DaysOf
<1>3. IsFiniteSet(T)
  <2>1. IsFiniteSet(A) /\ IsFiniteSet({Stamp})
    BY <1>1, ExDaysFinite, FS_Singleton
  <2> HIDE DEF A
  <2> QED  BY <2>1, FS_Union
<1>4. \A y \in T : y \in Int
  BY <1>2
<1>5. T # {} /\ Stamp \in T
  OBVIOUS
<1>6. StampAfter(S, d) = Max(T)
  BY DEF StampAfter
<1>7. Max(T) \in T /\ \A y \in T : Max(T) >= y
  <2> HIDE DEF T
  <2> QED  BY <1>3, <1>4, <1>5, MaxOfFinite
<1>8. Max(T) = Stamp \/ Max(T) \in A
  BY <1>7
<1>9. \A e \in S : e > d => Max(T) >= e
  <2>1. \A e \in S : e > d => e \in T
    OBVIOUS
  <2> QED  BY <1>7, <2>1
<1>10. Max(T) \in Nat /\ Max(T) >= Stamp
  <2>1. Max(T) \in T /\ Max(T) >= Stamp
    BY <1>5, <1>7
  <2>2. \A y \in T : y \in Nat
    BY <1>2
  <2> HIDE DEF T
  <2> QED  BY <2>1, <2>2
<1> HIDE DEF T
<1> QED  BY <1>6, <1>8, <1>9, <1>10

LEMMA AdjustedType ==
  ASSUME Stamp \in Nat, NEW S \in Splits, NEW date \in Int, NEW r \in Holding
  PROVE  Adjusted(S, date, r) \in Holding
<1>1. CASE S = Unknown \/ Since(S, date) = 1 \/ r = NoRow \/ Since(S, r.at) = 1
  BY <1>1 DEF Adjusted
<1>2. CASE ~(S = Unknown \/ Since(S, date) = 1 \/ r = NoRow \/ Since(S, r.at) = 1)
  <2>1. S \in SUBSET ExDays
    BY <1>2 DEF Splits
  <2>2. r.qty \in Nat \ {0} /\ r.at \in Nat
    BY <1>2, HoldingFields
  <2>3. Since(S, r.at) \in Nat \ {0} /\ StampAfter(S, r.at) \in Nat
    BY <2>1, <2>2, SinceType, StampAfterType
  <2>4. \A a, b \in Nat \ {0} : a * b \in Nat \ {0}
    OBVIOUS
  <2>5. Adjusted(S, date, r) = [qty |-> r.qty * Since(S, r.at), at |-> StampAfter(S, r.at)]
    BY <1>2 DEF Adjusted
  <2>6. r.qty * Since(S, r.at) \in Nat \ {0}
    BY <2>2, <2>3, <2>4
  <2> QED  BY <2>3, <2>5, <2>6, HoldingMade
<1> QED  BY <1>1, <1>2

LEMMA ReturnedType ==
  ASSUME Stamp \in Nat, NEW S \in Splits, NEW raw \in Holding, NEW r \in Holding
  PROVE  Returned(S, raw, r) \in Holding
BY AdjustedType, HoldingFields DEF Returned

LEMMA WithdrawnType ==
  ASSUME Stamp \in Nat, NEW old \in Holding, NEW n \in Nat, NEW r \in Holding
  PROVE  Withdrawn(old, n, r) \in Holding
<1>1. CASE old.qty <= n
  BY <1>1, NoRowHolds DEF Withdrawn
<1>2. CASE ~(old.qty <= n)
  <2>1. old.qty \in Nat /\ r.at \in Nat
    BY HoldingFields
  <2>2. old.qty - n \in Nat \ {0}
    BY <1>2, <2>1
  <2>3. Max({r.at, Stamp}) \in Nat
    BY <2>1, MaxOfTwo
  <2>4. Withdrawn(old, n, r) = [qty |-> old.qty - n, at |-> Max({r.at, Stamp})]
    BY <1>2 DEF Withdrawn
  <2> QED  BY <2>2, <2>3, <2>4, HoldingMade
<1> QED  BY <1>1, <1>2

\* The record that is read, and read again.
LEMMA FetchesType ==
  ASSUME TypeOK
  PROVE  /\ Fetches \subseteq Splits /\ known \in Splits /\ known \in SUBSET ExDays
         /\ \A got : FetchesAgain(got) \subseteq Splits \cup {got}
BY DEF TypeOK, Fetches, FetchesAgain, Splits

LEMMA OrderFields ==
  ASSUME TypeOK, NEW i \in DOMAIN orders
  PROVE  /\ orders[i] \in Order /\ orders[i].qty \in Nat \ {0} /\ orders[i].at \in Nat
         /\ orders[i].meant \in Int /\ orders[i].signal \in BOOLEAN
         /\ orders[i].kind \in {"BUY", "SHORT", "SELL", "SHORT_COVER"}
         /\ i \in Nat /\ i >= 1
         /\ SideOf(orders[i]) \in Sides
<1>1. orders[i] \in Order /\ i \in Nat /\ i >= 1
  BY DEF TypeOK
<1>2. {Entry[x] : x \in Sides} \cup {Exit[x] : x \in Sides} = {"BUY", "SHORT", "SELL", "SHORT_COVER"}
  BY DEF Entry, Exit, Sides
<1> QED  BY <1>1, <1>2 DEF Order, SideOf, Sides

LEMMA DomainFinite ==
  ASSUME TypeOK, NEW S \in SUBSET DOMAIN orders
  PROVE  IsFiniteSet(S)
<1>1. Len(orders) \in Nat /\ DOMAIN orders = 1 .. Len(orders)
  BY DEF TypeOK
<1>2. IsFiniteSet(1 .. Len(orders))
  BY <1>1, FS_Interval
<1> QED  BY <1>1, <1>2, FS_Subset

Kinds == {"BUY", "SHORT", "SELL", "SHORT_COVER"}
Statuses == {"pending", "filled", "cancelled", "expired", "rejected"}

LEMMA KindsOfSides ==
  /\ {Entry[x] : x \in Sides} \cup {Exit[x] : x \in Sides} = Kinds
  /\ Entry["long"] = "BUY" /\ Entry["short"] = "SHORT"
  /\ Exit["long"] = "SELL" /\ Exit["short"] = "SHORT_COVER"
  /\ \A x \in Sides : Entry[x] \in Kinds /\ Exit[x] \in Kinds
BY DEF Kinds, Entry, Exit, Sides

LEMMA InsertAppends ==
  ASSUME TypeOK, NEW kind \in Kinds, NEW qty \in Nat \ {0}, NEW signal \in BOOLEAN,
         Insert(kind, qty, signal)
  PROVE  /\ orders' \in Seq(Order)
         /\ Len(orders) \in Nat /\ Len(orders) + 1 \notin DOMAIN orders
         /\ DOMAIN orders' = DOMAIN orders \cup {Len(orders) + 1}
         /\ \A i \in DOMAIN orders : orders'[i] = orders[i]
         /\ orders'[Len(orders) + 1] = [kind |-> kind, qty |-> qty, at |-> Stamp, signal |-> signal,
                                        status |-> "pending", meant |-> desk.meant]
<1> DEFINE o == [kind |-> kind, qty |-> qty, at |-> Stamp, signal |-> signal,
                 status |-> "pending", meant |-> desk.meant]
<1>1. orders \in Seq(Order) /\ desk.meant \in Int
  BY DEF TypeOK, Worker
<1>2. o \in Order
  <2>1. Stamp \in Nat
    BY StampType
  <2> QED  BY <1>1, <2>1, KindsOfSides DEF Order
<1>3. orders' = Append(orders, o)
  BY DEF Insert
<1> HIDE DEF o
<1>4. /\ orders' \in Seq(Order) /\ Len(orders) \in Nat /\ Len(orders') = Len(orders) + 1
      /\ \A i \in 1 .. Len(orders) : orders'[i] = orders[i]
      /\ orders'[Len(orders) + 1] = o
  BY <1>1, <1>2, <1>3
<1>5. DOMAIN orders = 1 .. Len(orders) /\ DOMAIN orders' = 1 .. Len(orders) + 1
  BY <1>1, <1>4
<1> QED  BY <1>4, <1>5 DEF o

LEMMA StatusChanges ==
  ASSUME TypeOK, NEW i \in DOMAIN orders, NEW v \in Statuses,
         orders' = [orders EXCEPT ![i].status = v]
  PROVE  /\ orders' \in Seq(Order) /\ DOMAIN orders' = DOMAIN orders
         /\ \A j \in DOMAIN orders : j # i => orders'[j] = orders[j]
         /\ orders'[i] = [orders[i] EXCEPT !.status = v]
         /\ orders'[i].status = v /\ orders'[i].kind = orders[i].kind /\ orders'[i].qty = orders[i].qty
         /\ orders'[i].at = orders[i].at /\ orders'[i].signal = orders[i].signal
         /\ orders'[i].meant = orders[i].meant
<1>1. orders \in Seq(Order) /\ orders[i] \in Order
  BY DEF TypeOK
<1>2. orders'[i] = [orders[i] EXCEPT !.status = v]
  BY <1>1
<1>3. [orders[i] EXCEPT !.status = v] \in Order
  BY <1>1 DEF Order, Statuses
<1>4. DOMAIN orders' = DOMAIN orders /\ \A j \in DOMAIN orders : j # i => orders'[j] = orders[j]
  BY <1>1
<1>5. orders' \in Seq(Order)
  BY <1>1, <1>2, <1>3, <1>4
<1>6. /\ orders'[i].status = v /\ orders'[i].kind = orders[i].kind /\ orders'[i].qty = orders[i].qty
      /\ orders'[i].at = orders[i].at /\ orders'[i].signal = orders[i].signal
      /\ orders'[i].meant = orders[i].meant
  BY <1>1, <1>2 DEF Order
<1> QED  BY <1>2, <1>4, <1>5, <1>6

LEMMA WorkerFields ==
  ASSUME NEW w \in Worker
  PROVE  /\ w.side \in Sides /\ w.raw \in Row /\ w.got \in Splits /\ w.qty \in Nat
         /\ w.id \in Nat /\ w.todo \in SUBSET Nat /\ w.meant \in Int
BY DEF Worker, Splits

LEMMA BroughtForward ==
  ASSUME TypeInv, NEW S \in Splits, NEW date \in Int, NEW x \in Sides
  PROVE  /\ Adjusted(S, date, row[x]) \in Holding
         /\ [row EXCEPT ![x] = Adjusted(S, date, @)] \in [Sides -> Holding]
<1>1. row \in [Sides -> Holding] /\ Stamp \in Nat
  BY RowsHold, StampType DEF TypeInv
<1>2. Adjusted(S, date, row[x]) \in Holding
  BY <1>1, AdjustedType
<1> QED  BY <1>1, <1>2

(* Shares that wait in the row are as many as a number says.                *)

WaitOf(splits, raw) ==
  [i \in DOMAIN orders |-> orders[i].qty * Between(splits, orders[i].at, raw.at)]

LEMMA WaitsTotal ==
  ASSUME TypeOK, NEW splits \in Splits, NEW raw
  PROVE  /\ Pending("SHORT") \in SUBSET DOMAIN orders /\ IsFiniteSet(Pending("SHORT"))
         /\ \A i \in Pending("SHORT") : WaitOf(splits, raw)[i] \in Nat \ {0}
         /\ WaitsInRow(splits, raw) = Total(WaitOf(splits, raw), Pending("SHORT"))
         /\ WaitsInRow(splits, raw) \in Nat
<1> DEFINE S == Pending("SHORT")
           f == WaitOf(splits, raw)
           Iter(g) == g = [s \in SUBSET S |->
             IF s = {} THEN 0
             ELSE (orders[CHOOSE x \in s : TRUE].qty
                    * Between(splits, orders[CHOOSE x \in s : TRUE].at, raw.at))
                  + g[s \ {CHOOSE x \in s : TRUE}]]
<1>1. S \in SUBSET DOMAIN orders
  BY DEF Pending
<1>2. IsFiniteSet(S)
  BY <1>1, DomainFinite
<1>3. ASSUME NEW i \in S
      PROVE  f[i] \in Nat \ {0} /\ f[i] = orders[i].qty * Between(splits, orders[i].at, raw.at)
  <2>1. i \in DOMAIN orders
    BY <1>1
  <2>2. orders[i].qty \in Nat \ {0} /\ Between(splits, orders[i].at, raw.at) \in Nat \ {0}
    BY <2>1, OrderFields, BetweenType DEF Splits
  <2>3. f[i] = orders[i].qty * Between(splits, orders[i].at, raw.at)
    BY <2>1 DEF WaitOf
  <2>4. \A a, b \in Nat \ {0} : a * b \in Nat \ {0}
    OBVIOUS
  <2> HIDE DEF f
  <2> QED  BY <2>2, <2>3, <2>4
<1>4. WaitsInRow(splits, raw) = (CHOOSE g : Iter(g))[S]
  BY DEF WaitsInRow, MapThenSumSet, MapThenFoldSet
<1>5. ASSUME NEW g PROVE Iter(g) <=> Iterates(g, f, S)
  <2>1. \A s \in SUBSET S : s # {} =>
          f[CHOOSE x \in s : TRUE] = orders[CHOOSE x \in s : TRUE].qty
                    * Between(splits, orders[CHOOSE x \in s : TRUE].at, raw.at)
    BY <1>3
  <2> HIDE DEF f, S
  <2> QED  BY <2>1 DEF Iterates
<1> HIDE DEF Iter
<1>6. IntOn(f, S) /\ \A i \in S : f[i] \in Nat
  BY <1>3 DEF IntOn
<1> HIDE DEF f, S
<1>7. \E g : Iter(g)
  BY <1>2, <1>5, <1>6, TotalIterates
<1>8. \E g : Iter(g) /\ WaitsInRow(splits, raw) = g[S]
  BY <1>4, <1>7
<1>9. WaitsInRow(splits, raw) = Total(f, S)
  BY <1>2, <1>5, <1>6, <1>8, IteratesIsTotal
<1>10. Total(f, S) \in Nat
  BY <1>2, <1>6, TotalNat
<1> QED  BY <1>1, <1>2, <1>3, <1>9, <1>10 DEF f, S

LEMMA DivNat ==
  ASSUME NEW a \in Nat, NEW b \in Nat \ {0}
  PROVE  a \div b \in Nat
OBVIOUS

LEMMA CoverableType ==
  ASSUME TypeOK, NEW splits \in Splits, NEW raw \in Holding, raw # NoRow, NEW qty \in Nat
  PROVE  Coverable(splits, raw, qty) \in Nat
<1> DEFINE n == (WaitsInRow(splits, raw) * qty) \div raw.qty
<1>1. n \in Nat
  <2>1. WaitsInRow(splits, raw) \in Nat /\ raw.qty \in Nat \ {0}
    BY WaitsTotal, HoldingFields
  <2>2. \A a, b \in Nat : a * b \in Nat
    OBVIOUS
  <2> QED  BY <2>1, <2>2, DivNat
<1>2. Coverable(splits, raw, qty) = qty - Min({qty, n})
  BY DEF Coverable
<1> HIDE DEF n
<1> QED  BY <1>1, <1>2, MinOfTwo

\* What a step of the desk, and what a step of a round, must keep of the types.
LEMMA DeskTypes ==
  ASSUME TypeInv, UNCHANGED <<calendar, known, settler, reader, net>>,
         row' \in [Sides -> Holding], orders' \in Seq(Order),
         \A i \in DOMAIN orders : i \in DOMAIN orders' /\ orders'[i].kind = orders[i].kind,
         desk' \in Worker, desk'.raw \in Holding,
         desk'.pc = "look" => desk'.raw # NoRow,
         desk'.pc \in Sent => desk'.id \in DOMAIN orders'
  PROVE  TypeInv'
<1>1. row' \in [Sides -> Row] /\ \A x \in Sides : row'[x].qty = 0 => row'[x] = NoRow
  BY HeldRows
<1>2. TypeOK'
  BY <1>1 DEF TypeInv, TypeOK, calendar
<1>3. settler'.pc \in Filling => /\ settler'.id \in DOMAIN orders'
                               /\ settler'.side = SideOf(orders'[settler'.id])
  BY DEF TypeInv, SideOf
<1>4. settler'.todo \subseteq DOMAIN orders'
  BY DEF TypeInv
<1> QED  BY <1>2, <1>3, <1>4 DEF TypeInv

LEMMA RoundTypes ==
  ASSUME TypeInv, UNCHANGED <<calendar, known, desk, reader>>,
         row' \in [Sides -> Holding], orders' \in Seq(Order), DOMAIN orders' = DOMAIN orders,
         net' \in [Sides -> Int],
         settler' \in Worker, settler'.raw \in Holding,
         settler'.todo \subseteq DOMAIN orders,
         settler'.pc \in Filling => /\ settler'.id \in DOMAIN orders
                                   /\ settler'.side = SideOf(orders'[settler'.id])
  PROVE  TypeInv'
<1>1. row' \in [Sides -> Row] /\ \A x \in Sides : row'[x].qty = 0 => row'[x] = NoRow
  BY HeldRows
<1> QED  BY <1>1 DEF TypeInv, TypeOK, calendar

LEMMA TypesAtHand ==
  ASSUME TypeInv
  PROVE  /\ row \in [Sides -> Holding] /\ orders \in Seq(Order) /\ Stamp \in Nat
         /\ net \in [Sides -> Int]
         /\ desk \in Worker /\ settler \in Worker /\ reader \in Worker
         /\ desk.raw \in Holding /\ settler.raw \in Holding /\ reader.raw \in Holding
         /\ settler.todo \subseteq DOMAIN orders
         /\ "short" \in Sides /\ "long" \in Sides
BY RowsHold, StampType DEF TypeInv, TypeOK, Sides

LEMMA CalendarTypes ==
  ASSUME TypeInv, Publish \/ Tick
  PROVE  TypeInv'
<1>1. UNCHANGED <<ex, setting, row, orders, desk, settler, reader, net>>
  BY DEF Publish, Tick, calendar
<1>2. known' \in SUBSET ExDays
  BY DEF Publish, Tick, TypeInv, TypeOK
<1>3. day' \in 1 .. MaxDay /\ part' \in {"early", "open", "dusk"}
  BY SplitAssumption DEF Publish, Tick, TypeInv, TypeOK, calendar
<1> QED  BY <1>1, <1>2, <1>3 DEF TypeInv, TypeOK

LEMMA ReaderTypes ==
  ASSUME TypeInv, Read \/ Adjust
  PROVE  TypeInv'
<1> USE TypesAtHand
<1>1. CASE Read
  <2>1. PICK x \in Sides : reader' = [Idle EXCEPT !.pc = "read", !.side = x, !.raw = row[x]]
    BY <1>1 DEF Read
  <2>2. row[x] \in Holding /\ row[x] \in Row
    BY HoldingFields
  <2>3. reader' \in Worker /\ reader'.raw \in Holding
    BY <2>1, <2>2, IdleWorker DEF Worker, Idle
  <2> QED  BY <1>1, <2>3 DEF Read, TypeInv, TypeOK, calendar
<1>2. CASE Adjust
  <2>1. PICK splits \in Fetches :
          row' = [row EXCEPT ![reader.side] = Adjusted(splits, reader.raw.at, @)]
    BY <1>2 DEF Adjust
  <2>2. splits \in Splits /\ reader.raw.at \in Int /\ reader.side \in Sides
    BY FetchesType, HoldingFields, WorkerFields DEF TypeInv
  <2>3. row' \in [Sides -> Holding]
    BY <2>1, <2>2, BroughtForward
  <2>4. row' \in [Sides -> Row] /\ \A x \in Sides : row'[x].qty = 0 => row'[x] = NoRow
    BY <2>3, HeldRows
  <2>5. reader' \in Worker /\ reader'.raw \in Holding
    BY <1>2, IdleWorker DEF Adjust
  <2> QED  BY <1>2, <2>4, <2>5 DEF Adjust, TypeInv, TypeOK, calendar
<1> QED  BY <1>1, <1>2

LEMMA EntersTypes ==
  ASSUME TypeInv, Buy \/ Look
  PROVE  TypeInv'
<1> USE TypesAtHand
<1>1. CASE Buy
  <2>1. PICK signal \in BOOLEAN : Insert("BUY", 1, signal)
    BY <1>1 DEF Buy
  <2>2. orders' \in Seq(Order) /\ \A i \in DOMAIN orders : i \in DOMAIN orders' /\ orders'[i].kind = orders[i].kind
    <3>1. "BUY" \in Kinds /\ 1 \in Nat \ {0} /\ TypeOK
      BY DEF Kinds, TypeInv
    <3> QED  BY <2>1, <3>1, InsertAppends
  <2> QED  BY <1>1, <2>2, DeskTypes DEF Buy, TypeInv
<1>2. CASE Look
  <2>1. CASE \E x \in Sides :
               row[x] # NoRow
               /\ desk' = [Idle EXCEPT !.pc = "look", !.side = x, !.raw = row[x]]
    <3>1. PICK x \in Sides :
            row[x] # NoRow
            /\ desk' = [Idle EXCEPT !.pc = "look", !.side = x, !.raw = row[x]]
      BY <2>1
    <3>2. row[x] \in Holding /\ row[x] \in Row
      BY HoldingFields
    <3>3. desk' \in Worker /\ desk'.raw = row[x] /\ desk'.pc = "look"
      BY <3>1, <3>2, IdleWorker DEF Worker, Idle
    <3> QED  BY <1>2, <3>1, <3>2, <3>3, DeskTypes DEF Look, Sent
  <2>2. CASE desk' = [Idle EXCEPT !.pc = "stored", !.side = "short", !.raw = row["short"]]
    <3>2. row["short"] \in Holding /\ row["short"] \in Row
      BY HoldingFields
    <3>3. desk' \in Worker /\ desk'.raw = row["short"] /\ desk'.pc = "stored"
      BY <2>2, <3>2, IdleWorker DEF Worker, Idle
    <3> QED  BY <1>2, <3>2, <3>3, DeskTypes DEF Look, Sent
  <2> QED  BY <1>2, <2>1, <2>2 DEF Look
<1> QED  BY <1>1, <1>2

LEMMA LeavesTypes ==
  ASSUME TypeInv, Count \/ Sell
  PROVE  TypeInv'
<1> USE TypesAtHand
<1>1. CASE Count
  <2>0. desk.raw # NoRow /\ desk.side \in Sides /\ desk.raw.at \in Int
    <3>1. desk.raw # NoRow
      BY <1>1 DEF Count, TypeInv
    <3>2. desk.side \in Sides
      BY WorkerFields
    <3>3. desk.raw.at \in Nat
      BY HoldingFields
    <3> QED  BY <3>1, <3>2, <3>3
  <2> DEFINE r(splits) == Returned(splits, desk.raw, row[desk.side])
             q(splits, again) == IF desk.side = "long" THEN r(splits).qty
                                 ELSE Coverable(again, desk.raw, r(splits).qty)
  <2>a. PICK splits \in Fetches : \E again \in FetchesAgain(splits) :
          /\ row' = [row EXCEPT ![desk.side] = Adjusted(splits, desk.raw.at, @)]
          /\ desk' = [desk EXCEPT !.pc = "sell", !.meant = net[desk.side], !.qty = q(splits, again)]
    BY <1>1 DEF Count
  <2>1. PICK again \in FetchesAgain(splits) :
          /\ row' = [row EXCEPT ![desk.side] = Adjusted(splits, desk.raw.at, @)]
          /\ desk' = [desk EXCEPT !.pc = "sell", !.meant = net[desk.side], !.qty = q(splits, again)]
    BY <2>a
  <2>2. splits \in Splits /\ again \in Splits
    BY FetchesType DEF TypeInv
  <2>3. row' \in [Sides -> Holding]
    BY <2>0, <2>1, <2>2, BroughtForward
  <2>4. r(splits) \in Holding
    BY <2>0, <2>2, ReturnedType
  <2>5. q(splits, again) \in Nat
    BY <2>0, <2>2, <2>4, CoverableType, HoldingFields DEF TypeInv
  <2> HIDE DEF r, q
  <2>6. net[desk.side] \in Int
    BY <2>0
  <2>7. desk' \in Worker /\ desk'.raw = desk.raw /\ desk'.pc = "sell"
    BY <2>1, <2>5, <2>6 DEF Worker
  <2> QED  BY <1>1, <2>3, <2>7, DeskTypes DEF Count, Sent
<1>2. CASE Sell
  <2>1. desk' \in Worker /\ desk'.raw \in Holding /\ desk'.pc = "idle"
    BY <1>2, IdleWorker DEF Sell
  <2>2. orders' \in Seq(Order) /\ \A i \in DOMAIN orders : i \in DOMAIN orders' /\ orders'[i].kind = orders[i].kind
    <3>1. CASE UNCHANGED orders
      BY <3>1
    <3>2. CASE desk.qty > 0 /\ \E signal \in BOOLEAN : Insert(Exit[desk.side], desk.qty, signal)
      <4>1. PICK signal \in BOOLEAN : Insert(Exit[desk.side], desk.qty, signal)
        BY <3>2
      <4>2. Exit[desk.side] \in Kinds /\ desk.qty \in Nat \ {0}
        BY <3>2, WorkerFields, KindsOfSides
      <4> QED  BY <4>1, <4>2, InsertAppends DEF TypeInv
    <3> QED  BY <1>2, <3>1, <3>2 DEF Sell
  <2> QED  BY <1>2, <2>1, <2>2, DeskTypes DEF Sell, Sent
<1> QED  BY <1>1, <1>2

LEMMA ShortTypes ==
  ASSUME TypeInv, AdjustStored \/ InsertShort \/ ReadShort
  PROVE  TypeInv'
<1> USE TypesAtHand
<1>1. CASE AdjustStored
  <2>a. PICK splits \in Fetches : \E again \in FetchesAgain(splits) :
          /\ row' = [row EXCEPT !["short"] =
                       IF desk.raw = NoRow THEN @ ELSE Adjusted(splits, desk.raw.at, @)]
          /\ desk' = [desk EXCEPT !.pc = "insert", !.got = again]
    BY <1>1 DEF AdjustStored
  <2>1. PICK again \in FetchesAgain(splits) :
          /\ row' = [row EXCEPT !["short"] =
                       IF desk.raw = NoRow THEN @ ELSE Adjusted(splits, desk.raw.at, @)]
          /\ desk' = [desk EXCEPT !.pc = "insert", !.got = again]
    BY <2>a
  <2>2. splits \in Splits /\ again \in Splits /\ desk.raw.at \in Int
    BY FetchesType, HoldingFields DEF TypeInv
  <2>3. Adjusted(splits, desk.raw.at, row["short"]) \in Holding /\ row["short"] \in Holding
    BY <2>2, BroughtForward
  <2>4. row' \in [Sides -> Holding]
    BY <2>1, <2>3
  <2>5. desk' \in Worker /\ desk'.raw = desk.raw /\ desk'.pc = "insert"
    BY <2>1, <2>2 DEF Worker, Splits
  <2> QED  BY <1>1, <2>4, <2>5, DeskTypes DEF AdjustStored, Sent
<1>2. CASE InsertShort
  <2>1. /\ orders' \in Seq(Order)
        /\ \A i \in DOMAIN orders : i \in DOMAIN orders' /\ orders'[i].kind = orders[i].kind
        /\ Len(orders) + 1 \in DOMAIN orders' /\ Len(orders) + 1 \in Nat
    <3>1. "SHORT" \in Kinds /\ 1 \in Nat \ {0} /\ TypeOK /\ TRUE \in BOOLEAN
      BY DEF Kinds, TypeInv
    <3>2. Insert("SHORT", 1, TRUE)
      BY <1>2 DEF InsertShort
    <3> HIDE TypesAtHand
    <3>3. /\ orders' \in Seq(Order) /\ Len(orders) \in Nat
          /\ DOMAIN orders' = DOMAIN orders \cup {Len(orders) + 1}
          /\ \A i \in DOMAIN orders : orders'[i] = orders[i]
      BY <3>1, <3>2, InsertAppends
    <3> QED  BY <3>3
  <2>2. /\ desk' \in Worker /\ desk'.raw = desk.raw /\ desk'.pc = "register"
        /\ desk'.id = Len(orders) + 1
    BY <1>2, <2>1 DEF InsertShort, Worker
  <2> QED  BY <1>2, <2>1, <2>2, DeskTypes DEF InsertShort, Sent
<1>3. CASE ReadShort
  <2>1. row["short"] \in Holding /\ row["short"] \in Row
    BY HoldingFields
  <2>2. /\ desk' \in Worker /\ desk'.raw = row["short"] /\ desk'.pc = "write"
        /\ desk'.id = desk.id
    BY <1>3, <2>1 DEF ReadShort, Worker
  <2>3. desk.id \in DOMAIN orders
    BY <1>3 DEF ReadShort, TypeInv, Sent
  <2> QED  BY <1>3, <2>1, <2>2, <2>3, DeskTypes DEF ReadShort, Sent
<1> QED  BY <1>1, <1>2, <1>3

LEMMA RegisterTypes ==
  ASSUME TypeInv, Register \/ Link
  PROVE  TypeInv'
<1> USE TypesAtHand
<1>1. CASE Register
  <2> DEFINE o == orders[desk.id]
             old == desk.raw
             new == IF old = NoRow THEN [qty |-> o.qty, at |-> Stamp]
                    ELSE [qty |-> old.qty + o.qty * Between(desk.got, o.at, old.at),
                          at |-> Max({row["short"].at, Stamp})]
  <2>1. desk.id \in DOMAIN orders
    BY <1>1 DEF Register, TypeInv, Sent
  <2>2. o.qty \in Nat \ {0} /\ old.qty \in Nat /\ row["short"].at \in Nat
    BY <2>1, OrderFields, HoldingFields DEF TypeInv
  <2>3. Between(desk.got, o.at, old.at) \in Nat \ {0}
    BY WorkerFields, BetweenType DEF Splits
  <2>4. old.qty + o.qty * Between(desk.got, o.at, old.at) \in Nat \ {0}
    <3>1. \A a \in Nat, b, c \in Nat \ {0} : a + b * c \in Nat \ {0}
      OBVIOUS
    <3> HIDE DEF o, old
    <3> QED  BY <2>2, <2>3, <3>1
  <2>5. Max({row["short"].at, Stamp}) \in Nat
    BY <2>2, MaxOfTwo
  <2>6. new \in Holding
    BY <2>2, <2>4, <2>5, HoldingMade
  <2>7. row' = [row EXCEPT !["short"] = new]
    BY <1>1 DEF Register
  <2> HIDE DEF new
  <2>8. row' \in [Sides -> Holding]
    BY <2>6, <2>7
  <2>9. /\ desk' \in Worker /\ desk'.raw = desk.raw /\ desk'.pc = "link"
        /\ desk'.id = desk.id
    BY <1>1 DEF Register, Worker
  <2> QED  BY <1>1, <2>1, <2>8, <2>9, DeskTypes DEF Register
<1>2. CASE Link
  <2>1. desk.id \in DOMAIN orders
    BY <1>2 DEF Link, TypeInv, Sent
  <2>2. CASE desk' = Idle /\ UNCHANGED orders
    BY <1>2, <2>2, IdleWorker, DeskTypes DEF Link, Sent
  <2>3. CASE /\ orders' = [orders EXCEPT ![desk.id].status = "cancelled"]
             /\ desk' = [desk EXCEPT !.pc = "undo"]
    <3>1. /\ orders' \in Seq(Order) /\ DOMAIN orders' = DOMAIN orders
          /\ \A i \in DOMAIN orders : i \in DOMAIN orders' /\ orders'[i].kind = orders[i].kind
      BY <2>1, <2>3, StatusChanges DEF Statuses, TypeInv
    <3>2. /\ desk' \in Worker /\ desk'.raw = desk.raw /\ desk'.pc = "undo"
          /\ desk'.id = desk.id
      BY <2>3 DEF Worker
    <3> QED  BY <1>2, <2>1, <3>1, <3>2, DeskTypes DEF Link
  <2> QED  BY <1>2, <2>2, <2>3 DEF Link
<1> QED  BY <1>1, <1>2

LEMMA UndoTypes ==
  ASSUME TypeInv, ReadUndo \/ Undo
  PROVE  TypeInv'
<1> USE TypesAtHand
<1>1. CASE ReadUndo
  <2> DEFINE n(splits) == orders[desk.id].qty
                            * Between(splits, orders[desk.id].at, row["short"].at)
  <2>1. PICK splits \in Fetches \cup {known} :
          desk' = [desk EXCEPT !.pc = "withdraw", !.raw = row["short"], !.qty = n(splits)]
    BY <1>1 DEF ReadUndo
  <2>2. desk.id \in DOMAIN orders /\ splits \in Splits
    BY <1>1, FetchesType DEF ReadUndo, TypeInv, Sent
  <2>3. /\ orders[desk.id].qty \in Nat
        /\ Between(splits, orders[desk.id].at, row["short"].at) \in Nat
    BY <2>2, OrderFields, BetweenType DEF TypeInv, Splits
  <2>4. n(splits) \in Nat
    <3>1. \A a, b \in Nat : a * b \in Nat
      OBVIOUS
    <3> QED  BY <2>3, <3>1
  <2>5. row["short"] \in Holding /\ row["short"] \in Row
    BY HoldingFields
  <2> HIDE DEF n
  <2>6. /\ desk' \in Worker /\ desk'.raw = row["short"] /\ desk'.pc = "withdraw"
        /\ desk'.id = desk.id
    BY <2>1, <2>4, <2>5 DEF Worker
  <2> QED  BY <1>1, <2>2, <2>5, <2>6, DeskTypes DEF ReadUndo
<1>2. CASE Undo
  <2>1. desk.qty \in Nat /\ row["short"] \in Holding
    BY WorkerFields
  <2>2. Withdrawn(desk.raw, desk.qty, row["short"]) \in Holding
    BY <2>1, WithdrawnType
  <2>3. row' \in [Sides -> Holding]
    BY <1>2, <2>2 DEF Undo
  <2> QED  BY <1>2, <2>3, IdleWorker, DeskTypes DEF Undo, Sent
<1> QED  BY <1>1, <1>2

LEMMA FillingTypes ==
  ASSUME TypeInv, settler.pc \in Filling
  PROVE  /\ settler.id \in DOMAIN orders /\ settler.side = SideOf(Its)
         /\ settler.side \in Sides /\ settler.qty \in Nat
         /\ settler.raw.qty \in Nat /\ settler.raw.at \in Nat /\ settler.got \in Splits
         /\ Past \in Worker /\ Past.raw \in Holding /\ Past.todo \subseteq DOMAIN orders
         /\ Past.pc = "next" /\ Past.raw = settler.raw /\ Past.todo = settler.todo \ {settler.id}
<1>1. settler \in Worker /\ settler.raw \in Holding /\ settler.todo \subseteq DOMAIN orders
  BY TypesAtHand
<1>2. settler.id \in DOMAIN orders /\ settler.side = SideOf(Its)
  BY DEF TypeInv, Its
<1>3. /\ Past \in Worker /\ Past.raw = settler.raw /\ Past.pc = "next"
      /\ Past.todo = settler.todo \ {settler.id}
  BY <1>1 DEF Past, Worker
<1> QED  BY <1>1, <1>2, <1>3, WorkerFields, HoldingFields

LEMMA RoundBeginsTypes ==
  ASSUME TypeInv, BeginRound \/ EndRound \/ Take
  PROVE  TypeInv'
<1> USE TypesAtHand
<1>1. CASE BeginRound
  <2> DEFINE S == {i \in DOMAIN orders : orders[i].status = "pending"}
  <2>1. S \in SUBSET Nat /\ S \subseteq DOMAIN orders
    BY DEF TypeInv, TypeOK
  <2>2. settler' = [Idle EXCEPT !.pc = "next", !.todo = S]
    BY <1>1 DEF BeginRound
  <2> HIDE DEF S
  <2>3. settler' \in Worker /\ settler'.raw \in Holding /\ settler'.todo = S /\ settler'.pc = "next"
    BY <2>1, <2>2, IdleWorker, NoRowHolds DEF Worker, Idle
  <2> QED  BY <1>1, <2>1, <2>3, RoundTypes DEF BeginRound, Filling
<1>2. CASE EndRound
  BY <1>2, IdleWorker, RoundTypes DEF EndRound, Filling
<1>3. CASE Take
  <2> DEFINE i == Min(settler.todo)
  <2>1. i \in settler.todo
    <3>1. settler.todo # {} /\ IsFiniteSet(settler.todo) /\ \A y \in settler.todo : y \in Int
      BY <1>3, DomainFinite, OrderFields DEF Take, TypeInv
    <3> QED  BY <3>1, MinOfFinite
  <2>2. \/ settler' = [settler EXCEPT !.todo = @ \ {i}]
        \/ settler' = [settler EXCEPT !.pc = "held", !.id = i, !.side = SideOf(orders[i]),
                                      !.raw = row[SideOf(orders[i])]]
    BY <1>3 DEF Take
  <2> HIDE DEF i
  <2>3. i \in DOMAIN orders /\ i \in Nat /\ SideOf(orders[i]) \in Sides
    BY <2>1, OrderFields DEF TypeInv
  <2>4. row[SideOf(orders[i])] \in Holding /\ row[SideOf(orders[i])] \in Row
    BY <2>3, HoldingFields
  <2>5. settler.pc = "next"
    BY <1>3 DEF Take
  <2>6. CASE settler' = [settler EXCEPT !.todo = @ \ {i}]
    <3>1. /\ settler' \in Worker /\ settler'.raw = settler.raw /\ settler'.pc = "next"
          /\ settler'.todo = settler.todo \ {i}
      BY <2>5, <2>6 DEF Worker
    <3> QED  BY <1>3, <3>1, RoundTypes DEF Take, Filling
  <2>7. CASE settler' = [settler EXCEPT !.pc = "held", !.id = i, !.side = SideOf(orders[i]),
                                        !.raw = row[SideOf(orders[i])]]
    <3>1. /\ settler' \in Worker /\ settler'.raw = row[SideOf(orders[i])] /\ settler'.id = i
          /\ settler'.todo = settler.todo /\ settler'.side = SideOf(orders[i])
      BY <2>3, <2>4, <2>7 DEF Worker
    <3> QED  BY <1>3, <2>3, <2>4, <3>1, RoundTypes DEF Take
  <2> QED  BY <2>2, <2>6, <2>7
<1> QED  BY <1>1, <1>2, <1>3

LEMMA RoundAdjustsTypes ==
  ASSUME TypeInv, AdjustHeld \/ AdjustOrder \/ ReadRow
  PROVE  TypeInv'
<1> USE TypesAtHand
<1>0. settler.pc \in Filling
  BY DEF AdjustHeld, AdjustOrder, ReadRow, Filling
<1>1. CASE AdjustHeld
  <2>1. PICK splits \in Fetches :
          /\ row' = [row EXCEPT ![settler.side] =
                       IF settler.raw = NoRow THEN @ ELSE Adjusted(splits, settler.raw.at, @)]
          /\ settler' = [settler EXCEPT !.pc = "order", !.got = splits,
                           !.raw = IF @ = NoRow THEN @ ELSE Returned(splits, @, row[settler.side])]
    BY <1>1 DEF AdjustHeld
  <2>2. splits \in Splits /\ settler.raw.at \in Int /\ settler.side \in Sides
    BY <1>0, FetchesType, FillingTypes DEF TypeInv
  <2>3. /\ Adjusted(splits, settler.raw.at, row[settler.side]) \in Holding
        /\ row[settler.side] \in Holding
    BY <2>2, BroughtForward
  <2>4. row' \in [Sides -> Holding]
    BY <2>1, <2>2, <2>3
  <2>5. Returned(splits, settler.raw, row[settler.side]) \in Holding
    BY <2>2, <2>3, ReturnedType
  <2> DEFINE back == IF settler.raw = NoRow THEN settler.raw
                     ELSE Returned(splits, settler.raw, row[settler.side])
  <2>6. back \in Holding /\ settler' = [settler EXCEPT !.pc = "order", !.got = splits, !.raw = back]
    BY <2>1, <2>5
  <2> HIDE DEF back
  <2>7. back \in Row
    BY <2>6 DEF Holding
  <2>8. /\ settler' \in Worker /\ settler'.raw \in Holding /\ settler'.id = settler.id
        /\ settler'.todo = settler.todo /\ settler'.side = settler.side
    BY <2>2, <2>6, <2>7 DEF Worker, Splits
  <2>9. settler.id \in DOMAIN orders /\ settler.side = SideOf(orders[settler.id])
    BY <1>0, FillingTypes DEF Its
  <2>10. UNCHANGED <<calendar, known, orders, desk, reader, net>>
    BY <1>1 DEF AdjustHeld
  <2> QED  BY <2>4, <2>8, <2>9, <2>10, RoundTypes
<1>2. CASE AdjustOrder
  <2>1. PICK splits \in FetchesAgain(settler.got) :
          settler' = IF splits = Unknown /\ Gap THEN Past
                     ELSE [settler EXCEPT !.pc = "fill", !.qty = OrderQty(splits, Its)]
    BY <1>2 DEF AdjustOrder
  <2>a. splits \in Splits
    BY FetchesType, WorkerFields DEF TypeInv
  <2>2. splits \in Splits /\ settler.id \in DOMAIN orders /\ settler.side = SideOf(orders[settler.id])
    BY <1>0, <2>a, FillingTypes DEF Its
  <2>3. OrderQty(splits, Its) \in Nat
    <3>1. Its.qty \in Nat /\ Its.at \in Int
      BY <2>2, OrderFields DEF Its, TypeInv
    <3>2. splits # Unknown => Since(splits, Its.at) \in Nat
      BY <2>2, <3>1, SinceType DEF Splits
    <3>3. \A a, b \in Nat : a * b \in Nat
      OBVIOUS
    <3> QED  BY <3>1, <3>2, <3>3 DEF OrderQty
  <2>4. CASE settler' = Past
    <3>1. /\ Past \in Worker /\ Past.raw \in Holding /\ Past.todo \subseteq DOMAIN orders
          /\ Past.pc \notin Filling
      BY <1>0, FillingTypes DEF Filling
    <3> QED  BY <1>2, <2>4, <3>1, RoundTypes DEF AdjustOrder
  <2>5. CASE settler' = [settler EXCEPT !.pc = "fill", !.qty = OrderQty(splits, Its)]
    <3>1. /\ settler' \in Worker /\ settler'.raw = settler.raw /\ settler'.id = settler.id
          /\ settler'.todo = settler.todo /\ settler'.side = settler.side
      BY <2>3, <2>5 DEF Worker
    <3> QED  BY <1>2, <2>2, <3>1, RoundTypes DEF AdjustOrder
  <2> QED  BY <2>1, <2>4, <2>5
<1>3. CASE ReadRow
  <2>1. /\ row[settler.side] \in Holding /\ row[settler.side] \in Row
        /\ settler.id \in DOMAIN orders /\ settler.side = SideOf(orders[settler.id])
    BY <1>0, FillingTypes, HoldingFields DEF Its
  <2>2. /\ settler' \in Worker /\ settler'.raw = row[settler.side] /\ settler'.id = settler.id
        /\ settler'.todo = settler.todo /\ settler'.side = settler.side
    BY <1>3, <2>1 DEF ReadRow, Worker
  <2> QED  BY <1>3, <2>1, <2>2, RoundTypes DEF ReadRow
<1> QED  BY <1>1, <1>2, <1>3

LEMMA ExpireTypes ==
  ASSUME TypeInv, Expire
  PROVE  TypeInv'
<1> USE TypesAtHand
<1>1. settler.pc \in Filling
  BY DEF Expire, Filling
<1>2. orders' \in Seq(Order) /\ DOMAIN orders' = DOMAIN orders
  <2>1. /\ settler.id \in DOMAIN orders /\ "expired" \in Statuses /\ TypeOK
        /\ orders' = [orders EXCEPT ![settler.id].status = "expired"]
    BY <1>1, FillingTypes DEF Expire, Statuses, TypeInv
  <2> QED  BY <2>1, StatusChanges
<1>3. Withdrawn(row["short"], settler.qty, row["short"]) \in Holding
  BY <1>1, FillingTypes, WithdrawnType
<1>4. row' \in [Sides -> Holding]
  BY <1>3 DEF Expire
<1>5. /\ Past \in Worker /\ Past.raw \in Holding /\ Past.todo \subseteq DOMAIN orders
      /\ Past.pc \notin Filling
  BY <1>1, FillingTypes DEF Filling
<1>6. settler' = Past /\ UNCHANGED <<calendar, known, desk, reader, net>>
  BY DEF Expire
<1> QED  BY <1>2, <1>4, <1>5, <1>6, RoundTypes

LEMMA FillTypes ==
  ASSUME TypeInv, Fill
  PROVE  TypeInv'
<1> USE TypesAtHand
<1>1. settler.pc \in Filling
  BY DEF Fill, Filling
<1>3. /\ settler.id \in DOMAIN orders /\ settler.side \in Sides /\ settler.qty \in Nat
      /\ settler.raw.qty \in Nat
  BY <1>1, FillingTypes
<1> DEFINE kind == Its.kind
           x == settler.side
           old == settler.raw
           n == IF kind = Exit[x] THEN Min({settler.qty, old.qty}) ELSE settler.qty
           left == CASE kind = "BUY"   -> old.qty + n
                     [] kind = "SHORT" -> IF old = NoRow THEN n ELSE row[x].qty
                     [] OTHER          -> old.qty - n
<1>2. /\ row' = [row EXCEPT ![x] = IF left = 0 THEN NoRow ELSE [qty |-> left, at |-> Stamp]]
      /\ orders' = [orders EXCEPT ![settler.id].status = IF n = 0 THEN "rejected" ELSE "filled"]
      /\ net' = [net EXCEPT ![x] = (IF kind = Exit[x] THEN @ - n * Since(ex, Stamp)
                                    ELSE @ + n * Since(ex, Stamp))]
      /\ settler' = Past /\ UNCHANGED <<calendar, known, desk, reader>>
  BY DEF Fill
<1>4. n \in Nat /\ (kind = Exit[x] => n <= old.qty)
  <2>1. CASE kind = Exit[x]
    <3>1. n = Min({settler.qty, old.qty})
      BY <2>1
    <3>2. settler.qty \in Int /\ old.qty \in Int
      BY <1>3
    <3>3. Min({settler.qty, old.qty}) = IF settler.qty <= old.qty THEN settler.qty ELSE old.qty
      BY <3>2, MinOfTwo
    <3> QED  BY <1>3, <3>1, <3>3
  <2>2. CASE kind # Exit[x]
    BY <1>3, <2>2
  <2> QED  BY <2>1, <2>2
<1>5. left \in Nat
  <2>1. row[x].qty \in Nat
    BY <1>3, HoldingFields
  <2>2. CASE kind = "BUY"
    BY <1>3, <1>4, <2>2
  <2>3. CASE kind = "SHORT"
    BY <1>4, <2>1, <2>3
  <2>4. CASE kind # "BUY" /\ kind # "SHORT"
    <3>1. kind = Exit[x]
      <4>1. Its.kind \in Kinds
        BY <1>3, OrderFields DEF Its, Kinds, TypeInv
      <4>2. settler.side = SideOf(Its)
        BY <1>1, FillingTypes
      <4> QED  BY <2>4, <4>1, <4>2 DEF Kinds, SideOf, Exit
    <3> QED  BY <1>3, <1>4, <2>4, <3>1
  <2> QED  BY <2>2, <2>3, <2>4
<1> HIDE DEF n, left
<1>6. row' \in [Sides -> Holding]
  <2>1. left # 0 => [qty |-> left, at |-> Stamp] \in Holding
    BY <1>5, HoldingMade
  <2> QED  BY <1>2, <1>3, <2>1, NoRowHolds
<1>7. orders' \in Seq(Order) /\ DOMAIN orders' = DOMAIN orders
  <2>1. (IF n = 0 THEN "rejected" ELSE "filled") \in Statuses /\ TypeOK
    BY DEF Statuses, TypeInv
  <2> QED  BY <1>2, <1>3, <2>1, StatusChanges
<1>8. net' \in [Sides -> Int]
  <2>1. Since(ex, Stamp) \in Nat
    BY SinceType DEF TypeInv, TypeOK
  <2>2. n * Since(ex, Stamp) \in Int
    BY <1>4, <2>1
  <2> QED  BY <1>2, <1>3, <2>2
<1>9. /\ Past \in Worker /\ Past.raw \in Holding /\ Past.todo \subseteq DOMAIN orders
      /\ Past.pc \notin Filling
  BY <1>1, FillingTypes DEF Filling
<1> QED  BY <1>2, <1>6, <1>7, <1>8, <1>9, RoundTypes

LEMMA TypesStay == Spec => []TypeInv
<1>1. Init => TypeInv
  <2>1. ASSUME Init
        PROVE  TypeInv
    <3>1. row \in [Sides -> Holding]
      BY <2>1, NoRowHolds DEF Init
    <3>2. row \in [Sides -> Row] /\ \A x \in Sides : row[x].qty = 0 => row[x] = NoRow
      BY <3>1, HeldRows
    <3>3. {} \in SUBSET ExDays /\ 1 \in 1 .. MaxDay /\ << >> \in Seq(Order)
      BY SplitAssumption
    <3> QED  BY <2>1, <3>2, <3>3, IdleWorker DEF Init, TypeInv, TypeOK, Sent, Filling
  <2> QED  BY <2>1
<1>2. TypeInv /\ [Next]_vars => TypeInv'
  <2> SUFFICES ASSUME TypeInv, [Next]_vars
               PROVE  TypeInv'
    OBVIOUS
  <2>1. CASE UNCHANGED vars
    <3>1. UNCHANGED <<ex, setting, day, part, known, row, orders, desk, settler, reader, net>>
      BY <2>1 DEF vars, calendar
    <3> QED  BY <3>1 DEF TypeInv, TypeOK
  <2>2. CASE Publish \/ Tick
    BY <2>2, CalendarTypes
  <2>3. CASE Read \/ Adjust
    BY <2>3, ReaderTypes
  <2>4. CASE Desk
    BY <2>4, EntersTypes, LeavesTypes, ShortTypes, RegisterTypes, UndoTypes DEF Desk
  <2>5. CASE Round
    BY <2>5, RoundBeginsTypes, RoundAdjustsTypes, ExpireTypes, FillTypes DEF Round
  <2> QED  BY <2>1, <2>2, <2>3, <2>4, <2>5 DEF Next
<1> QED  BY <1>1, <1>2, PTL DEF Spec

(***************************************************************************)
(* Rows and orders count whole shares, and no row is kept for none, with   *)
(* any splits, any record of them and any number of days and orders.       *)
(***************************************************************************)
THEOREM TypeCorrect == Spec => []TypeOK
<1>1. TypeInv => TypeOK
  BY DEF TypeInv
<1> QED  BY <1>1, TypesStay, PTL

-----------------------------------------------------------------------------
(* What lies behind the properties.  Left(d) is what a share of day d      *)
(* still becomes by the splits in the record, Units(d) by those of all     *)
(* days, and Ahead by those that are not in the record yet.                *)

Left(d) == Since(known, d)
Units(d) == Since(ex, d)
Ahead == Factor[ex \ known]
Worth(r) == r.qty * Units(r.at)

\* A day whose splits are in the record
Dated(d) == d <= day /\ \A e \in ex : e <= d => e \in known

\* A row in the units of the record, and what another row becomes
Current(r) == r = NoRow \/ Left(r.at) = 1
Afresh(r) == [qty |-> r.qty * Left(r.at), at |-> StampAfter(known, r.at)]

\* The row is the one that was read, or what somebody has made of it since
Follows(raw, r) ==
  IF raw = NoRow THEN r = NoRow
  ELSE Dated(raw.at) /\ (r = raw \/ (Left(raw.at) # 1 /\ r = Afresh(raw)))

InShort == {i \in DOMAIN orders : orders[i].kind = "SHORT" /\ InRow(i)}

CalendarKept ==
  /\ known \subseteq ex
  /\ \A e \in ex : e < day => e \in known
  /\ \A e \in known : e <= day
  /\ part # "early" => \A e \in ex : e <= day => e \in known

RowsDated == \A x \in Sides : row[x] # NoRow => Dated(row[x].at)

OrdersDated ==
  \A i \in DOMAIN orders :
    /\ Dated(orders[i].at) /\ orders[i].at <= Stamp
    /\ orders[i].kind = "SHORT" => orders[i].signal

\* Desks and rounds keep out of each other's way
OneAtWork ==
  /\ desk = Idle \/ settler = Idle
  /\ settler # Idle => part = "open"

Entering == Sent \cup {"stored", "insert"}

\* What the desk has read or is about to write
DeskOrder ==
  /\ desk.pc \notin Sent => desk.id = 0
  /\ desk.pc \in Sent =>
       /\ orders[desk.id].kind = "SHORT" /\ orders[desk.id].at = Stamp
       /\ orders[desk.id].status = IF desk.pc \in {"undo", "withdraw"} THEN "cancelled" ELSE "pending"
  /\ desk.pc \in Entering => Pending("SHORT_COVER") = {}

DeskRow ==
  /\ desk.pc = "look" =>
       /\ Follows(desk.raw, row[desk.side])
       /\ desk.side = "short" => \A i \in InShort : orders[i].at <= desk.raw.at
  /\ desk.pc = "sell" =>
       /\ desk.meant = net[desk.side]
       /\ ~setting.down => /\ row[desk.side] # NoRow /\ Left(row[desk.side].at) = 1
                           /\ desk.qty * Units(row[desk.side].at) = net[desk.side]
  /\ desk.pc = "stored" =>
       Follows(desk.raw, row["short"]) /\ (setting.stacks \/ row["short"] = NoRow)
  /\ desk.pc \in {"insert", "register", "write"} =>
       row["short"] = NoRow \/ (Left(row["short"].at) = 1 /\ desk.got = known)
  /\ desk.pc = "write" => desk.raw = row["short"]

\* A short sale that may be taken back: its row was written after it
DeskUndoes ==
  /\ desk.pc \in {"link", "undo", "withdraw"} =>
       /\ row["short"] # NoRow /\ orders[desk.id].at <= row["short"].at
       /\ Left(row["short"].at) = 1 \/ Worth(row["short"]) = Worth(orders[desk.id])
  /\ desk.pc = "withdraw" =>
       /\ desk.raw # NoRow /\ Follows(desk.raw, row["short"])
       /\ orders[desk.id].at <= desk.raw.at
       /\ Left(desk.raw.at) = 1 \/ Worth(desk.raw) = Worth(orders[desk.id])
       /\ desk.qty = orders[desk.id].qty * Between(known, orders[desk.id].at, desk.raw.at)

\* A row that holds short sales is stamped no earlier than they are
RowAfterOrders == \A i \in InShort : orders[i].at <= row["short"].at

NetKept == \A x \in Sides : net[x] >= 0

\* One exit waits on a side, for no less than it is to close, and for no more
\* than that as long as another may still be filled
ExitsMeet ==
  \A x \in Sides : \A i \in Pending(Exit[x]) :
    /\ \A j \in Pending(Exit[x]) : i = j
    /\ setting.down => Pending(Entry[x]) = {}
    /\ ~setting.down =>
         \/ Worth(orders[i]) = orders[i].meant /\ orders[i].meant <= net[x]
         \/ /\ Pending(Entry[x]) = {}
            /\ orders[i].meant = net[x] /\ net[x] <= Worth(orders[i])

\* What a round has read or is about to write
RoundReads ==
  /\ settler.todo \subseteq {i \in DOMAIN orders : orders[i].status = "pending"}
  /\ settler.pc \in Filling => settler.id \in settler.todo
  /\ settler.pc = "held" => Follows(settler.raw, row[settler.side])
  /\ settler.pc = "order" =>
       \/ settler.got = known /\ Current(row[settler.side])
       \/ settler.got = Unknown /\ setting.down /\ Follows(settler.raw, row[settler.side])
  /\ settler.pc \in {"fill", "write"} =>
       /\ Current(row[settler.side])
       /\ \/ settler.qty = Its.qty * Left(Its.at)
          \/ settler.qty = Its.qty /\ setting.down /\ (Its.signal => Left(Its.at) = 1)
  /\ settler.pc = "write" => settler.raw = row[settler.side]

SplitInv ==
  /\ TypeInv /\ CalendarKept /\ RowsDated /\ OrdersDated
  /\ OneAtWork /\ DeskOrder /\ DeskRow /\ DeskUndoes
  /\ RowAfterOrders /\ NetKept /\ ExitsMeet /\ RoundReads
  /\ SplitsOnce

\* A record that is there at the next read if it was at the last, and no orders
\* beside others while it may be missing
Clean == ~Flaky /\ \A s \in Settings : ~(s.stacks /\ s.down)

-----------------------------------------------------------------------------
(* Units.                                                                  *)

LEMMA UnitsType ==
  ASSUME TypeInv, CalendarKept, NEW d \in Int
  PROVE  /\ Left(d) \in Nat \ {0} /\ Units(d) \in Nat \ {0} /\ Ahead \in Nat \ {0}
         /\ Left(d) = 1 <=> \A e \in known : e <= d
<1>1. known \in SUBSET ExDays /\ ex \in SUBSET ExDays /\ ex \ known \in SUBSET ExDays
  BY DEF TypeInv, TypeOK
<1> QED  BY <1>1, SinceType, FactorPositive DEF Left, Units, Ahead

LEMMA UnitsOfDated ==
  ASSUME TypeInv, CalendarKept, NEW d \in Int, Dated(d)
  PROVE  Units(d) = Left(d) * Ahead
<1> DEFINE A == {e \in known : e > d}
           B == ex \ known
<1>1. known \in SUBSET ExDays /\ ex \in SUBSET ExDays /\ known \subseteq ex
  BY DEF TypeInv, TypeOK, CalendarKept
<1>2. \A e \in ex : e \in Int
  BY <1>1, DaysOf
<1>3. {e \in ex : e > d} = A \union B
  BY <1>1, <1>2 DEF Dated
<1>4. A \in SUBSET ExDays /\ B \in SUBSET ExDays /\ A \intersect B = {}
  BY <1>1
<1>5. Units(d) = Factor[A \union B] /\ Left(d) = Factor[A] /\ Ahead = Factor[B]
  BY <1>3 DEF Units, Left, Since, Ahead
<1> HIDE DEF A, B
<1> QED  BY <1>4, <1>5, FactorAssumption

LEMMA LeftSplits ==
  ASSUME TypeInv, CalendarKept, NEW c \in Int, NEW d \in Int, c <= d
  PROVE  /\ Left(c) = Between(known, c, d) * Left(d)
         /\ Between(known, c, d) \in Nat \ {0}
         /\ Left(c) = 1 => Left(d) = 1
<1>1. known \in SUBSET ExDays /\ \A e \in known : e \in Int
  BY DaysOf DEF TypeInv, TypeOK
<1>2. Left(c) = 1 => Left(d) = 1
  BY <1>1, UnitsType
<1> QED  BY <1>1, <1>2, SinceSplits, BetweenType DEF Left, Splits

LEMMA StampDated ==
  ASSUME TypeInv, CalendarKept
  PROVE  /\ Dated(Stamp) /\ Stamp \in Nat
         /\ part # "early" => Left(Stamp) = 1
<1>1. Stamp \in Nat /\ day \in Nat /\ (part # "early" => Stamp = day) /\ (part = "early" => Stamp = day - 1)
  BY StampType DEF TypeInv
<1>2. \A e \in ex : e \in Int
  BY DaysOf DEF TypeInv, TypeOK
<1>3. Dated(Stamp)
  <2>1. CASE part = "early"
    BY <1>1, <1>2, <2>1 DEF CalendarKept, Dated
  <2>2. CASE part # "early"
    BY <1>1, <1>2, <2>2 DEF CalendarKept, Dated
  <2> QED  BY <2>1, <2>2
<1>4. ASSUME part # "early"
      PROVE  Left(Stamp) = 1
  <2>1. \A e \in known : e <= Stamp
    BY <1>1, <1>4 DEF CalendarKept
  <2> QED  BY <1>1, <2>1, UnitsType
<1> QED  BY <1>1, <1>3, <1>4

LEMMA KnownDated ==
  ASSUME TypeInv, CalendarKept, NEW e \in known
  PROVE  Dated(e)
<1>1. \A f \in ex : f \in Int
  BY DaysOf DEF TypeInv, TypeOK
<1>2. day \in Nat /\ e \in ex /\ e <= day
  BY SplitAssumption DEF TypeInv, TypeOK, CalendarKept
<1>3. ASSUME NEW f \in ex, f <= e
      PROVE  f \in known
  <2>1. f \in Int /\ e \in Int
    BY <1>1, <1>2
  <2>2. f < day \/ f = e
    BY <1>2, <1>3, <2>1
  <2> QED  BY <2>2 DEF CalendarKept
<1> QED  BY <1>2, <1>3 DEF Dated

\* A row made afresh is worth what it was, and is of the units of the record.
LEMMA AfreshKeeps ==
  ASSUME TypeInv, CalendarKept, NEW r \in Holding, r # NoRow, Dated(r.at), Left(r.at) # 1
  PROVE  /\ Afresh(r) \in Holding /\ Afresh(r) # NoRow
         /\ Dated(Afresh(r).at) /\ Left(Afresh(r).at) = 1
         /\ Afresh(r).at >= r.at /\ Afresh(r).qty = r.qty * Left(r.at)
         /\ Worth(Afresh(r)) = Worth(r)
<1> DEFINE d == r.at
           s == StampAfter(known, d)
<1>1. /\ r.qty \in Nat \ {0} /\ d \in Nat /\ Stamp \in Nat /\ known \in SUBSET ExDays
      /\ \A e \in known : e \in Nat
  BY HoldingFields, StampType, DaysOf DEF TypeInv, TypeOK
<1>2. /\ s \in Nat /\ s >= Stamp
      /\ \A e \in known : e > d => s >= e
      /\ s = Stamp \/ s \in {e \in known : e > d}
  BY <1>1, StampAfterType
<1> HIDE DEF s
<1>3. PICK e \in known : ~(e <= d)
  BY <1>1, UnitsType
<1>4. s >= d
  BY <1>1, <1>2, <1>3
<1>5. \A f \in known : f <= s
  BY <1>1, <1>2, <1>4
<1>6. Left(s) = 1
  BY <1>2, <1>5, UnitsType
<1>7. Dated(s)
  BY <1>2, StampDated, KnownDated
<1>8. Left(d) \in Nat \ {0} /\ Ahead \in Nat \ {0}
  BY <1>1, UnitsType
<1>9. \A a, b \in Nat \ {0} : a * b \in Nat \ {0}
  OBVIOUS
<1>10. r.qty * Left(d) \in Nat \ {0}
  BY <1>1, <1>8, <1>9
<1>11. Afresh(r) = [qty |-> r.qty * Left(d), at |-> s]
  BY DEF Afresh, s
<1>12. Afresh(r) \in Holding
  BY <1>2, <1>10, <1>11, HoldingMade
<1>13. Units(d) = Left(d) * Ahead /\ Units(s) = 1 * Ahead
  BY <1>1, <1>2, <1>6, <1>7, UnitsOfDated
<1>14. Worth(Afresh(r)) = (r.qty * Left(d)) * Units(s) /\ Worth(r) = r.qty * Units(d)
  BY <1>11 DEF Worth
<1>15. \A a, b, c \in Nat : (a * b) * (1 * c) = a * (b * c)
  OBVIOUS
<1>16. Worth(Afresh(r)) = Worth(r)
  BY <1>1, <1>8, <1>13, <1>14, <1>15
<1>17. Afresh(r).at = s /\ Afresh(r).qty = r.qty * Left(d)
  BY <1>11
<1>18. Afresh(r) # NoRow
  BY <1>10, <1>17 DEF NoRow
<1> HIDE DEF d
<1> QED  BY <1>4, <1>6, <1>7, <1>12, <1>16, <1>17, <1>18 DEF d

\* What _adjust_holding does to a row.
LEMMA AdjustedIs ==
  ASSUME TypeInv, CalendarKept, NEW splits \in {known, Unknown}, NEW date \in Int,
         NEW r \in Holding
  PROVE  \/ /\ Adjusted(splits, date, r) = r
            /\ splits = Unknown \/ Left(date) = 1 \/ Current(r)
         \/ /\ splits = known /\ Left(date) # 1 /\ r # NoRow /\ Left(r.at) # 1
            /\ Adjusted(splits, date, r) = Afresh(r)
<1>1. known # Unknown
  BY KnownIsNotUnknown DEF TypeInv, TypeOK
<1> QED  BY <1>1 DEF Adjusted, Current, Afresh, Left

LEMMA SameUnits ==
  ASSUME UNCHANGED <<calendar, known>>
  PROVE  /\ \A d : Left(d)' = Left(d) /\ Units(d)' = Units(d) /\ (Dated(d)' <=> Dated(d))
         /\ \A r : Worth(r)' = Worth(r) /\ (Current(r)' <=> Current(r)) /\ Afresh(r)' = Afresh(r)
         /\ \A raw, r : Follows(raw, r)' <=> Follows(raw, r)
         /\ Stamp' = Stamp /\ Ahead' = Ahead
<1>1. ex' = ex /\ known' = known /\ day' = day /\ part' = part
  BY DEF calendar
<1>2. Stamp' = Stamp /\ Ahead' = Ahead
  BY <1>1 DEF Stamp, Ahead
<1>3. \A d : Left(d)' = Left(d) /\ Units(d)' = Units(d)
  BY <1>1 DEF Left, Units
<1>4. \A d : Dated(d)' <=> Dated(d)
  BY <1>1, Zenon DEF Dated
<1>5. \A r : Worth(r)' = Worth(r)
  BY <1>3 DEF Worth
<1>6. \A d : StampAfter(known, d)' = StampAfter(known, d)
  BY <1>1, <1>2 DEF StampAfter
<1>7. \A r : Afresh(r)' = Afresh(r)
  BY <1>3, <1>6 DEF Afresh
<1>8. \A r : Current(r)' <=> Current(r)
  BY <1>3 DEF Current
<1>9. \A raw, r : Follows(raw, r)' <=> Follows(raw, r)
  BY <1>3, <1>4, <1>7 DEF Follows
<1> QED  BY <1>2, <1>3, <1>4, <1>5, <1>7, <1>8, <1>9

-----------------------------------------------------------------------------
(* What is registered.                                                     *)

ShareOf == [i \in DOMAIN orders |-> orders[i].qty * Units(orders[i].at)]

LEMMA SharesOfOrders ==
  ASSUME TypeInv
  PROVE  /\ InShort \in SUBSET DOMAIN orders /\ IsFiniteSet(InShort)
         /\ \A i \in DOMAIN orders : ShareOf[i] \in Nat \ {0} /\ ShareOf[i] = Worth(orders[i])
<1>1. InShort \in SUBSET DOMAIN orders
  BY DEF InShort
<1>2. IsFiniteSet(InShort)
  BY <1>1, DomainFinite DEF TypeInv
<1>3. ASSUME NEW i \in DOMAIN orders
      PROVE  ShareOf[i] \in Nat \ {0} /\ ShareOf[i] = Worth(orders[i])
  <2>1. orders[i].qty \in Nat \ {0} /\ orders[i].at \in Int
    BY OrderFields DEF TypeInv
  <2>2. Units(orders[i].at) \in Nat \ {0}
    BY <2>1, SinceType DEF Units, TypeInv, TypeOK
  <2>3. \A a, b \in Nat \ {0} : a * b \in Nat \ {0}
    OBVIOUS
  <2> QED  BY <2>1, <2>2, <2>3 DEF ShareOf, Worth
<1> QED  BY <1>1, <1>2, <1>3

LEMMA SharesAreNat ==
  ASSUME TypeInv
  PROVE  \A i \in DOMAIN orders : ShareOf[i] \in Nat \ {0}
BY SharesOfOrders

LEMMA RegisteredTotal ==
  ASSUME TypeInv
  PROVE  Registered = Total(ShareOf, InShort)
<1> DEFINE Iter(g) == g = [s \in SUBSET InShort |->
             IF s = {} THEN 0
             ELSE (orders[CHOOSE x \in s : TRUE].qty * Units(orders[CHOOSE x \in s : TRUE].at))
                  + g[s \ {CHOOSE x \in s : TRUE}]]
<1>1. Registered = (CHOOSE g : Iter(g))[InShort]
  BY DEF Registered, InShort, MapThenSumSet, MapThenFoldSet, Units
<1>2. IsFiniteSet(InShort) /\ IntOn(ShareOf, InShort) /\ InShort \in SUBSET DOMAIN orders
  BY SharesOfOrders DEF IntOn
<1>3. ASSUME NEW g PROVE Iter(g) <=> Iterates(g, ShareOf, InShort)
  <2>1. \A s \in SUBSET InShort : s # {} =>
          ShareOf[CHOOSE x \in s : TRUE]
            = orders[CHOOSE x \in s : TRUE].qty * Units(orders[CHOOSE x \in s : TRUE].at)
    BY <1>2 DEF ShareOf
  <2> QED  BY <2>1 DEF Iterates
<1> HIDE DEF Iter
<1>4. \E g : Iter(g)
  BY <1>2, <1>3, TotalIterates
<1>5. \E g : Iter(g) /\ Registered = g[InShort]
  BY <1>1, <1>4
<1> QED  BY <1>2, <1>3, <1>5, IteratesIsTotal

LEMMA RegisteredType ==
  ASSUME TypeInv
  PROVE  /\ Registered \in Nat
         /\ InShort = {} => Registered = 0
         /\ \A i \in InShort : /\ Worth(orders[i]) \in Nat \ {0}
                               /\ Worth(orders[i]) <= Registered
                               /\ Total(ShareOf, InShort \ {i}) = Registered - Worth(orders[i])
<1>1. Registered = Total(ShareOf, InShort) /\ IsFiniteSet(InShort)
  BY RegisteredTotal, SharesOfOrders
<1>2. \A i \in InShort : ShareOf[i] \in Nat \ {0} /\ ShareOf[i] = Worth(orders[i])
  BY SharesOfOrders
<1>3. Registered \in Nat
  BY <1>1, <1>2, TotalNat
<1>4. InShort = {} => Registered = 0
  BY <1>1, TotalEmpty
<1>5. ASSUME NEW i \in InShort
      PROVE  /\ ShareOf[i] <= Total(ShareOf, InShort)
             /\ Total(ShareOf, InShort \ {i}) = Total(ShareOf, InShort) - ShareOf[i]
  <2>1. \A y \in InShort : ShareOf[y] \in Nat
    BY <1>2
  <2> QED  BY <1>1, <2>1, TotalBounds
<1> QED  BY <1>1, <1>2, <1>3, <1>4, <1>5

\* Nothing is registered only where no order is, and one order's worth only
\* where no other is.
LEMMA RegisteredNone ==
  ASSUME TypeInv
  PROVE  /\ Registered = 0 => InShort = {}
         /\ \A i \in InShort : Registered = Worth(orders[i]) => InShort = {i}
<1>1. \A i \in InShort : Worth(orders[i]) \in Nat \ {0} /\ Worth(orders[i]) <= Registered
  BY RegisteredType
<1>2. Registered = 0 => InShort = {}
  <2>1. \A i \in InShort : Registered # 0
    <3> TAKE i \in InShort
    <3>1. Worth(orders[i]) \in Nat \ {0} /\ Worth(orders[i]) <= Registered /\ Registered \in Nat
      BY RegisteredType
    <3> QED  BY <3>1
  <2> QED  BY <2>1
<1>3. ASSUME NEW i \in InShort, Registered = Worth(orders[i]), NEW j \in InShort, j # i
      PROVE  FALSE
  <2>1. j \in InShort \ {i} /\ IsFiniteSet(InShort \ {i})
    BY <1>3, SharesOfOrders, FS_RemoveElement
  <2>2. \A y \in InShort \ {i} : ShareOf[y] \in Nat \ {0}
    BY SharesOfOrders
  <2>3. Total(ShareOf, InShort \ {i}) = 0
    BY <1>3, RegisteredType
  <2>4. ShareOf[j] <= Total(ShareOf, InShort \ {i})
    <3> DEFINE S == InShort \ {i}
    <3>1. IsFiniteSet(S) /\ (\A y \in S : ShareOf[y] \in Nat) /\ j \in S
      BY <2>1, <2>2
    <3> HIDE DEF S
    <3>2. ShareOf[j] <= Total(ShareOf, S)
      BY <3>1, TotalBounds
    <3> QED  BY <3>2 DEF S
  <2> QED  BY <2>1, <2>2, <2>3, <2>4
<1> QED  BY <1>2, <1>3

LEMMA RegisteredKept ==
  ASSUME TypeInv, TypeInv', ex' = ex, InShort' = InShort,
         \A i \in InShort : orders'[i].qty = orders[i].qty /\ orders'[i].at = orders[i].at
  PROVE  Registered' = Registered
<1>1. Registered = Total(ShareOf, InShort)
  BY RegisteredTotal
<1>2. (Registered = Total(ShareOf, InShort))'
  BY RegisteredTotal, PTL
<1>3. \A i \in InShort : ShareOf[i] = ShareOf'[i]
  <2>1. InShort \in SUBSET DOMAIN orders /\ InShort' \in SUBSET DOMAIN orders'
    BY DEF InShort
  <2> QED  BY <2>1 DEF ShareOf, Units
<1>4. Total(ShareOf, InShort) = Total(ShareOf', InShort)
  BY <1>3, TotalSame
<1> QED  BY <1>1, <1>2, <1>4

LEMMA RegisteredGrows ==
  ASSUME TypeInv, TypeInv', ex' = ex, NEW n, n \notin InShort, InShort' = InShort \cup {n},
         \A i \in InShort : orders'[i].qty = orders[i].qty /\ orders'[i].at = orders[i].at
  PROVE  Registered' = Registered + orders'[n].qty * Units(orders'[n].at)
<1>1. Registered = Total(ShareOf, InShort) /\ IsFiniteSet(InShort) /\ IntOn(ShareOf, InShort)
  BY RegisteredTotal, SharesOfOrders DEF IntOn
<1>2. (Registered = Total(ShareOf, InShort))'
  BY RegisteredTotal, PTL
<1>3. InShort \in SUBSET DOMAIN orders /\ InShort' \in SUBSET DOMAIN orders'
  BY DEF InShort
<1>4. n \in DOMAIN orders' /\ \A d : Units(d)' = Units(d)
  BY <1>3 DEF Units
<1>5. \A i \in InShort : ShareOf'[i] = ShareOf[i]
  BY <1>3, <1>4 DEF ShareOf
<1>6. ShareOf'[n] = orders'[n].qty * Units(orders'[n].at)
  BY <1>4 DEF ShareOf
<1>7. ShareOf'[n] \in Int
  <2>1. (\A i \in DOMAIN orders : ShareOf[i] \in Nat \ {0})'
    BY SharesAreNat, PTL
  <2>2. ShareOf'[n] \in Nat \ {0}
    BY <1>4, <2>1
  <2> QED  BY <2>2
<1>8. Total(ShareOf', InShort \cup {n}) = Total(ShareOf, InShort) + ShareOf'[n]
  <2> DEFINE S == InShort
             f == ShareOf
             g == ShareOf'
  <2>1. /\ IsFiniteSet(S) /\ n \notin S /\ IntOn(f, S)
        /\ \A y \in S : g[y] = f[y]
        /\ g[n] \in Int
    BY <1>1, <1>5, <1>7
  <2> HIDE DEF S, f, g
  <2>2. IntOn(g, S)
    BY <2>1 DEF IntOn
  <2>3. Total(g, S) = Total(f, S)
    BY <2>1, TotalSame
  <2>4. Total(g, S \union {n}) = Total(g, S) + g[n]
    BY <2>1, <2>2, TotalAdd
  <2> QED  BY <2>3, <2>4 DEF S, f, g
<1>9. Registered' = Total(ShareOf', InShort \cup {n})
  BY <1>2
<1> QED  BY <1>1, <1>6, <1>8, <1>9

LEMMA RegisteredShrinks ==
  ASSUME TypeInv, TypeInv', ex' = ex, NEW n \in InShort, InShort' = InShort \ {n},
         \A i \in InShort : orders'[i].qty = orders[i].qty /\ orders'[i].at = orders[i].at
  PROVE  Registered' = Registered - Worth(orders[n])
<1>1. Total(ShareOf, InShort \ {n}) = Registered - Worth(orders[n])
  BY RegisteredType
<1>2. (Registered = Total(ShareOf, InShort))'
  BY RegisteredTotal, PTL
<1>3. \A i \in InShort \ {n} : ShareOf[i] = ShareOf'[i]
  <2>1. InShort \in SUBSET DOMAIN orders /\ InShort' \in SUBSET DOMAIN orders'
    BY DEF InShort
  <2>2. \A d : Units(d)' = Units(d)
    BY DEF Units
  <2>3. \A i \in InShort \ {n} : i \in DOMAIN orders /\ i \in DOMAIN orders' /\ i \in InShort
    BY <2>1
  <2> TAKE i \in InShort \ {n}
  <2>4. orders'[i].qty = orders[i].qty /\ orders'[i].at = orders[i].at
    BY <2>3
  <2>5. ShareOf[i] = orders[i].qty * Units(orders[i].at)
    BY <2>3 DEF ShareOf
  <2>6. ShareOf'[i] = orders'[i].qty * Units(orders'[i].at)
    BY <2>2, <2>3 DEF ShareOf
  <2> QED  BY <2>4, <2>5, <2>6
<1>4. Total(ShareOf, InShort \ {n}) = Total(ShareOf', InShort \ {n})
  <2> DEFINE S == InShort \ {n}
  <2>1. \A i \in S : ShareOf[i] = ShareOf'[i]
    BY <1>3
  <2> HIDE DEF S
  <2>2. Total(ShareOf, S) = Total(ShareOf', S)
    BY <2>1, TotalSame
  <2> QED  BY <2>2 DEF S
<1> QED  BY <1>1, <1>2, <1>4

-----------------------------------------------------------------------------
(* Steps that keep what lies behind the properties.                        *)

LEMMA RoundIdle ==
  ASSUME settler' = Idle
  PROVE  RoundReads'
BY DEF RoundReads, Idle, Filling

LEMMA DeskIdle ==
  ASSUME desk' = Idle
  PROVE  DeskOrder' /\ DeskRow' /\ DeskUndoes'
BY DEF DeskOrder, DeskRow, DeskUndoes, Idle, Sent, Entering

LEMMA CalendarSame ==
  ASSUME CalendarKept, UNCHANGED <<calendar, known>>
  PROVE  CalendarKept'
BY DEF CalendarKept, calendar

LEMMA CalendarMoves ==
  ASSUME SplitInv, TypeInv', CalendarKept', desk = Idle, settler = Idle,
         UNCHANGED <<ex, setting, row, orders, desk, settler, net>>,
         known \subseteq known', day <= day', Stamp <= Stamp'
  PROVE  SplitInv'
<1> USE DEF SplitInv
<1>1. \A d \in Int : Dated(d) => Dated(d)'
  <2> TAKE d \in Int
  <2>1. day \in Int /\ day' \in Int
    BY DEF TypeInv, TypeOK
  <2> QED  BY <2>1 DEF Dated
<1>2. \A r : Worth(r)' = Worth(r)
  BY DEF Worth, Units
<1>3. RowsDated'
  <2>1. \A x \in Sides : row[x].at \in Int
    BY TypesAtHand, HoldingFields
  <2> QED  BY <1>1, <2>1 DEF RowsDated
<1>4. OrdersDated'
  <2>1. \A i \in DOMAIN orders : orders[i].at \in Int
    BY OrderFields DEF TypeInv
  <2>2. Stamp \in Int /\ Stamp' \in Int
    <3>1. (TypeInv => Stamp \in Nat)'
      BY StampType, PTL DEF TypeInv
    <3> QED  BY <3>1, StampType DEF TypeInv
  <2> QED  BY <1>1, <2>1, <2>2 DEF OrdersDated
<1>5. InShort' = InShort
  BY DEF InShort, InRow
<1>6. Registered' = Registered
  BY <1>5, RegisteredKept
<1>7. SplitsOnce'
  BY <1>6 DEF SplitsOnce
<1>8. RowAfterOrders' /\ NetKept'
  BY <1>5 DEF RowAfterOrders, NetKept
<1>9. ExitsMeet'
  BY <1>2 DEF ExitsMeet, Pending
<1>10. OneAtWork'
  BY DEF OneAtWork
<1>11. RoundReads' /\ DeskOrder' /\ DeskRow' /\ DeskUndoes'
  BY RoundIdle, DeskIdle
<1> QED  BY <1>3, <1>4, <1>7, <1>8, <1>9, <1>10, <1>11

LEMMA CalendarKeeps ==
  ASSUME SplitInv, Publish \/ Tick
  PROVE  SplitInv'
<1>1. TypeInv' /\ TypeInv /\ CalendarKept /\ OneAtWork
  BY CalendarTypes DEF SplitInv
<1>2. day \in Nat /\ \A e \in ex : e \in Nat /\ e >= 2
  <2>1. TypeOK /\ ex \in SUBSET ExDays
    BY <1>1 DEF TypeInv, TypeOK
  <2>2. day \in Nat
    BY <2>1, StampType
  <2> QED  BY <2>1, <2>2, DaysOf
<1>3. CASE Publish
  <2>1. /\ part = "early" /\ desk = Idle /\ day \in ex /\ known' = known \cup {day}
        /\ UNCHANGED <<ex, setting, day, part, row, orders, desk, settler, net>>
    BY <1>3 DEF Publish, calendar
  <2>2. settler = Idle
    BY <1>1, <2>1 DEF OneAtWork
  <2>3. CalendarKept'
    BY <1>1, <1>2, <2>1 DEF CalendarKept
  <2>4. Stamp <= Stamp' /\ day <= day' /\ known \subseteq known'
    BY <1>1, <1>2, <2>1, StampType DEF Stamp, TypeInv
  <2> QED  BY <1>1, <2>1, <2>2, <2>3, <2>4, CalendarMoves
<1>4. CASE Tick
  <2>1. /\ desk = Idle /\ settler = Idle
        /\ UNCHANGED <<ex, setting, row, orders, desk, settler, net>>
        /\ known' = IF part = "early" THEN ex \cap (1 .. day) ELSE known
    BY <1>4 DEF Tick
  <2>2. known \subseteq known'
    BY <1>1, <1>2, <2>1 DEF CalendarKept
  <2>3. CASE part = "early" /\ part' = "open" /\ day' = day
    <3>1. CalendarKept'
      BY <1>1, <1>2, <2>1, <2>3 DEF CalendarKept
    <3>2. Stamp <= Stamp' /\ day <= day'
      BY <1>2, <2>3 DEF Stamp
    <3> QED  BY <1>1, <2>1, <2>2, <3>1, <3>2, CalendarMoves
  <2>4. CASE part = "open" /\ part' = "dusk" /\ day' = day
    <3>1. CalendarKept'
      BY <1>1, <1>2, <2>1, <2>4 DEF CalendarKept
    <3>2. Stamp <= Stamp' /\ day <= day'
      BY <1>2, <2>4 DEF Stamp
    <3> QED  BY <1>1, <2>1, <2>2, <3>1, <3>2, CalendarMoves
  <2>5. CASE part = "dusk" /\ part' = "early" /\ day' = day + 1
    <3>1. CalendarKept'
      BY <1>1, <1>2, <2>1, <2>5 DEF CalendarKept
    <3>2. Stamp <= Stamp' /\ day <= day'
      BY <1>2, <2>5 DEF Stamp
    <3> QED  BY <1>1, <2>1, <2>2, <3>1, <3>2, CalendarMoves
  <2> QED  BY <1>4, <2>3, <2>4, <2>5 DEF Tick
<1> QED  BY <1>3, <1>4

\* The row of a side is what it was, or is made afresh.
MadeAfresh(x) ==
  /\ row[x] # NoRow /\ Left(row[x].at) # 1
  /\ row' = [row EXCEPT ![x] = Afresh(row[x])]

LEMMA RowMoves ==
  ASSUME SplitInv, TypeInv', UNCHANGED <<calendar, known, orders, net>>, InShort' = InShort,
         NEW x \in Sides, row' = row \/ MadeAfresh(x)
  PROVE  /\ CalendarKept' /\ RowsDated' /\ OrdersDated' /\ RowAfterOrders'
         /\ NetKept' /\ ExitsMeet' /\ SplitsOnce'
<1>1. TypeInv /\ CalendarKept /\ RowsDated /\ OrdersDated /\ RowAfterOrders /\ NetKept
      /\ ExitsMeet /\ SplitsOnce
  BY DEF SplitInv
<1>2. ex' = ex /\ setting' = setting /\ known' = known /\ Stamp' = Stamp
  BY SameUnits DEF calendar
<1>3. /\ \A d : Units(d)' = Units(d) /\ (Dated(d)' <=> Dated(d))
      /\ \A r : Worth(r)' = Worth(r)
  BY SameUnits
<1>4. row \in [Sides -> Holding] /\ "short" \in Sides /\ "long" \in Sides
  BY <1>1, TypesAtHand
<1>5. \A y \in Sides : /\ row'[y] # NoRow => Dated(row'[y].at)
                       /\ row'[y].at >= row[y].at
                       /\ Worth(row'[y]) = Worth(row[y])
  <2>1. \A y \in Sides : /\ row[y] # NoRow => Dated(row[y].at)
                         /\ row[y].at >= row[y].at
    BY <1>1, <1>4, HoldingFields DEF RowsDated
  <2>2. CASE row' = row
    BY <2>1, <2>2
  <2>3. CASE MadeAfresh(x)
    <3>1. row[x] \in Holding /\ row[x] # NoRow /\ Dated(row[x].at) /\ Left(row[x].at) # 1
      BY <1>4, <2>1, <2>3 DEF MadeAfresh
    <3>2. /\ Dated(Afresh(row[x]).at) /\ Afresh(row[x]).at >= row[x].at
          /\ Worth(Afresh(row[x])) = Worth(row[x])
      BY <1>1, <3>1, AfreshKeeps
    <3>3. row'[x] = Afresh(row[x]) /\ \A y \in Sides : y # x => row'[y] = row[y]
      BY <1>4, <2>3 DEF MadeAfresh
    <3> QED  BY <2>1, <3>2, <3>3
  <2> QED  BY <2>2, <2>3
<1>6. CalendarKept'
  BY <1>1, CalendarSame
<1>7. RowsDated'
  BY <1>3, <1>5 DEF RowsDated
<1>8. OrdersDated'
  BY <1>1, <1>2, <1>3 DEF OrdersDated
<1>9. RowAfterOrders'
  <2>1. \A i \in InShort : orders[i].at \in Nat
    BY <1>1, SharesOfOrders, OrderFields DEF TypeInv
  <2>2. row["short"].at \in Nat /\ row'["short"].at \in Nat
    <3>1. (TypeInv => row \in [Sides -> Holding])'
      BY TypesAtHand, PTL
    <3> QED  BY <1>4, <3>1, HoldingFields
  <2> QED  BY <1>1, <1>4, <1>5, <2>1, <2>2 DEF RowAfterOrders
<1>10. NetKept' /\ ExitsMeet'
  BY <1>1, <1>2, <1>3 DEF NetKept, ExitsMeet, Pending
<1>11. Registered' = Registered
  BY <1>1, <1>2, RegisteredKept
<1>12. SplitsOnce'
  BY <1>1, <1>2, <1>4, <1>5, <1>11 DEF SplitsOnce, Worth, Units
<1> QED  BY <1>6, <1>7, <1>8, <1>9, <1>10, <1>12

\* A row that somebody has read and that is made afresh is what was read.
LEMMA AfreshFollows ==
  ASSUME TypeInv, CalendarKept, NEW raw \in Holding, NEW r \in Holding,
         Follows(raw, r), r # NoRow, Left(r.at) # 1
  PROVE  raw = r /\ Follows(raw, Afresh(r))
<1>1. raw # NoRow /\ Dated(raw.at) /\ (r = raw \/ (Left(raw.at) # 1 /\ r = Afresh(raw)))
  BY DEF Follows
<1>2. CASE r = raw
  BY <1>1, <1>2 DEF Follows
<1>3. CASE Left(raw.at) # 1 /\ r = Afresh(raw)
  BY <1>1, <1>3, AfreshKeeps
<1> QED  BY <1>1, <1>2, <1>3

\* What an operation that read a row makes of it and goes on with.
LEMMA AdjustedAnew ==
  ASSUME TypeInv, CalendarKept, NEW raw \in Holding, NEW r \in Holding,
         raw # NoRow, Follows(raw, r)
  PROVE  /\ Adjusted(known, raw.at, r) \in Holding /\ Adjusted(known, raw.at, r) # NoRow
         /\ Left(Adjusted(known, raw.at, r).at) = 1 /\ Dated(Adjusted(known, raw.at, r).at)
         /\ Worth(Adjusted(known, raw.at, r)) = Worth(r) /\ Worth(raw) = Worth(r)
         /\ Adjusted(known, raw.at, r).qty = raw.qty * Left(raw.at)
         /\ Returned(known, raw, r) = Adjusted(known, raw.at, r)
<1> DEFINE a == Adjusted(known, raw.at, r)
<1>1. Dated(raw.at) /\ (r = raw \/ (Left(raw.at) # 1 /\ r = Afresh(raw)))
  BY DEF Follows
<1>2. known # Unknown /\ raw.at \in Int /\ raw.qty \in Nat
  BY KnownIsNotUnknown, HoldingFields DEF TypeInv, TypeOK
<1>3. \/ a = r /\ (Left(raw.at) = 1 \/ Current(r))
      \/ Left(raw.at) # 1 /\ r # NoRow /\ Left(r.at) # 1 /\ a = Afresh(r)
  BY <1>2, AdjustedIs
<1>4. CASE Left(raw.at) = 1
  <2>1. r = raw /\ a = raw /\ Returned(known, raw, r) = raw
    BY <1>1, <1>3, <1>4 DEF Returned, Left
  <2> HIDE DEF a
  <2> QED  BY <1>1, <1>2, <1>4, <2>1 DEF a
<1>5. CASE Left(raw.at) # 1
  <2>1. /\ Afresh(raw) \in Holding /\ Afresh(raw) # NoRow
        /\ Dated(Afresh(raw).at) /\ Left(Afresh(raw).at) = 1
        /\ Afresh(raw).qty = raw.qty * Left(raw.at) /\ Worth(Afresh(raw)) = Worth(raw)
    BY <1>1, <1>5, AfreshKeeps
  <2>2. a = Afresh(raw)
    <3>1. CASE r = raw
      BY <1>3, <1>5, <3>1 DEF Current
    <3>2. CASE r = Afresh(raw)
      BY <1>3, <2>1, <3>2
    <3> QED  BY <1>1, <3>1, <3>2
  <2>3. Returned(known, raw, r) = a
    BY <1>2, <1>5 DEF Returned, Left
  <2>4. Worth(r) = Worth(raw)
    BY <1>1, <2>1
  <2> HIDE DEF a
  <2> QED  BY <2>1, <2>2, <2>3, <2>4 DEF a
<1> QED  BY <1>4, <1>5

LEMMA ReaderKeeps ==
  ASSUME SplitInv, Read \/ Adjust
  PROVE  SplitInv'
<1>1. /\ TypeInv /\ CalendarKept /\ OneAtWork /\ DeskOrder /\ DeskRow /\ DeskUndoes /\ RoundReads
      /\ TypeInv' /\ RowsDated
  BY ReaderTypes DEF SplitInv
<1>2. UNCHANGED <<calendar, known, orders, net, desk, settler, setting, part, ex>>
  BY DEF Read, Adjust, calendar
<1>3. \E x \in Sides : row' = row \/ MadeAfresh(x)
  <2>1. CASE Read
    BY <2>1 DEF Read
  <2>2. CASE Adjust
    <3>1. PICK splits \in Fetches :
            row' = [row EXCEPT ![reader.side] = Adjusted(splits, reader.raw.at, @)]
      BY <2>2 DEF Adjust
    <3>2. /\ reader.side \in Sides /\ reader.raw.at \in Int /\ row \in [Sides -> Holding]
          /\ row[reader.side] \in Holding
      BY <1>1, TypesAtHand, WorkerFields, HoldingFields
    <3>3. splits \in {known, Unknown}
      BY DEF Fetches
    <3>4. \/ Adjusted(splits, reader.raw.at, row[reader.side]) = row[reader.side]
          \/ /\ row[reader.side] # NoRow /\ Left(row[reader.side].at) # 1
             /\ Adjusted(splits, reader.raw.at, row[reader.side]) = Afresh(row[reader.side])
      BY <1>1, <3>2, <3>3, AdjustedIs
    <3>5. row' = row \/ MadeAfresh(reader.side)
      BY <3>1, <3>2, <3>4 DEF MadeAfresh
    <3> QED  BY <3>2, <3>5
  <2> QED  BY <2>1, <2>2
<1>4. PICK x \in Sides : row' = row \/ MadeAfresh(x)
  BY <1>3
<1>5. InShort' = InShort
  BY <1>2 DEF InShort, InRow
<1>6. /\ CalendarKept' /\ RowsDated' /\ OrdersDated' /\ RowAfterOrders'
      /\ NetKept' /\ ExitsMeet' /\ SplitsOnce'
  BY <1>1, <1>2, <1>4, <1>5, RowMoves
<1>7. OneAtWork' /\ DeskOrder'
  BY <1>1, <1>2, SameUnits DEF OneAtWork, DeskOrder, Pending
<1>8. /\ \A d : Left(d)' = Left(d)
      /\ \A r : Worth(r)' = Worth(r) /\ (Current(r)' <=> Current(r))
      /\ \A raw, r : Follows(raw, r)' <=> Follows(raw, r)
  BY <1>2, SameUnits
<1>9. CASE row' = row
  <2>1. DeskRow' /\ DeskUndoes'
    BY <1>1, <1>2, <1>5, <1>8, <1>9 DEF DeskRow, DeskUndoes, Units
  <2>2. RoundReads'
    BY <1>1, <1>2, <1>8, <1>9 DEF RoundReads, Its
  <2> QED  BY <1>1, <1>6, <1>7, <2>1, <2>2 DEF SplitInv
<1>10. CASE MadeAfresh(x)
  <2>1. /\ row \in [Sides -> Holding] /\ row[x] \in Holding /\ row[x] # NoRow
        /\ Left(row[x].at) # 1 /\ Dated(row[x].at)
        /\ "short" \in Sides /\ desk.side \in Sides /\ settler.side \in Sides
        /\ desk.raw \in Holding /\ settler.raw \in Holding
    BY <1>1, <1>10, TypesAtHand, WorkerFields DEF MadeAfresh, RowsDated
  <2>2. row'[x] = Afresh(row[x]) /\ \A y \in Sides : y # x => row'[y] = row[y]
    BY <1>10, <2>1 DEF MadeAfresh
  <2>3. /\ Afresh(row[x]) # NoRow /\ Left(Afresh(row[x]).at) = 1
        /\ Afresh(row[x]).at >= row[x].at /\ Worth(Afresh(row[x])) = Worth(row[x])
        /\ Afresh(row[x]).at \in Nat /\ row[x].at \in Nat
    BY <1>1, <2>1, AfreshKeeps, HoldingFields
  <2>4. ASSUME NEW raw \in Holding, NEW y \in Sides, Follows(raw, row[y])
        PROVE  Follows(raw, row'[y])
    BY <1>1, <2>1, <2>2, <2>4, AfreshFollows
  <2>5. DeskRow'
    <3>1. desk.pc = "look" => Follows(desk.raw, row'[desk.side])
      BY <1>1, <2>1, <2>4 DEF DeskRow
    <3>2. desk.pc = "stored" => Follows(desk.raw, row'["short"]) /\ (setting.stacks \/ row'["short"] = NoRow)
      BY <1>1, <2>1, <2>2, <2>4 DEF DeskRow
    <3>3. desk.pc = "sell" /\ ~setting.down => desk.side # x
      BY <1>1, <2>1 DEF DeskRow
    <3>4. desk.pc \in {"insert", "register", "write"} => x # "short"
      BY <1>1, <2>1 DEF DeskRow
    <3> QED  BY <1>1, <1>2, <1>5, <1>8, <2>1, <2>2, <3>1, <3>2, <3>3, <3>4 DEF DeskRow, Units
  <2>6. DeskUndoes'
    <3>1. ASSUME desk.pc \in {"link", "undo", "withdraw"}
          PROVE  /\ row'["short"] # NoRow /\ orders[desk.id].at <= row'["short"].at
                 /\ Left(row'["short"].at) = 1 \/ Worth(row'["short"]) = Worth(orders[desk.id])
      <4>1. orders[desk.id].at \in Nat
        BY <1>1, <3>1, OrderFields DEF TypeInv, Sent
      <4>2. CASE x = "short"
        BY <1>1, <2>2, <2>3, <3>1, <4>1, <4>2 DEF DeskUndoes
      <4>3. CASE x # "short"
        BY <1>1, <2>1, <2>2, <3>1, <4>3 DEF DeskUndoes
      <4> QED  BY <4>2, <4>3
    <3>2. desk.pc = "withdraw" => Follows(desk.raw, row'["short"])
      BY <1>1, <2>1, <2>4 DEF DeskUndoes
    <3> QED  BY <1>1, <1>2, <1>8, <3>1, <3>2 DEF DeskUndoes
  <2>7. RoundReads'
    <3>1. settler.pc = "held" => Follows(settler.raw, row'[settler.side])
      BY <1>1, <2>1, <2>4 DEF RoundReads
    <3>2. settler.pc = "order" =>
            \/ settler.got = known /\ Current(row'[settler.side])
            \/ settler.got = Unknown /\ setting.down /\ Follows(settler.raw, row'[settler.side])
      BY <1>1, <2>1, <2>2, <2>4 DEF RoundReads, Current
    <3>3. settler.pc \in {"fill", "write"} => x # settler.side
      BY <1>1, <2>1 DEF RoundReads, Current
    <3> QED  BY <1>1, <1>2, <1>8, <2>1, <2>2, <3>1, <3>2, <3>3 DEF RoundReads, Its
  <2> QED  BY <1>1, <1>6, <1>7, <2>5, <2>6, <2>7 DEF SplitInv
<1> QED  BY <1>4, <1>9, <1>10

-----------------------------------------------------------------------------
(* Orders that are added.                                                  *)

LEMMA ShortsWait ==
  (TypeInv /\ DeskOrder /\ desk.pc \notin Sent) => InShort = Pending("SHORT")
<1> SUFFICES ASSUME TypeInv, DeskOrder, desk.pc \notin Sent
             PROVE  InShort = Pending("SHORT")
  OBVIOUS
<1>1. desk.id = 0
  BY DEF DeskOrder
<1>2. \A i \in DOMAIN orders : desk.id # i
  BY <1>1, OrderFields DEF TypeInv
<1> QED  BY <1>2 DEF InShort, InRow, Pending

LEMMA ShortsWaitNext ==
  ASSUME TypeInv', DeskOrder', desk'.pc \notin Sent
  PROVE  InShort' = Pending("SHORT")'
<1>1. ((TypeInv /\ DeskOrder /\ desk.pc \notin Sent) => InShort = Pending("SHORT"))'
  BY ShortsWait, PTL
<1>2. (desk.pc \notin Sent)'
  BY DEF Sent
<1> QED  BY <1>1, <1>2

LEMMA InsertAdds ==
  ASSUME TypeOK, NEW kind \in Kinds, NEW qty \in Nat \ {0}, NEW signal \in BOOLEAN,
         Insert(kind, qty, signal)
  PROVE  /\ Len(orders) + 1 \notin DOMAIN orders
         /\ DOMAIN orders' = DOMAIN orders \cup {Len(orders) + 1}
         /\ \A i \in DOMAIN orders : orders'[i] = orders[i]
         /\ orders'[Len(orders) + 1].kind = kind /\ orders'[Len(orders) + 1].status = "pending"
         /\ orders'[Len(orders) + 1].at = Stamp /\ orders'[Len(orders) + 1].signal = signal
         /\ orders'[Len(orders) + 1].qty = qty /\ orders'[Len(orders) + 1].meant = desk.meant
<1> DEFINE n == Len(orders) + 1
           o == [kind |-> kind, qty |-> qty, at |-> Stamp, signal |-> signal,
                 status |-> "pending", meant |-> desk.meant]
<1>1. /\ n \notin DOMAIN orders /\ DOMAIN orders' = DOMAIN orders \cup {n}
      /\ \A i \in DOMAIN orders : orders'[i] = orders[i]
      /\ orders'[n] = o
  BY InsertAppends
<1>2. /\ o.kind = kind /\ o.status = "pending" /\ o.at = Stamp /\ o.signal = signal
      /\ o.qty = qty /\ o.meant = desk.meant
  OBVIOUS
<1> HIDE DEF n, o
<1>3. /\ orders'[n].kind = kind /\ orders'[n].status = "pending" /\ orders'[n].at = Stamp
      /\ orders'[n].signal = signal /\ orders'[n].qty = qty /\ orders'[n].meant = desk.meant
  BY <1>1, <1>2
<1> QED  BY <1>1, <1>3 DEF n

LEMMA InsertWaits ==
  ASSUME TypeOK, NEW kind \in Kinds, NEW qty \in Nat \ {0}, NEW signal \in BOOLEAN,
         Insert(kind, qty, signal)
  PROVE  \A k : Pending(k)' = IF k = kind THEN Pending(k) \cup {Len(orders) + 1} ELSE Pending(k)
<1>1. /\ DOMAIN orders' = DOMAIN orders \cup {Len(orders) + 1}
      /\ \A i \in DOMAIN orders : orders'[i] = orders[i]
      /\ orders'[Len(orders) + 1].kind = kind /\ orders'[Len(orders) + 1].status = "pending"
      /\ Len(orders) + 1 \notin DOMAIN orders
  BY InsertAdds
<1> QED  BY <1>1 DEF Pending

LEMMA InsertDated ==
  ASSUME TypeInv, CalendarKept, OrdersDated, UNCHANGED <<calendar, known>>,
         NEW kind \in Kinds, NEW qty \in Nat \ {0}, NEW signal \in BOOLEAN,
         Insert(kind, qty, signal), kind = "SHORT" => signal
  PROVE  OrdersDated'
<1>1. /\ DOMAIN orders' = DOMAIN orders \cup {Len(orders) + 1}
      /\ \A i \in DOMAIN orders : orders'[i] = orders[i]
      /\ orders'[Len(orders) + 1].kind = kind /\ orders'[Len(orders) + 1].signal = signal
      /\ orders'[Len(orders) + 1].at = Stamp
  BY InsertAdds DEF TypeInv
<1>2. Dated(Stamp) /\ Stamp \in Nat
  BY StampDated
<1>3. Stamp' = Stamp /\ \A d : Dated(d)' <=> Dated(d)
  BY SameUnits
<1> QED  BY <1>1, <1>2, <1>3 DEF OrdersDated

\* What a step of the desk need not be asked about.
LEMMA DeskFrame ==
  ASSUME SplitInv, UNCHANGED <<calendar, known, settler, net>>, settler = Idle
  PROVE  CalendarKept' /\ NetKept' /\ OneAtWork' /\ RoundReads'
<1>1. CalendarKept' /\ NetKept' /\ OneAtWork'
  BY CalendarSame DEF SplitInv, NetKept, OneAtWork
<1> QED  BY <1>1, RoundIdle

\* The exits of a side, when its orders and its shares are left alone or none
\* of them waits any more.
ExitsAlone(x) ==
  \/ Pending(Exit[x])' = {}
  \/ /\ Pending(Exit[x])' = Pending(Exit[x]) /\ Pending(Entry[x])' \subseteq Pending(Entry[x])
     /\ net'[x] = net[x]
     /\ \A i \in Pending(Exit[x]) : /\ orders'[i].qty = orders[i].qty /\ orders'[i].at = orders[i].at
                                    /\ orders'[i].meant = orders[i].meant

LEMMA ExitsKeep ==
  ASSUME ExitsMeet, UNCHANGED <<calendar, known>>, \A x \in Sides : ExitsAlone(x)
  PROVE  ExitsMeet'
<1>1. setting' = setting /\ \A d : Units(d)' = Units(d)
  BY SameUnits DEF calendar
<1>2. ASSUME NEW x \in Sides, NEW i \in Pending(Exit[x])'
      PROVE  /\ \A j \in Pending(Exit[x])' : i = j
             /\ setting'.down => Pending(Entry[x])' = {}
             /\ ~setting'.down =>
                  \/ Worth(orders[i])' = orders'[i].meant /\ orders'[i].meant <= net'[x]
                  \/ /\ Pending(Entry[x])' = {}
                     /\ orders'[i].meant = net'[x] /\ net'[x] <= Worth(orders[i])'
  <2>1. /\ Pending(Exit[x])' = Pending(Exit[x]) /\ Pending(Entry[x])' \subseteq Pending(Entry[x])
        /\ net'[x] = net[x] /\ i \in Pending(Exit[x])
        /\ orders'[i].qty = orders[i].qty /\ orders'[i].at = orders[i].at
        /\ orders'[i].meant = orders[i].meant
    BY <1>2 DEF ExitsAlone
  <2>2. Worth(orders[i])' = Worth(orders[i])
    BY <1>1, <2>1 DEF Worth
  <2> QED  BY <1>1, <2>1, <2>2 DEF ExitsMeet
<1> QED  BY <1>2 DEF ExitsMeet

\* No share moves when an order is added that is not in the row.
LEMMA NoneMoves ==
  ASSUME SplitInv, TypeInv', UNCHANGED <<calendar, known, row, net>>, InShort' = InShort,
         \A i \in InShort : orders'[i].qty = orders[i].qty /\ orders'[i].at = orders[i].at
  PROVE  RowsDated' /\ RowAfterOrders' /\ SplitsOnce'
<1>1. ex' = ex
  BY DEF calendar
<1>2. Registered' = Registered
  BY <1>1, RegisteredKept DEF SplitInv
<1>3. SplitsOnce'
  BY <1>1, <1>2 DEF SplitInv, SplitsOnce
<1>4. RowsDated'
  BY SameUnits DEF SplitInv, RowsDated
<1>5. RowAfterOrders'
  BY DEF SplitInv, RowAfterOrders
<1> QED  BY <1>3, <1>4, <1>5

LEMMA BuyKeeps ==
  ASSUME SplitInv, Buy
  PROVE  SplitInv'
<1>a. TypeInv' /\ TypeInv /\ CalendarKept /\ OrdersDated /\ DeskOrder /\ ExitsMeet /\ TypeOK
  BY EntersTypes DEF SplitInv, TypeInv
<1>b. /\ desk = Idle /\ desk' = Idle /\ settler = Idle /\ Pending("SELL") = {}
      /\ UNCHANGED <<calendar, known, row, settler, net>>
  BY KindsOfSides DEF Buy, MayEnter, MayOrder
<1>1. /\ TypeInv /\ TypeInv' /\ CalendarKept /\ OrdersDated /\ DeskOrder /\ ExitsMeet /\ TypeOK
      /\ desk = Idle /\ desk' = Idle /\ settler = Idle /\ Pending("SELL") = {}
      /\ UNCHANGED <<calendar, known, row, settler, net>>
  BY <1>a, <1>b
<1>2. PICK signal \in BOOLEAN : Insert("BUY", 1, signal)
  BY DEF Buy
<1>3. "BUY" \in Kinds /\ 1 \in Nat \ {0}
  BY DEF Kinds
<1>4. \A k : Pending(k)' = IF k = "BUY" THEN Pending(k) \cup {Len(orders) + 1} ELSE Pending(k)
  BY <1>1, <1>2, <1>3, InsertWaits
<1>5. \A i \in DOMAIN orders : orders'[i] = orders[i]
  BY <1>1, <1>2, <1>3, InsertAppends
<1>6. OrdersDated'
  BY <1>1, <1>2, <1>3, InsertDated
<1>7. CalendarKept' /\ NetKept' /\ OneAtWork' /\ RoundReads' /\ DeskOrder' /\ DeskRow' /\ DeskUndoes'
  BY <1>1, DeskFrame, DeskIdle
<1>8. InShort' = InShort /\ InShort \subseteq DOMAIN orders
  <2>1. desk.pc \notin Sent /\ desk'.pc \notin Sent
    BY <1>1, IdleWorker DEF Sent
  <2>2. InShort = Pending("SHORT")
    BY <1>1, <2>1, ShortsWait
  <2>3. InShort' = Pending("SHORT")'
    BY <1>1, <1>7, <2>1, ShortsWaitNext
  <2>4. InShort \subseteq DOMAIN orders
    BY DEF InShort
  <2> QED  BY <1>4, <2>2, <2>3, <2>4
<1>9. RowsDated' /\ RowAfterOrders' /\ SplitsOnce'
  BY <1>1, <1>5, <1>8, NoneMoves
<1>10. ExitsMeet'
  <2>1. ASSUME NEW x \in Sides PROVE ExitsAlone(x)
    <3>1. \A i \in Pending(Exit[x]) : i \in DOMAIN orders
      BY DEF Pending
    <3>2. CASE x = "long"
      BY <1>1, <1>4, <3>2, KindsOfSides DEF ExitsAlone
    <3>3. CASE x = "short"
      <4>1. Pending(Exit[x])' = Pending(Exit[x]) /\ Pending(Entry[x])' = Pending(Entry[x])
        BY <1>4, <3>3, KindsOfSides
      <4> QED  BY <1>1, <1>5, <3>1, <4>1 DEF ExitsAlone
    <3> QED  BY <3>2, <3>3 DEF Sides
  <2> QED  BY <1>1, <2>1, ExitsKeep
<1> QED  BY <1>1, <1>6, <1>7, <1>9, <1>10 DEF SplitInv

LEMMA LookKeeps ==
  ASSUME SplitInv, Look
  PROVE  SplitInv'
<1>1. /\ TypeInv /\ TypeInv' /\ CalendarKept /\ OrdersDated /\ DeskOrder /\ ExitsMeet /\ TypeOK
      /\ RowsDated /\ RowAfterOrders
      /\ desk = Idle /\ settler = Idle
      /\ UNCHANGED <<calendar, known, row, orders, settler, net>>
  BY EntersTypes DEF SplitInv, Look, MayEnter, MayOrder, TypeInv
<1>2. CalendarKept' /\ NetKept' /\ OneAtWork' /\ RoundReads'
  BY <1>1, DeskFrame
<1>3. OrdersDated' /\ ExitsMeet'
  <2>1. OrdersDated'
    BY <1>1, SameUnits DEF OrdersDated
  <2>2. \A x \in Sides : ExitsAlone(x)
    BY <1>1 DEF ExitsAlone, Pending
  <2> QED  BY <1>1, <2>1, <2>2, ExitsKeep
<1>4. \/ \E x \in Sides : /\ row[x] # NoRow
                          /\ desk' = [Idle EXCEPT !.pc = "look", !.side = x, !.raw = row[x]]
      \/ /\ desk' = [Idle EXCEPT !.pc = "stored", !.side = "short", !.raw = row["short"]]
         /\ Pending("SHORT_COVER") = {} /\ (setting.stacks \/ row["short"] = NoRow)
  BY KindsOfSides DEF Look, MayEnter
<1>5. desk'.pc \in {"look", "stored"} /\ desk'.id = 0
  BY <1>4 DEF Idle
<1>6. DeskOrder'
  BY <1>1, <1>4, <1>5 DEF DeskOrder, Sent, Entering, Pending, Idle
<1>7. InShort' = InShort
  <2>1. desk.pc \notin Sent /\ desk'.pc \notin Sent
    BY <1>1, <1>5, IdleWorker DEF Sent
  <2> QED  BY <1>1, <1>6, <2>1, ShortsWait, ShortsWaitNext DEF Pending
<1>8. RowsDated' /\ RowAfterOrders' /\ SplitsOnce'
  BY <1>1, <1>7, NoneMoves
<1>9. DeskUndoes'
  BY <1>5 DEF DeskUndoes
<1>10. \A x \in Sides : Follows(row[x], row[x])
  BY <1>1 DEF Follows, RowsDated
<1>11. \A raw, r : Follows(raw, r)' <=> Follows(raw, r)
  BY <1>1, SameUnits
<1>12. setting' = setting
  BY <1>1 DEF calendar
<1>13. DeskRow'
  <2>1. CASE \E x \in Sides : /\ row[x] # NoRow
                              /\ desk' = [Idle EXCEPT !.pc = "look", !.side = x, !.raw = row[x]]
    <3>1. PICK x \in Sides : desk' = [Idle EXCEPT !.pc = "look", !.side = x, !.raw = row[x]]
      BY <2>1
    <3>2. desk'.pc = "look" /\ desk'.side = x /\ desk'.raw = row[x]
      BY <3>1 DEF Idle
    <3>3. Follows(desk.raw, row[desk.side])'
      BY <1>1, <1>10, <1>11, <3>2
    <3>4. desk'.side = "short" => \A i \in InShort' : orders'[i].at <= desk'.raw.at
      BY <1>1, <1>7, <3>2 DEF RowAfterOrders
    <3> QED  BY <3>2, <3>3, <3>4 DEF DeskRow
  <2>2. CASE /\ desk' = [Idle EXCEPT !.pc = "stored", !.side = "short", !.raw = row["short"]]
             /\ setting.stacks \/ row["short"] = NoRow
    <3>1. desk'.pc = "stored" /\ desk'.raw = row["short"]
      BY <2>2 DEF Idle
    <3>2. Follows(desk.raw, row["short"])'
      BY <1>1, <1>10, <1>11, <3>1, TypesAtHand
    <3> QED  BY <1>1, <1>12, <2>2, <3>1, <3>2 DEF DeskRow
  <2> QED  BY <1>4, <2>1, <2>2
<1> QED  BY <1>1, <1>2, <1>3, <1>6, <1>8, <1>9, <1>13 DEF SplitInv

-----------------------------------------------------------------------------
(* Counting and ordering an exit.                                          *)

LEMMA DivExact ==
  ASSUME NEW a \in Nat, NEW b \in Nat \ {0}
  PROVE  (a * b) \div b = a
OBVIOUS

LEMMA ProductOrder ==
  ASSUME NEW a \in Int, NEW b \in Int, NEW c \in Nat \ {0}
  PROVE  /\ a * c \in Int
         /\ a * c <= b * c <=> a <= b
         /\ a * c = b * c <=> a = b
         /\ (a - b) * c = a * c - b * c /\ (a + b) * c = a * c + b * c
OBVIOUS

\* What waits in the row, in the units of the last day, is what is registered.
LEMMA WaitsAreRegistered ==
  ASSUME TypeInv, CalendarKept, OrdersDated, DeskOrder, desk.pc \notin Sent,
         NEW raw \in Holding, Dated(raw.at), \A i \in InShort : orders[i].at <= raw.at
  PROVE  Registered = WaitsInRow(known, raw) * Units(raw.at)
<1> DEFINE f == WaitOf(known, raw)
           u == Units(raw.at)
<1>1. raw.at \in Nat /\ TypeOK /\ known \in Splits /\ InShort = Pending("SHORT")
  BY HoldingFields, FetchesType, ShortsWait DEF TypeInv
<1>2. /\ IsFiniteSet(InShort) /\ \A i \in InShort : f[i] \in Nat \ {0}
      /\ WaitsInRow(known, raw) = Total(f, InShort)
  BY <1>1, WaitsTotal
<1>3. u \in Nat \ {0} /\ Left(raw.at) \in Nat \ {0} /\ Ahead \in Nat \ {0} /\ u = Left(raw.at) * Ahead
  BY <1>1, UnitsType, UnitsOfDated
<1>4. ASSUME NEW i \in InShort
      PROVE  ShareOf[i] = f[i] * u
  <2> DEFINE q == orders[i].qty
             b == Between(known, orders[i].at, raw.at)
  <2>1. i \in DOMAIN orders
    BY <1>4 DEF InShort
  <2>2. q \in Nat \ {0} /\ orders[i].at \in Nat /\ orders[i].at <= raw.at /\ Dated(orders[i].at)
    BY <1>1, <2>1, OrderFields DEF OrdersDated
  <2>3. Left(orders[i].at) = b * Left(raw.at) /\ b \in Nat \ {0}
    BY <1>1, <2>2, LeftSplits
  <2>4. Units(orders[i].at) = Left(orders[i].at) * Ahead
    BY <2>2, UnitsOfDated
  <2>5. ShareOf[i] = q * Units(orders[i].at) /\ f[i] = q * b
    BY <2>1 DEF ShareOf, WaitOf
  <2> HIDE DEF q, b, f, u
  <2>6. \A x, y, z, t \in Nat : x * ((y * z) * t) = (x * y) * (z * t)
    OBVIOUS
  <2> QED  BY <1>3, <2>2, <2>3, <2>4, <2>5, <2>6
<1> HIDE DEF f, u
<1>5. IntOn(f, InShort) /\ u \in Int
  BY <1>2, <1>3 DEF IntOn
<1>6. Total(ShareOf, InShort) = Total(f, InShort) * u
  BY <1>2, <1>4, <1>5, TotalScales
<1> QED  BY <1>2, <1>6, RegisteredTotal DEF u

\* The shares that may be covered are those that were filled.
LEMMA CoverableIsNet ==
  ASSUME SplitInv, desk.pc \notin Sent, NEW raw \in Holding, raw # NoRow,
         Follows(raw, row["short"]), \A i \in InShort : orders[i].at <= raw.at,
         NEW a, a = Adjusted(known, raw.at, row["short"])
  PROVE  Coverable(known, raw, a.qty) * Units(a.at) = net["short"]
<1> DEFINE k == Left(raw.at)
           w == WaitsInRow(known, raw)
           q == raw.qty
           n == net["short"]
<1>1. TypeInv /\ CalendarKept /\ OrdersDated /\ DeskOrder /\ NetKept /\ SplitsOnce /\ TypeOK
  BY DEF SplitInv, TypeInv
<1>2. q \in Nat \ {0} /\ raw.at \in Nat /\ Dated(raw.at) /\ row["short"] \in Holding
  BY <1>1, HoldingFields, TypesAtHand DEF Follows
<1>3. /\ a \in Holding /\ Left(a.at) = 1 /\ Dated(a.at) /\ a.qty = q * k
      /\ Worth(raw) = Worth(row["short"])
  BY <1>1, <1>2, AdjustedAnew
<1>4. k \in Nat \ {0} /\ Ahead \in Nat \ {0} /\ Units(raw.at) = k * Ahead /\ Units(a.at) = 1 * Ahead
  BY <1>1, <1>2, <1>3, UnitsType, UnitsOfDated, HoldingFields
<1>5. w \in Nat /\ Registered = w * Units(raw.at)
  BY <1>1, <1>2, WaitsTotal, WaitsAreRegistered, FetchesType
<1>6. q * Units(raw.at) = n + Registered /\ n \in Int /\ n >= 0
  BY <1>1, <1>3, TypesAtHand DEF SplitsOnce, NetKept, Worth, Units
<1> DEFINE c == Coverable(known, raw, a.qty)
<1>7. c = q * k - Min({q * k, (w * (q * k)) \div q})
  BY <1>3 DEF Coverable
<1> HIDE DEF k, w, q, n, c
<1>8. w <= q
  <2>1. k * Ahead \in Nat \ {0}
    BY <1>4
  <2>2. w * (k * Ahead) <= q * (k * Ahead)
    BY <1>4, <1>5, <1>6
  <2> QED  BY <1>2, <1>5, <2>1, <2>2, ProductOrder
<1>9. (w * (q * k)) \div q = w * k
  <2>1. w * (q * k) = (w * k) * q /\ w * k \in Nat
    BY <1>2, <1>4, <1>5
  <2> QED  BY <1>2, <2>1, DivExact
<1>10. w * k <= q * k /\ w * k \in Int /\ q * k \in Int
  BY <1>2, <1>4, <1>5, <1>8, ProductOrder
<1>11. c = q * k - w * k
  BY <1>7, <1>9, <1>10, MinOfTwo
<1>12. (q * k - w * k) * Ahead = q * (k * Ahead) - w * (k * Ahead)
  <2>1. \A x, y, z, t \in Int : (x * z - y * z) * t = x * (z * t) - y * (z * t)
    OBVIOUS
  <2> QED  BY <1>2, <1>4, <1>5, <2>1
<1>13. c * Units(a.at) = n
  BY <1>4, <1>5, <1>6, <1>11, <1>12
<1> QED  BY <1>13 DEF c, n

LEMMA CleanSettings ==
  ASSUME TypeInv, Clean
  PROVE  /\ ~(setting.stacks /\ setting.down) /\ setting.down \in BOOLEAN /\ setting.stacks \in BOOLEAN
         /\ \A got \in {known, Unknown} : FetchesAgain(got) = {got}
         /\ ~setting.down => Fetches = {known}
         /\ known # Unknown
<1>1. setting \in Settings /\ setting \in [stacks : BOOLEAN, down : BOOLEAN] /\ known # Unknown
  BY SplitAssumption, KnownIsNotUnknown DEF TypeInv, TypeOK
<1> QED  BY <1>1 DEF Clean, FetchesAgain, Fetches

LEMMA CountKeeps ==
  ASSUME SplitInv, Clean, Count
  PROVE  SplitInv'
<1> DEFINE x == desk.side
           raw == desk.raw
           a(splits) == Adjusted(splits, raw.at, row[x])
           r(splits) == Returned(splits, raw, row[x])
           q(splits, again) == IF x = "long" THEN r(splits).qty
                               ELSE Coverable(again, raw, r(splits).qty)
<1>1. /\ TypeInv /\ CalendarKept /\ OneAtWork /\ DeskOrder /\ DeskRow /\ SplitsOnce
  BY DEF SplitInv
<1>2. TypeInv'
  BY <1>1, LeavesTypes
<1>3. desk.pc = "look" /\ UNCHANGED <<calendar, known, orders, settler, net>>
  BY DEF Count
<1>4. /\ raw # NoRow /\ raw \in Holding /\ x \in Sides /\ Follows(raw, row[x])
      /\ raw.at \in Int /\ row[x] \in Holding /\ settler = Idle /\ row \in [Sides -> Holding]
  <2>1. raw # NoRow /\ raw \in Holding
    BY <1>1, <1>3 DEF TypeInv
  <2>2. x \in Sides /\ row \in [Sides -> Holding]
    BY <1>1, TypesAtHand, WorkerFields
  <2>3. Follows(raw, row[x])
    BY <1>1, <1>3 DEF DeskRow
  <2>4. settler = Idle
    BY <1>1, <1>3, IdleWorker DEF OneAtWork
  <2> QED  BY <2>1, <2>2, <2>3, <2>4, HoldingFields
<1>5. PICK splits \in Fetches : \E again \in FetchesAgain(splits) :
        /\ row' = [row EXCEPT ![x] = Adjusted(splits, raw.at, @)]
        /\ desk' = [desk EXCEPT !.pc = "sell", !.meant = net[x], !.qty = q(splits, again)]
  BY DEF Count
<1>6. splits \in {known, Unknown} /\ (~setting.down => splits = known)
  BY <1>1, CleanSettings DEF Fetches
<1>7. /\ row' = [row EXCEPT ![x] = a(splits)]
      /\ desk' = [desk EXCEPT !.pc = "sell", !.meant = net[x], !.qty = q(splits, splits)]
  BY <1>1, <1>5, <1>6, CleanSettings
<1> DEFINE n == q(splits, splits)
           b == a(splits)
<1>8. row' = row \/ MadeAfresh(x)
  <2>1. \/ b = row[x]
        \/ row[x] # NoRow /\ Left(row[x].at) # 1 /\ b = Afresh(row[x])
    BY <1>1, <1>4, <1>6, AdjustedIs
  <2> HIDE DEF b
  <2>2. row' = [row EXCEPT ![x] = b]
    BY <1>7 DEF b
  <2> QED  BY <1>4, <2>1, <2>2 DEF MadeAfresh
<1>9. ~setting.down => b # NoRow /\ Left(b.at) = 1 /\ n * Units(b.at) = net[x]
  <2> SUFFICES ASSUME ~setting.down
               PROVE  b # NoRow /\ Left(b.at) = 1 /\ n * Units(b.at) = net[x]
    OBVIOUS
  <2>1. splits = known
    BY <1>6
  <2>2. /\ b # NoRow /\ Left(b.at) = 1 /\ Worth(b) = Worth(row[x])
        /\ r(splits) = b
    BY <1>1, <1>4, <2>1, AdjustedAnew
  <2>3. CASE x = "long"
    <3>1. n = b.qty
      BY <2>2, <2>3
    <3>2. Worth(row[x]) = net[x]
      BY <1>1, <2>3 DEF SplitsOnce, Worth, Units
    <3> QED  BY <2>2, <3>1, <3>2 DEF Worth
  <2>4. CASE x = "short"
    <3>1. n = Coverable(known, raw, b.qty)
      BY <2>1, <2>2, <2>4
    <3>2. desk.pc \notin Sent /\ \A i \in InShort : orders[i].at <= raw.at
      BY <1>1, <1>3, <2>4 DEF DeskRow, Sent
    <3>3. b = Adjusted(known, raw.at, row["short"])
      BY <2>1, <2>4
    <3>4. Follows(raw, row["short"]) /\ raw \in Holding /\ raw # NoRow
      BY <1>4, <2>4
    <3> HIDE DEF b, n, raw
    <3>5. Coverable(known, raw, b.qty) * Units(b.at) = net["short"]
      BY <3>2, <3>3, <3>4, CoverableIsNet
    <3> QED  BY <2>2, <2>4, <3>1, <3>5
  <2> QED  BY <1>4, <2>3, <2>4 DEF Sides
<1>10. /\ desk'.pc = "sell" /\ desk'.meant = net[x] /\ desk'.qty = n /\ desk'.id = desk.id
       /\ desk'.side = x
  <2>1. desk' = [desk EXCEPT !.pc = "sell", !.meant = net[x], !.qty = n] /\ desk \in Worker
    BY <1>1, <1>7, TypesAtHand
  <2> HIDE DEF n
  <2> QED  BY <2>1 DEF Worker
<1>11. row'[x] = b
  BY <1>4, <1>7
<1> HIDE DEF n, b, a, q, r
<1>12. DeskOrder'
  BY <1>1, <1>3, <1>10 DEF DeskOrder, Sent, Entering
<1>13. InShort' = InShort
  <2>1. desk.pc \notin Sent /\ desk'.pc \notin Sent
    BY <1>3, <1>10 DEF Sent
  <2>2. Pending("SHORT")' = Pending("SHORT")
    BY <1>3 DEF Pending
  <2> QED  BY <1>1, <1>2, <1>12, <2>1, <2>2, ShortsWait, ShortsWaitNext
<1>14. /\ CalendarKept' /\ RowsDated' /\ OrdersDated' /\ RowAfterOrders'
       /\ NetKept' /\ ExitsMeet' /\ SplitsOnce'
  BY <1>2, <1>3, <1>4, <1>8, <1>13, RowMoves
<1>15. OneAtWork' /\ RoundReads'
  BY <1>3, <1>4, DeskFrame
<1>16. DeskUndoes'
  BY <1>10 DEF DeskUndoes
<1>17. DeskRow'
  <2>1. setting' = setting /\ net' = net /\ \A d : Left(d)' = Left(d) /\ Units(d)' = Units(d)
    BY <1>3, SameUnits DEF calendar
  <2>2. ~setting.down => /\ row'[desk'.side] # NoRow /\ Left(row[desk.side].at)' = 1
                         /\ (desk.qty * Units(row[desk.side].at))' = net'[desk'.side]
    BY <1>9, <1>10, <1>11, <2>1
  <2> QED  BY <1>10, <2>1, <2>2 DEF DeskRow
<1> QED  BY <1>2, <1>12, <1>14, <1>15, <1>16, <1>17 DEF SplitInv

LEMMA SellKeeps ==
  ASSUME SplitInv, Clean, Sell
  PROVE  SplitInv'
<1>1. /\ TypeInv /\ CalendarKept /\ OrdersDated /\ OneAtWork /\ DeskOrder /\ DeskRow /\ ExitsMeet
      /\ RowsDated /\ TypeOK
  BY DEF SplitInv, TypeInv
<1>0. PICK x \in Sides : x = desk.side
  BY <1>1, TypesAtHand, WorkerFields
<1>2. TypeInv'
  BY <1>1, LeavesTypes
<1>3. /\ desk.pc = "sell" /\ desk' = Idle
      /\ UNCHANGED <<calendar, known, row, settler, net>>
  BY DEF Sell
<1>4. settler = Idle /\ desk.id = 0
  BY <1>1, <1>3, IdleWorker DEF OneAtWork, DeskOrder, Sent
<1>5. /\ x \in Sides /\ desk.qty \in Nat /\ row[x].at \in Nat /\ net[x] \in Int
      /\ desk.meant = net[x]
  <2>1. x \in Sides /\ desk.qty \in Nat /\ net[x] \in Int
    BY <1>0, <1>1, TypesAtHand, WorkerFields
  <2>2. row[x].at \in Nat
    BY <1>1, <2>1, TypesAtHand, HoldingFields
  <2> QED  BY <1>0, <1>1, <1>3, <2>1, <2>2 DEF DeskRow
<1>6. CalendarKept' /\ NetKept' /\ OneAtWork' /\ RoundReads' /\ DeskOrder' /\ DeskRow' /\ DeskUndoes'
  BY <1>3, <1>4, DeskFrame, DeskIdle
<1>7. desk.pc \notin Sent /\ desk'.pc \notin Sent
  BY <1>3, IdleWorker DEF Sent
<1>8. InShort = Pending("SHORT") /\ InShort' = Pending("SHORT")' /\ InShort \subseteq DOMAIN orders
  <2>1. InShort = Pending("SHORT")
    BY <1>1, <1>7, ShortsWait
  <2>2. InShort' = Pending("SHORT")'
    BY <1>2, <1>6, <1>7, ShortsWaitNext
  <2> QED  BY <2>1, <2>2 DEF InShort
<1>9. CASE UNCHANGED orders
  <2>1. OrdersDated'
    BY <1>1, <1>3, <1>9, SameUnits DEF OrdersDated
  <2>2. ExitsMeet'
    <3>1. \A y \in Sides : ExitsAlone(y)
      BY <1>3, <1>9 DEF ExitsAlone, Pending
    <3> QED  BY <1>1, <1>3, <3>1, ExitsKeep
  <2>3. RowsDated' /\ RowAfterOrders' /\ SplitsOnce'
    <3>1. InShort' = InShort
      BY <1>8, <1>9 DEF Pending
    <3> QED  BY <1>2, <1>3, <1>9, <3>1, NoneMoves
  <2> QED  BY <1>2, <1>6, <2>1, <2>2, <2>3 DEF SplitInv
<1>10. CASE /\ desk.qty > 0 /\ Pending(Exit[x]) = {}
            /\ (setting.stacks /\ part # "early") \/ Pending(Entry[x]) = {}
            /\ \E signal \in BOOLEAN : Insert(Exit[x], desk.qty, signal)
  <2>1. PICK signal \in BOOLEAN : Insert(Exit[x], desk.qty, signal)
    BY <1>10
  <2>2. Exit[x] \in Kinds /\ desk.qty \in Nat \ {0} /\ Exit[x] # "SHORT"
    BY <1>5, <1>10, KindsOfSides DEF Sides
  <2> DEFINE n == Len(orders) + 1
  <2>3. \A k : Pending(k)' = IF k = Exit[x] THEN Pending(k) \cup {n} ELSE Pending(k)
    BY <1>1, <2>1, <2>2, InsertWaits
  <2>4. /\ \A i \in DOMAIN orders : orders'[i] = orders[i]
        /\ orders'[n].at = Stamp /\ orders'[n].qty = desk.qty /\ orders'[n].meant = net[x]
    BY <1>1, <1>5, <2>1, <2>2, InsertAdds
  <2> HIDE DEF n
  <2>5. OrdersDated'
    BY <1>1, <1>3, <2>1, <2>2, InsertDated
  <2>6. RowsDated' /\ RowAfterOrders' /\ SplitsOnce'
    <3>1. InShort' = InShort
      BY <1>8, <2>2, <2>3
    <3> QED  BY <1>2, <1>3, <1>8, <2>4, <3>1, NoneMoves
  <2>7. /\ setting' = setting /\ net' = net /\ \A d : Units(d)' = Units(d)
        /\ Stamp \in Nat /\ Dated(Stamp) /\ (part # "early" => Left(Stamp) = 1)
        /\ Ahead \in Nat \ {0} /\ Left(Stamp) \in Nat \ {0}
        /\ Units(Stamp) = Left(Stamp) * Ahead
    BY <1>1, <1>3, SameUnits, StampDated, UnitsType, UnitsOfDated DEF calendar
  <2>8. Pending(Exit[x])' = {n} /\ Pending(Entry[x])' = Pending(Entry[x])
    <3>1. Entry[x] # Exit[x] /\ Pending(Exit[x]) = {}
      BY <1>5, <1>10, KindsOfSides DEF Sides
    <3> QED  BY <2>3, <3>1
  <2>9. setting.down => Pending(Entry[x]) = {}
    BY <1>1, <1>10, CleanSettings
  <2>10. ASSUME ~setting.down
         PROVE  \/ desk.qty * Units(Stamp) = net[x]
                \/ Pending(Entry[x]) = {} /\ net[x] <= desk.qty * Units(Stamp)
    <3>1. /\ row[x] # NoRow /\ Left(row[x].at) = 1 /\ desk.qty * Units(row[x].at) = net[x]
      BY <1>0, <1>1, <1>3, <2>10 DEF DeskRow
    <3>2. Units(row[x].at) = 1 * Ahead
      BY <1>1, <1>5, <3>1, UnitsOfDated DEF RowsDated
    <3>3. CASE part # "early"
      BY <2>7, <3>1, <3>2, <3>3
    <3>4. CASE part = "early"
      <4>1. \A q, l, h \in Nat : l # 0 => q * (1 * h) <= q * (l * h)
        <5>1. \A m \in Nat, l \in Nat : l # 0 => m <= m * l
          OBVIOUS
        <5> TAKE q, l, h \in Nat
        <5>2. q * h \in Nat /\ q * (l * h) = (q * h) * l /\ q * (1 * h) = q * h
          OBVIOUS
        <5> QED  BY <5>1, <5>2
      <4> QED  BY <1>5, <1>10, <2>7, <3>1, <3>2, <3>4, <4>1
    <3> QED  BY <3>3, <3>4
  <2>11. ExitsMeet'
    <3>1. ASSUME NEW y \in Sides, y # x
          PROVE  ExitsAlone(y)
      <4>1. Exit[y] # Exit[x] /\ Entry[y] # Exit[x]
        BY <1>5, <3>1, KindsOfSides DEF Sides
      <4>2. Pending(Exit[y])' = Pending(Exit[y]) /\ Pending(Entry[y])' = Pending(Entry[y])
        BY <2>3, <4>1
      <4>3. \A i \in Pending(Exit[y]) : orders'[i] = orders[i]
        BY <2>4 DEF Pending
      <4> QED  BY <1>3, <4>2, <4>3 DEF ExitsAlone
    <3>2. ASSUME NEW y \in Sides, NEW i \in Pending(Exit[y])', y # x
          PROVE  /\ \A j \in Pending(Exit[y])' : i = j
                 /\ setting'.down => Pending(Entry[y])' = {}
                 /\ ~setting'.down =>
                      \/ Worth(orders[i])' = orders'[i].meant /\ orders'[i].meant <= net'[y]
                      \/ /\ Pending(Entry[y])' = {}
                         /\ orders'[i].meant = net'[y] /\ net'[y] <= Worth(orders[i])'
      <4>1. /\ Pending(Exit[y])' = Pending(Exit[y]) /\ Pending(Entry[y])' \subseteq Pending(Entry[y])
            /\ net'[y] = net[y] /\ i \in Pending(Exit[y])
            /\ orders'[i].qty = orders[i].qty /\ orders'[i].at = orders[i].at
            /\ orders'[i].meant = orders[i].meant
        BY <3>1, <3>2 DEF ExitsAlone
      <4>2. Worth(orders[i])' = Worth(orders[i])
        BY <2>7, <4>1 DEF Worth
      <4> QED  BY <1>1, <2>7, <4>1, <4>2 DEF ExitsMeet
    <3>3. ASSUME NEW i \in Pending(Exit[x])'
          PROVE  /\ \A j \in Pending(Exit[x])' : i = j
                 /\ setting'.down => Pending(Entry[x])' = {}
                 /\ ~setting'.down =>
                      \/ Worth(orders[i])' = orders'[i].meant /\ orders'[i].meant <= net'[x]
                      \/ /\ Pending(Entry[x])' = {}
                         /\ orders'[i].meant = net'[x] /\ net'[x] <= Worth(orders[i])'
      <4>1. i = n
        BY <2>8, <3>3
      <4>2. Worth(orders[i])' = desk.qty * Units(Stamp)
        BY <2>4, <2>7, <4>1 DEF Worth
      <4>3. orders'[i].meant = net[x] /\ net'[x] = net[x] /\ net[x] <= net[x]
        BY <1>5, <2>4, <2>7, <4>1
      <4>4. (\A j \in Pending(Exit[x])' : i = j) /\ (setting'.down => Pending(Entry[x])' = {})
        BY <2>7, <2>8, <2>9, <4>1
      <4> QED  BY <2>7, <2>8, <2>10, <4>2, <4>3, <4>4
    <3> QED  BY <3>2, <3>3 DEF ExitsMeet
  <2> QED  BY <1>2, <1>6, <2>5, <2>6, <2>11 DEF SplitInv
<1> QED  BY <1>0, <1>9, <1>10 DEF Sell

LEMMA AdjustStoredKeeps ==
  ASSUME SplitInv, Clean, AdjustStored
  PROVE  SplitInv'
<1> DEFINE raw == desk.raw
           old == row["short"]
           b(splits) == IF raw = NoRow THEN old ELSE Adjusted(splits, raw.at, old)
<1>1. /\ TypeInv /\ CalendarKept /\ OneAtWork /\ DeskOrder /\ DeskRow
  BY DEF SplitInv
<1>2. TypeInv'
  BY <1>1, ShortTypes
<1>3. desk.pc = "stored" /\ UNCHANGED <<calendar, known, orders, settler, net>>
  BY DEF AdjustStored
<1>4. /\ raw \in Holding /\ Follows(raw, old) /\ raw.at \in Int /\ old \in Holding
      /\ settler = Idle /\ row \in [Sides -> Holding] /\ "short" \in Sides
      /\ setting.stacks \/ old = NoRow
  <2>1. raw \in Holding /\ row \in [Sides -> Holding] /\ "short" \in Sides
    BY <1>1, TypesAtHand
  <2>2. Follows(raw, old) /\ (setting.stacks \/ old = NoRow)
    BY <1>1, <1>3 DEF DeskRow
  <2>3. settler = Idle
    BY <1>1, <1>3, IdleWorker DEF OneAtWork
  <2> QED  BY <2>1, <2>2, <2>3, HoldingFields
<1>5. PICK splits \in Fetches : \E again \in FetchesAgain(splits) :
        /\ row' = [row EXCEPT !["short"] =
                     IF raw = NoRow THEN @ ELSE Adjusted(splits, raw.at, @)]
        /\ desk' = [desk EXCEPT !.pc = "insert", !.got = again]
  BY DEF AdjustStored
<1>6. splits \in {known, Unknown} /\ (~setting.down => splits = known)
  BY <1>1, CleanSettings DEF Fetches
<1>7. /\ row' = [row EXCEPT !["short"] = b(splits)]
      /\ desk' = [desk EXCEPT !.pc = "insert", !.got = splits]
  BY <1>1, <1>5, <1>6, CleanSettings
<1> DEFINE c == b(splits)
<1>8. row' = row \/ MadeAfresh("short")
  <2>1. \/ c = old
        \/ old # NoRow /\ Left(old.at) # 1 /\ c = Afresh(old)
    BY <1>1, <1>4, <1>6, AdjustedIs
  <2> HIDE DEF c
  <2>2. row' = [row EXCEPT !["short"] = c]
    BY <1>7 DEF c
  <2> QED  BY <1>4, <2>1, <2>2 DEF MadeAfresh
<1>9. c = NoRow \/ (Left(c.at) = 1 /\ splits = known)
  <2>1. CASE raw = NoRow
    BY <1>4, <2>1 DEF Follows
  <2>2. CASE raw # NoRow
    <3>1. old # NoRow
      <4>1. Dated(raw.at) /\ (old = raw \/ (Left(raw.at) # 1 /\ old = Afresh(raw)))
        BY <1>4, <2>2 DEF Follows
      <4> QED  BY <1>1, <1>4, <2>2, <4>1, AfreshKeeps
    <3>2. splits = known
      BY <1>1, <1>4, <1>6, <3>1, CleanSettings
    <3> QED  BY <1>1, <1>4, <2>2, <3>2, AdjustedAnew
  <2> QED  BY <2>1, <2>2
<1>10. desk'.pc = "insert" /\ desk'.got = splits /\ desk'.id = desk.id
  <2>1. desk \in Worker
    BY <1>1, TypesAtHand
  <2> QED  BY <1>7, <2>1 DEF Worker
<1>11. row'["short"] = c
  BY <1>4, <1>7
<1> HIDE DEF c, b
<1>12. DeskOrder' /\ InShort' = InShort
  <2>1. desk.pc \notin Sent /\ desk.pc \in Entering /\ desk'.pc \notin Sent
    BY <1>3, <1>10 DEF Sent, Entering
  <2>2. \A k : Pending(k)' = Pending(k)
    BY <1>3 DEF Pending
  <2>3. DeskOrder'
    BY <1>1, <1>10, <2>1, <2>2 DEF DeskOrder
  <2> QED  BY <1>1, <1>2, <2>1, <2>2, <2>3, ShortsWait, ShortsWaitNext
<1>13. /\ CalendarKept' /\ RowsDated' /\ OrdersDated' /\ RowAfterOrders'
       /\ NetKept' /\ ExitsMeet' /\ SplitsOnce'
  BY <1>2, <1>3, <1>4, <1>8, <1>12, RowMoves
<1>14. OneAtWork' /\ RoundReads'
  BY <1>3, <1>4, DeskFrame
<1>15. DeskUndoes'
  BY <1>10 DEF DeskUndoes
<1>16. DeskRow'
  <2>1. known' = known /\ \A d : Left(d)' = Left(d)
    BY <1>3, SameUnits
  <2>2. row'["short"] = NoRow \/ (Left(row["short"].at)' = 1 /\ desk'.got = known')
    BY <1>9, <1>10, <1>11, <2>1
  <2> QED  BY <1>10, <2>2 DEF DeskRow
<1> QED  BY <1>2, <1>12, <1>13, <1>14, <1>15, <1>16 DEF SplitInv

LEMMA InsertShortKeeps ==
  ASSUME SplitInv, InsertShort
  PROVE  SplitInv'
<1> DEFINE n == Len(orders) + 1
<1>1. /\ TypeInv /\ TypeOK /\ CalendarKept /\ OrdersDated /\ OneAtWork /\ DeskOrder /\ DeskRow
      /\ ExitsMeet
  BY DEF SplitInv, TypeInv
<1>2. TypeInv'
  BY <1>1, ShortTypes
<1>3. /\ desk.pc = "insert" /\ Insert("SHORT", 1, TRUE)
      /\ desk' = [desk EXCEPT !.pc = "register", !.id = n]
      /\ UNCHANGED <<calendar, known, row, settler, net>>
  BY DEF InsertShort
<1>4. settler = Idle /\ desk.id = 0 /\ Pending("SHORT_COVER") = {}
  BY <1>1, <1>3, IdleWorker DEF OneAtWork, DeskOrder, Sent, Entering
<1>5. desk'.pc = "register" /\ desk'.id = n /\ desk'.got = desk.got
  <2>1. desk \in Worker
    BY <1>1, TypesAtHand
  <2> QED  BY <1>3, <2>1 DEF Worker
<1>6. "SHORT" \in Kinds /\ 1 \in Nat \ {0} /\ TRUE \in BOOLEAN
  BY DEF Kinds
<1>7. /\ n \notin DOMAIN orders /\ DOMAIN orders' = DOMAIN orders \cup {n}
      /\ \A i \in DOMAIN orders : orders'[i] = orders[i]
      /\ orders'[n].kind = "SHORT" /\ orders'[n].status = "pending" /\ orders'[n].at = Stamp
  BY <1>1, <1>3, <1>6, InsertAdds
<1>8. \A k : Pending(k)' = IF k = "SHORT" THEN Pending(k) \cup {n} ELSE Pending(k)
  BY <1>1, <1>3, <1>6, InsertWaits
<1>9. OrdersDated'
  BY <1>1, <1>3, <1>6, InsertDated
<1> HIDE DEF n
<1>10. InShort' = InShort
  <2>1. desk.pc \notin Sent
    BY <1>3 DEF Sent
  <2>2. \A i : i \in InShort <=> i \in DOMAIN orders /\ orders[i].kind = "SHORT"
                                  /\ orders[i].status = "pending"
    BY <1>1, <2>1, ShortsWait DEF Pending
  <2>3. \A i \in DOMAIN orders : i # n
    BY <1>7
  <2>4. ASSUME NEW i
        PROVE  i \in InShort' <=> i \in InShort
    <3>1. i \in InShort' <=> i \in DOMAIN orders' /\ orders'[i].kind = "SHORT" /\ i # n
                             /\ orders'[i].status = "pending"
      BY <1>5 DEF InShort, InRow
    <3> QED  BY <1>7, <2>2, <2>3, <3>1
  <2> QED  BY <2>4
<1>11. CalendarKept' /\ NetKept' /\ OneAtWork' /\ RoundReads'
  BY <1>3, <1>4, DeskFrame
<1>12. RowsDated' /\ RowAfterOrders' /\ SplitsOnce'
  <2>1. \A i \in InShort : i \in DOMAIN orders
    BY DEF InShort
  <2> QED  BY <1>2, <1>3, <1>7, <1>10, <2>1, NoneMoves
<1>13. ExitsMeet'
  <2>1. \A x \in Sides : ExitsAlone(x)
    <3>1. ExitsAlone("short")
      BY <1>4, <1>8, KindsOfSides DEF ExitsAlone
    <3>2. ExitsAlone("long")
      <4>1. Pending("SELL")' = Pending("SELL") /\ Pending("BUY")' = Pending("BUY")
        BY <1>8
      <4>2. \A i \in Pending("SELL") : orders'[i] = orders[i]
        BY <1>7 DEF Pending
      <4> QED  BY <1>3, <4>1, <4>2, KindsOfSides DEF ExitsAlone
    <3> QED  BY <3>1, <3>2 DEF Sides
  <2> QED  BY <1>1, <1>3, <2>1, ExitsKeep
<1>14. DeskOrder'
  <2>1. Stamp' = Stamp
    BY <1>3, SameUnits
  <2>2. Pending("SHORT_COVER")' = {}
    BY <1>4, <1>8
  <2> QED  BY <1>5, <1>7, <2>1, <2>2 DEF DeskOrder, Sent
<1>15. DeskUndoes'
  BY <1>5 DEF DeskUndoes
<1>16. DeskRow'
  <2>1. row["short"] = NoRow \/ (Left(row["short"].at) = 1 /\ desk.got = known)
    BY <1>1, <1>3 DEF DeskRow
  <2>2. known' = known /\ row' = row /\ \A d : Left(d)' = Left(d)
    BY <1>3, SameUnits
  <2> QED  BY <1>5, <2>1, <2>2 DEF DeskRow
<1> QED  BY <1>2, <1>9, <1>11, <1>12, <1>13, <1>14, <1>15, <1>16 DEF SplitInv

LEMMA ReadShortKeeps ==
  ASSUME SplitInv, ReadShort
  PROVE  SplitInv'
<1>1. /\ TypeInv /\ CalendarKept /\ OrdersDated /\ OneAtWork /\ DeskOrder /\ DeskRow /\ ExitsMeet
  BY DEF SplitInv
<1>2. TypeInv'
  BY <1>1, ShortTypes
<1>3. /\ desk.pc = "register"
      /\ desk' = [desk EXCEPT !.pc = "write", !.raw = row["short"]]
      /\ UNCHANGED <<calendar, known, row, orders, settler, net>>
  BY DEF ReadShort
<1>4. settler = Idle
  BY <1>1, <1>3, IdleWorker DEF OneAtWork
<1>5. desk'.pc = "write" /\ desk'.id = desk.id /\ desk'.got = desk.got /\ desk'.raw = row["short"]
  <2>1. desk \in Worker
    BY <1>1, TypesAtHand
  <2> QED  BY <1>3, <2>1 DEF Worker
<1>6. InShort' = InShort
  BY <1>3, <1>5 DEF InShort, InRow
<1>7. CalendarKept' /\ NetKept' /\ OneAtWork' /\ RoundReads'
  BY <1>3, <1>4, DeskFrame
<1>8. RowsDated' /\ RowAfterOrders' /\ SplitsOnce'
  BY <1>2, <1>3, <1>6, NoneMoves
<1>9. Pending("SHORT")' = Pending("SHORT") /\ \A k : Pending(k)' = Pending(k)
  BY <1>3 DEF Pending
<1>10. ExitsMeet'
  <2>1. \A x \in Sides : ExitsAlone(x)
    BY <1>3, <1>9 DEF ExitsAlone
  <2> QED  BY <1>1, <1>3, <2>1, ExitsKeep
<1>11. OrdersDated'
  BY <1>1, <1>3, SameUnits DEF OrdersDated
<1>12. DeskOrder'
  BY <1>1, <1>3, <1>5, <1>9, SameUnits DEF DeskOrder, Sent, Entering
<1>13. DeskUndoes'
  BY <1>5 DEF DeskUndoes
<1>14. DeskRow'
  <2>1. row["short"] = NoRow \/ (Left(row["short"].at) = 1 /\ desk.got = known)
    BY <1>1, <1>3 DEF DeskRow
  <2>2. known' = known /\ row' = row /\ \A d : Left(d)' = Left(d)
    BY <1>3, SameUnits
  <2> QED  BY <1>5, <2>1, <2>2 DEF DeskRow
<1> QED  BY <1>2, <1>7, <1>8, <1>10, <1>11, <1>12, <1>13, <1>14 DEF SplitInv

LEMMA StampedLater ==
  ASSUME TypeInv, CalendarKept, NEW d \in Nat, Dated(d), Left(d) = 1
  PROVE  /\ Max({d, Stamp}) \in Nat /\ Dated(Max({d, Stamp})) /\ Left(Max({d, Stamp})) = 1
         /\ Max({d, Stamp}) >= d /\ Max({d, Stamp}) >= Stamp
         /\ Units(Max({d, Stamp})) = Ahead /\ Units(d) = Ahead /\ Ahead \in Nat \ {0}
<1>1. Stamp \in Nat /\ Dated(Stamp)
  BY StampDated
<1> DEFINE m == Max({d, Stamp})
<1>2. (m = d \/ m = Stamp) /\ m >= d /\ m >= Stamp /\ m \in Nat
  <2>1. m = IF d >= Stamp THEN d ELSE Stamp
    BY <1>1, MaxOfTwo
  <2> HIDE DEF m
  <2> QED  BY <1>1, <2>1
<1> HIDE DEF m
<1>3. Dated(m)
  BY <1>1, <1>2
<1>4. Left(m) = 1
  BY <1>2, LeftSplits
<1>5. Units(m) = 1 * Ahead /\ Units(d) = 1 * Ahead /\ Ahead \in Nat \ {0}
  BY <1>2, <1>3, <1>4, UnitsOfDated, UnitsType
<1>6. 1 * Ahead = Ahead
  BY <1>5
<1> QED  BY <1>2, <1>3, <1>4, <1>5, <1>6 DEF m

LEMMA NothingIsWorth ==
  ASSUME TypeInv, CalendarKept
  PROVE  Worth(NoRow) = 0
<1>1. NoRow.qty = 0 /\ NoRow.at = 0
  BY DEF NoRow
<1>2. Units(0) \in Nat
  BY UnitsType
<1> QED  BY <1>1, <1>2 DEF Worth

LEMMA ShortRowMoves ==
  ASSUME SplitInv, TypeInv', UNCHANGED <<calendar, known, net>>,
         NEW new \in Holding, row' = [row EXCEPT !["short"] = new],
         new # NoRow => Dated(new.at),
         NEW delta \in Int, Worth(new) = Worth(row["short"]) + delta,
         Registered' = Registered + delta,
         \A i \in InShort' : orders'[i].at <= new.at
  PROVE  RowsDated' /\ SplitsOnce' /\ RowAfterOrders'
<1>1. TypeInv /\ CalendarKept /\ RowsDated /\ SplitsOnce
  BY DEF SplitInv
<1>2. /\ row \in [Sides -> Holding] /\ net \in [Sides -> Int]
  BY <1>1, TypesAtHand
<1>3. row'["short"] = new /\ row'["long"] = row["long"] /\ \A x \in Sides : x = "short" \/ row'[x] = row[x]
  BY <1>2 DEF Sides
<1>4. net' = net /\ \A d : Units(d)' = Units(d) /\ (Dated(d)' <=> Dated(d))
  BY SameUnits
<1>5. RowsDated'
  BY <1>1, <1>3, <1>4 DEF RowsDated
<1>6. SplitsOnce'
  <2>1. Worth(row["short"]) = net["short"] + Registered /\ row["long"].qty * Units(row["long"].at) = net["long"]
    BY <1>1 DEF SplitsOnce, Worth, Units
  <2>2. net["short"] \in Int /\ Registered \in Int
    BY <1>1, <1>2, RegisteredType DEF Sides
  <2>3. Worth(new) = net["short"] + Registered'
    BY <2>1, <2>2
  <2>4. /\ (row["long"].qty * Units(row["long"].at))' = net'["long"]
        /\ (row["short"].qty * Units(row["short"].at))' = net'["short"] + Registered'
    BY <1>3, <1>4, <2>1, <2>3 DEF Worth
  <2> QED  BY <2>4 DEF SplitsOnce, Units
<1>7. RowAfterOrders'
  BY <1>3 DEF RowAfterOrders
<1> QED  BY <1>5, <1>6, <1>7

LEMMA OrdersStay ==
  ASSUME OrdersDated, UNCHANGED <<calendar, known>>, DOMAIN orders' = DOMAIN orders,
         \A i \in DOMAIN orders : /\ orders'[i].at = orders[i].at /\ orders'[i].kind = orders[i].kind
                                  /\ orders'[i].signal = orders[i].signal
  PROVE  OrdersDated'
BY SameUnits DEF OrdersDated

LEMMA NewRowOfShort ==
  ASSUME SplitInv, desk.pc = "write", NEW new,
         new = IF desk.raw = NoRow THEN [qty |-> orders[desk.id].qty, at |-> Stamp]
               ELSE [qty |-> desk.raw.qty
                               + orders[desk.id].qty * Between(desk.got, orders[desk.id].at, desk.raw.at),
                     at |-> Max({row["short"].at, Stamp})]
  PROVE  /\ new \in Holding /\ new # NoRow /\ Dated(new.at) /\ new.at >= Stamp
         /\ Left(new.at) = 1 \/ Worth(new) = Worth(orders[desk.id])
         /\ Worth(new) = Worth(row["short"]) + Worth(orders[desk.id])
<1> DEFINE o == orders[desk.id]
           r == row["short"]
           q == o.qty
           A == Ahead
<1>1. /\ TypeInv /\ TypeOK /\ CalendarKept /\ DeskOrder /\ DeskRow /\ RowsDated
  BY DEF SplitInv, TypeInv
<1>2. desk.id \in DOMAIN orders /\ o.at = Stamp /\ desk.raw = r
      /\ (r = NoRow \/ (Left(r.at) = 1 /\ desk.got = known))
  BY <1>1 DEF TypeInv, DeskOrder, DeskRow, Sent
<1>3. q \in Nat \ {0} /\ Stamp \in Nat /\ Dated(Stamp) /\ r \in Holding
  BY <1>1, <1>2, OrderFields, StampDated, TypesAtHand
<1>4. CASE r = NoRow
  <2>1. new = [qty |-> q, at |-> Stamp]
    BY <1>2, <1>4
  <2>2. new \in Holding /\ new.qty = q /\ new.at = Stamp
    BY <1>3, <2>1, HoldingMade
  <2>3. new # NoRow
    BY <1>3, <2>2 DEF NoRow
  <2>4. Worth(new) = Worth(o)
    BY <1>2, <2>2 DEF Worth
  <2>5. Worth(r) = 0 /\ Worth(o) \in Nat
    <3>1. Worth(o) \in Nat
      BY <1>1, <1>2, SharesOfOrders
    <3> QED  BY <1>1, <1>4, <3>1, NothingIsWorth
  <2> HIDE DEF o, r, q
  <2>6. Worth(new) = Worth(r) + Worth(o)
    BY <2>4, <2>5
  <2> QED  BY <1>3, <2>2, <2>3, <2>4, <2>6 DEF o, r
<1>5. CASE r # NoRow
  <2> DEFINE B == Between(known, Stamp, r.at)
             m == Max({r.at, Stamp})
  <2>1. r.qty \in Nat /\ r.qty > 0 /\ r.at \in Nat /\ Left(r.at) = 1 /\ Dated(r.at) /\ desk.got = known
    BY <1>1, <1>2, <1>3, <1>5, HoldingFields DEF RowsDated, Sides
  <2>2. /\ m \in Nat /\ Dated(m) /\ Left(m) = 1 /\ m >= Stamp /\ Units(m) = A /\ Units(r.at) = A
        /\ A \in Nat \ {0}
    BY <1>1, <2>1, StampedLater
  <2>3. new = [qty |-> r.qty + q * B, at |-> m]
    BY <1>2, <1>5, <2>1
  <2>4. B \in Nat \ {0} /\ Units(Stamp) = B * A
    <3>1. CASE Stamp <= r.at
      <4>1. Left(Stamp) = B * Left(r.at) /\ B \in Nat \ {0}
        BY <1>1, <1>3, <2>1, <3>1, LeftSplits
      <4>2. Units(Stamp) = Left(Stamp) * A
        BY <1>1, <1>3, UnitsOfDated
      <4> QED  BY <2>1, <4>1, <4>2
    <3>2. CASE Stamp > r.at
      <4>1. B = 1
        BY <1>3, <2>1, <3>2, BetweenNone
      <4>2. m = Stamp
        BY <1>3, <2>1, <3>2, MaxOfTwo
      <4> QED  BY <2>2, <4>1, <4>2
    <3> QED  BY <1>3, <2>1, <3>1, <3>2
  <2> HIDE DEF B, m, A, q, r, o
  <2>5. q * B \in Nat /\ r.qty + q * B \in Nat \ {0}
    BY <1>3, <2>1, <2>4
  <2>6. new \in Holding /\ new # NoRow /\ new.qty = r.qty + q * B /\ new.at = m
    BY <2>2, <2>3, <2>5, HoldingMade DEF NoRow
  <2>7. Worth(new) = (r.qty + q * B) * A /\ Worth(r) = r.qty * A /\ Worth(o) = q * (B * A)
    <3>1. o.at = Stamp /\ q = o.qty
      BY <1>2 DEF o, q
    <3> QED  BY <2>2, <2>4, <2>6, <3>1 DEF Worth
  <2>8. (r.qty + q * B) * A = r.qty * A + q * (B * A)
    <3>1. \A a, b, c, d \in Nat : (a + b * c) * d = a * d + b * (c * d)
      OBVIOUS
    <3> QED  BY <1>3, <2>1, <2>2, <2>4, <3>1
  <2> QED  BY <2>2, <2>6, <2>7, <2>8 DEF o, r
<1> QED  BY <1>4, <1>5

LEMMA RegisterKeeps ==
  ASSUME SplitInv, Register
  PROVE  SplitInv'
<1> DEFINE new == IF desk.raw = NoRow THEN [qty |-> orders[desk.id].qty, at |-> Stamp]
                  ELSE [qty |-> desk.raw.qty
                            + orders[desk.id].qty * Between(desk.got, orders[desk.id].at, desk.raw.at),
                        at |-> Max({row["short"].at, Stamp})]
<1>1. /\ TypeInv /\ TypeOK /\ CalendarKept /\ OrdersDated /\ OneAtWork /\ DeskOrder /\ DeskRow
      /\ ExitsMeet /\ row \in [Sides -> Holding]
  BY TypesAtHand DEF SplitInv, TypeInv
<1>2. TypeInv'
  BY <1>1, RegisterTypes
<1>3. /\ desk.pc = "write" /\ desk' = [desk EXCEPT !.pc = "link"]
      /\ UNCHANGED <<calendar, known, orders, settler, net>>
  BY DEF Register
<1>4. row' = [row EXCEPT !["short"] = new]
  <2>1. row' = [row EXCEPT !["short"] =
                 IF desk.raw = NoRow THEN [qty |-> orders[desk.id].qty, at |-> Stamp]
                 ELSE [qty |-> desk.raw.qty
                            + orders[desk.id].qty * Between(desk.got, orders[desk.id].at, desk.raw.at),
                       at |-> Max({@.at, Stamp})]]
    BY DEF Register
  <2> QED  BY <2>1
<1>5. desk'.pc = "link" /\ desk'.id = desk.id
  <2>1. desk \in Worker
    BY <1>1, TypesAtHand
  <2> QED  BY <1>3, <2>1 DEF Worker
<1>6. PICK n \in DOMAIN orders : n = desk.id
  BY <1>1, <1>3 DEF TypeInv, Sent
<1>7. orders[n].kind = "SHORT" /\ orders[n].at = Stamp /\ orders[n].status = "pending"
      /\ Pending("SHORT_COVER") = {}
  BY <1>1, <1>3, <1>6 DEF DeskOrder, Sent, Entering
<1>8. settler = Idle
  BY <1>1, <1>3, IdleWorker DEF OneAtWork
<1>9. InShort' = InShort \cup {n} /\ n \notin InShort
  <2>1. \A i : InRow(i)' <=> IF n = i THEN TRUE ELSE orders[i].status = "pending"
    BY <1>3, <1>5, <1>6 DEF InRow
  <2>2. \A i : InRow(i) <=> IF n = i THEN FALSE ELSE orders[i].status = "pending"
    BY <1>3, <1>6 DEF InRow
  <2>3. n \in DOMAIN orders /\ orders' = orders
    BY <1>3
  <2>4. ASSUME NEW i
        PROVE  i \in InShort' <=> i \in InShort \/ i = n
    <3>1. i \in InShort' <=> i \in DOMAIN orders /\ orders[i].kind = "SHORT" /\ InRow(i)'
      BY <2>3 DEF InShort
    <3>2. i \in InShort <=> i \in DOMAIN orders /\ orders[i].kind = "SHORT" /\ InRow(i)
      BY DEF InShort
    <3>3. CASE i = n
      BY <1>7, <2>1, <2>3, <3>1, <3>3
    <3>4. CASE i # n
      BY <2>1, <2>2, <3>1, <3>2, <3>4
    <3> QED  BY <3>3, <3>4
  <2>5. n \notin InShort
    BY <2>2 DEF InShort
  <2> QED  BY <2>4, <2>5
<1>10. /\ new \in Holding /\ new # NoRow /\ Dated(new.at) /\ new.at >= Stamp
       /\ Left(new.at) = 1 \/ Worth(new) = Worth(orders[n])
       /\ Worth(new) = Worth(row["short"]) + Worth(orders[n])
  <2> DEFINE made == new
  <2>1. made = new
    OBVIOUS
  <2> HIDE DEF made
  <2>2. /\ made \in Holding /\ made # NoRow /\ Dated(made.at) /\ made.at >= Stamp
        /\ Left(made.at) = 1 \/ Worth(made) = Worth(orders[desk.id])
        /\ Worth(made) = Worth(row["short"]) + Worth(orders[desk.id])
    BY <1>3, <2>1, NewRowOfShort
  <2> HIDE DEF new
  <2> QED  BY <1>6, <2>1, <2>2
<1> HIDE DEF new
<1>11. RowsDated' /\ SplitsOnce' /\ RowAfterOrders'
  <2>1. Registered' = Registered + orders'[n].qty * Units(orders'[n].at)
    BY <1>1, <1>2, <1>3, <1>9, RegisteredGrows DEF calendar
  <2>2. Registered' = Registered + Worth(orders[n])
    BY <1>3, <2>1 DEF Worth
  <2>3. Worth(orders[n]) \in Int
    BY <1>1, <1>6, SharesOfOrders
  <2>4. \A i \in InShort' : orders'[i].at <= new.at
    <3>1. \A i \in DOMAIN orders : orders[i].at <= Stamp /\ orders[i].at \in Nat
      BY <1>1, OrderFields DEF OrdersDated
    <3>2. Stamp \in Nat /\ new.at \in Nat
      BY <1>1, <1>10, HoldingFields, TypesAtHand
    <3>3. \A i \in InShort' : i \in DOMAIN orders /\ orders'[i] = orders[i]
      BY <1>3 DEF InShort
    <3> QED  BY <1>10, <3>1, <3>2, <3>3
  <2> QED  BY <1>2, <1>3, <1>4, <1>10, <2>2, <2>3, <2>4, ShortRowMoves
<1>12. CalendarKept' /\ NetKept' /\ OneAtWork' /\ RoundReads'
  BY <1>3, <1>8, DeskFrame
<1>13. \A k : Pending(k)' = Pending(k)
  BY <1>3 DEF Pending
<1>14. ExitsMeet'
  <2>1. \A x \in Sides : ExitsAlone(x)
    BY <1>3, <1>13 DEF ExitsAlone
  <2> QED  BY <1>1, <1>3, <2>1, ExitsKeep
<1>15. OrdersDated'
  BY <1>1, <1>3, OrdersStay
<1>16. DeskOrder'
  <2>1. Stamp' = Stamp
    BY <1>3, SameUnits
  <2> QED  BY <1>3, <1>5, <1>6, <1>7, <1>13, <2>1 DEF DeskOrder, Sent
<1>17. DeskRow'
  BY <1>5 DEF DeskRow
<1>18. DeskUndoes'
  <2>1. row'["short"] = new
    BY <1>1, <1>4 DEF Sides
  <2>2. (\A d : Left(d)' = Left(d)) /\ \A w : Worth(w)' = Worth(w)
    BY <1>3, SameUnits
  <2>3. Worth(row["short"])' = Worth(new) /\ Left(row["short"].at)' = Left(new.at)
        /\ Worth(orders[desk.id])' = Worth(orders[n])
    <3>1. \A d : Units(d)' = Units(d)
      BY <1>3, SameUnits
    <3> QED  BY <1>3, <1>5, <1>6, <2>1, <2>2, <3>1 DEF Worth
  <2>4. orders'[desk'.id].at <= row'["short"].at
    BY <1>3, <1>5, <1>6, <1>7, <1>10, <2>1
  <2> QED  BY <1>5, <1>10, <2>1, <2>3, <2>4 DEF DeskUndoes
<1> QED  BY <1>2, <1>11, <1>12, <1>14, <1>15, <1>16, <1>17, <1>18 DEF SplitInv

LEMMA StatusWaits ==
  ASSUME TypeOK, NEW n \in DOMAIN orders, NEW v \in Statuses, v # "pending",
         orders' = [orders EXCEPT ![n].status = v]
  PROVE  \A k : Pending(k)' = Pending(k) \ {n}
<1>1. /\ DOMAIN orders' = DOMAIN orders
      /\ \A j \in DOMAIN orders : j # n => orders'[j] = orders[j]
      /\ orders'[n].status = v
  BY StatusChanges
<1> SUFFICES ASSUME NEW k, NEW i
             PROVE  i \in Pending(k)' <=> i \in Pending(k) \ {n}
  OBVIOUS
<1>2. CASE i = n
  BY <1>1, <1>2 DEF Pending
<1>3. CASE i # n
  BY <1>1, <1>3 DEF Pending
<1> QED  BY <1>2, <1>3

LEMMA SharesStay ==
  ASSUME TypeOK, NEW n \in DOMAIN orders, NEW v \in Statuses,
         orders' = [orders EXCEPT ![n].status = v]
  PROVE  \A i \in DOMAIN orders :
           /\ orders'[i].qty = orders[i].qty /\ orders'[i].at = orders[i].at
           /\ orders'[i].kind = orders[i].kind /\ orders'[i].signal = orders[i].signal
           /\ orders'[i].meant = orders[i].meant
<1>1. /\ \A j \in DOMAIN orders : j # n => orders'[j] = orders[j]
      /\ orders'[n].kind = orders[n].kind /\ orders'[n].qty = orders[n].qty
      /\ orders'[n].at = orders[n].at /\ orders'[n].signal = orders[n].signal
      /\ orders'[n].meant = orders[n].meant
  BY StatusChanges
<1> TAKE i \in DOMAIN orders
<1>2. CASE i = n
  BY <1>1, <1>2
<1>3. CASE i # n
  BY <1>1, <1>3
<1> QED  BY <1>2, <1>3

LEMMA ShortIsNoExit ==
  ASSUME TypeInv, UNCHANGED net, NEW n \in DOMAIN orders, orders[n].kind = "SHORT",
         NEW v \in Statuses, v # "pending", orders' = [orders EXCEPT ![n].status = v]
  PROVE  \A x \in Sides : ExitsAlone(x)
<1>1. \A k : Pending(k)' = Pending(k) \ {n}
  BY StatusWaits DEF TypeInv
<1>2. \A i \in DOMAIN orders :
        /\ orders'[i].qty = orders[i].qty /\ orders'[i].at = orders[i].at
        /\ orders'[i].meant = orders[i].meant
  BY SharesStay DEF TypeInv
<1> TAKE x \in Sides
<1>3. Exit[x] # "SHORT"
  BY KindsOfSides DEF Sides
<1>4. Pending(Exit[x])' = Pending(Exit[x]) /\ Pending(Entry[x])' \subseteq Pending(Entry[x])
  BY <1>1, <1>3 DEF Pending
<1>5. \A i \in Pending(Exit[x]) : i \in DOMAIN orders
  BY DEF Pending
<1> QED  BY <1>2, <1>4, <1>5 DEF ExitsAlone

LEMMA LinkKeeps ==
  ASSUME SplitInv, Link
  PROVE  SplitInv'
<1>1. /\ TypeInv /\ TypeOK /\ CalendarKept /\ OrdersDated /\ OneAtWork /\ DeskOrder /\ DeskUndoes
      /\ ExitsMeet
  BY DEF SplitInv, TypeInv
<1>2. TypeInv'
  BY <1>1, RegisterTypes
<1>3. desk.pc = "link" /\ UNCHANGED <<calendar, known, row, settler, net>>
  BY DEF Link
<1>4. PICK n \in DOMAIN orders : n = desk.id
  BY <1>1, <1>3 DEF TypeInv, Sent
<1>5. orders[n].kind = "SHORT" /\ orders[n].at = Stamp /\ orders[n].status = "pending"
      /\ Pending("SHORT_COVER") = {}
  BY <1>1, <1>3, <1>4 DEF DeskOrder, Sent, Entering
<1>6. settler = Idle
  BY <1>1, <1>3, IdleWorker DEF OneAtWork
<1>7. CalendarKept' /\ NetKept' /\ OneAtWork' /\ RoundReads'
  BY <1>3, <1>6, DeskFrame
<1>8. \A i : InRow(i) <=> IF n = i THEN TRUE ELSE orders[i].status = "pending"
  BY <1>3, <1>4 DEF InRow
<1>9. CASE desk' = Idle /\ UNCHANGED orders
  <2>1. InShort' = InShort
    <3>1. \A i \in DOMAIN orders : i # 0
      BY <1>1, OrderFields
    <3>2. \A i \in DOMAIN orders : InRow(i)' <=> orders[i].status = "pending"
      BY <1>9, <3>1, IdleWorker DEF InRow
    <3>3. \A i \in DOMAIN orders : InRow(i)' <=> InRow(i)
      BY <1>5, <1>8, <3>2
    <3> QED  BY <1>9, <3>3 DEF InShort
  <2>2. RowsDated' /\ RowAfterOrders' /\ SplitsOnce'
    BY <1>2, <1>3, <1>9, <2>1, NoneMoves
  <2>3. ExitsMeet'
    <3>1. \A x \in Sides : ExitsAlone(x)
      BY <1>3, <1>9 DEF ExitsAlone, Pending
    <3> QED  BY <1>1, <1>3, <3>1, ExitsKeep
  <2>4. OrdersDated'
    BY <1>1, <1>3, <1>9, OrdersStay
  <2> QED  BY <1>2, <1>7, <1>9, <2>2, <2>3, <2>4, DeskIdle DEF SplitInv
<1>10. CASE /\ orders' = [orders EXCEPT ![desk.id].status = "cancelled"]
            /\ desk' = [desk EXCEPT !.pc = "undo"]
  <2>1. "cancelled" \in Statuses /\ orders' = [orders EXCEPT ![n].status = "cancelled"]
    BY <1>4, <1>10 DEF Statuses
  <2>2. /\ DOMAIN orders' = DOMAIN orders /\ orders'[n].status = "cancelled"
        /\ \A j \in DOMAIN orders : j # n => orders'[j] = orders[j]
    BY <1>1, <2>1, StatusChanges
  <2>3. \A i \in DOMAIN orders :
           /\ orders'[i].qty = orders[i].qty /\ orders'[i].at = orders[i].at
           /\ orders'[i].kind = orders[i].kind /\ orders'[i].signal = orders[i].signal
    BY <1>1, <2>1, SharesStay
  <2>4. desk'.pc = "undo" /\ desk'.id = n
    <3>1. desk \in Worker
      BY <1>1, TypesAtHand
    <3> QED  BY <1>4, <1>10, <3>1 DEF Worker
  <2>5. InShort' = InShort
    <3>1. \A i : InRow(i)' <=> IF n = i THEN TRUE ELSE orders'[i].status = "pending"
      BY <2>4 DEF InRow
    <3>2. \A i \in DOMAIN orders : InRow(i)' <=> InRow(i)
      BY <1>8, <2>2, <3>1
    <3> QED  BY <2>2, <2>3, <3>2 DEF InShort
  <2>6. RowsDated' /\ RowAfterOrders' /\ SplitsOnce'
    <3>1. \A i \in InShort : orders'[i].qty = orders[i].qty /\ orders'[i].at = orders[i].at
      BY <2>3 DEF InShort
    <3> QED  BY <1>2, <1>3, <2>5, <3>1, NoneMoves
  <2>7. ExitsMeet'
    <3>1. \A x \in Sides : ExitsAlone(x)
      BY <1>1, <1>3, <1>5, <2>1, ShortIsNoExit
    <3> QED  BY <1>1, <1>3, <3>1, ExitsKeep
  <2>8. OrdersDated'
    BY <1>1, <1>3, <2>2, <2>3, OrdersStay
  <2>9. DeskOrder'
    <3>1. Pending("SHORT_COVER")' = {}
      BY <1>1, <1>5, <2>1, StatusWaits
    <3>2. orders'[n].kind = "SHORT" /\ orders'[n].at = Stamp'
      BY <1>3, <1>5, <2>3, SameUnits
    <3> QED  BY <2>2, <2>4, <3>1, <3>2 DEF DeskOrder, Sent
  <2>10. DeskRow'
    BY <2>4 DEF DeskRow
  <2>11. DeskUndoes'
    <3>1. /\ row["short"] # NoRow /\ orders[n].at <= row["short"].at
          /\ Left(row["short"].at) = 1 \/ Worth(row["short"]) = Worth(orders[n])
      BY <1>1, <1>3, <1>4 DEF DeskUndoes
    <3>2. row' = row /\ \A d : Units(d)' = Units(d) /\ Left(d)' = Left(d)
      BY <1>3, SameUnits
    <3>3. orders'[n].qty = orders[n].qty /\ orders'[n].at = orders[n].at
      BY <2>3
    <3>4. Worth(row["short"])' = Worth(row["short"]) /\ Worth(orders[desk.id])' = Worth(orders[n])
          /\ Left(row["short"].at)' = Left(row["short"].at)
      BY <2>4, <3>2, <3>3 DEF Worth
    <3> QED  BY <2>4, <3>1, <3>2, <3>3, <3>4 DEF DeskUndoes
  <2> QED  BY <1>2, <1>7, <2>6, <2>7, <2>8, <2>9, <2>10, <2>11 DEF SplitInv
<1> QED  BY <1>9, <1>10 DEF Link

LEMMA ReadUndoKeeps ==
  ASSUME SplitInv, Clean, ReadUndo
  PROVE  SplitInv'
<1> DEFINE r == row["short"]
<1>1. /\ TypeInv /\ CalendarKept /\ OrdersDated /\ OneAtWork /\ DeskOrder /\ DeskUndoes /\ RowsDated
      /\ ExitsMeet
  BY DEF SplitInv
<1>2. TypeInv'
  BY <1>1, UndoTypes
<1>3. /\ desk.pc = "undo"
      /\ desk' = [desk EXCEPT !.pc = "withdraw", !.raw = r,
                    !.qty = orders[desk.id].qty * Between(known, orders[desk.id].at, r.at)]
      /\ UNCHANGED <<calendar, known, row, orders, settler, net>>
  BY DEF ReadUndo, Clean
<1>4. settler = Idle
  BY <1>1, <1>3, IdleWorker DEF OneAtWork
<1>5. /\ desk'.pc = "withdraw" /\ desk'.id = desk.id /\ desk'.raw = r
      /\ desk'.qty = orders[desk.id].qty * Between(known, orders[desk.id].at, r.at)
  <2>1. desk \in Worker
    BY <1>1, TypesAtHand
  <2> QED  BY <1>3, <2>1 DEF Worker
<1>6. InShort' = InShort
  BY <1>3, <1>5 DEF InShort, InRow
<1>7. CalendarKept' /\ NetKept' /\ OneAtWork' /\ RoundReads'
  BY <1>3, <1>4, DeskFrame
<1>8. RowsDated' /\ RowAfterOrders' /\ SplitsOnce'
  BY <1>2, <1>3, <1>6, NoneMoves
<1>9. \A k : Pending(k)' = Pending(k)
  BY <1>3 DEF Pending
<1>10. ExitsMeet'
  <2>1. \A x \in Sides : ExitsAlone(x)
    BY <1>3, <1>9 DEF ExitsAlone
  <2> QED  BY <1>1, <1>3, <2>1, ExitsKeep
<1>11. OrdersDated'
  BY <1>1, <1>3, OrdersStay
<1>12. DeskOrder'
  BY <1>1, <1>3, <1>5, <1>9, SameUnits DEF DeskOrder, Sent, Entering
<1>13. DeskRow'
  BY <1>5 DEF DeskRow
<1>14. DeskUndoes'
  <2>1. /\ r # NoRow /\ orders[desk.id].at <= r.at
        /\ Left(r.at) = 1 \/ Worth(r) = Worth(orders[desk.id])
    BY <1>1, <1>3 DEF DeskUndoes
  <2>2. Follows(r, r)
    BY <1>1, <2>1 DEF Follows, RowsDated, Sides
  <2>3. /\ \A d : Left(d)' = Left(d) /\ Units(d)' = Units(d)
        /\ \A a, b : Follows(a, b)' <=> Follows(a, b)
    BY <1>3, SameUnits
  <2>4. /\ Worth(r)' = Worth(r) /\ Worth(orders[desk.id])' = Worth(orders[desk.id])
        /\ Left(r.at)' = Left(r.at) /\ Worth(desk.raw)' = Worth(r)
        /\ Left(desk.raw.at)' = Left(r.at)
    BY <1>3, <1>5, <2>3 DEF Worth
  <2>5. Follows(desk.raw, row["short"])'
    <3>1. Follows(desk.raw, row["short"])' <=> Follows(r, r)
      BY <1>3, <1>5, SameUnits DEF Follows, Dated, Afresh, calendar
    <3> QED  BY <2>2, <3>1
  <2>6. (orders[desk.id].qty * Between(known, orders[desk.id].at, desk.raw.at))' = desk'.qty
    BY <1>3, <1>5 DEF Between
  <2> QED  BY <1>3, <1>5, <2>1, <2>4, <2>5, <2>6 DEF DeskUndoes
<1> QED  BY <1>2, <1>7, <1>8, <1>10, <1>11, <1>12, <1>13, <1>14 DEF SplitInv

(* A short sale is withdrawn: n shares of the row, in the units of the row   *)
(* as it was read, are the shares of the order.  The row covers them, since  *)
(* what it is worth is what was filled and what is registered.  When the row *)
(* was adjusted in the meantime, they are the whole row.                     *)
LEMMA WithdrawnIs ==
  ASSUME SplitInv, NEW id \in InShort, NEW raw \in Holding, raw # NoRow,
         Follows(raw, row["short"]), NEW n \in Nat, n * Units(raw.at) = Worth(orders[id]),
         Left(raw.at) = 1 \/ Worth(raw) = Worth(orders[id]),
         NEW new, new = Withdrawn(raw, n, row["short"])
  PROVE  /\ new \in Holding /\ (new # NoRow => Dated(new.at))
         /\ Worth(new) = Worth(row["short"]) - Worth(orders[id])
         /\ new = NoRow => InShort = {id}
         /\ new # NoRow => new.at >= row["short"].at
<1> DEFINE r == row["short"]
           w == Worth(orders[id])
           u == Units(raw.at)
<1>1. /\ TypeInv /\ CalendarKept /\ SplitsOnce /\ NetKept /\ RowsDated
  BY DEF SplitInv
<1>2. /\ r \in Holding /\ Stamp \in Nat /\ net["short"] \in Int /\ net["short"] >= 0
      /\ Registered \in Nat /\ w \in Nat \ {0} /\ w <= Registered
  <2>1. r \in Holding /\ Stamp \in Nat /\ net["short"] \in Int
    BY <1>1, TypesAtHand
  <2>2. Registered \in Nat /\ w \in Nat \ {0} /\ w <= Registered
    BY <1>1, RegisteredType
  <2>3. net["short"] >= 0
    BY <1>1 DEF NetKept, Sides
  <2> QED  BY <2>1, <2>2, <2>3
<1>3. Worth(r) = net["short"] + Registered
  BY <1>1 DEF SplitsOnce, Worth, Units
<1>4. raw.qty \in Nat /\ raw.at \in Nat /\ u \in Nat \ {0} /\ Dated(raw.at)
  <2>1. Dated(raw.at)
    BY DEF Follows
  <2> QED  BY <1>1, <2>1, HoldingFields, UnitsType
<1>5. Worth(raw) = Worth(r) /\ Worth(raw) = raw.qty * u
  <2>1. Worth(raw) = Worth(r)
    BY <1>1, <1>2, <1>4, AdjustedAnew
  <2> QED  BY <2>1 DEF Worth
<1> HIDE DEF w, u
<1>6. n * u = w
  BY DEF w, u
<1>7. raw.qty <= n <=> Worth(r) <= w
  BY <1>4, <1>5, <1>6, ProductOrder
<1>8. CASE raw.qty <= n
  <2>1. new = NoRow /\ new \in Holding
    BY <1>8, NoRowHolds DEF Withdrawn
  <2>2. Worth(r) = w /\ Registered = w
    BY <1>2, <1>3, <1>7, <1>8
  <2>3. Worth(new) = 0
    BY <1>1, <2>1, NothingIsWorth
  <2>4. InShort = {id}
    BY <1>1, <2>2, RegisteredNone DEF w
  <2>5. Worth(new) = Worth(r) - w
    BY <1>2, <2>2, <2>3
  <2> QED  BY <2>1, <2>4, <2>5 DEF w
<1>9. CASE ~(raw.qty <= n)
  <2>1. raw.qty > n
    BY <1>4, <1>9
  <2>2. Worth(raw) # w
    BY <1>2, <1>3, <1>5, <1>7, <1>9
  <2>3. Left(raw.at) = 1 /\ r = raw
    <3>1. Left(raw.at) = 1
      BY <2>2 DEF w
    <3> QED  BY <3>1 DEF Follows
  <2> DEFINE m == Max({raw.at, Stamp})
  <2>4. /\ m \in Nat /\ Dated(m) /\ m >= raw.at /\ Units(m) = u
    BY <1>1, <1>4, <2>3, StampedLater DEF u
  <2>5. new = [qty |-> raw.qty - n, at |-> m]
    BY <1>9, <2>3 DEF Withdrawn
  <2> HIDE DEF m
  <2>6. new \in Holding /\ new.qty = raw.qty - n /\ new.at = m
    BY <1>4, <2>1, <2>4, <2>5, HoldingMade
  <2>7. new # NoRow
    BY <1>4, <2>1, <2>6 DEF NoRow
  <2>8. Worth(new) = (raw.qty - n) * u
    BY <2>4, <2>6 DEF Worth
  <2>9. (raw.qty - n) * u = raw.qty * u - n * u
    BY <1>4, ProductOrder
  <2>10. Worth(new) = Worth(r) - w
    BY <1>5, <1>6, <2>8, <2>9
  <2> QED  BY <2>3, <2>4, <2>6, <2>7, <2>10 DEF w
<1> QED  BY <1>8, <1>9

LEMMA WithdrawKeeps ==
  ASSUME SplitInv, TypeInv', UNCHANGED <<calendar, known, net>>,
         NEW id \in InShort, InShort' = InShort \ {id},
         \A i \in InShort : orders'[i].qty = orders[i].qty /\ orders'[i].at = orders[i].at,
         NEW raw \in Holding, raw # NoRow,
         Follows(raw, row["short"]), NEW n \in Nat, n * Units(raw.at) = Worth(orders[id]),
         Left(raw.at) = 1 \/ Worth(raw) = Worth(orders[id]),
         row' = [row EXCEPT !["short"] = Withdrawn(raw, n, row["short"])]
  PROVE  RowsDated' /\ SplitsOnce' /\ RowAfterOrders'
<1> DEFINE new == Withdrawn(raw, n, row["short"])
<1>1. /\ TypeInv /\ RowAfterOrders
  BY DEF SplitInv
<1>2. /\ new \in Holding /\ (new # NoRow => Dated(new.at))
      /\ Worth(new) = Worth(row["short"]) - Worth(orders[id])
      /\ new = NoRow => InShort = {id}
      /\ new # NoRow => new.at >= row["short"].at
  BY WithdrawnIs
<1>3. row' = [row EXCEPT !["short"] = new]
  OBVIOUS
<1> HIDE DEF new
<1> DEFINE delta == 0 - Worth(orders[id])
<1>4. Worth(orders[id]) \in Nat /\ Registered \in Nat
  BY <1>1, RegisteredType
<1>5. Registered' = Registered - Worth(orders[id])
  BY <1>1, RegisteredShrinks DEF calendar
<1>6. Worth(row["short"]) \in Int
  <2>1. row["short"].qty \in Nat /\ row["short"].at \in Nat
    BY <1>1, TypesAtHand, HoldingFields
  <2>2. Units(row["short"].at) \in Nat
    BY <1>1, <2>1, UnitsType DEF SplitInv
  <2> QED  BY <2>1, <2>2 DEF Worth
<1>7. delta \in Int /\ Worth(new) = Worth(row["short"]) + delta /\ Registered' = Registered + delta
  BY <1>2, <1>4, <1>5, <1>6
<1> HIDE DEF delta
<1>8. \A i \in InShort' : orders'[i].at <= new.at
  <2> TAKE i \in InShort'
  <2>1. i \in InShort /\ i # id /\ new # NoRow
    BY <1>2
  <2>2. orders[i].at \in Nat /\ row["short"].at \in Nat /\ new.at \in Nat
    BY <1>1, <1>2, <2>1, TypesAtHand, HoldingFields, OrderFields DEF InShort, TypeInv
  <2>3. orders[i].at <= row["short"].at /\ new.at >= row["short"].at
    BY <1>1, <1>2, <2>1 DEF RowAfterOrders
  <2> QED  BY <2>1, <2>2, <2>3
<1> QED  BY <1>2, <1>3, <1>7, <1>8, ShortRowMoves

LEMMA UndoKeeps ==
  ASSUME SplitInv, Undo
  PROVE  SplitInv'
<1> DEFINE raw == desk.raw
           B == Between(known, orders[desk.id].at, raw.at)
<1>1. /\ TypeInv /\ TypeOK /\ CalendarKept /\ OrdersDated /\ OneAtWork /\ DeskOrder /\ DeskUndoes
      /\ ExitsMeet
  BY DEF SplitInv, TypeInv
<1>2. TypeInv'
  BY <1>1, UndoTypes
<1>3. /\ desk.pc = "withdraw" /\ desk' = Idle
      /\ row' = [row EXCEPT !["short"] = Withdrawn(raw, desk.qty, row["short"])]
      /\ UNCHANGED <<calendar, known, orders, settler, net>>
  BY DEF Undo
<1>4. PICK n \in DOMAIN orders : n = desk.id
  BY <1>1, <1>3 DEF TypeInv, Sent
<1>5. orders[n].kind = "SHORT" /\ orders[n].at = Stamp /\ orders[n].status = "cancelled"
  BY <1>1, <1>3, <1>4 DEF DeskOrder, Sent
<1>6. settler = Idle
  BY <1>1, <1>3, IdleWorker DEF OneAtWork
<1>7. CalendarKept' /\ NetKept' /\ OneAtWork' /\ RoundReads'
  BY <1>3, <1>6, DeskFrame
<1>8. n \in InShort /\ InShort' = InShort \ {n}
  <2>1. \A i \in DOMAIN orders : InRow(i) <=> i = n \/ orders[i].status = "pending"
    BY <1>3, <1>4 DEF InRow
  <2>2. \A i \in DOMAIN orders : i # 0
    BY <1>1, OrderFields
  <2>3. \A i \in DOMAIN orders : InRow(i)' <=> orders[i].status = "pending"
    BY <1>3, <2>2, IdleWorker DEF InRow
  <2>4. n \in InShort
    BY <1>5, <2>1 DEF InShort
  <2>5. ASSUME NEW i
        PROVE  i \in InShort' <=> i \in InShort /\ i # n
    <3>1. i \in InShort' <=> i \in DOMAIN orders /\ orders[i].kind = "SHORT" /\ InRow(i)'
      BY <1>3 DEF InShort
    <3>2. i \in InShort <=> i \in DOMAIN orders /\ orders[i].kind = "SHORT" /\ InRow(i)
      BY DEF InShort
    <3> QED  BY <1>5, <2>1, <2>3, <3>1, <3>2
  <2> QED  BY <2>4, <2>5
<1>9. /\ raw \in Holding /\ raw # NoRow /\ Follows(raw, row["short"]) /\ orders[n].at <= raw.at
      /\ Left(raw.at) = 1 \/ Worth(raw) = Worth(orders[n])
      /\ desk.qty = orders[n].qty * B /\ desk.qty \in Nat
  <2>1. raw \in Holding /\ desk.qty \in Nat
    BY <1>1, TypesAtHand, WorkerFields
  <2>2. /\ raw # NoRow /\ Follows(raw, row["short"]) /\ orders[n].at <= raw.at
        /\ Left(raw.at) = 1 \/ Worth(raw) = Worth(orders[n])
        /\ desk.qty = orders[n].qty * B
    BY <1>1, <1>3, <1>4 DEF DeskUndoes
  <2> QED  BY <2>1, <2>2
<1>10. desk.qty * Units(raw.at) = Worth(orders[n])
  <2>1. orders[n].qty \in Nat /\ orders[n].at \in Nat /\ raw.at \in Nat
    BY <1>1, <1>9, OrderFields, HoldingFields
  <2>2. Dated(raw.at) /\ Dated(orders[n].at)
    BY <1>1, <1>9 DEF Follows, OrdersDated
  <2>3. /\ Left(orders[n].at) = B * Left(raw.at) /\ B \in Nat
        /\ Units(orders[n].at) = Left(orders[n].at) * Ahead /\ Units(raw.at) = Left(raw.at) * Ahead
        /\ Left(raw.at) \in Nat /\ Ahead \in Nat
    <3>1. B = Between(known, orders[n].at, raw.at)
      BY <1>4
    <3>2. /\ Left(orders[n].at) = Between(known, orders[n].at, raw.at) * Left(raw.at)
          /\ Between(known, orders[n].at, raw.at) \in Nat
      BY <1>1, <1>9, <2>1, LeftSplits
    <3>3. /\ Units(orders[n].at) = Left(orders[n].at) * Ahead
          /\ Units(raw.at) = Left(raw.at) * Ahead
      BY <1>1, <2>1, <2>2, UnitsOfDated
    <3>4. Left(raw.at) \in Nat /\ Ahead \in Nat
      BY <1>1, <2>1, UnitsType
    <3> HIDE DEF B
    <3> QED  BY <3>1, <3>2, <3>3, <3>4
  <2> HIDE DEF B
  <2>4. \A p, b, l, h \in Nat : (p * b) * (l * h) = p * ((b * l) * h)
    OBVIOUS
  <2>5. desk.qty * Units(raw.at) = (orders[n].qty * B) * (Left(raw.at) * Ahead)
    BY <1>9, <2>3
  <2>6. Worth(orders[n]) = orders[n].qty * ((B * Left(raw.at)) * Ahead)
    BY <2>3 DEF Worth
  <2> QED  BY <2>1, <2>3, <2>4, <2>5, <2>6
<1> HIDE DEF raw, B
<1>11. RowsDated' /\ SplitsOnce' /\ RowAfterOrders'
  BY <1>2, <1>3, <1>8, <1>9, <1>10, WithdrawKeeps
<1>12. ExitsMeet'
  <2>1. \A x \in Sides : ExitsAlone(x)
    BY <1>3 DEF ExitsAlone, Pending
  <2> QED  BY <1>1, <1>3, <2>1, ExitsKeep
<1>13. OrdersDated'
  BY <1>1, <1>3, OrdersStay
<1> QED  BY <1>2, <1>3, <1>7, <1>11, <1>12, <1>13, DeskIdle DEF SplitInv

-----------------------------------------------------------------------------
(* The settlement                                                            *)

LEMMA RoundWorks ==
  ASSUME SplitInv, settler.pc # "idle"
  PROVE  desk = Idle /\ part = "open" /\ Left(Stamp) = 1 /\ Stamp = day
<1>1. TypeInv /\ CalendarKept /\ OneAtWork
  BY DEF SplitInv
<1>2. settler # Idle
  BY IdleWorker
<1>3. desk = Idle /\ part = "open"
  BY <1>1, <1>2 DEF OneAtWork
<1>4. Stamp = day
  BY <1>3 DEF Stamp
<1> QED  BY <1>1, <1>3, <1>4, StampDated

LEMMA RoundFrame ==
  ASSUME SplitInv, UNCHANGED <<calendar, known, desk>>, desk = Idle, part = "open"
  PROVE  CalendarKept' /\ OneAtWork' /\ DeskOrder' /\ DeskRow' /\ DeskUndoes'
<1>1. CalendarKept'
  BY CalendarSame DEF SplitInv
<1>2. desk' = Idle /\ part' = "open"
  BY DEF calendar
<1> QED  BY <1>1, <1>2, DeskIdle DEF OneAtWork

LEMMA RoundReadsOnly ==
  ASSUME SplitInv, TypeInv', UNCHANGED <<calendar, known, row, orders, desk, net>>,
         desk = Idle, part = "open", RoundReads'
  PROVE  SplitInv'
<1>1. OrdersDated /\ NetKept /\ ExitsMeet
  BY DEF SplitInv
<1>2. InShort' = InShort
  BY DEF InShort, InRow
<1>3. RowsDated' /\ RowAfterOrders' /\ SplitsOnce'
  BY <1>2, NoneMoves
<1>4. OrdersDated'
  BY <1>1, OrdersStay
<1>5. NetKept'
  BY <1>1 DEF NetKept
<1>6. ExitsMeet'
  <2>1. \A x \in Sides : ExitsAlone(x)
    BY DEF ExitsAlone, Pending
  <2> QED  BY <1>1, <2>1, ExitsKeep
<1> QED  BY <1>3, <1>4, <1>5, <1>6, RoundFrame DEF SplitInv

LEMMA PastReads ==
  ASSUME SplitInv, settler.pc \in Filling, settler' = Past, DOMAIN orders' = DOMAIN orders,
         \A i \in DOMAIN orders : i # settler.id => orders'[i] = orders[i]
  PROVE  RoundReads'
<1>1. TypeInv /\ RoundReads
  BY DEF SplitInv
<1>2. settler'.pc = "next" /\ settler'.todo = settler.todo \ {settler.id}
  BY <1>1, FillingTypes
<1>3. \A i \in settler'.todo : i \in DOMAIN orders' /\ orders'[i].status = "pending"
  BY <1>1, <1>2 DEF RoundReads
<1> QED  BY <1>2, <1>3 DEF RoundReads, Filling

LEMMA RoundBeginsKeeps ==
  ASSUME SplitInv, BeginRound \/ EndRound \/ Take
  PROVE  SplitInv'
<1>1. TypeInv /\ CalendarKept /\ RoundReads /\ RowsDated
  BY DEF SplitInv
<1>2. TypeInv'
  BY <1>1, RoundBeginsTypes
<1>3. UNCHANGED <<calendar, known, row, orders, desk, net>>
  BY DEF BeginRound, EndRound, Take
<1>4. desk = Idle /\ part = "open"
  <2>1. CASE BeginRound
    BY <2>1 DEF BeginRound
  <2>2. CASE EndRound \/ Take
    BY <2>2, RoundWorks DEF EndRound, Take
  <2> QED  BY <2>1, <2>2
<1>5. RoundReads'
  <2>1. CASE BeginRound
    <3> DEFINE T == {i \in DOMAIN orders : orders[i].status = "pending"}
    <3>1. settler' = [Idle EXCEPT !.pc = "next", !.todo = T]
      BY <2>1 DEF BeginRound
    <3>2. settler'.pc = "next" /\ settler'.todo = T
      BY <3>1 DEF Idle
    <3>3. T' = T
      BY <1>3
    <3> QED  BY <3>2, <3>3 DEF RoundReads, Filling
  <2>2. CASE EndRound
    BY <2>2, RoundIdle DEF EndRound
  <2>3. CASE Take
    <3> DEFINE i == Min(settler.todo)
    <3>1. /\ settler.todo # {} /\ settler.pc = "next" /\ settler \in Worker
          /\ \/ settler' = [settler EXCEPT !.todo = @ \ {i}]
             \/ settler' = [settler EXCEPT !.pc = "held", !.id = i, !.side = SideOf(orders[i]),
                                           !.raw = row[SideOf(orders[i])]]
      BY <1>1, <2>3, TypesAtHand DEF Take
    <3>2. settler.todo \subseteq {j \in DOMAIN orders : orders[j].status = "pending"}
      BY <1>1 DEF RoundReads
    <3>3. i \in settler.todo
      <4>1. settler.todo \in SUBSET DOMAIN orders
        BY <3>2
      <4>2. IsFiniteSet(settler.todo)
        BY <1>1, <4>1, DomainFinite DEF TypeInv
      <4>3. \A j \in settler.todo : j \in Int
        BY <1>1, <4>1, OrderFields DEF TypeInv
      <4> QED  BY <3>1, <4>2, <4>3, MinOfFinite
    <3> HIDE DEF i
    <3>4. CASE settler' = [settler EXCEPT !.todo = @ \ {i}]
      <4>1. settler'.pc = "next" /\ settler'.todo \subseteq settler.todo
        BY <3>1, <3>4 DEF Worker
      <4>2. settler'.todo \subseteq {j \in DOMAIN orders' : orders'[j].status = "pending"}
        BY <1>3, <3>2, <4>1
      <4> QED  BY <4>1, <4>2 DEF RoundReads, Filling
    <3>5. CASE settler' = [settler EXCEPT !.pc = "held", !.id = i, !.side = SideOf(orders[i]),
                                          !.raw = row[SideOf(orders[i])]]
      <4>1. /\ settler'.pc = "held" /\ settler'.todo = settler.todo /\ settler'.id = i
            /\ settler'.side = SideOf(orders[i]) /\ settler'.raw = row[SideOf(orders[i])]
        BY <3>1, <3>5 DEF Worker
      <4>2. settler'.todo \subseteq {j \in DOMAIN orders' : orders'[j].status = "pending"}
        BY <1>3, <3>2, <4>1
      <4>3. Follows(settler'.raw, row'[settler'.side])
        <5>1. SideOf(orders[i]) \in Sides
          BY <1>1, <3>2, <3>3, OrderFields DEF TypeInv
        <5> QED  BY <1>1, <1>3, <4>1, <5>1 DEF Follows, RowsDated
      <4>4. Follows(settler.raw, row[settler.side])'
        <5>1. \A d : Left(d)' = Left(d) /\ (Dated(d)' <=> Dated(d))
          BY <1>3, SameUnits
        <5>2. \A w : Afresh(w)' = Afresh(w)
          BY <1>3, SameUnits
        <5>3. Follows(settler.raw, row[settler.side])' <=> Follows(settler'.raw, row'[settler'.side])
          BY <5>1, <5>2 DEF Follows
        <5> QED  BY <4>3, <5>3
      <4> QED  BY <3>3, <4>1, <4>2, <4>4 DEF RoundReads
    <3> QED  BY <3>1, <3>4, <3>5
  <2> QED  BY <2>1, <2>2, <2>3
<1> QED  BY <1>2, <1>3, <1>4, <1>5, RoundReadsOnly

LEMMA ReadRowKeeps ==
  ASSUME SplitInv, ReadRow
  PROVE  SplitInv'
<1>1. TypeInv /\ RoundReads
  BY DEF SplitInv
<1>2. TypeInv'
  BY <1>1, RoundAdjustsTypes
<1>3. /\ settler.pc = "fill" /\ UNCHANGED <<calendar, known, row, orders, desk, net>>
      /\ settler' = [settler EXCEPT !.pc = "write", !.raw = row[settler.side]]
  BY DEF ReadRow
<1>4. desk = Idle /\ part = "open"
  BY <1>3, RoundWorks
<1>5. /\ settler'.pc = "write" /\ settler'.raw = row[settler.side] /\ settler'.id = settler.id
      /\ settler'.side = settler.side /\ settler'.todo = settler.todo /\ settler'.qty = settler.qty
  <2>1. settler \in Worker
    BY <1>1, TypesAtHand
  <2> QED  BY <1>3, <2>1 DEF Worker
<1>6. RoundReads'
  <2>1. /\ settler.todo \subseteq {i \in DOMAIN orders : orders[i].status = "pending"}
        /\ settler.id \in settler.todo
        /\ Current(row[settler.side])
        /\ \/ settler.qty = Its.qty * Left(Its.at)
           \/ settler.qty = Its.qty /\ setting.down /\ (Its.signal => Left(Its.at) = 1)
    BY <1>1, <1>3 DEF RoundReads, Filling
  <2>2. /\ setting' = setting /\ (\A d : Left(d)' = Left(d)) /\ Its' = Its
    BY <1>3, <1>5, SameUnits DEF Its, calendar
  <2>3. Current(row[settler.side])'
    BY <1>3, <1>5, <2>1, <2>2 DEF Current
  <2>4. Left(Its.at)' = Left(Its.at)
    BY <1>3, <2>2
  <2> QED  BY <1>3, <1>5, <2>1, <2>2, <2>3, <2>4 DEF RoundReads
<1> QED  BY <1>2, <1>3, <1>4, <1>6, RoundReadsOnly

LEMMA AdjustHeldKeeps ==
  ASSUME SplitInv, Clean, AdjustHeld
  PROVE  SplitInv'
<1> DEFINE raw == settler.raw
           old == row[settler.side]
           b(splits) == IF raw = NoRow THEN old ELSE Adjusted(splits, raw.at, old)
           g(splits) == IF raw = NoRow THEN raw ELSE Returned(splits, raw, old)
<1>1. TypeInv /\ CalendarKept /\ RoundReads
  BY DEF SplitInv
<1>2. TypeInv'
  BY <1>1, RoundAdjustsTypes
<1>3. settler.pc = "held" /\ UNCHANGED <<calendar, known, orders, desk, net>>
  BY DEF AdjustHeld
<1>4. desk = Idle /\ part = "open"
  BY <1>3, RoundWorks
<1>5. PICK x \in Sides : x = settler.side
  BY <1>1, TypesAtHand, WorkerFields
<1>6. /\ raw \in Holding /\ Follows(raw, old) /\ raw.at \in Int /\ old \in Holding
      /\ row \in [Sides -> Holding]
      /\ settler.todo \subseteq {i \in DOMAIN orders : orders[i].status = "pending"}
      /\ settler.id \in settler.todo
  <2>1. raw \in Holding /\ row \in [Sides -> Holding]
    BY <1>1, TypesAtHand
  <2>2. Follows(raw, old)
    BY <1>1, <1>3 DEF RoundReads
  <2>3. /\ settler.todo \subseteq {i \in DOMAIN orders : orders[i].status = "pending"}
        /\ settler.id \in settler.todo
    BY <1>1, <1>3 DEF RoundReads, Filling
  <2> QED  BY <1>5, <2>1, <2>2, <2>3, HoldingFields
<1>7. PICK splits \in Fetches :
        /\ row' = [row EXCEPT ![x] = b(splits)]
        /\ settler' = [settler EXCEPT !.pc = "order", !.got = splits, !.raw = g(splits)]
  <2>1. PICK splits \in Fetches :
          /\ row' = [row EXCEPT ![settler.side] =
                       IF settler.raw = NoRow THEN @ ELSE Adjusted(splits, settler.raw.at, @)]
          /\ settler' = [settler EXCEPT !.pc = "order", !.got = splits,
                           !.raw = IF @ = NoRow THEN @ ELSE Returned(splits, @, row[settler.side])]
    BY DEF AdjustHeld
  <2>2. settler \in Worker
    BY <1>1, TypesAtHand
  <2>3. row' = [row EXCEPT ![x] = b(splits)]
    BY <1>5, <2>1
  <2>4. settler' = [settler EXCEPT !.pc = "order", !.got = splits, !.raw = g(splits)]
    BY <2>1, <2>2
  <2> QED  BY <2>3, <2>4
<1>8. splits \in {known, Unknown} /\ (~setting.down => splits = known) /\ known # Unknown
  BY <1>1, CleanSettings DEF Fetches
<1> DEFINE c == b(splits)
           h == g(splits)
<1>9. row' = row \/ MadeAfresh(x)
  <2>1. \/ c = old
        \/ old # NoRow /\ Left(old.at) # 1 /\ c = Afresh(old)
    BY <1>1, <1>6, <1>8, AdjustedIs
  <2> HIDE DEF c
  <2>2. row' = [row EXCEPT ![x] = c] /\ row[x] = old
    BY <1>5, <1>7 DEF c
  <2> QED  BY <1>6, <2>1, <2>2 DEF MadeAfresh
<1>10. splits = known => Current(c)
  <2>1. CASE raw = NoRow
    BY <1>6, <2>1 DEF Follows, Current
  <2>2. CASE raw # NoRow /\ splits = known
    BY <1>1, <1>6, <2>2, AdjustedAnew DEF Current
  <2> QED  BY <2>1, <2>2
<1>11. splits = Unknown => c = old /\ h = raw
  BY <1>8 DEF Adjusted, Returned
<1>12. row'[x] = c
  BY <1>5, <1>6, <1>7
<1>13. /\ settler'.pc = "order" /\ settler'.got = splits /\ settler'.raw = h
       /\ settler'.side = x /\ settler'.id = settler.id /\ settler'.todo = settler.todo
  <2>1. settler \in Worker
    BY <1>1, TypesAtHand
  <2>2. settler' = [settler EXCEPT !.pc = "order", !.got = splits, !.raw = h]
    BY <1>7
  <2> HIDE DEF h, g
  <2> QED  BY <1>5, <2>1, <2>2 DEF Worker
<1> HIDE DEF c, h, b, g
<1>14. InShort' = InShort
  BY <1>3 DEF InShort, InRow
<1>15. /\ CalendarKept' /\ RowsDated' /\ OrdersDated' /\ RowAfterOrders'
       /\ NetKept' /\ ExitsMeet' /\ SplitsOnce'
  BY <1>2, <1>3, <1>5, <1>9, <1>14, RowMoves
<1>16. OneAtWork' /\ DeskOrder' /\ DeskRow' /\ DeskUndoes'
  BY <1>3, <1>4, RoundFrame
<1>17. RoundReads'
  <2>1. known' = known /\ setting' = setting /\ (\A d : Left(d)' = Left(d))
        /\ (\A d : Dated(d)' <=> Dated(d)) /\ \A w : Afresh(w)' = Afresh(w)
    BY <1>3, SameUnits DEF calendar
  <2>2. settler'.todo \subseteq {i \in DOMAIN orders' : orders'[i].status = "pending"}
        /\ settler'.id \in settler'.todo
    BY <1>3, <1>6, <1>13
  <2>3. CASE splits = known
    <3>1. Current(row[settler.side])'
      BY <1>10, <1>12, <1>13, <2>1, <2>3 DEF Current
    <3> QED  BY <1>13, <2>1, <2>2, <2>3, <3>1 DEF RoundReads
  <2>4. CASE splits = Unknown
    <3>1. settler'.raw = raw /\ row'[settler'.side] = old
      BY <1>11, <1>12, <1>13, <2>4
    <3>2. Follows(settler.raw, row[settler.side])'
      BY <1>6, <2>1, <3>1 DEF Follows
    <3>3. setting.down
      BY <1>1, <1>8, <2>4, CleanSettings
    <3> QED  BY <1>13, <2>1, <2>2, <2>4, <3>2, <3>3 DEF RoundReads
  <2> QED  BY <1>8, <2>3, <2>4
<1> QED  BY <1>2, <1>15, <1>16, <1>17 DEF SplitInv

(* An order is filled unadjusted only when no price gave away that it or its *)
(* position is of other units: then neither is.                              *)
LEMMA GapShows ==
  ASSUME SplitInv, settler.pc = "order", settler.got = Unknown, known # Unknown, ~Gap
  PROVE  Current(row[settler.side]) /\ setting.down /\ (Its.signal => Left(Its.at) = 1)
<1>1. /\ TypeInv /\ TypeOK /\ CalendarKept /\ RoundReads /\ OrdersDated /\ DeskOrder /\ RowAfterOrders
  BY DEF SplitInv, TypeInv
<1>2. part = "open" /\ desk = Idle
  BY RoundWorks
<1>3. ex \cap (1 .. day) = known
  <2>1. known \subseteq ex /\ (\A e \in known : e <= day) /\ (\A e \in ex : e <= day => e \in known)
    BY <1>1, <1>2 DEF CalendarKept
  <2>2. day \in Nat /\ \A e \in ex : e \in Nat /\ e >= 2
    BY <1>1, DaysOf DEF TypeOK
  <2> QED  BY <2>1, <2>2
<1>4. /\ settler.id \in DOMAIN orders /\ settler.side = SideOf(Its) /\ settler.id \in settler.todo
      /\ orders[settler.id].status = "pending"
      /\ settler.raw \in Holding
  <2>1. settler.pc \in Filling
    BY DEF Filling
  <2>2. /\ settler.id \in DOMAIN orders /\ settler.side = SideOf(Its)
    BY <1>1, <2>1, FillingTypes
  <2>3. settler.id \in settler.todo /\ orders[settler.id].status = "pending"
    BY <1>1, <2>1 DEF RoundReads
  <2> QED  BY <1>1, <2>2, <2>3, TypesAtHand
<1>5. Its.at \in Nat /\ settler.raw.at \in Nat
  BY <1>1, <1>4, OrderFields, HoldingFields DEF Its
<1>6. /\ ~(Its.signal /\ Left(Its.at) > 1)
      /\ ~(settler.raw # NoRow /\ Its.kind # "SHORT" /\ Left(settler.raw.at) > 1)
  BY <1>3 DEF Gap, Left
<1>7. Its.signal => Left(Its.at) = 1
  BY <1>1, <1>5, <1>6, UnitsType
<1>8. setting.down /\ Follows(settler.raw, row[settler.side])
  BY <1>1 DEF RoundReads
<1>9. Current(row[settler.side])
  <2>1. CASE settler.raw = NoRow
    BY <1>8, <2>1 DEF Follows, Current
  <2>2. CASE settler.raw # NoRow /\ Its.kind # "SHORT"
    <3>1. Left(settler.raw.at) = 1
      BY <1>1, <1>5, <1>6, <2>2, UnitsType
    <3> QED  BY <1>8, <2>2, <3>1 DEF Follows, Current
  <2>3. CASE Its.kind = "SHORT"
    <3>1. Left(Its.at) = 1
      BY <1>1, <1>4, <1>7, <2>3 DEF OrdersDated, Its
    <3>2. settler.id \in InShort
      <4>1. settler.id # desk.id
        BY <1>1, <1>2, <1>4, IdleWorker, OrderFields
      <4> QED  BY <1>4, <2>3, <4>1 DEF InShort, InRow, Its
    <3>3. settler.side = "short"
      BY <1>4, <2>3 DEF SideOf
    <3>4. Its.at <= row["short"].at
      BY <1>1, <3>2 DEF RowAfterOrders, Its
    <3>5. row["short"].at \in Nat
      BY <1>1, TypesAtHand, HoldingFields
    <3> QED  BY <1>1, <1>5, <3>1, <3>3, <3>4, <3>5, LeftSplits DEF Current
  <2> QED  BY <2>1, <2>2, <2>3
<1> QED  BY <1>7, <1>8, <1>9

LEMMA AdjustOrderKeeps ==
  ASSUME SplitInv, Clean, AdjustOrder
  PROVE  SplitInv'
<1>1. TypeInv /\ CalendarKept /\ RoundReads
  BY DEF SplitInv
<1>2. TypeInv'
  BY <1>1, RoundAdjustsTypes
<1>3. settler.pc = "order" /\ UNCHANGED <<calendar, known, row, orders, desk, net>>
  BY DEF AdjustOrder
<1>4. desk = Idle /\ part = "open"
  BY <1>3, RoundWorks
<1>5. /\ settler.pc \in Filling /\ settler.id \in settler.todo
      /\ settler.todo \subseteq {i \in DOMAIN orders : orders[i].status = "pending"}
      /\ \/ settler.got = known /\ Current(row[settler.side])
         \/ settler.got = Unknown /\ setting.down
  BY <1>1, <1>3 DEF RoundReads, Filling
<1> DEFINE splits == settler.got
<1>6. settler' = IF splits = Unknown /\ Gap THEN Past
                 ELSE [settler EXCEPT !.pc = "fill", !.qty = OrderQty(splits, Its)]
  <2>1. FetchesAgain(splits) = {splits}
    BY <1>1, <1>5, CleanSettings
  <2> QED  BY <2>1 DEF AdjustOrder
<1>7. CASE splits = Unknown /\ Gap
  <2>1. RoundReads'
    BY <1>3, <1>5, <1>6, <1>7, PastReads
  <2> QED  BY <1>2, <1>3, <1>4, <2>1, RoundReadsOnly
<1>8. CASE ~(splits = Unknown /\ Gap)
  <2>1. /\ settler'.pc = "fill" /\ settler'.qty = OrderQty(splits, Its) /\ settler'.id = settler.id
        /\ settler'.side = settler.side /\ settler'.todo = settler.todo
    <3>1. settler \in Worker
      BY <1>1, TypesAtHand
    <3>2. settler' = [settler EXCEPT !.pc = "fill", !.qty = OrderQty(splits, Its)]
      BY <1>6, <1>8
    <3> QED  BY <3>1, <3>2 DEF Worker
  <2>2. known # Unknown
    BY <1>1, CleanSettings
  <2>3. /\ Current(row[settler.side])
        /\ \/ settler'.qty = Its.qty * Left(Its.at)
           \/ settler'.qty = Its.qty /\ setting.down /\ (Its.signal => Left(Its.at) = 1)
    <3>1. CASE splits = known
      BY <1>5, <2>1, <2>2, <3>1 DEF OrderQty, Left
    <3>2. CASE splits = Unknown
      <4>1. settler'.qty = Its.qty
        BY <2>1, <3>2 DEF OrderQty
      <4> QED  BY <1>3, <1>8, <2>2, <3>2, <4>1, GapShows
    <3> QED  BY <1>5, <3>1, <3>2
  <2>4. /\ setting' = setting /\ (\A d : Left(d)' = Left(d)) /\ Its' = Its
    BY <1>3, <2>1, SameUnits DEF Its, calendar
  <2>5. Current(row[settler.side])' /\ Left(Its.at)' = Left(Its.at)
    BY <1>3, <2>1, <2>3, <2>4 DEF Current
  <2>6. RoundReads'
    BY <1>3, <1>5, <2>1, <2>3, <2>4, <2>5 DEF RoundReads
  <2> QED  BY <1>2, <1>3, <1>4, <2>6, RoundReadsOnly
<1> QED  BY <1>7, <1>8

LEMMA ClosedLeaves ==
  ASSUME SplitInv, settler.pc \in Filling, desk' = desk, NEW v \in Statuses, v # "pending",
         orders' = [orders EXCEPT ![settler.id].status = v]
  PROVE  /\ settler.id \in Pending(Its.kind) /\ settler.id \in DOMAIN orders
         /\ settler.id \in InShort <=> Its.kind = "SHORT"
         /\ InShort' = InShort \ {settler.id}
         /\ \A k : Pending(k)' = Pending(k) \ {settler.id}
         /\ DOMAIN orders' = DOMAIN orders
         /\ \A i \in DOMAIN orders :
              /\ orders'[i].qty = orders[i].qty /\ orders'[i].at = orders[i].at
              /\ orders'[i].kind = orders[i].kind /\ orders'[i].signal = orders[i].signal
              /\ orders'[i].meant = orders[i].meant
         /\ settler' = Past => RoundReads'
<1> DEFINE n == settler.id
<1>1. TypeInv /\ TypeOK /\ RoundReads /\ DeskOrder
  BY DEF SplitInv, TypeInv
<1>2. n \in DOMAIN orders /\ orders[n].status = "pending"
  BY <1>1 DEF RoundReads
<1>3. desk = Idle
  BY RoundWorks DEF Filling
<1> HIDE DEF n
<1>4. orders' = [orders EXCEPT ![n].status = v]
  BY DEF n
<1>5. /\ DOMAIN orders' = DOMAIN orders /\ orders'[n].status = v
      /\ \A j \in DOMAIN orders : j # n => orders'[j] = orders[j]
  BY <1>1, <1>2, <1>4, StatusChanges
<1>6. \A i \in DOMAIN orders :
        /\ orders'[i].qty = orders[i].qty /\ orders'[i].at = orders[i].at
        /\ orders'[i].kind = orders[i].kind /\ orders'[i].signal = orders[i].signal
        /\ orders'[i].meant = orders[i].meant
  BY <1>1, <1>2, <1>4, SharesStay
<1>7. \A k : Pending(k)' = Pending(k) \ {n}
  BY <1>1, <1>2, <1>4, StatusWaits
<1>8. \A i \in DOMAIN orders : i # 0
  BY <1>1, OrderFields
<1>9. \A i \in DOMAIN orders : /\ InRow(i) <=> orders[i].status = "pending"
                               /\ InRow(i)' <=> orders'[i].status = "pending"
  BY <1>3, <1>8, IdleWorker DEF InRow
<1>10. n \in InShort <=> orders[n].kind = "SHORT"
  BY <1>2, <1>9 DEF InShort
<1>11. InShort' = InShort \ {n}
  <2> SUFFICES ASSUME NEW i
               PROVE  i \in InShort' <=> i \in InShort /\ i # n
    OBVIOUS
  <2>1. i \in InShort' <=> i \in DOMAIN orders /\ orders[i].kind = "SHORT" /\ orders'[i].status = "pending"
    BY <1>5, <1>6, <1>9 DEF InShort
  <2>2. i \in InShort <=> i \in DOMAIN orders /\ orders[i].kind = "SHORT" /\ orders[i].status = "pending"
    BY <1>9 DEF InShort
  <2> QED  BY <1>5, <2>1, <2>2
<1>12. n \in Pending(orders[n].kind)
  BY <1>2 DEF Pending
<1>13. settler' = Past => RoundReads'
  BY <1>5, PastReads DEF n
<1> QED  BY <1>2, <1>5, <1>6, <1>7, <1>10, <1>11, <1>12, <1>13 DEF n, Its

(* What is known when an order is filled or expires: its row is of today, and *)
(* its shares are, unless no record tells and no price of its signal either.  *)
LEMMA AtFill ==
  ASSUME SplitInv, settler.pc \in {"fill", "write"}
  PROVE  /\ settler.id \in DOMAIN orders /\ settler.id \in Pending(Its.kind)
         /\ settler.side \in Sides /\ settler.side = SideOf(Its)
         /\ Its.kind = Entry[settler.side] \/ Its.kind = Exit[settler.side]
         /\ Ahead \in Nat \ {0} /\ settler.qty \in Nat \ {0}
         /\ Current(row[settler.side])
         /\ Worth(row[settler.side]) = row[settler.side].qty * Ahead
         /\ Units(Stamp) = Ahead /\ Dated(Stamp) /\ Stamp \in Nat
         /\ Its.signal \/ ~setting.down => settler.qty * Ahead = Worth(Its)
         /\ settler.pc = "write" => settler.raw = row[settler.side]
<1>1. /\ TypeInv /\ TypeOK /\ CalendarKept /\ RoundReads /\ OrdersDated /\ RowsDated
  BY DEF SplitInv, TypeInv
<1>2. part = "open" /\ Left(Stamp) = 1
  BY RoundWorks
<1>3. /\ settler.id \in DOMAIN orders /\ settler.side = SideOf(Its) /\ settler.side \in Sides
      /\ settler.qty \in Nat
  <2>1. settler.pc \in Filling
    BY DEF Filling
  <2> QED  BY <1>1, <2>1, FillingTypes
<1>4. /\ Current(row[settler.side])
      /\ \/ settler.qty = Its.qty * Left(Its.at)
         \/ settler.qty = Its.qty /\ setting.down /\ (Its.signal => Left(Its.at) = 1)
      /\ settler.pc = "write" => settler.raw = row[settler.side]
      /\ orders[settler.id].status = "pending"
  <2>1. settler.pc \in Filling
    BY DEF Filling
  <2> QED  BY <1>1, <2>1 DEF RoundReads
<1>5. Its.qty \in Nat \ {0} /\ Its.at \in Nat /\ Its.kind \in Kinds
      /\ Dated(Its.at)
  BY <1>1, <1>3, OrderFields DEF Its, Kinds, OrdersDated
<1>6. Left(Its.at) \in Nat \ {0} /\ Ahead \in Nat \ {0} /\ Units(Its.at) = Left(Its.at) * Ahead
  BY <1>1, <1>5, UnitsType, UnitsOfDated
<1>7. Stamp \in Nat /\ Dated(Stamp) /\ Units(Stamp) = Ahead
  <2>1. Stamp \in Nat /\ Dated(Stamp)
    BY <1>1, StampDated
  <2>2. Units(Stamp) = 1 * Ahead
    BY <1>1, <1>2, <2>1, UnitsOfDated
  <2> QED  BY <1>6, <2>1, <2>2
<1>8. settler.qty \in Nat \ {0}
  <2>1. \A a, b \in Nat \ {0} : a * b # 0
    OBVIOUS
  <2> QED  BY <1>3, <1>4, <1>5, <1>6, <2>1
<1>9. Its.signal \/ ~setting.down => settler.qty * Ahead = Worth(Its)
  <2>1. ASSUME Its.signal \/ ~setting.down
        PROVE  settler.qty = Its.qty * Left(Its.at)
    BY <1>4, <1>5, <2>1
  <2>2. \A a, b, c \in Nat : (a * b) * c = a * (b * c)
    OBVIOUS
  <2>3. (Its.qty * Left(Its.at)) * Ahead = Its.qty * (Left(Its.at) * Ahead)
    BY <1>5, <1>6, <2>2
  <2> QED  BY <1>6, <2>1, <2>3 DEF Worth
<1>10. Worth(row[settler.side]) = row[settler.side].qty * Ahead
  <2> DEFINE r == row[settler.side]
  <2>1. r \in Holding
    BY <1>1, <1>3, TypesAtHand
  <2>2. CASE r = NoRow
    <3>1. Worth(r) = 0 /\ r.qty = 0
      BY <1>1, <2>2, NothingIsWorth, NoRowHolds
    <3> HIDE DEF r
    <3> QED  BY <1>6, <3>1 DEF r
  <2>3. CASE r # NoRow
    <3>1. Left(r.at) = 1 /\ Dated(r.at) /\ r.at \in Nat
      BY <1>1, <1>3, <1>4, <2>1, <2>3, HoldingFields DEF Current, RowsDated
    <3>2. Units(r.at) = 1 * Ahead
      BY <1>1, <3>1, UnitsOfDated
    <3>3. Units(r.at) = Ahead
      BY <1>6, <3>2
    <3> QED  BY <3>3 DEF Worth
  <2> QED  BY <2>2, <2>3
<1>11. settler.id \in Pending(Its.kind)
  BY <1>3, <1>4 DEF Pending, Its
<1>12. Its.kind = Entry[settler.side] \/ Its.kind = Exit[settler.side]
  BY <1>3, <1>5, KindsOfSides DEF SideOf, Kinds
<1> QED  BY <1>3, <1>4, <1>6, <1>7, <1>8, <1>9, <1>10, <1>11, <1>12

LEMMA ExitCloses ==
  ASSUME SplitInv, NEW x \in Sides, NEW n, n \in Pending(Exit[x]), 
         Pending(Exit[x])' = Pending(Exit[x]) \ {n}
  PROVE  Pending(Exit[x])' = {}
<1>1. \A i, j \in Pending(Exit[x]) : i = j
  BY DEF SplitInv, ExitsMeet
<1> QED  BY <1>1

LEMMA ExpireKeeps ==
  ASSUME SplitInv, Expire
  PROVE  SplitInv'
<1> DEFINE n == settler.id
<1>1. /\ TypeInv /\ TypeOK /\ CalendarKept /\ OrdersDated /\ ExitsMeet /\ NetKept /\ SplitsOnce
  BY DEF SplitInv, TypeInv
<1>2. TypeInv'
  BY <1>1, ExpireTypes
<1>3. /\ settler.pc = "fill" /\ Its.signal /\ UNCHANGED <<calendar, known, desk, net>>
      /\ orders' = [orders EXCEPT ![settler.id].status = "expired"] /\ settler' = Past
      /\ row' = IF Its.kind = "SHORT" THEN [row EXCEPT !["short"] = Withdrawn(@, settler.qty, @)]
                ELSE row
  BY DEF Expire
<1>4. desk = Idle /\ part = "open"
  BY <1>3, RoundWorks
<1>5. CalendarKept' /\ OneAtWork' /\ DeskOrder' /\ DeskRow' /\ DeskUndoes'
  BY <1>3, <1>4, RoundFrame
<1>6. /\ n \in Pending(Its.kind) /\ n \in DOMAIN orders
      /\ n \in InShort <=> Its.kind = "SHORT"
      /\ InShort' = InShort \ {n}
      /\ \A k : Pending(k)' = Pending(k) \ {n}
      /\ DOMAIN orders' = DOMAIN orders
      /\ \A i \in DOMAIN orders :
           /\ orders'[i].qty = orders[i].qty /\ orders'[i].at = orders[i].at
           /\ orders'[i].kind = orders[i].kind /\ orders'[i].signal = orders[i].signal
           /\ orders'[i].meant = orders[i].meant
      /\ RoundReads'
  BY <1>3, ClosedLeaves DEF Filling, Statuses
<1>7. OrdersDated'
  BY <1>1, <1>3, <1>6, OrdersStay
<1>8. NetKept'
  BY <1>1, <1>3 DEF NetKept
<1>9. ExitsMeet'
  <2>1. ASSUME NEW x \in Sides
        PROVE  ExitsAlone(x)
    <3>1. CASE n \in Pending(Exit[x])
      BY <1>6, <3>1, ExitCloses DEF ExitsAlone
    <3>2. CASE n \notin Pending(Exit[x])
      <4>1. Pending(Exit[x])' = Pending(Exit[x]) /\ Pending(Entry[x])' \subseteq Pending(Entry[x])
        BY <1>6, <3>2
      <4>2. \A i \in Pending(Exit[x]) : i \in DOMAIN orders
        BY DEF Pending
      <4> QED  BY <1>3, <1>6, <4>1, <4>2 DEF ExitsAlone
    <3> QED  BY <3>1, <3>2
  <2> QED  BY <1>1, <1>3, <2>1, ExitsKeep
<1>10. RowsDated' /\ SplitsOnce' /\ RowAfterOrders'
  <2>1. \A i \in InShort : orders'[i].qty = orders[i].qty /\ orders'[i].at = orders[i].at
    BY <1>6 DEF InShort
  <2>2. CASE Its.kind # "SHORT"
    <3>1. InShort' = InShort /\ row' = row
      BY <1>3, <1>6, <2>2
    <3> QED  BY <1>2, <1>3, <2>1, <3>1, NoneMoves
  <2>3. CASE Its.kind = "SHORT"
    <3> DEFINE r == row["short"]
    <3>1. settler.side = "short" /\ n \in InShort
      BY <1>3, <1>6, <2>3, AtFill DEF SideOf
    <3>2. /\ settler.qty \in Nat /\ settler.qty * Ahead = Worth(Its) /\ Current(r)
          /\ Worth(r) = r.qty * Ahead /\ Ahead \in Nat \ {0}
      BY <1>3, <3>1, AtFill
    <3>3. r \in Holding /\ r.at \in Nat /\ r.qty \in Nat
      BY <1>1, TypesAtHand, HoldingFields
    <3>4. r # NoRow
      <4>1. Worth(r) = net["short"] + Registered /\ net["short"] \in Int /\ net["short"] >= 0
        BY <1>1, TypesAtHand DEF SplitsOnce, Worth, Units, NetKept
      <4>2. Registered \in Nat /\ Worth(orders[n]) \in Nat \ {0} /\ Worth(orders[n]) <= Registered
        BY <1>1, <3>1, RegisteredType
      <4>3. Worth(r) > 0
        BY <4>1, <4>2
      <4> QED  BY <1>1, <4>3, NothingIsWorth
    <3>5. Left(r.at) = 1 /\ Dated(r.at)
      <4>1. RowsDated
        BY DEF SplitInv
      <4> QED  BY <1>1, <3>2, <3>4, <4>1, TypesAtHand DEF Current, RowsDated
    <3>6. Units(r.at) = Ahead
      <4>1. Units(r.at) = 1 * Ahead
        BY <1>1, <3>3, <3>5, UnitsOfDated
      <4> QED  BY <3>2, <4>1
    <3>7. settler.qty * Units(r.at) = Worth(orders[n])
      BY <3>2, <3>6 DEF Its
    <3>8. Follows(r, r)
      BY <3>4, <3>5 DEF Follows
    <3>9. row' = [row EXCEPT !["short"] = Withdrawn(r, settler.qty, r)]
      BY <1>3, <2>3
    <3> HIDE DEF r, n
    <3>10. row' = [row EXCEPT !["short"] = Withdrawn(r, settler.qty, row["short"])]
      BY <3>9 DEF r
    <3>11. Follows(r, row["short"])
      BY <3>8 DEF r
    <3> QED  BY <1>2, <1>3, <1>6, <2>1, <3>1, <3>2, <3>3, <3>4, <3>5, <3>7, <3>10, <3>11, WithdrawKeeps
  <2> QED  BY <2>2, <2>3
<1> QED  BY <1>2, <1>5, <1>6, <1>7, <1>8, <1>9, <1>10 DEF SplitInv

LEMMA FilledRow ==
  ASSUME SplitInv, TypeInv', UNCHANGED <<calendar, known>>, NEW x \in Sides,
         NEW new \in Holding, row' = [row EXCEPT ![x] = new], new # NoRow => Dated(new.at),
         NEW v \in Int, v >= 0, net' = [net EXCEPT ![x] = v],
         Worth(new) = v + (IF x = "short" THEN Registered' ELSE 0),
         x = "long" => InShort' = InShort,
         x = "short" => \A i \in InShort' : orders'[i].at <= new.at,
         \A i \in InShort : orders'[i].qty = orders[i].qty /\ orders'[i].at = orders[i].at
  PROVE  RowsDated' /\ SplitsOnce' /\ RowAfterOrders' /\ NetKept'
<1>1. TypeInv /\ CalendarKept /\ RowsDated /\ SplitsOnce /\ NetKept /\ RowAfterOrders
  BY DEF SplitInv
<1>2. row \in [Sides -> Holding] /\ net \in [Sides -> Int]
  BY <1>1, TypesAtHand
<1>3. row'[x] = new /\ net'[x] = v /\ \A y \in Sides : y = x \/ (row'[y] = row[y] /\ net'[y] = net[y])
  BY <1>2
<1>4. \A d : Units(d)' = Units(d) /\ (Dated(d)' <=> Dated(d))
  BY SameUnits
<1>5. RowsDated'
  BY <1>1, <1>3, <1>4 DEF RowsDated
<1>6. NetKept'
  BY <1>1, <1>3 DEF NetKept
<1>7. /\ row["short"].qty * Units(row["short"].at) = net["short"] + Registered
      /\ row["long"].qty * Units(row["long"].at) = net["long"]
  BY <1>1 DEF SplitsOnce, Units
<1>8. CASE x = "long"
  <2>1. InShort' = InShort /\ row'["short"] = row["short"] /\ net'["short"] = net["short"]
        /\ row'["long"] = new /\ net'["long"] = v
    BY <1>3, <1>8 DEF Sides
  <2>2. Registered' = Registered
    BY <1>1, <2>1, RegisteredKept DEF calendar
  <2>3. Worth(new) = v
    BY <1>8
  <2>4. /\ (row["short"].qty * Units(row["short"].at))' = net'["short"] + Registered'
        /\ (row["long"].qty * Units(row["long"].at))' = net'["long"]
    BY <1>4, <1>7, <2>1, <2>2, <2>3 DEF Worth
  <2>5. RowAfterOrders'
    BY <1>1, <2>1 DEF RowAfterOrders
  <2> QED  BY <1>5, <1>6, <2>4, <2>5 DEF SplitsOnce, Units
<1>9. CASE x = "short"
  <2>1. row'["long"] = row["long"] /\ net'["long"] = net["long"]
        /\ row'["short"] = new /\ net'["short"] = v
    BY <1>3, <1>9 DEF Sides
  <2>2. Worth(new) = v + Registered'
    BY <1>9
  <2>3. /\ (row["short"].qty * Units(row["short"].at))' = net'["short"] + Registered'
        /\ (row["long"].qty * Units(row["long"].at))' = net'["long"]
    BY <1>4, <1>7, <2>1, <2>2 DEF Worth
  <2>4. RowAfterOrders'
    BY <1>9, <2>1 DEF RowAfterOrders
  <2> QED  BY <1>5, <1>6, <2>3, <2>4 DEF SplitsOnce, Units
<1> QED  BY <1>8, <1>9 DEF Sides

LEMMA FilledExits ==
  ASSUME SplitInv, UNCHANGED <<calendar, known>>, NEW x \in Sides, NEW v \in Int,
         net' = [net EXCEPT ![x] = v], NEW n,
         \A k : Pending(k)' = Pending(k) \ {n},
         \A i \in DOMAIN orders :
           /\ orders'[i].qty = orders[i].qty /\ orders'[i].at = orders[i].at
           /\ orders'[i].meant = orders[i].meant,
         n \in Pending(Exit[x]) \/ (n \in Pending(Entry[x]) /\ v >= net[x])
  PROVE  ExitsMeet'
<1>1. TypeInv /\ TypeOK /\ ExitsMeet
  BY DEF SplitInv, TypeInv
<1>2. \A k : Pending(k) \subseteq DOMAIN orders
  BY DEF Pending
<1>3. /\ setting' = setting /\ (\A d : Units(d)' = Units(d))
      /\ net \in [Sides -> Int]
  BY <1>1, SameUnits, TypesAtHand DEF calendar
<1>4. \A i \in DOMAIN orders : Worth(orders[i])' = Worth(orders[i])
  BY <1>3 DEF Worth
<1>5. ASSUME NEW y \in Sides, NEW i \in Pending(Exit[y])'
      PROVE  /\ \A j \in Pending(Exit[y])' : i = j
             /\ setting'.down => Pending(Entry[y])' = {}
             /\ ~setting'.down =>
                  \/ Worth(orders[i])' = orders'[i].meant /\ orders'[i].meant <= net'[y]
                  \/ /\ Pending(Entry[y])' = {}
                     /\ orders'[i].meant = net'[y] /\ net'[y] <= Worth(orders[i])'
  <2>1. /\ i \in Pending(Exit[y]) /\ i # n /\ i \in DOMAIN orders
        /\ Pending(Entry[y])' \subseteq Pending(Entry[y]) /\ Pending(Exit[y])' \subseteq Pending(Exit[y])
    BY <1>2, <1>5
  <2>2. /\ \A j \in Pending(Exit[y]) : i = j
        /\ setting.down => Pending(Entry[y]) = {}
        /\ ~setting.down =>
             \/ Worth(orders[i]) = orders[i].meant /\ orders[i].meant <= net[y]
             \/ /\ Pending(Entry[y]) = {}
                /\ orders[i].meant = net[y] /\ net[y] <= Worth(orders[i])
    BY <1>1, <2>1 DEF ExitsMeet
  <2>3. orders'[i].meant = orders[i].meant /\ Worth(orders[i])' = Worth(orders[i])
        /\ orders[i].meant \in Int
    BY <1>1, <1>4, <2>1, OrderFields
  <2>4. CASE y # x
    <3>1. net'[y] = net[y]
      BY <1>3, <2>4
    <3> QED  BY <1>3, <2>1, <2>2, <2>3, <3>1
  <2>5. CASE y = x
    <3>1. n \notin Pending(Exit[x])
      BY <2>1, <2>2, <2>5
    <3>2. n \in Pending(Entry[x]) /\ v >= net[x]
      BY <3>1
    <3>3. net'[y] = v /\ net[y] \in Int
      BY <1>3, <2>5
    <3>4. ~setting.down => Worth(orders[i])' = orders'[i].meant /\ orders'[i].meant <= net'[y]
      BY <2>2, <2>3, <2>5, <3>2, <3>3
    <3> QED  BY <1>3, <2>1, <2>2, <3>4
  <2> QED  BY <2>4, <2>5
<1> QED  BY <1>5 DEF ExitsMeet

(* What an exit fills: never more than was filled before, and, when the      *)
(* record is always there, what was meant.                                   *)
LEMMA ExitFills ==
  ASSUME SplitInv, settler.pc = "write", Its.kind = Exit[settler.side], NEW n,
         n = Min({settler.qty, settler.raw.qty})
  PROVE  /\ n \in Nat /\ n <= settler.raw.qty /\ n * Ahead <= net[settler.side]
         /\ ~setting.down => n * Ahead = Its.meant
<1> DEFINE x == settler.side
           q == settler.qty
           h == settler.raw.qty
           A == Ahead
           w == Worth(row[x])
           m == Its.meant
<1>1. /\ TypeInv /\ TypeOK /\ ExitsMeet /\ SplitsOnce /\ NetKept /\ DeskOrder
  BY DEF SplitInv, TypeInv
<1>2. /\ settler.id \in DOMAIN orders /\ settler.id \in Pending(Exit[x]) /\ x \in Sides
      /\ A \in Nat \ {0} /\ q \in Nat \ {0} /\ settler.raw = row[x]
      /\ w = row[x].qty * A
      /\ ~setting.down => q * A = Worth(Its)
  BY AtFill
<1>3. h \in Nat /\ w = h * A /\ net[x] \in Int
  <2>1. row[x] \in Holding /\ net[x] \in Int
    BY <1>1, <1>2, TypesAtHand
  <2> QED  BY <1>2, <2>1, HoldingFields
<1>4. w = net[x] + (IF x = "short" THEN Registered ELSE 0) /\ Registered \in Nat
  <2>1. CASE x = "short"
    BY <1>1, <2>1, RegisteredType DEF SplitsOnce, Worth, Units
  <2>2. CASE x = "long"
    <3>1. w = net[x]
      BY <1>1, <2>2 DEF SplitsOnce, Worth, Units
    <3> HIDE DEF x, w
    <3> QED  BY <1>1, <1>3, <2>2, <3>1, RegisteredType
  <2> HIDE DEF x, w
  <2> QED  BY <1>2, <2>1, <2>2 DEF Sides
<1>5. Pending(Entry[x]) = {} => w = net[x]
  <2>1. ASSUME x = "short", Pending(Entry[x]) = {}
        PROVE  Registered = 0
    <3>1. desk = Idle
      BY RoundWorks
    <3>2. InShort = Pending("SHORT")
      BY <1>1, <3>1, IdleWorker, ShortsWait DEF Sent
    <3>3. InShort = {}
      BY <2>1, <3>2, KindsOfSides
    <3> QED  BY <1>1, <3>3, RegisteredType
  <2> HIDE DEF x, w
  <2> QED  BY <1>3, <1>4, <2>1
<1>6. /\ setting.down => Pending(Entry[x]) = {}
      /\ ~setting.down =>
           \/ Worth(Its) = m /\ m <= net[x]
           \/ Pending(Entry[x]) = {} /\ m = net[x] /\ net[x] <= Worth(Its)
  BY <1>1, <1>2 DEF ExitsMeet, Its
<1>7. m \in Int
  BY <1>1, <1>2, OrderFields DEF Its
<1>8. n = (IF q <= h THEN q ELSE h) /\ n \in Nat /\ n <= h
  <2>1. n = (IF q <= h THEN q ELSE h)
    BY <1>2, <1>3, MinOfTwo
  <2> HIDE DEF q, h
  <2> QED  BY <1>2, <1>3, <2>1
<1> HIDE DEF x, q, h, A, w, m
<1>9. n * A <= h * A /\ (q * A <= h * A <=> q <= h) /\ (h * A <= q * A <=> h <= q)
      /\ q * A \in Int /\ h * A \in Int /\ n * A \in Int
  <2>1. q \in Int /\ h \in Int /\ n \in Int /\ n <= h
    BY <1>2, <1>3, <1>8
  <2> QED  BY <1>2, <2>1, ProductOrder
<1>10. CASE setting.down
  BY <1>3, <1>5, <1>6, <1>8, <1>9, <1>10 DEF x, h, A
<1>11. CASE ~setting.down /\ Worth(Its) = m /\ m <= net[x]
  <2>1. q * A = m /\ q * A <= h * A
    BY <1>2, <1>3, <1>4, <1>7, <1>9, <1>11
  <2>2. n = q
    BY <1>8, <1>9, <2>1
  <2>3. n * A = m /\ n * A <= net[x]
    BY <1>11, <2>1, <2>2
  <2> QED  BY <1>8, <2>3 DEF x, h, A, m
<1>12. CASE ~setting.down /\ Pending(Entry[x]) = {} /\ m = net[x] /\ net[x] <= Worth(Its)
  <2>1. h * A = m /\ h * A <= q * A
    BY <1>2, <1>3, <1>5, <1>12
  <2>2. n = h
    BY <1>2, <1>3, <1>8, <1>9, <2>1
  <2>3. n * A = m /\ n * A <= net[x]
    BY <1>3, <1>12, <2>1, <2>2
  <2> QED  BY <1>8, <2>3 DEF x, h, A, m
<1> QED  BY <1>6, <1>10, <1>11, <1>12

LEMMA FillWrites ==
  ASSUME SplitInv, Fill
  PROVE  \E x \in Sides, n \in Nat, left \in Nat, v \in Statuses :
           /\ x = settler.side /\ v # "pending"
           /\ n = IF Its.kind = Exit[x] THEN Min({settler.qty, settler.raw.qty}) ELSE settler.qty
           /\ left = CASE Its.kind = "BUY"   -> settler.raw.qty + n
                       [] Its.kind = "SHORT" -> IF settler.raw = NoRow THEN n ELSE row[x].qty
                       [] OTHER              -> settler.raw.qty - n
           /\ row' = [row EXCEPT ![x] = IF left = 0 THEN NoRow ELSE [qty |-> left, at |-> Stamp]]
           /\ orders' = [orders EXCEPT ![settler.id].status = v]
           /\ net' = [net EXCEPT ![x] = IF Its.kind = Exit[x] THEN net[x] - n * Ahead
                                        ELSE net[x] + n * Ahead]
<1> DEFINE x == settler.side
           n == IF Its.kind = Exit[x] THEN Min({settler.qty, settler.raw.qty}) ELSE settler.qty
           left == CASE Its.kind = "BUY"   -> settler.raw.qty + n
                     [] Its.kind = "SHORT" -> IF settler.raw = NoRow THEN n ELSE row[x].qty
                     [] OTHER              -> settler.raw.qty - n
           v == IF n = 0 THEN "rejected" ELSE "filled"
<1>1. TypeInv /\ settler.pc = "write"
  BY DEF SplitInv, Fill
<1>2. /\ x \in Sides /\ settler.qty \in Nat /\ settler.raw = row[x] /\ Units(Stamp) = Ahead
      /\ x = SideOf(Its) /\ (Its.kind = Entry[x] \/ Its.kind = Exit[x])
  BY <1>1, AtFill
<1>3. settler.raw.qty \in Nat /\ row[x].qty \in Nat
  BY <1>1, <1>2, TypesAtHand, HoldingFields
<1>4. n \in Nat /\ (Its.kind = Exit[x] => n <= settler.raw.qty)
  <2>1. CASE Its.kind = Exit[x]
    <3>1. n = Min({settler.qty, settler.raw.qty})
      BY <2>1
    <3> HIDE DEF n, x
    <3> QED  BY <1>1, <2>1, <3>1, ExitFills DEF x
  <2>2. CASE Its.kind # Exit[x]
    BY <1>2, <2>2
  <2> QED  BY <2>1, <2>2
<1>5. left \in Nat
  <2>1. Its.kind # Exit[x] => Its.kind \in {"BUY", "SHORT"}
    BY <1>2, KindsOfSides DEF Sides
  <2> HIDE DEF n, x
  <2> QED  BY <1>3, <1>4, <2>1
<1>6. v \in Statuses /\ v # "pending"
  BY DEF Statuses
<1>7. /\ row' = [row EXCEPT ![x] = IF left = 0 THEN NoRow ELSE [qty |-> left, at |-> Stamp]]
      /\ orders' = [orders EXCEPT ![settler.id].status = v]
      /\ net' = [net EXCEPT ![x] = IF Its.kind = Exit[x] THEN @ - n * Since(ex, Stamp)
                                   ELSE @ + n * Since(ex, Stamp)]
  BY DEF Fill
<1> HIDE DEF n, left, v, x
<1>8. net' = [net EXCEPT ![x] = IF Its.kind = Exit[x] THEN net[x] - n * Ahead ELSE net[x] + n * Ahead]
  <2>1. Since(ex, Stamp) = Ahead
    BY <1>2 DEF Units
  <2> QED  BY <1>7, <2>1
<1>9. /\ n = IF Its.kind = Exit[x] THEN Min({settler.qty, settler.raw.qty}) ELSE settler.qty
      /\ left = CASE Its.kind = "BUY"   -> settler.raw.qty + n
                  [] Its.kind = "SHORT" -> IF settler.raw = NoRow THEN n ELSE row[x].qty
                  [] OTHER              -> settler.raw.qty - n
      /\ x = settler.side
  BY DEF n, left, x
<1>10. PICK a \in Sides : a = x
  BY <1>2
<1>11. PICK b \in Nat : b = n
  BY <1>4
<1>12. PICK c \in Nat : c = left
  BY <1>5
<1>13. PICK d \in Statuses : d = v
  BY <1>6
<1> WITNESS a \in Sides, b \in Nat, c \in Nat, d \in Statuses
<1> QED  BY <1>6, <1>7, <1>8, <1>9, <1>10, <1>11, <1>12, <1>13

LEMMA FillKeeps ==
  ASSUME SplitInv, Fill
  PROVE  SplitInv'
<1>1. /\ TypeInv /\ TypeOK /\ CalendarKept /\ OrdersDated /\ SplitsOnce /\ NetKept /\ RowAfterOrders
  BY DEF SplitInv, TypeInv
<1>2. TypeInv'
  BY <1>1, FillTypes
<1>3. /\ settler.pc = "write" /\ UNCHANGED <<calendar, known, desk>> /\ settler' = Past
  BY DEF Fill
<1>4. desk = Idle /\ part = "open"
  BY <1>3, RoundWorks
<1>5. CalendarKept' /\ OneAtWork' /\ DeskOrder' /\ DeskRow' /\ DeskUndoes'
  BY <1>3, <1>4, RoundFrame
<1>6. PICK x \in Sides, n \in Nat, left \in Nat, v \in Statuses :
           /\ x = settler.side /\ v # "pending"
           /\ n = IF Its.kind = Exit[x] THEN Min({settler.qty, settler.raw.qty}) ELSE settler.qty
           /\ left = CASE Its.kind = "BUY"   -> settler.raw.qty + n
                       [] Its.kind = "SHORT" -> IF settler.raw = NoRow THEN n ELSE row[x].qty
                       [] OTHER              -> settler.raw.qty - n
           /\ row' = [row EXCEPT ![x] = IF left = 0 THEN NoRow ELSE [qty |-> left, at |-> Stamp]]
           /\ orders' = [orders EXCEPT ![settler.id].status = v]
           /\ net' = [net EXCEPT ![x] = IF Its.kind = Exit[x] THEN net[x] - n * Ahead
                                        ELSE net[x] + n * Ahead]
  BY FillWrites
<1> DEFINE id == settler.id
           new == IF left = 0 THEN NoRow ELSE [qty |-> left, at |-> Stamp]
           w == IF Its.kind = Exit[x] THEN net[x] - n * Ahead ELSE net[x] + n * Ahead
<1>7. /\ id \in Pending(Its.kind) /\ id \in DOMAIN orders
      /\ id \in InShort <=> Its.kind = "SHORT"
      /\ InShort' = InShort \ {id}
      /\ \A k : Pending(k)' = Pending(k) \ {id}
      /\ DOMAIN orders' = DOMAIN orders
      /\ \A i \in DOMAIN orders :
           /\ orders'[i].qty = orders[i].qty /\ orders'[i].at = orders[i].at
           /\ orders'[i].kind = orders[i].kind /\ orders'[i].signal = orders[i].signal
           /\ orders'[i].meant = orders[i].meant
      /\ RoundReads'
  BY <1>3, <1>6, ClosedLeaves DEF Filling
<1>8. OrdersDated'
  BY <1>1, <1>3, <1>7, OrdersStay
<1>9. /\ x = SideOf(Its) /\ (Its.kind = Entry[x] \/ Its.kind = Exit[x])
      /\ Ahead \in Nat \ {0} /\ settler.qty \in Nat \ {0}
      /\ Worth(row[x]) = row[x].qty * Ahead
      /\ Units(Stamp) = Ahead /\ Dated(Stamp) /\ Stamp \in Nat
      /\ Its.signal \/ ~setting.down => settler.qty * Ahead = Worth(Its)
      /\ settler.raw = row[x]
  BY <1>3, <1>6, AtFill
<1>10. /\ row[x] \in Holding /\ row[x].qty \in Nat /\ net[x] \in Int /\ net[x] >= 0
       /\ row \in [Sides -> Holding] /\ net \in [Sides -> Int]
  BY <1>1, TypesAtHand, HoldingFields DEF NetKept
<1>11. /\ new \in Holding /\ (new # NoRow => Dated(new.at)) /\ Worth(new) = left * Ahead
       /\ new # NoRow => new.at = Stamp
       /\ left = 0 => new = NoRow
  <2>1. CASE left = 0
    <3>1. new = NoRow /\ Worth(new) = 0 /\ NoRow \in Holding
      BY <1>1, <2>1, NothingIsWorth, NoRowHolds
    <3> HIDE DEF new
    <3> QED  BY <1>9, <2>1, <3>1
  <2>2. CASE left # 0
    <3>1. new = [qty |-> left, at |-> Stamp]
      BY <2>2
    <3> HIDE DEF new
    <3>2. new \in Holding /\ new.qty = left /\ new.at = Stamp
      BY <1>9, <2>2, <3>1, HoldingMade
    <3> QED  BY <1>9, <2>2, <3>2 DEF Worth
  <2> QED  BY <2>1, <2>2
<1>12. /\ row' = [row EXCEPT ![x] = new] /\ net' = [net EXCEPT ![x] = w] /\ w \in Int
       /\ n * Ahead \in Nat
  <2>1. n * Ahead \in Nat
    BY <1>9
  <2> QED  BY <1>6, <1>10, <2>1
<1> HIDE DEF new
<1>13. \A i \in InShort : orders'[i].qty = orders[i].qty /\ orders'[i].at = orders[i].at
  BY <1>7 DEF InShort
<1>14. Registered \in Nat /\ (Its.kind # "SHORT" => InShort' = InShort /\ Registered' = Registered)
  <2>1. ASSUME Its.kind # "SHORT"
        PROVE  InShort' = InShort
    BY <1>7, <2>1
  <2>2. ASSUME InShort' = InShort
        PROVE  Registered' = Registered
    BY <1>1, <1>2, <1>3, <1>13, <2>2, RegisteredKept DEF calendar
  <2> QED  BY <1>1, <2>1, <2>2, RegisteredType
<1>15. \A i \in InShort' : orders'[i].at <= Stamp
  <2> TAKE i \in InShort'
  <2>1. i \in DOMAIN orders
    BY <1>7 DEF InShort
  <2> QED  BY <1>1, <1>7, <2>1 DEF OrdersDated
<1>16. x = "long" => Worth(row[x]) = net[x]
  BY <1>1 DEF SplitsOnce, Worth, Units
<1>17. x = "short" => Worth(row[x]) = net[x] + Registered
  BY <1>1 DEF SplitsOnce, Worth, Units
<1>18. /\ w >= 0 /\ Worth(new) = w + (IF x = "short" THEN Registered' ELSE 0)
       /\ x = "long" => InShort' = InShort
       /\ x = "short" => \A i \in InShort' : orders'[i].at <= new.at
       /\ id \in Pending(Exit[x]) \/ (id \in Pending(Entry[x]) /\ w >= net[x])
  <2>1. CASE Its.kind = "BUY"
    <3>1. x = "long" /\ Its.kind # Exit[x] /\ Its.kind = Entry[x]
      BY <1>9, <2>1, KindsOfSides DEF SideOf
    <3>2. left = row[x].qty + n /\ w = net[x] + n * Ahead
      BY <1>6, <1>9, <2>1, <3>1
    <3>3. (row[x].qty + n) * Ahead = row[x].qty * Ahead + n * Ahead
      BY <1>9, <1>10, ProductOrder
    <3>4. Worth(new) = w
      BY <1>9, <1>11, <1>16, <3>1, <3>2, <3>3
    <3> HIDE DEF w, id
    <3>5. w >= 0 /\ w >= net[x]
      BY <1>10, <1>12, <3>2
    <3> QED  BY <1>7, <1>12, <1>14, <2>1, <3>1, <3>4, <3>5
  <2>2. CASE Its.kind = "SHORT"
    <3>1. x = "short" /\ Its.kind # Exit[x] /\ Its.kind = Entry[x] /\ id \in InShort
      BY <1>7, <1>9, <2>2, KindsOfSides DEF SideOf
    <3>2. /\ Registered' = Registered - Worth(Its) /\ Worth(Its) \in Nat \ {0}
          /\ Worth(Its) <= Registered
      <4>1. Registered' = Registered - Worth(orders[id])
        BY <1>1, <1>2, <1>3, <1>7, <1>13, <3>1, RegisteredShrinks DEF calendar
      <4>2. Worth(orders[id]) \in Nat \ {0} /\ Worth(orders[id]) <= Registered
        BY <1>1, <3>1, RegisteredType
      <4> QED  BY <4>1, <4>2 DEF Its
    <3>3. Worth(row[x]) > 0
      BY <1>10, <1>14, <1>17, <3>1, <3>2
    <3>4. row[x] # NoRow
      BY <1>1, <3>3, NothingIsWorth
    <3>5. left = row[x].qty /\ n = settler.qty /\ w = net[x] + n * Ahead
      BY <1>6, <1>9, <2>2, <3>1, <3>4
    <3>6. n * Ahead = Worth(Its)
      <4>1. Its.signal
        BY <1>1, <1>7, <2>2 DEF OrdersDated, Its
      <4> QED  BY <1>9, <3>5, <4>1
    <3>7. Worth(new) = net[x] + Registered
      BY <1>9, <1>11, <1>17, <3>1, <3>5
    <3>8. new # NoRow
      BY <1>1, <1>10, <1>14, <3>2, <3>7, NothingIsWorth
    <3> HIDE DEF w, id
    <3>9. Worth(new) = w + Registered' /\ w >= 0 /\ w >= net[x]
      BY <1>10, <1>14, <3>2, <3>5, <3>6, <3>7
    <3> QED  BY <1>7, <1>11, <1>15, <2>2, <3>1, <3>8, <3>9
  <2>3. CASE Its.kind = Exit[x] /\ Its.kind # "BUY" /\ Its.kind # "SHORT"
    <3>1. /\ n <= row[x].qty /\ n * Ahead <= net[x]
      BY <1>3, <1>6, <1>9, <2>3, ExitFills
    <3>2. left = row[x].qty - n /\ w = net[x] - n * Ahead
      BY <1>6, <1>9, <2>3
    <3>3. (row[x].qty - n) * Ahead = row[x].qty * Ahead - n * Ahead
      BY <1>9, <1>10, ProductOrder
    <3>4. w >= 0
      BY <1>10, <1>12, <3>1, <3>2
    <3>5. Worth(new) = Worth(row[x]) - n * Ahead
      BY <1>9, <1>11, <3>2, <3>3
    <3>6. id \in Pending(Exit[x]) /\ InShort' = InShort /\ Registered' = Registered
      BY <1>7, <1>14, <2>3
    <3> HIDE DEF w, id
    <3>7. CASE x = "long"
      <4>1. Worth(new) = w
        BY <1>16, <3>2, <3>5, <3>7
      <4> QED  BY <1>12, <3>4, <3>6, <3>7, <4>1
    <3>8. CASE x = "short"
      <4>1. Worth(new) = w + Registered
        BY <1>10, <1>12, <1>14, <1>17, <3>2, <3>5, <3>8
      <4>2. \A i \in InShort' : orders'[i].at <= new.at
        <5>1. CASE new = NoRow
          <6>1. Registered = 0
            BY <1>1, <1>12, <1>14, <3>4, <4>1, <5>1, NothingIsWorth
          <6> QED  BY <1>1, <3>6, <6>1, RegisteredNone
        <5>2. CASE new # NoRow
          BY <1>11, <1>15, <5>2
        <5> QED  BY <5>1, <5>2
      <4> QED  BY <3>4, <3>6, <3>8, <4>1, <4>2
    <3> QED  BY <3>7, <3>8 DEF Sides
  <2>4. Its.kind = "BUY" \/ Its.kind = "SHORT"
        \/ (Its.kind = Exit[x] /\ Its.kind # "BUY" /\ Its.kind # "SHORT")
    BY <1>9, KindsOfSides DEF Sides
  <2> QED  BY <2>1, <2>2, <2>3, <2>4
<1> HIDE DEF w, id
<1>19. RowsDated' /\ SplitsOnce' /\ RowAfterOrders' /\ NetKept'
  BY <1>2, <1>3, <1>11, <1>12, <1>13, <1>18, FilledRow
<1>20. ExitsMeet'
  BY <1>3, <1>7, <1>12, <1>18, FilledExits
<1> QED  BY <1>2, <1>5, <1>7, <1>8, <1>19, <1>20 DEF SplitInv

-----------------------------------------------------------------------------
(* The invariant holds at first, and no step breaks it                       *)

LEMMA SplitsAtFirst ==
  ASSUME Init, TypeInv
  PROVE  SplitInv
<1>1. /\ ex \in SUBSET ExDays /\ day = 1 /\ part = "open" /\ known = {}
      /\ row = [x \in Sides |-> NoRow] /\ orders = << >>
      /\ desk = Idle /\ settler = Idle /\ reader = Idle /\ net = [x \in Sides |-> 0]
  BY DEF Init
<1>2. DOMAIN orders = {}
  BY <1>1
<1>3. InShort = {} /\ \A k : Pending(k) = {}
  BY <1>2 DEF InShort, Pending
<1>4. CalendarKept
  <2>1. \A e \in ex : e \in Nat /\ e >= 2
    BY <1>1, DaysOf
  <2> QED  BY <1>1, <2>1 DEF CalendarKept
<1>5. \A x \in Sides : row[x] = NoRow /\ net[x] = 0
  BY <1>1
<1>6. RowsDated /\ NetKept
  BY <1>5 DEF RowsDated, NetKept
<1>7. OrdersDated
  BY <1>2 DEF OrdersDated
<1>8. OneAtWork
  BY <1>1 DEF OneAtWork
<1>9. desk.pc = "idle" /\ desk.id = 0 /\ settler.pc = "idle" /\ settler.todo = {}
  BY <1>1, IdleWorker
<1>10. DeskOrder
  BY <1>9 DEF DeskOrder, Sent, Entering
<1>11. DeskRow
  BY <1>9 DEF DeskRow
<1>12. DeskUndoes
  BY <1>9 DEF DeskUndoes
<1>13. RowAfterOrders /\ ExitsMeet
  BY <1>3 DEF RowAfterOrders, ExitsMeet
<1>14. RoundReads
  BY <1>9 DEF RoundReads, Filling
<1>15. SplitsOnce
  <2>1. Registered = 0
    BY <1>3, RegisteredType
  <2>2. Worth(NoRow) = 0
    BY <1>4, NothingIsWorth
  <2>3. row["short"] = NoRow /\ row["long"] = NoRow /\ net["short"] = 0 /\ net["long"] = 0
    BY <1>5 DEF Sides
  <2> QED  BY <2>1, <2>2, <2>3 DEF SplitsOnce, Worth, Units
<1> QED  BY <1>4, <1>6, <1>7, <1>8, <1>10, <1>11, <1>12, <1>13, <1>14, <1>15 DEF SplitInv

LEMMA StutterKeeps ==
  ASSUME SplitInv, TypeInv', UNCHANGED vars
  PROVE  SplitInv'
<1>1. UNCHANGED <<calendar, known, row, orders, desk, settler, reader, net>>
  BY DEF vars
<1>2. InShort' = InShort
  BY <1>1 DEF InShort, InRow
<1>3. RowsDated' /\ RowAfterOrders' /\ SplitsOnce'
  BY <1>1, <1>2, NoneMoves
<1>4. CalendarKept' /\ OrdersDated' /\ NetKept' /\ OneAtWork'
  BY <1>1, CalendarSame, OrdersStay DEF SplitInv, NetKept, OneAtWork, calendar
<1>5. ExitsMeet'
  <2>1. \A x \in Sides : ExitsAlone(x)
    BY <1>1 DEF ExitsAlone, Pending
  <2> QED  BY <1>1, <2>1, ExitsKeep DEF SplitInv
<1>6. /\ setting' = setting /\ Stamp' = Stamp
      /\ (\A d : Left(d)' = Left(d)) /\ (\A d : Units(d)' = Units(d)) /\ (\A d : Dated(d)' <=> Dated(d))
      /\ \A w : Afresh(w)' = Afresh(w)
  BY <1>1, SameUnits DEF calendar
<1>7. \A k : Pending(k)' = Pending(k)
  BY <1>1 DEF Pending
<1>8. DeskOrder'
  BY <1>1, <1>6, <1>7 DEF SplitInv, DeskOrder
<1>9. DeskRow'
  <2>1. Follows(desk.raw, row[desk.side])' <=> Follows(desk.raw, row[desk.side])
    BY <1>1, <1>6 DEF Follows
  <2>2. Follows(desk.raw, row["short"])' <=> Follows(desk.raw, row["short"])
    BY <1>1, <1>6 DEF Follows
  <2>3. /\ Left(row[desk.side].at)' = Left(row[desk.side].at)
        /\ Units(row[desk.side].at)' = Units(row[desk.side].at)
        /\ Left(row["short"].at)' = Left(row["short"].at)
    BY <1>1, <1>6
  <2>4. DeskRow
    BY DEF SplitInv
  <2> QED  BY <1>1, <1>2, <1>6, <2>1, <2>2, <2>3, <2>4 DEF DeskRow
<1>10. DeskUndoes'
  <2>1. Follows(desk.raw, row["short"])' <=> Follows(desk.raw, row["short"])
    BY <1>1, <1>6 DEF Follows
  <2>2. /\ Left(row["short"].at)' = Left(row["short"].at) /\ Left(desk.raw.at)' = Left(desk.raw.at)
        /\ Worth(row["short"])' = Worth(row["short"]) /\ Worth(desk.raw)' = Worth(desk.raw)
        /\ Worth(orders[desk.id])' = Worth(orders[desk.id])
    BY <1>1, <1>6 DEF Worth
  <2>3. Between(known, orders[desk.id].at, desk.raw.at)' = Between(known, orders[desk.id].at, desk.raw.at)
    BY <1>1 DEF Between
  <2>4. DeskUndoes
    BY DEF SplitInv
  <2> QED  BY <1>1, <2>1, <2>2, <2>3, <2>4 DEF DeskUndoes
<1>11. RoundReads'
  <2>1. Follows(settler.raw, row[settler.side])' <=> Follows(settler.raw, row[settler.side])
    BY <1>1, <1>6 DEF Follows
  <2>2. Its' = Its /\ Left(Its.at)' = Left(Its.at) /\ (Current(row[settler.side])' <=> Current(row[settler.side]))
    BY <1>1, <1>6 DEF Its, Current
  <2>3. RoundReads
    BY DEF SplitInv
  <2> QED  BY <1>1, <1>6, <2>1, <2>2, <2>3 DEF RoundReads
<1> QED  BY <1>3, <1>4, <1>5, <1>8, <1>9, <1>10, <1>11 DEF SplitInv

LEMMA SplitsKept ==
  ASSUME Clean
  PROVE  Spec => []SplitInv
<1>1. Init /\ TypeInv => SplitInv
  BY SplitsAtFirst
<1>2. SplitInv /\ TypeInv' /\ [Next]_vars => SplitInv'
  <2> SUFFICES ASSUME SplitInv, TypeInv', [Next]_vars
               PROVE  SplitInv'
    OBVIOUS
  <2>1. CASE Publish \/ Tick
    BY <2>1, CalendarKeeps
  <2>2. CASE Read \/ Adjust
    BY <2>2, ReaderKeeps
  <2>3. CASE Desk
    BY <2>3, BuyKeeps, LookKeeps, CountKeeps, SellKeeps, AdjustStoredKeeps, InsertShortKeeps,
       ReadShortKeeps, RegisterKeeps, LinkKeeps, ReadUndoKeeps, UndoKeeps
       DEF Desk
  <2>4. CASE Round
    BY <2>4, RoundBeginsKeeps, AdjustHeldKeeps, AdjustOrderKeeps, ExpireKeeps, ReadRowKeeps, FillKeeps
       DEF Round
  <2>5. CASE UNCHANGED vars
    BY <2>5, StutterKeeps
  <2> QED  BY <2>1, <2>2, <2>3, <2>4, <2>5 DEF Next
<1> QED  BY <1>1, <1>2, TypesStay, PTL DEF Spec

(***************************************************************************)
(* Every split is applied exactly once to every share of a position, for   *)
(* every calendar of splits, every number of orders and whatever their     *)
(* interleaving: what a row holds, brought forward to the units of the     *)
(* last day, is what was filled and what is registered                     *)
(* (split_adjust.py:149, 178; paper_broker.py:53, 165).  The record of     *)
(* splits may be missing where no entry is placed beside a position, but   *)
(* it does not go while an operation reads it.                             *)
(***************************************************************************)
THEOREM SplitsAppliedOnce ==
  ASSUME Clean
  PROVE  Spec => []SplitsOnce
<1>1. SplitInv => SplitsOnce
  BY DEF SplitInv
<1> QED  BY <1>1, SplitsKept, PTL

(***************************************************************************)
(* A filled exit closes what was filled when its shares were counted, no   *)
(* less and no more, however many splits go ex between the order and its   *)
(* fill (split_adjust.py:183; pending_short.py:26; paper_broker.py:302).   *)
(***************************************************************************)
THEOREM ExitsCloseAll ==
  ASSUME Clean
  PROVE  Spec => ExitsCloseWhatWasHeld
<1> DEFINE Closes == ~setting.down =>
             \A i \in DOMAIN orders :
               (orders[i].kind \in {"SELL", "SHORT_COVER"} /\ orders[i].status = "pending"
                 /\ orders'[i].status = "filled")
               => net[SideOf(orders[i])] - net'[SideOf(orders[i])] = orders[i].meant
<1>1. SplitInv /\ [Next]_vars => [Closes]_vars
  <2> SUFFICES ASSUME SplitInv, Next, ~setting.down, NEW i \in DOMAIN orders,
                      orders[i].kind \in {"SELL", "SHORT_COVER"}, orders[i].status = "pending",
                      orders'[i].status = "filled"
               PROVE  net[SideOf(orders[i])] - net'[SideOf(orders[i])] = orders[i].meant
    OBVIOUS
  <2>1. TypeInv /\ TypeOK
    BY DEF SplitInv, TypeInv
  <2>2. orders'[i] # orders[i]
    OBVIOUS
  <2>3. CASE Fill
    <3>1. PICK x \in Sides, n \in Nat, left \in Nat, v \in Statuses :
            /\ x = settler.side /\ v # "pending"
            /\ n = IF Its.kind = Exit[x] THEN Min({settler.qty, settler.raw.qty}) ELSE settler.qty
            /\ orders' = [orders EXCEPT ![settler.id].status = v]
            /\ net' = [net EXCEPT ![x] = IF Its.kind = Exit[x] THEN net[x] - n * Ahead
                                         ELSE net[x] + n * Ahead]
      BY <2>3, FillWrites
    <3>2. /\ settler.pc = "write" /\ settler.id \in DOMAIN orders /\ x = SideOf(Its)
          /\ Its.kind = Entry[x] \/ Its.kind = Exit[x]
          /\ Ahead \in Nat \ {0}
      BY <2>3, <3>1, AtFill DEF Fill
    <3>3. i = settler.id
      BY <2>1, <2>2, <3>1, <3>2, StatusChanges
    <3>4. Its = orders[i] /\ Its.kind = Exit[x]
      <4>1. Its = orders[i]
        BY <3>3 DEF Its
      <4>2. Its.kind # Entry[x]
        BY <4>1, KindsOfSides DEF Sides
      <4> QED  BY <3>2, <4>1, <4>2
    <3>5. n * Ahead = Its.meant
      BY <3>1, <3>2, <3>4, ExitFills
    <3>6. net[x] \in Int /\ net'[x] = net[x] - n * Ahead /\ n * Ahead \in Int
      BY <2>1, <3>1, <3>2, <3>4, TypesAtHand
    <3> QED  BY <3>2, <3>4, <3>5, <3>6
  <2>4. CASE Expire
    <3>1. settler.id \in DOMAIN orders
      BY <2>4, AtFill DEF Expire
    <3>2. orders'[i] = orders[i] \/ orders'[i].status = "expired"
      BY <2>1, <2>4, <3>1, StatusChanges DEF Expire, Statuses
    <3> QED  BY <2>2, <3>2
  <2>5. CASE Link
    <3>1. desk.id \in DOMAIN orders
      BY <2>1, <2>5 DEF Link, TypeInv, Sent
    <3>2. orders' = orders \/ orders' = [orders EXCEPT ![desk.id].status = "cancelled"]
      BY <2>5 DEF Link
    <3>3. orders'[i] = orders[i] \/ orders'[i].status = "cancelled"
      BY <2>1, <3>1, <3>2, StatusChanges DEF Statuses
    <3> QED  BY <2>2, <3>3
  <2>6. CASE Buy \/ Sell \/ InsertShort
    <3>1. orders' = orders \/ \E o : orders' = Append(orders, o)
      BY <2>6 DEF Buy, Sell, InsertShort, Insert
    <3>2. \A o : Append(orders, o)[i] = orders[i]
      BY <2>1 DEF TypeOK
    <3> QED  BY <2>2, <3>1, <3>2
  <2>7. CASE UNCHANGED orders
    BY <2>2, <2>7
  <2> QED
    <3>1. Fill \/ Expire \/ Link \/ Buy \/ Sell \/ InsertShort \/ UNCHANGED orders
      BY DEF Next, Publish, Tick, Read, Adjust, Desk, Look, Count, AdjustStored, ReadShort,
             Register, ReadUndo, Undo, Round, BeginRound, EndRound, Take, AdjustHeld, AdjustOrder,
             ReadRow
    <3> QED  BY <2>3, <2>4, <2>5, <2>6, <2>7, <3>1
<1> QED  BY <1>1, SplitsKept, PTL DEF Spec, ExitsCloseWhatWasHeld
=============================================================================
