------------------------------ MODULE SumLemmas ------------------------------
(***************************************************************************)
(* Sums over finite sets, which the books of the paper broker and the      *)
(* shares of its splits are made of.  The community modules' folds are     *)
(* recursive functions chosen by CHOOSE; here a sum is a number of         *)
(* elements, and the fold is shown to be that number.                      *)
(***************************************************************************)
EXTENDS Integers, FiniteSets, FiniteSetTheorems, FunctionTheorems,
        WellFoundedInduction, TLAPS

(* A nonempty collection of subsets of a finite set has a smallest one.     *)
LEMMA SmallestSet ==
  ASSUME NEW S, IsFiniteSet(S), NEW bad \in SUBSET SUBSET S, bad # {}
  PROVE  \E m \in bad : \A s \in bad : s \subseteq m => s = m
<1>1. bad \subseteq FiniteSubsetsOf(S)
  BY FS_FiniteSubsetsOfFinite
<1>2. PICK m \in bad : \A s \in bad : <<s, m>> \notin StrictSubsetOrdering(S)
  BY <1>1, FS_StrictSubsetOrderingWellFounded, WFMin
<1>3. ASSUME NEW s \in bad, s \subseteq m, s # m
      PROVE  FALSE
  <2>1. <<s, m>> \in StrictSubsetOrdering(S)
    BY <1>3 DEF StrictSubsetOrdering
  <2> QED  BY <1>2, <2>1
<1>4. \A s \in bad : s \subseteq m => s = m
  BY <1>3
<1> QED  BY <1>4

(* The sum of f over S without recursion: as many cells as f has units,     *)
(* those above zero less those below.                                       *)
Cells(f, S) == {c \in S \X Nat : 1 <= c[2] /\ c[2] <= f[c[1]]}
Below(f, S) == {c \in S \X Nat : 1 <= c[2] /\ f[c[1]] <= -c[2]}
Total(f, S) == Cardinality(Cells(f, S)) - Cardinality(Below(f, S))

LEMMA ColumnSize ==
  ASSUME NEW x, NEW n \in Int,
         NEW C, C = {c \in {x} \X Nat : 1 <= c[2] /\ c[2] <= n}
  PROVE  IsFiniteSet(C) /\ Cardinality(C) = IF n > 0 THEN n ELSE 0
<1> DEFINE h == [i \in 1 .. n |-> <<x, i>>]
<1>1. \A i \in 1 .. n : i \in Nat /\ 1 <= i /\ i <= n
  OBVIOUS
<1>2. h \in [1 .. n -> C]
  BY <1>1
<1>3. \A i, j \in 1 .. n : h[i] = h[j] => i = j
  OBVIOUS
<1>4. \A c \in C : \E i \in 1 .. n : h[i] = c
  <2> TAKE c \in C
  <2>1. c = <<x, c[2]>> /\ c[2] \in 1 .. n
    OBVIOUS
  <2> QED  BY <2>1
<1>5. IsFiniteSet(1 .. n) /\ Cardinality(1 .. n) = IF n > 0 THEN n ELSE 0
  BY FS_Interval
<1> HIDE DEF h
<1>6. h \in Bijection(1 .. n, C)
  BY <1>2, <1>3, <1>4, Fun_IsBij
<1>7. IsFiniteSet(C) /\ Cardinality(C) = Cardinality(1 .. n)
  BY <1>5, <1>6, FS_Bijection DEF ExistsBijection
<1> QED  BY <1>5, <1>7

LEMMA CellsOfOne ==
  ASSUME NEW f, NEW x, f[x] \in Int
  PROVE  /\ IsFiniteSet(Cells(f, {x})) /\ IsFiniteSet(Below(f, {x}))
         /\ Cardinality(Cells(f, {x})) = IF f[x] > 0 THEN f[x] ELSE 0
         /\ Cardinality(Below(f, {x})) = IF f[x] < 0 THEN -f[x] ELSE 0
<1>1. Cells(f, {x}) = {c \in {x} \X Nat : 1 <= c[2] /\ c[2] <= f[x]}
  BY DEF Cells
<1>2. Below(f, {x}) = {c \in {x} \X Nat : 1 <= c[2] /\ c[2] <= -f[x]}
  BY DEF Below
<1>3. -f[x] \in Int
  OBVIOUS
<1>4. /\ IsFiniteSet(Cells(f, {x}))
      /\ Cardinality(Cells(f, {x})) = IF f[x] > 0 THEN f[x] ELSE 0
  BY <1>1, ColumnSize
<1>5. /\ IsFiniteSet(Below(f, {x}))
      /\ Cardinality(Below(f, {x})) = IF -f[x] > 0 THEN -f[x] ELSE 0
  BY <1>2, <1>3, ColumnSize
<1> QED  BY <1>4, <1>5

IntOn(f, S) == \A x \in S : f[x] \in Int

LEMMA CellsFinite ==
  ASSUME NEW S, IsFiniteSet(S), NEW f, IntOn(f, S)
  PROVE  IsFiniteSet(Cells(f, S)) /\ IsFiniteSet(Below(f, S))
<1> DEFINE Good(s) == IsFiniteSet(Cells(f, s)) /\ IsFiniteSet(Below(f, s))
           bad == {s \in SUBSET S : ~Good(s)}
<1>1. bad \in SUBSET SUBSET S
  OBVIOUS
<1>2. ASSUME NEW m \in bad, \A s \in bad : s \subseteq m => s = m
      PROVE  FALSE
  <2>1. CASE m = {}
    <3>1. Cells(f, m) = {} /\ Below(f, m) = {}
      BY <2>1 DEF Cells, Below
    <3> QED  BY <1>2, <3>1, FS_EmptySet
  <2>2. CASE m # {}
    <3>1. PICK x \in m : f[x] \in Int
      BY <1>2, <2>2 DEF IntOn
    <3>2. Good(m \ {x})
      BY <1>2, <3>1
    <3>3. Good({x})
      BY <3>1, CellsOfOne
    <3>4. /\ Cells(f, m) = Cells(f, m \ {x}) \union Cells(f, {x})
          /\ Below(f, m) = Below(f, m \ {x}) \union Below(f, {x})
      BY <3>1 DEF Cells, Below
    <3>5. Good(m)
      BY <3>2, <3>3, <3>4, FS_Union
    <3> QED  BY <1>2, <3>5
  <2> QED  BY <2>1, <2>2
<1> HIDE DEF bad
<1>3. bad = {}
  BY <1>1, <1>2, SmallestSet
<1>4. Good(S)
  BY <1>3 DEF bad
<1> QED  BY <1>4

LEMMA TotalInt ==
  ASSUME NEW S, IsFiniteSet(S), NEW f, IntOn(f, S)
  PROVE  Total(f, S) \in Int
BY CellsFinite, FS_CardinalityType DEF Total

LEMMA TotalEmpty == \A f : Total(f, {}) = 0
<1> TAKE f
<1>1. Cells(f, {}) = {} /\ Below(f, {}) = {}
  BY DEF Cells, Below
<1>2. Cardinality({}) = 0
  BY FS_EmptySet
<1> QED  BY <1>1, <1>2 DEF Total

LEMMA TotalUnion ==
  ASSUME NEW A, NEW B, IsFiniteSet(A), IsFiniteSet(B), A \intersect B = {},
         NEW f, IntOn(f, A \union B)
  PROVE  Total(f, A \union B) = Total(f, A) + Total(f, B)
<1> DEFINE ca == Cells(f, A)
           cb == Cells(f, B)
           ba == Below(f, A)
           bb == Below(f, B)
<1>1. /\ Cells(f, A \union B) = ca \union cb /\ ca \intersect cb = {}
      /\ Below(f, A \union B) = ba \union bb /\ ba \intersect bb = {}
  BY DEF Cells, Below
<1>2. IsFiniteSet(ca) /\ IsFiniteSet(cb) /\ IsFiniteSet(ba) /\ IsFiniteSet(bb)
  BY CellsFinite DEF IntOn
<1> HIDE DEF ca, cb, ba, bb
<1>3. /\ Cardinality(ca \union cb) = Cardinality(ca) + Cardinality(cb) - Cardinality({})
      /\ Cardinality(ba \union bb) = Cardinality(ba) + Cardinality(bb) - Cardinality({})
  BY <1>1, <1>2, FS_Union
<1>4. /\ Cardinality(ca) \in Nat /\ Cardinality(cb) \in Nat
      /\ Cardinality(ba) \in Nat /\ Cardinality(bb) \in Nat
      /\ Cardinality({}) = 0
  BY <1>2, FS_CardinalityType, FS_EmptySet
<1>5. /\ Total(f, A \union B) = Cardinality(ca \union cb) - Cardinality(ba \union bb)
      /\ Total(f, A) = Cardinality(ca) - Cardinality(ba)
      /\ Total(f, B) = Cardinality(cb) - Cardinality(bb)
  BY <1>1 DEF Total, ca, cb, ba, bb
<1> QED  BY <1>3, <1>4, <1>5

LEMMA TotalOne ==
  ASSUME NEW x, NEW f, f[x] \in Int
  PROVE  Total(f, {x}) = f[x]
BY CellsOfOne DEF Total

LEMMA TotalAdd ==
  ASSUME NEW S, IsFiniteSet(S), NEW x, x \notin S, NEW f, IntOn(f, S), f[x] \in Int
  PROVE  Total(f, S \union {x}) = Total(f, S) + f[x]
<1>1. IsFiniteSet({x}) /\ S \intersect {x} = {} /\ IntOn(f, S \union {x})
  BY FS_Singleton DEF IntOn
<1> QED  BY <1>1, TotalUnion, TotalOne

LEMMA TotalSame ==
  ASSUME NEW S, NEW f, NEW g, \A x \in S : f[x] = g[x]
  PROVE  Total(f, S) = Total(g, S)
<1>1. Cells(f, S) = Cells(g, S) /\ Below(f, S) = Below(g, S)
  BY DEF Cells, Below
<1> QED  BY <1>1 DEF Total

LEMMA TotalNat ==
  ASSUME NEW S, IsFiniteSet(S), NEW f, \A x \in S : f[x] \in Nat
  PROVE  Total(f, S) \in Nat
<1>1. Below(f, S) = {}
  BY DEF Below
<1>2. IsFiniteSet(Cells(f, S))
  BY CellsFinite DEF IntOn
<1> QED  BY <1>1, <1>2, FS_CardinalityType, FS_EmptySet DEF Total

(* What MapThenSumSet iterates, and that it comes to the same.              *)
Iterates(g, f, S) ==
  g = [s \in SUBSET S |->
         IF s = {} THEN 0
         ELSE f[CHOOSE x \in s : TRUE] + g[s \ {CHOOSE x \in s : TRUE}]]

LEMMA TotalIterates ==
  ASSUME NEW S, IsFiniteSet(S), NEW f, IntOn(f, S)
  PROVE  Iterates([s \in SUBSET S |-> Total(f, s)], f, S)
<1> DEFINE g == [s \in SUBSET S |-> Total(f, s)]
<1>1. ASSUME NEW s \in SUBSET S
      PROVE  g[s] = IF s = {} THEN 0
                    ELSE f[CHOOSE x \in s : TRUE] + g[s \ {CHOOSE x \in s : TRUE}]
  <2>1. CASE s = {}
    BY <2>1, TotalEmpty
  <2>2. CASE s # {}
    <3> DEFINE x == CHOOSE x \in s : TRUE
               r == s \ {x}
    <3>1. x \in s
      BY <2>2
    <3> HIDE DEF x
    <3>2. IsFiniteSet(r) /\ x \notin r /\ IntOn(f, r) /\ f[x] \in Int /\ s = r \union {x}
      BY <3>1, FS_Subset DEF IntOn
    <3>3. Total(f, s) = Total(f, r) + f[x] /\ Total(f, r) \in Int
      BY <3>2, TotalAdd, TotalInt
    <3>4. g[s] = f[x] + g[r]
      BY <3>2, <3>3
    <3> QED  BY <2>2, <3>4 DEF x
  <2> QED  BY <2>1, <2>2
<1> HIDE DEF g
<1>2. g = [s \in SUBSET S |->
         IF s = {} THEN 0
         ELSE f[CHOOSE x \in s : TRUE] + g[s \ {CHOOSE x \in s : TRUE}]]
  <2>1. DOMAIN g = SUBSET S /\ g = [s \in SUBSET S |-> g[s]]
    BY DEF g
  <2> QED  BY <1>1, <2>1
<1> QED  BY <1>2 DEF Iterates, g

LEMMA IteratesIsTotal ==
  ASSUME NEW S, IsFiniteSet(S), NEW f, IntOn(f, S), NEW g, Iterates(g, f, S)
  PROVE  g[S] = Total(f, S)
<1> DEFINE bad == {s \in SUBSET S : g[s] # Total(f, s)}
<1>1. bad \in SUBSET SUBSET S
  OBVIOUS
<1>2. ASSUME NEW m \in bad, \A s \in bad : s \subseteq m => s = m
      PROVE  FALSE
  <2>1. g[m] = IF m = {} THEN 0
               ELSE f[CHOOSE x \in m : TRUE] + g[m \ {CHOOSE x \in m : TRUE}]
    BY DEF Iterates
  <2>2. CASE m = {}
    BY <2>1, <2>2, TotalEmpty
  <2>3. CASE m # {}
    <3> DEFINE x == CHOOSE x \in m : TRUE
               r == m \ {x}
    <3>1. x \in m
      BY <2>3
    <3>2. g[m] = f[x] + g[r]
      BY <2>1, <2>3
    <3> HIDE DEF x
    <3>3. IsFiniteSet(r) /\ x \notin r /\ IntOn(f, r) /\ f[x] \in Int /\ m = r \union {x}
      BY <3>1, FS_Subset DEF IntOn
    <3>4. g[r] = Total(f, r)
      BY <1>2, <3>1
    <3>5. Total(f, m) = Total(f, r) + f[x] /\ Total(f, r) \in Int
      BY <3>3, TotalAdd, TotalInt
    <3> QED  BY <1>2, <3>2, <3>3, <3>4, <3>5
  <2> QED  BY <2>2, <2>3
<1> HIDE DEF bad
<1>3. bad = {}
  BY <1>1, <1>2, SmallestSet
<1> QED  BY <1>3 DEF bad

(* One more element, whatever the others were computed from.                *)
LEMMA TotalGrows ==
  ASSUME NEW S, IsFiniteSet(S), NEW x, x \notin S, NEW f, NEW g, IntOn(f, S),
         \A y \in S : g[y] = f[y], g[x] \in Int
  PROVE  Total(g, S \union {x}) = Total(f, S) + g[x]
<1>1. IntOn(g, S)
  BY DEF IntOn
<1>2. Total(g, S) = Total(f, S)
  BY TotalSame
<1> QED  BY <1>1, <1>2, TotalAdd

(* One value of many changes.                                               *)
LEMMA TotalChanges ==
  ASSUME NEW S, IsFiniteSet(S), NEW x \in S, NEW f, NEW g, IntOn(f, S), g[x] \in Int,
         \A y \in S : y # x => g[y] = f[y]
  PROVE  Total(g, S) = Total(f, S) - f[x] + g[x]
<1> DEFINE r == S \ {x}
<1>1. IsFiniteSet(r) /\ x \notin r /\ S = r \union {x} /\ IntOn(f, r) /\ f[x] \in Int
  BY FS_RemoveElement DEF IntOn
<1>2. \A y \in r : g[y] = f[y]
  OBVIOUS
<1> HIDE DEF r
<1>3. Total(f, S) = Total(f, r) + f[x] /\ Total(f, r) \in Int
  BY <1>1, TotalAdd, TotalInt
<1>4. Total(g, r \union {x}) = Total(f, r) + g[x]
  <2>1. IsFiniteSet(r) /\ x \notin r /\ IntOn(f, r)
    BY <1>1
  <2> QED  BY <1>2, <2>1, TotalGrows
<1> QED  BY <1>1, <1>3, <1>4

(* A sum of values that are each multiplied by k is k times the sum.        *)
LEMMA TotalScales ==
  ASSUME NEW S, IsFiniteSet(S), NEW f, NEW g, NEW k \in Int, IntOn(f, S),
         \A x \in S : g[x] = f[x] * k
  PROVE  Total(g, S) = Total(f, S) * k
<1> DEFINE bad == {s \in SUBSET S : Total(g, s) # Total(f, s) * k}
<1>1. bad \in SUBSET SUBSET S
  OBVIOUS
<1>2. ASSUME NEW m \in bad, \A s \in bad : s \subseteq m => s = m
      PROVE  FALSE
  <2>1. CASE m = {}
    <3>1. Total(g, m) = 0 /\ Total(f, m) = 0
      BY <2>1, TotalEmpty
    <3> QED  BY <1>2, <3>1
  <2>2. CASE m # {}
    <3>1. PICK x \in m : TRUE
      BY <2>2
    <3> DEFINE r == m \ {x}
    <3>2. Total(g, r) = Total(f, r) * k
      BY <1>2, <3>1
    <3>3. /\ IsFiniteSet(r) /\ x \notin r /\ IntOn(f, r) /\ f[x] \in Int /\ m = r \union {x}
          /\ g[x] = f[x] * k /\ \A y \in r : g[y] = f[y] * k
      BY <1>2, <3>1, FS_Subset DEF IntOn
    <3>4. \A a, b \in Int : a * b \in Int /\ (a + b) * k = a * k + b * k
      OBVIOUS
    <3> HIDE DEF r
    <3>5. IntOn(g, r) /\ g[x] \in Int
      BY <3>3, <3>4 DEF IntOn
    <3>6. Total(f, m) = Total(f, r) + f[x] /\ Total(f, r) \in Int
      BY <3>3, TotalAdd, TotalInt
    <3>7. Total(g, m) = Total(g, r) + g[x]
      BY <3>3, <3>5, TotalAdd
    <3>8. Total(g, m) = Total(f, m) * k
      BY <3>2, <3>3, <3>4, <3>6, <3>7
    <3> QED  BY <1>2, <3>8
  <2> QED  BY <2>1, <2>2
<1> HIDE DEF bad
<1>3. bad = {}
  BY <1>1, <1>2, SmallestSet
<1> QED  BY <1>3 DEF bad

(* A part is no more than the whole.                                        *)
LEMMA TotalBounds ==
  ASSUME NEW S, IsFiniteSet(S), NEW f, \A y \in S : f[y] \in Nat, NEW x \in S
  PROVE  f[x] <= Total(f, S) /\ Total(f, S \ {x}) = Total(f, S) - f[x]
<1> DEFINE r == S \ {x}
<1>1. /\ IsFiniteSet(r) /\ x \notin r /\ S = r \union {x} /\ IntOn(f, r)
      /\ f[x] \in Nat /\ \A y \in r : f[y] \in Nat
  BY FS_RemoveElement DEF IntOn
<1> HIDE DEF r
<1>2. Total(f, S) = Total(f, r) + f[x] /\ Total(f, r) \in Nat
  BY <1>1, TotalAdd, TotalNat
<1> QED  BY <1>1, <1>2 DEF r
=============================================================================
