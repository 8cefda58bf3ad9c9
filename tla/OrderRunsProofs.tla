--------------------------- MODULE OrderRunsProofs ---------------------------
(***************************************************************************)
(* Proofs about the jobs that place orders, for any symbols and bounds:    *)
(* the types, the limit of an evening's buys, and, when no order is        *)
(* settled while a run of the morning is at work, the cap on positions,    *)
(* the sides kept apart, the exits that a run owes when it ends well and,  *)
(* when the reads do not fail, the single exit.                            *)
(***************************************************************************)
EXTENDS OrderRuns, FiniteSetTheorems, TLAPS

-----------------------------------------------------------------------------
(* Types *)

\* Any local variable may be given a value of its type
LEMMA SetLocal ==
  /\ \A j \in Jobs, v \in Places : [j EXCEPT !.pc = v] \in Jobs
  /\ \A j \in Jobs, v \in Steps : [j EXCEPT !.step = v] \in Jobs
  /\ \A j \in Jobs, v \in SUBSET Slots :
        /\ [j EXCEPT !.todo = v] \in Jobs
        /\ [j EXCEPT !.cur = v] \in Jobs
        /\ [j EXCEPT !.seen = v] \in Jobs
        /\ [j EXCEPT !.sent = v] \in Jobs
        /\ [j EXCEPT !.struck = v] \in Jobs
        /\ [j EXCEPT !.lame = v] \in Jobs
  /\ \A j \in Jobs, v \in SUBSET Symbols :
        /\ [j EXCEPT !.held = v] \in Jobs
        /\ [j EXCEPT !.claimed = v] \in Jobs
        /\ [j EXCEPT !.rows = v] \in Jobs
        /\ [j EXCEPT !.owned = v] \in Jobs
  /\ \A j \in Jobs, v \in [Symbols -> Scores] : [j EXCEPT !.score = v] \in Jobs
  /\ \A j \in Jobs, v \in BOOLEAN :
        /\ [j EXCEPT !.open = v] \in Jobs
        /\ [j EXCEPT !.corr = v] \in Jobs
        /\ [j EXCEPT !.only = v] \in Jobs
        /\ [j EXCEPT !.bad = v] \in Jobs
  /\ \A j \in Jobs, v \in Nat :
        /\ [j EXCEPT !.count = v] \in Jobs
        /\ [j EXCEPT !.placed = v] \in Jobs
  <1>1. \A j \in Jobs, v \in Places : [j EXCEPT !.pc = v] \in Jobs
    BY DEF Jobs
  <1>2. \A j \in Jobs, v \in Steps : [j EXCEPT !.step = v] \in Jobs
    BY DEF Jobs
  <1>3. \A j \in Jobs, v \in SUBSET Slots :
          /\ [j EXCEPT !.todo = v] \in Jobs
          /\ [j EXCEPT !.cur = v] \in Jobs
          /\ [j EXCEPT !.seen = v] \in Jobs
    BY DEF Jobs
  <1>4. \A j \in Jobs, v \in SUBSET Slots :
          /\ [j EXCEPT !.sent = v] \in Jobs
          /\ [j EXCEPT !.struck = v] \in Jobs
          /\ [j EXCEPT !.lame = v] \in Jobs
    BY DEF Jobs
  <1>5. \A j \in Jobs, v \in SUBSET Symbols :
          /\ [j EXCEPT !.held = v] \in Jobs
          /\ [j EXCEPT !.claimed = v] \in Jobs
    BY DEF Jobs
  <1>6. \A j \in Jobs, v \in SUBSET Symbols :
          /\ [j EXCEPT !.rows = v] \in Jobs
          /\ [j EXCEPT !.owned = v] \in Jobs
    BY DEF Jobs
  <1>7. \A j \in Jobs, v \in [Symbols -> Scores] : [j EXCEPT !.score = v] \in Jobs
    BY DEF Jobs
  <1>8. \A j \in Jobs, v \in BOOLEAN :
          /\ [j EXCEPT !.open = v] \in Jobs
          /\ [j EXCEPT !.corr = v] \in Jobs
    BY DEF Jobs
  <1>9. \A j \in Jobs, v \in BOOLEAN :
          /\ [j EXCEPT !.only = v] \in Jobs
          /\ [j EXCEPT !.bad = v] \in Jobs
    BY DEF Jobs
  <1>10. \A j \in Jobs, v \in Nat :
          /\ [j EXCEPT !.count = v] \in Jobs
          /\ [j EXCEPT !.placed = v] \in Jobs
    BY DEF Jobs
  <1> QED BY ONLY <1>1, <1>2, <1>3, <1>4, <1>5, <1>6, <1>7, <1>8, <1>9, <1>10

LEMMA IdleType == Idle \in Jobs
  BY Zenon DEF Idle, Jobs, Places, Steps, Scores

\* The types of the fields, without the record
LEMMA Locals ==
  ASSUME NEW j \in Jobs
  PROVE  /\ j.pc \in Places /\ j.step \in Steps
         /\ j.todo \subseteq Slots /\ j.cur \subseteq Slots /\ j.seen \subseteq Slots
         /\ j.sent \subseteq Slots /\ j.struck \subseteq Slots
         /\ j.lame \subseteq Slots
         /\ j.held \subseteq Symbols /\ j.claimed \subseteq Symbols
         /\ j.rows \subseteq Symbols /\ j.owned \subseteq Symbols
         /\ j.score \in [Symbols -> Scores]
         /\ j.open \in BOOLEAN /\ j.corr \in BOOLEAN
         /\ j.only \in BOOLEAN /\ j.bad \in BOOLEAN
         /\ j.count \in Nat /\ j.placed \in Nat
  BY DEF Jobs

\* A step of run r that leaves the others' variables
Moves(r) ==
  /\ job' \in [Runs -> Jobs]
  /\ \A q \in Runs \ {r} : job'[q] = job[q]

LEMMA Moved ==
  ASSUME job \in [Runs -> Jobs], NEW r \in Runs, NEW j \in Jobs, job' = [job EXCEPT ![r] = j]
  PROVE  Moves(r) /\ job'[r] = j
  BY DEF Moves

\* What is counted is finite
LEMMA Finite ==
  ASSUME OrderAssumption
  PROVE  /\ \A S \in SUBSET Symbols : IsFiniteSet(S)
         /\ \A S \in SUBSET Slots : IsFiniteSet(S)
  <1>1. IsFiniteSet({"long", "short"})
    <2>1. IsFiniteSet({}) BY FS_EmptySet
    <2>2. IsFiniteSet({} \cup {"long"}) BY <2>1, FS_AddElement
    <2>3. IsFiniteSet(({} \cup {"long"}) \cup {"short"}) BY <2>2, FS_AddElement
    <2>4. {"long", "short"} = ({} \cup {"long"}) \cup {"short"} OBVIOUS
    <2> QED BY <2>3, <2>4
  <1>2. IsFiniteSet(Slots)
    BY <1>1, FS_Product DEF Slots, OrderAssumption
  <1>3. \A S \in SUBSET Symbols : IsFiniteSet(S)
    BY FS_Subset DEF OrderAssumption
  <1>4. \A S \in SUBSET Slots : IsFiniteSet(S)
    BY <1>2, FS_Subset
  <1> QED BY <1>3, <1>4

LEMMA Counts ==
  ASSUME OrderAssumption
  PROVE  /\ \A S \in SUBSET Symbols : Cardinality(S) \in Nat
         /\ \A S \in SUBSET Slots : Cardinality(S) \in Nat
  BY Finite, FS_CardinalityType

LEMMA Subsets ==
  /\ Longs \subseteq Symbols /\ PendingBuys \subseteq Symbols
  /\ ShortRows \subseteq Symbols /\ Waiting \subseteq Slots
  BY DEF Longs, PendingBuys, ShortRows, Waiting

LEMMA DoStart ==
  ASSUME OrderAssumption, TypeOK, NEW r \in Runs, Start(r)
  PROVE  /\ Moves(r)
         /\ job'[r].pc = IF r = "rule" THEN "read" ELSE "lock"
  <1>1. /\ job' = [job EXCEPT ![r].pc = IF r = "rule" THEN "read" ELSE "lock"]
    BY DEF Start
  <1> DEFINE j == [job[r] EXCEPT !.pc = IF r = "rule" THEN "read" ELSE "lock"]
  <1>2. job' = [job EXCEPT ![r] = j]
    BY <1>1
  <1>3. j \in Jobs
    <2>1. (IF r = "rule" THEN "read" ELSE "lock") \in Places
      BY <1>1, Locals, Counts, Subsets DEF TypeOK, Works, Places, Steps
    <2> QED BY <2>1, SetLocal DEF TypeOK
  <1>4. Moves(r) /\ job'[r] = j
    <2> HIDE DEF j
    <2> QED BY <1>2, <1>3, Moved DEF TypeOK
  <1> HIDE DEF j
  <1> QED BY <1>1, <1>4, Subsets DEF TypeOK

LEMMA DoListExpired ==
  ASSUME OrderAssumption, TypeOK, NEW r \in Runs, ListExpired(r)
  PROVE  /\ Moves(r)
         /\ job'[r].pc = "send" /\ job'[r].step = "expired"
         /\ {"due", "pending"} \cap Faults = {} => job'[r].todo = {x \in Slots : pos[x] = "due"} \ Waiting
  <1>1. PICK ok \in Works("due"), shorts \in Works("due"), pend \in Works("pending"),
             lame \in Lame("due") :
        /\ LET seen == IF pend THEN Waiting ELSE {}
               due == IF ok THEN {x \in Slots : pos[x] = "due"} \ seen ELSE {}
               unread == IF shorts THEN {} ELSE {x \in due : x[1] = "short"}
           IN job' = [job EXCEPT ![r].pc = "send",
               ![r].step = "expired",
               ![r].todo = due \ (unread \cup lame),
               ![r].lame = lame,
               ![r].bad = ~ok \/ unread # {}]
    BY DEF ListExpired
  <1> DEFINE seen == IF pend THEN Waiting ELSE {}
             due == IF ok THEN {x \in Slots : pos[x] = "due"} \ seen ELSE {}
             unread == IF shorts THEN {} ELSE {x \in due : x[1] = "short"}
  <1> DEFINE j == [job[r] EXCEPT !.pc = "send",
               !.step = "expired",
               !.todo = due \ (unread \cup lame),
               !.lame = lame,
               !.bad = ~ok \/ unread # {}]
  <1>2. job' = [job EXCEPT ![r] = j]
    BY <1>1
  <1>3. j \in Jobs
    <2>1. ("send") \in Places
      BY DEF Places
    <2>2. ("expired") \in Steps
      BY DEF Steps
    <2>3. due \ (unread \cup lame) \in SUBSET Slots /\ lame \in SUBSET Slots
      BY DEF Lame
    <2>4. (~ok \/ unread # {}) \in BOOLEAN
      OBVIOUS
    <2> HIDE DEF unread, due
    <2> QED BY <2>1, <2>2, <2>3, <2>4, SetLocal DEF TypeOK
  <1>4. Moves(r) /\ job'[r] = j
    <2> HIDE DEF j
    <2> QED BY <1>2, <1>3, Moved DEF TypeOK
  <1>5. ASSUME {"due", "pending"} \cap Faults = {}
        PROVE  job'[r].todo = {x \in Slots : pos[x] = "due"} \ Waiting
    <2>1. ok = TRUE /\ shorts = TRUE /\ pend = TRUE /\ lame = {}
      BY <1>5 DEF Works, Lame
    <2>2. seen = Waiting /\ due = {x \in Slots : pos[x] = "due"} \ Waiting /\ unread = {}
      BY <2>1
    <2> HIDE DEF seen, due, unread
    <2>3. job'[r].todo = due \ (unread \cup lame)
      BY <1>4 DEF TypeOK, Jobs
    <2> QED BY <2>1, <2>2, <2>3
  <1>6. job'[r].pc = "send" /\ job'[r].step = "expired"
    <2> HIDE DEF seen, due, unread
    <2> QED BY <1>4 DEF TypeOK, Jobs
  <1> QED BY <1>4, <1>5, <1>6

LEMMA DoGate ==
  ASSUME OrderAssumption, TypeOK, NEW r \in Runs, Gate(r)
  PROVE  /\ Moves(r)
         /\ job'[r].pc = "predict"
  <1>1. PICK ok \in Works("gate"), pass \in BOOLEAN :
        /\ job' = [job EXCEPT ![r].pc = "predict",
               ![r].open = ok /\ pass /\ Room,
               ![r].corr = ok,
               ![r].bad = @ \/ ~ok]
    BY DEF Gate
  <1> DEFINE j == [job[r] EXCEPT !.pc = "predict",
               !.open = ok /\ pass /\ Room,
               !.corr = ok,
               !.bad = job[r].bad \/ ~ok]
  <1>2. job' = [job EXCEPT ![r] = j]
    BY <1>1
  <1>3. j \in Jobs
    <2>1. ("predict") \in Places
      BY DEF Places
    <2>2. (ok /\ pass /\ Room) \in BOOLEAN
      BY <1>1, Locals, Counts, Subsets DEF TypeOK, Works, Places, Steps, Room
    <2>3. (ok) \in BOOLEAN
      BY <1>1, Locals, Counts, Subsets DEF TypeOK, Works, Places, Steps, Room
    <2>4. (job[r].bad \/ ~ok) \in BOOLEAN
      BY <1>1, Locals, Counts, Subsets DEF TypeOK, Works, Places, Steps, Room
    <2> QED BY <2>1, <2>2, <2>3, <2>4, SetLocal DEF TypeOK
  <1>4. Moves(r) /\ job'[r] = j
    <2> HIDE DEF j
    <2> QED BY <1>2, <1>3, Moved DEF TypeOK
  <1> HIDE DEF j
  <1> QED BY <1>1, <1>4, Subsets DEF TypeOK

LEMMA DoPredict ==
  ASSUME OrderAssumption, TypeOK, NEW r \in Runs, Predict(r)
  PROVE  /\ Moves(r)
         /\ \/ job'[r].pc = "survey" /\ job'[r].held = Longs
            \/ job'[r].pc = "stops" /\ job'[r].only = TRUE
  <1>1. CASE \E score \in [Symbols -> Scores] :
               job' = [job EXCEPT ![r].pc = "survey", ![r].score = score, ![r].held = Longs]
    <2>1. PICK score \in [Symbols -> Scores] :
            job' = [job EXCEPT ![r].pc = "survey", ![r].score = score, ![r].held = Longs]
      BY <1>1
    <2> DEFINE j == [job[r] EXCEPT !.pc = "survey", !.score = score, !.held = Longs]
    <2>2. job' = [job EXCEPT ![r] = j]
      BY <2>1
    <2>3. "survey" \in Places
      BY DEF Places
    <2>4. j \in Jobs
      BY <2>3, Subsets, SetLocal DEF TypeOK
    <2>5. Moves(r)
      <3> HIDE DEF j
      <3> QED BY <2>2, <2>4, Moved DEF TypeOK
    <2> HIDE DEF j
    <2> QED BY <2>1, <2>5 DEF TypeOK
  <1>2. CASE \E ok \in Works("predict") :
               job' = [job EXCEPT ![r].pc = "stops", ![r].only = TRUE, ![r].bad = @ \/ ~ok]
    <2>1. PICK ok \in Works("predict") :
            job' = [job EXCEPT ![r].pc = "stops", ![r].only = TRUE, ![r].bad = @ \/ ~ok]
      BY <1>2
    <2> DEFINE j == [job[r] EXCEPT !.pc = "stops", !.only = TRUE, !.bad = job[r].bad \/ ~ok]
    <2>2. job' = [job EXCEPT ![r] = j]
      BY <2>1
    <2>3. "stops" \in Places /\ (job[r].bad \/ ~ok) \in BOOLEAN
      BY DEF Places
    <2>4. j \in Jobs
      BY <2>3, SetLocal DEF TypeOK
    <2>5. Moves(r)
      <3> HIDE DEF j
      <3> QED BY <2>2, <2>4, Moved DEF TypeOK
    <2> HIDE DEF j
    <2> QED BY <2>1, <2>5 DEF TypeOK
  <1> QED BY <1>1, <1>2 DEF Predict

LEMMA DoSurvey ==
  ASSUME OrderAssumption, TypeOK, NEW r \in Runs, Survey(r)
  PROVE  /\ Moves(r)
         /\ job'[r].pc = "stops"
         /\ job'[r].open => job'[r].claimed = job[r].held \cup PendingBuys
  <1>1. PICK ok \in Works("buys"), corr \in BOOLEAN, usable \in BOOLEAN :
        /\ LET read == ok /\ job[r].corr
           IN job' = [job EXCEPT ![r].pc = "stops",
               ![r].corr = read /\ corr,
               ![r].open = @ /\ read /\ usable,
               ![r].claimed = job[r].held \cup (IF read THEN PendingBuys ELSE {}),
               ![r].bad = @ \/ ~read]
    BY DEF Survey
  <1> DEFINE read == ok /\ job[r].corr
  <1> DEFINE j == [job[r] EXCEPT !.pc = "stops",
               !.corr = read /\ corr,
               !.open = job[r].open /\ read /\ usable,
               !.claimed = job[r].held \cup (IF read THEN PendingBuys ELSE {}),
               !.bad = job[r].bad \/ ~read]
  <1>2. job' = [job EXCEPT ![r] = j]
    BY <1>1
  <1>3. j \in Jobs
    <2>1. ("stops") \in Places
      BY DEF Places
    <2>2. (read /\ corr) \in BOOLEAN
      BY <1>1, Locals, Counts, Subsets DEF TypeOK, Works, Places, Steps
    <2>3. (job[r].open /\ read /\ usable) \in BOOLEAN
      BY <1>1, Locals, Counts, Subsets DEF TypeOK, Works, Places, Steps
    <2>4. (job[r].held \cup (IF read THEN PendingBuys ELSE {})) \in SUBSET Symbols
      BY <1>1, Locals, Counts, Subsets DEF TypeOK, Works, Places, Steps
    <2>5. (job[r].bad \/ ~read) \in BOOLEAN
      BY <1>1, Locals, Counts, Subsets DEF TypeOK, Works, Places, Steps
    <2> QED BY <2>1, <2>2, <2>3, <2>4, <2>5, SetLocal DEF TypeOK
  <1>4. Moves(r) /\ job'[r] = j
    <2> HIDE DEF j
    <2> QED BY <1>2, <1>3, Moved DEF TypeOK
  <1>5. /\ job'[r].pc = "stops" /\ job'[r].open = (job[r].open /\ read /\ usable)
        /\ job'[r].claimed = job[r].held \cup (IF read THEN PendingBuys ELSE {})
    <2> HIDE DEF read
    <2> QED BY <1>4 DEF TypeOK, Jobs
  <1> HIDE DEF read
  <1> QED BY <1>4, <1>5

LEMMA DoListStops ==
  ASSUME OrderAssumption, TypeOK, NEW r \in Runs, ListStops(r)
  PROVE  /\ Moves(r)
         /\ job'[r].pc = "send" /\ job'[r].step = "stops"
         /\ job'[r].open = job[r].open /\ job'[r].claimed = job[r].claimed
         /\ ~job'[r].only => ~job[r].only
         /\ "pending" \notin Faults => job'[r].todo \cap Waiting = {}
  <1>1. PICK shorts \in Works("shorts"), pend \in Works("pending"),
           struck \in SUBSET {x \in Slots : pos[x] # "none"} :
        /\ job' = [job EXCEPT ![r].pc = "send",
               ![r].step = "stops",
               ![r].todo = {x \in struck : x[1] = "long" \/ shorts} \ (IF pend THEN Waiting ELSE {}),
               ![r].struck = struck,
               ![r].only = @ \/ ~shorts,
               ![r].bad = @ \/ ~shorts]
    BY DEF ListStops
  <1> DEFINE j == [job[r] EXCEPT !.pc = "send",
               !.step = "stops",
               !.todo = {x \in struck : x[1] = "long" \/ shorts} \ (IF pend THEN Waiting ELSE {}),
               !.struck = struck,
               !.only = job[r].only \/ ~shorts,
               !.bad = job[r].bad \/ ~shorts]
  <1>2. job' = [job EXCEPT ![r] = j]
    BY <1>1
  <1>3. j \in Jobs
    <2>1. ("send") \in Places
      BY DEF Places
    <2>2. ("stops") \in Steps
      BY DEF Steps
    <2>3. ({x \in struck : x[1] = "long" \/ shorts} \ (IF pend THEN Waiting ELSE {})) \in SUBSET Slots
      BY <1>1, Locals, Counts, Subsets DEF TypeOK, Works, Places, Steps
    <2>4. (struck) \in SUBSET Slots
      BY <1>1, Locals, Counts, Subsets DEF TypeOK, Works, Places, Steps
    <2>5. (job[r].only \/ ~shorts) \in BOOLEAN
      BY <1>1, Locals, Counts, Subsets DEF TypeOK, Works, Places, Steps
    <2>6. (job[r].bad \/ ~shorts) \in BOOLEAN
      BY <1>1, Locals, Counts, Subsets DEF TypeOK, Works, Places, Steps
    <2> QED BY <2>1, <2>2, <2>3, <2>4, <2>5, <2>6, SetLocal DEF TypeOK
  <1>4. Moves(r) /\ job'[r] = j
    <2> HIDE DEF j
    <2> QED BY <1>2, <1>3, Moved DEF TypeOK
  <1>5. /\ job'[r].pc = "send" /\ job'[r].step = "stops"
        /\ job'[r].open = job[r].open /\ job'[r].claimed = job[r].claimed
        /\ job'[r].only = (job[r].only \/ ~shorts)
        /\ job'[r].todo = {x \in struck : x[1] = "long" \/ shorts} \ (IF pend THEN Waiting ELSE {})
    BY <1>4 DEF TypeOK, Jobs
  <1>6. job[r].only \in BOOLEAN
    BY Locals DEF TypeOK
  <1>7. ASSUME "pending" \notin Faults PROVE pend = TRUE
    BY <1>1, <1>7 DEF Works
  <1>8. "pending" \notin Faults => job'[r].todo \cap Waiting = {}
    BY <1>5, <1>7
  <1> HIDE DEF j
  <1> QED BY <1>4, <1>5, <1>6, <1>8

LEMMA DoListSells ==
  ASSUME OrderAssumption, TypeOK, NEW r \in Runs, ListSells(r)
  PROVE  /\ Moves(r)
         /\ job'[r].pc = "send" /\ job'[r].step = "sells"
         /\ job'[r].open = job[r].open /\ job'[r].claimed = job[r].claimed /\ job'[r].only = job[r].only
         /\ \A x \in job'[r].todo : x[1] = "long"
         /\ "pending" \notin Faults => job'[r].todo \cap Waiting = {} /\ job'[r].seen = Waiting
  <1>1. PICK pend \in Works("pending"), picked \in SUBSET {<<"long", s>> : s \in job[r].held \cap Longs} :
        /\ LET seen == IF pend THEN Waiting ELSE {}
               sells == {x \in picked : \A y \in job[r].sent : y[2] # x[2]}
           IN job' = [job EXCEPT ![r].pc = "send",
               ![r].step = "sells",
               ![r].seen = seen,
               ![r].todo = sells \ seen,
               ![r].struck = @ \cup sells]
    BY DEF ListSells
  <1> DEFINE seen == IF pend THEN Waiting ELSE {}
             sells == {x \in picked : \A y \in job[r].sent : y[2] # x[2]}
  <1> DEFINE j == [job[r] EXCEPT !.pc = "send",
               !.step = "sells",
               !.seen = seen,
               !.todo = sells \ seen,
               !.struck = job[r].struck \cup sells]
  <1>2. job' = [job EXCEPT ![r] = j]
    BY <1>1
  <1>3. j \in Jobs
    <2>0. sells \subseteq Slots
      BY Subsets DEF Slots
    <2>1. ("send") \in Places
      BY DEF Places
    <2>2. ("sells") \in Steps
      BY DEF Steps
    <2>3. (seen) \in SUBSET Slots
      BY <1>1, Locals, Counts, Subsets
    <2> HIDE DEF sells
    <2>4. (sells \ seen) \in SUBSET Slots
      BY <2>0
    <2>5. (job[r].struck \cup sells) \in SUBSET Slots
      BY <2>0, Locals DEF TypeOK
    <2> QED BY <2>1, <2>2, <2>3, <2>4, <2>5, SetLocal DEF TypeOK
  <1>4. Moves(r) /\ job'[r] = j
    <2> HIDE DEF j
    <2> QED BY <1>2, <1>3, Moved DEF TypeOK
  <1>5. /\ job'[r].pc = "send" /\ job'[r].step = "sells"
        /\ job'[r].open = job[r].open /\ job'[r].claimed = job[r].claimed
        /\ job'[r].only = job[r].only
        /\ job'[r].todo = sells \ seen /\ job'[r].seen = seen
    <2> HIDE DEF seen, sells
    <2> QED BY <1>4 DEF TypeOK, Jobs
  <1>6. ASSUME "pending" \notin Faults PROVE seen = Waiting
    BY <1>6 DEF Works
  <1>7. \A x \in sells : x[1] = "long"
    OBVIOUS
  <1> HIDE DEF seen, sells
  <1> QED BY <1>4, <1>5, <1>6, <1>7

LEMMA DoListBuys ==
  ASSUME OrderAssumption, TypeOK, NEW r \in Runs, ListBuys(r)
  PROVE  /\ Moves(r)
         /\ job'[r].pc = "send" /\ job'[r].step = "buys"
         /\ job'[r].open = job[r].open /\ job'[r].claimed = job[r].claimed /\ job'[r].only = job[r].only
         /\ job'[r].score = job[r].score /\ job'[r].seen = job[r].seen
         /\ job'[r].count = Cardinality(job[r].claimed) + Cardinality(ShortRows)
         /\ job'[r].todo # {} => job[r].open
         /\ \A x \in job'[r].todo : x[1] = "long" /\ x[2] \notin ShortRows /\ job[r].score[x[2]] = "up"
  <1>1. PICK picked \in SUBSET Candidates(r, "long", "up", ShortRows),
             lame \in Lame("shorts") :
        /\ picked # {} => job[r].open /\ job[r].corr
        /\ job' = [job EXCEPT ![r].pc = "send",
               ![r].step = "buys",
               ![r].todo = picked,
               ![r].rows = ShortRows,
               ![r].owned = {s \in Symbols : /\ pos[<<"short", s>>] # "none"
                                             /\ <<"short", s>> \notin lame},
               ![r].count = Cardinality(job[r].claimed) + Cardinality(ShortRows)]
    BY DEF ListBuys
  <1> DEFINE owned == {s \in Symbols : /\ pos[<<"short", s>>] # "none"
                                       /\ <<"short", s>> \notin lame}
  <1> DEFINE j == [job[r] EXCEPT !.pc = "send",
               !.step = "buys",
               !.todo = picked,
               !.rows = ShortRows,
               !.owned = owned,
               !.count = Cardinality(job[r].claimed) + Cardinality(ShortRows)]
  <1>2. job' = [job EXCEPT ![r] = j]
    BY <1>1
  <1>3. j \in Jobs
    <2>1. ("send") \in Places
      BY DEF Places
    <2>2. ("buys") \in Steps
      BY DEF Steps
    <2>3. picked \in SUBSET Slots
      BY DEF Candidates, Slots
    <2>4. ShortRows \in SUBSET Symbols
      BY Subsets
    <2>5. owned \in SUBSET Symbols
      OBVIOUS
    <2>6. job[r].claimed \subseteq Symbols
      BY Locals DEF TypeOK
    <2>7. (Cardinality(job[r].claimed) + Cardinality(ShortRows)) \in Nat
      BY <2>4, <2>6, Counts
    <2> QED BY <2>1, <2>2, <2>3, <2>4, <2>5, <2>7, SetLocal DEF TypeOK
  <1>4. Moves(r) /\ job'[r] = j
    <2> HIDE DEF j
    <2> QED BY <1>2, <1>3, Moved DEF TypeOK
  <1>5. /\ job'[r].pc = "send" /\ job'[r].step = "buys"
        /\ job'[r].open = job[r].open /\ job'[r].claimed = job[r].claimed
        /\ job'[r].only = job[r].only
        /\ job'[r].score = job[r].score /\ job'[r].seen = job[r].seen
        /\ job'[r].count = Cardinality(job[r].claimed) + Cardinality(ShortRows)
        /\ job'[r].todo = picked
    BY <1>4 DEF TypeOK, Jobs
  <1> HIDE DEF j
  <1>6. \A x \in picked : x[1] = "long" /\ x[2] \notin ShortRows /\ job[r].score[x[2]] = "up"
    BY DEF Candidates
  <1>7. job'[r].todo # {} => job[r].open
    BY <1>1, <1>5
  <1> QED BY <1>4, <1>5, <1>6, <1>7

LEMMA DoListCovers ==
  ASSUME OrderAssumption, TypeOK, NEW r \in Runs, ListCovers(r)
  PROVE  /\ Moves(r)
         /\ job'[r].pc = "send" /\ job'[r].step = "covers"
         /\ job'[r].open = job[r].open /\ job'[r].claimed = job[r].claimed
         /\ job'[r].score = job[r].score /\ job'[r].count = job[r].count
         /\ \A x \in job'[r].todo : x[1] = "short" /\ x \notin job[r].seen
  <1>1. /\ LET covers == {<<"short", s>> : s \in {t \in job[r].owned : job[r].score[t] = "up"}}
           IN job' = [job EXCEPT ![r].pc = "send",
               ![r].step = "covers",
               ![r].todo = covers \ job[r].seen,
               ![r].struck = @ \cup covers]
    BY DEF ListCovers
  <1> DEFINE covers == {<<"short", s>> : s \in {t \in job[r].owned : job[r].score[t] = "up"}}
  <1> DEFINE j == [job[r] EXCEPT !.pc = "send",
               !.step = "covers",
               !.todo = covers \ job[r].seen,
               !.struck = job[r].struck \cup covers]
  <1>2. job' = [job EXCEPT ![r] = j]
    BY <1>1
  <1>3. j \in Jobs
    <2>0. job[r].owned \subseteq Symbols /\ job[r].struck \subseteq Slots
      BY Locals DEF TypeOK
    <2>. covers \subseteq Slots
      BY <2>0 DEF Slots
    <2> HIDE DEF covers
    <2>1. ("send") \in Places
      BY DEF Places
    <2>2. ("covers") \in Steps
      BY DEF Steps
    <2>3. (covers \ job[r].seen) \in SUBSET Slots
      BY <2>0
    <2>4. (job[r].struck \cup covers) \in SUBSET Slots
      BY <2>0
    <2> QED BY <2>1, <2>2, <2>3, <2>4, SetLocal DEF TypeOK
  <1>4. Moves(r) /\ job'[r] = j
    <2> HIDE DEF j
    <2> QED BY <1>2, <1>3, Moved DEF TypeOK
  <1>5. /\ job'[r].pc = "send" /\ job'[r].step = "covers"
        /\ job'[r].open = job[r].open /\ job'[r].claimed = job[r].claimed
        /\ job'[r].score = job[r].score /\ job'[r].count = job[r].count
        /\ job'[r].todo = covers \ job[r].seen
    <2> HIDE DEF covers
    <2> QED BY <1>4 DEF TypeOK, Jobs
  <1>6. \A x \in covers : x[1] = "short"
    OBVIOUS
  <1> HIDE DEF covers
  <1> QED BY <1>4, <1>5, <1>6

LEMMA DoListShorts ==
  ASSUME OrderAssumption, TypeOK, NEW r \in Runs, ListShorts(r)
  PROVE  /\ Moves(r)
         /\ job'[r].pc = "send" /\ job'[r].step = "shorts"
         /\ job'[r].open = job[r].open /\ job'[r].claimed = job[r].claimed
         /\ job'[r].score = job[r].score /\ job'[r].count = job[r].count
         /\ job'[r].todo # {} => job[r].open
         /\ \A x \in job'[r].todo : x[1] = "short" /\ x[2] \notin job[r].claimed /\ job[r].score[x[2]] = "down"
  <1>1. PICK picked \in SUBSET Candidates(r, "short", "down", job[r].rows) :
        /\ picked # {} => job[r].open
        /\ job' = [job EXCEPT ![r].pc = "send",
               ![r].step = "shorts",
               ![r].todo = picked]
    BY DEF ListShorts
  <1> DEFINE j == [job[r] EXCEPT !.pc = "send",
               !.step = "shorts",
               !.todo = picked]
  <1>2. job' = [job EXCEPT ![r] = j]
    BY <1>1
  <1>3. j \in Jobs
    <2>1. ("send") \in Places
      BY DEF Places
    <2>2. ("shorts") \in Steps
      BY DEF Steps
    <2>3. (picked) \in SUBSET Slots
      BY DEF Candidates, Slots
    <2> QED BY <2>1, <2>2, <2>3, SetLocal DEF TypeOK
  <1>4. Moves(r) /\ job'[r] = j
    <2> HIDE DEF j
    <2> QED BY <1>2, <1>3, Moved DEF TypeOK
  <1>5. /\ job'[r].pc = "send" /\ job'[r].step = "shorts"
        /\ job'[r].open = job[r].open /\ job'[r].claimed = job[r].claimed
        /\ job'[r].score = job[r].score /\ job'[r].count = job[r].count
        /\ job'[r].todo = picked
    BY <1>4 DEF TypeOK, Jobs
  <1> HIDE DEF j
  <1>6. \A x \in picked : /\ x[1] = "short" /\ x[2] \notin job[r].claimed
                         /\ job[r].score[x[2]] = "down"
    BY DEF Candidates
  <1>7. job'[r].todo # {} => job[r].open
    BY <1>1, <1>5
  <1> QED BY <1>4, <1>5, <1>6, <1>7

LEMMA DoFinish ==
  ASSUME TypeOK, NEW r \in Runs, NEW bad, Finish(r, bad)
  PROVE  Moves(r) /\ job'[r] = Idle /\ UNCHANGED <<phase, left>>
  <1>1. job' = [job EXCEPT ![r] = Idle] /\ UNCHANGED <<phase, left>>
    BY DEF Finish
  <1> QED BY <1>1, IdleType, Moved DEF TypeOK

LEMMA DoReadHeld ==
  ASSUME OrderAssumption, TypeOK, NEW r \in Runs, ReadHeld(r)
  PROVE  /\ Moves(r)
         /\ \/ job'[r].pc = "screen" /\ job'[r].held = Longs
            \/ job'[r] = Idle
  <1>1. CASE Finish(r, TRUE)
    BY <1>1, DoFinish
  <1>2. CASE \E score \in [Symbols -> Scores] :
               job' = [job EXCEPT ![r].pc = "screen", ![r].score = score, ![r].held = Longs]
    <2>1. PICK score \in [Symbols -> Scores] :
            job' = [job EXCEPT ![r].pc = "screen", ![r].score = score, ![r].held = Longs]
      BY <1>2
    <2> DEFINE j == [job[r] EXCEPT !.pc = "screen", !.score = score, !.held = Longs]
    <2>2. job' = [job EXCEPT ![r] = j]
      BY <2>1
    <2>3. "screen" \in Places
      BY DEF Places
    <2>4. j \in Jobs
      BY <2>3, Subsets, SetLocal DEF TypeOK
    <2>5. Moves(r)
      <3> HIDE DEF j
      <3> QED BY <2>2, <2>4, Moved DEF TypeOK
    <2> HIDE DEF j
    <2> QED BY <2>1, <2>5 DEF TypeOK
  <1> QED BY <1>1, <1>2 DEF ReadHeld

LEMMA DoScreen ==
  ASSUME OrderAssumption, TypeOK, NEW r \in Runs, Screen(r)
  PROVE  /\ Moves(r)
         /\ job'[r].pc = "send" /\ job'[r].step = "rule"
         /\ job'[r].score = job[r].score
         /\ job'[r].count = Cardinality(job[r].held \cup PendingBuys) + Cardinality(ShortRows)
         /\ job'[r].placed = Cardinality({x \in Slots : entry[x] = "rule"})
         /\ \A x \in job'[r].todo :
               /\ x[1] = "long"
               /\ job[r].score[x[2]] = "up" => x[2] \notin ShortRows
               /\ job[r].score[x[2]] # "up" /\ "pending" \notin Faults => x \notin Waiting
  <1> DEFINE claimed == job[r].held \cup PendingBuys
             sells == {x \in Slots : /\ x[1] = "long" /\ x[2] \in job[r].held
                                     /\ job[r].score[x[2]] = "down"}
             news == {x \in Slots : /\ x[1] = "long" /\ job[r].score[x[2]] = "up"
                                    /\ x[2] \notin claimed \cup ShortRows}
             rules == {x \in Slots : entry[x] = "rule"}
  <1>0. PICK ok \in Works("buys"), pass \in BOOLEAN, pend \in Works("pending") :
          \E picked \in SUBSET news :
            /\ picked # {} => ok /\ pass /\ Room
            /\ job' = [job EXCEPT ![r].pc = "send", ![r].step = "rule",
                         ![r].todo = picked \cup (sells \ (IF pend THEN Waiting ELSE {})),
                         ![r].struck = sells, ![r].bad = ~ok,
                         ![r].count = Cardinality(claimed) + Cardinality(ShortRows),
                         ![r].placed = Cardinality(rules)]
    BY DEF Screen
  <1>1. PICK picked \in SUBSET news :
          job' = [job EXCEPT ![r].pc = "send", ![r].step = "rule",
                    ![r].todo = picked \cup (sells \ (IF pend THEN Waiting ELSE {})),
                    ![r].struck = sells, ![r].bad = ~ok,
                    ![r].count = Cardinality(claimed) + Cardinality(ShortRows),
                    ![r].placed = Cardinality(rules)]
    <2> HIDE DEF news, sells, claimed, rules
    <2> QED BY <1>0
  <1> DEFINE out == sells \ (IF pend THEN Waiting ELSE {})
             j == [job[r] EXCEPT !.pc = "send", !.step = "rule", !.todo = picked \cup out,
                     !.struck = sells, !.bad = ~ok,
                     !.count = Cardinality(claimed) + Cardinality(ShortRows),
                     !.placed = Cardinality(rules)]
  <1>2. job' = [job EXCEPT ![r] = j]
    BY <1>1
  <1>3. j \in Jobs
    <2>1. "send" \in Places /\ "rule" \in Steps /\ (~ok) \in BOOLEAN
      BY DEF Places, Steps
    <2>2. sells \in SUBSET Slots /\ picked \cup out \in SUBSET Slots
      OBVIOUS
    <2>3. claimed \subseteq Symbols
      BY Locals, Subsets DEF TypeOK
    <2>4. Cardinality(claimed) + Cardinality(ShortRows) \in Nat
      <3> HIDE DEF claimed
      <3> QED BY <2>3, Counts, Subsets
    <2>5. Cardinality(rules) \in Nat
      BY Counts
    <2> HIDE DEF claimed, sells, rules, out
    <2> QED BY <2>1, <2>2, <2>4, <2>5, SetLocal DEF TypeOK
  <1>4. Moves(r) /\ job'[r] = j
    <2> HIDE DEF j
    <2> QED BY <1>2, <1>3, Moved DEF TypeOK
  <1>5. /\ job'[r].pc = "send" /\ job'[r].step = "rule"
        /\ job'[r].score = job[r].score
        /\ job'[r].count = Cardinality(claimed) + Cardinality(ShortRows)
        /\ job'[r].placed = Cardinality(rules)
        /\ job'[r].todo = picked \cup out
    <2> HIDE DEF claimed, sells, rules, out
    <2> QED BY <1>4 DEF TypeOK, Jobs
  <1>6. \A x \in picked : x[1] = "long" /\ job[r].score[x[2]] = "up" /\ x[2] \notin ShortRows
    OBVIOUS
  <1>7. \A x \in out : x[1] = "long" /\ job[r].score[x[2]] = "down"
    OBVIOUS
  <1>8. ASSUME "pending" \notin Faults PROVE \A x \in out : x \notin Waiting
    <2>1. pend = TRUE
      BY <1>0, <1>8 DEF Works
    <2> QED BY <2>1
  <1>9. \A x \in job'[r].todo : x \in picked \/ x \in out
    <2> HIDE DEF out, j
    <2> QED BY <1>5
  <1>10. \A x \in job'[r].todo :
               /\ x[1] = "long"
               /\ job[r].score[x[2]] = "up" => x[2] \notin ShortRows
               /\ job[r].score[x[2]] # "up" /\ "pending" \notin Faults => x \notin Waiting
    <2> HIDE DEF out, j, sells, news
    <2> QED BY <1>6, <1>7, <1>8, <1>9
  <1> QED BY <1>4, <1>5, <1>10

\* What an order sent leaves as it was
Keeps(r) ==
  /\ job'[r].step = job[r].step /\ job'[r].open = job[r].open
  /\ job'[r].claimed = job[r].claimed /\ job'[r].only = job[r].only
  /\ job'[r].score = job[r].score /\ job'[r].seen = job[r].seen

LEMMA DoSendExit ==
  ASSUME OrderAssumption, TypeOK, NEW r \in Runs, SendExit(r)
  PROVE  /\ Moves(r) /\ Keeps(r)
         /\ job'[r].pc = "send" /\ job[r].pc = "send"
         /\ job'[r].count = job[r].count /\ job'[r].placed = job[r].placed
         /\ exits' \in [Slots -> Nat]
         /\ \E x \in job[r].todo :
              /\ ~Enters(r, x) /\ job'[r].todo = job[r].todo \ {x}
              /\ \/ exits' = [exits EXCEPT ![x] = @ + 1]
                 \/ exits' = exits /\ (job[r].step = "expired" => "due" \in Faults)
  <1> DEFINE f == IF job[r].step = "expired" THEN "due" ELSE "send"
  <1>1. PICK x \in job[r].todo, ok \in Works(f) :
          /\ ~Enters(r, x)
          /\ exits' = IF ok THEN [exits EXCEPT ![x] = @ + 1] ELSE exits
          /\ job' = [job EXCEPT ![r].todo = @ \ {x}, ![r].bad = @ \/ ~ok,
                       ![r].sent = IF ok /\ job[r].step = "stops" THEN @ \cup {x} ELSE @]
    BY DEF SendExit
  <1> DEFINE sent == IF ok /\ job[r].step = "stops" THEN job[r].sent \cup {x} ELSE job[r].sent
             j == [job[r] EXCEPT !.todo = job[r].todo \ {x}, !.bad = job[r].bad \/ ~ok,
                                 !.sent = sent]
  <1>2. job' = [job EXCEPT ![r] = j]
    BY <1>1
  <1>3. job[r].todo \subseteq Slots /\ job[r].sent \subseteq Slots
    BY Locals DEF TypeOK
  <1>4. j \in Jobs
    <2>1. /\ (job[r].todo \ {x}) \in SUBSET Slots /\ sent \in SUBSET Slots
          /\ (job[r].bad \/ ~ok) \in BOOLEAN
      BY <1>3
    <2> HIDE DEF sent
    <2> QED BY <2>1, SetLocal DEF TypeOK
  <1>5. Moves(r) /\ job'[r] = j
    <2> HIDE DEF j
    <2> QED BY <1>2, <1>4, Moved DEF TypeOK
  <1>6. /\ job'[r].todo = job[r].todo \ {x} /\ job'[r].pc = job[r].pc /\ Keeps(r)
        /\ job'[r].count = job[r].count /\ job'[r].placed = job[r].placed
    <2> HIDE DEF sent
    <2> QED BY <1>5 DEF TypeOK, Jobs, Keeps
  <1>7. job[r].pc = "send"
    BY DEF SendExit, At
  <1>8. x \in Slots /\ exits' \in [Slots -> Nat]
    BY <1>1, <1>3 DEF TypeOK
  <1>9. ok = TRUE \/ (ok = FALSE /\ f \in Faults)
    BY <1>1 DEF Works
  <1>10. \/ exits' = [exits EXCEPT ![x] = @ + 1]
         \/ exits' = exits /\ (job[r].step = "expired" => "due" \in Faults)
    BY <1>1, <1>9
  <1> HIDE DEF j, f
  <1> QED BY <1>1, <1>5, <1>6, <1>7, <1>8, <1>10

LEMMA DoPassOver ==
  ASSUME OrderAssumption, TypeOK, NEW r \in Runs, PassOver(r)
  PROVE  /\ Moves(r) /\ Keeps(r)
         /\ job'[r].pc = "send" /\ job[r].pc = "send"
         /\ job'[r].count = job[r].count /\ job'[r].placed = job[r].placed
         /\ \E x \in job[r].todo : Enters(r, x) /\ job'[r].todo = job[r].todo \ {x}
  <1>1. PICK x \in job[r].todo :
          Enters(r, x) /\ job' = [job EXCEPT ![r].todo = @ \ {x}]
    BY DEF PassOver
  <1> DEFINE j == [job[r] EXCEPT !.todo = job[r].todo \ {x}]
  <1>2. job' = [job EXCEPT ![r] = j]
    BY <1>1
  <1>3. (job[r].todo \ {x}) \in SUBSET Slots
    BY Locals DEF TypeOK
  <1>4. j \in Jobs
    BY <1>3, SetLocal DEF TypeOK
  <1>5. Moves(r) /\ job'[r] = j
    <2> HIDE DEF j
    <2> QED BY <1>2, <1>4, Moved DEF TypeOK
  <1>6. /\ job'[r].todo = job[r].todo \ {x} /\ job'[r].pc = job[r].pc /\ Keeps(r)
        /\ job'[r].count = job[r].count /\ job'[r].placed = job[r].placed
    BY <1>5 DEF TypeOK, Jobs, Keeps
  <1>7. job[r].pc = "send"
    BY DEF PassOver, At
  <1> HIDE DEF j
  <1> QED BY <1>1, <1>5, <1>6, <1>7

LEMMA DoSendEntry ==
  ASSUME OrderAssumption, TypeOK, NEW r \in Runs, SendEntry(r)
  PROVE  /\ Moves(r) /\ Keeps(r) /\ job[r].pc = "send" /\ ~Full(r)
         /\ entry' \in [Slots -> Entering]
         /\ \E x \in job[r].todo :
              /\ Enters(r, x) /\ job'[r].todo = job[r].todo \ {x}
              /\ \/ /\ entry' = [entry EXCEPT ![x] = IF @ # "none" THEN @
                                               ELSE IF r = "rule" THEN "rule" ELSE "bare"]
                    /\ job'[r].count = job[r].count + 1 /\ job'[r].placed = job[r].placed + 1
                    /\ job'[r].pc = "send" \/ (job'[r].pc = "link" /\ r # "rule")
                 \/ /\ entry' = entry /\ job'[r].pc = "send"
                    /\ job'[r].count = job[r].count /\ job'[r].placed = job[r].placed
  <1>0. job[r].pc = "send" /\ ~Full(r)
    BY DEF SendEntry, At
  <1>1. PICK x \in job[r].todo :
          /\ Enters(r, x)
          /\ \/ /\ entry' = [entry EXCEPT ![x] = IF @ # "none" THEN @
                                           ELSE IF r = "rule" THEN "rule" ELSE "bare"]
                /\ job' = [job EXCEPT ![r].todo = @ \ {x}, ![r].count = @ + 1,
                          ![r].placed = @ + 1,
                          ![r].pc = IF r = "rule" \/ entry[x] # "none" THEN @ ELSE "link",
                          ![r].cur = IF r = "rule" \/ entry[x] # "none" THEN {} ELSE {x}]
             \/ /\ job' = [job EXCEPT ![r].todo = @ \ {x}, ![r].bad = TRUE]
                /\ UNCHANGED entry
    BY DEF SendEntry
  <1>2. job[r].todo \subseteq Slots /\ x \in Slots /\ (job[r].todo \ {x}) \in SUBSET Slots
    BY Locals DEF TypeOK
  <1>3. CASE /\ job' = [job EXCEPT ![r].todo = @ \ {x}, ![r].bad = TRUE]
             /\ UNCHANGED entry
    <2> DEFINE j == [job[r] EXCEPT !.todo = job[r].todo \ {x}, !.bad = TRUE]
    <2>1. job' = [job EXCEPT ![r] = j]
      BY <1>3
    <2>2. j \in Jobs
      BY <1>2, SetLocal DEF TypeOK
    <2>3. Moves(r) /\ job'[r] = j
      <3> HIDE DEF j
      <3> QED BY <2>1, <2>2, Moved DEF TypeOK
    <2>4. /\ job'[r].todo = job[r].todo \ {x} /\ job'[r].pc = job[r].pc /\ Keeps(r)
          /\ job'[r].count = job[r].count /\ job'[r].placed = job[r].placed
      BY <2>3 DEF TypeOK, Jobs, Keeps
    <2> HIDE DEF j
    <2> QED BY <1>0, <1>1, <1>3, <2>3, <2>4 DEF TypeOK
  <1>4. CASE /\ entry' = [entry EXCEPT ![x] = IF @ # "none" THEN @
                                          ELSE IF r = "rule" THEN "rule" ELSE "bare"]
             /\ job' = [job EXCEPT ![r].todo = @ \ {x}, ![r].count = @ + 1,
                          ![r].placed = @ + 1,
                          ![r].pc = IF r = "rule" \/ entry[x] # "none" THEN @ ELSE "link",
                          ![r].cur = IF r = "rule" \/ entry[x] # "none" THEN {} ELSE {x}]
    <2> DEFINE to == IF r = "rule" \/ entry[x] # "none" THEN job[r].pc ELSE "link"
               cur == IF r = "rule" \/ entry[x] # "none" THEN {} ELSE {x}
               j == [job[r] EXCEPT !.todo = job[r].todo \ {x}, !.count = job[r].count + 1,
                          !.placed = job[r].placed + 1, !.pc = to, !.cur = cur]
    <2>1. job' = [job EXCEPT ![r] = j]
      BY <1>4
    <2>2. to \in Places /\ cur \in SUBSET Slots
      BY <1>2, Locals DEF TypeOK, Places
    <2>3. job[r].count + 1 \in Nat /\ job[r].placed + 1 \in Nat
      BY Locals DEF TypeOK
    <2>4. j \in Jobs
      <3> HIDE DEF to, cur
      <3> QED BY <1>2, <2>2, <2>3, SetLocal DEF TypeOK
    <2>5. Moves(r) /\ job'[r] = j
      <3> HIDE DEF j
      <3> QED BY <2>1, <2>4, Moved DEF TypeOK
    <2>6. /\ job'[r].todo = job[r].todo \ {x} /\ job'[r].pc = to /\ Keeps(r)
          /\ job'[r].count = job[r].count + 1 /\ job'[r].placed = job[r].placed + 1
      <3> HIDE DEF to, cur
      <3> QED BY <2>5 DEF TypeOK, Jobs, Keeps
    <2>7. to = "send" \/ (to = "link" /\ r # "rule")
      BY <1>0
    <2>8. entry' \in [Slots -> Entering]
      BY <1>2, <1>4 DEF TypeOK, Entering
    <2> HIDE DEF j, to, cur
    <2> QED BY <1>0, <1>1, <1>4, <2>5, <2>6, <2>7, <2>8
  <1> QED BY <1>1, <1>3, <1>4

\* What writing an exit date, or taking an entry back, does to the books
LEMMA DoLink ==
  ASSUME OrderAssumption, TypeOK, NEW r \in Runs, Link(r)
  PROVE  /\ Moves(r) /\ Keeps(r)
         /\ job[r].pc = "link" /\ job'[r].pc = "send"
         /\ job'[r].todo = job[r].todo
         /\ job'[r].count = job[r].count /\ job'[r].placed = job[r].placed
         /\ pos' \in [Slots -> Holding] /\ entry' \in [Slots -> Entering]
         /\ \A y \in Slots :
              /\ pos[y] = "none" => pos'[y] = "none"
              /\ entry[y] = "none" => entry'[y] = "none"
              /\ entry'[y] = "rule" => entry[y] = "rule"
              /\ pos'[y] = "due" => pos[y] = "due"
  <1>0. job[r].pc = "link"
    BY DEF Link, At
  <1>1. PICK x \in job[r].cur, ok \in Works("link"), undone \in Works("cancel") :
          /\ entry' = [entry EXCEPT ![x] = IF @ # "bare" THEN @
                                           ELSE IF ok THEN "dated"
                                           ELSE IF undone THEN "none" ELSE @]
          /\ pos' = [pos EXCEPT ![x] = IF ok /\ entry[x] = "none" /\ @ = "open"
                                         THEN "dated" ELSE @]
          /\ job' = [job EXCEPT ![r].pc = "send", ![r].cur = {}, ![r].bad = @ \/ ~ok]
    BY DEF Link
  <1> DEFINE j == [job[r] EXCEPT !.pc = "send", !.cur = {}, !.bad = job[r].bad \/ ~ok]
  <1>2. job' = [job EXCEPT ![r] = j]
    BY <1>1
  <1>3. "send" \in Places /\ (job[r].bad \/ ~ok) \in BOOLEAN
    BY DEF Places
  <1>4. j \in Jobs
    BY <1>3, SetLocal DEF TypeOK
  <1>5. Moves(r) /\ job'[r] = j
    <2> HIDE DEF j
    <2> QED BY <1>2, <1>4, Moved DEF TypeOK
  <1>6. /\ job'[r].pc = "send" /\ Keeps(r) /\ job'[r].todo = job[r].todo
        /\ job'[r].count = job[r].count /\ job'[r].placed = job[r].placed
    BY <1>5 DEF TypeOK, Jobs, Keeps
  <1>7. x \in Slots
    BY Locals DEF TypeOK
  <1>8. entry' \in [Slots -> Entering]
    BY <1>1, <1>7 DEF TypeOK, Entering
  <1>9. pos' \in [Slots -> Holding]
    BY <1>1, <1>7 DEF TypeOK, Holding
  <1>10. \A y \in Slots : /\ entry[y] = "none" => entry'[y] = "none"
                          /\ entry'[y] = "rule" => entry[y] = "rule"
    BY <1>1, <1>7 DEF TypeOK
  <1>11. \A y \in Slots : /\ pos[y] = "none" => pos'[y] = "none"
                          /\ pos'[y] = "due" => pos[y] = "due"
    BY <1>1, <1>7 DEF TypeOK
  <1> HIDE DEF j
  <1> QED BY <1>0, <1>5, <1>6, <1>8, <1>9, <1>10, <1>11

LEMMA DoDone ==
  ASSUME OrderAssumption, TypeOK, NEW r \in Runs, Done(r)
  PROVE  /\ Moves(r) /\ job[r].pc = "send" /\ job[r].todo = {} /\ UNCHANGED phase
         /\ \/ /\ StepAfter(r) # "end" /\ job'[r].pc = StepAfter(r) /\ Keeps(r)
               /\ job'[r].count = job[r].count
            \/ job'[r] = Idle
  <1>0. job[r].pc = "send" /\ job[r].todo = {}
    BY DEF Done, At
  <1>1. CASE StepAfter(r) # "end" /\ job' = [job EXCEPT ![r].pc = StepAfter(r)] /\ UNCHANGED day
    <2> DEFINE j == [job[r] EXCEPT !.pc = StepAfter(r)]
    <2>1. job' = [job EXCEPT ![r] = j]
      BY <1>1
    <2>2. StepAfter(r) \in Places
      BY <1>1 DEF StepAfter, Places
    <2>3. j \in Jobs
      BY <2>2, SetLocal DEF TypeOK
    <2>4. Moves(r) /\ job'[r] = j
      <3> HIDE DEF j
      <3> QED BY <2>1, <2>3, Moved DEF TypeOK
    <2>5. job'[r].pc = StepAfter(r) /\ Keeps(r) /\ job'[r].count = job[r].count
      BY <2>4 DEF TypeOK, Jobs, Keeps
    <2> HIDE DEF j
    <2> QED BY <1>0, <1>1, <2>4, <2>5 DEF day
  <1>2. CASE Finish(r, job[r].bad)
    BY <1>0, <1>2, DoFinish
  <1> QED BY <1>1, <1>2 DEF Done

LEMMA InitType == ASSUME OrderAssumption, Init PROVE TypeOK
  <1>1. pos \in [Slots -> Holding] /\ entry \in [Slots -> Entering]
    BY DEF Init, Holding, Entering
  <1>2. exits \in [Slots -> Nat]
    BY DEF Init
  <1>3. phase \in {"dawn", "open", "dusk"} /\ left \in [Runs -> Nat] /\ well \subseteq Runs
    BY DEF Init, Limit
  <1>4. job \in [Runs -> Jobs]
    BY IdleType DEF Init
  <1> QED BY <1>1, <1>2, <1>3, <1>4 DEF TypeOK

LEMMA FinishDay ==
  ASSUME TypeOK, NEW r \in Runs, NEW bad, Finish(r, bad)
  PROVE  left' \in [Runs -> Nat] /\ well' \subseteq Runs /\ phase' = phase
  BY DEF Finish, TypeOK

\* A step of a run that leaves the books, or the day, keeps their types
LEMMA StartType ==
  ASSUME OrderAssumption, TypeOK, NEW r \in Runs, Start(r)
  PROVE  TypeOK'
  <1>1. job' \in [Runs -> Jobs]
    BY DoStart DEF Moves
  <1>2. left' \in [Runs -> Nat]
    BY DEF Start, TypeOK
  <1>3. UNCHANGED <<pos, entry, exits, phase, well>>
    BY DEF Start, books
  <1> QED BY <1>1, <1>2, <1>3 DEF TypeOK

LEMMA SendingType ==
  ASSUME OrderAssumption, TypeOK, NEW r \in Runs, Sending(r)
  PROVE  TypeOK'
  <1>1. CASE SendExit(r)
    <2>1. job' \in [Runs -> Jobs] /\ exits' \in [Slots -> Nat]
      BY <1>1, DoSendExit DEF Moves
    <2>2. UNCHANGED <<pos, entry, phase, left, well>>
      BY <1>1 DEF SendExit, day
    <2> QED BY <2>1, <2>2 DEF TypeOK
  <1>2. CASE SendEntry(r)
    <2>1. job' \in [Runs -> Jobs] /\ entry' \in [Slots -> Entering]
      BY <1>2, DoSendEntry DEF Moves
    <2>2. UNCHANGED <<pos, exits, phase, left, well>>
      BY <1>2 DEF SendEntry, day
    <2> QED BY <2>1, <2>2 DEF TypeOK
  <1>3. CASE PassOver(r)
    <2>1. job' \in [Runs -> Jobs]
      BY <1>3, DoPassOver DEF Moves
    <2>2. UNCHANGED <<pos, entry, exits, phase, left, well>>
      BY <1>3 DEF PassOver, day, books
    <2> QED BY <2>1, <2>2 DEF TypeOK
  <1>4. CASE Link(r)
    <2>1. job' \in [Runs -> Jobs] /\ pos' \in [Slots -> Holding] /\ entry' \in [Slots -> Entering]
      BY <1>4, DoLink DEF Moves
    <2>2. UNCHANGED <<exits, phase, left, well>>
      BY <1>4 DEF Link, day
    <2> QED BY <2>1, <2>2 DEF TypeOK
  <1>5. CASE Done(r)
    <2>1. job' \in [Runs -> Jobs]
      BY <1>5, DoDone DEF Moves
    <2>2. UNCHANGED <<pos, entry, exits>>
      BY <1>5 DEF Done, books
    <2>3. left' \in [Runs -> Nat] /\ well' \subseteq Runs /\ phase' = phase
      BY <1>5, FinishDay DEF Done, day, TypeOK
    <2> QED BY <2>1, <2>2, <2>3 DEF TypeOK
  <1> QED BY <1>1, <1>2, <1>3, <1>4, <1>5 DEF Sending

\* The steps that decide: they leave the books
Decides(r) ==
  \/ ListExpired(r) \/ Morning(r) \/ ReadHeld(r) \/ Screen(r)

LEMMA DecidesKeeps ==
  ASSUME OrderAssumption, TypeOK, NEW r \in Runs, Decides(r)
  PROVE  Moves(r) /\ UNCHANGED <<pos, entry, exits, phase>> /\ TypeOK'
  <1>1. CASE ListExpired(r)
    BY <1>1, DoListExpired DEF Moves, ListExpired, books, day, TypeOK
  <1>2. CASE Gate(r)
    BY <1>2, DoGate DEF Moves, Gate, books, day, TypeOK
  <1>3. CASE Predict(r)
    <2>1. UNCHANGED <<books, day>>
      BY <1>3 DEF Predict
    <2> QED BY <1>3, <2>1, DoPredict DEF Moves, books, day, TypeOK
  <1>4. CASE Survey(r)
    <2>1. UNCHANGED <<books, day>>
      BY <1>4 DEF Survey
    <2> QED BY <1>4, <2>1, DoSurvey DEF Moves, books, day, TypeOK
  <1>5. CASE ListStops(r)
    <2>1. UNCHANGED <<books, day>>
      BY <1>5 DEF ListStops
    <2>2. Moves(r)
      BY <1>5, DoListStops
    <2> QED BY <2>1, <2>2 DEF Moves, books, day, TypeOK
  <1>6. CASE StepsFail(r)
    <2>1. UNCHANGED books /\ Finish(r, TRUE)
      BY <1>6 DEF StepsFail
    <2> QED BY <2>1, DoFinish, FinishDay DEF Moves, books, TypeOK
  <1>7. CASE ListSells(r)
    <2>1. UNCHANGED <<books, day>>
      BY <1>7 DEF ListSells
    <2>2. Moves(r)
      BY <1>7, DoListSells
    <2> QED BY <2>1, <2>2 DEF Moves, books, day, TypeOK
  <1>8. CASE ListBuys(r)
    <2>1. UNCHANGED <<books, day>>
      BY <1>8 DEF ListBuys
    <2>2. Moves(r)
      BY <1>8, DoListBuys
    <2> QED BY <2>1, <2>2 DEF Moves, books, day, TypeOK
  <1>9. CASE ListCovers(r)
    <2>1. UNCHANGED <<books, day>>
      BY <1>9 DEF ListCovers
    <2>2. Moves(r)
      BY <1>9, DoListCovers
    <2> QED BY <2>1, <2>2 DEF Moves, books, day, TypeOK
  <1>10. CASE ListShorts(r)
    <2>1. UNCHANGED <<books, day>>
      BY <1>10 DEF ListShorts
    <2>2. Moves(r)
      BY <1>10, DoListShorts
    <2> QED BY <2>1, <2>2 DEF Moves, books, day, TypeOK
  <1>11. CASE ReadHeld(r)
    <2>1. UNCHANGED books
      BY <1>11 DEF ReadHeld
    <2>2. Moves(r)
      BY <1>11, DoReadHeld
    <2>3. left' \in [Runs -> Nat] /\ well' \subseteq Runs /\ phase' = phase
      BY <1>11, FinishDay DEF ReadHeld, day, TypeOK
    <2> QED BY <2>1, <2>2, <2>3 DEF Moves, books, TypeOK
  <1>12. CASE Screen(r)
    <2>1. UNCHANGED <<books, day>>
      BY <1>12 DEF Screen
    <2>2. Moves(r)
      BY <1>12, DoScreen
    <2> QED BY <2>1, <2>2 DEF Moves, books, day, TypeOK
  <1> QED BY <1>1, <1>2, <1>3, <1>4, <1>5, <1>6, <1>7, <1>8, <1>9, <1>10, <1>11, <1>12
          DEF Decides, Morning

\* The settlements, the clock and the daemon
Outside ==
  \/ \E x \in Slots : SettleEntry(x) \/ SettleExit(x)
  \/ Open \/ Close \/ NextDay \/ Crash

LEMMA OutsideType ==
  ASSUME OrderAssumption, TypeOK, Outside
  PROVE  TypeOK'
  <1>1. CASE \E x \in Slots : SettleEntry(x)
    <2>1. PICK x \in Slots : SettleEntry(x)
      BY <1>1
    <2>2. entry' \in [Slots -> Entering] /\ pos' \in [Slots -> Holding]
      BY <2>1 DEF SettleEntry, TypeOK, Entering, Holding
    <2> QED BY <2>1, <2>2 DEF SettleEntry, TypeOK, day
  <1>2. CASE \E x \in Slots : SettleExit(x)
    <2>1. PICK x \in Slots : SettleExit(x)
      BY <1>2
    <2>2. exits' \in [Slots -> Nat] /\ pos' \in [Slots -> Holding]
      BY <2>1 DEF SettleExit, TypeOK, Holding
    <2> QED BY <2>1, <2>2 DEF SettleExit, TypeOK, day
  <1>3. CASE Open
    BY <1>3 DEF Open, TypeOK, books
  <1>4. CASE Close
    BY <1>4 DEF Close, TypeOK, books
  <1>5. CASE NextDay
    <2>1. entry' \in [Slots -> Entering] /\ pos' \in [Slots -> Holding]
      BY <1>5 DEF NextDay, TypeOK, Entering, Holding
    <2>2. left' \in [Runs -> Nat]
      BY <1>5 DEF NextDay, Limit
    <2> QED BY <1>5, <2>1, <2>2 DEF NextDay, TypeOK
  <1>6. CASE Crash
    <2>1. job' \in [Runs -> Jobs]
      BY <1>6, IdleType DEF Crash
    <2>2. left' \in [Runs -> Nat]
      BY <1>6 DEF Crash, TypeOK
    <2> QED BY <1>6, <2>1, <2>2 DEF Crash, TypeOK, books
  <1> QED BY <1>1, <1>2, <1>3, <1>4, <1>5, <1>6 DEF Outside

\* Who may take which step
LEMMA StepKinds ==
  ASSUME [Next]_vars
  PROVE  \/ UNCHANGED vars
         \/ \E r \in Runs : Start(r)
         \/ \E r \in Runs : Sending(r)
         \/ \E r \in Runs \ {"rule"} : ListExpired(r)
         \/ Morning("auto")
         \/ ReadHeld("rule") \/ Screen("rule")
         \/ Outside
  BY DEF Next, Outside

LEMMA TypeStep ==
  ASSUME OrderAssumption, TypeOK, [Next]_vars
  PROVE  TypeOK'
  <1>1. CASE UNCHANGED vars
    BY <1>1 DEF vars, books, day, TypeOK
  <1>2. CASE \E r \in Runs : Start(r)
    BY <1>2, StartType
  <1>3. CASE \E r \in Runs : Sending(r)
    BY <1>3, SendingType
  <1>4. CASE \E r \in Runs : Decides(r)
    BY <1>4, DecidesKeeps
  <1>5. CASE Outside
    BY <1>5, OutsideType
  <1>6. "auto" \in Runs /\ "rule" \in Runs
    BY DEF Runs
  <1> QED BY <1>1, <1>2, <1>3, <1>4, <1>5, <1>6, StepKinds DEF Decides

(***************************************************************************)
(* In every state reached, the books, the clock and the local variables of *)
(* the runs have the types of the code.                                    *)
(***************************************************************************)
THEOREM TypeCorrect == Spec => []TypeOK
  <1> USE OrderAssumption
  <1>1. Init => TypeOK
    BY InitType
  <1>2. TypeOK /\ [Next]_vars => TypeOK'
    BY TypeStep
  <1> QED BY <1>1, <1>2, PTL DEF Spec

-----------------------------------------------------------------------------
(* The course of a run, and the evening's limit *)

Sections == {"expired", "stops", "sells", "buys", "covers", "shorts"}
Deciding == {"gate", "predict", "survey", "stops", "sells", "buys", "covers", "shorts"}

\* Where a run may be, and the lists it may be sending there
RightPlace(r, j) ==
  /\ j.pc = "send" => j.step \in CASE r = "horizon" -> {"expired"}
                                   [] r = "rule"    -> {"rule"}
                                   [] OTHER         -> Sections
  /\ j.pc = "link" => r = "auto" /\ j.step \in {"buys", "shorts"}
  /\ j.pc \in {"read", "screen"} => r = "rule"
  /\ j.pc = "lock" => r # "rule"
  /\ j.pc \in Deciding => r = "auto"

Course == \A r \in Runs : RightPlace(r, job[r])

LEMMA CourseMoves ==
  ASSUME Course, NEW r \in Runs, Moves(r), RightPlace(r, job'[r])
  PROVE  Course'
  <1>1. ASSUME NEW q \in Runs PROVE RightPlace(q, job'[q])
    <2>1. CASE q = r
      BY <2>1
    <2>2. CASE q # r
      BY <2>2 DEF Course, Moves
    <2> QED BY <2>1, <2>2
  <1> QED BY <1>1 DEF Course, RightPlace

LEMMA IdlePlace == \A r \in Runs : RightPlace(r, Idle)
  BY DEF RightPlace, Idle, Deciding

LEMMA SendingCourse ==
  ASSUME OrderAssumption, TypeOK, Course, NEW r \in Runs, Sending(r)
  PROVE  Course'
  <1>1. RightPlace(r, job[r])
    BY DEF Course
  <1>2. CASE SendExit(r)
    <2>1. Moves(r) /\ job'[r].pc = "send" /\ job[r].pc = "send" /\ job'[r].step = job[r].step
      BY <1>2, DoSendExit DEF Keeps
    <2> QED BY <1>1, <2>1, CourseMoves DEF RightPlace, Deciding
  <1>3. CASE SendEntry(r)
    <2>1. PICK x \in job[r].todo : Enters(r, x)
      BY <1>3, DoSendEntry
    <2>2. /\ Moves(r) /\ job[r].pc = "send" /\ job'[r].step = job[r].step
          /\ job'[r].pc = "send" \/ (job'[r].pc = "link" /\ r # "rule")
      BY <1>3, DoSendEntry DEF Keeps
    <2>3. r # "rule" => r = "auto" /\ job[r].step \in {"buys", "shorts"}
      BY <1>1, <2>1, <2>2 DEF RightPlace, Enters, Runs, Sections
    <2>4. RightPlace(r, job'[r])
      BY <1>1, <2>2, <2>3 DEF RightPlace, Deciding
    <2> QED BY <2>2, <2>4, CourseMoves
  <1>4. CASE PassOver(r)
    <2>1. Moves(r) /\ job'[r].pc = "send" /\ job[r].pc = "send" /\ job'[r].step = job[r].step
      BY <1>4, DoPassOver DEF Keeps
    <2> QED BY <1>1, <2>1, CourseMoves DEF RightPlace, Deciding
  <1>5. CASE Link(r)
    <2>1. Moves(r) /\ job'[r].pc = "send" /\ job[r].pc = "link" /\ job'[r].step = job[r].step
      BY <1>5, DoLink DEF Keeps
    <2>2. RightPlace(r, job'[r])
      BY <1>1, <2>1 DEF RightPlace, Deciding, Sections
    <2> QED BY <2>1, <2>2, CourseMoves
  <1>6. CASE Done(r)
    <2>1. Moves(r) /\ job[r].pc = "send"
      BY <1>6, DoDone
    <2>2. CASE job'[r] = Idle
      BY <2>1, <2>2, IdlePlace, CourseMoves
    <2>3. CASE StepAfter(r) # "end" /\ job'[r].pc = StepAfter(r)
      <3>1. r = "auto"
        BY <1>1, <2>1, <2>3 DEF RightPlace, StepAfter, Runs
      <3>2. StepAfter(r) \in Deciding
        BY <2>3, <3>1 DEF StepAfter, Deciding
      <3>3. RightPlace(r, job'[r])
        BY <2>3, <3>1, <3>2 DEF RightPlace, Deciding
      <3> QED BY <2>1, <3>3, CourseMoves
    <2> QED BY <1>6, <2>2, <2>3, DoDone
  <1> QED BY <1>2, <1>3, <1>4, <1>5, <1>6 DEF Sending

LEMMA CourseStep ==
  ASSUME OrderAssumption, TypeOK, Course, [Next]_vars
  PROVE  Course'
  <1>1. CASE UNCHANGED vars
    BY <1>1 DEF vars, Course, RightPlace
  <1>2. CASE \E r \in Runs : Start(r)
    <2>1. PICK r \in Runs : Start(r)
      BY <1>2
    <2>2. Moves(r) /\ job'[r].pc = IF r = "rule" THEN "read" ELSE "lock"
      BY <2>1, DoStart
    <2>3. RightPlace(r, job'[r])
      BY <2>2 DEF RightPlace, Deciding
    <2> QED BY <2>2, <2>3, CourseMoves
  <1>3. CASE \E r \in Runs : Sending(r)
    BY <1>3, SendingCourse
  <1>4. CASE \E r \in Runs \ {"rule"} : ListExpired(r)
    <2>1. PICK r \in Runs \ {"rule"} : ListExpired(r)
      BY <1>4
    <2>2. Moves(r) /\ job'[r].pc = "send" /\ job'[r].step = "expired"
      BY <2>1, DoListExpired
    <2>3. RightPlace(r, job'[r])
      BY <2>2 DEF RightPlace, Deciding, Sections
    <2> QED BY <2>2, <2>3, CourseMoves
  <1>5. CASE Morning("auto")
    <2>0. "auto" \in Runs
      BY DEF Runs
    <2> HIDE DEF Deciding
    <2>1. CASE Gate("auto")
      BY <2>0, <2>1, DoGate, CourseMoves DEF RightPlace, Deciding
    <2>2. CASE Predict("auto")
      BY <2>0, <2>2, DoPredict, CourseMoves DEF RightPlace, Deciding
    <2>3. CASE Survey("auto")
      BY <2>0, <2>3, DoSurvey, CourseMoves DEF RightPlace, Deciding
    <2>4. CASE ListStops("auto")
      BY <2>0, <2>4, DoListStops, CourseMoves DEF RightPlace, Deciding, Sections
    <2>5. CASE StepsFail("auto")
      BY <2>0, <2>5, DoFinish, IdlePlace, CourseMoves DEF StepsFail
    <2>6. CASE ListSells("auto")
      BY <2>0, <2>6, DoListSells, CourseMoves DEF RightPlace, Deciding, Sections
    <2>7. CASE ListBuys("auto")
      BY <2>0, <2>7, DoListBuys, CourseMoves DEF RightPlace, Deciding, Sections
    <2>8. CASE ListCovers("auto")
      BY <2>0, <2>8, DoListCovers, CourseMoves DEF RightPlace, Deciding, Sections
    <2>9. CASE ListShorts("auto")
      BY <2>0, <2>9, DoListShorts, CourseMoves DEF RightPlace, Deciding, Sections
    <2> QED BY <1>5, <2>1, <2>2, <2>3, <2>4, <2>5, <2>6, <2>7, <2>8, <2>9 DEF Morning
  <1>6. CASE ReadHeld("rule") \/ Screen("rule")
    <2>0. "rule" \in Runs
      BY DEF Runs
    <2>1. CASE ReadHeld("rule")
      <3>1. Moves("rule") /\ (job'["rule"].pc = "screen" \/ job'["rule"] = Idle)
        BY <2>0, <2>1, DoReadHeld
      <3>2. RightPlace("rule", job'["rule"])
        BY <2>0, <3>1, IdlePlace DEF RightPlace, Deciding
      <3> QED BY <2>0, <3>1, <3>2, CourseMoves
    <2>2. CASE Screen("rule")
      <3>1. Moves("rule") /\ job'["rule"].pc = "send" /\ job'["rule"].step = "rule"
        BY <2>0, <2>2, DoScreen
      <3> QED BY <2>0, <3>1, CourseMoves DEF RightPlace, Deciding
    <2> QED BY <1>6, <2>1, <2>2
  <1>7. CASE Outside
    <2>1. UNCHANGED job \/ job' = [r \in Runs |-> Idle]
      BY <1>7 DEF Outside, SettleEntry, SettleExit, Open, Close, NextDay, Crash
    <2>2. CASE UNCHANGED job
      BY <2>2 DEF Course, RightPlace
    <2>3. CASE job' = [r \in Runs |-> Idle]
      <3>1. \A r \in Runs : job'[r] = Idle
        BY <2>3
      <3> QED BY <3>1, IdlePlace DEF Course, RightPlace
    <2> QED BY <2>1, <2>2, <2>3
  <1> QED BY <1>1, <1>2, <1>3, <1>4, <1>5, <1>6, <1>7, StepKinds

\* The entries of this evening, and how many the run that sends them counts
Rules == {x \in Slots : entry[x] = "rule"}

DayInv ==
  /\ Course
  /\ RuleDayLimit
  /\ job["rule"].pc = "send" => Cardinality(Rules) <= job["rule"].placed

LEMMA DayShrinks ==
  ASSUME OrderAssumption, DayInv, Course', Rules' \subseteq Rules,
         job'["rule"].pc = "send" =>
           job["rule"].pc = "send" /\ job'["rule"].placed = job["rule"].placed,
         job["rule"].placed \in Nat
  PROVE  DayInv'
  <1>1. IsFiniteSet(Rules)
    <2>1. Rules \in SUBSET Slots BY DEF Rules
    <2> QED BY <2>1, Finite
  <1>2. Cardinality(Rules') <= Cardinality(Rules)
        /\ Cardinality(Rules') \in Nat /\ Cardinality(Rules) \in Nat
    BY <1>1, FS_Subset, FS_CardinalityType
  <1>3. Cardinality(Rules) <= MaxOrders => Cardinality(Rules') <= MaxOrders
    BY <1>2 DEF OrderAssumption
  <1>4. RuleDayLimit'
    BY <1>3 DEF DayInv, RuleDayLimit, Rules
  <1>5. job'["rule"].pc = "send" => Cardinality(Rules') <= job'["rule"].placed
    BY <1>2 DEF DayInv
  <1> QED BY <1>4, <1>5 DEF DayInv

LEMMA DayStep ==
  ASSUME OrderAssumption, TypeOK, DayInv, [Next]_vars
  PROVE  DayInv'
  <1>0. /\ Course' /\ "rule" \in Runs /\ RightPlace("rule", job["rule"])
        /\ job["rule"].placed \in Nat
    <2>1. "rule" \in Runs BY DEF Runs
    <2> QED BY <2>1, CourseStep, Locals DEF DayInv, Course, TypeOK
  <1>1. ASSUME entry' = entry, NEW r \in Runs \ {"rule"}, Moves(r)
        PROVE  DayInv'
    <2>1. Rules' = Rules /\ job'["rule"] = job["rule"]
      BY <1>0, <1>1 DEF Rules, Moves
    <2> QED BY <1>0, <2>1, DayShrinks
  <1>2. ASSUME entry' = entry, job'["rule"].pc # "send"
        PROVE  DayInv'
    <2>1. Rules' = Rules
      BY <1>2 DEF Rules
    <2> QED BY <1>0, <1>2, <2>1, DayShrinks
  <1>3. CASE UNCHANGED vars
    <2>1. Rules' = Rules /\ job' = job
      BY <1>3 DEF vars, books, Rules
    <2> QED BY <1>0, <2>1, DayShrinks
  <1>4. CASE \E r \in Runs : Start(r)
    <2>1. PICK r \in Runs : Start(r)
      BY <1>4
    <2>2. Moves(r) /\ job'[r].pc # "send"
      BY <2>1, DoStart
    <2>3. entry' = entry
      BY <2>1 DEF Start, books
    <2> QED BY <1>1, <1>2, <2>2, <2>3
  <1>5. CASE \E r \in Runs : Sending(r)
    <2>1. PICK r \in Runs : Sending(r)
      BY <1>5
    <2>2. CASE SendExit(r)
      <3>1. /\ Moves(r) /\ job[r].pc = "send" /\ job'[r].placed = job[r].placed
            /\ entry' = entry
        BY <2>2, DoSendExit DEF SendExit
      <3>2. CASE r = "rule"
        <4>1. Rules' = Rules
          BY <3>1 DEF Rules
        <4> QED BY <1>0, <3>1, <3>2, <4>1, DayShrinks
      <3> QED BY <1>1, <3>1, <3>2
    <2>3. CASE PassOver(r)
      <3>1. /\ Moves(r) /\ job[r].pc = "send" /\ job'[r].placed = job[r].placed
            /\ entry' = entry
        BY <2>3, DoPassOver DEF PassOver, books
      <3>2. CASE r = "rule"
        <4>1. Rules' = Rules
          BY <3>1 DEF Rules
        <4> QED BY <1>0, <3>1, <3>2, <4>1, DayShrinks
      <3> QED BY <1>1, <3>1, <3>2
    <2>4. CASE Link(r)
      <3>1. Moves(r) /\ job[r].pc = "link" /\ \A y \in Slots : entry'[y] = "rule" => entry[y] = "rule"
        BY <2>4, DoLink
      <3>2. r # "rule"
        BY <1>0, <3>1 DEF RightPlace
      <3>3. Rules' \subseteq Rules /\ job'["rule"] = job["rule"]
        BY <1>0, <3>1, <3>2 DEF Rules, Moves
      <3> QED BY <1>0, <3>3, DayShrinks
    <2>5. CASE Done(r)
      <3>1. Moves(r) /\ entry' = entry /\ job[r].pc = "send"
        BY <2>5, DoDone DEF Done, books
      <3>2. job'[r].pc # "send"
        BY <2>5, DoDone DEF StepAfter, Idle
      <3> QED BY <1>1, <1>2, <3>1, <3>2
    <2>6. CASE SendEntry(r)
      <3>1. PICK x \in job[r].todo :
              \/ /\ entry' = [entry EXCEPT ![x] = IF @ # "none" THEN @
                                               ELSE IF r = "rule" THEN "rule" ELSE "bare"]
                 /\ job'[r].placed = job[r].placed + 1
              \/ entry' = entry /\ job'[r].placed = job[r].placed
        BY <2>6, DoSendEntry
      <3>2. Moves(r) /\ job[r].pc = "send" /\ job'[r].step = job[r].step /\ ~Full(r)
        BY <2>6, DoSendEntry DEF Keeps
      <3>3. x \in Slots /\ entry \in [Slots -> Entering]
        BY Locals DEF TypeOK
      <3>4. CASE r # "rule"
        <4>1. Rules' \subseteq Rules
          BY <3>1, <3>3, <3>4 DEF Rules
        <4>2. job'["rule"] = job["rule"]
          BY <1>0, <3>2, <3>4 DEF Moves
        <4> QED BY <1>0, <4>1, <4>2, DayShrinks
      <3>5. CASE r = "rule" /\ entry' = entry /\ job'[r].placed = job[r].placed
        <4>1. Rules' = Rules
          BY <3>5 DEF Rules
        <4> QED BY <1>0, <3>2, <3>5, <4>1, DayShrinks
      <3>6. CASE /\ r = "rule" /\ job'[r].placed = job[r].placed + 1
                 /\ entry' = [entry EXCEPT ![x] = IF @ # "none" THEN @ ELSE "rule"]
        <4>1. job["rule"].placed < MaxOrders
          BY <1>0, <3>2, <3>6, Locals DEF Full, RightPlace, TypeOK, OrderAssumption
        <4>2. Rules' \subseteq Rules \cup {x} /\ Rules \in SUBSET Slots
          BY <3>3, <3>6 DEF Rules
        <4>3. IsFiniteSet(Rules)
          BY <4>2, Finite
        <4>4. /\ Cardinality(Rules') <= Cardinality(Rules \cup {x})
              /\ Cardinality(Rules \cup {x}) \in Nat /\ Cardinality(Rules) \in Nat
              /\ Cardinality(Rules') \in Nat
              /\ Cardinality(Rules \cup {x}) <= Cardinality(Rules) + 1
          <5>1. IsFiniteSet(Rules \cup {x})
            BY <4>3, FS_AddElement
          <5>2. Cardinality(Rules \cup {x}) = Cardinality(Rules)
                \/ Cardinality(Rules \cup {x}) = Cardinality(Rules) + 1
            BY <4>3, FS_AddElement
          <5> QED BY <4>2, <4>3, <5>1, <5>2, FS_Subset, FS_CardinalityType
        <4>5. Cardinality(Rules) <= job["rule"].placed
          BY <3>2, <3>6 DEF DayInv
        <4>6. Cardinality(Rules') <= MaxOrders /\ Cardinality(Rules') <= job'["rule"].placed
          BY <1>0, <3>6, <4>1, <4>4, <4>5 DEF OrderAssumption
        <4> QED BY <1>0, <4>6 DEF DayInv, RuleDayLimit, Rules
      <3> QED BY <3>1, <3>4, <3>5, <3>6
    <2> QED BY <2>1, <2>2, <2>3, <2>4, <2>5, <2>6 DEF Sending
  <1>6. CASE \E r \in Runs \ {"rule"} : ListExpired(r)
    BY <1>1, <1>6, DecidesKeeps DEF Decides
  <1>7. CASE Morning("auto")
    <2>1. "auto" \in Runs \ {"rule"}
      BY DEF Runs
    <2> QED BY <1>1, <1>7, <2>1, DecidesKeeps DEF Decides
  <1>8. CASE ReadHeld("rule")
    <2>1. entry' = entry /\ job'["rule"].pc # "send"
      BY <1>0, <1>8, DoReadHeld, DecidesKeeps DEF Decides, Idle
    <2> QED BY <1>2, <2>1
  <1>9. CASE Screen("rule")
    <2>1. entry' = entry
      BY <1>0, <1>9, DecidesKeeps DEF Decides
    <2>2. Rules' = Rules /\ job'["rule"].placed = Cardinality(Rules)
      BY <1>0, <1>9, <2>1, DoScreen DEF Rules
    <2>3. Rules \in SUBSET Slots
      BY DEF Rules
    <2>4. Cardinality(Rules) \in Nat
      BY <2>3, Counts
    <2>5. RuleDayLimit'
      BY <2>2 DEF DayInv, RuleDayLimit, Rules
    <2> QED BY <1>0, <2>2, <2>4, <2>5 DEF DayInv
  <1>10. CASE Outside
    <2>1. CASE Crash
      <3>1. entry' = entry /\ job'["rule"].pc # "send"
        BY <1>0, <2>1 DEF Crash, books, Idle
      <3> QED BY <1>2, <3>1
    <2>2. CASE NextDay
      <3>1. job' = job /\ Rules' \subseteq Rules
        BY <2>2 DEF NextDay, Rules
      <3> QED BY <1>0, <3>1, DayShrinks
    <2>3. CASE \E x \in Slots : SettleEntry(x)
      <3>1. job' = job /\ Rules' \subseteq Rules
        BY <2>3 DEF SettleEntry, Rules, TypeOK
      <3> QED BY <1>0, <3>1, DayShrinks
    <2>4. CASE (\E x \in Slots : SettleExit(x)) \/ Open \/ Close
      <3>1. job' = job /\ entry' = entry
        BY <2>4 DEF SettleExit, Open, Close, books
      <3>2. Rules' = Rules
        BY <3>1 DEF Rules
      <3> QED BY <1>0, <3>1, <3>2, DayShrinks
    <2> QED BY <1>10, <2>1, <2>2, <2>3, <2>4 DEF Outside
  <1> QED BY <1>3, <1>4, <1>5, <1>6, <1>7, <1>8, <1>9, <1>10, StepKinds

LEMMA InitDay == ASSUME OrderAssumption, Init PROVE DayInv
  <1>1. Course
    BY IdlePlace DEF Init, Course
  <1>2. {x \in Slots : entry[x] = "rule"} = {}
    BY DEF Init
  <1>3. RuleDayLimit
    BY <1>2, FS_EmptySet DEF RuleDayLimit, OrderAssumption
  <1>4. job["rule"].pc # "send"
    BY DEF Init, Runs, Idle
  <1> QED BY <1>1, <1>3, <1>4 DEF DayInv

(***************************************************************************)
(* However often the rule run of an evening is run again, it places no     *)
(* more buys that day than one run may: the count it starts from takes in  *)
(* what the runs before it placed (rule_execution.py:151).                 *)
(***************************************************************************)
THEOREM DayLimited == Spec => []RuleDayLimit
  <1> USE OrderAssumption
  <1>1. Init => TypeOK /\ DayInv
    BY InitType, InitDay
  <1>2. TypeOK /\ DayInv /\ [Next]_vars => (TypeOK /\ DayInv)'
    BY TypeStep, DayStep
  <1>3. DayInv => RuleDayLimit
    BY DEF DayInv
  <1> QED BY <1>1, <1>2, <1>3, PTL DEF Spec

-----------------------------------------------------------------------------
(* The cap and the sides, when the runs of the morning are over before     *)
(* orders are settled                                                      *)

Bought == Longs \cup PendingBuys
Used == Cardinality(Bought) + Cardinality(ShortRows)

\* The hours keep the runs of the morning, the settlements and the run of
\* the evening apart
Hours ==
  \A r \in Runs : job[r].pc # "idle" => phase = IF r = "rule" THEN "dusk" ELSE "dawn"

\* What the 8:50 run knows of the books: as long as it may enter, every
\* symbol bought is among those it claims or has bought itself
Ups(a) == {s \in Symbols : a.score[s] = "up"}

Ordering(a) ==
  \/ a.pc \in {"covers", "shorts"}
  \/ a.pc \in {"send", "link"} /\ a.step \in {"buys", "covers", "shorts"}

Knows(a) ==
  /\ a.pc = "survey" => Longs \subseteq a.held
  /\ (a.pc = "stops" \/ (a.pc = "send" /\ a.step = "stops")) /\ a.open /\ ~a.only
       => Bought \subseteq a.claimed
  /\ (a.pc \in {"sells", "buys"} \/ (a.pc = "send" /\ a.step = "sells")) /\ a.open
       => Bought \subseteq a.claimed
  /\ Ordering(a) /\ a.open
       => Bought \subseteq a.claimed \cup Ups(a) /\ Used <= a.count

\* What it is about to enter
Lists(a) ==
  /\ a.pc \in {"send", "link"} /\ a.step \in {"buys", "shorts"} /\ a.todo # {} => a.open
  /\ a.pc \in {"send", "link"} /\ a.step = "buys" =>
       \A x \in a.todo : x[1] = "long" /\ x[2] \notin ShortRows /\ a.score[x[2]] = "up"
  /\ a.pc \in {"send", "link"} /\ a.step = "shorts" =>
       \A x \in a.todo : x[1] = "short" /\ x[2] \notin a.claimed /\ a.score[x[2]] = "down"

\* The same of the evening's run
RuleKnows(a) ==
  /\ a.pc = "screen" => Longs \subseteq a.held
  /\ a.pc = "send" =>
       /\ Used <= a.count
       /\ \A x \in a.todo : x[1] = "long" /\ (a.score[x[2]] = "up" => x[2] \notin ShortRows)

EntryInv ==
  /\ Course /\ Hours /\ CapKept /\ SidesApart
  /\ Knows(job["auto"]) /\ Lists(job["auto"]) /\ RuleKnows(job["rule"])

\* With fewer symbols in the books the cap and the sides stay kept
LEMMA Fewer ==
  ASSUME OrderAssumption, Bought' \subseteq Bought, ShortRows' \subseteq ShortRows
  PROVE  /\ Used' \in Nat /\ Used \in Nat /\ Used' <= Used
         /\ CapKept => CapKept'
         /\ SidesApart => SidesApart'
  <1>1. Bought \in SUBSET Symbols /\ ShortRows \in SUBSET Symbols
    BY Subsets DEF Bought
  <1>2. IsFiniteSet(Bought) /\ IsFiniteSet(ShortRows)
    BY <1>1, Finite
  <1>3. /\ Cardinality(Bought') <= Cardinality(Bought)
        /\ Cardinality(Bought') \in Nat /\ Cardinality(Bought) \in Nat
    BY <1>2, FS_Subset, FS_CardinalityType
  <1>4. /\ Cardinality(ShortRows') <= Cardinality(ShortRows)
        /\ Cardinality(ShortRows') \in Nat /\ Cardinality(ShortRows) \in Nat
    BY <1>2, FS_Subset, FS_CardinalityType
  <1>5. Used' \in Nat /\ Used \in Nat /\ Used' <= Used
    BY <1>3, <1>4 DEF Used
  <1>6. CapKept <=> Used <= MaxPositions
    BY DEF CapKept, Used, Bought
  <1>7. CapKept' <=> Used' <= MaxPositions
    BY DEF CapKept, Used, Bought
  <1>8. CapKept => CapKept'
    BY <1>5, <1>6, <1>7 DEF OrderAssumption
  <1>9. SidesApart => SidesApart'
    <2>1. SidesApart <=> Bought \cap ShortRows = {}
      BY DEF SidesApart, Bought
    <2>2. SidesApart' <=> Bought' \cap ShortRows' = {}
      BY DEF SidesApart, Bought
    <2> QED BY <2>1, <2>2
  <1> QED BY <1>5, <1>8, <1>9

\* Books that are left, or that lose entries
LEMMA Left ==
  ASSUME \A y \in Slots : /\ pos[y] = "none" => pos'[y] = "none"
                          /\ entry[y] = "none" => entry'[y] = "none"
  PROVE  Longs' \subseteq Longs /\ Bought' \subseteq Bought /\ ShortRows' \subseteq ShortRows
  BY DEF Longs, PendingBuys, Bought, ShortRows, Slots

LEMMA Unmoved ==
  ASSUME pos' = pos, entry' = entry
  PROVE  /\ Longs' = Longs /\ Bought' = Bought /\ ShortRows' = ShortRows
         /\ PendingBuys' = PendingBuys /\ Used' = Used
         /\ CapKept' = CapKept /\ SidesApart' = SidesApart
  BY DEF Longs, PendingBuys, Bought, ShortRows, Used, CapKept, SidesApart

\* A run that is left alone still knows what it knew when the books shrink
LEMMA KnowsLess ==
  ASSUME OrderAssumption, TypeOK, Longs' \subseteq Longs,
         Bought' \subseteq Bought, ShortRows' \subseteq ShortRows
  PROVE  /\ job'["auto"] = job["auto"] /\ Knows(job["auto"]) => Knows(job["auto"])'
         /\ job'["auto"] = job["auto"] /\ Lists(job["auto"]) => Lists(job["auto"])'
         /\ job'["rule"] = job["rule"] /\ RuleKnows(job["rule"]) => RuleKnows(job["rule"])'
  <1>1. Used' \in Nat /\ Used \in Nat /\ Used' <= Used
    BY Fewer
  <1>2. "auto" \in Runs /\ "rule" \in Runs
    BY DEF Runs
  <1>3. job["auto"].count \in Nat /\ job["rule"].count \in Nat
    BY <1>2, Locals DEF TypeOK
  <1>4. ASSUME NEW r \in {"auto", "rule"} PROVE Used <= job[r].count => Used' <= job[r].count
    BY <1>1, <1>3, <1>4
  <1>5. ASSUME job'["auto"] = job["auto"], Knows(job["auto"]) PROVE Knows(job["auto"])'
    BY <1>4, <1>5 DEF Knows, Ordering, Ups
  <1>6. ASSUME job'["auto"] = job["auto"], Lists(job["auto"]) PROVE Lists(job["auto"])'
    BY <1>6 DEF Lists
  <1>7. ASSUME job'["rule"] = job["rule"], RuleKnows(job["rule"]) PROVE RuleKnows(job["rule"])'
    BY <1>4, <1>7 DEF RuleKnows
  <1> QED BY <1>5, <1>6, <1>7

LEMMA Asleep ==
  /\ job'["auto"].pc \in {"idle", "lock", "gate", "predict"} =>
       Knows(job["auto"])' /\ Lists(job["auto"])'
  /\ job'["rule"].pc \in {"idle", "read"} => RuleKnows(job["rule"])'
  BY DEF Knows, Lists, RuleKnows, Ordering

\* The runs that are not at work at these hours
LEMMA Apart ==
  ASSUME Hours
  PROVE  /\ job["auto"].pc # "idle" => job["rule"].pc = "idle"
         /\ job["rule"].pc # "idle" => job["auto"].pc = "idle"
         /\ phase = "open" => \A r \in Runs : job[r].pc = "idle"
  BY DEF Hours, Runs

LEMMA HoursMoves ==
  ASSUME Hours, NEW r \in Runs, Moves(r), job[r].pc # "idle", phase' = phase
  PROVE  Hours'
  BY DEF Hours, Moves

LEMMA HoursStep ==
  ASSUME OrderAssumption, Late = FALSE, TypeOK, Hours, [Next]_vars
  PROVE  Hours'
  <1>1. CASE UNCHANGED vars
    BY <1>1 DEF vars, day, Hours
  <1>2. CASE \E r \in Runs : Start(r)
    <2>1. PICK r \in Runs : Start(r)
      BY <1>2
    <2>2. Moves(r)
      BY <2>1, DoStart
    <2>3. phase = IF r = "rule" THEN "dusk" ELSE "dawn"
      BY <2>1 DEF Start, OnTime
    <2>4. phase' = phase
      BY <2>1 DEF Start
    <2> QED BY <2>2, <2>3, <2>4 DEF Hours, Moves
  <1>3. CASE \E r \in Runs : Sending(r)
    <2>1. PICK r \in Runs : Sending(r)
      BY <1>3
    <2>2. CASE SendExit(r)
      BY <2>2, DoSendExit, HoursMoves DEF SendExit, day
    <2>3. CASE SendEntry(r)
      <3>1. Moves(r) /\ job[r].pc = "send"
        BY <2>3, DoSendEntry
      <3>2. phase' = phase
        BY <2>3 DEF SendEntry, day
      <3> QED BY <3>1, <3>2, HoursMoves
    <2>4. CASE PassOver(r)
      BY <2>4, DoPassOver, HoursMoves DEF PassOver, day
    <2>5. CASE Link(r)
      <3>1. Moves(r) /\ job[r].pc = "link"
        BY <2>5, DoLink
      <3>2. phase' = phase
        BY <2>5 DEF Link, day
      <3> QED BY <3>1, <3>2, HoursMoves
    <2>6. CASE Done(r)
      BY <2>6, DoDone, HoursMoves
    <2> QED BY <2>1, <2>2, <2>3, <2>4, <2>5, <2>6 DEF Sending
  <1>4. CASE \E r \in Runs : Decides(r)
    <2>1. PICK r \in Runs : Decides(r)
      BY <1>4
    <2>2. Moves(r) /\ phase' = phase
      BY <2>1, DecidesKeeps
    <2>3. CASE ListExpired(r)
      BY <2>2, <2>3, HoursMoves DEF ListExpired, At
    <2>4. CASE Morning(r)
      <3>1. job[r].pc \in Deciding
        BY <2>4 DEF Morning, Gate, Predict, Survey, ListStops, StepsFail, ListSells,
                    ListBuys, ListCovers, ListShorts, At, Deciding
      <3> QED BY <2>2, <3>1, HoursMoves DEF Deciding
    <2>5. CASE ReadHeld(r) \/ Screen(r)
      BY <2>2, <2>5, HoursMoves DEF ReadHeld, Screen, At
    <2> QED BY <2>1, <2>3, <2>4, <2>5 DEF Decides
  <1>5. CASE Outside
    <2>1. CASE Crash
      <3>1. \A r \in Runs : job'[r].pc = "idle"
        BY <2>1 DEF Crash, Idle
      <3> QED BY <3>1 DEF Hours
    <2>2. CASE Open \/ Close \/ NextDay
      <3>1. \A r \in Runs : job'[r].pc = "idle"
        BY <2>2 DEF Open, Close, NextDay, AllIdle, At
      <3> QED BY <3>1 DEF Hours
    <2>3. CASE \E x \in Slots : SettleEntry(x) \/ SettleExit(x)
      BY <2>3 DEF SettleEntry, SettleExit, day, Hours
    <2> QED BY <1>5, <2>1, <2>2, <2>3 DEF Outside
  <1>6. "auto" \in Runs /\ "rule" \in Runs
    BY DEF Runs
  <1> QED BY <1>1, <1>2, <1>3, <1>4, <1>5, <1>6, StepKinds DEF Decides

\* An entry waiting adds at most its symbol
LEMMA EnterLong ==
  ASSUME OrderAssumption, TypeOK, NEW x \in Slots, x[1] = "long", NEW v, pos' = pos,
         entry' = [entry EXCEPT ![x] = IF @ # "none" THEN @ ELSE v]
  PROVE  /\ Longs' = Longs /\ ShortRows' = ShortRows
         /\ Bought' \subseteq Bought \cup {x[2]} /\ x[2] \in Symbols
         /\ Used' \in Nat /\ Used \in Nat /\ Used' <= Used + 1
  <1>1. x = <<"long", x[2]>> /\ x[2] \in Symbols
    BY DEF Slots
  <1>2. entry \in [Slots -> Entering]
    BY DEF TypeOK
  <1>3. \A y \in Slots : y # x => entry'[y] = entry[y]
    BY <1>2
  <1>4. \A s \in Symbols : <<"short", s>> \in Slots /\ <<"short", s>> # x
                           /\ <<"long", s>> \in Slots /\ (<<"long", s>> = x => s = x[2])
    BY <1>1 DEF Slots
  <1>5. Longs' = Longs /\ ShortRows' = ShortRows
    BY <1>3, <1>4 DEF Longs, ShortRows
  <1>6. PendingBuys' \subseteq PendingBuys \cup {x[2]}
    BY <1>3, <1>4 DEF PendingBuys
  <1>7. Bought' \subseteq Bought \cup {x[2]}
    BY <1>5, <1>6 DEF Bought
  <1>8. Bought \in SUBSET Symbols /\ ShortRows \in SUBSET Symbols
    BY Subsets DEF Bought
  <1>9. IsFiniteSet(Bought) /\ IsFiniteSet(Bought \cup {x[2]})
    BY <1>8, Finite, FS_AddElement
  <1>10. Cardinality(Bought \cup {x[2]}) <= Cardinality(Bought) + 1
    <2>1. Cardinality(Bought) \in Nat
      BY <1>9, FS_CardinalityType
    <2>2. \/ Cardinality(Bought \cup {x[2]}) = Cardinality(Bought)
          \/ Cardinality(Bought \cup {x[2]}) = Cardinality(Bought) + 1
      BY <1>9, FS_AddElement
    <2> QED BY <2>1, <2>2
  <1>11. /\ Cardinality(Bought') <= Cardinality(Bought \cup {x[2]})
         /\ Cardinality(Bought') \in Nat /\ Cardinality(Bought) \in Nat
         /\ Cardinality(Bought \cup {x[2]}) \in Nat
    BY <1>7, <1>9, FS_Subset, FS_CardinalityType
  <1>12. Cardinality(ShortRows) \in Nat
    BY <1>8, Counts
  <1>13. Used' \in Nat /\ Used \in Nat /\ Used' <= Used + 1
    BY <1>5, <1>10, <1>11, <1>12 DEF Used
  <1> QED BY <1>1, <1>5, <1>7, <1>13

LEMMA EnterShort ==
  ASSUME OrderAssumption, TypeOK, NEW x \in Slots, x[1] = "short", NEW v, pos' = pos,
         entry' = [entry EXCEPT ![x] = IF @ # "none" THEN @ ELSE v]
  PROVE  /\ Longs' = Longs /\ Bought' = Bought
         /\ ShortRows' \subseteq ShortRows \cup {x[2]} /\ x[2] \in Symbols
         /\ Used' \in Nat /\ Used \in Nat /\ Used' <= Used + 1
  <1>1. x = <<"short", x[2]>> /\ x[2] \in Symbols
    BY DEF Slots
  <1>2. entry \in [Slots -> Entering]
    BY DEF TypeOK
  <1>3. \A y \in Slots : y # x => entry'[y] = entry[y]
    BY <1>2
  <1>4. \A s \in Symbols : <<"long", s>> \in Slots /\ <<"long", s>> # x
                           /\ <<"short", s>> \in Slots /\ (<<"short", s>> = x => s = x[2])
    BY <1>1 DEF Slots
  <1>5. Longs' = Longs /\ PendingBuys' = PendingBuys
    BY <1>3, <1>4 DEF Longs, PendingBuys
  <1>6. ShortRows' \subseteq ShortRows \cup {x[2]}
    BY <1>3, <1>4 DEF ShortRows
  <1>7. Bought' = Bought
    BY <1>5 DEF Bought
  <1>8. Bought \in SUBSET Symbols /\ ShortRows \in SUBSET Symbols
    BY Subsets DEF Bought
  <1>9. IsFiniteSet(ShortRows) /\ IsFiniteSet(ShortRows \cup {x[2]})
    BY <1>8, Finite, FS_AddElement
  <1>10. Cardinality(ShortRows \cup {x[2]}) <= Cardinality(ShortRows) + 1
    <2>1. Cardinality(ShortRows) \in Nat
      BY <1>9, FS_CardinalityType
    <2>2. \/ Cardinality(ShortRows \cup {x[2]}) = Cardinality(ShortRows)
          \/ Cardinality(ShortRows \cup {x[2]}) = Cardinality(ShortRows) + 1
      BY <1>9, FS_AddElement
    <2> QED BY <2>1, <2>2
  <1>11. /\ Cardinality(ShortRows') <= Cardinality(ShortRows \cup {x[2]})
         /\ Cardinality(ShortRows') \in Nat /\ Cardinality(ShortRows) \in Nat
         /\ Cardinality(ShortRows \cup {x[2]}) \in Nat
    BY <1>6, <1>9, FS_Subset, FS_CardinalityType
  <1>12. Cardinality(Bought) \in Nat
    BY <1>8, Counts
  <1>13. Used' \in Nat /\ Used \in Nat /\ Used' <= Used + 1
    BY <1>7, <1>10, <1>11, <1>12 DEF Used
  <1> QED BY <1>1, <1>5, <1>6, <1>7, <1>13

\* The 8:50 run sends or passes over what enters nothing
LEMMA SendsKnown ==
  ASSUME OrderAssumption, TypeOK, Longs' \subseteq Longs,
         Bought' \subseteq Bought, ShortRows' \subseteq ShortRows,
         Keeps("auto"), job'["auto"].pc = "send",
         \/ job["auto"].pc = "send"
         \/ job["auto"].pc = "link" /\ job["auto"].step \in {"buys", "shorts"},
         job'["auto"].todo \subseteq job["auto"].todo,
         job'["auto"].count = job["auto"].count,
         Knows(job["auto"]), Lists(job["auto"])
  PROVE  Knows(job["auto"])' /\ Lists(job["auto"])'
  <1>1. Used' \in Nat /\ Used \in Nat /\ Used' <= Used
    BY Fewer
  <1>2. "auto" \in Runs
    BY DEF Runs
  <1>3. job["auto"].count \in Nat
    BY <1>2, Locals DEF TypeOK
  <1>4. Used <= job["auto"].count => Used' <= job'["auto"].count
    BY <1>1, <1>3
  <1>5. Ups(job["auto"])' = Ups(job["auto"])
    BY DEF Ups, Keeps
  <1>6. Ordering(job["auto"])' => Ordering(job["auto"])
    BY DEF Ordering, Keeps
  <1>7. Knows(job["auto"])'
    <2>1. job'["auto"].step = "stops" /\ job'["auto"].open /\ ~job'["auto"].only
            => Bought' \subseteq job'["auto"].claimed
      BY DEF Knows, Keeps
    <2>2. job'["auto"].step = "sells" /\ job'["auto"].open => Bought' \subseteq job'["auto"].claimed
      BY DEF Knows, Keeps
    <2>3. Ordering(job["auto"])' /\ job'["auto"].open
            => Bought' \subseteq job'["auto"].claimed \cup Ups(job["auto"])'
               /\ Used' <= job'["auto"].count
      <3>1. ASSUME Ordering(job["auto"])', job'["auto"].open
            PROVE  /\ Bought \subseteq job["auto"].claimed \cup Ups(job["auto"])
                   /\ Used <= job["auto"].count
        BY <1>6, <3>1 DEF Knows, Keeps
      <3> QED BY <1>4, <1>5, <3>1 DEF Keeps
    <2> QED BY <2>1, <2>2, <2>3 DEF Knows
  <1>8. Lists(job["auto"])'
    BY DEF Lists, Keeps
  <1> QED BY <1>7, <1>8

\* What the 8:50 run knows after a step that decides
LEMMA MorningKnows ==
  ASSUME OrderAssumption, TypeOK, EntryInv, Morning("auto")
  PROVE  Knows(job["auto"])' /\ Lists(job["auto"])'
  <1>0. "auto" \in Runs
    BY DEF Runs
  <1>1. pos' = pos /\ entry' = entry
    BY <1>0, DecidesKeeps DEF Decides
  <1>2. /\ Longs' = Longs /\ Bought' = Bought /\ ShortRows' = ShortRows /\ Used' = Used
    BY <1>1, Unmoved
  <1>3. Knows(job["auto"])
    BY DEF EntryInv
  <1>4. CASE Gate("auto")
    BY <1>0, <1>4, DoGate, Asleep
  <1>5. CASE Predict("auto")
    <2>1. \/ job'["auto"].pc = "survey" /\ job'["auto"].held = Longs
          \/ job'["auto"].pc = "stops" /\ job'["auto"].only = TRUE
      BY <1>0, <1>5, DoPredict
    <2> QED BY <1>2, <2>1 DEF Knows, Lists, Ordering
  <1>6. CASE Survey("auto")
    <2>1. /\ job'["auto"].pc = "stops"
          /\ job'["auto"].open => job'["auto"].claimed = job["auto"].held \cup PendingBuys
      BY <1>0, <1>6, DoSurvey
    <2>2. Longs \subseteq job["auto"].held
      BY <1>3, <1>6 DEF Knows, Survey, At
    <2>3. job'["auto"].open => Bought' \subseteq job'["auto"].claimed
      BY <1>2, <2>1, <2>2 DEF Bought
    <2> QED BY <2>1, <2>3 DEF Knows, Lists, Ordering
  <1>7. CASE ListStops("auto")
    <2>1. /\ job'["auto"].pc = "send" /\ job'["auto"].step = "stops"
          /\ job'["auto"].open = job["auto"].open /\ job'["auto"].claimed = job["auto"].claimed
          /\ ~job'["auto"].only => ~job["auto"].only
      BY <1>0, <1>7, DoListStops
    <2>2. job["auto"].pc = "stops"
      BY <1>7 DEF ListStops, At
    <2>3. job'["auto"].open /\ ~job'["auto"].only => Bought' \subseteq job'["auto"].claimed
      BY <1>2, <1>3, <2>1, <2>2 DEF Knows
    <2> QED BY <2>1, <2>3 DEF Knows, Lists, Ordering
  <1>8. CASE StepsFail("auto")
    <2>1. job'["auto"] = Idle
      BY <1>0, <1>8, DoFinish DEF StepsFail
    <2> QED BY <2>1, Asleep DEF Idle
  <1>9. CASE ListSells("auto")
    <2>1. /\ job'["auto"].pc = "send" /\ job'["auto"].step = "sells"
          /\ job'["auto"].open = job["auto"].open /\ job'["auto"].claimed = job["auto"].claimed
      BY <1>0, <1>9, DoListSells
    <2>2. job["auto"].pc = "sells"
      BY <1>9 DEF ListSells, At
    <2>3. job'["auto"].open => Bought' \subseteq job'["auto"].claimed
      BY <1>2, <1>3, <2>1, <2>2 DEF Knows
    <2> QED BY <2>1, <2>3 DEF Knows, Lists, Ordering
  <1>10. CASE ListBuys("auto")
    <2>1. /\ job'["auto"].pc = "send" /\ job'["auto"].step = "buys"
          /\ job'["auto"].open = job["auto"].open /\ job'["auto"].claimed = job["auto"].claimed
          /\ job'["auto"].score = job["auto"].score
          /\ job'["auto"].count = Cardinality(job["auto"].claimed) + Cardinality(ShortRows)
          /\ job'["auto"].todo # {} => job["auto"].open
          /\ \A x \in job'["auto"].todo :
               x[1] = "long" /\ x[2] \notin ShortRows /\ job["auto"].score[x[2]] = "up"
      BY <1>0, <1>10, DoListBuys
    <2>2. job["auto"].pc = "buys"
      BY <1>10 DEF ListBuys, At
    <2>3. job["auto"].open => Bought \subseteq job["auto"].claimed
      BY <1>3, <2>2 DEF Knows
    <2>4. ASSUME job["auto"].open PROVE Used <= job'["auto"].count
      <3>1. job["auto"].claimed \in SUBSET Symbols /\ Bought \in SUBSET Symbols
            /\ ShortRows \in SUBSET Symbols
        BY <1>0, Locals, Subsets DEF TypeOK, Bought
      <3>2. Cardinality(Bought) <= Cardinality(job["auto"].claimed)
        BY <2>3, <2>4, <3>1, Finite, FS_Subset
      <3>3. /\ Cardinality(Bought) \in Nat /\ Cardinality(job["auto"].claimed) \in Nat
            /\ Cardinality(ShortRows) \in Nat
        BY <3>1, Counts
      <3> QED BY <2>1, <3>2, <3>3 DEF Used
    <2>5. Knows(job["auto"])'
      <3>1. job'["auto"].open => Bought' \subseteq job'["auto"].claimed \cup Ups(job["auto"])'
                                 /\ Used' <= job'["auto"].count
        BY <1>2, <2>1, <2>3, <2>4
      <3> QED BY <2>1, <3>1 DEF Knows
    <2>6. Lists(job["auto"])'
      BY <1>2, <2>1 DEF Lists
    <2> QED BY <2>5, <2>6
  <1>11. CASE ListCovers("auto")
    <2>1. /\ job'["auto"].pc = "send" /\ job'["auto"].step = "covers"
          /\ job'["auto"].open = job["auto"].open /\ job'["auto"].claimed = job["auto"].claimed
          /\ job'["auto"].score = job["auto"].score /\ job'["auto"].count = job["auto"].count
      BY <1>0, <1>11, DoListCovers
    <2>2. job["auto"].pc = "covers"
      BY <1>11 DEF ListCovers, At
    <2>3. job["auto"].open => Bought \subseteq job["auto"].claimed \cup Ups(job["auto"])
                              /\ Used <= job["auto"].count
      BY <1>3, <2>2 DEF Knows, Ordering
    <2>4. Ups(job["auto"])' = Ups(job["auto"])
      BY <2>1 DEF Ups
    <2> QED BY <1>2, <2>1, <2>3, <2>4 DEF Knows, Lists
  <1>12. CASE ListShorts("auto")
    <2>1. /\ job'["auto"].pc = "send" /\ job'["auto"].step = "shorts"
          /\ job'["auto"].open = job["auto"].open /\ job'["auto"].claimed = job["auto"].claimed
          /\ job'["auto"].score = job["auto"].score /\ job'["auto"].count = job["auto"].count
          /\ job'["auto"].todo # {} => job["auto"].open
          /\ \A x \in job'["auto"].todo :
               /\ x[1] = "short" /\ x[2] \notin job["auto"].claimed
               /\ job["auto"].score[x[2]] = "down"
      BY <1>0, <1>12, DoListShorts
    <2>2. job["auto"].pc = "shorts"
      BY <1>12 DEF ListShorts, At
    <2>3. job["auto"].open => Bought \subseteq job["auto"].claimed \cup Ups(job["auto"])
                              /\ Used <= job["auto"].count
      BY <1>3, <2>2 DEF Knows, Ordering
    <2>4. Ups(job["auto"])' = Ups(job["auto"])
      BY <2>1 DEF Ups
    <2>5. Knows(job["auto"])'
      BY <1>2, <2>1, <2>3, <2>4 DEF Knows
    <2>6. Lists(job["auto"])'
      BY <2>1 DEF Lists
    <2> QED BY <2>5, <2>6
  <1> QED BY <1>4, <1>5, <1>6, <1>7, <1>8, <1>9, <1>10, <1>11, <1>12 DEF Morning

\* Books left as they are: the other runs know what they knew
LEMMA OthersKnow ==
  ASSUME OrderAssumption, TypeOK, EntryInv, pos' = pos, entry' = entry
  PROVE  /\ CapKept' /\ SidesApart'
         /\ job'["auto"] = job["auto"] => Knows(job["auto"])' /\ Lists(job["auto"])'
         /\ job'["rule"] = job["rule"] => RuleKnows(job["rule"])'
  <1>1. /\ Longs' = Longs /\ Bought' = Bought /\ ShortRows' = ShortRows
        /\ CapKept' = CapKept /\ SidesApart' = SidesApart
    BY Unmoved
  <1> QED BY <1>1, KnowsLess DEF EntryInv

\* The end of a list
LEMMA DoneKnows ==
  ASSUME OrderAssumption, TypeOK, EntryInv, Done("auto")
  PROVE  Knows(job["auto"])' /\ Lists(job["auto"])'
  <1>0. "auto" \in Runs
    BY DEF Runs
  <1>1. job["auto"].pc = "send" /\ pos' = pos /\ entry' = entry
    BY <1>0, DoDone DEF Done, books
  <1>2. Longs' = Longs /\ Bought' = Bought /\ ShortRows' = ShortRows /\ Used' = Used
    BY <1>1, Unmoved
  <1>3. CASE job'["auto"] = Idle
    BY <1>3, Asleep DEF Idle
  <1>4. CASE StepAfter("auto") # "end" /\ job'["auto"].pc = StepAfter("auto")
             /\ Keeps("auto") /\ job'["auto"].count = job["auto"].count
    <2>1. Knows(job["auto"])
      BY DEF EntryInv
    <2>2. /\ job'["auto"].open = job["auto"].open /\ job'["auto"].claimed = job["auto"].claimed
          /\ Ups(job["auto"])' = Ups(job["auto"])
      BY <1>4 DEF Keeps, Ups
    <2>3. CASE job["auto"].step = "expired"
      BY <1>4, <2>3, Asleep DEF StepAfter
    <2>4. CASE job["auto"].step = "stops"
      <3>1. job'["auto"].pc = "sells" /\ ~job["auto"].only
        BY <1>4, <2>4 DEF StepAfter
      <3>2. job["auto"].open => Bought \subseteq job["auto"].claimed
        BY <1>1, <2>1, <2>4, <3>1 DEF Knows
      <3> QED BY <1>2, <2>2, <3>1, <3>2 DEF Knows, Lists, Ordering
    <2>5. CASE job["auto"].step = "sells"
      <3>1. job'["auto"].pc = "buys"
        BY <1>4, <2>5 DEF StepAfter
      <3>2. job["auto"].open => Bought \subseteq job["auto"].claimed
        BY <1>1, <2>1, <2>5 DEF Knows
      <3> QED BY <1>2, <2>2, <3>1, <3>2 DEF Knows, Lists, Ordering
    <2>6. CASE job["auto"].step \in {"buys", "covers"}
      <3>1. job'["auto"].pc \in {"covers", "shorts"}
        BY <1>4, <2>6 DEF StepAfter
      <3>2. job["auto"].open => Bought \subseteq job["auto"].claimed \cup Ups(job["auto"])
                                /\ Used <= job["auto"].count
        BY <1>1, <2>1, <2>6 DEF Knows, Ordering
      <3> QED BY <1>2, <1>4, <2>2, <3>1, <3>2 DEF Knows, Lists
    <2>7. job["auto"].step \in {"expired", "stops", "sells", "buys", "covers"}
      BY <1>4 DEF StepAfter
    <2> QED BY <2>3, <2>4, <2>5, <2>6, <2>7
  <1> QED BY <1>0, <1>3, <1>4, DoDone

\* An entry of the 8:50 run
LEMMA EntersKnown ==
  ASSUME OrderAssumption, TypeOK, EntryInv, SendEntry("auto")
  PROVE  Knows(job["auto"])' /\ Lists(job["auto"])' /\ CapKept' /\ SidesApart'
  <1>0. "auto" \in Runs
    BY DEF Runs
  <1>1. PICK x \in job["auto"].todo :
              /\ Enters("auto", x) /\ job'["auto"].todo = job["auto"].todo \ {x}
              /\ \/ /\ entry' = [entry EXCEPT ![x] = IF @ # "none" THEN @ ELSE "bare"]
                    /\ job'["auto"].count = job["auto"].count + 1
                    /\ job'["auto"].pc \in {"send", "link"}
                 \/ /\ entry' = entry /\ job'["auto"].pc = "send"
                    /\ job'["auto"].count = job["auto"].count
    BY <1>0, DoSendEntry
  <1>2. Keeps("auto") /\ job["auto"].pc = "send" /\ ~Full("auto")
    BY <1>0, DoSendEntry
  <1>3. pos' = pos
    BY DEF SendEntry
  <1>4. x \in Slots /\ job["auto"].count \in Nat
    BY <1>0, Locals DEF TypeOK
  <1>5. job["auto"].step \in {"buys", "shorts"}
    <2>1. job["auto"].step \in Sections
      BY <1>0, <1>2 DEF EntryInv, Course, RightPlace
    <2> QED BY <1>1, <2>1 DEF Enters, Sections
  <1>6. CASE entry' = entry /\ job'["auto"].pc = "send" /\ job'["auto"].count = job["auto"].count
    <2>1. Longs' = Longs /\ Bought' = Bought /\ ShortRows' = ShortRows
      BY <1>3, <1>6, Unmoved
    <2>2. Knows(job["auto"])' /\ Lists(job["auto"])'
      BY <1>1, <1>2, <1>6, <2>1, SendsKnown DEF EntryInv
    <2> QED BY <1>3, <1>6, <2>2, OthersKnow
  <1>7. CASE /\ entry' = [entry EXCEPT ![x] = IF @ # "none" THEN @ ELSE "bare"]
             /\ job'["auto"].count = job["auto"].count + 1
             /\ job'["auto"].pc \in {"send", "link"}
    <2>1. job["auto"].open
      BY <1>1, <1>2, <1>5 DEF EntryInv, Lists
    <2>2. Bought \subseteq job["auto"].claimed \cup Ups(job["auto"]) /\ Used <= job["auto"].count
      BY <1>2, <1>5, <2>1 DEF EntryInv, Knows, Ordering
    <2>3. job["auto"].count < MaxPositions
      BY <1>2, <1>4 DEF Full, OrderAssumption
    <2>4. /\ job'["auto"].step = job["auto"].step /\ job'["auto"].open = job["auto"].open
          /\ job'["auto"].claimed = job["auto"].claimed
          /\ job'["auto"].score = job["auto"].score
          /\ Ups(job["auto"])' = Ups(job["auto"])
      BY <1>2 DEF Keeps, Ups
    <2>5. ASSUME Used' \in Nat, Used \in Nat, Used' <= Used + 1
          PROVE  CapKept' /\ Used' <= job'["auto"].count
      <3>1. Used' <= MaxPositions /\ Used' <= job'["auto"].count
        BY <1>4, <1>7, <2>2, <2>3, <2>5 DEF OrderAssumption
      <3> QED BY <3>1 DEF CapKept, Used, Bought
    <2>6. CASE job["auto"].step = "buys"
      <3>1. x[1] = "long" /\ x[2] \notin ShortRows /\ job["auto"].score[x[2]] = "up"
        BY <1>2, <2>6 DEF EntryInv, Lists
      <3>2. /\ ShortRows' = ShortRows /\ Bought' \subseteq Bought \cup {x[2]}
            /\ x[2] \in Symbols /\ Used' \in Nat /\ Used \in Nat /\ Used' <= Used + 1
        BY <1>3, <1>4, <1>7, <3>1, EnterLong
      <3>3. CapKept' /\ Used' <= job'["auto"].count
        BY <2>5, <3>2
      <3>4. SidesApart'
        BY <3>1, <3>2 DEF EntryInv, SidesApart, Bought
      <3>5. Bought' \subseteq job'["auto"].claimed \cup Ups(job["auto"])'
        BY <2>2, <2>4, <3>1, <3>2 DEF Ups
      <3>6. Knows(job["auto"])'
        BY <1>7, <2>4, <2>6, <3>3, <3>5 DEF Knows
      <3>7. Lists(job["auto"])'
        BY <1>1, <1>2, <2>1, <2>4, <2>6, <3>2 DEF EntryInv, Lists
      <3> QED BY <3>3, <3>4, <3>6, <3>7
    <2>7. CASE job["auto"].step = "shorts"
      <3>1. x[1] = "short" /\ x[2] \notin job["auto"].claimed /\ job["auto"].score[x[2]] = "down"
        BY <1>2, <2>7 DEF EntryInv, Lists
      <3>2. /\ Bought' = Bought /\ ShortRows' \subseteq ShortRows \cup {x[2]}
            /\ x[2] \in Symbols /\ Used' \in Nat /\ Used \in Nat /\ Used' <= Used + 1
        BY <1>3, <1>4, <1>7, <3>1, EnterShort
      <3>3. CapKept' /\ Used' <= job'["auto"].count
        BY <2>5, <3>2
      <3>4. x[2] \notin Bought
        BY <2>2, <3>1 DEF Ups
      <3>5. SidesApart'
        BY <3>2, <3>4 DEF EntryInv, SidesApart, Bought
      <3>6. Knows(job["auto"])'
        BY <1>7, <2>2, <2>4, <2>7, <3>2, <3>3 DEF Knows
      <3>7. Lists(job["auto"])'
        BY <1>1, <1>2, <2>1, <2>4, <2>7 DEF EntryInv, Lists
      <3> QED BY <3>3, <3>5, <3>6, <3>7
    <2> QED BY <1>5, <2>6, <2>7
  <1> QED BY <1>1, <1>6, <1>7

\* A buy of the evening's run
LEMMA RuleEnters ==
  ASSUME OrderAssumption, TypeOK, EntryInv, SendEntry("rule")
  PROVE  RuleKnows(job["rule"])' /\ CapKept' /\ SidesApart'
  <1>0. "rule" \in Runs
    BY DEF Runs
  <1>1. PICK x \in job["rule"].todo :
              /\ Enters("rule", x) /\ job'["rule"].todo = job["rule"].todo \ {x}
              /\ \/ /\ entry' = [entry EXCEPT ![x] = IF @ # "none" THEN @ ELSE "rule"]
                    /\ job'["rule"].count = job["rule"].count + 1
                 \/ /\ entry' = entry
                    /\ job'["rule"].count = job["rule"].count
    BY <1>0, DoSendEntry
  <1>2. /\ job["rule"].pc = "send" /\ ~Full("rule")
        /\ job'["rule"].step = job["rule"].step /\ job'["rule"].score = job["rule"].score
    BY <1>0, DoSendEntry DEF Keeps
  <1>3. pos' = pos
    BY DEF SendEntry
  <1>4. x \in Slots /\ job["rule"].count \in Nat
    BY <1>0, Locals DEF TypeOK
  <1>5. job["rule"].step = "rule"
    BY <1>0, <1>2 DEF EntryInv, Course, RightPlace
  <1>6. /\ Used <= job["rule"].count
        /\ \A y \in job["rule"].todo :
             y[1] = "long" /\ (job["rule"].score[y[2]] = "up" => y[2] \notin ShortRows)
    BY <1>2 DEF EntryInv, RuleKnows
  <1>7. CASE entry' = entry /\ job'["rule"].count = job["rule"].count
    <2>1. ShortRows' = ShortRows /\ Used' = Used
      BY <1>3, <1>7, Unmoved
    <2>2. Longs' = Longs
      BY <1>3 DEF Longs
    <2>3. RuleKnows(job["rule"])'
      <3>1. job'["rule"].pc # "screen"
        BY <1>0, <1>2, DoSendEntry
      <3> QED BY <1>1, <1>2, <1>6, <1>7, <2>1, <3>1 DEF RuleKnows
    <2> QED BY <1>3, <1>7, <2>3, OthersKnow
  <1>8. CASE /\ entry' = [entry EXCEPT ![x] = IF @ # "none" THEN @ ELSE "rule"]
             /\ job'["rule"].count = job["rule"].count + 1
    <2>1. x[1] = "long" /\ x[2] \notin ShortRows
      BY <1>1, <1>5, <1>6 DEF Enters
    <2>2. job["rule"].count < MaxPositions
      BY <1>2, <1>4 DEF Full, OrderAssumption
    <2>3. /\ ShortRows' = ShortRows /\ Bought' \subseteq Bought \cup {x[2]}
          /\ Used' \in Nat /\ Used \in Nat /\ Used' <= Used + 1
      BY <1>3, <1>4, <1>8, <2>1, EnterLong
    <2>4. Used' <= MaxPositions /\ Used' <= job'["rule"].count
      BY <1>4, <1>6, <1>8, <2>2, <2>3 DEF OrderAssumption
    <2>5. CapKept'
      BY <2>4 DEF CapKept, Used, Bought
    <2>6. SidesApart'
      BY <2>1, <2>3 DEF EntryInv, SidesApart, Bought
    <2>7. RuleKnows(job["rule"])'
      <3>1. job'["rule"].pc # "screen"
        BY <1>0, <1>2, DoSendEntry
      <3> QED BY <1>1, <1>2, <1>6, <2>3, <2>4, <3>1 DEF RuleKnows
    <2> QED BY <2>5, <2>6, <2>7
  <1> QED BY <1>1, <1>7, <1>8

LEMMA EntrySends ==
  ASSUME OrderAssumption, TypeOK, EntryInv, NEW r \in Runs, Sending(r)
  PROVE  /\ CapKept' /\ SidesApart'
         /\ Knows(job["auto"])' /\ Lists(job["auto"])' /\ RuleKnows(job["rule"])'
  <1>0. /\ "auto" \in Runs /\ "rule" \in Runs
        /\ RightPlace(r, job[r]) /\ r \in {"auto", "horizon", "rule"}
    BY DEF Runs, EntryInv, Course
  <1>1. CASE SendExit(r) \/ PassOver(r)
    <2>1. /\ Moves(r) /\ Keeps(r) /\ job'[r].pc = "send" /\ job[r].pc = "send"
          /\ job'[r].count = job[r].count /\ job'[r].todo \subseteq job[r].todo
      BY <1>1, DoSendExit, DoPassOver
    <2>2. pos' = pos /\ entry' = entry
      BY <1>1 DEF SendExit, PassOver, books
    <2>3. /\ Longs' = Longs /\ Bought' = Bought /\ ShortRows' = ShortRows /\ Used' = Used
      BY <2>2, Unmoved
    <2>4. CASE r = "auto"
      <3>1. Knows(job["auto"])' /\ Lists(job["auto"])'
        BY <2>1, <2>3, <2>4, SendsKnown DEF EntryInv
      <3>2. job'["rule"] = job["rule"]
        BY <1>0, <2>1, <2>4 DEF Moves
      <3> QED BY <2>2, <3>1, <3>2, OthersKnow
    <2>5. CASE r = "rule"
      <3>1. RuleKnows(job["rule"])'
        BY <2>1, <2>3, <2>5 DEF EntryInv, RuleKnows, Keeps
      <3>2. job'["auto"] = job["auto"]
        BY <1>0, <2>1, <2>5 DEF Moves
      <3> QED BY <2>2, <3>1, <3>2, OthersKnow
    <2>6. CASE r = "horizon"
      <3>1. job'["auto"] = job["auto"] /\ job'["rule"] = job["rule"]
        BY <1>0, <2>1, <2>6 DEF Moves
      <3> QED BY <2>2, <3>1, OthersKnow
    <2> QED BY <1>0, <2>4, <2>5, <2>6
  <1>2. CASE SendEntry(r)
    <2>1. Moves(r) /\ job[r].pc = "send"
      BY <1>2, DoSendEntry
    <2>2. PICK x \in job[r].todo : Enters(r, x)
      BY <1>2, DoSendEntry
    <2>3. CASE r = "auto"
      <3>1. job'["rule"].pc = "idle"
        BY <1>0, <2>1, <2>3, Apart DEF Moves, EntryInv
      <3>2. RuleKnows(job["rule"])'
        BY <3>1, Asleep
      <3> QED BY <1>2, <2>3, <3>2, EntersKnown
    <2>4. CASE r = "rule"
      <3>1. job'["auto"].pc = "idle"
        BY <1>0, <2>1, <2>4, Apart DEF Moves, EntryInv
      <3>2. Knows(job["auto"])' /\ Lists(job["auto"])'
        BY <3>1, Asleep
      <3> QED BY <1>2, <2>4, <3>2, RuleEnters
    <2>5. r # "horizon"
      BY <1>0, <2>1, <2>2 DEF RightPlace, Enters
    <2> QED BY <1>0, <2>3, <2>4, <2>5
  <1>3. CASE Link(r)
    <2>1. /\ Moves(r) /\ Keeps(r) /\ job'[r].pc = "send" /\ job[r].pc = "link"
          /\ job'[r].count = job[r].count /\ job'[r].todo \subseteq job[r].todo
      BY <1>3, DoLink
    <2>2. \A y \in Slots : /\ pos[y] = "none" => pos'[y] = "none"
                           /\ entry[y] = "none" => entry'[y] = "none"
      BY <1>3, DoLink
    <2>3. Longs' \subseteq Longs /\ Bought' \subseteq Bought /\ ShortRows' \subseteq ShortRows
      BY <2>2, Left
    <2>4. r = "auto" /\ job["auto"].step \in {"buys", "shorts"}
      BY <1>0, <2>1 DEF RightPlace
    <2>5. Knows(job["auto"])' /\ Lists(job["auto"])'
      BY <2>1, <2>3, <2>4, SendsKnown DEF EntryInv
    <2>6. job'["rule"] = job["rule"]
      BY <1>0, <2>1, <2>4 DEF Moves
    <2>7. RuleKnows(job["rule"])'
      BY <2>3, <2>6, KnowsLess DEF EntryInv
    <2> QED BY <2>3, <2>5, <2>7, Fewer DEF EntryInv
  <1>4. CASE Done(r)
    <2>1. Moves(r) /\ job[r].pc = "send"
      BY <1>4, DoDone
    <2>2. pos' = pos /\ entry' = entry
      BY <1>4 DEF Done, books
    <2>3. CASE r = "auto"
      <3>1. Knows(job["auto"])' /\ Lists(job["auto"])'
        BY <1>4, <2>3, DoneKnows
      <3>2. job'["rule"] = job["rule"]
        BY <1>0, <2>1, <2>3 DEF Moves
      <3> QED BY <2>2, <3>1, <3>2, OthersKnow
    <2>4. CASE r = "rule"
      <3>1. StepAfter("rule") = "end"
        BY <1>0, <2>1, <2>4 DEF StepAfter, RightPlace
      <3>2. job'["rule"] = Idle
        BY <1>0, <1>4, <2>4, <3>1, DoDone
      <3>3. RuleKnows(job["rule"])'
        BY <3>2, Asleep DEF Idle
      <3>4. job'["auto"] = job["auto"]
        BY <1>0, <2>1, <2>4 DEF Moves
      <3> QED BY <2>2, <3>3, <3>4, OthersKnow
    <2>5. CASE r = "horizon"
      <3>1. job'["auto"] = job["auto"] /\ job'["rule"] = job["rule"]
        BY <1>0, <2>1, <2>5 DEF Moves
      <3> QED BY <2>2, <3>1, OthersKnow
    <2> QED BY <1>0, <2>3, <2>4, <2>5
  <1> QED BY <1>1, <1>2, <1>3, <1>4 DEF Sending

LEMMA EntryOutside ==
  ASSUME OrderAssumption, TypeOK, EntryInv, Outside
  PROVE  /\ CapKept' /\ SidesApart'
         /\ Knows(job["auto"])' /\ Lists(job["auto"])' /\ RuleKnows(job["rule"])'
  <1>0. "auto" \in Runs /\ "rule" \in Runs
    BY DEF Runs
  <1>1. CASE Crash
    <2>1. /\ pos' = pos /\ entry' = entry
          /\ job'["auto"].pc = "idle" /\ job'["rule"].pc = "idle"
      BY <1>0, <1>1 DEF Crash, books, Idle
    <2> QED BY <2>1, OthersKnow, Asleep
  <1>2. CASE Open \/ Close
    <2>1. pos' = pos /\ entry' = entry /\ job' = job
      BY <1>2 DEF Open, Close, books
    <2> QED BY <2>1, OthersKnow
  <1>3. ASSUME job' = job,
               Longs' \subseteq Longs, Bought' \subseteq Bought, ShortRows' \subseteq ShortRows
        PROVE  /\ CapKept' /\ SidesApart'
               /\ Knows(job["auto"])' /\ Lists(job["auto"])' /\ RuleKnows(job["rule"])'
    BY <1>3, KnowsLess, Fewer DEF EntryInv
  <1>4. CASE NextDay
    <2>1. job' = job
      BY <1>4 DEF NextDay
    <2>2. \A y \in Slots : /\ pos[y] = "none" => pos'[y] = "none"
                           /\ entry[y] = "none" => entry'[y] = "none"
      BY <1>4 DEF NextDay
    <2> QED BY <1>3, <2>1, <2>2, Left
  <1>5. CASE \E x \in Slots : SettleExit(x)
    <2>1. job' = job
      BY <1>5 DEF SettleExit
    <2>2. \A y \in Slots : /\ pos[y] = "none" => pos'[y] = "none"
                           /\ entry[y] = "none" => entry'[y] = "none"
      BY <1>5 DEF SettleExit, TypeOK
    <2> QED BY <1>3, <2>1, <2>2, Left
  <1>6. CASE \E x \in Slots : SettleEntry(x)
    <2>1. PICK x \in Slots : SettleEntry(x)
      BY <1>6
    <2>2. job'["auto"].pc = "idle" /\ job'["rule"].pc = "idle"
      BY <1>0, <2>1, Apart DEF SettleEntry, EntryInv
    <2>3. \A y \in Slots : /\ y # x => pos'[y] = pos[y] /\ entry'[y] = entry[y]
                           /\ entry[x] # "none" /\ entry'[x] = "none"
      BY <2>1 DEF SettleEntry, TypeOK
    <2>4. Bought' \subseteq Bought
      <3>1. \A s \in Symbols : s \in Bought' => s \in Bought
        <4>1. SUFFICES ASSUME NEW s \in Symbols, s \in Bought' PROVE s \in Bought
          OBVIOUS
        <4>2. <<"long", s>> \in Slots
          BY DEF Slots
        <4>3. CASE x = <<"long", s>>
          BY <2>3, <4>2, <4>3 DEF Bought, PendingBuys
        <4>4. CASE x # <<"long", s>>
          BY <2>3, <4>1, <4>2, <4>4 DEF Bought, PendingBuys, Longs
        <4> QED BY <4>3, <4>4
      <3> QED BY <3>1 DEF Bought, Longs, PendingBuys
    <2>5. ShortRows' \subseteq ShortRows
      <3>1. ASSUME NEW s \in Symbols, s \in ShortRows' PROVE s \in ShortRows
        <4>2. <<"short", s>> \in Slots
          BY DEF Slots
        <4>3. CASE x = <<"short", s>>
          BY <2>3, <4>2, <4>3 DEF ShortRows
        <4>4. CASE x # <<"short", s>>
          BY <2>3, <3>1, <4>2, <4>4 DEF ShortRows
        <4> QED BY <4>3, <4>4
      <3> QED BY <3>1 DEF ShortRows
    <2> QED BY <2>2, <2>4, <2>5, Fewer, Asleep DEF EntryInv
  <1> QED BY <1>1, <1>2, <1>4, <1>5, <1>6 DEF Outside

LEMMA EntryStep ==
  ASSUME OrderAssumption, Late = FALSE, TypeOK, EntryInv, [Next]_vars
  PROVE  EntryInv'
  <1>0. Course' /\ Hours' /\ "auto" \in Runs /\ "rule" \in Runs
    BY CourseStep, HoursStep DEF EntryInv, Runs
  <1>1. CASE UNCHANGED vars
    <2>1. pos' = pos /\ entry' = entry /\ job' = job
      BY <1>1 DEF vars, books
    <2> QED BY <1>0, <2>1, OthersKnow DEF EntryInv
  <1>2. CASE \E r \in Runs : Start(r)
    <2>1. PICK r \in Runs : Start(r)
      BY <1>2
    <2>2. /\ Moves(r) /\ job'[r].pc = IF r = "rule" THEN "read" ELSE "lock"
      BY <2>1, DoStart
    <2>3. pos' = pos /\ entry' = entry
      BY <2>1 DEF Start, books
    <2>4. job'["auto"] = job["auto"] \/ job'["auto"].pc = "lock"
      BY <1>0, <2>2 DEF Moves
    <2>5. job'["rule"] = job["rule"] \/ job'["rule"].pc = "read"
      BY <1>0, <2>2 DEF Moves
    <2> QED BY <1>0, <2>3, <2>4, <2>5, OthersKnow, Asleep DEF EntryInv
  <1>3. CASE \E r \in Runs : Sending(r)
    BY <1>0, <1>3, EntrySends DEF EntryInv
  <1>4. CASE \E r \in Runs \ {"rule"} : ListExpired(r)
    <2>1. PICK r \in Runs \ {"rule"} : ListExpired(r)
      BY <1>4
    <2>2. Moves(r) /\ pos' = pos /\ entry' = entry
      BY <2>1, DecidesKeeps DEF Decides
    <2>3. job'["rule"] = job["rule"]
      BY <1>0, <2>1, <2>2 DEF Moves
    <2>4. Knows(job["auto"])' /\ Lists(job["auto"])'
      <3>1. CASE r = "auto"
        <4>1. job'["auto"].pc = "send" /\ job'["auto"].step = "expired"
          BY <2>1, <3>1, DoListExpired
        <4> QED BY <4>1 DEF Knows, Lists, Ordering
      <3>2. CASE r # "auto"
        <4>1. job'["auto"] = job["auto"]
          BY <1>0, <2>2, <3>2 DEF Moves
        <4> QED BY <2>2, <4>1, OthersKnow
      <3> QED BY <3>1, <3>2
    <2> QED BY <1>0, <2>2, <2>3, <2>4, OthersKnow DEF EntryInv
  <1>5. CASE Morning("auto")
    <2>1. Moves("auto") /\ pos' = pos /\ entry' = entry
      BY <1>0, <1>5, DecidesKeeps DEF Decides
    <2>2. job'["rule"] = job["rule"]
      BY <1>0, <2>1 DEF Moves
    <2> QED BY <1>0, <1>5, <2>1, <2>2, OthersKnow, MorningKnows DEF EntryInv
  <1>6. CASE ReadHeld("rule") \/ Screen("rule")
    <2>1. Moves("rule") /\ pos' = pos /\ entry' = entry
      BY <1>0, <1>6, DecidesKeeps DEF Decides
    <2>2. job'["auto"] = job["auto"]
      BY <1>0, <2>1 DEF Moves
    <2>3. /\ Longs' = Longs /\ Bought' = Bought /\ ShortRows' = ShortRows /\ Used' = Used
      BY <2>1, Unmoved
    <2>4. RuleKnows(job["rule"])'
      <3>1. CASE ReadHeld("rule")
        <4>1. \/ job'["rule"].pc = "screen" /\ job'["rule"].held = Longs
              \/ job'["rule"] = Idle
          BY <1>0, <3>1, DoReadHeld
        <4>2. CASE job'["rule"] = Idle
          BY <4>2, Asleep DEF Idle
        <4> QED BY <2>3, <4>1, <4>2 DEF RuleKnows
      <3>2. CASE Screen("rule")
        <4>1. /\ job'["rule"].pc = "send" /\ job'["rule"].score = job["rule"].score
              /\ job'["rule"].count = Cardinality(job["rule"].held \cup PendingBuys)
                                        + Cardinality(ShortRows)
              /\ \A x \in job'["rule"].todo :
                   x[1] = "long" /\ (job["rule"].score[x[2]] = "up" => x[2] \notin ShortRows)
          BY <1>0, <3>2, DoScreen
        <4>2. Longs \subseteq job["rule"].held
          BY <3>2 DEF EntryInv, RuleKnows, Screen, At
        <4> DEFINE claimed == job["rule"].held \cup PendingBuys
        <4>3. Bought \subseteq claimed /\ claimed \in SUBSET Symbols /\ Bought \in SUBSET Symbols
              /\ ShortRows \in SUBSET Symbols
          BY <1>0, <4>2, Locals, Subsets DEF TypeOK, Bought
        <4> HIDE DEF claimed
        <4>4. Cardinality(Bought) <= Cardinality(claimed)
          BY <4>3, Finite, FS_Subset
        <4>5. /\ Cardinality(Bought) \in Nat /\ Cardinality(claimed) \in Nat
              /\ Cardinality(ShortRows) \in Nat
          BY <4>3, Counts
        <4>6. Used <= job'["rule"].count
          BY <4>1, <4>4, <4>5 DEF Used, claimed
        <4> QED BY <2>3, <4>1, <4>6 DEF RuleKnows
      <3> QED BY <1>6, <3>1, <3>2
    <2> QED BY <1>0, <2>1, <2>2, <2>4, OthersKnow DEF EntryInv
  <1>7. CASE Outside
    BY <1>0, <1>7, EntryOutside DEF EntryInv
  <1> QED BY <1>1, <1>2, <1>3, <1>4, <1>5, <1>6, <1>7, StepKinds

LEMMA InitEntry == ASSUME OrderAssumption, Init PROVE EntryInv
  <1>1. "auto" \in Runs /\ "rule" \in Runs
    BY DEF Runs
  <1>2. \A r \in Runs : job[r] = Idle
    BY DEF Init
  <1>3. Course
    BY <1>2, IdlePlace DEF Course
  <1>4. Hours
    BY <1>2 DEF Hours, Idle
  <1>5. Longs = {} /\ PendingBuys = {} /\ ShortRows = {}
    BY DEF Init, Longs, PendingBuys, ShortRows, Slots
  <1>6. SidesApart
    BY <1>5 DEF SidesApart
  <1>7. CapKept
    <2>1. Cardinality(Longs \cup PendingBuys) = 0 /\ Cardinality(ShortRows) = 0
      BY <1>5, FS_EmptySet
    <2> QED BY <2>1 DEF CapKept, OrderAssumption
  <1>8. Knows(job["auto"]) /\ Lists(job["auto"]) /\ RuleKnows(job["rule"])
    BY <1>1, <1>2 DEF Knows, Lists, RuleKnows, Ordering, Idle
  <1> QED BY <1>3, <1>4, <1>6, <1>7, <1>8 DEF EntryInv

(***************************************************************************)
(* When the morning's runs are over before orders are settled, the symbols *)
(* held, bought or sold short, with those that wait to be, never exceed    *)
(* the cap (runner.py:282, rule_execution.py:204).                         *)
(***************************************************************************)
THEOREM CapHeld == Late = FALSE => (Spec => []CapKept)
  <1> SUFFICES ASSUME Late = FALSE PROVE Spec => []CapKept
    OBVIOUS
  <1> USE OrderAssumption
  <1>1. Init => TypeOK /\ EntryInv
    BY InitType, InitEntry
  <1>2. TypeOK /\ EntryInv /\ [Next]_vars => (TypeOK /\ EntryInv)'
    BY TypeStep, EntryStep
  <1>3. EntryInv => CapKept
    BY DEF EntryInv
  <1> QED BY <1>1, <1>2, <1>3, PTL DEF Spec

(***************************************************************************)
(* When the morning's runs are over before orders are settled, no symbol   *)
(* is bought while it is sold short, nor sold short while it is bought,    *)
(* waiting orders included (runner.py:261, 454; rule_execution.py:129).    *)
(***************************************************************************)
THEOREM SidesNeverMeet == Late = FALSE => (Spec => []SidesApart)
  <1> SUFFICES ASSUME Late = FALSE PROVE Spec => []SidesApart
    OBVIOUS
  <1> USE OrderAssumption
  <1>1. Init => TypeOK /\ EntryInv
    BY InitType, InitEntry
  <1>2. TypeOK /\ EntryInv /\ [Next]_vars => (TypeOK /\ EntryInv)'
    BY TypeStep, EntryStep
  <1>3. EntryInv => SidesApart
    BY DEF EntryInv
  <1> QED BY <1>1, <1>2, <1>3, PTL DEF Spec

-----------------------------------------------------------------------------
(* The single exit, when besides what is due and what waits can be read    *)

Readable == {"due", "pending"} \cap Faults = {}

\* The exits in a list are of what no exit waits for
Unsent(r) ==
  job[r].pc = "send" => \A x \in job[r].todo : ~Enters(r, x) => exits[x] = 0

Expiring(a) == a.pc = "send" /\ a.step = "expired"

\* The 8:50 run has left the positions past their date behind
Past(a) ==
  \/ a.pc = "send" /\ a.step # "expired"
  \/ a.pc \notin {"idle", "lock", "send"}

\* From the sells to the covers no exit of a short sale is sent
Covering(a) ==
  \/ a.pc \in {"buys", "covers"}
  \/ a.pc \in {"send", "link"} /\ a.step \in {"sells", "buys"}

DueExits ==
  /\ ~(Expiring(job["auto"]) /\ Expiring(job["horizon"]))
  /\ \A r \in {"auto", "horizon"} :
       Expiring(job[r]) => \A x \in job[r].todo : pos[x] = "due"
  /\ Expiring(job["auto"]) =>
       \A x \in Slots : pos[x] = "due" => x \in job["auto"].todo \/ exits[x] > 0
  /\ Past(job["auto"]) => \A x \in Slots : pos[x] = "due" => exits[x] > 0

Seen(a) ==
  /\ Covering(a) => \A x \in Slots : x[1] = "short" /\ exits[x] > 0 => x \in a.seen
  /\ a.pc = "send" /\ a.step = "sells" => \A x \in a.todo : x[1] = "long"

ExitInv ==
  /\ OneExitWaits /\ DueExits /\ Seen(job["auto"])
  /\ \A r \in Runs : Unsent(r)

\* With every run at rest only the exits themselves are left to count
LEMMA AtRest ==
  ASSUME \A r \in Runs : job'[r].pc = "idle", OneExitWaits'
  PROVE  ExitInv'
  <1>1. job'["auto"].pc = "idle" /\ job'["horizon"].pc = "idle"
    BY DEF Runs
  <1> QED BY <1>1 DEF ExitInv, DueExits, Seen, Unsent, Expiring, Past, Covering

\* A step that sends no exit
LEMMA ExitKeeps ==
  ASSUME ExitInv, NEW r \in Runs, Moves(r), pos' = pos, exits' = exits,
         Unsent(r)', ~Expiring(job'[r]),
         r = "auto" => /\ Seen(job["auto"])'
                       /\ Past(job'["auto"]) =>
                            \A x \in Slots : pos[x] = "due" => exits[x] > 0
  PROVE  ExitInv'
  <1>0. "auto" \in Runs /\ "horizon" \in Runs
    BY DEF Runs
  <1>1. OneExitWaits'
    BY DEF ExitInv, OneExitWaits
  <1>2. ASSUME NEW q \in Runs PROVE Unsent(q)'
    <2>1. CASE q = r
      BY <2>1
    <2>2. CASE q # r
      <3>1. job'[q] = job[q]
        BY <2>2 DEF Moves
      <3> QED BY <3>1 DEF ExitInv, Unsent, Enters
    <2> QED BY <2>1, <2>2
  <1>3. CASE r = "auto"
    <2>1. job'["horizon"] = job["horizon"]
      BY <1>0, <1>3 DEF Moves
    <2>2. DueExits'
      BY <1>3, <2>1 DEF ExitInv, DueExits, Expiring, Past
    <2> QED BY <1>1, <1>2, <1>3, <2>2 DEF ExitInv
  <1>4. CASE r # "auto"
    <2>1. job'["auto"] = job["auto"]
      BY <1>0, <1>4 DEF Moves
    <2>2. job'["horizon"] = job["horizon"] \/ ~Expiring(job'["horizon"])
      BY <1>0 DEF Moves
    <2>3. DueExits'
      BY <2>1, <2>2 DEF ExitInv, DueExits, Expiring, Past
    <2>4. Seen(job["auto"])'
      BY <2>1 DEF ExitInv, Seen, Covering
    <2> QED BY <1>1, <1>2, <2>3, <2>4 DEF ExitInv
  <1> QED BY <1>3, <1>4

\* The list of what is past its date
LEMMA ExpiredListed ==
  ASSUME OrderAssumption, Readable, TypeOK, ExitInv, NEW r \in Runs \ {"rule"}, ListExpired(r)
  PROVE  ExitInv'
  <1>0. "auto" \in Runs /\ "horizon" \in Runs /\ r \in {"auto", "horizon"}
    BY DEF Runs
  <1>1. /\ Moves(r) /\ job'[r].pc = "send" /\ job'[r].step = "expired"
        /\ job'[r].todo = {x \in Slots : pos[x] = "due"} \ Waiting
    BY DoListExpired DEF Readable
  <1>2. pos' = pos /\ exits' = exits
    BY DecidesKeeps DEF Decides
  <1>3. \A q \in Runs : ~Expiring(job[q])
    BY DEF ListExpired, At, Expiring
  <1>4. \A x \in job'[r].todo : x \in Slots /\ pos[x] = "due" /\ exits[x] = 0
    BY <1>1 DEF Waiting, TypeOK
  <1>5. ASSUME NEW q \in Runs PROVE Unsent(q)'
    <2>1. CASE q = r
      BY <1>2, <1>4, <2>1 DEF Unsent
    <2>2. CASE q # r
      <3>1. job'[q] = job[q]
        BY <1>1, <2>2 DEF Moves
      <3> QED BY <1>2, <3>1 DEF ExitInv, Unsent, Enters
    <2> QED BY <2>1, <2>2
  <1>6. OneExitWaits'
    BY <1>2 DEF ExitInv, OneExitWaits
  <1>7. CASE r = "auto"
    <2>1. job'["horizon"] = job["horizon"]
      BY <1>0, <1>1, <1>7 DEF Moves
    <2>2. \A x \in Slots : pos[x] = "due" => x \in job'["auto"].todo \/ exits[x] > 0
      BY <1>1, <1>7 DEF Waiting
    <2>3. DueExits'
      BY <1>0, <1>1, <1>2, <1>3, <1>4, <1>7, <2>1, <2>2 DEF DueExits, Expiring, Past
    <2>4. Seen(job["auto"])'
      BY <1>1, <1>7 DEF Seen, Covering
    <2> QED BY <1>5, <1>6, <2>3, <2>4 DEF ExitInv
  <1>8. CASE r = "horizon"
    <2>1. job'["auto"] = job["auto"]
      BY <1>0, <1>1, <1>8 DEF Moves
    <2>2. ~Expiring(job'["auto"])
      BY <1>0, <1>3, <2>1
    <2>3. DueExits'
      BY <1>2, <1>4, <1>8, <2>1, <2>2 DEF ExitInv, DueExits, Expiring, Past
    <2>4. Seen(job["auto"])'
      BY <1>2, <2>1 DEF ExitInv, Seen, Covering
    <2> QED BY <1>5, <1>6, <2>3, <2>4 DEF ExitInv
  <1> QED BY <1>0, <1>7, <1>8

\* The 8:50 run decides
LEMMA MorningExits ==
  ASSUME OrderAssumption, Readable, TypeOK, ExitInv, Morning("auto")
  PROVE  ExitInv'
  <1>0. "auto" \in Runs
    BY DEF Runs
  <1>1. Moves("auto") /\ pos' = pos /\ exits' = exits
    BY <1>0, DecidesKeeps DEF Decides
  <1>2. job["auto"].pc \in Deciding
    BY DEF Morning, Gate, Predict, Survey, ListStops, StepsFail, ListSells,
           ListBuys, ListCovers, ListShorts, At, Deciding
  <1>3. \A x \in Slots : pos[x] = "due" => exits[x] > 0
    BY <1>2 DEF ExitInv, DueExits, Past, Deciding
  <1>4. "pending" \notin Faults
    BY DEF Readable
  <1>5. ASSUME Unsent("auto")', ~Expiring(job'["auto"]), Seen(job["auto"])'
        PROVE  ExitInv'
    BY <1>0, <1>1, <1>3, <1>5, ExitKeeps
  <1>6. ASSUME job'["auto"].pc \in {"predict", "survey", "stops", "idle"} PROVE ExitInv'
    BY <1>5, <1>6 DEF Unsent, Expiring, Seen, Covering
  <1>7. CASE Gate("auto")
    BY <1>0, <1>6, <1>7, DoGate
  <1>8. CASE Predict("auto")
    BY <1>0, <1>6, <1>8, DoPredict
  <1>9. CASE Survey("auto")
    BY <1>0, <1>6, <1>9, DoSurvey
  <1>10. CASE StepsFail("auto")
    <2>1. job'["auto"] = Idle
      BY <1>0, <1>10, DoFinish DEF StepsFail
    <2> QED BY <1>6, <2>1 DEF Idle
  <1>11. job'["auto"].todo \subseteq Slots /\ exits \in [Slots -> Nat]
    BY <1>0, <1>1, Locals DEF Moves, TypeOK
  <1>12. CASE ListStops("auto")
    <2>1. /\ job'["auto"].pc = "send" /\ job'["auto"].step = "stops"
          /\ job'["auto"].todo \cap Waiting = {}
      BY <1>0, <1>4, <1>12, DoListStops
    <2>2. \A x \in job'["auto"].todo : exits[x] = 0
      BY <1>11, <2>1 DEF Waiting
    <2> QED BY <1>1, <1>5, <2>1, <2>2 DEF Unsent, Expiring, Seen, Covering
  <1>13. CASE ListSells("auto")
    <2>1. /\ job'["auto"].pc = "send" /\ job'["auto"].step = "sells"
          /\ \A x \in job'["auto"].todo : x[1] = "long"
          /\ job'["auto"].todo \cap Waiting = {} /\ job'["auto"].seen = Waiting
      BY <1>0, <1>4, <1>13, DoListSells
    <2>2. \A x \in job'["auto"].todo : exits[x] = 0
      BY <1>11, <2>1 DEF Waiting
    <2>3. \A x \in Slots : exits[x] > 0 => x \in job'["auto"].seen
      BY <2>1 DEF Waiting
    <2> QED BY <1>1, <1>5, <2>1, <2>2, <2>3 DEF Unsent, Expiring, Seen, Covering
  <1>14. CASE ListBuys("auto")
    <2>1. /\ job'["auto"].pc = "send" /\ job'["auto"].step = "buys"
          /\ job'["auto"].seen = job["auto"].seen
      BY <1>0, <1>14, DoListBuys
    <2>2. \A x \in Slots : x[1] = "short" /\ exits[x] > 0 => x \in job["auto"].seen
      BY <1>14 DEF ListBuys, At, ExitInv, Seen, Covering
    <2> QED BY <1>1, <1>5, <2>1, <2>2 DEF Unsent, Enters, Expiring, Seen, Covering
  <1>15. CASE ListCovers("auto")
    <2>1. /\ job'["auto"].pc = "send" /\ job'["auto"].step = "covers"
          /\ \A x \in job'["auto"].todo : x[1] = "short" /\ x \notin job["auto"].seen
      BY <1>0, <1>15, DoListCovers
    <2>2. \A x \in Slots : x[1] = "short" /\ exits[x] > 0 => x \in job["auto"].seen
      BY <1>15 DEF ListCovers, At, ExitInv, Seen, Covering
    <2>3. \A x \in job'["auto"].todo : exits[x] = 0
      BY <1>11, <2>1, <2>2
    <2> QED BY <1>1, <1>5, <2>1, <2>3 DEF Unsent, Expiring, Seen, Covering
  <1>16. CASE ListShorts("auto")
    <2>1. job'["auto"].pc = "send" /\ job'["auto"].step = "shorts"
      BY <1>0, <1>16, DoListShorts
    <2> QED BY <1>5, <2>1 DEF Unsent, Enters, Expiring, Seen, Covering
  <1> QED BY <1>7, <1>8, <1>9, <1>10, <1>12, <1>13, <1>14, <1>15, <1>16 DEF Morning

\* An exit is sent: nobody else had it on a list
LEMMA ExitSent ==
  ASSUME OrderAssumption, Readable, TypeOK, Course, Hours, ExitInv,
         NEW r \in Runs, SendExit(r)
  PROVE  ExitInv'
  <1>0. /\ "auto" \in Runs /\ "horizon" \in Runs /\ "rule" \in Runs
        /\ r \in {"auto", "horizon", "rule"}
        /\ \A q \in Runs : RightPlace(q, job[q])
    BY DEF Runs, Course
  <1>1. PICK x \in job[r].todo :
          /\ ~Enters(r, x) /\ job'[r].todo = job[r].todo \ {x}
          /\ \/ exits' = [exits EXCEPT ![x] = @ + 1]
             \/ exits' = exits /\ (job[r].step = "expired" => "due" \in Faults)
    BY DoSendExit
  <1>2. Moves(r) /\ Keeps(r) /\ job'[r].pc = "send" /\ job[r].pc = "send"
    BY DoSendExit
  <1>3. pos' = pos
    BY DEF SendExit
  <1>4. x \in Slots /\ exits \in [Slots -> Nat] /\ exits[x] = 0
    BY <1>1, <1>2, Locals DEF TypeOK, ExitInv, Unsent
  <1>5. \A y \in Slots : /\ y # x => exits'[y] = exits[y]
                         /\ exits[y] > 0 => exits'[y] > 0
                         /\ exits[y] <= 1 => exits'[y] <= 1
    BY <1>1, <1>4
  <1>6. OneExitWaits'
    BY <1>5 DEF ExitInv, OneExitWaits
  <1>7. job[r].step = "expired" => exits'[x] > 0
    BY <1>1, <1>4 DEF Readable
  <1>8. Unsent(r)'
    <2>1. \A y \in job[r].todo : Enters(r, y)' <=> Enters(r, y)
      BY <1>2 DEF Keeps, Enters
    <2>2. job[r].todo \subseteq Slots
      BY Locals DEF TypeOK
    <2> QED BY <1>1, <1>2, <1>5, <2>1, <2>2 DEF ExitInv, Unsent
  <1>9. CASE r = "auto"
    <2>1. job'["horizon"] = job["horizon"] /\ job'["rule"] = job["rule"]
      BY <1>0, <1>2, <1>9 DEF Moves
    <2>2. job["rule"].pc = "idle"
      BY <1>2, <1>9, Apart
    <2>3. Expiring(job["horizon"]) => job["horizon"].todo = {}
      <3>1. SUFFICES ASSUME Expiring(job["horizon"]), NEW y \in job["horizon"].todo PROVE FALSE
        OBVIOUS
      <3>2. ~Expiring(job["auto"])
        BY <3>1 DEF ExitInv, DueExits
      <3>3. Past(job["auto"])
        BY <1>2, <1>9, <3>2 DEF Past, Expiring
      <3>4. pos[y] = "due" /\ y \in Slots
        BY <1>0, <3>1, Locals DEF ExitInv, DueExits, TypeOK
      <3>5. exits[y] > 0
        BY <3>3, <3>4 DEF ExitInv, DueExits
      <3>6. exits[y] = 0
        BY <1>0, <3>1 DEF ExitInv, Unsent, Enters, Expiring
      <3> QED BY <3>5, <3>6
    <2>4. job["horizon"].pc = "send" => Expiring(job["horizon"])
      BY <1>0 DEF RightPlace, Expiring
    <2>5. Unsent("horizon")' /\ Unsent("rule")'
      BY <2>1, <2>2, <2>3, <2>4 DEF Unsent
    <2>6. \A q \in Runs : Unsent(q)'
      BY <1>8, <1>9, <2>5 DEF Runs
    <2>7. DueExits'
      <3>1. ~(Expiring(job'["auto"]) /\ Expiring(job'["horizon"]))
        BY <1>2, <1>9, <2>1 DEF ExitInv, DueExits, Expiring, Keeps
      <3>2. \A q \in {"auto", "horizon"} :
              Expiring(job'[q]) => \A y \in job'[q].todo : pos[y] = "due"
        BY <1>1, <1>2, <1>9, <2>1 DEF ExitInv, DueExits, Expiring, Keeps
      <3>3. Expiring(job'["auto"]) =>
              \A y \in Slots : pos[y] = "due" => y \in job'["auto"].todo \/ exits'[y] > 0
        <4>1. SUFFICES ASSUME Expiring(job'["auto"]), NEW y \in Slots, pos[y] = "due",
                              y \notin job'["auto"].todo
                       PROVE  exits'[y] > 0
          OBVIOUS
        <4>2. job["auto"].step = "expired" /\ Expiring(job["auto"])
          BY <1>2, <1>9, <4>1 DEF Expiring, Keeps
        <4>3. y \in job["auto"].todo \/ exits[y] > 0
          BY <4>1, <4>2 DEF ExitInv, DueExits
        <4> QED BY <1>1, <1>5, <1>7, <1>9, <4>1, <4>2, <4>3
      <3>4. Past(job'["auto"]) => \A y \in Slots : pos[y] = "due" => exits'[y] > 0
        <4>1. Past(job'["auto"]) => Past(job["auto"])
          BY <1>2, <1>9 DEF Past, Keeps
        <4> QED BY <1>5, <4>1 DEF ExitInv, DueExits
      <3> QED BY <1>3, <3>1, <3>2, <3>3, <3>4 DEF DueExits
    <2>8. Seen(job["auto"])'
      <3>1. Covering(job'["auto"]) => Covering(job["auto"]) /\ x[1] = "long"
        <4>1. SUFFICES ASSUME Covering(job'["auto"])
                       PROVE  Covering(job["auto"]) /\ x[1] = "long"
          OBVIOUS
        <4>2. job["auto"].step \in {"sells", "buys"}
          BY <1>2, <1>9, <4>1 DEF Covering, Keeps
        <4>3. job["auto"].step = "sells"
          BY <1>1, <1>9, <4>2 DEF Enters
        <4> QED BY <1>1, <1>2, <1>9, <4>3 DEF ExitInv, Seen, Covering
      <3>2. ASSUME Covering(job'["auto"]), NEW y \in Slots, y[1] = "short", exits'[y] > 0
            PROVE  y \in job'["auto"].seen
        <4>1. y # x
          BY <3>1, <3>2
        <4>2. y \in job["auto"].seen
          BY <1>5, <3>1, <3>2, <4>1 DEF ExitInv, Seen
        <4> QED BY <1>2, <1>9, <4>2 DEF Keeps
      <3>3. job'["auto"].step = "sells" => \A y \in job'["auto"].todo : y[1] = "long"
        BY <1>1, <1>2, <1>9 DEF ExitInv, Seen, Keeps
      <3> QED BY <3>2, <3>3 DEF Seen
    <2> QED BY <1>6, <2>6, <2>7, <2>8 DEF ExitInv
  <1>10. CASE r = "horizon"
    <2>1. job'["auto"] = job["auto"] /\ job'["rule"] = job["rule"]
      BY <1>0, <1>2, <1>10 DEF Moves
    <2>2. job["rule"].pc = "idle"
      BY <1>0, <1>2, <1>10 DEF Hours
    <2>3. Expiring(job["horizon"])
      BY <1>0, <1>2, <1>10 DEF RightPlace, Expiring
    <2>4. pos[x] = "due"
      BY <1>1, <1>10, <2>3 DEF ExitInv, DueExits
    <2>5. ~Past(job["auto"]) /\ ~Expiring(job["auto"])
      BY <1>4, <2>3, <2>4 DEF ExitInv, DueExits
    <2>6. job["auto"].pc \in {"idle", "lock"}
      BY <2>5 DEF Past, Expiring
    <2>7. Unsent("auto")' /\ Unsent("rule")'
      BY <2>1, <2>2, <2>6 DEF Unsent
    <2>8. \A q \in Runs : Unsent(q)'
      BY <1>8, <1>10, <2>7 DEF Runs
    <2>9. DueExits'
      BY <1>1, <1>3, <1>10, <2>1, <2>3, <2>6 DEF ExitInv, DueExits, Expiring, Past
    <2>10. Seen(job["auto"])'
      BY <2>1, <2>6 DEF Seen, Covering
    <2> QED BY <1>6, <2>8, <2>9, <2>10 DEF ExitInv
  <1>11. CASE r = "rule"
    <2>1. job'["auto"] = job["auto"] /\ job'["horizon"] = job["horizon"]
      BY <1>0, <1>2, <1>11 DEF Moves
    <2>2. job["auto"].pc = "idle" /\ job["horizon"].pc = "idle"
      BY <1>0, <1>2, <1>11 DEF Hours
    <2>3. Unsent("auto")' /\ Unsent("horizon")'
      BY <2>1, <2>2 DEF Unsent
    <2>4. \A q \in Runs : Unsent(q)'
      BY <1>8, <1>11, <2>3 DEF Runs
    <2> QED BY <1>6, <2>1, <2>2, <2>4 DEF ExitInv, DueExits, Seen, Expiring, Past, Covering
  <1> QED BY <1>0, <1>9, <1>10, <1>11

\* The other steps of sending
LEMMA ExitSends ==
  ASSUME OrderAssumption, Readable, TypeOK, Course, Hours, ExitInv,
         NEW r \in Runs, Sending(r)
  PROVE  ExitInv'
  <1>0. /\ "auto" \in Runs /\ "horizon" \in Runs
        /\ r \in {"auto", "horizon", "rule"}
        /\ RightPlace(r, job[r]) /\ RightPlace("horizon", job["horizon"])
    BY DEF Runs, Course
  <1>1. CASE SendExit(r)
    BY <1>1, ExitSent
  <1>2. CASE PassOver(r) \/ SendEntry(r)
    <2>1. PICK x \in job[r].todo : Enters(r, x) /\ job'[r].todo = job[r].todo \ {x}
      BY <1>2, DoPassOver, DoSendEntry
    <2>2. Moves(r) /\ Keeps(r) /\ job[r].pc = "send" /\ job'[r].pc \in {"send", "link"}
      BY <1>2, DoPassOver, DoSendEntry
    <2>3. pos' = pos /\ exits' = exits
      BY <1>2 DEF PassOver, SendEntry, books
    <2>4. job[r].step \in {"buys", "shorts", "rule"}
      BY <2>1 DEF Enters
    <2>5. Unsent(r)'
      <3>1. \A y \in job[r].todo : Enters(r, y)' <=> Enters(r, y)
        BY <2>2 DEF Keeps, Enters
      <3> QED BY <2>1, <2>2, <2>3, <3>1 DEF ExitInv, Unsent
    <2>6. ~Expiring(job'[r])
      BY <2>2, <2>4 DEF Expiring, Keeps
    <2>7. ASSUME r = "auto"
          PROVE  /\ Seen(job["auto"])'
                 /\ \A y \in Slots : pos[y] = "due" => exits[y] > 0
      <3>1. Past(job["auto"])
        BY <2>2, <2>4, <2>7 DEF Past
      <3>2. Covering(job'["auto"]) => Covering(job["auto"])
        BY <2>2, <2>7 DEF Covering, Keeps
      <3>3. Seen(job["auto"])'
        BY <2>2, <2>3, <2>4, <2>7, <3>2 DEF ExitInv, Seen, Keeps
      <3> QED BY <3>1, <3>3 DEF ExitInv, DueExits
    <2> QED BY <2>2, <2>3, <2>5, <2>6, <2>7, ExitKeeps
  <1>3. CASE Link(r)
    <2>1. /\ Moves(r) /\ Keeps(r) /\ job[r].pc = "link" /\ job'[r].pc = "send"
          /\ job'[r].todo = job[r].todo
      BY <1>3, DoLink
    <2>2. exits' = exits /\ \A y \in Slots : pos'[y] = "due" => pos[y] = "due"
      BY <1>3, DoLink DEF Link
    <2>3. r = "auto" /\ job["auto"].step \in {"buys", "shorts"}
      BY <1>0, <2>1 DEF RightPlace
    <2>4. job'["horizon"] = job["horizon"]
      BY <1>0, <2>1, <2>3 DEF Moves
    <2>5. \A y \in Slots : pos[y] = "due" => exits[y] > 0
      BY <2>1, <2>3 DEF ExitInv, DueExits, Past
    <2>6. Expiring(job["horizon"]) => job["horizon"].todo = {}
      <3>1. SUFFICES ASSUME Expiring(job["horizon"]), NEW y \in job["horizon"].todo PROVE FALSE
        OBVIOUS
      <3>2. pos[y] = "due" /\ y \in Slots
        BY <1>0, <3>1, Locals DEF ExitInv, DueExits, TypeOK
      <3>3. exits[y] = 0
        BY <1>0, <3>1 DEF ExitInv, Unsent, Enters, Expiring
      <3> QED BY <2>5, <3>2, <3>3
    <2>7. OneExitWaits'
      BY <2>2 DEF ExitInv, OneExitWaits
    <2>8. ASSUME NEW q \in Runs PROVE Unsent(q)'
      <3>1. CASE q = r
        BY <2>1, <2>3, <3>1 DEF Unsent, Enters, Keeps
      <3>2. CASE q # r
        <4>1. job'[q] = job[q]
          BY <2>1, <3>2 DEF Moves
        <4> QED BY <2>2, <4>1 DEF ExitInv, Unsent, Enters
      <3> QED BY <3>1, <3>2
    <2>9. DueExits'
      <3>1. ~Expiring(job'["auto"])
        BY <2>1, <2>3 DEF Expiring, Keeps
      <3> QED BY <2>2, <2>4, <2>5, <2>6, <3>1 DEF DueExits
    <2>10. Seen(job["auto"])'
      <3>1. Covering(job'["auto"]) => Covering(job["auto"])
        BY <2>1, <2>3 DEF Covering, Keeps
      <3> QED BY <2>1, <2>2, <2>3, <3>1 DEF ExitInv, Seen, Keeps
    <2> QED BY <2>7, <2>8, <2>9, <2>10 DEF ExitInv
  <1>4. CASE Done(r)
    <2>1. Moves(r) /\ job[r].pc = "send" /\ job[r].todo = {}
      BY <1>4, DoDone
    <2>2. pos' = pos /\ exits' = exits
      BY <1>4 DEF Done, books
    <2>3. CASE job'[r] = Idle
      <3>1. Unsent(r)' /\ ~Expiring(job'[r]) /\ ~Past(job'[r])
        BY <2>3 DEF Unsent, Expiring, Past, Idle
      <3>2. r = "auto" => Seen(job["auto"])'
        BY <2>3 DEF Seen, Covering, Idle
      <3> QED BY <2>1, <2>2, <3>1, <3>2, ExitKeeps
    <2>4. CASE StepAfter(r) # "end" /\ job'[r].pc = StepAfter(r) /\ Keeps(r)
      <3>1. r = "auto"
        BY <1>0, <2>1, <2>4 DEF RightPlace, StepAfter
      <3>2. job'[r].pc \in Deciding
        BY <2>4, <3>1 DEF StepAfter, Deciding
      <3>3. Unsent(r)' /\ ~Expiring(job'[r])
        BY <3>2 DEF Unsent, Expiring, Deciding
      <3>4. \A y \in Slots : pos[y] = "due" => exits[y] > 0
        <4>1. CASE Expiring(job["auto"])
          BY <2>1, <3>1, <4>1 DEF ExitInv, DueExits
        <4>2. CASE ~Expiring(job["auto"])
          BY <2>1, <3>1, <4>2 DEF ExitInv, DueExits, Past, Expiring
        <4> QED BY <4>1, <4>2
      <3>5. Seen(job["auto"])'
        <4>1. job'["auto"].pc # "send"
          BY <3>1, <3>2 DEF Deciding
        <4>2. Covering(job'["auto"]) => Covering(job["auto"])
          <5>1. Covering(job'["auto"]) => job["auto"].step \in {"sells", "buys"}
            BY <2>4, <3>1 DEF Covering, StepAfter
          <5> QED BY <2>1, <3>1, <5>1 DEF Covering
        <4> QED BY <2>2, <2>4, <3>1, <4>1, <4>2 DEF ExitInv, Seen, Keeps
      <3> QED BY <2>1, <2>2, <3>1, <3>3, <3>4, <3>5, ExitKeeps
    <2> QED BY <1>4, <2>3, <2>4, DoDone
  <1> QED BY <1>1, <1>2, <1>3, <1>4 DEF Sending

LEMMA ExitOutside ==
  ASSUME OrderAssumption, TypeOK, Hours, ExitInv, Outside
  PROVE  ExitInv'
  <1>1. CASE Crash
    <2>1. \A r \in Runs : job'[r].pc = "idle"
      BY <1>1 DEF Crash, Idle
    <2>2. OneExitWaits'
      BY <1>1 DEF Crash, books, ExitInv, OneExitWaits
    <2> QED BY <2>1, <2>2, AtRest
  <1>2. CASE Open \/ Close
    <2>1. pos' = pos /\ exits' = exits /\ job' = job
      BY <1>2 DEF Open, Close, books
    <2> QED BY <2>1 DEF ExitInv, OneExitWaits, DueExits, Seen, Unsent, Enters
  <1>3. CASE NextDay
    <2>1. \A r \in Runs : job'[r].pc = "idle"
      BY <1>3 DEF NextDay, AllIdle, At
    <2>2. OneExitWaits'
      BY <1>3 DEF NextDay, ExitInv, OneExitWaits
    <2> QED BY <2>1, <2>2, AtRest
  <1>4. CASE \E x \in Slots : SettleEntry(x)
    <2>1. \A r \in Runs : job'[r].pc = "idle"
      BY <1>4, Apart DEF SettleEntry
    <2>2. OneExitWaits'
      BY <1>4 DEF SettleEntry, ExitInv, OneExitWaits
    <2> QED BY <2>1, <2>2, AtRest
  <1>5. CASE \E x \in Slots : SettleExit(x)
    <2>1. \A r \in Runs : job'[r].pc = "idle"
      BY <1>5, Apart DEF SettleExit
    <2>2. OneExitWaits'
      BY <1>5 DEF SettleExit, ExitInv, OneExitWaits, TypeOK
    <2> QED BY <2>1, <2>2, AtRest
  <1> QED BY <1>1, <1>2, <1>3, <1>4, <1>5 DEF Outside

LEMMA ExitStep ==
  ASSUME OrderAssumption, Readable, TypeOK, Course, Hours, ExitInv, [Next]_vars
  PROVE  ExitInv'
  <1>0. "auto" \in Runs /\ "rule" \in Runs
    BY DEF Runs
  <1>1. CASE UNCHANGED vars
    <2>1. pos' = pos /\ exits' = exits /\ job' = job
      BY <1>1 DEF vars, books
    <2> QED BY <2>1 DEF ExitInv, OneExitWaits, DueExits, Seen, Unsent, Enters
  <1>2. CASE \E r \in Runs : Start(r)
    <2>1. PICK r \in Runs : Start(r)
      BY <1>2
    <2>2. Moves(r) /\ job'[r].pc = IF r = "rule" THEN "read" ELSE "lock"
      BY <2>1, DoStart
    <2>3. pos' = pos /\ exits' = exits
      BY <2>1 DEF Start, books
    <2>4. Unsent(r)' /\ ~Expiring(job'[r])
      BY <2>2 DEF Unsent, Expiring
    <2>5. r = "auto" => Seen(job["auto"])' /\ ~Past(job'["auto"])
      BY <2>2 DEF Seen, Covering, Past
    <2> QED BY <2>2, <2>3, <2>4, <2>5, ExitKeeps
  <1>3. CASE \E r \in Runs : Sending(r)
    BY <1>3, ExitSends
  <1>4. CASE \E r \in Runs \ {"rule"} : ListExpired(r)
    BY <1>4, ExpiredListed
  <1>5. CASE Morning("auto")
    BY <1>5, MorningExits
  <1>6. CASE ReadHeld("rule")
    <2>1. Moves("rule") /\ pos' = pos /\ exits' = exits
      BY <1>0, <1>6, DecidesKeeps DEF Decides
    <2>2. job'["rule"].pc # "send"
      BY <1>0, <1>6, DoReadHeld DEF Idle
    <2> QED BY <1>0, <2>1, <2>2, ExitKeeps DEF Unsent, Expiring
  <1>7. CASE Screen("rule")
    <2>1. Moves("rule") /\ pos' = pos /\ exits' = exits
      BY <1>0, <1>7, DecidesKeeps DEF Decides
    <2>2. /\ job'["rule"].pc = "send" /\ job'["rule"].step = "rule"
          /\ job'["rule"].score = job["rule"].score
          /\ \A x \in job'["rule"].todo : job["rule"].score[x[2]] # "up" => x \notin Waiting
      BY <1>0, <1>7, DoScreen DEF Readable
    <2>3. job'["rule"].todo \subseteq Slots /\ exits \in [Slots -> Nat]
      BY <1>0, <2>1, Locals DEF Moves, TypeOK
    <2>4. \A x \in job'["rule"].todo : job["rule"].score[x[2]] # "up" => exits[x] = 0
      BY <2>2, <2>3 DEF Waiting
    <2>5. Unsent("rule")'
      BY <2>1, <2>2, <2>4 DEF Unsent, Enters
    <2> QED BY <1>0, <2>1, <2>2, <2>5, ExitKeeps DEF Expiring
  <1>8. CASE Outside
    BY <1>8, ExitOutside
  <1> QED BY <1>1, <1>2, <1>3, <1>4, <1>5, <1>6, <1>7, <1>8, StepKinds

LEMMA InitExits == ASSUME Init PROVE ExitInv
  <1>1. \A r \in Runs : job[r].pc = "idle"
    BY DEF Init, Idle
  <1>2. job["auto"].pc = "idle" /\ job["horizon"].pc = "idle"
    BY <1>1 DEF Runs
  <1>3. OneExitWaits
    BY DEF Init, OneExitWaits
  <1> QED BY <1>1, <1>2, <1>3 DEF ExitInv, DueExits, Seen, Unsent, Expiring, Past, Covering

(***************************************************************************)
(* When the morning's runs are over before orders are settled, and what is *)
(* past its date and what waits can be read, a position is never given a   *)
(* second exit while one waits, whichever other read or statement fails    *)
(* (pending.py:1, daily.py:380).                                           *)
(***************************************************************************)
THEOREM SingleExit == Late = FALSE /\ Readable => (Spec => []OneExitWaits)
  <1> SUFFICES ASSUME Late = FALSE, Readable PROVE Spec => []OneExitWaits
    OBVIOUS
  <1> USE OrderAssumption
  <1>1. Init => TypeOK /\ EntryInv /\ ExitInv
    BY InitType, InitEntry, InitExits
  <1>2. TypeOK /\ EntryInv /\ ExitInv /\ [Next]_vars => (TypeOK /\ EntryInv /\ ExitInv)'
    <2>1. SUFFICES ASSUME TypeOK, EntryInv, ExitInv, [Next]_vars
                   PROVE  TypeOK' /\ EntryInv' /\ ExitInv'
      OBVIOUS
    <2>2. Course /\ Hours
      BY <2>1 DEF EntryInv
    <2> QED BY <2>1, <2>2, TypeStep, EntryStep, ExitStep
  <1>3. ExitInv => OneExitWaits
    BY DEF ExitInv
  <1> QED BY <1>1, <1>2, <1>3, PTL DEF Spec

-----------------------------------------------------------------------------
(* The exit dates, when an entry can be taken back and the daemon does not *)
(* die before it is                                                        *)

Careful == Fragile = FALSE /\ "cancel" \notin Faults

\* Only the entry whose date is about to be written is without one
DatedInv ==
  \A x \in Slots : entry[x] = "bare" => job["auto"].pc = "link" /\ job["auto"].cur = {x}

\* A step that adds no such entry, and is not of the run that writes a date
LEMMA DatedKeeps ==
  ASSUME DatedInv, \A x \in Slots : entry'[x] = "bare" => entry[x] = "bare",
         job'["auto"] = job["auto"] \/ job["auto"].pc # "link"
  PROVE  DatedInv'
  BY DEF DatedInv

LEMMA DatedSends ==
  ASSUME OrderAssumption, Careful, TypeOK, Course, DatedInv, NEW r \in Runs, Sending(r)
  PROVE  DatedInv'
  <1>0. /\ "auto" \in Runs /\ RightPlace(r, job[r])
        /\ r \in {"auto", "horizon", "rule"}
    BY DEF Runs, Course
  <1>1. CASE SendExit(r) \/ PassOver(r) \/ Done(r)
    <2>1. Moves(r) /\ job[r].pc = "send"
      BY <1>1, DoSendExit, DoPassOver, DoDone
    <2>2. entry' = entry
      BY <1>1 DEF SendExit, PassOver, Done, books
    <2>3. job'["auto"] = job["auto"] \/ job["auto"].pc # "link"
      BY <1>0, <2>1 DEF Moves
    <2> QED BY <2>2, <2>3, DatedKeeps
  <1>2. CASE SendEntry(r)
    <2>1. PICK x \in job[r].todo :
          /\ Enters(r, x)
          /\ \/ /\ entry' = [entry EXCEPT ![x] = IF @ # "none" THEN @
                                           ELSE IF r = "rule" THEN "rule" ELSE "bare"]
                /\ job' = [job EXCEPT ![r].todo = @ \ {x}, ![r].count = @ + 1,
                          ![r].placed = @ + 1,
                          ![r].pc = IF r = "rule" \/ entry[x] # "none" THEN @ ELSE "link",
                          ![r].cur = IF r = "rule" \/ entry[x] # "none" THEN {} ELSE {x}]
             \/ UNCHANGED entry
      BY <1>2 DEF SendEntry
    <2>2. Moves(r) /\ job[r].pc = "send"
      BY <1>2, DoSendEntry
    <2>3. job'["auto"] = job["auto"] \/ job["auto"].pc # "link"
      BY <1>0, <2>2 DEF Moves
    <2>4. x \in Slots /\ entry \in [Slots -> Entering] /\ job \in [Runs -> Jobs]
      BY Locals DEF TypeOK
    <2>5. CASE entry' = entry
      BY <2>3, <2>5, DatedKeeps
    <2>6. CASE /\ entry' = [entry EXCEPT ![x] = IF @ # "none" THEN @
                                           ELSE IF r = "rule" THEN "rule" ELSE "bare"]
               /\ job' = [job EXCEPT ![r].todo = @ \ {x}, ![r].count = @ + 1,
                          ![r].placed = @ + 1,
                          ![r].pc = IF r = "rule" \/ entry[x] # "none" THEN @ ELSE "link",
                          ![r].cur = IF r = "rule" \/ entry[x] # "none" THEN {} ELSE {x}]
      <3>1. r # "horizon"
        BY <1>0, <2>1, <2>2 DEF RightPlace, Enters
      <3>2. CASE r = "rule" \/ entry[x] # "none"
        <4>1. \A y \in Slots : entry'[y] = "bare" => entry[y] = "bare"
          BY <2>4, <2>6, <3>2
        <4> QED BY <2>3, <4>1, DatedKeeps
      <3>3. CASE r = "auto" /\ entry[x] = "none"
        <4>1. \A y \in Slots : entry[y] # "bare"
          BY <2>2, <3>3 DEF DatedInv
        <4>2. \A y \in Slots : entry'[y] = "bare" => y = x
          BY <2>4, <2>6, <4>1
        <4>3. job'["auto"].pc = "link" /\ job'["auto"].cur = {x}
          BY <1>0, <2>4, <2>6, <3>3 DEF Jobs
        <4> QED BY <4>2, <4>3 DEF DatedInv
      <3> QED BY <1>0, <3>1, <3>2, <3>3
    <2> QED BY <2>1, <2>5, <2>6
  <1>3. CASE Link(r)
    <2>1. PICK x \in job[r].cur, ok \in Works("link"), undone \in Works("cancel") :
          /\ entry' = [entry EXCEPT ![x] = IF @ # "bare" THEN @
                                           ELSE IF ok THEN "dated"
                                           ELSE IF undone THEN "none" ELSE @]
          /\ pos' = [pos EXCEPT ![x] = IF ok /\ entry[x] = "none" /\ @ = "open"
                                         THEN "dated" ELSE @]
          /\ job' = [job EXCEPT ![r].pc = "send", ![r].cur = {}, ![r].bad = @ \/ ~ok]
      BY <1>3 DEF Link
    <2>2. job[r].pc = "link"
      BY <1>3, DoLink
    <2>3. r = "auto"
      BY <1>0, <2>2 DEF RightPlace
    <2>4. x \in Slots /\ entry \in [Slots -> Entering]
      BY Locals DEF TypeOK
    <2>5. undone = TRUE
      BY <2>1 DEF Careful, Works
    <2>6. entry'[x] # "bare"
      BY <2>1, <2>4, <2>5
    <2>7. \A y \in Slots : y # x => entry'[y] = entry[y]
      BY <2>1, <2>4
    <2>8. \A y \in Slots : entry[y] = "bare" => y = x
      BY <2>1, <2>3 DEF DatedInv
    <2> QED BY <2>6, <2>7, <2>8 DEF DatedInv
  <1> QED BY <1>1, <1>2, <1>3 DEF Sending

LEMMA DatedStep ==
  ASSUME OrderAssumption, Careful, TypeOK, Course, DatedInv, [Next]_vars
  PROVE  DatedInv'
  <1>0. /\ "auto" \in Runs /\ "rule" \in Runs /\ RightPlace("auto", job["auto"])
    BY DEF Runs, Course
  <1>1. CASE UNCHANGED vars
    BY <1>1 DEF vars, books, DatedInv
  <1>2. CASE \E r \in Runs : Start(r)
    <2>1. PICK r \in Runs : Start(r)
      BY <1>2
    <2>2. Moves(r)
      BY <2>1, DoStart
    <2>3. entry' = entry /\ job[r].pc = "idle"
      BY <2>1 DEF Start, books, At
    <2>4. job'["auto"] = job["auto"] \/ job["auto"].pc # "link"
      BY <1>0, <2>2, <2>3 DEF Moves
    <2> QED BY <2>3, <2>4, DatedKeeps
  <1>3. CASE \E r \in Runs : Sending(r)
    BY <1>3, DatedSends
  <1>4. CASE \E r \in Runs \ {"rule"} : ListExpired(r)
    <2>1. PICK r \in Runs \ {"rule"} : ListExpired(r)
      BY <1>4
    <2>2. Moves(r) /\ entry' = entry
      BY <2>1, DecidesKeeps DEF Decides
    <2>3. job[r].pc = "lock"
      BY <2>1 DEF ListExpired, At
    <2>4. job'["auto"] = job["auto"] \/ job["auto"].pc # "link"
      BY <1>0, <2>1, <2>2, <2>3 DEF Moves
    <2> QED BY <2>2, <2>4, DatedKeeps
  <1>5. CASE Morning("auto")
    <2>1. entry' = entry
      BY <1>0, <1>5, DecidesKeeps DEF Decides
    <2>2. job["auto"].pc # "link"
      BY <1>5 DEF Morning, Gate, Predict, Survey, ListStops, StepsFail, ListSells,
             ListBuys, ListCovers, ListShorts, At
    <2> QED BY <2>1, <2>2, DatedKeeps
  <1>6. CASE ReadHeld("rule") \/ Screen("rule")
    <2>1. Moves("rule") /\ entry' = entry
      BY <1>0, <1>6, DecidesKeeps DEF Decides
    <2>2. job'["auto"] = job["auto"]
      BY <1>0, <2>1 DEF Moves
    <2> QED BY <2>1, <2>2, DatedKeeps
  <1>7. CASE Outside
    <2>1. CASE Crash
      <3>1. entry' = entry /\ job["auto"].pc # "link"
        BY <2>1 DEF Crash, books, Careful, At
      <3> QED BY <3>1, DatedKeeps
    <2>2. CASE Open \/ Close \/ NextDay \/ \E x \in Slots : SettleEntry(x) \/ SettleExit(x)
      <3>1. job' = job
        BY <2>2 DEF Open, Close, NextDay, SettleEntry, SettleExit
      <3>2. \A x \in Slots : entry'[x] = "bare" => entry[x] = "bare"
        BY <2>2 DEF Open, Close, NextDay, SettleEntry, SettleExit, books, TypeOK
      <3> QED BY <3>1, <3>2, DatedKeeps
    <2> QED BY <1>7, <2>1, <2>2 DEF Outside
  <1> QED BY <1>1, <1>2, <1>3, <1>4, <1>5, <1>6, <1>7, StepKinds

(***************************************************************************)
(* When an entry can be taken back and the daemon does not die between an  *)
(* entry and its exit date, no entry of a morning waits without a date,    *)
(* but while the run is about to write it - also when orders are settled   *)
(* in between (recording.py:129).                                          *)
(***************************************************************************)
THEOREM EveryEntryDated == Careful => (Spec => []EntriesDated)
  <1> SUFFICES ASSUME Careful PROVE Spec => []EntriesDated
    OBVIOUS
  <1> USE OrderAssumption
  <1>1. Init => TypeOK /\ Course /\ DatedInv
    <2>1. Init => TypeOK
      BY InitType
    <2>2. Init => Course
      BY InitDay DEF DayInv
    <2>3. Init => DatedInv
      BY DEF Init, DatedInv
    <2> QED BY <2>1, <2>2, <2>3
  <1>2. TypeOK /\ Course /\ DatedInv /\ [Next]_vars => (TypeOK /\ Course /\ DatedInv)'
    BY TypeStep, CourseStep, DatedStep
  <1>3. DatedInv => EntriesDated
    BY DEF DatedInv, EntriesDated
  <1> QED BY <1>1, <1>2, <1>3, PTL DEF Spec

-----------------------------------------------------------------------------
(* The exits a run owes, when the morning's runs are over before orders    *)
(* are settled                                                             *)

\* An exit that is listed and will be ordered, or counted as an error
StillListed(a, x) ==
  /\ a.pc = "send" /\ x \in a.todo /\ a.step \notin {"buys", "shorts"}
  /\ a.step = "rule" => a.score[x[2]] = "down"

\* A run without an error so far has ordered what it owes, but for what it
\* has listed, and for the short sales it could not work out
Paid(r, a) ==
  /\ a.pc \in {"idle", "lock", "read", "screen"} => a.struck = {} /\ a.seen = {}
  /\ \A x \in a.seen : exits[x] > 0
  /\ ~a.bad => \A x \in a.struck : exits[x] > 0 \/ StillListed(a, x)
  /\ r # "rule" /\ ~a.bad /\ a.pc \notin {"idle", "lock"} =>
       \A x \in Slots \ a.lame : pos[x] = "due" =>
         exits[x] > 0 \/ (Expiring(a) /\ x \in a.todo)

PaidInv == \A r \in Runs : Paid(r, job[r])

\* The other runs keep what they know when no exit is settled and nothing
\* comes to be past its date
LEMMA PaidMoves ==
  ASSUME TypeOK, PaidInv, NEW r \in Runs, Moves(r),
         \A x \in Slots : exits[x] > 0 => exits'[x] > 0,
         \A x \in Slots : pos'[x] = "due" => pos[x] = "due",
         Paid(r, job[r])'
  PROVE  PaidInv'
  <1>1. ASSUME NEW q \in Runs PROVE Paid(q, job[q])'
    <2>1. CASE q = r
      BY <2>1
    <2>2. CASE q # r
      <3>1. job'[q] = job[q]
        BY <2>2 DEF Moves
      <3>2. job[q].seen \subseteq Slots /\ job[q].struck \subseteq Slots
        BY Locals DEF TypeOK
      <3> QED BY <3>1, <3>2 DEF PaidInv, Paid, StillListed, Expiring
    <2> QED BY <2>1, <2>2
  <1> QED BY <1>1 DEF PaidInv

LEMMA IdlePaid ==
  ASSUME NEW r \in Runs, job'[r].pc = "idle", job'[r].struck = {}, job'[r].seen = {}
  PROVE  Paid(r, job[r])'
  BY DEF Paid

\* Between two lists everything owed is ordered, and a step that adds to it
\* only what waits or what it lists keeps it so
LEMMA PaidDecides ==
  ASSUME TypeOK, PaidInv, NEW r \in Runs, exits' = exits, pos' = pos,
         job[r].pc \notin {"idle", "lock", "read", "screen", "send"},
         job'[r].pc \notin {"idle", "lock", "read", "screen"},
         job'[r].lame = job[r].lame,
         \A x \in job'[r].seen : x \in job[r].seen \/ exits[x] > 0,
         ~job'[r].bad => ~job[r].bad,
         ~job'[r].bad => \A x \in job'[r].struck :
                           x \in job[r].struck \/ exits[x] > 0 \/ StillListed(job'[r], x)
  PROVE  Paid(r, job[r])'
  <1>1. Paid(r, job[r])
    BY DEF PaidInv
  <1> QED BY <1>1 DEF Paid, StillListed, Expiring

LEMMA GatePaid ==
  ASSUME TypeOK, PaidInv, NEW r \in Runs, Gate(r), exits' = exits, pos' = pos
  PROVE  Paid(r, job[r])'
  <1>1. PICK ok \in Works("gate"), pass \in BOOLEAN :
          job' = [job EXCEPT ![r].pc = "predict", ![r].open = ok /\ pass /\ Room,
                             ![r].corr = ok, ![r].bad = @ \/ ~ok]
    BY DEF Gate
  <1>2. /\ job'[r].pc = "predict" /\ job'[r].seen = job[r].seen
        /\ job'[r].struck = job[r].struck /\ job'[r].bad = (job[r].bad \/ ~ok)
        /\ job'[r].lame = job[r].lame
    BY <1>1 DEF TypeOK, Jobs
  <1>3. job[r].pc = "gate"
    BY DEF Gate, At
  <1> QED BY <1>2, <1>3, PaidDecides

LEMMA PredictPaid ==
  ASSUME TypeOK, PaidInv, NEW r \in Runs, Predict(r), exits' = exits, pos' = pos
  PROVE  Paid(r, job[r])'
  <1>1. job[r].pc = "predict"
    BY DEF Predict, At
  <1>2. CASE \E score \in [Symbols -> Scores] :
               job' = [job EXCEPT ![r].pc = "survey", ![r].score = score, ![r].held = Longs]
    <2>1. PICK score \in [Symbols -> Scores] :
            job' = [job EXCEPT ![r].pc = "survey", ![r].score = score, ![r].held = Longs]
      BY <1>2
    <2>2. /\ job'[r].pc = "survey" /\ job'[r].seen = job[r].seen
          /\ job'[r].struck = job[r].struck /\ job'[r].bad = job[r].bad
          /\ job'[r].lame = job[r].lame
      BY <2>1 DEF TypeOK, Jobs
    <2> QED BY <1>1, <2>2, PaidDecides
  <1>3. CASE \E ok \in Works("predict") :
               job' = [job EXCEPT ![r].pc = "stops", ![r].only = TRUE, ![r].bad = @ \/ ~ok]
    <2>1. PICK ok \in Works("predict") :
            job' = [job EXCEPT ![r].pc = "stops", ![r].only = TRUE, ![r].bad = @ \/ ~ok]
      BY <1>3
    <2>2. /\ job'[r].pc = "stops" /\ job'[r].seen = job[r].seen
          /\ job'[r].struck = job[r].struck /\ job'[r].bad = (job[r].bad \/ ~ok)
          /\ job'[r].lame = job[r].lame
      BY <2>1 DEF TypeOK, Jobs
    <2> QED BY <1>1, <2>2, PaidDecides
  <1> QED BY <1>2, <1>3 DEF Predict

LEMMA SurveyPaid ==
  ASSUME TypeOK, PaidInv, NEW r \in Runs, Survey(r), exits' = exits, pos' = pos
  PROVE  Paid(r, job[r])'
  <1>1. PICK ok \in Works("buys"), corr \in BOOLEAN, usable \in BOOLEAN :
          LET read == ok /\ job[r].corr
          IN job' = [job EXCEPT ![r].pc = "stops", ![r].corr = read /\ corr,
                       ![r].open = @ /\ read /\ usable,
                       ![r].claimed = job[r].held \cup (IF read THEN PendingBuys ELSE {}),
                       ![r].bad = @ \/ ~read]
    BY DEF Survey
  <1>2. /\ job'[r].pc = "stops" /\ job'[r].seen = job[r].seen
        /\ job'[r].struck = job[r].struck
        /\ job'[r].lame = job[r].lame
        /\ job'[r].bad = (job[r].bad \/ ~(ok /\ job[r].corr))
    BY <1>1 DEF TypeOK, Jobs
  <1>3. job[r].pc = "survey"
    BY DEF Survey, At
  <1> QED BY <1>2, <1>3, PaidDecides

\* What is beyond its stop is listed, but where an exit waits or the failure
\* of a read was counted
LEMMA StopsPaid ==
  ASSUME TypeOK, PaidInv, NEW r \in Runs, ListStops(r), exits' = exits, pos' = pos
  PROVE  Paid(r, job[r])'
  <1>1. PICK shorts \in Works("shorts"), pend \in Works("pending"),
           struck \in SUBSET {x \in Slots : pos[x] # "none"} :
        /\ job' = [job EXCEPT ![r].pc = "send",
               ![r].step = "stops",
               ![r].todo = {x \in struck : x[1] = "long" \/ shorts} \ (IF pend THEN Waiting ELSE {}),
               ![r].struck = struck,
               ![r].only = @ \/ ~shorts,
               ![r].bad = @ \/ ~shorts]
    BY DEF ListStops
  <1> DEFINE list == {x \in struck : x[1] = "long" \/ shorts} \ (IF pend THEN Waiting ELSE {})
  <1>2. /\ job'[r].pc = "send" /\ job'[r].step = "stops" /\ job'[r].seen = job[r].seen
        /\ job'[r].struck = struck /\ job'[r].bad = (job[r].bad \/ ~shorts)
        /\ job'[r].lame = job[r].lame
        /\ job'[r].todo = list
    <2>1. job' = [job EXCEPT ![r].pc = "send", ![r].step = "stops", ![r].todo = list,
                    ![r].struck = struck, ![r].only = @ \/ ~shorts, ![r].bad = @ \/ ~shorts]
      BY <1>1
    <2> HIDE DEF list
    <2> QED BY <2>1 DEF TypeOK, Jobs
  <1>3. job[r].pc = "stops"
    BY DEF ListStops, At
  <1>4. ASSUME shorts, NEW x \in struck PROVE exits[x] > 0 \/ x \in job'[r].todo
    BY <1>2, <1>4 DEF Waiting
  <1>5. ~job'[r].bad => \A x \in job'[r].struck : exits[x] > 0 \/ StillListed(job'[r], x)
    BY <1>2, <1>4 DEF StillListed
  <1> QED BY <1>2, <1>3, <1>5, PaidDecides

LEMMA SellsPaid ==
  ASSUME TypeOK, PaidInv, NEW r \in Runs, ListSells(r), exits' = exits, pos' = pos
  PROVE  Paid(r, job[r])'
  <1>1. PICK pend \in Works("pending"),
             picked \in SUBSET {<<"long", s>> : s \in job[r].held \cap Longs} :
          LET seen == IF pend THEN Waiting ELSE {}
              sells == {x \in picked : \A y \in job[r].sent : y[2] # x[2]}
          IN job' = [job EXCEPT ![r].pc = "send", ![r].step = "sells",
                       ![r].seen = seen, ![r].todo = sells \ seen,
                       ![r].struck = @ \cup sells]
    BY DEF ListSells
  <1> DEFINE seen == IF pend THEN Waiting ELSE {}
             sells == {x \in picked : \A y \in job[r].sent : y[2] # x[2]}
  <1>2. /\ job'[r].pc = "send" /\ job'[r].step = "sells" /\ job'[r].seen = seen
        /\ job'[r].struck = job[r].struck \cup sells /\ job'[r].bad = job[r].bad
        /\ job'[r].lame = job[r].lame
        /\ job'[r].todo = sells \ seen
    <2>1. job' = [job EXCEPT ![r].pc = "send", ![r].step = "sells", ![r].seen = seen,
                    ![r].todo = sells \ seen, ![r].struck = @ \cup sells]
      BY <1>1
    <2> HIDE DEF seen, sells
    <2> QED BY <2>1 DEF TypeOK, Jobs
  <1>3. job[r].pc = "sells"
    BY DEF ListSells, At
  <1>4. \A x \in seen : exits[x] > 0
    BY DEF Waiting
  <1> HIDE DEF seen, sells
  <1>5. \A x \in job'[r].struck :
          x \in job[r].struck \/ exits[x] > 0 \/ StillListed(job'[r], x)
    BY <1>2, <1>4 DEF StillListed
  <1> QED BY <1>2, <1>3, <1>4, <1>5, PaidDecides

LEMMA BuysPaid ==
  ASSUME TypeOK, PaidInv, NEW r \in Runs, ListBuys(r), exits' = exits, pos' = pos
  PROVE  Paid(r, job[r])'
  <1>1. PICK picked \in SUBSET Candidates(r, "long", "up", ShortRows),
             lame \in Lame("shorts") :
          job' = [job EXCEPT ![r].pc = "send", ![r].step = "buys",
                    ![r].todo = picked, ![r].rows = ShortRows,
                    ![r].owned = {s \in Symbols : /\ pos[<<"short", s>>] # "none"
                                                  /\ <<"short", s>> \notin lame},
                    ![r].count = Cardinality(job[r].claimed) + Cardinality(ShortRows)]
    BY DEF ListBuys
  <1> DEFINE owned == {s \in Symbols : /\ pos[<<"short", s>>] # "none"
                                       /\ <<"short", s>> \notin lame}
             taken == Cardinality(job[r].claimed) + Cardinality(ShortRows)
  <1>2. /\ job'[r].pc = "send" /\ job'[r].seen = job[r].seen
        /\ job'[r].struck = job[r].struck /\ job'[r].bad = job[r].bad
        /\ job'[r].lame = job[r].lame
    <2>1. job' = [job EXCEPT ![r].pc = "send", ![r].step = "buys", ![r].todo = picked,
                    ![r].rows = ShortRows, ![r].owned = owned, ![r].count = taken]
      BY <1>1
    <2> HIDE DEF owned, taken
    <2> QED BY <2>1 DEF TypeOK, Jobs
  <1>3. job[r].pc = "buys"
    BY DEF ListBuys, At
  <1> QED BY <1>2, <1>3, PaidDecides

\* The covers that are left out wait since the sells were listed
LEMMA CoversPaid ==
  ASSUME TypeOK, PaidInv, NEW r \in Runs, ListCovers(r), exits' = exits, pos' = pos
  PROVE  Paid(r, job[r])'
  <1> DEFINE covers == {<<"short", s>> : s \in {t \in job[r].owned : job[r].score[t] = "up"}}
  <1>1. job' = [job EXCEPT ![r].pc = "send", ![r].step = "covers",
                  ![r].todo = covers \ job[r].seen, ![r].struck = @ \cup covers]
    BY DEF ListCovers
  <1> HIDE DEF covers
  <1>2. /\ job'[r].pc = "send" /\ job'[r].step = "covers" /\ job'[r].seen = job[r].seen
        /\ job'[r].struck = job[r].struck \cup covers /\ job'[r].bad = job[r].bad
        /\ job'[r].lame = job[r].lame
        /\ job'[r].todo = covers \ job[r].seen
    BY <1>1 DEF TypeOK, Jobs
  <1>3. job[r].pc = "covers"
    BY DEF ListCovers, At
  <1>4. \A x \in job[r].seen : exits[x] > 0
    BY DEF PaidInv, Paid
  <1>5. \A x \in job'[r].struck :
          x \in job[r].struck \/ exits[x] > 0 \/ StillListed(job'[r], x)
    BY <1>2, <1>4 DEF StillListed
  <1> QED BY <1>2, <1>3, <1>5, PaidDecides

LEMMA ShortsPaid ==
  ASSUME TypeOK, PaidInv, NEW r \in Runs, ListShorts(r), exits' = exits, pos' = pos
  PROVE  Paid(r, job[r])'
  <1>1. PICK picked \in SUBSET Candidates(r, "short", "down", job[r].rows) :
          job' = [job EXCEPT ![r].pc = "send", ![r].step = "shorts", ![r].todo = picked]
    BY DEF ListShorts
  <1>2. /\ job'[r].pc = "send" /\ job'[r].seen = job[r].seen
        /\ job'[r].struck = job[r].struck /\ job'[r].bad = job[r].bad
        /\ job'[r].lame = job[r].lame
    BY <1>1 DEF TypeOK, Jobs
  <1>3. job[r].pc = "shorts"
    BY DEF ListShorts, At
  <1> QED BY <1>2, <1>3, PaidDecides

\* Every position past its date is listed, but where an exit waits, the failure
\* of a read was counted, or a short sale could not be worked out
LEMMA ExpiredPaid ==
  ASSUME TypeOK, PaidInv, NEW r \in Runs \ {"rule"}, ListExpired(r), exits' = exits, pos' = pos
  PROVE  Paid(r, job[r])'
  <1>1. PICK ok \in Works("due"), shorts \in Works("due"), pend \in Works("pending"),
             lame \in Lame("due") :
       LET seen == IF pend THEN Waiting ELSE {}
           due == IF ok THEN {x \in Slots : pos[x] = "due"} \ seen ELSE {}
           unread == IF shorts THEN {} ELSE {x \in due : x[1] = "short"}
       IN job' = [job EXCEPT ![r].pc = "send", ![r].step = "expired",
                             ![r].todo = due \ (unread \cup lame), ![r].lame = lame,
                             ![r].bad = ~ok \/ unread # {}]
    BY DEF ListExpired
  <1> DEFINE seen == IF pend THEN Waiting ELSE {}
             due == IF ok THEN {x \in Slots : pos[x] = "due"} \ seen ELSE {}
             unread == IF shorts THEN {} ELSE {x \in due : x[1] = "short"}
  <1>2. /\ job'[r].pc = "send" /\ job'[r].step = "expired" /\ job'[r].seen = job[r].seen
        /\ job'[r].struck = job[r].struck /\ job'[r].bad = (~ok \/ unread # {})
        /\ job'[r].todo = due \ (unread \cup lame) /\ job'[r].lame = lame
    <2>1. job' = [job EXCEPT ![r].pc = "send", ![r].step = "expired",
                    ![r].todo = due \ (unread \cup lame), ![r].lame = lame,
                    ![r].bad = ~ok \/ unread # {}]
      BY <1>1
    <2> HIDE DEF due, unread
    <2> QED BY <2>1 DEF TypeOK, Jobs
  <1>3. job[r].struck = {} /\ job[r].seen = {}
    BY DEF ListExpired, At, PaidInv, Paid
  <1>4. ASSUME ~job'[r].bad, NEW x \in Slots \ job'[r].lame, pos[x] = "due"
        PROVE  exits[x] > 0 \/ x \in job'[r].todo
    <2>1. ok /\ unread = {}
      BY <1>2, <1>4
    <2>2. x \in due \/ x \in seen
      BY <1>4, <2>1
    <2> QED BY <1>2, <2>1, <2>2 DEF Waiting
  <1> HIDE DEF seen, due, unread
  <1> QED BY <1>2, <1>3, <1>4 DEF Paid, Expiring

\* The evening's sells are listed, but where an exit waits
LEMMA ScreenPaid ==
  ASSUME TypeOK, PaidInv, Screen("rule"), exits' = exits, pos' = pos
  PROVE  Paid("rule", job["rule"])'
  <1>0. "rule" \in Runs
    BY DEF Runs
  <1> DEFINE claimed == job["rule"].held \cup PendingBuys
             sells == {x \in Slots : /\ x[1] = "long" /\ x[2] \in job["rule"].held
                                     /\ job["rule"].score[x[2]] = "down"}
             news == {x \in Slots : /\ x[1] = "long" /\ job["rule"].score[x[2]] = "up"
                                    /\ x[2] \notin claimed \cup ShortRows}
             sent == Cardinality({x \in Slots : entry[x] = "rule"})
             taken == Cardinality(claimed) + Cardinality(ShortRows)
  <1>1. PICK ok \in Works("buys"), pass \in BOOLEAN, pend \in Works("pending") :
          \E picked \in SUBSET news :
            /\ picked # {} => ok /\ pass /\ Room
            /\ job' = [job EXCEPT !["rule"].pc = "send", !["rule"].step = "rule",
                         !["rule"].todo = picked \cup (sells \ (IF pend THEN Waiting ELSE {})),
                         !["rule"].struck = sells, !["rule"].bad = ~ok,
                         !["rule"].count = taken, !["rule"].placed = sent]
    BY DEF Screen
  <1>2. PICK picked \in SUBSET news :
          job' = [job EXCEPT !["rule"].pc = "send", !["rule"].step = "rule",
                    !["rule"].todo = picked \cup (sells \ (IF pend THEN Waiting ELSE {})),
                    !["rule"].struck = sells, !["rule"].bad = ~ok,
                    !["rule"].count = taken, !["rule"].placed = sent]
    <2> HIDE DEF news, sells, taken, sent
    <2> QED BY <1>1
  <1> DEFINE list == picked \cup (sells \ (IF pend THEN Waiting ELSE {}))
  <1>3. /\ job'["rule"].pc = "send" /\ job'["rule"].step = "rule"
        /\ job'["rule"].seen = job["rule"].seen /\ job'["rule"].score = job["rule"].score
        /\ job'["rule"].struck = sells /\ job'["rule"].todo = list
    <2>1. job' = [job EXCEPT !["rule"].pc = "send", !["rule"].step = "rule",
                    !["rule"].todo = list, !["rule"].struck = sells, !["rule"].bad = ~ok,
                    !["rule"].count = taken, !["rule"].placed = sent]
      BY <1>2
    <2> HIDE DEF list, sells, taken, sent
    <2> QED BY <1>0, <2>1 DEF TypeOK, Jobs
  <1>4. job["rule"].seen = {}
    BY <1>0 DEF Screen, At, PaidInv, Paid
  <1>5. ASSUME NEW x \in sells PROVE exits[x] > 0 \/ StillListed(job'["rule"], x)
    <2>1. x \in list \/ x \in Waiting
      BY <1>5
    <2>2. job["rule"].score[x[2]] = "down"
      BY <1>5
    <2> HIDE DEF sells, list
    <2> QED BY <1>3, <2>1, <2>2 DEF StillListed, Waiting
  <1> HIDE DEF sells, list
  <1> QED BY <1>3, <1>4, <1>5 DEF Paid

\* An exit leaves the list ordered, or with an error
LEMMA ExitPaid ==
  ASSUME TypeOK, PaidInv, NEW r \in Runs, SendExit(r)
  PROVE  /\ Paid(r, job[r])' /\ pos' = pos
         /\ \A x \in Slots : exits[x] > 0 => exits'[x] > 0
  <1>1. PICK x \in job[r].todo,
             ok \in Works(IF job[r].step = "expired" THEN "due" ELSE "send") :
          /\ ~Enters(r, x)
          /\ exits' = IF ok THEN [exits EXCEPT ![x] = @ + 1] ELSE exits
          /\ job' = [job EXCEPT ![r].todo = @ \ {x}, ![r].bad = @ \/ ~ok,
                       ![r].sent = IF ok /\ job[r].step = "stops" THEN @ \cup {x} ELSE @]
    BY DEF SendExit
  <1> DEFINE sent == IF ok /\ job[r].step = "stops" THEN job[r].sent \cup {x} ELSE job[r].sent
  <1>2. /\ job'[r].pc = job[r].pc /\ job'[r].step = job[r].step
        /\ job'[r].seen = job[r].seen /\ job'[r].struck = job[r].struck
        /\ job'[r].lame = job[r].lame
        /\ job'[r].score = job[r].score
        /\ job'[r].bad = (job[r].bad \/ ~ok) /\ job'[r].todo = job[r].todo \ {x}
    <2>1. job' = [job EXCEPT ![r].todo = @ \ {x}, ![r].bad = @ \/ ~ok, ![r].sent = sent]
      BY <1>1
    <2> HIDE DEF sent
    <2> QED BY <2>1 DEF TypeOK, Jobs
  <1>3. /\ job[r].pc = "send" /\ pos' = pos
        /\ job[r].todo \subseteq Slots /\ job[r].seen \subseteq Slots
        /\ job[r].struck \subseteq Slots
    BY Locals DEF SendExit, At, TypeOK
  <1>4. /\ \A y \in Slots : exits[y] > 0 => exits'[y] > 0
        /\ ok => exits'[x] > 0
    BY <1>1, <1>3 DEF TypeOK
  <1>5. Paid(r, job[r])
    BY DEF PaidInv
  <1>6. \A y \in job'[r].seen : exits'[y] > 0
    BY <1>2, <1>3, <1>4, <1>5 DEF Paid
  <1>7. ASSUME ~job'[r].bad, NEW y \in job'[r].struck
        PROVE  exits'[y] > 0 \/ StillListed(job'[r], y)
    <2>1. ok /\ ~job[r].bad
      BY <1>2, <1>7
    <2>2. exits[y] > 0 \/ StillListed(job[r], y)
      BY <1>2, <1>5, <1>7, <2>1 DEF Paid
    <2>3. CASE y = x
      BY <1>4, <2>1, <2>3
    <2>4. CASE y # x
      BY <1>2, <1>3, <1>4, <1>7, <2>2, <2>4 DEF StillListed
    <2> QED BY <2>3, <2>4
  <1>8. ASSUME r # "rule", ~job'[r].bad, NEW y \in Slots \ job[r].lame, pos[y] = "due"
        PROVE  exits'[y] > 0 \/ (Expiring(job'[r]) /\ y \in job'[r].todo)
    <2>1. ok /\ ~job[r].bad
      BY <1>2, <1>8
    <2>2. exits[y] > 0 \/ (Expiring(job[r]) /\ y \in job[r].todo)
      BY <1>3, <1>5, <1>8, <2>1 DEF Paid
    <2>3. CASE y = x
      BY <1>4, <2>1, <2>3
    <2>4. CASE y # x
      BY <1>2, <1>4, <2>2, <2>4 DEF Expiring
    <2> QED BY <2>3, <2>4
  <1>9. Paid(r, job[r])'
    BY <1>2, <1>3, <1>6, <1>7, <1>8 DEF Paid
  <1> QED BY <1>3, <1>4, <1>9

\* Entries are apart from the exits a run owes
LEMMA EntryPaid ==
  ASSUME TypeOK, PaidInv, Course, NEW r \in Runs, exits' = exits, pos' = pos,
         job[r].pc = "send", job'[r].pc \in {"send", "link"},
         job'[r].step = job[r].step, job'[r].seen = job[r].seen, job'[r].lame = job[r].lame,
         job'[r].struck = job[r].struck, job'[r].score = job[r].score,
         NEW x \in job[r].todo, Enters(r, x), job'[r].todo = job[r].todo \ {x},
         job'[r].pc = "link" => r # "rule",
         ~job'[r].bad => ~job[r].bad
  PROVE  Paid(r, job[r])'
  <1>1. Paid(r, job[r])
    BY DEF PaidInv
  <1>2. job[r].step # "expired" /\ (job[r].step = "rule" => r = "rule")
    BY DEF Enters, Course, RightPlace, Sections
  <1>3. ASSUME ~job'[r].bad, NEW y \in job[r].struck
        PROVE  exits[y] > 0 \/ StillListed(job'[r], y)
    <2>1. exits[y] > 0 \/ StillListed(job[r], y)
      BY <1>1, <1>3 DEF Paid
    <2>2. CASE StillListed(job[r], y)
      <3>1. job[r].step = "rule" /\ r = "rule"
        BY <1>2, <2>2 DEF StillListed, Enters
      <3>2. y # x
        BY <2>2, <3>1 DEF StillListed, Enters
      <3> QED BY <2>2, <3>1, <3>2 DEF StillListed
    <2> QED BY <2>1, <2>2
  <1>4. \A y \in job[r].seen : exits[y] > 0
    BY <1>1 DEF Paid
  <1>5. r # "rule" /\ ~job'[r].bad => \A y \in Slots \ job[r].lame : pos[y] = "due" => exits[y] > 0
    BY <1>1, <1>2 DEF Paid, Expiring
  <1> QED BY <1>3, <1>4, <1>5 DEF Paid

LEMMA SendEntryPaid ==
  ASSUME TypeOK, PaidInv, Course, NEW r \in Runs, SendEntry(r)
  PROVE  Paid(r, job[r])'
  <1>0. job[r].pc = "send" /\ exits' = exits /\ pos' = pos
    BY DEF SendEntry, At
  <1>1. PICK x \in job[r].todo :
          /\ Enters(r, x)
          /\ \/ job' = [job EXCEPT ![r].todo = @ \ {x}, ![r].count = @ + 1,
                          ![r].placed = @ + 1,
                          ![r].pc = IF r = "rule" \/ entry[x] # "none" THEN @ ELSE "link",
                          ![r].cur = IF r = "rule" \/ entry[x] # "none" THEN {} ELSE {x}]
             \/ job' = [job EXCEPT ![r].todo = @ \ {x}, ![r].bad = TRUE]
    BY DEF SendEntry
  <1>2. CASE job' = [job EXCEPT ![r].todo = @ \ {x}, ![r].bad = TRUE]
    <2>1. /\ job'[r].pc = job[r].pc /\ job'[r].step = job[r].step
          /\ job'[r].seen = job[r].seen /\ job'[r].struck = job[r].struck
          /\ job'[r].lame = job[r].lame
          /\ job'[r].score = job[r].score /\ job'[r].bad = TRUE
          /\ job'[r].todo = job[r].todo \ {x}
      BY <1>2 DEF TypeOK, Jobs
    <2> QED BY <1>0, <1>1, <2>1, EntryPaid
  <1>3. CASE job' = [job EXCEPT ![r].todo = @ \ {x}, ![r].count = @ + 1,
                          ![r].placed = @ + 1,
                          ![r].pc = IF r = "rule" \/ entry[x] # "none" THEN @ ELSE "link",
                          ![r].cur = IF r = "rule" \/ entry[x] # "none" THEN {} ELSE {x}]
    <2> DEFINE to == IF r = "rule" \/ entry[x] # "none" THEN job[r].pc ELSE "link"
               cur == IF r = "rule" \/ entry[x] # "none" THEN {} ELSE {x}
    <2>1. /\ job'[r].pc = to /\ job'[r].step = job[r].step
          /\ job'[r].seen = job[r].seen /\ job'[r].struck = job[r].struck
          /\ job'[r].lame = job[r].lame
          /\ job'[r].score = job[r].score /\ job'[r].bad = job[r].bad
          /\ job'[r].todo = job[r].todo \ {x}
      <3>1. job' = [job EXCEPT ![r].todo = @ \ {x}, ![r].count = @ + 1,
                          ![r].placed = @ + 1, ![r].pc = to, ![r].cur = cur]
        BY <1>3
      <3> HIDE DEF to, cur
      <3> QED BY <3>1 DEF TypeOK, Jobs
    <2>2. to \in {"send", "link"} /\ (to = "link" => r # "rule")
      BY <1>0
    <2> HIDE DEF to, cur
    <2> QED BY <1>0, <1>1, <2>1, <2>2, EntryPaid
  <1> QED BY <1>1, <1>2, <1>3

LEMMA PassOverPaid ==
  ASSUME TypeOK, PaidInv, Course, NEW r \in Runs, PassOver(r)
  PROVE  Paid(r, job[r])'
  <1>0. job[r].pc = "send" /\ exits' = exits /\ pos' = pos
    BY DEF PassOver, At, books
  <1>1. PICK x \in job[r].todo : Enters(r, x) /\ job' = [job EXCEPT ![r].todo = @ \ {x}]
    BY DEF PassOver
  <1>2. /\ job'[r].pc = job[r].pc /\ job'[r].step = job[r].step
        /\ job'[r].seen = job[r].seen /\ job'[r].struck = job[r].struck
        /\ job'[r].lame = job[r].lame
        /\ job'[r].score = job[r].score /\ job'[r].bad = job[r].bad
        /\ job'[r].todo = job[r].todo \ {x}
    BY <1>1 DEF TypeOK, Jobs
  <1> QED BY <1>0, <1>1, <1>2, EntryPaid

\* The date of an entry opens no position that was past its own
LEMMA LinkPaid ==
  ASSUME OrderAssumption, TypeOK, PaidInv, Course, NEW r \in Runs, Link(r)
  PROVE  /\ Paid(r, job[r])' /\ exits' = exits
         /\ \A x \in Slots : pos'[x] = "due" => pos[x] = "due"
  <1>1. PICK ok \in Works("link") :
          job' = [job EXCEPT ![r].pc = "send", ![r].cur = {}, ![r].bad = @ \/ ~ok]
    BY DEF Link
  <1>2. /\ job'[r].pc = "send" /\ job'[r].step = job[r].step
        /\ job'[r].seen = job[r].seen /\ job'[r].struck = job[r].struck
        /\ job'[r].lame = job[r].lame
        /\ job'[r].bad = (job[r].bad \/ ~ok)
    BY <1>1 DEF TypeOK, Jobs
  <1>3. job[r].pc = "link" /\ exits' = exits
    BY DEF Link, At
  <1>4. \A x \in Slots : pos'[x] = "due" => pos[x] = "due"
    BY DoLink
  <1>5. Paid(r, job[r])
    BY DEF PaidInv
  <1>6. Paid(r, job[r])'
    BY <1>2, <1>3, <1>4, <1>5 DEF Paid, StillListed, Expiring
  <1> QED BY <1>3, <1>4, <1>6

\* At the end of a list nothing is owed any more
LEMMA DonePaid ==
  ASSUME TypeOK, PaidInv, NEW r \in Runs, Done(r)
  PROVE  /\ Paid(r, job[r])' /\ exits' = exits /\ pos' = pos
         /\ r \in well' /\ r \notin well => ~job[r].bad
  <1>0. job[r].pc = "send" /\ job[r].todo = {} /\ exits' = exits /\ pos' = pos
    BY DEF Done, At, books
  <1>1. Paid(r, job[r])
    BY DEF PaidInv
  <1>2. CASE StepAfter(r) # "end" /\ job' = [job EXCEPT ![r].pc = StepAfter(r)] /\ UNCHANGED day
    <2> DEFINE to == StepAfter(r)
    <2>1. /\ job'[r].pc = to
          /\ job'[r].seen = job[r].seen /\ job'[r].struck = job[r].struck
          /\ job'[r].lame = job[r].lame
          /\ job'[r].bad = job[r].bad
      <3> HIDE DEF to
      <3>1. job' = [job EXCEPT ![r].pc = to]
        BY <1>2 DEF to
      <3> QED BY <3>1 DEF TypeOK, Jobs
    <2>2. to \notin {"idle", "lock", "read", "screen", "send"}
      BY <1>2 DEF StepAfter
    <2> HIDE DEF to
    <2>3. Paid(r, job[r])'
      BY <1>0, <1>1, <2>1, <2>2 DEF Paid, StillListed, Expiring
    <2> QED BY <1>0, <1>2, <2>3 DEF day
  <1>3. CASE Finish(r, job[r].bad)
    <2>1. job'[r] = Idle
      BY <1>3, DoFinish
    <2>2. Paid(r, job[r])'
      BY <2>1, IdlePaid DEF Idle
    <2> QED BY <1>0, <1>3, <2>2 DEF Finish
  <1> QED BY <1>2, <1>3 DEF Done

LEMMA SendingPaid ==
  ASSUME OrderAssumption, TypeOK, Course, PaidInv, NEW r \in Runs, Sending(r)
  PROVE  PaidInv'
  <1>1. CASE SendExit(r)
    <2>1. Moves(r)
      BY <1>1, DoSendExit
    <2>2. /\ Paid(r, job[r])' /\ pos' = pos
          /\ \A x \in Slots : exits[x] > 0 => exits'[x] > 0
      BY <1>1, ExitPaid
    <2> QED BY <2>1, <2>2, PaidMoves
  <1>2. CASE SendEntry(r)
    <2>1. Moves(r)
      BY <1>2, DoSendEntry
    <2>2. Paid(r, job[r])'
      BY <1>2, SendEntryPaid
    <2>3. exits' = exits /\ pos' = pos
      BY <1>2 DEF SendEntry
    <2> QED BY <2>1, <2>2, <2>3, PaidMoves
  <1>3. CASE PassOver(r)
    <2>1. Moves(r)
      BY <1>3, DoPassOver
    <2>2. Paid(r, job[r])'
      BY <1>3, PassOverPaid
    <2>3. exits' = exits /\ pos' = pos
      BY <1>3 DEF PassOver, books
    <2> QED BY <2>1, <2>2, <2>3, PaidMoves
  <1>4. CASE Link(r)
    <2>1. Moves(r)
      BY <1>4, DoLink
    <2>2. /\ Paid(r, job[r])' /\ exits' = exits
          /\ \A x \in Slots : pos'[x] = "due" => pos[x] = "due"
      BY <1>4, LinkPaid
    <2> QED BY <2>1, <2>2, PaidMoves
  <1>5. CASE Done(r)
    <2>1. Moves(r)
      BY <1>5, DoDone
    <2>2. Paid(r, job[r])' /\ exits' = exits /\ pos' = pos
      BY <1>5, DonePaid
    <2> QED BY <2>1, <2>2, PaidMoves
  <1> QED BY <1>1, <1>2, <1>3, <1>4, <1>5 DEF Sending

LEMMA MorningPaid ==
  ASSUME OrderAssumption, TypeOK, PaidInv, NEW r \in Runs, Morning(r)
  PROVE  PaidInv'
  <1>1. Moves(r) /\ exits' = exits /\ pos' = pos
    BY DecidesKeeps DEF Decides
  <1>2. CASE StepsFail(r)
    <2>1. job'[r] = Idle
      BY <1>2, DoFinish DEF StepsFail
    <2> QED BY <1>1, <2>1, IdlePaid, PaidMoves DEF Idle
  <1>3. CASE Gate(r) \/ Predict(r) \/ Survey(r)
    <2>1. Paid(r, job[r])'
      BY <1>1, <1>3, GatePaid, PredictPaid, SurveyPaid
    <2> QED BY <1>1, <2>1, PaidMoves
  <1>4. CASE ListStops(r) \/ ListSells(r) \/ ListBuys(r)
    <2>1. Paid(r, job[r])'
      BY <1>1, <1>4, StopsPaid, SellsPaid, BuysPaid
    <2> QED BY <1>1, <2>1, PaidMoves
  <1>5. CASE ListCovers(r) \/ ListShorts(r)
    <2>1. Paid(r, job[r])'
      BY <1>1, <1>5, CoversPaid, ShortsPaid
    <2> QED BY <1>1, <2>1, PaidMoves
  <1> QED BY <1>2, <1>3, <1>4, <1>5 DEF Morning

\* Runs at rest owe nothing
LEMMA RestPaid ==
  ASSUME PaidInv, \A r \in Runs : job[r].pc = "idle",
         \A r \in Runs : job'[r] = job[r] \/ job'[r] = Idle
  PROVE  PaidInv'
  <1>1. ASSUME NEW r \in Runs PROVE Paid(r, job[r])'
    <2>1. job[r].struck = {} /\ job[r].seen = {} /\ job[r].pc = "idle"
      BY DEF PaidInv, Paid
    <2>2. job'[r].struck = {} /\ job'[r].seen = {} /\ job'[r].pc = "idle"
      BY <2>1 DEF Idle
    <2> QED BY <2>2, IdlePaid
  <1> QED BY <1>1 DEF PaidInv

\* Exits are settled, and dates pass, only when the runs are at rest
LEMMA OutsidePaid ==
  ASSUME TypeOK, Hours, PaidInv, Outside
  PROVE  PaidInv'
  <1>1. CASE Crash
    <2>1. ASSUME NEW r \in Runs PROVE Paid(r, job[r])'
      <3>1. job'[r] = Idle
        BY <1>1 DEF Crash
      <3> QED BY <3>1, IdlePaid DEF Idle
    <2> QED BY <2>1 DEF PaidInv
  <1>2. CASE Open \/ Close
    <2>1. pos' = pos /\ exits' = exits /\ job' = job
      BY <1>2 DEF Open, Close, books
    <2> QED BY <2>1 DEF PaidInv, Paid, StillListed, Expiring
  <1>3. CASE NextDay \/ \E x \in Slots : SettleEntry(x) \/ SettleExit(x)
    <2>1. job' = job
      BY <1>3 DEF NextDay, SettleEntry, SettleExit
    <2>2. \A r \in Runs : job[r].pc = "idle"
      BY <1>3, Apart DEF NextDay, AllIdle, At, SettleEntry, SettleExit
    <2> QED BY <2>1, <2>2, RestPaid
  <1> QED BY <1>1, <1>2, <1>3 DEF Outside

LEMMA PaidStep ==
  ASSUME OrderAssumption, TypeOK, Course, Hours, PaidInv, [Next]_vars
  PROVE  PaidInv'
  <1>0. "auto" \in Runs /\ "rule" \in Runs
    BY DEF Runs
  <1>1. CASE UNCHANGED vars
    <2>1. pos' = pos /\ exits' = exits /\ job' = job
      BY <1>1 DEF vars, books
    <2> QED BY <2>1 DEF PaidInv, Paid, StillListed, Expiring
  <1>2. CASE \E r \in Runs : Start(r)
    <2>1. PICK r \in Runs : Start(r)
      BY <1>2
    <2>2. Moves(r) /\ exits' = exits /\ pos' = pos
      BY <2>1, DoStart DEF Start, books
    <2>3. job' = [job EXCEPT ![r].pc = IF r = "rule" THEN "read" ELSE "lock"]
      BY <2>1 DEF Start
    <2>4. /\ job'[r].pc = IF r = "rule" THEN "read" ELSE "lock"
          /\ job'[r].struck = job[r].struck /\ job'[r].seen = job[r].seen
      BY <2>3 DEF TypeOK, Jobs
    <2>5. job[r].struck = {} /\ job[r].seen = {}
      BY <2>1 DEF Start, At, PaidInv, Paid
    <2>6. Paid(r, job[r])'
      BY <2>4, <2>5 DEF Paid
    <2> QED BY <2>2, <2>6, PaidMoves
  <1>3. CASE \E r \in Runs : Sending(r)
    BY <1>3, SendingPaid
  <1>4. CASE \E r \in Runs \ {"rule"} : ListExpired(r)
    <2>1. PICK r \in Runs \ {"rule"} : ListExpired(r)
      BY <1>4
    <2>2. Moves(r) /\ exits' = exits /\ pos' = pos
      BY <2>1, DecidesKeeps DEF Decides
    <2>3. Paid(r, job[r])'
      BY <2>1, <2>2, ExpiredPaid
    <2> QED BY <2>2, <2>3, PaidMoves
  <1>5. CASE Morning("auto")
    BY <1>0, <1>5, MorningPaid
  <1>6. CASE ReadHeld("rule")
    <2>1. Moves("rule") /\ exits' = exits /\ pos' = pos
      BY <1>0, <1>6, DecidesKeeps DEF Decides
    <2>2. CASE Finish("rule", TRUE)
      <3>1. job'["rule"] = Idle
        BY <1>0, <2>2, DoFinish
      <3> QED BY <1>0, <2>1, <3>1, IdlePaid, PaidMoves DEF Idle
    <2>3. CASE \E score \in [Symbols -> Scores] :
                 job' = [job EXCEPT !["rule"].pc = "screen", !["rule"].score = score,
                                    !["rule"].held = Longs]
      <3>1. /\ job'["rule"].struck = job["rule"].struck
            /\ job'["rule"].seen = job["rule"].seen
        BY <1>0, <2>3 DEF TypeOK, Jobs
      <3>2. job["rule"].struck = {} /\ job["rule"].seen = {}
        BY <1>0, <1>6 DEF ReadHeld, At, PaidInv, Paid
      <3>3. Paid("rule", job["rule"])'
        BY <3>1, <3>2 DEF Paid
      <3> QED BY <1>0, <2>1, <3>3, PaidMoves
    <2> QED BY <1>6, <2>2, <2>3 DEF ReadHeld
  <1>7. CASE Screen("rule")
    <2>1. Moves("rule") /\ exits' = exits /\ pos' = pos
      BY <1>0, <1>7, DecidesKeeps DEF Decides
    <2>2. Paid("rule", job["rule"])'
      BY <1>7, <2>1, ScreenPaid
    <2> QED BY <1>0, <2>1, <2>2, PaidMoves
  <1>8. CASE Outside
    BY <1>8, OutsidePaid
  <1> QED BY <1>1, <1>2, <1>3, <1>4, <1>5, <1>6, <1>7, <1>8, StepKinds

\* Only the end of a list makes a run one that ended well
LEMMA EndsWell ==
  ASSUME TypeOK, [Next]_vars, NEW r \in Runs, r \in well', r \notin well
  PROVE  Done(r)
  <1>0. "auto" \in Runs /\ "rule" \in Runs
    BY DEF Runs
  <1>1. CASE \E q \in Runs : Done(q)
    <2>1. PICK q \in Runs : Done(q)
      BY <1>1
    <2>2. well' = well \/ well' = well \cup {q}
      BY <2>1 DEF Done, Finish, day
    <2> QED BY <2>1, <2>2
  <1>2. CASE \E q \in Runs : Start(q) \/ SendExit(q) \/ SendEntry(q) \/ PassOver(q) \/ Link(q)
    BY <1>2 DEF Start, SendExit, SendEntry, PassOver, Link, day
  <1>3. CASE \E q \in Runs \ {"rule"} : ListExpired(q)
    BY <1>3 DEF ListExpired, day
  <1>4. CASE Morning("auto")
    <2>1. CASE StepsFail("auto")
      BY <2>1 DEF StepsFail, Finish
    <2>2. CASE Gate("auto") \/ Predict("auto") \/ Survey("auto") \/ ListStops("auto")
      BY <2>2 DEF Gate, Predict, Survey, ListStops, day
    <2>3. CASE ListSells("auto") \/ ListBuys("auto") \/ ListCovers("auto") \/ ListShorts("auto")
      BY <2>3 DEF ListSells, ListBuys, ListCovers, ListShorts, day
    <2> QED BY <1>4, <2>1, <2>2, <2>3 DEF Morning
  <1>5. CASE ReadHeld("rule") \/ Screen("rule")
    BY <1>5 DEF ReadHeld, Screen, Finish, day
  <1>6. CASE Outside
    BY <1>6 DEF Outside, SettleEntry, SettleExit, Open, Close, NextDay, Crash, day
  <1>7. CASE UNCHANGED vars
    BY <1>7 DEF vars, day
  <1> QED BY <1>1, <1>2, <1>3, <1>4, <1>5, <1>6, <1>7, StepKinds DEF Sending

LEMMA WellPaid ==
  ASSUME TypeOK, PaidInv, [Next]_vars, NEW r \in Runs, r \in well' \ well, NEW x \in Owed(r)
  PROVE  exits[x] > 0
  <1>1. Done(r)
    BY EndsWell
  <1>2. ~job[r].bad
    BY <1>1, DonePaid
  <1>3. job[r].pc = "send" /\ job[r].todo = {}
    BY <1>1 DEF Done, At
  <1>4. Paid(r, job[r])
    BY DEF PaidInv
  <1>5. CASE x \in job[r].struck
    BY <1>2, <1>3, <1>4, <1>5 DEF Paid, StillListed
  <1>6. CASE r # "rule" /\ x \in Slots \ job[r].lame /\ pos[x] = "due"
    BY <1>2, <1>3, <1>4, <1>6 DEF Paid
  <1> QED BY <1>5, <1>6 DEF Owed

(***************************************************************************)
(* When the morning's runs are over before orders are settled, a run that  *)
(* ends without a failure has ordered every exit it owed: of each position *)
(* beyond its stop or target, of each sell signal and, in the morning, of  *)
(* each position past its date - whatever reads and statements fail, with  *)
(* the other runs beside it and the daemon dying anywhere (daily.py:368,   *)
(* sl_tp.py:62, horizon_exit.py:67).  It owes none to a short sale whose   *)
(* row it could not work out: the code passes that over and ends well      *)
(* (horizon_exit.py:113, runner.py:412).                                   *)
(***************************************************************************)
THEOREM SuccessIsPaid == Late = FALSE => (Spec => SuccessMeansExits)
  <1> SUFFICES ASSUME Late = FALSE PROVE Spec => SuccessMeansExits
    OBVIOUS
  <1> USE OrderAssumption
  <1>1. Init => TypeOK /\ Course /\ Hours /\ PaidInv
    <2>1. Init => TypeOK
      BY InitType
    <2>2. Init => Course /\ Hours
      BY InitEntry DEF EntryInv
    <2>3. Init => PaidInv
      BY DEF Init, Idle, PaidInv, Paid
    <2> QED BY <2>1, <2>2, <2>3
  <1>2. TypeOK /\ Course /\ Hours /\ PaidInv /\ [Next]_vars
          => (TypeOK /\ Course /\ Hours /\ PaidInv)'
    BY TypeStep, CourseStep, HoursStep, PaidStep
  <1>3. TypeOK /\ PaidInv /\ [Next]_vars
          => [\A r \in Runs : r \in well' \ well => \A x \in Owed(r) : exits[x] > 0]_vars
    BY WellPaid
  <1> QED BY <1>1, <1>2, <1>3, PTL DEF Spec, SuccessMeansExits
=============================================================================
