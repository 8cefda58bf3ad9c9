------------------------ MODULE ModelPromotionProofs ------------------------
(***************************************************************************)
(* Proofs about the production pair, for any processes, versions and       *)
(* bounds.  With every fault and death: the types, the lock, that a        *)
(* version that was rolled back stays out, and that a challenger is not    *)
(* promoted in the week it was trained.  When no process dies between the  *)
(* replacement of a file and the save that knows of it, and the end of a   *)
(* watch can be saved: that what is in production is accounted for, and    *)
(* that a rollback brings back what was there before the swap.             *)
(***************************************************************************)
EXTENDS ModelPromotion, TLAPS

Pcs == {"idle", "load", "watch", "close", "choose", "train", "record", "shadow",
        "clear", "retrain", "challenge", "backup", "replace", "restore"}

\* What a copy is given, or has set aside: the files of some of the models
Copies == UNION {[K -> Contents] : K \in SUBSET Kinds}

Watches == [version : Versions \cup {None}, pair : Copies, backups : Copies,
            told : BOOLEAN]
States == [last : Versions \cup {None}, back : SUBSET Versions, watch : Watches]

Jobs ==
  [pc : Pcs, mode : [force : BOOLEAN, dry : BOOLEAN], state : States,
   version : Versions \cup {None}, gen : Contents, src : Copies, backups : Copies,
   left : SUBSET Kinds,
   then : {None, "swap", "rollback", "undo", "promote"}, torn : BOOLEAN]

Rows == {"thin", "good", "poor"}

FilesTyped ==
  /\ prod \in [Kinds -> Contents] /\ cand \in [Kinds -> Contents]
  /\ chal \in [Kinds -> Contents] /\ trusted \in [Kinds -> Contents]
  /\ fresh \subseteq Kinds /\ made \in Trainings

RestTyped ==
  /\ mark \in Versions \cup {None} /\ code \in Versions /\ week \in 0 .. MaxWeeks
  /\ reader \subseteq Kinds
  /\ rows \in Seq(Rows) /\ Len(rows) <= MaxRows

TypeInv ==
  /\ FilesTyped /\ RestTyped
  /\ store \in States /\ lock \in Actors \cup {Free} /\ job \in [Actors -> Jobs]

\* Only the process that holds the lock is at work
Exclusion == \A a \in Actors : job[a].pc # "idle" => lock = a

\* A watch stands over a whole pair, with the whole pair before it as its
\* backups, and over a version that was not rolled back
Sound(s) ==
  s.watch # NoWatch =>
    /\ s.watch.version \in Versions \ s.back
    /\ s.watch.backups \in [Kinds -> Trainings]
    /\ s.watch.pair \in [Kinds -> Trainings]

\* What a night is about to put on watch is fit for it
SwapSound(j) ==
  j.pc \in Copying /\ j.then = "swap" =>
    /\ j.version \in Versions \ j.state.back
    /\ j.src = cand /\ cand \in [Kinds -> Trainings]
    /\ j.pc = "backup" => Present(prod) = Kinds
    /\ j.pc = "replace" => j.backups \in [Kinds -> Trainings]

TrainSound(j) ==
  j.pc = "train" =>
    /\ j.version \in Versions /\ j.gen # Missing
    /\ \A k \in Kinds \ j.left : cand[k] # Missing

\* What holds of the variables of a process
JobSound(j) ==
  /\ Sound(j.state)
  /\ j.pc = "watch" => j.state.watch # NoWatch
  /\ j.pc \in Copying => j.left \subseteq DOMAIN j.src
  /\ j.pc \in Copying /\ j.then = "rollback" => j.state.watch # NoWatch
  /\ TrainSound(j)
  /\ SwapSound(j)

BaseInv ==
  /\ TypeInv /\ Exclusion /\ Sound(store)
  /\ \A a \in Actors : JobSound(job[a])

-----------------------------------------------------------------------------
(* Types of the constant records and of the copies *)

LEMMA ContentsRange ==
  /\ Contents = 0 .. MaxMade /\ Trainings = 1 .. MaxMade
  /\ Contents \ {Missing} = Trainings /\ Trainings \subseteq Contents
  /\ Missing \in Contents /\ Seed \in Trainings
BY PromotionAssumption DEF Contents, Trainings, Seed, Missing

LEMMA EmptyCopy == << >> \in Copies
<1>1. << >> \in [{} -> Contents]
  OBVIOUS
<1>2. {} \in SUBSET Kinds
  OBVIOUS
<1> QED BY <1>1, <1>2 DEF Copies

LEMMA CopyIntro ==
  ASSUME NEW K \in SUBSET Kinds, NEW f \in [K -> Contents]
  PROVE  f \in Copies
BY DEF Copies

LEMMA CopyElim ==
  ASSUME NEW f \in Copies
  PROVE  /\ DOMAIN f \subseteq Kinds
         /\ f \in [DOMAIN f -> Contents]
         /\ \A k \in DOMAIN f : f[k] \in Contents
BY DEF Copies

LEMMA WatchType == NoWatch \in Watches
BY EmptyCopy DEF NoWatch, Watches

LEMMA StateType == IdleState \in States /\ Sound(IdleState)
BY WatchType DEF IdleState, States, Sound

LEMMA IdleType == Idle \in Jobs
<1>1. Missing \in Contents
  BY ContentsRange
<1> QED BY <1>1, EmptyCopy, StateType DEF Idle, Jobs, Pcs, Missing

LEMMA IdleSound == JobSound(Idle)
BY StateType DEF Idle, JobSound, TrainSound, SwapSound, Copying

LEMMA IdleFacts == Idle.pc = "idle" /\ Idle.state = IdleState /\ Idle.then = None
BY DEF Idle

-----------------------------------------------------------------------------
(* What the steps do to the variables of a process, and that they are typed. *)

(* The changes that a step makes to the variables of a process. *)

Moves(a, pc, st) ==
  job' = [job EXCEPT ![a].pc = pc, ![a].state = st]

Trains(a, v, g) ==
  job' = [job EXCEPT ![a].pc = "train", ![a].version = v, ![a].gen = g,
                        ![a].left = Kinds]

Retrains(a, g) ==
  job' = [job EXCEPT ![a].pc = "challenge", ![a].gen = g, ![a].left = Kinds]

Leaves(a, K) ==
  job' = [job EXCEPT ![a].left = K]

BacksUp(a, f) ==
  job' = [job EXCEPT ![a].pc = "replace", ![a].backups = f]

PutsBack(a, K) ==
  job' = [job EXCEPT ![a].pc = "restore", ![a].left = K]

\* RestoreFails
Tears(a, K) ==
  job' = [job EXCEPT ![a].left = K, ![a].torn = TRUE]

\* The variables of a alone change, and they become j
Becomes(a, j) ==
  /\ job' \in [Actors -> Jobs]
  /\ job'[a] = j
  /\ \A b \in Actors \ {a} : job'[b] = job[b]

LEMMA JobStep ==
  ASSUME TypeInv, NEW a \in Actors, NEW j \in Jobs, job' = [job EXCEPT ![a] = j]
  PROVE  Becomes(a, j)
BY DEF TypeInv, Becomes

LEMMA LeaveStep ==
  ASSUME TypeInv, NEW a \in Actors, Leave(a)
  PROVE  Becomes(a, Idle) /\ lock' = Free
BY IdleType, JobStep DEF Leave

\* Goto
LEMMA GotoStep ==
  ASSUME TypeInv, NEW a \in Actors,
         NEW pc \in Pcs,
         Goto(a, pc)
  PROVE  \E j \in Jobs :
           /\ Becomes(a, j)
           /\ j.pc = pc /\ j.state = job[a].state /\ j.version = job[a].version
           /\ j.gen = job[a].gen /\ j.src = job[a].src /\ j.backups = job[a].backups
           /\ j.left = job[a].left /\ j.then = job[a].then /\ j.torn = job[a].torn
<1> DEFINE j == [job[a] EXCEPT !.pc = pc]
<1>1. job[a] \in Jobs /\ job' = [job EXCEPT ![a] = j]
  BY DEF TypeInv, Goto
<1>2. j \in Jobs
  BY <1>1 DEF Jobs, Pcs
<1>3. /\ j.pc = pc /\ j.state = job[a].state /\ j.version = job[a].version
      /\ j.gen = job[a].gen /\ j.src = job[a].src /\ j.backups = job[a].backups
      /\ j.left = job[a].left /\ j.then = job[a].then /\ j.torn = job[a].torn
  BY <1>1 DEF Jobs
<1> HIDE DEF j
<1> QED BY <1>1, <1>2, <1>3, JobStep

\* Load, Keep, RolledBack, NoSwap, Swapped
LEMMA StateStep ==
  ASSUME TypeInv, NEW a \in Actors,
         NEW pc \in Pcs, NEW st \in States,
         Moves(a, pc, st)
  PROVE  \E j \in Jobs :
           /\ Becomes(a, j)
           /\ j.pc = pc /\ j.state = st /\ j.version = job[a].version
           /\ j.gen = job[a].gen /\ j.src = job[a].src /\ j.backups = job[a].backups
           /\ j.left = job[a].left /\ j.then = job[a].then /\ j.torn = job[a].torn
<1> DEFINE j == [job[a] EXCEPT !.pc = pc, !.state = st]
<1>1. job[a] \in Jobs /\ job' = [job EXCEPT ![a] = j]
  BY DEF TypeInv, Moves
<1>2. j \in Jobs
  BY <1>1 DEF Jobs, Pcs
<1>3. /\ j.pc = pc /\ j.state = st /\ j.version = job[a].version
      /\ j.gen = job[a].gen /\ j.src = job[a].src /\ j.backups = job[a].backups
      /\ j.left = job[a].left /\ j.then = job[a].then /\ j.torn = job[a].torn
  BY <1>1 DEF Jobs
<1> HIDE DEF j
<1> QED BY <1>1, <1>2, <1>3, JobStep

\* Choose
LEMMA ChooseStep ==
  ASSUME TypeInv, NEW a \in Actors,
         NEW v \in Versions, NEW g \in Contents,
         Trains(a, v, g)
  PROVE  \E j \in Jobs :
           /\ Becomes(a, j)
           /\ j.pc = "train" /\ j.state = job[a].state /\ j.version = v
           /\ j.gen = g /\ j.src = job[a].src /\ j.backups = job[a].backups
           /\ j.left = Kinds /\ j.then = job[a].then /\ j.torn = job[a].torn
<1> DEFINE j == [job[a] EXCEPT !.pc = "train", !.version = v, !.gen = g, !.left = Kinds]
<1>1. job[a] \in Jobs /\ job' = [job EXCEPT ![a] = j]
  BY DEF TypeInv, Trains
<1>2. j \in Jobs
  BY <1>1 DEF Jobs, Pcs
<1>3. /\ j.pc = "train" /\ j.state = job[a].state /\ j.version = v
      /\ j.gen = g /\ j.src = job[a].src /\ j.backups = job[a].backups
      /\ j.left = Kinds /\ j.then = job[a].then /\ j.torn = job[a].torn
  BY <1>1 DEF Jobs
<1> HIDE DEF j
<1> QED BY <1>1, <1>2, <1>3, JobStep

\* Retrain
LEMMA RetrainStep ==
  ASSUME TypeInv, NEW a \in Actors,
         NEW g \in Contents,
         Retrains(a, g)
  PROVE  \E j \in Jobs :
           /\ Becomes(a, j)
           /\ j.pc = "challenge" /\ j.state = job[a].state /\ j.version = job[a].version
           /\ j.gen = g /\ j.src = job[a].src /\ j.backups = job[a].backups
           /\ j.left = Kinds /\ j.then = job[a].then /\ j.torn = job[a].torn
<1> DEFINE j == [job[a] EXCEPT !.pc = "challenge", !.gen = g, !.left = Kinds]
<1>1. job[a] \in Jobs /\ job' = [job EXCEPT ![a] = j]
  BY DEF TypeInv, Retrains
<1>2. j \in Jobs
  BY <1>1 DEF Jobs, Pcs
<1>3. /\ j.pc = "challenge" /\ j.state = job[a].state /\ j.version = job[a].version
      /\ j.gen = g /\ j.src = job[a].src /\ j.backups = job[a].backups
      /\ j.left = Kinds /\ j.then = job[a].then /\ j.torn = job[a].torn
  BY <1>1 DEF Jobs
<1> HIDE DEF j
<1> QED BY <1>1, <1>2, <1>3, JobStep

\* Replace, Restore, Train, TrainChallenger
LEMMA LeftStep ==
  ASSUME TypeInv, NEW a \in Actors,
         NEW K \in SUBSET Kinds,
         Leaves(a, K)
  PROVE  \E j \in Jobs :
           /\ Becomes(a, j)
           /\ j.pc = job[a].pc /\ j.state = job[a].state /\ j.version = job[a].version
           /\ j.gen = job[a].gen /\ j.src = job[a].src /\ j.backups = job[a].backups
           /\ j.left = K /\ j.then = job[a].then /\ j.torn = job[a].torn
<1> DEFINE j == [job[a] EXCEPT !.left = K]
<1>1. job[a] \in Jobs /\ job' = [job EXCEPT ![a] = j]
  BY DEF TypeInv, Leaves
<1>2. j \in Jobs
  BY <1>1 DEF Jobs, Pcs
<1>3. /\ j.pc = job[a].pc /\ j.state = job[a].state /\ j.version = job[a].version
      /\ j.gen = job[a].gen /\ j.src = job[a].src /\ j.backups = job[a].backups
      /\ j.left = K /\ j.then = job[a].then /\ j.torn = job[a].torn
  BY <1>1 DEF Jobs
<1> HIDE DEF j
<1> QED BY <1>1, <1>2, <1>3, JobStep

\* BackUp
LEMMA BackUpStep ==
  ASSUME TypeInv, NEW a \in Actors,
         NEW f \in Copies,
         BacksUp(a, f)
  PROVE  \E j \in Jobs :
           /\ Becomes(a, j)
           /\ j.pc = "replace" /\ j.state = job[a].state /\ j.version = job[a].version
           /\ j.gen = job[a].gen /\ j.src = job[a].src /\ j.backups = f
           /\ j.left = job[a].left /\ j.then = job[a].then /\ j.torn = job[a].torn
<1> DEFINE j == [job[a] EXCEPT !.pc = "replace", !.backups = f]
<1>1. job[a] \in Jobs /\ job' = [job EXCEPT ![a] = j]
  BY DEF TypeInv, BacksUp
<1>2. j \in Jobs
  BY <1>1 DEF Jobs, Pcs
<1>3. /\ j.pc = "replace" /\ j.state = job[a].state /\ j.version = job[a].version
      /\ j.gen = job[a].gen /\ j.src = job[a].src /\ j.backups = f
      /\ j.left = job[a].left /\ j.then = job[a].then /\ j.torn = job[a].torn
  BY <1>1 DEF Jobs
<1> HIDE DEF j
<1> QED BY <1>1, <1>2, <1>3, JobStep

\* ReplaceFails
LEMMA RestoreStep ==
  ASSUME TypeInv, NEW a \in Actors,
         NEW K \in SUBSET Kinds,
         PutsBack(a, K)
  PROVE  \E j \in Jobs :
           /\ Becomes(a, j)
           /\ j.pc = "restore" /\ j.state = job[a].state /\ j.version = job[a].version
           /\ j.gen = job[a].gen /\ j.src = job[a].src /\ j.backups = job[a].backups
           /\ j.left = K /\ j.then = job[a].then /\ j.torn = job[a].torn
<1> DEFINE j == [job[a] EXCEPT !.pc = "restore", !.left = K]
<1>1. job[a] \in Jobs /\ job' = [job EXCEPT ![a] = j]
  BY DEF TypeInv, PutsBack
<1>2. j \in Jobs
  BY <1>1 DEF Jobs, Pcs
<1>3. /\ j.pc = "restore" /\ j.state = job[a].state /\ j.version = job[a].version
      /\ j.gen = job[a].gen /\ j.src = job[a].src /\ j.backups = job[a].backups
      /\ j.left = K /\ j.then = job[a].then /\ j.torn = job[a].torn
  BY <1>1 DEF Jobs
<1> HIDE DEF j
<1> QED BY <1>1, <1>2, <1>3, JobStep

\* RestoreFails
LEMMA TearStep ==
  ASSUME TypeInv, NEW a \in Actors,
         NEW K \in SUBSET Kinds,
         Tears(a, K)
  PROVE  \E j \in Jobs :
           /\ Becomes(a, j)
           /\ j.pc = job[a].pc /\ j.state = job[a].state /\ j.version = job[a].version
           /\ j.gen = job[a].gen /\ j.src = job[a].src /\ j.backups = job[a].backups
           /\ j.left = K /\ j.then = job[a].then /\ j.torn = TRUE
<1> DEFINE j == [job[a] EXCEPT !.left = K, !.torn = TRUE]
<1>1. job[a] \in Jobs /\ job' = [job EXCEPT ![a] = j]
  BY DEF TypeInv, Tears
<1>2. j \in Jobs
  BY <1>1 DEF Jobs, Pcs
<1>3. /\ j.pc = job[a].pc /\ j.state = job[a].state /\ j.version = job[a].version
      /\ j.gen = job[a].gen /\ j.src = job[a].src /\ j.backups = job[a].backups
      /\ j.left = K /\ j.then = job[a].then /\ j.torn = TRUE
  BY <1>1 DEF Jobs
<1> HIDE DEF j
<1> QED BY <1>1, <1>2, <1>3, JobStep

\* StartCopy
LEMMA StartStep ==
  ASSUME TypeInv, NEW a \in Actors,
         NEW f \in Copies, NEW next \in {"swap", "rollback", "undo", "promote"},
         StartCopy(a, f, next)
  PROVE  \E j \in Jobs :
           /\ Becomes(a, j)
           /\ j.pc = "backup" /\ j.state = job[a].state /\ j.version = job[a].version
           /\ j.gen = job[a].gen /\ j.src = f /\ j.backups = << >>
           /\ j.left = DOMAIN f /\ j.then = next
<1> DEFINE j == [job[a] EXCEPT !.pc = "backup", !.src = f, !.then = next,
                            !.backups = << >>, !.left = DOMAIN f,
                            !.torn = FALSE]
<1>0. DOMAIN f \in SUBSET Kinds
  BY CopyElim
<1>1. job[a] \in Jobs /\ job' = [job EXCEPT ![a] = j]
  BY DEF TypeInv, StartCopy
<1>2. j \in Jobs
  BY <1>0, <1>1, EmptyCopy DEF Jobs, Pcs
<1>3. /\ j.pc = "backup" /\ j.state = job[a].state /\ j.version = job[a].version
      /\ j.gen = job[a].gen /\ j.src = f /\ j.backups = << >>
      /\ j.left = DOMAIN f /\ j.then = next
  BY <1>1 DEF Jobs
<1> HIDE DEF j
<1> QED BY <1>1, <1>2, <1>3, JobStep

-----------------------------------------------------------------------------
(* The steps keep BaseInv.  The one process at work may change the files.   *)

\* While a process holds the lock, or nobody does, the others are idle
LEMMA OthersIdle ==
  ASSUME BaseInv, NEW a \in Actors, job[a].pc # "idle" \/ lock = Free
  PROVE  /\ \A b \in Actors \ {a} : job[b].pc = "idle"
         /\ job[a].pc # "idle" => lock = a
BY PromotionAssumption DEF BaseInv, Exclusion

LEMMA Frame ==
  ASSUME BaseInv, NEW a \in Actors, NEW j \in Jobs, Becomes(a, j),
         job[a].pc # "idle" \/ lock = Free,
         \/ lock' = a
         \/ lock' = lock /\ job[a].pc # "idle"
         \/ lock' = Free /\ j.pc = "idle",
         FilesTyped', RestTyped', store' \in States, Sound(store)', JobSound(j)'
  PROVE  BaseInv'
<1>1. \A b \in Actors \ {a} : job[b].pc = "idle"
  BY OthersIdle
<1>2. lock' \in Actors \cup {Free} /\ (j.pc # "idle" => lock' = a)
  BY OthersIdle
<1>3. TypeInv' /\ Exclusion'
  BY <1>1, <1>2 DEF TypeInv, Exclusion, Becomes
<1>4. ASSUME NEW b \in Actors \ {a} PROVE JobSound(job[b])'
  <2>1. job'[b] = job[b] /\ job[b].pc = "idle" /\ JobSound(job[b])
    BY <1>1 DEF Becomes, BaseInv
  <2> QED BY <2>1 DEF JobSound, TrainSound, SwapSound, Copying, Sound
<1> QED BY <1>3, <1>4 DEF Becomes, BaseInv

LEMMA LeaveBase ==
  ASSUME BaseInv, NEW a \in Actors, Leave(a), job[a].pc # "idle",
         UNCHANGED <<files, mark, code, week, reader, rows, trusted>>,
         store' \in States, Sound(store)'
  PROVE  BaseInv'
<1>1. Becomes(a, Idle) /\ lock' = Free /\ Idle.pc = "idle"
  BY LeaveStep, IdleFacts DEF BaseInv
<1>2. FilesTyped' /\ RestTyped'
  BY DEF BaseInv, TypeInv, FilesTyped, RestTyped, files
<1>3. JobSound(Idle)'
  BY IdleSound, IdleFacts DEF JobSound, TrainSound, SwapSound, Copying, Sound
<1> QED BY <1>1, <1>2, <1>3, IdleType, Frame

\* A step of a process that holds the lock, keeps it, and touches no file
LEMMA QuietBase ==
  ASSUME BaseInv, NEW a \in Actors, job[a].pc # "idle",
         NEW j \in Jobs, Becomes(a, j), JobSound(j),
         UNCHANGED <<files, store, mark, code, week, lock, reader>>,
         trusted' \in {trusted, prod},
         rows' \in Seq(Rows) /\ Len(rows') <= MaxRows
  PROVE  BaseInv'
<1>1. FilesTyped' /\ RestTyped' /\ store' \in States /\ Sound(store)'
  BY DEF BaseInv, TypeInv, FilesTyped, RestTyped, files, Sound
<1>2. JobSound(j)'
  BY DEF JobSound, TrainSound, SwapSound, Sound, files, Present
<1> QED BY <1>1, <1>2, Frame

LEMMA BeginBase ==
  ASSUME BaseInv, NEW a \in Actors, Begin(a)
  PROVE  BaseInv'
<1>0. TypeInv /\ lock = Free /\ lock' = a /\ JobSound(job[a])
  BY DEF BaseInv, Begin
<1>1. PICK j \in Jobs : Becomes(a, j) /\ j.pc \in {"load", "shadow"} /\ j.state = job[a].state
  <2>1. CASE a \in Nights
    <3>1. PICK m \in Modes : job' = [job EXCEPT ![a].pc = "load", ![a].mode = m]
      BY <2>1 DEF Begin
    <3>2. m \in [force : BOOLEAN, dry : BOOLEAN]
          /\ job' = [job EXCEPT ![a].pc = "load", ![a].mode = m]
      BY <3>1, PromotionAssumption
    <3> DEFINE j == [job[a] EXCEPT !.pc = "load", !.mode = m]
    <3>3. j \in Jobs /\ j.pc = "load" /\ j.state = job[a].state
      BY <1>0, <3>2 DEF TypeInv, Jobs, Pcs
    <3>4. job' = [job EXCEPT ![a] = j]
      BY <1>0, <3>2 DEF TypeInv
    <3> HIDE DEF j
    <3> QED BY <1>0, <3>3, <3>4, JobStep
  <2>2. CASE a \notin Nights
    <3>1. Goto(a, "shadow") /\ "shadow" \in Pcs
      BY <2>2 DEF Begin, Pcs
    <3> QED BY <1>0, <3>1, GotoStep
  <2> QED BY <2>1, <2>2
<1>2. FilesTyped' /\ RestTyped' /\ store' \in States /\ Sound(store)'
  BY DEF Begin, BaseInv, TypeInv, FilesTyped, RestTyped, files, Sound
<1>3. JobSound(j)'
  BY <1>0, <1>1 DEF JobSound, TrainSound, SwapSound, Copying, Sound
<1> QED BY <1>0, <1>1, <1>2, <1>3, Frame

-----------------------------------------------------------------------------
(* The copies *)

LEMMA CopyFailedBase ==
  ASSUME BaseInv, NEW a \in Actors, job[a].pc # "idle", CopyFailed(a),
         UNCHANGED <<files, store, mark, code, week, reader, rows, trusted>>
  PROVE  BaseInv'
<1>0. TypeInv /\ JobSound(job[a]) /\ store \in States /\ Sound(store)
      /\ rows \in Seq(Rows) /\ Len(rows) <= MaxRows
  BY DEF BaseInv, TypeInv, RestTyped
<1>1. CASE job[a].then = "promote"
  <2>1. PICK j \in Jobs : Becomes(a, j) /\ j.pc = "retrain" /\ j.state = job[a].state
    BY <1>0, <1>1, GotoStep DEF CopyFailed, Pcs
  <2>2. JobSound(j)
    BY <1>0, <2>1 DEF JobSound, TrainSound, SwapSound, Copying
  <2> QED BY <1>0, <1>1, <2>1, <2>2, QuietBase DEF CopyFailed
<1>2. CASE job[a].then # "promote"
  BY <1>0, <1>2, LeaveBase DEF CopyFailed, Sound
<1> QED BY <1>1, <1>2

LEMMA CopyBase ==
  ASSUME BaseInv, NEW a \in Actors, Copy(a)
  PROVE  BaseInv'
<1>0. TypeInv /\ job[a] \in Jobs /\ JobSound(job[a]) /\ store \in States /\ Sound(store)
      /\ rows \in Seq(Rows) /\ Len(rows) <= MaxRows
  BY DEF BaseInv, TypeInv, RestTyped
<1>00. job[a].src \in Copies /\ job[a].backups \in Copies /\ job[a].left \in SUBSET Kinds
  BY <1>0 DEF Jobs
<1>1. CASE BackUp(a)
  <2> DEFINE K == Present(prod) \cap DOMAIN job[a].src
             f == Restrict(prod, K)
  <2>1. prod \in [Kinds -> Contents]
    BY <1>0 DEF TypeInv, FilesTyped
  <2>2. K \in SUBSET Kinds /\ f \in [K -> Contents]
    BY <2>1 DEF Present, Restrict
  <2>3. f \in Copies
    BY <2>2, CopyIntro
  <2>4. job[a].pc = "backup"
        /\ BacksUp(a, f)
    BY <1>1 DEF BackUp, BacksUp
  <2>5. job[a].then = "swap" => f \in [Kinds -> Trainings]
    <3> SUFFICES ASSUME job[a].then = "swap" PROVE f \in [Kinds -> Trainings]
      OBVIOUS
    <3>1. K = Kinds
      BY <1>0, <2>4 DEF JobSound, SwapSound, Copying
    <3>2. \A k \in Kinds : prod[k] \in Trainings
      BY <2>1, <3>1, ContentsRange DEF Present
    <3> QED BY <3>1, <3>2 DEF Restrict
  <2> HIDE DEF f, K
  <2>6. PICK j \in Jobs :
           /\ Becomes(a, j) /\ j.pc = "replace" /\ j.state = job[a].state
           /\ j.version = job[a].version /\ j.src = job[a].src /\ j.backups = f
           /\ j.left = job[a].left /\ j.then = job[a].then
    BY <1>0, <2>3, <2>4, BackUpStep
  <2>7. JobSound(j)
    BY <1>0, <2>4, <2>5, <2>6 DEF JobSound, TrainSound, SwapSound, Copying
  <2> QED BY <1>0, <1>1, <2>4, <2>6, <2>7, QuietBase DEF BackUp
<1>2. CASE BackUpFails(a)
  BY <1>2, CopyFailedBase DEF BackUpFails
<1>3. CASE Replace(a)
  <2> PICK k \in job[a].left : prod' = [prod EXCEPT ![k] = job[a].src[k]]
                               /\ job' = [job EXCEPT ![a].left = @ \ {k}]
    BY <1>3 DEF Replace
  <2> DEFINE K == job[a].left \ {k}
  <2>1. K \in SUBSET Kinds /\ Leaves(a, K) /\ job[a].pc = "replace"
        /\ k \in DOMAIN job[a].src
    BY <1>0, <1>00, <1>3 DEF Leaves, TypeInv, Replace, JobSound, Copying
  <2>2. PICK j \in Jobs :
           /\ Becomes(a, j) /\ j.pc = job[a].pc /\ j.state = job[a].state
           /\ j.version = job[a].version /\ j.src = job[a].src /\ j.backups = job[a].backups
           /\ j.left = K /\ j.then = job[a].then
    BY <1>0, <2>1, LeftStep
  <2>3. prod' \in [Kinds -> Contents]
    BY <1>0, <1>00, <2>1, CopyElim DEF TypeInv, FilesTyped
  <2>4. UNCHANGED <<cand, chal, fresh, made, store, mark, code, week, lock,
                    reader, rows, trusted>>
    BY <1>3 DEF Replace
  <2>5. FilesTyped' /\ RestTyped' /\ store' \in States /\ Sound(store)'
    BY <1>0, <2>3, <2>4 DEF TypeInv, FilesTyped, RestTyped, Sound
  <2>6. JobSound(j)'
    BY <1>0, <2>1, <2>2, <2>4 DEF JobSound, TrainSound, SwapSound, Copying, Sound
  <2> QED BY <2>1, <2>2, <2>4, <2>5, <2>6, Frame
<1>4. CASE ReplaceFails(a)
  <2> DEFINE K == DOMAIN job[a].src
  <2>1. K \in SUBSET Kinds /\ job[a].pc = "replace"
        /\ PutsBack(a, K)
    BY <1>00, <1>4, CopyElim DEF ReplaceFails, PutsBack
  <2> HIDE DEF K
  <2>2. PICK j \in Jobs :
           /\ Becomes(a, j) /\ j.pc = "restore" /\ j.state = job[a].state
           /\ j.version = job[a].version /\ j.src = job[a].src
           /\ j.left = K /\ j.then = job[a].then
    BY <1>0, <2>1, RestoreStep, ZenonT(30)
  <2>3. JobSound(j)
    BY <1>0, <2>1, <2>2 DEF K, JobSound, TrainSound, SwapSound, Copying
  <2> QED BY <1>0, <1>4, <2>1, <2>2, <2>3, QuietBase DEF ReplaceFails
<1>5. CASE Restore(a)
  <2> PICK k \in job[a].left : PutBack(a, k) /\ job' = [job EXCEPT ![a].left = @ \ {k}]
    BY <1>5 DEF Restore
  <2> DEFINE K == job[a].left \ {k}
  <2>1. K \in SUBSET Kinds /\ Leaves(a, K) /\ job[a].pc = "restore"
    BY <1>0, <1>00, <1>5 DEF Leaves, TypeInv, Restore
  <2>2. PICK j \in Jobs :
           /\ Becomes(a, j) /\ j.pc = job[a].pc /\ j.state = job[a].state
           /\ j.version = job[a].version /\ j.src = job[a].src /\ j.backups = job[a].backups
           /\ j.left = K /\ j.then = job[a].then
    BY <1>0, <2>1, LeftStep
  <2>3. prod' \in [Kinds -> Contents]
    BY <1>0, <1>00, CopyElim, ContentsRange DEF TypeInv, FilesTyped, PutBack
  <2>4. UNCHANGED <<cand, chal, fresh, made, store, mark, code, week, lock,
                    reader, rows, trusted>>
    BY <1>5 DEF Restore
  <2>5. FilesTyped' /\ RestTyped' /\ store' \in States /\ Sound(store)'
    BY <1>0, <2>3, <2>4 DEF TypeInv, FilesTyped, RestTyped, Sound
  <2>6. JobSound(j)'
    BY <1>0, <2>1, <2>2, <2>4 DEF JobSound, TrainSound, SwapSound, Copying, Sound
  <2> QED BY <2>1, <2>2, <2>4, <2>5, <2>6, Frame
<1>6. CASE RestoreFails(a)
  <2> PICK k \in job[a].left :
         job' = [job EXCEPT ![a].left = @ \ {k}, ![a].torn = TRUE]
    BY <1>6 DEF RestoreFails
  <2> DEFINE K == job[a].left \ {k}
  <2>1. K \in SUBSET Kinds /\ Tears(a, K) /\ job[a].pc = "restore"
    BY <1>0, <1>00, <1>6 DEF Tears, TypeInv, RestoreFails
  <2>2. PICK j \in Jobs :
           /\ Becomes(a, j) /\ j.pc = job[a].pc /\ j.state = job[a].state
           /\ j.version = job[a].version /\ j.src = job[a].src /\ j.backups = job[a].backups
           /\ j.left = K /\ j.then = job[a].then
    BY <1>0, <2>1, TearStep
  <2>3. JobSound(j)
    BY <1>0, <2>1, <2>2 DEF JobSound, TrainSound, SwapSound, Copying
  <2> QED BY <1>0, <1>6, <2>1, <2>2, <2>3, QuietBase DEF RestoreFails
<1>7. CASE Restored(a)
  BY <1>7, CopyFailedBase DEF Restored
<1> QED BY <1>1, <1>2, <1>3, <1>4, <1>5, <1>6, <1>7 DEF Copy

-----------------------------------------------------------------------------
(* The nights *)

LEMMA AtWork ==
  ASSUME BaseInv, NEW a \in Actors
  PROVE  /\ TypeInv /\ job[a] \in Jobs /\ JobSound(job[a]) /\ job[a].state \in States
         /\ job[a].state.watch \in Watches /\ job[a].src \in Copies
         /\ job[a].backups \in Copies /\ job[a].left \in SUBSET Kinds
         /\ store \in States /\ store.watch \in Watches /\ Sound(store)
         /\ rows \in Seq(Rows) /\ Len(rows) <= MaxRows
BY DEF BaseInv, TypeInv, RestTyped, Jobs, States

LEMMA EmptyRows == << >> \in Seq(Rows) /\ Len(<< >>) <= MaxRows
BY PromotionAssumption

\* A watch that ends
LEMMA Unwatched ==
  ASSUME NEW st \in States, NEW B \in SUBSET Versions
  PROVE  /\ [st EXCEPT !.watch = NoWatch] \in States
         /\ Sound([st EXCEPT !.watch = NoWatch])
         /\ [st EXCEPT !.watch = NoWatch, !.back = B] \in States
         /\ Sound([st EXCEPT !.watch = NoWatch, !.back = B])
         /\ [st EXCEPT !.watch = NoWatch].watch = NoWatch
         /\ [st EXCEPT !.watch = NoWatch, !.back = B].watch = NoWatch
BY WatchType DEF States, Sound

LEMMA NightLeaves ==
  ASSUME BaseInv, NEW a \in Actors,
         \/ LoadFails(a) \/ NoJudgement(a) \/ TellSkipped(a) \/ CloseFails(a)
         \/ Skip(a) \/ NotCompared(a) \/ Record(a) \/ Undone(a)
  PROVE  BaseInv'
<1>0. a \in Actors
  BY DEF Actors
<1>1. CASE LoadFails(a) \/ NoJudgement(a) \/ CloseFails(a) \/ Skip(a)
           \/ NotCompared(a) \/ Undone(a)
  <2>1. Leave(a) /\ job[a].pc # "idle"
        /\ UNCHANGED <<files, store, mark, code, week, reader, rows, trusted>>
    BY <1>1 DEF LoadFails, NoJudgement, CloseFails, Skip, NotCompared, Undone, Copied
  <2> QED BY <1>0, <2>1, AtWork, LeaveBase DEF Sound
<1>2. CASE TellSkipped(a)
  <2> DEFINE w == [job[a].state.watch EXCEPT !.told = TRUE]
             st == [job[a].state EXCEPT !.watch = w]
  <2>1. store' = st /\ Leave(a) /\ job[a].pc = "watch"
        /\ UNCHANGED <<files, mark, code, week, reader, rows, trusted>>
    BY <1>2, <1>0, AtWork DEF TellSkipped, States
  <2>2. w \in Watches /\ w.version = job[a].state.watch.version
        /\ w.pair = job[a].state.watch.pair /\ w.backups = job[a].state.watch.backups
    BY <1>0, AtWork DEF Watches
  <2> HIDE DEF w
  <2>3. st \in States /\ st.watch = w /\ st.back = job[a].state.back
    BY <1>0, <2>2, AtWork DEF States
  <2>4. Sound(st)
    BY <1>0, <2>1, <2>2, <2>3, AtWork DEF JobSound, Sound
  <2> HIDE DEF st
  <2>5. store' \in States /\ Sound(store)'
    BY <2>1, <2>3, <2>4 DEF Sound
  <2> QED BY <1>0, <2>1, <2>5, LeaveBase
<1>3. CASE Record(a)
  <2>1. store' = job[a].state /\ Leave(a) /\ job[a].pc = "record"
        /\ UNCHANGED <<files, mark, code, week, reader, rows, trusted>>
    BY <1>3 DEF Record
  <2>2. store' \in States /\ Sound(store)'
    BY <1>0, <2>1, AtWork DEF JobSound, Sound
  <2> QED BY <1>0, <2>1, <2>2, LeaveBase
<1> QED BY <1>1, <1>2, <1>3

LEMMA JudgeBase ==
  ASSUME BaseInv, NEW a \in Actors,
         Load(a) \/ Keep(a) \/ RollBack(a) \/ RolledBack(a) \/ Close(a)
  PROVE  BaseInv'
<1>t. TypeInv
  BY DEF BaseInv
<1>0. /\ a \in Actors /\ TypeInv /\ job[a] \in Jobs /\ JobSound(job[a])
      /\ job[a].state \in States /\ job[a].state.watch \in Watches
      /\ store \in States /\ Sound(store)
      /\ rows \in Seq(Rows) /\ Len(rows) <= MaxRows
  BY AtWork DEF Actors
<1>1. CASE Load(a)
  <2>1. CASE store.watch # NoWatch /\ job[a].mode.dry
    BY <1>0, <1>1, <2>1, LeaveBase DEF Load, Sound
  <2>2. CASE ~(store.watch # NoWatch /\ job[a].mode.dry)
    <3> DEFINE pc == IF store.watch # NoWatch THEN "watch" ELSE "choose"
    <3>1. pc \in Pcs /\ Moves(a, pc, store) /\ job[a].pc = "load"
      BY <1>0, <1>1, <2>2 DEF Load, Moves, Pcs, TypeInv, Jobs
    <3>a. pc \in {"watch", "choose"} /\ (pc = "watch" => store.watch # NoWatch)
      OBVIOUS
    <3> HIDE DEF pc
    <3>2. PICK j \in Jobs : Becomes(a, j) /\ j.pc = pc /\ j.state = store
      BY <1>0, <3>1, StateStep
    <3>3. JobSound(j)
      BY <1>0, <3>a, <3>2 DEF JobSound, TrainSound, SwapSound, Copying
    <3> QED BY <1>0, <1>1, <2>2, <3>1, <3>2, <3>3, QuietBase DEF Load
  <2> QED BY <2>1, <2>2
<1>2. CASE Keep(a)
  <2> DEFINE st == [job[a].state EXCEPT !.watch = NoWatch]
  <2>1. st \in States /\ Sound(st)
    BY <1>0, Unwatched
  <2>2. job[a].pc = "watch" /\ Moves(a, "close", st)
    BY <1>0, <1>2 DEF Keep, TypeInv, Moves
  <2> HIDE DEF st
  <2>3. PICK j \in Jobs : Becomes(a, j) /\ j.pc = "close" /\ j.state = st
    BY <1>t, <2>1, <2>2, StateStep DEF Pcs
  <2>4. JobSound(j)
    BY <2>1, <2>3 DEF JobSound, TrainSound, SwapSound, Copying
  <2> QED BY <1>0, <1>2, <2>2, <2>3, <2>4, QuietBase DEF Keep
<1>3. CASE RollBack(a)
  <2> DEFINE f == job[a].state.watch.backups
  <2>1. f \in Copies
    BY <1>0, CopyElim DEF Watches
  <2>2. job[a].pc = "watch" /\ StartCopy(a, f, "rollback")
    BY <1>3 DEF RollBack
  <2>3. PICK j \in Jobs :
          /\ Becomes(a, j) /\ j.pc = "backup" /\ j.state = job[a].state
          /\ j.src = f /\ j.left = DOMAIN f /\ j.then = "rollback"
    BY <1>t, <2>1, <2>2, StartStep
  <2>4. JobSound(j)
    BY <1>0, <2>2, <2>3 DEF JobSound, TrainSound, SwapSound, Copying
  <2> QED BY <1>0, <1>3, <2>2, <2>3, <2>4, QuietBase DEF RollBack
<1>4. CASE RolledBack(a)
  <2> DEFINE B == job[a].state.back \cup {job[a].state.watch.version}
             st == [job[a].state EXCEPT !.watch = NoWatch, !.back = B]
  <2>1. job[a].pc = "replace" /\ job[a].then = "rollback"
    BY <1>4 DEF RolledBack, Copied
  <2>2. B \in SUBSET Versions
    BY <1>0, <2>1 DEF JobSound, Sound, States, Copying
  <2>3. Moves(a, "close", st)
    BY <1>0, <1>4 DEF RolledBack, TypeInv, States, Moves
  <2>4. st \in States /\ Sound(st)
    BY <1>0, <2>2, Unwatched
  <2> HIDE DEF st
  <2>5. PICK j \in Jobs : Becomes(a, j) /\ j.pc = "close" /\ j.state = st
    BY <1>t, <2>3, <2>4, StateStep DEF Pcs
  <2>6. JobSound(j)
    BY <2>4, <2>5 DEF JobSound, TrainSound, SwapSound, Copying
  <2> QED BY <1>0, <1>4, <2>1, <2>5, <2>6, QuietBase DEF RolledBack
<1>5. CASE Close(a)
  <2>1. job[a].pc = "close" /\ Goto(a, "choose")
    BY <1>5 DEF Close
  <2>2. PICK j \in Jobs : Becomes(a, j) /\ j.pc = "choose" /\ j.state = job[a].state
    BY <1>t, <2>1, GotoStep DEF Pcs
  <2>3. JobSound(j)'
    BY <1>0, <2>2 DEF JobSound, TrainSound, SwapSound, Copying, Sound
  <2>4. store' \in States /\ Sound(store)'
    BY <1>0, <1>5 DEF Close, JobSound, Sound
  <2>5. FilesTyped' /\ RestTyped' /\ lock' = lock
    BY <1>0, <1>5, EmptyRows DEF Close, TypeInv, FilesTyped, RestTyped, files
  <2> QED BY <1>0, <2>1, <2>2, <2>3, <2>4, <2>5, Frame
<1> QED BY <1>1, <1>2, <1>3, <1>4, <1>5

LEMMA EvaluateBase ==
  ASSUME BaseInv, NEW a \in Actors,
         Choose(a) \/ Train(a) \/ NoSwap(a) \/ Swap(a) \/ Swapped(a) \/ RecordFails(a)
  PROVE  BaseInv'
<1>t. TypeInv
  BY DEF BaseInv
<1>0. /\ a \in Actors /\ TypeInv /\ job[a] \in Jobs /\ JobSound(job[a])
      /\ job[a].state \in States /\ job[a].state.watch \in Watches
      /\ store \in States /\ Sound(store)
      /\ rows \in Seq(Rows) /\ Len(rows) <= MaxRows
      /\ cand \in [Kinds -> Contents] /\ prod \in [Kinds -> Contents]
  BY AtWork DEF Actors, TypeInv, FilesTyped
<1>1. CASE Choose(a)
  <2>1. made' = made + 1 /\ made' \in Trainings /\ made' \in Contents /\ made' # Missing
    BY <1>0, <1>1, ContentsRange, PromotionAssumption
       DEF Choose, NothingNew, TypeInv, FilesTyped, Missing
  <2>2. code \in Versions /\ job[a].pc = "choose" /\ Trains(a, code, made')
    BY <1>0, <1>1, <2>1 DEF Choose, Trains, TypeInv, RestTyped
  <2>3. PICK j \in Jobs :
          /\ Becomes(a, j) /\ j.pc = "train" /\ j.state = job[a].state
          /\ j.version = code /\ j.gen = made' /\ j.left = Kinds
    BY <1>t, <2>1, <2>2, ChooseStep
  <2>4. FilesTyped' /\ RestTyped' /\ store' \in States /\ Sound(store)' /\ lock' = lock
    BY <1>0, <1>1, <2>1 DEF Choose, TypeInv, FilesTyped, RestTyped, Sound
  <2>5. JobSound(j)'
    BY <1>0, <2>1, <2>2, <2>3 DEF JobSound, TrainSound, SwapSound, Copying, Sound
  <2> QED BY <1>0, <2>2, <2>3, <2>4, <2>5, Frame
<1>2. CASE Train(a)
  <2> PICK k \in job[a].left : cand' = [cand EXCEPT ![k] = job[a].gen]
                               /\ job' = [job EXCEPT ![a].left = @ \ {k}]
    BY <1>2 DEF Train
  <2> DEFINE K == job[a].left \ {k}
  <2>1. K \in SUBSET Kinds /\ Leaves(a, K) /\ job[a].pc = "train"
        /\ job[a].gen \in Contents
    BY <1>0, <1>2 DEF TypeInv, Leaves, Train, Jobs
  <2>2. PICK j \in Jobs :
           /\ Becomes(a, j) /\ j.pc = job[a].pc /\ j.state = job[a].state
           /\ j.version = job[a].version /\ j.gen = job[a].gen /\ j.left = K
    BY <1>t, <2>1, LeftStep
  <2>3. UNCHANGED <<prod, chal, fresh, made, store, mark, code, week, lock,
                    reader, rows, trusted>>
    BY <1>2 DEF Train
  <2>4. cand' \in [Kinds -> Contents]
    BY <1>0, <2>1
  <2>5. FilesTyped' /\ RestTyped' /\ store' \in States /\ Sound(store)'
    BY <1>0, <2>3, <2>4 DEF TypeInv, FilesTyped, RestTyped, Sound
  <2>6. TrainSound(j)'
    BY <1>0, <2>1, <2>2 DEF JobSound, TrainSound
  <2>7. JobSound(j)'
    BY <1>0, <2>1, <2>2, <2>6 DEF JobSound, SwapSound, Copying, Sound
  <2> QED BY <1>0, <2>1, <2>2, <2>3, <2>5, <2>7, Frame
<1>3. CASE NoSwap(a)
  <2> DEFINE st == [job[a].state EXCEPT !.last = job[a].version]
  <2>1. job[a].pc = "train" /\ Moves(a, "record", st)
    BY <1>0, <1>3 DEF NoSwap, Compared, TypeInv, Moves
  <2>2. st \in States /\ Sound(st)
    BY <1>0 DEF States, JobSound, Sound, Jobs
  <2> HIDE DEF st
  <2>3. PICK j \in Jobs : Becomes(a, j) /\ j.pc = "record" /\ j.state = st
    BY <1>t, <2>1, <2>2, StateStep DEF Pcs
  <2>4. JobSound(j)
    BY <2>2, <2>3 DEF JobSound, TrainSound, SwapSound, Copying
  <2> QED BY <1>0, <1>3, <2>1, <2>3, <2>4, QuietBase DEF NoSwap
<1>4. CASE Swap(a)
  <2>1. /\ job[a].pc = "train" /\ job[a].left = {} /\ Present(prod) = Kinds
        /\ job[a].version \notin job[a].state.back
        /\ StartCopy(a, cand, "swap") /\ DOMAIN cand = Kinds
    BY <1>0, <1>4 DEF Swap, Compared
  <2>2. cand \in [Kinds -> Trainings] /\ job[a].version \in Versions
    BY <1>0, <2>1, ContentsRange DEF JobSound, TrainSound
  <2>3. cand \in Copies
    BY <1>0, CopyIntro
  <2>4. PICK j \in Jobs :
          /\ Becomes(a, j) /\ j.pc = "backup" /\ j.state = job[a].state
          /\ j.version = job[a].version /\ j.src = cand /\ j.left = DOMAIN cand /\ j.then = "swap"
    BY <1>t, <2>1, <2>3, StartStep
  <2>5. JobSound(j)
    BY <1>0, <2>1, <2>2, <2>4 DEF JobSound, TrainSound, SwapSound, Copying
  <2> QED BY <1>0, <1>4, <2>1, <2>4, <2>5, QuietBase DEF Swap
<1>5. CASE Swapped(a)
  <2> DEFINE w == [version |-> job[a].version, pair |-> cand,
                   backups |-> job[a].backups, told |-> FALSE]
             st == [job[a].state EXCEPT !.last = job[a].version, !.watch = w]
  <2>1. job[a].pc = "replace" /\ job[a].then = "swap"
        /\ Moves(a, "record", st)
    BY <1>0, <1>5 DEF Swapped, Copied, TypeInv, Moves
  <2>2. /\ w.version \in Versions \ job[a].state.back /\ w.pair \in [Kinds -> Trainings]
        /\ w.backups \in [Kinds -> Trainings]
    BY <1>0, <2>1 DEF JobSound, SwapSound, Copying
  <2>3. w \in Watches
    BY <1>0, CopyIntro DEF Watches, Jobs
  <2> HIDE DEF w
  <2>4. st \in States /\ Sound(st)
    BY <1>0, <2>2, <2>3 DEF States, Sound, Jobs
  <2> HIDE DEF st
  <2>5. PICK j \in Jobs : Becomes(a, j) /\ j.pc = "record" /\ j.state = st
    BY <1>t, <2>1, <2>4, StateStep DEF Pcs
  <2>6. JobSound(j)
    BY <2>4, <2>5 DEF JobSound, TrainSound, SwapSound, Copying
  <2> QED BY <1>0, <1>5, <2>1, <2>5, <2>6, QuietBase, EmptyRows DEF Swapped
<1>6. CASE RecordFails(a)
  <2>1. CASE job[a].state.watch = NoWatch
    BY <1>0, <1>6, <2>1, LeaveBase DEF RecordFails, Sound
  <2>2. CASE job[a].state.watch # NoWatch
    <3> DEFINE f == job[a].state.watch.backups
    <3>1. f \in Copies
      BY <1>0, CopyElim DEF Watches
    <3>2. job[a].pc = "record" /\ StartCopy(a, f, "undo")
      BY <1>6, <2>2 DEF RecordFails
    <3>3. PICK j \in Jobs :
            /\ Becomes(a, j) /\ j.pc = "backup" /\ j.state = job[a].state
            /\ j.src = f /\ j.left = DOMAIN f /\ j.then = "undo"
      BY <1>t, <3>1, <3>2, StartStep
    <3>4. JobSound(j)
      BY <1>0, <3>3 DEF JobSound, TrainSound, SwapSound, Copying
    <3> QED BY <1>0, <1>6, <2>2, <3>2, <3>3, <3>4, QuietBase DEF RecordFails
  <2> QED BY <2>1, <2>2
<1> QED BY <1>1, <1>2, <1>3, <1>4, <1>5, <1>6

LEMMA NightBase ==
  ASSUME BaseInv, NEW a \in Actors, Night(a)
  PROVE  BaseInv'
BY NightLeaves, JudgeBase, EvaluateBase DEF Night

-----------------------------------------------------------------------------
(* The weekly job and the world *)

LEMMA WeeklyBase ==
  ASSUME BaseInv, NEW a \in Actors, Weekly(a)
  PROVE  BaseInv'
<1>t. TypeInv
  BY DEF BaseInv
<1>0. /\ TypeInv /\ job[a] \in Jobs /\ JobSound(job[a])
      /\ store \in States /\ Sound(store)
      /\ rows \in Seq(Rows) /\ Len(rows) <= MaxRows
      /\ chal \in [Kinds -> Contents]
  BY AtWork DEF TypeInv, FilesTyped
<1>1. CASE NoPromotion(a)
  <2>1. job[a].pc = "shadow" /\ Goto(a, "retrain")
    BY <1>1 DEF NoPromotion
  <2>2. PICK j \in Jobs : Becomes(a, j) /\ j.pc = "retrain" /\ j.state = job[a].state
    BY <1>t, <2>1, GotoStep DEF Pcs
  <2>3. JobSound(j)
    BY <1>0, <2>2 DEF JobSound, TrainSound, SwapSound, Copying
  <2> QED BY <1>0, <1>1, <2>1, <2>2, <2>3, QuietBase DEF NoPromotion
<1>2. CASE Promote(a)
  <2> DEFINE K == Present(chal)
             f == [k \in K |-> chal[k]]
  <2>1. K \in SUBSET Kinds /\ f \in [K -> Contents]
    BY <1>0 DEF Present
  <2>2. f \in Copies
    BY <2>1, CopyIntro
  <2>3. job[a].pc = "shadow" /\ StartCopy(a, f, "promote")
    BY <1>2 DEF Promote
  <2> HIDE DEF f, K
  <2>4. PICK j \in Jobs :
          /\ Becomes(a, j) /\ j.pc = "backup" /\ j.state = job[a].state
          /\ j.src = f /\ j.left = DOMAIN f /\ j.then = "promote"
    BY <1>t, <2>2, <2>3, StartStep
  <2>5. JobSound(j)
    BY <1>0, <2>4 DEF JobSound, TrainSound, SwapSound, Copying
  <2> QED BY <1>0, <1>2, <2>3, <2>4, <2>5, QuietBase DEF Promote
<1>3. CASE Promoted(a)
  <2>1. job[a].pc = "replace" /\ Goto(a, "clear")
    BY <1>3 DEF Promoted, Copied
  <2>2. PICK j \in Jobs : Becomes(a, j) /\ j.pc = "clear" /\ j.state = job[a].state
    BY <1>t, <2>1, GotoStep DEF Pcs
  <2>3. JobSound(j)'
    BY <1>0, <2>2 DEF JobSound, TrainSound, SwapSound, Copying, Sound
  <2>4. FilesTyped' /\ RestTyped' /\ store' \in States /\ Sound(store)' /\ lock' = lock
    BY <1>0, <1>3 DEF Promoted, TypeInv, FilesTyped, RestTyped, files, Sound
  <2> QED BY <2>1, <2>2, <2>3, <2>4, Frame
<1>4. CASE Clear(a)
  <2>1. job[a].pc = "clear" /\ Goto(a, "retrain")
    BY <1>4 DEF Clear
  <2>2. PICK j \in Jobs : Becomes(a, j) /\ j.pc = "retrain" /\ j.state = job[a].state
    BY <1>t, <2>1, GotoStep DEF Pcs
  <2>3. JobSound(j)'
    BY <1>0, <2>2 DEF JobSound, TrainSound, SwapSound, Copying, Sound
  <2>4. store' \in States /\ Sound(store)'
    BY <1>0, <1>4, Unwatched DEF Clear, Sound
  <2>5. FilesTyped' /\ RestTyped' /\ lock' = lock
    BY <1>0, <1>4, EmptyRows DEF Clear, TypeInv, FilesTyped, RestTyped, files
  <2> QED BY <2>1, <2>2, <2>3, <2>4, <2>5, Frame
<1>5. CASE ClearFails(a)
  <2>1. job[a].pc = "clear" /\ Goto(a, "retrain")
    BY <1>5 DEF ClearFails
  <2>2. PICK j \in Jobs : Becomes(a, j) /\ j.pc = "retrain" /\ j.state = job[a].state
    BY <1>t, <2>1, GotoStep DEF Pcs
  <2>3. JobSound(j)
    BY <1>0, <2>2 DEF JobSound, TrainSound, SwapSound, Copying
  <2> QED BY <1>0, <1>5, <2>1, <2>2, <2>3, QuietBase DEF ClearFails
<1>6. CASE Retrain(a)
  <2>1. made' = made + 1 /\ made' \in Trainings /\ made' \in Contents
    BY <1>0, <1>6, ContentsRange, PromotionAssumption DEF Retrain, TypeInv, FilesTyped
  <2>2. job[a].pc = "retrain" /\ Retrains(a, made')
    BY <1>6, <2>1 DEF Retrain, Retrains
  <2>3. PICK j \in Jobs : Becomes(a, j) /\ j.pc = "challenge" /\ j.state = job[a].state
    BY <1>t, <2>1, <2>2, RetrainStep
  <2>4. JobSound(j)'
    BY <1>0, <2>3 DEF JobSound, TrainSound, SwapSound, Copying, Sound
  <2>5. FilesTyped' /\ RestTyped' /\ store' \in States /\ Sound(store)' /\ lock' = lock
    BY <1>0, <1>6, <2>1 DEF Retrain, TypeInv, FilesTyped, RestTyped, Sound
  <2> QED BY <2>2, <2>3, <2>4, <2>5, Frame
<1>7. CASE TrainChallenger(a)
  <2> PICK k \in job[a].left : /\ chal' = [chal EXCEPT ![k] = job[a].gen]
                               /\ fresh' = fresh \cup {k}
                               /\ job' = [job EXCEPT ![a].left = @ \ {k}]
    BY <1>7 DEF TrainChallenger
  <2> DEFINE K == job[a].left \ {k}
  <2>1. /\ K \in SUBSET Kinds /\ Leaves(a, K) /\ job[a].pc = "challenge"
        /\ job[a].gen \in Contents /\ k \in Kinds
    BY <1>0, <1>7 DEF TypeInv, TrainChallenger, Jobs, Leaves
  <2>2. PICK j \in Jobs : Becomes(a, j) /\ j.pc = job[a].pc /\ j.state = job[a].state
    BY <1>t, <2>1, LeftStep
  <2>3. UNCHANGED <<prod, cand, made, store, mark, code, week, lock,
                    reader, rows, trusted>>
    BY <1>7 DEF TrainChallenger
  <2>4. chal' \in [Kinds -> Contents] /\ fresh' \subseteq Kinds
    BY <1>0, <2>1 DEF TypeInv, FilesTyped
  <2>5. FilesTyped' /\ RestTyped' /\ store' \in States /\ Sound(store)'
    BY <1>0, <2>3, <2>4 DEF TypeInv, FilesTyped, RestTyped, Sound
  <2>6. JobSound(j)'
    BY <1>0, <2>1, <2>2 DEF JobSound, TrainSound, SwapSound, Copying, Sound
  <2> QED BY <2>1, <2>2, <2>3, <2>5, <2>6, Frame
<1>8. CASE RetrainEnds(a)
  <2>1. Leave(a) /\ job[a].pc # "idle"
        /\ UNCHANGED <<files, store, mark, code, week, reader, rows, trusted>>
    BY <1>8 DEF RetrainEnds
  <2> QED BY <1>0, <2>1, LeaveBase DEF Sound
<1> QED BY <1>1, <1>2, <1>3, <1>4, <1>5, <1>6, <1>7, <1>8 DEF Weekly

\* A step that leaves the files, the state and the processes as they are
LEMMA WorldBase ==
  ASSUME BaseInv, UNCHANGED <<prod, cand, made, store, lock, job, trusted>>,
         chal' = chal, fresh' \subseteq Kinds, RestTyped'
  PROVE  BaseInv'
BY DEF BaseInv, TypeInv, FilesTyped, Exclusion, Sound, JobSound, TrainSound, SwapSound, Present

LEMMA ReaderBase ==
  ASSUME BaseInv, Rebuild \/ ReadModel \/ SaveRows \/ NextWeek
  PROVE  BaseInv'
<1>0. RestTyped /\ fresh \subseteq Kinds /\ prod \in [Kinds -> Contents]
  BY DEF BaseInv, TypeInv, FilesTyped
<1>1. CASE Rebuild
  BY <1>0, <1>1, WorldBase DEF Rebuild, RestTyped, files
<1>2. CASE ReadModel
  <2>1. reader' \subseteq Kinds
    BY <1>0, <1>2 DEF ReadModel, RestTyped
  <2> QED BY <1>0, <1>2, <2>1, WorldBase DEF ReadModel, RestTyped, files
<1>3. CASE SaveRows
  <2>1. reader' \subseteq Kinds
    BY <1>3 DEF SaveRows
  <2>2. rows' \in Seq(Rows) /\ Len(rows') <= MaxRows
    <3>1. CASE UNCHANGED rows
      BY <1>0, <3>1 DEF RestTyped
    <3>2. CASE Len(rows) < MaxRows /\ \E d \in {"thin", "good", "poor"} :
                 rows' = Append(rows, d)
      <4>1. PICK d \in Rows : rows' = Append(rows, d)
        BY <3>2 DEF Rows
      <4>2. rows \in Seq(Rows) /\ Len(rows) \in Nat
        BY <1>0 DEF RestTyped
      <4>3. rows' \in Seq(Rows) /\ Len(rows') = Len(rows) + 1
        BY <4>1, <4>2
      <4> QED BY <3>2, <4>2, <4>3, PromotionAssumption
    <3> QED BY <1>3, <3>1, <3>2 DEF SaveRows
  <2> QED BY <1>0, <1>3, <2>1, <2>2, WorldBase DEF SaveRows, RestTyped, files
<1>4. CASE NextWeek
  <2>1. RestTyped'
    BY <1>0, <1>4, PromotionAssumption DEF NextWeek, RestTyped
  <2> QED BY <1>4, <2>1, WorldBase DEF NextWeek
<1> QED BY <1>1, <1>2, <1>3, <1>4

LEMMA DeathBase ==
  ASSUME BaseInv, Deploy \/ \E a \in Actors : Die(a)
  PROVE  BaseInv'
<1>1. CASE Deploy
  <2>1. TypeInv'
    BY <1>1, EmptyCopy, IdleType
       DEF Deploy, BaseInv, TypeInv, FilesTyped, RestTyped, files
  <2>2. \A a \in Actors : job'[a] = Idle
    BY <1>1 DEF Deploy
  <2>3. JobSound(Idle)'
    BY IdleSound, IdleFacts DEF JobSound, TrainSound, SwapSound, Copying, Sound
  <2> QED BY <1>1, <2>1, <2>2, <2>3, IdleFacts DEF Deploy, BaseInv, Exclusion, Sound
<1>2. ASSUME NEW a \in Actors, Die(a) PROVE BaseInv'
  <2>1. lock = a
    BY <1>2, OthersIdle DEF Die
  <2>2. Leave(a) /\ job[a].pc # "idle"
        /\ UNCHANGED <<files, store, mark, code, week, reader, rows, trusted>>
    BY <1>2, <2>1 DEF Die, Leave
  <2> QED BY <2>2, AtWork, LeaveBase DEF Sound
<1> QED BY <1>1, <1>2

LEMMA BaseInit == Init => BaseInv
<1> SUFFICES ASSUME Init PROVE BaseInv
  OBVIOUS
<1>1. FilesTyped
  BY ContentsRange DEF Init, FilesTyped
<1>2. RestTyped
  BY EmptyCopy, EmptyRows, PromotionAssumption DEF Init, RestTyped
<1>3. store \in States /\ Sound(store) /\ lock = Free /\ job \in [Actors -> Jobs]
      /\ \A a \in Actors : job[a] = Idle
  BY StateType, IdleType DEF Init
<1> QED BY <1>1, <1>2, <1>3, IdleFacts, IdleSound DEF BaseInv, TypeInv, Exclusion

LEMMA BaseStep == BaseInv /\ [Next]_vars => BaseInv'
<1> SUFFICES ASSUME BaseInv, [Next]_vars PROVE BaseInv'
  OBVIOUS
<1>1. CASE UNCHANGED vars
  BY <1>1 DEF vars, files, BaseInv, TypeInv, FilesTyped, RestTyped, Exclusion, Sound,
       JobSound, TrainSound, SwapSound, Present
<1>2. ASSUME NEW a \in Actors, Begin(a) \/ Copy(a) PROVE BaseInv'
  BY <1>2, BeginBase, CopyBase
<1>3. ASSUME NEW a \in Nights, Night(a) PROVE BaseInv'
  BY <1>3, NightBase DEF Actors
<1>4. ASSUME NEW a \in Weeks, Weekly(a) PROVE BaseInv'
  BY <1>4, WeeklyBase DEF Actors
<1> QED BY <1>1, <1>2, <1>3, <1>4, ReaderBase, DeathBase DEF Next

-----------------------------------------------------------------------------
(* Each model file, the state file and the processes keep the types that   *)
(* the code gives them, whatever fails and whoever dies.                   *)
THEOREM TypeCorrect == Spec => []TypeOK
<1>1. BaseInv => TypeOK
  BY DEF TypeOK, BaseInv, TypeInv, FilesTyped, RestTyped, States, Sound
<1> QED BY <1>1, BaseInit, BaseStep, PTL DEF Spec

(* A version that was rolled back is never on watch again: a night goes by *)
(* what it read under the lock, and nobody writes in between.              *)
THEOREM RolledBackOut == Spec => []RolledBackStaysOut
<1>1. BaseInv => RolledBackStaysOut
  BY DEF BaseInv, Sound, RolledBackStaysOut
<1> QED BY <1>1, BaseInit, BaseStep, PTL DEF Spec

-----------------------------------------------------------------------------
(* What is in production, when no process dies where files are replaced     *)
(* that the state file does not know of, and the end of a watch is saved.   *)

Reliable == Fragile = FALSE /\ "clear" \notin Faults

Accounted(f) ==
  \/ f = trusted
  \/ store.watch # NoWatch /\ f = store.watch.pair
  \/ f = stray

\* The watch on file would put back the pair that was there before its swap
Backed == store.watch # NoWatch => store.watch.backups = trusted

\* Production as it was before the copy that a process is in
Original(j) ==
  [k \in Kinds |-> IF k \notin DOMAIN j.src THEN prod[k]
                   ELSE IF k \in DOMAIN j.backups THEN j.backups[k] ELSE Missing]

\* Files are being replaced, or have been and the state file does not say so
Unsettled(j) ==
  \/ j.pc \in {"replace", "restore"}
  \/ j.pc = "backup" /\ j.then = "undo"
  \/ j.pc = "record" /\ j.state.watch # NoWatch

CopyPair(j) ==
  /\ j.then \in {"swap", "undo"} => store.watch = NoWatch
  /\ j.then \in {"rollback", "undo"} => j.src = trusted
  /\ j.pc = "backup" => j.left = DOMAIN j.src
  /\ j.then = "swap" => IF j.pc = "backup" THEN prod = trusted
                                           ELSE Original(j) = trusted
  /\ j.pc # "backup" /\ j.then # "undo" => Accounted(Original(j))
  /\ j.pc = "replace" => \A k \in DOMAIN j.src \ j.left : prod[k] = j.src[k]
  /\ j.pc = "restore" => \/ j.torn
                         \/ \A k \in Kinds \ j.left : prod[k] = Original(j)[k]

JobPair(j) ==
  /\ j.pc \in {"load", "watch"} => j.then = None
  /\ j.pc = "watch" => j.state = store
  /\ j.pc = "close" => j.state.watch = NoWatch /\ (j.then = "rollback" => prod = trusted)
  /\ j.pc \in {"choose", "train"} => store.watch = NoWatch /\ j.state.watch = NoWatch
  /\ j.pc = "record" => store.watch = NoWatch
  /\ j.pc = "record" /\ j.state.watch # NoWatch =>
       prod = j.state.watch.pair /\ j.state.watch.backups = trusted
  /\ j.pc = "clear" => prod = trusted
  /\ j.pc \in Copying => CopyPair(j)

\* What the process that holds the lock finds and leaves
PairAt(j) ==
  /\ ~Unsettled(j) => Accounted(prod)
  /\ j.pc # "clear" => Backed
  /\ JobPair(j)

PairInv ==
  /\ lock = Free => Accounted(prod) /\ Backed
  /\ \A a \in Actors : lock = a => PairAt(job[a])
  /\ \A a \in Actors : job[a].pc = "idle" => job[a].then = None

-----------------------------------------------------------------------------
(* A step of the process that holds the lock: it goes on, or it leaves. *)

LEMMA Holder ==
  ASSUME BaseInv, PairInv, NEW a \in Actors, job[a].pc # "idle"
  PROVE  /\ lock = a /\ lock # Free /\ PairAt(job[a]) /\ TypeInv
         /\ job[a] \in Jobs /\ JobSound(job[a])
         /\ prod \in [Kinds -> Contents] /\ trusted \in [Kinds -> Contents]
BY OthersIdle, AtWork, PromotionAssumption DEF PairInv, BaseInv, TypeInv, FilesTyped

LEMMA GoesOn ==
  ASSUME PairInv, NEW a \in Actors, NEW j \in Jobs, Becomes(a, j), lock' = a,
         j.pc # "idle", PairAt(j)'
  PROVE  PairInv'
BY PromotionAssumption DEF PairInv, Becomes

LEMMA Leaving ==
  ASSUME BaseInv, PairInv, NEW a \in Actors, Leave(a), Accounted(prod)', Backed'
  PROVE  PairInv'
<1>1. Becomes(a, Idle) /\ lock' = Free /\ Idle.then = None
  BY LeaveStep, IdleFacts DEF BaseInv
<1> QED BY <1>1, PromotionAssumption DEF PairInv, Becomes

\* A process that has put the pair in order leaves it in order
LEMMA LeavesSettled ==
  ASSUME BaseInv, PairInv, NEW a \in Actors, Leave(a), job[a].pc # "idle",
         ~Unsettled(job[a]), job[a].pc # "clear",
         UNCHANGED <<prod, store, trusted, stray>>
  PROVE  PairInv'
<1>1. Accounted(prod) /\ Backed
  BY Holder DEF PairAt
<1>2. Accounted(prod)' /\ Backed'
  BY <1>1 DEF Accounted, Backed
<1> QED BY <1>2, Leaving

LEMMA BeginPair ==
  ASSUME BaseInv, PairInv, NEW a \in Actors, Begin(a)
  PROVE  PairInv'
<1>0. TypeInv /\ lock = Free /\ lock' = a /\ job[a].pc = "idle" /\ job[a].then = None
      /\ Accounted(prod) /\ Backed /\ UNCHANGED <<prod, store, trusted, stray>>
  BY DEF BaseInv, PairInv, Begin, files
<1>1. PICK j \in Jobs : Becomes(a, j) /\ j.pc \in {"load", "shadow"} /\ j.then = job[a].then
  <2>1. CASE a \in Nights
    <3>1. PICK m \in Modes : job' = [job EXCEPT ![a].pc = "load", ![a].mode = m]
      BY <2>1 DEF Begin
    <3>2. m \in [force : BOOLEAN, dry : BOOLEAN] /\ job[a] \in Jobs
          /\ job' = [job EXCEPT ![a].pc = "load", ![a].mode = m]
      BY <1>0, <3>1, PromotionAssumption DEF TypeInv
    <3> DEFINE j == [job[a] EXCEPT !.pc = "load", !.mode = m]
    <3>3. j \in Jobs /\ j.pc = "load" /\ j.then = job[a].then
      BY <3>2 DEF Jobs, Pcs
    <3>4. job' = [job EXCEPT ![a] = j]
      BY <1>0, <3>2 DEF TypeInv
    <3> HIDE DEF j
    <3> QED BY <1>0, <3>3, <3>4, JobStep
  <2>2. CASE a \notin Nights
    <3>1. Goto(a, "shadow") /\ "shadow" \in Pcs
      BY <2>2 DEF Begin, Pcs
    <3> QED BY <1>0, <3>1, GotoStep
  <2> QED BY <2>1, <2>2
<1>2. PairAt(j)'
  BY <1>0, <1>1 DEF PairAt, JobPair, Unsettled, Accounted, Backed, Copying
<1> QED BY <1>0, <1>1, <1>2, GoesOn

-----------------------------------------------------------------------------
(* The copies *)

\* After a copy that failed production is accounted for as before, or, when it
\* was an undo or something could not be put back, by what it is now
LEMMA CopyFailedPair ==
  ASSUME BaseInv, PairInv, NEW a \in Actors, job[a].pc # "idle", CopyFailed(a),
         Accounted(prod) \/ job[a].then = "undo" \/ job[a].torn,
         Backed, UNCHANGED <<prod, store, trusted>>
  PROVE  PairInv'
<1>0. Backed' /\ lock = a /\ TypeInv
  BY Holder DEF Backed
<1>a. Accounted(prod)'
  BY DEF CopyFailed, Accounted
<1>1. CASE job[a].then = "promote"
  <2>1. Goto(a, "retrain") /\ lock' = a
    BY <1>0, <1>1 DEF CopyFailed
  <2>2. PICK j \in Jobs : Becomes(a, j) /\ j.pc = "retrain"
    BY <1>0, <2>1, GotoStep DEF Pcs
  <2>3. PairAt(j)'
    BY <1>0, <1>a, <2>2 DEF PairAt, JobPair, Unsettled, Copying
  <2> QED BY <2>1, <2>2, <2>3, GoesOn
<1>2. CASE job[a].then # "promote"
  BY <1>0, <1>a, <1>2, Leaving DEF CopyFailed
<1> QED BY <1>1, <1>2

\* When every target has been put back production is as it was
LEMMA PutBackWhole ==
  ASSUME BaseInv, PairInv, NEW a \in Actors, job[a].pc = "restore", job[a].left = {}
  PROVE  Accounted(prod) \/ job[a].then = "undo" \/ job[a].torn
<1> SUFFICES ASSUME job[a].then # "undo", ~job[a].torn PROVE Accounted(prod)
  OBVIOUS
<1>1. CopyPair(job[a]) /\ prod \in [Kinds -> Contents]
  BY Holder DEF PairAt, JobPair, Copying
<1>2. \A k \in Kinds : prod[k] = Original(job[a])[k]
  BY <1>1 DEF CopyPair
<1>3. prod = Original(job[a])
  BY <1>1, <1>2 DEF Original
<1> QED BY <1>1, <1>3 DEF CopyPair

\* When every target has been replaced production is what was copied
LEMMA CopiedWhole ==
  ASSUME BaseInv, PairInv, NEW a \in Actors, job[a].pc = "replace", job[a].left = {},
         job[a].src \in [Kinds -> Contents]
  PROVE  prod = job[a].src
BY Holder DEF PairAt, JobPair, CopyPair, Copying

LEMMA CopyPairStep ==
  ASSUME BaseInv, PairInv, NEW a \in Actors, Copy(a)
  PROVE  PairInv'
<1>p. job[a].pc # "idle"
  BY DEF Copy, BackUp, BackUpFails, Replace, ReplaceFails, Restore, RestoreFails,
       Restored
<1>0. /\ lock = a /\ TypeInv /\ job[a] \in Jobs
      /\ prod \in [Kinds -> Contents] /\ trusted \in [Kinds -> Contents]
      /\ job[a].src \in Copies /\ DOMAIN job[a].src \in SUBSET Kinds
      /\ job[a].left \in SUBSET Kinds
  BY <1>p, Holder, AtWork, CopyElim
<1>h. PairAt(job[a]) /\ JobSound(job[a])
  BY <1>p, Holder
<1>1. CASE BackUp(a)
  <2> DEFINE K == Present(prod) \cap DOMAIN job[a].src
             f == Restrict(prod, K)
  <2>1. K \in SUBSET Kinds /\ f = [k \in K |-> prod[k]] /\ f \in [K -> Contents]
    BY <1>0 DEF Present, Restrict
  <2>2. f \in Copies /\ DOMAIN f = K
    BY <2>1, CopyIntro
  <2>3. job[a].pc = "backup" /\ BacksUp(a, f) /\ UNCHANGED <<prod, store, trusted, stray, lock>>
    BY <1>1 DEF BackUp, BacksUp, files
  <2>4. \A k \in Kinds : k \in DOMAIN job[a].src /\ k \notin DOMAIN f => prod[k] = Missing
    BY <1>0, <2>2 DEF Present
  <2>5. \A k \in DOMAIN f : f[k] = prod[k]
    BY <2>1
  <2> HIDE DEF f, K
  <2>6. PICK j \in Jobs :
          /\ Becomes(a, j) /\ j.pc = "replace" /\ j.src = job[a].src /\ j.backups = f
          /\ j.left = job[a].left /\ j.then = job[a].then
    BY <1>0, <2>2, <2>3, BackUpStep
  <2>7. Original(j) = prod
    BY <1>0, <2>4, <2>5, <2>6 DEF Original
  <2>8. Original(j)' = prod
    BY <2>3, <2>7 DEF Original
  <2>9. CopyPair(job[a]) /\ Backed /\ (job[a].then # "undo" => Accounted(prod))
    BY <1>h, <2>3 DEF PairAt, JobPair, Copying, Unsettled
  <2>10. CopyPair(j)'
    BY <2>3, <2>6, <2>8, <2>9 DEF CopyPair, Accounted
  <2>11. PairAt(j)'
    BY <2>3, <2>6, <2>9, <2>10 DEF PairAt, JobPair, Unsettled, Backed
  <2> QED BY <1>0, <2>3, <2>6, <2>11, GoesOn
<1>2. CASE BackUpFails(a)
  <2>1. job[a].pc = "backup" /\ CopyFailed(a) /\ UNCHANGED <<prod, store, trusted>>
    BY <1>2 DEF BackUpFails, files
  <2>2. (Accounted(prod) \/ job[a].then = "undo") /\ Backed
    BY <1>h, <2>1 DEF PairAt, Unsettled
  <2> QED BY <1>p, <2>1, <2>2, CopyFailedPair
<1>3. CASE Replace(a)
  <2> PICK k \in job[a].left : prod' = [prod EXCEPT ![k] = job[a].src[k]]
                               /\ job' = [job EXCEPT ![a].left = @ \ {k}]
    BY <1>3 DEF Replace
  <2> DEFINE K == job[a].left \ {k}
  <2>1. /\ K \in SUBSET Kinds /\ Leaves(a, K) /\ job[a].pc = "replace"
        /\ UNCHANGED <<store, trusted, stray, lock>>
    BY <1>0, <1>3 DEF TypeInv, Replace, Leaves
  <2>2. k \in DOMAIN job[a].src /\ CopyPair(job[a]) /\ Backed
    BY <1>h, <2>1 DEF JobSound, PairAt, JobPair, Copying
  <2>3. PICK j \in Jobs :
          /\ Becomes(a, j) /\ j.pc = job[a].pc /\ j.src = job[a].src
          /\ j.backups = job[a].backups /\ j.left = K /\ j.then = job[a].then
    BY <1>0, <2>1, LeftStep
  <2>4. Original(j)' = Original(job[a])
    BY <1>0, <2>2, <2>3 DEF Original
  <2>5. \A m \in DOMAIN job[a].src \ K : prod'[m] = job[a].src[m]
    BY <1>0, <2>1, <2>2 DEF CopyPair
  <2>6. CopyPair(j)'
    BY <2>1, <2>2, <2>3, <2>4, <2>5 DEF CopyPair, Accounted
  <2>7. PairAt(j)'
    BY <2>1, <2>2, <2>3, <2>6 DEF PairAt, JobPair, Unsettled, Backed
  <2> QED BY <1>0, <2>1, <2>3, <2>7, GoesOn
<1>4. CASE ReplaceFails(a)
  <2> DEFINE K == DOMAIN job[a].src
  <2>1. /\ K \in SUBSET Kinds /\ job[a].pc = "replace"
        /\ PutsBack(a, K) /\ UNCHANGED <<prod, store, trusted, stray, lock>>
    BY <1>0, <1>4 DEF ReplaceFails, PutsBack, files
  <2>2. CopyPair(job[a]) /\ Backed
    BY <1>h, <2>1 DEF PairAt, JobPair, Copying
  <2> HIDE DEF K
  <2>3. PICK j \in Jobs :
          /\ Becomes(a, j) /\ j.pc = "restore" /\ j.src = job[a].src
          /\ j.backups = job[a].backups /\ j.left = K /\ j.then = job[a].then
    BY <1>0, <2>1, RestoreStep, ZenonT(30)
  <2>4. Original(j)' = Original(job[a])
    BY <2>1, <2>3 DEF Original
  <2>5. \A m \in Kinds \ K : prod'[m] = Original(job[a])[m]
    BY <2>1 DEF Original, K
  <2>6. CopyPair(j)'
    BY <2>1, <2>2, <2>3, <2>4, <2>5 DEF CopyPair, Accounted
  <2>7. PairAt(j)'
    BY <2>1, <2>2, <2>3, <2>6 DEF PairAt, JobPair, Unsettled, Backed
  <2> QED BY <1>0, <2>1, <2>3, <2>7, GoesOn
<1>5. CASE Restore(a)
  <2> PICK k \in job[a].left : PutBack(a, k) /\ job' = [job EXCEPT ![a].left = @ \ {k}]
    BY <1>5 DEF Restore
  <2> DEFINE K == job[a].left \ {k}
  <2>1. /\ K \in SUBSET Kinds /\ Leaves(a, K) /\ job[a].pc = "restore"
        /\ UNCHANGED <<store, trusted, stray, lock>>
    BY <1>0, <1>5 DEF TypeInv, Restore, Leaves
  <2>2. k \in DOMAIN job[a].src /\ CopyPair(job[a]) /\ Backed
    BY <1>h, <2>1 DEF JobSound, PairAt, JobPair, Copying
  <2>3. PICK j \in Jobs :
          /\ Becomes(a, j) /\ j.pc = job[a].pc /\ j.src = job[a].src
          /\ j.backups = job[a].backups /\ j.left = K /\ j.then = job[a].then
          /\ j.torn = job[a].torn
    BY <1>0, <2>1, LeftStep
  <2>4. prod' = [prod EXCEPT ![k] = Original(job[a])[k]]
    BY <1>0, <2>2 DEF PutBack, Original
  <2>5. Original(j)' = Original(job[a])
    BY <1>0, <2>2, <2>3, <2>4 DEF Original
  <2>6. job[a].torn \/ \A m \in Kinds \ K : prod'[m] = Original(job[a])[m]
    BY <1>0, <2>1, <2>2, <2>4 DEF CopyPair
  <2>7. CopyPair(j)'
    BY <2>1, <2>2, <2>3, <2>5, <2>6 DEF CopyPair, Accounted
  <2>8. PairAt(j)'
    BY <2>1, <2>2, <2>3, <2>7 DEF PairAt, JobPair, Unsettled, Backed
  <2> QED BY <1>0, <2>1, <2>3, <2>8, GoesOn
<1>6. CASE RestoreFails(a)
  <2> PICK k \in job[a].left :
         job' = [job EXCEPT ![a].left = @ \ {k}, ![a].torn = TRUE]
    BY <1>6 DEF RestoreFails
  <2> DEFINE K == job[a].left \ {k}
  <2>1. /\ K \in SUBSET Kinds /\ Tears(a, K) /\ job[a].pc = "restore"
        /\ UNCHANGED <<prod, store, trusted, stray, lock>>
    BY <1>0, <1>6 DEF TypeInv, RestoreFails, Tears, files
  <2> HIDE DEF K
  <2>2. CopyPair(job[a]) /\ Backed
    BY <1>h, <2>1 DEF PairAt, JobPair, Copying
  <2>3. PICK j \in Jobs :
          /\ Becomes(a, j) /\ j.pc = job[a].pc /\ j.src = job[a].src
          /\ j.backups = job[a].backups /\ j.left = K /\ j.then = job[a].then
          /\ j.torn = TRUE
    BY <1>0, <2>1, TearStep
  <2>4. Original(j)' = Original(job[a])
    BY <2>1, <2>3 DEF Original
  <2>5. CopyPair(j)'
    BY <2>1, <2>2, <2>3, <2>4 DEF CopyPair, Accounted
  <2>6. PairAt(j)'
    BY <2>1, <2>2, <2>3, <2>5 DEF PairAt, JobPair, Unsettled, Backed
  <2> QED BY <1>0, <2>1, <2>3, <2>6, GoesOn
<1>7. CASE Restored(a)
  <2>1. job[a].pc = "restore" /\ job[a].left = {} /\ CopyFailed(a)
        /\ UNCHANGED <<prod, store, trusted>>
    BY <1>7 DEF Restored, files
  <2>2. Backed
    BY <1>h, <2>1 DEF PairAt
  <2> QED BY <1>p, <2>1, <2>2, PutBackWhole, CopyFailedPair
<1> QED BY <1>1, <1>2, <1>3, <1>4, <1>5, <1>6, <1>7 DEF Copy

-----------------------------------------------------------------------------
(* The nights *)

LEMMA NightLeavesPair ==
  ASSUME BaseInv, PairInv, NEW a \in Actors,
         \/ LoadFails(a) \/ NoJudgement(a) \/ TellSkipped(a) \/ CloseFails(a)
         \/ Skip(a) \/ NotCompared(a) \/ Record(a) \/ Undone(a)
  PROVE  PairInv'
<1>p. job[a].pc # "idle"
  BY DEF LoadFails, NoJudgement, TellSkipped, CloseFails, Skip, NotCompared, Record,
       Undone, Copied
<1>h. PairAt(job[a]) /\ JobSound(job[a])
      /\ prod \in [Kinds -> Contents] /\ trusted \in [Kinds -> Contents]
  BY <1>p, Holder
<1>1. CASE LoadFails(a) \/ NoJudgement(a) \/ CloseFails(a) \/ Skip(a) \/ NotCompared(a)
  <2>1. Leave(a) /\ UNCHANGED <<prod, store, trusted, stray>> /\ ~Unsettled(job[a])
        /\ job[a].pc # "clear"
    BY <1>1 DEF LoadFails, NoJudgement, CloseFails, Skip, NotCompared, Unsettled, files
  <2> QED BY <1>p, <2>1, LeavesSettled
<1>2. CASE TellSkipped(a)
  <2> DEFINE w == [store.watch EXCEPT !.told = TRUE]
  <2>1. job[a].pc = "watch" /\ Leave(a) /\ UNCHANGED <<prod, trusted, stray>>
        /\ store' = [job[a].state EXCEPT !.watch.told = TRUE]
    BY <1>2 DEF TellSkipped, files
  <2>2. job[a].state = store /\ store.watch # NoWatch /\ Accounted(prod) /\ Backed
    BY <1>h, <2>1 DEF PairAt, JobPair, JobSound, Unsettled
  <2>3. store'.watch = w
    BY <2>1, <2>2, AtWork DEF States
  <2>4. w.told = TRUE /\ w.pair = store.watch.pair /\ w.backups = store.watch.backups
    BY AtWork DEF Watches
  <2>5. w # NoWatch
    BY <2>4 DEF NoWatch
  <2> HIDE DEF w
  <2>6. Accounted(prod)' /\ Backed'
    BY <2>1, <2>2, <2>3, <2>4, <2>5 DEF Accounted, Backed
  <2> QED BY <2>1, <2>6, Leaving
<1>3. CASE Record(a)
  <2>1. job[a].pc = "record" /\ Leave(a) /\ UNCHANGED <<prod, trusted, stray>>
        /\ store' = job[a].state
    BY <1>3 DEF Record, files
  <2>2. Accounted(prod)' /\ Backed'
    BY <1>h, <2>1 DEF PairAt, JobPair, Unsettled, Accounted, Backed
  <2> QED BY <2>1, <2>2, Leaving
<1>4. CASE Undone(a)
  <2>1. job[a].pc = "replace" /\ job[a].left = {} /\ job[a].then = "undo"
        /\ Leave(a) /\ UNCHANGED <<prod, store, trusted, stray>>
    BY <1>4 DEF Undone, Copied, files
  <2>2. job[a].src = trusted /\ Backed
    BY <1>h, <2>1 DEF PairAt, JobPair, CopyPair, Copying
  <2>3. prod = trusted
    BY <1>h, <2>1, <2>2, CopiedWhole
  <2>4. Accounted(prod)' /\ Backed'
    BY <2>1, <2>2, <2>3 DEF Accounted, Backed
  <2> QED BY <2>1, <2>4, Leaving
<1> QED BY <1>1, <1>2, <1>3, <1>4

LEMMA JudgePair ==
  ASSUME BaseInv, PairInv, NEW a \in Actors,
         Load(a) \/ Keep(a) \/ RollBack(a) \/ RolledBack(a) \/ Close(a)
  PROVE  PairInv'
<1>p. job[a].pc # "idle"
  BY DEF Load, Keep, RollBack, RolledBack, Close, Copied
<1>h. PairAt(job[a]) /\ JobSound(job[a]) /\ lock = a
      /\ prod \in [Kinds -> Contents] /\ trusted \in [Kinds -> Contents]
  BY <1>p, Holder
<1>t. TypeInv
  BY DEF BaseInv
<1>0. /\ job[a].state \in States /\ job[a].state.watch \in Watches /\ store \in States
  BY AtWork
<1>1. CASE Load(a)
  <2>0. job[a].pc = "load" /\ UNCHANGED <<prod, store, trusted, stray>>
    BY <1>1 DEF Load, files
  <2>1. CASE store.watch # NoWatch /\ job[a].mode.dry
    BY <1>p, <1>1, <2>0, <2>1, LeavesSettled DEF Load, Unsettled
  <2>2. CASE ~(store.watch # NoWatch /\ job[a].mode.dry)
    <3> DEFINE pc == IF store.watch # NoWatch THEN "watch" ELSE "choose"
    <3>1. pc \in Pcs /\ Moves(a, pc, store) /\ lock' = lock
      BY <1>0, <1>1, <1>t, <2>2 DEF Load, Moves, Pcs, TypeInv, Jobs
    <3>2. pc = "watch" \/ (pc = "choose" /\ store.watch = NoWatch)
      OBVIOUS
    <3> HIDE DEF pc
    <3>3. PICK j \in Jobs : Becomes(a, j) /\ j.pc = pc /\ j.state = store /\ j.then = job[a].then
      BY <1>t, <1>0, <3>1, StateStep
    <3>4. job[a].then = None /\ Accounted(prod) /\ Backed
      BY <1>h, <2>0 DEF PairAt, JobPair, Unsettled
    <3>5. PairAt(j)'
      BY <2>0, <3>2, <3>3, <3>4 DEF PairAt, JobPair, Unsettled, Copying, Accounted, Backed
    <3>6. j.pc # "idle"
      BY <3>2, <3>3
    <3> QED BY <1>h, <3>1, <3>3, <3>5, <3>6, GoesOn
  <2> QED BY <2>1, <2>2
<1>2. CASE Keep(a)
  <2> DEFINE st == [job[a].state EXCEPT !.watch = NoWatch]
  <2>1. st \in States /\ st.watch = NoWatch
    BY <1>0, Unwatched
  <2>2. job[a].pc = "watch" /\ Moves(a, "close", st) /\ UNCHANGED <<prod, store, trusted, stray, lock>>
    BY <1>0, <1>2, <1>t DEF Keep, TypeInv, Moves, files
  <2> HIDE DEF st
  <2>3. PICK j \in Jobs : Becomes(a, j) /\ j.pc = "close" /\ j.state = st /\ j.then = job[a].then
    BY <1>t, <2>1, <2>2, StateStep DEF Pcs
  <2>4. job[a].then = None /\ Accounted(prod) /\ Backed
    BY <1>h, <2>2 DEF PairAt, JobPair, Unsettled
  <2>5. PairAt(j)'
    BY <2>1, <2>2, <2>3, <2>4
       DEF PairAt, JobPair, Unsettled, Copying, Accounted, Backed, None
  <2> QED BY <1>h, <2>2, <2>3, <2>5, GoesOn
<1>3. CASE RollBack(a)
  <2> DEFINE f == job[a].state.watch.backups
  <2>1. f \in Copies
    BY <1>0 DEF Watches
  <2>2. job[a].pc = "watch" /\ StartCopy(a, f, "rollback")
        /\ UNCHANGED <<prod, store, trusted, stray, lock>>
    BY <1>3 DEF RollBack, files
  <2>3. job[a].state = store /\ store.watch # NoWatch /\ Accounted(prod) /\ Backed
    BY <1>h, <2>2 DEF PairAt, JobPair, JobSound, Unsettled
  <2>4. f = trusted
    BY <2>3 DEF Backed
  <2> HIDE DEF f
  <2>5. PICK j \in Jobs :
          /\ Becomes(a, j) /\ j.pc = "backup" /\ j.src = f /\ j.left = DOMAIN f
          /\ j.then = "rollback"
    BY <1>t, <2>1, <2>2, StartStep
  <2>6. CopyPair(j)'
    BY <2>2, <2>4, <2>5 DEF CopyPair
  <2>7. PairAt(j)'
    BY <2>2, <2>3, <2>5, <2>6 DEF PairAt, JobPair, Unsettled, Accounted, Backed
  <2> QED BY <1>h, <2>2, <2>5, <2>7, GoesOn
<1>4. CASE RolledBack(a)
  <2> DEFINE B == job[a].state.back \cup {job[a].state.watch.version}
             st == [job[a].state EXCEPT !.watch = NoWatch, !.back = B]
  <2>1. job[a].pc = "replace" /\ job[a].left = {} /\ job[a].then = "rollback"
        /\ UNCHANGED <<prod, store, trusted, stray, lock>>
    BY <1>4 DEF RolledBack, Copied, files
  <2>2. B \in SUBSET Versions
    BY <1>0, <1>h, <2>1 DEF JobSound, Sound, States, Copying
  <2>3. Moves(a, "close", st)
    BY <1>0, <1>4, <1>t DEF RolledBack, TypeInv, States, Moves
  <2>4. st \in States /\ st.watch = NoWatch
    BY <1>0, <2>2, Unwatched
  <2> HIDE DEF st
  <2>5. PICK j \in Jobs : Becomes(a, j) /\ j.pc = "close" /\ j.state = st /\ j.then = job[a].then
    BY <1>t, <2>3, <2>4, StateStep DEF Pcs
  <2>6. job[a].src = trusted /\ Backed
    BY <1>h, <2>1 DEF PairAt, JobPair, CopyPair, Copying
  <2>7. prod = trusted
    BY <1>h, <2>1, <2>6, CopiedWhole
  <2>8. PairAt(j)'
    BY <2>1, <2>4, <2>5, <2>6, <2>7 DEF PairAt, JobPair, Unsettled, Copying, Accounted, Backed
  <2> QED BY <1>h, <2>1, <2>5, <2>8, GoesOn
<1>5. CASE Close(a)
  <2>1. job[a].pc = "close" /\ Goto(a, "choose") /\ store' = job[a].state
        /\ UNCHANGED <<prod, lock>>
        /\ trusted' = IF job[a].then = "rollback" THEN trusted ELSE prod
    BY <1>5 DEF Close, files
  <2>2. PICK j \in Jobs : Becomes(a, j) /\ j.pc = "choose" /\ j.state = job[a].state
    BY <1>t, <2>1, GotoStep DEF Pcs
  <2>3. job[a].state.watch = NoWatch /\ (job[a].then = "rollback" => prod = trusted)
    BY <1>h, <2>1 DEF PairAt, JobPair
  <2>4. PairAt(j)'
    BY <2>1, <2>2, <2>3 DEF PairAt, JobPair, Unsettled, Copying, Accounted, Backed
  <2> QED BY <1>h, <2>1, <2>2, <2>4, GoesOn
<1> QED BY <1>1, <1>2, <1>3, <1>4, <1>5

LEMMA EvaluatePair ==
  ASSUME BaseInv, PairInv, NEW a \in Actors,
         Choose(a) \/ Train(a) \/ NoSwap(a) \/ Swap(a) \/ Swapped(a) \/ RecordFails(a)
  PROVE  PairInv'
<1>p. job[a].pc # "idle"
  BY DEF Choose, Train, NoSwap, Swap, Swapped, RecordFails, Compared, Copied
<1>h. PairAt(job[a]) /\ JobSound(job[a]) /\ lock = a
      /\ prod \in [Kinds -> Contents] /\ trusted \in [Kinds -> Contents]
  BY <1>p, Holder
<1>t. TypeInv
  BY DEF BaseInv
<1>0. /\ job[a] \in Jobs /\ job[a].state \in States /\ job[a].state.watch \in Watches
      /\ cand \in [Kinds -> Contents]
  BY AtWork DEF TypeInv, FilesTyped
\* Before anything is swapped in nothing is on watch
<1>w. job[a].pc \in {"choose", "train"} =>
        store.watch = NoWatch /\ job[a].state.watch = NoWatch /\ Accounted(prod) /\ Backed
  BY <1>h DEF PairAt, JobPair, Unsettled
<1>1. CASE Choose(a)
  <2>1. made' = made + 1 /\ made' \in Contents
    BY <1>t, <1>1, ContentsRange, PromotionAssumption
       DEF Choose, NothingNew, TypeInv, FilesTyped
  <2>2. code \in Versions /\ job[a].pc = "choose" /\ Trains(a, code, made')
        /\ UNCHANGED <<prod, store, trusted, stray, lock>>
    BY <1>t, <1>1, <2>1 DEF Choose, Trains, TypeInv, RestTyped
  <2>3. PICK j \in Jobs : Becomes(a, j) /\ j.pc = "train" /\ j.state = job[a].state
    BY <1>t, <2>1, <2>2, ChooseStep
  <2>4. PairAt(j)'
    BY <1>w, <2>2, <2>3 DEF PairAt, JobPair, Unsettled, Copying, Accounted, Backed
  <2> QED BY <1>h, <2>2, <2>3, <2>4, GoesOn
<1>2. CASE Train(a)
  <2> PICK k \in job[a].left : cand' = [cand EXCEPT ![k] = job[a].gen]
                               /\ job' = [job EXCEPT ![a].left = @ \ {k}]
    BY <1>2 DEF Train
  <2> DEFINE K == job[a].left \ {k}
  <2>1. K \in SUBSET Kinds /\ Leaves(a, K) /\ job[a].pc = "train"
        /\ UNCHANGED <<prod, store, trusted, stray, lock>>
    BY <1>0, <1>t, <1>2 DEF TypeInv, Train, Jobs, Leaves
  <2> HIDE DEF K
  <2>2. PICK j \in Jobs : Becomes(a, j) /\ j.pc = job[a].pc /\ j.state = job[a].state
    BY <1>t, <2>1, LeftStep
  <2>3. PairAt(j)'
    BY <1>w, <2>1, <2>2 DEF PairAt, JobPair, Unsettled, Copying, Accounted, Backed
  <2> QED BY <1>h, <2>1, <2>2, <2>3, GoesOn
<1>3. CASE NoSwap(a)
  <2> DEFINE st == [job[a].state EXCEPT !.last = job[a].version]
  <2>1. job[a].pc = "train" /\ Moves(a, "record", st) /\ UNCHANGED <<prod, store, trusted, stray, lock>>
    BY <1>t, <1>3 DEF NoSwap, Compared, TypeInv, Moves, files
  <2>2. st \in States /\ st.watch = job[a].state.watch
    BY <1>0 DEF States, Jobs
  <2> HIDE DEF st
  <2>3. PICK j \in Jobs : Becomes(a, j) /\ j.pc = "record" /\ j.state = st
    BY <1>t, <2>1, <2>2, StateStep DEF Pcs
  <2>4. PairAt(j)'
    BY <1>w, <2>1, <2>2, <2>3 DEF PairAt, JobPair, Unsettled, Copying, Accounted, Backed
  <2> QED BY <1>h, <2>1, <2>3, <2>4, GoesOn
<1>4. CASE Swap(a)
  <2>1. /\ job[a].pc = "train" /\ StartCopy(a, cand, "swap")
        /\ UNCHANGED <<prod, store, lock>> /\ trusted' = prod
    BY <1>4 DEF Swap, Compared, files
  <2>2. cand \in Copies
    BY <1>0, CopyIntro
  <2>3. PICK j \in Jobs :
          /\ Becomes(a, j) /\ j.pc = "backup" /\ j.src = cand /\ j.left = DOMAIN cand
          /\ j.then = "swap"
    BY <1>t, <2>1, <2>2, StartStep
  <2>4. CopyPair(j)'
    BY <1>w, <2>1, <2>3 DEF CopyPair
  <2>5. PairAt(j)'
    BY <1>w, <2>1, <2>3, <2>4 DEF PairAt, JobPair, Unsettled, Accounted, Backed
  <2> QED BY <1>h, <2>1, <2>3, <2>5, GoesOn
<1>5. CASE Swapped(a)
  <2> DEFINE w == [version |-> job[a].version, pair |-> cand,
                   backups |-> job[a].backups, told |-> FALSE]
             st == [job[a].state EXCEPT !.last = job[a].version, !.watch = w]
  <2>1. job[a].pc = "replace" /\ job[a].left = {} /\ job[a].then = "swap"
        /\ Moves(a, "record", st) /\ UNCHANGED <<prod, store, trusted, stray, lock>>
    BY <1>t, <1>5 DEF Swapped, Copied, TypeInv, Moves, files
  <2>2. job[a].src = cand /\ job[a].backups \in [Kinds -> Trainings]
        /\ CopyPair(job[a]) /\ Backed
    BY <1>h, <2>1 DEF JobSound, SwapSound, PairAt, JobPair, Copying
  <2>3. prod = cand
    BY <1>0, <2>1, <2>2, CopiedWhole
  <2>4. store.watch = NoWatch /\ Original(job[a]) = trusted
    BY <2>1, <2>2 DEF CopyPair
  <2>5. job[a].backups = trusted
    <3>1. Original(job[a]) = [k \in Kinds |-> job[a].backups[k]]
      BY <1>0, <2>2 DEF Original
    <3> QED BY <2>2, <2>4, <3>1
  <2>6. w \in Watches /\ w.pair = cand /\ w.backups = trusted
    BY <1>0, <2>5, CopyIntro DEF Watches, Jobs
  <2>7. w = NoWatch => prod = trusted
    BY <2>3, <2>6 DEF NoWatch
  <2> HIDE DEF w
  <2>8. st \in States /\ st.watch = w
    BY <1>0, <2>6 DEF States, Jobs
  <2> HIDE DEF st
  <2>9. PICK j \in Jobs : Becomes(a, j) /\ j.pc = "record" /\ j.state = st
    BY <1>t, <2>1, <2>8, StateStep DEF Pcs
  <2>10. PairAt(j)'
    BY <2>1, <2>2, <2>3, <2>4, <2>6, <2>7, <2>8, <2>9
       DEF PairAt, JobPair, Unsettled, Copying, Accounted, Backed
  <2> QED BY <1>h, <2>1, <2>9, <2>10, GoesOn
<1>6. CASE RecordFails(a)
  <2>0. job[a].pc = "record" /\ UNCHANGED <<prod, store, trusted, stray>>
    BY <1>6 DEF RecordFails, files
  <2>1. CASE job[a].state.watch = NoWatch
    BY <1>p, <1>6, <2>0, <2>1, LeavesSettled DEF RecordFails, Unsettled
  <2>2. CASE job[a].state.watch # NoWatch
    <3> DEFINE f == job[a].state.watch.backups
    <3>1. f \in Copies
      BY <1>0 DEF Watches
    <3>2. StartCopy(a, f, "undo") /\ lock' = lock
      BY <1>6, <2>2 DEF RecordFails
    <3>3. store.watch = NoWatch /\ f = trusted /\ Backed
      BY <1>h, <2>0, <2>2 DEF PairAt, JobPair
    <3> HIDE DEF f
    <3>4. PICK j \in Jobs :
            /\ Becomes(a, j) /\ j.pc = "backup" /\ j.src = f /\ j.left = DOMAIN f
            /\ j.then = "undo"
      BY <1>t, <3>1, <3>2, StartStep
    <3>5. CopyPair(j)'
      BY <2>0, <3>3, <3>4 DEF CopyPair
    <3>6. PairAt(j)'
      BY <2>0, <3>3, <3>4, <3>5 DEF PairAt, JobPair, Unsettled, Backed
    <3> QED BY <1>h, <3>2, <3>4, <3>6, GoesOn
  <2> QED BY <2>1, <2>2
<1> QED BY <1>1, <1>2, <1>3, <1>4, <1>5, <1>6

-----------------------------------------------------------------------------
(* The weekly job and the world *)

LEMMA WeeklyPair ==
  ASSUME BaseInv, PairInv, Reliable, NEW a \in Actors, Weekly(a)
  PROVE  PairInv'
<1>p. job[a].pc # "idle"
  BY DEF Weekly, NoPromotion, Promote, Promoted, Clear, ClearFails, Retrain,
       TrainChallenger, RetrainEnds, Copied
<1>h. PairAt(job[a]) /\ lock = a
  BY <1>p, Holder
<1>t. TypeInv
  BY DEF BaseInv
<1>0. job[a] \in Jobs /\ store \in States /\ chal \in [Kinds -> Contents]
  BY AtWork DEF TypeInv, FilesTyped
\* Where it neither copies nor has just promoted the pair is in order
<1>w. job[a].pc \in {"shadow", "retrain", "challenge"} => Accounted(prod) /\ Backed
  BY <1>h DEF PairAt, Unsettled
<1>1. CASE NoPromotion(a)
  <2>1. job[a].pc = "shadow" /\ Goto(a, "retrain") /\ UNCHANGED <<prod, store, trusted, stray, lock>>
    BY <1>1 DEF NoPromotion, files
  <2>2. PICK j \in Jobs : Becomes(a, j) /\ j.pc = "retrain"
    BY <1>t, <2>1, GotoStep DEF Pcs
  <2>3. PairAt(j)'
    BY <1>w, <2>1, <2>2 DEF PairAt, JobPair, Unsettled, Copying, Accounted, Backed
  <2> QED BY <1>h, <2>1, <2>2, <2>3, GoesOn
<1>2. CASE Promote(a)
  <2> DEFINE K == Present(chal)
             f == [k \in K |-> chal[k]]
  <2>1. K \in SUBSET Kinds /\ f \in [K -> Contents]
    BY <1>0 DEF Present
  <2>2. f \in Copies
    BY <2>1, CopyIntro
  <2>3. job[a].pc = "shadow" /\ StartCopy(a, f, "promote")
        /\ UNCHANGED <<prod, store, trusted, stray, lock>>
    BY <1>2 DEF Promote, files
  <2> HIDE DEF f, K
  <2>4. PICK j \in Jobs :
          /\ Becomes(a, j) /\ j.pc = "backup" /\ j.src = f /\ j.left = DOMAIN f
          /\ j.then = "promote"
    BY <1>t, <2>2, <2>3, StartStep
  <2>5. CopyPair(j)'
    BY <2>4 DEF CopyPair
  <2>6. PairAt(j)'
    BY <1>w, <2>3, <2>4, <2>5 DEF PairAt, JobPair, Unsettled, Accounted, Backed
  <2> QED BY <1>h, <2>3, <2>4, <2>6, GoesOn
<1>3. CASE Promoted(a)
  <2>1. Goto(a, "clear") /\ UNCHANGED <<prod, lock>> /\ trusted' = prod
    BY <1>3 DEF Promoted, files
  <2>2. PICK j \in Jobs : Becomes(a, j) /\ j.pc = "clear"
    BY <1>t, <2>1, GotoStep DEF Pcs
  <2>3. PairAt(j)'
    BY <2>1, <2>2 DEF PairAt, JobPair, Unsettled, Copying, Accounted
  <2> QED BY <1>h, <2>1, <2>2, <2>3, GoesOn
<1>4. CASE Clear(a)
  <2>1. job[a].pc = "clear" /\ Goto(a, "retrain") /\ UNCHANGED <<prod, trusted, stray, lock>>
    BY <1>4 DEF Clear, files
  <2>2. PICK j \in Jobs : Becomes(a, j) /\ j.pc = "retrain"
    BY <1>t, <2>1, GotoStep DEF Pcs
  <2>3. prod = trusted
    BY <1>h, <2>1 DEF PairAt, JobPair
  <2>4. store'.watch = NoWatch
    BY <1>0, <1>4, Unwatched DEF Clear
  <2>5. PairAt(j)'
    BY <2>1, <2>2, <2>3, <2>4 DEF PairAt, JobPair, Unsettled, Copying, Accounted, Backed
  <2> QED BY <1>h, <2>1, <2>2, <2>5, GoesOn
<1>5. CASE ClearFails(a)
  BY <1>5 DEF ClearFails, MayFail, Reliable
<1>6. CASE Retrain(a)
  <2>1. made' = made + 1 /\ made' \in Contents
    BY <1>t, <1>6, ContentsRange, PromotionAssumption DEF Retrain, TypeInv, FilesTyped
  <2>2. job[a].pc = "retrain" /\ Retrains(a, made') /\ UNCHANGED <<prod, store, trusted, stray, lock>>
    BY <1>6, <2>1 DEF Retrain, Retrains
  <2>3. PICK j \in Jobs : Becomes(a, j) /\ j.pc = "challenge"
    BY <1>t, <2>1, <2>2, RetrainStep
  <2>4. PairAt(j)'
    BY <1>w, <2>2, <2>3 DEF PairAt, JobPair, Unsettled, Copying, Accounted, Backed
  <2> QED BY <1>h, <2>2, <2>3, <2>4, GoesOn
<1>7. CASE TrainChallenger(a)
  <2> PICK k \in job[a].left : /\ chal' = [chal EXCEPT ![k] = job[a].gen]
                               /\ fresh' = fresh \cup {k}
                               /\ job' = [job EXCEPT ![a].left = @ \ {k}]
    BY <1>7 DEF TrainChallenger
  <2> DEFINE K == job[a].left \ {k}
  <2>1. K \in SUBSET Kinds /\ Leaves(a, K) /\ job[a].pc = "challenge"
        /\ UNCHANGED <<prod, store, trusted, stray, lock>>
    BY <1>0, <1>t, <1>7 DEF TypeInv, TrainChallenger, Jobs, Leaves
  <2> HIDE DEF K
  <2>2. PICK j \in Jobs : Becomes(a, j) /\ j.pc = job[a].pc
    BY <1>t, <2>1, LeftStep
  <2>3. PairAt(j)'
    BY <1>w, <2>1, <2>2 DEF PairAt, JobPair, Unsettled, Copying, Accounted, Backed
  <2> QED BY <1>h, <2>1, <2>2, <2>3, GoesOn
<1>8. CASE RetrainEnds(a)
  <2>1. Leave(a) /\ ~Unsettled(job[a]) /\ job[a].pc # "clear"
        /\ UNCHANGED <<prod, store, trusted, stray>>
    BY <1>8 DEF RetrainEnds, Unsettled, files
  <2> QED BY <1>p, <2>1, LeavesSettled
<1> QED BY <1>1, <1>2, <1>3, <1>4, <1>5, <1>6, <1>7, <1>8 DEF Weekly

\* A process that may die leaves the pair in order
LEMMA MortalSettled ==
  ASSUME Reliable, NEW a \in Actors, Mortal(a)
  PROVE  ~Unsettled(job[a]) /\ job[a].pc # "clear"
BY DEF Reliable, Mortal, InWindow, Unsettled, Copying

LEMMA DeathPair ==
  ASSUME BaseInv, PairInv, Reliable, Deploy \/ \E a \in Actors : Die(a)
  PROVE  PairInv'
<1>1. CASE Deploy
  <2>1. Accounted(prod) /\ Backed
    <3>1. CASE lock = Free
      BY <3>1 DEF PairInv
    <3>2. CASE lock \in Actors
      BY <1>1, <3>2, MortalSettled DEF Deploy, PairInv, PairAt
    <3> QED BY <3>1, <3>2 DEF BaseInv, TypeInv
  <2>2. Accounted(prod)' /\ Backed'
    BY <1>1, <2>1 DEF Deploy, files, Accounted, Backed
  <2>3. lock' = Free /\ \A a \in Actors : job'[a] = Idle
    BY <1>1 DEF Deploy
  <2> QED BY <2>2, <2>3, IdleFacts, PromotionAssumption DEF PairInv
<1>2. ASSUME NEW a \in Actors, Die(a) PROVE PairInv'
  <2>1. lock = a
    BY <1>2, OthersIdle DEF Die
  <2>2. Leave(a) /\ job[a].pc # "idle" /\ UNCHANGED <<prod, store, trusted, stray>>
    BY <1>2, <2>1 DEF Die, Leave, files
  <2> QED BY <1>2, <2>2, MortalSettled, LeavesSettled DEF Die
<1> QED BY <1>1, <1>2

LEMMA SamePair ==
  ASSUME PairInv, UNCHANGED <<prod, store, lock, job, trusted, stray>>
  PROVE  PairInv'
<1>1. ASSUME NEW j, PairAt(j) PROVE PairAt(j)'
  <2>1. Original(j)' = Original(j)
    BY DEF Original
  <2>2. CopyPair(j) => CopyPair(j)'
    BY <2>1 DEF CopyPair, Accounted
  <2> QED BY <1>1, <2>2 DEF PairAt, JobPair, Unsettled, Accounted, Backed
<1> QED BY <1>1 DEF PairInv, Accounted, Backed

LEMMA PairInit == Init => PairInv
<1> SUFFICES ASSUME Init PROVE PairInv
  OBVIOUS
<1>1. store.watch = NoWatch /\ prod = trusted /\ lock = Free
      /\ \A a \in Actors : job[a] = Idle
  BY DEF Init, IdleState
<1> QED BY <1>1, IdleFacts, PromotionAssumption DEF PairInv, Accounted, Backed

LEMMA PairStep == BaseInv /\ PairInv /\ Reliable /\ [Next]_vars => PairInv'
<1> SUFFICES ASSUME BaseInv, PairInv, Reliable, [Next]_vars PROVE PairInv'
  OBVIOUS
<1>1. CASE UNCHANGED vars \/ Rebuild \/ ReadModel \/ SaveRows \/ NextWeek
  BY <1>1, SamePair DEF vars, files, Rebuild, ReadModel, SaveRows, NextWeek
<1>2. ASSUME NEW a \in Actors, Begin(a) \/ Copy(a) PROVE PairInv'
  BY <1>2, BeginPair, CopyPairStep
<1>3. ASSUME NEW a \in Nights, Night(a) PROVE PairInv'
  BY <1>3, NightLeavesPair, JudgePair, EvaluatePair DEF Actors, Night
<1>4. ASSUME NEW a \in Weeks, Weekly(a) PROVE PairInv'
  BY <1>4, WeeklyPair DEF Actors
<1> QED BY <1>1, <1>2, <1>3, <1>4, DeathPair DEF Next

-----------------------------------------------------------------------------
(* Whenever nobody holds the lock production is the pair that no watch     *)
(* stands over, or the whole pair on watch, or what an undo or a putting   *)
(* back that itself failed left there and nothing else.  For any number of *)
(* failures of any operations, when clearing a watch after a promotion     *)
(* works and no process dies while files are replaced.                     *)
THEOREM PairAccounted ==
  ASSUME Reliable
  PROVE  Spec => []ProductionAccounted
<1>1. BaseInv /\ PairInv /\ [Next]_vars => PairInv'
  BY PairStep
<1>2. PairInv => ProductionAccounted
  BY DEF PairInv, Accounted, ProductionAccounted
<1> QED BY <1>1, <1>2, BaseInit, BaseStep, PairInit, PTL DEF Spec

\* The one step that closes a rollback
LEMMA OnlyRolledBack ==
  ASSUME BaseInv, [Next]_vars, NEW n \in Actors,
         job[n].then = "rollback", job[n].pc = "replace", job'[n].pc = "close"
  PROVE  RolledBack(n)
<1>0. job \in [Actors -> Jobs] /\ job[n] \in Jobs /\ lock = n /\ lock # Free
      /\ \A b \in Actors \ {n} : job[b].pc = "idle"
  BY OthersIdle, PromotionAssumption DEF BaseInv, TypeInv
<1>1. job' # job
  OBVIOUS
<1>2. ASSUME NEW a \in Actors, Begin(a) PROVE FALSE
  BY <1>0, <1>2 DEF Begin
<1>3. ASSUME NEW a \in Actors, Copy(a) PROVE FALSE
  <2>1. a = n
    BY <1>0, <1>3 DEF Copy, BackUp, BackUpFails, Replace, ReplaceFails, Restore,
         RestoreFails, Restored
  <2>2. CASE Replace(n)
    <3> PICK k \in job[n].left : job' = [job EXCEPT ![n].left = @ \ {k}]
      BY <2>2 DEF Replace
    <3> QED BY <1>0 DEF Jobs
  <2>3. CASE ReplaceFails(n)
    BY <1>0, <2>3 DEF ReplaceFails, Jobs
  <2> QED BY <1>3, <2>1, <2>2, <2>3 DEF Copy, BackUp, BackUpFails, Restore,
         RestoreFails, Restored
<1>4. ASSUME NEW a \in Actors, Die(a) PROVE FALSE
  <2>1. a = n
    BY <1>0, <1>4 DEF Die
  <2> QED BY <1>0, <1>4, <2>1, IdleFacts DEF Die
<1>5. ASSUME Deploy PROVE FALSE
  BY <1>5, IdleFacts DEF Deploy
<1>6. ASSUME NEW a \in Nights, Night(a) PROVE RolledBack(n)
  <2>1. a = n
    BY <1>0, <1>6 DEF Actors, Night, Load, LoadFails, NoJudgement, TellSkipped, Keep, RollBack,
         RolledBack, Close, CloseFails, Skip, Choose, Train, NotCompared, NoSwap, Swap,
         Swapped, Record, RecordFails, Undone, Compared, Copied
  <2> QED BY <1>6, <2>1 DEF Night, Load, LoadFails, NoJudgement, TellSkipped, Keep, RollBack,
         Close, CloseFails, Skip, Choose, Train, NotCompared, NoSwap, Swap,
         Swapped, Record, RecordFails, Undone, Compared, Copied
<1>7. ASSUME NEW a \in Weeks, Weekly(a) PROVE FALSE
  <2>1. a = n
    BY <1>0, <1>7 DEF Actors, Weekly, NoPromotion, Promote, Promoted, Clear, ClearFails, Retrain,
         TrainChallenger, RetrainEnds, Copied
  <2> QED BY <1>7, <2>1 DEF Weekly, NoPromotion, Promote, Promoted, Clear, ClearFails, Retrain,
         TrainChallenger, RetrainEnds, Copied
<1>8. ~(UNCHANGED vars \/ Rebuild \/ ReadModel \/ SaveRows \/ NextWeek)
  BY <1>1 DEF vars, Rebuild, ReadModel, SaveRows, NextWeek
<1> QED BY <1>2, <1>3, <1>4, <1>5, <1>6, <1>7, <1>8 DEF Next

(* A rollback leaves in production the pair that was there before the swap *)
(* it takes back, also when a challenger was promoted in between.          *)
THEOREM RollbackRestores ==
  ASSUME Reliable
  PROVE  Spec => RollbackReturns
<1>1. BaseInv /\ PairInv /\ [Next]_vars => PairInv'
  BY PairStep
<1>2. ASSUME BaseInv, PairInv, [Next]_vars, NEW n \in Nights,
             job[n].then = "rollback", job[n].pc = "replace", job'[n].pc = "close"
      PROVE  prod' = trusted
  <2>0. n \in Actors
    BY DEF Actors
  <2>1. RolledBack(n)
    BY <1>2, <2>0, OnlyRolledBack
  <2>2. job[n].left = {} /\ prod' = prod
    BY <2>1 DEF RolledBack, Copied, files
  <2>3. job[n].src = trusted /\ trusted \in [Kinds -> Contents]
    BY <1>2, <2>0, Holder DEF PairAt, JobPair, CopyPair, Copying
  <2> QED BY <1>2, <2>0, <2>2, <2>3, CopiedWhole
<1>3. BaseInv /\ PairInv /\ [Next]_vars =>
        [\A n \in Nights :
           job[n].then = "rollback" /\ job[n].pc = "replace" /\ job'[n].pc = "close"
             => prod' = trusted]_vars
  BY <1>2
<1> QED BY <1>1, <1>3, BaseInit, BaseStep, PairInit, PTL DEF Spec, RollbackReturns

-----------------------------------------------------------------------------
(* Where a challenger of this week can be.  The number of its training is  *)
(* in no production, candidate or backup file, and in no copy under way;   *)
(* nor is the number that the next challenger file will get.               *)

\* x may be what a file of model k holds, besides the challenger's own
Fit(k, x) ==
  /\ x <= made
  /\ k \in fresh => x # chal[k]
  /\ \A a \in Actors : job[a].pc = "challenge" => x # job[a].gen

Fits(f) == \A k \in DOMAIN f : Fit(k, f[k])

JobFits(j) ==
  /\ Fits(j.src) /\ Fits(j.backups) /\ Fits(j.state.watch.backups)
  /\ j.gen <= made
  /\ j.pc = "train" => \A k \in fresh : chal[k] # j.gen

FreshInv ==
  /\ Fits(prod) /\ Fits(cand) /\ Fits(store.watch.backups)
  /\ \A k \in Kinds : Fit(k, Missing) /\ chal[k] <= made
  /\ \A a \in Actors : JobFits(job[a])

\* What FreshInv says where process a is, with the types it needs
LEMMA FreshAt ==
  ASSUME BaseInv, FreshInv, NEW a \in Actors
  PROVE  /\ TypeInv /\ job[a] \in Jobs /\ JobFits(job[a])
         /\ job[a].gen \in Nat /\ made \in Nat
         /\ prod \in [Kinds -> Contents] /\ cand \in [Kinds -> Contents]
         /\ chal \in [Kinds -> Contents] /\ fresh \subseteq Kinds
         /\ Fits(prod) /\ Fits(cand) /\ Fits(store.watch.backups)
         /\ \A k \in Kinds : Fit(k, Missing) /\ chal[k] <= made /\ chal[k] \in Nat
<1>1. /\ TypeInv /\ job[a] \in Jobs /\ made \in Trainings
      /\ prod \in [Kinds -> Contents] /\ cand \in [Kinds -> Contents]
      /\ chal \in [Kinds -> Contents] /\ fresh \subseteq Kinds
  BY DEF BaseInv, TypeInv, FilesTyped
<1>2. Contents \subseteq Nat /\ Trainings \subseteq Nat
  BY ContentsRange, PromotionAssumption
<1>3. job[a].gen \in Contents
  BY <1>1 DEF Jobs
<1> QED BY <1>1, <1>2, <1>3 DEF FreshInv

\* A file of a copy, by its model
LEMMA CopyCells ==
  ASSUME NEW f \in Copies, NEW k \in DOMAIN f
  PROVE  k \in Kinds /\ f[k] \in Nat
<1>1. Contents \subseteq Nat
  BY ContentsRange, PromotionAssumption
<1> QED BY <1>1, CopyElim

\* What fits a file goes on fitting it while no challenger is trained
LEMMA FitGrows ==
  ASSUME BaseInv, FreshInv, NEW a \in Actors, NEW j \in Jobs, Becomes(a, j),
         chal' = chal, fresh' = fresh, made' \in {made, made + 1},
         j.pc = "challenge" => job[a].pc = "challenge" /\ j.gen = job[a].gen,
         NEW k \in Kinds, NEW x \in Nat, Fit(k, x)
  PROVE  Fit(k, x)'
<1>1. made \in Nat
  BY FreshAt
<1>2. x <= made'
  BY <1>1 DEF Fit
<1>3. ASSUME NEW b \in Actors, job'[b].pc = "challenge" PROVE x # job'[b].gen
  BY <1>3 DEF Becomes, Fit
<1> QED BY <1>2, <1>3 DEF Fit

\* A process that waits or has gone holds nothing
LEMMA IdleFits ==
  ASSUME BaseInv, FreshInv
  PROVE  JobFits(Idle) /\ Fits(<< >>) /\ Fits(NoWatch.backups)
<1>1. made \in Nat
  BY ContentsRange, PromotionAssumption DEF BaseInv, TypeInv, FilesTyped
<1> QED BY <1>1 DEF JobFits, Fits, Idle, IdleState, NoWatch

-----------------------------------------------------------------------------
(* A step of process a keeps the invariant when what fitted still fits, and *)
(* whatever it writes fits.                                                *)
LEMMA StillFits ==
  ASSUME BaseInv, BaseInv', FreshInv, NEW a \in Actors, NEW j \in Jobs, Becomes(a, j),
         made' \in {made, made + 1},
         \A k \in Kinds : \A x \in Nat : Fit(k, x) => Fit(k, x)',
         \A k \in Kinds : chal'[k] <= made',
         j.gen <= made',
         \A b \in Actors : \A k \in fresh' : job'[b].pc = "train" => chal'[k] # job'[b].gen,
         \A k \in Kinds : Fit(k, prod'[k]) /\ Fit(k, cand'[k]),
         \A k \in DOMAIN store'.watch.backups : Fit(k, store'.watch.backups[k]),
         Fits(j.src), Fits(j.backups), Fits(j.state.watch.backups)
  PROVE  FreshInv'
<1>0. /\ TypeInv' /\ store'.watch.backups \in Copies
      /\ prod' \in [Kinds -> Contents] /\ cand' \in [Kinds -> Contents]
  BY DEF BaseInv, TypeInv, FilesTyped, States, Watches
<1>1. Contents \subseteq Nat /\ Missing \in Nat
  BY ContentsRange, PromotionAssumption
<1>2. /\ \A k \in Kinds : prod'[k] \in Nat /\ cand'[k] \in Nat
      /\ \A k \in DOMAIN store'.watch.backups : k \in Kinds /\ store'.watch.backups[k] \in Nat
  BY <1>0, <1>1, CopyCells
<1>3. Fits(prod)' /\ Fits(cand)' /\ Fits(store.watch.backups)'
  BY <1>0, <1>2 DEF Fits, Fit
<1>4. \A k \in Kinds : Fit(k, Missing)' /\ chal'[k] <= made'
  BY <1>1, FreshAt DEF Missing
<1>5. ASSUME NEW f \in Copies, Fits(f) PROVE \A k \in DOMAIN f : Fit(k, f[k])'
  BY <1>5, CopyCells DEF Fits, Fit
<1>6. JobFits(j)'
  <2>1. j.src \in Copies /\ j.backups \in Copies /\ j.state.watch.backups \in Copies
    BY DEF Jobs, States, Watches
  <2>2. Fits(j.src)' /\ Fits(j.backups)' /\ Fits(j.state.watch.backups)'
    BY <1>5, <2>1 DEF Fits
  <2> QED BY <2>2 DEF JobFits, Becomes
<1>7. ASSUME NEW b \in Actors \ {a} PROVE JobFits(job[b])'
  <2>1. job'[b] = job[b] /\ job[b] \in Jobs /\ JobFits(job[b]) /\ job[b].gen \in Nat /\ made \in Nat
    BY FreshAt DEF Becomes
  <2>2. /\ job[b].src \in Copies /\ job[b].backups \in Copies
        /\ job[b].state.watch.backups \in Copies
    BY <2>1 DEF Jobs, States, Watches
  <2>3. Fits(job[b].src) /\ Fits(job[b].backups) /\ Fits(job[b].state.watch.backups)
        /\ job[b].gen <= made
    BY <2>1 DEF JobFits
  <2>4. /\ \A k \in DOMAIN job[b].src : Fit(k, job[b].src[k])'
        /\ \A k \in DOMAIN job[b].backups : Fit(k, job[b].backups[k])'
        /\ \A k \in DOMAIN job[b].state.watch.backups : Fit(k, job[b].state.watch.backups[k])'
    BY <2>1, <2>2, <2>3, CopyCells DEF Fits, Fit
  <2>5. job'[b].gen <= made'
    BY <2>1, <2>3
  <2> QED BY <2>1, <2>4, <2>5 DEF JobFits, Fits
<1> QED BY <1>3, <1>4, <1>6, <1>7 DEF FreshInv, Becomes

\* A step that trains no challenger, and begins no such training
LEMMA Carried ==
  ASSUME BaseInv, BaseInv', FreshInv, NEW a \in Actors, NEW j \in Jobs, Becomes(a, j),
         chal' = chal, fresh' = fresh, made' \in {made, made + 1},
         j.pc = "challenge" => job[a].pc = "challenge" /\ j.gen = job[a].gen,
         j.pc = "train" => \/ job[a].pc = "train" /\ j.gen = job[a].gen
                           \/ j.gen = made + 1,
         j.gen <= made',
         \A k \in Kinds : Fit(k, prod'[k]) /\ Fit(k, cand'[k]),
         \A k \in DOMAIN store'.watch.backups : Fit(k, store'.watch.backups[k]),
         Fits(j.src), Fits(j.backups), Fits(j.state.watch.backups)
  PROVE  FreshInv'
<1>1. \A k \in Kinds : \A x \in Nat : Fit(k, x) => Fit(k, x)'
  BY FitGrows
<1>2. made \in Nat /\ \A k \in Kinds : chal[k] \in Nat /\ chal[k] <= made
  BY FreshAt
<1>3. \A k \in Kinds : chal'[k] <= made'
  BY <1>2
<1>4. ASSUME NEW b \in Actors, NEW k \in fresh', job'[b].pc = "train"
      PROVE  chal'[k] # job'[b].gen
  <2>1. k \in Kinds /\ k \in fresh /\ JobFits(job[b])
    BY FreshAt
  <2>2. CASE job'[b].gen = made + 1
    BY <1>2, <2>1, <2>2
  <2>3. CASE job'[b].gen # made + 1
    <3>1. job[b].pc = "train" /\ job'[b].gen = job[b].gen
      BY <1>4, <2>3 DEF Becomes
    <3> QED BY <2>1, <3>1 DEF JobFits
  <2> QED BY <2>2, <2>3
<1> QED BY <1>1, <1>3, <1>4, StillFits

\* A step that touches no model file and begins no training
LEMMA Moved ==
  ASSUME BaseInv, BaseInv', FreshInv, NEW a \in Actors, NEW j \in Jobs, Becomes(a, j),
         UNCHANGED files, j.pc \notin {"train", "challenge"},
         \A k \in DOMAIN store'.watch.backups : Fit(k, store'.watch.backups[k]),
         j.gen = job[a].gen \/ j.gen = Missing,
         Fits(j.src), Fits(j.backups), Fits(j.state.watch.backups)
  PROVE  FreshInv'
<1>1. made \in Nat /\ job[a].gen <= made /\ DOMAIN prod = Kinds /\ DOMAIN cand = Kinds
      /\ Fits(prod) /\ Fits(cand)
  BY FreshAt DEF JobFits
<1>2. \A k \in Kinds : Fit(k, prod'[k]) /\ Fit(k, cand'[k])
  BY <1>1 DEF Fits, files
<1>3. j.gen <= made' /\ made' = made
  BY <1>1 DEF files, Missing
<1> QED BY <1>2, <1>3, Carried DEF files

\* The same, when the state file stays too
LEMMA MovedQuietly ==
  ASSUME BaseInv, BaseInv', FreshInv, NEW a \in Actors, NEW j \in Jobs, Becomes(a, j),
         UNCHANGED <<files, store>>, j.pc \notin {"train", "challenge"},
         j.gen = job[a].gen,
         Fits(j.src), Fits(j.backups), Fits(j.state.watch.backups)
  PROVE  FreshInv'
<1>1. \A k \in DOMAIN store'.watch.backups : Fit(k, store'.watch.backups[k])
  BY DEF FreshInv, Fits
<1> QED BY <1>1, Moved DEF files

LEMMA Gone ==
  ASSUME BaseInv, BaseInv', FreshInv, NEW a \in Actors, Leave(a), UNCHANGED files,
         store' = store \/ store'.watch.backups = job[a].state.watch.backups
  PROVE  FreshInv'
<1>1. Becomes(a, Idle)
  BY LeaveStep DEF BaseInv
<1>2. \A k \in DOMAIN store'.watch.backups : Fit(k, store'.watch.backups[k])
  <2>1. CASE store' = store
    BY <2>1 DEF FreshInv, Fits
  <2>2. CASE store'.watch.backups = job[a].state.watch.backups
    BY <2>2 DEF FreshInv, JobFits, Fits
  <2> QED BY <2>1, <2>2
<1>3. Idle.pc = "idle" /\ Idle.gen = Missing
  BY DEF Idle, Missing
<1>4. JobFits(Idle)
  BY IdleFits
<1>5. Fits(Idle.src) /\ Fits(Idle.backups) /\ Fits(Idle.state.watch.backups)
  BY <1>4 DEF JobFits
<1> QED BY <1>1, <1>2, <1>3, <1>5, IdleType, Moved

LEMMA CopyFailedFresh ==
  ASSUME BaseInv, BaseInv', FreshInv, NEW a \in Actors, CopyFailed(a),
         UNCHANGED <<files, store>>
  PROVE  FreshInv'
<1>1. CASE job[a].then = "promote"
  <2>1. PICK j \in Jobs :
          /\ Becomes(a, j) /\ j.pc = "retrain" /\ j.state = job[a].state
          /\ j.gen = job[a].gen /\ j.src = job[a].src /\ j.backups = job[a].backups
    BY <1>1, FreshAt, GotoStep DEF CopyFailed, Pcs
  <2> QED BY <2>1, FreshAt, MovedQuietly DEF JobFits
<1>2. CASE job[a].then # "promote"
  BY <1>2, Gone DEF CopyFailed
<1> QED BY <1>1, <1>2

\* The copy writes what its source holds, and puts back what production held
LEMMA CopyFresh ==
  ASSUME BaseInv, BaseInv', FreshInv, NEW a \in Actors, Copy(a)
  PROVE  FreshInv'
<1>0. /\ TypeInv /\ JobFits(job[a]) /\ job[a].src \in Copies /\ job[a].left \in SUBSET Kinds
      /\ job[a].backups \in Copies /\ JobSound(job[a])
      /\ Fits(prod) /\ Fits(cand) /\ Fits(store.watch.backups)
      /\ prod \in [Kinds -> Contents] /\ cand \in [Kinds -> Contents]
      /\ made \in Nat /\ job[a].gen <= made
  BY FreshAt, AtWork DEF JobFits
<1>1. CASE BackUp(a)
  <2> DEFINE K == Present(prod) \cap DOMAIN job[a].src
             f == Restrict(prod, K)
  <2>1. K \in SUBSET Kinds /\ f \in [K -> Contents] /\ \A k \in K : f[k] = prod[k]
    BY <1>0 DEF Present, Restrict
  <2>2. f \in Copies
    BY <2>1, CopyIntro
  <2>3. Fits(f)
    BY <1>0, <2>1 DEF Fits
  <2>4. BacksUp(a, f)
    BY <1>1 DEF BackUp, BacksUp
  <2> HIDE DEF f, K
  <2>5. PICK j \in Jobs :
           /\ Becomes(a, j) /\ j.pc = "replace" /\ j.state = job[a].state
           /\ j.gen = job[a].gen /\ j.src = job[a].src /\ j.backups = f
    BY <1>0, <2>2, <2>4, BackUpStep
  <2> QED BY <1>0, <1>1, <2>3, <2>5, MovedQuietly DEF BackUp, JobFits
<1>2. CASE BackUpFails(a)
  BY <1>2, CopyFailedFresh DEF BackUpFails
<1>3. CASE Replace(a)
  <2> PICK k \in job[a].left : prod' = [prod EXCEPT ![k] = job[a].src[k]]
                               /\ job' = [job EXCEPT ![a].left = @ \ {k}]
    BY <1>3 DEF Replace
  <2> DEFINE K == job[a].left \ {k}
  <2>1. /\ K \in SUBSET Kinds /\ Leaves(a, K) /\ job[a].pc = "replace"
        /\ k \in DOMAIN job[a].src
    BY <1>0, <1>3 DEF Leaves, TypeInv, Replace, JobSound, Copying
  <2>2. PICK j \in Jobs :
           /\ Becomes(a, j) /\ j.pc = job[a].pc /\ j.state = job[a].state
           /\ j.gen = job[a].gen /\ j.src = job[a].src /\ j.backups = job[a].backups
    BY <1>0, <2>1, LeftStep
  <2>3. UNCHANGED <<cand, chal, fresh, made, store>>
    BY <1>3 DEF Replace
  <2>4. \A x \in Kinds : Fit(x, prod'[x]) /\ Fit(x, cand'[x])
    BY <1>0, <2>1, <2>3 DEF Fits, JobFits
  <2>5. \A x \in DOMAIN store'.watch.backups : Fit(x, store'.watch.backups[x])
    BY <1>0, <2>3 DEF Fits
  <2> QED BY <1>0, <2>1, <2>2, <2>3, <2>4, <2>5, Carried DEF JobFits
<1>4. CASE ReplaceFails(a)
  <2>1. DOMAIN job[a].src \in SUBSET Kinds /\ PutsBack(a, DOMAIN job[a].src)
    BY <1>0, <1>4, CopyElim DEF ReplaceFails, PutsBack
  <2>2. PICK j \in Jobs :
           /\ Becomes(a, j) /\ j.pc = "restore" /\ j.state = job[a].state
           /\ j.gen = job[a].gen /\ j.src = job[a].src /\ j.backups = job[a].backups
    BY <1>0, <2>1, RestoreStep, ZenonT(30)
  <2> QED BY <1>0, <1>4, <2>2, MovedQuietly DEF ReplaceFails, JobFits
<1>5. CASE Restore(a)
  <2> PICK k \in job[a].left : PutBack(a, k) /\ job' = [job EXCEPT ![a].left = @ \ {k}]
    BY <1>5 DEF Restore
  <2> DEFINE K == job[a].left \ {k}
  <2>1. K \in SUBSET Kinds /\ Leaves(a, K) /\ job[a].pc = "restore" /\ k \in Kinds
    BY <1>0, <1>5 DEF Leaves, TypeInv, Restore
  <2>2. PICK j \in Jobs :
           /\ Becomes(a, j) /\ j.pc = job[a].pc /\ j.state = job[a].state
           /\ j.gen = job[a].gen /\ j.src = job[a].src /\ j.backups = job[a].backups
    BY <1>0, <2>1, LeftStep
  <2>3. UNCHANGED <<cand, chal, fresh, made, store>>
    BY <1>5 DEF Restore
  <2>4. Fit(k, Missing)
    BY <2>1, FreshAt
  <2>5. \A x \in Kinds : Fit(x, prod'[x]) /\ Fit(x, cand'[x])
    BY <1>0, <2>1, <2>3, <2>4 DEF Fits, JobFits, PutBack
  <2>6. \A x \in DOMAIN store'.watch.backups : Fit(x, store'.watch.backups[x])
    BY <1>0, <2>3 DEF Fits
  <2> QED BY <1>0, <2>1, <2>2, <2>3, <2>5, <2>6, Carried DEF JobFits
<1>6. CASE RestoreFails(a)
  <2> PICK k \in job[a].left :
         job' = [job EXCEPT ![a].left = @ \ {k}, ![a].torn = TRUE]
    BY <1>6 DEF RestoreFails
  <2> DEFINE K == job[a].left \ {k}
  <2>1. K \in SUBSET Kinds /\ Tears(a, K) /\ job[a].pc = "restore"
    BY <1>0, <1>6 DEF Tears, TypeInv, RestoreFails
  <2>2. PICK j \in Jobs :
           /\ Becomes(a, j) /\ j.pc = job[a].pc /\ j.state = job[a].state
           /\ j.gen = job[a].gen /\ j.src = job[a].src /\ j.backups = job[a].backups
    BY <1>0, <2>1, TearStep
  <2> QED BY <1>0, <1>6, <2>1, <2>2, MovedQuietly DEF RestoreFails, JobFits
<1>7. CASE Restored(a)
  BY <1>7, CopyFailedFresh DEF Restored
<1> QED BY <1>1, <1>2, <1>3, <1>4, <1>5, <1>6, <1>7 DEF Copy

LEMMA BeginFresh ==
  ASSUME BaseInv, BaseInv', FreshInv, NEW a \in Actors, Begin(a)
  PROVE  FreshInv'
<1>0. TypeInv /\ JobFits(job[a])
  BY FreshAt
<1>1. PICK j \in Jobs :
        /\ Becomes(a, j) /\ j.pc \in {"load", "shadow"} /\ j.state = job[a].state
        /\ j.gen = job[a].gen /\ j.src = job[a].src /\ j.backups = job[a].backups
  <2>1. CASE a \in Nights
    <3>1. PICK m \in Modes : job' = [job EXCEPT ![a].pc = "load", ![a].mode = m]
      BY <2>1 DEF Begin
    <3>2. m \in [force : BOOLEAN, dry : BOOLEAN]
          /\ job' = [job EXCEPT ![a].pc = "load", ![a].mode = m]
      BY <3>1, PromotionAssumption
    <3> DEFINE j == [job[a] EXCEPT !.pc = "load", !.mode = m]
    <3>3. /\ j \in Jobs /\ j.pc = "load" /\ j.state = job[a].state
          /\ j.gen = job[a].gen /\ j.src = job[a].src /\ j.backups = job[a].backups
      BY <1>0, <3>2 DEF TypeInv, Jobs, Pcs
    <3>4. job' = [job EXCEPT ![a] = j]
      BY <1>0, <3>2 DEF TypeInv
    <3> HIDE DEF j
    <3> QED BY <1>0, <3>3, <3>4, JobStep
  <2>2. CASE a \notin Nights
    <3>1. Goto(a, "shadow") /\ "shadow" \in Pcs
      BY <2>2 DEF Begin, Pcs
    <3> QED BY <1>0, <3>1, GotoStep
  <2> QED BY <2>1, <2>2
<1> QED BY <1>0, <1>1, MovedQuietly DEF Begin, JobFits

LEMMA NightLeavesFresh ==
  ASSUME BaseInv, BaseInv', FreshInv, NEW a \in Actors,
         \/ LoadFails(a) \/ NoJudgement(a) \/ TellSkipped(a) \/ CloseFails(a)
         \/ Skip(a) \/ NotCompared(a) \/ Record(a) \/ Undone(a)
  PROVE  FreshInv'
<1>1. CASE LoadFails(a) \/ NoJudgement(a) \/ CloseFails(a) \/ Skip(a)
           \/ NotCompared(a) \/ Undone(a)
  <2>1. Leave(a) /\ UNCHANGED <<files, store>>
    BY <1>1 DEF LoadFails, NoJudgement, CloseFails, Skip, NotCompared, Undone
  <2> QED BY <2>1, Gone
<1>2. CASE TellSkipped(a)
  <2>1. Leave(a) /\ UNCHANGED files /\ store' = [job[a].state EXCEPT !.watch.told = TRUE]
        /\ job[a].state \in States
    BY <1>2, AtWork DEF TellSkipped
  <2>2. store'.watch.backups = job[a].state.watch.backups
    BY <2>1 DEF States, Watches
  <2> QED BY <2>1, <2>2, Gone
<1>3. CASE Record(a)
  <2>1. Leave(a) /\ UNCHANGED files /\ store' = job[a].state
    BY <1>3 DEF Record
  <2> QED BY <2>1, Gone
<1> QED BY <1>1, <1>2, <1>3

LEMMA JudgeFresh ==
  ASSUME BaseInv, BaseInv', FreshInv, NEW a \in Actors,
         Load(a) \/ Keep(a) \/ RollBack(a) \/ RolledBack(a) \/ Close(a)
  PROVE  FreshInv'
<1>t. TypeInv
  BY DEF BaseInv
<1>0. /\ job[a] \in Jobs /\ JobSound(job[a])
      /\ job[a].state \in States /\ job[a].state.watch \in Watches /\ store \in States
      /\ Fits(job[a].src) /\ Fits(job[a].backups) /\ Fits(job[a].state.watch.backups)
      /\ Fits(store.watch.backups) /\ Fits(<< >>) /\ Fits(NoWatch.backups)
  BY AtWork, FreshAt, IdleFits DEF JobFits
<1>1. CASE Load(a)
  <2>1. CASE store.watch # NoWatch /\ job[a].mode.dry
    BY <1>1, <2>1, Gone DEF Load
  <2>2. CASE ~(store.watch # NoWatch /\ job[a].mode.dry)
    <3> DEFINE pc == IF store.watch # NoWatch THEN "watch" ELSE "choose"
    <3>1. pc \in Pcs /\ Moves(a, pc, store)
      BY <1>t, <1>0, <1>1, <2>2 DEF Load, Moves, Pcs, TypeInv, Jobs
    <3>2. pc \in {"watch", "choose"}
      OBVIOUS
    <3> HIDE DEF pc
    <3>3. PICK j \in Jobs :
            /\ Becomes(a, j) /\ j.pc = pc /\ j.state = store /\ j.gen = job[a].gen
            /\ j.src = job[a].src /\ j.backups = job[a].backups
      BY <1>t, <1>0, <3>1, StateStep
    <3> QED BY <1>0, <1>1, <3>2, <3>3, MovedQuietly DEF Load
  <2> QED BY <2>1, <2>2
<1>2. CASE Keep(a)
  <2> DEFINE st == [job[a].state EXCEPT !.watch = NoWatch]
  <2>1. st \in States /\ st.watch = NoWatch
    BY <1>0, Unwatched
  <2>2. Moves(a, "close", st)
    BY <1>t, <1>0, <1>2 DEF Keep, TypeInv, Moves
  <2> HIDE DEF st
  <2>3. PICK j \in Jobs :
          /\ Becomes(a, j) /\ j.pc = "close" /\ j.state = st /\ j.gen = job[a].gen
          /\ j.src = job[a].src /\ j.backups = job[a].backups
    BY <1>t, <2>1, <2>2, StateStep DEF Pcs
  <2> QED BY <1>0, <1>2, <2>1, <2>3, MovedQuietly DEF Keep
<1>3. CASE RollBack(a)
  <2> DEFINE f == job[a].state.watch.backups
  <2>1. f \in Copies /\ Fits(f)
    BY <1>0 DEF Watches
  <2>2. StartCopy(a, f, "rollback")
    BY <1>3 DEF RollBack
  <2> HIDE DEF f
  <2>3. PICK j \in Jobs :
          /\ Becomes(a, j) /\ j.pc = "backup" /\ j.state = job[a].state
          /\ j.gen = job[a].gen /\ j.src = f /\ j.backups = << >>
    BY <1>t, <2>1, <2>2, StartStep
  <2> QED BY <1>0, <1>3, <2>1, <2>3, MovedQuietly DEF RollBack
<1>4. CASE RolledBack(a)
  <2> DEFINE B == job[a].state.back \cup {job[a].state.watch.version}
             st == [job[a].state EXCEPT !.watch = NoWatch, !.back = B]
  <2>1. job[a].pc = "replace" /\ job[a].then = "rollback"
    BY <1>4 DEF RolledBack, Copied
  <2>2. B \in SUBSET Versions
    BY <1>0, <2>1 DEF JobSound, Sound, States, Copying
  <2>3. Moves(a, "close", st)
    BY <1>t, <1>0, <1>4 DEF RolledBack, TypeInv, States, Moves
  <2>4. st \in States /\ st.watch = NoWatch
    BY <1>0, <2>2, Unwatched
  <2> HIDE DEF st
  <2>5. PICK j \in Jobs :
          /\ Becomes(a, j) /\ j.pc = "close" /\ j.state = st /\ j.gen = job[a].gen
          /\ j.src = job[a].src /\ j.backups = job[a].backups
    BY <1>t, <2>3, <2>4, StateStep DEF Pcs
  <2> QED BY <1>0, <1>4, <2>4, <2>5, MovedQuietly DEF RolledBack
<1>5. CASE Close(a)
  <2>1. Goto(a, "choose") /\ UNCHANGED files /\ store' = job[a].state
    BY <1>5 DEF Close
  <2>2. PICK j \in Jobs :
          /\ Becomes(a, j) /\ j.pc = "choose" /\ j.state = job[a].state
          /\ j.gen = job[a].gen /\ j.src = job[a].src /\ j.backups = job[a].backups
    BY <1>t, <2>1, GotoStep DEF Pcs
  <2>3. \A k \in DOMAIN store'.watch.backups : Fit(k, store'.watch.backups[k])
    BY <1>0, <2>1 DEF Fits
  <2> QED BY <1>0, <2>1, <2>2, <2>3, Moved
<1> QED BY <1>1, <1>2, <1>3, <1>4, <1>5

LEMMA EvaluateFresh ==
  ASSUME BaseInv, BaseInv', FreshInv, NEW a \in Actors,
         Choose(a) \/ Train(a) \/ NoSwap(a) \/ Swap(a) \/ Swapped(a) \/ RecordFails(a)
  PROVE  FreshInv'
<1>t. TypeInv
  BY DEF BaseInv
<1>0. /\ job[a] \in Jobs /\ JobSound(job[a]) /\ JobFits(job[a])
      /\ job[a].state \in States /\ job[a].state.watch \in Watches
      /\ job[a].gen <= made /\ made \in Nat /\ made' \in Contents
      /\ cand \in [Kinds -> Contents] /\ prod \in [Kinds -> Contents]
      /\ Fits(job[a].src) /\ Fits(job[a].backups) /\ Fits(job[a].state.watch.backups)
      /\ Fits(store.watch.backups) /\ Fits(prod) /\ Fits(cand) /\ Fits(<< >>)
  BY AtWork, FreshAt, IdleFits, ContentsRange
     DEF JobFits, BaseInv, TypeInv, FilesTyped
<1>1. CASE Choose(a)
  <2>1. made' = made + 1 /\ UNCHANGED <<prod, cand, chal, fresh, store>>
    BY <1>1 DEF Choose
  <2>2. code \in Versions /\ Trains(a, code, made')
    BY <1>t, <1>1, <2>1 DEF Choose, Trains, TypeInv, RestTyped
  <2>3. PICK j \in Jobs :
          /\ Becomes(a, j) /\ j.pc = "train" /\ j.state = job[a].state /\ j.gen = made'
          /\ j.src = job[a].src /\ j.backups = job[a].backups
    BY <1>t, <1>0, <2>2, ChooseStep
  <2>4. /\ \A k \in Kinds : Fit(k, prod'[k]) /\ Fit(k, cand'[k])
        /\ \A k \in DOMAIN store'.watch.backups : Fit(k, store'.watch.backups[k])
    BY <1>0, <2>1 DEF Fits
  <2> QED BY <1>0, <2>1, <2>3, <2>4, Carried
<1>2. CASE Train(a)
  <2> PICK k \in job[a].left : cand' = [cand EXCEPT ![k] = job[a].gen]
                               /\ job' = [job EXCEPT ![a].left = @ \ {k}]
    BY <1>2 DEF Train
  <2> DEFINE K == job[a].left \ {k}
  <2>1. K \in SUBSET Kinds /\ Leaves(a, K) /\ job[a].pc = "train" /\ k \in Kinds
    BY <1>t, <1>0, <1>2 DEF TypeInv, Leaves, Train, Jobs
  <2>2. PICK j \in Jobs :
           /\ Becomes(a, j) /\ j.pc = job[a].pc /\ j.state = job[a].state
           /\ j.gen = job[a].gen /\ j.src = job[a].src /\ j.backups = job[a].backups
    BY <1>t, <2>1, LeftStep
  <2>3. UNCHANGED <<prod, chal, fresh, made, store>>
    BY <1>2 DEF Train
  <2>4. \A b \in Actors : job[b].pc # "challenge"
    BY <2>1, OthersIdle
  <2>5. Fit(k, job[a].gen)
    BY <1>0, <2>1, <2>4 DEF Fit, JobFits
  <2>6. \A x \in Kinds : Fit(x, prod'[x]) /\ Fit(x, cand'[x])
    BY <1>0, <2>1, <2>3, <2>5 DEF Fits
  <2>7. \A x \in DOMAIN store'.watch.backups : Fit(x, store'.watch.backups[x])
    BY <1>0, <2>3 DEF Fits
  <2> QED BY <1>0, <2>1, <2>2, <2>3, <2>6, <2>7, Carried
<1>3. CASE NoSwap(a)
  <2> DEFINE st == [job[a].state EXCEPT !.last = job[a].version]
  <2>1. Moves(a, "record", st)
    BY <1>t, <1>0, <1>3 DEF NoSwap, Compared, TypeInv, Moves
  <2>2. st \in States /\ st.watch = job[a].state.watch
    BY <1>0 DEF States, Jobs
  <2> HIDE DEF st
  <2>3. PICK j \in Jobs :
          /\ Becomes(a, j) /\ j.pc = "record" /\ j.state = st /\ j.gen = job[a].gen
          /\ j.src = job[a].src /\ j.backups = job[a].backups
    BY <1>t, <2>1, <2>2, StateStep DEF Pcs
  <2> QED BY <1>0, <1>3, <2>2, <2>3, MovedQuietly DEF NoSwap
<1>4. CASE Swap(a)
  <2>1. StartCopy(a, cand, "swap") /\ cand \in Copies
    BY <1>0, <1>4, CopyIntro DEF Swap
  <2>2. PICK j \in Jobs :
          /\ Becomes(a, j) /\ j.pc = "backup" /\ j.state = job[a].state
          /\ j.gen = job[a].gen /\ j.src = cand /\ j.backups = << >>
    BY <1>t, <2>1, StartStep
  <2> QED BY <1>0, <1>4, <2>2, MovedQuietly DEF Swap
<1>5. CASE Swapped(a)
  <2> DEFINE w == [version |-> job[a].version, pair |-> cand,
                   backups |-> job[a].backups, told |-> FALSE]
             st == [job[a].state EXCEPT !.last = job[a].version, !.watch = w]
  <2>1. Moves(a, "record", st)
    BY <1>t, <1>0, <1>5 DEF Swapped, Copied, TypeInv, Moves
  <2>2. w \in Watches /\ w.backups = job[a].backups
    BY <1>0, CopyIntro DEF Watches, Jobs
  <2> HIDE DEF w
  <2>3. st \in States /\ st.watch = w
    BY <1>0, <2>2 DEF States, Jobs
  <2> HIDE DEF st
  <2>4. PICK j \in Jobs :
          /\ Becomes(a, j) /\ j.pc = "record" /\ j.state = st /\ j.gen = job[a].gen
          /\ j.src = job[a].src /\ j.backups = job[a].backups
    BY <1>t, <2>1, <2>3, StateStep DEF Pcs
  <2> QED BY <1>0, <1>5, <2>2, <2>3, <2>4, MovedQuietly DEF Swapped
<1>6. CASE RecordFails(a)
  <2>1. CASE job[a].state.watch = NoWatch
    BY <1>6, <2>1, Gone DEF RecordFails
  <2>2. CASE job[a].state.watch # NoWatch
    <3> DEFINE f == job[a].state.watch.backups
    <3>1. f \in Copies /\ Fits(f)
      BY <1>0 DEF Watches
    <3>2. StartCopy(a, f, "undo")
      BY <1>6, <2>2 DEF RecordFails
    <3> HIDE DEF f
    <3>3. PICK j \in Jobs :
            /\ Becomes(a, j) /\ j.pc = "backup" /\ j.state = job[a].state
            /\ j.gen = job[a].gen /\ j.src = f /\ j.backups = << >>
      BY <1>t, <3>1, <3>2, StartStep
    <3> QED BY <1>0, <1>6, <2>2, <3>1, <3>3, MovedQuietly DEF RecordFails
  <2> QED BY <2>1, <2>2
<1> QED BY <1>1, <1>2, <1>3, <1>4, <1>5, <1>6

-----------------------------------------------------------------------------
(* The weekly job: what it promotes is older than this week, and what it    *)
(* trains gets a number that no file has.                                  *)

\* The number of the next training is nowhere yet
LEMMA RetrainFresh ==
  ASSUME BaseInv, BaseInv', FreshInv, NEW a \in Actors, Retrain(a)
  PROVE  FreshInv'
<1>0. /\ TypeInv /\ JobFits(job[a]) /\ job[a].gen <= made /\ made \in Nat
      /\ Fits(prod) /\ Fits(cand) /\ Fits(store.watch.backups)
  BY FreshAt DEF JobFits
<1>1. /\ made' = made + 1 /\ made' \in Contents
      /\ UNCHANGED <<prod, cand, chal, fresh, store>> /\ Retrains(a, made')
  BY ContentsRange DEF Retrain, Retrains, BaseInv, TypeInv, FilesTyped
<1>2. PICK j \in Jobs :
        /\ Becomes(a, j) /\ j.pc = "challenge" /\ j.state = job[a].state /\ j.gen = made'
        /\ j.src = job[a].src /\ j.backups = job[a].backups
  BY <1>0, <1>1, RetrainStep
<1>3. \A b \in Actors \ {a} : job'[b].pc = "idle"
  BY <1>2, OthersIdle DEF Retrain, Becomes
<1>4. \A k \in Kinds : \A x \in Nat : Fit(k, x) => Fit(k, x)'
  BY <1>0, <1>1, <1>2, <1>3 DEF Fit, Becomes
<1>5. \A k \in Kinds : chal'[k] <= made'
  BY <1>0, <1>1, FreshAt
<1>6. /\ \A k \in Kinds : Fit(k, prod'[k]) /\ Fit(k, cand'[k])
      /\ \A k \in DOMAIN store'.watch.backups : Fit(k, store'.watch.backups[k])
  BY <1>0, <1>1, FreshAt DEF Fits
<1>7. \A b \in Actors : job'[b].pc # "train"
  BY <1>2, <1>3 DEF Becomes
<1>8. Fits(j.src) /\ Fits(j.backups) /\ Fits(j.state.watch.backups)
  BY <1>0, <1>2 DEF JobFits
<1>9. j.gen <= made'
  BY <1>0, <1>1, <1>2
<1> QED BY <1>1, <1>2, <1>4, <1>5, <1>6, <1>7, <1>8, <1>9, StillFits

\* The number of this training goes from no file to the challenger's alone
LEMMA ChallengerFresh ==
  ASSUME BaseInv, BaseInv', FreshInv, NEW a \in Actors, TrainChallenger(a)
  PROVE  FreshInv'
<1> PICK k \in job[a].left : /\ chal' = [chal EXCEPT ![k] = job[a].gen]
                             /\ fresh' = fresh \cup {k}
                             /\ job' = [job EXCEPT ![a].left = @ \ {k}]
  BY DEF TrainChallenger
<1> DEFINE K == job[a].left \ {k}
<1>0. /\ TypeInv /\ JobFits(job[a]) /\ job[a].gen <= made /\ made \in Nat
      /\ Fits(prod) /\ Fits(cand) /\ Fits(store.watch.backups)
      /\ chal \in [Kinds -> Contents] /\ job[a].gen \in Nat
  BY FreshAt DEF JobFits
<1>1. /\ K \in SUBSET Kinds /\ Leaves(a, K) /\ job[a].pc = "challenge" /\ k \in Kinds
      /\ UNCHANGED <<prod, cand, made, store>>
  BY <1>0 DEF TypeInv, TrainChallenger, Jobs, Leaves
<1>2. PICK j \in Jobs :
        /\ Becomes(a, j) /\ j.pc = "challenge" /\ j.state = job[a].state /\ j.gen = job[a].gen
        /\ j.src = job[a].src /\ j.backups = job[a].backups
  BY <1>0, <1>1, LeftStep
<1>3. \A b \in Actors \ {a} : job'[b].pc = "idle"
  BY <1>1, <1>2, OthersIdle DEF Becomes
<1>4. \A x \in Kinds : \A y \in Nat : Fit(x, y) => Fit(x, y)'
  <2> SUFFICES ASSUME NEW x \in Kinds, NEW y \in Nat, Fit(x, y) PROVE Fit(x, y)'
    OBVIOUS
  <2>1. y # job[a].gen
    BY <1>1 DEF Fit
  <2>2. x \in fresh' => y # chal'[x]
    BY <1>0, <1>1, <2>1 DEF Fit
  <2>3. \A b \in Actors : job'[b].pc = "challenge" => y # job'[b].gen
    BY <1>2, <1>3, <2>1 DEF Becomes
  <2> QED BY <1>1, <2>2, <2>3 DEF Fit
<1>5. \A x \in Kinds : chal'[x] <= made'
  BY <1>0, <1>1, FreshAt
<1>6. /\ \A x \in Kinds : Fit(x, prod'[x]) /\ Fit(x, cand'[x])
      /\ \A x \in DOMAIN store'.watch.backups : Fit(x, store'.watch.backups[x])
  BY <1>0, <1>1, FreshAt DEF Fits
<1>7. \A b \in Actors : job'[b].pc # "train"
  BY <1>2, <1>3 DEF Becomes
<1>8. Fits(j.src) /\ Fits(j.backups) /\ Fits(j.state.watch.backups)
  BY <1>0, <1>2 DEF JobFits
<1> QED BY <1>0, <1>1, <1>2, <1>4, <1>5, <1>6, <1>7, <1>8, StillFits

LEMMA WeeklyFresh ==
  ASSUME BaseInv, BaseInv', FreshInv, NEW a \in Actors, Weekly(a)
  PROVE  FreshInv'
<1>t. TypeInv
  BY DEF BaseInv
<1>0. /\ job[a] \in Jobs /\ JobFits(job[a]) /\ store \in States
      /\ chal \in [Kinds -> Contents] /\ made \in Nat
      /\ \A k \in Kinds : chal[k] <= made
      /\ Fits(job[a].src) /\ Fits(job[a].backups) /\ Fits(job[a].state.watch.backups)
      /\ Fits(<< >>) /\ Fits(NoWatch.backups)
  BY AtWork, FreshAt, IdleFits DEF JobFits
<1>1. CASE NoPromotion(a) \/ Promoted(a)
  <2>1. \E pc \in {"retrain", "clear"} : Goto(a, pc)
    BY <1>1 DEF NoPromotion, Promoted
  <2>2. PICK j \in Jobs :
          /\ Becomes(a, j) /\ j.pc \in {"retrain", "clear"} /\ j.state = job[a].state
          /\ j.gen = job[a].gen /\ j.src = job[a].src /\ j.backups = job[a].backups
    BY <1>t, <2>1, GotoStep DEF Pcs
  <2> QED BY <1>0, <1>1, <2>2, MovedQuietly DEF NoPromotion, Promoted
<1>2. CASE Promote(a)
  <2> DEFINE K == Present(chal)
             f == [k \in K |-> chal[k]]
  <2>1. K \in SUBSET Kinds /\ f \in [K -> Contents] /\ \A k \in K : f[k] = chal[k]
    BY <1>0 DEF Present
  <2>2. f \in Copies
    BY <2>1, CopyIntro
  <2>3. fresh = {} /\ job[a].pc = "shadow" /\ StartCopy(a, f, "promote")
    BY <1>2 DEF Promote
  <2>4. \A b \in Actors : job[b].pc # "challenge"
    BY <2>3, OthersIdle
  <2>5. Fits(f)
    BY <1>0, <2>1, <2>3, <2>4 DEF Fits, Fit
  <2> HIDE DEF f, K
  <2>6. PICK j \in Jobs :
          /\ Becomes(a, j) /\ j.pc = "backup" /\ j.state = job[a].state
          /\ j.gen = job[a].gen /\ j.src = f /\ j.backups = << >>
    BY <1>t, <2>2, <2>3, StartStep
  <2> QED BY <1>0, <1>2, <2>5, <2>6, MovedQuietly DEF Promote
<1>3. CASE Clear(a)
  <2>1. Goto(a, "retrain") /\ UNCHANGED files /\ store' = [store EXCEPT !.watch = NoWatch]
    BY <1>3 DEF Clear
  <2>2. PICK j \in Jobs :
          /\ Becomes(a, j) /\ j.pc = "retrain" /\ j.state = job[a].state
          /\ j.gen = job[a].gen /\ j.src = job[a].src /\ j.backups = job[a].backups
    BY <1>t, <2>1, GotoStep DEF Pcs
  <2>3. store'.watch = NoWatch
    BY <1>0, <2>1, Unwatched
  <2>4. \A k \in DOMAIN store'.watch.backups : Fit(k, store'.watch.backups[k])
    BY <1>0, <2>3 DEF Fits
  <2> QED BY <1>0, <2>1, <2>2, <2>4, Moved
<1>4. CASE ClearFails(a)
  <2>1. PICK j \in Jobs :
          /\ Becomes(a, j) /\ j.pc = "retrain" /\ j.state = job[a].state
          /\ j.gen = job[a].gen /\ j.src = job[a].src /\ j.backups = job[a].backups
    BY <1>t, <1>4, GotoStep DEF ClearFails, Pcs
  <2> QED BY <1>0, <1>4, <2>1, MovedQuietly DEF ClearFails
<1>5. CASE RetrainEnds(a)
  BY <1>5, Gone DEF RetrainEnds
<1> QED BY <1>1, <1>2, <1>3, <1>4, <1>5, RetrainFresh, ChallengerFresh DEF Weekly

-----------------------------------------------------------------------------
(* The world: a new week makes every challenger old. *)

LEMMA WorldFresh ==
  ASSUME BaseInv, FreshInv, UNCHANGED <<prod, cand, chal, made, store, job>>,
         fresh' = fresh \/ fresh' = {}
  PROVE  FreshInv'
<1>1. ASSUME NEW k, NEW x, Fit(k, x) PROVE Fit(k, x)'
  BY <1>1 DEF Fit
<1>2. ASSUME NEW f, Fits(f) PROVE Fits(f)'
  BY <1>1, <1>2 DEF Fits
<1>3. Fits(prod)' /\ Fits(cand)' /\ Fits(store.watch.backups)'
      /\ \A k \in Kinds : Fit(k, Missing)' /\ chal'[k] <= made'
  BY <1>1 DEF FreshInv, Fits
<1>4. ASSUME NEW a \in Actors PROVE JobFits(job[a])'
  BY <1>2 DEF FreshInv, JobFits
<1> QED BY <1>3, <1>4 DEF FreshInv

LEMMA DeathFresh ==
  ASSUME BaseInv, BaseInv', FreshInv, Deploy \/ \E a \in Actors : Die(a)
  PROVE  FreshInv'
<1>1. CASE Deploy
  <2>1. \A a \in Actors : job'[a] = Idle
    BY <1>1 DEF Deploy
  <2>2. UNCHANGED <<prod, cand, chal, fresh, made, store>>
    BY <1>1 DEF Deploy, files
  <2>3. ASSUME NEW k, NEW x, Fit(k, x) PROVE Fit(k, x)'
    BY <2>1, <2>2, <2>3, IdleFacts DEF Fit
  <2>4. Fits(prod)' /\ Fits(cand)' /\ Fits(store.watch.backups)'
        /\ \A k \in Kinds : Fit(k, Missing)' /\ chal'[k] <= made'
    BY <2>2, <2>3 DEF FreshInv, Fits
  <2>5. JobFits(Idle)'
    BY <2>2, IdleFits DEF JobFits, Fits, Idle, IdleState, NoWatch
  <2> QED BY <2>1, <2>4, <2>5 DEF FreshInv
<1>2. ASSUME NEW a \in Actors, Die(a) PROVE FreshInv'
  <2>1. lock = a
    BY <1>2, OthersIdle DEF Die
  <2>2. Leave(a) /\ UNCHANGED <<files, store>>
    BY <1>2, <2>1 DEF Die, Leave
  <2> QED BY <2>2, Gone
<1> QED BY <1>1, <1>2

LEMMA FreshInit == Init => FreshInv
<1> SUFFICES ASSUME Init PROVE FreshInv
  OBVIOUS
<1>1. BaseInv /\ \A a \in Actors : job[a] = Idle
  BY BaseInit DEF Init
<1>2. /\ made = 1 /\ fresh = {} /\ store.watch.backups = << >>
      /\ \A k \in Kinds : prod[k] \in {0, 1} /\ cand[k] = 0 /\ chal[k] = 0
      /\ DOMAIN prod = Kinds /\ DOMAIN cand = Kinds
  BY DEF Init, Seed, Missing, IdleState, NoWatch
<1>3. \A k : Fit(k, 0) /\ Fit(k, 1)
  BY <1>1, <1>2, IdleFacts DEF Fit
<1>4. JobFits(Idle)
  BY <1>2 DEF JobFits, Fits, Idle, IdleState, NoWatch
<1> QED BY <1>1, <1>2, <1>3, <1>4 DEF FreshInv, Fits, Missing

LEMMA FreshStep == BaseInv /\ BaseInv' /\ FreshInv /\ [Next]_vars => FreshInv'
<1> SUFFICES ASSUME BaseInv, BaseInv', FreshInv, [Next]_vars PROVE FreshInv'
  OBVIOUS
<1>1. CASE UNCHANGED vars \/ Rebuild \/ ReadModel \/ SaveRows \/ NextWeek
  BY <1>1, WorldFresh DEF vars, files, Rebuild, ReadModel, SaveRows, NextWeek
<1>2. ASSUME NEW a \in Actors, Begin(a) \/ Copy(a) PROVE FreshInv'
  BY <1>2, BeginFresh, CopyFresh
<1>3. ASSUME NEW a \in Nights, Night(a) PROVE FreshInv'
  BY <1>3, NightLeavesFresh, JudgeFresh, EvaluateFresh DEF Actors, Night
<1>4. ASSUME NEW a \in Weeks, Weekly(a) PROVE FreshInv'
  BY <1>4, WeeklyFresh DEF Actors
<1> QED BY <1>1, <1>2, <1>3, <1>4, DeathFresh DEF Next

(* No challenger is in production in the week it was trained, with every   *)
(* fault and death, in copies that are put back half way, and in rollbacks *)
(* of swaps that a promotion came between.                                 *)
THEOREM ChallengersAreShadowed == Spec => []ShadowedBeforePromoted
<1>1. BaseInv /\ FreshInv => ShadowedBeforePromoted
  BY DEF BaseInv, TypeInv, FilesTyped, FreshInv, Fits, Fit, ShadowedBeforePromoted
<1> QED BY <1>1, BaseInit, BaseStep, FreshInit, FreshStep, PTL DEF Spec
=============================================================================
