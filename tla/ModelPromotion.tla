--------------------------- MODULE ModelPromotion ---------------------------
(***************************************************************************)
(* The production pair of unified models and the jobs that replace it      *)
(* (src/prediction/backtest_promotion/state.py,                            *)
(* src/orchestration/jobs/backtest_promotion_job.py and                    *)
(* src/orchestration/jobs/weekly_training.py).                             *)
(*                                                                         *)
(* Every night a run of the promotion job judges the swap it has on watch, *)
(* and when the prediction code has changed it trains a candidate pair,    *)
(* compares it with production and, if it won, swaps it in provisionally   *)
(* and watches it.  Every week the training job may promote the challenger *)
(* pair, and trains the next one.  Both hold one lock file.  The daily     *)
(* prediction reads the files without it.                                  *)
(*                                                                         *)
(* A trained file is represented by the number of the training that wrote  *)
(* it.  What a model predicts, and how candidates and production compare,  *)
(* is a choice of the environment.                                         *)
(***************************************************************************)
EXTENDS Naturals, Sequences, SequencesExt

CONSTANTS
  Kinds,      \* the two models of the pair (SWAP_PRODUCTION_NAMES)
  Nights,     \* callers of run_backtest_promotion: the nightly job, the CLI
  Weeks,      \* callers of run_weekly_training
  Modes,      \* the options a night is called with, records [force, dry]
  Versions,   \* the versions of the prediction code that get deployed
  WatchDays,  \* WATCH_TRADING_DAYS
  Faults,     \* the operations that may fail
  Fragile,    \* whether a process may die while the files are being replaced
  MaxMade,    \* bound: trainings
  MaxWeeks,   \* bound: weeks
  MaxRows     \* bound: prediction runs remembered after a swap

Actors == Nights \cup Weeks
Free == "free"          \* the lock is held by nobody

ASSUME PromotionAssumption ==
  /\ Nights \cap Weeks = {} /\ Free \notin Actors
  /\ Modes \subseteq [force : BOOLEAN, dry : BOOLEAN]
  /\ WatchDays \in Nat \ {0}
  /\ Fragile \in BOOLEAN
  /\ MaxMade \in Nat \ {0} /\ MaxWeeks \in Nat /\ MaxRows \in Nat

VARIABLES
  prod,     \* [Kinds -> training]: the files under the production names
  cand,     \* [Kinds -> training]: the candidate files
  chal,     \* [Kinds -> training]: the challenger files
  fresh,    \* the challenger files written this (ISO) week
  store,    \* state.json
  mark,     \* features_version.json: the version that last built the features
  code,     \* the version that is deployed
  made,     \* the number of trainings so far
  week,     \* the number of weeks gone by
  lock,     \* who holds .unified_models.lock
  job,      \* job[a]: where process a is, and its local variables
  reader,   \* the models the running daily prediction has loaded
  rows,     \* how the days predicted since the last swap were scored
  trusted,  \* history: the pair in production that no watch stands over, or
            \* the one that was there before the swap on watch
  stray     \* history: what an undo or a putting back that failed left there

files == <<prod, cand, chal, fresh, made>>
vars == <<files, store, mark, code, week, lock, job, reader, rows,
          trusted, stray>>

None == "none"          \* None in the code
Missing == 0            \* a file that does not exist
Seed == 1               \* the models in production before the first run

Copying == {"backup", "replace", "restore"}

NoWatch == [version |-> None, pair |-> << >>, backups |-> << >>, told |-> FALSE]
IdleState == [last |-> None, back |-> {}, watch |-> NoWatch]

Idle == [pc |-> "idle", mode |-> [force |-> FALSE, dry |-> FALSE],
         state |-> IdleState, version |-> None, gen |-> 0,
         src |-> << >>, backups |-> << >>, left |-> {}, then |-> None, torn |-> FALSE]

Present(f) == {k \in DOMAIN f : f[k] # Missing}

-----------------------------------------------------------------------------
(* The daily prediction's rows, and the days the watch counts. *)

Covered(day) == day # "thin"

\* _split_watch_days: the days with enough jp symbols, and the others
CountedDays == SelectSeq(rows, Covered)
SkippedDays == Len(rows) - Len(CountedDays)

\* the first days after the swap are the ones that are measured
Measured == SubSeq(CountedDays, 1, Min({WatchDays, Len(CountedDays)}))

\* judge_rollback on what was measured: it looks at nothing else that changes
RollbackDue == \E i \in DOMAIN Measured : Measured[i] = "poor"

-----------------------------------------------------------------------------
Init ==
  /\ prod \in {p \in [Kinds -> {Seed, Missing}] : Present(p) # {}}
  /\ cand = [k \in Kinds |-> Missing]
  /\ chal = [k \in Kinds |-> Missing]
  /\ fresh = {}
  /\ store = IdleState
  /\ mark = None
  /\ code \in Versions
  /\ made = Seed
  /\ week = 0
  /\ lock = Free
  /\ job = [a \in Actors |-> Idle]
  /\ reader = {}
  /\ rows = << >>
  /\ trusted = prod
  /\ stray = << >>

\* Process a goes on at pc.
Goto(a, pc) == job' = [job EXCEPT ![a].pc = pc]

\* Operation op fails.  Any of them may at every try, as on a full disk.
MayFail(op) == op \in Faults

\* The end of the locked part: the finally clause gives the lock back.
Leave(a) ==
  /\ job' = [job EXCEPT ![a] = Idle]
  /\ lock' = Free

-----------------------------------------------------------------------------
(* The lock.  A process that waits for it has read nothing yet, so waiting  *)
(* for it, and giving up after three hours, are steps that change nothing.  *)

Begin(a) ==
  /\ job[a].pc = "idle" /\ lock = Free
  /\ lock' = a
  /\ IF a \in Nights
       THEN \E m \in Modes : job' = [job EXCEPT ![a].pc = "load", ![a].mode = m]
       ELSE Goto(a, "shadow")
  /\ UNCHANGED <<files, store, mark, code, week, reader, rows, trusted, stray>>

-----------------------------------------------------------------------------
(* copy_with_backup: first every existing target is backed up, then every  *)
(* source replaces its target, and when one of these fails every target is *)
(* put back from its backup.  A backup file gets a name that is not taken  *)
(* and is never written or removed again, so the names the code keeps      *)
(* (backups) are represented by what the files hold.                       *)

StartCopy(a, src, next) ==
  job' = [job EXCEPT ![a].pc = "backup", ![a].src = src, ![a].then = next,
                        ![a].backups = << >>, ![a].left = DOMAIN src,
                        ![a].torn = FALSE]

\* What comes after a copy that raised: the caller's exception handler.  After
\* an undo that failed, or with a target that could not be put back, production
\* stays as it is, and the job says so.
CopyFailed(a) ==
  /\ IF job[a].then = "promote" THEN Goto(a, "retrain") /\ UNCHANGED lock
                                ELSE Leave(a)
  /\ stray' = IF job[a].then = "undo" \/ job[a].torn THEN prod ELSE stray

\* Every target of the copy has been replaced
Copied(a, next) ==
  /\ job[a].pc = "replace" /\ job[a].left = {} /\ job[a].then = next

BackUp(a) ==
  /\ job[a].pc = "backup"
  /\ job' = [job EXCEPT ![a].pc = "replace",
                ![a].backups = Restrict(prod, Present(prod) \cap DOMAIN job[a].src)]
  /\ UNCHANGED <<files, store, mark, code, week, lock,
                 reader, rows, trusted, stray>>

\* A backup that fails, or a death among the backups, leaves every target as
\* it was, so the backups are one step.
BackUpFails(a) ==
  /\ job[a].pc = "backup" /\ MayFail("backup")
  /\ CopyFailed(a)
  /\ UNCHANGED <<files, store, mark, code, week, reader, rows, trusted>>

Replace(a) ==
  /\ job[a].pc = "replace"
  /\ \E k \in job[a].left :
       /\ prod' = [prod EXCEPT ![k] = job[a].src[k]]
       /\ job' = [job EXCEPT ![a].left = @ \ {k}]
  /\ UNCHANGED <<cand, chal, fresh, made, store, mark, code, week, lock,
                 reader, rows, trusted, stray>>

ReplaceFails(a) ==
  /\ job[a].pc = "replace" /\ job[a].left # {} /\ MayFail("replace")
  /\ job' = [job EXCEPT ![a].pc = "restore", ![a].left = DOMAIN job[a].src]
  /\ UNCHANGED <<files, store, mark, code, week, lock, reader, rows, trusted, stray>>

\* The target goes back to its backup; one that did not exist is removed
PutBack(a, k) ==
  prod' = [prod EXCEPT ![k] = IF k \in DOMAIN job[a].backups
                              THEN job[a].backups[k] ELSE Missing]

Restore(a) ==
  /\ job[a].pc = "restore"
  /\ \E k \in job[a].left :
       /\ PutBack(a, k)
       /\ job' = [job EXCEPT ![a].left = @ \ {k}]
  /\ UNCHANGED <<cand, chal, fresh, made, store, mark, code, week, lock,
                 reader, rows, trusted, stray>>

\* A target that cannot be put back stays as it is; the others go on
RestoreFails(a) ==
  /\ job[a].pc = "restore" /\ MayFail("restore")
  /\ \E k \in job[a].left :
       job' = [job EXCEPT ![a].left = @ \ {k}, ![a].torn = TRUE]
  /\ UNCHANGED <<files, store, mark, code, week, lock, reader, rows, trusted, stray>>

Restored(a) ==
  /\ job[a].pc = "restore" /\ job[a].left = {}
  /\ CopyFailed(a)
  /\ UNCHANGED <<files, store, mark, code, week, reader, rows, trusted>>

-----------------------------------------------------------------------------
(* run_backtest_promotion, under the lock: _run_locked *)

Load(a) ==
  /\ job[a].pc = "load"
  /\ IF store.watch # NoWatch /\ job[a].mode.dry
       THEN Leave(a)
       ELSE /\ job' = [job EXCEPT ![a].state = store,
                         ![a].pc = IF store.watch # NoWatch THEN "watch" ELSE "choose"]
            /\ UNCHANGED lock
  /\ UNCHANGED <<files, store, mark, code, week, reader, rows, trusted, stray>>

LoadFails(a) ==
  /\ job[a].pc = "load" /\ MayFail("load")
  /\ Leave(a)
  /\ UNCHANGED <<files, store, mark, code, week, reader, rows, trusted, stray>>

\* _check_watch comes to no judgement: too few days, or no watchlist to count by
NoJudgement(a) ==
  /\ job[a].pc = "watch"
  /\ Len(CountedDays) < WatchDays \/ MayFail("watchlist")
  /\ Leave(a)
  /\ UNCHANGED <<files, store, mark, code, week, reader, rows, trusted, stray>>

\* _notify_skipped_days: the notice was sent and its mark could be saved
TellSkipped(a) ==
  /\ job[a].pc = "watch"
  /\ Len(CountedDays) < WatchDays
  /\ ~job[a].state.watch.told /\ SkippedDays >= WatchDays
  /\ store' = [job[a].state EXCEPT !.watch.told = TRUE]
  /\ Leave(a)
  /\ UNCHANGED <<files, mark, code, week, reader, rows, trusted, stray>>

Keep(a) ==
  /\ job[a].pc = "watch"
  /\ Len(CountedDays) >= WatchDays /\ ~RollbackDue
  /\ job' = [job EXCEPT ![a].pc = "close", ![a].state.watch = NoWatch]
  /\ UNCHANGED <<files, store, mark, code, week, lock, reader, rows, trusted, stray>>

\* restore_backups
RollBack(a) ==
  /\ job[a].pc = "watch"
  /\ Len(CountedDays) >= WatchDays /\ RollbackDue
  /\ StartCopy(a, job[a].state.watch.backups, "rollback")
  /\ UNCHANGED <<files, store, mark, code, week, lock,
                 reader, rows, trusted, stray>>

\* A deviation: the watch stays after a rollback
RolledBackWatched(a) ==
  /\ Copied(a, "rollback")
  /\ job' = [job EXCEPT ![a].pc = "close", ![a].state.back = @ \cup {job[a].state.watch.version}]
  /\ UNCHANGED <<files, store, mark, code, week, lock, reader, rows, trusted, stray>>

RolledBack(a) ==
  /\ Copied(a, "rollback")
  /\ job' = [job EXCEPT ![a].pc = "close", ![a].state.watch = NoWatch,
                ![a].state.back = @ \cup {job[a].state.watch.version}]
  /\ UNCHANGED <<files, store, mark, code, week, lock, reader, rows, trusted, stray>>

\* save_state at the end of _check_watch; the night then goes on to evaluate
Close(a) ==
  /\ job[a].pc = "close"
  /\ store' = job[a].state
  /\ rows' = << >>
  /\ trusted' = IF job[a].then = "rollback" THEN trusted ELSE prod
  /\ stray' = << >>
  /\ Goto(a, "choose")
  /\ UNCHANGED <<files, mark, code, week, lock, reader>>

CloseFails(a) ==
  /\ job[a].pc = "close" /\ MayFail("save")
  /\ Leave(a)
  /\ UNCHANGED <<files, store, mark, code, week, reader, rows, trusted, stray>>

\* The version has been compared, has been rolled back, or the features are
\* not its own yet.  With MaxMade trainings made the model trains no more.
NothingNew(a) ==
  \/ /\ ~job[a].mode.force
     /\ \/ code = job[a].state.last
        \/ code \in job[a].state.back
        \/ mark # code
  \/ made >= MaxMade

Skip(a) ==
  /\ job[a].pc = "choose" /\ NothingNew(a)
  /\ Leave(a)
  /\ UNCHANGED <<files, store, mark, code, week, reader, rows, trusted, stray>>

Choose(a) ==
  /\ job[a].pc = "choose" /\ ~NothingNew(a)
  /\ job' = [job EXCEPT ![a].pc = "train", ![a].version = code,
                        ![a].gen = made + 1, ![a].left = Kinds]
  /\ made' = made + 1
  /\ UNCHANGED <<prod, cand, chal, fresh, store, mark, code, week, lock,
                 reader, rows, trusted, stray>>

\* train_unified_model writes the candidate file in place
Train(a) ==
  /\ job[a].pc = "train"
  /\ \E k \in job[a].left :
       /\ cand' = [cand EXCEPT ![k] = job[a].gen]
       /\ job' = [job EXCEPT ![a].left = @ \ {k}]
  /\ UNCHANGED <<prod, chal, fresh, made, store, mark, code, week, lock,
                 reader, rows, trusted, stray>>

\* A training or the comparison fails or decides nothing: the version is not
\* recorded, and the next night tries again.  A dry run always ends here.
NotCompared(a) ==
  /\ job[a].pc = "train"
  /\ \/ MayFail("train")
     \/ job[a].left = {} /\ (job[a].mode.dry \/ Present(prod) # Kinds)
  /\ Leave(a)
  /\ UNCHANGED <<files, store, mark, code, week, reader, rows, trusted, stray>>

\* A deviation: a production file that does not exist is compared as well
ComparedAnyway(a) ==
  /\ job[a].pc = "train" /\ job[a].left = {}
  /\ ~job[a].mode.dry

Compared(a) ==
  /\ job[a].pc = "train" /\ job[a].left = {}
  /\ ~job[a].mode.dry /\ Present(prod) = Kinds

\* LOST, NOT_COMPARABLE, or WON by a version that was rolled back before
NoSwap(a) ==
  /\ Compared(a)
  /\ job' = [job EXCEPT ![a].pc = "record", ![a].state.last = job[a].version]
  /\ UNCHANGED <<files, store, mark, code, week, lock, reader, rows, trusted, stray>>

\* A deviation: a version that was rolled back is swapped in again
SwapAgain(a) ==
  /\ Compared(a)
  /\ StartCopy(a, cand, "swap")
  /\ trusted' = prod /\ stray' = << >>
  /\ UNCHANGED <<files, store, mark, code, week, lock, reader, rows>>

\* swap_in_candidate
Swap(a) ==
  /\ Compared(a)
  /\ job[a].version \notin job[a].state.back
  /\ StartCopy(a, cand, "swap")
  /\ trusted' = prod /\ stray' = << >>
  /\ UNCHANGED <<files, store, mark, code, week, lock, reader, rows>>

\* _swap: the watch is set in memory; the days before it do not count
Swapped(a) ==
  /\ Copied(a, "swap")
  /\ job' = [job EXCEPT ![a].pc = "record", ![a].state.last = job[a].version,
                ![a].state.watch = [version |-> job[a].version, pair |-> cand,
                                    backups |-> job[a].backups, told |-> FALSE]]
  /\ rows' = << >>
  /\ UNCHANGED <<files, store, mark, code, week, lock, reader, trusted, stray>>

Record(a) ==
  /\ job[a].pc = "record"
  /\ store' = job[a].state
  /\ Leave(a)
  /\ UNCHANGED <<files, mark, code, week, reader, rows, trusted, stray>>

\* A deviation: the swap stays when the state could not be saved
RecordFailsSwapped(a) ==
  /\ job[a].pc = "record" /\ MayFail("save")
  /\ Leave(a)
  /\ UNCHANGED <<files, store, mark, code, week, reader, rows, trusted, stray>>

\* The state could not be saved: a swap is undone (_undo_swap)
RecordFails(a) ==
  /\ job[a].pc = "record" /\ MayFail("save")
  /\ IF job[a].state.watch = NoWatch
       THEN Leave(a)
       ELSE LET old == job[a].state.watch.backups IN
            /\ StartCopy(a, old, "undo")
            /\ UNCHANGED lock
  /\ UNCHANGED <<files, store, mark, code, week, reader, rows, trusted, stray>>

Undone(a) ==
  /\ Copied(a, "undo")
  /\ Leave(a)
  /\ UNCHANGED <<files, store, mark, code, week, reader, rows, trusted, stray>>

-----------------------------------------------------------------------------
(* run_weekly_training, under the lock: _run_weekly_training_locked *)

\* The challenger did not win, was trained this week, or the gate is shut
NoPromotion(a) ==
  /\ job[a].pc = "shadow"
  /\ Goto(a, "retrain")
  /\ UNCHANGED <<files, store, mark, code, week, lock, reader, rows, trusted, stray>>

\* A deviation: challengers trained this week are promoted too
PromoteFresh(a) ==
  /\ job[a].pc = "shadow"
  /\ Present(chal) # {}
  /\ StartCopy(a, [k \in Present(chal) |-> chal[k]], "promote")
  /\ UNCHANGED <<files, store, mark, code, week, lock, reader, rows, trusted, stray>>

\* promote_unified_challenger: only the challengers that exist
Promote(a) ==
  /\ job[a].pc = "shadow"
  /\ Present(chal) # {} /\ fresh = {}
  /\ StartCopy(a, [k \in Present(chal) |-> chal[k]], "promote")
  /\ UNCHANGED <<files, store, mark, code, week, lock,
                 reader, rows, trusted, stray>>

Promoted(a) ==
  /\ Copied(a, "promote")
  /\ Goto(a, "clear")
  /\ trusted' = prod /\ stray' = << >>
  /\ UNCHANGED <<files, store, mark, code, week, lock, reader, rows>>

\* A deviation: a promotion leaves the watch as it is
ClearNothing(a) ==
  /\ job[a].pc = "clear"
  /\ Goto(a, "retrain")
  /\ UNCHANGED <<files, store, mark, code, week, lock, reader, rows, trusted, stray>>

\* _clear_backtest_watch, which swallows its failure
Clear(a) ==
  /\ job[a].pc = "clear"
  /\ store' = [store EXCEPT !.watch = NoWatch]
  /\ rows' = << >>
  /\ Goto(a, "retrain")
  /\ UNCHANGED <<files, mark, code, week, lock, reader, trusted, stray>>

ClearFails(a) ==
  /\ job[a].pc = "clear" /\ MayFail("clear")
  /\ Goto(a, "retrain")
  /\ UNCHANGED <<files, store, mark, code, week, lock, reader, rows, trusted, stray>>

Retrain(a) ==
  /\ job[a].pc = "retrain" /\ made < MaxMade
  /\ job' = [job EXCEPT ![a].pc = "challenge", ![a].gen = made + 1, ![a].left = Kinds]
  /\ made' = made + 1
  /\ UNCHANGED <<prod, cand, chal, fresh, store, mark, code, week, lock,
                 reader, rows, trusted, stray>>

TrainChallenger(a) ==
  /\ job[a].pc = "challenge"
  /\ \E k \in job[a].left :
       /\ chal' = [chal EXCEPT ![k] = job[a].gen]
       /\ fresh' = fresh \cup {k}
       /\ job' = [job EXCEPT ![a].left = @ \ {k}]
  /\ UNCHANGED <<prod, cand, made, store, mark, code, week, lock,
                 reader, rows, trusted, stray>>

\* All are trained, or a training failed and the job with it.  With MaxMade
\* trainings made every further one fails.
RetrainEnds(a) ==
  /\ \/ job[a].pc = "challenge" /\ (job[a].left = {} \/ MayFail("train"))
     \/ job[a].pc = "retrain" /\ made >= MaxMade
  /\ Leave(a)
  /\ UNCHANGED <<files, store, mark, code, week, reader, rows, trusted, stray>>

-----------------------------------------------------------------------------
(* The daily pipeline, which does not take the lock *)

\* The features are built by the deployed code: record_features_version
Rebuild ==
  /\ mark # code
  /\ mark' = code
  /\ UNCHANGED <<files, store, code, week, lock, job, reader, rows, trusted, stray>>

\* get_cached_model, one file after the other, whatever is in it by now
ReadModel ==
  \E k \in Kinds \ reader :
    /\ reader' = reader \cup {k}
    /\ UNCHANGED <<files, store, mark, code, week, lock, job, rows, trusted, stray>>

\* Only rows since a swap are ever read
SwapStands == store.watch # NoWatch \/ \E n \in Nights : job[n].state.watch # NoWatch

\* output_top_worst_results stamps the rows after the predictions are made: by
\* the stamp they are the rows of the pair on watch, whichever pair was loaded.
\* They are scored later, and may turn out too few (thin), good or poor.
SaveRows ==
  /\ reader = Kinds
  /\ reader' = {}
  /\ IF SwapStands /\ Len(rows) < MaxRows
       THEN \E d \in {"thin", "good", "poor"} :
              rows' = Append(rows, d)
       ELSE UNCHANGED rows
  /\ UNCHANGED <<files, store, mark, code, week, lock, job, trusted, stray>>

-----------------------------------------------------------------------------
(* The world *)

NextWeek ==
  /\ week < MaxWeeks
  /\ week' = week + 1
  /\ fresh' = {}
  /\ UNCHANGED <<prod, cand, chal, made, store, mark, code, lock, job,
                 reader, rows, trusted, stray>>

\* Where a death leaves files replaced that the state file does not know of
InWindow(a) ==
  \/ job[a].pc \in Copying \cup {"clear"}
  \/ job[a].pc = "record" /\ job[a].state.watch # NoWatch

Mortal(a) == Fragile \/ ~InWindow(a)

\* The process dies: the operating system gives the lock back
Die(a) ==
  /\ job[a].pc # "idle" /\ Mortal(a)
  /\ job' = [job EXCEPT ![a] = Idle]
  /\ lock' = IF lock = a THEN Free ELSE lock
  /\ UNCHANGED <<files, store, mark, code, week, reader, rows, trusted, stray>>

\* Another version is deployed: everything is started anew
Deploy ==
  /\ \A a \in Actors : Mortal(a)
  /\ \E v \in Versions \ {code} : code' = v
  /\ job' = [a \in Actors |-> Idle]
  /\ lock' = Free
  /\ reader' = {}
  /\ UNCHANGED <<files, store, mark, week, rows, trusted, stray>>

-----------------------------------------------------------------------------
Night(a) ==
  \/ Load(a) \/ LoadFails(a)
  \/ NoJudgement(a) \/ TellSkipped(a) \/ Keep(a)
  \/ RollBack(a) \/ RolledBack(a) \/ Close(a) \/ CloseFails(a)
  \/ Skip(a) \/ Choose(a) \/ Train(a) \/ NotCompared(a)
  \/ NoSwap(a) \/ Swap(a) \/ Swapped(a)
  \/ Record(a) \/ RecordFails(a) \/ Undone(a)

Weekly(a) ==
  \/ NoPromotion(a) \/ Promote(a) \/ Promoted(a) \/ Clear(a) \/ ClearFails(a)
  \/ Retrain(a) \/ TrainChallenger(a) \/ RetrainEnds(a)

Copy(a) ==
  \/ BackUp(a) \/ BackUpFails(a) \/ Replace(a) \/ ReplaceFails(a)
  \/ Restore(a) \/ RestoreFails(a) \/ Restored(a)

Next ==
  \/ \E a \in Actors : Begin(a) \/ Copy(a) \/ Die(a)
  \/ \E a \in Nights : Night(a)
  \/ \E a \in Weeks : Weekly(a)
  \/ Rebuild \/ ReadModel \/ SaveRows \/ NextWeek \/ Deploy

Spec == Init /\ [][Next]_vars

(***************************************************************************)
(* Nights come round daily, a job that holds the lock goes on, and an      *)
(* operation of the judgement that fails one night works some other night. *)
(***************************************************************************)
Fairness ==
  /\ \A n \in Nights :
       /\ SF_vars(Begin(n)) /\ SF_vars(Load(n)) /\ SF_vars(Keep(n))
       /\ SF_vars(RollBack(n)) /\ SF_vars(BackUp(n))
       /\ SF_vars(Replace(n)) /\ SF_vars(Replace(n) /\ job'[n].left = {})
       /\ SF_vars(RolledBack(n)) /\ SF_vars(Close(n))
       /\ WF_vars(Night(n) \/ Copy(n))
  /\ \A w \in Weeks : WF_vars(Weekly(w) \/ Copy(w))

FairSpec == Spec /\ Fairness

-----------------------------------------------------------------------------
Trainings == Seed .. MaxMade
Contents == Trainings \cup {Missing}

\* The state has the types of the code.
TypeOK ==
  /\ prod \in [Kinds -> Contents]
  /\ cand \in [Kinds -> Contents]
  /\ chal \in [Kinds -> Contents]
  /\ fresh \subseteq Kinds
  /\ store.back \subseteq Versions /\ store.last \in Versions \cup {None}
  /\ store.watch # NoWatch =>
       /\ store.watch.version \in Versions
       /\ store.watch.backups \in [Kinds -> Trainings]
       /\ store.watch.pair \in [Kinds -> Trainings]
  /\ mark \in Versions \cup {None} /\ code \in Versions
  /\ made \in Trainings /\ week \in 0 .. MaxWeeks
  /\ lock \in Actors \cup {Free}
  /\ reader \subseteq Kinds
  /\ Len(rows) <= MaxRows

(***************************************************************************)
(* Whenever nobody holds the lock, the pair in production is either one    *)
(* that no watch stands over (the first, a promoted one, one that passed   *)
(* its watch), whole, or the whole pair that the watch on file stands      *)
(* over: a failed copy is put back, and no candidate is left in production *)
(* without a watch (state.py:4, the comment at backtest_promotion_job.py   *)
(* line 210).  Where the undoing of a swap fails as well (line 219), or a  *)
(* target cannot be put back (state.py:262), it is exactly what that left, *)
(* and stays so until the next swap, promotion or judgement.               *)
(***************************************************************************)
ProductionAccounted ==
  lock = Free =>
    \/ prod = trusted
    \/ store.watch # NoWatch /\ prod = store.watch.pair
    \/ prod = stray

(***************************************************************************)
(* A rollback leaves in production exactly the pair that was there before  *)
(* the swap it takes back: it never brings back an older pair over one     *)
(* that was promoted since (weekly_training.py:112).                       *)
(***************************************************************************)
RollbackReturns ==
  [][\A n \in Nights :
       job[n].then = "rollback" /\ job[n].pc = "replace" /\ job'[n].pc = "close"
         => prod' = trusted]_vars

(***************************************************************************)
(* No watch is ever opened again over a version that was rolled back, with *)
(* force, after deaths between the steps and when versions come and go     *)
(* (backtest_promotion_job.py:67, 200).                                    *)
(***************************************************************************)
RolledBackStaysOut ==
  store.watch # NoWatch => store.watch.version \notin store.back

(***************************************************************************)
(* Production never runs a challenger in the week it was trained, also     *)
(* when the week's job is run again or its training stops half way: such a *)
(* challenger has not been compared (weekly_training.py:21).               *)
(***************************************************************************)
ShadowedBeforePromoted ==
  \A k \in fresh : prod[k] # chal[k]

(***************************************************************************)
(* A swap with enough days scored is judged some night, whatever fails or  *)
(* dies on the way: the watch goes away (backtest_promotion_job.py:359).   *)
(***************************************************************************)
WatchEnds ==
  (store.watch # NoWatch /\ Len(CountedDays) >= WatchDays) ~> store.watch = NoWatch
=============================================================================
