# Formal models of StockFixer

TLA+ modules about the parts of StockFixer whose correctness depends on the
order in which processes, threads, crashes and failures happen. The modules are
translated from the code under `python/`; paths below are relative to
`python/src/` unless they begin with `python/` or `docs/`.

## The system

StockFixer is a daemon (`python/run_scheduler.py`) that fetches market data,
predicts prices, sends paper orders and settles them, trains and promotes
models, and reports to Discord. It runs in one container, restarted by Docker
whenever it stops; deployments and a watchdog stop it at any time. Jobs may also
be run by hand, each in a process of its own. PostgreSQL holds the orders and
positions, and a JSON file the history of the jobs.

| Component | State | Operations | What is hard | What makes it correct |
|---|---|---|---|---|
| Job queue `orchestration/scheduler_queue.py` and `scheduler_{interrupted,recovery_gap,cutoff}.py` | the state file (a list of at most 5000 records); per process a copy, the set of running jobs, a boot id, the "damaged" flag | `run_job`, retries, `should_recover`, `get_missed_past_periods`, reload, append, quarantine | threads and processes on one file; a crash between start and end; failed writes and reads; damaged file; restart | one body per job and process; limit per period through crashes; no record lost; no recovery after damage; a missed job is recovered |
| Daemon and immediate runs `python/run_scheduler.py` | cron triggers, three pollers | firings, polling, `--run-now` | misfires, coalescing, a long recovery | every job has its poller; the queue's properties under these callers |
| Cap notices `orchestration/scheduler_cap_notice.py` | notices sent (memory and file), days scanned | find a period, send, record | crash between send and record; failed send | one notice per period, none lost |
| Paper broker `trading/brokers/paper/` | `paper_orders`, `paper_positions`, `paper_short_positions`, `paper_balance` | send, cancel, settle, split adjustment | statements committed one by one; overlapping settlements; a short sale registered before its fill | each order settles once; positions and cash equal the filled orders; a buy never overdraws |
| Order runs `trading/execution/`, `trading/rule_execution.py` | none of their own | stops, exits by date and by signal, entries, gates | state read before it is used; partly failed runs; a run repeated; another run beside it | no second exit or entry for a symbol; caps; every entry dated |
| Risk manager, sizing | drawdown peak, loss windows | gates | read and write without a lock | peak only grows; gates are closed when they should be |
| Trading jobs `orchestration/jobs/{daily,horizon_exit,settle_retry}.py` | a lock between two of them | 8:50 run, 9:00 exit, 9:05 settlement and retries | jobs that overlap | as the order runs |
| Provisional promotion `prediction/backtest_promotion/`, `orchestration/jobs/backtest_promotion_job.py` | `state.json`, the model files, a lock file | candidate, comparison, swap, watch, rollback | crash or failure between two of several files, or between the files and the state | what is in production is accounted for; a rollback restores what was there |
| Weekly training `orchestration/jobs/weekly_training.py`, `prediction/promotion_gate.py` | the same files, challenger files | promote, train the next challenger | a run repeated within the week; a watch under way | only a compared challenger is promoted |
| Regime leverage `trading/regime_leverage_strategy/` | a table that is only appended to | entry, daily look at the lows, exit | late, missing or blank bars; runs that fail; two runs on one table | no bar passed over; positions follow one another |
| Allocation `trading/allocation_strategy/` | an append-only log | yearly rebalance | | |
| Discord `reporting/discord/` | rate-limiter window | send, wait, retry | bursts, 429 answers | bound per window |
| Utilities `utils/` | alert streaks, retries | | | |
| Market data, prediction, backtesting, screening, scoring, reporting, HTTP, kabu, Claude agent | | numerical, formatting or network code | | tested as functions |

How they interact: the daemon's threads call `run_job`, which calls the body of
a job; the trading bodies call the order runs, which call the paper broker; every
notice goes through Discord delivery. The queue knows of a body only whether it
returned, raised, or raised one of two special exceptions
(`NonRetryableJobError`, `LockWaitExpiredJobError`).

`PROJECT.json` lists the components with their status, and under `hazards` the
places where the code is hard to test, with the properties that watch them.

## Modules

| Module | What it is |
|---|---|
| `SchedulerEvents` | the records of the state file and every judgement read off them, as operators |
| `SchedulerQueue` | processes, threads and the file: the job queue and its callers |
| `RunLedger` | the abstract promise of the queue: a ledger of runs with a limit |
| `PaperTables` | the rows of the paper broker's tables and what each statement writes into them, as operators |
| `PaperBroker` | the threads that place, cancel and settle orders, statement by statement |
| `TradingAccount` | the abstract promise of the broker: orders that wait, each dropped or traded in one step |
| `PaperSplits` | stock splits in the paper broker: stamps, adjustments, and the units of rows and orders |
| `CapNotice` | the poller's notices of periods that went by, on the records of `SchedulerEvents` |
| `OrderRuns` | the 8:50 run, the horizon exit and the rule run, operation by operation |
| `ModelPromotion` | the production pair of models and the nightly and weekly jobs that replace it |
| `RegimeLeverage` | the table of the leveraged position and the daily and weekly runs on it |
| `SchedulerQueueProofs`, `PaperBrokerProofs`, `PaperSplitsProofs`, `CapNoticeProofs`, `OrderRunsProofs`, `ModelPromotionProofs`, `RegimeLeverageProofs` | theorems |
| `SumLemmas` | sums over finite sets as the proofs need them: the folds of the models, and what adding or taking away an element does to them |
| `MCSchedulerQueue`, `MCPaperBroker`, `MCPaperSplits`, `MCCapNotice`, `MCOrderRuns`, `MCModelPromotion` | the instances of TLC |

How they fit together. The queue says which jobs run when, and how often; the
other modules take from it what it promises and what it allows: a job may die at
any step, comes again when its settings say so, and meets other jobs as the
timetable and their locks allow. `CapNotice` reads the queue's records with the
queue's own operators. `OrderRuns` is what the desks of `PaperBroker` decide;
`PaperBroker` is what becomes of an order, which `OrderRuns` reduces to one step
per order (`SettleEntry`, `SettleExit`). `PaperSplits` looks at the same orders
and positions for one symbol and without prices, and adds what `PaperBroker`
leaves out: days, stamps, the record of splits, and everyone who reads a position
and rewrites it while doing so.

### SchedulerQueue

State and code:

| Variable | Code |
|---|---|
| `disk`, `torn` | the state file: its records, or there but unreadable as JSON. A missing file reads as no records, as in `_reload_state` |
| `mem[p]` | `_state["events"]` of process `p` |
| `quarantined[p]`, `inProgress[p]` | `_state_corrupted`, `_in_progress_jobs` |
| `boot[p]`, `bootedAt[p]` | `_boot_id`, `_booted_at`; 0 while the process is down |
| `fired[j]` | what APScheduler's in-memory job store knows of the last firing |
| `th[t]` | where a cron thread, a poller or an immediate run is, with the `run_job` calls it has left |
| `now`, `boots`, `runs` | the clock and the sources of `boot_id` and `run_id` |

One action per section that holds `_lock` and the file lock; between the
sections everything interleaves.

| Action | Code |
|---|---|
| `CronFire`, `CronMiss` | a firing of APScheduler with `misfire_grace_time`, `coalesce` and `max_instances=1`; the entry of `run_job` with its check of the cutoff |
| `Poll`, `LookBack` | `_recover_job`: `should_recover`, then `get_missed_past_periods` |
| `SkipInProgress`, `SkipAtLimit`, `Admit` | the locked section of `run_job` and its three outcomes |
| `Retry`, `Finish`, `Release` | `_run_with_retry`; the record of the end; the release of the mark |
| `BootDaemon`, `RunNow`, `Crash`, `Exit` | start of a process with its first reload, and its end; a crash runs no `finally` |
| `Tick`, `Tear` | the clock; damage of the file from outside |

A write may fail (`WriteFaults`), after which the record is in memory and not in
the file, as in `_append_event_locked`, whose append comes before `_save_state`.
A read may fail (`ReadFaults`), after which the process keeps its copy.

Abstractions. A period is a number and a record only carries the fields that a
judgement reads; weekday expressions are folded into `starts` and `open`, so
that every period has its firings. A poller looks at its jobs in any order, and
the three pollers differ only in the jobs they watch (`Watches`). A judgement is
one step with the reload it follows; the code judges on the copy right after it
released the locks. `os.replace` of a damaged file always succeeds. Notices, and
the cap notices between the two judgements of a poller, are left out.

Properties:

- `OneRunPerProcess`: two threads of a process are never in the body of one job.
- `CapHolds`: the unforced starts of a period stay within
  `max_executions_per_period` plus the forgiven interruptions, through crashes,
  restarts and retries.
- `RunningIsRecorded`: while a body runs the file holds the record of its start.
- `NoLostRecord`: every change of the file adds one record to what was there.
- `InterruptedRunsAreDead`: what a boot takes for vanished does not run.
- `RecoveryStaysOff`: a process that moved a damaged file aside recovers nothing.
- `RecoveryHappens`: under fairness no job stays due for recovery for ever.
- `LedgerSpec`: the file, seen through its starts and ends, implements `RunLedger`.
- `TypeOK`: types, and the bound of the file.

Fairness (`FairSpec`): the container restarts the daemon (`restart: always`), the
pollers keep firing, a thread that entered `run_job` goes on, and a body ends
somehow. Nothing makes a body succeed, the clock move or a person run a job. All
conditions are weak: none of these steps is disabled for good by another.

### PaperBroker

State and code:

| Variable | Code |
|---|---|
| `orders` | `paper_orders` in the order of `created_at`; `limit` is the `price` column, 0 for a market order |
| `cash` | `paper_balance` |
| `long[s]`, `short[s]` | the row of `s` in `paper_positions` and `paper_short_positions`; `qty = 0` is no row |
| `desk[d]` | an order run: where it is in `send_order`, `_record_order` or `cancel_order`, and what it has read |
| `settler[c]` | a call of `settle_pending_orders`: the orders it read and has left, and the price, the outcome of the limit and the row it read for the current one |

Connections are in autocommit mode (`utils/db/_connection.py`), so every
statement of a desk is an action. The settlement of one order is a transaction in
read committed isolation: each of its reads is an action, its writes appear
together at its commit, and `Locked` is the row lock of `FOR UPDATE`.

| Action | Code |
|---|---|
| `Decide` | the reads of an order run and its conditions: what is held, waiting and sold short (`trading/execution/runner.py`, `pending.py`) |
| `CheckWaiting`, `Insert`, `ReadShort`, `Register` | the statements of `send_order` |
| `Link`, `StartCancel` | `_record_order`: the exit date is recorded, or the entry is cancelled |
| `Cancel`, `ReadUndo`, `Undo` | `cancel_order` and `_undo_short_registration` |
| `BeginRound`, `EndRound` | `settle_pending_orders` reads what is pending; the end of its loop |
| `Skip`, `Claim`, `PassOver` | the bar cannot be used; `claim_pending` and its two answers |
| `CheckCash`, `RejectBuy`, `ReadRow`, `Expire`, `RejectExit`, `Fill`, `GiveUp` | the transaction: test of the cash, the read of the position, and the ways it ends |
| `AbandonRound`, `AbandonOrder` | the process dies, or a statement outside a transaction raises |

`Fill` keeps the gap between the read of a row and the write computed from it:
`Stored` says what an `UPDATE`, `DELETE` or `INSERT` does to a row that is not
the one read any more.

Abstractions. The bar of a day is any of `Bars`, or unusable (`Skip`): which of
the five reasons made it so is left out, and so are the signal date and the close
of the market. The sizing of an order is any of `Lots`. Stock splits are `PaperSplits`; the
valuation of positions and `paper_real_diff` are left out. The averages are
computed with integers; prices in the instances are multiples of 24 so that no
division has a remainder. The reads of an order run are one step, `Decide`, and
its order is sent later.

Parameters. `Quiet` is the schedule of an ordinary day: no order run is at work
while a round is (8:50, 9:00, 9:05 and 16:30). Nothing in the code enforces it,
so the properties of single fills are checked without it. `Stacks` lets a desk
sell short what is sold short already: `send_order` accepts and averages that,
the order runs of today do not do it. `Faults` lets statements fail and
processes die.

Properties:

- `SettledOnce`: an order that left `pending` never changes again.
- `CashMatchesFills`, `LongMatchesFills`: cash and shares are those of the filled
  orders, through overlapping rounds, rollbacks and crashes.
- `BooksBalance`: cash and positions at cost are the opening balance and the
  profits recorded on the orders.
- `ShortMatchesOrders`, `ShortAmountMatchesOrders`: a row of
  `paper_short_positions` is what was filled and not covered and what waits, in
  shares and, until a cover, in money: each provisional amount is replaced by
  its fill or taken back exactly once.
- `CoverOnlyFilled`: no more is covered than was sold short.
- `BuysStaySolvent`: no buy takes the balance below zero.
- `EveryOrderDecided`: a pending order is filled, rejected or expired at last.
- `AccountSpec`: the broker implements `TradingAccount`. There an order waits until
  it is dropped or traded, once and in one step, at no worse a price than its limit;
  cash and shares move only in that step, together, by what the trade says. Desks,
  rounds, transactions and rows do not appear there: `SharesHeld`, `WaitingOrders`
  and `Trades` are what remains of the tables.
- `TypeOK`, which is proved and has no run of its own.

Fairness (`FairSpec`): a thread at work goes on and rounds are begun again (the
retries of 9:15 to 9:55 and the next day), weakly fair. Strong fairness of the
claim of an order says that its bar is not unusable every time it is looked at;
without it an order of a suspended symbol is rightly carried over for ever.

### PaperSplits

Prices come adjusted for a split from its ex-day on; `paper_positions`,
`paper_short_positions` and `paper_orders` do not. Each row is stamped
(`updated_at`, `created_at`), counts in the units of the day of its stamp, and is
multiplied when someone reads it later (`split_adjust.py`). Stamps are UTC times
without a zone and are read as dates, so what is written before 9:00 JST is of
the day before: the 8:50 run writes such stamps.

| Variable | Code |
|---|---|
| `ex`, `known` | the days on which a split goes ex; those in the record (`get_splits`) so far |
| `day`, `part` | the date; before 9:00 JST, the hours of the settlements, the evening |
| `row[side]` | `qty` and `updated_at` of the row of the symbol in the two tables |
| `orders` | `paper_orders`: kind, shares, `created_at`, whether it has a price of its signal, status |
| `desk` | an order run: `get_positions` and an exit, or `send_order` and `cancel_order` of a short sale |
| `settler` | `settle_pending_orders` |
| `reader` | anyone else who reads the positions: reports, valuation, the bot |
| `net`, `meant` | histories: the shares filled, and those an exit was to close, in the units of the last day |

| Action | Code |
|---|---|
| `Read`, `Adjust` | a row is read; the record is fetched, the row locked, read again and written (`_adjust_holding`) |
| `Buy`, `Look`, `Count`, `Sell` | `send_order` of a buy; an exit: the position is read, adjusted, its filled shares counted (`split_filled_short`), ordered |
| `AdjustStored`, `InsertShort`, `ReadShort`, `Register` | `send_order` of a short sale with its registration in the units of the row |
| `Link`, `ReadUndo`, `Undo` | the entry is kept or cancelled, and its registration taken back |
| `BeginRound`, `Take`, `AdjustHeld`, `AdjustOrder`, `Expire`, `ReadRow`, `Fill`, `EndRound` | `settle_pending_orders`: both fetches of `adjust_order_for_splits`, then the transaction |
| `Publish`, `Tick` | the record appears, at the latest at the opening; the day goes on |

Abstractions. Prices are left out but for `Gap`: whether `looks_like_split_gap`
sees the opening price in other units than the price of the order or of the
position; other jumps of a price are taken not to look like a split. The cash,
rejected buys and dying processes are `PaperBroker`'s. No desk is at work while
a round is, and there is one round, as with `Quiet` there. `Factor` gives the product of the ratios of the splits of some days: any numbers
above one that multiply. `Returned` is the row a caller of `_adjust_holding` goes on
with, which is the one it read when no split has gone ex since, although another may
have written it meanwhile. `Flaky` lets the fetches of one operation differ. `Settings` says what a behaviour may do:
`stacks` (orders beside others) or `down` (the record may be missing).

Properties:

- `SplitsOnce`: every share is multiplied by every split exactly once, whoever
  reads, whenever, and between whichever steps of another: rows, brought to the
  units of the last day, are what was filled and what is registered.
- `ExitsCloseWhatWasHeld`: an exit closes what was filled when it was counted, no
  less and no more, also when a registered short sale waits beside it.
- `TypeOK`, which is proved and has no run of its own.

### CapNotice

A job that was not made up for in its period is reported once: `notify_recovery_cap`
looks for such periods after every judgement of the poller, sends one notice and
adds a record per period to the state file.

| Variable | Code |
|---|---|
| `disk` | the records of the state file (`SchedulerEvents`) |
| `sent`, `scanned` | `_cap_notices_sent`, `_past_days_scanned` of the process |
| `running`, `up`, `boots`, `bootedAt` | the run of the job in this process, the daemon, its `boot_id` and start |
| `poll` | where the poller is, and the periods it has found |
| `told`, `noted`, `done` | history: what went out, what was recorded, what succeeded |

| Action | Code |
|---|---|
| `Poll`, `Judge`, `JudgeFails` | the guards before the file is read; the four searches `_capped_period`, `_ended_week`, `_missed_day`, `_past_days_without_success` (`Capped`, `Ended`, `Missed`, `Past`); a failed read |
| `Send`, `SendFails` | the delivery |
| `RecordSent`, `Recorded` | `_record_sent`, one record after the other |
| `Start`, `Finish`, `Elsewhere` | the job's own runs and those of other processes, in short |
| `Tick`, `Crash`, `Boot` | clock and daemon |

The jobs share only the room in the file, so a behaviour follows one job and the
records of the others are `OtherRecord`s. A poll keeps the time at which it
began: it judges by it and stamps its notices with it (`poll.at`), and records the
periods it found from the oldest on. The file of the code holds about 55 days,
which is far more than a look reaches. `MayLeave` says what a full file may drop:
what was stamped before the days that a look still reads (`Reach`), or a record of
an earlier period than the one being judged that no record stamped on an earlier
day is behind. Behaviours in which another record would leave the file stop there.

Abstractions. Every day is a business day. The look at the runs in progress
comes before the file is read, as in the code, so a run that begins in between
may be reported as over. Runs of other processes are never seen as running. An
interruption that is forgiven, or whose record was dropped, may reopen a week
that was reported.

Properties: `ToldOnce` (also across restarts, once recorded), `NoFalseAlarm`
(never about a period whose success was on file), `ScanIsFinal` (a day marked as
scanned leaves nothing to tell), `EveryMissTold` (under fairness every miss in
reach is told of), `TypeOK` (proved, in no run).

Fairness: the daemon is restarted, the poller comes round, runs end (weak); a
read and a delivery that are tried again and again work some time (strong).

### OrderRuns

State and code:

| Variable | Code |
|---|---|
| `pos[x]` | the position of a slot (`<<side, symbol>>`) and whether it has an exit date, or is past it |
| `entry[x]` | the waiting BUY or SHORT, by whom, and whether its exit date is recorded |
| `exits[x]` | how many SELL or SHORT_COVER orders wait |
| `phase` | before the settlements (8:50 to 9:05), while orders settle, the evening |
| `left`, `well` | the executions a run has left, the runs that ended without failure |
| `job[r]` | for `auto` (8:50), `horizon` (9:00) and `rule` (16:30): where it is and what it has read |

| Action | Code |
|---|---|
| `Start`, `Done` | the job begins; a section ends, and the next follows or the job returns or raises |
| `ListExpired` | `exit_expired_positions` under `_HORIZON_EXIT_LOCK` |
| `Gate`, `Predict`, `Survey` | `_evaluate_entry_gate`; predictions and positions; waiting buys, correlation gate, staleness |
| `ListStops`, `ListSells`, `ListBuys`, `ListCovers`, `ListShorts`, `StepsFail` | the sections of `run_order_steps` up to their orders; the reads that end the run |
| `ReadHeld`, `Screen` | `execute_rule_paper_trades` up to its orders |
| `SendExit`, `SendEntry`, `PassOver` | one order, or a cap that is reached |
| `Link` | `_record_order`: the exit date, or the cancellation of the entry |
| `SettleEntry`, `SettleExit` | what the settlement makes of an order |
| `Open`, `Close`, `NextDay`, `Crash` | the day and the daemon |

Parameters. `Faults` names the reads and statements that may fail. `Late` lets
the morning's runs still be at work while orders are settled: recoveries go on
until 9:30 and a run may be slow, so the code does not exclude it. `Fragile` lets
the daemon die between an entry and its record.

Abstractions. Amounts are left out: a slot is one lot, and sizing, minimal
changes are part of the choice of what is listed. A quantity of zero is chosen
where the code meets one without saying so: a short sale whose row cannot be worked
out comes back as if all of it still waited (`short_position_row`), so that the
exits past their date and the covers pass it over and count no failure (`Lame`). The
failure of a registration of a SHORT is `PaperBroker`'s. Market and limit orders
settle alike. Listing the stops, and the waiting orders beside them, is one read.
Forced runs by hand, the live broker and holidays are left out; forgiven
interruptions are not bounded.

Properties:

- `CapKept`: positions and waiting entries of both sides stay within `MAX_POSITIONS`.
- `SidesApart`: no symbol is bought while it is sold short or the reverse,
  waiting orders included.
- `OneExitWaits`: no position gets a second exit while one waits.
- `RuleDayLimit`: repeated rule runs of an evening share one limit of buys.
- `EntriesDated`: no entry of a morning is left without its exit date.
- `SuccessMeansExits`: a run that ends well has ordered every exit it owed, and it
  owes one for all but the short sales whose row it could not work out.

### ModelPromotion

State and code:

| Variable | Code |
|---|---|
| `prod`, `cand`, `chal` | the files of production, candidate and challenger; a file is the number of its training |
| `fresh` | the challenger files written this week |
| `store` | `state.json`: the last version looked at, the versions rolled back, the watch |
| `mark`, `code` | the version that built the features; the version deployed |
| `lock`, `job[a]` | `.unified_models.lock`; where a process is and its locals |
| `reader`, `rows` | the models a running daily prediction has loaded; how the days since the swap were scored |
| `trusted` | history: the pair in production that no watch stands over, or the one before the swap on watch |
| `stray` | history: what an undo or a putting back that failed left in production |

| Action | Code |
|---|---|
| `Begin`, `Load`, `LoadFails` | the lock; the state, with the judgement of a watch |
| `NoJudgement`, `TellSkipped`, `Keep`, `RollBack`, `RolledBack`, `Close`, `CloseFails` | the judgement and its outcomes |
| `NothingNew`, `Skip`, `Choose`, `Train`, `NotCompared`, `Compared`, `NoSwap` | the evaluation of a new version |
| `Swap`, `Swapped`, `Record`, `RecordFails`, `Undone` | the provisional swap, and its undoing when the state cannot be saved |
| `StartCopy`, `BackUp`, `Replace`, `Restore`, `Restored`, `CopyFailed` | `copy_with_backup`, file by file, for a swap, its undoing, a rollback and a promotion, and the caller's handler when it raised |
| `BackUpFails`, `ReplaceFails`, `RestoreFails` | a backup or a copy that fails, also within an undo; a target that cannot be put back |
| `NoPromotion`, `Promote`, `Promoted`, `Clear`, `ClearFails`, `Retrain`, `TrainChallenger`, `RetrainEnds` | `run_weekly_training` |
| `Rebuild`, `ReadModel`, `SaveRows` | the feature job and the daily prediction, which take no lock |
| `NextWeek`, `Deploy`, `Die` | time, deployment, death of a process |

Parameters. `Faults` names the operations that may fail, each as often as it is
tried: on a full disk a save, the undoing of the swap it was for and the putting
back of files fail one after the other. `Fragile` lets a process die between the replacement of a file and
the save that knows of it; nothing in the code repairs that state (see below).

Abstractions. Whether a candidate or a challenger won, and whether a day was
poor, is a choice. Backup files get fresh names and are never touched again, so
what they hold stands for them. A row says how its day was scored and not which
pair made the prediction: the code goes by the time stamp of the row alone. Result
files, records and notices are left out.

Properties: `ProductionAccounted` (with the lock free, production is a pair that
is watched or needs no watch, whole, or exactly what a failed undo or putting back
left: the job reports that and nothing repairs it), `RollbackReturns` (a rollback restores the
pair before the swap), `RolledBackStaysOut`, `ShadowedBeforePromoted` (no
challenger is promoted in the week it was trained), `WatchEnds` (under fairness a
watch with enough days is judged), `TypeOK`.

Fairness: the nightly job keeps coming, its steps go on, and each operation that
is tried again works some time.

### RegimeLeverage

State and code: `row` and `check` are what the two queries of `repository.py`
return from `regime_leverage_log`, `opened` counts positions, `closed` and `hit`
are the daily bars and the ones whose low meets the stop or the margin call,
`job[p]` is a run, and `judged` the bars a daily run has looked at.

| Action | Code |
|---|---|
| `Begin`, `Fetch` | the last row; the download, in which any bar may be missing or without a low |
| `DecideExit`, `DecideNoop` | the daily run: the first low since the last look that closes the position (`LastCheck`, `Unchecked`), or a row that records how far it looked |
| `DecideEntry`, `DecideFlip`, `DecideStay` | the weekly run |
| `Insert`, `Abort` | the row; a failure or death anywhere before it |
| `Fall`, `CloseBar` | the market |

Parameters. `Serial`: no two runs overlap. `Prompt`: no bar closes between a
download and its `INSERT`. Both follow from the timetable and not from the code:
the runs are at 7:30 JST on weekdays and 6:30 on Saturday, the US market closes
at 5:00 or 6:00 (`python/run_scheduler.py:599`).

Abstractions. Equity, interest and margin are floats and reduced to whether a
low closes the position.

Properties: `NoBarPassedOver`, `PositionsFollow`, `StopHonoured` (under fairness
a low that meets the stop ends the position), `TypeOK` (proved, in no run).

Fairness: the daily run comes again, ends, and its data is whole some day.

## Runs

| Run | Instance | Shows |
|---|---|---|
| `queue_restarts` | `daily_backup` (backfill, one retry, one forgiven interruption), two threads, two periods, three boots, under `FairSpec` | `CapHolds`, `InterruptedRunsAreDead`, `RecoveryHappens` |
| `queue_run_now` | `daily_horizon_exit` (cutoff) with a process of an immediate run, three boots | `RunningIsRecorded`, `NoLostRecord`, `LedgerSpec` |
| `queue_faults` | `weekly_model_training` (two attempts with a gap), failing reads and writes, damage, a file of three records | `TypeOK`, `OneRunPerProcess`, `RecoveryStaysOff` |
| `paper_quiet` | one symbol, one order run, one round at a time, three orders of any side, market or with a limit, `Quiet`, `Stacks`, under `FairSpec` | `ShortMatchesOrders`, `ShortAmountMatchesOrders`, `CoverOnlyFilled`, `BooksBalance`, `BuysStaySolvent`, `EveryOrderDecided` |
| `paper_overlap` | one symbol, one order run beside two rounds, three orders, `Faults` | `CashMatchesFills`, `LongMatchesFills`, `SettledOnce`, `AccountSpec` |
| `paper_splits` | one symbol, three days, a split on any of the last two, three orders; orders beside others with a record that is there, or one order of a side at a time with a record that may be missing | `SplitsOnce`, `ExitsCloseWhatWasHeld` |
| `paper_overdraft` | two symbols, two rounds, two buys | `BuysStaySolvent` violated, see below |
| `cap_notices` | a weekly and a daily job beside the poller over two days, a file of two records, two boots, failing reads, deliveries and records, under `FairSpec` | `ToldOnce`, `ScanIsFinal`, `NoFalseAlarm`, `EveryMissTold` |
| `order_runs` | three symbols, two positions, one order a run, seven kinds of failure, a daemon that dies | `CapKept`, `SidesApart`, `OneExitWaits`, `RuleDayLimit`, `EntriesDated`, `SuccessMeansExits` |
| `promotion_faults` | two models, two versions of the code, the nightly job with and without its options, three trainings, one week, seven kinds of failure | `TypeOK`, `ProductionAccounted`, `RolledBackStaysOut`, `ShadowedBeforePromoted`, `RollbackReturns` |
| `promotion_nights` | two models, one version, two trainings, one week, every failure and deaths anywhere, under `FairSpec` | `WatchEnds` |
| `regime_leverage` | a daily and a weekly run over three bars and two positions, under `FairSpec` | `NoBarPassedOver`, `PositionsFollow`, `StopHonoured` |

Bounds of the queue. Each property is about one job and its period, and jobs share nothing
but the file, so an instance has one job; each instance takes the job whose
settings reach the branch the property is about. `RecoveryHappens` of a job
with a gap and two attempts can be seen by giving `queue_restarts`
`Jobs = {"weekly"}` and `Horizon = 3`. Three boots allow a crash, a
recovery that also crashes, and the judgement of the third boot. The period of
the backup job is two ticks, the firing and a later recovery, and three ticks
(`Horizon = 2`) reach into its second period, where backfill begins. The
periods of the other jobs are three or four ticks, which separate the firing,
the recovery, the gap between two attempts and the cutoff. `MaxEvents` is larger than any
behaviour needs except in `queue_faults`, where the file drops records. Clock,
boots and runs are bounded, so a behaviour ends; the runs therefore do not check
for deadlock.

Bounds of the broker. Orders of different symbols meet only in the balance, so
one symbol suffices except for `paper_overdraft`. Three orders are two short
sales and a cover, or an entry, an exit and a second entry. The opening balance
buys one lot at the low price or at the high one, so that a second buy meets the
test of the cash. One bar stays at 24. The other opens at 48 after touching 24, so
that a sale at 48 is missed or filled at its limit and a buy may better it; in
`paper_overlap` it opens at 24 and touches 48, so that a sale at 48 is missed or
filled above the open, and one that is filled at the open breaks `AccountSpec`.
Two rounds are
interchangeable, hence the symmetry in the runs without liveness. Rounds are begun
without end, so deadlock is checked.

Bounds of the splits. Three days are two ex-days, so that a row can be brought
over one split or over two at once, and be of any of three units. Three orders
are an entry, a second entry that is registered beside the first, and an exit.
The split of the second day is two for one and that of the third three for one, and
an entry is of one share: every unit a share can be counted in then gives another
number. The run uses a view that forgets what
became of orders that no longer wait, which decides nothing. Days end, so deadlock
is not checked.

Bounds of the notices. A day has two ticks and a week two days, two days pass,
and the file holds two records, so that records leave it and days fall out of
what it knows; two boots separate what is remembered in the process from what
is on file.

Bounds of the order runs. Two positions and one order a run are the smallest
limits that a run meets without being stopped at once; three symbols leave one
outside the cap. Days and repetitions are not bounded. Reads of the waiting
exits and of the exits due are left to succeed here, see below.

Bounds of the models. A third training is a candidate after one that was rolled
back or promoted; two versions come and go, so that a version is seen again; one
week separates a fresh challenger from a compared one. Two models make a copy
fail half way.

Bounds of the regime. Three bars are one before the entry, one that a run
misses, and one that it sees after that; two positions show one following the
other.

Each property of a passing run has a mutant in `PROJECT.json`: a deviation of a
modelled definition, written beside it, that TLC refutes.

### Disagreements with the text

`paper_overdraft` is a run that TLC must refute: the test of the cash reads the
balance without a lock; two overlapping rounds both pass it for different buys
and the balance goes below zero. `python/tests/unit/test_paper_broker.py:291`
says that cash is not made negative, and `test_paper_settle_double_fill.py:3`
that rounds overlap.

### Where the properties stop

The passing runs exclude, by a named constant, what the code does not survive.
Changing that constant in the configuration gives the counterexample:

| Change | Refuted | Why |
|---|---|---|
| `queue_run_now`: add `InterruptedRunsAreDead` | `InterruptedRunsAreDead` | a run started by hand before the daemon comes up has another `boot_id` and an earlier start; the daemon takes it for vanished and recovers the job while the body runs |
| `queue_run_now`: `ReadFaults = TRUE` | `NoLostRecord` | when the file cannot be opened once, the record is added to the copy in memory, and that copy replaces the file |
| `paper_quiet`: `Quiet = FALSE` | `ShortMatchesOrders` | a round may fill a short sale between its `INSERT` and its registration, which then adds the same shares again |
| `paper_splits`: `Flaky = TRUE` | `SplitsOnce` | the record is fetched anew for the position and for the order (`split_adjust.py:209`, `212`), and for the cancellation of a short sale (`paper_broker.py:209`): when one fetch fails and the other does not, a row and its order are of different units |
| `paper_splits`: `stacks` and `down` in one setting | `SplitsOnce` | a short sale registered while the record is missing is added as ordered to a row another reader has adjusted |
| `PaperSplits!Sell` without `part # "early"` | `ExitsCloseWhatWasHeld` | an exit counted on an ex-day before 9:00 is in the new units and stamped with the day before; the settlement multiplies it again, and with an entry filled before it closes that one too. Alone the exit is cut to what is held |
| `order_runs`: `Late = TRUE` | `CapKept`, `SidesApart`, `OneExitWaits` | what a run has read is settled, and gives way to something else, before the run sends its orders |
| `order_runs`: add `"pending"` to `Faults` | `OneExitWaits` | waiting orders that cannot be read are taken for none (`trading/execution/pending.py:28`), and what an exit waits for is closed again |
| `order_runs`: add `"due"` to `Faults` | `OneExitWaits` | when the 8:50 run could not read or order the exits due, or passed over one whose row it could not work out, it goes on; its sections and the 9:00 exit, which has the lock to itself then, may both list the same position |
| `order_runs`: add `"due"` to `Faults`, and drop `\ job[r].lame` from `Owed` | `SuccessMeansExits` | a short sale past its date whose row cannot be worked out (`position_rows.py:75`) is passed over without a failure (`horizon_exit.py:113`): it is not ordered that morning and the run ends well. A cover by a signal is passed over in the same way (`runner.py:412`) |
| `order_runs`: add `"cancel"`, or `Fragile = TRUE` | `EntriesDated` | the entry stays and its date is never written |
| `promotion_faults`: `Fragile = TRUE`, or add `"clear"` to `Faults` | `ProductionAccounted`, `RollbackReturns` | a process that dies after a file was replaced and before the state is saved leaves a pair nobody watches; a promotion whose watch cannot be cleared is rolled back to the pair before the swap |
| `ModelPromotion!ProductionAccounted` without `prod = stray` | `ProductionAccounted` | a save fails after a swap and so does its undoing (`backtest_promotion_job.py:219`): the candidate stays and no watch stands over it. Or a copy fails and a target cannot be put back (`state.py:262`): production is a mix of two pairs |
| `regime_leverage`: `Serial = FALSE` | `PositionsFollow` | two runs decide on the same last row |
| `regime_leverage`: `Prompt = FALSE` | `NoBarPassedOver` | the row's time is set at its `INSERT`, so a bar that closed since the download counts as looked at |

## Proofs

| Theorem | For all jobs, settings, threads, processes and bounds |
|---|---|
| `TypeCorrect` | `Spec => []TypeOK` |
| `Exclusion` | `Spec => []OneRunPerProcess` |
| `NothingLost` | `Spec => NoLostRecord`, where reads succeed and the file is not damaged |
| `RecoveryOff` | `Spec => RecoveryStaysOff` |
| `CapKept` | `Spec => []CapHolds` |
| `VanishedRunsAreGone` | `Spec => []InterruptedRunsAreDead`, if no immediate run is beside the daemon (`Manuals = {}`) |
| `StartsAreRecorded` | `Spec /\ []Roomy => []RunningIsRecorded`, where reads succeed and the file is not damaged |
| `QueueKeepsLedger` | `Spec /\ []Roomy => LedgerSpec`, under the same conditions |
| `LimitKept` | `Spec /\ []Roomy => []Ledger!LimitHolds`: the runs on file, seen as the ledger, keep its limit, under the same conditions |

and, for all symbols, bars, desks, rounds, quantities, `Quiet`, `Stacks` and `Faults`:

| Theorem of `PaperBrokerProofs` | |
|---|---|
| `TypeCorrect` | `Spec => []TypeOK` |
| `OrderSettledOnce` | `Spec => SettledOnce` |
| `CashMovesWithFills` | `Spec => CashFollowsFills`: the balance moves only in a step that fills one order, by what that order records |
| `SoleRoundStaysSolvent` | `Spec => BuysStaySolvent`, if there is at most one settler |
| `BalanceIsTheFills` | `Spec => []CashMatchesFills` |
| `HoldingsAreTheFills` | `Spec => []LongMatchesFills`, if there is at most one desk |
| `BooksAgree` | `Spec => []BooksBalance`, if moreover the symbols are finitely many |
| `ShortRowsAreTheOrders` | `Spec => []ShortMatchesOrders`, with one desk and one settler, `Quiet` and `~Faults` |
| `CoversAreFilledShorts` | `Spec => []CoverOnlyFilled`, under the same conditions |
| `ShortAmountsAreTheOrders` | `Spec /\ []WholeAverages => []ShortAmountMatchesOrders`, under the same conditions |
| `AccountKeepsItsPromise` | `Spec => AccountSpec`, if there is at most one desk, with any number of rounds and `Faults` |

For any number of days and orders, any calendar of splits and any factors (`Clean`:
`~Flaky`, and no setting has both `stacks` and `down`):

| Theorem of `PaperSplitsProofs` | |
|---|---|
| `TypeCorrect` | `Spec => []TypeOK` |
| `SplitsAppliedOnce` | `Spec => []SplitsOnce`, if `Clean` |
| `ExitsCloseAll` | `Spec => ExitsCloseWhatWasHeld`, if `Clean` |

For all jobs and their settings, all ranges and any size of the file, with every
failure:

| Theorem of `CapNoticeProofs` | |
|---|---|
| `TypeCorrect` | `Spec => []TypeOK` |
| `NoticesAreSentOnce` | `Spec => []ToldOnce` |
| `NoticesAreTrue` | `Spec => NoFalseAlarm` |
| `ScansAreFinal` | `Spec => []ScanIsFinal` |

For all models, processes, versions and bounds (`ModelPromotionProofs`; `Reliable`
says that no process dies in the window of a replacement and a watch can be
cleared):

| Theorem of `ModelPromotionProofs` | |
|---|---|
| `TypeCorrect` | `Spec => []TypeOK` |
| `RolledBackOut` | `Spec => []RolledBackStaysOut` |
| `ChallengersAreShadowed` | `Spec => []ShadowedBeforePromoted` |
| `PairAccounted` | `Reliable => (Spec => []ProductionAccounted)`, with any number of other failures |
| `RollbackRestores` | `Reliable => (Spec => RollbackReturns)` |

For all runs and bounds:

| Theorem of `RegimeLeverageProofs` | |
|---|---|
| `TypeCorrect` | `Spec => []TypeOK` |
| `PositionsStayApart` | `Spec => PositionsFollow`, if runs do not overlap |
| `EveryBarJudged` | `Spec => []NoBarPassedOver`, if moreover no bar closes within a run |

For all finite sets of symbols, all limits and faults (`Readable`: the exits due
and the waiting exits can be read; `Careful`: `~Fragile` and cancellations
succeed):

| Theorem of `OrderRunsProofs` | |
|---|---|
| `TypeCorrect` | `Spec => []TypeOK` |
| `DayLimited` | `Spec => []RuleDayLimit` |
| `CapHeld`, `SidesNeverMeet` | `Spec => []CapKept`, `Spec => []SidesApart`, if `~Late` |
| `SingleExit` | `Spec => []OneExitWaits`, if `~Late` and `Readable` |
| `EveryEntryDated` | `Spec => []EntriesDated`, if `Careful`, also with `Late` |
| `SuccessIsPaid` | `Spec => SuccessMeansExits`, if `~Late`, with every failure and death; `Owed` leaves out the short sales whose row could not be worked out |

The assumptions are those named in the modules: the settings are of the shape of
`SCHEDULE_CONFIG`, a thread belongs to a process, the bounds are numbers, a bar
opens between its low and its high, quantities and limits are positive.

- `TypeCorrect` needs more than types: a thread that is not idle has a current
  call whose period is known once it is made. `TypeInv` says so with `GoodThread`
  and is preserved by each action (one lemma each).
- `Exclusion`: `OneRunPerProcess` is not inductive. `RunningIsMarked` adds that
  the job of every body is in `_in_progress_jobs` of its process; with that,
  `Admit` cannot let a second thread in, and `Release` takes the mark of the only
  one that holds it.
- `NothingLost`: `WholeInv` says that the file is never torn; then every section
  loads the file and appends to it, and `Trim` keeps the record it added
  (`TrimKeepsLast`).
- `RecoveryOff`: an action property from `TypeInv`; each step is shown not to
  lead a thread of such a process into a recovery.
- `CapKept`: the count of a period is bounded in the file and in every copy in
  memory (`CountInv`), since a failed write or a moved file makes a copy the next
  file. A start is added only where the judgement counted less than the limit; the
  judgement leaves out no more than the forgiven interruptions; and `Trim` can only
  lower a count. That needs no condition: neither readable files nor room.
- `VanishedRunsAreGone`: `BootInv` says that a body belongs to a process that is
  up and that its run carries that process's boot id. A process beside the daemon
  has another boot id and an earlier start, so the theorem is about the daemon
  alone; `Manuals = {}` is what `queue_restarts` checks, and with an immediate run
  TLC refutes it (see above).
- `StartsAreRecorded` and `QueueKeepsLedger`: `BookInv` ties every body to the
  record of its start, every end on file to a start before it, and keeps the runs
  apart. Both hold as long as the oldest records have not begun to leave the file:
  `Roomy` is `Len(disk) < MaxEvents`, and MaxEvents is 5000 in the code. The
  hypothesis is a condition on behaviours, `[]Roomy`, and `queue_run_now` is an
  instance of it.
- `LimitKept`: what the refinement is worth to a reader of the ledger. `LedgerInv`
  says of the runs on file that they are finitely many and that open and closed ones
  are apart; forgiving leaves a run out of a count but never takes it from the ledger,
  so the unforced runs stay within the limit and the pardon together.

- `TypeCorrect` of the broker: that a quantity never becomes negative needs that
  no order is without shares (`Sized`, for what a desk carries) and that a thread
  only knows of orders that exist (`Known`). The lemmas on `PaperTables` show
  that every write is a row whatever was read.
- `OrderSettledOnce`: `Held` says that an order in a transaction is still pending
  and that no two transactions hold the same one. A cancellation waits for the
  lock, so only the holder changes such an order, and it leaves the transaction
  with the same step.
- `CashMovesWithFills`: from `Held`, step by step.
- `BalanceIsTheFills`: the sums of the properties are folds, of which the provers
  know nothing. The proof counts instead: the total of natural numbers over a
  finite set is the number of pairs of an element and a number below its value, so
  adding an element adds its value (`Total` and its lemmas, `SumStays`), and an
  amount that may be negative is the difference of two such totals. The folds are
  shown to be these totals once: of the sets on which they differ one would be
  smallest (`SmallestSet`), and it cannot be. `CashInv` is then kept by each fill, of one order
  that was pending, and by everything that fills none.
- `HoldingsAreTheFills`: `apply_fill` computes a quantity from a row it read
  without a lock. `OneForLong` says that at most one order of a symbol waits for
  its long row, a buy while there is none and a sale while there is one, which is
  what `Decide` sees to when there is one desk; so between the read and the write of
  a fill nothing else wrote that row, whatever the rounds do. Two desks may both decide before either sends, and then it fails.
- `BooksAgree`: `BooksInv` adds the worth of the rows over all symbols; a fill
  changes that of one symbol by what it moves in cash, less the profit it records.
- `ShortRowsAreTheOrders`, `CoversAreFilledShorts`: `ShortInv` says for every point
  of a desk and of a round by how much the row is ahead of or behind the orders
  (`RowsMatch`, `Gap`), that the order being registered or withdrawn is its own, and
  that a waiting cover fits what is filled and not covered (`CoversFit`). The
  registration of a short sale is a statement after its `INSERT`: a round or a
  death between them leaves the row wrong for good, hence `Quiet` and `~Faults`, as
  in `paper_quiet`.
- `ShortAmountsAreTheOrders`: `AmountInv` is `ShortInv` in money: for every point of a
  desk by how much the worth of a row is ahead of or behind the fills and the
  provisional amounts (`AmountsMatch`, `AmountGap`), with the limit a desk remembers
  still that of its order (`LimitStands`). A row is emptied when the shares taken out
  are all it has, and then `ShortInv` says that no share is left to pay for
  (`EmptyRowMatches`). The code keeps averages as floating-point numbers and rounds
  none of them; the model has integers. `WholeAverages` says that the division which
  the next statement makes has no remainder, which a unit of prices that is fine
  enough gives; the hypothesis is a condition on behaviours, and TLC finds it true of
  every state of the instance of `paper_quiet`.
- `AccountKeepsItsPromise`: the mapping keeps of the tables what waits, what was
  filled, the cash and the shares held long. `PriceFits` says that the price a
  transaction works with fits the limit of its order from the claim to the commit.
  An `INSERT` is then a placing, a cancellation, rejection or expiry of an order that
  waits is a dropping, `Fill` is a trade of what the position held at that moment
  (`OneForLong`), and every other step, the reads, failures and deaths among them, is
  no step of the account. The one desk is needed for `OneForLong`, as above.
- The splits: `SplitsOnce` says what a row is worth and nothing of those who are about
  to write it. `SplitInv` adds, for each of them, what it holds in hand. A reader, a
  desk or a round that has read a row finds that row still, or what another made of it
  with the same splits (`Follows`), and that is why it adjusts what it reads under the
  lock. A row and an order are stamped with days whose splits are in the record
  (`RowsDated`, `OrdersDated`, `CalendarKept`), and a row that holds short sales is
  stamped no earlier than they are (`RowAfterOrders`), so that their ratio to the row
  is one of `split_factor_between`. A short sale that is taken back finds its shares
  in the row (`DeskUndoes`). `ExitsMeet` is what `ExitsCloseAll` needs beyond that:
  one exit waits on a side, for exactly what it is to close, or for more than that
  when nothing else can be filled before it, for the fill then cuts it to what is held.
  `Clean` is what the runs exclude as well: with `Flaky` or with both in one setting
  TLC refutes `SplitsOnce` (see above).
- The notices: `BaseInv` carries the types, that no record and no period in hand
  is ahead of its time (`Begun`), and that the poller looks for what its job is
  looked after for (`Looks`). `ToldOnce` says nothing of records that have left the file; `Remembered`
  does: what was recorded as told is on file still or past the reach of any look
  (`PassedBy`), and what was told in this boot is in memory. `Told` and
  `NoticesAreTrue` follow. `ScansAreFinal` looks at one step at a time: a record that
  leaves the file makes the search of a marked day shorter and never longer, a period
  in reach that had a success or a notice keeps it, and no day passes without
  opening another search.
- `SoleRoundStaysSolvent`: `Funded` says that a buy that passed the test still
  has the cash. With one settler nothing else moves the balance meanwhile;
  `paper_overdraft` shows that the hypothesis is needed.

- The models: `BaseInv` carries the types, mutual exclusion (only the holder of
  the lock is under way) and what a process may hold in hand: backups that exist,
  a version that was not rolled back, a candidate pair that is whole.
  `PairInv` adds, for every place a process can be at, how production, backups
  and `trusted` relate there (`JobPair`, `CopyPair`); `ProductionAccounted` is
  its case for a free lock, `RollbackReturns` the one at the end of a copy. A copy that
  puts back is at each target either where it began or is `torn`, so that it leaves
  the pair it began with or says that it did not (`PutBackWhole`, `CopyFailedPair`).
- `ChallengersAreShadowed`: file names say nothing of a model's age, so `FreshInv`
  follows the training numbers: what is in production, in a candidate, in a backup
  or in a copy under way is neither the training of a fresh challenger nor the one
  that is about to be written as a challenger (`Fits`, `JobFits`). So neither a swap,
  a rollback, a promotion nor an undoing brings a fresh challenger into production,
  with every failure and death.
- The regime: `SerialInv` says that the row a run read is still the last one
  when it decides; `BarInv` says that what a daily run is about to record as
  looked at has been judged and that no earlier bar is left behind.
- The order runs: `Course` says which sections a run can be in. `DayInv` bounds
  the buys of the evening by what the run counts. `EntryInv` is the heart of
  `CapKept` and `SidesApart`: while no settlement comes between, what is held or
  waits is within what the run has read (`Knows`, `RuleKnows`) and entered since, and
  what it has listed is apart from that and from the other side (`Lists`).
  `ExitInv` says the same of exits, with the horizon exit beside the 8:50 run: the
  positions due that an exit does not wait for are listed at most once
  (`DueExits`), and what a section lists was not waiting and has not been sent
  (`Seen`, `Unsent`). `DatedInv` ties an undated entry to the run that is about to date it.
- `SuccessIsPaid`: `PaidInv` says of a run without an error so far that each exit
  it owes is ordered, or is on the list it is working through (`StillListed`), and
  that what it took for waiting does wait (`seen`). A failed read or order counts as
  an error, so the proof asks for no reliable reads: the run then does not end well.
  The rows that could not be worked out are the one failure that does not; a run keeps
  what it passed over for that (`lame`) until it ends.
  It asks for `~Late` because an exit that is settled while the run is under way is
  owed and no longer waits, which is no fault of the run but outside the property.

Only model-checked:

- liveness (`RecoveryHappens`, `EveryOrderDecided`, `WatchEnds`, `StopHonoured`,
  `EveryMissTold`), which is beyond the prover. Every other property of a run that
  must pass is stated by a theorem.

What the theorems do not say: those of the short positions are about one desk and one
round on an ordinary day; more desks or rounds at a time are refuted (`Quiet = FALSE`)
or, for overlapping rounds of short sales, not examined. The products of ratios
(`Factor`) are a constant with the laws of a product; that a product over a finite set
obeys them is an induction over data, and TLC checks it of the factors it is given.

## Plan

1. `RateLimiter`: the window of Discord deliveries and its retries.
2. The short positions in `TradingAccount`, under the conditions of `ShortInv`.
3. The valuation of positions, with the averages of `ShortAmountMatchesOrders`.
4. The deployment scripts: the window of a deployment and its rollback.

## Not modelled

The risk manager's arithmetic (drawdown, correlation, sizing) is a choice of the
order runs.
The allocation strategy is one run a year that reads, computes and inserts. Market
data, features, training, inference, backtesting, screening, scoring and reports
are numerical, formatting or network code without interleavings; they are the
bulk of the lines and are tested as functions. The HTTP services keep no state.
The live broker is a client of an external service that the deployed
configuration does not use. `PROJECT.json` lists each of these with its reason.
