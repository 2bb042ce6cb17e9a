# A TLA+ model of smart-analyst's daily daemon

smart-analyst paper-trades a set of strategies from a job that runs once a day,
`scripts/daily_signal_daemon.ts`. The job has hardly any memory of its own. What
it knows from one day to the next is in ClickHouse tables and in two files on
disk, and every run derives its state from them again: at what drawdown level
the account is, at what stage of the capital ramp, which positions are open,
which alerts went out. This project models that derived state, and what becomes
of it when runs fail half way, are repeated, are skipped, or race an operator.
Beside it runs one long-lived process, the candle watcher with its pool of worker
threads, which is modelled too.

## 1. Inventory

| Part | Code | State | Operations |
| --- | --- | --- | --- |
| Drawdown response framework | `drawdown_state.ts`, `drawdown_state_repository.ts` | rows of `drawdown_state_history` and of its per-strategy twin | one evaluation per run: read the last rows, derive the level (0-5) and the recovery count, append a row |
| Capital-deployment stage machine | `stage_state.ts`, `stage_state_repository.ts`, `capital_deployment_config.ts` | rows of `stage_state_history` | one evaluation per run: hold, promote, rollback or halt |
| Halt sentinel and `stage:clear-halt` | `clear_stage_halt.ts`, `.stage_halt` | a file, and rows of the same table | touch, remove; the command unlinks the file and writes a `clear-halt` row |
| Entry gate and sizing | `per_cell_capital.ts` | none | takes the stage result, or the sentinel in its place, and gives every cell its capital, zero on a halt |
| Live trades ledger | `live_trade_repository.ts`, `liveSignalState.ts`, `processCellLiveTrades` | `live_trades` (replacing, one row per token and entry), `live_signals` | diff today's signals with the stored ones, open, close, then store |
| Quarantine alerter | `health_quarantine_alerter.ts`, `telegram.ts` | `health_quarantine`, `health_quarantine_alerts_sent` | load the unsent rows, send, record |
| Daemon halt switch | `paper_trading_halt_monitor.ts`, pre-flight and halt blocks of the daemon | `.daemon_halt` | pre-flight check; observe or enforce at the end of a run |
| Kill criteria and their streak | `paper_trading_kill_criteria.ts`, `kill_criteria_daily_repository.ts`, part of `daemon_live_trades.ts` | `kill_criteria_daily`, one verdict per day and criterion | evaluate the closed trades, write the day, read the last thirty back, or evaluate them anew |
| Macro regime classifier | `macro_regime_v3.ts` | `macro_regimes`, one row per trading day | backfill of a range, daily row |
| EDGAR ingest | `daemon_edgar_ingests.ts`, `_sec_edgar_helpers.py`, `sec_edgar_*_ingest.py` | a table per kind of filing | daily fetch of two days, page by page, a warning on a full page, a catch-up command |
| Cell weights | `cell_weights.ts`, `cell_weights_history_repo.ts`, `resolveCellWeightsForRun` | `cell_weights_history` | choose a tier from the sample, with a ratchet |
| Candle watcher and worker pool | `watch_candles.ts`, `_worker_pool.ts`, `batch_backtest_worker.ts` | markers and run times in memory, queue, idle list and count of the pool, `bt_runs` | bootstrap, backfill, ticks; dispatch, answer, resolve |
| Paper broker | `brokers/paper.ts` | orders in memory | place, cancel, query; has no caller in the daemon yet |
| Signals, backtests, brief, dashboards, other ingest, web UI | rest of `src/server`, `src/lib`, `scripts`, `src/App.tsx` | one row per day, or none | numerical functions, queries, rendering |

How the parts interact in one run of the daemon, in this order:

1. pre-flight: refuse to run if `.daemon_halt` exists;
2. step 0b: quarantine alerts;
3. data: macro fetches, the regime row of the newest complete day, the EDGAR
   ingests; each may fail, and the run goes on;
4. drawdown evaluation, which writes its row and hands its level on in memory;
5. stage evaluation, which reads `.stage_halt`, then its own history and the two
   newest drawdown rows, one of which the same run has just written; it evaluates
   the kill criteria, writes the day's verdicts and reads the last thirty days'
   back, for the streak that paper must show;
6. the cells' weights, from the newest tier on file, and sizing: a halted run gets
   no capital;
7. cell by cell: evaluate tokens, diff with `live_signals`, insert opens and
   closes into `live_trades` one by one, then replace `live_signals`; then the
   weights' row;
8. halt monitor, which may write `.daemon_halt`, and run report.

Steps 2 to 5 swallow their exceptions and the run goes on without them; an
exception in the inserts of step 7 ends the process before step 8. The operator's
commands run beside all of it. The watcher shares nothing with the daemon but the
candles, which both read.

What is hard, and listed line by line under `hazards` in `PROJECT.json`: state
counted from histories that are truncated and in which rows of a slower writer
land late; checks made before an await and used after it; runs that end between
two inserts, with the last one landed or not; retries of what was already done;
steps that fail while later steps go on with a default; answers of the outside
world that are cut at a page or come late; a count and a promise kept by the
messages of several threads.

What makes each part correct:

- *drawdown*: a breach is acted on at once and not forgotten early; level 5 is for
  ever; recovery always comes if losses stop; a level-3 pause is a whole one;
- *stages*: a halt stays until it is cleared on record; a promotion is earned by
  an unbroken stay; timers and failure counts survive everything in between;
- *entry gate*: no entry in a halted run, whichever evaluation failed;
- *ledger*: one row per position, opened once and closed once, entries and exits
  recorded although runs abort, a held position never closed;
- *alerter*: nothing recorded that was not sent, every row sent in the end,
  repeats only for faults;
- *halt switch*: a halt called for is on file, and no run starts through it; a
  failing criterion stops the daemon in the end;
- *regime*: a row never claims more than the bars of its five days say; a backfill
  of a whole window is exact; the daily row does not run ahead of a late source;
- *kill criteria*: a streak is made of days in a row that passed when they were
  judged, and today's failure is in it;
- *EDGAR*: what was left behind by a page has been warned of; a run that raised no
  warning leaves out only what it read and built no row for;
- *weights*: the tier of the runs that were not degraded never falls;
- *watcher and pool*: no job is lost or handed out twice, a batch's promise is kept
  when it is done and not before, no marker passes a backtest that has neither run
  nor been answered with an error.

## 2. Modules

| Module | What it is |
| --- | --- |
| `LadderCounter` | abstract: the drawdown ladder as a level, a count and an age |
| `DrawdownLadder` | the code's ladder, derived from a truncated table; implements `LadderCounter` |
| `StageMachine` | a daemon run (drawdown, stage, sizing), the sentinel and the clear-halt command, step by step |
| `TradeLifecycle` | abstract: what a ledger of positions is |
| `TradeLedger` | signals, diff, inserts and retries of one cell; implements `TradeLifecycle` when runs end well |
| `QuarantineAlerter` | load, send, record, and everything that can fail between |
| `HaltSwitch` | the `.daemon_halt` file between overlapping runs and the operator |
| `MacroRegime` | the regime rows, written by daily runs and backfills from bars that come late or never |
| `EdgarIngest` | the daily search of filings, its pages, its warning and its table |
| `PassStreak` | the verdicts of the kill criteria, day by day, and the streak read back from them |
| `CellWeights` | the ratchet of the weights' tier over overlapping runs |
| `WorkerPool` | queue, idle list, count and promise of the pool, with threads that die |
| `Watcher` | the candle watcher, composed with `WorkerPool` and the tables it reads and fills |
| `*_proofs` | the proofs of the module named before, for all values of its constants; `Watcher_proofs` has those of `WorkerPool` too, `DailySteps_proofs` those of `QuarantineAlerter`, `EdgarIngest`, `HaltSwitch`, `CellWeights` and their composition, `DailyTables_proofs` the composition of the three tables |
| `MCDailyTables` | `DrawdownLadder`, `MacroRegime` and `PassStreak` side by side: three tables that are read back, in one run of TLC |
| `MCDailySteps` | `QuarantineAlerter`, `EdgarIngest`, `HaltSwitch`, `CellWeights` and `LadderCounter` side by side, with their fairness |
| other `MC*` | constants for TLC |

Operators marked `Mutant` in a comment belong to no specification: each is a
plausible mistake in the definition that follows it, and the property listed with
it in `PROJECT.json` fails if the definition is replaced by it.

### DrawdownLadder and LadderCounter

`rows` is the table in the order of `evaluated_at`. `RunEvaluation` is one call of
`runDaemonDrawdownEvaluation` (or one strategy's turn in
`runDaemonStrategyDrawdownEvaluations`; the thresholds are constants, so the same
module stands for both): `PriorHistory` is the limited query, `ComputeLevel` is
`computeLevelWithTables`, `RecoveryDays` is `deriveConsecutiveRecoveryDays`, and
the row appended is the one the repository writes. `NextDay` moves the clock;
nothing forces one evaluation a day, because nothing in the code does: a run may
be repeated or missed. The loss of the last thirty days is a free choice, which
covers every sequence of trades. Losses are thousandths of the capital, so that
the code's fractions are integers.

`LadderCounter` has no table. That a derived count in a table of two rows is the
count of an automaton is the refinement `CounterSpec`; what the automaton
promises in the long run (`CalmClearsLadder`, `Level3Reopens`) is checked on it
with the code's thresholds and the code's five and ten days, where the state
space is small.

### StageMachine

One daemon run goes through the program counter `drawdown`, `sentinel`,
`history`, `write`, `size`, `trade`: one value per await or file access, since
the operator may act between any two. `run.seen` is the sentinel as read at
`daemon_live_trades.ts:1266`, `run.row` the decision taken at the read of the
history and written later. `DrawdownFails` and `StageFails` are the two swallowed
exceptions, of an insert which may have landed; `EndRun` is the end or death of
the process at any point. The command is `ReadHalt`, `UnlinkSentinel`,
`WriteClearHalt`, and `AbortClearHalt` for its death. Rows are a set ordered by
`at`: a run's row bears the time the run started, the command's the time between
its unlink and its insert, so a row can land below one already read, as in the
code. `levels` is the `limit: 2` query of drawdown rows.

Drawdown of the window, Sharpe, the streak of A1-A5 passes and today's kill
criteria are two Booleans chosen at each evaluation, `breach` and `pass`. They
depend on trades that this module does not hold, and each combination can occur.

### TradeLedger

One cell. `signal` is what the strategy, replayed on the candles, answers for a
token: the bar it has been in since, or flat. `Evaluation` is `evaluateCell`,
`loadPriorState`, `diffCellStates` and `loadOpenSnapshotsForCell`. The inserts
are an action each (`OpenTrade`, `CloseTrade`), in any order within opens and
within closes, which includes the sorted order of the code; then
`PersistCurrentState`. `Abort` ends the run before, between or after any of
them: an insert that threw without landing is `Abort` in place of it, one that
threw and landed is the insert followed by `Abort`. What else may happen to a run
is chosen at `Evaluate`: its entries are blocked by the drawdown gate, it is
halted, or tokens are missing from it; `SkipOpen` includes an entry too small for
one share. `MaxFaults` bounds how often; `Faults` says which of them a run of TLC
is about.

### QuarantineAlerter

Rows are numbered by `detected_at`. `Load` reads table and sidecar and takes the
`Cap` newest; `LoadBlind` is the read of the sidecar that failed and returned the
empty set; `Send` and `Record` are the two calls for a row; `SendFails` covers a
message that did arrive although its answer was lost; `Crash` is the death of the
daemon. Each of these faults costs one of `MaxFaults`.

### HaltSwitch

Two runs, one started by the scheduler and one by hand, which may be a dry one
or one with `--halt-enforce-mode=false` and then only observes. A run passes
`checkHaltSentinelPreflight` (`Preflight`), trades, and comes to its monitor
(`Decide`, or `MonitorFails` when paper state or ledger cannot be read). In enforce mode a
halt or a failure leads to a write, whose error leads to the emergency file
(`WriteFails`, `WriteSentinel`), whose error is only logged (`EmergencyFails`).
`Abort` is the death of the process, or an insert that throws before the
monitor. Whether a criterion fails is chosen anew by every run's trades. `pending` and `began`
are history: a halt called for and not dealt with by the operator, and a run
that was let in while one was on file.

### MacroRegime

`bars` says on which days a source has a bar, `firings` which categories' indicators
fire on a day's bar; the indicators are numbers over candles and not modelled.
`Fetch` brings sources up to date, `FetchFails` leaves one behind, and a day may
be missing from a source for good. `Priors` is the list of the last days'
categories that the loop of `classifyDateRangeFromBundleV3` threads through a
range, empty at its first date; `Classify` is the row; `ClassifyLatest` is the
daily run, a backfill of the newest day all candle sources have reached.
`WindowOf`, in the properties, is what the window of a day should be, by
counting trading days and not by threading.

### EdgarIngest

Filings are numbered in the order EDGAR accepts them, and a hit of some does not
parse. `Pages` says which hits a script gets: the newest `Cap`, or, for the
scripts that page, whole pages for as long as they parse to full ones. `RowsBuilt`
says which of the parsed ones get a row: any subset, since the scripts pass
over a filing whose body they cannot fetch (`_xml_for` of the Form 4 script: a line
on stderr, no row, a good exit) and build none for one that holds nothing their
table keeps (an 8-K without the items asked for). `DailyRun` is
the daemon's spawn with its window of two days and its warning, which knows how
many filings parsed and not how many got a row; `DailyRunFails`
a script that is killed after its insert; `Catchup` the command the warning
names, which reads the same search over a longer window. `quietUpTo` and `skipped`
are history: how many filings there were at a day's last run without a warning,
and which of them that run parsed and left without a row.

### PassStreak

`trades` are the closed trades, each stamped with the bar it was closed on; `table`
holds for a day the worst of its verdicts and the run that gave it, which is the
version the replacing table keeps the highest of (`Supersede`). A run reads the trades
and judges its day by them (`LoadTrades`; `verdict` is `todaysVerdicts`), writes the
day's row (`WriteDay`, whose error is swallowed), and reads the days back (`ReadHistory`), or falls back (`FallBack`) because it has no table or cannot
read it. Runs overlap, repeat and are missed. A2 looks at all trades, A4 and
A5 at a window; B1 always passes in the code, A3 is over all trades like A2, and
A4 is its number of trades here and not its correlation. `Rolling` judges past days by
the trades of today, as `buildRollingAsofTrailing30` does.

### CellWeights

Runs are numbered by their start, which is the key their row is read by, and may
overlap. `ReadPriorTier` is the query for the newest row that is not degraded,
`ReadPriorFails` its catch block, which counts as no tier; `ResolveCellWeights` and
`FallBack` are the two ends of `resolveCellWeightsForRun`; `PersistRow` comes after the
per-cell loop, or never. How much the sample allows is a choice; `unseen` is
history: a run has missed a tier on file, by overlap or by a failed read, and
`RatchetHolds` speaks of the time before that.

### WorkerPool and Watcher

`WorkerPool` has the pool's own state, and what it does not know: which worker
holds which job, and whose thread is alive. `Dispatch` is the loop of
`dispatch()`, shared by `Enqueue` and `Answer` as in the code. `Die` is the
`error` event: it is logged and nothing else, so that the job stays in flight and
an idle dead worker is still handed jobs.

`Watcher` is `bootstrap`, the first backfill, and ticks that do not overlap: the query
of the universe (`QueryUniverse`) hands a batch to the pool, `EndTick` moves the
markers when its promise is kept. Candles and time move between any two steps;
workers read the candles when they start on a job and, when they answer, have run the
backtest (`WorkerAnswers`, their row stored or not) or tell that it failed
(`WorkerFails`: the catch of `runOneCell`, or fewer than 50 candles). `EndTick` moves
the markers of failed cells too, as the worker's own comment says
(`batch_backtest_worker.ts:83`). `Failing` names the cells that may fail. Bundles are
activated while the watcher runs; that one is deactivated is left out.
`Restart` loses everything but the tables. One interval is modelled; the code
handles several in one tick and shares nothing between them but the pool.
`ranOn`, `seen` and `failed` (which cells of the batch have told the tick that they
failed) are history.

## 3. Runs

| Run | Bounds | What it shows |
| --- | --- | --- |
| `daily_tables` | see below | the ladder's early recovery, pauses, kill and refinement of `LadderCounter`; regime rows that never overstate their day; streaks that were observed |
| `daily_steps` | see below | the alerter's accounts and delivery, the ingest's pages and warning, the halt switch, the weights' ratchet, and that the ladder is climbed when losses end |
| `stage_machine` | 6 starts or commands, 1 touch, history of 4, stays of 1 day, timers of 2 | halts, timers, promotions, the rollback count and the sentinel, for every interleaving of run and operator |
| `ledger_calm` | 2 tokens, 4 bars, 2 faults of block, drop, unsized | the ledger implements `TradeLifecycle`, and every open row is watched |
| `ledger_faults` | 2 tokens, 4 bars, 2 faults of all five kinds | no row of a held position is closed by a run that is not halted; an entry is recorded or over; a watched exit closes the newest open row |
| `watcher` | 3 bundles, 1 token, 2 cells that may fail, 2 workers, 2 instants, 1 restart | the pool's accounts and promise, markers that wait for their backtests or for the word that they failed, batches that end |
| `halt_closes_positions` | 1 halt | disagreement, see below |
| `missed_close` | 1 abort | disagreement |
| `halt_without_evaluation` | 4 starts | disagreement |
| `regime_drift` | 3 days, no faults | disagreement |
| `watcher_marker` | 3 bundles, 1 token, no failing cells, 2 instants, no restart | disagreement |
| `streak_fallback` | 3 days, 3 trades, 2 runs, trailing 3 days, windows of 1 | disagreement |

`daily_tables` and `daily_steps` each hold modules side by side of which one moves
in each behaviour (`part`), so that the states are their sum and not their product; each
reachable state of each module is reached. Their bounds: `DrawdownLadder` 5 rows, 2
days, a history of 2, exits after 2 (level 4: 3); `MacroRegime` 3 days, 3
categories of which one is not waited for, a window of 2 days where 3 categories
make a red day, and one late or missing bar; `PassStreak` 4 days, 2 trades, 2 runs,
trailing 3 days, windows of 1. `QuarantineAlerter` 4 rows, cap 2, 2 faults;
`EdgarIngest` pages of 2, windows of 2 and 4 days, 3 days and 4 filings;
`HaltSwitch` 2 runs and 3 faults; `CellWeights` 4 runs; `LadderCounter` the code's
own thresholds and days, with one loss per level and per exit band.

Why these bounds are enough. In `DrawdownLadder` the tables keep the shape of
the portfolio's (levels 1 and 2 leave at the same loss, level 4 takes longest),
and five rows are a deepening, a recovery interrupted by a relapse, and a second
recovery; a history of two is the smallest that does not cut a count of three
short, so truncation does happen from the third row on. The theorems of section 5
remove these bounds for safety. In `stage_machine` six
instants hold a rollback, a second, a third decision, a halt, its clearing and a
promotion; `RestartStages` contains stage 3, so that stage 4 and its failure are
reached within them, and `DrawdownLevels` has one level on each side of stage 3's
fail event. In the ledger two tokens are needed for an abort between two inserts,
and four bars for an entry, an exit, a second entry and its exit. In the alerter
four rows and a cap of two leave rows waiting over a run. Three cells for two
workers are a queue behind a full pool and a last answer beside another in
flight, two failing ones of three are a failure beside a run and one beside
another failure, and two instants separate a tick's start from its end. Four filings are
two full pages, three days a window that has been left; three days hold a window
of two, the day after it, and a hole between; three faults kill a run, fail a
monitor and fail its emergency file; four runs are two that overlap, one whose
row they decide on, and an outage. In `PassStreak` two runs overlap, repeat a day or
leave a day between them, and four days are a streak with a hole; two trades
are one inside and one before a window, without which A5 says nothing. Longer
streaks would need more runs and are made of the same steps.

`CHECK_DEADLOCK FALSE` stands where a clock, a number of bars or a number of rows
is bounded and the model comes to its end there; the program does not stop. In
`watcher` it also stands for something the program can do: with all workers dead
the watcher waits at its `await` for ever, which `BatchesEnd` names as its
exception.

### Fairness

The daemon is started every day by a scheduler, and a run that meets no fault
goes on to its end. That is `WF_vars(RunStep)` in `TradeLedger` and
`QuarantineAlerter`, weak fairness of `DayPasses` and of evaluations in
`LadderCounter`, and in `HaltSwitch` weak fairness of the scheduled run's start, when no
file forbids it, and of its steps; the run started by hand has none. The watcher is an event loop that goes on,
and a live worker thread goes on with its job: weak fairness of `WatcherStep` and
of each worker's steps. No fairness is assumed of bars, operators, detections or faults.
Faults are bounded by `MaxFaults`: a ClickHouse that is down for ever lets
nothing happen ever, and the properties are about what follows once it is up.
`CalmClearsLadder` assumes in its premise that losses end.

### Disagreements between code and documentation

Each has a run that shows it; the lines are quoted under `findings`.

1. *A halted run closes positions.* The halt zeroes the capital the strategies are
   replayed with, so every held token reads flat and its row is closed at the day's
   price. The stage specification says open positions continue as normal.
2. *An aborted run can leave a row open for ever.* If the entry landed and the
   position is left before the retry, the retry sees flat and flat.
3. *A halt on file does not hold a run whose stage evaluation fails.* Only the
   sentinel file is consulted then.
4. *The daily regime row is not the backfill's.* The daily run backfills one day,
   and the threading of prior days starts empty there: the five-day union of a
   daily row is that of its own day.
5. *A candle can be overtaken by its token's marker.* The marker moves to the
   tick's start instead of the newest candle seen: candles stored meanwhile, and
   cells left out on cooldown beside one that ran, are not dirty afterwards.
6. *The fallback of the streak is not stricter.* Without the table of verdicts, past
   days are judged by today's trades, and the windows of A4 and A5 have no last day: a
   later gain makes a day pass that is on file as failing. The documentation calls
   the fallback conservative, never a false positive.

Smaller ones seen while modelling, without a run of their own. `daemon:daily:dry`
promises no ClickHouse writes (`daily_signal_daemon.ts:209`), but the drawdown and
stage blocks write in a dry run. The framework's exit days are consecutive days;
the code counts rows, so that repeated runs count and missed days do not
interrupt. "Each row alerts exactly once" (`daily_signal_daemon.ts:1056`) cannot
hold with two calls: `RepeatsArePaidFor` is what does. Rows over the alerter's cap
roll over to the next cycle, but only if newer rows do not fill it: newest first,
they are guaranteed to be sent only once rows stop coming, which is what
`EveryRowIsAlerted` says with a bounded number of rows. An entry skipped by the
gate is stored as long and has no row. ADR-039 (`docs/decisions/README.md:4286`) and the stage specification (`:98`, `:568`) halt
on the second failure in a row; `priorTwoNonPromoteRowsAreRollbacks` asks for two
rollbacks before the failure at hand, so the third halts, as `NoThirdRollback` states it.
A level-3 drawdown event is lost on the stage machine if the run that writes the
level-3 row fails its stage evaluation: the next run finds level 3 as the prior
level (`daemon_live_trades.ts:1281`). The window of two days is said to survive
one missed daemon cycle (`daemon_edgar_ingests.ts:33-38`); filings accepted after
the last run of a day are lost if the next day has none. The same header says
that the helpers do not page; those of the Form 4 and 13D/G scripts now do. A hit that does not parse
on a full page makes `parsed` fall short of the cap, so that neither the
warning nor the next page comes. Failures are said to "surface as `warning`
anomalies" (`daemon_edgar_ingests.ts:83-84`); that a body could not be fetched does
not (`sec_edgar_form4_ingest.py:1033-1038`): the script exits well with the number
it parsed, the filing has no row, and only a later run over the same days brings
it. `_sec_edgar_helpers.py:517` records a run of which 99 filings parsed and none
got a row. A cell whose backtest failed is marked like one that ran, and waits for
a newer candle, although new candles are to re-run all bundles
(`NewCandlesAreDirty` is about the other ways to miss one: its run has no failing
cells). The catch-up command reads the newest page
first, and may fetch what was there. A bundle activated while the watcher runs is
to run "across every token on the next bundle-refresh tick"
(`watch_candles.ts:12-13`); it runs on dirty tokens only. A failed read of the
prior tier counts as none, and a run that then goes well writes a lower tier
under which the ratchet starts anew, although it is "ratchet-up only"
(`correlation-weighted-per-cell-allocation.md:81`). If the write of today's verdicts
fails, the code reads the history without them, so that today's failing criteria
are not among those that hold a promotion (`TodaysFailIsSeen` excepts this); the
specification of the table (`kill-criteria-daily-history.md:323-327`) has the run fall
back to the rolling evaluation then, which would see them.

## 4. Assumptions

- One daemon run at a time in `StageMachine`, `TradeLedger` and
  `QuarantineAlerter`: the scheduler starts one a day, although nothing in the
  code locks. `HaltSwitch`, `CellWeights` and `PassStreak` let runs overlap.
- A backfill of the regime rows is one step in `MacroRegime`, its reads and its inserts
  together, as the daily run is: no fetch falls between them.
- A ClickHouse insert or query is atomic, and a query sees every insert before it
  (`FINAL`, one node).
- `defaultStageHaltSentinelReader` sees the file. It calls `require` inside a `try`
  that returns false, in a package of ES modules; should `require` be missing in
  the way the daemon is started, `run.seen` is always false.
- Time is in days in `StageMachine`: its instants are the starts of runs and the
  writes of the command, in order.
- The strategy's answer is a function of candles that only grow: a position is
  entered at the newest bar and not re-entered within the bar of its exit.

## 5. Proofs

Proved with TLAPS for every value of the constants that satisfies the module's
assumption, which TLC evaluates on the instances:

| Assumption | Says |
| --- | --- |
| `LadderAssumption` | exit losses not above entry losses, a history limit of at least one |
| `AlerterAssumption` | a cap of at least one |
| `StageAssumption` | stays of at least a day, a history limit of at least one |
| `LedgerAssumption` | finitely many tokens, faults of the five kinds |
| `HaltAssumption` | the scheduled run is one of the runs |
| `EdgarAssumption` | a page size, a catch-up window and a number of days of at least one |
| `PoolAssumption` | finitely many workers, and `NoJob` is no job |
| `WatcherAssumption` | finitely many jobs, which are the cells of all bundles and tokens, failing ones among them, and a last instant |
| `WeightsAssumption` | `MaxStarts` is a number |
| `StreakAssumption` | at least one trailing day and one day, and whole gains |
| `RegimeAssumption` | finitely many categories, counts that are numbers, a window of at least one day |
| `PauseAssumption` | the ladder's pause is a number of days |

| Theorem | Statement |
| --- | --- |
| `LadderTypeCorrect`, `LadderNoEarlyRecovery`, `LadderPauseIsWhole`, `LadderKillIsFinal` | the ladder's four invariants in `daily_tables` |
| `LadderImplementsCounter` | its refinement of `LadderCounter`, if `ExitDays[k] <= HistoryLimit + 1` at every level that is left by recovery |
| `AlerterTypeCorrect`, `AlerterRecordsWhatItSent`, `AlerterRepeatsArePaidFor` | the alerter's three invariants in `daily_steps` |
| `StageTypeCorrect`, `StageHaltHolds`, `StageSentinelBlocks`, `StagePromotionIsEarned`, `StageNoThirdRollback` | five of the six invariants of `stage_machine` |
| `StageRevalidationRespected` | the sixth, if `RevalDays <= HistoryLimit` |
| `StageHaltStopsEvaluatedRuns` | what holds in place of the third disagreement: past a halt on file a run is sized only if its stage evaluation failed and no sentinel is on disk |
| `LedgerTypeCorrect`, `LedgerKeepsHeldPositions` | `TypeOK` and `HeldPositionStaysOpen`, for all five kinds of fault |
| `LedgerRecordsBeforeStoring` | live_signals never runs ahead of live_trades: a token stored as long becomes flat only if each open row of it has a later closed one (its last row is closed, or it had none), and a flat one long only if its newest open row is that of its position, or the run skipped it; for all five kinds of fault |
| `LedgerWatchesOpenRows` | `OpenRowsAreWatched`, if aborts are not among the faults |
| `LedgerImplementsLifecycle` | the refinement of `TradeLifecycle`, if neither halts nor aborts are |
| `HaltTypeCorrect`, `HaltStaysOnFile`, `HaltStopsRuns` | the halt switch's type (part of `StepTypesOK`) and its two invariants in `daily_steps` |
| `IngestTypeCorrect`, `QuietRunsAreWhole` | the ingest's type and its invariant there, whatever rows the scripts build |
| `WeightsRatchetHolds` | the ratchet's |
| `StreaksAreObserved`, `StreakSeesTodaysFail` | the streak's two properties in `daily_tables` |
| `RegimeNeverOverstated`, `BackfillsAreReference`, `DailyRowsAreComplete` | the regime rows' three invariants in `daily_tables` |
| `LaterStartsOnlyHide` | what holds of the daily regime row in place of the fourth disagreement: of two ranges, the one that begins later gives a day the same categories of its own, no more of the days before it, and the same regime unless the other says red |
| `StepTypesCorrect`, `TableTypesCorrect` | `StepTypesOK` and `TableTypesOK`, of the compositions |
| `StepsImplementTheirSpecs`, `TablesImplementTheirSpecs` | a run of `MCDailySteps` or `MCDailyTables` is a run of every module in it, so that the theorems about each hold of what TLC explores |
| `PoolKeepsAccounts`, `PoolResolvesDrained` | the pool's accounts and promise by itself, for `PoolSpec` |
| `WatcherTypeCorrect`, `WatcherKeepsAccounts`, `WatcherMarksWhatRan` | `TypeOK`, `PoolAccounts` and `MarkedCellsHaveRun` of `watcher`, with restarts, dying workers and any set of failing cells |
| `LadderInvariant`, `AlerterInvariant`, `PoolInvariant`, `WatcherInvariant`, `WeightsInvariant`, `StreakInvariant`, `RegimeInvariant` | the inductive invariants the theorems of their module follow from |

*The ladder.* `NoEarlyRecovery` says that no level is left before its exit days
are over, counted in rows from the last breach. To step from level `k` the code
needs `ExitDays[k]` calm rows at `k`, counted in the loaded history. The
lemma behind the step is that a row with a breach of `k` is not calm for `k` (this
is where exit losses at or below entry losses are needed), so that the calm run
lies after it and its length bounds the distance. Truncation can only make the
loaded run shorter, hence no assumption on `HistoryLimit` is needed for safety. The
refinement needs one, `ExitDays[k] <= HistoryLimit + 1`: then a loaded calm run is the
whole one or fills the history, and a full history plus the loss at hand is enough
for the step (`LoadedCalmRun`); the entry stamp is the age's beginning
(`StayHasBegun`). The code loads 30 rows for exits after five and ten days. Besides this the invariant has
`BreachIsActedOn` (a row is as deep as its own loss demands), `KillIsTerminal`,
`RowsArePast`, and `StayIsUnbroken`: a row at another level is no later than the
entry stamp of the last stay. The pause follows from the last two, and
`KillIsFinal` from the first two. Neither of these two is inductive by itself.

*The alerter.* The invariant that makes `RepeatsArePaidFor` inductive is
`NextIsPaidFor`: a row that is in the queue, or may get there because the sidecar
lacks it, has been sent at most `faults` times, save for the row between its send
and its record. `RecordingIsSent` carries the fact that a send came first across
the two calls, and `QueueIsLeft` that there is a row to speak of.

*The stage machine.* The table is not in the order of its instants: the row of a
run carries the run's start and may land after the row of a command that started
later. `OverlapInv` says how far that goes. The only rows later than a run under way
are `clear-halt`s, and there is at most one; a command that has seen a halt finds it
standing until its own row lands; a run about to write beside a standing halt
writes a halt itself. So the rows a decision is appended to are the ones it was
made from, save for that one `clear-halt`, and every property of the history is
proved by the same case split: `StepsOfTheTable` classifies the steps by what they do
to table, run, command and file, and `HaltInv`, `PromotionInv`, `RevalidationInv`,
`ClearedInv` and `RollbackInv` each need to look at the decision and the landing of a
row only. The revalidation timer is found in the loaded rows, hence the assumption
of `StageRevalidationRespected`: a history shorter than the timer forgets it.
`SizedInv` carries the order of rows on to the sizing: the row of an evaluated run is
still the newest but `clear-halt`s, so that a halt on file is the run's own.

*The ledger.* `HeldPositionStaysOpen` follows from `ExitsAreReal`: outside a halt, what
a run is about to close is of a token that holds nothing. Without aborts,
signals and rows move in step, and `CalmInv` says how: the row of a held
position is not closed but by a halt (`RowsFollowSignals`), a token has at most one
open row (`OneOpenRow`), what a run has found and still has to write agrees with the
rows (`RunKnowsRows`), and between runs every open row is of a token stored as long
(`WatchedWhenIdle`). From it, and without halts, each step is one of `TradeLifecycle`
or a stutter.
With aborts a token may have several open rows, and `OpenRowsAreWatched` fails. What
every fault leaves true is the order of the writes: `RunWritesFirst` says, of each
token a run has evaluated and of each change of its state, that the row is
still to be written, has been written, or was skipped, and that nothing is left to
write when the states are stored. The row it opens is the newest one only because
no row is newer than the position held (`RowsAreOfThePast`). The theorem is the
safety half of `EntryIsRecorded` and `WatchedExitIsRecorded`: nothing is forgotten on
the way; that a run comes is left to fairness.

*The halt switch.* `HaltIsOnFile` is inductive with the type invariant: the only steps
that could break it are those that end a run, and they do not end one that has
still to write. `NoRunThroughHalt` then needs only that a run enters by the
pre-flight check.

*The ingest.* `QuietRunIsWhole` is inductive with the type invariant, because filings
are only appended and the table only grows: a quiet run parsed less than a
full page, so its pages were the window, each filing of it has a row or is in `skipped`,
and later filings come after its count. It does not say that a quiet run stored
its window: that is false when a body cannot be fetched. What it excludes is that a
filing is missing that the run never read.

*The pool.* `PoolInv` joins the accounts (the count of jobs in flight is the number of
workers that hold one, each worker is in one place, and a job waits only while no
worker is idle), `ResolvedIsDrained` and `StartsEmpty`. The set of busy workers changes
by one at a time, which is where finitely many workers are needed.

*The watcher.* `WatchInv` follows the cells of a batch: while a tick waits for its
batch, each of its cells waits in the queue, is at a worker that has read or not,
or has been run on the candles the query saw, or has answered that it failed; the
pool is posted to only when it is drained, so that batches never mix; and markers move only at the end of a tick. A
cell on cooldown is in no batch, and `MarkedCellsHaveRun` does not speak of it.

*The weights.* Runs overlap, so a row may land under a row that is already there.
The invariant says of a run that has read and not yet written that its reading
covers every row below its own (`ReadCovers`, for as long as no run has missed a
tier on file) and that it chose no tier below its reading (`ChosenAbove`); with one
row per run at most (`OneRowEach`) the ratchet follows.

*The streak.* `StreakIsObserved` speaks of one step and `TodaysFailIsSeen` of a run
after its read; neither is inductive. The invariant is that each day's row is that
of the last run, by start, whose write has landed on it (`TableIsLatest`), kept by a
slow run that lands below a quicker one because the table replaces by start. A run
that has not written has not landed (`LandedHasWritten`), and once landed keeps its
verdict. With `StreakIsLeading`, that the count is the length of the leading run of
passing days, what is read back is what was observed. What a verdict is made of
plays no part, so both hold for any criteria.

*The regime rows.* The days a range's loop carries are a recursive function of the day
(`Priors`). The library's induction takes an operator as a parameter and cannot be
used, so both facts about the loop are shown by the first day that breaks
them (`LeastNatural`): a function as the loop's turns describe it exists
(`ThreadsExist`), which makes `Priors` one; and on every day it holds what fired on
the trading days before, of those in the range and within the window, each at
the place that its distance in trading days says (`Carries`, `PriorsCarry`). `RangeRow`
follows: a row names the categories that fire on the days of its window that
lie in the range. `BackfillIsReference` is this for ranges that hold the window,
`LaterStartOnlyHides` for two ranges, one inside the other.
That a row stays justified once written needs more than that: bars arrive after
it. `BarsAreWhole` says that a source has every bar up to some day, but for its
holes, so that a fetch adds bars behind the last and none between: the window of a
day that has a bar never changes, and what fires in it does not stop. Without it
a late bar of the calendar could push a day out of a window whose row is on file.
`NeverOverstated` is inductive with it and with `RowsAreOfTradingDays`.
`DailyRowIsComplete` needs `BarsAreWhole` too: a source whose newest bar is not before
a day lacks that day only for good.

*The compositions.* Each moves one component and leaves the variables of the others
alone, so that a step of it is a step or a stutter of each.

Only model-checked: all liveness (`EveryRowIsAlerted`, `EntryIsRecorded`,
`WatchedExitIsRecorded`, `BatchesEnd`, `BreachHalts`, `CalmClearsLadder`,
`Level3Reopens`), which is out of the prover's reach, as `ENABLED` is; and the
disagreements. `CalmClearsLadder` and `Level3Reopens` are about `LadderCounter`,
which loads no rows; that the code's ladder, whose history is cut, is that counter is
`CounterSpec`. No module uses a `RECURSIVE`
operator.

## 6. Not modelled

The models cover the state that outlives a step, and a small part of the lines: most
of the repository's files read a table and render it, fill a table row by row from
one day's data, or compute numbers, and keep nothing from one call to the next that
another actor could find half done. Left out are:

- *the statistics of the kill criteria*: A3's drawdown and A4's correlation over
  closed trades. `HaltSwitch` takes a verdict as a choice; `PassStreak` has A2, A4's
  count and A5 over small ledgers;
- *paper broker*: no caller in the daemon yet; planned;
- *indicators, backtests, correlations, allocation*: real arithmetic on candles, of
  which the models take the answers as choices (`Evaluate` in `TradeLedger`, `firings`
  in `MacroRegime`, the allowed tier in `CellWeights`);
- *cross-asset, insider, 13D/G and calendar signals*: functions of one day's data;
- *the other ingests and the health scripts*: one request, one insert, run again the
  next day. Their failures reach the models as missing tokens, bars that come
  late, and rows of `health_quarantine`;
- *brief, dashboards, web UI*: they only read.

Within the modelled parts, sizing multipliers, dollars per cell, fees, exit
reasons, messages, operator flags that only pick a range, and the probes for tables that do not exist yet are left out: no later step of the
modelled state reads them.

## 7. Plan

Done: the modules of section 2, the ladder first because every entry depends on
it, then stages, ledger and alerter, then halt switch, regime, ingest, weights,
watcher and streak; and the proofs of section 5.

Next, in this order:

1. `CellGate`: portfolio and strategy gates composed per cell
   (`composeCellDrawdownEffective`), with evaluations that fail half way.
2. `DailyRun`: ladder, stages, gate and ledger of one cell composed, so that the
   halts and blocks `TradeLedger` takes as choices come from the modules that decide
   them.
3. `PaperBroker`: idempotency across the await of the price, once the daemon calls it.
