-------------------------------- MODULE Watcher --------------------------------
(***************************************************************************)
(* The candle watcher: every few minutes it asks for the newest candle of  *)
(* every token, and runs every bundle's backtest again on the tokens that  *)
(* have a newer one than its marker says, except cells that have just run. *)
(* The backtests go through the worker pool; ticks do not overlap.         *)
(*                                                                         *)
(* A candle is known by the time its bar opened.  Candles are written by   *)
(* other programs at any moment, time passes between any two steps, and    *)
(* bundles are added while the watcher runs; that one is deactivated is    *)
(* left out.  A cell is a bundle and a token, and its run may fail; one    *)
(* interval is modelled, since intervals share nothing.                    *)
(***************************************************************************)
EXTENDS WorkerPool, SequencesExt

CONSTANTS
  Bundles, Tokens,
  Failing,      \* cells whose run may fail
  Cooldown,     \* time a cell is left alone after a run
  MaxTime,      \* bound: time, and so candles
  MaxRestarts   \* bound: restarts of the watcher

CellsOf(B, T) == B \X T

ASSUME WatcherAssumption ==
  /\ IsFiniteSet(Jobs) /\ Jobs = CellsOf(Bundles, Tokens)
  /\ Failing \subseteq Jobs
  /\ MaxTime \in Nat \ {0} /\ MaxRestarts \in Nat

VARIABLES
  clock,
  newest,      \* candles: token -> opening time of its newest bar, 0 if none
  strategies,  \* bundles that are active in the table
  btRuns,      \* bt_runs: cell -> when its newest row was started, 0 if none
  pc,          \* where the watcher is
  bundles,     \* bundles it has loaded
  lastSeen,    \* lastSeenMaxTs: token -> marker, 0 if none
  lastRunAt,   \* cell -> when it was last run, 0 if never
  now,         \* the tick's time
  batch,       \* the cells it has enqueued
  seen,        \* token -> the newest candle its query returned
  reading,     \* worker -> start and newest candle of the run under way
  ranOn,       \* cell -> the newest candle a worker ran it on
  failed,      \* cells of the batch whose run failed, as their answers said
  restarts

watchVars == <<clock, newest, strategies, btRuns, pc, bundles, lastSeen,
               lastRunAt, now, batch, seen, reading, ranOn, failed, restarts>>
vars == <<poolVars, watchVars>>

Times == 0 .. MaxTime
NotRead == [at |-> 0, candle |-> 0]

TypeOK ==
  /\ PoolTypeOK
  /\ clock \in 1 .. MaxTime
  /\ newest \in [Tokens -> 0 .. clock]
  /\ strategies \subseteq Bundles /\ bundles \subseteq Bundles
  /\ btRuns \in [Jobs -> 0 .. clock]
  /\ pc \in {"boot", "starting", "backfill", "idle", "query", "running"}
  /\ lastSeen \in [Tokens -> 0 .. clock] /\ lastRunAt \in [Jobs -> 0 .. clock]
  /\ now \in 0 .. clock
  /\ batch \subseteq Jobs
  /\ seen \in [Tokens -> 0 .. clock]
  /\ reading \in [Workers -> [at : 0 .. clock, candle : 0 .. clock]]
  /\ ranOn \in [Jobs -> 0 .. clock]
  /\ failed \subseteq Jobs
  /\ restarts \in 0 .. MaxRestarts

-------------------------------------------------------------------------------
\* The universe query returns the tokens that have candles.
Universe == {t \in Tokens : newest[t] # 0}

\* Dirty: never marked, or newer than the marker.
Dirty == {t \in Universe : lastSeen[t] = 0 \/ newest[t] > lastSeen[t]}

OnCooldown(c) == lastRunAt[c] > 0 /\ now - lastRunAt[c] < Cooldown

ToRun == {c \in CellsOf(bundles, Dirty) : ~ OnCooldown(c)}

-------------------------------------------------------------------------------
Init ==
  /\ PoolInit
  /\ clock = 1
  /\ newest = [t \in Tokens |-> 0]
  /\ strategies \in SUBSET Bundles
  /\ btRuns = [c \in Jobs |-> 0]
  /\ pc = "boot" /\ bundles = {}
  /\ lastSeen = [t \in Tokens |-> 0]
  /\ lastRunAt = [c \in Jobs |-> 0]
  /\ now = 0 /\ batch = {}
  /\ seen = [t \in Tokens |-> 0]
  /\ reading = [w \in Workers |-> NotRead]
  /\ ranOn = [c \in Jobs |-> 0]
  /\ failed = {}
  /\ restarts = 0

PassTime ==
  /\ clock < MaxTime
  /\ clock' = clock + 1
  /\ UNCHANGED <<poolVars, newest, strategies, btRuns, pc, bundles, lastSeen,
                 lastRunAt, now, batch, seen, reading, ranOn, failed, restarts>>

\* A backfill or feed stores a bar that has opened by now.
NewCandle ==
  /\ \E t \in Tokens : \E ts \in (newest[t] + 1) .. clock :
       newest' = [newest EXCEPT ![t] = ts]
  /\ UNCHANGED <<poolVars, clock, strategies, btRuns, pc, bundles, lastSeen,
                 lastRunAt, now, batch, seen, reading, ranOn, failed, restarts>>

\* A bundle is activated in the dashboard.
Activate ==
  /\ \E b \in Bundles \ strategies : strategies' = strategies \cup {b}
  /\ UNCHANGED <<poolVars, clock, newest, btRuns, pc, bundles, lastSeen,
                 lastRunAt, now, batch, seen, reading, ranOn, failed, restarts>>

\* bootstrap: markers from the candles, run times from bt_runs; then the pool.
Bootstrap ==
  /\ pc = "boot" /\ strategies # {}
  /\ bundles' = strategies
  /\ lastSeen' = newest
  /\ lastRunAt' = [c \in Jobs |-> IF c[1] \in strategies THEN btRuns[c] ELSE 0]
  /\ pc' = "starting"
  /\ UNCHANGED <<poolVars, clock, newest, strategies, btRuns, now, batch, seen,
                 reading, ranOn, failed, restarts>>

\* The cells of the universe as it was loaded that have no run on record.
StartBackfill ==
  /\ pc = "starting" /\ Started
  /\ batch' = {c \in CellsOf(bundles, {t \in Tokens : lastSeen[t] # 0}) :
                 lastRunAt[c] = 0}
  /\ pc' = IF batch' = {} THEN "idle" ELSE "backfill"
  /\ IF batch' = {} THEN UNCHANGED poolVars ELSE Enqueue(SetToSeq(batch'))
  /\ seen' = lastSeen
  /\ UNCHANGED <<clock, newest, strategies, btRuns, bundles, lastSeen,
                 lastRunAt, now, reading, ranOn, failed, restarts>>

EndBackfill ==
  /\ pc = "backfill" /\ ~ waiting
  /\ lastRunAt' = [c \in Jobs |-> IF c \in batch THEN clock ELSE lastRunAt[c]]
  /\ batch' = {} /\ failed' = {}
  /\ pc' = "idle"
  /\ UNCHANGED <<poolVars, clock, newest, strategies, btRuns, bundles, lastSeen,
                 now, seen, reading, ranOn, restarts>>

\* tick, up to the first query: the bundles are loaded again now and then.
BeginTick ==
  /\ pc = "idle"
  /\ bundles' \in {bundles, strategies}
  /\ now' = clock
  /\ pc' = IF bundles' = {} THEN "idle" ELSE "query"
  /\ UNCHANGED <<poolVars, clock, newest, strategies, btRuns, lastSeen,
                 lastRunAt, batch, seen, reading, ranOn, failed, restarts>>

\* The query, the dirty tokens, and the cells that are not on cooldown.
QueryUniverse ==
  /\ pc = "query"
  /\ batch' = ToRun
  /\ seen' = newest
  /\ pc' = IF ToRun = {} THEN "idle" ELSE "running"
  /\ IF ToRun = {} THEN UNCHANGED poolVars ELSE Enqueue(SetToSeq(ToRun))
  /\ UNCHANGED <<clock, newest, strategies, btRuns, bundles, lastSeen,
                 lastRunAt, now, reading, ranOn, failed, restarts>>

\* The query fails: the interval is left out of this tick.
QueryFails ==
  /\ pc = "query"
  /\ pc' = "idle"
  /\ UNCHANGED <<poolVars, clock, newest, strategies, btRuns, bundles, lastSeen,
                 lastRunAt, now, batch, seen, reading, ranOn, failed, restarts>>

\* The batch has drained: the markers of its tokens and cells move to the
\* tick's time, whatever the workers answered.
EndTick ==
  /\ pc = "running" /\ ~ waiting
  /\ lastSeen' = [t \in Tokens |-> IF \E c \in batch : c[2] = t
                                     THEN now ELSE lastSeen[t]]
  /\ lastRunAt' = [c \in Jobs |-> IF c \in batch THEN now ELSE lastRunAt[c]]
  /\ batch' = {} /\ failed' = {}
  /\ pc' = "idle"
  /\ UNCHANGED <<poolVars, clock, newest, strategies, btRuns, bundles, now,
                 seen, reading, ranOn, restarts>>

-------------------------------------------------------------------------------
WorkerReady(w) == Ready(w) /\ UNCHANGED watchVars

\* The worker starts on its job: it reads the candles there are.
WorkerReads(w) ==
  /\ w \in alive /\ busy[w] # NoJob /\ reading[w] = NotRead
  /\ reading' = [reading EXCEPT ![w] = [at |-> clock, candle |-> newest[busy[w][2]]]]
  /\ UNCHANGED <<poolVars, clock, newest, strategies, btRuns, pc, bundles,
                 lastSeen, lastRunAt, now, batch, seen, ranOn, failed, restarts>>

\* It answers when it has run the backtest; its row is stored unless it had too
\* few trades or the insert failed, which the answer tells too.
WorkerAnswers(w) ==
  /\ reading[w] # NotRead
  /\ Answer(w)
  /\ reading' = [reading EXCEPT ![w] = NotRead]
  /\ ranOn' = [ranOn EXCEPT ![busy[w]] = reading[w].candle]
  /\ btRuns' \in {btRuns, [btRuns EXCEPT ![busy[w]] = reading[w].at]}
  /\ UNCHANGED <<clock, newest, strategies, pc, bundles, lastSeen, lastRunAt,
                 now, batch, seen, failed, restarts>>

\* It answers with an error in place of a run: the candles could not be read, or
\* were too few, or the strategy threw.
WorkerFails(w) ==
  /\ busy[w] \in Failing
  /\ Answer(w)
  /\ reading' = [reading EXCEPT ![w] = NotRead]
  /\ failed' = failed \cup {busy[w]}
  /\ UNCHANGED <<clock, newest, strategies, btRuns, pc, bundles, lastSeen,
                 lastRunAt, now, batch, seen, ranOn, restarts>>

WorkerDies(w) == Die(w) /\ UNCHANGED watchVars

\* The process is stopped, in whatever state, and started again.
Restart ==
  /\ restarts < MaxRestarts /\ pc # "boot"
  /\ restarts' = restarts + 1
  /\ pc' = "boot"
  /\ starting' = Workers /\ alive' = Workers
  /\ idle' = <<>> /\ queue' = <<>>
  /\ busy' = [w \in Workers |-> NoJob]
  /\ inFlight' = 0 /\ waiting' = FALSE
  /\ bundles' = {} /\ batch' = {} /\ now' = 0
  /\ lastSeen' = [t \in Tokens |-> 0] /\ lastRunAt' = [c \in Jobs |-> 0]
  /\ seen' = [t \in Tokens |-> 0] /\ failed' = {}
  /\ reading' = [w \in Workers |-> NotRead]
  /\ UNCHANGED <<clock, newest, strategies, btRuns, ranOn>>

WatcherStep ==
  \/ Bootstrap \/ StartBackfill \/ EndBackfill
  \/ BeginTick \/ QueryUniverse \/ QueryFails \/ EndTick

WorkerStep(w) ==
  WorkerReady(w) \/ WorkerReads(w) \/ WorkerAnswers(w) \/ WorkerFails(w)

Next ==
  \/ PassTime \/ NewCandle \/ Activate
  \/ WatcherStep \/ Restart
  \/ \E w \in Workers : WorkerStep(w) \/ WorkerDies(w)

Spec == Init /\ [][Next]_vars

\* The event loop and every live worker get on with what they have to do.
FairSpec ==
  Spec /\ WF_vars(WatcherStep) /\ \A w \in Workers : WF_vars(WorkerStep(w))
-------------------------------------------------------------------------------
\* No marker moves ahead of the backtests (enqueue is awaited): each cell a tick
\* marks has run on a candle at least as new as the one the tick saw, or its
\* worker has told the tick that the run failed; it is marked all the same.
MarkedCellsHaveRun ==
  pc \in {"backfill", "running"} /\ ~ waiting =>
    \A c \in batch \ failed : ranOn[c] >= seen[c[2]]

\* Unless a worker dies or the process is stopped, a batch comes to an end.
BatchesEnd == pc \in {"backfill", "running"} ~> pc = "idle" \/ alive # Workers

-------------------------------------------------------------------------------
(* What the documentation says and the code does not do.                     *)

\* watch_candles.ts: new candles on an existing token re-run all its bundles;
\* between ticks, a cell last run on an older candle than the newest is dirty.
NewCandlesAreDirty ==
  pc = "idle" =>
    \A c \in CellsOf(bundles, Universe) :
      ranOn[c] \in 1 .. (newest[c[2]] - 1) => c[2] \in Dirty
==============================================================================
