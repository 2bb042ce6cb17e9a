----------------------------- MODULE TradeLedger ------------------------------
(***************************************************************************)
(* One cell of the daily daemon: the strategy is replayed on every token's *)
(* candles, its state is compared with the one stored in live_signals, and *)
(* the differences are written to live_trades, one insert after another,   *)
(* before live_signals is replaced.                                        *)
(*                                                                         *)
(* live_trades is a ReplacingMergeTree: one row per token and entry, the   *)
(* newest insert wins.  Whatever the environment may do to a run costs one *)
(* of MaxFaults: abort it (an insert that throws, with or without having   *)
(* landed, or the process dying), block its entries (the drawdown gate),   *)
(* halt it (the stage machine), leave tokens out of it (missing candles or *)
(* allowlist), or size an entry to less than one share.                    *)
(***************************************************************************)
EXTENDS Integers, FiniteSets

CONSTANTS
  Tokens,
  Faults,     \* those of the five that may happen
  MaxFaults,  \* bound: how many happen
  MaxBar      \* bound: last daily bar

Entries == 1 .. MaxBar
FaultKinds == {"abort", "block", "halt", "drop", "unsized"}

ASSUME LedgerAssumption ==
  /\ IsFiniteSet(Tokens)
  /\ Faults \subseteq FaultKinds
  /\ MaxFaults \in Nat /\ MaxBar \in Nat

VARIABLES
  bar,      \* the newest daily bar
  signal,   \* token -> entry bar of the position the strategy holds, 0 if flat
  prior,    \* live_signals: token -> the state stored by the last run
  trades,   \* live_trades: token -> entry bar -> the row
  faults,   \* faults that have happened
  run       \* the cell's evaluation under way

vars == <<bar, signal, prior, trades, faults, run>>

Statuses == {"absent", "open", "closed"}

\* What evaluateCell found and diffCellStates made of it, and what is left to
\* write.  `current` has an entry for the evaluated tokens only.
Run ==
  [pc : {"idle", "opens", "closes", "persist"},
   evaluated : SUBSET Tokens, current : [Tokens -> Entries \cup {0}],
   newEntries : SUBSET Tokens, newExits : SUBSET Tokens,
   snapshots : [Tokens -> Entries \cup {0}],
   allowed : BOOLEAN, halted : BOOLEAN]

NoRun ==
  [pc |-> "idle", evaluated |-> {}, current |-> [t \in Tokens |-> 0],
   newEntries |-> {}, newExits |-> {},
   snapshots |-> [t \in Tokens |-> 0], allowed |-> FALSE, halted |-> FALSE]

TypeOK ==
  /\ bar \in 0 .. MaxBar
  /\ signal \in [Tokens -> Entries \cup {0}]
  /\ prior \in [Tokens -> {"none", "flat", "long"}]
  /\ trades \in [Tokens -> [Entries -> Statuses]]
  /\ faults \in 0 .. MaxFaults
  /\ run \in Run

-------------------------------------------------------------------------------
\* Mutant: a state live_signals does not know.
StateOfPosition(entry) == IF entry = 0 THEN "flat" ELSE "open"

StateOf(entry) == IF entry = 0 THEN "flat" ELSE "long"

OpenEntries(t) == {e \in Entries : trades[t][e] = "open"}

\* Mutant: of several open rows the first.
OldestSnapshot(t) ==
  IF OpenEntries(t) = {} THEN 0
  ELSE CHOOSE e \in OpenEntries(t) : \A f \in OpenEntries(t) : e <= f

\* loadOpenSnapshotsForCell: of several open rows the last in entry order.
OpenSnapshot(t) ==
  IF OpenEntries(t) = {} THEN 0
  ELSE CHOOSE e \in OpenEntries(t) : \A f \in OpenEntries(t) : f <= e

May(kind) == kind \in Faults /\ faults < MaxFaults

-------------------------------------------------------------------------------
Init ==
  /\ bar = 0
  /\ signal = [t \in Tokens |-> 0]
  /\ prior = [t \in Tokens |-> "none"]
  /\ trades = [t \in Tokens |-> [e \in Entries |-> "absent"]]
  /\ faults = 0
  /\ run = NoRun

\* A new bar: the strategy enters, stays or exits, token by token.
NewBar ==
  /\ run.pc = "idle" /\ bar < MaxBar
  /\ bar' = bar + 1
  /\ \E s \in [Tokens -> Entries \cup {0}] :
       /\ \A t \in Tokens :
            s[t] \in IF signal[t] = 0 THEN {0, bar + 1} ELSE {0, signal[t]}
       /\ signal' = s
  /\ UNCHANGED <<prior, trades, faults, run>>

\* Mutant: tokens that were not evaluated count as flat.
EvaluationOfAll(evaluated, halted, allowed) ==
  LET current == [t \in Tokens |->
                    IF t \in evaluated /\ ~ halted THEN signal[t] ELSE 0]
  IN  [pc |-> "opens", evaluated |-> evaluated, current |-> current,
       newEntries |-> {t \in Tokens : prior[t] = "flat" /\ current[t] # 0},
       newExits |-> {t \in Tokens : prior[t] = "long" /\ current[t] = 0},
       snapshots |-> [t \in Tokens |-> OpenSnapshot(t)],
       allowed |-> allowed /\ ~ halted, halted |-> halted]

\* Mutant: entries are those the ledger lacks, not those live_signals lacks.
EvaluationByLedger(evaluated, halted, allowed) ==
  LET current == [t \in Tokens |->
                    IF t \in evaluated /\ ~ halted THEN signal[t] ELSE 0]
  IN  [pc |-> "opens", evaluated |-> evaluated, current |-> current,
       newEntries |-> {t \in evaluated : current[t] # 0
                                         /\ OpenSnapshot(t) # current[t]},
       newExits |-> {t \in evaluated : prior[t] = "long" /\ current[t] = 0},
       snapshots |-> [t \in Tokens |-> OpenSnapshot(t)],
       allowed |-> allowed /\ ~ halted, halted |-> halted]

\* evaluateCell, loadPriorState, diffCellStates and the open snapshots, given
\* the tokens evaluated and whether the stage machine halts the run: a halt
\* leaves the evaluator no capital, its backtest no trade, every token flat.
Evaluation(evaluated, halted, allowed) ==
  LET current == [t \in Tokens |->
                    IF t \in evaluated /\ ~ halted THEN signal[t] ELSE 0]
  IN  [pc |-> "opens", evaluated |-> evaluated, current |-> current,
       newEntries |-> {t \in evaluated : prior[t] = "flat" /\ current[t] # 0},
       newExits |-> {t \in evaluated : prior[t] = "long" /\ current[t] = 0},
       snapshots |-> [t \in Tokens |-> OpenSnapshot(t)],
       allowed |-> allowed /\ ~ halted, halted |-> halted]

\* The kind of run, and what it costs.
Evaluate ==
  /\ run.pc = "idle"
  /\ \/ run' = Evaluation(Tokens, FALSE, TRUE) /\ UNCHANGED faults
     \/ /\ May("block")
        /\ run' = Evaluation(Tokens, FALSE, FALSE)
        /\ faults' = faults + 1
     \/ /\ May("halt")
        /\ run' = Evaluation(Tokens, TRUE, FALSE)
        /\ faults' = faults + 1
     \/ /\ May("drop")
        /\ \E t \in Tokens : run' = Evaluation(Tokens \ {t}, FALSE, TRUE)
        /\ faults' = faults + 1
  /\ UNCHANGED <<bar, signal, prior, trades>>

\* processCellLiveTrades, opens: the row of an earlier attempt is replaced.
OpenTrade ==
  /\ run.pc = "opens" /\ run.allowed
  /\ \E t \in run.newEntries :
       /\ trades' = [trades EXCEPT ![t][run.current[t]] = "open"]
       /\ run' = [run EXCEPT !.newEntries = @ \ {t}]
  /\ UNCHANGED <<bar, signal, prior, faults>>

\* The entry is counted in the summary and not written.
SkipOpen ==
  /\ run.pc = "opens"
  /\ \E t \in run.newEntries : run' = [run EXCEPT !.newEntries = @ \ {t}]
  /\ \/ ~ run.allowed /\ UNCHANGED faults
     \/ run.allowed /\ May("unsized") /\ faults' = faults + 1
  /\ UNCHANGED <<bar, signal, prior, trades>>

OpensDone ==
  /\ run.pc = "opens" /\ run.newEntries = {}
  /\ run' = [run EXCEPT !.pc = "closes"]
  /\ UNCHANGED <<bar, signal, prior, trades, faults>>

\* processCellLiveTrades, closes: an exit without an open row is skipped.
CloseTrade ==
  /\ run.pc = "closes"
  /\ \E t \in run.newExits :
       /\ trades' = IF run.snapshots[t] = 0 THEN trades
                    ELSE [trades EXCEPT ![t][run.snapshots[t]] = "closed"]
       /\ run' = [run EXCEPT !.newExits = @ \ {t}]
  /\ UNCHANGED <<bar, signal, prior, faults>>

ClosesDone ==
  /\ run.pc = "closes" /\ run.newExits = {}
  /\ run' = [run EXCEPT !.pc = "persist"]
  /\ UNCHANGED <<bar, signal, prior, trades, faults>>

\* Mutant: tokens that were not evaluated are stored as flat.
PersistAll ==
  /\ run.pc = "persist"
  /\ prior' = [t \in Tokens |-> StateOf(run.current[t])]
  /\ run' = NoRun
  /\ UNCHANGED <<bar, signal, trades, faults>>

\* persistCurrentState: one insert, the evaluated tokens only.
PersistCurrentState ==
  /\ run.pc = "persist"
  /\ prior' = [t \in Tokens |-> IF t \in run.evaluated
                                  THEN StateOf(run.current[t]) ELSE prior[t]]
  /\ run' = NoRun
  /\ UNCHANGED <<bar, signal, trades, faults>>

\* Mutant: the signals are stored although a trade was not.
AbortPersisting ==
  /\ run.pc # "idle" /\ May("abort")
  /\ faults' = faults + 1
  /\ prior' = [t \in Tokens |-> IF t \in run.evaluated
                                  THEN StateOf(run.current[t]) ELSE prior[t]]
  /\ run' = NoRun
  /\ UNCHANGED <<bar, signal, trades>>

\* An insert throws and the daemon exits, or the process dies.
Abort ==
  /\ run.pc # "idle" /\ May("abort")
  /\ faults' = faults + 1
  /\ run' = NoRun
  /\ UNCHANGED <<bar, signal, prior, trades>>

RunStep ==
  \/ Evaluate \/ OpenTrade \/ SkipOpen \/ OpensDone
  \/ CloseTrade \/ ClosesDone \/ PersistCurrentState

Next == NewBar \/ RunStep \/ Abort

Spec == Init /\ [][Next]_vars

\* The daemon is started every day and a run in good order goes on to its end.
FairSpec == Spec /\ WF_vars(RunStep)
-------------------------------------------------------------------------------
\* live_trades is a ledger of positions as long as no run is aborted or halted:
\* dropped tokens, blocked and unsized entries, re-runs and days without a run
\* do not open a token twice nor touch a closed row (live_trade_repository.ts).
Lifecycle == INSTANCE TradeLifecycle
LifecycleSpec == Lifecycle!Spec

\* Between runs an open row belongs to a token stored as long: only then will
\* its exit be seen as one (processCellLiveTrades before persistCurrentState).
OpenRowsAreWatched ==
  run.pc = "idle" =>
    \A t \in Tokens : OpenEntries(t) # {} => prior[t] = "long"

\* Whatever happened to earlier runs, one that is not halted never closes the
\* row that a token's current position owns: aborts and missing tokens leave the
\* snapshots and the stored states in step (buildCloseTradeFields).
HeldPositionStaysOpen ==
  [][~ run.halted =>
       \A t \in Tokens : signal[t] # 0 /\ trades'[t][signal[t]] = "closed"
                           => trades[t][signal[t]] = "closed"]_vars

\* A run has come past t's entry without a row: it was blocked or unsized.
Skipped(t, e) ==
  /\ run.pc # "idle" /\ t \in run.evaluated \ run.newEntries
  /\ prior[t] = "flat" /\ run.current[t] = e

\* An entry the strategy makes from a stored flat state is recorded, skipped by
\* a run that looked at it, or over: an aborted or halted run, or one without
\* the token, is retried (daily_signal_daemon.ts, order of the writes).
EntryIsRecorded ==
  \A t \in Tokens : \A e \in Entries :
    prior[t] = "flat" /\ signal[t] = e
      ~> trades[t][e] # "absent" \/ Skipped(t, e) \/ signal[t] # e

\* An exit from a stored long state closes the newest open row, aborted runs and
\* older rows left open by them notwithstanding (listOpenTrades, closeTrade).
WatchedExitIsRecorded ==
  \A t \in Tokens : \A e \in Entries :
    (/\ run.pc = "idle" /\ prior[t] = "long" /\ signal[t] = 0
     /\ e \in OpenEntries(t) /\ \A f \in OpenEntries(t) : f <= e)
      ~> trades[t][e] = "closed" \/ signal[t] # 0

-------------------------------------------------------------------------------
(* What the documentation says and the code does not do.                     *)

\* stage-state-machine.md section 5: during a halt all open positions continue
\* to risk-manage, so one that the strategy still holds is not closed.
HaltKeepsPositions ==
  \A t \in Tokens : signal[t] # 0 => trades[t][signal[t]] # "closed"

\* daily_signal_daemon.ts on the order of writes: an aborted run is retried, so
\* that a position the strategy has left does not stay open in the ledger.
ExitIsRecorded ==
  \A t \in Tokens : \A e \in Entries :
    trades[t][e] = "open" /\ signal[t] = 0
      ~> trades[t][e] = "closed" \/ signal[t] # 0
==============================================================================
