----------------------------- MODULE StageMachine -----------------------------
(***************************************************************************)
(* The capital-deployment ramp: stage_state.ts evaluated once per daemon   *)
(* run, the .stage_halt sentinel an operator may touch or remove, and the  *)
(* stage:clear-halt command, which runs beside the daemon and writes to    *)
(* the same stage_state_history.                                           *)
(*                                                                         *)
(* Stage 0 is paper.  The table is a set of rows ordered by evaluated_at:  *)
(* a run stamps its row with the time it started, the command with the     *)
(* time it writes, so rows may land out of order.  Trading metrics are     *)
(* choices: `breach` is a window drawdown past the stage's fail threshold, *)
(* `pass` that the Sharpe, drawdown, streak and kill-criteria gates hold.  *)
(***************************************************************************)
EXTENDS Integers, FiniteSets, Sequences

CONSTANTS
  MinDays,        \* DEPLOYMENT_STAGES minDurationDays of stages 0 .. 3
  RevalDays,      \* STAGE_DEFAULT_ROLLBACK_REVALIDATION_DAYS
  PriorDays,      \* stage 4's entryRequiresPriorStagesValidatedDays
  HistoryLimit,   \* STAGE_DEFAULT_PRIOR_HISTORY_LIMIT
  DrawdownLevels, \* the drawdown levels a run may compute
  RestartStages,  \* the --from-stage values the operator uses
  MaxClock,       \* bound: last day a run or a command is started
  MaxTouches      \* bound: times the operator creates the sentinel

Stages == 0 .. 4
Kinds == {"hold", "promote", "rollback", "halt", "clear-halt"}

ASSUME StageAssumption ==
  /\ MinDays \in [0 .. 3 -> Nat \ {0}]
  /\ RevalDays \in Nat /\ PriorDays \in Nat
  /\ HistoryLimit \in Nat \ {0}
  /\ DrawdownLevels \subseteq 0 .. 5
  /\ RestartStages \subseteq Stages
  /\ MaxClock \in Nat /\ MaxTouches \in Nat

VARIABLES
  clock,     \* the last instant given out
  rows,      \* stage_state_history of one source
  levels,    \* the two newest levels of drawdown_state_history, oldest first
  sentinel,  \* .stage_halt exists
  touches,
  run,       \* the daemon run under way
  cli        \* the clear-halt command under way

vars == <<clock, rows, levels, sentinel, touches, run, cli>>

Row == [at : Nat, kind : Kinds, before : Stages, after : Stages,
        level : DrawdownLevels \cup {0}]

NoRow == [at |-> 0, kind |-> "hold", before |-> 0, after |-> 0, level |-> 0]

Run ==
  [pc : {"idle", "drawdown", "sentinel", "history", "write", "size", "trade"},
   t0 : Nat, level : DrawdownLevels \cup {0}, seen : BOOLEAN,
   row : Row, evaluated : BOOLEAN, halted : BOOLEAN,
   armed : BOOLEAN]   \* history: the sentinel has been there since the start

NoRun == [pc |-> "idle", t0 |-> 0, level |-> 0, seen |-> FALSE, row |-> NoRow,
          evaluated |-> FALSE, halted |-> FALSE, armed |-> FALSE]

Cli == [pc : {"idle", "read", "write"}, halt : BOOLEAN,
        sentinel : BOOLEAN, stage : Stages, at : Nat]

NoCli == [pc |-> "idle", halt |-> FALSE, sentinel |-> FALSE, stage |-> 0,
          at |-> 0]

TypeOK ==
  /\ clock \in Nat /\ touches \in 0 .. MaxTouches
  /\ rows \in SUBSET Row
  /\ levels \in Seq(DrawdownLevels) /\ Len(levels) <= 2
  /\ sentinel \in BOOLEAN
  /\ run \in Run
  /\ cli \in Cli

-------------------------------------------------------------------------------
(* What an evaluation derives from the rows it loaded.                       *)

Before(h, r) == {q \in h : q.at < r.at}
After(h, r) == {q \in h : q.at > r.at}

\* loadLatest: the newest row; NoRow stands for none.
Latest(h) == IF h = {} THEN NoRow ELSE CHOOSE r \in h : After(h, r) = {}

\* loadPriorHistory: the newest HistoryLimit rows.
PriorHistory == {r \in rows : Cardinality(After(rows, r)) < HistoryLimit}

CurrentStage(h) == Latest(h).after

IsHalted(h) == Latest(h).kind = "halt"

\* Mutant: every row at the stage counts, not the last stay only.
StageFirstEnteredAt(h, stage, asOf) ==
  LET stay == {r \in h : r.after = stage}
  IN  IF stay = {} THEN asOf
      ELSE (CHOOSE r \in stay : Before(stay, r) = {}).at

\* deriveStageEnteredAt: the oldest row of the last unbroken stay at a stage.
StageEnteredAt(h, stage, asOf) ==
  LET stay == {r \in h : \A q \in {r} \cup After(h, r) : q.after = stage}
  IN  IF stay = {} THEN asOf
      ELSE (CHOOSE r \in stay : Before(stay, r) = {}).at

\* Mutant: a hold between two failures resets the count.
AdjacentRollbacks(h) ==
  \E r \in h : \E q \in Before(h, r) :
    /\ r.kind = "rollback" /\ q.kind = "rollback"
    /\ \A m \in After(h, q) : m.kind = "rollback"

\* priorTwoNonPromoteRowsAreRollbacks: holds do not count, all else resets.
PriorTwoRollbacks(h) ==
  \E r \in h : \E q \in Before(h, r) :
    /\ r.kind = "rollback" /\ q.kind = "rollback"
    /\ \A m \in After(h, q) : m.kind \in {"hold", "rollback"}

\* Mutant: the timer is started by the rollback into a stage.
RevalidationOfArrival(h, next, asOf) ==
  LET into == {r \in h : r.kind = "rollback" /\ r.after = next}
  IN  into # {} => asOf - Latest(into).at >= RevalDays

\* computeRevalidationRemainingDays: from the newest rollback out of a stage.
RevalidationOver(h, next, asOf) ==
  LET out == {r \in h : r.kind = "rollback" /\ r.before = next}
  IN  out # {} => asOf - Latest(out).at >= RevalDays

\* computeCumulativeDaysAtStages: days whose newest row is at stages 1 to 3.
DaysAtStages1To3(h, asOf) ==
  Cardinality({d \in 1 .. clock :
    \E r \in h : /\ r.at < d /\ r.after \in 1 .. 3
                 /\ \A q \in After(h, r) : d <= q.at
                 /\ After(h, r) = {} => d <= asOf})

\* Mutant: paper has a drawdown limit like the other stages.
PaperFailsToo(stage, breach, prior, level) ==
  \/ stage # 3 /\ breach
  \/ stage = 3 /\ prior < 3 /\ level >= 3

\* evaluateFailCriterion: paper never fails, stage 3 fails by event.
Fails(stage, breach, prior, level) ==
  \/ stage \in {1, 2, 4} /\ breach
  \/ stage = 3 /\ prior < 3 /\ level >= 3

MayPromote(h, level, pass, asOf) ==
  LET stage == CurrentStage(h)
  IN  /\ stage < 4
      /\ asOf - StageEnteredAt(h, stage, asOf) >= MinDays[stage]
      /\ RevalidationOver(h, stage + 1, asOf)
      /\ stage = 3 => DaysAtStages1To3(h, asOf) >= PriorDays /\ level <= 2
      /\ pass

\* Mutant: failure is looked at before the halt.
FailureFirst(h, seen, prior, level, breach, pass, asOf) ==
  CASE Fails(CurrentStage(h), breach, prior, level)
         -> IF PriorTwoRollbacks(h) THEN "halt" ELSE "rollback"
    [] OTHER -> IF seen \/ IsHalted(h) THEN "halt"
                ELSE IF MayPromote(h, level, pass, asOf) THEN "promote"
                ELSE "hold"

\* evaluateStageState: halts first, then failure, then promotion.
Decision(h, seen, prior, level, breach, pass, asOf) ==
  CASE seen \/ IsHalted(h) -> "halt"
    [] ~ (seen \/ IsHalted(h)) /\ Fails(CurrentStage(h), breach, prior, level)
         -> IF PriorTwoRollbacks(h) THEN "halt" ELSE "rollback"
    [] OTHER -> IF MayPromote(h, level, pass, asOf) THEN "promote" ELSE "hold"

StageAfter(stage, kind) ==
  CASE kind = "rollback" -> stage - 1
    [] kind = "promote" -> stage + 1
    [] OTHER -> stage

EvaluateStageState(h, seen, prior, level, breach, pass, asOf) ==
  LET stage == CurrentStage(h)
      kind == Decision(h, seen, prior, level, breach, pass, asOf)
  IN  [at |-> asOf, kind |-> kind, before |-> stage,
       after |-> StageAfter(stage, kind), level |-> level]

-------------------------------------------------------------------------------
(* The daemon run: drawdown, stage evaluation, sizing.                       *)

\* A run is started every day; a day without one is a run that dies at once.
Start ==
  /\ run.pc = "idle"
  /\ clock < MaxClock
  /\ clock' = clock + 1
  /\ run' = [NoRun EXCEPT !.pc = "drawdown", !.t0 = clock + 1,
                          !.armed = sentinel]
  /\ UNCHANGED <<rows, levels, sentinel, touches, cli>>

\* The run without its stage evaluation, on its way to the sizing.
Unevaluated == [NoRun EXCEPT !.pc = "size", !.armed = run.armed]

LevelsWith(level) ==
  IF Len(levels) = 2 THEN <<levels[2], level>> ELSE Append(levels, level)

\* runDaemonDrawdownEvaluation has written its row, also in a dry run.
EvaluateDrawdown ==
  /\ run.pc = "drawdown"
  /\ \E level \in DrawdownLevels :
       /\ levels' = LevelsWith(level)
       /\ run' = [run EXCEPT !.pc = "sentinel", !.level = level]
  /\ UNCHANGED <<clock, rows, sentinel, touches, cli>>

\* Without a drawdown result the stage evaluation is skipped; an insert that
\* throws may have landed.
DrawdownFails ==
  /\ run.pc = "drawdown"
  /\ \/ UNCHANGED levels
     \/ \E level \in DrawdownLevels : levels' = LevelsWith(level)
  /\ run' = Unevaluated
  /\ UNCHANGED <<clock, rows, sentinel, touches, cli>>

\* runDaemonStageStateEvaluation reads the sentinel before its first await.
ReadSentinel ==
  /\ run.pc = "sentinel"
  /\ run' = [run EXCEPT !.pc = "history", !.seen = sentinel]
  /\ UNCHANGED <<clock, rows, levels, sentinel, touches, cli>>

PriorLevel == IF Len(levels) = 2 THEN levels[1] ELSE 0

ReadHistory ==
  /\ run.pc = "history"
  /\ \E breach, pass \in BOOLEAN :
       run' = [run EXCEPT !.pc = "write",
                 !.row = EvaluateStageState(PriorHistory, run.seen, PriorLevel,
                                            run.level, breach, pass, run.t0)]
  /\ UNCHANGED <<clock, rows, levels, sentinel, touches, cli>>

WriteEvaluation ==
  /\ run.pc = "write"
  /\ rows' = rows \cup {run.row}
  /\ run' = [Unevaluated EXCEPT !.row = run.row, !.evaluated = TRUE]
  /\ UNCHANGED <<clock, levels, sentinel, touches, cli>>

\* The daemon swallows any exception of the stage evaluation, also that of an
\* insert which landed.
StageFails ==
  /\ run.pc \in {"sentinel", "history", "write"}
  /\ \/ UNCHANGED rows
     \/ run.pc = "write" /\ rows' = rows \cup {run.row}
  /\ run' = Unevaluated
  /\ UNCHANGED <<clock, levels, sentinel, touches, cli>>

\* Mutant: without a stage evaluation the run counts as not halted.
ResolveSizingOpen ==
  /\ run.pc = "size"
  /\ run' = [NoRun EXCEPT !.pc = "trade", !.armed = run.armed,
               !.halted = run.evaluated /\ run.row.kind = "halt"]
  /\ UNCHANGED <<clock, rows, levels, sentinel, touches, cli>>

\* resolvePerCellSizingForRun: the decision, or else the sentinel.
ResolveSizing ==
  /\ run.pc = "size"
  /\ run' = [NoRun EXCEPT !.pc = "trade", !.armed = run.armed,
               !.halted = IF run.evaluated THEN run.row.kind = "halt"
                                           ELSE sentinel]
  /\ UNCHANGED <<clock, rows, levels, sentinel, touches, cli>>

\* The run ends, or the process dies at any point before.
EndRun ==
  /\ run.pc # "idle"
  /\ run' = NoRun
  /\ UNCHANGED <<clock, rows, levels, sentinel, touches, cli>>

-------------------------------------------------------------------------------
(* The operator: the sentinel file and the clear-halt command.               *)

TouchSentinel ==
  /\ touches < MaxTouches /\ ~ sentinel
  /\ touches' = touches + 1
  /\ sentinel' = TRUE
  /\ UNCHANGED <<clock, rows, levels, run, cli>>

RemoveSentinel ==
  /\ sentinel
  /\ sentinel' = FALSE
  /\ run' = [run EXCEPT !.armed = FALSE]
  /\ UNCHANGED <<clock, rows, levels, touches, cli>>

\* It refuses to act when it finds neither a halt nor a sentinel.
ReadHalt ==
  /\ cli.pc = "idle"
  /\ IsHalted(rows) \/ sentinel
  /\ cli' = [pc |-> "read", halt |-> IsHalted(rows), sentinel |-> sentinel,
             stage |-> CurrentStage(rows), at |-> 0]
  /\ UNCHANGED <<clock, rows, levels, sentinel, touches, run>>

\* unlinkSync, and `now`, which stamps the row about to be inserted.
UnlinkSentinel ==
  /\ cli.pc = "read"
  /\ cli.sentinel => sentinel
  /\ clock < MaxClock
  /\ clock' = clock + 1
  /\ sentinel' = IF cli.sentinel THEN FALSE ELSE sentinel
  /\ run' = [run EXCEPT !.armed = run.armed /\ ~ cli.sentinel]
  /\ cli' = IF cli.halt THEN [cli EXCEPT !.pc = "write", !.at = clock + 1]
                         ELSE NoCli
  /\ UNCHANGED <<rows, levels, touches>>

WriteClearHalt ==
  /\ cli.pc = "write"
  /\ \E stage \in RestartStages :
       rows' = rows \cup {[at |-> cli.at, kind |-> "clear-halt",
                           before |-> cli.stage, after |-> stage, level |-> 0]}
  /\ cli' = NoCli
  /\ UNCHANGED <<clock, levels, sentinel, touches, run>>

\* The command dies, on an error or by hand, at any point before its end; that
\* the insert had landed is WriteClearHalt.
AbortClearHalt ==
  /\ cli.pc \in {"read", "write"}
  /\ cli' = NoCli
  /\ UNCHANGED <<clock, rows, levels, sentinel, touches, run>>

-------------------------------------------------------------------------------
Init ==
  /\ clock = 0 /\ touches = 0
  /\ rows = {} /\ levels = <<>>
  /\ sentinel = FALSE
  /\ run = NoRun /\ cli = NoCli

DaemonStep ==
  \/ Start \/ EvaluateDrawdown \/ DrawdownFails
  \/ ReadSentinel \/ ReadHistory \/ WriteEvaluation \/ StageFails
  \/ ResolveSizing \/ EndRun

OperatorStep ==
  \/ TouchSentinel \/ RemoveSentinel
  \/ ReadHalt \/ UnlinkSentinel \/ WriteClearHalt \/ AbortClearHalt

Next == DaemonStep \/ OperatorStep

Spec == Init /\ [][Next]_vars
-------------------------------------------------------------------------------
\* A halt on file holds until the audit row of clear-halt: no run, whatever it
\* read before, follows a halt with another decision while no clear-halt has
\* been recorded since (isCurrentlyHalted; removing the file is not enough).
HaltHoldsUntilCleared ==
  \A r, q \in rows :
    /\ r.kind = "halt"
    /\ q.at > r.at
    /\ q.kind # "halt"
    => \E c \in rows : c.kind = "clear-halt" /\ c.at > r.at

\* A stage once failed is not re-entered by promotion before its timer is over,
\* not even by way of deeper rollbacks, halts and restarts in between
\* (computeRevalidationRemainingDays).
RevalidationRespected ==
  \A r, q \in rows :
    /\ r.kind = "rollback" /\ q.kind = "promote"
    /\ q.at > r.at
    /\ q.after = r.before
    => q.at - r.at >= RevalDays

\* A promotion follows a full minimum stay: the table shows the run's stage and
\* no other for MinDays before it (deriveStageEnteredAt, rows out of order).
PromotionIsEarned ==
  \A q \in rows :
    q.kind = "promote" =>
      LET since == {r \in rows : r.at < q.at /\ r.at > q.at - MinDays[q.before]}
          stood == {r \in rows : r.at <= q.at - MinDays[q.before]}
      IN  /\ \A r \in since : r.after = q.before
          /\ stood # {} /\ CurrentStage(stood) = q.before

\* A third failure in a row is a halt, never another rollback, as long as the
\* first is within the loaded history (priorTwoNonPromoteRowsAreRollbacks).
NoThirdRollback ==
  \A r, q, s \in rows :
    /\ r.kind = "rollback" /\ q.kind = "rollback" /\ s.kind = "rollback"
    /\ r.at < q.at /\ q.at < s.at
    /\ Cardinality(After(rows, r) \ After(rows, s)) <= HistoryLimit
    => \E m \in After(rows, r) :
         m.at < s.at /\ m.kind \notin {"hold", "rollback"}

\* While the sentinel stays on disk from the start of a run to its sizing, the
\* run opens nothing, whichever of its evaluations failed
\* (resolvePerCellSizingForRun, fail-closed on the sentinel).
SentinelBlocksEntries ==
  run.pc = "trade" /\ run.armed => run.halted

-------------------------------------------------------------------------------
(* What the documentation says and the code does not do.                     *)

\* stage-state-machine.md section 5: halted, the daemon opens nothing.
HaltBlocksEntries ==
  [][ResolveSizing /\ IsHalted(rows) => run'.halted]_vars
==============================================================================
