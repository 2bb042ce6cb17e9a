---------------------------- MODULE DrawdownLadder ----------------------------
(***************************************************************************)
(* The drawdown response framework: drawdown_state.ts evaluated once per   *)
(* daemon run over the rows of drawdown_state_history.  The table is the   *)
(* only memory.  Each evaluation reads the last HistoryLimit rows, derives *)
(* the level and the recovery count from them, and appends a row.          *)
(*                                                                         *)
(* A loss is the trailing-30-day realised loss in thousandths of the       *)
(* deployed capital, so `dd <= entry` reads loss >= EntryLoss and          *)
(* `dd > exit` reads loss < ExitLoss.                                      *)
(***************************************************************************)
EXTENDS Integers, Sequences, FiniteSets

CONSTANTS
  Losses,        \* the losses an evaluation may compute
  EntryLoss,     \* DRAWDOWN_LEVEL_ENTRY_THRESHOLDS (or a strategy's table)
  ExitLoss,      \* DRAWDOWN_LEVEL_EXIT_THRESHOLDS, pct
  ExitDays,      \* DRAWDOWN_LEVEL_EXIT_THRESHOLDS, days
  PauseDays,     \* L3_ENTRY_PAUSE_DAYS
  HistoryLimit,  \* DEFAULT_PRIOR_HISTORY_LIMIT
  MaxDay,        \* bound: last day evaluated
  MaxRows        \* bound: evaluations made

Levels == 0 .. 5
Climbable == 1 .. 4

ASSUME LadderAssumption ==
  /\ Losses \subseteq Nat
  /\ EntryLoss \in [1 .. 5 -> Nat]
  /\ ExitLoss \in [Climbable -> Nat]
  /\ ExitDays \in [Climbable -> Nat]
  /\ \A k \in Climbable : ExitLoss[k] <= EntryLoss[k]
  /\ PauseDays \in Nat
  /\ HistoryLimit \in Nat \ {0}
  /\ MaxDay \in Nat
  /\ MaxRows \in Nat

VARIABLES
  day,    \* the day the daemon's clock shows
  rows    \* drawdown_state_history of one source, oldest first

vars == <<day, rows>>

Row == [at : Nat, loss : Losses, level : Levels, enteredAt : Nat]

TypeOK == day \in 0 .. MaxDay /\ rows \in Seq(Row)

-------------------------------------------------------------------------------
\* naturalDownLevelFromTable: the deepest level whose threshold is breached.
NaturalLevel(loss) ==
  CHOOSE k \in Levels :
    /\ k = 0 \/ loss >= EntryLoss[k]
    /\ \A m \in Levels : m > k => loss < EntryLoss[m]

\* The unbroken run of rows, ending with the last, at level k and calm for it.
CalmRun(h, k) ==
  {i \in 1 .. Len(h) :
     \A j \in i .. Len(h) : h[j].level = k /\ h[j].loss < ExitLoss[k]}

\* Mutant: every calm row counts, at whatever level it was made.
RecoveryDaysEver(h, prev, loss) ==
  IF loss < ExitLoss[prev]
    THEN 1 + Cardinality({i \in 1 .. Len(h) : h[i].loss < ExitLoss[prev]})
    ELSE 0

\* deriveConsecutiveRecoveryDays: today, if calm, and the run before it.
RecoveryDays(h, prev, loss) ==
  IF loss < ExitLoss[prev] THEN 1 + Cardinality(CalmRun(h, prev)) ELSE 0

\* Mutant: recovery from the kill level, as from any other.
ComputeLevelUp(prev, loss, days) ==
  CASE NaturalLevel(loss) >= prev -> NaturalLevel(loss)
    [] OTHER -> IF prev = 5 THEN 4
                ELSE IF loss < ExitLoss[prev] /\ days >= ExitDays[prev]
                  THEN prev - 1 ELSE prev

\* Mutant: recovery goes straight to the level the loss is at.
ComputeLevelSkip(prev, loss, days) ==
  CASE prev = 5 -> 5
    [] prev # 5 /\ NaturalLevel(loss) >= prev -> NaturalLevel(loss)
    [] OTHER -> IF loss < ExitLoss[prev] /\ days >= ExitDays[prev]
                  THEN NaturalLevel(loss) ELSE prev

\* Mutant: every recovery step skips a level.
ComputeLevelTwo(prev, loss, days) ==
  CASE prev = 5 -> 5
    [] prev # 5 /\ NaturalLevel(loss) >= prev -> NaturalLevel(loss)
    [] OTHER -> IF loss < ExitLoss[prev] /\ days >= ExitDays[prev]
                  THEN prev - 2 ELSE prev

\* computeLevelWithTables: down at once, up by one, five for ever.
ComputeLevel(prev, loss, days) ==
  CASE prev = 5 -> 5
    [] prev # 5 /\ NaturalLevel(loss) >= prev -> NaturalLevel(loss)
    [] OTHER -> IF loss < ExitLoss[prev] /\ days >= ExitDays[prev]
                  THEN prev - 1 ELSE prev

\* loadPriorHistory: the most recent rows, returned oldest first.
PriorHistory ==
  SubSeq(rows, IF Len(rows) > HistoryLimit THEN Len(rows) - HistoryLimit + 1
                                           ELSE 1, Len(rows))

\* Mutant: levelEnteredAt survives a deepening of the level.
EvaluateKeepingEntry(h, loss, asOf) ==
  LET prev  == IF h = <<>> THEN 0 ELSE h[Len(h)].level
      days  == IF prev \in Climbable THEN RecoveryDays(h, prev, loss) ELSE 0
      level == ComputeLevel(prev, loss, days)
  IN  [at        |-> asOf,
       loss      |-> loss,
       level     |-> level,
       enteredAt |-> IF h # <<>> /\ h[Len(h)].level \in {level, level + 1}
                       THEN h[Len(h)].enteredAt ELSE asOf]

\* evaluateDrawdownState: the row this evaluation writes.
EvaluateDrawdownState(h, loss, asOf) ==
  LET prev  == IF h = <<>> THEN 0 ELSE h[Len(h)].level
      days  == IF prev \in Climbable THEN RecoveryDays(h, prev, loss) ELSE 0
      level == ComputeLevel(prev, loss, days)
  IN  [at        |-> asOf,
       loss      |-> loss,
       level     |-> level,
       enteredAt |-> IF h # <<>> /\ h[Len(h)].level = level
                       THEN h[Len(h)].enteredAt ELSE asOf]

\* computeNewEntriesAllowed, as of the evaluation that wrote the row.
NewEntriesAllowed(row) ==
  \/ row.level <= 2
  \/ row.level = 3 /\ row.at - row.enteredAt >= PauseDays
-------------------------------------------------------------------------------
Init == day = 0 /\ rows = <<>>

\* One daemon run: nothing keeps it from being repeated on the same day.
RunEvaluation ==
  /\ Len(rows) < MaxRows
  /\ \E loss \in Losses :
       rows' = Append(rows, EvaluateDrawdownState(PriorHistory, loss, day))
  /\ UNCHANGED day

NextDay ==
  /\ day < MaxDay
  /\ day' = day + 1
  /\ UNCHANGED rows

Next == RunEvaluation \/ NextDay

Spec == Init /\ [][Next]_vars
-------------------------------------------------------------------------------
\* A breach is never forgotten early: once a loss has reached the threshold of
\* a level, no evaluation is above that level until ExitDays[k] evaluations
\* after it, whatever happened in between (drawdown_state.ts, hysteresis).
NoEarlyRecovery ==
  \A j \in 1 .. Len(rows) : \A i \in 1 .. j : \A k \in Climbable :
    rows[i].loss >= EntryLoss[k] /\ j - i < ExitDays[k] => rows[j].level >= k

\* Entries at level 3 resume only after a full pause spent at level 3: every
\* evaluation of the last PauseDays days was at level 3, also after a relapse
\* to level 4 and back (computeNewEntriesAllowed and levelEnteredAt together).
PauseIsWholeAtLevel3 ==
  \A j \in 1 .. Len(rows) : \A i \in 1 .. j :
    /\ rows[j].level = 3
    /\ NewEntriesAllowed(rows[j])
    /\ rows[j].at - rows[i].at < PauseDays
    => rows[i].level = 3

\* A kill-level loss closes entries for good: no later evaluation allows one,
\* however calm (computeLevelWithTables, level 5).
KillIsFinal ==
  \A j \in 1 .. Len(rows) : \A i \in 1 .. j :
    rows[i].loss >= EntryLoss[5] => ~ NewEntriesAllowed(rows[j])

\* The history really is a counting ladder: as long as enough rows are loaded,
\* what the code derives from the table is what LadderCounter remembers
\* (loadPriorHistory, evaluateDrawdownState).
LevelNow == IF rows = <<>> THEN 0 ELSE rows[Len(rows)].level
CalmNow ==
  IF LevelNow \in Climbable THEN Cardinality(CalmRun(rows, LevelNow)) ELSE 0
AgeNow ==
  IF LevelNow \notin Climbable THEN 0
  ELSE LET days == day - rows[Len(rows)].enteredAt
       IN  IF days < PauseDays THEN days ELSE PauseDays
Counter == INSTANCE LadderCounter
             WITH level <- LevelNow, calm <- CalmNow, age <- AgeNow
CounterSpec == Counter!Spec
==============================================================================
