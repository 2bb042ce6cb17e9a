-------------------------- MODULE StageMachine_proofs -------------------------
(***************************************************************************)
(* The capital-deployment ramp for all thresholds, history limits and      *)
(* drawdown levels, for any number of runs and of clear-halt commands.     *)
(*                                                                         *)
(* What has to be kept beside the properties is the order of events: rows  *)
(* later than the run under way are clear-halts, at most one; a command    *)
(* that saw a halt finds it standing until its own row lands; and a run    *)
(* whose row is not a halt has read a table without a standing halt, so    *)
(* that no command is under way and the table it read is still the table.  *)
(***************************************************************************)
EXTENDS StageMachine, FiniteSetTheorems, WellFoundedInduction, TLAPS

-------------------------------------------------------------------------------
(* Newest and oldest rows.                                                   *)

\* A set of natural numbers that is not empty has a least member.
LEMMA LeastOf ==
  ASSUME NEW T, T \subseteq Nat, T # {}
  PROVE  \E x \in T : \A y \in T : x <= y
<1>1. PICK x \in T : \A y \in T : ~ (<<y, x>> \in OpToRel(<, Nat))
  BY NatLessThanWellFounded, WFMin
<1>2. ASSUME NEW y \in T
      PROVE  x <= y
  <2>1. x \in Nat /\ y \in Nat
    OBVIOUS
  <2>2. <<y, x>> \in Nat \X Nat /\ <<y, x>>[1] = y /\ <<y, x>>[2] = x
    BY <2>1
  <2>3. ~ (y < x)
    <3>1. ASSUME y < x PROVE <<y, x>>[1] < <<y, x>>[2]
      BY <2>2, <3>1
    <3> QED
      BY <1>1, <2>2, <3>1, Zenon DEF OpToRel
  <2> QED
    BY <2>1, <2>3
<1> QED
  BY <1>2

\* Of rows written up to some instant one is the newest, and loadLatest finds it.
LEMMA LatestIsNewest ==
  ASSUME NEW h, h # {}, NEW n \in Nat, \A r \in h : r.at \in Nat /\ r.at <= n
  PROVE  Latest(h) \in h /\ \A r \in h : r.at <= Latest(h).at
<1> DEFINE T == {n - r.at : r \in h}
<1>1. T \subseteq Nat /\ T # {}
  OBVIOUS
<1> HIDE DEF T
<1>2. PICK x \in T : \A y \in T : x <= y
  BY <1>1, LeastOf
<1>3. PICK r \in h : x = n - r.at
  BY DEF T
<1>4. ASSUME NEW q \in h
      PROVE  q.at <= r.at
  <2>1. n - q.at \in T
    BY DEF T
  <2> QED
    BY <1>2, <1>3, <2>1
<1>5. After(h, r) = {}
  BY <1>4 DEF After
<1>6. Latest(h) \in h /\ After(h, Latest(h)) = {}
  BY <1>5 DEF Latest
<1>7. \A q \in h : ~ (q.at > Latest(h).at)
  BY <1>6 DEF After
<1> QED
  BY <1>6, <1>7

\* Of rows that are not none one is the oldest.
LEMMA OldestExists ==
  ASSUME NEW h, h # {}, \A r \in h : r.at \in Nat
  PROVE  \E r \in h : Before(h, r) = {}
<1> DEFINE T == {r.at : r \in h}
<1>1. T \subseteq Nat /\ T # {}
  OBVIOUS
<1> HIDE DEF T
<1>2. PICK x \in T : \A y \in T : x <= y
  BY <1>1, LeastOf
<1>3. PICK r \in h : x = r.at
  BY DEF T
<1>4. ASSUME NEW q \in h
      PROVE  r.at <= q.at
  BY <1>2, <1>3 DEF T
<1> QED
  BY <1>4 DEF Before

-------------------------------------------------------------------------------
(* The table and what a run loads of it.                                     *)

\* Rows are of instants gone by, one each.
TableInv ==
  /\ clock \in Nat
  /\ rows \in SUBSET Row
  /\ IsFiniteSet(rows)
  /\ \A r \in rows : r.at <= clock
  /\ \A r, q \in rows : r.at = q.at => r = q

\* The table has a newest row.
LEMMA TableHasLatest ==
  ASSUME TableInv, rows # {}
  PROVE  Latest(rows) \in rows /\ \A r \in rows : r.at <= Latest(rows).at
  BY LatestIsNewest DEF TableInv, Row

\* What is loaded is typed, and reaches from some row to the newest without gap.
LEMMA HistoryIsRecent ==
  ASSUME TableInv, NEW r \in PriorHistory, NEW q \in rows, q.at >= r.at
  PROVE  q \in PriorHistory
<1>1. r \in rows /\ Cardinality(After(rows, r)) < HistoryLimit
  BY DEF PriorHistory
<1>2. After(rows, q) \in SUBSET After(rows, r)
  BY <1>1 DEF After, TableInv, Row
<1>3. IsFiniteSet(After(rows, r)) /\ IsFiniteSet(After(rows, q))
  BY FS_Subset DEF After, TableInv
<1>4. Cardinality(After(rows, q)) <= Cardinality(After(rows, r))
  BY <1>2, <1>3, FS_Subset
<1>5. /\ Cardinality(After(rows, r)) \in Nat
      /\ Cardinality(After(rows, q)) \in Nat /\ HistoryLimit \in Nat
  BY <1>3, FS_CardinalityType, StageAssumption
<1> QED
  BY <1>1, <1>4, <1>5 DEF PriorHistory

\* The newest row loaded is the newest row (also where there is none).
LEMMA HistoryHasLatest ==
  ASSUME TableInv
  PROVE  Latest(PriorHistory) = Latest(rows)
<1>1. CASE rows = {}
  BY <1>1 DEF PriorHistory
<1>2. CASE rows # {}
  <2>1. Latest(rows) \in rows /\ \A r \in rows : r.at <= Latest(rows).at
    BY <1>2, TableHasLatest
  <2>2. \A r \in rows : r.at \in Nat
    BY DEF TableInv, Row
  <2>3. After(rows, Latest(rows)) = {}
    BY <2>1, <2>2 DEF After
  <2>4. Latest(rows) \in PriorHistory
    BY <2>1, <2>3, FS_EmptySet, StageAssumption DEF PriorHistory
  <2>5. PriorHistory \subseteq rows
    BY DEF PriorHistory
  <2>6. /\ Latest(PriorHistory) \in PriorHistory
        /\ \A r \in PriorHistory : r.at <= Latest(PriorHistory).at
    BY <2>4, <2>5, LatestIsNewest DEF TableInv, Row
  <2>7. Latest(PriorHistory).at = Latest(rows).at
    BY <2>1, <2>2, <2>4, <2>5, <2>6
  <2> QED
    BY <2>1, <2>5, <2>6, <2>7 DEF TableInv
<1> QED
  BY <1>1, <1>2

LEMMA LatestTyped ==
  ASSUME TableInv
  PROVE  Latest(rows) \in Row
<1>1. NoRow \in Row
  BY DEF NoRow, Row, Kinds, Stages
<1> QED
  BY <1>1, TableHasLatest DEF TableInv, Latest

\* A run's row is typed: no rollback from paper, no promotion from stage 4.
LEMMA EvaluationTyped ==
  ASSUME TableInv, NEW seen \in BOOLEAN, NEW prior, NEW level \in DrawdownLevels \cup {0},
         NEW breach \in BOOLEAN, NEW pass \in BOOLEAN, NEW asOf \in Nat
  PROVE  EvaluateStageState(PriorHistory, seen, prior, level, breach, pass, asOf)
           \in Row
<1> DEFINE stage == CurrentStage(PriorHistory)
           kind == Decision(PriorHistory, seen, prior, level, breach, pass, asOf)
<1>1. stage \in Stages
  BY HistoryHasLatest, LatestTyped DEF CurrentStage, Row
<1>2. /\ kind \in {"hold", "promote", "rollback", "halt"}
      /\ kind = "rollback" => Fails(stage, breach, prior, level)
      /\ kind = "promote" => MayPromote(PriorHistory, level, pass, asOf)
  BY DEF Decision
<1>3. /\ Fails(stage, breach, prior, level) => stage \in 1 .. 4
      /\ MayPromote(PriorHistory, level, pass, asOf) => stage < 4
  BY DEF Fails, MayPromote
<1>4. StageAfter(stage, kind) \in Stages
  BY <1>1, <1>2, <1>3 DEF StageAfter, Stages
<1>5. EvaluateStageState(PriorHistory, seen, prior, level, breach, pass, asOf)
        = [at |-> asOf, kind |-> kind, before |-> stage,
           after |-> StageAfter(stage, kind), level |-> level]
  BY DEF EvaluateStageState
<1> HIDE DEF stage, kind
<1> QED
  BY <1>1, <1>2, <1>4, <1>5 DEF Row, Kinds

-------------------------------------------------------------------------------
(* Types.                                                                    *)

LEMMA RunTyped ==
  ASSUME TypeOK
  PROVE  /\ NoRun \in Run /\ Unevaluated \in Run
         /\ NoCli \in Cli
<1>1. NoRow \in Row
  BY DEF NoRow, Row, Kinds, Stages
<1>2. run.armed \in BOOLEAN
  BY DEF TypeOK, Run
<1>3. NoRun \in Run
  BY <1>1 DEF NoRun, Run
<1>4. [NoRun EXCEPT !.pc = "size", !.armed = run.armed] \in Run
  BY <1>2, <1>3 DEF Run
<1>5. NoCli \in Cli
  BY DEF NoCli, Cli, Stages
<1> QED
  BY <1>3, <1>4, <1>5 DEF Unevaluated

LEMMA LevelsWithTyped ==
  ASSUME TypeOK, NEW level \in DrawdownLevels
  PROVE  LevelsWith(level) \in Seq(DrawdownLevels) /\ Len(LevelsWith(level)) <= 2
<1>1. levels \in Seq(DrawdownLevels) /\ Len(levels) \in Nat /\ Len(levels) <= 2
  BY DEF TypeOK
<1>2. CASE Len(levels) = 2
  <2>1. levels[2] \in DrawdownLevels
    BY <1>1, <1>2
  <2>2. <<levels[2], level>> \in Seq(DrawdownLevels)
    BY <2>1
  <2> QED
    BY <1>2, <2>2 DEF LevelsWith
<1>3. CASE Len(levels) # 2
  <2>1. Append(levels, level) \in Seq(DrawdownLevels)
        /\ Len(Append(levels, level)) = Len(levels) + 1
    BY <1>1
  <2>2. LevelsWith(level) = Append(levels, level)
    BY <1>3, Zenon DEF LevelsWith
  <2>3. Len(levels) + 1 <= 2
    <3>1. \A n \in Nat : n <= 2 /\ n # 2 => n + 1 <= 2
      OBVIOUS
    <3> QED
      BY <1>1, <1>3, <3>1, Zenon
  <2> QED
    BY <2>1, <2>2, <2>3
<1> QED
  BY <1>2, <1>3

LEMMA StageTypeStep ==
  ASSUME TypeOK, TableInv, [Next]_vars
  PROVE  TypeOK'
<1>1. CASE Start
  <2>1. clock + 1 \in Nat /\ sentinel \in BOOLEAN
    BY DEF TypeOK
  <2>2. run' \in Run
    BY <1>1, <2>1, RunTyped DEF Start, Run
  <2> QED
    BY <1>1, <2>1, <2>2 DEF Start, TypeOK
<1>2. CASE EvaluateDrawdown
  <2>1. PICK level \in DrawdownLevels :
          /\ levels' = LevelsWith(level)
          /\ run' = [run EXCEPT !.pc = "sentinel", !.level = level]
    BY <1>2 DEF EvaluateDrawdown
  <2>2. levels' \in Seq(DrawdownLevels) /\ Len(levels') <= 2
    BY <2>1, LevelsWithTyped
  <2>3. run' \in Run
    BY <2>1 DEF TypeOK, Run
  <2> QED
    BY <1>2, <2>2, <2>3 DEF EvaluateDrawdown, TypeOK
<1>3. CASE DrawdownFails
  <2>1. levels' \in Seq(DrawdownLevels) /\ Len(levels') <= 2
    BY <1>3, LevelsWithTyped DEF DrawdownFails, TypeOK
  <2> QED
    BY <1>3, <2>1, RunTyped DEF DrawdownFails, TypeOK
<1>4. CASE ReadSentinel
  BY <1>4 DEF ReadSentinel, TypeOK, Run
<1>5. CASE ReadHistory
  <2>1. PICK breach \in BOOLEAN, pass \in BOOLEAN :
          run' = [run EXCEPT !.pc = "write",
                    !.row = EvaluateStageState(PriorHistory, run.seen, PriorLevel,
                                               run.level, breach, pass, run.t0)]
    BY <1>5 DEF ReadHistory
  <2>2. run.seen \in BOOLEAN /\ run.level \in DrawdownLevels \cup {0} /\ run.t0 \in Nat
    BY DEF TypeOK, Run
  <2>3. EvaluateStageState(PriorHistory, run.seen, PriorLevel,
                           run.level, breach, pass, run.t0) \in Row
    BY <2>2, EvaluationTyped
  <2>4. run' \in Run
    BY <2>1, <2>3 DEF TypeOK, Run
  <2> QED
    BY <1>5, <2>4 DEF ReadHistory, TypeOK
<1>6. CASE WriteEvaluation
  <2>1. rows' \in SUBSET Row
    BY <1>6 DEF WriteEvaluation, TypeOK, Run
  <2>2. run' \in Run
    BY <1>6, RunTyped DEF WriteEvaluation, TypeOK, Run
  <2> QED
    BY <1>6, <2>1, <2>2 DEF WriteEvaluation, TypeOK
<1>7. CASE StageFails
  <2>1. rows' \in SUBSET Row
    BY <1>7 DEF StageFails, TypeOK, Run
  <2> QED
    BY <1>7, <2>1, RunTyped DEF StageFails, TypeOK
<1>8. CASE ResolveSizing
  <2>1. PICK halted \in BOOLEAN :
          run' = [NoRun EXCEPT !.pc = "trade", !.armed = run.armed, !.halted = halted]
    <3>1. (run.row.kind = "halt") \in BOOLEAN /\ sentinel \in BOOLEAN
      BY DEF TypeOK
    <3> QED
      BY <1>8, <3>1, Zenon DEF ResolveSizing
  <2>2. run' \in Run
    BY <2>1, RunTyped DEF TypeOK, Run
  <2> QED
    BY <1>8, <2>2 DEF ResolveSizing, TypeOK
<1>9. CASE EndRun
  BY <1>9, RunTyped DEF EndRun, TypeOK
<1>10. CASE TouchSentinel
  BY <1>10, StageAssumption DEF TouchSentinel, TypeOK
<1>11. CASE RemoveSentinel
  BY <1>11 DEF RemoveSentinel, TypeOK, Run
<1>12. CASE ReadHalt
  <2>1. CurrentStage(rows) \in Stages
    BY LatestTyped DEF CurrentStage, Row
  <2>2. IsHalted(rows) \in BOOLEAN
    BY DEF IsHalted
  <2>3. cli' \in Cli
    BY <1>12, <2>1, <2>2 DEF ReadHalt, TypeOK, Cli
  <2> QED
    BY <1>12, <2>3 DEF ReadHalt, TypeOK
<1>13. CASE UnlinkSentinel
  <2>1. (run.armed /\ ~ cli.sentinel) \in BOOLEAN
    OBVIOUS
  <2>2. run' \in Run
    BY <1>13, <2>1 DEF UnlinkSentinel, TypeOK, Run
  <2>3. clock' = clock + 1 /\ clock + 1 \in Nat
    BY <1>13 DEF UnlinkSentinel, TypeOK
  <2>4. [cli EXCEPT !.pc = "write", !.at = clock + 1] \in Cli
    BY <2>3 DEF TypeOK, Cli
  <2>5. cli' \in Cli
    BY <1>13, <2>4, RunTyped, Zenon DEF UnlinkSentinel
  <2>6. sentinel' \in BOOLEAN
    BY <1>13, Zenon DEF UnlinkSentinel, TypeOK
  <2> QED
    BY <1>13, <2>2, <2>3, <2>5, <2>6 DEF UnlinkSentinel, TypeOK
<1>14. CASE WriteClearHalt
  <2>1. rows' \in SUBSET Row
    BY <1>14, StageAssumption DEF WriteClearHalt, TypeOK, Cli, Row, Kinds
  <2> QED
    BY <1>14, <2>1, RunTyped DEF WriteClearHalt, TypeOK
<1>15. CASE AbortClearHalt
  BY <1>15, RunTyped DEF AbortClearHalt, TypeOK
<1>16. CASE UNCHANGED vars
  BY <1>16 DEF vars, TypeOK
<1> QED
  BY <1>1, <1>2, <1>3, <1>4, <1>5, <1>6, <1>7, <1>8, <1>9, <1>10, <1>11, <1>12,
     <1>13, <1>14, <1>15, <1>16 DEF Next, DaemonStep, OperatorStep

-------------------------------------------------------------------------------
(* What the steps are to the table: all that the invariants below depend on. *)

Evaluating == run.pc \in {"drawdown", "sentinel", "history", "write"}

\* Nothing but the end of a run's evaluation, or of a command.
Quiet ==
  /\ UNCHANGED <<clock, rows>>
  /\ Evaluating' => Evaluating /\ run'.t0 = run.t0
  /\ run'.pc = "write" => run.pc = "write" /\ run'.row = run.row
  /\ cli' = cli \/ cli'.pc = "idle"

Begins ==
  /\ clock' = clock + 1 /\ UNCHANGED <<rows, cli>>
  /\ run'.pc = "drawdown" /\ run'.t0 = clock + 1

Decides ==
  /\ UNCHANGED <<clock, rows, cli>>
  /\ run.pc = "history" /\ run'.pc = "write" /\ run'.t0 = run.t0
  /\ \E breach, pass \in BOOLEAN :
       run'.row = EvaluateStageState(PriorHistory, run.seen, PriorLevel,
                                     run.level, breach, pass, run.t0)

Lands ==
  /\ UNCHANGED <<clock, cli>>
  /\ run.pc = "write" /\ rows' = rows \cup {run.row}
  /\ ~ Evaluating'

Looks ==
  /\ UNCHANGED <<clock, rows, run>>
  /\ cli.pc = "idle" /\ cli'.pc = "read" /\ cli'.halt = IsHalted(rows)

Unlinks ==
  /\ clock' = clock + 1 /\ UNCHANGED rows
  /\ run'.pc = run.pc /\ run'.t0 = run.t0 /\ run'.row = run.row
  /\ cli.pc = "read" /\ cli'.pc \in {"write", "idle"}
  /\ cli'.pc = "write" => cli.halt /\ cli'.halt /\ cli'.at = clock + 1

Clears ==
  /\ UNCHANGED <<clock, run>>
  /\ cli.pc = "write" /\ cli'.pc = "idle"
  /\ \E c \in Row : /\ c.at = cli.at /\ c.kind = "clear-halt"
                    /\ rows' = rows \cup {c}

LEMMA StepsOfTheTable ==
  ASSUME TypeOK, [Next]_vars
  PROVE  Quiet \/ Begins \/ Decides \/ Lands \/ Looks \/ Unlinks \/ Clears
<1>1. CASE Start
  BY <1>1, RunTyped DEF Start, Begins, Run
<1>2. CASE EvaluateDrawdown \/ ReadSentinel
  BY <1>2 DEF EvaluateDrawdown, ReadSentinel, Quiet, Evaluating, TypeOK, Run
<1>3. CASE DrawdownFails
  BY <1>3, RunTyped DEF DrawdownFails, Unevaluated, NoRun, Quiet, Evaluating
<1>4. CASE ResolveSizing
  <2>1. run'.pc = "trade"
    BY <1>4 DEF ResolveSizing, NoRun
  <2> QED
    BY <1>4, <2>1 DEF ResolveSizing, Quiet, Evaluating
<1>5. CASE EndRun
  BY <1>5 DEF EndRun, NoRun, Quiet, Evaluating
<1>6. CASE ReadHistory
  <2>1. PICK breach \in BOOLEAN, pass \in BOOLEAN :
          run' = [run EXCEPT !.pc = "write",
                    !.row = EvaluateStageState(PriorHistory, run.seen, PriorLevel,
                                               run.level, breach, pass, run.t0)]
    BY <1>6 DEF ReadHistory
  <2>2. /\ run'.pc = "write" /\ run'.t0 = run.t0
        /\ run'.row = EvaluateStageState(PriorHistory, run.seen, PriorLevel,
                                         run.level, breach, pass, run.t0)
    BY <2>1 DEF TypeOK, Run
  <2> QED
    BY <1>6, <2>2 DEF ReadHistory, Decides
<1>7. CASE WriteEvaluation
  <2>1. run'.pc = "size"
    BY <1>7 DEF WriteEvaluation, Unevaluated, NoRun
  <2> QED
    BY <1>7, <2>1 DEF WriteEvaluation, Lands, Evaluating
<1>8. CASE StageFails
  <2>1. run'.pc = "size"
    BY <1>8 DEF StageFails, Unevaluated, NoRun
  <2> QED
    BY <1>8, <2>1 DEF StageFails, Lands, Quiet, Evaluating
<1>9. CASE TouchSentinel \/ RemoveSentinel
  BY <1>9 DEF TouchSentinel, RemoveSentinel, Quiet, Evaluating, TypeOK, Run
<1>10. CASE ReadHalt
  BY <1>10 DEF ReadHalt, Looks
<1>11. CASE UnlinkSentinel
  <2>1. run'.pc = run.pc /\ run'.t0 = run.t0 /\ run'.row = run.row
    BY <1>11 DEF UnlinkSentinel, TypeOK, Run
  <2>2. CASE cli.halt
    BY <1>11, <2>1, <2>2 DEF UnlinkSentinel, Unlinks, TypeOK, Cli
  <2>3. CASE ~ cli.halt
    BY <1>11, <2>1, <2>3 DEF UnlinkSentinel, Unlinks, NoCli
  <2> QED
    BY <2>2, <2>3
<1>12. CASE WriteClearHalt
  <2>1. PICK stage \in RestartStages :
          rows' = rows \cup {[at |-> cli.at, kind |-> "clear-halt",
                              before |-> cli.stage, after |-> stage, level |-> 0]}
    BY <1>12 DEF WriteClearHalt
  <2> DEFINE c == [at |-> cli.at, kind |-> "clear-halt",
                   before |-> cli.stage, after |-> stage, level |-> 0]
  <2>2. c \in Row /\ c.at = cli.at /\ c.kind = "clear-halt"
    BY StageAssumption DEF TypeOK, Cli, Row, Kinds
  <2> HIDE DEF c
  <2>3. rows' = rows \cup {c}
    BY <2>1 DEF c
  <2>4. cli'.pc = "idle" /\ cli.pc = "write" /\ UNCHANGED <<clock, run>>
    BY <1>12 DEF WriteClearHalt, NoCli
  <2> QED
    BY <2>2, <2>3, <2>4 DEF Clears
<1>13. CASE AbortClearHalt
  BY <1>13 DEF AbortClearHalt, NoCli, Quiet, Evaluating
<1>14. CASE UNCHANGED vars
  BY <1>14 DEF vars, Quiet, Evaluating
<1> QED
  BY <1>1, <1>2, <1>3, <1>4, <1>5, <1>6, <1>7, <1>8, <1>9, <1>10, <1>11, <1>12,
     <1>13, <1>14 DEF Next, DaemonStep, OperatorStep

-------------------------------------------------------------------------------
\* The instants of the run and the command under way are not those of rows.
OrderInv ==
  /\ TypeOK /\ TableInv
  /\ Evaluating => run.t0 <= clock /\ \A r \in rows : r.at # run.t0
  /\ run.pc = "write" => run.row.at = run.t0 /\ run.row.kind # "clear-halt"
  /\ cli.pc = "write" => /\ cli.halt /\ cli.at <= clock
                         /\ \A r \in rows : r.at # cli.at
                         /\ Evaluating => run.t0 # cli.at

LEMMA OrderStep ==
  ASSUME OrderInv, [Next]_vars
  PROVE  OrderInv'
<1>1. TypeOK'
  BY StageTypeStep DEF OrderInv
<1>2. CASE Quiet
  <2>1. TableInv'
    BY <1>2 DEF OrderInv, Quiet, TableInv
  <2>2. run'.pc = "write" => Evaluating'
    BY DEF Evaluating
  <2>3. run'.pc = "write" => run'.row.at = run'.t0 /\ run'.row.kind # "clear-halt"
    BY <1>2, <2>2 DEF OrderInv, Quiet
  <2>4. cli'.pc = "write" => cli' = cli
    BY <1>2 DEF Quiet
  <2> QED
    BY <1>1, <1>2, <2>1, <2>3, <2>4 DEF OrderInv, Quiet
<1>3. CASE Begins
  <2>1. clock \in Nat /\ \A r \in rows : r.at \in Nat /\ r.at <= clock
    BY DEF OrderInv, TableInv, Row
  <2>2. TableInv'
    BY <1>3, <2>1 DEF OrderInv, Begins, TableInv
  <2>3. /\ run'.t0 <= clock' /\ \A r \in rows' : r.at # run'.t0
        /\ run'.pc # "write"
    BY <1>3, <2>1 DEF Begins
  <2>4. cli'.pc = "write" => /\ cli'.halt /\ cli'.at <= clock'
                             /\ \A r \in rows' : r.at # cli'.at
                             /\ run'.t0 # cli'.at
    BY <1>3, <2>1 DEF Begins, OrderInv, TypeOK, Cli
  <2> QED
    BY <1>1, <2>2, <2>3, <2>4 DEF OrderInv
<1>4. CASE Decides
  <2>1. run'.row.at = run.t0 /\ run'.row.kind # "clear-halt"
    BY <1>4 DEF Decides, EvaluateStageState, Decision
  <2> QED
    BY <1>1, <1>4, <2>1 DEF OrderInv, Decides, TableInv, Evaluating
<1>5. CASE Lands
  <2>1. /\ run.row \in Row /\ run.row.at <= clock
        /\ \A r \in rows : r.at # run.row.at
        /\ cli.pc = "write" => cli.at # run.row.at
    BY <1>5 DEF OrderInv, Lands, Evaluating, TypeOK, Run
  <2>2. IsFiniteSet(rows')
    BY <1>5, FS_AddElement DEF Lands, OrderInv, TableInv
  <2>3. TableInv'
    BY <1>5, <2>1, <2>2 DEF Lands, OrderInv, TableInv
  <2>4. run'.pc # "write"
    BY <1>5 DEF Lands, Evaluating
  <2> QED
    BY <1>1, <1>5, <2>1, <2>3, <2>4 DEF Lands, OrderInv
<1>6. CASE Looks
  BY <1>1, <1>6 DEF OrderInv, Looks, TableInv, Evaluating
<1>7. CASE Unlinks
  BY <1>1, <1>7 DEF OrderInv, Unlinks, TableInv, TypeOK, Row, Run, Evaluating
<1>8. CASE Clears
  <2>1. PICK c \in Row : /\ c.at = cli.at /\ c.kind = "clear-halt"
                         /\ rows' = rows \cup {c}
    BY <1>8 DEF Clears
  <2>2. /\ cli.at <= clock /\ \A r \in rows : r.at # cli.at
        /\ Evaluating => run.t0 # cli.at
    BY <1>8 DEF Clears, OrderInv
  <2>3. IsFiniteSet(rows')
    BY <2>1, FS_AddElement DEF OrderInv, TableInv
  <2>4. TableInv'
    BY <1>8, <2>1, <2>2, <2>3 DEF Clears, OrderInv, TableInv
  <2> QED
    BY <1>1, <1>8, <2>1, <2>2, <2>4 DEF Clears, OrderInv, Evaluating
<1> QED
  BY <1>2, <1>3, <1>4, <1>5, <1>6, <1>7, <1>8, StepsOfTheTable DEF OrderInv

LEMMA OrderInit ==
  ASSUME Init
  PROVE  OrderInv
<1>1. NoRow \in Row
  BY DEF NoRow, Row, Kinds, Stages
<1>2. NoRun \in Run
  BY <1>1 DEF NoRun, Run
<1>3. NoCli \in Cli
  BY DEF NoCli, Cli, Stages
<1>4. /\ <<>> \in Seq(DrawdownLevels) /\ Len(<<>>) <= 2
      /\ 0 \in Nat /\ 0 \in 0 .. MaxTouches
  BY StageAssumption
<1>6. TypeOK
  BY <1>2, <1>3, <1>4, Zenon DEF Init, TypeOK
<1>5. TableInv
  BY FS_EmptySet DEF Init, TableInv
<1> QED
  BY <1>6, <1>5 DEF Init, OrderInv, NoRun, NoCli, Evaluating

\* The tables, the run and the command keep their types, for every threshold,
\* limit and drawdown level (TypeOK).
THEOREM StageTypeCorrect ==
  Spec => []TypeOK
<1>1. OrderInv => TypeOK
  BY DEF OrderInv
<1> QED
  BY <1>1, OrderInit, OrderStep, PTL DEF Spec

-------------------------------------------------------------------------------
\* A sentinel that has been there since the run's start: what the run knows of it.
ArmedInv ==
  run.armed =>
    /\ sentinel
    /\ run.pc \in {"history", "write"} => run.seen
    /\ run.pc = "write" => run.row.kind = "halt"
    /\ run.pc = "size" /\ run.evaluated => run.row.kind = "halt"
    /\ run.pc = "trade" => run.halted

LEMMA ArmedStep ==
  ASSUME TypeOK, ArmedInv, [Next]_vars
  PROVE  ArmedInv'
<1>1. CASE Start
  BY <1>1, RunTyped DEF Start, ArmedInv, Run
<1>2. CASE EvaluateDrawdown
  <2>1. run'.pc = "sentinel" /\ run'.armed = run.armed /\ sentinel' = sentinel
    BY <1>2 DEF EvaluateDrawdown, TypeOK, Run
  <2> QED
    BY <2>1 DEF ArmedInv
<1>11. CASE ReadSentinel
  <2>1. /\ run'.pc = "history" /\ run'.armed = run.armed
        /\ run'.seen = sentinel /\ sentinel' = sentinel
    BY <1>11 DEF ReadSentinel, TypeOK, Run
  <2> QED
    BY <2>1 DEF ArmedInv
<1>3. CASE DrawdownFails \/ StageFails
  <2>1. run' = Unevaluated /\ sentinel' = sentinel
    BY <1>3 DEF DrawdownFails, StageFails
  <2>2. run'.pc = "size" /\ ~ run'.evaluated /\ run'.armed = run.armed
    BY <2>1 DEF Unevaluated, NoRun
  <2> QED
    BY <2>1, <2>2 DEF ArmedInv
<1>4. CASE ReadHistory
  <2>1. PICK breach \in BOOLEAN, pass \in BOOLEAN :
          run' = [run EXCEPT !.pc = "write",
                    !.row = EvaluateStageState(PriorHistory, run.seen, PriorLevel,
                                               run.level, breach, pass, run.t0)]
    BY <1>4 DEF ReadHistory
  <2>2. /\ run'.pc = "write" /\ run'.armed = run.armed /\ run'.seen = run.seen
        /\ run'.row = EvaluateStageState(PriorHistory, run.seen, PriorLevel,
                                         run.level, breach, pass, run.t0)
    BY <2>1 DEF TypeOK, Run
  <2>3. run.seen => run'.row.kind = "halt"
    BY <2>2 DEF EvaluateStageState, Decision
  <2> QED
    BY <1>4, <2>2, <2>3 DEF ReadHistory, ArmedInv
<1>5. CASE WriteEvaluation
  <2>1. run'.pc = "size" /\ run'.row = run.row /\ run'.armed = run.armed
    BY <1>5 DEF WriteEvaluation, Unevaluated, NoRun
  <2> QED
    BY <1>5, <2>1 DEF WriteEvaluation, ArmedInv
<1>6. CASE ResolveSizing
  <2>1. /\ run'.pc = "trade" /\ run'.armed = run.armed
        /\ run'.halted = IF run.evaluated THEN run.row.kind = "halt" ELSE sentinel
    BY <1>6 DEF ResolveSizing, NoRun
  <2> QED
    BY <1>6, <2>1 DEF ResolveSizing, ArmedInv
<1>7. CASE EndRun
  BY <1>7 DEF EndRun, NoRun, ArmedInv
<1>8. CASE TouchSentinel \/ RemoveSentinel
  BY <1>8 DEF TouchSentinel, RemoveSentinel, ArmedInv, TypeOK, Run
<1>9. CASE UnlinkSentinel
  <2>1. /\ run'.pc = run.pc /\ run'.seen = run.seen /\ run'.row = run.row
        /\ run'.evaluated = run.evaluated /\ run'.halted = run.halted
        /\ run'.armed = (run.armed /\ ~ cli.sentinel)
    BY <1>9 DEF UnlinkSentinel, TypeOK, Run
  <2>2. sentinel' = IF cli.sentinel THEN FALSE ELSE sentinel
    BY <1>9 DEF UnlinkSentinel
  <2> QED
    BY <2>1, <2>2, Zenon DEF ArmedInv
<1>10. CASE ReadHalt \/ WriteClearHalt \/ AbortClearHalt \/ UNCHANGED vars
  BY <1>10 DEF ReadHalt, WriteClearHalt, AbortClearHalt, vars, ArmedInv
<1> QED
  BY <1>1, <1>2, <1>3, <1>4, <1>5, <1>6, <1>7, <1>8, <1>9, <1>10, <1>11
     DEF Next, DaemonStep, OperatorStep

\* A sentinel on disk from a run's start to its sizing halts the run, whichever
\* evaluation failed on the way (SentinelBlocksEntries).
THEOREM StageSentinelBlocks ==
  Spec => []SentinelBlocksEntries
<1>1. Init => ArmedInv
  BY DEF Init, NoRun, ArmedInv
<1>2. ArmedInv => SentinelBlocksEntries
  BY DEF ArmedInv, SentinelBlocksEntries
<1> QED
  BY <1>1, <1>2, ArmedStep, StageTypeCorrect, PTL DEF Spec

-------------------------------------------------------------------------------
(* Runs and commands that overlap.                                           *)

\* A halt that the command under way has seen, and no other row after it.
StandsForCommand(H) ==
  /\ H.kind = "halt"
  /\ cli.pc = "write" => H.at < cli.at
  /\ \A x \in rows : x.at > H.at => x.kind = "halt"

OverlapInv ==
  /\ Evaluating => \A r \in rows : r.at > run.t0 => r.kind = "clear-halt"
  /\ Evaluating => \A r, q \in rows : r.at > run.t0 /\ q.at > run.t0 => r = q
  /\ cli.pc \in {"read", "write"} /\ cli.halt => \E H \in rows : StandsForCommand(H)
  /\ run.pc = "write" /\ IsHalted(rows) => run.row.kind = "halt"

\* Where only halts follow a halt, the newest row is one.
LEMMA StandingHalt ==
  ASSUME TableInv, NEW H \in rows, H.kind = "halt",
         \A x \in rows : x.at > H.at => x.kind = "halt"
  PROVE  IsHalted(rows)
<1>1. Latest(rows) \in rows /\ H.at <= Latest(rows).at
  BY TableHasLatest
<1>2. Latest(rows) = H \/ Latest(rows).at > H.at
  BY <1>1 DEF TableInv, Row
<1> QED
  BY <1>1, <1>2 DEF IsHalted

LEMMA OverlapStep ==
  ASSUME OrderInv, OverlapInv, [Next]_vars
  PROVE  OverlapInv'
<1>1. CASE Quiet
  <2>1. run'.pc = "write" /\ IsHalted(rows)' => run'.row.kind = "halt"
    BY <1>1 DEF Quiet, OverlapInv, IsHalted, Latest, After
  <2>2. cli'.pc \in {"read", "write"} /\ cli'.halt =>
          \E H \in rows' : StandsForCommand(H)'
    BY <1>1 DEF Quiet, OverlapInv, StandsForCommand
  <2> QED
    BY <1>1, <2>1, <2>2 DEF Quiet, OverlapInv
<1>2. CASE Begins
  <2>1. \A r \in rows' : ~ (r.at > run'.t0)
    BY <1>2 DEF Begins, OrderInv, TableInv, Row
  <2>2. run'.pc # "write"
    BY <1>2 DEF Begins
  <2>3. cli'.pc \in {"read", "write"} /\ cli'.halt =>
          \E H \in rows' : StandsForCommand(H)'
    BY <1>2 DEF Begins, OverlapInv, StandsForCommand
  <2> QED
    BY <2>1, <2>2, <2>3 DEF OverlapInv
<1>3. CASE Decides
  <2>1. IsHalted(rows) => run'.row.kind = "halt"
    BY <1>3, HistoryHasLatest
       DEF Decides, EvaluateStageState, Decision, IsHalted, OrderInv
  <2>2. IsHalted(rows)' => IsHalted(rows)
    BY <1>3 DEF Decides, IsHalted, Latest, After
  <2>3. cli'.pc \in {"read", "write"} /\ cli'.halt =>
          \E H \in rows' : StandsForCommand(H)'
    BY <1>3 DEF Decides, OverlapInv, StandsForCommand
  <2> QED
    BY <1>3, <2>1, <2>2, <2>3 DEF Decides, OverlapInv, Evaluating
<1>4. CASE Lands
  <2>1. ~ Evaluating' /\ run'.pc # "write"
    BY <1>4 DEF Lands, Evaluating
  <2>2. ASSUME cli'.pc \in {"read", "write"}, cli'.halt
        PROVE  \E H \in rows' : StandsForCommand(H)'
    <3>1. PICK H \in rows : StandsForCommand(H)
      BY <1>4, <2>2 DEF Lands, OverlapInv
    <3>2. run.row.kind = "halt"
      BY <1>4, <3>1, StandingHalt DEF Lands, OverlapInv, OrderInv, StandsForCommand
    <3> QED
      BY <1>4, <3>1, <3>2 DEF Lands, StandsForCommand
  <2> QED
    BY <2>1, <2>2 DEF OverlapInv
<1>5. CASE Looks
  <2>1. ASSUME cli'.halt
        PROVE  \E H \in rows' : StandsForCommand(H)'
    <3>1. Latest(rows).kind = "halt"
      BY <1>5, <2>1 DEF Looks, IsHalted
    <3>2. rows # {}
      BY <3>1 DEF Latest, NoRow
    <3>3. Latest(rows) \in rows /\ \A r \in rows : ~ (r.at > Latest(rows).at)
      BY <3>2, TableHasLatest DEF OrderInv, TableInv, Row
    <3>4. rows' = rows /\ cli'.pc # "write"
      BY <1>5 DEF Looks
    <3> QED
      BY <3>1, <3>3, <3>4 DEF StandsForCommand
  <2>2. IsHalted(rows)' => IsHalted(rows)
    BY <1>5 DEF Looks, IsHalted, Latest, After
  <2> QED
    BY <1>5, <2>1, <2>2 DEF Looks, OverlapInv, Evaluating
<1>6. CASE Unlinks
  <2>1. ASSUME cli'.pc \in {"read", "write"}, cli'.halt
        PROVE  \E H \in rows' : StandsForCommand(H)'
    <3>1. PICK H \in rows : StandsForCommand(H)
      BY <1>6, <2>1 DEF Unlinks, OverlapInv
    <3>2. H.at < cli'.at
      BY <1>6, <2>1 DEF Unlinks, OrderInv, TableInv, Row
    <3> QED
      BY <1>6, <3>1, <3>2 DEF Unlinks, StandsForCommand
  <2>2. IsHalted(rows)' => IsHalted(rows)
    BY <1>6 DEF Unlinks, IsHalted, Latest, After
  <2> QED
    BY <1>6, <2>1, <2>2 DEF Unlinks, OverlapInv, Evaluating
<1>7. CASE Clears
  <2>1. PICK c \in Row : /\ c.at = cli.at /\ c.kind = "clear-halt"
                         /\ rows' = rows \cup {c}
    BY <1>7 DEF Clears
  <2>2. PICK H \in rows : StandsForCommand(H)
    BY <1>7 DEF Clears, OrderInv, OverlapInv
  <2>3. IsHalted(rows)
    BY <2>2, StandingHalt DEF StandsForCommand, OrderInv
  <2>4. run' = run /\ cli'.pc = "idle"
    BY <1>7 DEF Clears
  <2>5. Evaluating' => \A r \in rows : ~ (r.at > run.t0)
    <3>1. SUFFICES ASSUME Evaluating, NEW r \in rows, r.at > run.t0
                   PROVE  FALSE
      BY <2>4 DEF Evaluating
    <3>2. r.kind = "clear-halt"
      BY <3>1 DEF OverlapInv
    <3>3. ~ (r.at > H.at)
      BY <2>2, <3>2 DEF StandsForCommand
    <3>4. H.at > run.t0
      BY <3>1, <3>3 DEF OrderInv, TableInv, TypeOK, Row, Run
    <3> QED
      BY <2>2, <3>1, <3>4 DEF OverlapInv, StandsForCommand
  <2> QED
    BY <2>1, <2>3, <2>4, <2>5 DEF OverlapInv
<1> QED
  BY <1>1, <1>2, <1>3, <1>4, <1>5, <1>6, <1>7, StepsOfTheTable DEF OrderInv

LEMMA OverlapInit ==
  ASSUME Init
  PROVE  OverlapInv
  BY DEF Init, NoRun, NoCli, OverlapInv, Evaluating

-------------------------------------------------------------------------------
(* Halts.                                                                    *)

ClearedAfter(r) == \E c \in rows : c.kind = "clear-halt" /\ c.at > r.at

HaltInv ==
  /\ HaltHoldsUntilCleared
  /\ run.pc = "write" /\ run.row.kind # "halt" =>
       \A r \in rows : r.kind = "halt" => ClearedAfter(r)

LEMMA HaltStep ==
  ASSUME OrderInv, OverlapInv, HaltInv, [Next]_vars
  PROVE  HaltInv'
<1>1. CASE Quiet \/ Begins \/ Looks \/ Unlinks
  <2>1. /\ rows' = rows
        /\ run'.pc = "write" => run.pc = "write" /\ run'.row = run.row
    BY <1>1 DEF Quiet, Begins, Looks, Unlinks
  <2> QED
    BY <2>1 DEF HaltInv, HaltHoldsUntilCleared, ClearedAfter
<1>2. CASE Decides
  <2>1. ASSUME run'.row.kind # "halt", NEW r \in rows, r.kind = "halt"
        PROVE  ClearedAfter(r)
    <3>1. Latest(rows).kind # "halt"
      BY <1>2, <2>1, HistoryHasLatest
         DEF Decides, EvaluateStageState, Decision, IsHalted, OrderInv
    <3>2. Latest(rows) \in rows /\ r.at <= Latest(rows).at
      BY <2>1, TableHasLatest DEF OrderInv
    <3>3. Latest(rows).at > r.at
      BY <2>1, <3>1, <3>2 DEF OrderInv, TableInv, Row
    <3> QED
      BY <2>1, <3>1, <3>2, <3>3 DEF HaltInv, HaltHoldsUntilCleared, ClearedAfter
  <2> QED
    BY <1>2, <2>1 DEF Decides, HaltInv, HaltHoldsUntilCleared, ClearedAfter
<1>3. CASE Lands
  <2>1. \A r \in rows : r.kind = "halt" /\ run.row.kind # "halt" => ClearedAfter(r)
    BY <1>3 DEF Lands, HaltInv
  <2>2. \A q \in rows : q.at > run.row.at => q.kind = "clear-halt"
    BY <1>3 DEF Lands, OrderInv, OverlapInv, Evaluating
  <2>3. ~ (run.row.at > run.row.at)
    BY <1>3 DEF OrderInv, Lands, TypeOK, Run
  <2>4. rows' = rows \cup {run.row} /\ run'.pc # "write"
    BY <1>3 DEF Lands, Evaluating
  <2> QED
    BY <2>1, <2>2, <2>3, <2>4 DEF HaltInv, HaltHoldsUntilCleared, ClearedAfter
<1>4. CASE Clears
  <2>1. PICK c \in Row : c.kind = "clear-halt" /\ rows' = rows \cup {c}
    BY <1>4 DEF Clears
  <2>2. run' = run
    BY <1>4 DEF Clears
  <2> QED
    BY <2>1, <2>2 DEF HaltInv, HaltHoldsUntilCleared, ClearedAfter
<1> QED
  BY <1>1, <1>2, <1>3, <1>4, StepsOfTheTable DEF OrderInv

\* After a halt no row other than a halt is stamped before a clear-halt is on
\* file, however runs, commands and their deaths overlap (HaltHoldsUntilCleared).
THEOREM StageHaltHolds ==
  Spec => []HaltHoldsUntilCleared
<1>1. Init => HaltInv
  BY DEF Init, NoRun, HaltInv, HaltHoldsUntilCleared
<1>2. HaltInv => HaltHoldsUntilCleared
  BY DEF HaltInv
<1> QED
  BY <1>1, <1>2, OrderInit, OrderStep, OverlapInit, OverlapStep, HaltStep, PTL
     DEF Spec

\* A row that lands while a command is about to record its own is a halt.
LEMMA CommandMeansHalt ==
  ASSUME OrderInv, OverlapInv, cli.pc = "write", run.pc = "write"
  PROVE  run.row.kind = "halt"
<1>1. PICK H \in rows : StandsForCommand(H)
  BY DEF OrderInv, OverlapInv
<1> QED
  BY <1>1, StandingHalt DEF StandsForCommand, OverlapInv, OrderInv

-------------------------------------------------------------------------------
(* What lets a run through a halt on file.                                   *)

\* A run is sized past a halt only where it has no stage evaluation, and then
\* only without a sentinel.
HaltStopsEvaluatedRuns ==
  [][ResolveSizing /\ IsHalted(rows) /\ ~ run'.halted
       => ~ run.evaluated /\ ~ sentinel]_vars

\* Until it is sized, the row of an evaluated run is the newest but clear-halts.
SizedInv ==
  run.pc = "size" /\ run.evaluated =>
    /\ run.row \in rows
    /\ \A r \in rows : r.at > run.row.at => r.kind = "clear-halt"

LEMMA SizedStep ==
  ASSUME OrderInv, OverlapInv, SizedInv, [Next]_vars
  PROVE  SizedInv'
<1>1. CASE WriteEvaluation
  <2>1. /\ rows' = rows \cup {run.row} /\ run'.row = run.row /\ Evaluating
        /\ run.row.at = run.t0 /\ run.t0 \in Nat
    BY <1>1, RunTyped DEF WriteEvaluation, OrderInv, Evaluating, TypeOK, Run
  <2> QED
    BY <2>1 DEF OverlapInv, SizedInv
<1>2. CASE WriteClearHalt
  <2>1. PICK stage \in RestartStages :
          rows' = rows \cup {[at |-> cli.at, kind |-> "clear-halt",
                              before |-> cli.stage, after |-> stage, level |-> 0]}
    BY <1>2 DEF WriteClearHalt
  <2>2. run' = run
    BY <1>2 DEF WriteClearHalt
  <2> QED
    BY <2>1, <2>2 DEF SizedInv
<1>3. CASE Start \/ ReadHistory \/ EvaluateDrawdown \/ ReadSentinel
  <2>1. run'.pc # "size"
    BY <1>3 DEF Start, ReadHistory, EvaluateDrawdown, ReadSentinel,
                OrderInv, TypeOK, Run, NoRun
  <2> QED
    BY <2>1 DEF SizedInv
<1>4. CASE DrawdownFails \/ StageFails
  <2>1. ~ run'.evaluated
    BY <1>4 DEF DrawdownFails, StageFails, Unevaluated, NoRun
  <2> QED
    BY <2>1 DEF SizedInv
<1>5. CASE ResolveSizing \/ EndRun
  <2>1. CASE ResolveSizing
    <3>1. run'.pc = "trade"
      BY <2>1 DEF ResolveSizing, NoRun
    <3> QED
      BY <3>1 DEF SizedInv
  <2>2. CASE EndRun
    BY <2>2 DEF EndRun, NoRun, SizedInv
  <2> QED
    BY <1>5, <2>1, <2>2
<1>6. CASE \/ TouchSentinel \/ RemoveSentinel \/ ReadHalt \/ UnlinkSentinel
           \/ AbortClearHalt \/ UNCHANGED vars
  <2>1. /\ rows' = rows /\ run'.pc = run.pc /\ run'.row = run.row
        /\ run'.evaluated = run.evaluated
    <3>1. CASE TouchSentinel \/ ReadHalt \/ AbortClearHalt \/ UNCHANGED vars
      BY <3>1 DEF TouchSentinel, ReadHalt, AbortClearHalt, vars
    <3>2. CASE RemoveSentinel
      BY <3>2 DEF RemoveSentinel, OrderInv, TypeOK, Run
    <3>3. CASE UnlinkSentinel
      <4>1. rows' = rows /\ run' = [run EXCEPT !.armed = run.armed /\ ~ cli.sentinel]
        BY <3>3 DEF UnlinkSentinel
      <4> QED
        BY <4>1 DEF OrderInv, TypeOK, Run
    <3> QED
      BY <1>6, <3>1, <3>2, <3>3
  <2> QED
    BY <2>1 DEF SizedInv
<1> QED
  BY <1>1, <1>2, <1>3, <1>4, <1>5, <1>6 DEF Next, DaemonStep, OperatorStep

\* While a halt is on file a run that evaluated its stage is halted, whatever
\* commands and deaths overlap it: only a run whose evaluation failed, with no
\* sentinel on disk, is sized past it (resolvePerCellSizingForRun).
THEOREM StageHaltStopsEvaluatedRuns ==
  Spec => HaltStopsEvaluatedRuns
<1>1. Init => SizedInv
  BY DEF Init, NoRun, SizedInv
<1>2. ASSUME OrderInv, SizedInv, ResolveSizing, IsHalted(rows), ~ run'.halted
      PROVE  ~ run.evaluated /\ ~ sentinel
  <2>1. /\ run.pc = "size"
        /\ run'.halted = IF run.evaluated THEN run.row.kind = "halt" ELSE sentinel
    BY <1>2 DEF ResolveSizing, NoRun
  <2>2. ASSUME run.evaluated
        PROVE  run.row.kind = "halt"
    <3>1. /\ run.row \in rows
          /\ \A r \in rows : r.at > run.row.at => r.kind = "clear-halt"
      BY <1>2, <2>1, <2>2 DEF SizedInv
    <3>2. Latest(rows) \in rows /\ run.row.at <= Latest(rows).at
      BY <1>2, <3>1, TableHasLatest DEF OrderInv
    <3>3. Latest(rows) = run.row \/ Latest(rows).at > run.row.at
      BY <1>2, <3>1, <3>2 DEF OrderInv, TableInv, Row
    <3> QED
      BY <1>2, <3>1, <3>2, <3>3 DEF IsHalted
  <2> QED
    BY <1>2, <2>1, <2>2
<1>3. OrderInv /\ SizedInv =>
        [ResolveSizing /\ IsHalted(rows) /\ ~ run'.halted
           => ~ run.evaluated /\ ~ sentinel]_vars
  BY <1>2
<1> QED
  BY <1>1, <1>3, OrderInit, OrderStep, OverlapInit, OverlapStep, SizedStep, PTL
     DEF Spec, HaltStopsEvaluatedRuns

-------------------------------------------------------------------------------
(* Promotions.                                                               *)

\* From some row MinDays before q on, the table shows q's stage only.
Earned(q) ==
  /\ q.before \in 0 .. 3
  /\ \E e \in rows :
       /\ e.at <= q.at - MinDays[q.before]
       /\ \A x \in rows : e.at <= x.at /\ x.at < q.at => x.after = q.before

PromotionInv ==
  /\ \A q \in rows : q.kind = "promote" => Earned(q)
  /\ run.pc = "write" /\ run.row.kind = "promote" => Earned(run.row)
  /\ cli.pc = "write" => \A q \in rows : q.kind = "promote" => q.at < cli.at

LEMMA PromotionDecided ==
  ASSUME OrderInv, NEW seen, NEW prior, NEW level, NEW breach, NEW pass,
         NEW asOf \in Nat,
         NEW row,
         row = EvaluateStageState(PriorHistory, seen, prior, level, breach, pass, asOf),
         row.kind = "promote"
  PROVE  Earned(row) /\ RevalidationOver(PriorHistory, row.after, asOf)
<1> DEFINE stage == CurrentStage(PriorHistory)
           stay == {r \in PriorHistory :
                      \A q \in {r} \cup After(PriorHistory, r) : q.after = stage}
<1>1. /\ row.before = stage /\ row.at = asOf
      /\ row.after = StageAfter(stage, "promote")
      /\ MayPromote(PriorHistory, level, pass, asOf)
  BY DEF EvaluateStageState, Decision
<1>2. stage \in Stages /\ stage < 4
  BY <1>1, HistoryHasLatest, LatestTyped DEF MayPromote, CurrentStage, Row, OrderInv
<1>3. stage \in 0 .. 3 /\ MinDays[stage] \in Nat \ {0}
  BY <1>2, StageAssumption DEF Stages
<1>4. /\ asOf - StageEnteredAt(PriorHistory, stage, asOf) >= MinDays[stage]
      /\ RevalidationOver(PriorHistory, stage + 1, asOf)
  BY <1>1 DEF MayPromote
<1>5. \A r \in rows : r.at \in Nat
  BY DEF OrderInv, TableInv, Row
<1>6. StageEnteredAt(PriorHistory, stage, asOf) =
        IF stay = {} THEN asOf ELSE (CHOOSE r \in stay : Before(stay, r) = {}).at
  BY DEF StageEnteredAt
<1>7. stay \subseteq PriorHistory /\ PriorHistory \subseteq rows
  BY DEF PriorHistory
<1>8. \A r \in stay : \A q \in {r} \cup After(PriorHistory, r) : q.after = stage
  OBVIOUS
<1> HIDE DEF stage, stay
<1>9. stay # {}
  BY <1>3, <1>4, <1>6
<1>10. PICK e \in stay : asOf - e.at >= MinDays[stage]
  <2>1. \E r \in stay : Before(stay, r) = {}
    BY <1>5, <1>7, <1>9, OldestExists
  <2> QED
    BY <1>4, <1>6, <1>9, <2>1
<1>11. ASSUME NEW x \in rows, e.at <= x.at
       PROVE  x.after = stage
  <2>1. x \in PriorHistory
    BY <1>5, <1>7, <1>11, HistoryIsRecent DEF OrderInv
  <2>2. x = e \/ x.at > e.at
    BY <1>5, <1>7, <1>11 DEF OrderInv, TableInv
  <2> QED
    BY <1>8, <2>1, <2>2 DEF After
<1>12. e \in rows /\ e.at <= asOf - MinDays[stage]
  BY <1>3, <1>5, <1>7, <1>10
<1> QED
  BY <1>1, <1>3, <1>4, <1>11, <1>12 DEF Earned, StageAfter

LEMMA PromotionStep ==
  ASSUME OrderInv, OverlapInv, PromotionInv, [Next]_vars
  PROVE  PromotionInv'
<1>1. CASE Quiet \/ Begins \/ Looks
  <2>1. /\ rows' = rows
        /\ run'.pc = "write" => run.pc = "write" /\ run'.row = run.row
        /\ cli'.pc = "write" => cli' = cli
    BY <1>1 DEF Quiet, Begins, Looks
  <2> QED
    BY <2>1 DEF PromotionInv, Earned
<1>2. CASE Decides
  <2>1. run.t0 \in Nat
    BY DEF OrderInv, TypeOK, Run
  <2>2. run'.row.kind = "promote" => Earned(run'.row)
    BY <1>2, <2>1, PromotionDecided DEF Decides
  <2> QED
    BY <1>2, <2>2 DEF Decides, PromotionInv, Earned
<1>3. CASE Lands
  <2>1. rows' = rows \cup {run.row} /\ cli' = cli /\ run'.pc # "write"
    BY <1>3 DEF Lands, Evaluating
  <2>2. run.row.at \in Nat
    BY DEF OrderInv, TypeOK, Run, Row
  <2>3. ASSUME NEW q \in rows, q.kind = "promote"
        PROVE  Earned(q)'
    <3>1. ~ (run.row.at < q.at)
      BY <1>3, <2>2, <2>3
         DEF Lands, OrderInv, OverlapInv, Evaluating, TableInv, Row
    <3> QED
      BY <2>1, <2>3, <3>1 DEF PromotionInv, Earned
  <2>4. ASSUME NEW n, n = run.row, n.kind = "promote"
        PROVE  Earned(n)'
    <3>1. ~ (n.at < n.at)
      BY <2>2, <2>4
    <3>2. Earned(n)
      BY <1>3, <2>4 DEF Lands, PromotionInv
    <3> QED
      BY <2>1, <2>4, <3>1, <3>2 DEF Earned
  <2>5. cli.pc = "write" => run.row.kind # "promote"
    BY <1>3, CommandMeansHalt DEF Lands
  <2> QED
    BY <2>1, <2>3, <2>4, <2>5 DEF PromotionInv
<1>4. CASE Unlinks
  <2>1. cli'.pc = "write" => \A q \in rows : q.at < cli'.at
    BY <1>4 DEF Unlinks, OrderInv, TableInv, Row
  <2> QED
    BY <1>4, <2>1 DEF Unlinks, PromotionInv, Earned
<1>5. CASE Clears
  <2>1. PICK c \in Row : /\ c.at = cli.at /\ c.kind = "clear-halt"
                         /\ rows' = rows \cup {c}
    BY <1>5 DEF Clears
  <2>2. run' = run /\ cli'.pc = "idle"
    BY <1>5 DEF Clears
  <2>3. run.pc = "write" => run.row.kind # "promote"
    BY <1>5, CommandMeansHalt DEF Clears
  <2>4. ASSUME NEW q \in rows, q.kind = "promote"
        PROVE  Earned(q)'
    <3>1. ~ (c.at < q.at)
      BY <1>5, <2>1, <2>4 DEF Clears, PromotionInv, OrderInv, TableInv, Row
    <3> QED
      BY <2>1, <2>4, <3>1 DEF PromotionInv, Earned
  <2> QED
    BY <2>1, <2>2, <2>3, <2>4 DEF PromotionInv
<1> QED
  BY <1>1, <1>2, <1>3, <1>4, <1>5, StepsOfTheTable DEF OrderInv

LEMMA EarnedIsAStay ==
  ASSUME OrderInv, PromotionInv
  PROVE  PromotionIsEarned
<1>1. SUFFICES ASSUME NEW q \in rows, q.kind = "promote"
      PROVE  LET since == {r \in rows : r.at < q.at /\ r.at > q.at - MinDays[q.before]}
                 stood == {r \in rows : r.at <= q.at - MinDays[q.before]}
             IN  /\ \A r \in since : r.after = q.before
                 /\ stood # {} /\ CurrentStage(stood) = q.before
  BY DEF PromotionIsEarned
<1> DEFINE since == {r \in rows : r.at < q.at /\ r.at > q.at - MinDays[q.before]}
           stood == {r \in rows : r.at <= q.at - MinDays[q.before]}
<1>2. q.before \in 0 .. 3 /\ MinDays[q.before] \in Nat \ {0} /\ q.at \in Nat
  BY <1>1, StageAssumption DEF PromotionInv, Earned, OrderInv, TableInv, Row
<1>3. PICK e \in rows :
        /\ e.at <= q.at - MinDays[q.before]
        /\ \A x \in rows : e.at <= x.at /\ x.at < q.at => x.after = q.before
  BY <1>1 DEF PromotionInv, Earned
<1>4. \A r \in rows : r.at \in Nat /\ r.at <= clock
  BY DEF OrderInv, TableInv, Row
<1>5. \A r \in since : r.after = q.before
  BY <1>2, <1>3, <1>4
<1>6. e \in stood
  BY <1>3
<1>7. Latest(stood) \in stood /\ \A r \in stood : r.at <= Latest(stood).at
  BY <1>4, <1>6, LatestIsNewest DEF OrderInv, TableInv
<1>8. CurrentStage(stood) = q.before
  BY <1>2, <1>3, <1>4, <1>6, <1>7 DEF CurrentStage
<1> QED
  BY <1>5, <1>6, <1>8

\* Every promotion follows a whole minimum stay at its stage, for all minimum
\* stays and history limits and for rows that land out of order
\* (PromotionIsEarned).
THEOREM StagePromotionIsEarned ==
  Spec => []PromotionIsEarned
<1>1. Init => PromotionInv
  BY DEF Init, NoRun, NoCli, PromotionInv
<1> QED
  BY <1>1, OrderInit, OrderStep, OverlapInit, OverlapStep, PromotionStep,
     EarnedIsAStay, PTL DEF Spec

-------------------------------------------------------------------------------
(* The re-validation timer.                                                  *)

TimerHasRun(q) ==
  \A r \in rows :
    r.kind = "rollback" /\ r.at < q.at /\ r.before = q.after => q.at - r.at >= RevalDays

RevalidationInv ==
  /\ \A q \in rows : q.kind = "promote" => TimerHasRun(q)
  /\ run.pc = "write" /\ run.row.kind = "promote" => TimerHasRun(run.row)

\* The rows after one of the past are no more than the instants up to the run:
\* those beyond it are clear-halts, and there is one of them at most.
LEMMA FewRowsSince ==
  ASSUME OrderInv, OverlapInv, run.pc = "history", NEW r \in rows, r.at < run.t0
  PROVE  /\ IsFiniteSet(After(rows, r))
         /\ Cardinality(After(rows, r)) <= run.t0 - r.at
<1> DEFINE S == After(rows, r)
           T == (r.at + 1) .. run.t0
           f == [x \in S |-> IF x.at < run.t0 THEN x.at ELSE run.t0]
<1>1. run.t0 \in Nat /\ \A x \in rows : x.at \in Nat /\ x.at # run.t0
  BY DEF OrderInv, TypeOK, TableInv, Run, Row, Evaluating
<1>2. S \subseteq rows /\ \A x \in S : x.at > r.at
  BY DEF After
<1>3. IsFiniteSet(S)
  BY <1>2, FS_Subset DEF OrderInv, TableInv
<1>4. IsFiniteSet(T) /\ Cardinality(T) = run.t0 - r.at
  BY <1>1, FS_Interval
<1>5. f \in [S -> T]
  BY <1>1, <1>2
<1>6. \A x, y \in S : f[x] = f[y] => x = y
  <2>1. SUFFICES ASSUME NEW x \in S, NEW y \in S, f[x] = f[y]
                 PROVE  x = y
    OBVIOUS
  <2>2. x.at = y.at \/ (x.at > run.t0 /\ y.at > run.t0)
    BY <1>1, <1>2, <2>1
  <2> QED
    BY <1>2, <2>2 DEF OrderInv, TableInv, OverlapInv, Evaluating
<1>7. Cardinality(S) \in Nat /\ Cardinality(T) \in Nat
  BY <1>3, <1>4, FS_CardinalityType
<1> HIDE DEF S, T, f
<1>8. ~ (Cardinality(T) < Cardinality(S))
  BY <1>3, <1>4, <1>5, <1>6, FS_PigeonHole
<1> QED
  BY <1>3, <1>4, <1>7, <1>8 DEF S

LEMMA RevalidationStep ==
  ASSUME RevalDays <= HistoryLimit,
         OrderInv, OverlapInv, RevalidationInv, [Next]_vars
  PROVE  RevalidationInv'
<1>1. CASE Quiet \/ Begins \/ Looks \/ Unlinks
  <2>1. /\ rows' = rows
        /\ run'.pc = "write" => run.pc = "write" /\ run'.row = run.row
    BY <1>1 DEF Quiet, Begins, Looks, Unlinks
  <2> QED
    BY <2>1 DEF RevalidationInv, TimerHasRun
<1>2. CASE Decides
  <2>1. run.t0 \in Nat /\ run'.row.at = run.t0
    BY <1>2 DEF Decides, EvaluateStageState, OrderInv, TypeOK, Run
  <2>2. ASSUME run'.row.kind = "promote", NEW r \in rows, r.kind = "rollback",
               r.at < run.t0, r.before = run'.row.after
        PROVE  run.t0 - r.at >= RevalDays
    <3>1. RevalidationOver(PriorHistory, run'.row.after, run.t0)
      BY <1>2, <2>1, <2>2, PromotionDecided DEF Decides
    <3>2. RevalDays \in Nat /\ HistoryLimit \in Nat
      BY StageAssumption
    <3>3. \A x \in rows : x.at \in Nat /\ x.at <= clock
      BY DEF OrderInv, TableInv, Row
    <3>4. CASE r \in PriorHistory
      <4> DEFINE out == {x \in PriorHistory :
                           x.kind = "rollback" /\ x.before = run'.row.after}
      <4>1. r \in out /\ out \subseteq rows
        BY <2>2, <3>4 DEF PriorHistory
      <4>2. run.t0 - Latest(out).at >= RevalDays
        BY <3>1, <4>1 DEF RevalidationOver
      <4> HIDE DEF out
      <4>3. Latest(out) \in out /\ r.at <= Latest(out).at
        BY <3>3, <4>1, LatestIsNewest DEF OrderInv, TableInv
      <4> QED
        BY <2>1, <3>2, <3>3, <4>1, <4>2, <4>3
    <3>5. CASE r \notin PriorHistory
      <4>1. /\ IsFiniteSet(After(rows, r))
            /\ Cardinality(After(rows, r)) <= run.t0 - r.at
        BY <1>2, <2>2, FewRowsSince DEF Decides
      <4>2. Cardinality(After(rows, r)) \in Nat
        BY <4>1, FS_CardinalityType
      <4>3. ~ (Cardinality(After(rows, r)) < HistoryLimit)
        BY <3>5 DEF PriorHistory
      <4> QED
        BY <2>1, <2>2, <3>2, <3>3, <4>1, <4>2, <4>3
    <3> QED
      BY <3>4, <3>5
  <2> QED
    BY <1>2, <2>1, <2>2 DEF Decides, RevalidationInv, TimerHasRun
<1>3. CASE Lands
  <2>1. rows' = rows \cup {run.row} /\ run'.pc # "write"
    BY <1>3 DEF Lands, Evaluating
  <2>2. ASSUME NEW q \in rows, q.kind = "promote"
        PROVE  TimerHasRun(q)'
    <3>1. ~ (run.row.at < q.at)
      BY <1>3, <2>2 DEF Lands, OrderInv, OverlapInv, Evaluating, TableInv, Row
    <3> QED
      BY <2>1, <2>2, <3>1 DEF RevalidationInv, TimerHasRun
  <2>3. ASSUME NEW n, n = run.row, n.kind = "promote"
        PROVE  TimerHasRun(n)'
    <3>1. TimerHasRun(n)
      BY <1>3, <2>3 DEF Lands, RevalidationInv
    <3> QED
      BY <2>1, <2>3, <3>1 DEF TimerHasRun
  <2> QED
    BY <2>1, <2>2, <2>3 DEF RevalidationInv
<1>4. CASE Clears
  <2>1. PICK c \in Row : c.kind = "clear-halt" /\ rows' = rows \cup {c}
    BY <1>4 DEF Clears
  <2>2. run' = run
    BY <1>4 DEF Clears
  <2> QED
    BY <2>1, <2>2 DEF RevalidationInv, TimerHasRun
<1> QED
  BY <1>1, <1>2, <1>3, <1>4, StepsOfTheTable DEF OrderInv

\* No stage is re-entered by promotion before its timer is over, for every timer
\* not longer than the history loaded (RevalidationRespected).
THEOREM StageRevalidationRespected ==
  ASSUME RevalDays <= HistoryLimit
  PROVE  Spec => []RevalidationRespected
<1>1. Init => RevalidationInv
  BY DEF Init, NoRun, RevalidationInv
<1>2. OrderInv /\ OverlapInv /\ RevalidationInv /\ [Next]_vars => RevalidationInv'
  BY RevalidationStep
<1>3. RevalidationInv => RevalidationRespected
  BY DEF RevalidationInv, TimerHasRun, RevalidationRespected
<1> QED
  BY <1>1, <1>2, <1>3, OrderInit, OrderStep, OverlapInit, OverlapStep, PTL DEF Spec

-------------------------------------------------------------------------------
(* Failures in a row.                                                        *)

\* There is a row between x and c, or a run under way that may put one there.
Followed(x, c) ==
  \/ \E y \in rows : x.at < y.at /\ y.at < c.at
  \/ Evaluating /\ x.at < run.t0 /\ run.t0 < c.at

\* The halt a clear-halt was given for, and what may have come between.
ClearedBy(H, c) ==
  /\ H.kind = "halt" /\ H.at < c.at
  /\ \A x \in rows : x.at > H.at /\ Followed(x, c) => x.kind = "halt"

ClearedInv ==
  \A c \in rows : c.kind = "clear-halt" => \E H \in rows : ClearedBy(H, c)

LEMMA ClearedStep ==
  ASSUME OrderInv, OverlapInv, ClearedInv, [Next]_vars
  PROVE  ClearedInv'
<1>1. CASE Quiet \/ Decides \/ Looks \/ Unlinks
  <2>1. rows' = rows /\ (Evaluating' => Evaluating /\ run'.t0 = run.t0)
    BY <1>1 DEF Quiet, Decides, Looks, Unlinks, Evaluating
  <2> QED
    BY <2>1 DEF ClearedInv, ClearedBy, Followed
<1>2. CASE Begins
  <2>1. rows' = rows /\ \A c \in rows : ~ (run'.t0 < c.at)
    BY <1>2 DEF Begins, OrderInv, TableInv, Row
  <2> QED
    BY <2>1 DEF ClearedInv, ClearedBy, Followed
<1>3. CASE Lands
  <2>1. /\ rows' = rows \cup {run.row} /\ ~ Evaluating' /\ Evaluating
        /\ run.row.at = run.t0 /\ run.row.kind # "clear-halt" /\ run.t0 \in Nat
    BY <1>3 DEF Lands, OrderInv, Evaluating, TypeOK, Run
  <2>2. SUFFICES ASSUME NEW c \in rows, c.kind = "clear-halt"
                 PROVE  \E H \in rows' : ClearedBy(H, c)'
    BY <2>1 DEF ClearedInv
  <2>3. PICK H \in rows : ClearedBy(H, c)
    BY <2>2 DEF ClearedInv
  <2>4. ASSUME NEW x \in rows', x.at > H.at, Followed(x, c)'
        PROVE  x.kind = "halt"
    <3>1. PICK y \in rows' : x.at < y.at /\ y.at < c.at
      BY <2>1, <2>4 DEF Followed
    <3>2. CASE x = run.row
      <4>1. y \in rows /\ y.at > run.t0 /\ c.at > run.t0
        BY <2>1, <3>1, <3>2 DEF OrderInv, TableInv, Row
      <4>2. y = c
        BY <2>1, <4>1 DEF OverlapInv
      <4> QED
        BY <3>1, <4>2 DEF OrderInv, TableInv, Row
    <3>3. CASE x \in rows
      BY <2>1, <2>3, <2>4, <3>1, <3>3 DEF ClearedBy, Followed
    <3> QED
      BY <2>1, <3>2, <3>3
  <2> QED
    BY <2>1, <2>3, <2>4 DEF ClearedBy
<1>4. CASE Clears
  <2>1. PICK n \in Row : /\ n.at = cli.at /\ n.kind = "clear-halt"
                         /\ rows' = rows \cup {n}
    BY <1>4 DEF Clears
  <2>2. PICK S \in rows : StandsForCommand(S)
    BY <1>4 DEF Clears, OrderInv, OverlapInv
  <2>3. run' = run /\ S.at < n.at /\ n.at \in Nat
    BY <1>4, <2>1, <2>2 DEF Clears, StandsForCommand, Row
  <2>4. ASSUME NEW c \in rows, c.kind = "clear-halt"
        PROVE  \E H \in rows' : ClearedBy(H, c)'
    <3>1. PICK H \in rows : ClearedBy(H, c)
      BY <2>4 DEF ClearedInv
    <3>2. c.at < n.at
      BY <2>2, <2>3, <2>4 DEF StandsForCommand, OrderInv, TableInv, Row
    <3>3. ASSUME NEW x \in rows', x.at > H.at, Followed(x, c)'
          PROVE  x.kind = "halt"
      <4>1. /\ \A y \in rows' : y.at \in Nat
            /\ Evaluating => run.t0 \in Nat
        BY <2>1 DEF OrderInv, TableInv, TypeOK, Run, Row
      <4>2. x \in rows
        BY <2>1, <2>3, <3>2, <3>3, <4>1 DEF Followed, Evaluating
      <4>3. Followed(x, c)
        BY <2>1, <2>3, <3>2, <3>3
           DEF Followed, Evaluating, OrderInv, TableInv, Row
      <4> QED
        BY <3>1, <3>3, <4>2, <4>3 DEF ClearedBy
    <3> QED
      BY <2>1, <3>1, <3>3 DEF ClearedBy
  <2>5. ASSUME NEW x \in rows', x.at > S.at, Followed(x, n)'
        PROVE  x.kind = "halt"
    <3>1. \A y \in rows' : y.at \in Nat
      BY <2>1 DEF OrderInv, TableInv, Row
    <3>2. x # n
      BY <2>1, <2>3, <2>5, <3>1
         DEF Followed, Evaluating, OrderInv, TypeOK, Run
    <3> QED
      BY <2>1, <2>2, <2>5, <3>2 DEF StandsForCommand
  <2>6. ClearedBy(S, n)'
    BY <2>2, <2>3, <2>5 DEF ClearedBy, StandsForCommand
  <2> QED
    BY <2>1, <2>2, <2>4, <2>6 DEF ClearedInv
<1> QED
  BY <1>1, <1>2, <1>3, <1>4, StepsOfTheTable DEF OrderInv

\* The rows between two.
Between(r, s) == {x \in rows : r.at < x.at /\ x.at < s.at}

\* s is no third rollback, as far as the loaded history reaches.
NotTheThird(s) ==
  \A r, q \in rows :
    /\ r.kind = "rollback" /\ q.kind = "rollback"
    /\ r.at < q.at /\ q.at < s.at
    /\ Cardinality(Between(r, s)) < HistoryLimit
    => \E m \in rows :
         r.at < m.at /\ m.at < s.at /\ m.kind \notin {"hold", "rollback"}

RollbackInv ==
  /\ \A s \in rows : s.kind = "rollback" => NotTheThird(s)
  /\ run.pc = "write" /\ run.row.kind = "rollback" => NotTheThird(run.row)

LEMMA BetweenIsFinite ==
  ASSUME TableInv, NEW r, NEW s
  PROVE  IsFiniteSet(Between(r, s)) /\ Cardinality(Between(r, s)) \in Nat
<1>1. Between(r, s) \in SUBSET rows
  BY DEF Between
<1>2. IsFiniteSet(Between(r, s))
  BY <1>1, FS_Subset DEF TableInv
<1> QED
  BY <1>2, FS_CardinalityType

\* A run that rolls back has seen no two rollbacks in a row before it.
LEMMA RollbackDecided ==
  ASSUME OrderInv, OverlapInv, ClearedInv, run.pc = "history",
         NEW seen, NEW prior, NEW level, NEW breach, NEW pass, NEW s,
         s = EvaluateStageState(PriorHistory, seen, prior, level, breach, pass, run.t0),
         s.kind = "rollback"
  PROVE  NotTheThird(s)
<1>1. s.at = run.t0 /\ ~ PriorTwoRollbacks(PriorHistory)
  BY DEF EvaluateStageState, Decision
<1>2. SUFFICES ASSUME NEW r \in rows, NEW q \in rows,
                      r.kind = "rollback", q.kind = "rollback",
                      r.at < q.at, q.at < run.t0,
                      Cardinality(Between(r, s)) < HistoryLimit
               PROVE  \E m \in rows : /\ r.at < m.at /\ m.at < run.t0
                                      /\ m.kind \notin {"hold", "rollback"}
  BY <1>1 DEF NotTheThird
<1>3. Evaluating /\ run.t0 \in Nat /\ \A x \in rows : x.at \in Nat /\ x.at # run.t0
  BY DEF OrderInv, Evaluating, TypeOK, TableInv, Run, Row
<1>4. CASE \E c \in rows : c.at > run.t0
  <2>1. PICK c \in rows : c.at > run.t0
    BY <1>4
  <2>2. PICK H \in rows : ClearedBy(H, c)
    BY <1>3, <2>1 DEF OverlapInv, ClearedInv
  <2>3. ~ (q.at > H.at)
    BY <1>2, <1>3, <2>1, <2>2 DEF ClearedBy, Followed
  <2>4. H.at # q.at /\ ~ (H.at > run.t0)
    BY <1>2, <1>3, <2>2 DEF ClearedBy, OrderInv, TableInv, OverlapInv
  <2> QED
    BY <1>2, <1>3, <2>2, <2>3, <2>4 DEF ClearedBy
<1>5. CASE \A c \in rows : ~ (c.at > run.t0)
  <2>1. \A x \in rows : x.at < run.t0
    BY <1>3, <1>5
  <2>2. After(rows, r) = Between(r, s)
    BY <1>1, <2>1 DEF After, Between
  <2>3. r \in PriorHistory
    BY <1>2, <2>2 DEF PriorHistory
  <2>4. q \in PriorHistory
    BY <1>2, <1>3, <2>3, HistoryIsRecent DEF OrderInv
  <2>5. r \in Before(PriorHistory, q)
    BY <1>2, <2>3 DEF Before
  <2>6. PICK m \in After(PriorHistory, r) : m.kind \notin {"hold", "rollback"}
    BY <1>1, <1>2, <2>4, <2>5, Zenon DEF PriorTwoRollbacks
  <2>7. m \in rows /\ r.at < m.at
    BY <1>3, <2>6 DEF After, PriorHistory
  <2> QED
    BY <2>1, <2>6, <2>7
<1> QED
  BY <1>4, <1>5

\* A row that lands beside three rollbacks excuses none of them.
LEMMA MoreRows ==
  ASSUME TableInv, TableInv', NEW n \in Row, NEW s \in Row, rows' = rows \cup {n},
         n.kind = "rollback" => ~ (n.at < s.at),
         NotTheThird(s)
  PROVE  NotTheThird(s)'
<1>1. SUFFICES ASSUME NEW r \in rows', NEW q \in rows',
                      r.kind = "rollback", q.kind = "rollback",
                      r.at < q.at, q.at < s.at,
                      Cardinality(Between(r, s)') < HistoryLimit
               PROVE  \E m \in rows' : /\ r.at < m.at /\ m.at < s.at
                                       /\ m.kind \notin {"hold", "rollback"}
  BY DEF NotTheThird
<1>2. s.at \in Nat /\ n.at \in Nat /\ \A x \in rows' : x.at \in Nat
  BY DEF TableInv, Row
<1>3. r \in rows /\ q \in rows
  BY <1>1, <1>2
<1>4. Between(r, s) \in SUBSET Between(r, s)'
  BY DEF Between
<1>5. IsFiniteSet(Between(r, s)') /\ Cardinality(Between(r, s)') \in Nat
  <2>1. Between(r, s)' \in SUBSET rows'
    BY DEF Between
  <2>2. IsFiniteSet(Between(r, s)')
    BY <2>1, FS_Subset DEF TableInv
  <2> QED
    BY <2>2, FS_CardinalityType
<1>6. Cardinality(Between(r, s)) <= Cardinality(Between(r, s)')
  BY <1>4, <1>5, FS_Subset
<1>7. Cardinality(Between(r, s)) < HistoryLimit
  BY <1>1, <1>5, <1>6, BetweenIsFinite, StageAssumption
<1> QED
  BY <1>1, <1>3, <1>7 DEF NotTheThird

LEMMA RollbackStep ==
  ASSUME OrderInv, OverlapInv, ClearedInv, RollbackInv, [Next]_vars
  PROVE  RollbackInv'
<1>1. CASE Quiet \/ Begins \/ Looks \/ Unlinks
  <2>1. /\ rows' = rows
        /\ run'.pc = "write" => run.pc = "write" /\ run'.row = run.row
    BY <1>1 DEF Quiet, Begins, Looks, Unlinks
  <2> QED
    BY <2>1 DEF RollbackInv, NotTheThird, Between
<1>2. CASE Decides
  <2>1. run'.row.kind = "rollback" => NotTheThird(run'.row)
    BY <1>2, RollbackDecided DEF Decides
  <2> QED
    BY <1>2, <2>1 DEF Decides, RollbackInv, NotTheThird, Between
<1>3. TableInv /\ TableInv'
  BY OrderStep DEF OrderInv
<1>4. CASE Lands
  <2>1. /\ rows' = rows \cup {run.row} /\ run'.pc # "write"
        /\ run.row \in Row /\ run.row.at \in Nat
    BY <1>4 DEF Lands, Evaluating, OrderInv, TypeOK, Run, Row
  <2>2. \A s \in rows : s.kind = "rollback" => s \in Row /\ ~ (run.row.at < s.at)
    BY <1>4 DEF Lands, OrderInv, OverlapInv, Evaluating, TableInv, Row
  <2>3. ASSUME NEW s \in rows, s.kind = "rollback"
        PROVE  NotTheThird(s)'
    BY <1>3, <2>1, <2>2, <2>3, MoreRows DEF RollbackInv
  <2>4. ASSUME NEW s, s = run.row, s.kind = "rollback"
        PROVE  NotTheThird(s)'
    <3>1. NotTheThird(s) /\ ~ (run.row.at < s.at)
      BY <1>4, <2>1, <2>4 DEF Lands, RollbackInv
    <3> QED
      BY <1>3, <2>1, <2>4, <3>1, MoreRows
  <2> QED
    BY <2>1, <2>3, <2>4 DEF RollbackInv
<1>5. CASE Clears
  <2>1. PICK c \in Row : c.kind = "clear-halt" /\ rows' = rows \cup {c}
    BY <1>5 DEF Clears
  <2>2. run' = run /\ (run.pc = "write" => run.row.kind = "halt")
    BY <1>5, CommandMeansHalt DEF Clears
  <2>3. ASSUME NEW s \in rows, s.kind = "rollback"
        PROVE  NotTheThird(s)'
    BY <1>3, <2>1, <2>3, MoreRows DEF RollbackInv, TableInv
  <2> QED
    BY <2>1, <2>2, <2>3 DEF RollbackInv
<1> QED
  BY <1>1, <1>2, <1>4, <1>5, StepsOfTheTable DEF OrderInv

LEMMA RollbacksAreTwo ==
  ASSUME OrderInv, RollbackInv
  PROVE  NoThirdRollback
<1>1. SUFFICES ASSUME NEW r \in rows, NEW q \in rows, NEW s \in rows,
                      r.kind = "rollback", q.kind = "rollback", s.kind = "rollback",
                      r.at < q.at, q.at < s.at,
                      Cardinality(After(rows, r) \ After(rows, s)) <= HistoryLimit
               PROVE  \E m \in After(rows, r) :
                        m.at < s.at /\ m.kind \notin {"hold", "rollback"}
  BY DEF NoThirdRollback
<1> DEFINE D == After(rows, r) \ After(rows, s)
<1>2. \A x \in rows : x.at \in Nat
  BY DEF OrderInv, TableInv, Row
<1>3. D \in SUBSET rows /\ s \in D /\ Between(r, s) \in SUBSET (D \ {s})
  BY <1>1, <1>2 DEF After, Between
<1> HIDE DEF D
<1>4. IsFiniteSet(D)
  BY <1>3, FS_Subset DEF OrderInv, TableInv
<1>5. /\ IsFiniteSet(D \ {s}) /\ Cardinality(D \ {s}) = Cardinality(D) - 1
      /\ Cardinality(D) \in Nat
  BY <1>3, <1>4, FS_RemoveElement, FS_CardinalityType
<1>6. Cardinality(Between(r, s)) <= Cardinality(D \ {s})
  BY <1>3, <1>5, FS_Subset
<1>7. Cardinality(D) <= HistoryLimit
  BY <1>1 DEF D
<1>8. Cardinality(Between(r, s)) \in Nat /\ HistoryLimit \in Nat
  BY BetweenIsFinite, StageAssumption DEF OrderInv
<1>9. Cardinality(Between(r, s)) < HistoryLimit
  BY <1>5, <1>6, <1>7, <1>8
<1> QED
  BY <1>1, <1>2, <1>9 DEF RollbackInv, NotTheThird, After

\* Two rollbacks are not followed by a third, for every history limit that
\* reaches back to the first and however clear-halts interleave (NoThirdRollback).
THEOREM StageNoThirdRollback ==
  Spec => []NoThirdRollback
<1>1. Init => ClearedInv /\ RollbackInv
  BY DEF Init, NoRun, ClearedInv, RollbackInv
<1> QED
  BY <1>1, OrderInit, OrderStep, OverlapInit, OverlapStep, ClearedStep, RollbackStep,
     RollbacksAreTwo, PTL DEF Spec
===============================================================================
