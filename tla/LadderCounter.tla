---------------------------- MODULE LadderCounter ----------------------------
(***************************************************************************)
(* What the drawdown ladder promises, with no table behind it: a level, a  *)
(* count of consecutive calm evaluations made at that level, and the days  *)
(* spent at it.  DrawdownLadder, which like the code keeps none of these   *)
(* and re-derives them from drawdown_state_history, is checked to          *)
(* implement this.                                                         *)
(***************************************************************************)
EXTENDS Integers

CONSTANTS
  Losses,      \* trailing-30-day losses, in thousandths of deployed capital
  EntryLoss,   \* level -> the loss that enters it
  ExitLoss,    \* level -> the loss an evaluation must be under to be calm
  ExitDays,    \* level -> calm evaluations needed to leave it
  PauseDays    \* days at level 3 before entries resume

VARIABLES level, calm, age

vars == <<level, calm, age>>

Levels == 0 .. 5
Climbable == 1 .. 4

TypeOK == level \in Levels /\ calm \in Nat /\ age \in 0 .. PauseDays

Init == level = 0 /\ calm = 0 /\ age = 0

\* k is the deepest level whose entry threshold the loss has reached.
Depth(loss, k) ==
  /\ k # 0 => loss >= EntryLoss[k]
  /\ \A m \in (k + 1) .. 5 : loss < EntryLoss[m]

Calm(k, loss) == k \in Climbable /\ loss < ExitLoss[k]

\* The evaluation that enters level k counts if it is calm for k.
Enter(k, loss) ==
  /\ level' = k
  /\ calm' = IF Calm(k, loss) THEN 1 ELSE 0
  /\ age' = 0

\* A breach is acted on at once, however many levels it skips.
Worsen(loss) ==
  \E k \in Levels : Depth(loss, k) /\ level < k /\ Enter(k, loss)

MayRecover(loss) ==
  /\ Calm(level, loss)
  /\ \A k \in level .. 5 : loss < EntryLoss[k]
  /\ calm + 1 >= ExitDays[level]

\* Mutant: the count restarts and the level stays.
RecoverInPlace(loss) == MayRecover(loss) /\ Enter(level, loss)

\* Recovery is one level, after enough calm evaluations; level 5 has none.
Recover(loss) == MayRecover(loss) /\ Enter(level - 1, loss)

\* Mutant: each further evaluation at a level restarts its age.
StayAnew(loss) ==
  /\ level = 5 \/ \A k \in (level + 1) .. 5 : loss < EntryLoss[k]
  /\ ~ MayRecover(loss)
  /\ calm' = IF Calm(level, loss) THEN calm + 1 ELSE 0
  /\ age' = 0
  /\ UNCHANGED level

\* Otherwise the level stays, and the count grows or starts again.
Stay(loss) ==
  /\ level = 5 \/ \A k \in (level + 1) .. 5 : loss < EntryLoss[k]
  /\ ~ MayRecover(loss)
  /\ calm' = IF Calm(level, loss) THEN calm + 1 ELSE 0
  /\ UNCHANGED <<level, age>>

Evaluate(loss) == Worsen(loss) \/ Recover(loss) \/ Stay(loss)

\* Only a level that can be left keeps an age worth reading.
DayPasses ==
  /\ age' = IF level \in Climbable /\ age < PauseDays THEN age + 1 ELSE age
  /\ UNCHANGED <<level, calm>>

Next == (\E loss \in Losses : Evaluate(loss)) \/ DayPasses

Spec == Init /\ [][Next]_vars

EntriesAllowed ==
  \/ level <= 2
  \/ level = 3 /\ age >= PauseDays
-------------------------------------------------------------------------------
\* Days pass, and the daemon is started on them: evaluations never stop.
FairSpec ==
  /\ Spec
  /\ WF_vars(DayPasses)
  /\ WF_vars(\E loss \in Losses : Evaluate(loss))

\* If the losses end for good the ladder is climbed to the top: no level short
\* of the kill level can hold for ever (computeLevelWithTables).
CalmClearsLadder ==
  <>[][Evaluate(0) \/ DayPasses]_vars => <>[](level \in {0, 5})

\* A ladder stuck at level 3 trades again, at the reduced size, once its pause
\* is over: evaluating every day does not restart it (levelEnteredAt).
Level3Reopens == <>[](level = 3) => <>[]EntriesAllowed
==============================================================================
