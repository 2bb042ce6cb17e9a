-------------------------- MODULE DailyTables_proofs --------------------------
(***************************************************************************)
(* The run that moves one of three tables at a time is a run of each: what *)
(* is proved of a table in its own module holds of the composition that    *)
(* the model checker explores.                                             *)
(***************************************************************************)
EXTENDS MCDailyTables, DrawdownLadder_proofs, MacroRegime_proofs, PassStreak_proofs

LEMMA TablesAreTheirOwn ==
  /\ MCInit => Init /\ RegimeInit /\ StreakInit
  /\ [LadderStep \/ RegimeStep \/ StreakStep]_allVars =>
       [Next]_vars /\ [RegimeNext]_regimeVars /\ [StreakNext]_streakVars
<1>1. MCInit => Init /\ RegimeInit /\ StreakInit
  BY DEF MCInit
<1>2. ASSUME [LadderStep \/ RegimeStep \/ StreakStep]_allVars
      PROVE  [Next]_vars /\ [RegimeNext]_regimeVars /\ [StreakNext]_streakVars
  <2>1. CASE LadderStep
    BY <2>1 DEF LadderStep
  <2>2. CASE RegimeStep
    BY <2>2 DEF RegimeStep
  <2>3. CASE StreakStep
    BY <2>3 DEF StreakStep
  <2>4. CASE UNCHANGED allVars
    BY <2>4 DEF allVars
  <2> QED
    BY <1>2, <2>1, <2>2, <2>3, <2>4
<1> QED
  BY <1>1, <1>2

\* A run of the composition is a run of every table.
THEOREM TablesImplementTheirSpecs == MCSpec => Spec /\ RegimeSpec /\ StreakSpec
  BY TablesAreTheirOwn, PTL DEF MCSpec, Spec, RegimeSpec, StreakSpec

\* The rows of macro_regimes and of kill_criteria_daily keep their shape in the
\* composition, for any of its constants.
THEOREM TableTypesCorrect == MCSpec => []TableTypesOK
<1>1. StreakInv => StreakTypeOK
  BY DEF StreakInv
<1> QED
  BY <1>1, TablesImplementTheirSpecs, RegimeTypeCorrect, StreakInvariant, PTL
  DEF TableTypesOK
===============================================================================
