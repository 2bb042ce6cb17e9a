---------------------------- MODULE MCDailyTables -----------------------------
(***************************************************************************)
(* Three of the daemon's tables that share no state: the rows of the       *)
(* drawdown ladder, of the macro regimes and of the kill criteria.  One    *)
(* run checks all three: `part' says which of them moves, and the others   *)
(* stay in their initial states.  Every reachable state of each is reached.*)
(***************************************************************************)
EXTENDS DrawdownLadder, MacroRegime, PassStreak, TLC

CONSTANTS credit, rotation, curve

\* Small tables with the shape of the portfolio's: thresholds deepen, level 2
\* shares its exit with level 1, level 4 takes longest to leave.
MCEntryLoss == <<5, 10, 15, 25, 200>>
MCExitLoss == <<5, 5, 15, 20>>
MCExitDays == <<2, 2, 2, 3>>
MCLosses == {0, 5, 10, 15, 20, 25, 200}

\* A gain, and a loss that neither A2 nor A5 forgives.
MCPnls == {-4, 2}

\* Two categories with candle sources and one without, so that red needs all
\* three in a window of two trading days.
MCCategories == {credit, rotation, curve}
MCSoft == {curve}
Symmetry == Permutations({credit, rotation})

VARIABLE part

allVars == <<part, vars, regimeVars, streakVars>>

MCInit ==
  /\ part \in {"ladder", "regime", "streak"}
  /\ Init /\ RegimeInit /\ StreakInit

LadderStep == part = "ladder" /\ Next /\ UNCHANGED <<part, regimeVars, streakVars>>
RegimeStep == part = "regime" /\ RegimeNext /\ UNCHANGED <<part, vars, streakVars>>
StreakStep == part = "streak" /\ StreakNext /\ UNCHANGED <<part, vars, regimeVars>>

MCSpec == MCInit /\ [][LadderStep \/ RegimeStep \/ StreakStep]_allVars

-------------------------------------------------------------------------------
\* The types of macro_regimes (macro_regime_v3.ts) and of kill_criteria_daily
\* (kill_criteria_daily_repository.ts).
TableTypesOK == RegimeTypeOK /\ StreakTypeOK
===============================================================================
