----------------------------- MODULE MCDailySteps -----------------------------
(***************************************************************************)
(* Five of the daemon's daily steps that share no state: the quarantine    *)
(* alerter, the filing ingest, the halt switch, the tier of the cell       *)
(* weights and the drawdown ladder (in its abstract form).  One run checks *)
(* all five: `part' says which of them moves, and the others stay in their *)
(* initial states.  Every reachable state of each is reached.              *)
(***************************************************************************)
EXTENDS QuarantineAlerter, EdgarIngest, HaltSwitch, CellWeights

CONSTANT PauseDays

ASSUME PauseAssumption == PauseDays \in Nat

\* The portfolio's tables as the code has them, and one loss per level.
CodeEntryLoss == <<5, 10, 15, 25, 200>>
CodeExitLoss == <<5, 5, 15, 20>>
CodeExitDays == <<5, 5, 5, 10>>
CodeLosses == {0, 5, 10, 15, 20, 25, 200}

VARIABLES part, level, calm, age

ladderVars == <<level, calm, age>>
allVars == <<part, vars, ingestVars, haltVars, weightsVars, ladderVars>>

Ladder ==
  INSTANCE LadderCounter WITH Losses <- CodeLosses, EntryLoss <- CodeEntryLoss,
                              ExitLoss <- CodeExitLoss, ExitDays <- CodeExitDays

MCInit ==
  /\ part \in {"alerter", "ingest", "halt", "weights", "ladder"}
  /\ Init /\ IngestInit /\ HaltInit /\ WeightsInit /\ Ladder!Init
  /\ part # "ingest" => ~ paged

AlerterStep(A) ==
  /\ part = "alerter" /\ A
  /\ UNCHANGED <<part, ingestVars, haltVars, weightsVars, ladderVars>>

IngestStep(A) ==
  /\ part = "ingest" /\ A
  /\ UNCHANGED <<part, vars, haltVars, weightsVars, ladderVars>>

HaltStep(A) ==
  /\ part = "halt" /\ A
  /\ UNCHANGED <<part, vars, ingestVars, weightsVars, ladderVars>>

WeightsStep(A) ==
  /\ part = "weights" /\ A
  /\ UNCHANGED <<part, vars, ingestVars, haltVars, ladderVars>>

LadderStep(A) ==
  /\ part = "ladder" /\ A
  /\ UNCHANGED <<part, vars, ingestVars, haltVars, weightsVars>>

MCNext ==
  \/ AlerterStep(Next) \/ IngestStep(IngestNext) \/ HaltStep(HaltNext)
  \/ WeightsStep(WeightsNext) \/ LadderStep(Ladder!Next)

\* QuarantineAlerter's fairness (a run goes on), HaltSwitch's (the scheduled run
\* starts, and goes on, day by day) and LadderCounter's (days pass, with an
\* evaluation on them).
MCSpec ==
  /\ MCInit /\ [][MCNext]_allVars
  /\ WF_allVars(AlerterStep(RunStep))
  /\ WF_allVars(HaltStep(Preflight(Scheduled, TRUE)))
  /\ WF_allVars(HaltStep(HaltRunStep(Scheduled)))
  /\ WF_allVars(LadderStep(Ladder!DayPasses))
  /\ WF_allVars(LadderStep(\E loss \in CodeLosses : Ladder!Evaluate(loss)))

-------------------------------------------------------------------------------
\* The types of the ingest's table (daemon_edgar_ingests.ts), of the switch
\* (paper_trading_halt_monitor.ts), of the weights' rows (cell_weights.ts) and of
\* the ladder's level, count and age (drawdown_state.ts).
StepTypesOK == IngestTypeOK /\ HaltTypeOK /\ WeightsTypeOK /\ Ladder!TypeOK

\* If the losses end for good the ladder is climbed to the top: no level short
\* of the kill level can hold for ever (computeLevelWithTables).
CalmClearsLadder == Ladder!CalmClearsLadder

\* A ladder stuck at level 3 trades again once its pause is over
\* (computeNewEntriesAllowed).
Level3Reopens == Ladder!Level3Reopens
===============================================================================
