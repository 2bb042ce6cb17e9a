------------------------------ MODULE HaltSwitch ------------------------------
(***************************************************************************)
(* The daemon's kill switch.  A run first looks for the .daemon_halt file  *)
(* and refuses to start if it is there; it then trades; at its end it      *)
(* evaluates the kill criteria and, in enforce mode, writes the file if    *)
(* one fails or if it cannot tell.  Only the operator deletes the file.    *)
(*                                                                         *)
(* The scheduled run and a run started by hand may overlap, and either may *)
(* die between any two steps.  Whether the criteria fail is a choice that  *)
(* every run's trades make anew.                                           *)
(***************************************************************************)
EXTENDS Integers

CONSTANTS
  Runs,          \* concurrent runs of the daemon
  Scheduled,     \* the one the scheduler starts every day
  MaxHaltFaults  \* bound: deaths, I/O errors and failing queries

ASSUME HaltAssumption == Scheduled \in Runs /\ MaxHaltFaults \in Nat

VARIABLES
  sentinel,  \* whether .daemon_halt exists
  breached,  \* whether the kill criteria fail on the ledger as it is
  phase,     \* run -> how far it is
  enforce,   \* run -> whether its monitor may write the file
  pending,   \* a real run called for a halt the operator has not dealt with
  began,     \* run -> whether it passed its pre-flight check through a halt
  lost,      \* a halt could not be written
  haltFaults \* faults that have happened

haltVars == <<sentinel, breached, phase, enforce, pending, began, lost, haltFaults>>

Phases == {"off", "trading", "monitor", "halting", "failed"}

HaltTypeOK ==
  /\ sentinel \in BOOLEAN /\ breached \in BOOLEAN
  /\ phase \in [Runs -> Phases]
  /\ enforce \in [Runs -> BOOLEAN]
  /\ pending \in BOOLEAN /\ lost \in BOOLEAN
  /\ began \in [Runs -> BOOLEAN]
  /\ haltFaults \in 0 .. MaxHaltFaults

-------------------------------------------------------------------------------
HaltInit ==
  /\ sentinel = FALSE /\ breached = FALSE
  /\ phase = [r \in Runs |-> "off"]
  /\ enforce = [r \in Runs |-> FALSE]
  /\ pending = FALSE
  /\ began = [r \in Runs |-> FALSE]
  /\ lost = FALSE /\ haltFaults = 0

GoOn(r, p) == phase' = [phase EXCEPT ![r] = p]

HaltFault == haltFaults < MaxHaltFaults /\ haltFaults' = haltFaults + 1

BeingWritten == \E r \in Runs : phase[r] \in {"halting", "failed"}

\* Mutant: a file that cannot be read is taken for none.
PassesUnread == TRUE

\* checkHaltSentinelPreflight: only a file that is known to be absent lets the
\* run pass; one that cannot be read stops it like one that is there.
Passes == ~ sentinel

\* resolveEffectiveHaltEnforce: a dry run or --halt-enforce-mode=false observes.
Preflight(r, enforcing) ==
  /\ phase[r] = "off" /\ Passes
  /\ GoOn(r, "trading")
  /\ enforce' = [enforce EXCEPT ![r] = enforcing]
  /\ began' = [began EXCEPT ![r] = pending /\ ~ BeingWritten]
  /\ UNCHANGED <<sentinel, breached, pending, lost, haltFaults>>

\* The run opens and closes trades: criteria may begin to fail, or to hold.
Trade(r) ==
  /\ phase[r] = "trading"
  /\ GoOn(r, "monitor")
  /\ breached' \in BOOLEAN
  /\ UNCHANGED <<sentinel, enforce, pending, began, lost, haltFaults>>

\* Mutant: a criterion that fails is reported and no more.
DecideLate(r) ==
  /\ phase[r] = "monitor"
  /\ GoOn(r, "off")
  /\ pending' = (pending \/ (breached /\ enforce[r]))
  /\ UNCHANGED <<sentinel, breached, enforce, began, lost, haltFaults>>

\* evaluateKillCriteria and evaluateHaltDecision.
Decide(r) ==
  /\ phase[r] = "monitor"
  /\ GoOn(r, IF breached /\ enforce[r] THEN "halting" ELSE "off")
  /\ pending' = (pending \/ (breached /\ enforce[r]))
  /\ UNCHANGED <<sentinel, breached, enforce, began, lost, haltFaults>>

\* The paper state or the ledger cannot be read: in enforce mode that is a halt.
MonitorFails(r) ==
  /\ phase[r] = "monitor" /\ HaltFault
  /\ GoOn(r, IF enforce[r] THEN "failed" ELSE "off")
  /\ pending' = (pending \/ enforce[r])
  /\ UNCHANGED <<sentinel, breached, enforce, began, lost>>

\* runHaltMonitor's writer, or the emergency file of the catch block.
WriteSentinel(r) ==
  /\ phase[r] \in {"halting", "failed"}
  /\ sentinel' = TRUE
  /\ GoOn(r, "off")
  /\ UNCHANGED <<breached, enforce, pending, began, lost, haltFaults>>

\* Mutant: the error of the write is logged, and there is no second attempt.
WriteFailsForGood(r) ==
  /\ phase[r] = "halting" /\ HaltFault
  /\ GoOn(r, "off")
  /\ UNCHANGED <<sentinel, breached, enforce, pending, began, lost>>

\* A failing write is caught and the emergency file is tried.
WriteFails(r) ==
  /\ phase[r] = "halting" /\ HaltFault
  /\ GoOn(r, "failed")
  /\ UNCHANGED <<sentinel, breached, enforce, pending, began, lost>>

\* The emergency file cannot be written either: logged, and the run goes on.
EmergencyFails(r) ==
  /\ phase[r] = "failed" /\ HaltFault
  /\ GoOn(r, "off")
  /\ lost' = TRUE
  /\ UNCHANGED <<sentinel, breached, enforce, pending, began>>

\* The process dies, or an insert throws before the monitor is reached.
Abort(r) ==
  /\ phase[r] # "off" /\ HaltFault
  /\ GoOn(r, "off")
  /\ lost' = (lost \/ phase[r] \in {"halting", "failed"})
  /\ UNCHANGED <<sentinel, breached, enforce, pending, began>>

\* The operator places the file by hand.
PlaceSentinel ==
  /\ ~ sentinel /\ sentinel' = TRUE
  /\ UNCHANGED <<breached, phase, enforce, pending, began, lost, haltFaults>>

\* Having dealt with the cause, the operator deletes the file.
DeleteSentinel ==
  /\ sentinel /\ sentinel' = FALSE
  /\ breached' = FALSE /\ pending' = FALSE
  /\ UNCHANGED <<phase, enforce, began, lost, haltFaults>>

HaltRunStep(r) == Trade(r) \/ Decide(r) \/ WriteSentinel(r)

HaltNext ==
  \/ \E r \in Runs :
       \/ \E enforcing \in {TRUE, r = Scheduled} : Preflight(r, enforcing)
       \/ HaltRunStep(r) \/ MonitorFails(r) \/ WriteFails(r) \/ EmergencyFails(r)
       \/ Abort(r)
  \/ PlaceSentinel \/ DeleteSentinel

HaltSpec == HaltInit /\ [][HaltNext]_haltVars

\* The scheduler starts a real run every day, and it gets on with its steps.
FairHaltSpec ==
  HaltSpec /\ WF_haltVars(Preflight(Scheduled, TRUE)) /\ WF_haltVars(HaltRunStep(Scheduled))
-------------------------------------------------------------------------------
\* A halt that was called for and not dealt with is on file, or its run is just
\* writing it, or it could not be written at all: overlapping runs, dry runs and
\* failing queries in between do not lose it (the catch block's emergency file).
HaltIsOnFile == pending => sentinel \/ BeingWritten \/ lost

\* No run trades that was started while a halt was pending and on file
\* (the pre-flight check, before anything else the daemon does).
NoRunThroughHalt ==
  \A r \in Runs : phase[r] # "off" /\ began[r] => lost

\* Criteria that fail stop the daemon in the end, if they go on failing, however
\* runs die, overlap or are made dry in between.
BreachHalts == breached ~> sentinel \/ ~ breached \/ lost
==============================================================================
