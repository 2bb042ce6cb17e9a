--------------------------- MODULE QuarantineAlerter ---------------------------
(***************************************************************************)
(* Step 0b of the daily daemon, health_quarantine_alerter.ts: one Telegram *)
(* message for every quarantine row the operator has not resolved, and a   *)
(* sidecar table of the rows already sent.  A run takes the Cap newest of  *)
(* the rows the sidecar lacks; sending and recording are two calls, and    *)
(* either may fail, or the daemon die between them.                        *)
(*                                                                         *)
(* Rows are numbered in the order of their detected_at.                    *)
(***************************************************************************)
EXTENDS Integers, FiniteSets

CONSTANTS
  Cap,        \* DEFAULT_MAX_ALERTS_PER_RUN
  MaxRow,     \* bound: rows ever detected
  MaxFaults   \* bound: failed calls and crashes

ASSUME AlerterAssumption ==
  Cap \in Nat \ {0} /\ MaxRow \in Nat /\ MaxFaults \in Nat

Rows == 1 .. MaxRow

VARIABLES
  detected,  \* health_quarantine holds the rows 1 .. detected
  resolved,  \* those an operator has approved or corrected
  sent,      \* row -> messages about it that reached the operator
  alerted,   \* health_quarantine_alerts_sent
  faults,    \* failed calls and crashes so far
  run        \* the dispatch under way

vars == <<detected, resolved, sent, alerted, faults, run>>

Run == [pc : {"idle", "send", "record"}, queue : SUBSET Rows]

TypeOK ==
  /\ detected \in 0 .. MaxRow
  /\ resolved \in SUBSET Rows /\ alerted \in SUBSET Rows
  /\ sent \in [Rows -> Nat]
  /\ faults \in 0 .. MaxFaults
  /\ run \in Run

-------------------------------------------------------------------------------
\* Mutant: a cursor, the newest row sent, stands for the sidecar.
UnalertedByCursor(known) ==
  {r \in 1 .. detected \ resolved : \A k \in known : k < r}

\* Mutant: rows counted from zero.
UnalertedFromZero(known) == 0 .. detected \ (resolved \cup known)

\* loadUnalertedTier2Rows, given the ids read from the sidecar.
Unalerted(known) == 1 .. detected \ (resolved \cup known)

Newest(rows) == {r \in rows : Cardinality({q \in rows : q > r}) < Cap}

First(queue) == CHOOSE r \in queue : \A q \in queue : q <= r

Dispatch(rows) ==
  [pc |-> IF rows = {} THEN "idle" ELSE "send", queue |-> Newest(rows)]

\* The row is dealt with; the loop goes on or the run ends.
Dropped ==
  LET left == run.queue \ {First(run.queue)}
  IN  [pc |-> IF left = {} THEN "idle" ELSE "send", queue |-> left]

Fault == faults < MaxFaults /\ faults' = faults + 1

-------------------------------------------------------------------------------
Init ==
  /\ detected = 0 /\ faults = 0
  /\ resolved = {} /\ alerted = {}
  /\ sent = [r \in Rows |-> 0]
  /\ run = [pc |-> "idle", queue |-> {}]

Detect ==
  /\ detected < MaxRow
  /\ detected' = detected + 1
  /\ UNCHANGED <<resolved, sent, alerted, faults, run>>

Resolve ==
  /\ \E r \in 1 .. detected \ resolved : resolved' = resolved \cup {r}
  /\ UNCHANGED <<detected, sent, alerted, faults, run>>

Load ==
  /\ run.pc = "idle"
  /\ run' = Dispatch(Unalerted(alerted))
  /\ UNCHANGED <<detected, resolved, sent, alerted, faults>>

\* loadAlertedIdSet returns the empty set on any ClickHouse error.
LoadBlind ==
  /\ run.pc = "idle" /\ Fault
  /\ run' = Dispatch(Unalerted({}))
  /\ UNCHANGED <<detected, resolved, sent, alerted>>

Send ==
  /\ run.pc = "send"
  /\ sent' = [sent EXCEPT ![First(run.queue)] = @ + 1]
  /\ run' = [run EXCEPT !.pc = "record"]
  /\ UNCHANGED <<detected, resolved, alerted, faults>>

\* Mutant: the loop does not skip the record of a failed send.
SendFailsRecording ==
  /\ run.pc = "send" /\ Fault
  /\ alerted' = alerted \cup {First(run.queue)}
  /\ run' = Dropped
  /\ UNCHANGED <<detected, resolved, sent>>

\* send returns false: nothing arrived, or only its answer was lost.
SendFails ==
  /\ run.pc = "send" /\ Fault
  /\ \/ UNCHANGED sent
     \/ sent' = [sent EXCEPT ![First(run.queue)] = @ + 1]
  /\ run' = Dropped
  /\ UNCHANGED <<detected, resolved, alerted>>

\* Mutant: only the row at the head of a full queue is recorded.
RecordLast ==
  /\ run.pc = "record"
  /\ alerted' = IF Cardinality(run.queue) = 1
                  THEN alerted \cup {First(run.queue)} ELSE alerted
  /\ run' = Dropped
  /\ UNCHANGED <<detected, resolved, sent, faults>>

Record ==
  /\ run.pc = "record"
  /\ alerted' = alerted \cup {First(run.queue)}
  /\ run' = Dropped
  /\ UNCHANGED <<detected, resolved, sent, faults>>

\* The failure is reported as a warning and the loop goes on.
RecordFails ==
  /\ run.pc = "record" /\ Fault
  /\ run' = Dropped
  /\ UNCHANGED <<detected, resolved, sent, alerted>>

Crash ==
  /\ run.pc # "idle" /\ Fault
  /\ run' = [pc |-> "idle", queue |-> {}]
  /\ UNCHANGED <<detected, resolved, sent, alerted>>

RunStep == Load \/ Send \/ Record

Next ==
  \/ Detect \/ Resolve
  \/ RunStep
  \/ LoadBlind \/ SendFails \/ RecordFails \/ Crash

Spec == Init /\ [][Next]_vars

\* The daemon is started every day and goes on to the end of its loop; that
\* faults do not go on for ever is MaxFaults.
FairSpec == Spec /\ WF_vars(RunStep)
-------------------------------------------------------------------------------
\* The sidecar never claims an alert that nobody received: whatever fails, a row
\* is taken out of the queue for good only after its message has arrived.
RecordedMeansSent == \A r \in alerted : sent[r] > 0

\* Repetition is never free: beyond its first message, each message about a row
\* is paid for by a failed call or a crash (per-id dedupe through the sidecar).
RepeatsArePaidFor == \A r \in Rows : sent[r] <= 1 + faults

\* No unresolved row is overtaken for ever by newer ones, nor lost by a crash or
\* a failed call, once rows stop coming in (newest first, Cap per run).
EveryRowIsAlerted ==
  \A r \in Rows : detected >= r ~> r \in alerted \cup resolved
==============================================================================
