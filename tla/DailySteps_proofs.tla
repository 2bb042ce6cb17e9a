-------------------------- MODULE DailySteps_proofs ---------------------------
(***************************************************************************)
(* The daemon's daily steps that share no state, for any caps, pages,      *)
(* filings, runs and bounds on faults; and that the run which moves one of *)
(* them at a time is a run of each.                                        *)
(*                                                                         *)
(* The ingest's invariant needs its types only, because what a quiet run   *)
(* saw can never change: filings are appended, and the table only grows.   *)
(*                                                                         *)
(* HaltIsOnFile is inductive by itself; that no run trades through a halt  *)
(* follows from it at the pre-flight check, and is kept because a run that *)
(* is under way was let through by such a check.                           *)
(*                                                                         *)
(* That the weights' tier never falls is not inductive: a row is written   *)
(* long after its run has read.  What carries it across is that the run's  *)
(* prior tier covers every row below the run (ReadCovers) for as long as   *)
(* no slower run writes there, which is what `unseen' tells.               *)
(***************************************************************************)
EXTENDS MCDailySteps, FiniteSetTheorems, WellFoundedInduction, TLAPS

-------------------------------------------------------------------------------
(* The quarantine alerter.                                                   *)

\* A set of rows that is not empty has a newest row.
LEMMA NewestRowExists ==
  ASSUME NEW S \in SUBSET Rows, S # {}
  PROVE  \E r \in S : \A q \in S : q <= r
<1> DEFINE T == {MaxRow - r : r \in S}
<1>1. MaxRow \in Nat
  BY AlerterAssumption
<1>2. T \subseteq Nat /\ T # {}
  <2>1. \A r \in S : MaxRow - r \in Nat
    BY <1>1 DEF Rows
  <2>2. QED
    BY <2>1
<1> HIDE DEF T
<1>3. PICK x \in T : \A y \in T : ~ (<<y, x>> \in OpToRel(<, Nat))
  BY <1>2, NatLessThanWellFounded, WFMin
<1>4. ASSUME NEW y \in T PROVE x <= y
  <2>1. x \in Nat /\ y \in Nat
    BY <1>2
  <2>2. <<y, x>> \in Nat \X Nat /\ <<y, x>>[1] = y /\ <<y, x>>[2] = x
    BY <2>1
  <2>3. y < x => <<y, x>> \in OpToRel(<, Nat)
    <3>1. ASSUME y < x PROVE <<y, x>>[1] < <<y, x>>[2]
      BY <2>2, <3>1
    <3>2. QED
      BY <2>2, <3>1, Zenon DEF OpToRel
  <2>4. ~ (y < x)
    BY <1>3, <2>3, Zenon
  <2>5. QED
    BY <2>1, <2>4
<1>5. PICK r \in S : x = MaxRow - r
  BY DEF T
<1>6. ASSUME NEW q \in S PROVE q <= r
  <2>1. MaxRow - q \in T
    BY DEF T
  <2>2. MaxRow - r <= MaxRow - q
    BY <1>4, <1>5, <2>1
  <2>3. r \in Int /\ q \in Int
    BY <1>6 DEF Rows
  <2>4. QED
    BY <1>1, <2>2, <2>3
<1>7. QED
  BY <1>6

\* The head of the queue is in it.
LEMMA FirstIsQueued ==
  ASSUME NEW S \in SUBSET Rows, S # {}
  PROVE  First(S) \in S
BY NewestRowExists DEF First

\* The cap is at least one: something is sent when there is something to send.
LEMMA NewestIsSome ==
  ASSUME NEW S \in SUBSET Rows
  PROVE  Newest(S) \subseteq S /\ (S # {} => Newest(S) # {})
<1>1. Newest(S) \subseteq S
  BY DEF Newest
<1>2. ASSUME S # {} PROVE Newest(S) # {}
  <2>1. PICK r \in S : \A q \in S : q <= r
    BY <1>2, NewestRowExists
  <2>2. {q \in S : q > r} = {}
    <3>1. \A q \in S : q \in Int
      BY DEF Rows
    <3>2. \A q \in S : ~ (q > r)
      BY <2>1, <3>1
    <3>3. QED
      BY <3>2
  <2>3. Cardinality({q \in S : q > r}) < Cap
    BY <2>2, FS_EmptySet, AlerterAssumption
  <2>4. QED
    BY <2>3 DEF Newest
<1>3. QED
  BY <1>1, <1>2

-------------------------------------------------------------------------------
(* The inductive invariant.                                                  *)

Recording(r) == run.pc = "record" /\ r = First(run.queue)

\* Between loads and ends there is a row to deal with.
QueueIsLeft == run.pc # "idle" => run.queue # {}

\* The row about to be recorded has been sent.
RecordingIsSent == run.pc = "record" => sent[First(run.queue)] > 0

\* A row that is or may come to be queued can be sent once more and remain paid
\* for, except the one just sent, which is about to leave the queue.
NextIsPaidFor ==
  \A r \in Rows :
    r \in run.queue \/ r \notin alerted => sent[r] <= faults \/ Recording(r)

IInv ==
  /\ TypeOK
  /\ QueueIsLeft
  /\ RecordingIsSent
  /\ NextIsPaidFor
  /\ RepeatsArePaidFor
  /\ RecordedMeansSent

LEMMA InitIInv == Init => IInv
BY AlerterAssumption
   DEF Init, IInv, TypeOK, Run, QueueIsLeft, RecordingIsSent, NextIsPaidFor,
       RepeatsArePaidFor, RecordedMeansSent

\* What Dispatch makes of any set of rows is a run.
LEMMA DispatchIsRun ==
  ASSUME NEW S \in SUBSET Rows
  PROVE  LET d == Dispatch(S)
         IN  /\ d \in Run /\ d.queue \subseteq S
             /\ d.pc \in {"idle", "send"}
             /\ d.pc # "idle" => d.queue # {}
BY NewestIsSome DEF Dispatch, Run

\* Dropped takes the head, and nothing else, off the queue.
LEMMA DroppedIsRun ==
  ASSUME TypeOK, QueueIsLeft, run.pc # "idle"
  PROVE  /\ First(run.queue) \in run.queue /\ First(run.queue) \in Rows
         /\ Dropped \in Run
         /\ Dropped.queue = run.queue \ {First(run.queue)}
         /\ Dropped.pc \in {"idle", "send"}
         /\ Dropped.pc # "idle" => Dropped.queue # {}
<1>1. run \in Run /\ run.queue \in SUBSET Rows
  BY DEF TypeOK, Run
<1>2. First(run.queue) \in run.queue
  BY <1>1, FirstIsQueued DEF QueueIsLeft
<1>3. QED
  BY <1>1, <1>2 DEF Dropped, Run

LEMMA NextKeepsIInv == IInv /\ [Next]_vars => IInv'
<1> SUFFICES ASSUME IInv, [Next]_vars PROVE IInv'
  OBVIOUS
<1> USE DEF IInv
<1>1. TypeOK /\ detected \in Nat /\ faults \in Nat /\ sent \in [Rows -> Nat]
  BY AlerterAssumption DEF TypeOK
<1>2. \A known : Unalerted(known) \in SUBSET Rows
  BY <1>1, AlerterAssumption DEF TypeOK, Unalerted, Rows
<1>3. CASE Detect \/ Resolve
  <2>1. /\ detected' \in 0 .. MaxRow /\ resolved' \in SUBSET Rows
        /\ UNCHANGED <<sent, alerted, faults, run>>
    <3>1. CASE Detect
      BY <1>1, <3>1, AlerterAssumption DEF Detect, TypeOK
    <3>2. CASE Resolve
      <4>1. PICK r \in 1 .. detected \ resolved : resolved' = resolved \cup {r}
        BY <3>2 DEF Resolve
      <4>2. r \in Rows
        BY <1>1, <4>1, AlerterAssumption DEF TypeOK, Rows
      <4>3. QED
        BY <1>1, <3>2, <4>1, <4>2 DEF Resolve, TypeOK
    <3>3. QED
      BY <1>3, <3>1, <3>2
  <2>2. TypeOK'
    BY <2>1 DEF TypeOK
  <2>3. QED
    BY <2>1, <2>2 DEF QueueIsLeft, RecordingIsSent, NextIsPaidFor, Recording,
                      RepeatsArePaidFor, RecordedMeansSent
<1>4. CASE Load
  <2>1. /\ run.pc = "idle" /\ run' = Dispatch(Unalerted(alerted))
        /\ UNCHANGED <<detected, resolved, sent, alerted, faults>>
    BY <1>4 DEF Load
  <2>2. /\ run' \in Run /\ run'.queue \subseteq Unalerted(alerted)
        /\ run'.pc \in {"idle", "send"}
        /\ run'.pc # "idle" => run'.queue # {}
    BY <1>2, <2>1, DispatchIsRun
  <2>3. TypeOK' /\ QueueIsLeft' /\ RecordingIsSent'
    BY <2>1, <2>2 DEF TypeOK, QueueIsLeft, RecordingIsSent
  <2>4. NextIsPaidFor'
    BY <1>1, <2>1, <2>2 DEF NextIsPaidFor, Recording, Unalerted
  <2>5. QED
    BY <2>1, <2>3, <2>4 DEF RepeatsArePaidFor, RecordedMeansSent
<1>5. CASE LoadBlind
  <2>1. /\ run.pc = "idle" /\ run' = Dispatch(Unalerted({}))
        /\ faults' = faults + 1 /\ faults < MaxFaults
        /\ UNCHANGED <<detected, resolved, sent, alerted>>
    BY <1>5 DEF LoadBlind, Fault
  <2>2. /\ run' \in Run /\ run'.pc \in {"idle", "send"}
        /\ run'.pc # "idle" => run'.queue # {}
    BY <1>2, <2>1, DispatchIsRun
  <2>3. TypeOK' /\ QueueIsLeft' /\ RecordingIsSent'
    BY <1>1, <2>1, <2>2, AlerterAssumption
       DEF TypeOK, QueueIsLeft, RecordingIsSent
  <2>4. NextIsPaidFor' /\ RepeatsArePaidFor'
    BY <1>1, <2>1 DEF NextIsPaidFor, RepeatsArePaidFor
  <2>5. QED
    BY <2>1, <2>3, <2>4 DEF RecordedMeansSent
<1>6. CASE Send
  <2> DEFINE f == First(run.queue)
  <2>1. /\ run.pc = "send" /\ sent' = [sent EXCEPT ![f] = @ + 1]
        /\ run' = [run EXCEPT !.pc = "record"]
        /\ UNCHANGED <<detected, resolved, alerted, faults>>
    BY <1>6 DEF Send
  <2>2. f \in run.queue /\ f \in Rows
    BY <1>1, <2>1, DroppedIsRun
  <2>3. /\ run' \in Run /\ run'.pc = "record" /\ run'.queue = run.queue
    BY <1>1, <2>1 DEF TypeOK, Run
  <2>4. sent[f] <= faults
    BY <2>1, <2>2 DEF NextIsPaidFor, Recording
  <2> HIDE DEF f
  <2>5. /\ sent' \in [Rows -> Nat] /\ sent'[f] = sent[f] + 1
        /\ \A r \in Rows : r # f => sent'[r] = sent[r]
    BY <1>1, <2>1, <2>2
  <2>6. TypeOK' /\ QueueIsLeft'
    BY <2>1, <2>2, <2>3, <2>5 DEF TypeOK, QueueIsLeft
  <2>7. First(run'.queue) = f
    BY <2>3 DEF f
  <2>8. RecordingIsSent'
    BY <1>1, <2>2, <2>5, <2>7 DEF RecordingIsSent
  <2>9. NextIsPaidFor'
    BY <2>1, <2>3, <2>5, <2>7 DEF NextIsPaidFor, Recording
  <2>10. RepeatsArePaidFor' /\ RecordedMeansSent'
    BY <1>1, <2>1, <2>2, <2>4, <2>5 DEF RepeatsArePaidFor, RecordedMeansSent,
                                        TypeOK
  <2>11. QED
    BY <2>6, <2>8, <2>9, <2>10
<1>7. CASE SendFails
  <2> DEFINE f == First(run.queue)
  <2>1. /\ run.pc = "send" /\ run' = Dropped
        /\ faults' = faults + 1 /\ faults < MaxFaults
        /\ sent' = sent \/ sent' = [sent EXCEPT ![f] = @ + 1]
        /\ UNCHANGED <<detected, resolved, alerted>>
    BY <1>7 DEF SendFails, Fault
  <2>2. /\ f \in run.queue /\ f \in Rows
        /\ run' \in Run /\ run'.queue = run.queue \ {f}
        /\ run'.pc \in {"idle", "send"}
        /\ run'.pc # "idle" => run'.queue # {}
    BY <1>1, <2>1, DroppedIsRun
  <2>3. sent[f] <= faults
    BY <2>1, <2>2 DEF NextIsPaidFor, Recording
  <2> HIDE DEF f
  <2>4. /\ sent' \in [Rows -> Nat] /\ sent'[f] \in {sent[f], sent[f] + 1}
        /\ \A r \in Rows : r # f => sent'[r] = sent[r]
    BY <1>1, <2>1, <2>2
  <2>5. TypeOK' /\ QueueIsLeft' /\ RecordingIsSent'
    BY <1>1, <2>1, <2>2, <2>4, AlerterAssumption
       DEF TypeOK, QueueIsLeft, RecordingIsSent
  <2>6. \A r \in Rows : sent'[r] <= faults' \/ sent[r] = sent'[r]
    BY <1>1, <2>1, <2>2, <2>3, <2>4
  <2>7. NextIsPaidFor' /\ RepeatsArePaidFor'
    BY <1>1, <2>1, <2>4, <2>6 DEF NextIsPaidFor, RepeatsArePaidFor
  <2>8. RecordedMeansSent'
    BY <1>1, <2>1, <2>2, <2>4 DEF RecordedMeansSent, TypeOK
  <2>9. QED
    BY <2>5, <2>7, <2>8
<1>8. CASE Record
  <2> DEFINE f == First(run.queue)
  <2>1. /\ run.pc = "record" /\ run' = Dropped /\ alerted' = alerted \cup {f}
        /\ UNCHANGED <<detected, resolved, sent, faults>>
    BY <1>8 DEF Record
  <2>2. /\ f \in run.queue /\ f \in Rows
        /\ run' \in Run /\ run'.queue = run.queue \ {f}
        /\ run'.pc \in {"idle", "send"}
        /\ run'.pc # "idle" => run'.queue # {}
    BY <1>1, <2>1, DroppedIsRun
  <2>3. TypeOK' /\ QueueIsLeft' /\ RecordingIsSent'
    BY <1>1, <2>1, <2>2 DEF TypeOK, QueueIsLeft, RecordingIsSent
  <2>4. NextIsPaidFor'
    BY <2>1, <2>2 DEF NextIsPaidFor, Recording
  <2>5. RepeatsArePaidFor' /\ RecordedMeansSent'
    BY <2>1 DEF RepeatsArePaidFor, RecordedMeansSent, RecordingIsSent
  <2>6. QED
    BY <2>3, <2>4, <2>5
<1>9. CASE RecordFails \/ Crash
  <2>1. /\ run.pc # "idle"
        /\ faults' = faults + 1 /\ faults < MaxFaults
        /\ run' = Dropped \/ run' = [pc |-> "idle", queue |-> {}]
        /\ UNCHANGED <<detected, resolved, sent, alerted>>
    BY <1>9 DEF RecordFails, Crash, Fault
  <2>2. /\ run' \in Run /\ run'.pc \in {"idle", "send"}
        /\ run'.pc # "idle" => run'.queue # {}
    BY <1>1, <2>1, DroppedIsRun DEF TypeOK, Run
  <2>3. TypeOK' /\ QueueIsLeft' /\ RecordingIsSent'
    BY <1>1, <2>1, <2>2, AlerterAssumption
       DEF TypeOK, QueueIsLeft, RecordingIsSent
  <2>4. NextIsPaidFor' /\ RepeatsArePaidFor'
    BY <1>1, <2>1 DEF NextIsPaidFor, RepeatsArePaidFor
  <2>5. QED
    BY <2>1, <2>3, <2>4 DEF RecordedMeansSent
<1>10. CASE UNCHANGED vars
  BY <1>10 DEF vars, TypeOK, QueueIsLeft, RecordingIsSent, NextIsPaidFor,
               Recording, RepeatsArePaidFor, RecordedMeansSent
<1>11. QED
  BY <1>3, <1>4, <1>5, <1>6, <1>7, <1>8, <1>9, <1>10 DEF Next, RunStep

\* Every state of every behaviour satisfies the inductive invariant.
THEOREM AlerterInvariant == Spec => []IInv
  BY InitIInv, NextKeepsIInv, PTL DEF Spec

\* A run's queue and the sidecar hold rows and nothing else, and the run never
\* goes on with an empty queue (loadUnalertedTier2Rows, the dispatch loop).
THEOREM AlerterTypeCorrect == Spec => []TypeOK
<1>1. IInv => TypeOK
  BY DEF IInv
<1>2. QED
  BY <1>1, AlerterInvariant, PTL

\* No row is recorded as alerted without having been sent, whatever fails
\* (the `continue` after a failed send).
THEOREM AlerterRecordsWhatItSent == Spec => []RecordedMeansSent
<1>1. IInv => RecordedMeansSent
  BY DEF IInv
<1>2. QED
  BY <1>1, AlerterInvariant, PTL

\* Every repetition of an alert is paid for by a fault, for every cap, also when
\* the sidecar could not be read (per-id dedupe).
THEOREM AlerterRepeatsArePaidFor == Spec => []RepeatsArePaidFor
<1>1. IInv => RepeatsArePaidFor
  BY DEF IInv
<1>2. QED
  BY <1>1, AlerterInvariant, PTL

-------------------------------------------------------------------------------
(* The filing ingest.                                                        *)

\* A window is a finite set of filings.
LEMMA WindowIsFinite ==
  ASSUME IngestTypeOK, NEW from \in Int, NEW to \in Int
  PROVE  IsFiniteSet(InWindow(from, to)) /\ InWindow(from, to) \subseteq DOMAIN filings
<1>1. Len(filings) \in Nat /\ DOMAIN filings = 1 .. Len(filings)
  BY DEF IngestTypeOK
<1>2. InWindow(from, to) \subseteq DOMAIN filings
  BY DEF InWindow
<1>3. IsFiniteSet(1 .. Len(filings))
  BY <1>1, FS_Interval
<1> QED
  BY <1>1, <1>2, <1>3, FS_Subset

\* Pages that parse whole and raise no warning hold the whole window.
LEMMA QuietPagesAreAll ==
  ASSUME NEW W, IsFiniteSet(W), NEW P \in SUBSET W,
         paged \in BOOLEAN, Pages(P, W), ~ CapHit(P), W \cap Unparsed = {}
  PROVE  Parsed(P) = W
<1>1. Parsed(P) = P
  BY DEF Parsed
<1>2. Cardinality(P) < PageCap
  <2>1. Cardinality(P) \in Nat
    BY FS_Subset, FS_CardinalityType
  <2> QED
    BY <1>1, <2>1, EdgarAssumption DEF CapHit
<1>3. CASE ~ paged
  <2>1. IsNewest(P, W, PageCap)
    BY <1>3 DEF Pages
  <2>2. Cardinality(W) \in Nat
    BY FS_CardinalityType
  <2>3. Cardinality(P) = Cardinality(W)
    BY <1>2, <2>1, <2>2, EdgarAssumption DEF IsNewest
  <2> QED
    BY <1>1, <2>3, FS_Subset
<1>4. CASE paged
  BY <1>1, <1>4 DEF Pages
<1> QED
  BY <1>3, <1>4

-------------------------------------------------------------------------------
\* A further filing changes nothing about those there are.
LEMMA AcceptAppends ==
  ASSUME IngestTypeOK, Accept
  PROVE  /\ filings' \in Seq(Filing)
         /\ Len(filings') = Len(filings) + 1
         /\ \A i \in DOMAIN filings : i \in DOMAIN filings' /\ filings'[i] = filings[i]
         /\ filings'[Len(filings) + 1].accepted = day
<1>1. PICK parses \in BOOLEAN :
        filings' = Append(filings, [accepted |-> day, parses |-> parses])
  BY DEF Accept
<1>2. [accepted |-> day, parses |-> parses] \in Filing
  BY DEF IngestTypeOK, Filing
<1>3. filings \in Seq(Filing)
  BY DEF IngestTypeOK
<1> QED
  BY <1>1, <1>2, <1>3

LEMMA TypeStep ==
  ASSUME IngestTypeOK, [IngestNext]_ingestVars
  PROVE  IngestTypeOK'
<1> USE EdgarAssumption
<1>1. CASE Accept
  <2>1. filings \in Seq(Filing) /\ Len(filings) \in Nat /\ day \in Nat
    BY DEF IngestTypeOK, Days
  <2>2. /\ DOMAIN filings = 1 .. Len(filings)
        /\ DOMAIN filings' = 1 .. (Len(filings) + 1)
    BY <1>1, <2>1, AcceptAppends
  <2>3. /\ \A i \in DOMAIN filings' : filings'[i].accepted <= day
        /\ \A i, j \in DOMAIN filings' :
             i <= j => filings'[i].accepted <= filings'[j].accepted
    <3>1. \A i \in DOMAIN filings' : i \in DOMAIN filings \/ i = Len(filings) + 1
      BY <2>1, <2>2
    <3>2. \A i \in DOMAIN filings : ~ (Len(filings) + 1 <= i)
      BY <2>1, <2>2
    <3> QED
      BY <1>1, <2>1, <2>2, <3>1, <3>2, AcceptAppends DEF IngestTypeOK
  <2>4. table \subseteq {i \in DOMAIN filings' : filings'[i].parses}
    BY <1>1, AcceptAppends DEF IngestTypeOK
  <2>5. quietUpTo \in [Days -> 0 .. Len(filings')]
    BY <1>1, <2>1, AcceptAppends DEF IngestTypeOK
  <2>6. skipped \in [Days -> SUBSET {i \in DOMAIN filings' : filings'[i].parses}]
    <3>1. {i \in DOMAIN filings : filings[i].parses}
            \subseteq {i \in DOMAIN filings' : filings'[i].parses}
      BY <1>1, AcceptAppends
    <3> QED
      BY <3>1 DEF IngestTypeOK
  <2> QED
    BY <1>1, <2>3, <2>4, <2>5, <2>6, AcceptAppends DEF IngestTypeOK, Accept
<1>2. CASE NewDay
  <2>1. day' \in Days /\ day' = day + 1 /\ day \in Nat
    BY <1>2 DEF NewDay, IngestTypeOK, Days
  <2>2. \A i \in DOMAIN filings : filings[i].accepted \in Nat
    <3>1. \A i \in DOMAIN filings : filings[i] \in Filing
      BY DEF IngestTypeOK
    <3> QED
      BY <3>1 DEF Filing, Days
  <2>3. \A i \in DOMAIN filings : filings[i].accepted <= day'
    BY <2>1, <2>2 DEF IngestTypeOK
  <2> QED
    BY <1>2, <2>1, <2>3 DEF NewDay, IngestTypeOK
<1>3. ASSUME NEW W, W \subseteq DOMAIN filings, NEW P \in SUBSET W
      PROVE  /\ Parsed(P) \subseteq {i \in DOMAIN filings : filings[i].parses}
             /\ \A S \in RowsBuilt(P) :
                  table \cup S \subseteq {i \in DOMAIN filings : filings[i].parses}
  <2>1. Parsed(P) \subseteq {i \in DOMAIN filings : filings[i].parses}
    BY <1>3 DEF Parsed, Unparsed
  <2> QED
    BY <2>1 DEF RowsBuilt, IngestTypeOK
<1>4. CASE DailyRun
  <2>1. PICK P \in SUBSET DaemonWindow : \E S \in RowsBuilt(P) :
          /\ table' = table \cup S
          /\ IF CapHit(P) THEN UNCHANGED <<quietUpTo, skipped>>
             ELSE /\ quietUpTo' = [quietUpTo EXCEPT ![day] = Len(filings)]
                  /\ skipped' = [skipped EXCEPT ![day] = Parsed(P) \ S]
    BY <1>4 DEF DailyRun
  <2>2. PICK S \in RowsBuilt(P) :
          /\ table' = table \cup S
          /\ IF CapHit(P) THEN UNCHANGED <<quietUpTo, skipped>>
             ELSE /\ quietUpTo' = [quietUpTo EXCEPT ![day] = Len(filings)]
                  /\ skipped' = [skipped EXCEPT ![day] = Parsed(P) \ S]
    BY <2>1
  <2>3. DaemonWindow \subseteq DOMAIN filings
    BY DEF DaemonWindow, InWindow
  <2>4. table' \subseteq {i \in DOMAIN filings : filings[i].parses}
    BY <1>3, <2>2, <2>3
  <2>5. quietUpTo' \in [Days -> 0 .. Len(filings)]
    <3>1. Len(filings) \in 0 .. Len(filings)
      BY DEF IngestTypeOK
    <3> QED
      BY <2>2, <3>1 DEF IngestTypeOK
  <2>6. skipped' \in [Days -> SUBSET {i \in DOMAIN filings : filings[i].parses}]
    <3>1. Parsed(P) \ S \in SUBSET {i \in DOMAIN filings : filings[i].parses}
      BY <1>3, <2>3
    <3> QED
      BY <2>2, <3>1 DEF IngestTypeOK
  <2> QED
    BY <1>4, <2>4, <2>5, <2>6 DEF DailyRun, IngestTypeOK
<1>5. CASE DailyRunFails
  <2>1. PICK P \in SUBSET DaemonWindow : \E S \in RowsBuilt(P) : table' = table \cup S
    BY <1>5 DEF DailyRunFails
  <2>2. DaemonWindow \subseteq DOMAIN filings
    BY DEF DaemonWindow, InWindow
  <2>3. table' \subseteq {i \in DOMAIN filings : filings[i].parses}
    BY <1>3, <2>1, <2>2
  <2> QED
    BY <1>5, <2>3 DEF DailyRunFails, IngestTypeOK
<1>6. CASE Catchup
  <2>1. PICK P \in SUBSET InWindow(day - CatchupDays, day) :
          \E S \in RowsBuilt(P) : table' = table \cup S
    BY <1>6 DEF Catchup
  <2>2. InWindow(day - CatchupDays, day) \subseteq DOMAIN filings
    BY DEF InWindow
  <2>3. table' \subseteq {i \in DOMAIN filings : filings[i].parses}
    BY <1>3, <2>1, <2>2
  <2> QED
    BY <1>6, <2>3 DEF Catchup, IngestTypeOK
<1>7. CASE UNCHANGED ingestVars
  BY <1>7 DEF IngestTypeOK, ingestVars
<1> QED
  BY <1>1, <1>2, <1>4, <1>5, <1>6, <1>7 DEF IngestNext

\* Filings are kept in the order of their days, and the table holds filings
\* that parse, for every page size and window (IngestTypeOK).
THEOREM IngestTypeCorrect == IngestSpec => []IngestTypeOK
<1>1. IngestInit => IngestTypeOK
  <2>1. ASSUME IngestInit
        PROVE  /\ day \in Days
               /\ filings \in Seq(Filing) /\ DOMAIN filings = {} /\ Len(filings) = 0
    BY <2>1, EdgarAssumption DEF IngestInit, Days
  <2> QED
    BY <2>1 DEF IngestInit, IngestTypeOK
<1> QED
  BY <1>1, TypeStep, PTL DEF IngestSpec

-------------------------------------------------------------------------------
\* What a quiet run of d's has seen.
Seen(d) == {i \in Known(d) : i <= quietUpTo[d]}

LEMMA TableOnlyGrows ==
  ASSUME QuietRunIsWhole, table \subseteq table',
         UNCHANGED <<filings, quietUpTo, skipped>>
  PROVE  QuietRunIsWhole'
  BY DEF QuietRunIsWhole, Known, Unparsed

LEMMA QuietRunStep ==
  ASSUME IngestTypeOK, QuietRunIsWhole, [IngestNext]_ingestVars
  PROVE  QuietRunIsWhole'
<1>1. CASE Accept
  <2>1. Len(filings) \in Nat /\ DOMAIN filings = 1 .. Len(filings)
    BY DEF IngestTypeOK
  <2>2. DOMAIN filings' = 1 .. (Len(filings) + 1)
    BY <1>1, <2>1, AcceptAppends
  <2>3. ASSUME NEW d \in Days
        PROVE  Seen(d)' = Seen(d) /\ Seen(d)' \cap Unparsed' = Seen(d) \cap Unparsed
    <3>1. quietUpTo[d] \in 0 .. Len(filings) /\ quietUpTo' = quietUpTo
      BY <1>1 DEF IngestTypeOK, Accept
    <3>2. \A i : i \in DOMAIN filings' /\ i <= quietUpTo[d] => i \in DOMAIN filings
      BY <2>1, <2>2, <3>1
    <3>3. \A i \in DOMAIN filings : i \in DOMAIN filings' /\ filings'[i] = filings[i]
      BY <1>1, AcceptAppends
    <3> QED
      BY <3>1, <3>2, <3>3 DEF Seen, Known, Unparsed
  <2>4. table' = table /\ skipped' = skipped
    BY <1>1 DEF Accept
  <2> QED
    BY <2>3, <2>4 DEF QuietRunIsWhole, Seen
<1>2. CASE NewDay
  BY <1>2, TableOnlyGrows DEF NewDay
<1>3. CASE DailyRun
  <2>1. PICK P \in SUBSET DaemonWindow : \E S \in RowsBuilt(P) :
          /\ Pages(P, DaemonWindow)
          /\ table' = table \cup S
          /\ IF CapHit(P) THEN UNCHANGED <<quietUpTo, skipped>>
             ELSE /\ quietUpTo' = [quietUpTo EXCEPT ![day] = Len(filings)]
                  /\ skipped' = [skipped EXCEPT ![day] = Parsed(P) \ S]
    BY <1>3 DEF DailyRun
  <2>2. CASE CapHit(P)
    <3>1. table \subseteq table' /\ UNCHANGED <<filings, quietUpTo, skipped>>
      BY <1>3, <2>1, <2>2 DEF DailyRun
    <3> QED
      BY <3>1, TableOnlyGrows
  <2>3. CASE ~ CapHit(P)
    <3>0. PICK S \in RowsBuilt(P) :
            /\ table' = table \cup S
            /\ quietUpTo' = [quietUpTo EXCEPT ![day] = Len(filings)]
            /\ skipped' = [skipped EXCEPT ![day] = Parsed(P) \ S]
      BY <2>1, <2>3
    <3>1. /\ day \in Days /\ day \in Int /\ Len(filings) \in Nat
          /\ quietUpTo'[day] = Len(filings) /\ skipped'[day] = Parsed(P) \ S
          /\ \A d \in Days :
               d # day => quietUpTo'[d] = quietUpTo[d] /\ skipped'[d] = skipped[d]
      BY <3>0 DEF IngestTypeOK, Days
    <3>2. filings' = filings /\ Unparsed' = Unparsed
      BY <1>3 DEF DailyRun, Unparsed
    <3>3. \A d \in Days : d # day => Seen(d)' = Seen(d)
      BY <3>1, <3>2 DEF Seen, Known
    <3>4. Seen(day)' \subseteq DaemonWindow /\ DaemonWindow \subseteq Seen(day)'
      <4>1. \A i \in DOMAIN filings : i <= Len(filings)
        BY DEF IngestTypeOK
      <4>2. Seen(day)' = {i \in DOMAIN filings :
                            filings[i].accepted \in (day - 1) .. day /\ i <= Len(filings)}
        BY <1>3, <3>1, <3>2 DEF Seen, Known, DailyRun
      <4> QED
        BY <4>1, <4>2 DEF DaemonWindow, InWindow
    <3>5. DaemonWindow \cap Unparsed = {} => Parsed(P) = DaemonWindow
      <4>1. IsFiniteSet(DaemonWindow)
        <5>1. day - 1 \in Int /\ day \in Int
          BY <3>1
        <5> QED
          BY <5>1, WindowIsFinite DEF DaemonWindow
      <4> QED
        BY <2>1, <2>3, <4>1, QuietPagesAreAll DEF IngestTypeOK
    <3>6. Parsed(P) \subseteq table' \cup skipped'[day]
      BY <3>0, <3>1
    <3>7. ASSUME NEW d \in Days, Seen(d)' \cap Unparsed' = {}
          PROVE  Seen(d)' \subseteq table' \cup skipped'[d]
      <4>1. CASE d = day
        <5>1. Seen(d)' = Seen(day)'
          BY <1>3, <4>1 DEF DailyRun, Seen, Known
        <5> QED
          BY <3>2, <3>4, <3>5, <3>6, <3>7, <4>1, <5>1
      <4>2. CASE d # day
        BY <3>0, <3>1, <3>2, <3>3, <3>7, <4>2 DEF QuietRunIsWhole, Seen
      <4> QED
        BY <4>1, <4>2
    <3> QED
      BY <3>7 DEF QuietRunIsWhole, Seen
  <2> QED
    BY <2>2, <2>3
<1>4. CASE DailyRunFails \/ Catchup
  BY <1>4, TableOnlyGrows DEF DailyRunFails, Catchup
<1>5. CASE UNCHANGED ingestVars
  BY <1>5, TableOnlyGrows DEF ingestVars
<1> QED
  BY <1>1, <1>2, <1>3, <1>4, <1>5 DEF IngestNext

\* A run without a warning has cut no page: of what EDGAR had for its two days it
\* leaves out only filings it parsed and built no row for, for every page size,
\* unless one did not parse (QuietRunIsWhole).
THEOREM QuietRunsAreWhole == IngestSpec => []QuietRunIsWhole
<1>1. IngestInit => QuietRunIsWhole
  BY DEF IngestInit, QuietRunIsWhole, Known
<1> QED
  BY <1>1, IngestTypeCorrect, QuietRunStep, PTL DEF IngestSpec

-------------------------------------------------------------------------------
(* The halt switch.                                                          *)

\* A phase that GoOn gives to r is r's alone.
LEMMA GoOnMoves ==
  ASSUME HaltTypeOK, NEW r \in Runs, NEW p \in Phases, GoOn(r, p)
  PROVE  /\ phase' \in [Runs -> Phases]
         /\ phase'[r] = p
         /\ \A q \in Runs : q # r => phase'[q] = phase[q]
  BY DEF HaltTypeOK, GoOn

\* The switch keeps its types: a bounded number of faults, known phases.
LEMMA HaltTypeStep ==
  ASSUME HaltTypeOK, [HaltNext]_haltVars
  PROVE  HaltTypeOK'
<1>1. ASSUME NEW r \in Runs, NEW enforcing \in BOOLEAN, Preflight(r, enforcing)
      PROVE  HaltTypeOK'
  BY <1>1, GoOnMoves DEF HaltTypeOK, Preflight, Phases, BeingWritten
<1>2. ASSUME NEW r \in Runs, HaltRunStep(r)
      PROVE  HaltTypeOK'
  <2>1. CASE Trade(r)
    BY <2>1, GoOnMoves DEF HaltTypeOK, Trade, Phases
  <2>2. CASE Decide(r)
    BY <2>2, GoOnMoves DEF HaltTypeOK, Decide, Phases
  <2>3. CASE WriteSentinel(r)
    BY <2>3, GoOnMoves DEF HaltTypeOK, WriteSentinel, Phases
  <2> QED
    BY <1>2, <2>1, <2>2, <2>3 DEF HaltRunStep
<1>3. ASSUME NEW r \in Runs, MonitorFails(r)
      PROVE  HaltTypeOK'
  BY <1>3, HaltAssumption, GoOnMoves DEF HaltTypeOK, MonitorFails, HaltFault, Phases
<1>4. ASSUME NEW r \in Runs, WriteFails(r)
      PROVE  HaltTypeOK'
  BY <1>4, HaltAssumption, GoOnMoves DEF HaltTypeOK, WriteFails, HaltFault, Phases
<1>8. ASSUME NEW r \in Runs, EmergencyFails(r)
      PROVE  HaltTypeOK'
  BY <1>8, HaltAssumption, GoOnMoves DEF HaltTypeOK, EmergencyFails, HaltFault, Phases
<1>5. ASSUME NEW r \in Runs, Abort(r)
      PROVE  HaltTypeOK'
  BY <1>5, HaltAssumption, GoOnMoves DEF HaltTypeOK, Abort, HaltFault, Phases
<1>6. CASE PlaceSentinel \/ DeleteSentinel
  BY <1>6 DEF HaltTypeOK, PlaceSentinel, DeleteSentinel
<1>7. CASE UNCHANGED haltVars
  BY <1>7 DEF HaltTypeOK, haltVars
<1> QED
  BY <1>1, <1>2, <1>3, <1>4, <1>5, <1>6, <1>7, <1>8 DEF HaltNext, HaltRunStep

\* The switch keeps its types, for all runs and faults (HaltTypeOK).
THEOREM HaltTypeCorrect ==
  HaltSpec => []HaltTypeOK
<1>1. HaltInit => HaltTypeOK
  <2>1. HaltInit => /\ phase \in [Runs -> Phases]
                    /\ haltFaults \in 0 .. MaxHaltFaults
    BY HaltAssumption DEF HaltInit, Phases
  <2>2. HaltInit => /\ enforce \in [Runs -> BOOLEAN]
                    /\ began \in [Runs -> BOOLEAN]
    BY Zenon DEF HaltInit
  <2> QED
    BY <2>1, <2>2, Zenon DEF HaltInit, HaltTypeOK
<1> QED
  BY <1>1, HaltTypeStep, PTL DEF HaltSpec

-------------------------------------------------------------------------------
\* A run that is not writing may move without undoing another's write.
LEMMA WritersStay ==
  ASSUME HaltTypeOK, NEW r \in Runs, NEW p \in Phases, GoOn(r, p),
         phase[r] \notin {"halting", "failed"}, BeingWritten
  PROVE  BeingWritten'
  BY GoOnMoves DEF BeingWritten

\* A run that goes on to write is a writer.
LEMMA WriterStarts ==
  ASSUME HaltTypeOK, NEW r \in Runs, NEW p \in {"halting", "failed"}, GoOn(r, p)
  PROVE  BeingWritten'
  BY GoOnMoves DEF BeingWritten, Phases

LEMMA HaltIsOnFileStep ==
  ASSUME HaltTypeOK, HaltIsOnFile, [HaltNext]_haltVars
  PROVE  HaltIsOnFile'
<1>1. ASSUME NEW r \in Runs, NEW enforcing \in BOOLEAN, Preflight(r, enforcing)
      PROVE  HaltIsOnFile'
  <2>1. BeingWritten => BeingWritten'
    BY <1>1, WritersStay DEF Preflight, Phases
  <2> QED
    BY <1>1, <2>1 DEF HaltIsOnFile, Preflight
<1>2. ASSUME NEW r \in Runs, Trade(r)
      PROVE  HaltIsOnFile'
  <2>1. BeingWritten => BeingWritten'
    BY <1>2, WritersStay DEF Trade, Phases
  <2> QED
    BY <1>2, <2>1 DEF HaltIsOnFile, Trade
<1>3. ASSUME NEW r \in Runs, Decide(r)
      PROVE  HaltIsOnFile'
  <2>1. CASE breached /\ enforce[r]
    BY <1>3, <2>1, WriterStarts DEF HaltIsOnFile, Decide
  <2>2. CASE ~ (breached /\ enforce[r])
    <3>1. BeingWritten => BeingWritten'
      BY <1>3, <2>2, WritersStay DEF Decide, Phases
    <3> QED
      BY <1>3, <2>2, <3>1 DEF HaltIsOnFile, Decide
  <2> QED
    BY <2>1, <2>2
<1>4. ASSUME NEW r \in Runs, WriteSentinel(r)
      PROVE  HaltIsOnFile'
  BY <1>4 DEF HaltIsOnFile, WriteSentinel
<1>5. ASSUME NEW r \in Runs, MonitorFails(r)
      PROVE  HaltIsOnFile'
  <2>1. CASE enforce[r]
    BY <1>5, <2>1, WriterStarts DEF HaltIsOnFile, MonitorFails
  <2>2. CASE ~ enforce[r]
    <3>1. BeingWritten => BeingWritten'
      BY <1>5, <2>2, WritersStay DEF MonitorFails, Phases
    <3> QED
      BY <1>5, <2>2, <3>1 DEF HaltIsOnFile, MonitorFails
  <2> QED
    BY <2>1, <2>2
<1>6. ASSUME NEW r \in Runs, WriteFails(r)
      PROVE  HaltIsOnFile'
  BY <1>6, WriterStarts DEF HaltIsOnFile, WriteFails
<1>7. ASSUME NEW r \in Runs, EmergencyFails(r)
      PROVE  HaltIsOnFile'
  BY <1>7 DEF HaltIsOnFile, EmergencyFails
<1>8. ASSUME NEW r \in Runs, Abort(r)
      PROVE  HaltIsOnFile'
  <2>1. phase[r] \notin {"halting", "failed"} /\ BeingWritten => BeingWritten'
    BY <1>8, WritersStay DEF Abort, Phases
  <2> QED
    BY <1>8, <2>1 DEF HaltIsOnFile, Abort
<1>9. CASE PlaceSentinel \/ DeleteSentinel
  BY <1>9 DEF HaltIsOnFile, PlaceSentinel, DeleteSentinel
<1>10. CASE UNCHANGED haltVars
  BY <1>10 DEF HaltIsOnFile, haltVars, BeingWritten
<1> QED
  BY <1>1, <1>2, <1>3, <1>4, <1>5, <1>6, <1>7, <1>8, <1>9, <1>10
  DEF HaltNext, HaltRunStep

\* A halt stays on file until the operator deletes it or every attempt to write
\* it has failed, whatever runs overlap (HaltIsOnFile).
THEOREM HaltStaysOnFile ==
  HaltSpec => []HaltIsOnFile
<1>1. HaltInit => HaltIsOnFile
  BY DEF HaltInit, HaltIsOnFile
<1> QED
  BY <1>1, HaltTypeCorrect, HaltIsOnFileStep, PTL DEF HaltSpec

-------------------------------------------------------------------------------
\* Only the pre-flight check sets a run going, and nothing finds a lost halt.
LEMMA OthersGoOn ==
  ASSUME HaltTypeOK, HaltNext,
         ~ \E r \in Runs : \E enforcing \in BOOLEAN : Preflight(r, enforcing)
  PROVE  /\ \A r \in Runs : phase'[r] # "off" => phase[r] # "off"
         /\ began' = began
         /\ lost => lost'
<1>1. ASSUME NEW r \in Runs,
             \/ HaltRunStep(r) \/ MonitorFails(r) \/ WriteFails(r)
             \/ EmergencyFails(r) \/ Abort(r)
      PROVE  /\ \E p \in Phases : GoOn(r, p)
             /\ phase[r] # "off"
             /\ began' = began
             /\ lost => lost'
  <2>1. CASE Trade(r)
    BY <2>1 DEF Trade, Phases
  <2>2. CASE Decide(r)
    BY <2>2 DEF Decide, Phases
  <2>3. CASE WriteSentinel(r)
    BY <2>3 DEF WriteSentinel, Phases
  <2>4. CASE MonitorFails(r)
    BY <2>4 DEF MonitorFails, Phases
  <2>5. CASE WriteFails(r)
    BY <2>5 DEF WriteFails, Phases
  <2>6. CASE EmergencyFails(r)
    BY <2>6 DEF EmergencyFails, Phases
  <2>7. CASE Abort(r)
    <3>1. GoOn(r, "off") /\ phase[r] # "off" /\ began' = began
      BY <2>7 DEF Abort
    <3>2. lost => lost'
      BY <2>7, Zenon DEF Abort
    <3> QED
      BY <3>1, <3>2 DEF Phases
  <2> QED
    BY <1>1, <2>1, <2>2, <2>3, <2>4, <2>5, <2>6, <2>7 DEF HaltRunStep
<1>2. CASE PlaceSentinel \/ DeleteSentinel
  BY <1>2 DEF PlaceSentinel, DeleteSentinel
<1> QED
  BY <1>1, <1>2, GoOnMoves DEF HaltNext

LEMMA NoRunThroughHaltStep ==
  ASSUME HaltTypeOK, HaltIsOnFile, NoRunThroughHalt, [HaltNext]_haltVars
  PROVE  NoRunThroughHalt'
<1>1. ASSUME NEW r \in Runs, NEW enforcing \in BOOLEAN, Preflight(r, enforcing)
      PROVE  NoRunThroughHalt'
  <2>1. \A q \in Runs : q # r => phase'[q] = phase[q] /\ began'[q] = began[q]
    BY <1>1, GoOnMoves DEF Preflight, Phases, HaltTypeOK
  <2>2. began'[r] => lost
    BY <1>1 DEF Preflight, Passes, HaltTypeOK, HaltIsOnFile
  <2> QED
    BY <1>1, <2>1, <2>2 DEF NoRunThroughHalt, Preflight
<1>2. CASE UNCHANGED haltVars
  BY <1>2 DEF NoRunThroughHalt, haltVars
<1> QED
  BY <1>1, <1>2, OthersGoOn DEF NoRunThroughHalt

\* No run trades that was started while a halt was on file (NoRunThroughHalt).
THEOREM HaltStopsRuns ==
  HaltSpec => []NoRunThroughHalt
<1>1. HaltInit => NoRunThroughHalt
  BY DEF HaltInit, NoRunThroughHalt
<1> QED
  BY <1>1, HaltTypeCorrect, HaltStaysOnFile, NoRunThroughHaltStep, PTL DEF HaltSpec

-------------------------------------------------------------------------------
(* The tier of the cell weights.                                             *)

Good(x) == x \in history /\ ~ x.degraded

\* Runs that have not been started know nothing and have no row; a run has one
\* row at most, which is its last act.
OneRowEach ==
  /\ \A n \in Starts : n > started => weighing[n].at = "off"
  /\ \A x \in history : x.run <= started /\ weighing[x.run].at = "off"
  /\ \A x, y \in history : x.run = y.run => x = y

\* A run that has read knows a tier no lower than any row below it.
ReadCovers ==
  \A n \in Starts, x \in history :
    weighing[n].at \in {"fetch", "trade"} /\ ~ x.degraded /\ x.run < n
      => x.tier <= weighing[n].prior

\* A run that is not degraded has chosen a tier no lower than it has read.
ChosenAbove ==
  \A n \in Starts :
    weighing[n].at = "trade" /\ ~ weighing[n].degraded
      => weighing[n].prior <= weighing[n].tier

WeightsInv ==
  /\ WeightsTypeOK /\ OneRowEach /\ ChosenAbove /\ RatchetHolds
  /\ ~ unseen => ReadCovers

RunGoesOn(n) ==
  \/ ReadPriorTier(n) \/ ReadPriorFails(n)
  \/ ResolveCellWeights(n) \/ FallBack(n)
  \/ PersistRow(n) \/ EndWithoutRow(n)

-------------------------------------------------------------------------------
\* A step of a run changes what that run knows and no other's.
LEMMA StepIsItsOwn ==
  ASSUME WeightsTypeOK, NEW n \in Starts, RunGoesOn(n)
  PROVE  /\ weighing' \in [Starts -> Weighing]
         /\ \A m \in Starts : m # n => weighing'[m] = weighing[m]
         /\ started' = started
<1>1. CASE ReadPriorTier(n)
  <2>1. PICK t \in Tiers :
          weighing' = [weighing EXCEPT ![n].at = "fetch", ![n].prior = t]
    BY <1>1 DEF ReadPriorTier
  <2>2. [weighing[n] EXCEPT !.at = "fetch", !.prior = t] \in Weighing
    BY DEF WeightsTypeOK, Weighing
  <2>3. weighing' = [weighing EXCEPT ![n] =
                       [weighing[n] EXCEPT !.at = "fetch", !.prior = t]]
    BY <2>1 DEF WeightsTypeOK
  <2> QED
    BY <1>1, <2>2, <2>3 DEF ReadPriorTier, WeightsTypeOK
<1>2. CASE ReadPriorFails(n)
  BY <1>2 DEF ReadPriorFails, WeightsTypeOK, Weighing
<1>3. CASE ResolveCellWeights(n)
  <2>1. PICK sample \in Tiers :
          weighing' = [weighing EXCEPT ![n].at = "trade",
                         ![n].tier = SelectTier(sample, weighing[n].prior)]
    BY <1>3 DEF ResolveCellWeights
  <2>2. SelectTier(sample, weighing[n].prior) \in Tiers
    BY DEF SelectTier, WeightsTypeOK, Weighing
  <2>3. [weighing[n] EXCEPT !.at = "trade",
           !.tier = SelectTier(sample, weighing[n].prior)] \in Weighing
    BY <2>2 DEF WeightsTypeOK, Weighing
  <2>4. weighing' = [weighing EXCEPT ![n] =
                       [weighing[n] EXCEPT !.at = "trade",
                          !.tier = SelectTier(sample, weighing[n].prior)]]
    BY <2>1 DEF WeightsTypeOK
  <2> QED
    BY <1>3, <2>3, <2>4 DEF ResolveCellWeights, WeightsTypeOK
<1>4. CASE FallBack(n)
  BY <1>4 DEF FallBack, WeightsTypeOK, Weighing
<1>5. CASE PersistRow(n) \/ EndWithoutRow(n)
  <2>1. Off \in Weighing
    BY DEF Off, Weighing, Tiers
  <2> QED
    BY <1>5, <2>1 DEF PersistRow, EndWithoutRow, WeightsTypeOK
<1> QED
  BY <1>1, <1>2, <1>3, <1>4, <1>5 DEF RunGoesOn

\* The table and the runs keep their types: tiers are those of the code.
LEMMA WeightsTypeStep ==
  ASSUME WeightsTypeOK, [WeightsNext]_weightsVars
  PROVE  WeightsTypeOK'
<1>1. CASE StartRun
  BY <1>1, WeightsAssumption DEF StartRun, WeightsTypeOK, Weighing, Starts
<1>2. ASSUME NEW n \in Starts, RunGoesOn(n)
      PROVE  WeightsTypeOK'
  <2>1. CASE PersistRow(n)
    <3>1. [run |-> n, tier |-> weighing[n].tier, degraded |-> weighing[n].degraded]
             \in [run : Starts, tier : Tiers, degraded : BOOLEAN]
      BY DEF WeightsTypeOK, Weighing
    <3>2. unseen' \in BOOLEAN
      BY <2>1 DEF PersistRow
    <3> QED
      BY <1>2, <2>1, <3>1, <3>2, StepIsItsOwn DEF PersistRow, WeightsTypeOK
  <2>2. CASE ReadPriorFails(n)
    <3>1. unseen' \in BOOLEAN
      BY <2>2 DEF ReadPriorFails
    <3> QED
      BY <1>2, <2>2, <3>1, StepIsItsOwn DEF ReadPriorFails, WeightsTypeOK
  <2>3. CASE ~ PersistRow(n) /\ ~ ReadPriorFails(n)
    BY <1>2, <2>3, StepIsItsOwn
       DEF RunGoesOn, ReadPriorTier, ResolveCellWeights, FallBack, EndWithoutRow,
           WeightsTypeOK
  <2> QED
    BY <2>1, <2>2, <2>3
<1>3. CASE UNCHANGED weightsVars
  BY <1>3 DEF weightsVars, WeightsTypeOK
<1> QED
  BY <1>1, <1>2, <1>3 DEF WeightsNext, RunGoesOn

\* A run's row is its last act, and its only one.
LEMMA OneRowStep ==
  ASSUME WeightsTypeOK, OneRowEach, [WeightsNext]_weightsVars
  PROVE  OneRowEach'
<1> USE DEF OneRowEach
<1>1. CASE StartRun
  BY <1>1 DEF StartRun, WeightsTypeOK, Weighing, Starts, Off
<1>2. ASSUME NEW n \in Starts, RunGoesOn(n)
      PROVE  OneRowEach'
  <2>1. weighing[n].at # "off" /\ n <= started
    BY <1>2 DEF RunGoesOn, ReadPriorTier, ReadPriorFails, ResolveCellWeights,
                FallBack, PersistRow, EndWithoutRow, WeightsTypeOK, Starts
  <2>2. \A x \in history : x.run # n
    BY <2>1
  <2>4. CASE PersistRow(n)
    <3>1. weighing'[n] = Off
      BY <2>4 DEF PersistRow, WeightsTypeOK
    <3> QED
      BY <1>2, <2>1, <2>2, <2>4, <3>1, StepIsItsOwn DEF PersistRow, WeightsTypeOK, Off
  <2>5. CASE ~ PersistRow(n)
    <3>1. UNCHANGED history
      BY <1>2, <2>5 DEF RunGoesOn, ReadPriorTier, ReadPriorFails, ResolveCellWeights,
                        FallBack, EndWithoutRow
    <3> QED
      BY <1>2, <2>1, <2>2, <3>1, StepIsItsOwn DEF WeightsTypeOK
  <2> QED
    BY <2>4, <2>5
<1>3. CASE UNCHANGED weightsVars
  BY <1>3 DEF weightsVars
<1> QED
  BY <1>1, <1>2, <1>3 DEF WeightsNext, RunGoesOn

-------------------------------------------------------------------------------
\* The tier read from the newest row covers every row, as the tiers rise.
LEMMA PriorCoversAll ==
  ASSUME WeightsTypeOK, OneRowEach, RatchetHolds, ~ unseen,
         NEW t \in Tiers, IsPriorTier(t)
  PROVE  \A x \in history : ~ x.degraded => x.tier <= t
<1>1. SUFFICES ASSUME NEW x \in history, ~ x.degraded
               PROVE  x.tier <= t
  OBVIOUS
<1>2. PICK y \in Readable : t = y.tier /\ x.run <= y.run
  BY <1>1 DEF IsPriorTier, Readable
<1>3. CASE x.run = y.run
  BY <1>1, <1>2, <1>3 DEF OneRowEach, Readable, WeightsTypeOK, Tiers
<1>4. CASE x.run # y.run
  BY <1>1, <1>2, <1>4 DEF RatchetHolds, Readable, WeightsTypeOK, Starts
<1> QED
  BY <1>3, <1>4

\* A run that knows what lies below it writes a row that keeps the tiers rising,
\* and below no other run that has read.
LEMMA PersistKeepsRatchet ==
  ASSUME WeightsInv, NEW n \in Starts, PersistRow(n), ~ unseen'
  PROVE  RatchetHolds' /\ ReadCovers'
<1> DEFINE row == [run |-> n, tier |-> weighing[n].tier,
                   degraded |-> weighing[n].degraded]
<1>1. /\ weighing[n].at = "trade" /\ history' = history \cup {row}
      /\ ~ unseen /\ (row.degraded \/ ~ ReadAbove(n))
  BY DEF PersistRow
<1>2. weighing' \in [Starts -> Weighing] /\ weighing'[n] = Off
      /\ \A m \in Starts : m # n => weighing'[m] = weighing[m]
  BY StepIsItsOwn DEF PersistRow, RunGoesOn, WeightsInv, WeightsTypeOK
<1>3. ASSUME NEW x \in history, ~ x.degraded, ~ row.degraded, x.run < n
      PROVE  x.tier <= row.tier
  <2>1. x.tier <= weighing[n].prior /\ weighing[n].prior <= weighing[n].tier
    BY <1>1, <1>3 DEF WeightsInv, ReadCovers, ChosenAbove
  <2> QED
    BY <2>1 DEF WeightsInv, WeightsTypeOK, Weighing, Tiers
<1>4. ASSUME NEW y \in history, ~ y.degraded, ~ row.degraded
      PROVE  ~ (n < y.run)
  BY <1>1, <1>4 DEF ReadAbove, Readable, WeightsInv, WeightsTypeOK, Starts
<1>5. RatchetHolds'
  <2>1. SUFFICES ASSUME NEW x \in history', NEW y \in history', x.run < y.run,
                        ~ x.degraded, ~ y.degraded
                 PROVE  x.tier <= y.tier
    BY DEF RatchetHolds
  <2>2. CASE x \in history /\ y \in history
    BY <1>1, <2>1, <2>2 DEF WeightsInv, RatchetHolds
  <2>3. CASE x \in history /\ y = row
    BY <1>3, <2>1, <2>3
  <2>4. CASE x = row /\ y \in history
    BY <1>4, <2>1, <2>4
  <2>5. CASE x = row /\ y = row
    BY <2>1, <2>5 DEF Starts
  <2> QED
    BY <1>1, <2>2, <2>3, <2>4, <2>5
<1>6. ReadCovers'
  <2>1. SUFFICES ASSUME NEW m \in Starts, NEW x \in history',
                        weighing'[m].at \in {"fetch", "trade"},
                        ~ x.degraded, x.run < m
                 PROVE  x.tier <= weighing'[m].prior
    BY DEF ReadCovers
  <2>2. m # n /\ weighing'[m] = weighing[m]
    BY <1>2, <2>1 DEF Off
  <2>3. x # row
    BY <1>1, <2>1, <2>2 DEF ReadAbove
  <2> QED
    BY <1>1, <2>1, <2>2, <2>3 DEF WeightsInv, ReadCovers
<1> QED
  BY <1>5, <1>6

\* The ratchet and what a run knows survive every step of a run but its row.
LEMMA RunKeepsRatchet ==
  ASSUME WeightsInv, NEW n \in Starts, RunGoesOn(n), ~ PersistRow(n), ~ unseen'
  PROVE  RatchetHolds' /\ ReadCovers'
<1>1. UNCHANGED history /\ ~ unseen
  <2>1. CASE ReadPriorFails(n)
    BY <2>1 DEF ReadPriorFails
  <2>2. CASE ~ ReadPriorFails(n)
    BY <2>2 DEF RunGoesOn, ReadPriorTier, ResolveCellWeights, FallBack, EndWithoutRow
  <2> QED
    BY <2>1, <2>2
<1>2. RatchetHolds'
  BY <1>1 DEF WeightsInv, RatchetHolds
<1>3. \A m \in Starts : m # n => weighing'[m] = weighing[m]
  BY StepIsItsOwn DEF WeightsInv
<1>4. ASSUME weighing'[n].at \in {"fetch", "trade"}
      PROVE  \A x \in history : ~ x.degraded /\ x.run < n => x.tier <= weighing'[n].prior
  <2>1. CASE ReadPriorTier(n)
    <3>1. PICK t \in Tiers :
            /\ IsPriorTier(t)
            /\ weighing' = [weighing EXCEPT ![n].at = "fetch", ![n].prior = t]
      BY <2>1 DEF ReadPriorTier
    <3>2. weighing'[n].prior = t
      BY <3>1 DEF WeightsInv, WeightsTypeOK, Weighing
    <3> QED
      BY <1>1, <3>1, <3>2, PriorCoversAll DEF WeightsInv
  <2>2. CASE ReadPriorFails(n)
    <3>1. \A x \in history : ~ x.degraded => ~ (x.tier > 0)
      BY <2>2 DEF ReadPriorFails, Readable
    <3>2. weighing'[n].prior = weighing[n].prior /\ weighing[n].prior \in Tiers
      BY <2>2 DEF ReadPriorFails, WeightsInv, WeightsTypeOK, Weighing
    <3> QED
      BY <3>1, <3>2 DEF WeightsInv, WeightsTypeOK, Tiers
  <2>3. CASE ResolveCellWeights(n) \/ FallBack(n)
    <3>1. weighing[n].at = "fetch" /\ weighing'[n].prior = weighing[n].prior
      BY <2>3 DEF ResolveCellWeights, FallBack, WeightsInv, WeightsTypeOK, Weighing
    <3> QED
      BY <1>1, <3>1 DEF WeightsInv, ReadCovers
  <2>4. CASE EndWithoutRow(n)
    BY <1>4, <2>4 DEF EndWithoutRow, WeightsInv, WeightsTypeOK, Off
  <2> QED
    BY <2>1, <2>2, <2>3, <2>4 DEF RunGoesOn
<1>5. ReadCovers'
  BY <1>1, <1>3, <1>4 DEF WeightsInv, ReadCovers
<1> QED
  BY <1>2, <1>5

\* What a run has chosen stays above what it has read.
LEMMA ChosenAboveStep ==
  ASSUME WeightsTypeOK, OneRowEach, ChosenAbove, [WeightsNext]_weightsVars
  PROVE  ChosenAbove'
<1>1. CASE StartRun
  BY <1>1 DEF StartRun, WeightsTypeOK, Weighing, ChosenAbove
<1>2. ASSUME NEW n \in Starts, RunGoesOn(n)
      PROVE  ChosenAbove'
  <2>1. weighing'[n].at = "trade" /\ ~ weighing'[n].degraded
          => weighing'[n].prior <= weighing'[n].tier
    <3>1. CASE ReadPriorTier(n) \/ ReadPriorFails(n)
      BY <3>1 DEF ReadPriorTier, ReadPriorFails, WeightsTypeOK, Weighing
    <3>2. CASE ResolveCellWeights(n)
      <4>1. PICK sample \in Tiers :
              weighing' = [weighing EXCEPT ![n].at = "trade",
                             ![n].tier = SelectTier(sample, weighing[n].prior)]
        BY <3>2 DEF ResolveCellWeights
      <4>2. /\ weighing'[n].tier = SelectTier(sample, weighing[n].prior)
            /\ weighing'[n].prior = weighing[n].prior
        BY <4>1 DEF WeightsTypeOK, Weighing
      <4> QED
        BY <4>2 DEF SelectTier, WeightsTypeOK, Weighing, Tiers
    <3>3. CASE FallBack(n)
      BY <3>3 DEF FallBack, WeightsTypeOK, Weighing
    <3>4. CASE PersistRow(n) \/ EndWithoutRow(n)
      BY <3>4 DEF PersistRow, EndWithoutRow, WeightsTypeOK, Off
    <3> QED
      BY <1>2, <3>1, <3>2, <3>3, <3>4 DEF RunGoesOn
  <2> QED
    BY <1>2, <2>1, StepIsItsOwn DEF ChosenAbove
<1>3. CASE UNCHANGED weightsVars
  BY <1>3 DEF weightsVars, ChosenAbove
<1> QED
  BY <1>1, <1>2, <1>3 DEF WeightsNext, RunGoesOn

\* The invariant of overlapping runs: one row each, written with a tier that
\* covers what lies below it.
THEOREM WeightsInvariant ==
  WeightsSpec => []WeightsInv
<1>1. WeightsInit => WeightsInv
  <2>1. SUFFICES ASSUME WeightsInit PROVE WeightsInv
    OBVIOUS
  <2>2. WeightsTypeOK
    <3>1. Off \in Weighing
      BY DEF Off, Weighing, Tiers
    <3>2. started \in 0 .. MaxStarts
      BY <2>1, WeightsAssumption DEF WeightsInit
    <3>3. weighing \in [Starts -> Weighing]
      BY <2>1, <3>1 DEF WeightsInit
    <3> QED
      BY <2>1, <3>2, <3>3 DEF WeightsInit, WeightsTypeOK
  <2> QED
    BY <2>1, <2>2
       DEF WeightsInit, WeightsInv, OneRowEach, ChosenAbove, RatchetHolds, ReadCovers, Off
<1>2. WeightsInv /\ [WeightsNext]_weightsVars => WeightsInv'
  <2>1. SUFFICES ASSUME WeightsInv, [WeightsNext]_weightsVars
                 PROVE  WeightsInv'
    OBVIOUS
  <2>2. WeightsTypeOK' /\ OneRowEach' /\ ChosenAbove'
    BY <2>1, WeightsTypeStep, OneRowStep, ChosenAboveStep DEF WeightsInv
  <2>3. ASSUME ~ unseen'
        PROVE  RatchetHolds' /\ ReadCovers'
    <3>1. CASE StartRun
      <4>1. \A n \in Starts :
              /\ weighing'[n].prior = weighing[n].prior
              /\ weighing'[n].at \in {"fetch", "trade"} => weighing'[n].at = weighing[n].at
        BY <2>1, <3>1 DEF StartRun, WeightsInv, WeightsTypeOK, Weighing
      <4> QED
        BY <2>1, <2>3, <3>1, <4>1 DEF StartRun, WeightsInv, RatchetHolds, ReadCovers
    <3>2. ASSUME NEW n \in Starts, RunGoesOn(n)
          PROVE  RatchetHolds' /\ ReadCovers'
      BY <2>1, <2>3, <3>2, PersistKeepsRatchet, RunKeepsRatchet
    <3>3. CASE UNCHANGED weightsVars
      BY <2>1, <2>3, <3>3 DEF weightsVars, WeightsInv, RatchetHolds, ReadCovers
    <3> QED
      BY <2>1, <3>1, <3>2, <3>3 DEF WeightsNext, RunGoesOn
  <2>4. RatchetHolds'
    BY <2>3 DEF RatchetHolds
  <2> QED
    BY <2>2, <2>3, <2>4 DEF WeightsInv
<1> QED
  BY <1>1, <1>2, PTL DEF WeightsSpec

\* Over the runs that were not degraded the tier never falls, unless a run has
\* missed a tier on file (RatchetHolds).
THEOREM WeightsRatchetHolds ==
  WeightsSpec => []RatchetHolds
<1>1. WeightsInv => RatchetHolds
  BY DEF WeightsInv
<1> QED
  BY <1>1, WeightsInvariant, PTL

-------------------------------------------------------------------------------
(* The five steps together.                                                  *)

LEMMA StepsAreTheirOwn ==
  /\ MCInit => Init /\ IngestInit /\ HaltInit /\ WeightsInit /\ Ladder!Init
  /\ [MCNext]_allVars =>
       /\ [Next]_vars /\ [IngestNext]_ingestVars /\ [HaltNext]_haltVars
       /\ [WeightsNext]_weightsVars /\ [Ladder!Next]_ladderVars
<1>1. MCInit => Init /\ IngestInit /\ HaltInit /\ WeightsInit /\ Ladder!Init
  BY DEF MCInit
<1>2. ASSUME [MCNext]_allVars
      PROVE  /\ [Next]_vars /\ [IngestNext]_ingestVars /\ [HaltNext]_haltVars
             /\ [WeightsNext]_weightsVars /\ [Ladder!Next]_ladderVars
  <2>1. CASE AlerterStep(Next)
    BY <2>1 DEF AlerterStep
  <2>2. CASE IngestStep(IngestNext)
    BY <2>2 DEF IngestStep
  <2>3. CASE HaltStep(HaltNext)
    BY <2>3 DEF HaltStep
  <2>4. CASE WeightsStep(WeightsNext)
    BY <2>4 DEF WeightsStep
  <2>5. CASE LadderStep(Ladder!Next)
    BY <2>5 DEF LadderStep
  <2>6. CASE UNCHANGED allVars
    BY <2>6 DEF allVars
  <2> QED
    BY <1>2, <2>1, <2>2, <2>3, <2>4, <2>5, <2>6 DEF MCNext
<1> QED
  BY <1>1, <1>2

\* A run of the composition is a run of every component, so what is proved of a
\* component holds of the composition that the model checker explores.
THEOREM StepsImplementTheirSpecs ==
  MCSpec => Spec /\ IngestSpec /\ HaltSpec /\ WeightsSpec /\ Ladder!Spec
<1>1. [Ladder!Next]_ladderVars => [Ladder!Next]_Ladder!vars
  BY DEF Ladder!vars, ladderVars
<1> QED
  BY <1>1, StepsAreTheirOwn, PTL
  DEF MCSpec, Spec, IngestSpec, HaltSpec, WeightsSpec, Ladder!Spec

\* The level of the abstract ladder stays a level, its count a count, and its
\* age within the pause (drawdown_state.ts).
THEOREM LadderTypesHold == Ladder!Spec => []Ladder!TypeOK
<1>1. Ladder!Init => Ladder!TypeOK
  BY PauseAssumption DEF Ladder!Init, Ladder!TypeOK, Ladder!Levels
<1>2. ASSUME Ladder!TypeOK, [Ladder!Next]_Ladder!vars
      PROVE  Ladder!TypeOK'
  <2> USE PauseAssumption DEF Ladder!TypeOK, Ladder!Levels
  <2>1. ASSUME NEW k \in Ladder!Levels, NEW loss, Ladder!Enter(k, loss)
        PROVE  Ladder!TypeOK'
    BY <2>1 DEF Ladder!Enter
  <2>2. ASSUME NEW loss, Ladder!Evaluate(loss)
        PROVE  Ladder!TypeOK'
    <3>1. CASE Ladder!Worsen(loss)
      BY <2>1, <3>1 DEF Ladder!Worsen
    <3>2. CASE Ladder!Recover(loss)
      <4>1. level - 1 \in Ladder!Levels
        BY <3>2 DEF Ladder!Recover, Ladder!MayRecover, Ladder!Calm, Ladder!Climbable
      <4> QED
        BY <2>1, <3>2, <4>1 DEF Ladder!Recover
    <3>3. CASE Ladder!Stay(loss)
      BY <1>2, <3>3 DEF Ladder!Stay
    <3> QED
      BY <2>2, <3>1, <3>2, <3>3 DEF Ladder!Evaluate
  <2>3. CASE Ladder!DayPasses
    BY <1>2, <2>3 DEF Ladder!DayPasses
  <2>4. CASE UNCHANGED Ladder!vars
    BY <1>2, <2>4 DEF Ladder!vars
  <2> QED
    BY <1>2, <2>2, <2>3, <2>4 DEF Ladder!Next
<1> QED
  BY <1>1, <1>2, PTL DEF Ladder!Spec

\* The types of the ingest, the switch, the weights and the ladder hold of the
\* composition, for any of their constants.
THEOREM StepTypesCorrect == MCSpec => []StepTypesOK
<1>1. WeightsInv => WeightsTypeOK
  BY DEF WeightsInv
<1> QED
  BY <1>1, StepsImplementTheirSpecs, IngestTypeCorrect, HaltTypeCorrect,
     WeightsInvariant, LadderTypesHold, PTL DEF StepTypesOK

================================================================================
