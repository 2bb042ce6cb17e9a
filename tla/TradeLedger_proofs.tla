-------------------------- MODULE TradeLedger_proofs --------------------------
(***************************************************************************)
(* The ledger of one cell, for every set of tokens, every number of bars   *)
(* and of faults: a run that is not halted never closes the row of a held  *)
(* position, and no run stores a state before its row is written; where    *)
(* runs are not aborted, open rows are watched; and where they are not     *)
(* halted either, live_trades implements the life cycle of positions.      *)
(***************************************************************************)
EXTENDS TradeLedger, TLAPS, WellFoundedInduction

Answers == Entries \cup {0}

-------------------------------------------------------------------------------
\* Of the open rows of a token one is the last.
LEMMA LastOpenRow ==
  ASSUME NEW t, OpenEntries(t) # {}
  PROVE  /\ OpenSnapshot(t) \in OpenEntries(t)
         /\ \A f \in OpenEntries(t) : f <= OpenSnapshot(t)
<1>1. MaxBar \in Nat
  BY LedgerAssumption
<1> DEFINE Behind == {MaxBar - e : e \in OpenEntries(t)}
<1>2. \A e \in OpenEntries(t) : e \in Nat /\ e <= MaxBar
  BY <1>1 DEF OpenEntries, Entries
<1>3. Behind \subseteq Nat /\ Behind # {}
  BY <1>1, <1>2
<1> HIDE DEF Behind
<1>4. PICK x \in Behind : \A y \in Behind : ~ (<<y, x>> \in OpToRel(<, Nat))
  BY <1>3, NatLessThanWellFounded, WFMin
<1>5. ASSUME NEW y \in Behind
      PROVE  x <= y
  <2>1. <<y, x>> \in Nat \X Nat /\ <<y, x>>[1] = y /\ <<y, x>>[2] = x
    BY <1>3
  <2>2. ~ (y < x)
    <3>1. ASSUME y < x PROVE <<y, x>>[1] < <<y, x>>[2]
      BY <2>1, <3>1
    <3> QED
      BY <1>4, <2>1, <3>1, Zenon DEF OpToRel
  <2> QED
    BY <1>3, <2>2
<1>6. PICK e \in OpenEntries(t) : x = MaxBar - e
  BY DEF Behind
<1>7. ASSUME NEW f \in OpenEntries(t)
      PROVE  f <= e
  <2>1. x <= MaxBar - f
    BY <1>5 DEF Behind
  <2> QED
    BY <2>1, <1>1, <1>2, <1>6
<1> QED
  BY <1>7 DEF OpenSnapshot

\* The snapshot of a token is an entry or none.
LEMMA SnapshotTyped ==
  ASSUME NEW t
  PROVE  OpenSnapshot(t) \in Answers
<1>1. CASE OpenEntries(t) = {}
  BY <1>1 DEF OpenSnapshot, Answers
<1>2. CASE OpenEntries(t) # {}
  <2>1. OpenSnapshot(t) \in OpenEntries(t)
    BY <1>2, LastOpenRow
  <2> QED
    BY <2>1 DEF OpenEntries, Answers
<1> QED
  BY <1>1, <1>2

\* What evaluateCell and diffCellStates return is a run.
LEMMA EvaluationTyped ==
  ASSUME TypeOK, NEW evaluated \in SUBSET Tokens,
         NEW halted \in BOOLEAN, NEW allowed \in BOOLEAN
  PROVE  Evaluation(evaluated, halted, allowed) \in Run
<1> DEFINE current == [t \in Tokens |->
                         IF t \in evaluated /\ ~ halted THEN signal[t] ELSE 0]
           snapshots == [t \in Tokens |-> OpenSnapshot(t)]
<1>1. current \in [Tokens -> Answers]
  BY DEF TypeOK, Answers
<1>2. snapshots \in [Tokens -> Answers]
  BY SnapshotTyped
<1>3. (allowed /\ ~ halted) \in BOOLEAN
  OBVIOUS
<1> HIDE DEF current, snapshots
<1>4. [pc |-> "opens", evaluated |-> evaluated, current |-> current,
       newEntries |-> {t \in evaluated : prior[t] = "flat" /\ current[t] # 0},
       newExits |-> {t \in evaluated : prior[t] = "long" /\ current[t] = 0},
       snapshots |-> snapshots,
       allowed |-> allowed /\ ~ halted, halted |-> halted] \in Run
  BY <1>1, <1>2, <1>3 DEF Run, Answers
<1> QED
  BY <1>4 DEF Evaluation, current, snapshots

\* No run is a run.
LEMMA NoRunTyped ==
  NoRun \in Run
  BY DEF NoRun, Run

\* What Evaluate chooses: the tokens, whether the run is halted, and its gate.
LEMMA EvaluateChooses ==
  ASSUME TypeOK, Evaluate
  PROVE  /\ run.pc = "idle"
         /\ UNCHANGED <<bar, signal, prior, trades>>
         /\ faults' \in 0 .. MaxFaults
         /\ \E evaluated \in SUBSET Tokens, halted, allowed \in BOOLEAN :
              /\ run' = Evaluation(evaluated, halted, allowed)
              /\ halted => "halt" \in Faults
<1>1. MaxFaults \in Nat /\ faults \in 0 .. MaxFaults
  BY LedgerAssumption DEF TypeOK
<1>2. faults' \in 0 .. MaxFaults
  <2>1. \/ faults' = faults
        \/ faults < MaxFaults /\ faults' = faults + 1
    BY Zenon DEF Evaluate, May
  <2> QED
    BY <1>1, <2>1
<1>3. \E evaluated \in SUBSET Tokens, halted, allowed \in BOOLEAN :
        /\ run' = Evaluation(evaluated, halted, allowed)
        /\ halted => "halt" \in Faults
  <2>1. CASE run' = Evaluation(Tokens, FALSE, TRUE)
    BY <2>1, Zenon
  <2>2. CASE run' = Evaluation(Tokens, FALSE, FALSE)
    BY <2>2, Zenon
  <2>3. CASE May("halt") /\ run' = Evaluation(Tokens, TRUE, FALSE)
    BY <2>3, Zenon DEF May
  <2>4. CASE \E t \in Tokens : run' = Evaluation(Tokens \ {t}, FALSE, TRUE)
    BY <2>4, Zenon
  <2> QED
    BY <2>1, <2>2, <2>3, <2>4, Zenon DEF Evaluate
<1> QED
  BY <1>2, <1>3, Zenon DEF Evaluate

-------------------------------------------------------------------------------
\* Every step of the ledger keeps its types.
LEMMA LedgerTypeStep ==
  ASSUME TypeOK, [Next]_vars
  PROVE  TypeOK'
<1>1. CASE NewBar
  <2>1. PICK s \in [Tokens -> Answers] :
          /\ \A t \in Tokens :
               s[t] \in IF signal[t] = 0 THEN {0, bar + 1} ELSE {0, signal[t]}
          /\ signal' = s
    BY <1>1, Zenon DEF NewBar, Answers
  <2>2. bar' \in 0 .. MaxBar
    BY <1>1, LedgerAssumption DEF NewBar, TypeOK
  <2> QED
    BY <1>1, <2>1, <2>2 DEF NewBar, TypeOK, Answers
<1>2. CASE Evaluate
  <2>1. PICK evaluated \in SUBSET Tokens, halted \in BOOLEAN, allowed \in BOOLEAN :
          run' = Evaluation(evaluated, halted, allowed)
    BY <1>2, EvaluateChooses, Zenon
  <2>2. run' \in Run
    BY <2>1, EvaluationTyped
  <2> QED
    BY <1>2, <2>2, EvaluateChooses, Zenon DEF TypeOK
<1>3. CASE OpenTrade
  <2>1. PICK t \in run.newEntries :
          /\ trades' = [trades EXCEPT ![t][run.current[t]] = "open"]
          /\ run' = [run EXCEPT !.newEntries = @ \ {t}]
    BY <1>3 DEF OpenTrade
  <2>2. run' \in Run
    BY <2>1 DEF TypeOK, Run
  <2>3. trades' \in [Tokens -> [Entries -> Statuses]]
    BY <2>1 DEF TypeOK, Run, Statuses
  <2> QED
    BY <1>3, <2>2, <2>3 DEF OpenTrade, TypeOK
<1>4. CASE SkipOpen
  <2>1. \E t \in run.newEntries : run' = [run EXCEPT !.newEntries = @ \ {t}]
    BY <1>4 DEF SkipOpen
  <2>2. run' \in Run
    BY <2>1 DEF TypeOK, Run
  <2>3. faults' \in 0 .. MaxFaults
    BY <1>4, LedgerAssumption DEF SkipOpen, May, TypeOK
  <2> QED
    BY <1>4, <2>2, <2>3 DEF SkipOpen, TypeOK
<1>5. CASE OpensDone \/ ClosesDone
  BY <1>5 DEF OpensDone, ClosesDone, TypeOK, Run
<1>6. CASE CloseTrade
  <2>1. PICK t \in run.newExits :
          /\ trades' = IF run.snapshots[t] = 0 THEN trades
                       ELSE [trades EXCEPT ![t][run.snapshots[t]] = "closed"]
          /\ run' = [run EXCEPT !.newExits = @ \ {t}]
    BY <1>6 DEF CloseTrade
  <2>2. run' \in Run
    BY <2>1 DEF TypeOK, Run
  <2>3. trades' \in [Tokens -> [Entries -> Statuses]]
    BY <2>1 DEF TypeOK, Run, Statuses
  <2> QED
    BY <1>6, <2>2, <2>3 DEF CloseTrade, TypeOK
<1>7. CASE PersistCurrentState
  BY <1>7, NoRunTyped DEF PersistCurrentState, TypeOK, StateOf
<1>8. CASE Abort
  BY <1>8, LedgerAssumption, NoRunTyped DEF Abort, May, TypeOK
<1>9. CASE UNCHANGED vars
  BY <1>9 DEF vars, TypeOK
<1> QED
  BY <1>1, <1>2, <1>3, <1>4, <1>5, <1>6, <1>7, <1>8, <1>9 DEF Next, RunStep

\* live_trades, live_signals and the run keep their types (TypeOK).
THEOREM LedgerTypeCorrect ==
  Spec => []TypeOK
<1>1. Init => TypeOK
  BY LedgerAssumption, NoRunTyped DEF Init, TypeOK, Statuses
<1> QED
  BY <1>1, LedgerTypeStep, PTL DEF Spec

-------------------------------------------------------------------------------
\* Outside a halt, the exits still to be written are of positions left.
ExitsAreReal ==
  run.pc # "idle" /\ ~ run.halted => \A t \in run.newExits : signal[t] = 0

LEMMA ExitsStayReal ==
  ASSUME TypeOK, ExitsAreReal, [Next]_vars
  PROVE  ExitsAreReal'
<1>1. CASE NewBar \/ PersistCurrentState \/ Abort
  BY <1>1 DEF NewBar, PersistCurrentState, Abort, NoRun, ExitsAreReal
<1>2. CASE Evaluate
  <2>1. PICK evaluated \in SUBSET Tokens, halted \in BOOLEAN, allowed \in BOOLEAN :
          run' = Evaluation(evaluated, halted, allowed)
    BY <1>2, EvaluateChooses, Zenon
  <2>2. signal' = signal
    BY <1>2, EvaluateChooses
  <2> QED
    BY <2>1, <2>2 DEF Evaluation, ExitsAreReal
<1>3. CASE OpenTrade \/ SkipOpen \/ OpensDone \/ CloseTrade \/ ClosesDone
  BY <1>3 DEF OpenTrade, SkipOpen, OpensDone, CloseTrade, ClosesDone,
              TypeOK, Run, ExitsAreReal
<1>4. CASE UNCHANGED vars
  BY <1>4 DEF vars, ExitsAreReal
<1> QED
  BY <1>1, <1>2, <1>3, <1>4 DEF Next, RunStep

\* A run that is not halted closes no row of a position that is held: aborts,
\* missing tokens and older open rows notwithstanding (HeldPositionStaysOpen).
THEOREM LedgerKeepsHeldPositions ==
  Spec => HeldPositionStaysOpen
<1>1. Init => ExitsAreReal
  BY DEF Init, NoRun, ExitsAreReal
<1>2. ASSUME TypeOK, ExitsAreReal, [Next]_vars, ~ run.halted,
             NEW t \in Tokens, signal[t] # 0, trades'[t][signal[t]] = "closed"
      PROVE  trades[t][signal[t]] = "closed"
  <2>1. signal[t] \in Entries
    BY <1>2 DEF TypeOK
  <2>2. CASE OpenTrade
    BY <1>2, <2>1, <2>2 DEF OpenTrade, TypeOK, Run
  <2>3. CASE CloseTrade
    <3>1. PICK u \in run.newExits :
            trades' = IF run.snapshots[u] = 0 THEN trades
                      ELSE [trades EXCEPT ![u][run.snapshots[u]] = "closed"]
      BY <2>3 DEF CloseTrade
    <3>2. u \in Tokens /\ u # t
      BY <1>2, <2>3 DEF CloseTrade, ExitsAreReal, TypeOK, Run
    <3> QED
      BY <1>2, <3>1, <3>2 DEF TypeOK
  <2>4. CASE UNCHANGED trades
    BY <1>2, <2>4
  <2> QED
    BY <1>2, <2>2, <2>3, <2>4
       DEF Next, RunStep, NewBar, Evaluate, SkipOpen, OpensDone, ClosesDone,
           PersistCurrentState, Abort, vars
<1>3. TypeOK /\ ExitsAreReal /\ [Next]_vars =>
        [~ run.halted =>
           \A t \in Tokens : signal[t] # 0 /\ trades'[t][signal[t]] = "closed"
                               => trades[t][signal[t]] = "closed"]_vars
  BY <1>2
<1> QED
  BY <1>1, <1>3, ExitsStayReal, LedgerTypeCorrect, PTL
     DEF Spec, HeldPositionStaysOpen

-------------------------------------------------------------------------------
(* The stored states never run ahead of the ledger.                          *)

\* A token stored as long becomes flat only if each open row of it, left by an
\* aborted run, has a later closed one; and a flat one long only if its newest
\* open row is that of its position, or its entry was skipped.
StoredIsRecorded ==
  [][\A t \in Tokens :
       /\ prior[t] = "long" /\ prior'[t] = "flat" =>
            \A e \in OpenEntries(t) : \E f \in Entries : e < f /\ trades[t][f] = "closed"
       /\ prior[t] = "flat" /\ prior'[t] = "long" =>
            \/ OpenEntries(t) # {} /\ OpenSnapshot(t) = signal[t]
            \/ ~ run.allowed \/ "unsized" \in Faults]_vars

\* No row is newer than the bar, nor than the position held.
RowsAreOfThePast ==
  \A t \in Tokens :
    /\ signal[t] <= bar
    /\ \A e \in Entries : e > bar => trades[t][e] = "absent"
    /\ signal[t] # 0 => \A e \in Entries : e > signal[t] => trades[t][e] = "absent"

\* What a run has to write for a token it evaluated, or has written.
ExitIsDue(t) ==
  prior[t] = "long" /\ run.current[t] = 0 =>
    /\ \/ t \in run.newExits
       \/ run.snapshots[t] # 0 => trades[t][run.snapshots[t]] = "closed"
    /\ \A e \in Entries : trades[t][e] = "open" => e <= run.snapshots[t]

EntryIsDue(t) ==
  prior[t] = "flat" /\ run.current[t] # 0 =>
    \/ t \in run.newEntries \/ ~ run.allowed \/ "unsized" \in Faults
    \/ trades[t][run.current[t]] = "open"

RunWritesFirst ==
  run.pc # "idle" =>
    /\ \A t \in run.evaluated :
         /\ run.current[t] = IF run.halted THEN 0 ELSE signal[t]
         /\ ExitIsDue(t) /\ EntryIsDue(t)
    /\ \A t \in run.newEntries :
         t \in run.evaluated /\ prior[t] = "flat" /\ run.current[t] # 0
    /\ \A t \in run.newExits :
         /\ t \in run.evaluated /\ prior[t] = "long" /\ run.current[t] = 0
         /\ run.snapshots[t] # 0 => trades[t][run.snapshots[t]] = "open"
    /\ run.pc # "opens" => run.newEntries = {}
    /\ run.pc = "persist" => run.newExits = {}

WriteInv == TypeOK /\ RowsAreOfThePast /\ RunWritesFirst

LEMMA WriteInit ==
  ASSUME Init
  PROVE  WriteInv
<1>1. TypeOK
  BY LedgerAssumption, NoRunTyped DEF Init, TypeOK, Statuses
<1> QED
  BY <1>1, LedgerAssumption DEF Init, NoRun, WriteInv, RowsAreOfThePast, RunWritesFirst

LEMMA WriteEvaluate ==
  ASSUME WriteInv, Evaluate
  PROVE  RunWritesFirst'
<1>1. PICK evaluated \in SUBSET Tokens, halted \in BOOLEAN, allowed \in BOOLEAN :
        run' = Evaluation(evaluated, halted, allowed)
  BY EvaluateChooses, Zenon DEF WriteInv
<1>2. UNCHANGED <<bar, signal, prior, trades>>
  BY EvaluateChooses, Zenon DEF WriteInv
<1>3. /\ run'.pc = "opens" /\ run'.halted = halted /\ run'.evaluated = evaluated
      /\ \A t \in Tokens : run'.snapshots[t] = OpenSnapshot(t)
      /\ \A t \in evaluated : run'.current[t] = IF halted THEN 0 ELSE signal[t]
      /\ \A t : t \in run'.newEntries <=>
           t \in evaluated /\ prior[t] = "flat" /\ run'.current[t] # 0
      /\ \A t : t \in run'.newExits <=>
           t \in evaluated /\ prior[t] = "long" /\ run'.current[t] = 0
  BY <1>1 DEF Evaluation
<1>4. ASSUME NEW t \in evaluated
      PROVE  \A e \in Entries : trades[t][e] = "open" => e <= run'.snapshots[t]
  <2>1. \A e \in OpenEntries(t) : e <= OpenSnapshot(t)
    BY LastOpenRow
  <2> QED
    BY <1>3, <2>1 DEF OpenEntries
<1>5. \A t \in Tokens : OpenSnapshot(t) # 0 => trades[t][OpenSnapshot(t)] = "open"
  <2> SUFFICES ASSUME NEW t \in Tokens, OpenSnapshot(t) # 0
               PROVE  trades[t][OpenSnapshot(t)] = "open"
    OBVIOUS
  <2>1. OpenEntries(t) # {}
    BY DEF OpenSnapshot
  <2> QED
    BY <2>1, LastOpenRow DEF OpenEntries
<1> QED
  BY <1>2, <1>3, <1>4, <1>5 DEF RunWritesFirst, ExitIsDue, EntryIsDue

LEMMA WriteOpenTrade ==
  ASSUME WriteInv, OpenTrade
  PROVE  RowsAreOfThePast' /\ RunWritesFirst'
<1>1. PICK t \in run.newEntries :
        /\ trades' = [trades EXCEPT ![t][run.current[t]] = "open"]
        /\ run' = [run EXCEPT !.newEntries = @ \ {t}]
  BY DEF OpenTrade
<1>2. /\ t \in Tokens /\ t \in run.evaluated /\ run.current[t] = signal[t]
      /\ signal[t] \in Entries /\ signal[t] # 0 /\ run.pc = "opens" /\ prior[t] = "flat"
  BY <1>1 DEF OpenTrade, WriteInv, TypeOK, Run, RunWritesFirst
<1>3. /\ \A u \in Tokens : u # t => trades'[u] = trades[u]
      /\ \A e \in Entries : e # signal[t] => trades'[t][e] = trades[t][e]
      /\ trades'[t][signal[t]] = "open"
      /\ UNCHANGED <<bar, signal, prior>>
  BY <1>1, <1>2 DEF WriteInv, TypeOK, OpenTrade
<1>4. /\ run'.pc = run.pc /\ run'.halted = run.halted /\ run'.allowed = run.allowed
      /\ run'.evaluated = run.evaluated /\ run'.current = run.current
      /\ run'.newExits = run.newExits /\ run'.snapshots = run.snapshots
      /\ run'.newEntries = run.newEntries \ {t}
  BY <1>1, <1>2 DEF WriteInv, TypeOK, Run
<1>5. RowsAreOfThePast'
  <2>1. signal[t] <= bar /\ bar \in Nat /\ \A e \in Entries : e \in Nat
    BY <1>2, LedgerAssumption DEF WriteInv, RowsAreOfThePast, TypeOK, Entries
  <2> QED
    BY <1>2, <1>3, <2>1 DEF WriteInv, RowsAreOfThePast
<1>6. \A u \in run.evaluated : ExitIsDue(u)' /\ EntryIsDue(u)'
  BY <1>2, <1>3, <1>4 DEF WriteInv, RunWritesFirst, ExitIsDue, EntryIsDue, TypeOK, Run
<1>7. \A u \in run.newExits :
        /\ u \in run.evaluated /\ prior[u] = "long" /\ run.current[u] = 0
        /\ run.snapshots[u] # 0 => trades'[u][run.snapshots[u]] = "open"
  <2>1. \A u \in run.newExits : u \in Tokens /\ u # t
    BY <1>2 DEF WriteInv, RunWritesFirst, TypeOK, Run
  <2> QED
    BY <1>2, <1>3, <2>1 DEF WriteInv, RunWritesFirst
<1>8. RunWritesFirst'
  BY <1>2, <1>3, <1>4, <1>6, <1>7 DEF WriteInv, RunWritesFirst
<1> QED
  BY <1>5, <1>8

LEMMA WriteCloseTrade ==
  ASSUME WriteInv, CloseTrade
  PROVE  RowsAreOfThePast' /\ RunWritesFirst'
<1>1. PICK t \in run.newExits :
        /\ trades' = IF run.snapshots[t] = 0 THEN trades
                     ELSE [trades EXCEPT ![t][run.snapshots[t]] = "closed"]
        /\ run' = [run EXCEPT !.newExits = @ \ {t}]
  BY DEF CloseTrade
<1>2. /\ t \in Tokens /\ t \in run.evaluated /\ run.current[t] = 0
      /\ run.snapshots[t] \in Entries \cup {0} /\ run.pc = "closes" /\ prior[t] = "long"
      /\ run.newEntries = {}
  BY <1>1 DEF CloseTrade, WriteInv, TypeOK, Run, RunWritesFirst
<1>3. /\ \A u \in Tokens : u # t => trades'[u] = trades[u]
      /\ \A e \in Entries : trades'[t][e] = "open" => trades[t][e] = "open"
      /\ run.snapshots[t] # 0 => trades'[t][run.snapshots[t]] = "closed"
      /\ UNCHANGED <<bar, signal, prior>>
  BY <1>1, <1>2 DEF WriteInv, TypeOK, CloseTrade
<1>4. /\ run'.pc = run.pc /\ run'.halted = run.halted /\ run'.allowed = run.allowed
      /\ run'.evaluated = run.evaluated /\ run'.current = run.current
      /\ run'.newEntries = run.newEntries /\ run'.snapshots = run.snapshots
      /\ run'.newExits = run.newExits \ {t}
  BY <1>1, <1>2 DEF WriteInv, TypeOK, Run
<1>5. RowsAreOfThePast'
  <2>1. \A e \in Entries : trades[t][e] = "absent" => trades'[t][e] = "absent" \/ e = run.snapshots[t]
    BY <1>1, <1>2 DEF WriteInv, TypeOK
  <2>2. run.snapshots[t] # 0 => trades[t][run.snapshots[t]] = "open"
    BY <1>1, <1>2 DEF WriteInv, RunWritesFirst
  <2>3. 0 \notin Entries
    BY DEF Entries
  <2> QED
    BY <1>2, <1>3, <2>1, <2>2, <2>3 DEF WriteInv, RowsAreOfThePast
<1>6. \A u \in run.evaluated : ExitIsDue(u)' /\ EntryIsDue(u)'
  BY <1>2, <1>3, <1>4 DEF WriteInv, RunWritesFirst, ExitIsDue, EntryIsDue, TypeOK, Run
<1>7. \A u \in run.newExits \ {t} :
        /\ u \in run.evaluated /\ prior[u] = "long" /\ run.current[u] = 0
        /\ run.snapshots[u] # 0 => trades'[u][run.snapshots[u]] = "open"
  BY <1>2, <1>3 DEF WriteInv, RunWritesFirst, TypeOK, Run
<1>8. RunWritesFirst'
  BY <1>2, <1>3, <1>4, <1>6, <1>7 DEF WriteInv, RunWritesFirst
<1> QED
  BY <1>5, <1>8

LEMMA WriteNewBar ==
  ASSUME WriteInv, NewBar
  PROVE  RowsAreOfThePast' /\ RunWritesFirst'
<1>1. /\ bar' = bar + 1 /\ trades' = trades /\ run' = run /\ run.pc = "idle"
      /\ \A t \in Tokens : signal'[t] \in {0, bar + 1, signal[t]}
  BY DEF NewBar
<1>2. bar \in Nat /\ \A e \in Entries : e \in Nat
  BY LedgerAssumption DEF WriteInv, TypeOK, Entries
<1>3. \A t \in Tokens : signal[t] \in Nat
  BY <1>2 DEF WriteInv, TypeOK
<1>4. RowsAreOfThePast'
  <2> SUFFICES ASSUME NEW t \in Tokens
               PROVE  /\ signal'[t] <= bar'
                      /\ \A e \in Entries : e > bar' => trades'[t][e] = "absent"
                      /\ signal'[t] # 0 =>
                           \A e \in Entries : e > signal'[t] => trades'[t][e] = "absent"
    BY DEF RowsAreOfThePast
  <2>1. /\ signal[t] <= bar
        /\ \A e \in Entries : e > bar => trades[t][e] = "absent"
        /\ signal[t] # 0 => \A e \in Entries : e > signal[t] => trades[t][e] = "absent"
    BY DEF WriteInv, RowsAreOfThePast
  <2> QED
    BY <1>1, <1>2, <1>3, <2>1
<1> QED
  BY <1>1, <1>4 DEF RunWritesFirst

\* A run that moves on, ends or is aborted leaves the rows alone.
LEMMA WriteOtherSteps ==
  ASSUME WriteInv,
         \/ SkipOpen \/ OpensDone \/ ClosesDone \/ PersistCurrentState
         \/ Abort \/ UNCHANGED vars
  PROVE  RowsAreOfThePast' /\ RunWritesFirst'
<1>1. UNCHANGED <<bar, signal, trades>>
  BY DEF SkipOpen, OpensDone, ClosesDone, PersistCurrentState, Abort, vars
<1>2. RowsAreOfThePast'
  BY <1>1 DEF WriteInv, RowsAreOfThePast
<1>3. CASE PersistCurrentState \/ Abort
  <2>1. run'.pc = "idle"
    BY <1>3 DEF PersistCurrentState, Abort, NoRun
  <2> QED
    BY <1>2, <2>1, Zenon DEF RunWritesFirst
<1>4. CASE SkipOpen
  <2>1. PICK t \in run.newEntries : run' = [run EXCEPT !.newEntries = @ \ {t}]
    BY <1>4 DEF SkipOpen
  <2>2. /\ prior' = prior /\ run.pc = "opens"
        /\ ~ run.allowed \/ "unsized" \in Faults
    BY <1>4 DEF SkipOpen, May
  <2>3. /\ run'.pc = run.pc /\ run'.halted = run.halted /\ run'.allowed = run.allowed
        /\ run'.evaluated = run.evaluated /\ run'.current = run.current
        /\ run'.newExits = run.newExits /\ run'.snapshots = run.snapshots
        /\ run'.newEntries = run.newEntries \ {t}
    BY <2>1 DEF WriteInv, TypeOK, Run
  <2>4. \A u \in run.evaluated : ExitIsDue(u)' /\ EntryIsDue(u)'
    BY <1>1, <2>2, <2>3 DEF WriteInv, RunWritesFirst, ExitIsDue, EntryIsDue
  <2> QED
    BY <1>1, <1>2, <2>2, <2>3, <2>4 DEF WriteInv, RunWritesFirst
<1>5. CASE OpensDone \/ ClosesDone
  <2>1. /\ prior' = prior
        /\ run'.halted = run.halted /\ run'.allowed = run.allowed
        /\ run'.evaluated = run.evaluated /\ run'.current = run.current
        /\ run'.newExits = run.newExits /\ run'.snapshots = run.snapshots
        /\ run'.newEntries = run.newEntries
    BY <1>5 DEF OpensDone, ClosesDone, WriteInv, TypeOK, Run
  <2>2. /\ run.pc # "idle" /\ run.newEntries = {}
        /\ run'.pc = "persist" => run.newExits = {}
    BY <1>5 DEF OpensDone, ClosesDone, WriteInv, RunWritesFirst, TypeOK, Run
  <2>3. \A u \in run.evaluated : ExitIsDue(u)' /\ EntryIsDue(u)'
    BY <1>1, <2>1, <2>2 DEF WriteInv, RunWritesFirst, ExitIsDue, EntryIsDue
  <2> QED
    BY <1>1, <1>2, <2>1, <2>2, <2>3 DEF WriteInv, RunWritesFirst
<1>6. CASE UNCHANGED vars
  BY <1>2, <1>6 DEF vars, WriteInv, RunWritesFirst, ExitIsDue, EntryIsDue
<1> QED
  BY <1>2, <1>3, <1>4, <1>5, <1>6

LEMMA WriteStep ==
  ASSUME WriteInv, [Next]_vars
  PROVE  WriteInv'
<1>1. TypeOK'
  BY LedgerTypeStep DEF WriteInv
<1>2. CASE Evaluate
  <2>1. UNCHANGED <<bar, signal, prior, trades>>
    BY <1>2, EvaluateChooses, Zenon DEF WriteInv
  <2>2. RowsAreOfThePast'
    BY <2>1 DEF WriteInv, RowsAreOfThePast
  <2> QED
    BY <1>1, <1>2, <2>2, WriteEvaluate DEF WriteInv
<1>3. CASE NewBar \/ OpenTrade \/ CloseTrade
  BY <1>1, <1>3, WriteNewBar, WriteOpenTrade, WriteCloseTrade DEF WriteInv
<1>4. CASE \/ SkipOpen \/ OpensDone \/ ClosesDone \/ PersistCurrentState
           \/ Abort \/ UNCHANGED vars
  BY <1>1, <1>4, WriteOtherSteps DEF WriteInv
<1> QED
  BY <1>2, <1>3, <1>4 DEF Next, RunStep

\* A run that stores its states has written the rows they stand for.
LEMMA StoringFollowsWriting ==
  ASSUME WriteInv, PersistCurrentState, NEW t \in Tokens
  PROVE  /\ prior[t] = "long" /\ prior'[t] = "flat" =>
              \A e \in OpenEntries(t) :
                \E f \in Entries : e < f /\ trades[t][f] = "closed"
         /\ prior[t] = "flat" /\ prior'[t] = "long" =>
              \/ OpenEntries(t) # {} /\ OpenSnapshot(t) = signal[t]
              \/ ~ run.allowed \/ "unsized" \in Faults
<1>1. /\ run.pc = "persist" /\ run.newEntries = {} /\ run.newExits = {}
      /\ prior'[t] = IF t \in run.evaluated THEN StateOf(run.current[t]) ELSE prior[t]
  BY DEF PersistCurrentState, WriteInv, RunWritesFirst
<1>2. /\ \A e \in Entries : e \in Nat /\ e # 0
      /\ signal[t] \in Entries \cup {0} /\ run.snapshots[t] \in Entries \cup {0}
  BY LedgerAssumption DEF WriteInv, TypeOK, Run, Entries
<1>3. ASSUME prior[t] = "long", prior'[t] = "flat", NEW e \in OpenEntries(t)
      PROVE  \E f \in Entries : e < f /\ trades[t][f] = "closed"
  <2>1. t \in run.evaluated /\ run.current[t] = 0
    BY <1>1, <1>3 DEF StateOf
  <2>2. /\ run.snapshots[t] # 0 => trades[t][run.snapshots[t]] = "closed"
        /\ e \in Entries /\ trades[t][e] = "open" /\ e <= run.snapshots[t]
    BY <1>1, <1>3, <2>1 DEF WriteInv, RunWritesFirst, ExitIsDue, OpenEntries
  <2> QED
    BY <1>2, <2>2
<1>4. ASSUME prior[t] = "flat", prior'[t] = "long"
      PROVE  \/ OpenEntries(t) # {} /\ OpenSnapshot(t) = signal[t]
             \/ ~ run.allowed \/ "unsized" \in Faults
  <2>1. t \in run.evaluated /\ run.current[t] # 0
    BY <1>1, <1>4 DEF StateOf
  <2>2. run.current[t] = signal[t] /\ signal[t] # 0
    BY <1>1, <2>1 DEF WriteInv, RunWritesFirst
  <2>3. SUFFICES ASSUME trades[t][signal[t]] = "open"
                 PROVE  OpenEntries(t) # {} /\ OpenSnapshot(t) = signal[t]
    BY <1>1, <1>4, <2>1, <2>2 DEF WriteInv, RunWritesFirst, EntryIsDue
  <2>4. signal[t] \in OpenEntries(t)
    BY <1>2, <2>2, <2>3 DEF OpenEntries
  <2>5. \A e \in OpenEntries(t) : e \in Entries /\ ~ (e > signal[t])
    BY <2>2 DEF WriteInv, RowsAreOfThePast, OpenEntries
  <2>6. OpenSnapshot(t) \in OpenEntries(t) /\ signal[t] <= OpenSnapshot(t)
    BY <2>4, LastOpenRow
  <2> QED
    BY <1>2, <2>4, <2>5, <2>6
<1> QED
  BY <1>3, <1>4

\* Whatever is dropped, blocked, halted, unsized or aborted: live_signals moves
\* a token from long to flat only after its last open row has been closed, and
\* from flat to long only after the row of its position has been opened, or its
\* entry skipped (processCellLiveTrades runs before persistCurrentState).
THEOREM LedgerRecordsBeforeStoring ==
  Spec => StoredIsRecorded
<1> DEFINE Recorded(t) ==
      /\ prior[t] = "long" /\ prior'[t] = "flat" =>
           \A e \in OpenEntries(t) : \E f \in Entries : e < f /\ trades[t][f] = "closed"
      /\ prior[t] = "flat" /\ prior'[t] = "long" =>
           \/ OpenEntries(t) # {} /\ OpenSnapshot(t) = signal[t]
           \/ ~ run.allowed \/ "unsized" \in Faults
<1>1. ASSUME WriteInv, [Next]_vars, NEW t \in Tokens
      PROVE  Recorded(t)
  <2>1. CASE PersistCurrentState
    BY <1>1, <2>1, StoringFollowsWriting
  <2>2. CASE prior' = prior
    BY <2>2
  <2>3. PersistCurrentState \/ prior' = prior
    BY <1>1 DEF Next, RunStep, NewBar, Evaluate, OpenTrade, SkipOpen, OpensDone,
                CloseTrade, ClosesDone, Abort, vars
  <2> QED
    BY <2>1, <2>2, <2>3
<1>2. WriteInv /\ [Next]_vars => [\A t \in Tokens : Recorded(t)]_vars
  BY <1>1
<1> HIDE DEF Recorded
<1>3. Init => WriteInv
  BY WriteInit
<1>4. WriteInv /\ [Next]_vars => WriteInv'
  BY WriteStep
<1>5. Spec => [][\A t \in Tokens : Recorded(t)]_vars
  BY <1>2, <1>3, <1>4, PTL DEF Spec
<1> QED
  BY <1>5 DEF StoredIsRecorded, Recorded

-------------------------------------------------------------------------------
(* A cell whose runs are not aborted.                                        *)

NoOpenRow(t) == \A e \in Entries : trades[t][e] # "open"

\* Rows are of bars that have come, and only a halt closes that of a held position.
RowsFollowSignals ==
  /\ \A t \in Tokens : signal[t] <= bar
  /\ \A t \in Tokens : \A e \in Entries : e > bar => trades[t][e] = "absent"
  /\ "halt" \notin Faults =>
       \A t \in Tokens : signal[t] # 0 => trades[t][signal[t]] # "closed"

OneOpenRow ==
  \A t \in Tokens : \A e, f \in Entries :
    trades[t][e] = "open" /\ trades[t][f] = "open" => e = f

\* What a run has found and what it still has to write agree with the rows.
RunKnowsRows ==
  run.pc # "idle" =>
    /\ run.halted => "halt" \in Faults
    /\ \A t \in run.evaluated : run.current[t] = IF run.halted THEN 0 ELSE signal[t]
    /\ \A t \in run.newEntries :
         t \in run.evaluated /\ run.current[t] # 0 /\ NoOpenRow(t)
    /\ \A t \in run.newExits :
         /\ t \in run.evaluated /\ run.current[t] = 0
         /\ run.snapshots[t] # 0 => trades[t][run.snapshots[t]] = "open"
         /\ \A e \in Entries : trades[t][e] = "open" => e = run.snapshots[t]
    /\ \A t \in Tokens :
         \/ NoOpenRow(t)
         \/ t \in run.evaluated /\ (run.current[t] # 0 \/ t \in run.newExits)
         \/ t \notin run.evaluated /\ prior[t] = "long"
    /\ run.pc = "persist" => run.newExits = {}

WatchedWhenIdle ==
  run.pc = "idle" => \A t \in Tokens : NoOpenRow(t) \/ prior[t] = "long"

CalmInv == TypeOK /\ RowsFollowSignals /\ OneOpenRow /\ RunKnowsRows /\ WatchedWhenIdle

LEMMA CalmInit ==
  ASSUME Init
  PROVE  CalmInv
<1>1. TypeOK
  BY LedgerAssumption, NoRunTyped DEF Init, TypeOK, Statuses
<1> QED
  BY <1>1, LedgerAssumption
     DEF Init, NoRun, CalmInv, RowsFollowSignals, OneOpenRow, RunKnowsRows,
         WatchedWhenIdle, NoOpenRow, Entries

\* The snapshot an evaluation takes of a token with one open row is that row.
LEMMA SnapshotOfOneRow ==
  ASSUME OneOpenRow, NEW t \in Tokens
  PROVE  /\ OpenSnapshot(t) # 0 => trades[t][OpenSnapshot(t)] = "open"
         /\ \A e \in Entries : trades[t][e] = "open" => e = OpenSnapshot(t)
<1>1. CASE OpenEntries(t) = {}
  BY <1>1 DEF OpenSnapshot, OpenEntries
<1>2. CASE OpenEntries(t) # {}
  <2>1. OpenSnapshot(t) \in OpenEntries(t)
    BY <1>2, LastOpenRow
  <2> QED
    BY <2>1 DEF OpenEntries, OneOpenRow
<1> QED
  BY <1>1, <1>2

LEMMA CalmNewBar ==
  ASSUME CalmInv, NewBar
  PROVE  RowsFollowSignals' /\ OneOpenRow' /\ RunKnowsRows' /\ WatchedWhenIdle'
<1>1. PICK s \in [Tokens -> Answers] :
        /\ \A t \in Tokens :
             s[t] \in IF signal[t] = 0 THEN {0, bar + 1} ELSE {0, signal[t]}
        /\ signal' = s
  BY Zenon DEF NewBar, Answers
<1>2. bar \in Nat /\ bar' = bar + 1 /\ bar + 1 \in Entries
  BY LedgerAssumption DEF CalmInv, TypeOK, NewBar, Entries
<1>3. UNCHANGED <<prior, trades, run>> /\ run.pc = "idle"
  BY DEF NewBar
<1>4. \A t \in Tokens : signal'[t] <= bar'
  BY <1>1, <1>2 DEF CalmInv, RowsFollowSignals, TypeOK, Entries
<1>5. \A t \in Tokens : \A e \in Entries : e > bar' => trades'[t][e] = "absent"
  BY <1>2, <1>3 DEF CalmInv, RowsFollowSignals, Entries
<1>6. "halt" \notin Faults =>
        \A t \in Tokens : signal'[t] # 0 => trades'[t][signal'[t]] # "closed"
  <2>1. \A t \in Tokens : trades[t][bar + 1] = "absent"
    BY <1>2 DEF CalmInv, RowsFollowSignals
  <2> QED
    BY <1>1, <1>3, <2>1 DEF CalmInv, RowsFollowSignals
<1>7. OneOpenRow' /\ RunKnowsRows' /\ WatchedWhenIdle'
  BY <1>3 DEF CalmInv, OneOpenRow, RunKnowsRows, WatchedWhenIdle, NoOpenRow
<1> QED
  BY <1>4, <1>5, <1>6, <1>7 DEF RowsFollowSignals

LEMMA CalmEvaluate ==
  ASSUME CalmInv, Evaluate
  PROVE  RowsFollowSignals' /\ OneOpenRow' /\ RunKnowsRows' /\ WatchedWhenIdle'
<1>1. PICK evaluated \in SUBSET Tokens, halted \in BOOLEAN, allowed \in BOOLEAN :
        /\ run' = Evaluation(evaluated, halted, allowed)
        /\ halted => "halt" \in Faults
  BY EvaluateChooses, Zenon DEF CalmInv
<1>2. UNCHANGED <<bar, signal, prior, trades>> /\ run.pc = "idle"
  BY EvaluateChooses, Zenon DEF CalmInv
<1>3. RowsFollowSignals' /\ OneOpenRow'
  BY <1>2 DEF CalmInv, RowsFollowSignals, OneOpenRow
<1>4. /\ run'.pc = "opens" /\ run'.halted = halted /\ run'.evaluated = evaluated
      /\ \A t \in Tokens : run'.snapshots[t] = OpenSnapshot(t)
      /\ \A t \in evaluated : run'.current[t] = IF halted THEN 0 ELSE signal[t]
      /\ \A t \in run'.newEntries :
           t \in evaluated /\ prior[t] = "flat" /\ run'.current[t] # 0
      /\ \A t \in Tokens : t \in run'.newExits <=>
           t \in evaluated /\ prior[t] = "long" /\ run'.current[t] = 0
      /\ run'.newExits \subseteq evaluated
  BY <1>1 DEF Evaluation
<1>5. RunKnowsRows'
  BY <1>1, <1>2, <1>4, SnapshotOfOneRow
     DEF CalmInv, WatchedWhenIdle, RunKnowsRows, NoOpenRow
<1> QED
  BY <1>3, <1>4, <1>5 DEF WatchedWhenIdle

LEMMA CalmOpenTrade ==
  ASSUME CalmInv, OpenTrade
  PROVE  RowsFollowSignals' /\ OneOpenRow' /\ RunKnowsRows' /\ WatchedWhenIdle'
<1>1. PICK t \in run.newEntries :
        /\ trades' = [trades EXCEPT ![t][run.current[t]] = "open"]
        /\ run' = [run EXCEPT !.newEntries = @ \ {t}]
  BY DEF OpenTrade
<1>2. /\ t \in Tokens /\ t \in run.evaluated /\ run.current[t] = signal[t]
      /\ signal[t] \in Entries /\ signal[t] <= bar /\ NoOpenRow(t)
      /\ run.pc = "opens"
  BY <1>1 DEF OpenTrade, CalmInv, TypeOK, Run, RunKnowsRows, RowsFollowSignals
<1>3. /\ \A u \in Tokens : u # t => trades'[u] = trades[u]
      /\ \A e \in Entries : e # signal[t] => trades'[t][e] = trades[t][e]
      /\ trades'[t][signal[t]] = "open"
  BY <1>1, <1>2 DEF CalmInv, TypeOK
<1>4. UNCHANGED <<bar, signal, prior>>
  BY DEF OpenTrade
<1>5. RowsFollowSignals'
  <2>1. ASSUME NEW u \in Tokens, NEW e \in Entries, e > bar
        PROVE  trades'[u][e] = "absent"
    <3>1. trades[u][e] = "absent"
      BY <2>1 DEF CalmInv, RowsFollowSignals
    <3>2. e # signal[t]
      BY <1>2, <2>1, LedgerAssumption DEF CalmInv, TypeOK, Entries
    <3> QED
      BY <1>3, <3>1, <3>2
  <2>2. ASSUME "halt" \notin Faults, NEW u \in Tokens, signal[u] # 0
        PROVE  trades'[u][signal[u]] # "closed"
    BY <1>2, <1>3, <2>2 DEF CalmInv, RowsFollowSignals
  <2> QED
    BY <1>4, <2>1, <2>2 DEF CalmInv, RowsFollowSignals
<1>6. OneOpenRow'
  BY <1>2, <1>3 DEF CalmInv, OneOpenRow, NoOpenRow
<1>7. /\ run'.pc = "opens" /\ run'.halted = run.halted
      /\ run'.evaluated = run.evaluated /\ run'.current = run.current
      /\ run'.newExits = run.newExits /\ run'.snapshots = run.snapshots
      /\ run'.newEntries = run.newEntries \ {t}
  BY <1>1, <1>2 DEF CalmInv, TypeOK, Run
<1>8. RunKnowsRows'
  <2>1. /\ run'.halted => "halt" \in Faults
        /\ \A u \in run'.evaluated :
             run'.current[u] = IF run'.halted THEN 0 ELSE signal'[u]
    BY <1>2, <1>3, <1>4, <1>7 DEF CalmInv, RunKnowsRows
  <2>2. \A u \in run'.newEntries :
          u \in run'.evaluated /\ run'.current[u] # 0 /\ NoOpenRow(u)'
    BY <1>2, <1>3, <1>4, <1>7 DEF CalmInv, RunKnowsRows, NoOpenRow, TypeOK, Run
  <2>3. \A u \in run'.newExits :
          /\ u \in run'.evaluated /\ run'.current[u] = 0
          /\ run'.snapshots[u] # 0 => trades'[u][run'.snapshots[u]] = "open"
          /\ \A e \in Entries : trades'[u][e] = "open" => e = run'.snapshots[u]
    BY <1>2, <1>3, <1>4, <1>7 DEF CalmInv, RunKnowsRows, TypeOK, Run
  <2>4. \A u \in Tokens :
          \/ NoOpenRow(u)'
          \/ u \in run'.evaluated /\ (run'.current[u] # 0 \/ u \in run'.newExits)
          \/ u \notin run'.evaluated /\ prior'[u] = "long"
    BY <1>2, <1>3, <1>4, <1>7 DEF CalmInv, RunKnowsRows, NoOpenRow, TypeOK, Run
  <2> QED
    BY <1>7, <2>1, <2>2, <2>3, <2>4 DEF RunKnowsRows
<1> QED
  BY <1>5, <1>6, <1>7, <1>8 DEF WatchedWhenIdle

LEMMA CalmCloseTrade ==
  ASSUME CalmInv, CloseTrade
  PROVE  RowsFollowSignals' /\ OneOpenRow' /\ RunKnowsRows' /\ WatchedWhenIdle'
<1>1. PICK t \in run.newExits :
        /\ trades' = IF run.snapshots[t] = 0 THEN trades
                     ELSE [trades EXCEPT ![t][run.snapshots[t]] = "closed"]
        /\ run' = [run EXCEPT !.newExits = @ \ {t}]
  BY DEF CloseTrade
<1>2. /\ t \in Tokens /\ t \in run.evaluated
      /\ "halt" \notin Faults => signal[t] = 0
      /\ run.current[t] = 0 /\ run.snapshots[t] \in Entries \cup {0}
      /\ run.pc = "closes"
  BY <1>1 DEF CloseTrade, CalmInv, TypeOK, Run, RunKnowsRows
<1>3. /\ \A u \in Tokens : u # t => trades'[u] = trades[u]
      /\ \A e \in Entries : trades'[t][e] # "open"
      /\ \A e \in Entries : trades[t][e] # "open" => trades'[t][e] = trades[t][e]
  <2>1. /\ run.snapshots[t] # 0 => trades[t][run.snapshots[t]] = "open"
        /\ \A e \in Entries : trades[t][e] = "open" => e = run.snapshots[t]
    BY <1>1, <1>2 DEF CalmInv, RunKnowsRows
  <2>2. CASE run.snapshots[t] = 0
    BY <1>1, <2>1, <2>2 DEF Entries
  <2>3. CASE run.snapshots[t] # 0
    BY <1>1, <1>2, <2>1, <2>3 DEF CalmInv, TypeOK
  <2> QED
    BY <2>2, <2>3
<1>4. UNCHANGED <<bar, signal, prior>>
  BY DEF CloseTrade
<1>5. RowsFollowSignals' /\ OneOpenRow'
  BY <1>2, <1>3, <1>4 DEF CalmInv, RowsFollowSignals, OneOpenRow
<1>7. /\ run'.pc = "closes" /\ run'.halted = run.halted
      /\ run'.evaluated = run.evaluated /\ run'.current = run.current
      /\ run'.newEntries = run.newEntries /\ run'.snapshots = run.snapshots
      /\ run'.newExits = run.newExits \ {t}
  BY <1>1, <1>2 DEF CalmInv, TypeOK, Run
<1>8. RunKnowsRows'
  BY <1>2, <1>3, <1>4, <1>7 DEF CalmInv, RunKnowsRows, NoOpenRow, TypeOK, Run
<1> QED
  BY <1>5, <1>7, <1>8 DEF WatchedWhenIdle

LEMMA CalmOtherSteps ==
  ASSUME CalmInv,
         SkipOpen \/ OpensDone \/ ClosesDone \/ PersistCurrentState \/ UNCHANGED vars
  PROVE  RowsFollowSignals' /\ OneOpenRow' /\ RunKnowsRows' /\ WatchedWhenIdle'
<1>1. RowsFollowSignals' /\ OneOpenRow'
  BY DEF CalmInv, SkipOpen, OpensDone, ClosesDone, PersistCurrentState, vars,
         RowsFollowSignals, OneOpenRow
<1>2. CASE SkipOpen
  BY <1>1, <1>2 DEF CalmInv, SkipOpen, RunKnowsRows, WatchedWhenIdle, NoOpenRow,
                    TypeOK, Run
<1>3. CASE OpensDone \/ ClosesDone
  <2>1. /\ run.pc # "idle" /\ run'.pc \in {"closes", "persist"}
        /\ run'.pc = "persist" => run.newExits = {}
        /\ run'.halted = run.halted /\ run'.evaluated = run.evaluated
        /\ run'.current = run.current /\ run'.newEntries = run.newEntries
        /\ run'.snapshots = run.snapshots /\ run'.newExits = run.newExits
    BY <1>3 DEF OpensDone, ClosesDone, CalmInv, TypeOK, Run
  <2>2. UNCHANGED <<signal, prior, trades>>
    BY <1>3 DEF OpensDone, ClosesDone
  <2> QED
    BY <1>1, <2>1, <2>2 DEF CalmInv, RunKnowsRows, WatchedWhenIdle, NoOpenRow
<1>4. CASE PersistCurrentState
  BY <1>1, <1>4 DEF CalmInv, PersistCurrentState, NoRun, StateOf, RunKnowsRows,
                    WatchedWhenIdle, NoOpenRow, TypeOK, Run
<1>5. CASE UNCHANGED vars
  BY <1>1, <1>5 DEF CalmInv, vars, RunKnowsRows, WatchedWhenIdle, NoOpenRow
<1> QED
  BY <1>1, <1>2, <1>3, <1>4, <1>5

LEMMA CalmStep ==
  ASSUME CalmInv, [Next]_vars, "abort" \notin Faults
  PROVE  CalmInv'
<1>1. TypeOK'
  BY LedgerTypeStep DEF CalmInv
<1>2. ~ Abort
  BY DEF Abort, May
<1> QED
  BY <1>1, <1>2, CalmNewBar, CalmEvaluate, CalmOpenTrade, CalmCloseTrade,
     CalmOtherSteps, Zenon DEF CalmInv, Next, RunStep

\* Without aborts, an open row between runs is of a token stored as long, for all
\* tokens, bars and other faults, halted runs among them (OpenRowsAreWatched).
THEOREM LedgerWatchesOpenRows ==
  ASSUME "abort" \notin Faults
  PROVE  Spec => []OpenRowsAreWatched
<1>1. CalmInv => OpenRowsAreWatched
  BY DEF CalmInv, WatchedWhenIdle, NoOpenRow, OpenRowsAreWatched, OpenEntries
<1>2. CalmInv /\ [Next]_vars => CalmInv'
  BY CalmStep
<1> QED
  BY CalmInit, <1>1, <1>2, PTL DEF Spec

\* Every step of such a cell is one of the life cycle of positions, or none of
\* its business: live_trades implements TradeLifecycle (LifecycleSpec).
THEOREM LedgerImplementsLifecycle ==
  ASSUME "halt" \notin Faults, "abort" \notin Faults
  PROVE  Spec => LifecycleSpec
<1>1. Init => Lifecycle!Init
  BY DEF Init, Lifecycle!Init
<1>2. CalmInv /\ [Next]_vars => CalmInv'
  BY CalmStep
<1>3. ASSUME CalmInv, [Next]_vars
      PROVE  [Lifecycle!Next]_trades
  <2>1. CASE OpenTrade
    <3>1. PICK t \in run.newEntries :
            trades' = [trades EXCEPT ![t][run.current[t]] = "open"]
      BY <2>1 DEF OpenTrade
    <3>2. /\ t \in Tokens /\ run.current[t] = signal[t] /\ signal[t] \in Entries
          /\ NoOpenRow(t) /\ trades[t][signal[t]] # "closed"
      BY <1>3, <2>1, <3>1 DEF OpenTrade, CalmInv, TypeOK, Run, RunKnowsRows,
                              RowsFollowSignals
    <3>3. trades[t][signal[t]] = "absent"
      BY <1>3, <3>2 DEF CalmInv, TypeOK, Statuses, NoOpenRow
    <3>4. Lifecycle!Open(t, signal[t])
      BY <3>1, <3>2, <3>3 DEF Lifecycle!Open, NoOpenRow
    <3> QED
      BY <3>2, <3>4 DEF Lifecycle!Next
  <2>2. CASE CloseTrade
    <3>1. PICK t \in run.newExits :
            trades' = IF run.snapshots[t] = 0 THEN trades
                      ELSE [trades EXCEPT ![t][run.snapshots[t]] = "closed"]
      BY <2>2 DEF CloseTrade
    <3>2. CASE run.snapshots[t] = 0
      BY <3>1, <3>2
    <3>3. CASE run.snapshots[t] # 0
      <4>1. /\ t \in Tokens /\ run.snapshots[t] \in Entries
            /\ trades[t][run.snapshots[t]] = "open"
        BY <1>3, <2>2, <3>1, <3>3 DEF CloseTrade, CalmInv, TypeOK, Run, RunKnowsRows
      <4>2. Lifecycle!Close(t, run.snapshots[t])
        BY <3>1, <3>3, <4>1 DEF Lifecycle!Close
      <4> QED
        BY <4>1, <4>2 DEF Lifecycle!Next
    <3> QED
      BY <3>2, <3>3
  <2>3. CASE UNCHANGED trades
    BY <2>3
  <2> QED
    BY <1>3, <2>1, <2>2, <2>3
       DEF Next, RunStep, NewBar, Evaluate, SkipOpen, OpensDone, ClosesDone,
           PersistCurrentState, Abort, vars
<1> QED
  BY CalmInit, <1>1, <1>2, <1>3, PTL DEF Spec, LifecycleSpec, Lifecycle!Spec
===============================================================================
