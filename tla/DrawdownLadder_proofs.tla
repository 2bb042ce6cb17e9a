------------------------ MODULE DrawdownLadder_proofs -------------------------
(***************************************************************************)
(* The safety properties of DrawdownLadder for every table that satisfies  *)
(* LadderAssumption, every history limit and any number of evaluations;    *)
(* and the refinement of LadderCounter, for histories that are long enough.*)
(***************************************************************************)
EXTENDS DrawdownLadder, FiniteSetTheorems, SequenceTheorems, TLAPS

-------------------------------------------------------------------------------
(* The tables.                                                               *)

\* naturalDownLevelFromTable returns the deepest level breached.
LEMMA NaturalLevelIsDeepest ==
  ASSUME NEW loss \in Losses
  PROVE  /\ NaturalLevel(loss) \in Levels
         /\ \A k \in 1 .. 5 : loss >= EntryLoss[k] => NaturalLevel(loss) >= k
         /\ NaturalLevel(loss) # 0 => loss >= EntryLoss[NaturalLevel(loss)]
         /\ \A m \in Levels : m > NaturalLevel(loss) => loss < EntryLoss[m]
<1> DEFINE Deepest(k) ==
      /\ k = 0 \/ loss >= EntryLoss[k]
      /\ \A m \in Levels : m > k => loss < EntryLoss[m]
<1>1. loss \in Nat /\ \A k \in 1 .. 5 : EntryLoss[k] \in Nat
  BY LadderAssumption
<1>2. \E k \in Levels : Deepest(k)
  <2>1. CASE loss >= EntryLoss[5]
    BY <2>1, Deepest(5) DEF Levels
  <2>2. CASE loss < EntryLoss[5] /\ loss >= EntryLoss[4]
    BY <2>2, Deepest(4) DEF Levels
  <2>3. CASE loss < EntryLoss[5] /\ loss < EntryLoss[4] /\ loss >= EntryLoss[3]
    BY <2>3, Deepest(3) DEF Levels
  <2>4. CASE /\ loss < EntryLoss[5] /\ loss < EntryLoss[4]
             /\ loss < EntryLoss[3] /\ loss >= EntryLoss[2]
    BY <2>4, Deepest(2) DEF Levels
  <2>5. CASE /\ loss < EntryLoss[5] /\ loss < EntryLoss[4]
             /\ loss < EntryLoss[3] /\ loss < EntryLoss[2]
             /\ loss >= EntryLoss[1]
    BY <2>5, Deepest(1) DEF Levels
  <2>6. CASE \A k \in 1 .. 5 : loss < EntryLoss[k]
    BY <2>6, Deepest(0) DEF Levels
  <2>7. QED
    BY <1>1, <2>1, <2>2, <2>3, <2>4, <2>5, <2>6
<1>3. NaturalLevel(loss) \in Levels /\ Deepest(NaturalLevel(loss))
  BY <1>2 DEF NaturalLevel
<1>4. QED
  BY <1>1, <1>3 DEF Levels

\* computeLevelWithTables: never above a breached level, never out of level 5,
\* and up by one at most, after enough recovery days.
LEMMA ComputeLevelSteps ==
  ASSUME NEW prev \in Levels, NEW loss \in Losses, NEW days \in Nat
  PROVE  /\ ComputeLevel(prev, loss, days) \in Levels
         /\ prev = 5 => ComputeLevel(prev, loss, days) = 5
         /\ \A k \in 1 .. 5 :
              loss >= EntryLoss[k] => ComputeLevel(prev, loss, days) >= k
         /\ \/ ComputeLevel(prev, loss, days) >= prev
            \/ /\ prev \in Climbable
               /\ ComputeLevel(prev, loss, days) = prev - 1
               /\ days >= ExitDays[prev]
<1>1. /\ NaturalLevel(loss) \in Levels
      /\ \A k \in 1 .. 5 : loss >= EntryLoss[k] => NaturalLevel(loss) >= k
  BY NaturalLevelIsDeepest
<1>2. CASE prev = 5
  BY <1>2 DEF ComputeLevel, Levels
<1>3. CASE prev # 5 /\ NaturalLevel(loss) >= prev
  BY <1>1, <1>3 DEF ComputeLevel, Levels
<1>4. CASE prev # 5 /\ NaturalLevel(loss) < prev
  <2>1. prev \in Climbable
    BY <1>1, <1>4 DEF Levels, Climbable
  <2>2. ComputeLevel(prev, loss, days) =
          IF loss < ExitLoss[prev] /\ days >= ExitDays[prev]
            THEN prev - 1 ELSE prev
    BY <1>1, <1>4 DEF ComputeLevel, Levels
  <2>3. QED
    BY <1>1, <1>4, <2>1, <2>2 DEF Levels, Climbable
<1>5. QED
  BY <1>1, <1>2, <1>3, <1>4 DEF Levels

-------------------------------------------------------------------------------
(* The history an evaluation loads.                                          *)

\* loadPriorHistory returns a non-empty tail of a non-empty table.
LEMMA PriorHistoryIsTail ==
  ASSUME rows \in Seq(Row), rows # <<>>
  PROVE  /\ PriorHistory \in Seq(Row)
         /\ Len(PriorHistory) \in 1 .. Len(rows)
         /\ \A x \in 1 .. Len(PriorHistory) :
              PriorHistory[x] = rows[x + (Len(rows) - Len(PriorHistory))]
<1> DEFINE n == Len(rows)
           first == IF n > HistoryLimit THEN n - HistoryLimit + 1 ELSE 1
<1>1. n \in Nat /\ n >= 1
  BY EmptySeq
<1>2. first \in 1 .. n
  BY <1>1, LadderAssumption
<1>3. \A i \in first .. n : rows[i] \in Row
  BY <1>1, <1>2, ElementOfSeq
<1>4. /\ SubSeq(rows, first, n) \in Seq(Row)
      /\ Len(SubSeq(rows, first, n)) = n - first + 1
      /\ \A i \in 1 .. n - first + 1 :
           SubSeq(rows, first, n)[i] = rows[first + i - 1]
  <2> HIDE DEF first, n
  <2>1. first \in Int /\ n \in Int /\ first <= n
    BY <1>1, <1>2
  <2>2. QED
    BY <1>3, <2>1, SubSeqProperties
<1>5. PriorHistory = SubSeq(rows, first, n)
  BY DEF PriorHistory
<1>6. QED
  <2> HIDE DEF first, n
  <2>1. Len(PriorHistory) = n - first + 1 /\ PriorHistory \in Seq(Row)
    BY <1>4, <1>5
  <2>2. ASSUME NEW x \in 1 .. Len(PriorHistory)
        PROVE  PriorHistory[x] = rows[x + (n - Len(PriorHistory))]
    <3>1. first + x - 1 = x + (n - Len(PriorHistory))
      BY <1>1, <1>2, <2>1
    <3>2. QED
      BY <1>4, <1>5, <2>1, <3>1
  <2>3. n = Len(rows)
    BY DEF n
  <2>4. QED
    BY <1>1, <1>2, <2>1, <2>2, <2>3

\* deriveConsecutiveRecoveryDays is a natural number.
LEMMA RecoveryDaysType ==
  ASSUME NEW h \in Seq(Row), NEW prev, NEW loss
  PROVE  RecoveryDays(h, prev, loss) \in Nat
<1>1. IsFiniteSet(1 .. Len(h))
  BY FS_Interval
<1>2. CalmRun(h, prev) \in SUBSET (1 .. Len(h))
  BY DEF CalmRun
<1>3. Cardinality(CalmRun(h, prev)) \in Nat
  BY <1>1, <1>2, FS_Subset, FS_CardinalityType
<1>4. QED
  BY <1>3 DEF RecoveryDays

\* Only rows after a row that is not calm for a level count as recovery from it.
LEMMA RecoveryStartsAfterBreach ==
  ASSUME rows \in Seq(Row), NEW i \in 1 .. Len(rows), NEW k \in Climbable,
         ~ (rows[i].loss < ExitLoss[k]), NEW loss
  PROVE  RecoveryDays(PriorHistory, k, loss) <= 1 + (Len(rows) - i)
<1> DEFINE h == PriorHistory
           off == Len(rows) - Len(h)
           low == IF i - off > 0 THEN i - off + 1 ELSE 1
<1>1. rows # <<>> /\ Len(rows) \in Nat
  BY EmptySeq
<1>2. /\ h \in Seq(Row) /\ Len(h) \in 1 .. Len(rows)
      /\ \A x \in 1 .. Len(h) : h[x] = rows[x + off]
  BY <1>1, PriorHistoryIsTail
<1>3. off \in Nat /\ low \in Int /\ Len(h) \in Nat
  BY <1>1, <1>2
<1>4. CalmRun(h, k) \in SUBSET (low .. Len(h))
  <2>1. SUFFICES ASSUME NEW x \in 1 .. Len(h),
                        \A j \in x .. Len(h) :
                          h[j].level = k /\ h[j].loss < ExitLoss[k]
                 PROVE  x \in low .. Len(h)
    BY DEF CalmRun
  <2>2. CASE i - off <= 0
    BY <1>1, <1>3, <2>2
  <2>3. CASE i - off > 0
    <3>1. i - off \in 1 .. Len(h)
      BY <1>1, <1>2, <1>3, <2>3
    <3>2. h[i - off] = rows[i]
      <4>1. h[i - off] = rows[(i - off) + off]
        BY <1>2, <3>1
      <4>2. (i - off) + off = i
        BY <1>3
      <4>3. QED
        BY <4>1, <4>2
    <3>3. ~ (i - off >= x)
      <4> HIDE DEF h, off, low
      <4>1. i - off \in x .. Len(h) => h[i - off].loss < ExitLoss[k]
        BY <2>1
      <4>2. QED
        BY <1>3, <2>1, <3>1, <3>2, <4>1
    <3>4. QED
      BY <1>1, <1>3, <2>1, <2>3, <3>3
  <2>4. QED
    BY <1>3, <2>2, <2>3
<1>5. Len(h) - low + 1 <= Len(rows) - i /\ 0 <= Len(rows) - i
  BY <1>1, <1>2, <1>3
<1>6. /\ Cardinality(CalmRun(h, k)) \in Nat
      /\ Cardinality(CalmRun(h, k)) <= Len(rows) - i
  <2> HIDE DEF h, off, low
  <2>1. /\ IsFiniteSet(low .. Len(h))
        /\ Cardinality(low .. Len(h)) = IF low > Len(h) THEN 0
                                                        ELSE Len(h) - low + 1
    <3>1. low \in Int /\ Len(h) \in Int
      BY <1>3
    <3>2. QED
      BY <3>1, FS_Interval
  <2>2. /\ Cardinality(CalmRun(h, k)) <= Cardinality(low .. Len(h))
        /\ Cardinality(CalmRun(h, k)) \in Nat
    BY <1>4, <2>1, FS_Subset, FS_CardinalityType
  <2>3. Cardinality(low .. Len(h)) <= Len(rows) - i
    BY <1>1, <1>3, <1>5, <2>1
  <2>4. Cardinality(low .. Len(h)) \in Nat /\ Len(rows) - i \in Int
    BY <1>1, <2>1, FS_CardinalityType
  <2>5. QED
    BY <2>2, <2>3, <2>4
<1>7. QED
  BY <1>1, <1>6 DEF RecoveryDays

\* evaluateDrawdownState: what a new row has to do with the newest one.
LEMMA EvaluationRow ==
  ASSUME TypeOK, NEW loss \in Losses, NEW row, NEW n,
         n = Len(rows),
         row = EvaluateDrawdownState(PriorHistory, loss, day)
  PROVE  /\ row \in Row
         /\ row.at = day /\ row.loss = loss
         /\ \A k \in 1 .. 5 : loss >= EntryLoss[k] => row.level >= k
         /\ rows = <<>> => row.enteredAt = day
         /\ rows # <<>> =>
              /\ rows[n].level = 5 => row.level = 5
              /\ \/ row.level >= rows[n].level
                 \/ /\ rows[n].level \in Climbable
                    /\ row.level = rows[n].level - 1
                    /\ RecoveryDays(PriorHistory, rows[n].level, loss)
                         >= ExitDays[rows[n].level]
              /\ row.enteredAt = IF rows[n].level = row.level
                                   THEN rows[n].enteredAt ELSE day
<1> DEFINE h == PriorHistory
           prev == IF h = <<>> THEN 0 ELSE h[Len(h)].level
           days == IF prev \in Climbable THEN RecoveryDays(h, prev, loss) ELSE 0
           level == ComputeLevel(prev, loss, days)
           entered == IF h # <<>> /\ h[Len(h)].level = level
                        THEN h[Len(h)].enteredAt ELSE day
<1>1. rows \in Seq(Row) /\ day \in Nat
  BY LadderAssumption DEF TypeOK
<1>2. ASSUME rows = <<>> PROVE h = <<>>
  <2>1. Len(rows) = 0
    BY <1>2
  <2>2. h = SubSeq(rows, 1, 0)
    BY <2>1, LadderAssumption DEF PriorHistory
  <2>3. QED
    BY <2>2, SubSeqEmpty
<1>3. ASSUME rows # <<>>
      PROVE  h \in Seq(Row) /\ h # <<>> /\ h[Len(h)] = rows[n] /\ rows[n] \in Row
  <2>1. /\ h \in Seq(Row) /\ Len(h) \in 1 .. Len(rows)
        /\ \A x \in 1 .. Len(h) : h[x] = rows[x + (Len(rows) - Len(h))]
    BY <1>1, <1>3, PriorHistoryIsTail
  <2>2. Len(rows) \in Nat
    BY <1>1
  <2>3. h[Len(h)] = rows[Len(h) + (Len(rows) - Len(h))]
    BY <2>1, <2>2
  <2>4. Len(h) + (Len(rows) - Len(h)) = n /\ n \in 1 .. Len(rows)
    BY <2>1, <2>2
  <2>5. QED
    BY <1>1, <2>1, <2>3, <2>4
<1>4. h \in Seq(Row)
  <2> HIDE DEF h
  <2>1. <<>> \in Seq(Row)
    OBVIOUS
  <2>2. QED
    BY <1>2, <1>3, <2>1
<1>5. prev \in Levels
  BY <1>2, <1>3 DEF Row, Levels
<1>6. days \in Nat
  <2> HIDE DEF h, prev
  <2>1. QED
    BY <1>4, RecoveryDaysType
<1>7. /\ level \in Levels
      /\ prev = 5 => level = 5
      /\ \A k \in 1 .. 5 : loss >= EntryLoss[k] => level >= k
      /\ \/ level >= prev
         \/ /\ prev \in Climbable
            /\ level = prev - 1
            /\ days >= ExitDays[prev]
  <2> HIDE DEF prev, days
  <2>1. QED
    BY <1>5, <1>6, ComputeLevelSteps
<1>8. row = [at |-> day, loss |-> loss, level |-> level, enteredAt |-> entered]
  BY DEF EvaluateDrawdownState
<1>9. entered \in Nat
  <2> HIDE DEF level, h
  <2>1. CASE rows = <<>>
    BY <1>1, <1>2, <2>1
  <2>2. CASE rows # <<>>
    BY <1>1, <1>3, <2>2 DEF Row
  <2>3. QED
    BY <2>1, <2>2
<1>10. rows = <<>> => entered = day
  BY <1>2
<1>11. rows # <<>> =>
         /\ prev = rows[n].level
         /\ entered = IF rows[n].level = level THEN rows[n].enteredAt ELSE day
         /\ prev \in Climbable => days = RecoveryDays(h, rows[n].level, loss)
  <2> HIDE DEF level, h
  <2>1. QED
    BY <1>3
<1>12. QED
  <2> HIDE DEF level, prev, days, entered
  <2>1. row \in Row
    BY <1>1, <1>7, <1>8, <1>9 DEF Row
  <2>2. QED
    BY <1>7, <1>8, <1>10, <1>11, <2>1

-------------------------------------------------------------------------------
(* The inductive invariant.                                                  *)

\* No row is from the future.
RowsArePast == \A i \in 1 .. Len(rows) : rows[i].at <= day

\* A row is at least as deep as its own loss demands.
BreachIsActedOn ==
  \A i \in 1 .. Len(rows) : \A k \in 1 .. 5 :
    rows[i].loss >= EntryLoss[k] => rows[i].level >= k

\* Once at level 5, always at level 5.
KillIsTerminal ==
  \A j \in 1 .. Len(rows) : \A i \in 1 .. j :
    rows[i].level = 5 => rows[j].level = 5

\* Whatever was at another level came before the stay at this one.
StayIsUnbroken ==
  \A j \in 1 .. Len(rows) : \A i \in 1 .. j :
    rows[i].level # rows[j].level => rows[i].at <= rows[j].enteredAt

IInv ==
  /\ TypeOK
  /\ RowsArePast
  /\ BreachIsActedOn
  /\ KillIsTerminal
  /\ StayIsUnbroken
  /\ NoEarlyRecovery

LEMMA InitIInv == Init => IInv
<1>1. SUFFICES ASSUME Init PROVE IInv
  OBVIOUS
<1>0. rows = <<>> /\ day = 0
  BY <1>1 DEF Init
<1>2. rows = <<>> /\ Len(rows) = 0 /\ day = 0
  BY <1>0
<1>3. rows \in Seq(Row)
  BY <1>2
<1>4. TypeOK
  BY <1>2, <1>3, LadderAssumption DEF TypeOK
<1>5. QED
  BY <1>2, <1>4 DEF IInv, RowsArePast, BreachIsActedOn, KillIsTerminal,
                    StayIsUnbroken, NoEarlyRecovery

\* RunEvaluation appends one row, and each part of the invariant holds of it.
LEMMA EvaluationKeepsIInv == IInv /\ RunEvaluation => IInv'
<1> SUFFICES ASSUME IInv, RunEvaluation PROVE IInv'
  OBVIOUS
<1> DEFINE n == Len(rows)
<1>1. rows \in Seq(Row) /\ n \in Nat /\ day \in 0 .. MaxDay /\ day \in Nat
  BY LadderAssumption DEF IInv, TypeOK
<1>2. PICK loss \in Losses :
        rows' = Append(rows, EvaluateDrawdownState(PriorHistory, loss, day))
  BY DEF RunEvaluation
<1>3. PICK row : row = EvaluateDrawdownState(PriorHistory, loss, day)
  OBVIOUS
<1>4. /\ row \in Row
      /\ row.at = day /\ row.loss = loss
      /\ \A k \in 1 .. 5 : loss >= EntryLoss[k] => row.level >= k
      /\ rows = <<>> => row.enteredAt = day
      /\ rows # <<>> =>
           /\ rows[n].level = 5 => row.level = 5
           /\ \/ row.level >= rows[n].level
              \/ /\ rows[n].level \in Climbable
                 /\ row.level = rows[n].level - 1
                 /\ RecoveryDays(PriorHistory, rows[n].level, loss)
                      >= ExitDays[rows[n].level]
           /\ row.enteredAt = IF rows[n].level = row.level
                                THEN rows[n].enteredAt ELSE day
  <2>1. TypeOK /\ n = Len(rows)
    BY DEF IInv
  <2> HIDE DEF n
  <2>2. QED
    BY <1>3, <2>1, EvaluationRow
<1>5. /\ rows' \in Seq(Row)
      /\ Len(rows') = n + 1
      /\ \A i \in 1 .. n : rows'[i] = rows[i]
      /\ rows'[n + 1] = row
  BY <1>1, <1>2, <1>3, <1>4, AppendProperties
<1>6. day' = day
  BY DEF RunEvaluation
<1>7. rows # <<>> <=> n # 0
  BY <1>1, EmptySeq
<1>8. \A i \in 1 .. n : rows[i] \in Row
  BY <1>1, ElementOfSeq
<1> HIDE DEF n
<1>9. TypeOK'
  BY <1>1, <1>5, <1>6 DEF TypeOK
<1>10. RowsArePast'
  BY <1>1, <1>4, <1>5, <1>6 DEF IInv, RowsArePast, n
<1>11. BreachIsActedOn'
  BY <1>1, <1>4, <1>5 DEF IInv, BreachIsActedOn, n
<1>12. KillIsTerminal'
  <2>1. SUFFICES ASSUME NEW j \in 1 .. Len(rows'), NEW i \in 1 .. j,
                        rows'[i].level = 5
                 PROVE  rows'[j].level = 5
    BY DEF KillIsTerminal
  <2>2. CASE j <= n
    BY <1>1, <1>5, <2>1, <2>2 DEF IInv, KillIsTerminal, n
  <2>3. CASE j = n + 1 /\ i = j
    BY <2>1, <2>3
  <2>4. CASE j = n + 1 /\ i # j
    <3>1. i \in 1 .. n /\ n \in 1 .. n /\ i \in 1 .. n
      BY <1>1, <1>5, <2>1, <2>4
    <3>2. rows[n].level = 5
      BY <1>5, <2>1, <3>1 DEF IInv, KillIsTerminal, n
    <3>3. QED
      BY <1>4, <1>5, <1>7, <2>4, <3>1, <3>2
  <2>5. QED
    BY <1>1, <1>5, <2>1, <2>2, <2>3, <2>4
<1>13. StayIsUnbroken'
  <2>1. SUFFICES ASSUME NEW j \in 1 .. Len(rows'), NEW i \in 1 .. j,
                        rows'[i].level # rows'[j].level
                 PROVE  rows'[i].at <= rows'[j].enteredAt
    BY DEF StayIsUnbroken
  <2>2. CASE j <= n
    BY <1>1, <1>5, <2>1, <2>2 DEF IInv, StayIsUnbroken, n
  <2>3. CASE j = n + 1
    <3>1. i \in 1 .. n /\ n \in 1 .. n /\ rows'[i] = rows[i] /\ rows # <<>>
      BY <1>1, <1>5, <1>7, <2>1, <2>3
    <3>2. rows[i].at <= day
      BY <3>1 DEF IInv, RowsArePast, n
    <3>3. CASE rows[n].level = row.level
      <4>1. rows[i].level # rows[n].level
        BY <1>5, <2>1, <2>3, <3>1, <3>3
      <4>2. rows[i].at <= rows[n].enteredAt
        BY <3>1, <4>1 DEF IInv, StayIsUnbroken, n
      <4>3. QED
        BY <1>4, <1>5, <2>3, <3>1, <3>3, <4>2
    <3>4. CASE rows[n].level # row.level
      BY <1>4, <1>5, <2>3, <3>1, <3>2, <3>4
    <3>5. QED
      BY <3>3, <3>4
  <2>4. QED
    BY <1>1, <1>5, <2>1, <2>2, <2>3
<1>14. NoEarlyRecovery'
  <2>1. SUFFICES ASSUME NEW j \in 1 .. Len(rows'), NEW i \in 1 .. j,
                        NEW k \in Climbable,
                        rows'[i].loss >= EntryLoss[k], j - i < ExitDays[k]
                 PROVE  rows'[j].level >= k
    BY DEF NoEarlyRecovery
  <2>2. k \in 1 .. 5 /\ ExitDays[k] \in Nat /\ EntryLoss[k] \in Nat
    <3>1. k \in Climbable
      BY <2>1
    <3>2. k \in 1 .. 5
      BY <3>1 DEF Climbable
    <3>3. QED
      BY <3>1, <3>2, LadderAssumption
  <2>3. CASE j <= n
    BY <1>1, <1>5, <2>1, <2>3 DEF IInv, NoEarlyRecovery, n
  <2>4. CASE j = n + 1 /\ i = j
    BY <1>4, <1>5, <2>1, <2>2, <2>4
  <2>5. CASE j = n + 1 /\ i # j
    <3>1. i \in 1 .. n /\ n \in 1 .. n /\ rows'[i] = rows[i] /\ rows # <<>>
      BY <1>1, <1>5, <1>7, <2>1, <2>5
    <3>2. n - i < ExitDays[k]
      BY <1>1, <2>1, <2>2, <2>5, <3>1
    <3>3. rows[n].level >= k
      BY <2>1, <3>1, <3>2 DEF IInv, NoEarlyRecovery, n
    <3>4. rows[n].level \in Levels /\ row.level \in Levels
      BY <1>4, <1>8, <3>1 DEF Row
    <3>5. CASE row.level >= rows[n].level
      BY <1>5, <2>2, <2>5, <3>3, <3>4, <3>5 DEF Levels
    <3>6. CASE rows[n].level > k /\ row.level = rows[n].level - 1
      BY <1>5, <2>2, <2>5, <3>4, <3>6 DEF Levels
    <3>7. ~ (/\ rows[n].level = k
             /\ RecoveryDays(PriorHistory, k, loss) >= ExitDays[k])
      <4>1. ~ (rows[i].loss < ExitLoss[k])
        <5>1. rows[i].loss \in Nat
          BY <1>8, <3>1, LadderAssumption DEF Row
        <5>2. ExitLoss[k] \in Nat /\ ExitLoss[k] <= EntryLoss[k]
          BY LadderAssumption
        <5>3. QED
          BY <2>1, <2>2, <3>1, <5>1, <5>2
      <4>2. RecoveryDays(PriorHistory, k, loss) <= 1 + (n - i)
        BY <1>1, <3>1, <4>1, RecoveryStartsAfterBreach DEF n
      <4>3. RecoveryDays(PriorHistory, k, loss) \in Nat
        <5>1. PriorHistory \in Seq(Row)
          BY <1>1, <3>1, PriorHistoryIsTail
        <5>2. QED
          BY <5>1, RecoveryDaysType
      <4>4. 1 + (n - i) < ExitDays[k]
        BY <1>1, <2>1, <2>2, <2>5, <3>1
      <4>5. QED
        BY <1>1, <2>2, <3>1, <4>2, <4>3, <4>4
    <3>8. \/ row.level >= rows[n].level
          \/ /\ row.level = rows[n].level - 1
             /\ rows[n].level = k =>
                  RecoveryDays(PriorHistory, k, loss) >= ExitDays[k]
      BY <1>4, <3>1
    <3>9. rows[n].level > k \/ rows[n].level = k
      BY <2>2, <3>3, <3>4 DEF Levels
    <3>10. QED
      BY <3>5, <3>6, <3>7, <3>8, <3>9
  <2>6. QED
    BY <1>1, <1>5, <2>1, <2>3, <2>4, <2>5
<1>15. QED
  BY <1>9, <1>10, <1>11, <1>12, <1>13, <1>14 DEF IInv

LEMMA NextKeepsIInv == IInv /\ [Next]_vars => IInv'
<1> SUFFICES ASSUME IInv, [Next]_vars PROVE IInv'
  OBVIOUS
<1>1. CASE RunEvaluation
  BY <1>1, EvaluationKeepsIInv
<1>2. CASE NextDay
  <2>1. rows' = rows /\ day' = day + 1 /\ day < MaxDay
    BY <1>2 DEF NextDay
  <2>2. rows \in Seq(Row) /\ day \in 0 .. MaxDay /\ MaxDay \in Nat
    BY LadderAssumption DEF IInv, TypeOK
  <2>3. TypeOK'
    BY <2>1, <2>2 DEF TypeOK
  <2>4. RowsArePast'
    <3>1. \A i \in 1 .. Len(rows) : rows[i].at \in Nat
      <4>1. \A i \in 1 .. Len(rows) : rows[i] \in Row
        BY <2>2, ElementOfSeq
      <4>2. QED
        BY <4>1 DEF Row
    <3>2. QED
      BY <2>1, <2>2, <3>1 DEF IInv, RowsArePast
  <2>5. QED
    BY <2>1, <2>3, <2>4 DEF IInv, BreachIsActedOn, KillIsTerminal,
                            StayIsUnbroken, NoEarlyRecovery
<1>3. CASE UNCHANGED vars
  BY <1>3 DEF vars, IInv, TypeOK, RowsArePast, BreachIsActedOn,
              KillIsTerminal, StayIsUnbroken, NoEarlyRecovery
<1>4. QED
  BY <1>1, <1>2, <1>3 DEF Next

\* Every state of every behaviour satisfies the inductive invariant.
THEOREM LadderInvariant == Spec => []IInv
  BY InitIInv, NextKeepsIInv, PTL DEF Spec

-------------------------------------------------------------------------------
(* The properties of the specification.                                      *)

\* Every evaluation appends a well-formed row: the level computed from any
\* history and any loss is one of the six (computeLevelWithTables).
THEOREM LadderTypeCorrect == Spec => []TypeOK
<1>1. IInv => TypeOK
  BY DEF IInv
<1>2. QED
  BY <1>1, LadderInvariant, PTL

\* Hysteresis holds for all tables and history limits: recovery days are only
\* counted after the last breach (deriveConsecutiveRecoveryDays).
THEOREM LadderNoEarlyRecovery == Spec => []NoEarlyRecovery
<1>1. IInv => NoEarlyRecovery
  BY DEF IInv
<1>2. QED
  BY <1>1, LadderInvariant, PTL

\* The level-3 pause is whole for every length of the pause
\* (computeNewEntriesAllowed over levelEnteredAt).
THEOREM LadderPauseIsWhole == Spec => []PauseIsWholeAtLevel3
<1>1. ASSUME IInv PROVE PauseIsWholeAtLevel3
  <2>1. SUFFICES ASSUME NEW j \in 1 .. Len(rows), NEW i \in 1 .. j,
                        rows[j].level = 3, NewEntriesAllowed(rows[j]),
                        rows[j].at - rows[i].at < PauseDays,
                        rows[i].level # 3
                 PROVE  FALSE
    BY DEF PauseIsWholeAtLevel3
  <2>2. rows[i] \in Row /\ rows[j] \in Row
    <3>1. rows \in Seq(Row) /\ Len(rows) \in Nat
      BY <1>1 DEF IInv, TypeOK
    <3>2. i \in 1 .. Len(rows)
      BY <2>1, <3>1
    <3>3. QED
      BY <3>1, <3>2, ElementOfSeq
  <2>3. rows[i].at <= rows[j].enteredAt
    BY <1>1, <2>1 DEF IInv, StayIsUnbroken
  <2>4. rows[j].at - rows[j].enteredAt >= PauseDays
    BY <2>1 DEF NewEntriesAllowed
  <2>5. /\ rows[i].at \in Nat /\ rows[j].at \in Nat
        /\ rows[j].enteredAt \in Nat /\ PauseDays \in Nat
    BY <2>2, LadderAssumption DEF Row
  <2>6. QED
    BY <2>1, <2>3, <2>4, <2>5
<1>2. QED
  BY <1>1, LadderInvariant, PTL

\* A kill-level loss closes entries for ever (computeLevelWithTables).
THEOREM LadderKillIsFinal == Spec => []KillIsFinal
<1>1. ASSUME IInv PROVE KillIsFinal
  <2>1. SUFFICES ASSUME NEW j \in 1 .. Len(rows), NEW i \in 1 .. j,
                        rows[i].loss >= EntryLoss[5]
                 PROVE  ~ NewEntriesAllowed(rows[j])
    BY DEF KillIsFinal
  <2>2. i \in 1 .. Len(rows) /\ rows[i] \in Row
    <3>1. rows \in Seq(Row) /\ Len(rows) \in Nat
      BY <1>1 DEF IInv, TypeOK
    <3>2. QED
      BY <2>1, <3>1, ElementOfSeq
  <2>3. rows[i].level >= 5
    BY <1>1, <2>1, <2>2 DEF IInv, BreachIsActedOn
  <2>4. rows[i].level = 5
    BY <2>2, <2>3 DEF Row, Levels
  <2>5. rows[j].level = 5
    BY <1>1, <2>1, <2>4 DEF IInv, KillIsTerminal
  <2>6. QED
    BY <2>5 DEF NewEntriesAllowed
<1>2. QED
  BY <1>1, LadderInvariant, PTL

-------------------------------------------------------------------------------
(* The table of rows is a counting ladder.                                   *)

\* The calm run is a finite set.
LEMMA CalmRunIsFinite ==
  ASSUME NEW h \in Seq(Row), NEW k
  PROVE  IsFiniteSet(CalmRun(h, k)) /\ Cardinality(CalmRun(h, k)) \in Nat
<1>1. IsFiniteSet(1 .. Len(h)) /\ CalmRun(h, k) \in SUBSET (1 .. Len(h))
  BY FS_Interval DEF CalmRun
<1> QED
  BY <1>1, FS_Subset, FS_CardinalityType

\* A row lengthens the calm run by one, or ends it.
LEMMA CalmRunGrows ==
  ASSUME NEW h \in Seq(Row), NEW row \in Row, NEW k
  PROVE  Cardinality(CalmRun(Append(h, row), k)) =
           IF row.level = k /\ row.loss < ExitLoss[k]
             THEN Cardinality(CalmRun(h, k)) + 1 ELSE 0
<1> DEFINE n == Len(h)
           g == Append(h, row)
<1>1. /\ g \in Seq(Row) /\ Len(g) = n + 1 /\ n \in Nat
      /\ \A i \in 1 .. n : g[i] = h[i]
      /\ g[n + 1] = row
  BY AppendProperties
<1> HIDE DEF n, g
<1>2. ASSUME row.level = k, row.loss < ExitLoss[k]
      PROVE  CalmRun(g, k) = CalmRun(h, k) \cup {n + 1}
  <2>1. ASSUME NEW i \in 1 .. n
        PROVE  i \in CalmRun(g, k) <=> i \in CalmRun(h, k)
    BY <1>1, <1>2, <2>1 DEF CalmRun, n
  <2>2. n + 1 \in CalmRun(g, k)
    BY <1>1, <1>2 DEF CalmRun
  <2> QED
    BY <1>1, <2>1, <2>2 DEF CalmRun, n
<1>3. ASSUME ~ (row.level = k /\ row.loss < ExitLoss[k])
      PROVE  CalmRun(g, k) = {}
  BY <1>1, <1>3 DEF CalmRun
<1>4. n + 1 \notin CalmRun(h, k)
  BY <1>1 DEF CalmRun, n
<1>5. Cardinality(CalmRun(h, k) \cup {n + 1}) = Cardinality(CalmRun(h, k)) + 1
  BY <1>4, CalmRunIsFinite, FS_AddElement
<1> QED
  BY <1>2, <1>3, <1>5, FS_EmptySet DEF g

\* No calm run at a level that is not the newest row's.
LEMMA CalmRunOfOtherLevel ==
  ASSUME NEW h \in Seq(Row), NEW k, h # <<>> => h[Len(h)].level # k
  PROVE  Cardinality(CalmRun(h, k)) = 0
<1>1. Len(h) \in Nat /\ (h # <<>> <=> Len(h) # 0)
  BY EmptySeq
<1>2. CalmRun(h, k) = {}
  BY <1>1 DEF CalmRun
<1> QED
  BY <1>2, FS_EmptySet

\* The calm run of the loaded history is that of the table, or fills the history
\* (loadPriorHistory).
LEMMA LoadedCalmRun ==
  ASSUME rows \in Seq(Row), rows # <<>>, NEW k
  PROVE  \/ /\ Cardinality(CalmRun(PriorHistory, k)) = HistoryLimit
            /\ Cardinality(CalmRun(rows, k)) >= HistoryLimit
         \/ Cardinality(CalmRun(PriorHistory, k)) = Cardinality(CalmRun(rows, k))
<1> DEFINE h == PriorHistory
           off == Len(rows) - Len(h)
           S == CalmRun(h, k)
           T == {i \in CalmRun(rows, k) : i > off}
           f == [x \in S |-> x + off]
<1>1. /\ h \in Seq(Row) /\ Len(h) \in 1 .. Len(rows)
      /\ \A x \in 1 .. Len(h) : h[x] = rows[x + off]
      /\ Len(rows) \in Nat /\ Len(h) \in Nat /\ off \in Nat
  BY PriorHistoryIsTail
<1>2. off = 0 \/ Len(h) = HistoryLimit
  <2>1. CASE Len(rows) > HistoryLimit
    <3> DEFINE a == Len(rows) - HistoryLimit + 1
    <3>1. h = SubSeq(rows, a, Len(rows)) /\ a \in 1 .. Len(rows)
      BY <1>1, <2>1, LadderAssumption DEF PriorHistory
    <3>2. Len(h) = Len(rows) - a + 1
      <4> HIDE DEF a, h
      <4>1. \A i \in a .. Len(rows) : rows[i] \in Row
        BY <1>1, <3>1, ElementOfSeq
      <4> QED
        BY <1>1, <3>1, <4>1, SubSeqProperties
    <3> QED
      BY <1>1, <3>1, <3>2, LadderAssumption
  <2>2. CASE ~ (Len(rows) > HistoryLimit)
    <3>1. h = SubSeq(rows, 1, Len(rows))
      BY <2>2 DEF PriorHistory
    <3>2. Len(h) = Len(rows)
      <4> HIDE DEF h
      <4>1. \A i \in 1 .. Len(rows) : rows[i] \in Row
        BY ElementOfSeq
      <4> QED
        BY <1>1, <3>1, <4>1, SubSeqProperties
    <3> QED
      BY <1>1, <3>2
  <2> QED
    BY <2>1, <2>2
<1> HIDE DEF h, off
<1>3. \A x \in 1 .. Len(h) : x \in S <=> x + off \in T
  <2>1. SUFFICES ASSUME NEW x \in 1 .. Len(h)
                 PROVE  x \in S <=> x + off \in CalmRun(rows, k)
    BY <1>1
  <2>2. ASSUME x \in S
        PROVE  x + off \in CalmRun(rows, k)
    <3>1. SUFFICES ASSUME NEW j \in (x + off) .. Len(rows)
                   PROVE  rows[j].level = k /\ rows[j].loss < ExitLoss[k]
      BY <1>1 DEF CalmRun, off
    <3>2. j - off \in x .. Len(h) /\ (j - off) + off = j
      BY <1>1 DEF off
    <3>3. h[j - off].level = k /\ h[j - off].loss < ExitLoss[k]
      BY <2>2, <3>2 DEF CalmRun
    <3>4. h[j - off] = rows[j]
      BY <1>1, <3>2
    <3> QED
      BY <3>3, <3>4
  <2>3. ASSUME x + off \in CalmRun(rows, k)
        PROVE  x \in S
    <3>1. ASSUME NEW j \in x .. Len(h)
          PROVE  j \in 1 .. Len(h) /\ j + off \in (x + off) .. Len(rows)
      BY <1>1, <3>1 DEF off
    <3> QED
      BY <1>1, <2>3, <3>1 DEF CalmRun
  <2> QED
    BY <2>2, <2>3
<1>4. Cardinality(S) = Cardinality(T) /\ IsFiniteSet(T)
  <2>1. ASSUME NEW i \in T
        PROVE  i - off \in S /\ (i - off) + off = i
    <3>1. i \in 1 .. Len(rows) /\ i > off
      BY DEF CalmRun
    <3>2. i - off \in 1 .. Len(h) /\ (i - off) + off = i
      BY <1>1, <3>1 DEF off
    <3> QED
      BY <1>3, <3>2
  <2>2. f \in Bijection(S, T)
    <3>1. \A x \in S : x \in 1 .. Len(h)
      BY DEF CalmRun
    <3>2. \A x \in S : x + off \in T
      BY <1>3, <3>1
    <3>3. \A x, y \in S : x + off = y + off => x = y
      BY <1>1, <3>1
    <3> HIDE DEF S, T
    <3> QED
      BY <2>1, <3>2, <3>3 DEF Bijection, Injection, Surjection, IsInjective
  <2> QED
    BY <1>1, <2>2, CalmRunIsFinite, FS_Bijection DEF ExistsBijection
<1>5. CASE T = CalmRun(rows, k)
  BY <1>4, <1>5 DEF h
<1>6. CASE T # CalmRun(rows, k)
  <2>1. PICK i \in CalmRun(rows, k) : i <= off
    <3>1. \A i \in CalmRun(rows, k) : i \in 1 .. Len(rows)
      BY DEF CalmRun
    <3>2. PICK i \in CalmRun(rows, k) : ~ (i > off)
      BY <1>6
    <3> QED
      BY <1>1, <3>1, <3>2
  <2>2. off # 0 /\ Len(h) = HistoryLimit
    BY <1>1, <1>2, <2>1 DEF CalmRun
  <2>3. S = 1 .. Len(h)
    <3>1. ASSUME NEW x \in 1 .. Len(h)
          PROVE  x + off \in CalmRun(rows, k)
      BY <1>1, <2>1 DEF CalmRun, off
    <3>2. S \subseteq 1 .. Len(h)
      BY DEF CalmRun
    <3>3. ASSUME NEW x \in 1 .. Len(h)
          PROVE  x \in S
      <4>1. x + off > off
        BY <1>1
      <4> QED
        BY <1>3, <3>1, <4>1
    <3> HIDE DEF S
    <3> QED
      BY <3>2, <3>3
  <2>4. Cardinality(S) = Len(h)
    BY <1>1, <2>3, FS_Interval
  <2>5. Cardinality(T) <= Cardinality(CalmRun(rows, k))
    <3>1. T \in SUBSET CalmRun(rows, k)
      OBVIOUS
    <3> QED
      BY <3>1, CalmRunIsFinite, FS_Subset
  <2> QED
    BY <1>4, <2>2, <2>4, <2>5 DEF h
<1> QED
  BY <1>5, <1>6

\* No stay began in the future.
StayHasBegun == rows # <<>> => rows[Len(rows)].enteredAt <= day

LEMMA StayHasBegunStep ==
  ASSUME TypeOK, StayHasBegun, [Next]_vars
  PROVE  StayHasBegun'
<1>1. rows \in Seq(Row) /\ Len(rows) \in Nat /\ day \in Nat
  BY LadderAssumption DEF TypeOK
<1>2. ASSUME NEW i \in 1 .. Len(rows)
      PROVE  rows[i].enteredAt \in Nat
  <2>1. rows[i] \in Row
    BY <1>1, ElementOfSeq
  <2> QED
    BY <2>1 DEF Row
<1>3. CASE RunEvaluation
  <2>0. PICK loss \in Losses :
          rows' = Append(rows, EvaluateDrawdownState(PriorHistory, loss, day))
    BY <1>3 DEF RunEvaluation
  <2>1. PICK row : /\ row = EvaluateDrawdownState(PriorHistory, loss, day)
                   /\ rows' = Append(rows, row)
    BY <2>0
  <2>2. /\ row \in Row
        /\ row.enteredAt = day \/ (rows # <<>> /\ row.enteredAt = rows[Len(rows)].enteredAt)
    BY <2>1, EvaluationRow
  <2>3. Len(rows') = Len(rows) + 1 /\ rows'[Len(rows) + 1] = row
    BY <1>1, <2>1, <2>2, AppendProperties
  <2> QED
    BY <1>1, <1>3, <2>2, <2>3 DEF StayHasBegun, RunEvaluation
<1>4. CASE NextDay
  <2>1. rows # <<>> => Len(rows) \in 1 .. Len(rows)
    BY <1>1, EmptySeq
  <2> QED
    BY <1>1, <1>2, <1>4, <2>1 DEF StayHasBegun, NextDay
<1>5. CASE UNCHANGED vars
  BY <1>5 DEF StayHasBegun, vars
<1> QED
  BY <1>3, <1>4, <1>5 DEF Next

\* The values LadderCounter would remember.
LEMMA CounterValues ==
  ASSUME TypeOK, StayHasBegun
  PROVE  /\ LevelNow \in Levels /\ CalmNow \in Nat /\ AgeNow \in Nat
         /\ LevelNow \notin Climbable => CalmNow = 0 /\ AgeNow = 0
<1>1. rows \in Seq(Row) /\ Len(rows) \in Nat /\ day \in Nat /\ PauseDays \in Nat
  BY LadderAssumption DEF TypeOK
<1>2. rows # <<>> => rows[Len(rows)] \in Row
  BY <1>1, EmptySeq, ElementOfSeq
<1>3. LevelNow \in Levels
  BY <1>2 DEF LevelNow, Levels, Row
<1>4. CalmNow \in Nat
  BY <1>1, CalmRunIsFinite DEF CalmNow
<1>5. AgeNow \in Nat
  <2>1. LevelNow \in Climbable => rows # <<>>
    BY DEF LevelNow, Climbable
  <2> QED
    BY <1>1, <1>2, <2>1 DEF AgeNow, StayHasBegun, Row
<1> QED
  BY <1>3, <1>4, <1>5 DEF CalmNow, AgeNow

\* What an evaluation does to them.
LEMMA EvaluationValues ==
  ASSUME TypeOK, StayHasBegun,
         NEW loss \in Losses, NEW row,
         row = EvaluateDrawdownState(PriorHistory, loss, day),
         rows' = Append(rows, row), day' = day
  PROVE  /\ LevelNow' = row.level /\ row.level \in Levels
         /\ CalmNow' = IF Counter!Calm(row.level, loss)
                         THEN IF row.level = LevelNow THEN CalmNow + 1 ELSE 1
                         ELSE 0
         /\ AgeNow' = IF row.level = LevelNow THEN AgeNow ELSE 0
         /\ \E days \in Nat :
              /\ row.level = ComputeLevel(LevelNow, loss, days)
              /\ LevelNow \in Climbable =>
                   days = RecoveryDays(PriorHistory, LevelNow, loss)
<1> DEFINE n == Len(rows)
<1>1. rows \in Seq(Row) /\ n \in Nat /\ day \in Nat /\ PauseDays \in Nat
  BY LadderAssumption DEF TypeOK
<1>2. /\ row \in Row /\ row.loss = loss
      /\ rows = <<>> => row.enteredAt = day
      /\ rows # <<>> => row.enteredAt = IF rows[n].level = row.level
                                          THEN rows[n].enteredAt ELSE day
  BY EvaluationRow
<1>3. Len(rows') = n + 1 /\ rows'[n + 1] = row /\ rows' # <<>>
  BY <1>1, <1>2, AppendProperties
<1>4. rows # <<>> <=> n # 0
  BY <1>1, EmptySeq
<1>5. LevelNow' = row.level /\ row.level \in Levels
  BY <1>2, <1>3 DEF LevelNow, Row
<1>6. LevelNow = IF rows = <<>> THEN 0 ELSE rows[n].level
  BY DEF LevelNow
<1>7. CalmNow' = IF Counter!Calm(row.level, loss)
                   THEN IF row.level = LevelNow THEN CalmNow + 1 ELSE 1
                   ELSE 0
  <2>1. Cardinality(CalmRun(rows', row.level)) =
          IF row.loss < ExitLoss[row.level]
            THEN Cardinality(CalmRun(rows, row.level)) + 1 ELSE 0
    <3>1. rows \in Seq(Row) /\ row \in Row
      BY <1>1, <1>2
    <3> QED
      BY <3>1, CalmRunGrows, Zenon
  <2>2. row.level # LevelNow /\ row.level \in Climbable =>
          Cardinality(CalmRun(rows, row.level)) = 0
    BY <1>1, <1>6, CalmRunOfOtherLevel
  <2>3. CalmNow' = IF row.level \in Climbable
                     THEN Cardinality(CalmRun(rows', row.level)) ELSE 0
    BY <1>5 DEF CalmNow
  <2>4. row.level = LevelNow /\ row.level \in Climbable =>
          CalmNow = Cardinality(CalmRun(rows, row.level))
    BY DEF CalmNow
  <2>5. Counter!Calm(row.level, loss) <=>
          row.level \in Climbable /\ row.loss < ExitLoss[row.level]
    BY <1>2 DEF Counter!Calm, Counter!Climbable, Climbable
  <2> QED
    BY <2>1, <2>2, <2>3, <2>4, <2>5
<1>8. AgeNow' = IF row.level = LevelNow THEN AgeNow ELSE 0
  <2> DEFINE Aged(e) == IF day - e < PauseDays THEN day - e ELSE PauseDays
  <2>1. AgeNow' = IF row.level \notin Climbable THEN 0 ELSE Aged(row.enteredAt)
    BY <1>3, <1>5 DEF AgeNow
  <2>2. AgeNow = IF LevelNow \notin Climbable THEN 0 ELSE Aged(rows[n].enteredAt)
    BY DEF AgeNow
  <2>3. Aged(day) = 0
    BY <1>1
  <2>4. row.level = LevelNow /\ row.level \in Climbable =>
          row.enteredAt = rows[n].enteredAt
    BY <1>2, <1>6 DEF Climbable
  <2>5. row.level # LevelNow /\ row.level \in Climbable => row.enteredAt = day
    BY <1>2, <1>6
  <2> HIDE DEF Aged
  <2> QED
    BY <2>1, <2>2, <2>3, <2>4, <2>5
<1>9. \E days \in Nat :
        /\ row.level = ComputeLevel(LevelNow, loss, days)
        /\ LevelNow \in Climbable => days = RecoveryDays(PriorHistory, LevelNow, loss)
  <2> DEFINE h == PriorHistory
             prev == IF h = <<>> THEN 0 ELSE h[Len(h)].level
             days == IF prev \in Climbable THEN RecoveryDays(h, prev, loss) ELSE 0
  <2>1. rows = <<>> => h = <<>>
    <3>1. rows = <<>> => Len(rows) = 0 /\ h = SubSeq(rows, 1, 0)
      BY LadderAssumption DEF PriorHistory
    <3> QED
      BY <3>1, SubSeqEmpty
  <2>2. ASSUME rows # <<>>
        PROVE  h \in Seq(Row) /\ h # <<>> /\ h[Len(h)] = rows[n]
    <3>1. /\ h \in Seq(Row) /\ Len(h) \in 1 .. n
          /\ \A x \in 1 .. Len(h) : h[x] = rows[x + (n - Len(h))]
      BY <1>1, <2>2, PriorHistoryIsTail
    <3>2. Len(h) \in 1 .. Len(h) /\ Len(h) + (n - Len(h)) = n
      BY <1>1, <3>1
    <3>3. h # <<>>
      BY <3>1
    <3> QED
      BY <3>1, <3>2, <3>3
  <2>3. row.level = ComputeLevel(prev, loss, days)
    BY DEF EvaluateDrawdownState
  <2> HIDE DEF h
  <2>4. prev = LevelNow
    BY <1>6, <2>1, <2>2
  <2>5. h \in Seq(Row)
    <3>1. <<>> \in Seq(Row)
      OBVIOUS
    <3> QED
      BY <2>1, <2>2, <3>1
  <2>6. days \in Nat
    BY <2>5, RecoveryDaysType
  <2>7. LevelNow \in Climbable => days = RecoveryDays(PriorHistory, LevelNow, loss)
    BY <2>4 DEF h
  <2> HIDE DEF days, prev
  <2> QED
    BY <2>3, <2>4, <2>6, <2>7
<1> QED
  BY <1>5, <1>7, <1>8, <1>9

\* Every evaluation is one of LadderCounter's, for a history long enough.
LEMMA EvaluationCounts ==
  ASSUME TypeOK, StayHasBegun, RunEvaluation,
         \A k \in Climbable : ExitDays[k] <= HistoryLimit + 1
  PROVE  Counter!Next
<1>0. PICK loss \in Losses :
        /\ rows' = Append(rows, EvaluateDrawdownState(PriorHistory, loss, day))
        /\ day' = day
  BY DEF RunEvaluation
<1>1. PICK row :
        /\ row = EvaluateDrawdownState(PriorHistory, loss, day)
        /\ rows' = Append(rows, row) /\ day' = day
  BY <1>0
<1>2. PICK days \in Nat :
        /\ row.level = ComputeLevel(LevelNow, loss, days)
        /\ LevelNow \in Climbable => days = RecoveryDays(PriorHistory, LevelNow, loss)
  BY <1>1, EvaluationValues
<1>3. /\ LevelNow' = row.level /\ row.level \in Levels
      /\ CalmNow' = IF Counter!Calm(row.level, loss)
                      THEN IF row.level = LevelNow THEN CalmNow + 1 ELSE 1
                      ELSE 0
      /\ AgeNow' = IF row.level = LevelNow THEN AgeNow ELSE 0
  BY <1>1, EvaluationValues
<1>4. /\ LevelNow \in Levels /\ CalmNow \in Nat
      /\ LevelNow \notin Climbable => CalmNow = 0 /\ AgeNow = 0
  BY CounterValues
<1>5. /\ NaturalLevel(loss) \in Levels
      /\ \A k \in 1 .. 5 : loss >= EntryLoss[k] => NaturalLevel(loss) >= k
      /\ NaturalLevel(loss) # 0 => loss >= EntryLoss[NaturalLevel(loss)]
      /\ \A m \in Levels : m > NaturalLevel(loss) => loss < EntryLoss[m]
  BY NaturalLevelIsDeepest
<1>6. \A k : Counter!Calm(k, loss) <=> k \in Climbable /\ loss < ExitLoss[k]
  BY DEF Counter!Calm, Counter!Climbable, Climbable
<1>7. /\ loss \in Nat /\ \A k \in 1 .. 5 : EntryLoss[k] \in Nat
      /\ \A k \in Climbable :
           /\ ExitLoss[k] \in Nat /\ ExitDays[k] \in Nat
           /\ ExitLoss[k] <= EntryLoss[k]
      /\ HistoryLimit \in Nat
  BY LadderAssumption
<1>8. ASSUME NaturalLevel(loss) < LevelNow, LevelNow # 5
      PROVE  days >= ExitDays[LevelNow] /\ loss < ExitLoss[LevelNow]
               <=> Counter!MayRecover(loss)
  <2>1. LevelNow \in Climbable
    BY <1>4, <1>5, <1>8 DEF Levels, Climbable
  <2>2. \A k \in LevelNow .. 5 : loss < EntryLoss[k]
    BY <1>4, <1>5, <1>8 DEF Levels
  <2>3. Counter!MayRecover(loss) <=>
          loss < ExitLoss[LevelNow] /\ CalmNow + 1 >= ExitDays[LevelNow]
    BY <1>6, <2>1, <2>2 DEF Counter!MayRecover
  <2>4. /\ rows \in Seq(Row) /\ rows # <<>>
        /\ CalmNow = Cardinality(CalmRun(rows, LevelNow))
    BY <2>1 DEF TypeOK, LevelNow, CalmNow, Climbable
  <2>5. ASSUME loss < ExitLoss[LevelNow]
        PROVE  days = 1 + Cardinality(CalmRun(PriorHistory, LevelNow))
    BY <1>2, <2>1, <2>5 DEF RecoveryDays
  <2>6. \/ /\ Cardinality(CalmRun(PriorHistory, LevelNow)) = HistoryLimit
           /\ CalmNow >= HistoryLimit
        \/ Cardinality(CalmRun(PriorHistory, LevelNow)) = CalmNow
    BY <2>4, LoadedCalmRun
  <2> QED
    BY <1>4, <1>7, <2>1, <2>3, <2>5, <2>6
<1>9. CASE LevelNow = 5
  <2>1. row.level = 5 /\ ~ Counter!MayRecover(loss)
    BY <1>2, <1>6, <1>9 DEF ComputeLevel, Counter!MayRecover, Climbable
  <2>2. Counter!Stay(loss)
    BY <1>3, <1>6, <1>9, <2>1 DEF Counter!Stay, Climbable
  <2> QED
    BY <2>2 DEF Counter!Next, Counter!Evaluate
<1>10. CASE LevelNow # 5 /\ NaturalLevel(loss) > LevelNow
  <2>1. row.level = NaturalLevel(loss)
    BY <1>2, <1>4, <1>5, <1>10 DEF ComputeLevel, Levels
  <2>2. Counter!Depth(loss, row.level) /\ row.level \in Counter!Levels
    BY <1>5, <2>1 DEF Counter!Depth, Counter!Levels, Levels
  <2>3. row.level # LevelNow /\ LevelNow < row.level
    BY <1>4, <1>5, <1>10, <2>1 DEF Levels
  <2>4. Counter!Enter(row.level, loss)
    BY <1>3, <2>3 DEF Counter!Enter
  <2>5. Counter!Worsen(loss)
    BY <2>2, <2>3, <2>4 DEF Counter!Worsen
  <2> QED
    BY <2>5 DEF Counter!Next, Counter!Evaluate
<1>11. CASE LevelNow # 5 /\ NaturalLevel(loss) = LevelNow
  <2>1. row.level = LevelNow
    BY <1>2, <1>4, <1>5, <1>11 DEF ComputeLevel, Levels
  <2>2. \A k \in (LevelNow + 1) .. 5 : loss < EntryLoss[k]
    BY <1>4, <1>5, <1>11 DEF Levels
  <2>3. ~ Counter!Calm(LevelNow, loss)
    BY <1>4, <1>5, <1>6, <1>7, <1>11 DEF Levels, Climbable
  <2>4. Counter!Stay(loss)
    BY <1>3, <2>1, <2>2, <2>3 DEF Counter!Stay, Counter!MayRecover
  <2> QED
    BY <2>4 DEF Counter!Next, Counter!Evaluate
<1>12. CASE LevelNow # 5 /\ NaturalLevel(loss) < LevelNow
  <2>1. row.level = IF Counter!MayRecover(loss) THEN LevelNow - 1 ELSE LevelNow
    <3>1. row.level = IF loss < ExitLoss[LevelNow] /\ days >= ExitDays[LevelNow]
                        THEN LevelNow - 1 ELSE LevelNow
      BY <1>2, <1>4, <1>5, <1>12 DEF ComputeLevel, Levels
    <3> QED
      BY <1>8, <1>12, <3>1
  <2>2. CASE Counter!MayRecover(loss)
    <3>1. row.level = LevelNow - 1 /\ row.level # LevelNow
      BY <1>4, <2>1, <2>2 DEF Levels
    <3>2. Counter!Recover(loss)
      BY <1>3, <2>2, <3>1 DEF Counter!Recover, Counter!Enter
    <3> QED
      BY <3>2 DEF Counter!Next, Counter!Evaluate
  <2>3. CASE ~ Counter!MayRecover(loss)
    <3>1. \A k \in (LevelNow + 1) .. 5 : loss < EntryLoss[k]
      BY <1>4, <1>5, <1>12 DEF Levels
    <3>2. Counter!Stay(loss)
      BY <1>3, <2>1, <2>3, <3>1 DEF Counter!Stay
    <3> QED
      BY <3>2 DEF Counter!Next, Counter!Evaluate
  <2> QED
    BY <2>2, <2>3
<1> QED
  BY <1>4, <1>5, <1>9, <1>10, <1>11, <1>12 DEF Levels

\* A new day is one of LadderCounter's.
LEMMA DayCounts ==
  ASSUME TypeOK, StayHasBegun, NextDay
  PROVE  Counter!Next
<1>1. /\ rows \in Seq(Row) /\ Len(rows) \in Nat /\ day \in Nat /\ PauseDays \in Nat
      /\ rows' = rows /\ day' = day + 1
  BY LadderAssumption DEF TypeOK, NextDay
<1>2. LevelNow' = LevelNow /\ CalmNow' = CalmNow
  BY <1>1 DEF LevelNow, CalmNow
<1>3. AgeNow' = IF LevelNow \in Climbable /\ AgeNow < PauseDays
                  THEN AgeNow + 1 ELSE AgeNow
  <2>1. CASE LevelNow \notin Climbable
    BY <1>2, <2>1 DEF AgeNow
  <2>2. CASE LevelNow \in Climbable
    <3>1. rows # <<>>
      BY <2>2 DEF LevelNow, Climbable
    <3>2. rows[Len(rows)] \in Row
      BY <1>1, <3>1, EmptySeq, ElementOfSeq
    <3>3. rows[Len(rows)].enteredAt \in Nat /\ rows[Len(rows)].enteredAt <= day
      BY <3>1, <3>2 DEF StayHasBegun, Row
    <3> QED
      BY <1>1, <1>2, <2>2, <3>3 DEF AgeNow
  <2> QED
    BY <2>1, <2>2
<1> QED
  BY <1>2, <1>3 DEF Counter!Next, Counter!DayPasses, Counter!Climbable, Climbable

\* The level derived from the rows is a counting ladder, for all tables, losses
\* and numbers of evaluations, if the history loaded is no shorter than the calm
\* days asked for less today's (CounterSpec; loadPriorHistory).
THEOREM LadderImplementsCounter ==
  ASSUME \A k \in Climbable : ExitDays[k] <= HistoryLimit + 1
  PROVE  Spec => CounterSpec
<1>1. Init => Counter!Init /\ StayHasBegun
  BY DEF Init, Counter!Init, LevelNow, CalmNow, AgeNow, Climbable, StayHasBegun
<1>2. TypeOK /\ StayHasBegun /\ [Next]_vars => StayHasBegun'
  BY StayHasBegunStep
<1>3. TypeOK /\ StayHasBegun /\ [Next]_vars => [Counter!Next]_(Counter!vars)
  <2>1. ASSUME UNCHANGED vars
        PROVE  UNCHANGED Counter!vars
    BY <2>1 DEF vars, Counter!vars, LevelNow, CalmNow, AgeNow
  <2> QED
    BY <2>1, EvaluationCounts, DayCounts DEF Next
<1> QED
  BY <1>1, <1>2, <1>3, LadderTypeCorrect, PTL DEF Spec, CounterSpec, Counter!Spec
==============================================================================
