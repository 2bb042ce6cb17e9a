--------------------------- MODULE PassStreak_proofs ---------------------------
(***************************************************************************)
(* The streak of passing days, for any number of days, trades and runs that *)
(* overlap.  Neither property is inductive: what carries them is that the   *)
(* table holds, for each day, the verdict of the last run by start that has *)
(* landed there (TableIsLatest), and that a run which has not written has   *)
(* not landed, so that no landed verdict is ever taken back.                *)
(***************************************************************************)
EXTENDS PassStreak, FiniteSetTheorems, SequenceTheorems, TLAPS

\* A run's row lands when it is written, or never.
LandedHasWritten ==
  \A n \in DOMAIN runs : runs[n].phase \in {"started", "loaded"} => ~ runs[n].landed

Landed(rs, n, d) == n \in DOMAIN rs /\ rs[n].landed /\ rs[n].asOf = d

\* A day's row is that of the last run, by start, of those that have landed on it.
IsLatest(rs, row, d) ==
  /\ \A m \in DOMAIN rs : Landed(rs, m, d) => m <= row.by
  /\ \/ row.by = 0 /\ row.verdict = "none"
     \/ Landed(rs, row.by, d) /\ row.verdict = rs[row.by].verdict

TableIsLatest == \A d \in Days : IsLatest(runs, table[d], d)

StreakInv ==
  /\ StreakTypeOK /\ LandedHasWritten
  /\ TableIsLatest /\ TodaysFailIsSeen

-------------------------------------------------------------------------------
(* The operators.                                                            *)

\* countConsecutiveA1A5PassDays counts the passing days from today back to the
\* first that does not pass.
LEMMA StreakIsLeading ==
  ASSUME NEW v
  PROVE  /\ StreakOf(v) \in 0 .. TrailingDays
         /\ \A i \in 0 .. (StreakOf(v) - 1) : v[i] = "pass"
         /\ StreakOf(v) < TrailingDays => v[StreakOf(v)] # "pass"
<1> DEFINE S == {s \in 1 .. TrailingDays : \A i \in 0 .. (s - 1) : v[i] = "pass"}
           c == Cardinality(S)
<1>1. StreakOf(v) = c
  BY DEF StreakOf
<1>2. TrailingDays \in Nat \ {0}
  BY StreakAssumption
<1>3. IsFiniteSet(S) /\ c \in Nat /\ c <= TrailingDays
  <2>1. /\ IsFiniteSet(1 .. TrailingDays)
        /\ Cardinality(1 .. TrailingDays) = TrailingDays
    BY <1>2, FS_Interval
  <2>2. S \in SUBSET (1 .. TrailingDays)
    OBVIOUS
  <2> HIDE DEF S
  <2> QED
    BY <2>1, <2>2, FS_Subset, FS_CardinalityType
<1>4. ASSUME NEW s \in S
      PROVE  s <= c
  <2>1. 1 .. s \in SUBSET S
    BY <1>2
  <2>2. s \in Nat \ {0} /\ Cardinality(1 .. s) = s
    BY <1>2, <1>4, FS_Interval
  <2> HIDE DEF S
  <2> QED
    BY <1>3, <2>1, <2>2, FS_Subset
<1>5. S = 1 .. c
  <2>1. S \in SUBSET (1 .. c)
    BY <1>2, <1>3, <1>4
  <2>2. IsFiniteSet(1 .. c) /\ Cardinality(1 .. c) = c
    BY <1>3, FS_Interval
  <2> HIDE DEF S
  <2> QED
    BY <2>1, <2>2, FS_Subset
<1>6. \A i \in 0 .. (c - 1) : v[i] = "pass"
  <2>1. c # 0 => c \in S
    BY <1>3, <1>5
  <2> QED
    BY <1>3, <2>1
<1>7. c < TrailingDays => v[c] # "pass"
  <2> SUFFICES ASSUME c < TrailingDays, v[c] = "pass"
               PROVE  FALSE
    OBVIOUS
  <2>1. c + 1 \in S
    BY <1>2, <1>3, <1>6
  <2> QED
    BY <1>3, <1>4, <2>1
<1> HIDE DEF c
<1> QED
  BY <1>1, <1>2, <1>3, <1>6, <1>7

\* evaluateKillCriteria gives one of the three verdicts.
LEMMA VerdictType ==
  ASSUME NEW known, NEW asOf
  PROVE  Verdict(known, asOf) \in Verdicts
  BY DEF Verdict, Verdicts

\* A step of run n leaves the other runs alone.
LEMMA OneRunMoves ==
  ASSUME StreakTypeOK, NEW n \in DOMAIN runs, NEW r \in Run,
         runs' = [runs EXCEPT ![n] = r]
  PROVE  /\ runs' \in Seq(Run) /\ Len(runs') = Len(runs)
         /\ DOMAIN runs = 1 .. Len(runs) /\ DOMAIN runs' = DOMAIN runs
         /\ runs'[n] = r
         /\ \A m \in DOMAIN runs : m # n => runs'[m] = runs[m]
<1>1. runs \in Seq(Run) /\ n \in 1 .. Len(runs) /\ DOMAIN runs = 1 .. Len(runs)
  BY DEF StreakTypeOK
<1>2. runs' \in Seq(Run) /\ Len(runs') = Len(runs)
  BY <1>1, ExceptSeq
<1> QED
  BY <1>1, <1>2, ExceptSeq

-------------------------------------------------------------------------------
(* What the actions of a run do to it.                                       *)

LEMMA LoadMoves ==
  ASSUME StreakTypeOK, NEW n \in DOMAIN runs, LoadTrades(n)
  PROVE  \E r \in Run :
           /\ runs' = [runs EXCEPT ![n] = r] /\ r.phase = "loaded"
           /\ r.asOf = runs[n].asOf /\ r.landed = runs[n].landed
<1> DEFINE r == [runs[n] EXCEPT !.phase = "loaded", !.known = Len(trades),
                                !.verdict = Verdict(Len(trades), runs[n].asOf)]
<1>1. runs[n] \in Run
  BY ElementOfSeq DEF StreakTypeOK
<1>2. Len(trades) \in 0 .. MaxTrades
  BY StreakAssumption DEF StreakTypeOK
<1>3. Verdict(Len(trades), runs[n].asOf) \in Verdicts
  BY VerdictType
<1>4. r \in Run
  BY <1>1, <1>2, <1>3 DEF Run
<1>5. runs' = [runs EXCEPT ![n] = r]
  BY DEF LoadTrades
<1>6. r.phase = "loaded" /\ r.asOf = runs[n].asOf /\ r.landed = runs[n].landed
  BY <1>1 DEF Run
<1> HIDE DEF r
<1> QED
  BY <1>4, <1>5, <1>6

LEMMA WriteMoves ==
  ASSUME StreakTypeOK, NEW n \in DOMAIN runs, NEW lands \in BOOLEAN, WriteDay(n, lands)
  PROVE  \E r \in Run :
           /\ runs' = [runs EXCEPT ![n] = r] /\ r.phase = "read"
           /\ r.asOf = runs[n].asOf /\ r.landed = lands
           /\ r.verdict = runs[n].verdict
<1> DEFINE r == [runs[n] EXCEPT !.phase = "read", !.landed = lands]
<1>1. runs[n] \in Run
  BY ElementOfSeq DEF StreakTypeOK
<1>2. r \in Run
  BY <1>1 DEF Run
<1>3. runs' = [runs EXCEPT ![n] = r]
  BY DEF WriteDay
<1>4. /\ r.phase = "read" /\ r.asOf = runs[n].asOf /\ r.landed = lands
      /\ r.verdict = runs[n].verdict
  BY <1>1 DEF Run
<1> HIDE DEF r
<1> QED
  BY <1>2, <1>3, <1>4

LEMMA DecideMoves ==
  ASSUME StreakTypeOK, NEW n \in DOMAIN runs, NEW path \in {"history", "rolling"},
         NEW v, Decide(n, path, v)
  PROVE  \E r \in Run :
           /\ runs' = [runs EXCEPT ![n] = r] /\ r.phase = path
           /\ r.asOf = runs[n].asOf /\ r.landed = runs[n].landed
           /\ r.verdict = runs[n].verdict
           /\ r.streak = StreakOf(v) /\ r.failsToday = (v[0] = "fail")
<1> DEFINE r == [runs[n] EXCEPT !.phase = path, !.streak = StreakOf(v),
                                !.failsToday = (v[0] = "fail")]
<1>1. runs[n] \in Run
  BY ElementOfSeq DEF StreakTypeOK
<1>2. StreakOf(v) \in 0 .. TrailingDays
  BY StreakIsLeading
<1>3. r \in Run
  BY <1>1, <1>2 DEF Run
<1>4. runs' = [runs EXCEPT ![n] = r]
  BY DEF Decide
<1>5. /\ r.phase = path /\ r.asOf = runs[n].asOf /\ r.landed = runs[n].landed
      /\ r.verdict = runs[n].verdict
      /\ r.streak = StreakOf(v) /\ r.failsToday = (v[0] = "fail")
  BY <1>1 DEF Run
<1> HIDE DEF r
<1> QED
  BY <1>3, <1>4, <1>5

-------------------------------------------------------------------------------
(* The steps, by what they do to runs and table.                             *)

\* A run that did not start with this step.
LEMMA StartMoves ==
  ASSUME StreakTypeOK, StartRun
  PROVE  /\ runs' \in Seq(Run) /\ Len(runs') = Len(runs) + 1 /\ Len(runs') <= MaxRuns
         /\ DOMAIN runs = 1 .. Len(runs) /\ DOMAIN runs' = 1 .. (Len(runs) + 1)
         /\ \A m \in DOMAIN runs : runs'[m] = runs[m]
         /\ runs'[Len(runs) + 1].phase = "started"
         /\ ~ runs'[Len(runs) + 1].landed
<1> DEFINE r == [asOf |-> today, known |-> 0, verdict |-> "none",
                 landed |-> FALSE, phase |-> "started", streak |-> 0,
                 failsToday |-> FALSE]
<1>1. r \in Run
  BY StreakAssumption DEF StreakTypeOK, Run, Verdicts
<1>2. runs' = Append(runs, r) /\ Len(runs) < MaxRuns /\ runs \in Seq(Run)
  BY DEF StartRun, StreakTypeOK
<1>3. r.phase = "started" /\ ~ r.landed
  OBVIOUS
<1> HIDE DEF r
<1>4. Len(runs) \in Nat /\ MaxRuns \in Nat
  BY <1>2, StreakAssumption
<1>5. /\ runs' \in Seq(Run) /\ Len(runs') = Len(runs) + 1
      /\ \A m \in 1 .. Len(runs) : runs'[m] = runs[m]
      /\ runs'[Len(runs) + 1] = r
  BY <1>1, <1>2, AppendProperties
<1> QED
  BY <1>2, <1>3, <1>4, <1>5

\* The types of a day's verdicts, of runs and of trades are kept.
LEMMA StreakTypeStep ==
  ASSUME StreakTypeOK, [StreakNext]_streakVars
  PROVE  StreakTypeOK'
<1>1. CASE NewDay
  BY <1>1, StreakAssumption DEF NewDay, StreakTypeOK, Days, Run
<1>2. CASE CloseTrade
  <2>1. PICK pnl \in Pnls, exit \in (today - 1) .. today :
          trades' = Append(trades, [exit |-> exit, pnl |-> pnl])
    BY <1>2 DEF CloseTrade
  <2>2. [exit |-> exit, pnl |-> pnl] \in [exit : 0 .. LastDay, pnl : Pnls]
    BY StreakAssumption DEF StreakTypeOK, Days
  <2>3. /\ trades' \in Seq([exit : 0 .. LastDay, pnl : Pnls])
        /\ Len(trades') = Len(trades) + 1
    BY <2>1, <2>2, AppendProperties DEF StreakTypeOK
  <2> QED
    BY <1>2, <2>3, StreakAssumption DEF CloseTrade, StreakTypeOK
<1>3. CASE StartRun
  BY <1>3, StartMoves DEF StartRun, StreakTypeOK
<1>4. ASSUME NEW n \in DOMAIN runs, LoadTrades(n)
      PROVE  StreakTypeOK'
  BY <1>4, LoadMoves, OneRunMoves DEF LoadTrades, StreakTypeOK
<1>5. ASSUME NEW n \in DOMAIN runs, NEW lands \in BOOLEAN, WriteDay(n, lands)
      PROVE  StreakTypeOK'
  <2>1. runs' \in Seq(Run) /\ Len(runs') = Len(runs)
    BY <1>5, WriteMoves, OneRunMoves
  <2>2. runs[n] \in Run /\ n \in 1 .. Len(runs) /\ n \in 0 .. MaxRuns
    BY StreakAssumption, ElementOfSeq DEF StreakTypeOK
  <2>3. table[runs[n].asOf] \in [verdict : Verdicts, by : 0 .. MaxRuns]
    BY <2>2 DEF StreakTypeOK, Run
  <2>4. Supersede(table[runs[n].asOf], n, runs[n].verdict)
          \in [verdict : Verdicts, by : 0 .. MaxRuns]
    BY <2>2, <2>3 DEF Supersede, Run
  <2>5. table' \in [Days -> [verdict : Verdicts, by : 0 .. MaxRuns]]
    BY <1>5, <2>4 DEF WriteDay, StreakTypeOK
  <2> QED
    BY <1>5, <2>1, <2>5 DEF WriteDay, StreakTypeOK
<1>6. ASSUME NEW n \in DOMAIN runs, NEW path \in {"history", "rolling"}, NEW v,
             Decide(n, path, v)
      PROVE  StreakTypeOK'
  <2>1. runs' \in Seq(Run) /\ Len(runs') = Len(runs)
    BY <1>6, DecideMoves, OneRunMoves
  <2>2. UNCHANGED <<today, trades, table>>
    BY <1>6 DEF Decide
  <2> QED
    BY <2>1, <2>2 DEF StreakTypeOK
<1>7. CASE UNCHANGED streakVars
  BY <1>7 DEF StreakTypeOK, streakVars
<1> QED
  BY <1>1, <1>2, <1>3, <1>4, <1>5, <1>6, <1>7 DEF StreakNext, ReadHistory, FallBack

\* What every step does to the runs that were there, and how others begin.
RunsGoOn ==
  /\ \A m \in DOMAIN runs :
       /\ m \in DOMAIN runs' /\ runs'[m].asOf = runs[m].asOf
       /\ runs[m].landed => runs'[m].landed /\ runs'[m].verdict = runs[m].verdict
       /\ runs[m].phase = "history" => runs'[m] = runs[m]
       /\ runs'[m].phase = "history" /\ runs[m].phase # "history" => ReadHistory(m)
  /\ \A m \in DOMAIN runs' : m \notin DOMAIN runs => runs'[m].phase = "started"

\* Only a write that lands moves the table, and only then a run has landed that
\* had not.
TableStays ==
  /\ table' = table
  /\ \A m \in DOMAIN runs' :
       runs'[m].landed => m \in DOMAIN runs /\ runs[m].landed

WriteLands(n) ==
  /\ n \in DOMAIN runs /\ runs'[n].landed /\ runs'[n].verdict = runs[n].verdict
  /\ table' = [table EXCEPT ![runs[n].asOf] = Supersede(@, n, runs[n].verdict)]
  /\ \A m \in DOMAIN runs' :
       m # n /\ runs'[m].landed => m \in DOMAIN runs /\ runs[m].landed

LEMMA StreakSteps ==
  ASSUME StreakTypeOK, LandedHasWritten, [StreakNext]_streakVars
  PROVE  /\ RunsGoOn /\ LandedHasWritten'
         /\ TableStays \/ \E n \in DOMAIN runs : WriteLands(n)
<1> USE DEF LandedHasWritten, RunsGoOn, TableStays
<1>1. CASE NewDay \/ CloseTrade \/ UNCHANGED streakVars
  BY <1>1 DEF NewDay, CloseTrade, streakVars
<1>2. CASE StartRun
  <2>1. table' = table
    BY <1>2 DEF StartRun
  <2>2. /\ Len(runs) \in Nat
        /\ DOMAIN runs = 1 .. Len(runs) /\ DOMAIN runs' = 1 .. (Len(runs) + 1)
        /\ \A m \in DOMAIN runs : runs'[m] = runs[m]
        /\ runs'[Len(runs) + 1].phase = "started"
        /\ ~ runs'[Len(runs) + 1].landed
    BY <1>2, StartMoves DEF StreakTypeOK
  <2> QED
    BY <2>1, <2>2
<1>3. ASSUME NEW n \in DOMAIN runs, LoadTrades(n)
      PROVE  RunsGoOn /\ LandedHasWritten' /\ TableStays
  <2>1. PICK r \in Run :
          /\ runs' = [runs EXCEPT ![n] = r] /\ r.phase = "loaded"
          /\ r.asOf = runs[n].asOf /\ r.landed = runs[n].landed
    BY <1>3, LoadMoves
  <2>2. runs[n].phase = "started" /\ table' = table /\ ~ runs[n].landed
    BY <1>3 DEF LoadTrades
  <2>3. /\ DOMAIN runs' = DOMAIN runs /\ runs'[n] = r
        /\ \A m \in DOMAIN runs : m # n => runs'[m] = runs[m]
    BY <2>1, OneRunMoves
  <2> QED
    BY <2>1, <2>2, <2>3
<1>4. ASSUME NEW n \in DOMAIN runs, NEW lands \in BOOLEAN, WriteDay(n, lands)
      PROVE  /\ RunsGoOn /\ LandedHasWritten'
             /\ TableStays \/ WriteLands(n)
  <2>1. PICK r \in Run :
          /\ runs' = [runs EXCEPT ![n] = r] /\ r.phase = "read"
          /\ r.asOf = runs[n].asOf /\ r.landed = lands
          /\ r.verdict = runs[n].verdict
    BY <1>4, WriteMoves
  <2>2. /\ runs[n].phase = "loaded" /\ ~ runs[n].landed
        /\ table' = IF lands
                      THEN [table EXCEPT ![runs[n].asOf] =
                              Supersede(@, n, runs[n].verdict)]
                      ELSE table
    BY <1>4 DEF WriteDay
  <2>3. /\ DOMAIN runs' = DOMAIN runs /\ runs'[n] = r
        /\ \A m \in DOMAIN runs : m # n => runs'[m] = runs[m]
    BY <2>1, OneRunMoves
  <2>4. CASE lands
    BY <2>1, <2>2, <2>3, <2>4 DEF WriteLands
  <2>5. CASE ~ lands
    BY <2>1, <2>2, <2>3, <2>5
  <2> QED
    BY <2>4, <2>5
<1>5. ASSUME NEW n \in DOMAIN runs, ReadHistory(n) \/ FallBack(n)
      PROVE  RunsGoOn /\ LandedHasWritten' /\ TableStays
  <2>1. \E path \in {"history", "rolling"} : \E v :
          /\ Decide(n, path, v) /\ runs[n].phase \in {"loaded", "read"}
          /\ path = "history" => ReadHistory(n)
    BY <1>5 DEF ReadHistory, FallBack
  <2> PICK path \in {"history", "rolling"} : \E v :
          /\ Decide(n, path, v) /\ runs[n].phase \in {"loaded", "read"}
          /\ path = "history" => ReadHistory(n)
    BY <2>1
  <2>2. PICK r \in Run :
          /\ runs' = [runs EXCEPT ![n] = r] /\ r.phase = path
          /\ r.asOf = runs[n].asOf /\ r.landed = runs[n].landed
          /\ r.verdict = runs[n].verdict
    BY DecideMoves
  <2>3. /\ DOMAIN runs' = DOMAIN runs /\ runs'[n] = r
        /\ \A m \in DOMAIN runs : m # n => runs'[m] = runs[m]
    BY <2>2, OneRunMoves
  <2>4. table' = table
    BY <2>1 DEF Decide
  <2> QED
    BY <2>1, <2>2, <2>3, <2>4
<1> QED
  BY <1>1, <1>2, <1>3, <1>4, <1>5 DEF StreakNext

\* The table keeps the last run's verdict when a slower run lands below it.
LEMMA TableIsLatestStep ==
  ASSUME StreakTypeOK, LandedHasWritten, TableIsLatest, [StreakNext]_streakVars
  PROVE  TableIsLatest'
<1>1. RunsGoOn /\ (TableStays \/ \E n \in DOMAIN runs : WriteLands(n))
  BY StreakSteps
<1>2. \A d \in Days : table[d].by \in Nat
  BY StreakAssumption DEF StreakTypeOK
<1>3. /\ \A m \in DOMAIN runs : m \in Nat \ {0}
      /\ \A m \in DOMAIN runs' : m \in Nat \ {0}
  BY StreakTypeStep DEF StreakTypeOK
\* A day on which nothing lands.
<1>4. ASSUME NEW d \in Days, table'[d] = table[d],
             \A m \in DOMAIN runs' : Landed(runs', m, d) => Landed(runs, m, d)
      PROVE  IsLatest(runs', table'[d], d)
  <2>1. IsLatest(runs, table[d], d)
    BY DEF TableIsLatest
  <2>2. \A m \in DOMAIN runs' : Landed(runs', m, d) => m <= table[d].by
    BY <1>4, <2>1 DEF IsLatest, Landed
  <2>3. ASSUME Landed(runs, table[d].by, d), table[d].verdict = runs[table[d].by].verdict
        PROVE  /\ Landed(runs', table[d].by, d)
               /\ table[d].verdict = runs'[table[d].by].verdict
    BY <1>1, <2>3 DEF RunsGoOn, Landed
  <2> QED
    BY <1>4, <2>1, <2>2, <2>3 DEF IsLatest
<1>5. CASE TableStays
  <2>1. ASSUME NEW d \in Days, NEW m \in DOMAIN runs', Landed(runs', m, d)
        PROVE  Landed(runs, m, d)
    BY <1>1, <1>5, <2>1 DEF TableStays, RunsGoOn, Landed
  <2> QED
    BY <1>4, <1>5, <2>1 DEF TableStays, TableIsLatest
<1>6. ASSUME NEW n \in DOMAIN runs, WriteLands(n)
      PROVE  TableIsLatest'
  <2>1. runs[n].asOf \in Days
    <3>1. runs[n] \in Run
      BY ElementOfSeq DEF StreakTypeOK
    <3> QED
      BY <3>1 DEF Run
  <2> PICK day \in Days : day = runs[n].asOf
    BY <2>1
  <2>2. /\ table'[day] = Supersede(table[day], n, runs[n].verdict)
        /\ \A d \in Days : d # day => table'[d] = table[d]
    BY <1>6 DEF WriteLands, StreakTypeOK
  <2>3. /\ n \in DOMAIN runs' /\ Landed(runs', n, day) /\ runs'[n].verdict = runs[n].verdict
        /\ \A m \in DOMAIN runs', d \in Days :
             m # n /\ Landed(runs', m, d) => Landed(runs, m, d)
    BY <1>1, <1>6 DEF WriteLands, RunsGoOn, Landed
  <2>4. ASSUME NEW d \in Days, d # day
        PROVE  IsLatest(runs', table'[d], d)
    <3>1. \A m \in DOMAIN runs' : Landed(runs', m, d) => Landed(runs, m, d)
      BY <2>3, <2>4 DEF Landed
    <3> QED
      BY <1>4, <2>2, <2>4, <3>1
  <2>5. IsLatest(runs, table[day], day)
    BY DEF TableIsLatest
  <2>6. ASSUME table[day].by < n
        PROVE  IsLatest(runs', table'[day], day)
    <3>1. table'[day].by = n /\ table'[day].verdict = runs[n].verdict
      BY <2>2, <2>6 DEF Supersede
    <3>2. ASSUME NEW m \in DOMAIN runs', Landed(runs', m, day)
          PROVE  m <= n
      <4>1. CASE m = n
        BY <1>3, <4>1
      <4>2. CASE m # n
        <5>1. m \in DOMAIN runs /\ m <= table[day].by
          BY <2>3, <2>5, <3>2, <4>2 DEF IsLatest, Landed
        <5> QED
          BY <1>2, <1>3, <2>6, <5>1
      <4> QED
        BY <4>1, <4>2
    <3> QED
      BY <2>3, <3>1, <3>2 DEF IsLatest
  <2>7. ASSUME ~ (table[day].by < n)
        PROVE  IsLatest(runs', table'[day], day)
    <3>1. table'[day] = table[day] /\ n <= table[day].by /\ table[day].by # 0
      BY <1>2, <1>3, <2>2, <2>7 DEF Supersede
    <3>2. Landed(runs, table[day].by, day) /\ table[day].verdict = runs[table[day].by].verdict
      BY <2>5, <3>1 DEF IsLatest
    <3>3. /\ Landed(runs', table[day].by, day)
          /\ table[day].verdict = runs'[table[day].by].verdict
      BY <1>1, <3>2 DEF RunsGoOn, Landed
    <3>4. ASSUME NEW m \in DOMAIN runs', Landed(runs', m, day)
          PROVE  m <= table[day].by
      <4>1. m # n => m \in DOMAIN runs /\ Landed(runs, m, day)
        BY <2>3, <3>4 DEF Landed
      <4> QED
        BY <2>5, <3>1, <4>1 DEF IsLatest
    <3> QED
      BY <3>1, <3>3, <3>4 DEF IsLatest
  <2>8. IsLatest(runs', table'[day], day)
    BY <2>6, <2>7
  <2> QED
    BY <2>4, <2>8 DEF TableIsLatest
<1> QED
  BY <1>1, <1>5, <1>6

\* What is read back for a day is what was observed of it.
LEMMA ReadIsObserved ==
  ASSUME StreakTypeOK, TableIsLatest, NEW asOf \in Days,
         NEW i \in 0 .. (TrailingDays - 1)
  PROVE  Trailing(asOf)[i] = "pass" <=> ObservedPass(asOf - i)
<1> DEFINE d == asOf - i
<1>1. Trailing(asOf)[i] = IF d \in Days THEN table[d].verdict ELSE "none"
  BY DEF Trailing
<1>2. \A m \in DOMAIN runs : runs[m].asOf \in Days /\ m \in Nat \ {0}
  <2>1. \A m \in DOMAIN runs : runs[m] \in Run /\ m \in Nat \ {0}
    BY ElementOfSeq DEF StreakTypeOK
  <2> QED
    BY <2>1 DEF Run
<1> HIDE DEF d
<1>3. ObservedPass(d) <=>
        \E k \in DOMAIN runs :
          /\ Landed(runs, k, d) /\ runs[k].verdict = "pass"
          /\ \A m \in DOMAIN runs : m > k => ~ Landed(runs, m, d)
  BY DEF ObservedPass, Landed
<1>4. ASSUME d \notin Days
      PROVE  Trailing(asOf)[i] = "pass" <=> ObservedPass(d)
  BY <1>1, <1>2, <1>3, <1>4 DEF Landed
<1>5. ASSUME d \in Days
      PROVE  Trailing(asOf)[i] = "pass" <=> ObservedPass(d)
  <2>1. table[d].by \in Nat /\ IsLatest(runs, table[d], d)
    BY <1>5, StreakAssumption DEF StreakTypeOK, TableIsLatest
  <2>2. ASSUME table[d].verdict = "pass"
        PROVE  ObservedPass(d)
    <3>1. /\ table[d].by \in DOMAIN runs /\ Landed(runs, table[d].by, d)
          /\ runs[table[d].by].verdict = "pass"
      BY <2>1, <2>2 DEF IsLatest, Landed
    <3>2. \A m \in DOMAIN runs : m > table[d].by => ~ Landed(runs, m, d)
      BY <1>2, <2>1 DEF IsLatest
    <3> QED
      BY <1>3, <3>1, <3>2
  <2>3. ASSUME ObservedPass(d)
        PROVE  table[d].verdict = "pass"
    <3>1. PICK k \in DOMAIN runs :
            /\ Landed(runs, k, d) /\ runs[k].verdict = "pass"
            /\ \A m \in DOMAIN runs : m > k => ~ Landed(runs, m, d)
      BY <1>3, <2>3
    <3>2. k <= table[d].by /\ table[d].by # 0
      BY <1>2, <2>1, <3>1 DEF IsLatest
    <3>3. /\ table[d].by \in DOMAIN runs /\ Landed(runs, table[d].by, d)
          /\ table[d].verdict = runs[table[d].by].verdict
      BY <2>1, <3>2 DEF IsLatest, Landed
    <3>4. table[d].by = k
      BY <1>2, <2>1, <3>1, <3>2, <3>3
    <3> QED
      BY <3>1, <3>3, <3>4
  <2> QED
    BY <1>1, <1>5, <2>2, <2>3
<1>6. Trailing(asOf)[i] = "pass" <=> ObservedPass(d)
  BY <1>4, <1>5
<1> QED
  BY <1>6 DEF d

\* What a run reads back, it counts.
LEMMA HistoryMoves ==
  ASSUME StreakTypeOK, NEW n \in DOMAIN runs, ReadHistory(n)
  PROVE  /\ runs'[n].streak = StreakOf(Trailing(runs[n].asOf))
         /\ runs'[n].failsToday = (Trailing(runs[n].asOf)[0] = "fail")
         /\ runs'[n].landed = runs[n].landed /\ runs'[n].verdict = runs[n].verdict
         /\ runs'[n].asOf = runs[n].asOf
<1> DEFINE v == Trailing(runs[n].asOf)
<1>1. Decide(n, "history", v)
  BY DEF ReadHistory
<1> HIDE DEF v
<1>2. PICK r \in Run :
        /\ runs' = [runs EXCEPT ![n] = r] /\ r.phase = "history"
        /\ r.asOf = runs[n].asOf /\ r.landed = runs[n].landed
        /\ r.verdict = runs[n].verdict
        /\ r.streak = StreakOf(v) /\ r.failsToday = (v[0] = "fail")
  BY <1>1, DecideMoves
<1>3. runs'[n] = r
  BY <1>2, OneRunMoves
<1> QED
  BY <1>2, <1>3 DEF v

LEMMA TodaysFailIsSeenStep ==
  ASSUME StreakTypeOK, LandedHasWritten, TableIsLatest, TodaysFailIsSeen,
         [StreakNext]_streakVars
  PROVE  TodaysFailIsSeen'
<1>1. RunsGoOn
  BY StreakSteps
<1>2. SUFFICES ASSUME NEW n \in DOMAIN runs', runs'[n].phase = "history",
                      runs'[n].landed, runs'[n].verdict = "fail"
               PROVE  \/ runs'[n].failsToday
                      \/ \E m \in DOMAIN runs' :
                           /\ m > n /\ runs'[m].landed
                           /\ runs'[m].asOf = runs'[n].asOf
  BY DEF TodaysFailIsSeen
<1>3. n \in DOMAIN runs
  BY <1>1, <1>2 DEF RunsGoOn
<1>4. ASSUME NEW m \in DOMAIN runs, m > n, Landed(runs, m, runs[n].asOf)
      PROVE  \E k \in DOMAIN runs' :
               k > n /\ runs'[k].landed /\ runs'[k].asOf = runs'[n].asOf
  BY <1>1, <1>3, <1>4 DEF RunsGoOn, Landed
<1>5. CASE runs[n].phase = "history"
  BY <1>1, <1>2, <1>3, <1>4, <1>5 DEF RunsGoOn, TodaysFailIsSeen, Landed
<1>6. CASE runs[n].phase # "history"
  <2>1. ReadHistory(n)
    BY <1>1, <1>2, <1>3, <1>6 DEF RunsGoOn
  <2>2. runs[n].asOf \in Days /\ n \in Nat \ {0}
    <3>1. runs[n] \in Run /\ n \in Nat \ {0}
      BY <1>3, ElementOfSeq DEF StreakTypeOK
    <3> QED
      BY <3>1 DEF Run
  <2> PICK day \in Days : day = runs[n].asOf
    BY <2>2
  <2>3. Trailing(day)[0] = table[day].verdict
    BY StreakAssumption DEF Trailing, Days
  <2>4. /\ runs'[n].failsToday = (Trailing(day)[0] = "fail")
        /\ Landed(runs, n, day) /\ runs[n].verdict = "fail"
    BY <1>2, <1>3, <2>1, HistoryMoves DEF Landed
  <2>5. table[day].by \in Nat /\ IsLatest(runs, table[day], day)
    BY StreakAssumption DEF StreakTypeOK, TableIsLatest
  <2>6. n <= table[day].by
    BY <1>3, <2>4, <2>5 DEF IsLatest
  <2>7. /\ Landed(runs, table[day].by, day)
        /\ table[day].verdict = runs[table[day].by].verdict
    BY <2>2, <2>5, <2>6 DEF IsLatest
  <2>8. CASE table[day].by = n
    BY <2>3, <2>4, <2>7, <2>8
  <2>9. CASE table[day].by # n
    <3>1. table[day].by \in DOMAIN runs /\ table[day].by > n
      BY <2>2, <2>5, <2>6, <2>7, <2>9 DEF Landed
    <3> QED
      BY <1>4, <2>7, <3>1
  <2> QED
    BY <2>8, <2>9
<1> QED
  BY <1>5, <1>6

-------------------------------------------------------------------------------
(* The theorems.                                                             *)

\* No run has started: no row, no verdict, nothing seen.
LEMMA StreakInitInv == StreakInit => StreakInv
<1> SUFFICES ASSUME StreakInit
             PROVE  StreakInv
  OBVIOUS
<1>1. StreakTypeOK
  BY StreakAssumption DEF StreakInit, StreakTypeOK, Days, Verdicts
<1>2. DOMAIN runs = {}
  BY DEF StreakInit
<1>3. \A d \in Days : table[d].by = 0 /\ table[d].verdict = "none"
  BY DEF StreakInit
<1> QED
  BY <1>1, <1>2, <1>3
     DEF StreakInv, LandedHasWritten, TableIsLatest, IsLatest, TodaysFailIsSeen

\* Each day's row is that of the last run, by start, whose write has landed, in
\* every order of starts, reads, writes and lost writes (ReplacingMergeTree on
\* evaluated_at, kill_criteria_daily).
THEOREM StreakInvariant == StreakSpec => []StreakInv
<1>1. StreakInit => StreakInv
  BY StreakInitInv
<1>2. StreakInv /\ [StreakNext]_streakVars => StreakInv'
  BY StreakTypeStep, StreakSteps, TableIsLatestStep, TodaysFailIsSeenStep
     DEF StreakInv
<1> QED
  BY <1>1, <1>2, PTL DEF StreakSpec

\* A run whose day fails is told so by its own read, unless its write was lost or
\* a later run has judged the day (writeDay before loadTrailing30).
THEOREM StreakSeesTodaysFail == StreakSpec => []TodaysFailIsSeen
<1>1. StreakInv => TodaysFailIsSeen
  BY DEF StreakInv
<1> QED
  BY <1>1, StreakInvariant, PTL

\* The streak read back is the run of calendar days, ending today, whose last
\* evaluation passed: no day is counted that is not, and none is left out
\* (loadTrailing30, countConsecutiveA1A5PassDays).
THEOREM StreaksAreObserved == StreakSpec => StreakIsObserved
<1>1. StreakInv /\ [StreakNext]_streakVars =>
        [\A n \in DOMAIN runs : Decides(n, "history") =>
           LET asOf == runs[n].asOf  streak == runs'[n].streak
           IN  /\ \A i \in 0 .. (streak - 1) : ObservedPass(asOf - i)
               /\ streak < TrailingDays => ~ ObservedPass(asOf - streak)]_streakVars
  <2> SUFFICES ASSUME StreakInv, [StreakNext]_streakVars,
                      NEW n \in DOMAIN runs, Decides(n, "history")
               PROVE  /\ \A i \in 0 .. (runs'[n].streak - 1) :
                           ObservedPass(runs[n].asOf - i)
                      /\ runs'[n].streak < TrailingDays =>
                           ~ ObservedPass(runs[n].asOf - runs'[n].streak)
    OBVIOUS
  <2>1. StreakTypeOK /\ LandedHasWritten /\ TableIsLatest
    BY DEF StreakInv
  <2>2. ReadHistory(n)
    BY <2>1, StreakSteps DEF RunsGoOn, Decides
  <2>3. runs[n].asOf \in Days
    <3>1. runs[n] \in Run
      BY <2>1, ElementOfSeq DEF StreakTypeOK
    <3> QED
      BY <3>1 DEF Run
  <2> PICK asOf \in Days : asOf = runs[n].asOf
    BY <2>3
  <2> DEFINE v == Trailing(asOf)
             streak == StreakOf(v)
  <2>4. runs'[n].streak = streak
    BY <2>1, <2>2, HistoryMoves
  <2>5. \A i \in 0 .. (TrailingDays - 1) : v[i] = "pass" <=> ObservedPass(asOf - i)
    BY <2>1, ReadIsObserved
  <2> HIDE DEF v
  <2>6. /\ streak \in 0 .. TrailingDays
        /\ \A i \in 0 .. (streak - 1) : v[i] = "pass"
        /\ streak < TrailingDays => v[streak] # "pass"
    BY StreakIsLeading
  <2> HIDE DEF streak
  <2>7. TrailingDays \in Nat
    BY StreakAssumption
  <2>8. \A i \in 0 .. (streak - 1) : ObservedPass(asOf - i)
    BY <2>5, <2>6, <2>7
  <2>9. streak < TrailingDays => ~ ObservedPass(asOf - streak)
    BY <2>5, <2>6, <2>7
  <2> QED
    BY <2>4, <2>8, <2>9
<1> QED
  BY <1>1, StreakInvariant, PTL DEF StreakSpec, StreakIsObserved
===============================================================================
