------------------------------ MODULE PassStreak -------------------------------
(***************************************************************************)
(* The streak of days on which the kill criteria A1-A5 pass, which paper   *)
(* must show before it is promoted.  Each run evaluates the criteria over  *)
(* the closed trades, writes the verdict of its day to kill_criteria_daily *)
(* and reads the last days back.  If the read fails, or the table is not   *)
(* there, it evaluates every one of the last days anew (the rolling        *)
(* shortcut).  The write may fail too, and the read goes on without it.    *)
(*                                                                         *)
(* Three criteria are modelled: A2, over all trades, and A4 and A5, over   *)
(* a window of days.  B1 always passes, A3 is over all trades as A2 is,    *)
(* and of A4 only the number of trades is kept, not their correlation.     *)
(***************************************************************************)
EXTENDS Integers, FiniteSets, Sequences, FiniteSetsExt

CONSTANTS
  TrailingDays,  \* KILL_CRITERIA_DAILY_TRAILING_DAYS
  WindowDays,    \* A_TRAILING_WINDOW_DAYS
  MinTrades,     \* A4_MIN_TRADES_PER_BUNDLE
  WorstLoss,     \* the loss of one trade that A2 allows
  LossLimit,     \* the loss of a window that A5 allows
  Pnls,          \* what a trade may gain
  LastDay,       \* bound: last day
  MaxTrades,     \* bound: trades closed
  MaxRuns        \* bound: runs started

ASSUME StreakAssumption ==
  /\ TrailingDays \in Nat \ {0} /\ WindowDays \in Nat
  /\ MinTrades \in Nat /\ Pnls \subseteq Int
  /\ LastDay \in Nat \ {0} /\ MaxTrades \in Nat /\ MaxRuns \in Nat

Days == 1 .. LastDay
Verdicts == {"none", "insufficient", "fail", "pass"}

VARIABLES
  today,   \* the current day
  trades,  \* closed trades, as they were recorded
  table,   \* kill_criteria_daily: day -> verdict, and the run it is of
  runs     \* the runs, by the order of their starts

streakVars == <<today, trades, table, runs>>

Run ==
  [asOf : Days, known : 0 .. MaxTrades, verdict : Verdicts, landed : BOOLEAN,
   phase : {"started", "loaded", "read", "history", "rolling"},
   streak : 0 .. TrailingDays, failsToday : BOOLEAN]

StreakTypeOK ==
  /\ today \in Days
  /\ trades \in Seq([exit : 0 .. LastDay, pnl : Pnls]) /\ Len(trades) <= MaxTrades
  /\ table \in [Days -> [verdict : Verdicts, by : 0 .. MaxRuns]]
  /\ runs \in Seq(Run) /\ Len(runs) <= MaxRuns

-------------------------------------------------------------------------------
\* The windows of A4 and A5 have a first day and no last one.
InWindow(known, asOf) == {i \in 1 .. known : trades[i].exit >= asOf - WindowDays}

\* evaluateA2: the worst trade of all.
A2(known) ==
  IF \E i \in 1 .. known : trades[i].pnl < - WorstLoss THEN "fail" ELSE "pass"

\* evaluateA4, without the correlation.
A4(known, asOf) ==
  IF Cardinality(InWindow(known, asOf)) < MinTrades THEN "insufficient" ELSE "pass"

\* evaluateA5: what the window's trades gained, for a ledger older than it.
A5(known, asOf) ==
  LET window == InWindow(known, asOf)
  IN  IF window \in {{}, 1 .. known} THEN "insufficient"
      ELSE IF MapThenSumSet(LAMBDA i : trades[i].pnl, window) < - LossLimit
             THEN "fail" ELSE "pass"

\* evaluateKillCriteria and dayPassesA1A5: a day is as good as its worst criterion.
Verdict(known, asOf) ==
  LET all == {A2(known), A4(known, asOf), A5(known, asOf)}
  IN  CASE "fail" \in all -> "fail"
        [] all = {"pass"} -> "pass"
        [] OTHER -> "insufficient"

\* Mutant: the days that have a row, however far back they are.
TrailingRows(asOf) ==
  LET kept == {d \in 1 .. asOf : table[d].verdict # "none"}
  IN  [i \in 0 .. (TrailingDays - 1) |->
         IF \E d \in kept : Cardinality({e \in kept : e > d}) = i
           THEN table[CHOOSE d \in kept : Cardinality({e \in kept : e > d}) = i].verdict
           ELSE "none"]

\* loadTrailing30: calendar days back from asOf; a day without a row is empty.
Trailing(asOf) ==
  [i \in 0 .. (TrailingDays - 1) |->
     IF asOf - i \in Days THEN table[asOf - i].verdict ELSE "none"]

\* buildRollingAsofTrailing30: today's trades, evaluated as of each day.
Rolling(known, asOf) == [i \in 0 .. (TrailingDays - 1) |-> Verdict(known, asOf - i)]

\* countConsecutiveA1A5PassDays.
StreakOf(verdicts) ==
  Cardinality({s \in 1 .. TrailingDays : \A i \in 0 .. (s - 1) : verdicts[i] = "pass"})

\* Mutant: the row that is there stays.
FirstRow(row, n, verdict) ==
  IF row.by = 0 THEN [verdict |-> verdict, by |-> n] ELSE row

\* The table is replacing, by evaluated_at: the start of the run.
Supersede(row, n, verdict) ==
  IF row.by < n THEN [verdict |-> verdict, by |-> n] ELSE row

-------------------------------------------------------------------------------
StreakInit ==
  /\ today = 1
  /\ trades = <<>>
  /\ table = [d \in Days |-> [verdict |-> "none", by |-> 0]]
  /\ runs = <<>>

\* A day passes, with or without a run.
NewDay ==
  /\ today < LastDay
  /\ today' = today + 1
  /\ UNCHANGED <<trades, table, runs>>

\* closeTrade: the exit is stamped with the newest bar's time, today's or the
\* day's before.
CloseTrade ==
  /\ Len(trades) < MaxTrades
  /\ \E pnl \in Pnls, exit \in (today - 1) .. today :
       trades' = Append(trades, [exit |-> exit, pnl |-> pnl])
  /\ UNCHANGED <<today, table, runs>>

\* The daemon starts: asOf is its clock.
StartRun ==
  /\ Len(runs) < MaxRuns
  /\ runs' = Append(runs, [asOf |-> today, known |-> 0, verdict |-> "none",
                           landed |-> FALSE, phase |-> "started", streak |-> 0,
                           failsToday |-> FALSE])
  /\ UNCHANGED <<today, trades, table>>

\* listClosedTrades, and todaysVerdicts over what it returns.
LoadTrades(n) ==
  /\ runs[n].phase = "started"
  /\ runs' = [runs EXCEPT ![n] =
                 [@ EXCEPT !.phase = "loaded", !.known = Len(trades),
                           !.verdict = Verdict(Len(trades), runs[n].asOf)]]
  /\ UNCHANGED <<today, trades, table>>

\* writeDay, with a row that lands or, the error being swallowed, does not.
WriteDay(n, lands) ==
  /\ runs[n].phase = "loaded"
  /\ table' = IF lands
                THEN [table EXCEPT ![runs[n].asOf] = Supersede(@, n, runs[n].verdict)]
                ELSE table
  /\ runs' = [runs EXCEPT ![n] = [@ EXCEPT !.phase = "read", !.landed = lands]]
  /\ UNCHANGED <<today, trades>>

\* What evaluateStageState makes of the verdicts it is handed.
Decide(n, path, verdicts) ==
  /\ runs' = [runs EXCEPT ![n] =
                 [@ EXCEPT !.phase = path, !.streak = StreakOf(verdicts),
                           !.failsToday = (verdicts[0] = "fail")]]
  /\ UNCHANGED <<today, trades, table>>

ReadHistory(n) ==
  runs[n].phase = "read" /\ Decide(n, "history", Trailing(runs[n].asOf))

\* The read fails, or there is no table to write to or to read.
FallBack(n) ==
  /\ runs[n].phase \in {"loaded", "read"}
  /\ Decide(n, "rolling", Rolling(runs[n].known, runs[n].asOf))

StreakNext ==
  \/ NewDay \/ CloseTrade \/ StartRun
  \/ \E n \in DOMAIN runs :
       \/ LoadTrades(n)
       \/ \E lands \in BOOLEAN : WriteDay(n, lands)
       \/ ReadHistory(n) \/ FallBack(n)

StreakSpec == StreakInit /\ [][StreakNext]_streakVars

-------------------------------------------------------------------------------
Decides(n, path) == runs[n].phase # path /\ runs'[n].phase = path

\* The last evaluation of day d on file passed: the last by start, not by landing.
ObservedPass(d) ==
  \E n \in DOMAIN runs :
    /\ runs[n].landed /\ runs[n].asOf = d /\ runs[n].verdict = "pass"
    /\ \A m \in DOMAIN runs : m > n => ~ (runs[m].landed /\ runs[m].asOf = d)

\* A streak read back is made of calendar days in a row that end with the run's
\* and whose last evaluation passed when it was made, and of all of them:
\* through runs that overlap, repeat, or miss a day (loadTrailing30).
StreakIsObserved ==
  [][\A n \in DOMAIN runs : Decides(n, "history") =>
       LET asOf == runs[n].asOf  streak == runs'[n].streak
       IN  /\ \A i \in 0 .. (streak - 1) : ObservedPass(asOf - i)
           /\ streak < TrailingDays => ~ ObservedPass(asOf - streak)]_streakVars

\* A criterion that fails is seen by the run that finds it, unless its write was
\* lost or a later run has judged the day (writeDay before loadTrailing30).
TodaysFailIsSeen ==
  \A n \in DOMAIN runs :
    /\ runs[n].phase = "history" /\ runs[n].landed /\ runs[n].verdict = "fail"
    => \/ runs[n].failsToday
       \/ \E m \in DOMAIN runs : m > n /\ runs[m].landed /\ runs[m].asOf = runs[n].asOf

-------------------------------------------------------------------------------
(* What the documentation says and the code does not do.                     *)

\* "false-negative on promotion, never false-positive": a run that falls back to
\* the rolling shortcut, with no other run under way, counts no earlier day as
\* passing that was recorded as failing (buildRollingAsofTrailing30).
FallbackIsStricter ==
  [][\A n \in DOMAIN runs :
       /\ Decides(n, "rolling")
       /\ \A m \in DOMAIN runs : m # n => runs[m].phase \in {"history", "rolling"}
       => \A i \in 1 .. (runs'[n].streak - 1) :
            runs[n].asOf - i \in Days => table[runs[n].asOf - i].verdict # "fail"]_streakVars
===============================================================================
