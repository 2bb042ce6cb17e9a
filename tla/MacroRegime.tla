------------------------------ MODULE MacroRegime ------------------------------
(***************************************************************************)
(* The macro regime classifier (phase1_v3): one row of macro_regimes per   *)
(* trading day, made from the categories that fire on that day and on the  *)
(* trading days before it.  Two writers share the table: the backfill,     *)
(* which threads the last days' categories through its date range, and the *)
(* daily run, which backfills the newest complete day alone.               *)
(*                                                                         *)
(* A category's indicator over its source's bars is a choice (firings);    *)
(* what matters here is on which days the source has a bar.  Bars arrive   *)
(* by fetches that bring a source up to date or fail for it; a day may be  *)
(* missing from a source for good.  macro_regimes is a ReplacingMergeTree  *)
(* on the trade date: the newest row wins.                                 *)
(***************************************************************************)
EXTENDS Integers, FiniteSets, FiniteSetsExt, SequencesExt

CONSTANTS
  Categories,       \* one source of bars for each
  Soft,             \* those whose source (FRED, CBOE) the daily run does not wait for
  Spy,              \* the source whose bars are the trading calendar
  RedCount,         \* categories in the window that make a day red
  OrangeCount,      \* categories on the day that make it orange
  Window,           \* trading days, the day itself included
  LastMarketDay,    \* bound: last day
  MaxRegimeFaults   \* bound: days a source misses for good, and fetches that fail

ASSUME RegimeAssumption ==
  /\ IsFiniteSet(Categories)
  /\ RedCount \in Nat /\ OrangeCount \in Nat /\ Window \in Nat \ {0}
  /\ LastMarketDay \in Nat /\ MaxRegimeFaults \in Nat

Sources == Categories \cup {Spy}
Candles == Sources \ Soft
MarketDays == 1 .. LastMarketDay

VARIABLES
  marketDay,   \* the current day
  firings,     \* day -> categories whose indicator fires on the day's bar
  holes,       \* source -> days it will never have
  bars,        \* source -> days it has a bar for
  regimeRows,  \* macro_regimes: day -> its row
  faults       \* faults that have happened

regimeVars == <<marketDay, firings, holes, bars, regimeRows, faults>>

Regimes == {"green", "yellow", "orange", "red"}

NoRow == [regime |-> "none", fires |-> {}, fires5d |-> {}, missing |-> {}]

RegimeRow ==
  [regime : Regimes, fires : SUBSET Categories,
   fires5d : SUBSET Categories, missing : SUBSET Categories]

RegimeTypeOK ==
  /\ marketDay \in 0 .. LastMarketDay
  /\ firings \in [MarketDays -> SUBSET Categories]
  /\ holes \in [Sources -> SUBSET MarketDays]
  /\ bars \in [Sources -> SUBSET (1 .. marketDay)]
  /\ regimeRows \in [MarketDays -> RegimeRow \cup {NoRow}]
  /\ faults \in 0 .. MaxRegimeFaults

-------------------------------------------------------------------------------
\* Mutant: a missing bar repeats the one before it.
FiresForward(d) ==
  {c \in Categories : \E e \in bars[c] :
     e <= d /\ c \in firings[e] /\ \A f \in bars[c] : f <= e \/ d < f}

\* A category without a bar on the day cannot fire.
Fires(d) == {c \in firings[d] : d \in bars[c]}

\* Mutant: a quiet day has no regime.
RegimeOfFiring(fires, fires5d) ==
  CASE Cardinality(fires5d) >= RedCount -> "red"
    [] Cardinality(fires5d) < RedCount /\ Cardinality(fires) >= OrangeCount
         -> "orange"
    [] Cardinality(fires5d) < RedCount /\ Cardinality(fires) = 1 -> "yellow"
    [] OTHER -> "none"

\* The rule, in the order the code asks.
RegimeOf(fires, fires5d) ==
  CASE Cardinality(fires5d) >= RedCount -> "red"
    [] Cardinality(fires5d) < RedCount /\ Cardinality(fires) >= OrangeCount
         -> "orange"
    [] Cardinality(fires5d) < RedCount /\ Cardinality(fires) = 1 -> "yellow"
    [] OTHER -> "green"

LastOf(s, n) == SubSeq(s, 1 + (IF Len(s) > n THEN Len(s) - n ELSE 0), Len(s))

\* classifyMacroRegimeV3: the day's row, from the days threaded before it.
Classify(d, priors) ==
  LET fires == Fires(d)
      fires5d == UNION ToSet(LastOf(Append(priors, fires), Window))
  IN  [regime |-> RegimeOf(fires, fires5d), fires |-> fires,
       fires5d |-> fires5d, missing |-> {c \in Categories : d \notin bars[c]}]

\* Mutant: one day too few is carried on.
PriorsShort(from, to) ==
  LET priors[d \in from .. (to + 1)] ==
        IF d = from THEN <<>>
        ELSE IF (d - 1) \notin bars[Spy] THEN priors[d - 1]
        ELSE LastOf(Append(priors[d - 1], Fires(d - 1)), Window - 2)
  IN  priors

\* The last days' categories as the loop threads them: none before the first
\* date of the range, trading days only.
Priors(from, to) ==
  LET priors[d \in from .. (to + 1)] ==
        IF d = from THEN <<>>
        ELSE IF (d - 1) \notin bars[Spy] THEN priors[d - 1]
        ELSE LastOf(Append(priors[d - 1], Fires(d - 1)), Window - 1)
  IN  priors

\* classifyDateRangeFromBundleV3 and the insert: every trading day of the range.
ClassifyRange(from, to) ==
  LET priors == Priors(from, to)
  IN  [d \in MarketDays |-> IF d \in from .. to /\ d \in bars[Spy]
                              THEN Classify(d, priors[d]) ELSE regimeRows[d]]

Reporting == {s \in Candles : bars[s] # {}}

\* Mutant: the newest day any candle source has.
AnyDay == IF Reporting = {} THEN 0 ELSE Max({Max(bars[s]) : s \in Reporting})

\* The newest day every candle source has reached; a source without bars has
\* no group in the query and holds nothing back.
LatestDay == IF Reporting = {} THEN 0 ELSE Min({Max(bars[s]) : s \in Reporting})

-------------------------------------------------------------------------------
RegimeInit ==
  /\ marketDay = 0
  /\ firings = [d \in MarketDays |-> {}]
  /\ holes = [s \in Sources |-> {}]
  /\ bars = [s \in Sources |-> {}]
  /\ regimeRows = [d \in MarketDays |-> NoRow]
  /\ faults = 0

\* A day passes on the markets.
NextMarketDay ==
  /\ marketDay < LastMarketDay
  /\ marketDay' = marketDay + 1
  /\ \E C \in SUBSET Categories : firings' = [firings EXCEPT ![marketDay + 1] = C]
  /\ \/ UNCHANGED <<holes, faults>>
     \/ /\ faults < MaxRegimeFaults
        /\ \E s \in Sources : holes' = [holes EXCEPT ![s] = @ \cup {marketDay + 1}]
        /\ faults' = faults + 1
  /\ UNCHANGED <<bars, regimeRows>>

UpToDate(S) ==
  bars' = [s \in Sources |-> IF s \in S THEN (1 .. marketDay) \ holes[s] ELSE bars[s]]

\* The daily fetch brings the sources up to date.
Fetch ==
  /\ UpToDate(Sources)
  /\ UNCHANGED <<marketDay, firings, holes, regimeRows, faults>>

\* It fails for one of them, which stays behind.
FetchFails ==
  /\ faults < MaxRegimeFaults
  /\ \E s \in Sources : UpToDate(Sources \ {s})
  /\ faults' = faults + 1
  /\ UNCHANGED <<marketDay, firings, holes, regimeRows>>

\* classifyLatestMacroRegimeV3: the backfill of one day.
ClassifyLatest ==
  /\ LatestDay # 0
  /\ regimeRows' = ClassifyRange(LatestDay, LatestDay)
  /\ UNCHANGED <<marketDay, firings, holes, bars, faults>>

\* backfillMacroRegimesV3, started by hand over any range.
Backfill(from, to) ==
  /\ regimeRows' = ClassifyRange(from, to)
  /\ UNCHANGED <<marketDay, firings, holes, bars, faults>>

RegimeNext ==
  \/ NextMarketDay
  \/ Fetch
  \/ FetchFails
  \/ ClassifyLatest
  \/ \E to \in 1 .. marketDay : \E from \in 1 .. to : Backfill(from, to)

RegimeSpec == RegimeInit /\ [][RegimeNext]_regimeVars

-------------------------------------------------------------------------------
\* The trading days d's row should be made from, whoever writes it.
WindowOf(d) ==
  {e \in bars[Spy] : e <= d /\ Cardinality({f \in bars[Spy] : e < f /\ f <= d}) < Window}

\* The categories with a bar on some day of D that fires.
Firing(D) == {c \in Categories : \E e \in D \cap bars[c] : c \in firings[e]}

\* No row overstates its day: late bars, holes, partial ranges and daily runs
\* can only hide a category, never show one the window's bars do not justify
\* (classifyMacroRegimeV3, NULL inputs and prior_days_fires).
NeverOverstated ==
  \A d \in MarketDays :
    /\ regimeRows[d].fires5d \subseteq Firing(WindowOf(d))
    /\ regimeRows[d].regime = "red" => Cardinality(Firing(WindowOf(d))) >= RedCount
    /\ regimeRows[d].regime = "orange" => Cardinality(Firing({d})) >= OrangeCount
    /\ regimeRows[d].regime = "yellow" => Firing({d}) # {}

\* A backfill whose range holds a day's whole window makes that day's row from
\* all of it, over gaps in the calendar (the threading of prior_days_fires).
BackfillIsReference ==
  \A from \in 1 .. marketDay : \A d \in bars[Spy] \cap (from .. marketDay) :
    WindowOf(d) \subseteq from .. d =>
      LET row == ClassifyRange(from, marketDay)[d]
      IN  row.fires5d = Firing(WindowOf(d)) /\ row.fires = Firing({d})

\* The row the daily run would write lacks a category with a candle source only
\* if the source missed the day for good or has no bar at all: it never runs
\* ahead of a late source (classifyLatestMacroRegimeV3, the readiness query).
DailyRowIsComplete ==
  LatestDay \in bars[Spy] =>
    \A c \in Categories \ Soft :
      LatestDay \in bars[c] \cup holes[c] \/ bars[c] = {}

-------------------------------------------------------------------------------
(* What the documentation says and the code does not do.                     *)

\* classifyLatestMacroRegimeV3: reusing the backfill leaves no separate code
\* path that could drift from it; the daily row is the one a backfill of the
\* corpus would write.
LiveRowIsBackfillRow ==
  [][ClassifyLatest /\ LatestDay \in bars[Spy]
       => regimeRows'[LatestDay].regime = ClassifyRange(1, LatestDay)[LatestDay].regime]_regimeVars
==============================================================================
