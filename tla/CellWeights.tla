----------------------------- MODULE CellWeights -----------------------------
(***************************************************************************)
(* The tier of the cell weights.  Each run of the daemon reads the tier of *)
(* the newest row of cell_weights_history that is not degraded, fetches    *)
(* the cells' returns, and uses the tier the sample allows, but none below *)
(* the one it has read: the ratchet.  At its end it writes a row under the *)
(* time it started.                                                        *)
(*                                                                         *)
(* Runs are numbered in the order they start and may overlap.  The read    *)
(* may fail, and then counts as no tier at all; the fetch may fail, which  *)
(* makes the row a degraded one; the run may end without a row.            *)
(***************************************************************************)
EXTENDS Integers

CONSTANT MaxStarts   \* bound: runs

ASSUME WeightsAssumption == MaxStarts \in Nat

Starts == 1 .. MaxStarts

VARIABLES
  started,   \* runs that have been started
  weighing,  \* run -> what it has read and chosen
  history,   \* rows of cell_weights_history
  unseen     \* a tier on file has been missed by the read of a run above it

weightsVars == <<started, weighing, history, unseen>>

Tiers == 0 .. 2

Weighing ==
  [at : {"off", "prior", "fetch", "trade"}, prior : Tiers, tier : Tiers,
   degraded : BOOLEAN]

Off == [at |-> "off", prior |-> 0, tier |-> 0, degraded |-> FALSE]

WeightsTypeOK ==
  /\ started \in 0 .. MaxStarts
  /\ weighing \in [Starts -> Weighing]
  /\ history \subseteq [run : Starts, tier : Tiers, degraded : BOOLEAN]
  /\ unseen \in BOOLEAN

-------------------------------------------------------------------------------
\* Mutant: degraded rows are read like any other.
ReadableAll == history

\* The rows the query for the prior tier reads.
Readable == {x \in history : ~ x.degraded}

\* loadPriorActiveCellWeightsTier: the newest readable row's tier, or none (T0).
IsPriorTier(t) ==
  \/ Readable = {} /\ t = 0
  \/ \E x \in Readable : t = x.tier /\ \A y \in Readable : y.run <= x.run

\* selectCellWeightsTier: what the sample allows, or the prior tier above it.
SelectTier(sample, prior) == IF prior > sample THEN prior ELSE sample

-------------------------------------------------------------------------------
WeightsInit ==
  /\ started = 0
  /\ weighing = [n \in Starts |-> Off]
  /\ history = {}
  /\ unseen = FALSE

StartRun ==
  /\ started < MaxStarts
  /\ started' = started + 1
  /\ weighing' = [weighing EXCEPT ![started + 1].at = "prior"]
  /\ UNCHANGED <<history, unseen>>

ReadPriorTier(n) ==
  /\ weighing[n].at = "prior"
  /\ \E t \in Tiers :
       /\ IsPriorTier(t)
       /\ weighing' = [weighing EXCEPT ![n].at = "fetch", ![n].prior = t]
  /\ UNCHANGED <<started, history, unseen>>

\* The query throws: the run goes on as if there were no history.
ReadPriorFails(n) ==
  /\ weighing[n].at = "prior"
  /\ weighing' = [weighing EXCEPT ![n].at = "fetch"]
  /\ unseen' = (unseen \/ \E x \in Readable : x.tier > 0)
  /\ UNCHANGED <<started, history>>

\* resolveCellWeightsForRun: how much the sample allows is a choice.
ResolveCellWeights(n) ==
  /\ weighing[n].at = "fetch"
  /\ \E sample \in Tiers :
       weighing' = [weighing EXCEPT ![n].at = "trade",
                      ![n].tier = SelectTier(sample, weighing[n].prior)]
  /\ UNCHANGED <<started, history, unseen>>

\* The returns cannot be fetched, or the weights cannot be computed from them.
FallBack(n) ==
  /\ weighing[n].at = "fetch"
  /\ weighing' = [weighing EXCEPT ![n].at = "trade", ![n].degraded = TRUE]
  /\ UNCHANGED <<started, history, unseen>>

\* A later run has already read the history, and may have written its row.
ReadAbove(n) ==
  \/ \E m \in Starts : m > n /\ weighing[m].at \in {"fetch", "trade"}
  \/ \E x \in Readable : x.run > n

\* persistCellWeightsHistoryRow, after the per-cell loop.
PersistRow(n) ==
  /\ weighing[n].at = "trade"
  /\ history' = history \cup
       {[run |-> n, tier |-> weighing[n].tier, degraded |-> weighing[n].degraded]}
  /\ weighing' = [weighing EXCEPT ![n] = Off]
  /\ unseen' = (unseen \/ (~ weighing[n].degraded /\ ReadAbove(n)))
  /\ UNCHANGED started

\* The run dies or aborts, is a dry run, or its insert fails.
EndWithoutRow(n) ==
  /\ weighing[n].at # "off"
  /\ weighing' = [weighing EXCEPT ![n] = Off]
  /\ UNCHANGED <<started, history, unseen>>

WeightsNext ==
  \/ StartRun
  \/ \E n \in Starts :
       \/ ReadPriorTier(n) \/ ReadPriorFails(n)
       \/ ResolveCellWeights(n) \/ FallBack(n)
       \/ PersistRow(n) \/ EndWithoutRow(n)

WeightsSpec == WeightsInit /\ [][WeightsNext]_weightsVars
-------------------------------------------------------------------------------
\* Over the runs that were not degraded the tier never falls, however many
\* outages lie between them, unless a run has missed a tier on file: because its
\* read failed, or a slower run wrote below it (the degraded = 0 filter of the
\* prior-tier lookup and the ratchet of selectCellWeightsTier).
RatchetHolds ==
  ~ unseen =>
    \A x, y \in history :
      x.run < y.run /\ ~ x.degraded /\ ~ y.degraded => x.tier <= y.tier
==============================================================================
