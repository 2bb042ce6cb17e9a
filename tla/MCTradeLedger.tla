---------------------------- MODULE MCTradeLedger -----------------------------
(* Two tokens, so that a run can be cut between their writes.                 *)
EXTENDS TradeLedger, TLC

CONSTANTS t1, t2

MCTokens == {t1, t2}
Symmetry == Permutations(MCTokens)
==============================================================================
