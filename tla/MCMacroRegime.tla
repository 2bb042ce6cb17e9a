---------------------------- MODULE MCMacroRegime -----------------------------
(* Two categories with candle sources and one without, so that red needs all  *)
(* three in a window of two trading days.                                     *)
EXTENDS MacroRegime, TLC

CONSTANTS credit, rotation, curve, spy

MCCategories == {credit, rotation, curve}
MCSoft == {curve}
Symmetry == Permutations({credit, rotation})
==============================================================================
