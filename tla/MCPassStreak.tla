----------------------------- MODULE MCPassStreak ------------------------------
(* A loss that A5 does not forgive, and a gain that makes up for it.         *)
EXTENDS PassStreak

MCPnls == {-2, 2}
===============================================================================
