---------------------------- MODULE MCStageMachine ----------------------------
(* One day for every minimum stay, two for the timer, two before stage 4.     *)
EXTENDS StageMachine

MCMinDays == [s \in 0 .. 3 |-> 1]
MCLevels == {2, 3}
MCRestart == {0, 3}
==============================================================================
