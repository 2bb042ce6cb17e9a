------------------------------ MODULE MCWatcher ------------------------------
(* Three bundles on one token: a batch of three cells over two workers, and   *)
(* two of the cells may fail.                                                 *)
EXTENDS Watcher

CONSTANTS b1, b2, b3, t1, w1, w2

MCBundles == {b1, b2, b3}
MCTokens == {t1}
MCJobs == {b1, b2, b3} \X {t1}
MCFailing == {b1, b2} \X {t1}
==============================================================================
