---------------------------- MODULE MCStoreQueue ----------------------------
(* A small instance of StoreQueue: more requests than the queue holds, two  *)
(* workers that can drain it while it fills, and two goroutines that call   *)
(* Close. Workers and Closers are given in the cfg.                         *)
EXTENDS StoreQueue

CONSTANTS r1, r2, r3, noip

MCRequests == {r1, r2, r3, noip}
MCAddressed == {r1, r2, r3}
=============================================================================
