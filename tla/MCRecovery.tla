---------------------------- MODULE MCRecovery ----------------------------
(* Instance of Recovery for TLC; the pool is a sequence of model values.   *)
EXTENDS Recovery, TLC
CONSTANTS e1, e2
Pool1 == <<e1>>
Pool2 == <<e1, e2>>
=============================================================================
