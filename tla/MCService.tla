----------------------------- MODULE MCService -----------------------------
(* Instance of Service for TLC.                                            *)
EXTENDS Service, TLC
CONSTANTS e1
Pool1 == <<e1>>
=============================================================================
