----------------------------- MODULE MCUsageLimits -----------------------------
(* Small instances of UsageLimits for TLC. *)
EXTENDS UsageCosts

CONSTANTS t1, t2, t3, k1, k2

MCKeyOf == [t \in Calls |-> IF t = t3 THEN k2 ELSE k1]
MCEstimate == [t \in Calls |-> 2]
===============================================================================
