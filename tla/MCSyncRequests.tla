---------------------------- MODULE MCSyncRequests ----------------------------
(* Small instances of SyncRequests for TLC. *)
EXTENDS SyncRequests

CONSTANTS r1, r2, r3, k1, k2, b1, b2

MCKeyOf == [r \in Requests |-> IF r = r1 THEN k1 ELSE k2]
MCRouteRank == [b \in Backends |-> IF b = b1 THEN 1 ELSE 2]
MCSeedActive == [b \in SeededBackends |-> TRUE]
MCSeedParallel == [b \in SeededBackends |-> 1]
===============================================================================
