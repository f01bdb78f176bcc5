--------------------------- MODULE MCGenerationJobs ---------------------------
(* Small instances of GenerationJobs for TLC. *)
EXTENDS GenerationJobs, TLC

CONSTANTS j1, j2, w1, w2, c1, b1, b2

MCClientOf == [j \in Jobs |-> c1]
MCRouteRank == [b \in Backends |-> IF b = b1 THEN 1 ELSE 2]
MCOneSeedActive == [b \in SeededBackends |-> TRUE]
MCOneSeedParallel == [b \in SeededBackends |-> 1]
MCTwoParallel == [b \in SeededBackends |-> 2]
MCSymmetry == Permutations(Jobs) \cup Permutations(Workers)
===============================================================================
