---------------------------- MODULE MCModelRegistry ----------------------------
(* Small instances of ModelRegistry for TLC. *)
EXTENDS ModelRegistry, TLC

CONSTANTS i1, i2, a1, a2, dn, b1, b2

\* gemma, with the fallback backend, and bonsai, whose backend is not enabled.
MCSeeds == <<[id |-> i1, alias |-> a1, backend |-> b1, fallback |-> {b2}],
             [id |-> i2, alias |-> a2, backend |-> b2, fallback |-> {}]>>
MCSeedUp == [b \in Backends |-> b = b1]

MCCreate == [id |-> i2, alias |-> NoName, active |-> TRUE, default |-> FALSE,
             primary |-> b2, routes |-> NoRoutes]
MCCreations == {[MCCreate EXCEPT !.default = TRUE, !.active = FALSE],
                [MCCreate EXCEPT !.alias = dn, !.primary = NoBackend],
                [MCCreate EXCEPT !.default = TRUE, !.routes = [b \in Backends |-> "on"]]}

MCPatch == [alias |-> Unset, active |-> Unset, default |-> Unset, primary |-> Unset,
            routes |-> Unset]
MCPatches ==
    {[MCPatch EXCEPT !.default = FALSE, !.alias = NoName],
     [MCPatch EXCEPT !.default = TRUE, !.active = FALSE],
     [MCPatch EXCEPT !.default = TRUE, !.primary = b2],
     [MCPatch EXCEPT !.active = FALSE, !.alias = a1, !.routes = [b \in Backends |-> "off"]]}

MCSymmetry == Permutations(Models) \cup Permutations(Sessions)
===============================================================================
