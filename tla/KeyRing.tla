------------------------------- MODULE KeyRing -------------------------------
(***************************************************************************)
(* What the API keys promise, whatever the sessions that handle them do: a *)
(* key is issued once and withdrawn for good, and a key takes the place of *)
(* another in one step.                                                    *)
(***************************************************************************)
CONSTANT Keys

VARIABLE state

Init == state = [k \in Keys |-> "unborn"]

Issued(k) == state[k] # "unborn"

\* A key is given to a client, by a signup or by an administrator.
Issue(k) ==
    /\ state[k] = "unborn"
    /\ state' = [state EXCEPT ![k] = "valid"]

\* A rotation: the old key may have been revoked while it was prepared.
Replace(old, new) ==
    /\ Issued(old)
    /\ state[new] = "unborn"
    /\ state' = [state EXCEPT ![old] = "revoked", ![new] = "valid"]

\* The revocation of one key, or of those a deleted client has.
Withdraw(S) ==
    /\ \A k \in S : Issued(k)
    /\ state' = [k \in Keys |-> IF k \in S THEN "revoked" ELSE state[k]]

Next ==
    \/ \E k \in Keys : Issue(k)
    \/ \E old, new \in Keys : Replace(old, new)
    \/ \E S \in SUBSET Keys : Withdraw(S)

Spec == Init /\ [][Next]_state
===============================================================================
