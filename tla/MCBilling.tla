------------------------------- MODULE MCBilling -------------------------------
(* Small instances of Billing for TLC. *)
EXTENDS Billing

CONSTANTS c1, s0, a1
===============================================================================
