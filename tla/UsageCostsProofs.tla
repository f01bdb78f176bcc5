--------------------------- MODULE UsageCostsProofs ---------------------------
(***************************************************************************)
(* Proofs about UsageCosts, for all quotas, prices and numbers of calls,   *)
(* from the invariants of UsageLimits.                                     *)
(***************************************************************************)
EXTENDS UsageCosts, UsageLimitsProofs

-------------------------------------------------------------------------------
(***************************************************************************)
(* The arithmetic of amounts.                                              *)
(***************************************************************************)

\* Rounding is monotone.
LEMMA QuantizeMonotone ==
    /\ \A x \in Nat : Quantize(x) \in Nat
    /\ \A x, y \in Nat : x <= y => Quantize(x) <= Quantize(y)
  BY DEF Quantize

\* The overage grows with the usage, by no more than the usage does.
LEMMA OverageMonotone ==
    /\ \A m \in Nat : Overage(m) \in Nat
    /\ \A m, n \in Nat : m <= n => Overage(m) <= Overage(n)
    /\ \A m, k \in Nat : m <= MonthlyLimit + k => Overage(m) <= k
  BY UsageAssumption DEF Overage

\* Products of natural numbers, for the amounts.
LEMMA ProductMonotone ==
    \A m, n, p \in Nat : m <= n => m * p <= n * p /\ m * p \in Nat
  OBVIOUS

\* More usage never costs less.
LEMMA CostMonotone ==
    ASSUME NEW m \in Nat, NEW n \in Nat, m <= n, NEW price \in Nat
    PROVE  OverageCost(m, price) <= OverageCost(n, price)
  <1>1. Overage(m) \in Nat /\ Overage(n) \in Nat /\ Overage(m) <= Overage(n)
    BY OverageMonotone
  <1>2. /\ Overage(m) * price \in Nat /\ Overage(n) * price \in Nat
        /\ Overage(m) * price <= Overage(n) * price
    BY <1>1, ProductMonotone
  <1> QED BY <1>2, QuantizeMonotone DEF OverageCost
-------------------------------------------------------------------------------
\* What the snapshot reads as used is a number of tokens, and no more than was
\* consumed.
LEMMA UsedBounds ==
    ASSUME IInv
    PROVE  /\ Used(counter[Monthly]) \in Nat /\ consumed[Monthly] \in Nat
           /\ Used(counter[Monthly]) <= consumed[Monthly]
  <1>1. Monthly \in Rows
    BY DEF Monthly, Rows
  <1> QED BY <1>1 DEF IInv, TypeOK, NeverOvercharged, Used, NoRow

\* The invoice charges no token that was not used; and when a lock serialises the
\* calls, no more than the excess of one answer.
THEOREM BoundedOverage == Spec => []OverageBounded
  <1>1. IInv /\ QuotaEnforcedPerKey => OverageBounded
    <2> SUFFICES ASSUME IInv, QuotaEnforcedPerKey, NEW price \in Prices
                 PROVE  LET billed == Used(counter[Monthly]) IN
                        /\ OverageCost(billed, price) <= OverageCost(consumed[Monthly], price)
                        /\ ~shared => OverageCost(billed, price) <= Quantize(Excess * price)
      BY DEF OverageBounded
    <2> DEFINE billed == Used(counter[Monthly])
    <2>1. billed \in Nat /\ consumed[Monthly] \in Nat /\ billed <= consumed[Monthly] /\ price \in Nat
      BY UsedBounds, PricesAssumption
    <2>2. OverageCost(billed, price) <= OverageCost(consumed[Monthly], price)
      BY <2>1, CostMonotone
    <2>3. ASSUME ~shared
          PROVE  OverageCost(billed, price) <= Quantize(Excess * price)
      <3>1. Excess \in Nat /\ MonthlyLimit \in Nat
        BY UsageAssumption
      <3>2. consumed[Monthly] <= MonthlyLimit + Excess
        BY <2>3 DEF QuotaEnforcedPerKey, Monthly, Rows, LimitOf
      <3>3. billed <= MonthlyLimit + Excess
        BY <2>1, <3>1, <3>2
      <3> HIDE DEF billed
      <3>4. Overage(billed) \in Nat /\ Overage(billed) <= Excess
        BY <2>1, <3>1, <3>3, OverageMonotone
      <3>5. /\ Overage(billed) * price \in Nat /\ Excess * price \in Nat
            /\ Overage(billed) * price <= Excess * price
        BY <2>1, <3>1, <3>4, ProductMonotone
      <3> QED BY <3>5, QuantizeMonotone DEF OverageCost
    <2> QED BY <2>2, <2>3
  <1> QED BY <1>1, Invariance, QuotaPerKey, PTL
===============================================================================
