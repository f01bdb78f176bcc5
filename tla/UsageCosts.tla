------------------------------ MODULE UsageCosts ------------------------------
(***************************************************************************)
(* What the usage of a month costs: the overage of the invoice, over the   *)
(* counters of UsageLimits.  The tokens a plan includes are its monthly    *)
(* quota.  Prices are per thousand tokens and in millionths of the         *)
(* currency, as the Numeric columns keep them; amounts are rounded to      *)
(* millionths, halves up.                                                  *)
(***************************************************************************)
EXTENDS UsageLimits

CONSTANT Prices   \* values of overage_price_per_1k_tokens

ASSUME PricesAssumption == Prices \subseteq Nat

\* Once the quota is passed, the tokens it includes are charged too.
OverageFromZero(used) == IF used > MonthlyLimit THEN used ELSE 0

Overage(used) == IF used > MonthlyLimit THEN used - MonthlyLimit ELSE 0

\* .quantize(Decimal("0.000001"), rounding=ROUND_HALF_UP)
Quantize(thousandths) == (thousandths + 500) \div 1000

\* overage_cost of build_invoice_preview.
OverageCost(used, price) == Quantize(Overage(used) * price)

\* used_tokens of the snapshot: a missing counter counts as nothing.
Used(count) == IF count >= 0 THEN count ELSE 0
-------------------------------------------------------------------------------
\* The invoice charges no token that was not used, and of the calls that a lock
\* serialises no more than one answer exceeds its estimate by.
OverageBounded ==
    LET billed == Used(counter[Monthly]) IN
    \A price \in Prices :
        /\ OverageCost(billed, price) <= OverageCost(consumed[Monthly], price)
        /\ ~shared => OverageCost(billed, price) <= Quantize(Excess * price)
===============================================================================
