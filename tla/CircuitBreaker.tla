---------------------------- MODULE CircuitBreaker ----------------------------
(***************************************************************************)
(* The circuit breaker of one control-plane process, shared by all its     *)
(* requests and all backends.  No method awaits while it holds the lock,   *)
(* so each is one atomic step.  Of opened_at only three things matter: it  *)
(* is 0.0, or recovery_seconds have or have not passed since.              *)
(***************************************************************************)
EXTENDS Naturals

CONSTANT FailureThreshold

ASSUME ThresholdAssumption == FailureThreshold \in Nat \ {0}

VARIABLES failures, openedAt

breakerVars == <<failures, openedAt>>

BreakerTypeOK == failures \in Nat /\ openedAt \in {"zero", "recent", "elapsed"}

BreakerInit == failures = 0 /\ openedAt = "zero"

Clear == failures' = 0 /\ openedAt' = "zero"

\* before_call lets the call through; once recovery_seconds have passed it
\* forgets every failure (there is no half-open state).
BeforeCallPasses ==
    \/ failures < FailureThreshold /\ UNCHANGED breakerVars
    \/ failures >= FailureThreshold /\ openedAt # "recent" /\ Clear

BeforeCallRefuses ==
    failures >= FailureThreshold /\ openedAt = "recent" /\ UNCHANGED breakerVars

RecordSuccess == Clear

\* Opening only when the count hits the threshold exactly on a later failure.
RecordFailureOpensLate ==
    /\ failures' = failures + 1
    /\ openedAt' = IF failures >= FailureThreshold /\ openedAt = "zero"
                   THEN "recent" ELSE openedAt

RecordFailure ==
    /\ failures' = failures + 1
    /\ openedAt' = IF failures + 1 >= FailureThreshold /\ openedAt = "zero"
                   THEN "recent" ELSE openedAt

\* recovery_seconds after opened_at.
RecoveryElapses ==
    openedAt = "recent" /\ openedAt' = "elapsed" /\ UNCHANGED failures

\* The breaker counts as open exactly when it has an opening time: a threshold
\* reached without one would never refuse, and an opening time left behind by
\* a reset would make the next opening look old.
OpenHasTime == (failures >= FailureThreshold) <=> (openedAt # "zero")
===============================================================================
