------------------------------ MODULE JobService ------------------------------
(***************************************************************************)
(* What the asynchronous API promises about a job, without the queue, the  *)
(* workers or the backends: it is accepted once, started at most once,     *)
(* settled at most once, and billed exactly when it is settled as          *)
(* completed.  A cancellation changes the status the client sees but       *)
(* neither stops nor undoes the work: a cancelled job may still be started *)
(* and settled, and a settled job may be shown as cancelled.               *)
(***************************************************************************)
EXTENDS Naturals

CONSTANT Jobs

VARIABLES status, runs, outcome, charged

serviceVars == <<status, runs, outcome, charged>>

Init ==
    /\ status = [j \in Jobs |-> "absent"]
    /\ runs = [j \in Jobs |-> 0]
    /\ outcome = [j \in Jobs |-> "none"]
    /\ charged = [j \in Jobs |-> 0]

Accept(j) ==
    /\ status[j] = "absent"
    /\ status' = [status EXCEPT ![j] = "queued"]
    /\ UNCHANGED <<runs, outcome, charged>>

Start(j) ==
    /\ status[j] \in {"queued", "cancelled"}
    /\ outcome[j] = "none"
    /\ runs[j] = 0
    /\ status' = [status EXCEPT ![j] = "running"]
    /\ runs' = [runs EXCEPT ![j] = 1]
    /\ UNCHANGED <<outcome, charged>>

Settle(j, result) ==
    /\ status[j] \in {"queued", "running", "cancelled"}
    /\ outcome[j] = "none"
    /\ status' = [status EXCEPT ![j] = result]
    /\ outcome' = [outcome EXCEPT ![j] = result]
    /\ charged' = IF result = "completed" THEN [charged EXCEPT ![j] = 1] ELSE charged
    /\ UNCHANGED runs

Cancel(j) ==
    /\ status[j] # "absent"
    /\ status' = [status EXCEPT ![j] = "cancelled"]
    /\ UNCHANGED <<runs, outcome, charged>>

Next ==
    \E j \in Jobs :
        \/ Accept(j) \/ Start(j) \/ Cancel(j)
        \/ \E result \in {"completed", "failed"} : Settle(j, result)

Spec == Init /\ [][Next]_serviceVars
===============================================================================
