--------------------------- MODULE UsageLimitsProofs ---------------------------
(***************************************************************************)
(* Proofs about UsageLimits for any number of calls, keys and days and for *)
(* any limits and estimates.                                               *)
(***************************************************************************)
EXTENDS UsageLimits, TLAPS

\* What a call has added to a row in its own transaction.
Own(t, r) == IF r \in charged[t] THEN tokens[t] ELSE 0

\* A row is locked by a transaction that has it in memory.
Owned == \A t \in Calls, r \in Rows : lock[r] = t => mem[t][r] >= 0

\* Rows are charged only while recording, and stay locked until the commit.
ChargedLocked ==
    \A t \in Calls :
        /\ pc[t] \notin {"recording", "done"} => charged[t] = {}
        /\ pc[t] = "recording" => \A r \in charged[t] : lock[r] = t

\* Between transactions nothing is in memory; only jobs wait for a worker.
Between ==
    \A t \in Calls :
        /\ pc[t] \in {"new", "queued", "done"} => mem[t] = Nothing
        /\ pc[t] = "queued" => t \in Jobs

\* No copy is ahead of what has been consumed but for the call's own tokens.
CopyBound == \A t \in Calls, r \in Rows : mem[t][r] <= consumed[r] + Own(t, r)

\* As long as nothing is shared the calls take turns ...
Alone == ~shared => \A t, u \in Calls : InFlight(t) /\ InFlight(u) => t = u

\* ... the rows hold what was consumed ...
RowsExact ==
    ~shared => \A r \in Rows : consumed[r] = IF counter[r] = NoRow THEN 0 ELSE counter[r]

\* ... and so do the copies in memory.
CopiesExact ==
    ~shared => \A t \in Calls, r \in Rows :
                   mem[t][r] >= 0 => mem[t][r] = consumed[r] + Own(t, r)

RateBound == admitted <= hits /\ admitted <= RateLimit

IInv ==
    /\ TypeOK
    /\ Owned /\ ChargedLocked /\ Between
    /\ CopyBound /\ NeverOvercharged
    /\ Alone /\ RowsExact /\ CopiesExact
    /\ RateBound

-------------------------------------------------------------------------------
\* The rows of a call are rows.
LEMMA RowsOfCall ==
    ASSUME TypeOK, NEW t \in Calls
    PROVE  Daily(t) \in Rows /\ Monthly \in Rows /\ Current(t) \subseteq Rows
  BY DEF TypeOK, Daily, Monthly, Current, Rows

\* In the initial state nothing is counted, locked or in memory.
LEMMA InitIInv == Init => IInv
  <1> SUFFICES ASSUME Init PROVE IInv
    OBVIOUS
  <1>1. TypeOK
    <2>1. 1 \in Days
      BY UsageAssumption DEF Days
    <2>2. mem \in [Calls -> [Rows -> Nat \cup {NoRow, NotRead}]]
      BY DEF Init, Nothing
    <2> QED BY <2>1, <2>2 DEF Init, TypeOK
  <1>2. Owned /\ ChargedLocked /\ Between
    BY UsageAssumption DEF Init, Owned, ChargedLocked, Between, Nothing
  <1>3. CopyBound /\ NeverOvercharged /\ RowsExact /\ CopiesExact
    BY DEF Init, CopyBound, NeverOvercharged, RowsExact, CopiesExact, Own, Nothing, NoRow, NotRead
  <1>4. Alone /\ RateBound
    BY UsageAssumption DEF Init, Alone, RateBound, InFlight
  <1> QED BY <1>1, <1>2, <1>3, <1>4 DEF IInv

\* A call is let in: if it overlaps nothing unserialised it is alone, for the
\* lock of its key keeps the others out.
LEMMA EnterIInv ==
    ASSUME IInv, NEW t \in Calls, Enter(t)
    PROVE  IInv'
  <1> USE DEF IInv
  <1>1. TypeOK'
    <2>1. shared' \in BOOLEAN
      BY ZenonT(30) DEF Enter, TypeOK
    <2>2. admitted' \in Nat /\ pc' \in [Calls -> {"new", "checking", "busy", "queued", "recording", "done"}]
      BY DEF Enter, TypeOK, Goto
    <2>3. hits' \in Nat /\ day' \in [Calls -> Days]
      BY DEF Enter, TypeOK
    <2> QED BY <2>1, <2>2, <2>3 DEF Enter, TypeOK, usageVars
  <1>2. Owned' /\ ChargedLocked' /\ Between'
    BY DEF Enter, TypeOK, Goto, usageVars, Owned, ChargedLocked, Between
  <1>3. CopyBound' /\ NeverOvercharged'
    BY DEF Enter, Goto, usageVars, CopyBound, NeverOvercharged, Own
  <1>4. Alone'
    <2>1. CASE RateLimitPasses(t)
      <3>1. SUFFICES ASSUME ~shared', NEW u \in Calls, InFlight(u)
                     PROVE  FALSE
        BY <2>1 DEF Alone, Enter, Goto, TypeOK, InFlight
      <3>2. ~shared /\ Serialised(t, u)
        BY <2>1, <3>1 DEF Enter
      <3>3. AtApi(u)
        BY <3>1, <3>2 DEF AtApi, InFlight, Serialised, Between, TypeOK
      <3> QED BY <3>2, <3>3 DEF Enter, KeyFree, Serialised
    <2>2. CASE ~RateLimitPasses(t)
      BY <2>2 DEF Alone, Enter, Goto, TypeOK, InFlight
    <2> QED BY <2>1, <2>2
  <1>5. RowsExact' /\ CopiesExact'
    BY DEF Enter, Goto, usageVars, RowsExact, CopiesExact, Own, TypeOK
  <1>6. RateBound'
    BY UsageAssumption DEF Enter, RateBound, RateLimitPasses, TypeOK
  <1> QED BY <1>1, <1>2, <1>3, <1>4, <1>5, <1>6

\* Reading a row brings a copy that is not ahead of it.
LEMMA ReadIInv ==
    ASSUME IInv, NEW t \in Calls, NEW r \in Rows, Read(t, r)
    PROVE  IInv'
  <1> USE DEF IInv
  <1>0. r \notin charged[t]
    BY DEF Read, Owned, ChargedLocked, TypeOK, NotRead
  <1>1. TypeOK'
    BY DEF Read, TypeOK, usageVars
  <1>2. Owned' /\ ChargedLocked' /\ Between'
    BY DEF Read, TypeOK, usageVars, Owned, ChargedLocked, Between, NotRead
  <1>3. CopyBound' /\ NeverOvercharged'
    BY <1>0 DEF Read, usageVars, CopyBound, NeverOvercharged, Own, TypeOK
  <1>4. Alone' /\ RateBound'
    BY DEF Read, Alone, RateBound, InFlight
  <1>5. RowsExact' /\ CopiesExact'
    BY <1>0 DEF Read, usageVars, RowsExact, CopiesExact, Own, TypeOK, NoRow
  <1> QED BY <1>1, <1>2, <1>3, <1>4, <1>5

\* Inserting a row starts it at zero, when nothing was consumed yet.
LEMMA InsertIInv ==
    ASSUME IInv, NEW t \in Calls, NEW r \in Rows, Insert(t, r)
    PROVE  IInv'
  <1> USE DEF IInv
  <1>0. r \notin charged[t] /\ pc[t] \notin {"new", "queued", "done"}
    <2>1. pc[t] \notin {"new", "queued", "done"}
      BY DEF Insert, Between, Nothing, NoRow, NotRead
    <2> QED BY <2>1, UsageAssumption DEF Insert, ChargedLocked, TypeOK
  <1>1. TypeOK'
    BY DEF Insert, TypeOK, usageVars
  <1>2. Owned'
    BY UsageAssumption DEF Insert, TypeOK, Owned
  <1>3. ChargedLocked'
    BY UsageAssumption DEF Insert, TypeOK, usageVars, ChargedLocked
  <1>4. Between'
    BY <1>0 DEF Insert, TypeOK, Between
  <1>5. CopyBound' /\ NeverOvercharged'
    BY <1>0 DEF Insert, usageVars, CopyBound, NeverOvercharged, Own, TypeOK
  <1>6. Alone' /\ RateBound'
    BY DEF Insert, Alone, RateBound, InFlight
  <1>7. RowsExact' /\ CopiesExact'
    BY <1>0 DEF Insert, usageVars, RowsExact, CopiesExact, Own, TypeOK, NoRow
  <1> QED BY <1>1, <1>2, <1>3, <1>4, <1>5, <1>6, <1>7

\* A transaction that is over leaves nothing in memory and no lock behind.
LEMMA CloseFacts ==
    ASSUME TypeOK, Owned, ChargedLocked, Between,
           NEW t \in Calls, NEW p \in {"queued", "done"}, Close(t, p),
           p = "queued" => t \in Jobs /\ pc[t] # "recording",
           UNCHANGED usageVars, pc[t] \notin {"new", "done"}
    PROVE  /\ pc' \in [Calls -> {"new", "checking", "busy", "queued", "recording", "done"}]
           /\ mem' \in [Calls -> [Rows -> Nat \cup {NoRow, NotRead}]]
           /\ lock' \in [Rows -> Calls \cup {NoCall}]
           /\ Owned' /\ ChargedLocked' /\ Between'
           /\ \A r \in Rows : mem'[t][r] = NotRead
           /\ \A u \in Calls \ {t} : mem'[u] = mem[u] /\ pc'[u] = pc[u]
  <1>1. /\ pc' = [pc EXCEPT ![t] = p]
        /\ mem' = [mem EXCEPT ![t] = Nothing]
        /\ lock' = [r \in Rows |-> IF lock[r] = t THEN NoCall ELSE lock[r]]
    BY DEF Close, Goto, Unlocked
  <1>2. /\ pc' \in [Calls -> {"new", "checking", "busy", "queued", "recording", "done"}]
        /\ mem' \in [Calls -> [Rows -> Nat \cup {NoRow, NotRead}]]
        /\ lock' \in [Rows -> Calls \cup {NoCall}]
    BY <1>1 DEF TypeOK, Nothing
  <1>3. Owned'
    BY <1>1, UsageAssumption DEF TypeOK, Owned
  <1>4. ChargedLocked'
    BY <1>1 DEF TypeOK, ChargedLocked, usageVars
  <1>5. Between'
    BY <1>1 DEF TypeOK, Between
  <1> QED BY <1>1, <1>2, <1>3, <1>4, <1>5 DEF TypeOK, Nothing

\* A call that is rolled back changes no row.
LEMMA FailIInv ==
    ASSUME IInv, NEW t \in Calls, Fail(t), pc[t] \notin {"new", "queued", "done"}
    PROVE  IInv'
  <1> USE DEF IInv
  <1>0. /\ Close(t, "done") /\ UNCHANGED usageVars
        /\ UNCHANGED <<counter, today, day, hits, consumed, admitted, shared, minutes>>
    BY DEF Fail, usageVars
  <1>1. TypeOK' /\ Owned' /\ ChargedLocked' /\ Between'
    BY <1>0, CloseFacts DEF TypeOK, usageVars
  <1>2. CopyBound' /\ NeverOvercharged'
    BY <1>0, CloseFacts DEF CopyBound, NeverOvercharged, Own, usageVars, TypeOK, NoRow, NotRead
  <1>3. Alone' /\ RateBound'
    BY <1>0 DEF Alone, RateBound, InFlight, Close, Goto, TypeOK
  <1>4. RowsExact' /\ CopiesExact'
    BY <1>0, CloseFacts DEF RowsExact, CopiesExact, Own, usageVars, NotRead
  <1> QED BY <1>1, <1>2, <1>3, <1>4

\* A call that commits before any usage saves the rows it has inserted.
LEMMA CommitIInv ==
    ASSUME IInv, NEW t \in Calls, NEW p \in {"queued", "done"},
           pc[t] \in {"checking", "busy", "queued"}, p = "queued" => t \in Jobs,
           counter' = Committed(t), Close(t, p),
           UNCHANGED <<usageVars, today, day, hits, consumed, admitted, shared, minutes>>
    PROVE  IInv'
  <1> USE DEF IInv
  <1>0. charged[t] = {}
    BY DEF ChargedLocked
  <1>1. TypeOK' /\ Owned' /\ ChargedLocked' /\ Between'
    <2>1. counter' \in [Rows -> Nat \cup {NoRow}]
      BY DEF Committed, TypeOK, Owned, NoRow, NotRead
    <2> QED BY <2>1, CloseFacts DEF TypeOK, usageVars
  <1>2. CopyBound'
    <2> SUFFICES ASSUME NEW u \in Calls, NEW r \in Rows
                 PROVE  mem'[u][r] <= consumed[r] + Own(u, r)
      BY DEF CopyBound, Own, usageVars
    <2>1. mem'[u][r] = NotRead \/ mem'[u][r] = mem[u][r]
      BY CloseFacts
    <2> QED BY <2>1 DEF CopyBound, Own, TypeOK, NoRow, NotRead
  <1>3. NeverOvercharged'
    BY <1>0 DEF CopyBound, NeverOvercharged, Own, Committed, TypeOK
  <1>4. Alone' /\ RateBound'
    BY DEF Alone, RateBound, InFlight, Close, Goto, TypeOK
  <1>5. RowsExact'
    BY <1>0 DEF RowsExact, CopiesExact, Own, Committed, TypeOK, Owned, NoRow
  <1>6. CopiesExact'
    BY CloseFacts DEF CopiesExact, Own, usageVars, NotRead
  <1> QED BY <1>1, <1>2, <1>3, <1>4, <1>5, <1>6

\* Adding the tokens to the copy locks the row.
LEMMA ChargeIInv ==
    ASSUME IInv, NEW t \in Calls, NEW r \in Rows, Charge(t, r)
    PROVE  IInv'
  <1> USE DEF IInv
  <1>0. pc[t] = "recording" /\ r \notin charged[t] /\ mem[t][r] >= 0
    BY DEF Charge, ToCharge
  <1>1. TypeOK'
    BY <1>0 DEF Charge, Charged, TypeOK, NoRow, NotRead
  <1>2. Owned'
    BY <1>0, UsageAssumption DEF Charge, Charged, TypeOK, Owned, NoRow, NotRead
  <1>3. ChargedLocked'
    BY <1>0, UsageAssumption DEF Charge, TypeOK, ChargedLocked
  <1>4. Between'
    BY <1>0 DEF Charge, TypeOK, Between
  <1>5. CopyBound' /\ NeverOvercharged'
    BY <1>0 DEF Charge, Charged, CopyBound, NeverOvercharged, Own, TypeOK, NoRow, NotRead
  <1>6. Alone' /\ RateBound'
    BY DEF Charge, Alone, RateBound, InFlight
  <1>7. RowsExact'
    BY DEF Charge, RowsExact
  <1>8. CopiesExact'
    BY <1>0 DEF Charge, Charged, CopiesExact, Own, TypeOK
  <1> QED BY <1>1, <1>2, <1>3, <1>4, <1>5, <1>6, <1>7, <1>8

\* The commit of a recorded call: its copies become the rows.
LEMMA CompleteIInv ==
    ASSUME IInv, NEW t \in Calls, Complete(t)
    PROVE  IInv'
  <1> USE DEF IInv
  <1>0. /\ pc[t] = "recording" /\ charged[t] = Current(t) /\ Current(t) \subseteq Rows
        /\ Close(t, "done") /\ UNCHANGED usageVars
        /\ UNCHANGED <<today, day, hits, admitted, shared, minutes>>
        /\ \A r \in Rows : consumed'[r] = consumed[r] + Own(t, r)
        /\ \A r \in Rows : counter'[r] = IF lock[r] = t THEN mem[t][r] ELSE counter[r]
    BY RowsOfCall DEF Complete, usageVars, Own, TypeOK, Committed
  <1>1. \A r \in Rows : Own(t, r) \in Nat /\ (lock[r] # t => Own(t, r) = 0)
    BY <1>0 DEF Own, TypeOK, ChargedLocked
  <1>2. TypeOK' /\ Owned' /\ ChargedLocked' /\ Between'
    <2>1. counter' \in [Rows -> Nat \cup {NoRow}] /\ consumed' \in [Rows -> Nat]
      BY <1>0, <1>1 DEF Complete, Committed, TypeOK, Owned, NoRow, NotRead
    <2> QED BY <1>0, <2>1, CloseFacts DEF TypeOK, usageVars
  <1>3. CopyBound'
    <2> SUFFICES ASSUME NEW u \in Calls, NEW r \in Rows
                 PROVE  mem'[u][r] <= consumed'[r] + Own(u, r)'
      BY DEF CopyBound
    <2>1. Own(u, r)' = Own(u, r) /\ Own(u, r) \in Nat
      BY <1>0 DEF Own, usageVars, TypeOK
    <2>2. mem'[u][r] = NotRead \/ mem'[u][r] = mem[u][r]
      BY <1>0, CloseFacts
    <2> QED BY <1>0, <1>1, <2>1, <2>2 DEF CopyBound, TypeOK, NoRow, NotRead
  <1>4. NeverOvercharged'
    BY <1>0, <1>1 DEF CopyBound, NeverOvercharged, TypeOK
  <1>5. Alone' /\ RateBound'
    BY <1>0 DEF Alone, RateBound, InFlight, Close, Goto, TypeOK
  <1>6. RowsExact'
    BY <1>0, <1>1 DEF RowsExact, CopiesExact, TypeOK, Owned, NoRow
  <1>7. CopiesExact'
    <2> SUFFICES ASSUME ~shared, NEW u \in Calls, NEW r \in Rows, mem'[u][r] >= 0
                 PROVE  FALSE
      BY <1>0 DEF CopiesExact
    <2>1. u # t
      BY <1>0, CloseFacts DEF NotRead
    <2>2. mem[u] = Nothing
      BY <1>0, <2>1 DEF Alone, InFlight, Between
    <2> QED BY <1>0, <2>1, <2>2, CloseFacts DEF Nothing, NotRead
  <1> QED BY <1>2, <1>3, <1>4, <1>5, <1>6, <1>7

\* Going to the backend and coming back changes no row and no copy.
LEMMA BackendIInv ==
    ASSUME IInv, NEW t \in Calls, CallBackend(t) \/ \E n \in Usage(t) : Answered(t, n)
    PROVE  IInv'
  <1> USE DEF IInv
  <1>1. CASE CallBackend(t)
    <2>1. TypeOK' /\ Owned' /\ ChargedLocked' /\ Between'
      BY <1>1 DEF CallBackend, Goto, usageVars, TypeOK, Owned, ChargedLocked, Between
    <2>2. CopyBound' /\ NeverOvercharged' /\ RowsExact' /\ CopiesExact'
      BY <1>1 DEF CallBackend, usageVars, CopyBound, NeverOvercharged, RowsExact, CopiesExact, Own
    <2>3. Alone' /\ RateBound'
      BY <1>1 DEF CallBackend, Goto, Alone, RateBound, InFlight, TypeOK
    <2> QED BY <2>1, <2>2, <2>3
  <1>2. ASSUME NEW n \in Usage(t), Answered(t, n)
        PROVE  IInv'
    <2>0. charged[t] = {}
      BY <1>2 DEF Answered, ChargedLocked
    <2>1. TypeOK' /\ Owned' /\ ChargedLocked' /\ Between'
      BY <1>2, <2>0, UsageAssumption DEF Answered, Usage, Goto, TypeOK, Owned, ChargedLocked, Between
    <2>2. CopyBound' /\ NeverOvercharged' /\ RowsExact' /\ CopiesExact'
      BY <1>2, <2>0, UsageAssumption DEF Answered, Usage, CopyBound, NeverOvercharged, RowsExact, CopiesExact, Own, TypeOK
    <2>3. Alone' /\ RateBound'
      BY <1>2 DEF Answered, Goto, Alone, RateBound, InFlight, TypeOK
    <2> QED BY <2>1, <2>2, <2>3
  <1> QED BY <1>1, <1>2

\* The clock.
LEMMA ClockIInv ==
    ASSUME IInv, MinutePasses \/ DayPasses \/ UNCHANGED vars
    PROVE  IInv'
  <1> USE DEF IInv
  <1>1. CASE MinutePasses
    BY <1>1, UsageAssumption DEF MinutePasses, usageVars, TypeOK, Owned, ChargedLocked, Between, CopyBound,
       NeverOvercharged, Alone, RowsExact, CopiesExact, RateBound, Own, InFlight
  <1>2. CASE DayPasses
    BY <1>2, UsageAssumption DEF DayPasses, usageVars, TypeOK, Owned, ChargedLocked, Between, CopyBound,
       NeverOvercharged, Alone, RowsExact, CopiesExact, RateBound, Own, InFlight, Days
  <1>3. CASE UNCHANGED vars
    BY <1>3 DEF vars, usageVars, TypeOK, Owned, ChargedLocked, Between, CopyBound,
       NeverOvercharged, Alone, RowsExact, CopiesExact, RateBound, Own, InFlight
  <1> QED BY <1>1, <1>2, <1>3

\* Every step keeps the inductive invariant.
LEMMA NextIInv == IInv /\ [Next]_vars => IInv'
  <1> SUFFICES ASSUME IInv, [Next]_vars PROVE IInv'
    OBVIOUS
  <1>1. ASSUME NEW t \in Calls, CallStep(t)
        PROVE  IInv'
    <2>1. CASE Enter(t)
      BY <2>1, EnterIInv
    <2>2. ASSUME NEW r \in Rows, Read(t, r) PROVE IInv'
      BY <2>2, ReadIInv
    <2>3. ASSUME NEW r \in Rows, Insert(t, r) PROVE IInv'
      BY <2>3, InsertIInv
    <2>4. ASSUME NEW r \in Rows, InsertConflicts(t, r) PROVE IInv'
      <3>1. pc[t] \notin {"new", "queued", "done"}
        BY <2>4 DEF IInv, InsertConflicts, Between, Nothing, NoRow, NotRead
      <3> QED BY <2>4, <3>1, FailIInv DEF InsertConflicts
    <2>5. ASSUME NEW r \in Rows, Charge(t, r) PROVE IInv'
      BY <2>5, ChargeIInv
    <2>6. CASE Deadlock(t)
      <3>1. PICK u \in Calls \ {t} : WaitsFor(t, u)
        BY <2>6 DEF Deadlock
      <3>2. PICK r \in Rows : mem[t][r] = NoRow \/ ToCharge(t, r)
        BY <3>1 DEF WaitsFor
      <3>3. pc[t] \notin {"new", "queued", "done"}
        BY <3>2 DEF IInv, ToCharge, Between, Nothing, NoRow, NotRead
      <3> QED BY <2>6, <3>3, FailIInv DEF Deadlock
    <2>7. CASE QuotaExceeded(t)
      BY <2>7, FailIInv DEF QuotaExceeded
    <2>8. CASE CallBackend(t) \/ \E n \in Usage(t) : Answered(t, n)
      BY <2>8, BackendIInv
    <2>9. CASE CreateJob(t)
      BY <2>9, CommitIInv DEF CreateJob
    <2>10. CASE CallFails(t)
      BY <2>10, CommitIInv DEF CallFails
    <2>11. CASE Complete(t)
      BY <2>11, CompleteIInv
    <2> QED
      BY <1>1, <2>1, <2>2, <2>3, <2>4, <2>5, <2>6, <2>7, <2>8, <2>9, <2>10, <2>11 DEF CallStep
  <1> QED BY <1>1, ClockIInv DEF Next

\* The inductive invariant of the limits holds in every reachable state.
THEOREM Invariance == Spec => []IInv
  BY InitIInv, NextIInv, PTL DEF Spec

\* Every variable keeps its type; in particular no commit of record_usage or of
\* a failed call saves a counter its transaction had not loaded.
THEOREM TypeCorrect == Spec => []TypeOK
  <1>1. IInv => TypeOK
    BY DEF IInv
  <1> QED BY <1>1, Invariance, PTL

\* INCR lets no more calls through in a minute than the plan allows.
THEOREM RateLimitHolds == Spec => []RateLimited
  <1>1. IInv => RateLimited
    BY DEF IInv, RateBound, RateLimited
  <1> QED BY <1>1, Invariance, PTL

\* However calls overlap, a counter is never ahead of what was consumed.
THEOREM NoOvercharge == Spec => []NeverOvercharged
  <1>1. IInv => NeverOvercharged
    BY DEF IInv
  <1> QED BY <1>1, Invariance, PTL

\* Calls that only the lock of their API key serialises are counted exactly.
THEOREM Exactness == Spec => []UsageCounted
  <1>1. IInv => UsageCounted
    BY DEF IInv, RowsExact, UsageCounted, NoRow, TypeOK
  <1> QED BY <1>1, Invariance, PTL

-------------------------------------------------------------------------------
(***************************************************************************)
(* The quota of calls that take turns.                                     *)
(***************************************************************************)

DayRow(d) == <<"daily", d>>

\* Nothing is consumed in advance, nor behind the back of a call that has not
\* been answered yet.
Fresh ==
    /\ \A t \in Calls : day[t] <= today
    /\ \A d \in Days : d > today => consumed[DayRow(d)] = 0
    /\ ~shared => \A t \in Calls, d \in Days :
           pc[t] \in {"checking", "busy", "queued"} /\ d > day[t] => consumed[DayRow(d)] = 0

\* A call that passed the check has room for its estimate, and one that is
\* being recorded for its tokens but for their excess.
Room ==
    ~shared => \A t \in Calls : \A r \in Current(t) :
        /\ pc[t] \in {"busy", "queued"} => consumed[r] + Estimate[t] <= LimitOf(r)
        /\ pc[t] = "recording" => consumed[r] + tokens[t] <= LimitOf(r) + Excess

QInv == Fresh /\ Room /\ QuotaEnforcedPerKey

\* The limits are numbers, and the row of another day has the daily one.
LEMMA Limits ==
    /\ Excess \in Nat
    /\ \A r \in Rows : LimitOf(r) \in Nat
    /\ \A d : LimitOf(DayRow(d)) = DailyLimit
    /\ \A d \in Days : DayRow(d) \in Rows
    /\ \A d : DayRow(d) # Monthly
    /\ \A d, e : DayRow(d) = DayRow(e) => d = e
  BY UsageAssumption DEF LimitOf, DayRow, Rows, Monthly

\* Nothing is consumed at the start.
LEMMA InitQInv == Init => QInv
  <1> SUFFICES ASSUME Init PROVE QInv
    OBVIOUS
  <1>1. Fresh
    BY Limits DEF Init, Fresh
  <1>2. Room
    BY DEF Init, Room
  <1>3. QuotaEnforcedPerKey
    BY Limits DEF Init, QuotaEnforcedPerKey
  <1> QED BY <1>1, <1>2, <1>3 DEF QInv

\* A step that consumes nothing, dates nothing and lets no call past the check.
LEMMA QuietQInv ==
    ASSUME QInv, NEW t \in Calls, UNCHANGED <<consumed, today, day, tokens, shared>>,
           \A u \in Calls : pc'[u] = pc[u] \/ pc'[u] = "done"
                              \/ (pc[u] = "busy" /\ pc'[u] = "queued")
    PROVE  QInv'
  <1>1. Fresh'
    BY DEF QInv, Fresh
  <1>2. Room'
    BY DEF QInv, Room, Current, Daily
  <1>3. QuotaEnforcedPerKey'
    BY DEF QInv, QuotaEnforcedPerKey
  <1> QED BY <1>1, <1>2, <1>3 DEF QInv

\* Every step keeps the quota of calls that take turns.
LEMMA NextQInv == IInv /\ QInv /\ [Next]_vars => QInv'
  <1> SUFFICES ASSUME IInv, QInv, [Next]_vars PROVE QInv'
    OBVIOUS
  <1> USE DEF QInv
  <1>1. ASSUME NEW t \in Calls, CallStep(t)
        PROVE  QInv'
    <2>1. CASE Enter(t)
      <3>1. Fresh'
        BY <2>1 DEF Enter, Goto, Fresh, IInv, TypeOK, usageVars, Days
      <3>2. Room'
        BY <2>1 DEF Enter, Goto, Room, Current, Daily, IInv, TypeOK, usageVars
      <3>3. QuotaEnforcedPerKey'
        BY <2>1 DEF Enter, QuotaEnforcedPerKey
      <3> QED BY <3>1, <3>2, <3>3
    <2>2. ASSUME NEW r \in Rows, Read(t, r) \/ Insert(t, r) \/ Charge(t, r) PROVE QInv'
      BY <2>2, QuietQInv DEF Read, Insert, Charge, usageVars
    <2>3. CASE Fail(t)
      BY <2>3, QuietQInv DEF Fail, Close, Goto, IInv, TypeOK, usageVars
    <2>4. CASE CallFails(t)
      BY <2>4, QuietQInv DEF CallFails, Close, Goto, IInv, TypeOK, usageVars
    <2>5. CASE CallBackend(t) \/ CreateJob(t)
      <3>0. /\ pc[t] = "checking" /\ Loaded(t) /\ Fits(t)
            /\ UNCHANGED <<usageVars, today, day, consumed, shared>>
            /\ pc' \in {[pc EXCEPT ![t] = "busy"], [pc EXCEPT ![t] = "queued"]}
        BY <2>5 DEF CallBackend, CreateJob, Close, Goto, usageVars
      <3>1. \A r \in Current(t) : ~shared => consumed[r] + Estimate[t] <= LimitOf(r)
        BY <3>0, RowsOfCall DEF IInv, CopiesExact, ChargedLocked, Own, Loaded, Fits, TypeOK
      <3>2. Fresh'
        BY <3>0 DEF Fresh, IInv, TypeOK
      <3>3. Room'
        BY <3>0, <3>1 DEF Room, Current, Daily, IInv, TypeOK, usageVars
      <3>4. QuotaEnforcedPerKey'
        BY <3>0 DEF QuotaEnforcedPerKey
      <3> QED BY <3>2, <3>3, <3>4
    <2>6. ASSUME NEW n \in Usage(t), Answered(t, n) PROVE QInv'
      <3>0. /\ pc[t] \in {"busy", "queued"} /\ n \in Nat /\ n <= Estimate[t] + Excess
            /\ Estimate[t] \in Nat /\ today \in Days
            /\ pc' = [pc EXCEPT ![t] = "recording"] /\ day' = [day EXCEPT ![t] = today]
            /\ tokens' = [tokens EXCEPT ![t] = n] /\ UNCHANGED <<consumed, shared, today>>
        <4>1. Estimate[t] \in Nat /\ n \in Nat /\ n <= Estimate[t] + Excess
          BY <2>6, UsageAssumption DEF Usage
        <4> QED BY <2>6, <4>1 DEF Answered, Goto, IInv, TypeOK
      <3>1. Fresh'
        BY <3>0 DEF Fresh, IInv, TypeOK, Days
      <3>2. ~shared => consumed[DayRow(today)] + n <= DailyLimit + Excess
        <4>0. /\ Excess \in Nat /\ Estimate[t] \in Nat
              /\ consumed[DayRow(today)] \in Nat /\ consumed[Daily(t)] \in Nat
              /\ DailyLimit \in Nat /\ day[t] \in Days /\ Daily(t) \in Current(t)
              /\ Daily(t) = DayRow(day[t]) /\ today \in Int /\ day[t] \in Int
          BY <3>0, Limits, RowsOfCall, UsageAssumption DEF IInv, TypeOK, Current, Daily, DayRow, Days
        <4>1. ~shared => consumed[Daily(t)] + Estimate[t] <= DailyLimit
          BY <3>0, <4>0, Limits DEF Room
        <4>2. CASE today = day[t]
          BY <3>0, <4>0, <4>1, <4>2
        <4>3. CASE today # day[t]
          <5>1. ~shared => consumed[DayRow(today)] = 0
            BY <3>0, <4>0, <4>3 DEF Fresh
          <5> QED BY <3>0, <4>0, <4>1, <5>1
        <4> QED BY <4>2, <4>3
      <3>3. ~shared => consumed[Monthly] + n <= LimitOf(Monthly) + Excess
        BY <3>0, Limits, RowsOfCall DEF Room, Current, IInv, TypeOK
      <3>4. Room'
        <4> SUFFICES ASSUME ~shared, NEW u \in Calls, NEW r \in Current(u)'
                     PROVE  /\ pc'[u] \in {"busy", "queued"} => consumed[r] + Estimate[u] <= LimitOf(r)
                            /\ pc'[u] = "recording" => consumed[r] + tokens'[u] <= LimitOf(r) + Excess
          BY <3>0 DEF Room
        <4>1. CASE u = t
          BY <3>0, <3>2, <3>3, <4>1, Limits DEF Current, Daily, DayRow, IInv, TypeOK
        <4>2. CASE u # t
          BY <3>0, <4>2 DEF Room, Current, Daily, IInv, TypeOK
        <4> QED BY <4>1, <4>2
      <3>5. QuotaEnforcedPerKey'
        BY <3>0 DEF QuotaEnforcedPerKey
      <3> QED BY <3>1, <3>4, <3>5
    <2>7. CASE Complete(t)
      <3>0. /\ pc[t] = "recording" /\ day[t] \in Days /\ today \in Days /\ tokens[t] \in Nat
            /\ pc' = [pc EXCEPT ![t] = "done"] /\ UNCHANGED <<tokens, today, day, shared>>
            /\ consumed' = [r \in Rows |-> IF r \in Current(t) THEN consumed[r] + tokens[t]
                                           ELSE consumed[r]]
        BY <2>7 DEF Complete, Close, Goto, usageVars, IInv, TypeOK
      <3>1. ~shared => \A u \in Calls : u # t => pc'[u] \in {"new", "done"}
        BY <3>0 DEF IInv, Alone, InFlight, TypeOK
      <3>2. \A d \in Days : d > today => consumed'[DayRow(d)] = 0
        <4> SUFFICES ASSUME NEW d \in Days, d > today PROVE DayRow(d) \notin Current(t)
          BY <3>0, Limits DEF Fresh
        <4>1. day[t] <= today /\ day[t] \in Int /\ today \in Int
          BY <3>0 DEF Fresh, Days
        <4> QED BY <4>1, Limits DEF Current, Daily, DayRow, Monthly
      <3>3. Fresh' /\ Room'
        <4>1. ~shared => \A u \in Calls : pc'[u] \in {"new", "done"}
          BY <3>0, <3>1 DEF IInv, TypeOK
        <4>2. Fresh'
          BY <3>0, <3>2, <4>1 DEF Fresh
        <4>3. Room'
          BY <3>0, <4>1 DEF Room
        <4> QED BY <4>2, <4>3
      <3>4. QuotaEnforcedPerKey'
        BY <3>0 DEF Room, QuotaEnforcedPerKey
      <3> QED BY <3>3, <3>4
    <2> QED
      BY <1>1, <2>1, <2>2, <2>3, <2>4, <2>5, <2>6, <2>7
         DEF CallStep, InsertConflicts, Deadlock, QuotaExceeded
  <1>2. CASE MinutePasses
    <2>1. Fresh'
      BY <1>2 DEF MinutePasses, Fresh
    <2>2. Room' /\ QuotaEnforcedPerKey'
      BY <1>2 DEF MinutePasses, usageVars, Room, Current, Daily, QuotaEnforcedPerKey
    <2> QED BY <2>1, <2>2
  <1>3. CASE DayPasses
    <2>1. Fresh'
      BY <1>3 DEF DayPasses, Fresh, IInv, TypeOK, Days
    <2>2. Room' /\ QuotaEnforcedPerKey'
      BY <1>3 DEF DayPasses, usageVars, Room, Current, Daily, QuotaEnforcedPerKey
    <2> QED BY <2>1, <2>2
  <1>4. CASE UNCHANGED vars
    BY <1>4 DEF vars, usageVars, Fresh, Room, Current, Daily, QuotaEnforcedPerKey
  <1> QED BY <1>1, <1>2, <1>3, <1>4 DEF Next

\* Calls that only the lock of their API key serialises exceed the daily and the
\* monthly quota by no more than one answer exceeds its estimate, also when the
\* answer comes after midnight.
THEOREM QuotaPerKey == Spec => []QuotaEnforcedPerKey
  <1>1. IInv /\ QInv /\ [Next]_vars => QInv'
    BY NextQInv
  <1>2. QInv => QuotaEnforcedPerKey
    BY DEF QInv
  <1> QED BY <1>1, <1>2, InitQInv, Invariance, PTL DEF Spec
===============================================================================
