------------------------------ MODULE UsageLimits ------------------------------
(***************************************************************************)
(* The limits of one client: the per-minute counter in Redis and the daily *)
(* and monthly quota_counters in PostgreSQL, read by ensure_quota when a   *)
(* request comes in and increased by record_usage when it is answered.     *)
(*                                                                         *)
(* Both work on the ORM copy of the counter.  A synchronous request does   *)
(* both in one transaction, so what it adds to is the value it read before *)
(* calling the backend; an asynchronous job checks when it is created and  *)
(* a worker records it in another transaction.  The row lock on the API    *)
(* key (see SyncRequests) serialises the requests of one key.              *)
(***************************************************************************)
EXTENDS Integers, FiniteSets

CONSTANTS
    Calls,          \* requests and jobs of the client
    Jobs,           \* those submitted to /v1/chat/completions/async
    Keys, KeyOf,    \* the API key each call carries
    LastDay,        \* the number of days of the month
    DailyLimit, MonthlyLimit,
    Estimate,       \* prompt_tokens + max_tokens of a call
    Excess,         \* bound on what the words of an answer exceed max_tokens by
    RateLimit,      \* rate_limit_per_minute
    NoCall,
    MaxMinutes      \* bound on the minutes that pass

Days == 1..LastDay
Rows == {<<"daily", d>> : d \in Days} \cup {<<"monthly", 1>>}
LimitOf(r) == IF r[1] = "daily" THEN DailyLimit ELSE MonthlyLimit

ASSUME UsageAssumption ==
    /\ Jobs \subseteq Calls
    /\ KeyOf \in [Calls -> Keys]
    /\ LastDay \in Nat \ {0}
    /\ Estimate \in [Calls -> Nat \ {0}]
    /\ {DailyLimit, MonthlyLimit, Excess, RateLimit, MaxMinutes} \subseteq Nat
    /\ NoCall \notin Calls

VARIABLES
    counter,   \* quota_counters.used_tokens; -1: no row
    lock,      \* the call whose transaction has written a row
    today,
    hits,      \* ratelimit:client:{id}:{minute}
    pc, day, mem,   \* per call: program point, its date.today(), identity map
    tokens, charged,  \* per call: what it has used, the rows it has added that to
    consumed,  \* history: tokens of the calls whose usage was committed
    admitted,  \* history: calls let through in this minute
    shared,    \* history: calls that no lock serialises have overlapped
    minutes

usageVars == <<tokens, charged>>
vars == <<counter, lock, today, hits, pc, day, mem, usageVars, consumed, admitted, shared, minutes>>

NoRow == -1
NotRead == -2

\* Program points of a call:
\*   new       not yet received          checking  in ensure_quota
\*   busy      request at the backend    queued    job waiting for a worker
\*   recording in record_usage           done      over, with or without usage
TypeOK ==
    /\ counter \in [Rows -> Nat \cup {NoRow}]
    /\ lock \in [Rows -> Calls \cup {NoCall}]
    /\ today \in Days
    /\ hits \in Nat
    /\ pc \in [Calls -> {"new", "checking", "busy", "queued", "recording", "done"}]
    /\ day \in [Calls -> Days]
    /\ mem \in [Calls -> [Rows -> Nat \cup {NoRow, NotRead}]]
    /\ tokens \in [Calls -> Nat]
    /\ charged \in [Calls -> SUBSET Rows]
    /\ consumed \in [Rows -> Nat]
    /\ admitted \in Nat
    /\ shared \in BOOLEAN
    /\ minutes \in Nat

Nothing == [r \in Rows |-> NotRead]

Init ==
    /\ counter = [r \in Rows |-> NoRow]
    /\ lock = [r \in Rows |-> NoCall]
    /\ today = 1
    /\ hits = 0
    /\ pc = [t \in Calls |-> "new"]
    /\ day = [t \in Calls |-> 1]
    /\ mem = [t \in Calls |-> Nothing]
    /\ tokens = [t \in Calls |-> 0]
    /\ charged = [t \in Calls |-> {}]
    /\ consumed = [r \in Rows |-> 0]
    /\ admitted = 0
    /\ shared = FALSE
    /\ minutes = 0

-------------------------------------------------------------------------------
\* The transactions that hold the row of the call's API key; a job's worker
\* does not touch it.
AtApi(t) == pc[t] \in {"checking", "busy"} \/ (pc[t] = "recording" /\ t \notin Jobs)

\* No wait for the key's row.
KeyFreeUnlocked(t) == TRUE

KeyFree(t) == \A u \in Calls : AtApi(u) => KeyOf[u] # KeyOf[t]

InFlight(t) == pc[t] \notin {"new", "done"}
Serialised(t, u) == KeyOf[t] = KeyOf[u] /\ {t, u} \cap Jobs = {}

Daily(t) == <<"daily", day[t]>>
Monthly == <<"monthly", 1>>
Current(t) == {Daily(t), Monthly}
Goto(t, p) == pc' = [pc EXCEPT ![t] = p]

\* A limit compared after the fact.
RateLimitLate(t) == hits <= RateLimit

RateLimitPasses(t) == hits + 1 <= RateLimit

\* require_client and enforce_rate_limit: INCR counts refused calls as well.
Enter(t) ==
    /\ pc[t] = "new"
    /\ KeyFree(t)
    /\ day' = [day EXCEPT ![t] = today]
    /\ hits' = hits + 1
    /\ IF RateLimitPasses(t)
       THEN /\ Goto(t, "checking")
            /\ admitted' = admitted + 1
            /\ shared' = (shared \/ \E u \in Calls : InFlight(u) /\ ~Serialised(t, u))
       ELSE Goto(t, "done") /\ UNCHANGED <<admitted, shared>>
    /\ UNCHANGED <<usageVars, counter, lock, today, mem, consumed, minutes>>

\* The monthly row comes after the daily one; record_usage has then added to
\* that, and the next query has flushed it.
DailyDone(t) ==
    /\ mem[t][Daily(t)] >= 0
    /\ pc[t] = "recording" => Daily(t) \in charged[t]

\* _get_or_create_*: the SELECT.  Rows already in the identity map stay as
\* they are; the uncommitted row of another call is not seen.
Read(t, r) ==
    /\ pc[t] \in {"checking", "recording"}
    /\ r = Daily(t) \/ (r = Monthly /\ DailyDone(t))
    /\ mem[t][r] = NotRead
    /\ mem' = [mem EXCEPT ![t][r] = counter[r]]
    /\ UNCHANGED <<usageVars, counter, lock, today, day, hits, pc, consumed, admitted, shared, minutes>>

\* ... and the INSERT, which waits for the transaction that has inserted the
\* same key.
Insert(t, r) ==
    /\ mem[t][r] = NoRow
    /\ lock[r] = NoCall
    /\ counter[r] = NoRow
    /\ lock' = [lock EXCEPT ![r] = t]
    /\ mem' = [mem EXCEPT ![t][r] = 0]
    /\ UNCHANGED <<usageVars, counter, today, day, hits, pc, consumed, admitted, shared, minutes>>

Unlocked(t) == [r \in Rows |-> IF lock[r] = t THEN NoCall ELSE lock[r]]
Close(t, p) == Goto(t, p) /\ mem' = [mem EXCEPT ![t] = Nothing] /\ lock' = Unlocked(t)

\* The session is not closed when the handler raises.
FailUnclosed(t) ==
    /\ Goto(t, "done")
    /\ mem' = [mem EXCEPT ![t] = Nothing]
    /\ UNCHANGED <<usageVars, counter, lock, today, day, hits, consumed, admitted, shared, minutes>>

\* A call that ends without usage; its transaction is rolled back.
Fail(t) ==
    /\ Close(t, "done")
    /\ UNCHANGED <<usageVars, counter, today, day, hits, consumed, admitted, shared, minutes>>

\* It had been committed by then: IntegrityError, a 500 or a dead worker.
InsertConflicts(t, r) ==
    /\ mem[t][r] = NoRow
    /\ lock[r] = NoCall
    /\ counter[r] # NoRow
    /\ Fail(t)

Loaded(t) == \A r \in Current(t) : mem[t][r] >= 0

\* The check without the tokens of the call itself.
FitsBefore(t) == \A r \in Current(t) : mem[t][r] <= LimitOf(r)

Fits(t) == \A r \in Current(t) : mem[t][r] + Estimate[t] <= LimitOf(r)

QuotaExceeded(t) ==
    /\ pc[t] = "checking" /\ Loaded(t)
    /\ ~Fits(t)
    /\ Fail(t)

CallBackend(t) ==
    /\ pc[t] = "checking" /\ Loaded(t)
    /\ t \notin Jobs
    /\ Fits(t)
    /\ Goto(t, "busy")
    /\ UNCHANGED <<usageVars, counter, lock, today, day, hits, mem, consumed, admitted, shared, minutes>>

\* A commit that saves every row, read or not.
CommittedAll(t) == mem[t]

\* A commit without usage leaves the rows the call has inserted.
Committed(t) == [r \in Rows |-> IF lock[r] = t THEN mem[t][r] ELSE counter[r]]

\* create_chat_generation_job commits the job, and the rows it has created.
CreateJob(t) ==
    /\ pc[t] = "checking" /\ Loaded(t)
    /\ t \in Jobs
    /\ Fits(t)
    /\ counter' = Committed(t)
    /\ Close(t, "queued")
    /\ UNCHANGED <<usageVars, today, day, hits, consumed, admitted, shared, minutes>>

\* The backend failed: the log entry, or the failed job, is committed.
CallFails(t) ==
    /\ pc[t] \in {"busy", "queued"}
    /\ counter' = Committed(t)
    /\ Close(t, "done")
    /\ UNCHANGED <<usageVars, today, day, hits, consumed, admitted, shared, minutes>>

\* What may be recorded for a call: max_tokens for a stream, otherwise a count
\* of the words of the response body, which max_tokens does not bound.
Usage(t) == 1..(Estimate[t] + Excess)

\* The backend, or the cache, has answered.
Answered(t, n) ==
    /\ pc[t] \in {"busy", "queued"}
    /\ Goto(t, "recording")
    /\ day' = [day EXCEPT ![t] = today]
    /\ tokens' = [tokens EXCEPT ![t] = n]
    /\ UNCHANGED <<counter, lock, today, hits, mem, charged, consumed, admitted, shared, minutes>>

\* Adding the estimate as well.
ChargedTwice(t, r) == mem[t][r] + Estimate[t] + tokens[t]

\* The copy plus the tokens, whatever the row holds by now.
Charged(t, r) == mem[t][r] + tokens[t]

ToCharge(t, r) ==
    /\ pc[t] = "recording"
    /\ r \in Current(t) \ charged[t]
    /\ mem[t][r] >= 0
    /\ r = Daily(t) \/ DailyDone(t)

\* record_usage on one counter: the UPDATE takes the row lock.
Charge(t, r) ==
    /\ ToCharge(t, r)
    /\ lock[r] \in {NoCall, t}
    /\ lock' = [lock EXCEPT ![r] = t]
    /\ mem' = [mem EXCEPT ![t][r] = Charged(t, r)]
    /\ charged' = [charged EXCEPT ![t] = @ \cup {r}]
    /\ UNCHANGED <<counter, today, day, hits, pc, tokens, consumed, admitted, shared, minutes>>

\* The log entry and the commit.
Complete(t) ==
    /\ pc[t] = "recording"
    /\ charged[t] = Current(t)
    /\ counter' = Committed(t)
    /\ consumed' = [r \in Rows |-> IF r \in Current(t) THEN consumed[r] + tokens[t] ELSE consumed[r]]
    /\ Close(t, "done")
    /\ UNCHANGED <<usageVars, today, day, hits, admitted, shared, minutes>>

\* A call waits for the transaction that has inserted the row it wants.
WaitsFor(t, u) ==
    \E r \in Rows :
        /\ lock[r] = u
        /\ mem[t][r] = NoRow \/ ToCharge(t, r)

\* PostgreSQL breaks a cycle by aborting one transaction.
Deadlock(t) ==
    /\ \E u \in Calls \ {t} : WaitsFor(t, u) /\ WaitsFor(u, t)
    /\ Fail(t)

MinutePasses ==
    /\ minutes < MaxMinutes
    /\ minutes' = minutes + 1
    /\ hits' = 0 /\ admitted' = 0
    /\ UNCHANGED <<usageVars, counter, lock, today, day, pc, mem, consumed, shared>>

DayPasses ==
    /\ today < LastDay
    /\ today' = today + 1
    /\ UNCHANGED <<usageVars, counter, lock, hits, day, pc, mem, consumed, admitted, shared, minutes>>

CallStep(t) ==
    \/ Enter(t)
    \/ \E r \in Rows : Read(t, r) \/ Insert(t, r) \/ InsertConflicts(t, r) \/ Charge(t, r)
    \/ Deadlock(t) \/ QuotaExceeded(t) \/ CallBackend(t) \/ CreateJob(t) \/ CallFails(t)
    \/ \E n \in Usage(t) : Answered(t, n)
    \/ Complete(t)

Next == (\E t \in Calls : CallStep(t)) \/ MinutePasses \/ DayPasses

Spec == Init /\ [][Next]_vars

\* Handlers and workers run to their end.
FairSpec == Spec /\ \A t \in Calls : WF_vars(CallStep(t))

-------------------------------------------------------------------------------
(***************************************************************************)
(* Properties.                                                             *)
(***************************************************************************)

\* "Rate limit enforcement is active": INCR is atomic, so however calls
\* overlap no minute lets more of them through than the plan allows.
RateLimited == admitted <= RateLimit

\* Calls that overlap can lose each other's usage, but a client is never
\* charged for tokens nobody answered with.
NeverOvercharged == \A r \in Rows : counter[r] <= consumed[r]

\* As long as the calls of a client overlap only under the lock of one API key,
\* which lets the next one in after the commit of the last, the counters hold
\* exactly what was consumed.
UsageCounted ==
    ~shared => \A r \in Rows : counter[r] >= 0 => counter[r] = consumed[r]

\* "Daily and monthly quotas are enforced": what a client consumes in a period
\* stays within its limit.
QuotaEnforced == \A r \in Rows : consumed[r] <= LimitOf(r)

\* For the calls of one API key that is so, also across midnight, up to what
\* the answer to a single call measures beyond its estimate: the excess of one
\* call does not add to that of the next.
QuotaEnforcedPerKey == ~shared => \A r \in Rows : consumed[r] <= LimitOf(r) + Excess

\* A call that waits to insert a counter another one has inserted is not stuck:
\* every call comes to its end.
CallsEnd == \A t \in Calls : pc[t] = "checking" ~> pc[t] = "done"
===============================================================================
