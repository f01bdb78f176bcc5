----------------------------- MODULE SyncRequests -----------------------------
(***************************************************************************)
(* POST /v1/chat/completions: one API process whose requests share the     *)
(* circuit breaker, the bounded queue of QueueManager, the database        *)
(* connection pool and, with the worker processes, the backend slots.      *)
(*                                                                         *)
(* A request keeps the connection of its session, and through the flush of *)
(* last_used_at the row lock of its API key, from require_client to its    *)
(* final commit; try_acquire and release need a second connection.         *)
(* Steps between two awaits are one action: asyncio never switches there.  *)
(***************************************************************************)
EXTENDS BackendSlotManager, CircuitBreaker, FiniteSets

CONSTANTS
    Requests,       \* requests that may arrive, each at most once
    Streaming,      \* those with stream=true
    Keys, KeyOf,    \* the API key a request carries
    Routes, RouteRank,  \* routes of the requested model, as in GenerationJobs
    NoBackend,
    MaxQueueSize,   \* settings.max_queue_size
    RetryAttempts,  \* settings.retry_attempts
    PoolSize,       \* connections of the SQLAlchemy engine
    MaxHeld,        \* bound on the slots worker processes hold
    MaxFaults       \* bound on deaths of the API process

ASSUME SyncAssumption ==
    /\ IsFiniteSet(Requests)
    /\ Streaming \subseteq Requests
    /\ KeyOf \in [Requests -> Keys]
    /\ Routes \subseteq Backends
    /\ RouteRank \in [Backends -> Nat]
    /\ NoBackend \notin Backends
    /\ MaxQueueSize \in Nat /\ RetryAttempts \in Nat
    /\ PoolSize \in Nat /\ MaxHeld \in Nat /\ MaxFaults \in Nat

VARIABLES
    pc, left, at, tries, result,  \* request-local state
    pending,    \* QueueManager.pending
    held,       \* slots held by generation workers
    leaked,     \* history: slots whose holder died or failed to release
    answer,     \* history: what the client received, or "none"
    billed,     \* history: committed record_usage calls of a request
    late,       \* history: calls sent since the breaker opened
    faults

localVars == <<pc, left, at, tries, result>>
historyVars == <<leaked, answer, billed, late, faults>>
vars == <<slotVars, breakerVars, localVars, pending, held, historyVars>>

\* Program points of a request:
\*   new        not yet received            locking   waits for the API key's row
\*   resolved   limits and model checked    routing   before the next route
\*   waiting    in the queue, polling       calling   slot held, backend called
\*   releasing  in the finally clauses      serving   has an answer to record
\*   erring     has an error to log         streaming body being relayed
\*   done       answered                    lost      the process died
PC == {"new", "locking", "resolved", "routing", "waiting", "calling", "releasing",
       "serving", "erring", "streaming", "done", "lost"}
Result == {"none", "ok", "retryable", "rejected", "raised"}

InQueue(r) == pc[r] \in {"waiting", "calling", "releasing"}
Holding(r) == pc[r] \in {"calling", "releasing"}
Holders(b) == {r \in Requests : Holding(r) /\ at[r] = b}

\* The requests whose transaction is open, and with it a connection; past
\* "locking" they also hold the row of their API key.
InTransaction(r) == InQueue(r) \/ pc[r] \in {"locking", "resolved", "routing", "serving", "erring"}
Connected == {r \in Requests : InTransaction(r)}
Connection == Cardinality(Connected) < PoolSize
KeyLocked(k) == \E r \in Connected : KeyOf[r] = k /\ pc[r] # "locking"

TypeOK ==
    /\ SlotTypeOK /\ BreakerTypeOK
    /\ pc \in [Requests -> PC]
    /\ left \in [Requests -> SUBSET Backends]
    /\ at \in [Requests -> Backends \cup {NoBackend}]
    /\ tries \in [Requests -> Nat]
    /\ result \in [Requests -> Result]
    /\ pending \in Nat
    /\ held \in [Backends -> Nat]
    /\ leaked \in [Backends -> Nat]
    /\ answer \in [Requests -> {"none", "ok", "error"}]
    /\ billed \in [Requests -> Nat]
    /\ late \in Nat
    /\ faults \in Nat

Init ==
    /\ SlotInit /\ BreakerInit
    /\ pc = [r \in Requests |-> "new"]
    /\ left = [r \in Requests |-> {}]
    /\ at = [r \in Requests |-> NoBackend]
    /\ tries = [r \in Requests |-> 0]
    /\ result = [r \in Requests |-> "none"]
    /\ pending = 0
    /\ held = [b \in Backends |-> 0]
    /\ leaked = [b \in Backends |-> 0]
    /\ answer = [r \in Requests |-> "none"]
    /\ billed = [r \in Requests |-> 0]
    /\ late = 0
    /\ faults = 0

-------------------------------------------------------------------------------
Goto(r, p) == pc' = [pc EXCEPT ![r] = p]
Answer(r, a) == answer' = [answer EXCEPT ![r] = a]
Raise(r) == Goto(r, "done") /\ Answer(r, "error")

\* What one call sent to a backend adds to the calls since the opening.
Sent == late' = IF openedAt = "zero" THEN 0 ELSE late + 1

(***************************************************************************)
(* Before the inference proxy.                                             *)
(***************************************************************************)

\* The first query of require_client checks a connection out of the pool.
Arrive(r) ==
    /\ pc[r] = "new"
    /\ Connection
    /\ Goto(r, "locking")
    /\ UNCHANGED <<slotVars, breakerVars, left, at, tries, result, pending, held, historyVars>>

ArriveStarved(r) ==
    /\ pc[r] = "new"
    /\ ~Connection
    /\ Raise(r)
    /\ UNCHANGED <<slotVars, breakerVars, left, at, tries, result, pending, held,
                   leaked, billed, late, faults>>

\* The flush of last_used_at, then model resolution, rate limit and quota.
Authenticate(r) ==
    /\ pc[r] = "locking"
    /\ ~KeyLocked(KeyOf[r])
    /\ Goto(r, "resolved")
    /\ UNCHANGED <<slotVars, breakerVars, left, at, tries, result, pending, held, historyVars>>

\* 401 or 403 before the flush: not a way out for a request that waits in it.
RefuseClient(r) ==
    /\ pc[r] = "locking"
    /\ Raise(r)
    /\ UNCHANGED <<slotVars, breakerVars, left, at, tries, result, pending, held,
                   leaked, billed, late, faults>>

\* 403, 404, 413, 422, 429: the transaction is rolled back.
Refuse(r) ==
    /\ pc[r] = "resolved"
    /\ Raise(r)
    /\ UNCHANGED <<slotVars, breakerVars, left, at, tries, result, pending, held,
                   leaked, billed, late, faults>>

CacheHit(r) ==
    /\ pc[r] = "resolved"
    /\ r \notin Streaming
    /\ billed' = [billed EXCEPT ![r] = @ + 1]
    /\ Goto(r, "done")
    /\ Answer(r, "ok")
    /\ UNCHANGED <<slotVars, breakerVars, left, at, tries, result, pending, held,
                   leaked, late, faults>>

\* plan_routing_order: the active backends as they were read in this
\* transaction; with none, "model backend is not active".
PlanRoutes(r) ==
    LET routes == {b \in Routes : isActive[b]} IN
    /\ pc[r] = "resolved"
    /\ left' = [left EXCEPT ![r] = routes]
    /\ Goto(r, IF routes = {} THEN "erring" ELSE "routing")
    /\ UNCHANGED <<slotVars, breakerVars, at, tries, result, pending, held, historyVars>>

NextRoute(r, b) ==
    /\ b \in left[r]
    /\ \A c \in left[r] : RouteRank[b] <= RouteRank[c]

\* A program point nobody leaves.
FallBackMistyped(r, b, retryable) ==
    /\ left' = [left EXCEPT ![r] = @ \ {b}]
    /\ Goto(r, IF retryable /\ left[r] \ {b} # {} THEN "retrying" ELSE "erring")

\* The loop of _chat_with_fallback after an HTTPException for route b: below
\* 500, or for the last route, it ends.
FallBack(r, b, retryable) ==
    /\ left' = [left EXCEPT ![r] = @ \ {b}]
    /\ Goto(r, IF retryable /\ left[r] \ {b} # {} THEN "routing" ELSE "erring")

-------------------------------------------------------------------------------
(***************************************************************************)
(* InferenceProxy._forward: breaker, then queue, then slot.                *)
(***************************************************************************)

\* CircuitBreakerOpen becomes a 503, which the fallback loop retries.
BreakerRefuses(r, b) ==
    /\ pc[r] = "routing"
    /\ NextRoute(r, b)
    /\ BeforeCallRefuses
    /\ FallBack(r, b, TRUE)
    /\ UNCHANGED <<slotVars, at, tries, result, pending, held, historyVars>>

\* QueueOverloaded becomes a 429, which it does not.
QueueRefuses(r, b) ==
    /\ pc[r] = "routing"
    /\ NextRoute(r, b)
    /\ BeforeCallPasses
    /\ pending >= MaxQueueSize
    /\ FallBack(r, b, FALSE)
    /\ late' = IF openedAt' = "zero" THEN 0 ELSE late
    /\ UNCHANGED <<slotVars, at, tries, result, pending, held, leaked, answer, billed, faults>>

\* Without before_call.
EnterQueueUnguarded(r, b) ==
    /\ pc[r] = "routing"
    /\ NextRoute(r, b)
    /\ pending < MaxQueueSize
    /\ pending' = pending + 1
    /\ at' = [at EXCEPT ![r] = b]
    /\ Goto(r, "waiting")
    /\ UNCHANGED <<slotVars, breakerVars, left, tries, result, held, historyVars>>

EnterQueue(r, b) ==
    /\ pc[r] = "routing"
    /\ NextRoute(r, b)
    /\ BeforeCallPasses
    /\ pending < MaxQueueSize
    /\ pending' = pending + 1
    /\ at' = [at EXCEPT ![r] = b]
    /\ Goto(r, "waiting")
    /\ late' = IF openedAt' = "zero" THEN 0 ELSE late
    /\ UNCHANGED <<slotVars, left, tries, result, held, leaked, answer, billed, faults>>

LeaveQueue == pending' = IF pending > 0 THEN pending - 1 ELSE 0

Acquire(r) ==
    /\ pc[r] = "waiting"
    /\ Connection
    /\ TryAcquire(at[r])
    /\ tries' = [tries EXCEPT ![r] = 0]
    /\ Goto(r, "calling")
    /\ Sent
    /\ UNCHANGED <<breakerVars, left, at, result, pending, held, leaked, answer, billed, faults>>

\* A timeout whose finally clause does not count the request out.
AcquireTimesOutUncounted(r) ==
    /\ pc[r] = "waiting"
    /\ Connection
    /\ TryAcquireRefused(at[r])
    /\ FallBack(r, at[r], TRUE)
    /\ UNCHANGED <<breakerVars, at, tries, result, pending, held, historyVars>>

\* try_acquire was refused and queue_timeout_seconds are over: a 504.
AcquireTimesOut(r) ==
    /\ pc[r] = "waiting"
    /\ Connection
    /\ TryAcquireRefused(at[r])
    /\ LeaveQueue
    /\ FallBack(r, at[r], TRUE)
    /\ UNCHANGED <<breakerVars, at, tries, result, held, historyVars>>

\* A pool that waits without a timeout.
AcquireWaitsOn(r) == pc[r] = "waiting" /\ ~Connection /\ FALSE

\* No connection within the pool's timeout: the error is not an
\* HTTPException, so neither the fallback loop nor the handler catches it.
AcquireStarved(r) ==
    /\ pc[r] = "waiting"
    /\ ~Connection
    /\ LeaveQueue
    /\ Raise(r)
    /\ UNCHANGED <<slotVars, breakerVars, left, at, tries, result, held,
                   leaked, billed, late, faults>>

-------------------------------------------------------------------------------
(***************************************************************************)
(* _json_forward and _streaming_forward: the answers of the backend.       *)
(***************************************************************************)

Ends(r, res) == Goto(r, "releasing") /\ result' = [result EXCEPT ![r] = res]

\* 2xx, or the headers of a stream.
CallSucceeds(r) ==
    /\ pc[r] = "calling"
    /\ RecordSuccess
    /\ late' = 0
    /\ Ends(r, "ok")
    /\ UNCHANGED <<slotVars, left, at, tries, pending, held, leaked, answer, billed, faults>>

\* 2xx with a body that is not JSON: counted as a success, then raised.
CallMalformed(r) ==
    /\ pc[r] = "calling"
    /\ r \notin Streaming
    /\ RecordSuccess
    /\ late' = 0
    /\ Ends(r, "raised")
    /\ UNCHANGED <<slotVars, left, at, tries, pending, held, leaked, answer, billed, faults>>

\* 5xx or a transport error before the last attempt; a stream has only one.
CallRetries(r) ==
    /\ pc[r] = "calling"
    /\ r \notin Streaming
    /\ tries[r] < RetryAttempts
    /\ tries' = [tries EXCEPT ![r] = @ + 1]
    /\ Sent
    /\ UNCHANGED <<slotVars, breakerVars, pc, left, at, result, pending, held,
                   leaked, answer, billed, faults>>

\* The last attempt failed: one failure for the whole loop.
CallFails(r) ==
    /\ pc[r] = "calling"
    /\ r \in Streaming \/ tries[r] = RetryAttempts
    /\ RecordFailure
    /\ late' = IF openedAt = "zero" THEN 0 ELSE late
    /\ Ends(r, "retryable")
    /\ UNCHANGED <<slotVars, left, at, tries, pending, held, leaked, answer, billed, faults>>

\* 4xx: passed on, not retried, no business of the breaker.
CallRejected(r) ==
    /\ pc[r] = "calling"
    /\ Ends(r, "rejected")
    /\ UNCHANGED <<slotVars, breakerVars, left, at, tries, pending, held, historyVars>>

\* The return value or the exception on its way through QueueManager.slot.
Leave(r) ==
    CASE result[r] = "ok"     -> Goto(r, "serving") /\ UNCHANGED <<left, answer>>
      [] result[r] = "raised" -> Raise(r) /\ UNCHANGED left
      [] OTHER                -> FallBack(r, at[r], result[r] = "retryable") /\ UNCHANGED answer

\* A success that skips the release.
ReleaseSlotOnErrorOnly(r) ==
    /\ pc[r] = "releasing"
    /\ Connection
    /\ IF result[r] = "ok" THEN UNCHANGED slotVars ELSE Release(at[r])
    /\ LeaveQueue
    /\ Leave(r)
    /\ UNCHANGED <<breakerVars, at, tries, result, held, leaked, billed, late, faults>>

\* Both finally clauses of QueueManager.slot.
ReleaseSlot(r) ==
    /\ pc[r] = "releasing"
    /\ Connection
    /\ Release(at[r])
    /\ LeaveQueue
    /\ Leave(r)
    /\ UNCHANGED <<breakerVars, at, tries, result, held, leaked, billed, late, faults>>

\* release got no connection: its exception replaces whatever was under way,
\* and current_running stays one too high.
ReleaseStarved(r) ==
    /\ pc[r] = "releasing"
    /\ ~Connection
    /\ leaked' = [leaked EXCEPT ![at[r]] = @ + 1]
    /\ LeaveQueue
    /\ Raise(r)
    /\ UNCHANGED <<slotVars, breakerVars, left, at, tries, result, held, billed, late, faults>>

-------------------------------------------------------------------------------
(***************************************************************************)
(* After the inference proxy.                                              *)
(***************************************************************************)

\* Billing a request again for every failed route.
ServePerAttempt(r) ==
    /\ pc[r] = "serving"
    /\ billed' = [billed EXCEPT ![r] = @ + 1 + Cardinality(Routes \ left[r])]
    /\ Goto(r, IF r \in Streaming THEN "streaming" ELSE "done")
    /\ Answer(r, "ok")
    /\ UNCHANGED <<slotVars, breakerVars, left, at, tries, result, pending, held,
                   leaked, late, faults>>

\* record_usage, log_request and the commit; a stream is billed up front.
Serve(r) ==
    /\ pc[r] = "serving"
    /\ billed' = [billed EXCEPT ![r] = @ + 1]
    /\ Goto(r, IF r \in Streaming THEN "streaming" ELSE "done")
    /\ Answer(r, "ok")
    /\ UNCHANGED <<slotVars, breakerVars, left, at, tries, result, pending, held,
                   leaked, late, faults>>

\* An IntegrityError of the cache or the counters: everything is rolled back.
ServeRaises(r) ==
    /\ pc[r] = "serving"
    /\ Raise(r)
    /\ UNCHANGED <<slotVars, breakerVars, left, at, tries, result, pending, held,
                   leaked, billed, late, faults>>

\* except HTTPException: the error is logged and committed, nothing billed.
LogError(r) ==
    /\ pc[r] = "erring"
    /\ Raise(r)
    /\ UNCHANGED <<slotVars, breakerVars, left, at, tries, result, pending, held,
                   leaked, billed, late, faults>>

StreamEnds(r) ==
    /\ pc[r] = "streaming"
    /\ Goto(r, "done")
    /\ UNCHANGED <<slotVars, breakerVars, left, at, tries, result, pending, held, historyVars>>

\* A transport error in the middle of the body is a failure for the breaker.
StreamBreaks(r) ==
    /\ pc[r] = "streaming"
    /\ RecordFailure
    /\ late' = IF openedAt = "zero" THEN 0 ELSE late
    /\ Goto(r, "done")
    /\ UNCHANGED <<slotVars, left, at, tries, result, pending, held, leaked, answer, billed, faults>>

-------------------------------------------------------------------------------
(***************************************************************************)
(* The rest of the system.                                                 *)
(***************************************************************************)

\* The slots of asynchronous jobs: GenerationJobs!TakeRoute and ReleaseSlot.
WorkerTakes(b) ==
    /\ held[b] < MaxHeld
    /\ TryAcquire(b)
    /\ held' = [held EXCEPT ![b] = @ + 1]
    /\ UNCHANGED <<breakerVars, localVars, pending, historyVars>>

WorkerReturns(b) ==
    /\ held[b] > 0
    /\ Release(b)
    /\ held' = [held EXCEPT ![b] = @ - 1]
    /\ UNCHANGED <<breakerVars, localVars, pending, historyVars>>

TimePasses ==
    /\ RecoveryElapses
    /\ UNCHANGED <<slotVars, localVars, pending, held, historyVars>>

\* POST /admin/backends/circuit-breaker/reset
ResetBreaker ==
    /\ openedAt # "zero"
    /\ Clear
    /\ late' = 0
    /\ UNCHANGED <<slotVars, localVars, pending, held, leaked, answer, billed, faults>>

AdminBackends ==
    /\ \/ \E b \in Backends : PatchBackend(b) \/ RunBackendAction(b)
       \/ EnsureDefaultBackends
    /\ UNCHANGED <<breakerVars, localVars, pending, held, historyVars>>

\* The process dies and comes back: its memory and its transactions are gone,
\* the slots its requests held stay counted in the database.
ApiDies ==
    /\ faults < MaxFaults
    /\ faults' = faults + 1
    /\ leaked' = [b \in Backends |-> leaked[b] + Cardinality(Holders(b))]
    /\ pc' = [r \in Requests |-> IF pc[r] \in {"new", "done"} THEN pc[r] ELSE "lost"]
    /\ pending' = 0
    /\ Clear
    /\ late' = 0
    /\ EnsureDefaultBackends
    /\ UNCHANGED <<left, at, tries, result, held, answer, billed>>

QueueStep(r) == Acquire(r) \/ AcquireTimesOut(r) \/ AcquireStarved(r)
CallStep(r) ==
    \/ CallSucceeds(r) \/ CallMalformed(r) \/ CallRetries(r) \/ CallFails(r)
    \/ CallRejected(r)

Handle(r) ==
    \/ Authenticate(r) \/ Refuse(r) \/ CacheHit(r) \/ PlanRoutes(r)
    \/ \E b \in Backends : BreakerRefuses(r, b) \/ QueueRefuses(r, b) \/ EnterQueue(r, b)
    \/ QueueStep(r) \/ CallStep(r) \/ ReleaseSlot(r) \/ ReleaseStarved(r)
    \/ Serve(r) \/ ServeRaises(r) \/ LogError(r)

Next ==
    \/ \E r \in Requests : \/ Arrive(r) \/ ArriveStarved(r) \/ RefuseClient(r) \/ Handle(r)
                           \/ StreamEnds(r) \/ StreamBreaks(r)
    \/ \E b \in Backends : WorkerTakes(b) \/ WorkerReturns(b)
    \/ TimePasses \/ ResetBreaker \/ AdminBackends \/ ApiDies

Spec == Init /\ [][Next]_vars

\* Every await of a handler ends: queries, polls and backend calls are bounded
\* by timeouts.
FairSpec == Spec /\ \A r \in Requests : WF_vars(Handle(r))

-------------------------------------------------------------------------------
(***************************************************************************)
(* Properties.                                                             *)
(***************************************************************************)

\* QueueManager.pending counts the requests between its two locked sections,
\* whatever way each of them leaves slot(), and never passes max_queue_size.
PendingExact ==
    /\ pending = Cardinality({r \in Requests : InQueue(r)})
    /\ pending <= MaxQueueSize

\* current_running of a backend is the slots of its requests, of the workers
\* and of those that were never given back.
SlotAccounting ==
    \A b \in Backends :
        currentRunning[b] = Cardinality(Holders(b)) + held[b] + leaked[b]

\* before_call is checked once per route, before the wait for a slot: calls do
\* reach backends while the breaker is open, but only from requests that were
\* in the queue when it opened, so at most max_queue_size full retry loops.
LateCallsBounded == late <= MaxQueueSize * (RetryAttempts + 1)

\* "Cache, retry, and fallback behavior do not duplicate billing": a client is
\* billed once for an answer and never without one.
BilledOnce ==
    \A r \in Requests : billed[r] = IF answer[r] = "ok" THEN 1 ELSE 0

\* Every request is answered, also when the pool is exhausted by requests that
\* wait for the row lock of the one that needs a second connection.
EveryRequestAnswered ==
    \A r \in Requests : pc[r] = "locking" ~> pc[r] \in {"streaming", "done", "lost"}

\* The generations under way on a backend: calls that wait for it, and streams
\* it is still producing.
Generating(b) ==
    {r \in Requests : pc[r] \in {"calling", "streaming"} /\ at[r] = b}

\* MAX_CONCURRENT_GENERATIONS and max_parallel_requests bound the generations
\* a backend works on at the same time.
GenerationsWithinLimit == \A b \in Backends : Cardinality(Generating(b)) <= Limit(b)
===============================================================================
