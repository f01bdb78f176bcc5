-------------------------- MODULE SyncRequestsProofs --------------------------
(***************************************************************************)
(* Proofs about SyncRequests for any number of requests, routes, retries,  *)
(* queue places, connections and deaths of the process.                    *)
(***************************************************************************)
EXTENDS SyncRequests, FiniteSetTheorems, TLAPS

\* A request in the queue has chosen its backend; one that calls it has retries
\* left or none, never fewer.
Located ==
    \A r \in Requests :
        /\ InQueue(r) => at[r] \in Backends
        /\ pc[r] = "calling" => tries[r] <= RetryAttempts

\* Nothing is answered or billed before the handler commits.
Unanswered ==
    \A r \in Requests : pc[r] \notin {"streaming", "done", "lost"} => answer[r] = "none"

\* The calls that a request can still send without asking the breaker again.
CallsLeft(r) ==
    IF pc[r] = "waiting" THEN RetryAttempts + 1
    ELSE IF pc[r] = "calling" THEN RetryAttempts - tries[r] ELSE 0

Budget == {c \in Requests \X (1..(RetryAttempts + 1)) : c[2] <= CallsLeft(c[1])}

\* While the breaker is open the calls sent since and the calls that can still be
\* sent fill at most the retry loops of a full queue.
LateBudget ==
    IF openedAt = "zero" THEN late = 0
    ELSE late + Cardinality(Budget) <= MaxQueueSize * (RetryAttempts + 1)

IInv ==
    /\ TypeOK
    /\ Located
    /\ Unanswered /\ BilledOnce
    /\ OpenHasTime
    /\ PendingExact
    /\ SlotAccounting
    /\ LateBudget

-------------------------------------------------------------------------------
(***************************************************************************)
(* Types, and what a request knows of itself.                              *)
(***************************************************************************)

\* The breaker's methods keep its two columns in their types and leave them in
\* step; a call passes only a breaker that is closed afterwards.
LEMMA BreakerMethods ==
    ASSUME BreakerTypeOK, OpenHasTime
    PROVE  /\ Clear \/ RecordSuccess \/ RecordFailure \/ RecoveryElapses \/ BeforeCallRefuses
                 \/ BeforeCallPasses \/ UNCHANGED breakerVars => BreakerTypeOK' /\ OpenHasTime'
           /\ BeforeCallPasses => openedAt' = "zero"
           /\ RecordFailure => failures' \in Nat /\ (openedAt # "zero" => openedAt' = openedAt)
  BY ThresholdAssumption DEF BreakerTypeOK, OpenHasTime, Clear, RecordSuccess, RecordFailure,
     RecoveryElapses, BeforeCallRefuses, BeforeCallPasses, breakerVars

\* Seeding and the administrators keep the backend columns well typed and never
\* touch current_running.
LEMMA BackendColumns ==
    ASSUME SlotTypeOK,
           EnsureDefaultBackends \/ \E b \in Backends : PatchBackend(b) \/ RunBackendAction(b)
    PROVE  SlotTypeOK' /\ currentRunning' = currentRunning
  <1>1. CASE EnsureDefaultBackends
    BY <1>1, SeedAssumption DEF SlotTypeOK, EnsureDefaultBackends
  <1>2. ASSUME NEW b \in Backends, PatchBackend(b) \/ RunBackendAction(b)
        PROVE  SlotTypeOK' /\ currentRunning' = currentRunning
    BY <1>2, ParallelAssumption DEF SlotTypeOK, PatchBackend, RunBackendAction
  <1> QED BY <1>1, <1>2

\* try_acquire and release write current_running of one backend.
LEMMA SlotColumns ==
    ASSUME SlotTypeOK, NEW b \in Backends
    PROVE  /\ TryAcquire(b) =>
                /\ SlotTypeOK' /\ currentRunning'[b] = currentRunning[b] + 1
                /\ \A c \in Backends \ {b} : currentRunning'[c] = currentRunning[c]
           /\ Release(b) =>
                /\ SlotTypeOK'
                /\ currentRunning'[b] = IF currentRunning[b] > 0 THEN currentRunning[b] - 1 ELSE 0
                /\ \A c \in Backends \ {b} : currentRunning'[c] = currentRunning[c]
  BY DEF SlotTypeOK, TryAcquire, Release

Local ==
    /\ pc \in [Requests -> PC]
    /\ left \in [Requests -> SUBSET Backends]
    /\ at \in [Requests -> Backends \cup {NoBackend}]
    /\ tries \in [Requests -> Nat]
    /\ result \in [Requests -> Result]
    /\ answer \in [Requests -> {"none", "ok", "error"}]
    /\ billed \in [Requests -> Nat]
    /\ Located /\ Unanswered /\ BilledOnce

\* What one request does to the variables that requests keep for themselves.
RequestStep(r) ==
    \/ Arrive(r) \/ ArriveStarved(r) \/ RefuseClient(r) \/ Handle(r)
    \/ StreamEnds(r) \/ StreamBreaks(r)

\* Every step of a request keeps its own part of the invariant.
LEMMA RequestLocal ==
    ASSUME IInv, NEW r \in Requests, RequestStep(r)
    PROVE  Local'
  <1> USE DEF IInv, TypeOK, Local, Located, Unanswered, BilledOnce, InQueue, Goto, Answer, Raise,
              historyVars, PC, Result
  <1>1. CASE Arrive(r) \/ Authenticate(r) \/ StreamEnds(r) \/ StreamBreaks(r)
    BY <1>1 DEF Arrive, Authenticate, StreamEnds, StreamBreaks
  <1>2. CASE ArriveStarved(r) \/ RefuseClient(r) \/ Refuse(r) \/ ServeRaises(r) \/ LogError(r)
    BY <1>2 DEF ArriveStarved, RefuseClient, Refuse, ServeRaises, LogError
  <1>3. CASE CacheHit(r) \/ Serve(r)
    BY <1>3 DEF CacheHit, Serve
  <1>4. CASE PlanRoutes(r)
    BY <1>4, SyncAssumption DEF PlanRoutes
  <1>5. ASSUME NEW b \in Backends, BreakerRefuses(r, b) \/ QueueRefuses(r, b)
        PROVE  Local'
    BY <1>5 DEF BreakerRefuses, QueueRefuses, FallBack
  <1>6. ASSUME NEW b \in Backends, EnterQueue(r, b)
        PROVE  Local'
    BY <1>6 DEF EnterQueue
  <1>7. CASE Acquire(r)
    BY <1>7, SyncAssumption DEF Acquire
  <1>8. CASE AcquireTimesOut(r)
    BY <1>8 DEF AcquireTimesOut, FallBack
  <1>9. CASE AcquireStarved(r) \/ ReleaseStarved(r)
    BY <1>9 DEF AcquireStarved, ReleaseStarved
  <1>10. CASE CallStep(r)
    BY <1>10, SyncAssumption
       DEF CallStep, CallSucceeds, CallMalformed, CallRetries, CallFails, CallRejected, Ends
  <1>11. CASE ReleaseSlot(r)
    BY <1>11 DEF ReleaseSlot, Leave, FallBack
  <1> QED BY <1>1, <1>2, <1>3, <1>4, <1>5, <1>6, <1>7, <1>8, <1>9, <1>10, <1>11
          DEF RequestStep, Handle, QueueStep

-------------------------------------------------------------------------------
(***************************************************************************)
(* The sets that the counters count.                                       *)
(***************************************************************************)

Queue == {r \in Requests : InQueue(r)}

\* The sets behind the counters are finite.
LEMMA CountedFinite ==
    /\ IsFiniteSet(Queue) /\ Cardinality(Queue) \in Nat
    /\ \A b \in Backends : IsFiniteSet(Holders(b)) /\ Cardinality(Holders(b)) \in Nat
    /\ IsFiniteSet(Budget) /\ Cardinality(Budget) \in Nat
  <1>1. Queue \in SUBSET Requests /\ \A b \in Backends : Holders(b) \in SUBSET Requests
    BY DEF Queue, Holders
  <1>2. /\ IsFiniteSet(Queue)
        /\ \A b \in Backends : IsFiniteSet(Holders(b))
    BY <1>1, SyncAssumption, FS_Subset
  <1>3. IsFiniteSet(Requests \X (1..(RetryAttempts + 1)))
    <2>1. IsFiniteSet(1..(RetryAttempts + 1))
      BY SyncAssumption, FS_Interval
    <2> QED BY <2>1, SyncAssumption, FS_Product
  <1>4. Budget \in SUBSET (Requests \X (1..(RetryAttempts + 1)))
    BY DEF Budget
  <1>5. IsFiniteSet(Budget)
    BY <1>3, <1>4, FS_Subset
  <1> QED BY <1>2, <1>5, FS_CardinalityType

\* A queue within its limit can send a full retry loop for each of its places.
LEMMA BudgetBound ==
    TypeOK /\ PendingExact => Cardinality(Budget) <= MaxQueueSize * (RetryAttempts + 1)
  <1> SUFFICES ASSUME TypeOK, PendingExact
               PROVE  Cardinality(Budget) <= MaxQueueSize * (RetryAttempts + 1)
    OBVIOUS
  <1> DEFINE loop == 1..(RetryAttempts + 1)
  <1>1. IsFiniteSet(Queue) /\ Cardinality(Queue) \in Nat /\ Cardinality(Queue) <= MaxQueueSize
    BY CountedFinite DEF PendingExact, Queue
  <1>2. IsFiniteSet(loop) /\ Cardinality(loop) = RetryAttempts + 1
    BY SyncAssumption, FS_Interval
  <1>3. Budget \in SUBSET (Queue \X loop)
    BY DEF Budget, Queue, CallsLeft, InQueue
  <1>4. /\ IsFiniteSet(Queue \X loop)
        /\ Cardinality(Queue \X loop) = Cardinality(Queue) * (RetryAttempts + 1)
    BY <1>1, <1>2, FS_Product
  <1>5. Cardinality(Budget) <= Cardinality(Queue \X loop)
    BY <1>3, <1>4, FS_Subset
  <1>6. \A m, n, k \in Nat : m <= n => m * k <= n * k
    OBVIOUS
  <1>7. Cardinality(Queue) * (RetryAttempts + 1) <= MaxQueueSize * (RetryAttempts + 1)
    BY <1>1, <1>6, SyncAssumption
  <1> HIDE DEF loop
  <1>8. Cardinality(Budget) \in Nat /\ Cardinality(Queue) * (RetryAttempts + 1) \in Nat
        /\ MaxQueueSize * (RetryAttempts + 1) \in Nat
    BY <1>1, CountedFinite, SyncAssumption
  <1> QED BY <1>4, <1>5, <1>7, <1>8

Apart(r) ==
    \A q \in Requests \ {r} : pc'[q] = pc[q] /\ at'[q] = at[q] /\ tries'[q] = tries[q]

\* A step outside the queue.
LEMMA OutsideSets ==
    ASSUME NEW r \in Requests, Apart(r), ~InQueue(r), ~InQueue(r)'
    PROVE  Queue' = Queue /\ Budget' = Budget /\ \A b \in Backends : Holders(b)' = Holders(b)
  <1>1. Queue' = Queue /\ \A b \in Backends : Holders(b)' = Holders(b)
    BY DEF Apart, Queue, Holders, Holding, InQueue
  <1>2. \A q \in Requests : CallsLeft(q)' = CallsLeft(q)
    BY DEF Apart, CallsLeft, InQueue
  <1> QED BY <1>1, <1>2 DEF Budget

\* A request enters the queue, ...
LEMMA EnterSets ==
    ASSUME NEW r \in Requests, Apart(r), ~InQueue(r), pc'[r] = "waiting"
    PROVE  /\ r \notin Queue /\ Queue' = Queue \cup {r}
           /\ \A b \in Backends : Holders(b)' = Holders(b)
  BY DEF Apart, Queue, Holders, Holding, InQueue

\* ... gets its slot and sends its first call, ...
LEMMA AcquireSets ==
    ASSUME TypeOK, NEW r \in Requests, Apart(r), pc[r] = "waiting", pc'[r] = "calling",
           at'[r] = at[r], tries'[r] = 0, NEW b \in Backends, b = at[r]
    PROVE  /\ Queue' = Queue
           /\ r \notin Holders(b) /\ Holders(b)' = Holders(b) \cup {r}
           /\ \A c \in Backends \ {b} : Holders(c)' = Holders(c)
           /\ <<r, RetryAttempts + 1>> \in Budget
           /\ Budget' \in SUBSET (Budget \ {<<r, RetryAttempts + 1>>})
  <1>1. /\ Queue' = Queue
        /\ r \notin Holders(b) /\ Holders(b)' = Holders(b) \cup {r}
        /\ \A c \in Backends \ {b} : Holders(c)' = Holders(c)
    BY DEF Apart, Queue, Holders, Holding, InQueue
  <1>2. /\ \A q \in Requests \ {r} : CallsLeft(q)' = CallsLeft(q)
        /\ CallsLeft(r) = RetryAttempts + 1 /\ CallsLeft(r)' = RetryAttempts
    BY SyncAssumption DEF Apart, CallsLeft
  <1>3. <<r, RetryAttempts + 1>> \in Budget
    BY <1>2, SyncAssumption DEF Budget
  <1>4. ASSUME NEW q \in Requests, NEW n \in 1..(RetryAttempts + 1), n <= CallsLeft(q)'
        PROVE  n <= CallsLeft(q) /\ <<q, n>> # <<r, RetryAttempts + 1>>
    BY <1>2, <1>4, SyncAssumption
  <1> QED BY <1>1, <1>3, <1>4 DEF Budget

\* ... calls again, or has its answer, ...
LEMMA RetrySets ==
    ASSUME TypeOK, Located, NEW r \in Requests, Apart(r), pc[r] = "calling", pc'[r] = "calling",
           at'[r] = at[r], tries[r] < RetryAttempts, tries'[r] = tries[r] + 1
    PROVE  /\ Queue' = Queue
           /\ \A c \in Backends : Holders(c)' = Holders(c)
           /\ <<r, RetryAttempts - tries[r]>> \in Budget
           /\ Budget' \in SUBSET (Budget \ {<<r, RetryAttempts - tries[r]>>})
  <1>1. Queue' = Queue /\ \A c \in Backends : Holders(c)' = Holders(c)
    BY DEF Apart, Queue, Holders, Holding, InQueue
  <1>2. /\ \A q \in Requests \ {r} : CallsLeft(q)' = CallsLeft(q)
        /\ CallsLeft(r) = RetryAttempts - tries[r]
        /\ CallsLeft(r)' = RetryAttempts - tries[r] - 1
        /\ tries[r] \in Nat
    BY SyncAssumption DEF Apart, CallsLeft, TypeOK
  <1>3. <<r, RetryAttempts - tries[r]>> \in Budget
    BY <1>2, SyncAssumption DEF Budget
  <1>4. ASSUME NEW q \in Requests, NEW n \in 1..(RetryAttempts + 1), n <= CallsLeft(q)'
        PROVE  n <= CallsLeft(q) /\ <<q, n>> # <<r, RetryAttempts - tries[r]>>
    BY <1>2, <1>4, SyncAssumption
  <1> QED BY <1>1, <1>3, <1>4 DEF Budget

\* An answered call keeps its slot and uses up its place among the late ones.
LEMMA AnsweredSets ==
    ASSUME NEW r \in Requests, Apart(r), pc[r] = "calling", pc'[r] = "releasing", at'[r] = at[r]
    PROVE  /\ Queue' = Queue
           /\ \A c \in Backends : Holders(c)' = Holders(c)
           /\ Budget' \in SUBSET Budget
  <1>1. Queue' = Queue /\ \A c \in Backends : Holders(c)' = Holders(c)
    BY DEF Apart, Queue, Holders, Holding, InQueue
  <1>2. CallsLeft(r)' = 0 /\ \A q \in Requests \ {r} : CallsLeft(q)' = CallsLeft(q)
    BY DEF Apart, CallsLeft
  <1> QED BY <1>1, <1>2 DEF Budget

\* ... and leaves the queue, without a slot or giving it back.
LEMMA LeaveSets ==
    ASSUME NEW r \in Requests, Apart(r), InQueue(r), ~InQueue(r)', pc[r] # "calling"
    PROVE  /\ r \in Queue /\ Queue' = Queue \ {r}
           /\ Budget' \in SUBSET Budget
           /\ pc[r] = "waiting" => \A c \in Backends : Holders(c)' = Holders(c)
           /\ pc[r] = "releasing" =>
                 /\ at[r] \in Backends => r \in Holders(at[r])
                 /\ \A c \in Backends :
                       Holders(c)' = IF c = at[r] THEN Holders(c) \ {r} ELSE Holders(c)
  <1>1. r \in Queue /\ Queue' = Queue \ {r}
    BY DEF Apart, Queue, InQueue
  <1>2. CallsLeft(r)' = 0 /\ \A q \in Requests \ {r} : CallsLeft(q)' = CallsLeft(q)
    BY DEF Apart, CallsLeft, InQueue
  <1>3. Budget' \in SUBSET Budget
    BY <1>2 DEF Budget
  <1>4. ASSUME pc[r] = "waiting"
        PROVE  \A c \in Backends : Holders(c)' = Holders(c)
    BY <1>4 DEF Apart, Holders, Holding, InQueue
  <1>5. ASSUME pc[r] = "releasing"
        PROVE  /\ at[r] \in Backends => r \in Holders(at[r])
               /\ \A c \in Backends :
                     Holders(c)' = IF c = at[r] THEN Holders(c) \ {r} ELSE Holders(c)
    BY <1>5 DEF Apart, Holders, Holding, InQueue
  <1> QED BY <1>1, <1>3, <1>4, <1>5

-------------------------------------------------------------------------------
(***************************************************************************)
(* The counters.                                                           *)
(***************************************************************************)

\* QueueManager.pending follows the queue.
LEMMA PendingSame ==
    ASSUME PendingExact, Queue' = Queue, pending' = pending
    PROVE  PendingExact'
  BY DEF PendingExact, Queue

\* A request enters the queue.
LEMMA PendingUp ==
    ASSUME TypeOK, PendingExact, NEW r, r \notin Queue, Queue' = Queue \cup {r},
           pending < MaxQueueSize, pending' = pending + 1
    PROVE  PendingExact'
  <1>1. Cardinality(Queue') = Cardinality(Queue) + 1
    BY CountedFinite, FS_AddElement
  <1> QED BY <1>1, SyncAssumption DEF PendingExact, Queue, TypeOK

\* A request leaves the queue: the counter is positive and not clamped.
LEMMA PendingDown ==
    ASSUME TypeOK, PendingExact, NEW r, r \in Queue, Queue' = Queue \ {r}, LeaveQueue
    PROVE  PendingExact'
  <1>1. Cardinality(Queue') = Cardinality(Queue) - 1 /\ Cardinality(Queue) \in Nat
    BY CountedFinite, FS_RemoveElement
  <1>2. Cardinality(Queue') \in Nat
    <2>1. IsFiniteSet(Queue \ {r})
      BY CountedFinite, FS_RemoveElement
    <2> QED BY <2>1, FS_CardinalityType
  <1> QED BY <1>1, <1>2, SyncAssumption DEF PendingExact, Queue, LeaveQueue, TypeOK

\* current_running follows the slots.
LEMMA SlotsSame ==
    ASSUME SlotAccounting, UNCHANGED <<currentRunning, held, leaked>>,
           \A c \in Backends : Holders(c)' = Holders(c)
    PROVE  SlotAccounting'
  BY DEF SlotAccounting

\* A request takes a slot.
LEMMA SlotTaken ==
    ASSUME TypeOK, SlotAccounting, NEW b \in Backends, TryAcquire(b), UNCHANGED <<held, leaked>>,
           NEW r, r \notin Holders(b), Holders(b)' = Holders(b) \cup {r},
           \A c \in Backends \ {b} : Holders(c)' = Holders(c)
    PROVE  SlotAccounting'
  <1>1. Cardinality(Holders(b)') = Cardinality(Holders(b)) + 1
    BY CountedFinite, FS_AddElement
  <1>2. \A c \in Backends : Cardinality(Holders(c)) \in Nat /\ held[c] \in Nat /\ leaked[c] \in Nat
    BY CountedFinite DEF TypeOK
  <1>3. /\ currentRunning'[b] = currentRunning[b] + 1
        /\ \A c \in Backends \ {b} : currentRunning'[c] = currentRunning[c]
    BY SlotColumns DEF TypeOK
  <1> QED BY <1>1, <1>2, <1>3 DEF SlotAccounting

\* A slot is released, or leaked with its holder.
LEMMA SlotGone ==
    ASSUME TypeOK, SlotAccounting, NEW b \in Backends, NEW r, r \in Holders(b),
           \A c \in Backends : Holders(c)' = IF c = b THEN Holders(c) \ {r} ELSE Holders(c),
           held' = held,
           \/ Release(b) /\ leaked' = leaked
           \/ currentRunning' = currentRunning /\ leaked' = [leaked EXCEPT ![b] = @ + 1]
    PROVE  SlotAccounting'
  <1>1. /\ IsFiniteSet(Holders(b) \ {r})
        /\ Cardinality(Holders(b) \ {r}) = Cardinality(Holders(b)) - 1
    BY CountedFinite, FS_RemoveElement
  <1>2. Cardinality(Holders(b)') = Cardinality(Holders(b)) - 1 /\ Cardinality(Holders(b)') \in Nat
    BY <1>1, FS_CardinalityType
  <1>3. \A c \in Backends :
           /\ Cardinality(Holders(c)) \in Nat /\ held[c] \in Nat /\ leaked[c] \in Nat
           /\ currentRunning[c] = Cardinality(Holders(c)) + held[c] + leaked[c]
    BY CountedFinite DEF TypeOK, SlotAccounting
  <1>4. CASE Release(b) /\ leaked' = leaked
    <2>1. /\ currentRunning'[b] = IF currentRunning[b] > 0 THEN currentRunning[b] - 1 ELSE 0
          /\ \A c \in Backends \ {b} : currentRunning'[c] = currentRunning[c]
      BY <1>4, SlotColumns DEF TypeOK
    <2> QED BY <1>2, <1>3, <1>4, <2>1 DEF SlotAccounting
  <1>5. CASE currentRunning' = currentRunning /\ leaked' = [leaked EXCEPT ![b] = @ + 1]
    <2>1. leaked'[b] = leaked[b] + 1 /\ \A c \in Backends \ {b} : leaked'[c] = leaked[c]
      BY <1>5 DEF TypeOK
    <2> QED BY <1>2, <1>3, <1>5, <2>1 DEF SlotAccounting
  <1> QED BY <1>4, <1>5

\* The calls sent since the breaker opened: none yet, or no more than before, or
\* one more that was in the budget.
LEMMA LateStep ==
    ASSUME TypeOK, LateBudget, TypeOK', PendingExact',
           \/ late' = 0
           \/ /\ openedAt # "zero" /\ openedAt' # "zero"
              /\ \/ late' = late /\ Budget' \in SUBSET Budget
                 \/ late' = late + 1 /\ \E x \in Budget : Budget' \in SUBSET (Budget \ {x})
    PROVE  LateBudget'
  <1> DEFINE cap == MaxQueueSize * (RetryAttempts + 1)
  <1>1. cap \in Nat /\ late \in Nat
    BY SyncAssumption DEF TypeOK
  <1>2. Cardinality(Budget') <= cap
    <2>1. (Cardinality(Budget) <= MaxQueueSize * (RetryAttempts + 1))'
      BY BudgetBound, PTL
    <2> QED BY <2>1
  <1>3. IsFiniteSet(Budget) /\ Cardinality(Budget) \in Nat /\ Cardinality(Budget') \in Nat
    <2>1. (Cardinality(Budget) \in Nat)'
      BY CountedFinite, PTL
    <2> QED BY <2>1, CountedFinite
  <1>4. CASE late' = 0
    BY <1>1, <1>2, <1>3, <1>4 DEF LateBudget
  <1>5. ASSUME openedAt # "zero", openedAt' # "zero", late' = late, Budget' \in SUBSET Budget
        PROVE  LateBudget'
    <2>1. Cardinality(Budget') <= Cardinality(Budget)
      BY <1>3, <1>5, FS_Subset
    <2> HIDE DEF cap
    <2>2. late + Cardinality(Budget) <= cap
      BY <1>5 DEF LateBudget, cap
    <2>3. late' + Cardinality(Budget') <= cap
      BY <1>1, <1>3, <1>5, <2>1, <2>2
    <2> QED BY <1>5, <2>3 DEF LateBudget, cap
  <1>6. ASSUME openedAt # "zero", openedAt' # "zero", late' = late + 1,
               NEW x \in Budget, Budget' \in SUBSET (Budget \ {x})
        PROVE  LateBudget'
    <2>1. IsFiniteSet(Budget \ {x}) /\ Cardinality(Budget \ {x}) = Cardinality(Budget) - 1
      BY <1>3, FS_RemoveElement
    <2>2. Cardinality(Budget') <= Cardinality(Budget) - 1
      BY <1>6, <2>1, FS_Subset
    <2> HIDE DEF cap
    <2>3. late + Cardinality(Budget) <= cap
      BY <1>6 DEF LateBudget, cap
    <2>4. late' + Cardinality(Budget') <= cap
      BY <1>1, <1>3, <1>6, <2>2, <2>3
    <2> QED BY <1>6, <2>4 DEF LateBudget, cap
  <1> QED BY <1>4, <1>5, <1>6

-------------------------------------------------------------------------------
(***************************************************************************)
(* The steps.                                                              *)
(***************************************************************************)

BreakerStep ==
    \/ Clear \/ RecordFailure \/ RecoveryElapses \/ BeforeCallRefuses \/ BeforeCallPasses
    \/ UNCHANGED breakerVars

\* How the calls sent since the opening may change.
LateChange ==
    \/ late' = 0
    \/ /\ openedAt # "zero" /\ openedAt' # "zero"
       /\ \/ late' = late /\ Budget' \in SUBSET Budget
          \/ late' = late + 1 /\ \E x \in Budget : Budget' \in SUBSET (Budget \ {x})

\* The parts of the invariant, put together.
LEMMA Together ==
    ASSUME IInv, Local', SlotTypeOK', BreakerStep, PendingExact', SlotAccounting', LateChange,
           pending' \in Nat, held' \in [Backends -> Nat], leaked' \in [Backends -> Nat],
           faults' \in Nat
    PROVE  IInv'
  <1>1. BreakerTypeOK' /\ OpenHasTime'
    BY BreakerMethods DEF BreakerStep, IInv, TypeOK
  <1>2. late' \in Nat
    BY DEF LateChange, IInv, TypeOK
  <1>3. TypeOK'
    BY <1>1, <1>2 DEF TypeOK, Local
  <1>4. LateBudget'
    BY <1>3, LateStep DEF LateChange, IInv
  <1> QED BY <1>1, <1>3, <1>4 DEF IInv, Local

\* An unchanged late is a legal change when the breaker keeps its opening time.
LEMMA LateUnchanged ==
    ASSUME IInv, late' = late, openedAt # "zero" => openedAt' # "zero", Budget' \in SUBSET Budget
    PROVE  LateChange
  BY DEF IInv, LateBudget, LateChange

\* One more call is a legal change when it was in the budget.
LEMMA LateSent ==
    ASSUME IInv, Sent, openedAt' = openedAt, NEW x \in Budget, Budget' \in SUBSET (Budget \ {x})
    PROVE  LateChange
  BY DEF Sent, LateChange

OutsideStep(r) ==
    \/ Arrive(r) \/ ArriveStarved(r) \/ Authenticate(r) \/ RefuseClient(r) \/ Refuse(r)
    \/ CacheHit(r) \/ PlanRoutes(r)
    \/ \E b \in Backends : BreakerRefuses(r, b) \/ QueueRefuses(r, b)
    \/ Serve(r) \/ ServeRaises(r) \/ LogError(r) \/ StreamEnds(r) \/ StreamBreaks(r)

\* Before and after its stay in the queue a request touches no counter but the
\* breaker's.
LEMMA OutsideIInv ==
    ASSUME IInv, NEW r \in Requests, OutsideStep(r)
    PROVE  IInv'
  <1> USE DEF Goto, Answer, Raise, FallBack, historyVars
  <1>1. Local'
    BY RequestLocal DEF OutsideStep, RequestStep, Handle
  <1>2. UNCHANGED <<slotVars, pending, held, leaked, faults, at, tries>>
    BY DEF OutsideStep, Arrive, ArriveStarved, Authenticate, RefuseClient, Refuse, CacheHit, PlanRoutes,
       BreakerRefuses, QueueRefuses, Serve, ServeRaises, LogError, StreamEnds, StreamBreaks
  <1>3. pc \in [Requests -> PC]
    BY DEF IInv, TypeOK
  <1>4. Apart(r) /\ ~InQueue(r) /\ ~InQueue(r)'
    BY <1>2, <1>3
       DEF OutsideStep, Arrive, ArriveStarved, Authenticate, RefuseClient, Refuse, CacheHit, PlanRoutes,
       BreakerRefuses, QueueRefuses, Serve, ServeRaises, LogError, StreamEnds, StreamBreaks,
       Apart, InQueue
  <1>5. Queue' = Queue /\ Budget' = Budget /\ \A b \in Backends : Holders(b)' = Holders(b)
    BY <1>4, OutsideSets
  <1>6. BreakerStep /\ LateChange
    <2>1. CASE \E b \in Backends : QueueRefuses(r, b)
      <3>1. BeforeCallPasses /\ openedAt' = "zero" /\ late' = 0
        BY <2>1, BreakerMethods DEF QueueRefuses, IInv, TypeOK
      <3> QED BY <3>1 DEF BreakerStep, LateChange
    <2>2. CASE StreamBreaks(r)
      <3>1. RecordFailure /\ (openedAt # "zero" => openedAt' # "zero")
        BY <2>2, BreakerMethods DEF StreamBreaks, IInv, TypeOK
      <3>2. late' = IF openedAt = "zero" THEN 0 ELSE late
        BY <2>2 DEF StreamBreaks
      <3>3. LateChange
        <4>1. Budget' \in SUBSET Budget
          BY <1>5
        <4>2. CASE openedAt # "zero" /\ late' = late
          BY <3>1, <4>1, <4>2, LateUnchanged
        <4> QED BY <3>2, <4>2 DEF LateChange
      <3> QED BY <3>1, <3>3 DEF BreakerStep
    <2>3. CASE \E b \in Backends : BreakerRefuses(r, b)
      <3>1. UNCHANGED <<breakerVars, late>>
        BY <2>3 DEF BreakerRefuses, BeforeCallRefuses
      <3> QED BY <1>5, <3>1, LateUnchanged DEF BreakerStep, breakerVars
    <2>4. CASE UNCHANGED <<breakerVars, late>>
      BY <1>5, <2>4, LateUnchanged DEF BreakerStep, breakerVars
    <2> QED
      BY <2>1, <2>2, <2>3, <2>4
         DEF OutsideStep, Arrive, ArriveStarved, Authenticate, RefuseClient, Refuse, CacheHit,
         PlanRoutes, Serve, ServeRaises, LogError, StreamEnds
  <1>7. PendingExact' /\ SlotAccounting'
    BY <1>2, <1>5, PendingSame, SlotsSame DEF IInv, slotVars
  <1>8. /\ SlotTypeOK' /\ pending' \in Nat /\ faults' \in Nat
        /\ held' \in [Backends -> Nat] /\ leaked' \in [Backends -> Nat]
    BY <1>2 DEF IInv, TypeOK, SlotTypeOK, slotVars
  <1> QED BY <1>1, <1>6, <1>7, <1>8, Together

\* The queue admits a request up to its size.
LEMMA EnterQueueIInv ==
    ASSUME IInv, NEW r \in Requests, NEW b \in Backends, EnterQueue(r, b)
    PROVE  IInv'
  <1> USE DEF EnterQueue, Goto
  <1>1. Local'
    BY RequestLocal DEF RequestStep, Handle
  <1>2. Apart(r) /\ ~InQueue(r) /\ pc'[r] = "waiting"
    BY DEF Apart, InQueue, IInv, TypeOK
  <1>3. /\ r \notin Queue /\ Queue' = Queue \cup {r}
        /\ \A c \in Backends : Holders(c)' = Holders(c)
    BY <1>2, EnterSets
  <1>4. PendingExact'
    BY <1>3, PendingUp DEF IInv
  <1>5. SlotAccounting'
    BY <1>3, SlotsSame DEF IInv, slotVars
  <1>6. openedAt' = "zero"
    BY BreakerMethods DEF IInv, TypeOK
  <1>7. BreakerStep /\ LateChange
    BY <1>6 DEF BreakerStep, LateChange
  <1>8. /\ SlotTypeOK' /\ pending' \in Nat /\ faults' \in Nat
        /\ held' \in [Backends -> Nat] /\ leaked' \in [Backends -> Nat]
    BY DEF IInv, TypeOK, SlotTypeOK, slotVars
  <1> QED BY <1>1, <1>4, <1>5, <1>7, <1>8, Together

\* A waiting request takes a slot and goes on counting in the queue.
LEMMA AcquireIInv ==
    ASSUME IInv, NEW r \in Requests, Acquire(r)
    PROVE  IInv'
  <1> USE DEF Acquire, Goto
  <1>1. Local'
    BY RequestLocal DEF RequestStep, Handle, QueueStep
  <1>2. PICK b \in Backends : b = at[r]
    BY DEF IInv, Located, InQueue
  <1>3. /\ Apart(r) /\ pc[r] = "waiting" /\ pc'[r] = "calling" /\ at'[r] = at[r] /\ tries'[r] = 0
        /\ TryAcquire(b) /\ UNCHANGED <<breakerVars, pending, held, leaked, faults>>
    BY <1>2 DEF Apart, IInv, TypeOK
  <1>4. /\ Queue' = Queue
        /\ r \notin Holders(b) /\ Holders(b)' = Holders(b) \cup {r}
        /\ \A c \in Backends \ {b} : Holders(c)' = Holders(c)
        /\ <<r, RetryAttempts + 1>> \in Budget
        /\ Budget' \in SUBSET (Budget \ {<<r, RetryAttempts + 1>>})
    BY <1>2, <1>3, AcquireSets DEF IInv
  <1>5. SlotAccounting'
    BY <1>3, <1>4, SlotTaken DEF IInv
  <1>6. PendingExact'
    BY <1>3, <1>4, PendingSame DEF IInv
  <1>7. LateChange /\ BreakerStep
    BY <1>3, <1>4, LateSent DEF BreakerStep, breakerVars
  <1>8. SlotTypeOK'
    BY <1>3, SlotColumns DEF IInv, TypeOK
  <1>9. /\ pending' \in Nat /\ faults' \in Nat
        /\ held' \in [Backends -> Nat] /\ leaked' \in [Backends -> Nat]
    BY <1>3 DEF IInv, TypeOK
  <1> QED BY <1>1, <1>5, <1>6, <1>7, <1>8, <1>9, Together

\* The call of a backend: an answer, a failure, or another try.
LEMMA CallIInv ==
    ASSUME IInv, NEW r \in Requests, CallStep(r)
    PROVE  IInv'
  <1> USE DEF Goto, Ends, historyVars
  <1>1. Local'
    BY RequestLocal DEF RequestStep, Handle
  <1>2. /\ Apart(r) /\ pc[r] = "calling" /\ at'[r] = at[r]
        /\ UNCHANGED <<slotVars, pending, held, leaked, faults>>
    BY DEF CallStep, CallSucceeds, CallMalformed, CallRetries, CallFails, CallRejected, Apart, IInv,
       TypeOK
  <1>3. /\ Queue' = Queue /\ \A c \in Backends : Holders(c)' = Holders(c)
        /\ BreakerStep /\ LateChange
    <2>1. CASE CallRetries(r)
      <3>1. /\ pc'[r] = "calling" /\ tries[r] < RetryAttempts /\ tries'[r] = tries[r] + 1
            /\ Sent /\ UNCHANGED breakerVars
        BY <1>2, <2>1 DEF CallRetries, IInv, TypeOK
      <3>2. /\ Queue' = Queue
            /\ \A c \in Backends : Holders(c)' = Holders(c)
            /\ <<r, RetryAttempts - tries[r]>> \in Budget
            /\ Budget' \in SUBSET (Budget \ {<<r, RetryAttempts - tries[r]>>})
        BY <1>2, <3>1, RetrySets DEF IInv
      <3> QED BY <3>1, <3>2, LateSent DEF BreakerStep, breakerVars
    <2>2. CASE ~CallRetries(r)
      <3>1. pc'[r] = "releasing"
        BY <2>2 DEF CallStep, CallSucceeds, CallMalformed, CallFails, CallRejected, IInv, TypeOK
      <3>2. /\ Queue' = Queue
            /\ \A c \in Backends : Holders(c)' = Holders(c)
            /\ Budget' \in SUBSET Budget
        BY <1>2, <3>1, AnsweredSets
      <3>3. BreakerStep
        BY <2>2 DEF CallStep, CallSucceeds, CallMalformed, CallFails, CallRejected, BreakerStep,
           RecordSuccess
      <3>4. LateChange
        <4>1. CASE CallFails(r) /\ late' # 0
          <5>1. late' = late /\ openedAt # "zero" /\ openedAt' = openedAt
            BY <4>1, BreakerMethods DEF CallFails, IInv, TypeOK
          <5> QED BY <3>2, <5>1, LateUnchanged
        <4>2. CASE CallRejected(r)
          BY <3>2, <4>2, LateUnchanged DEF CallRejected, breakerVars
        <4> QED BY <2>2, <4>1, <4>2 DEF CallStep, CallSucceeds, CallMalformed, LateChange
      <3> QED BY <3>2, <3>3, <3>4
    <2> QED BY <2>1, <2>2
  <1>4. PendingExact' /\ SlotAccounting'
    BY <1>2, <1>3, PendingSame, SlotsSame DEF IInv, slotVars
  <1>5. /\ SlotTypeOK' /\ pending' \in Nat /\ faults' \in Nat
        /\ held' \in [Backends -> Nat] /\ leaked' \in [Backends -> Nat]
    BY <1>2 DEF IInv, TypeOK, SlotTypeOK, slotVars
  <1> QED BY <1>1, <1>3, <1>4, <1>5, Together

\* The ways out of the queue: the finally clauses count the request out in each.
LEMMA LeaveIInv ==
    ASSUME IInv, NEW r \in Requests,
           AcquireTimesOut(r) \/ AcquireStarved(r) \/ ReleaseSlot(r) \/ ReleaseStarved(r)
    PROVE  IInv'
  <1> USE DEF Goto, Raise, historyVars
  <1>1. Local'
    BY RequestLocal DEF RequestStep, Handle, QueueStep
  <1>2. PICK b \in Backends : b = at[r]
    BY DEF AcquireTimesOut, AcquireStarved, ReleaseSlot, ReleaseStarved, IInv, Located, InQueue
  <1>3. Apart(r) /\ InQueue(r) /\ ~InQueue(r)' /\ pc[r] # "calling"
    BY DEF AcquireTimesOut, AcquireStarved, ReleaseSlot, ReleaseStarved, Leave, FallBack,
       Apart, InQueue, IInv, TypeOK
  <1>4. LeaveQueue /\ UNCHANGED <<breakerVars, held, faults, late>>
    BY DEF AcquireTimesOut, AcquireStarved, ReleaseSlot, ReleaseStarved
  <1>5. /\ r \in Queue /\ Queue' = Queue \ {r}
        /\ Budget' \in SUBSET Budget
        /\ pc[r] = "waiting" => \A c \in Backends : Holders(c)' = Holders(c)
        /\ pc[r] = "releasing" =>
              /\ r \in Holders(b)
              /\ \A c \in Backends : Holders(c)' = IF c = b THEN Holders(c) \ {r} ELSE Holders(c)
    BY <1>2, <1>3, LeaveSets
  <1>6. PendingExact' /\ pending' \in Nat
    BY <1>4, <1>5, PendingDown DEF IInv, LeaveQueue, TypeOK
  <1>7. SlotAccounting' /\ SlotTypeOK' /\ leaked' \in [Backends -> Nat]
    <2>1. CASE AcquireTimesOut(r) \/ AcquireStarved(r)
      <3>1. pc[r] = "waiting" /\ UNCHANGED <<slotVars, leaked>>
        BY <2>1 DEF AcquireTimesOut, AcquireStarved, TryAcquireRefused
      <3> QED BY <1>4, <1>5, <3>1, SlotsSame DEF IInv, TypeOK, SlotTypeOK, slotVars
    <2>2. CASE ReleaseSlot(r)
      <3>1. pc[r] = "releasing" /\ Release(b) /\ leaked' = leaked
        BY <1>2, <2>2 DEF ReleaseSlot
      <3> QED BY <1>4, <1>5, <3>1, SlotGone, SlotColumns DEF IInv, TypeOK
    <2>3. CASE ReleaseStarved(r)
      <3>1. /\ pc[r] = "releasing" /\ UNCHANGED slotVars
            /\ leaked' = [leaked EXCEPT ![b] = @ + 1]
        BY <1>2, <2>3 DEF ReleaseStarved
      <3>2. SlotAccounting'
        BY <1>4, <1>5, <3>1, SlotGone DEF IInv, slotVars
      <3> QED BY <3>1, <3>2 DEF IInv, TypeOK, SlotTypeOK, slotVars
    <2> QED BY <2>1, <2>2, <2>3
  <1>8. BreakerStep /\ LateChange
    BY <1>4, <1>5, LateUnchanged DEF BreakerStep, breakerVars
  <1>9. faults' \in Nat /\ held' \in [Backends -> Nat]
    BY <1>4 DEF IInv, TypeOK
  <1> QED BY <1>1, <1>6, <1>7, <1>8, <1>9, Together

\* A step of the rest of the system, which leaves the requests alone.
LEMMA SystemSets ==
    ASSUME IInv, UNCHANGED <<localVars, pending, answer, billed>>
    PROVE  /\ Local' /\ PendingExact' /\ pending' \in Nat
           /\ Budget' = Budget /\ \A b \in Backends : Holders(b)' = Holders(b)
  <1>1. Local'
    BY DEF IInv, TypeOK, Local, Located, Unanswered, BilledOnce, InQueue, localVars
  <1>2. Queue' = Queue /\ \A b \in Backends : Holders(b)' = Holders(b)
    BY DEF Queue, Holders, Holding, InQueue, localVars
  <1>3. Budget' = Budget
    BY DEF Budget, CallsLeft, localVars
  <1>4. PendingExact' /\ pending' \in Nat
    BY <1>2, PendingSame DEF IInv, TypeOK
  <1> QED BY <1>1, <1>2, <1>3, <1>4

\* The workers take slots of the same backends.
LEMMA WorkerIInv ==
    ASSUME IInv, NEW b \in Backends, WorkerTakes(b) \/ WorkerReturns(b)
    PROVE  IInv'
  <1>1. UNCHANGED <<breakerVars, localVars, pending, leaked, answer, billed, late, faults>>
    BY DEF WorkerTakes, WorkerReturns, historyVars
  <1>2. /\ Local' /\ PendingExact' /\ pending' \in Nat
        /\ Budget' = Budget /\ \A c \in Backends : Holders(c)' = Holders(c)
    BY <1>1, SystemSets
  <1>3. SlotTypeOK' /\ held' \in [Backends -> Nat]
    BY SlotColumns DEF WorkerTakes, WorkerReturns, IInv, TypeOK
  <1>4. SlotAccounting'
    <2>1. \A c \in Backends :
             /\ Cardinality(Holders(c)) \in Nat /\ held[c] \in Nat /\ leaked[c] \in Nat
             /\ currentRunning[c] = Cardinality(Holders(c)) + held[c] + leaked[c]
      BY CountedFinite DEF IInv, TypeOK, SlotAccounting
    <2>2. /\ \A c \in Backends \ {b} :
                currentRunning'[c] = currentRunning[c] /\ held'[c] = held[c]
          /\ \/ currentRunning'[b] = currentRunning[b] + 1 /\ held'[b] = held[b] + 1
             \/ /\ held[b] > 0 /\ held'[b] = held[b] - 1
                /\ currentRunning'[b] = IF currentRunning[b] > 0 THEN currentRunning[b] - 1 ELSE 0
      BY SlotColumns DEF WorkerTakes, WorkerReturns, IInv, TypeOK
    <2> QED BY <1>1, <1>2, <2>1, <2>2 DEF SlotAccounting
  <1>5. BreakerStep /\ LateChange
    BY <1>1, <1>2, LateUnchanged DEF BreakerStep, breakerVars
  <1>6. faults' \in Nat /\ leaked' \in [Backends -> Nat]
    BY <1>1 DEF IInv, TypeOK
  <1> QED BY <1>2, <1>3, <1>4, <1>5, <1>6, Together

\* Time passes, and administrators reset the breaker and change backends.
LEMMA TimeAndAdminIInv ==
    ASSUME IInv, TimePasses \/ ResetBreaker \/ AdminBackends
    PROVE  IInv'
  <1>1. UNCHANGED <<localVars, pending, held, leaked, answer, billed, faults>>
    BY DEF TimePasses, ResetBreaker, AdminBackends, historyVars
  <1>2. /\ Local' /\ PendingExact' /\ pending' \in Nat
        /\ Budget' = Budget /\ \A c \in Backends : Holders(c)' = Holders(c)
    BY <1>1, SystemSets
  <1>3. SlotTypeOK' /\ currentRunning' = currentRunning
    BY BackendColumns DEF TimePasses, ResetBreaker, AdminBackends, slotVars, SlotTypeOK, IInv, TypeOK
  <1>4. SlotAccounting'
    BY <1>1, <1>2, <1>3, SlotsSame DEF IInv
  <1>5. BreakerStep
    BY DEF TimePasses, ResetBreaker, AdminBackends, BreakerStep
  <1>6. LateChange
    <2>1. CASE ResetBreaker
      BY <2>1 DEF ResetBreaker, LateChange
    <2>2. CASE TimePasses \/ AdminBackends
      <3>1. late' = late /\ (openedAt # "zero" => openedAt' # "zero")
        BY <2>2 DEF TimePasses, AdminBackends, RecoveryElapses, breakerVars, historyVars
      <3> QED BY <1>2, <3>1, LateUnchanged
    <2> QED BY <2>1, <2>2
  <1>7. /\ faults' \in Nat
        /\ held' \in [Backends -> Nat] /\ leaked' \in [Backends -> Nat]
    BY <1>1 DEF IInv, TypeOK
  <1> QED BY <1>2, <1>3, <1>4, <1>5, <1>6, <1>7, Together

\* The process dies: the queue is empty, the slots of its requests are leaked.
LEMMA ApiDiesIInv ==
    ASSUME IInv, ApiDies
    PROVE  IInv'
  <1>1. /\ \A r \in Requests : pc'[r] = IF pc[r] \in {"new", "done"} THEN pc[r] ELSE "lost"
        /\ pc' \in [Requests -> PC]
        /\ UNCHANGED <<left, at, tries, result, held, answer, billed>>
        /\ pending' = 0 /\ late' = 0 /\ faults' = faults + 1 /\ Clear
    BY DEF ApiDies, IInv, TypeOK, PC
  <1>2. Local'
    BY <1>1 DEF IInv, TypeOK, Local, Located, Unanswered, BilledOnce, InQueue
  <1>3. Queue' = {} /\ \A b \in Backends : Holders(b)' = {}
    BY <1>1 DEF Queue, Holders, Holding, InQueue
  <1>4. PendingExact'
    <2>1. Cardinality(Queue') = 0
      BY <1>3, FS_EmptySet
    <2> QED BY <1>1, <2>1, SyncAssumption DEF PendingExact, Queue
  <1>5. SlotTypeOK' /\ currentRunning' = currentRunning
    BY BackendColumns DEF ApiDies, IInv, TypeOK
  <1>6. SlotAccounting' /\ leaked' \in [Backends -> Nat]
    <2>1. \A b \in Backends : Cardinality(Holders(b)') = 0
      BY <1>3, FS_EmptySet
    <2>2. \A b \in Backends :
             /\ Cardinality(Holders(b)) \in Nat /\ held[b] \in Nat /\ leaked[b] \in Nat
             /\ currentRunning[b] = Cardinality(Holders(b)) + held[b] + leaked[b]
      BY CountedFinite DEF IInv, TypeOK, SlotAccounting
    <2>3. leaked' = [b \in Backends |-> leaked[b] + Cardinality(Holders(b))]
      BY DEF ApiDies
    <2>4. \A b \in Backends : currentRunning'[b] = Cardinality(Holders(b)') + held'[b] + leaked'[b]
      BY <1>1, <1>5, <2>1, <2>2, <2>3
    <2>5. leaked' \in [Backends -> Nat]
      BY <2>2, <2>3
    <2> QED BY <2>4, <2>5 DEF SlotAccounting
  <1>7. BreakerStep /\ LateChange
    BY <1>1 DEF BreakerStep, LateChange
  <1>8. pending' \in Nat /\ faults' \in Nat /\ held' \in [Backends -> Nat]
    BY <1>1 DEF IInv, TypeOK
  <1> QED BY <1>2, <1>4, <1>5, <1>6, <1>7, <1>8, Together

\* No request has arrived.
LEMMA InitIInv == Init => IInv
  <1> SUFFICES ASSUME Init PROVE IInv
    OBVIOUS
  <1>1. SlotTypeOK /\ \A b \in Backends : currentRunning[b] = 0
    BY ParallelAssumption, SeedAssumption DEF Init, SlotInit, SlotTypeOK
  <1>2. TypeOK
    BY <1>1 DEF Init, TypeOK, BreakerInit, BreakerTypeOK, PC, Result
  <1>3. Located /\ Unanswered /\ BilledOnce
    BY DEF Init, Located, Unanswered, BilledOnce, InQueue
  <1>4. OpenHasTime /\ LateBudget
    BY ThresholdAssumption DEF Init, BreakerInit, OpenHasTime, LateBudget
  <1>5. Queue = {} /\ \A b \in Backends : Holders(b) = {}
    BY DEF Init, Queue, Holders, Holding, InQueue
  <1>6. PendingExact
    <2>1. Cardinality(Queue) = 0
      BY <1>5, FS_EmptySet
    <2> QED BY <2>1, SyncAssumption DEF PendingExact, Queue, Init
  <1>7. SlotAccounting
    <2>1. \A b \in Backends : Cardinality(Holders(b)) = 0 /\ held[b] = 0 /\ leaked[b] = 0
      BY <1>5, FS_EmptySet DEF Init
    <2>2. ASSUME NEW b \in Backends
          PROVE  currentRunning[b] = Cardinality(Holders(b)) + held[b] + leaked[b]
      <3>1. /\ currentRunning[b] = 0 /\ Cardinality(Holders(b)) = 0
            /\ held[b] = 0 /\ leaked[b] = 0
        BY <1>1, <2>1
      <3> QED BY <3>1
    <2> QED BY <2>2 DEF SlotAccounting
  <1> QED BY <1>2, <1>3, <1>4, <1>6, <1>7 DEF IInv

\* Each step keeps the inductive invariant.
LEMMA NextIInv == IInv /\ [Next]_vars => IInv'
  <1> SUFFICES ASSUME IInv, [Next]_vars PROVE IInv'
    OBVIOUS
  <1>1. ASSUME NEW r \in Requests, RequestStep(r)
        PROVE  IInv'
    BY <1>1, OutsideIInv, EnterQueueIInv, AcquireIInv, CallIInv, LeaveIInv
       DEF RequestStep, Handle, OutsideStep, QueueStep
  <1>2. CASE UNCHANGED vars
    <2>1. UNCHANGED <<slotVars, breakerVars, localVars, pending, held, leaked, answer, billed, late, faults>>
      BY <1>2 DEF vars, historyVars
    <2>2. /\ Local' /\ PendingExact' /\ pending' \in Nat
          /\ Budget' = Budget /\ \A c \in Backends : Holders(c)' = Holders(c)
      BY <2>1, SystemSets
    <2>3. BreakerStep /\ LateChange /\ SlotAccounting'
      BY <2>1, <2>2, LateUnchanged, SlotsSame DEF BreakerStep, breakerVars, slotVars, IInv
    <2>4. /\ SlotTypeOK' /\ faults' \in Nat
          /\ held' \in [Backends -> Nat] /\ leaked' \in [Backends -> Nat]
      BY <2>1 DEF IInv, TypeOK, SlotTypeOK, slotVars
    <2> QED BY <2>2, <2>3, <2>4, Together
  <1> QED BY <1>1, <1>2, WorkerIInv, TimeAndAdminIInv, ApiDiesIInv DEF Next, RequestStep

-------------------------------------------------------------------------------
\* The inductive invariant holds in every reachable state.
THEOREM Invariance == Spec => []IInv
  BY InitIInv, NextIInv, PTL DEF Spec

\* Every variable keeps its type; a request is never at a point no handler leaves.
THEOREM TypeCorrect == Spec => []TypeOK
  BY Invariance, PTL DEF IInv

\* The breaker counts as open exactly when it has an opening time.
THEOREM BreakerInStep == Spec => []OpenHasTime
  BY Invariance, PTL DEF IInv

\* QueueManager.pending is the number of requests in the queue and stays within
\* max_queue_size, whatever way each request leaves.
THEOREM QueueExact == Spec => []PendingExact
  BY Invariance, PTL DEF IInv

\* current_running is the slots in use and the slots lost, on every backend.
THEOREM Accounting == Spec => []SlotAccounting
  BY Invariance, PTL DEF IInv

\* A client is billed once for an answer and never without one.
THEOREM BilledForAnswers == Spec => []BilledOnce
  BY Invariance, PTL DEF IInv

\* An open breaker lets through no more calls than the retry loops of a full queue.
THEOREM LateCalls == Spec => []LateCallsBounded
  <1>1. IInv => LateCallsBounded
    <2> SUFFICES ASSUME IInv PROVE LateCallsBounded
      OBVIOUS
    <2> DEFINE cap == MaxQueueSize * (RetryAttempts + 1)
    <2>1. cap \in Nat /\ late \in Nat /\ Cardinality(Budget) \in Nat
      BY SyncAssumption, CountedFinite DEF IInv, TypeOK
    <2>2. late = 0 \/ late + Cardinality(Budget) <= cap
      BY DEF IInv, LateBudget
    <2> HIDE DEF cap
    <2>3. late <= cap
      BY <2>1, <2>2
    <2> QED BY <2>3 DEF LateCallsBounded, cap
  <1> QED BY <1>1, Invariance, PTL
===============================================================================
