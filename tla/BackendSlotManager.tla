-------------------------- MODULE BackendSlotManager --------------------------
(***************************************************************************)
(* The concurrency slots of the inference backends: the columns is_active, *)
(* max_parallel_requests and current_running of inference_backends, the    *)
(* operations of BackendSlotManager on them and the admin and seeding code *)
(* that rewrites the first two.                                            *)
(*                                                                         *)
(* try_acquire and release lock the row with SELECT ... FOR UPDATE and     *)
(* commit in the same session, so each is one atomic step.  PATCH emits an *)
(* UPDATE of the changed columns only, so it never overwrites              *)
(* current_running and is atomic as well.                                  *)
(***************************************************************************)
EXTENDS Naturals

CONSTANTS
    Backends,        \* rows of inference_backends
    ParallelValues,  \* max_parallel_requests an admin may set (ge=1, le=64)
    SeededBackends,  \* rows that ensure_default_backends rewrites
    KeepsActive,     \* those whose is_active the seeding leaves alone (ollama-local)
    SeedActive,      \* is_active of the others after seeding
    SeedParallel     \* their max_parallel_requests after seeding

ASSUME ParallelAssumption == ParallelValues \subseteq Nat \ {0}
ASSUME SeedAssumption ==
    /\ SeededBackends \subseteq Backends
    /\ KeepsActive \subseteq SeededBackends
    /\ SeedActive \in [SeededBackends -> BOOLEAN]
    /\ SeedParallel \in [SeededBackends -> Nat \ {0}]

VARIABLES isActive, maxParallel, currentRunning

slotVars == <<isActive, maxParallel, currentRunning>>

SlotTypeOK ==
    /\ isActive \in [Backends -> BOOLEAN]
    /\ maxParallel \in [Backends -> Nat]
    /\ currentRunning \in [Backends -> Nat]

SlotInit ==
    /\ isActive = [b \in Backends |->
                      IF b \in SeededBackends THEN SeedActive[b] ELSE TRUE]
    /\ maxParallel \in [Backends -> ParallelValues]
    /\ \A b \in SeededBackends : maxParallel[b] = SeedParallel[b]
    /\ currentRunning = [b \in Backends |-> 0]

-------------------------------------------------------------------------------
\* limit = max(int(backend.max_parallel_requests or 1), 1)
Limit(b) == IF maxParallel[b] > 1 THEN maxParallel[b] ELSE 1

\* A slip in the comparison of line 29: > instead of >=.
CanAcquireOffByOne(b) == isActive[b] /\ currentRunning[b] <= Limit(b)

CanAcquire(b) == isActive[b] /\ currentRunning[b] < Limit(b)

TryAcquire(b) ==
    /\ CanAcquire(b)
    /\ currentRunning' = [currentRunning EXCEPT ![b] = @ + 1]
    /\ UNCHANGED <<isActive, maxParallel>>

TryAcquireRefused(b) == ~CanAcquire(b) /\ UNCHANGED slotVars

Release(b) ==
    /\ currentRunning' = [currentRunning EXCEPT ![b] = IF @ > 0 THEN @ - 1 ELSE 0]
    /\ UNCHANGED <<isActive, maxParallel>>

-------------------------------------------------------------------------------
\* PATCH /admin/backends/{id}: any subset of the fields may be set.
PatchBackend(b) ==
    \E active \in BOOLEAN, parallel \in ParallelValues \cup {maxParallel[b]} :
        /\ isActive' = [isActive EXCEPT ![b] = active]
        /\ maxParallel' = [maxParallel EXCEPT ![b] = parallel]
        /\ UNCHANGED currentRunning

\* POST /admin/backends/{id}/{start,stop,restart}, after docker succeeded.
RunBackendAction(b) ==
    \E action \in {"start", "stop", "restart"} :
        /\ isActive' = [isActive EXCEPT ![b] = (action # "stop")]
        /\ UNCHANGED <<maxParallel, currentRunning>>

\* ensure_default_backends, run at every process start and by every
\* GET /admin/backends: the seeded rows get their default columns back;
\* current_running is not among them.
EnsureDefaultBackends ==
    /\ isActive' = [b \in Backends |->
                       IF b \in SeededBackends \ KeepsActive THEN SeedActive[b]
                       ELSE isActive[b]]
    /\ maxParallel' = [b \in Backends |->
                       IF b \in SeededBackends THEN SeedParallel[b] ELSE maxParallel[b]]
    /\ UNCHANGED currentRunning
===============================================================================
