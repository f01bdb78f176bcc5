---------------------------- MODULE GenerationJobs ----------------------------
(***************************************************************************)
(* Asynchronous generation jobs: the rows of generation_jobs, the Redis    *)
(* list that carries job ids to the workers, the API handlers that create  *)
(* and cancel jobs and the workers' process_generation_job loop, over the  *)
(* backend slots of BackendSlotManager.                                    *)
(*                                                                         *)
(* A handler's database transaction is split where the code awaits between *)
(* a read and the commit that relies on it: no row of generation_jobs is   *)
(* ever locked, and each commit writes the status it decided on without    *)
(* looking at the row again.                                               *)
(***************************************************************************)
EXTENDS BackendSlotManager, Sequences, FiniteSets

CONSTANTS
    Jobs,         \* job ids
    Workers,      \* generation_worker processes
    Clients,      \* owners of the jobs
    ClientOf,     \* generation_jobs.client_id
    Routes,       \* backends that the jobs' model has a route to
    RouteRank,    \* rank of a route: (state, priority)
    NoJob, NoBackend,
    MaxSync,      \* bound on the slots of a backend that requests hold
    MaxCancels,   \* bound on concurrent cancel requests for a job
    MaxFaults     \* bound on process deaths and Redis restarts

ASSUME JobsAssumption ==
    /\ ClientOf \in [Jobs -> Clients]
    /\ Routes \subseteq Backends
    /\ RouteRank \in [Backends -> Nat]
    /\ NoJob \notin Jobs
    /\ NoBackend \notin Backends
    /\ IsFiniteSet(Workers)
    /\ MaxSync \in Nat
    /\ MaxCancels \in Nat
    /\ MaxFaults \in Nat

VARIABLES
    status,     \* generation_jobs.status; "absent" before the row is committed
    queue,      \* the Redis list
    unsent,     \* created and committed, rpush still to come
    cancels,    \* cancel requests that saw "queued" and have not committed
    barred,     \* clients that are blocked or billing-suspended
    model,      \* the jobs' row of model_registry
    sync,       \* slots that synchronous requests of the API process hold
    pc, wjob, wbackend, wroutes,  \* worker-local state
    runs, charged,                \* history: times started, times billed
    outcome,    \* history: the result a worker has committed, or "none"
    broken,     \* history: jobs whose processing ended in an exception
    leaked,     \* history: slots whose holder died
    faults      \* process deaths and Redis restarts so far

jobVars == <<status, queue, unsent, cancels, barred, model, sync>>
workerVars == <<pc, wjob, wbackend, wroutes>>
historyVars == <<runs, charged, outcome, broken, leaked, faults>>
vars == <<slotVars, jobVars, workerVars, historyVars>>

Terminal == {"completed", "failed", "cancelled"}
Status == Terminal \cup {"absent", "queued", "running"}
ModelState == {"live", "archived", "deleted"}

\* Program points of a worker:
\*   idle       before blpop             popped    job id in hand, row not read
\*   failing    decided to fail the job  hit       cache hit, commit to come
\*   routing    trying routes            acquired  slot taken, row not yet running
\*   running    waiting for the backend  releasing job committed, in finally
\*   raising    in finally with an exception that will end the process
\*   down       process dead
PC == {"idle", "popped", "failing", "hit", "routing", "acquired", "running",
       "releasing", "raising", "down"}

TypeOK ==
    /\ SlotTypeOK
    /\ status \in [Jobs -> Status]
    /\ queue \in Seq(Jobs)
    /\ unsent \subseteq Jobs
    /\ cancels \in [Jobs -> Nat]
    /\ barred \subseteq Clients
    /\ model \in ModelState
    /\ sync \in [Backends -> Nat]
    /\ pc \in [Workers -> PC]
    /\ wjob \in [Workers -> Jobs \cup {NoJob}]
    /\ wbackend \in [Workers -> Backends \cup {NoBackend}]
    /\ wroutes \in [Workers -> SUBSET Backends]
    /\ runs \in [Jobs -> Nat]
    /\ charged \in [Jobs -> Nat]
    /\ outcome \in [Jobs -> {"none", "completed", "failed"}]
    /\ broken \subseteq Jobs
    /\ leaked \in [Backends -> Nat]
    /\ faults \in Nat

Init ==
    /\ SlotInit
    /\ status = [j \in Jobs |-> "absent"]
    /\ queue = <<>>
    /\ unsent = {}
    /\ cancels = [j \in Jobs |-> 0]
    /\ barred = {}
    /\ model = "live"
    /\ sync = [b \in Backends |-> 0]
    /\ pc = [w \in Workers |-> "idle"]
    /\ wjob = [w \in Workers |-> NoJob]
    /\ wbackend = [w \in Workers |-> NoBackend]
    /\ wroutes = [w \in Workers |-> {}]
    /\ runs = [j \in Jobs |-> 0]
    /\ charged = [j \in Jobs |-> 0]
    /\ outcome = [j \in Jobs |-> "none"]
    /\ broken = {}
    /\ leaked = [b \in Backends |-> 0]
    /\ faults = 0

-------------------------------------------------------------------------------
(***************************************************************************)
(* The API process.                                                        *)
(***************************************************************************)

\* POST /v1/chat/completions/async up to session.commit(): require_client
\* refuses a barred client and resolve_requested_model a removed model; the
\* other refusals of prepare_async_chat_job write no job.
CreateJob(j) ==
    /\ status[j] = "absent"
    /\ ClientOf[j] \notin barred
    /\ model = "live"
    /\ status' = [status EXCEPT ![j] = "queued"]
    /\ unsent' = unsent \cup {j}
    /\ UNCHANGED <<slotVars, queue, cancels, barred, model, sync, workerVars, historyVars>>

\* A retry of the push that does not remember it has been done.
EnqueueAgain(j) ==
    /\ j \in unsent
    /\ queue' = Append(queue, j)
    /\ UNCHANGED <<slotVars, status, unsent, cancels, barred, model, sync,
                   workerVars, historyVars>>

EnqueueJob(j) ==
    /\ j \in unsent
    /\ queue' = Append(queue, j)
    /\ unsent' = unsent \ {j}
    /\ UNCHANGED <<slotVars, status, cancels, barred, model, sync, workerVars, historyVars>>

\* DELETE /v1/jobs/{id}/cancel: the read and the 409 check of cancel_job.
CancelRead(j) ==
    /\ status[j] = "queued"
    /\ ClientOf[j] \notin barred
    /\ cancels[j] < MaxCancels
    /\ cancels' = [cancels EXCEPT ![j] = @ + 1]
    /\ UNCHANGED <<slotVars, status, queue, unsent, barred, model, sync,
                   workerVars, historyVars>>

\* ... and its UPDATE, by primary key only.
CancelCommit(j) ==
    /\ cancels[j] > 0
    /\ cancels' = [cancels EXCEPT ![j] = @ - 1]
    /\ status' = [status EXCEPT ![j] = "cancelled"]
    /\ UNCHANGED <<slotVars, queue, unsent, barred, model, sync, workerVars, historyVars>>

\* A synchronous request is in the slot of a backend, from acquire to the
\* finally of slot (SyncRequests has the whole handler).
SyncAcquires(b) ==
    /\ sync[b] < MaxSync
    /\ TryAcquire(b)
    /\ sync' = [sync EXCEPT ![b] = @ + 1]
    /\ UNCHANGED <<status, queue, unsent, cancels, barred, model, workerVars, historyVars>>

SyncReleases(b) ==
    /\ sync[b] > 0
    /\ Release(b)
    /\ sync' = [sync EXCEPT ![b] = @ - 1]
    /\ UNCHANGED <<status, queue, unsent, cancels, barred, model, workerVars, historyVars>>

\* The API process dies and is restarted by the container runtime; requests
\* in flight are gone, their slots are not, and start-up seeds the defaults.
ApiRestart ==
    /\ faults < MaxFaults
    /\ faults' = faults + 1
    /\ unsent' = {}
    /\ cancels' = [j \in Jobs |-> 0]
    /\ leaked' = [b \in Backends |-> leaked[b] + sync[b]]
    /\ sync' = [b \in Backends |-> 0]
    /\ EnsureDefaultBackends
    /\ UNCHANGED <<status, queue, barred, model, workerVars, runs, charged, outcome, broken>>

\* Redis runs with --save "" --appendonly no: a restart empties the list.
RedisRestart ==
    /\ faults < MaxFaults
    /\ faults' = faults + 1
    /\ queue' = <<>>
    /\ UNCHANGED <<slotVars, status, unsent, cancels, barred, model, sync,
                   workerVars, runs, charged, outcome, broken, leaked>>

-------------------------------------------------------------------------------
(***************************************************************************)
(* Administrators.                                                         *)
(***************************************************************************)

\* block, security suspension, billing suspension, and their inverses.
SetClientAccess(c) ==
    /\ barred' = IF c \in barred THEN barred \ {c} ELSE barred \cup {c}
    /\ UNCHANGED <<slotVars, status, queue, unsent, cancels, model, sync,
                   workerVars, historyVars>>

\* DELETE /admin/models/{id}: soft delete drops the routes and the primary
\* backend; a hard delete removes the row.  That jobs survive it with a NULL
\* reference depends on the ORM mapping, which is not in the repository (the
\* column is nullable and its foreign key has no ON DELETE); the worker
\* provides for it.
DeleteModel(m) ==
    /\ model = "live"
    /\ model' = m
    /\ UNCHANGED <<slotVars, status, queue, unsent, cancels, barred, sync,
                   workerVars, historyVars>>

AdminBackends ==
    /\ \/ \E b \in Backends : PatchBackend(b) \/ RunBackendAction(b)
       \/ EnsureDefaultBackends
    /\ UNCHANGED <<jobVars, workerVars, historyVars>>

Admin ==
    \/ \E c \in Clients : SetClientAccess(c)
    \/ \E m \in {"archived", "deleted"} : DeleteModel(m)
    \/ AdminBackends

-------------------------------------------------------------------------------
(***************************************************************************)
(* The worker: _run_once around process_generation_job.                    *)
(***************************************************************************)

Goto(w, p) == pc' = [pc EXCEPT ![w] = p]

\* The worker is done with its job.
Finish(w, p) ==
    /\ Goto(w, p)
    /\ wjob' = [wjob EXCEPT ![w] = NoJob]
    /\ wbackend' = [wbackend EXCEPT ![w] = NoBackend]
    /\ wroutes' = [wroutes EXCEPT ![w] = {}]

\* Billing that does not look at the result.
SettleAlwaysBills(w, result) ==
    /\ status' = [status EXCEPT ![wjob[w]] = result]
    /\ outcome' = [outcome EXCEPT ![wjob[w]] = result]
    /\ charged' = [charged EXCEPT ![wjob[w]] = @ + 1]

\* The commit of a result; record_usage bills a completed job in the same
\* transaction.
Settle(w, result) ==
    /\ status' = [status EXCEPT ![wjob[w]] = result]
    /\ outcome' = [outcome EXCEPT ![wjob[w]] = result]
    /\ charged' = [charged EXCEPT ![wjob[w]] = IF result = "completed" THEN @ + 1 ELSE @]

\* Reading the head without removing it (LINDEX for LPOP).
BLPopPeek(w) ==
    /\ pc[w] = "idle"
    /\ queue # <<>>
    /\ wjob' = [wjob EXCEPT ![w] = Head(queue)]
    /\ Goto(w, "popped")
    /\ UNCHANGED <<slotVars, jobVars, wbackend, wroutes, historyVars>>

BLPop(w) ==
    /\ pc[w] = "idle"
    /\ queue # <<>>
    /\ queue' = Tail(queue)
    /\ wjob' = [wjob EXCEPT ![w] = Head(queue)]
    /\ Goto(w, "popped")
    /\ UNCHANGED <<slotVars, status, unsent, cancels, barred, model, sync,
                   wbackend, wroutes, historyVars>>

\* The row is in a terminal status or already running: "skipped".
SkipJob(w) ==
    /\ pc[w] = "popped"
    /\ status[wjob[w]] # "queued"
    /\ Finish(w, "idle")
    /\ UNCHANGED <<slotVars, jobVars, historyVars>>

\* The decisions taken on one read of the job, its client, its model and the
\* response cache.  Whether the cache answers is an input here.
ReadJob(w) ==
    LET j == wjob[w] IN
    /\ pc[w] = "popped"
    /\ status[j] = "queued"
    /\ \/ /\ ClientOf[j] \in barred
          /\ Goto(w, "failing")
          /\ UNCHANGED wroutes
       \/ /\ ClientOf[j] \notin barred
          /\ Goto(w, "hit")
          /\ UNCHANGED wroutes
       \/ /\ ClientOf[j] \notin barred
          /\ model = "deleted"
          /\ Goto(w, "failing")
          /\ UNCHANGED wroutes
       \/ /\ ClientOf[j] \notin barred
          /\ model # "deleted"
          /\ Goto(w, "routing")
          /\ wroutes' = [wroutes EXCEPT ![w] =
                           IF model = "live" THEN {b \in Routes : isActive[b]} ELSE {}]
    /\ UNCHANGED <<slotVars, jobVars, wjob, wbackend, historyVars>>

CommitFailed(w) ==
    /\ pc[w] = "failing"
    /\ Settle(w, "failed")
    /\ Finish(w, "idle")
    /\ UNCHANGED <<slotVars, queue, unsent, cancels, barred, model, sync,
                   runs, broken, leaked, faults>>

CommitHit(w) ==
    /\ pc[w] = "hit"
    /\ Settle(w, "completed")
    /\ Finish(w, "idle")
    /\ UNCHANGED <<slotVars, queue, unsent, cancels, barred, model, sync,
                   runs, broken, leaked, faults>>

\* Routes are tried in rank order, at random within a rank.
NextRoute(w, b) ==
    /\ b \in wroutes[w]
    /\ \A c \in wroutes[w] : RouteRank[b] <= RouteRank[c]

TakeRoute(w, b) ==
    /\ pc[w] = "routing"
    /\ NextRoute(w, b)
    /\ TryAcquire(b)
    /\ Goto(w, "acquired")
    /\ wbackend' = [wbackend EXCEPT ![w] = b]
    /\ wroutes' = [wroutes EXCEPT ![w] = {}]
    /\ UNCHANGED <<jobVars, wjob, historyVars>>

\* try_acquire re-reads is_active, so a route planned as active may be refused.
PassRoute(w, b) ==
    /\ pc[w] = "routing"
    /\ NextRoute(w, b)
    /\ TryAcquireRefused(b)
    /\ wroutes' = [wroutes EXCEPT ![w] = @ \ {b}]
    /\ UNCHANGED <<jobVars, pc, wjob, wbackend, historyVars>>

\* Requeue that forgets the push.
RequeueDropped(w) ==
    /\ pc[w] = "routing"
    /\ wroutes[w] = {}
    /\ Finish(w, "idle")
    /\ UNCHANGED <<slotVars, jobVars, historyVars>>

\* No route had a free slot: the id goes back to the tail of the list.
Requeue(w) ==
    /\ pc[w] = "routing"
    /\ wroutes[w] = {}
    /\ queue' = Append(queue, wjob[w])
    /\ Finish(w, "idle")
    /\ UNCHANGED <<slotVars, status, unsent, cancels, barred, model, sync, historyVars>>

SetRunning(w) ==
    /\ pc[w] = "acquired"
    /\ status' = [status EXCEPT ![wjob[w]] = "running"]
    /\ runs' = [runs EXCEPT ![wjob[w]] = @ + 1]
    /\ Goto(w, "running")
    /\ UNCHANGED <<slotVars, queue, unsent, cancels, barred, model, sync,
                   wjob, wbackend, wroutes, charged, outcome, broken, leaked, faults>>

\* The backend answered: store_exact_cache, record_usage, log, one commit.
CommitCompleted(w) ==
    /\ pc[w] = "running"
    /\ Settle(w, "completed")
    /\ Goto(w, "releasing")
    /\ UNCHANGED <<slotVars, queue, unsent, cancels, barred, model, sync,
                   wjob, wbackend, wroutes, runs, broken, leaked, faults>>

\* A status outside the documented set.
CommitBackendErrorMistyped(w) ==
    /\ pc[w] = "running"
    /\ status' = [status EXCEPT ![wjob[w]] = "error"]
    /\ Goto(w, "releasing")
    /\ UNCHANGED <<slotVars, queue, unsent, cancels, barred, model, sync,
                   wjob, wbackend, wroutes, historyVars>>

\* proxy.chat raised an HTTPException: the job fails and nothing is billed.
CommitBackendError(w) ==
    /\ pc[w] = "running"
    /\ Settle(w, "failed")
    /\ Goto(w, "releasing")
    /\ UNCHANGED <<slotVars, queue, unsent, cancels, barred, model, sync,
                   wjob, wbackend, wroutes, runs, broken, leaked, faults>>

\* Any other exception rolls back: an IntegrityError of the cache or of the
\* counters, whose row a concurrent transaction has inserted, the UPDATE of a
\* cache row that has been cleared, a body that is not JSON.  With a slot it
\* leaves through finally.  The status stays as it is and the id is gone.
RaiseOther(w) ==
    /\ \/ /\ pc[w] = "running"
          /\ Goto(w, "raising")
          /\ UNCHANGED <<wjob, wbackend, wroutes>>
       \/ /\ pc[w] = "hit"
          /\ Finish(w, "down")
    /\ broken' = broken \cup {wjob[w]}
    /\ UNCHANGED <<slotVars, jobVars, runs, charged, outcome, leaked, faults>>

\* The finally clause runs only for the normal outcomes.
ReleaseNormalOnly(w) ==
    /\ pc[w] \in {"releasing", "raising"}
    /\ IF pc[w] = "releasing" THEN Release(wbackend[w]) ELSE UNCHANGED slotVars
    /\ Finish(w, IF pc[w] = "raising" THEN "down" ELSE "idle")
    /\ UNCHANGED <<jobVars, historyVars>>

\* No finally at all.
ReleaseForgotten(w) ==
    /\ pc[w] \in {"releasing", "raising"}
    /\ Finish(w, IF pc[w] = "raising" THEN "down" ELSE "idle")
    /\ UNCHANGED <<slotVars, jobVars, historyVars>>

\* finally: slot_manager.release; an exception then ends the process.
ReleaseSlot(w) ==
    /\ pc[w] \in {"releasing", "raising"}
    /\ Release(wbackend[w])
    /\ Finish(w, IF pc[w] = "raising" THEN "down" ELSE "idle")
    /\ UNCHANGED <<jobVars, historyVars>>

Holding(w) == pc[w] \in {"acquired", "running", "releasing", "raising"}
Holders(b) == {w \in Workers : Holding(w) /\ wbackend[w] = b}

\* The process is killed at any await.
WorkerDies(w) ==
    /\ pc[w] # "down"
    /\ faults < MaxFaults
    /\ faults' = faults + 1
    /\ leaked' = IF Holding(w) THEN [leaked EXCEPT ![wbackend[w]] = @ + 1]
                 ELSE leaked
    /\ Finish(w, "down")
    /\ UNCHANGED <<slotVars, jobVars, runs, charged, outcome, broken>>

\* restart: unless-stopped; main() seeds the defaults before its loop.
WorkerStarts(w) ==
    /\ pc[w] = "down"
    /\ EnsureDefaultBackends
    /\ Goto(w, "idle")
    /\ UNCHANGED <<jobVars, wjob, wbackend, wroutes, historyVars>>

WorkerStep(w) ==
    \/ BLPop(w) \/ SkipJob(w) \/ ReadJob(w) \/ CommitFailed(w) \/ CommitHit(w)
    \/ \E b \in Backends : TakeRoute(w, b) \/ PassRoute(w, b)
    \/ Requeue(w) \/ SetRunning(w) \/ CommitCompleted(w) \/ CommitBackendError(w)
    \/ ReleaseSlot(w) \/ WorkerStarts(w)

Next ==
    \/ \E j \in Jobs : CreateJob(j) \/ EnqueueJob(j) \/ CancelRead(j) \/ CancelCommit(j)
    \/ \E w \in Workers : WorkerStep(w) \/ RaiseOther(w) \/ WorkerDies(w)
    \/ \E b \in Backends : SyncAcquires(b) \/ SyncReleases(b)
    \/ ApiRestart \/ RedisRestart
    \/ Admin

Spec == Init /\ [][Next]_vars

\* A request that has been accepted runs its handler to the end and a worker
\* process keeps looping; clients, administrators, synchronous requests and
\* faults owe nothing.
Fairness ==
    /\ \A j \in Jobs : WF_vars(EnqueueJob(j)) /\ WF_vars(CancelCommit(j))
    /\ \A w \in Workers : WF_vars(WorkerStep(w))

FairSpec == Spec /\ Fairness

-------------------------------------------------------------------------------
(***************************************************************************)
(* Properties.                                                             *)
(***************************************************************************)

Carries(w) == pc[w] \in {"popped", "failing", "hit", "routing", "acquired", "running"}
Queued(j) == \E i \in 1..Len(queue) : queue[i] = j
QueueDistinct == \A i, k \in 1..Len(queue) : queue[i] = queue[k] => i = k
InCustody(j) == j \in unsent \/ Queued(j) \/ \E w \in Workers : Carries(w) /\ wjob[w] = j

\* A job id is in one place at a time: with the API request that will push it,
\* once in the Redis list, or in the hands of one worker.  This is what makes
\* the unlocked read-check-commit of process_generation_job safe with several
\* workers.
SingleCustody ==
    /\ QueueDistinct
    /\ \A w, v \in Workers : Carries(w) /\ Carries(v) /\ wjob[w] = wjob[v] => w = v
    /\ \A w \in Workers : Carries(w) => wjob[w] \notin unsent /\ ~Queued(wjob[w])
    /\ \A j \in unsent : ~Queued(j)

\* process_generation_job starts a job at most once and record_usage bills it
\* exactly as often as a result "completed" was committed for it: never twice,
\* and never for a job that failed or was lost.
AtMostOnce ==
    \A j \in Jobs :
        /\ runs[j] <= 1
        /\ charged[j] = IF outcome[j] = "completed" THEN 1 ELSE 0

\* What every job's row and history look like along its way: untouched while
\* absent, not started while in the list, started and unsettled while the
\* worker that holds it waits for the backend.
JobLedger ==
    \A j \in Jobs :
        /\ status[j] = "absent"
              => runs[j] = 0 /\ outcome[j] = "none" /\ cancels[j] = 0 /\ ~InCustody(j)
        /\ j \in unsent \/ Queued(j)
              => status[j] \in {"queued", "cancelled"} /\ runs[j] = 0 /\ outcome[j] = "none"
        /\ \A w \in Workers : Carries(w) /\ wjob[w] = j =>
              /\ outcome[j] = "none"
              /\ IF pc[w] = "running"
                 THEN status[j] \in {"running", "cancelled"} /\ runs[j] = 1
                 ELSE status[j] \in {"queued", "cancelled"} /\ runs[j] = 0

\* A worker past blpop has a job, a worker past try_acquire a backend.
WorkerLocal ==
    \A w \in Workers :
        /\ Carries(w) => wjob[w] \in Jobs
        /\ Holding(w) => wbackend[w] \in Backends

\* Workers and requests in a slot of b.
Occupied(b) == Cardinality(Holders(b)) + sync[b]

\* current_running counts the workers and the requests between try_acquire and
\* release plus the slots whose holder died: release never takes a slot that
\* somebody else holds, its clamp at zero never acts, and only a death leaks a slot.
SlotAccounting ==
    \A b \in Backends : currentRunning[b] = Occupied(b) + leaked[b]

\* While nothing fails, no unfinished job is forgotten: it is about to be
\* pushed, in the list, or with a worker, unless its own processing raised.
NoLossWithoutFault ==
    \A j \in Jobs :
        status[j] \in {"queued", "running"} /\ ~InCustody(j) => faults > 0 \/ j \in broken

\* A worker or a request joins a backend only while the backend is active and
\* the holders, leaked slots included, stay within its max_parallel_requests.
AcquireWithinLimit ==
    [][\A b \in Backends :
          Occupied(b)' > Occupied(b) => isActive[b] /\ Occupied(b)' + leaked[b] <= Limit(b)]_vars

\* Unless a process or Redis dies, and if in the end the model keeps a route to
\* an active backend of which synchronous requests leave a slot, every accepted
\* job reaches a terminal status and stays there, however many others end in an
\* exception and take their worker down; only the job that did so itself stays.
JobsTerminate ==
    (\E b \in Routes : <>[](model # "archived" /\ isActive[b] /\ sync[b] < Limit(b)))
        => \A j \in Jobs :
              (status[j] = "queued") ~> [](status[j] \in Terminal \/ j \in broken)

\* The inductive invariant behind the theorems of GenerationJobsProofs.
IInv ==
    /\ TypeOK
    /\ WorkerLocal
    /\ SingleCustody
    /\ JobLedger
    /\ AtMostOnce
    /\ NoLossWithoutFault
    /\ SlotAccounting

\* The promise to the client, whatever the queue, the workers and the slots do.
Service == INSTANCE JobService WITH
               Jobs <- Jobs, status <- status, runs <- runs, outcome <- outcome,
               charged <- charged
ImplementsJobService == Service!Spec
===============================================================================
