------------------------- MODULE GenerationJobsProofs -------------------------
(***************************************************************************)
(* Proofs about GenerationJobs for every number of jobs, workers, backends *)
(* and faults.                                                             *)
(***************************************************************************)
EXTENDS GenerationJobs, FiniteSetTheorems, TLAPS

-------------------------------------------------------------------------------
(***************************************************************************)
(* Type correctness.                                                       *)
(***************************************************************************)

\* Seeding keeps the backend columns well typed.
LEMMA SeedKeepsSlotTypes ==
    ASSUME SlotTypeOK, EnsureDefaultBackends
    PROVE  SlotTypeOK'
  BY SeedAssumption DEF SlotTypeOK, EnsureDefaultBackends

\* The API handlers, the faults outside the workers and the administrators
\* keep every variable in its type.
LEMMA EnvironmentType ==
    ASSUME TypeOK,
           \/ \E j \in Jobs : CreateJob(j) \/ EnqueueJob(j) \/ CancelRead(j) \/ CancelCommit(j)
           \/ \E b \in Backends : SyncAcquires(b) \/ SyncReleases(b)
           \/ ApiRestart \/ RedisRestart \/ Admin
    PROVE  TypeOK'
  <1>1. CASE \E j \in Jobs : CreateJob(j) \/ EnqueueJob(j) \/ CancelRead(j) \/ CancelCommit(j)
    <2> PICK j \in Jobs : CreateJob(j) \/ EnqueueJob(j) \/ CancelRead(j) \/ CancelCommit(j)
      BY <1>1
    <2>1. CASE CreateJob(j)
      <3>1. /\ status' \in [Jobs -> Status] /\ unsent' \subseteq Jobs
            /\ UNCHANGED <<slotVars, queue, cancels, barred, model, sync, workerVars, historyVars>>
        BY <2>1 DEF TypeOK, CreateJob, Status
      <3> QED BY <3>1 DEF TypeOK, SlotTypeOK, slotVars, workerVars, historyVars
    <2>2. CASE EnqueueJob(j)
      <3>1. /\ queue' \in Seq(Jobs) /\ unsent' \subseteq Jobs
            /\ UNCHANGED <<slotVars, status, cancels, barred, model, sync, workerVars, historyVars>>
        BY <2>2 DEF TypeOK, EnqueueJob
      <3> QED BY <3>1 DEF TypeOK, SlotTypeOK, slotVars, workerVars, historyVars
    <2>3. CASE CancelRead(j)
      <3>1. /\ cancels' \in [Jobs -> Nat]
            /\ UNCHANGED <<slotVars, status, queue, unsent, barred, model, sync, workerVars, historyVars>>
        BY <2>3 DEF TypeOK, CancelRead
      <3> QED BY <3>1 DEF TypeOK, SlotTypeOK, slotVars, workerVars, historyVars
    <2>4. CASE CancelCommit(j)
      <3>1. /\ status' \in [Jobs -> Status] /\ cancels' \in [Jobs -> Nat]
            /\ UNCHANGED <<slotVars, queue, unsent, barred, model, sync, workerVars, historyVars>>
        BY <2>4 DEF TypeOK, CancelCommit, Status, Terminal
      <3> QED BY <3>1 DEF TypeOK, SlotTypeOK, slotVars, workerVars, historyVars
    <2> QED BY <2>1, <2>2, <2>3, <2>4
  <1>2. CASE ApiRestart
    <2>1. SlotTypeOK'
      BY <1>2, SeedKeepsSlotTypes DEF ApiRestart, TypeOK
    <2>2. leaked' \in [Backends -> Nat] /\ sync' \in [Backends -> Nat]
      BY <1>2 DEF TypeOK, ApiRestart
    <2> QED
      BY <1>2, <2>1, <2>2 DEF TypeOK, ApiRestart, workerVars
  <1>3. CASE RedisRestart
    BY <1>3 DEF TypeOK, SlotTypeOK, RedisRestart, slotVars, workerVars
  <1>4. CASE Admin
    <2>1. CASE \E c \in Clients : SetClientAccess(c)
      BY <2>1 DEF TypeOK, SlotTypeOK, SetClientAccess, slotVars, workerVars, historyVars
    <2>2. CASE \E m \in {"archived", "deleted"} : DeleteModel(m)
      BY <2>2 DEF TypeOK, SlotTypeOK, DeleteModel, ModelState, slotVars, workerVars, historyVars
    <2>3. CASE AdminBackends
      <3>1. SlotTypeOK'
        <4>1. ASSUME NEW b \in Backends, PatchBackend(b) PROVE SlotTypeOK'
          BY <4>1, ParallelAssumption DEF TypeOK, SlotTypeOK, PatchBackend
        <4>2. ASSUME NEW b \in Backends, RunBackendAction(b) PROVE SlotTypeOK'
          BY <4>2 DEF TypeOK, SlotTypeOK, RunBackendAction
        <4> QED
          BY <2>3, <4>1, <4>2, SeedKeepsSlotTypes DEF AdminBackends, TypeOK
      <3> QED
        BY <2>3, <3>1 DEF TypeOK, AdminBackends, jobVars, workerVars, historyVars
    <2> QED BY <1>4, <2>1, <2>2, <2>3 DEF Admin
  <1>5. ASSUME NEW b \in Backends, SyncAcquires(b) \/ SyncReleases(b) PROVE TypeOK'
    <2>1. SlotTypeOK' /\ sync' \in [Backends -> Nat]
      <3>1. CASE SyncAcquires(b)
        BY <3>1 DEF TypeOK, SlotTypeOK, SyncAcquires, TryAcquire
      <3>2. CASE SyncReleases(b)
        BY <3>2 DEF TypeOK, SlotTypeOK, SyncReleases, Release
      <3> QED BY <1>5, <3>1, <3>2
    <2> QED
      BY <1>5, <2>1 DEF TypeOK, SyncAcquires, SyncReleases, workerVars, historyVars
  <1> QED BY <1>1, <1>2, <1>3, <1>4, <1>5

\* A worker's steps keep every variable in its type.
LEMMA WorkerType ==
    ASSUME TypeOK, WorkerLocal,
           NEW w \in Workers, WorkerStep(w) \/ RaiseOther(w) \/ WorkerDies(w)
    PROVE  TypeOK'
  <1> USE DEF TypeOK, SlotTypeOK, slotVars, jobVars, workerVars, historyVars, Goto, Finish
  <1>1. CASE BLPop(w)
    <2>1. Head(queue) \in Jobs /\ Tail(queue) \in Seq(Jobs)
      BY <1>1 DEF BLPop
    <2> QED BY <1>1, <2>1 DEF BLPop, PC
  <1>2. CASE SkipJob(w)
    BY <1>2 DEF SkipJob, PC
  <1>3. CASE ReadJob(w)
    <2>1. wroutes' \in [Workers -> SUBSET Backends]
      BY <1>3, JobsAssumption DEF ReadJob
    <2>2. pc' \in [Workers -> PC]
      BY <1>3 DEF ReadJob, PC
    <2>3. UNCHANGED <<slotVars, jobVars, wjob, wbackend, historyVars>>
      BY <1>3 DEF ReadJob
    <2> QED BY <2>1, <2>2, <2>3
  <1>4. CASE CommitFailed(w)
    BY <1>4 DEF CommitFailed, PC, Settle, Status, Terminal, WorkerLocal, Carries
  <1>5. CASE CommitHit(w)
    BY <1>5 DEF CommitHit, PC, Settle, Status, Terminal, WorkerLocal, Carries
  <1>6. ASSUME NEW b \in Backends, TakeRoute(w, b)
        PROVE  TypeOK'
    <2>1. currentRunning' \in [Backends -> Nat] /\ UNCHANGED <<isActive, maxParallel>>
      BY <1>6 DEF TakeRoute, TryAcquire
    <2>2. pc' \in [Workers -> PC]
      BY <1>6 DEF TakeRoute, PC
    <2>3. /\ wbackend' \in [Workers -> Backends \cup {NoBackend}]
          /\ wroutes' \in [Workers -> SUBSET Backends]
      BY <1>6 DEF TakeRoute
    <2>4. UNCHANGED <<jobVars, wjob, historyVars>>
      BY <1>6 DEF TakeRoute
    <2> QED BY <2>1, <2>2, <2>3, <2>4
  <1>61. ASSUME NEW b \in Backends, PassRoute(w, b)
        PROVE  TypeOK'
    BY <1>61 DEF PassRoute, TryAcquireRefused
  <1>7. CASE Requeue(w)
    BY <1>7 DEF Requeue, PC, WorkerLocal, Carries
  <1>8. CASE SetRunning(w)
    BY <1>8 DEF SetRunning, PC, Status, WorkerLocal, Carries
  <1>9. CASE CommitCompleted(w)
    BY <1>9 DEF CommitCompleted, PC, Settle, Status, Terminal, WorkerLocal, Carries
  <1>10. CASE CommitBackendError(w)
    BY <1>10 DEF CommitBackendError, PC, Settle, Status, Terminal, WorkerLocal, Carries
  <1>11. CASE ReleaseSlot(w)
    BY <1>11 DEF ReleaseSlot, Release, PC, WorkerLocal, Holding
  <1>12. CASE WorkerStarts(w)
    <2>1. SlotTypeOK'
      BY <1>12, SeedKeepsSlotTypes DEF WorkerStarts
    <2> QED BY <1>12, <2>1 DEF WorkerStarts, PC
  <1>13. CASE RaiseOther(w)
    BY <1>13 DEF RaiseOther, PC, WorkerLocal, Carries
  <1>14. CASE WorkerDies(w)
    BY <1>14 DEF WorkerDies, PC, WorkerLocal, Holding
  <1> QED
    BY <1>1, <1>2, <1>3, <1>4, <1>5, <1>6, <1>61, <1>7, <1>8, <1>9, <1>10, <1>11, <1>12,
       <1>13, <1>14 DEF WorkerStep

-------------------------------------------------------------------------------
(***************************************************************************)
(* Custody and the ledger of each job.                                     *)
(***************************************************************************)

JobInv == WorkerLocal /\ SingleCustody /\ JobLedger /\ AtMostOnce /\ NoLossWithoutFault

\* Administrators and synchronous requests touch none of it.
LEMMA AdminKeepsJobInv ==
    ASSUME JobInv, Admin \/ \E b \in Backends : SyncAcquires(b) \/ SyncReleases(b)
    PROVE  JobInv'
  <1>1. UNCHANGED <<status, queue, unsent, cancels, pc, wjob, wbackend, runs, charged, outcome,
                    broken, faults>>
    BY DEF Admin, SetClientAccess, DeleteModel, AdminBackends, SyncAcquires, SyncReleases,
       jobVars, workerVars, historyVars
  <1> QED
    BY <1>1 DEF JobInv, WorkerLocal, SingleCustody, JobLedger, AtMostOnce, NoLossWithoutFault,
       QueueDistinct, InCustody, Queued, Carries, Holding

\* rpush adds one id to the list.
LEMMA QueuePush ==
    ASSUME NEW j \in Jobs, queue \in Seq(Jobs), queue' = Append(queue, j)
    PROVE  /\ \A k \in Jobs : Queued(k)' <=> (Queued(k) \/ k = j)
           /\ QueueDistinct /\ ~Queued(j) => QueueDistinct'
  <1>1. /\ Len(queue') = Len(queue) + 1
        /\ Len(queue) \in Nat
        /\ queue'[Len(queue) + 1] = j
        /\ \A i \in 1..Len(queue) : queue'[i] = queue[i]
    OBVIOUS
  <1>2. ASSUME NEW k \in Jobs
        PROVE  Queued(k)' <=> (Queued(k) \/ k = j)
    BY <1>1 DEF Queued
  <1>3. QueueDistinct /\ ~Queued(j) => QueueDistinct'
    BY <1>1 DEF QueueDistinct, Queued
  <1> QED BY <1>2, <1>3

\* blpop removes one occurrence; in a list without repetitions, the id.
LEMMA QueuePop ==
    ASSUME queue \in Seq(Jobs), queue # <<>>, queue' = Tail(queue), QueueDistinct
    PROVE  /\ Head(queue) \in Jobs
           /\ Queued(Head(queue))
           /\ \A k \in Jobs : Queued(k)' <=> (Queued(k) /\ k # Head(queue))
           /\ QueueDistinct'
  <1>1. /\ Len(queue) \in Nat /\ Len(queue) > 0
        /\ Len(queue') = Len(queue) - 1
        /\ Head(queue) = queue[1]
        /\ \A i \in 1..(Len(queue) - 1) : queue'[i] = queue[i + 1]
    OBVIOUS
  <1>2. Head(queue) \in Jobs /\ Queued(Head(queue))
    BY <1>1 DEF Queued
  <1>3. QueueDistinct'
    BY <1>1 DEF QueueDistinct
  <1>4. ASSUME NEW k \in Jobs
        PROVE  Queued(k)' <=> (Queued(k) /\ k # Head(queue))
    <2>1. ASSUME Queued(k)' PROVE Queued(k) /\ k # Head(queue)
      <3>1. PICK i \in 1..Len(queue') : queue'[i] = k
        BY <2>1 DEF Queued
      <3>2. i + 1 \in 1..Len(queue) /\ queue[i + 1] = k /\ i + 1 # 1
        BY <3>1, <1>1
      <3> QED BY <3>2, <1>1 DEF Queued, QueueDistinct
    <2>2. ASSUME Queued(k), k # Head(queue) PROVE Queued(k)'
      <3>1. PICK i \in 1..Len(queue) : queue[i] = k
        BY <2>2 DEF Queued
      <3>2. i # 1
        BY <3>1, <2>2, <1>1
      <3>3. i - 1 \in 1..Len(queue') /\ queue'[i - 1] = k
        BY <3>1, <3>2, <1>1
      <3> QED BY <3>3 DEF Queued
    <2> QED BY <2>1, <2>2
  <1> QED BY <1>2, <1>3, <1>4


\* The list is left alone, so membership in it is unchanged.
LEMMA QueueSame ==
    ASSUME UNCHANGED queue
    PROVE  /\ \A k \in Jobs : Queued(k)' <=> Queued(k)
           /\ QueueDistinct' <=> QueueDistinct
  BY DEF Queued, QueueDistinct

\* The handlers of the API process and the faults outside the workers.
LEMMA ApiKeepsJobInv ==
    ASSUME TypeOK, JobInv,
           \/ \E j \in Jobs : CreateJob(j) \/ EnqueueJob(j) \/ CancelRead(j) \/ CancelCommit(j)
           \/ ApiRestart \/ RedisRestart
    PROVE  JobInv'
  <1> USE DEF JobInv, TypeOK, workerVars, historyVars, Carries, Holding
  <1>1. ASSUME NEW j \in Jobs, CreateJob(j) PROVE JobInv'
    <2>1. QueueDistinct' /\ \A k \in Jobs : Queued(k)' <=> Queued(k)
      BY <1>1, QueueSame DEF CreateJob, SingleCustody
    <2>4. WorkerLocal'
      BY <1>1, <2>1 DEF CreateJob, WorkerLocal, Carries, Holding
    <2>5. SingleCustody'
      BY <1>1, <2>1 DEF CreateJob, SingleCustody, WorkerLocal, JobLedger, InCustody
    <2>6. JobLedger'
      BY <1>1, <2>1 DEF CreateJob, JobLedger, SingleCustody, WorkerLocal, InCustody
    <2>7. AtMostOnce'
      BY <1>1, <2>1 DEF CreateJob, AtMostOnce, JobLedger, WorkerLocal
    <2>8. NoLossWithoutFault'
      BY <1>1, <2>1 DEF CreateJob, NoLossWithoutFault, JobLedger, WorkerLocal, InCustody
    <2> QED BY <2>4, <2>5, <2>6, <2>7, <2>8
  <1>2. ASSUME NEW j \in Jobs, EnqueueJob(j) PROVE JobInv'
    <2>1. \A k \in Jobs : Queued(k)' <=> (Queued(k) \/ k = j)
      BY <1>2, QueuePush DEF EnqueueJob
    <2>2. ~Queued(j) /\ QueueDistinct
      BY <1>2 DEF EnqueueJob, SingleCustody
    <2>3. QueueDistinct'
      BY <1>2, <2>2, QueuePush DEF EnqueueJob
    <2>4. WorkerLocal'
      BY <1>2, <2>1, <2>2, <2>3 DEF EnqueueJob, WorkerLocal, Carries, Holding
    <2>5. SingleCustody'
      BY <1>2, <2>1, <2>2, <2>3 DEF EnqueueJob, SingleCustody, WorkerLocal, JobLedger, InCustody
    <2>6. JobLedger'
      BY <1>2, <2>1, <2>2, <2>3 DEF EnqueueJob, JobLedger, SingleCustody, WorkerLocal, InCustody
    <2>7. AtMostOnce'
      BY <1>2, <2>1, <2>2, <2>3 DEF EnqueueJob, AtMostOnce, JobLedger, WorkerLocal
    <2>8. NoLossWithoutFault'
      BY <1>2, <2>1, <2>2, <2>3 DEF EnqueueJob, NoLossWithoutFault, JobLedger, WorkerLocal, InCustody
    <2> QED BY <2>4, <2>5, <2>6, <2>7, <2>8
  <1>3. ASSUME NEW j \in Jobs, CancelRead(j) PROVE JobInv'
    <2>1. QueueDistinct' /\ \A k \in Jobs : Queued(k)' <=> Queued(k)
      BY <1>3, QueueSame DEF CancelRead, SingleCustody
    <2>4. WorkerLocal'
      BY <1>3, <2>1 DEF CancelRead, WorkerLocal, Carries, Holding
    <2>5. SingleCustody'
      BY <1>3, <2>1 DEF CancelRead, SingleCustody, WorkerLocal, JobLedger, InCustody
    <2>6. JobLedger'
      BY <1>3, <2>1 DEF CancelRead, JobLedger, SingleCustody, WorkerLocal, InCustody
    <2>7. AtMostOnce'
      BY <1>3, <2>1 DEF CancelRead, AtMostOnce, JobLedger, WorkerLocal
    <2>8. NoLossWithoutFault'
      BY <1>3, <2>1 DEF CancelRead, NoLossWithoutFault, JobLedger, WorkerLocal, InCustody
    <2> QED BY <2>4, <2>5, <2>6, <2>7, <2>8
  <1>4. ASSUME NEW j \in Jobs, CancelCommit(j) PROVE JobInv'
    <2>1. QueueDistinct' /\ \A k \in Jobs : Queued(k)' <=> Queued(k)
      BY <1>4, QueueSame DEF CancelCommit, SingleCustody
    <2>4. WorkerLocal'
      BY <1>4, <2>1 DEF CancelCommit, WorkerLocal, Carries, Holding
    <2>5. SingleCustody'
      BY <1>4, <2>1 DEF CancelCommit, SingleCustody, WorkerLocal, JobLedger, InCustody
    <2>6. JobLedger'
      BY <1>4, <2>1 DEF CancelCommit, JobLedger, SingleCustody, WorkerLocal, InCustody
    <2>7. AtMostOnce'
      BY <1>4, <2>1 DEF CancelCommit, AtMostOnce, JobLedger, WorkerLocal
    <2>8. NoLossWithoutFault'
      BY <1>4, <2>1 DEF CancelCommit, NoLossWithoutFault, JobLedger, WorkerLocal, InCustody
    <2> QED BY <2>4, <2>5, <2>6, <2>7, <2>8
  <1>5. CASE ApiRestart
    <2>1. QueueDistinct' /\ \A k \in Jobs : Queued(k)' <=> Queued(k)
      BY <1>5, QueueSame DEF ApiRestart, SingleCustody
    <2>4. WorkerLocal'
      BY <1>5, <2>1 DEF ApiRestart, WorkerLocal, Carries, Holding
    <2>5. SingleCustody'
      BY <1>5, <2>1 DEF ApiRestart, SingleCustody, WorkerLocal, JobLedger, InCustody
    <2>6. JobLedger'
      BY <1>5, <2>1 DEF ApiRestart, JobLedger, SingleCustody, WorkerLocal, InCustody
    <2>7. AtMostOnce'
      BY <1>5, <2>1 DEF ApiRestart, AtMostOnce, JobLedger, WorkerLocal
    <2>8. NoLossWithoutFault'
      BY <1>5, <2>1 DEF ApiRestart, NoLossWithoutFault, JobLedger, WorkerLocal, InCustody
    <2> QED BY <2>4, <2>5, <2>6, <2>7, <2>8
  <1>6. CASE RedisRestart
    <2>1. QueueDistinct' /\ \A k \in Jobs : ~Queued(k)'
      BY <1>6 DEF RedisRestart, Queued, QueueDistinct
    <2>4. WorkerLocal'
      BY <1>6, <2>1 DEF RedisRestart, WorkerLocal, Carries, Holding
    <2>5. SingleCustody'
      BY <1>6, <2>1 DEF RedisRestart, SingleCustody, WorkerLocal, JobLedger, InCustody
    <2>6. JobLedger'
      BY <1>6, <2>1 DEF RedisRestart, JobLedger, SingleCustody, WorkerLocal, InCustody
    <2>7. AtMostOnce'
      BY <1>6, <2>1 DEF RedisRestart, AtMostOnce, JobLedger, WorkerLocal
    <2>8. NoLossWithoutFault'
      BY <1>6, <2>1 DEF RedisRestart, NoLossWithoutFault, JobLedger, WorkerLocal, InCustody
    <2> QED BY <2>4, <2>5, <2>6, <2>7, <2>8
  <1> QED BY <1>1, <1>2, <1>3, <1>4, <1>5, <1>6

\* Every step of a worker keeps custody and ledger.
LEMMA WorkerKeepsJobInv ==
    ASSUME TypeOK, JobInv,
           NEW w \in Workers, WorkerStep(w) \/ RaiseOther(w) \/ WorkerDies(w)
    PROVE  JobInv'
  <1> USE DEF JobInv, TypeOK, jobVars, workerVars, historyVars, Carries, Holding, Goto, Finish
  <1>1. CASE BLPop(w)
    <2>1. /\ Head(queue) \in Jobs /\ Queued(Head(queue)) /\ QueueDistinct'
          /\ \A k \in Jobs : Queued(k)' <=> (Queued(k) /\ k # Head(queue))
      BY <1>1, QueuePop DEF BLPop, SingleCustody
    <2>2. WorkerLocal'
      BY <1>1, <2>1 DEF BLPop, WorkerLocal
    <2>3. SingleCustody'
      BY <1>1, <2>1 DEF BLPop, SingleCustody, WorkerLocal, JobLedger, InCustody
    <2>4. JobLedger'
      BY <1>1, <2>1 DEF BLPop, JobLedger, SingleCustody, WorkerLocal, InCustody
    <2>5. AtMostOnce'
      BY <1>1, <2>1 DEF BLPop, AtMostOnce, JobLedger, WorkerLocal
    <2>6. NoLossWithoutFault'
      BY <1>1, <2>1 DEF BLPop, NoLossWithoutFault, JobLedger, WorkerLocal, InCustody
    <2> QED BY <2>2, <2>3, <2>4, <2>5, <2>6
  <1>2. CASE SkipJob(w)
    <2>1. QueueDistinct' /\ \A k \in Jobs : Queued(k)' <=> Queued(k)
      BY <1>2, QueueSame DEF SkipJob, SingleCustody
    <2>2. WorkerLocal'
      BY <1>2, <2>1 DEF SkipJob, WorkerLocal
    <2>3. SingleCustody'
      BY <1>2, <2>1 DEF SkipJob, SingleCustody, WorkerLocal, JobLedger, InCustody
    <2>4. JobLedger'
      BY <1>2, <2>1 DEF SkipJob, JobLedger, SingleCustody, WorkerLocal, InCustody
    <2>5. AtMostOnce'
      BY <1>2, <2>1 DEF SkipJob, AtMostOnce, JobLedger, WorkerLocal
    <2>6. NoLossWithoutFault'
      BY <1>2, <2>1 DEF SkipJob, NoLossWithoutFault, JobLedger, WorkerLocal, InCustody
    <2> QED BY <2>2, <2>3, <2>4, <2>5, <2>6
  <1>3. CASE ReadJob(w)
    <2>0. PICK p \in {"failing", "hit", "routing"} :
             pc[w] = "popped" /\ Goto(w, p) /\ UNCHANGED <<jobVars, wjob, wbackend, historyVars>>
      BY <1>3 DEF ReadJob
    <2>1. QueueDistinct' /\ \A k \in Jobs : Queued(k)' <=> Queued(k)
      BY <2>0, QueueSame DEF SingleCustody
    <2>2. WorkerLocal'
      BY <2>0 DEF WorkerLocal
    <2>3. SingleCustody'
      BY <2>0, <2>1 DEF SingleCustody, WorkerLocal
    <2>4. JobLedger'
      BY <2>0, <2>1 DEF JobLedger, WorkerLocal, InCustody
    <2>5. AtMostOnce'
      BY <2>0 DEF AtMostOnce
    <2>6. NoLossWithoutFault'
      BY <2>0, <2>1 DEF NoLossWithoutFault, WorkerLocal, InCustody
    <2> QED BY <2>2, <2>3, <2>4, <2>5, <2>6
  <1>4. CASE CommitFailed(w)
    <2>1. QueueDistinct' /\ \A k \in Jobs : Queued(k)' <=> Queued(k)
      BY <1>4, QueueSame DEF CommitFailed, SingleCustody
    <2>2. WorkerLocal'
      BY <1>4, <2>1 DEF CommitFailed, Settle, WorkerLocal
    <2>3. SingleCustody'
      BY <1>4, <2>1 DEF CommitFailed, Settle, SingleCustody, WorkerLocal, JobLedger, InCustody
    <2>4. JobLedger'
      BY <1>4, <2>1 DEF CommitFailed, Settle, JobLedger, SingleCustody, WorkerLocal, InCustody
    <2>5. AtMostOnce'
      BY <1>4, <2>1 DEF CommitFailed, Settle, AtMostOnce, JobLedger, WorkerLocal
    <2>6. NoLossWithoutFault'
      BY <1>4, <2>1 DEF CommitFailed, Settle, NoLossWithoutFault, JobLedger, WorkerLocal, InCustody
    <2> QED BY <2>2, <2>3, <2>4, <2>5, <2>6
  <1>5. CASE CommitHit(w)
    <2>1. QueueDistinct' /\ \A k \in Jobs : Queued(k)' <=> Queued(k)
      BY <1>5, QueueSame DEF CommitHit, SingleCustody
    <2>2. WorkerLocal'
      BY <1>5, <2>1 DEF CommitHit, Settle, WorkerLocal
    <2>3. SingleCustody'
      BY <1>5, <2>1 DEF CommitHit, Settle, SingleCustody, WorkerLocal, JobLedger, InCustody
    <2>4. JobLedger'
      BY <1>5, <2>1 DEF CommitHit, Settle, JobLedger, SingleCustody, WorkerLocal, InCustody
    <2>5. AtMostOnce'
      BY <1>5, <2>1 DEF CommitHit, Settle, AtMostOnce, JobLedger, WorkerLocal
    <2>6. NoLossWithoutFault'
      BY <1>5, <2>1 DEF CommitHit, Settle, NoLossWithoutFault, JobLedger, WorkerLocal, InCustody
    <2> QED BY <2>2, <2>3, <2>4, <2>5, <2>6
  <1>6. ASSUME NEW b \in Backends, TakeRoute(w, b) PROVE JobInv'
    <2>1. QueueDistinct' /\ \A k \in Jobs : Queued(k)' <=> Queued(k)
      BY <1>6, QueueSame DEF TakeRoute, SingleCustody
    <2>2. WorkerLocal'
      BY <1>6, <2>1 DEF TakeRoute, WorkerLocal
    <2>3. SingleCustody'
      BY <1>6, <2>1 DEF TakeRoute, SingleCustody, WorkerLocal, JobLedger, InCustody
    <2>4. JobLedger'
      BY <1>6, <2>1 DEF TakeRoute, JobLedger, SingleCustody, WorkerLocal, InCustody
    <2>5. AtMostOnce'
      BY <1>6, <2>1 DEF TakeRoute, AtMostOnce, JobLedger, WorkerLocal
    <2>6. NoLossWithoutFault'
      BY <1>6, <2>1 DEF TakeRoute, NoLossWithoutFault, JobLedger, WorkerLocal, InCustody
    <2> QED BY <2>2, <2>3, <2>4, <2>5, <2>6
  <1>7. ASSUME NEW b \in Backends, PassRoute(w, b) PROVE JobInv'
    <2>1. QueueDistinct' /\ \A k \in Jobs : Queued(k)' <=> Queued(k)
      BY <1>7, QueueSame DEF PassRoute, SingleCustody
    <2>2. WorkerLocal'
      BY <1>7, <2>1 DEF PassRoute, WorkerLocal
    <2>3. SingleCustody'
      BY <1>7, <2>1 DEF PassRoute, SingleCustody, WorkerLocal, JobLedger, InCustody
    <2>4. JobLedger'
      BY <1>7, <2>1 DEF PassRoute, JobLedger, SingleCustody, WorkerLocal, InCustody
    <2>5. AtMostOnce'
      BY <1>7, <2>1 DEF PassRoute, AtMostOnce, JobLedger, WorkerLocal
    <2>6. NoLossWithoutFault'
      BY <1>7, <2>1 DEF PassRoute, NoLossWithoutFault, JobLedger, WorkerLocal, InCustody
    <2> QED BY <2>2, <2>3, <2>4, <2>5, <2>6
  <1>8. CASE Requeue(w)
    <2>0. wjob[w] \in Jobs /\ ~Queued(wjob[w]) /\ QueueDistinct
      BY <1>8 DEF Requeue, SingleCustody, WorkerLocal
    <2>1. QueueDistinct' /\ \A k \in Jobs : Queued(k)' <=> (Queued(k) \/ k = wjob[w])
      BY <1>8, <2>0, QueuePush DEF Requeue
    <2>2. WorkerLocal'
      BY <1>8, <2>0, <2>1 DEF Requeue, WorkerLocal
    <2>3. SingleCustody'
      BY <1>8, <2>0, <2>1 DEF Requeue, SingleCustody, WorkerLocal, JobLedger, InCustody
    <2>4. JobLedger'
      BY <1>8, <2>0, <2>1 DEF Requeue, JobLedger, SingleCustody, WorkerLocal, InCustody
    <2>5. AtMostOnce'
      BY <1>8, <2>0, <2>1 DEF Requeue, AtMostOnce, JobLedger, WorkerLocal
    <2>6. NoLossWithoutFault'
      BY <1>8, <2>0, <2>1 DEF Requeue, NoLossWithoutFault, JobLedger, WorkerLocal, InCustody
    <2> QED BY <2>2, <2>3, <2>4, <2>5, <2>6
  <1>9. CASE SetRunning(w)
    <2>1. QueueDistinct' /\ \A k \in Jobs : Queued(k)' <=> Queued(k)
      BY <1>9, QueueSame DEF SetRunning, SingleCustody
    <2>2. WorkerLocal'
      BY <1>9, <2>1 DEF SetRunning, WorkerLocal
    <2>3. SingleCustody'
      BY <1>9, <2>1 DEF SetRunning, SingleCustody, WorkerLocal, JobLedger, InCustody
    <2>4. JobLedger'
      BY <1>9, <2>1 DEF SetRunning, JobLedger, SingleCustody, WorkerLocal, InCustody
    <2>5. AtMostOnce'
      <3>1. PICK j \in Jobs : j = wjob[w]
        BY <1>9 DEF SetRunning, WorkerLocal
      <3>2. runs[j] = 0 /\ runs' = [runs EXCEPT ![j] = @ + 1] /\ UNCHANGED <<charged, outcome>>
        BY <1>9, <3>1 DEF SetRunning, JobLedger
      <3> QED BY <3>1, <3>2 DEF AtMostOnce
    <2>6. NoLossWithoutFault'
      BY <1>9, <2>1 DEF SetRunning, NoLossWithoutFault, JobLedger, WorkerLocal, InCustody
    <2> QED BY <2>2, <2>3, <2>4, <2>5, <2>6
  <1>10. CASE CommitCompleted(w)
    <2>1. QueueDistinct' /\ \A k \in Jobs : Queued(k)' <=> Queued(k)
      BY <1>10, QueueSame DEF CommitCompleted, SingleCustody
    <2>2. WorkerLocal'
      BY <1>10, <2>1 DEF CommitCompleted, Settle, WorkerLocal
    <2>3. SingleCustody'
      BY <1>10, <2>1 DEF CommitCompleted, Settle, SingleCustody, WorkerLocal, JobLedger, InCustody
    <2>4. JobLedger'
      BY <1>10, <2>1 DEF CommitCompleted, Settle, JobLedger, SingleCustody, WorkerLocal, InCustody
    <2>5. AtMostOnce'
      BY <1>10, <2>1 DEF CommitCompleted, Settle, AtMostOnce, JobLedger, WorkerLocal
    <2>6. NoLossWithoutFault'
      BY <1>10, <2>1 DEF CommitCompleted, Settle, NoLossWithoutFault, JobLedger, WorkerLocal, InCustody
    <2> QED BY <2>2, <2>3, <2>4, <2>5, <2>6
  <1>11. CASE CommitBackendError(w)
    <2>1. QueueDistinct' /\ \A k \in Jobs : Queued(k)' <=> Queued(k)
      BY <1>11, QueueSame DEF CommitBackendError, SingleCustody
    <2>2. WorkerLocal'
      BY <1>11, <2>1 DEF CommitBackendError, Settle, WorkerLocal
    <2>3. SingleCustody'
      BY <1>11, <2>1 DEF CommitBackendError, Settle, SingleCustody, WorkerLocal, JobLedger, InCustody
    <2>4. JobLedger'
      BY <1>11, <2>1 DEF CommitBackendError, Settle, JobLedger, SingleCustody, WorkerLocal, InCustody
    <2>5. AtMostOnce'
      BY <1>11, <2>1 DEF CommitBackendError, Settle, AtMostOnce, JobLedger, WorkerLocal
    <2>6. NoLossWithoutFault'
      BY <1>11, <2>1 DEF CommitBackendError, Settle, NoLossWithoutFault, JobLedger, WorkerLocal, InCustody
    <2> QED BY <2>2, <2>3, <2>4, <2>5, <2>6
  <1>12. CASE ReleaseSlot(w)
    <2>1. QueueDistinct' /\ \A k \in Jobs : Queued(k)' <=> Queued(k)
      BY <1>12, QueueSame DEF ReleaseSlot, SingleCustody
    <2>2. WorkerLocal'
      BY <1>12, <2>1 DEF ReleaseSlot, WorkerLocal
    <2>3. SingleCustody'
      BY <1>12, <2>1 DEF ReleaseSlot, SingleCustody, WorkerLocal, JobLedger, InCustody
    <2>4. JobLedger'
      BY <1>12, <2>1 DEF ReleaseSlot, JobLedger, SingleCustody, WorkerLocal, InCustody
    <2>5. AtMostOnce'
      BY <1>12, <2>1 DEF ReleaseSlot, AtMostOnce, JobLedger, WorkerLocal
    <2>6. NoLossWithoutFault'
      BY <1>12, <2>1 DEF ReleaseSlot, NoLossWithoutFault, JobLedger, WorkerLocal, InCustody
    <2> QED BY <2>2, <2>3, <2>4, <2>5, <2>6
  <1>13. CASE WorkerStarts(w)
    <2>1. QueueDistinct' /\ \A k \in Jobs : Queued(k)' <=> Queued(k)
      BY <1>13, QueueSame DEF WorkerStarts, SingleCustody
    <2>2. WorkerLocal'
      BY <1>13, <2>1 DEF WorkerStarts, WorkerLocal
    <2>3. SingleCustody'
      BY <1>13, <2>1 DEF WorkerStarts, SingleCustody, WorkerLocal, JobLedger, InCustody
    <2>4. JobLedger'
      BY <1>13, <2>1 DEF WorkerStarts, JobLedger, SingleCustody, WorkerLocal, InCustody
    <2>5. AtMostOnce'
      BY <1>13, <2>1 DEF WorkerStarts, AtMostOnce, JobLedger, WorkerLocal
    <2>6. NoLossWithoutFault'
      BY <1>13, <2>1 DEF WorkerStarts, NoLossWithoutFault, JobLedger, WorkerLocal, InCustody
    <2> QED BY <2>2, <2>3, <2>4, <2>5, <2>6
  <1>14. CASE RaiseOther(w)
    <2>0. PICK j \in Jobs : j = wjob[w]
      BY <1>14 DEF RaiseOther, WorkerLocal
    <2>1. QueueDistinct' /\ \A k \in Jobs : Queued(k)' <=> Queued(k)
      BY <1>14, QueueSame DEF RaiseOther, SingleCustody
    <2>2. /\ UNCHANGED <<status, queue, unsent, cancels, runs, charged, outcome, faults>>
          /\ broken' = broken \cup {j}
          /\ \A v \in Workers \ {w} : pc'[v] = pc[v] /\ wjob'[v] = wjob[v]
                                       /\ wbackend'[v] = wbackend[v]
      BY <1>14, <2>0 DEF RaiseOther
    <2>3. ~Carries(w)'
      BY <1>14 DEF RaiseOther
    <2>4. \/ ~Holding(w)'
          \/ Holding(w) /\ wbackend'[w] = wbackend[w]
      BY <1>14 DEF RaiseOther
    <2> HIDE DEF Carries, Holding
    <2>5. \A v \in Workers \ {w} : (Carries(v)' <=> Carries(v)) /\ (Holding(v)' <=> Holding(v))
      BY <2>2 DEF Carries, Holding
    <2>6. WorkerLocal'
      BY <2>2, <2>3, <2>4, <2>5 DEF WorkerLocal
    <2>7. SingleCustody'
      BY <2>1, <2>2, <2>3, <2>5 DEF SingleCustody, WorkerLocal
    <2>8. \A k \in Jobs : InCustody(k)' => InCustody(k)
      BY <2>1, <2>2, <2>3, <2>5 DEF InCustody
    <2>9. JobLedger'
      <3>1. ASSUME NEW k \in Jobs, NEW v \in Workers, Carries(v)', wjob'[v] = k
            PROVE  v # w /\ Carries(v) /\ pc'[v] = pc[v] /\ wjob[v] = k
        BY <2>2, <2>3, <2>5, <3>1
      <3>2. ASSUME NEW k \in Jobs
            PROVE  /\ status'[k] = status[k] /\ runs'[k] = runs[k] /\ outcome'[k] = outcome[k]
                   /\ cancels'[k] = cancels[k] /\ (k \in unsent' <=> k \in unsent)
        BY <2>2
      <3> QED BY <2>1, <2>8, <3>1, <3>2 DEF JobLedger
    <2>10. AtMostOnce'
      BY <2>2 DEF AtMostOnce
    <2>11. \A k \in Jobs \ {j} : InCustody(k) => InCustody(k)'
      BY <2>0, <2>1, <2>2, <2>5 DEF InCustody
    <2>12. NoLossWithoutFault'
      BY <2>2, <2>11 DEF NoLossWithoutFault
    <2> QED BY <2>6, <2>7, <2>9, <2>10, <2>12
  <1>15. CASE WorkerDies(w)
    <2>1. QueueDistinct' /\ \A k \in Jobs : Queued(k)' <=> Queued(k)
      BY <1>15, QueueSame DEF WorkerDies, SingleCustody
    <2>2. WorkerLocal'
      BY <1>15, <2>1 DEF WorkerDies, WorkerLocal
    <2>3. SingleCustody'
      BY <1>15, <2>1 DEF WorkerDies, SingleCustody, WorkerLocal, JobLedger, InCustody
    <2>4. JobLedger'
      BY <1>15, <2>1 DEF WorkerDies, JobLedger, SingleCustody, WorkerLocal, InCustody
    <2>5. AtMostOnce'
      BY <1>15, <2>1 DEF WorkerDies, AtMostOnce, JobLedger, WorkerLocal
    <2>6. NoLossWithoutFault'
      BY <1>15, <2>1 DEF WorkerDies, NoLossWithoutFault, JobLedger, WorkerLocal, InCustody
    <2> QED BY <2>2, <2>3, <2>4, <2>5, <2>6
  <1> QED
    BY <1>1, <1>2, <1>3, <1>4, <1>5, <1>6, <1>7, <1>8, <1>9, <1>10, <1>11, <1>12, <1>13, <1>14, <1>15 DEF WorkerStep

-------------------------------------------------------------------------------
(***************************************************************************)
(* Slot accounting.                                                        *)
(***************************************************************************)

\* The holders of a backend are finitely many.
LEMMA HoldersFinite ==
    ASSUME NEW b
    PROVE  IsFiniteSet(Holders(b)) /\ Cardinality(Holders(b)) \in Nat
  <1>1. Holders(b) \subseteq Workers
    BY DEF Holders
  <1>2. IsFiniteSet(Holders(b))
    BY <1>1, FS_Subset, JobsAssumption
  <1> QED BY <1>2, FS_CardinalityType

\* So are those who occupy its slots.
LEMMA OccupiedNat ==
    ASSUME TypeOK, NEW b \in Backends
    PROVE  Occupied(b) \in Nat
  BY HoldersFinite DEF Occupied, TypeOK

\* Who joins a backend is one, and finds it active and below its limit.
OneJoins ==
    \A b \in Backends :
        Occupied(b)' > Occupied(b) => CanAcquire(b) /\ Occupied(b)' = Occupied(b) + 1

\* A step that moves no worker into or out of a holding program point leaves
\* the accounts as they are.
LEMMA SameHolders ==
    ASSUME TypeOK, SlotAccounting, UNCHANGED <<currentRunning, leaked, sync>>,
           \A b \in Backends : Holders(b)' = Holders(b)
    PROVE  SlotAccounting' /\ OneJoins
  <1>1. \A b \in Backends : Occupied(b)' = Occupied(b) /\ Occupied(b) \in Nat
    BY OccupiedNat DEF Occupied
  <1> QED BY <1>1 DEF SlotAccounting, OneJoins

\* The handlers of jobs, Redis and the administrators neither take nor return
\* a slot; a restart of the API process leaks those its requests hold.
LEMMA EnvironmentKeepsSlots ==
    ASSUME TypeOK, SlotAccounting,
           \/ \E j \in Jobs : CreateJob(j) \/ EnqueueJob(j) \/ CancelRead(j) \/ CancelCommit(j)
           \/ ApiRestart \/ RedisRestart \/ Admin
    PROVE  SlotAccounting' /\ OneJoins
  <1>1. UNCHANGED <<currentRunning, pc, wbackend>>
    BY DEF CreateJob, EnqueueJob, CancelRead, CancelCommit, ApiRestart, RedisRestart,
       Admin, SetClientAccess, DeleteModel, AdminBackends, PatchBackend, RunBackendAction,
       EnsureDefaultBackends, slotVars, jobVars, workerVars, historyVars
  <1>2. \A b \in Backends : Holders(b)' = Holders(b)
    BY <1>1 DEF Holders, Holding
  <1>3. CASE ApiRestart
    <2>1. ASSUME NEW b \in Backends
          PROVE  /\ currentRunning'[b] = Occupied(b)' + leaked'[b]
                 /\ ~(Occupied(b)' > Occupied(b))
      <3>1. Cardinality(Holders(b)) \in Nat /\ sync[b] \in Nat /\ leaked[b] \in Nat
        BY HoldersFinite DEF TypeOK
      <3>2. leaked'[b] = leaked[b] + sync[b] /\ sync'[b] = 0
        BY <1>3 DEF ApiRestart
      <3>3. Occupied(b) = Cardinality(Holders(b)) + sync[b] /\ Occupied(b)' = Cardinality(Holders(b))
        BY <1>2, <3>1, <3>2 DEF Occupied
      <3>4. currentRunning'[b] = Occupied(b) + leaked[b]
        BY <1>1 DEF SlotAccounting
      <3> QED BY <3>1, <3>2, <3>3, <3>4
    <2> QED BY <2>1 DEF SlotAccounting, OneJoins
  <1>4. CASE ~ApiRestart
    <2>1. UNCHANGED <<leaked, sync>>
      BY <1>4 DEF CreateJob, EnqueueJob, CancelRead, CancelCommit, RedisRestart,
         Admin, SetClientAccess, DeleteModel, AdminBackends, slotVars, jobVars, workerVars,
         historyVars
    <2> QED BY <1>1, <1>2, <2>1, SameHolders
  <1> QED BY <1>3, <1>4

\* A synchronous request counts itself in and out.
LEMMA SyncSlots ==
    ASSUME TypeOK, SlotAccounting, NEW b \in Backends, SyncAcquires(b) \/ SyncReleases(b)
    PROVE  SlotAccounting' /\ OneJoins
  <1>1. UNCHANGED <<leaked, pc, wbackend>>
    BY DEF SyncAcquires, SyncReleases, workerVars, historyVars
  <1>2. \A c \in Backends : Holders(c)' = Holders(c)
    BY <1>1 DEF Holders, Holding
  <1>3. ASSUME NEW c \in Backends
        PROVE  /\ currentRunning'[c] = Occupied(c)' + leaked'[c]
               /\ Occupied(c)' > Occupied(c) => CanAcquire(c) /\ Occupied(c)' = Occupied(c) + 1
    <2>1. /\ Cardinality(Holders(c)) \in Nat /\ sync[c] \in Nat /\ leaked[c] \in Nat
          /\ currentRunning[c] = Cardinality(Holders(c)) + sync[c] + leaked[c]
      BY HoldersFinite DEF TypeOK, SlotAccounting, Occupied
    <2>2. /\ Occupied(c) = Cardinality(Holders(c)) + sync[c]
          /\ Occupied(c)' = Cardinality(Holders(c)) + sync'[c]
          /\ leaked'[c] = leaked[c]
      BY <1>1, <1>2 DEF Occupied
    <2>3. CASE c # b
      <3>1. sync'[c] = sync[c] /\ currentRunning'[c] = currentRunning[c]
        BY <2>3 DEF SyncAcquires, SyncReleases, TryAcquire, Release, TypeOK, SlotTypeOK
      <3> QED BY <2>1, <2>2, <3>1
    <2>4. CASE c = b /\ SyncAcquires(b)
      <3>1. sync'[c] = sync[c] + 1 /\ currentRunning'[c] = currentRunning[c] + 1 /\ CanAcquire(c)
        BY <2>4 DEF SyncAcquires, TryAcquire, TypeOK, SlotTypeOK
      <3> QED BY <2>1, <2>2, <3>1
    <2>5. CASE c = b /\ SyncReleases(b)
      <3>1. /\ sync[c] > 0 /\ sync'[c] = sync[c] - 1
            /\ currentRunning'[c] = IF currentRunning[c] > 0 THEN currentRunning[c] - 1 ELSE 0
        BY <2>5 DEF SyncReleases, Release, TypeOK, SlotTypeOK
      <3> QED BY <2>1, <2>2, <3>1
    <2> QED BY <2>3, <2>4, <2>5
  <1> QED BY <1>3 DEF SlotAccounting, OneJoins

\* try_acquire adds the worker to the holders of b.
LEMMA TakeRouteSlots ==
    ASSUME TypeOK, SlotAccounting, NEW w \in Workers, NEW b \in Backends, TakeRoute(w, b)
    PROVE  SlotAccounting' /\ OneJoins
  <1>1. /\ pc[w] = "routing"
        /\ pc' = [pc EXCEPT ![w] = "acquired"]
        /\ wbackend' = [wbackend EXCEPT ![w] = b]
        /\ currentRunning' = [currentRunning EXCEPT ![b] = @ + 1]
        /\ leaked' = leaked /\ sync' = sync
        /\ CanAcquire(b)
    BY DEF TakeRoute, TryAcquire, Goto, jobVars, historyVars
  <1>2. w \notin Holders(b) /\ Holders(b)' = Holders(b) \cup {w}
    BY <1>1 DEF Holders, Holding, TypeOK
  <1>3. \A c \in Backends \ {b} : Holders(c)' = Holders(c)
    BY <1>1 DEF Holders, Holding, TypeOK
  <1>4. Cardinality(Holders(b)') = Cardinality(Holders(b)) + 1
    BY <1>2, HoldersFinite, FS_AddElement
  <1>5. ASSUME NEW c \in Backends
        PROVE  /\ currentRunning'[c] = Occupied(c)' + leaked'[c]
               /\ Occupied(c)' > Occupied(c) => CanAcquire(c) /\ Occupied(c)' = Occupied(c) + 1
    <2>1. /\ Cardinality(Holders(c)) \in Nat /\ sync[c] \in Nat /\ leaked[c] \in Nat
          /\ currentRunning[c] = Cardinality(Holders(c)) + sync[c] + leaked[c]
      BY HoldersFinite DEF TypeOK, SlotAccounting, Occupied
    <2>2. /\ Occupied(c) = Cardinality(Holders(c)) + sync[c]
          /\ Occupied(c)' = Cardinality(Holders(c)') + sync[c]
          /\ leaked'[c] = leaked[c]
          /\ currentRunning'[c] = IF c = b THEN currentRunning[c] + 1 ELSE currentRunning[c]
      BY <1>1 DEF Occupied, TypeOK, SlotTypeOK
    <2>3. CASE c = b
      BY <1>1, <1>4, <2>1, <2>2, <2>3
    <2>4. CASE c # b
      BY <1>3, <2>1, <2>2, <2>4
    <2> QED BY <2>3, <2>4
  <1> QED BY <1>5 DEF SlotAccounting, OneJoins

\* release takes the worker out of the holders of its backend, and the counter
\* is positive when it does.
LEMMA ReleaseSlots ==
    ASSUME TypeOK, WorkerLocal, SlotAccounting, NEW w \in Workers, ReleaseSlot(w)
    PROVE  SlotAccounting' /\ OneJoins
  <1>0. PICK b \in Backends : b = wbackend[w] /\ Holding(w)
    BY DEF ReleaseSlot, WorkerLocal, Holding
  <1>1. /\ Holding(w)
        /\ wbackend[w] = b
        /\ pc'[w] \in {"idle", "down"}
        /\ \A v \in Workers \ {w} : pc'[v] = pc[v] /\ wbackend'[v] = wbackend[v]
        /\ currentRunning' = [currentRunning EXCEPT ![b] = IF @ > 0 THEN @ - 1 ELSE 0]
        /\ leaked' = leaked /\ sync' = sync
    BY <1>0 DEF ReleaseSlot, Release, Finish, Goto, jobVars, historyVars, TypeOK, WorkerLocal,
       Holding
  <1>2. w \in Holders(b) /\ Holders(b)' = Holders(b) \ {w}
    BY <1>1 DEF Holders, Holding
  <1>3. \A c \in Backends \ {b} : Holders(c)' = Holders(c)
    BY <1>1 DEF Holders, Holding
  <1>4. /\ Cardinality(Holders(b)') = Cardinality(Holders(b)) - 1
        /\ Cardinality(Holders(b)') \in Nat
    <2>1. IsFiniteSet(Holders(b)) /\ Cardinality(Holders(b)) \in Nat
      BY HoldersFinite
    <2>2. /\ IsFiniteSet(Holders(b) \ {w})
          /\ Cardinality(Holders(b) \ {w}) = Cardinality(Holders(b)) - 1
      BY <1>2, <2>1, FS_RemoveElement
    <2>3. Cardinality(Holders(b) \ {w}) \in Nat
      BY <2>2, FS_CardinalityType
    <2> QED BY <1>2, <2>2, <2>3
  <1>5. ASSUME NEW c \in Backends
        PROVE  /\ currentRunning'[c] = Occupied(c)' + leaked'[c]
               /\ ~(Occupied(c)' > Occupied(c))
    <2>1. /\ Cardinality(Holders(c)) \in Nat /\ sync[c] \in Nat /\ leaked[c] \in Nat
          /\ currentRunning[c] = Cardinality(Holders(c)) + sync[c] + leaked[c]
      BY HoldersFinite DEF TypeOK, SlotAccounting, Occupied
    <2>2. /\ Occupied(c) = Cardinality(Holders(c)) + sync[c]
          /\ Occupied(c)' = Cardinality(Holders(c)') + sync[c]
          /\ leaked'[c] = leaked[c]
      BY <1>1 DEF Occupied
    <2>3. CASE c = b
      BY <1>1, <1>4, <2>1, <2>2, <2>3 DEF TypeOK, SlotTypeOK
    <2>4. CASE c # b
      BY <1>1, <1>3, <2>1, <2>2, <2>4 DEF TypeOK, SlotTypeOK
    <2> QED BY <2>3, <2>4
  <1> QED BY <1>5 DEF SlotAccounting, OneJoins

\* A death leaves the counter and books the slot as leaked.
LEMMA DeathSlots ==
    ASSUME TypeOK, WorkerLocal, SlotAccounting, NEW w \in Workers, WorkerDies(w)
    PROVE  SlotAccounting' /\ OneJoins
  <1>1. /\ pc'[w] = "down"
        /\ \A v \in Workers \ {w} : pc'[v] = pc[v] /\ wbackend'[v] = wbackend[v]
        /\ currentRunning' = currentRunning /\ sync' = sync
    BY DEF WorkerDies, Finish, Goto, slotVars, jobVars, TypeOK
  <1>2. CASE ~Holding(w)
    <2>1. \A c \in Backends : Holders(c)' = Holders(c)
      BY <1>1, <1>2 DEF Holders, Holding
    <2>2. leaked' = leaked
      BY <1>2 DEF WorkerDies
    <2> QED BY <1>1, <2>1, <2>2, SameHolders
  <1>3. CASE Holding(w)
    <2>0. PICK b \in Backends : b = wbackend[w]
      BY <1>3 DEF WorkerLocal
    <2>1. wbackend[w] = b /\ leaked' = [leaked EXCEPT ![b] = @ + 1]
      BY <1>3, <2>0 DEF WorkerDies
    <2>2. w \in Holders(b) /\ Holders(b)' = Holders(b) \ {w}
      BY <1>1, <1>3, <2>1 DEF Holders, Holding
    <2>3. \A c \in Backends \ {b} : Holders(c)' = Holders(c)
      BY <1>1, <2>1 DEF Holders, Holding
    <2>4. /\ Cardinality(Holders(b)') = Cardinality(Holders(b)) - 1
          /\ Cardinality(Holders(b)') \in Nat
      <3>1. IsFiniteSet(Holders(b)) /\ Cardinality(Holders(b)) \in Nat
        BY HoldersFinite
      <3>2. /\ IsFiniteSet(Holders(b) \ {w})
            /\ Cardinality(Holders(b) \ {w}) = Cardinality(Holders(b)) - 1
        BY <2>2, <3>1, FS_RemoveElement
      <3>3. Cardinality(Holders(b) \ {w}) \in Nat
        BY <3>2, FS_CardinalityType
      <3> QED BY <2>2, <3>2, <3>3
    <2>5. ASSUME NEW c \in Backends
          PROVE  /\ currentRunning'[c] = Occupied(c)' + leaked'[c]
                 /\ ~(Occupied(c)' > Occupied(c))
      <3>1. Cardinality(Holders(c)) \in Nat /\ sync[c] \in Nat /\ leaked[c] \in Nat
        BY HoldersFinite DEF TypeOK
      <3>2. /\ Occupied(c) = Cardinality(Holders(c)) + sync[c]
            /\ Occupied(c)' = Cardinality(Holders(c)') + sync[c]
            /\ currentRunning'[c] = Occupied(c) + leaked[c]
            /\ leaked'[c] = IF c = b THEN leaked[c] + 1 ELSE leaked[c]
        BY <1>1, <2>1 DEF SlotAccounting, TypeOK, Occupied
      <3>3. CASE c = b
        BY <2>4, <3>1, <3>2, <3>3
      <3>4. CASE c # b
        BY <2>3, <3>1, <3>2, <3>4
      <3> QED BY <3>3, <3>4
    <2> QED BY <2>5 DEF SlotAccounting, OneJoins
  <1> QED BY <1>2, <1>3

\* The other steps of a worker neither enter nor leave a holding point.
LEMMA OtherStepsSlots ==
    ASSUME TypeOK, SlotAccounting, NEW w \in Workers,
           \/ BLPop(w) \/ SkipJob(w) \/ ReadJob(w) \/ CommitFailed(w) \/ CommitHit(w)
           \/ Requeue(w) \/ SetRunning(w) \/ CommitCompleted(w) \/ CommitBackendError(w)
           \/ WorkerStarts(w) \/ RaiseOther(w) \/ \E b \in Backends : PassRoute(w, b)
    PROVE  SlotAccounting' /\ OneJoins
  <1> USE DEF TypeOK, Goto, Finish, slotVars, jobVars, workerVars, historyVars
  <1>1. UNCHANGED <<currentRunning, leaked, sync>>
    BY DEF BLPop, SkipJob, ReadJob, CommitFailed, CommitHit, Requeue, SetRunning,
       CommitCompleted, CommitBackendError, WorkerStarts, EnsureDefaultBackends, RaiseOther,
       PassRoute, TryAcquireRefused
  <1>2. \A v \in Workers \ {w} : pc'[v] = pc[v] /\ wbackend'[v] = wbackend[v]
    BY DEF BLPop, SkipJob, ReadJob, CommitFailed, CommitHit, Requeue, SetRunning,
       CommitCompleted, CommitBackendError, WorkerStarts, RaiseOther, PassRoute
  <1>3. \/ ~Holding(w) /\ ~Holding(w)'
        \/ Holding(w) /\ Holding(w)' /\ wbackend'[w] = wbackend[w]
    BY DEF BLPop, SkipJob, ReadJob, CommitFailed, CommitHit, Requeue, SetRunning,
       CommitCompleted, CommitBackendError, WorkerStarts, RaiseOther, PassRoute, Holding
  <1>4. \A c \in Backends : Holders(c)' = Holders(c)
    BY <1>2, <1>3 DEF Holders, Holding
  <1> QED BY <1>1, <1>4, SameHolders

-------------------------------------------------------------------------------
(***************************************************************************)
(* The theorems.                                                           *)
(***************************************************************************)

\* No job has been accepted.
LEMMA InitIInv == Init => IInv
  <1> SUFFICES ASSUME Init PROVE IInv
    OBVIOUS
  <1> USE DEF Init
  <1>1. SlotTypeOK /\ currentRunning = [b \in Backends |-> 0]
    BY ParallelAssumption, SeedAssumption DEF SlotInit, SlotTypeOK
  <1>2. TypeOK
    BY <1>1 DEF TypeOK, Status, ModelState, PC
  <1>3. \A j \in Jobs : ~InCustody(j)
    BY DEF InCustody, Queued, Carries
  <1>4. WorkerLocal /\ SingleCustody /\ JobLedger /\ AtMostOnce /\ NoLossWithoutFault
    BY <1>3 DEF WorkerLocal, SingleCustody, QueueDistinct, Queued, Carries, Holding, JobLedger,
       AtMostOnce, NoLossWithoutFault
  <1>5. SlotAccounting
    <2>1. \A b \in Backends : Holders(b) = {}
      BY DEF Holders, Holding
    <2>2. \A b \in Backends : Cardinality(Holders(b)) = 0
      BY <2>1, FS_EmptySet
    <2>3. \A b \in Backends : currentRunning[b] = 0 /\ leaked[b] = 0 /\ sync[b] = 0
      BY <1>1
    <2>4. ASSUME NEW b \in Backends
          PROVE  currentRunning[b] = Occupied(b) + leaked[b]
      <3>1. /\ Cardinality(Holders(b)) = 0 /\ currentRunning[b] = 0
            /\ leaked[b] = 0 /\ sync[b] = 0
        BY <2>2, <2>3
      <3> HIDE DEF Init
      <3> QED BY <3>1 DEF Occupied
    <2> QED BY <2>4 DEF SlotAccounting
  <1> QED BY <1>2, <1>4, <1>5 DEF IInv

\* Each step of the program keeps the inductive invariant.
LEMMA NextIInv == IInv /\ [Next]_vars => IInv'
  <1> SUFFICES ASSUME IInv, [Next]_vars PROVE IInv'
    OBVIOUS
  <1>1. TypeOK /\ JobInv /\ WorkerLocal /\ SlotAccounting
    BY DEF IInv, JobInv
  <1>2. CASE \E j \in Jobs : CreateJob(j) \/ EnqueueJob(j) \/ CancelRead(j) \/ CancelCommit(j)
    BY <1>1, <1>2, EnvironmentType, ApiKeepsJobInv, EnvironmentKeepsSlots DEF IInv, JobInv
  <1>3. CASE ApiRestart \/ RedisRestart
    BY <1>1, <1>3, EnvironmentType, ApiKeepsJobInv, EnvironmentKeepsSlots DEF IInv, JobInv
  <1>4. CASE Admin
    BY <1>1, <1>4, EnvironmentType, AdminKeepsJobInv, EnvironmentKeepsSlots DEF IInv, JobInv
  <1>7. CASE \E b \in Backends : SyncAcquires(b) \/ SyncReleases(b)
    BY <1>1, <1>7, EnvironmentType, AdminKeepsJobInv, SyncSlots DEF IInv, JobInv
  <1>5. ASSUME NEW w \in Workers, WorkerStep(w) \/ RaiseOther(w) \/ WorkerDies(w)
        PROVE  IInv'
    <2>1. TypeOK' /\ JobInv'
      BY <1>1, <1>5, WorkerType, WorkerKeepsJobInv
    <2>2. SlotAccounting'
      BY <1>1, <1>5, TakeRouteSlots, ReleaseSlots, DeathSlots, OtherStepsSlots DEF WorkerStep
    <2> QED BY <2>1, <2>2 DEF IInv, JobInv
  <1>6. CASE UNCHANGED vars
    BY <1>1, <1>6 DEF IInv, TypeOK, SlotTypeOK, WorkerLocal, SingleCustody, QueueDistinct, Queued,
       Carries, Holding, Holders, JobLedger, InCustody, AtMostOnce, NoLossWithoutFault,
       SlotAccounting, Occupied, vars, slotVars, jobVars, workerVars, historyVars
  <1> QED BY <1>2, <1>3, <1>4, <1>5, <1>6, <1>7 DEF Next

\* The inductive invariant holds in every reachable state of GenerationJobs.
THEOREM Invariance == Spec => []IInv
  BY InitIInv, NextIInv, PTL DEF Spec

\* Every variable of GenerationJobs keeps its type, current_running included.
THEOREM TypeCorrect == Spec => []TypeOK
  BY Invariance, PTL DEF IInv

\* blpop, rpush and the requeue never let two workers, or a worker and the
\* list, have the same job.
THEOREM Custody == Spec => []SingleCustody
  BY Invariance, PTL DEF IInv

\* No job is started or billed twice by process_generation_job.
THEOREM Once == Spec => []AtMostOnce
  BY Invariance, PTL DEF IInv

\* current_running is the number of live holders, workers and synchronous
\* requests, plus the slots leaked by processes that died.
THEOREM Accounting == Spec => []SlotAccounting
  BY Invariance, PTL DEF IInv

\* Without a death or a Redis restart every unfinished job is on its way, unless
\* process_generation_job raised for that very job.
THEOREM NoLoss == Spec => []NoLossWithoutFault
  BY Invariance, PTL DEF IInv

\* A worker or a request that joins a backend finds it active and stays within
\* max_parallel_requests, counting the leaked slots.
THEOREM WithinLimit == Spec => AcquireWithinLimit
  <1> DEFINE Safe == \A b \in Backends :
                        Occupied(b)' > Occupied(b)
                           => isActive[b] /\ Occupied(b)' + leaked[b] <= Limit(b)
  <1>1. IInv /\ [Next]_vars => [Safe]_vars
    <2> SUFFICES ASSUME IInv, Next PROVE Safe
      OBVIOUS
    <2>0. TypeOK /\ WorkerLocal /\ SlotAccounting
      BY DEF IInv
    <2>1. OneJoins
      <3>1. CASE \E w \in Workers : WorkerStep(w) \/ RaiseOther(w) \/ WorkerDies(w)
        BY <2>0, <3>1, TakeRouteSlots, ReleaseSlots, DeathSlots, OtherStepsSlots DEF WorkerStep
      <3> QED BY <2>0, <3>1, EnvironmentKeepsSlots, SyncSlots DEF Next
    <2>2. ASSUME NEW b \in Backends, Occupied(b)' > Occupied(b)
          PROVE  isActive[b] /\ Occupied(b)' + leaked[b] <= Limit(b)
      <3>1. CanAcquire(b) /\ Occupied(b)' = Occupied(b) + 1
        BY <2>1, <2>2 DEF OneJoins
      <3>2. /\ isActive[b]
            /\ Occupied(b) + leaked[b] < Limit(b)
            /\ leaked[b] \in Nat /\ Limit(b) \in Nat
        BY <2>0, <3>1 DEF CanAcquire, SlotAccounting, TypeOK, SlotTypeOK, Limit
      <3>3. Occupied(b) \in Nat
        BY <2>0, OccupiedNat
      <3> QED BY <3>1, <3>2, <3>3
    <2> QED BY <2>2
  <1> QED
    BY <1>1, Invariance, PTL DEF Spec, AcquireWithinLimit

-------------------------------------------------------------------------------
(***************************************************************************)
(* Refinement: the queue, the workers and the slots implement JobService.  *)
(***************************************************************************)

\* Both start without jobs.
LEMMA RefinesInit == Init => Service!Init
  BY DEF Init, Service!Init

\* The commit of a result is the abstract Settle.
LEMMA RefinesSettle ==
    ASSUME IInv, NEW w \in Workers, NEW result \in {"completed", "failed"},
           Carries(w), Settle(w, result), runs' = runs
    PROVE  Service!Next
  <1>1. PICK j \in Jobs : j = wjob[w]
    BY DEF IInv, WorkerLocal
  <1>2. /\ outcome[j] = "none"
        /\ status[j] \in {"queued", "running", "cancelled"}
        /\ charged[j] = 0
    BY <1>1 DEF IInv, JobLedger, AtMostOnce
  <1>3. charged' = IF result = "completed" THEN [charged EXCEPT ![j] = 1] ELSE charged
    <2>1. charged \in [Jobs -> Nat]
      BY DEF IInv, TypeOK
    <2>2. CASE result = "completed"
      BY <1>1, <1>2, <2>1, <2>2 DEF Settle
    <2>3. CASE result = "failed"
      <3>1. charged' = [charged EXCEPT ![j] = charged[j]]
        BY <1>1, <2>3 DEF Settle
      <3> QED BY <2>1, <2>3, <3>1
    <2> QED BY <2>2, <2>3
  <1>4. Service!Settle(j, result)
    BY <1>1, <1>2, <1>3 DEF Settle, Service!Settle
  <1> QED BY <1>4 DEF Service!Next

\* Every step of the pipeline is a step of the job service or changes nothing it sees.
LEMMA RefinesStep == IInv /\ [Next]_vars => [Service!Next]_(Service!serviceVars)
  <1> SUFFICES ASSUME IInv, [Next]_vars
               PROVE  Service!Next \/ UNCHANGED <<status, runs, outcome, charged>>
    BY DEF Service!serviceVars
  <1> USE DEF slotVars, jobVars, workerVars, historyVars
  <1>1. ASSUME NEW j \in Jobs, CreateJob(j) PROVE Service!Next
    BY <1>1 DEF CreateJob, Service!Next, Service!Accept
  <1>2. ASSUME NEW j \in Jobs, CancelCommit(j) PROVE Service!Next
    <2>1. status[j] # "absent"
      BY <1>2 DEF CancelCommit, IInv, JobLedger
    <2> QED BY <1>2, <2>1 DEF CancelCommit, Service!Next, Service!Cancel
  <1>3. ASSUME NEW j \in Jobs, EnqueueJob(j) \/ CancelRead(j)
        PROVE  UNCHANGED <<status, runs, outcome, charged>>
    BY <1>3 DEF EnqueueJob, CancelRead
  <1>4. CASE ApiRestart \/ RedisRestart \/ Admin
    BY <1>4 DEF ApiRestart, RedisRestart, Admin, SetClientAccess, DeleteModel, AdminBackends
  <1>41. CASE \E b \in Backends : SyncAcquires(b) \/ SyncReleases(b)
    BY <1>41 DEF SyncAcquires, SyncReleases
  <1>5. ASSUME NEW w \in Workers, CommitFailed(w) \/ CommitBackendError(w)
        PROVE  Service!Next
    BY <1>5, RefinesSettle DEF CommitFailed, CommitBackendError, Carries
  <1>6. ASSUME NEW w \in Workers, CommitHit(w) \/ CommitCompleted(w)
        PROVE  Service!Next
    BY <1>6, RefinesSettle DEF CommitHit, CommitCompleted, Carries
  <1>7. ASSUME NEW w \in Workers, SetRunning(w)
        PROVE  Service!Next
    <2>1. PICK j \in Jobs : j = wjob[w]
      BY <1>7 DEF IInv, WorkerLocal, SetRunning, Carries
    <2>2. outcome[j] = "none" /\ status[j] \in {"queued", "cancelled"} /\ runs[j] = 0
      BY <1>7, <2>1 DEF IInv, JobLedger, SetRunning, Carries
    <2>3. runs' = [runs EXCEPT ![j] = 1]
      BY <1>7, <2>1, <2>2 DEF SetRunning
    <2> QED BY <1>7, <2>1, <2>2, <2>3 DEF SetRunning, Service!Next, Service!Start
  <1>8. ASSUME NEW w \in Workers,
               \/ BLPop(w) \/ SkipJob(w) \/ ReadJob(w) \/ Requeue(w) \/ ReleaseSlot(w)
               \/ WorkerStarts(w) \/ RaiseOther(w) \/ WorkerDies(w)
               \/ \E b \in Backends : TakeRoute(w, b) \/ PassRoute(w, b)
        PROVE  UNCHANGED <<status, runs, outcome, charged>>
    <2>1. CASE \E b \in Backends : TakeRoute(w, b) \/ PassRoute(w, b)
      BY <2>1 DEF TakeRoute, PassRoute
    <2> QED
      BY <1>8, <2>1 DEF BLPop, SkipJob, ReadJob, Requeue, ReleaseSlot, WorkerStarts, RaiseOther,
         WorkerDies
  <1>9. CASE UNCHANGED vars
    BY <1>9 DEF vars
  <1> QED
    BY <1>1, <1>2, <1>3, <1>4, <1>41, <1>5, <1>6, <1>7, <1>8, <1>9 DEF Next, WorkerStep

\* The asynchronous job pipeline implements the abstract job service: every
\* job is accepted once, started at most once, settled at most once and billed
\* exactly when it completes, whatever dies and whoever cancels.
THEOREM Refinement == Spec => ImplementsJobService
  BY RefinesInit, RefinesStep, Invariance, PTL DEF Spec, ImplementsJobService, Service!Spec

===============================================================================
