# llmstore control plane: TLA+ models, checks and proofs

llmstore is a self-hosted LLM gateway. A FastAPI *control plane*
(`src/control_plane/app`) authenticates clients, applies plans and limits, sends
requests to inference backends (Ollama or llama.cpp containers, the *data
plane*), records usage and bills it. It keeps its state in PostgreSQL, uses
Redis for a job list and rate-limit counters, and runs as one API process
(uvicorn, asyncio) plus any number of `generation_worker` processes.

This directory specifies the parts of the control plane whose correctness
depends on what several requests, workers, sessions and crashes do to shared
state. Paths below are relative to `src/control_plane/app/`; `PROJECT.json`
gives the source lines behind every definition.

- [Inventory](#inventory)
- [Modules and how they correspond to the code](#modules-and-how-they-correspond-to-the-code)
- [Runs, bounds and fairness](#runs-bounds-and-fairness)
- [Where code and documentation disagree](#where-code-and-documentation-disagree)
- [Proofs](#proofs)
- [Only model-checked, and not modelled](#only-model-checked-and-not-modelled)
- [Plan](#plan)

## Inventory

| Component | State | Operations | Interacts with |
|---|---|---|---|
| Backend slots (`services/backend_slot_manager.py`) | `is_active`, `max_parallel_requests`, `current_running` of each backend row | `try_acquire`, `release`, `acquire` (polling with a timeout), `slot` | sync requests, workers, admin PATCH and start/stop, seeding at start |
| Asynchronous jobs (`services/generation_jobs.py`, `workers/generation_worker.py`) | rows of `generation_jobs`, the Redis list | create, push, cancel; `blpop`, `process_generation_job`, requeue | slots, quotas, cache, model registry, client status |
| Circuit breaker (`services/circuit_breaker.py`) | `failures`, `opened_at` in memory | `before_call`, `record_success`, `record_failure`, `reset` | one instance for all backends and requests of a process |
| Queue (`services/queue_manager.py`) | `pending` in memory | `slot` | between the breaker and the slots |
| Synchronous requests (`api/client.py`, `services/inference_proxy.py`) | a handler with an open transaction | `chat_completions`, `_chat_with_fallback`, `_forward`, streams | all of the above, connection pool, API-key row |
| Quotas and rate limits (`services/quota.py`, `services/rate_limit.py`) | `quota_counters`, `usage_records`, one Redis counter per minute | `ensure_quota`, `record_usage`, `enforce_rate_limit` | requests and workers |
| Billing (`services/billing.py`, `services/billing_scheduler.py`, `api/admin.py`, `api/public.py`) | `billing_invoices`, `clients.billing_status` | generate, refresh, mark paid / overdue / cancelled, payments, PIX webhook, hourly cycle | `billing_status` bars a client from the API and from the workers |
| Model registry and routing (`services/model_policy.py`, `services/model_registry.py`, `api/admin.py`) | models, aliases, routes, the default model | create, patch, enable, disable, set default, delete; `plan_routing_order` | requests, workers |
| Response cache (`services/response_cache.py`) | entries with a TTL and a unique key | lookup, store, clear | chats, portal test chats, workers; system prompt, prompt template |
| API keys and clients (`services/auth.py`, `services/public_onboarding.py`, `services/security_monitor.py`, `api/admin.py`, `api/portal.py`) | `api_keys`, `clients` with `is_blocked`, `deleted_at`, `metadata_json` | sign up, create, rotate, revoke, block, suspend, delete; `require_client`; onboarding event | every request |
| Prices (`services/billing.py`) | none | pure functions on plans and token counts | invoices, request log |
| Security monitor, audit, reports, metrics, prompting, admin lab, scripts | logs and counters nothing decides on | | |

What is hard here:

- **Interleaving.** Nothing reads a job, invoice, model, counter, key, client or
  cache row `FOR UPDATE`; only `try_acquire` and `release` do. Handlers read, await and
  commit what they decided, through ORM copies a later query does not refresh.
- **Crashes.** `current_running` outlives its holder; `blpop` removes an id before
  the row says "running"; the row of a job is committed before its push; Redis
  keeps nothing over a restart.
- **Resources.** A request holds one connection and the lock of its API key row
  while it waits for a slot, and needs a second connection for that.
- **Time.** Breaker recovery, queue timeout, due dates, the grace period, and
  midnight between the check of a quota and the record of the usage.
- **Retries and fallback**, which must not bill twice.

`PROJECT.json` lists these as hazards, each at its line, with the properties
that would catch it going wrong or the reason why none does yet.

What makes each component correct:

- *Slots*: `current_running` is the number of live holders plus the slots whose
  holder died; nobody joins beyond the limit or a stopped backend.
- *Jobs*: an id is in one place; a job is started and billed at most once; while no
  process dies none is lost but one whose own processing raised an exception, and the
  others end where a slot is left for them.
- *Breaker and queue*: open exactly when it has an opening time; `pending` counts
  the requests in the queue on every way out of it; an open breaker lets a bounded
  number of calls through.
- *Requests*: billed once for an answer and never without; all answered.
- *Limits*: no more calls per minute than the plan allows; usage counted exactly
  where a lock serialises calls and never too high; quotas kept as far as they are.
- *Billing*: a client is kept out for a reason its invoices give; paid is final;
  the hourly cycle repairs whatever a race or a crash left behind.
- *Model registry*: one default model, which is active and has a backend as long as
  its primary one runs; an overlap of admin requests that breaks this is repaired by
  the next operation that marks a default, unless that is a start whose seeds find one
  row twice.
- *Keys and clients*: a key is issued once and withdrawn for good; when a revocation
  has committed no call is at work with the key; rotating does not multiply access; a
  deleted client keeps no key the deletion could see; a suspended client is blocked
  and says why; nobody waits for ever for a row.
- *Response cache*: a hit was given to the same question; it is stale for a bounded
  time; as far as the cache goes, an answer is lost only to a concurrent insert or
  clearing of its row. (An insert conflict on a quota counter in `record_usage` loses
  an answer too: `InsertConflicts` of `UsageLimits`.)
- *Prices*: the overage of an invoice charges no token that was not used, and no more
  than the excess of one answer where calls follow one another.

## Modules and how they correspond to the code

```
JobService (abstract)      BackendSlotManager    CircuitBreaker      KeyRing (abstract)
        ^                    ^           ^           ^                  ^
        | implements         | extends   | extends   |                  | implements
   GenerationJobs -----------+        SyncRequests --+             ClientAccess

   UsageLimits <-- UsageCosts       Billing       ModelRegistry       ResponseCache
```

Each of the eight modules at the bottom of these lines, `X`, has an `MCX` that gives TLC
its small instances (`MCUsageLimits` serves `UsageCosts` as well), and an `XProofs` with
the theorems about it. `UsageCostsProofs` builds on `UsageLimitsProofs`; the other proof
modules are independent of each other.

**BackendSlotManager**: the three columns and the operations on them. Acquire and
release lock the row and commit in the same session, so each is one step. Admin
PATCH (an UPDATE of the changed columns only), start/stop/restart and
`ensure_default_backends`, which every process start and every
`GET /admin/backends` runs, are the other writers; none of them touches
`current_running`.

**JobService**: what the asynchronous API promises. A job is accepted once,
started at most once, settled at most once, and billed exactly when it is settled
as completed. A cancellation changes what the client sees, nothing else: that is
all the code guarantees. `cancel_job` answers 409 "job can only be cancelled while
queued" (`services/generation_jobs.py:226`) from an unlocked read, so a job that has
been started, or completed and billed, before its commit ends up "cancelled": `Cancel`
of this module allows it in every status.

**GenerationJobs**: `status` is the database column, `queue` the Redis list,
`unsent` the jobs committed but not yet pushed, `cancels` the cancel requests
between their read and their commit. A worker is a program counter with the job,
the routes and the backend it holds. Actions split a handler exactly where it
awaits between a read and a commit that relies on it. A worker that dies at any
point, an API restart and a Redis restart are faults, counted in `faults` and bounded.
An exception that leaves `process_generation_job` (`RaiseOther`) is none: two equal jobs
on two workers that insert the same row of the cache, or the first counter of a day, are
plain concurrency, and nothing in `_run_once` catches the IntegrityError. It ends the
process, which the container runtime restarts, after the `finally` has released the
slot. Its job, in `broken` from then on, is in no list any more and stays "running",
or "queued" if a cache hit was being recorded, for ever. `sync` counts the slots
that synchronous requests hold beside the workers (`SyncAcquires`, `SyncReleases`; the
whole of their handler is `SyncRequests`).
Administrators block clients, delete the model (soft: `archived`; hard: `deleted`)
and change backends at any time. The cache is the choice between `hit` and
`routing`.

**CircuitBreaker**: the two fields; of `opened_at` only "zero", "recent" and
"elapsed" (recovery time over) are told apart.

**SyncRequests**: one API process. A request goes from `require_client` through
breaker, queue, slot, retries, fallback and `finally` clauses to its commit.
`Connected` is the set of requests with an open transaction; a step that opens a
second session needs `Connection`. Database timeouts are steps that are possible
only while the resource is missing. Workers appear as `held` slots. `late` counts
the calls sent since the breaker opened.

**Billing**: sessions with identity maps. `inv` and `client` are committed rows;
`mem` and `memClient` the copies of a session; `newSt`, `newDue`, `inserts` and
`newClient` the columns and rows its next flush or commit writes; `lock` the rows
it has flushed. Every operation is one `Begin` (its first read, its guards and its
assignments) followed by `Flush`, `Scan`, `Derive` and `Commit`;
`refresh_billing_statuses` is `Scan` and `Derive`. Whether the refresh runs in the
operation's transaction, after its commit, or both, follows each handler.

**UsageLimits**: the calls of one client, each with its transaction and its copies
of the daily and the monthly counter. `ensure_quota` reads or inserts the rows and
checks; `record_usage` adds to the copies and locks the rows until the commit. A
request does both in one transaction and so adds to what it read before the
backend call; a job checks when it is created and is recorded by a worker in
another. `shared` becomes true when two calls overlap that no API-key lock
serialises. What an answer measures (`Usage`) is a count of the words of the
response body, which `max_tokens` does not bound: `Excess` names by how much it
may exceed the estimate the check was made with.

**UsageCosts**: the overage of `build_invoice_preview` as operators over the monthly
counter of `UsageLimits`, in integers: prices are in millionths per thousand tokens, so
that a product is in thousandths of a millionth and `Quantize` rounds it half up. The
tokens a plan includes are its monthly quota, the same number `ensure_quota` compares
with. `estimate_request_cost` is not modelled: nothing decides on what it returns, and
what it returns is always 0 for a call that is let through, since its estimate (prompt
plus `max_tokens`, `api/client.py:301-308`) has just been found to fit the included
tokens. The answer is measured by its words (`api/client.py:398-410`), so the invoice may
charge overage for a month in which every logged `estimated_cost_usd` is 0.

**ModelRegistry**: the rows of models with their routes. Every handler is one step
with its first read and its checks (`Open`: the copies read go to `mem`, the rows
it wants to `want`), then the query for the other defaults (`ClearDefaults`) and the
query for the routes (`SyncRoutes`) where the handler makes them, then `Commit`,
which writes only the columns in which `want` differs from `mem`, unless a unique
key or a vanished row makes it fail. The payloads of creation and PATCH are
constants, one record each with `Unset` for a field that is not given, so that
PATCH is one action. The seeding at every process start and at `/models/reload` runs its
calls of `_ensure_model_entry` one after the other, as the code does:
`EnsureDefaultModel` is the first, for the default model, `EnsureModelEntry` each later
one. A call selects by id or alias from the rows as the session has flushed them so far
(`Saved`, `Matches`), so a later call may find, and unmark, the row the first has just
marked. Which backends run is no state here: `Listed`, `Named`, `SelectedByDefault` and
`Candidates` take it as an argument, and the property quantifies over it.
`overlapped`, `alone` and `forced` are history variables; `forced` records that a PATCH
or a creation has made an inactive model the default, which the code allows and
`docs/OPERATIONS.md:142` rules out. Routes carry only "on" or "off"; their order is the
constant `RouteRank` of the request modules.

**KeyRing**: what the keys promise. A key is unborn, valid or revoked; it is issued
once, replaced by a new one in one step, or withdrawn, alone or with others, for good.

**ClientAccess**: `client` and `key` are committed rows, `op` and `call` what an admin
or signup session and a client call hold in memory between their reads and their
commit. `require_client` is `Present` (the key), `ReadClient` (the client) and `Touch`
(the flush of `last_used_at`, which locks the key's row until `Answer`). An admin
operation is a `Begin…` with its reads and refusals, and the step that writes and
commits. Two locks outlive a step: the key's row of an admitted call, and the client's
row of a deletion, which flushes `deleted_at` when it selects the keys
(`DeleteSelectsKeys`) and then needs the keys' rows (`DeleteCommits`). A portal call
that writes a client (`WantClient`, then `RecordEvent` or the refresh of
`PortalInvoices`) takes the two in the opposite order; `DeadlockDetected` is
PostgreSQL's answer. `is_blocked` is written only if it differs from the copy
(`WriteBlocked`), `metadata_json` as a whole; of the metadata only the suspension
reason is kept. `late`, `forks`, `suspended`, `clobbered`, `reopened` and the `raced`
fields are history: they name the race each property excepts. `DeleteRefused` stands
for the 409 of a client with a paid invoice and `RefuseClient` for every 403, which
depend on billing and on the address.

`ClientAccess` implements `KeyRing`: the state of a key is read off its row (`Ring`).

**ResponseCache**: `rows` is the table, keyed by endpoint and by what the hash covers
of one user message: the system prompt. `template` counts versions of the model's
prompt template, which the proxy applies beside the messages and the hash leaves out.
A request has the copies of prompt and template it was started with; `Lookup`,
`StoreReads`, `CommitInsert`, `CommitReplace` and `CommitHit` are the statements of
`lookup_exact_cache`, `store_exact_cache` and the commit of the handler. The id of a
row distinguishes it from its successor after a clearing, since UPDATEs go by primary
key. "lost" is the 500 after a conflict or a vanished row; `touched` and `late` are
history. Chats, portal test chats and jobs differ in endpoint and prompt: a job is
stored under the endpoint of a chat and sends no system prompt.

Definitions named after a slip (`CanAcquireOffByOne`, `ReleaseForgotten`, …) are
faulty variants of the definition that follows them. No specification uses them;
each shows that a property notices the mistake, as `PROJECT.json` records under
`mutants`.

## Runs, bounds and fairness

| Run | Instance | Checks |
|---|---|---|
| `jobs_safety` | 2 jobs, 2 workers, 1 backend with limit 1 or 2, 1 synchronous request, 1 fault, 1 pending cancel per job, any exceptions | `TypeOK`, `SingleCustody`, `AtMostOnce`, `SlotAccounting`, `NoLossWithoutFault`, `AcquireWithinLimit`, `ImplementsJobService` |
| `jobs_liveness` | 2 jobs, 2 workers, 1 backend with 2 slots, up to 2 synchronous requests, 1 pending cancel per job, any exceptions, no death | `JobsTerminate` |
| `sync_pool` | 3 requests (1 stream; 2 of one key), 1 backend, pool of 2, queue of 1, 1 death | `PendingExact`, `SlotAccounting`, `OpenHasTime`, `EveryRequestAnswered` |
| `sync_routes` | 2 requests, 2 ranked backends with limit 1 or 2, breaker threshold 1 | `TypeOK`, `LateCallsBounded`, `BilledOnce` |
| `sync_streams` | 2 streams, 1 backend with one slot | `GenerationsWithinLimit` is violated |
| `billing_standing` | scheduler and one administrator, 1 client, 2 months, 4 days, 2 operations, 1 overlap, 1 override by hand, 1 death | `StandingJustified`, `PaidIsFinalInOrder`, `StandingConverges` |
| `billing_race` | the same, without override and death | `PaidIsFinal` is violated |
| `usage_limits` | 2 requests of one key, 1 job of another, 2 days, 2 minutes, limits 3 and 4, estimate 2, excess 1 | `TypeOK`, `UsageCounted`, `QuotaEnforcedPerKey`, `RateLimited`, `NeverOvercharged`, `OverageBounded`, `CallsEnd` |
| `usage_quota` | 3 requests of two keys, no excess | `QuotaEnforced` is violated |
| `registry_default` | 2 models, 2 backends, 2 seeds, 2 sessions, 4 operations or starts, a creation under the alias "default" | `OneDefault`, `DefaultServes`, `DefaultDecided` |
| `access_keys` | 1 client, 3 keys, 2 calls, 2 sessions, 4 operations | `TypeOK`, `DeletedKeysRevoked`, `RevocationIsABarrier`, `RotationHandsOver`, `SuspensionStands`, `EveryoneEnds`, `ImplementsKeyRing` |
| `cache_answers` | 2 requests at a time, 3 in all, 2 system prompts, TTL 2, clock to 3, 1 change, 1 clearing | `HitAnswersTheQuestion`, `StaleTemplateBounded`, `LostOnlyByRace` |

Why these bounds are enough to meet the interesting cases. Every race in this code
is between two actors over one row, so two of each kind suffice, plus a third
request where one has to starve two others of connections (`sync_pool`). Two
routes distinguish the first, a fallback and the last (`sync_routes`; the two runs of
jobs have one route each, where the administrator, the other worker and the synchronous
requests already refuse it in every way; their proofs are about any routes). With two
slots, two workers and two synchronous requests every mix of them can fill a backend,
so a requeued job can go round for ever. A breaker threshold of one
or two and one retry reach opening, recovery and late failures. Two billing months
give a client one paid and one open invoice; four days pass the due date and the
grace period of both. Four registry operations are an overlap that leaves two
defaults, with what led up to it, and one operation after it; they also are the shortest
way to a start that finds one row for both seeds: rename and un-default the default
model, delete it, give the other its alias, and start. The third seed of the code, which
differs from the second in its names only, is left to the proofs. Four operations on an
account are its creation and three that can overlap in pairs: two rotations of one key
and a deletion, or two suspensions and an unblocking. One client suffices for the
deadlock of a call and a deletion; cycles through two clients are longer only in that
two calls and two deletions take part. A TTL of two and a clock of three reach the
moment of expiry and the time after it. The price of 700 millionths makes one token
cost a fraction of the unit, so that rounding happens; 40000 is the price of the
`basic` plan. Two days and limits that one call fits and two do not reach
midnight between check and record, and both sides of each comparison. One fault
at a time is allowed in the safety runs; the proofs cover any number. Symmetry is
used in `jobs_safety`, `registry_default` and `cache_answers`, where jobs and workers,
models and sessions, or requests are interchangeable and no liveness is checked. `usage_limits`,
`usage_quota` and `registry_default` switch off the deadlock check: calls end, and
nobody has to administer models.

The runs of `Billing`, `ModelRegistry` and `ResponseCache` do not list `TypeOK`: it is
the theorem `TypeCorrect` of their proof modules. Each `IInv` named under
[Proofs](#proofs) is an invariant that TLC can check on the instances above by extending
the MC module with the proof module.

What the properties mean beyond their names:

- `AcquireWithinLimit` speaks of the step that joins a backend: an administrator
  may lower the limit or stop the backend while calls are under way.
- `LateCallsBounded`: `before_call` is asked before the wait for a slot, so calls do
  reach backends while the breaker is open; only those already queued, each with its
  retries.
- `StandingJustified` lets a client be "past_due" on the day its grace period ends,
  since the status is stored and only refreshed by the next cycle or operation.
- `StandingJustified` and `PaidIsFinalInOrder` speak of behaviours in which no two
  sessions have overlapped (the first also of none that died and no override);
  `billing_race` shows what an overlap does.
- `StandingConverges`: operations, overrides, deaths and days are bounded, so each
  behaviour has a last one, after which the hourly cycle must put `billing_status`
  right for good. It does not say that an invoice lost to `billing_race` is
  repaired: the status follows the invoice as it stands.
- `OneDefault` and `DefaultServes` hold while operations follow one another; two
  that overlap can leave two defaults or none. `DefaultDecided` says how that ends:
  an operation that marks a default and runs alone leaves exactly that one. The
  exception it states is a behaviour of the code: when the row of another seed bears the
  alias of the default seed (`TwoSeeds`), a start marks it, unmarks it in a later call
  (`services/model_registry.py:147`), clears all others and commits no default at all.
  The next start does not find that row under the alias any more and settles it.
  `DefaultServes` asks for a route only while the primary backend runs: a model
  whose primary is stopped is not listed, whatever its other routes. A listed model
  called "default" takes the requests for "default" from it, since a match by name comes
  first (`services/model_policy.py:67-74`).
- `JobsTerminate` assumes that no process dies and Redis is not restarted, that the
  model is not archived, and that in the end one and the same backend of it stays active
  and synchronous requests leave one of its slots. Each is needed, as a behaviour of the
  code: the jobs of an archived model circulate for ever; two backends that alternate may
  each be stopped or full when a job comes to it; and synchronous requests, which poll
  for a slot while a job goes back to the tail of the list, may starve every job. A job
  in `broken` is excepted, since its exception leaves it unfinished for good, but
  not the jobs of others whose worker such an exception restarts.
- `NoLossWithoutFault` excepts the same jobs and no other.
- `NeverOvercharged` holds however calls overlap; `UsageCounted` and
  `QuotaEnforcedPerKey` while `shared` is false.
- The properties of `access_keys` name the races the code leaves open: a key created
  or rotated after the deletion read the keys stays valid (`late`); a call that found
  its key before the revocation and flushed after it runs on (`raced`); a rotation of a
  key that was revoked meanwhile adds a key (`forks`); an onboarding event writes back
  metadata read before a suspension (`clobbered`); a suspension that read the client as
  blocked does not block it again after an unblocking (`reopened`). Everything else
  they exclude.
- `EveryoneEnds` says that all requests end, those PostgreSQL aborts to break a
  deadlock included; without `DeadlockDetected` a deletion and an onboarding event
  would block each other, and every later call with that key, for good.
- `StaleTemplateBounded`: an answer given under a template that has been replaced is
  served for less than a TTL after the replacement, or, when its request was under way
  at that time (`late`), for a TTL after it was stored.
- `OverageBounded`: what is invoiced beyond the plan is only what answers measure beyond
  their estimates, or what overlapping calls slipped past the check; of calls that follow
  one another the excess of one answer, since the next one is not let through.

Fairness:

- `GenerationJobs`: weak fairness of a worker's steps (its loop never stops and the
  container is restarted), and of the push and the cancel commit of a request that
  has begun. Clients, administrators, synchronous requests, exceptions and faults owe
  nothing; a synchronous request is not even assumed to leave its slot.
- `SyncRequests`: weak fairness of each request's handler. Queries have a pool
  timeout, slots are polled for at most `queue_timeout_seconds` (30 s), backend calls
  have an HTTP timeout. Arrivals, the 401/403 refusals, workers and administrators
  are not fair, so `EveryRequestAnswered` does not lean on somebody else's exit.
- `Billing`: weak fairness of every open session and of the hourly scheduler, which
  catches exceptions and loops.
- `UsageLimits`: weak fairness of each call; deadlocks between transactions are
  broken by PostgreSQL (`Deadlock`).
- `ClientAccess`: weak fairness of each session and each call once begun, and of
  PostgreSQL's deadlock detection. Nobody has to begin anything.

## Where code and documentation disagree

Three runs end with a counterexample.

1. `sync_streams`: the slot of a stream is released when the response object is
   returned, before its body is produced; `MAX_CONCURRENT_GENERATIONS`, which the
   README recommends, is read nowhere (`services/inference_proxy.py:221`).
2. `billing_race`: the refresh overwrites "paid" with "overdue" when a payment
   commits between its query and its flush (`services/billing.py:360`).
3. `usage_quota`: "Daily and monthly quotas are enforced" fails for two API keys of
   one client: both pass the same check and one overwrites the usage of the other
   (`services/quota.py:22`).

Two more disagreements are visible in the models without a run of their own.
`JobService` has to allow the cancellation of a job in every status, see above. In
`Billing`, `CreatePayment` and `PixWebhook` take a cancelled invoice to "paid", which
`MarkPaid` refuses with "cancelled invoice cannot be paid" (`api/admin.py:983`, `:1028`,
`api/public.py:109`).

## Proofs

All proofs are checked by TLAPS with its SMT backend, Zenon and LS4, for every
value of the constants that satisfies the named assumptions of the modules. Every
safety property and action property that a passing run checks, and both refinements,
are theorems:

| Module | Theorems (property) | Assumptions |
|---|---|---|
| `GenerationJobsProofs` | `TypeCorrect`, `Custody` (`SingleCustody`), `Once` (`AtMostOnce`), `Accounting` (`SlotAccounting`), `NoLoss` (`NoLossWithoutFault`), `WithinLimit` (`AcquireWithinLimit`), `Refinement` (`ImplementsJobService`) | `ParallelAssumption`, `SeedAssumption`, `JobsAssumption` |
| `SyncRequestsProofs` | `TypeCorrect`, `BreakerInStep` (`OpenHasTime`), `QueueExact` (`PendingExact`), `Accounting` (`SlotAccounting`), `BilledForAnswers` (`BilledOnce`), `LateCalls` (`LateCallsBounded`) | `SyncAssumption`, `ThresholdAssumption`, `ParallelAssumption`, `SeedAssumption` |
| `BillingProofs` | `TypeCorrect`, `Justified` (`StandingJustified`), `PaidStays` (`PaidIsFinalInOrder`) | `BillingAssumption` |
| `UsageLimitsProofs` | `TypeCorrect`, `RateLimitHolds` (`RateLimited`), `NoOvercharge` (`NeverOvercharged`), `Exactness` (`UsageCounted`), `QuotaPerKey` (`QuotaEnforcedPerKey`) | `UsageAssumption` |
| `UsageCostsProofs` | `BoundedOverage` (`OverageBounded`) | `UsageAssumption`, `PricesAssumption` |
| `ModelRegistryProofs` | `TypeCorrect`, `SingleDefault` (`OneDefault`), `DefaultReached` (`DefaultServes`), `Decided` (`DefaultDecided`) | `RegistryAssumption` |
| `ClientAccessProofs` | `TypeCorrect`, `DeletionRevokes` (`DeletedKeysRevoked`), `Barrier` (`RevocationIsABarrier`), `HandsOver` (`RotationHandsOver`), `Suspension` (`SuspensionStands`), `Refinement` (`ImplementsKeyRing`) | `AccessAssumption` |
| `ResponseCacheProofs` | `TypeCorrect`, `HitAnswers` (`HitAnswersTheQuestion`), `StaleBounded` (`StaleTemplateBounded`), `LostByRace` (`LostOnlyByRace`) | `CacheAssumption` |

Each module but `UsageCostsProofs` first proves `Invariance`, `Spec => []IInv`, and derives
the rest from it. The assumptions give constants their types and keep the values that
stand for "none" apart from the others. They ask for more in three places: the seeds of
the registry differ in their ids and in their aliases, as those of
`ensure_default_model` do, and the first is the default; the columns that seeding writes
are legal ones; and the sets that a counter counts (workers, requests, keys) are finite.

**GenerationJobsProofs** proves type correctness, `SingleCustody`, `AtMostOnce`,
`SlotAccounting`, `NoLossWithoutFault`, `AcquireWithinLimit` and the refinement of
`JobService`, for any sets of jobs and backends, any finite set of workers and any
number of faults, exceptions, cancellations and synchronous requests.

`SingleCustody` is the heart of it. A worker's read, decision and commit are not
atomic and nothing locks the row, so "started once" holds only because no second
worker can have the id: it is with the request that will push it, once in the list,
or with one worker. That is not inductive by itself. `IInv` adds `JobLedger` (what
row and history of a job look like at each place: not started while in the list,
started and unsettled while its worker waits for the backend, untouched while
absent) and `WorkerLocal` (a worker past `blpop` has a job, past `try_acquire` a
backend). Requeueing is then safe because the requeued job is in custody of the
worker alone and not started. `SlotAccounting` needs the finiteness of the set of
workers: taking, releasing and dying move one member between holders and `leaked`,
those of the requests move between `sync` and `leaked`, and a release finds a positive
count, so its clamp at zero never acts. `AcquireWithinLimit` follows since only
`TryAcquire` adds to what is `Occupied`. A job leaves custody unfinished only in a death
or in `RaiseOther`, which puts it in `broken`. For the
refinement the variables `status`, `runs`, `outcome` and `charged` map to
themselves; each step of the implementation is a step of `JobService` or a stutter,
given `IInv`.

**UsageLimitsProofs** proves type correctness, `RateLimited`, `NeverOvercharged`,
`UsageCounted` and `QuotaEnforcedPerKey`, for any calls, keys, days, limits and
estimates.

`NeverOvercharged` rests on `CopyBound`: no copy in any transaction is ahead of what
has been consumed, apart from the tokens the call itself has added to it, and rows
stay locked from that addition to the commit (`ChargedLocked`). `UsageCounted` needs
`Alone`: while nothing was shared at most one call is in flight, because the lock on
the API key keeps a second request of the same key out until the first has committed
(`EnterIInv`); then rows and copies both equal the consumption (`RowsExact`,
`CopiesExact`). The quota needs a second invariant, `QInv`, on top: a call past the
check has room for its estimate in its own day, and nothing has been consumed in any
later day behind its back (`Fresh`), so that it has room again in the day in which it
is recorded, up to the excess of its own answer (`Room`). The next call is checked
against that excess, which is why excesses do not add up.

**UsageCostsProofs** is arithmetic over these invariants: `Quantize` and `Overage` are
monotone, so `OverageBounded` follows from `NeverOvercharged` and `QuotaEnforcedPerKey`.

**SyncRequestsProofs** covers any number of requests, routes, retries, queue places and
deaths. `PendingExact` and `SlotAccounting` count program points: each step of a request
is shown to move that request in or out of `Queue` and `Holders(b)`, and every other step
to leave these sets alone (`SystemSets`), so that the counters follow and their clamps at
zero never act. `BilledOnce` is inductive with `Unanswered` (nothing is answered or billed
before the handler commits). `LateCallsBounded` needs a potential: `Budget` is the set of
calls that requests past `before_call` can still send without asking the breaker again,
and `LateBudget` says that, while the breaker is open, the calls sent since and the
budget together stay within the retry loops of a full queue. Opening sets the first to
zero with the queue bounded by `PendingExact`; after that a call moves one unit from the
budget to `late`, and nobody enters the budget before `before_call` has closed the breaker.

**BillingProofs** covers any number of clients, months, sessions and operations. Both
properties speak of operations that follow one another. `AloneSound` says what that
gives a session under READ COMMITTED without row locks: no other session is open, no
column it is to write is the status of a paid invoice, no invoice it is to insert is
there, and a copy in its identity map is the row as its commit will leave it (`View`).
`PaidIsFinalInOrder` is a corollary, since rows change only in `Save`. `ClientSound` adds the
client statuses: a status in memory is the client's or among those to be written, an
operation that writes one commits it before the refresh, and what `Derive` has derived
follows from the copies. So a commit leaves each client `Consistent` (`CommitIInv`), the
days that pass leave a suspended client so (`DayIInv`), and a unique-key conflict or a
death, which could leave it otherwise, is excluded or excepted by the property.

**ModelRegistryProofs** covers any models, backends, payloads and seeds. `MarksOnly` and
`KeepsMarks` are what an operation may want of the rows it has read: to mark one model
and no other, or to mark none that is not marked and disable none that is. Each handler
is shown to want no more (`CreateIInv` to `SeedIInv`; the 409s of PATCH and disable are
needed here). `SeedsSound` follows a start through its seeds: the row of the first stays
marked until a later call finds it, which it does only by an id that row has had all
along (`EntryTakes`), since the first call has given it the alias of the first seed.
`AloneSound` says that a session without company holds rows as they are and, once it has
asked for the other defaults, wants all of them changed. The merge of columns then leaves
the rows it wants (`SavedAlone`), from which `KeeperDecides` gives `DefaultDecided`,
whatever overlapped before, and `CommitIInv` the other two.

**ClientAccessProofs** covers any number of clients, keys, calls and sessions.
`SessionsReady` and `NewKeysApart` say that a key which a session has generated is not in
the table and belongs to that session alone, and that what it has read is there.
`DeletionSees` carries `DeletedKeysRevoked` over the two steps of a deletion: a key of its
client is among those it will revoke or has been committed since. `RevocationIsABarrier`
is inductive, because every revocation waits for `KeyFree` and a call that takes a revoked
key's row says so in `raced`. `RotationHandsOver` counts: a rotation takes one valid key
out of its line as it puts one in, unless it is recorded in `forks`. `SuspensionStands`
needs `SuspensionCopy`, what a suspension under way knows of `is_blocked`. For the
refinement, every commit that touches keys is one step of `KeyRing` (`RingIssue`,
`RingMint`, and those for replacement and withdrawal), and every other step a stutter.

**ResponseCacheProofs** covers any number of requests, prompts and changes, and any time
to live. `Table` says what a row answers, for whom its key stands, and, unless it was
stored late, that it expires at most TTL after its template was replaced. A request is
`Sound`: it stores the answer to its own question (`Copies`), and the row it has found, or
missed, is there, or missing, as long as it is not `touched` (`AsRead`). A found row that
is older than the template of the request was in time for it (`InTime`).

## Only model-checked, and not modelled

Liveness (`JobsTerminate`, `EveryRequestAnswered`, `StandingConverges`, `CallsEnd`,
`EveryoneEnds`) is beyond the prover, which has no rules for fairness and ENABLED, and
stays with TLC. So do the three counterexamples of the runs above.

Not modelled:

- `estimate_request_cost`, see `UsageCosts` above; the rows of `customer_payments` and
  `cancel_payment`, which no status depends on; plans, pricing rules and the monthly price. Seeding and `create_client` set the
  default plans back to the values in the code (`services/billing.py:123`), whatever an
  administrator had changed. A soft-deleted client goes on receiving invoices
  (`services/billing.py:214`); invoices and deletion are in different modules.
- The other columns `PATCH /admin/clients/{id}` sets, and the scopes of a key, which
  nothing reads.
- Of the registry: model files, prompts and metadata, and the lists of allowed models
  of plans and clients.
- `usage_records`, which are written side by side with `quota_counters`, and the IP
  rate limit, which repeats the client limit.
- `POST /v1/completions`: it uses an undefined name (`api/client.py:540`) and fails
  with a 500 before it changes any state, so that nothing is cached or billed for it.
- The counters and events of the security monitor, audit and request log, metrics and
  reports: nothing decides on what they write.
- Prompt and response transformation: pure text.
- Docker actions, the admin lab, scripts and migrations: I/O. Their effects on
  backends, and the unique keys of the schema, are in the actions that meet them.

External behaviour is taken from how the code uses it: PostgreSQL READ COMMITTED with
row locks, unique keys and deadlock detection; SQLAlchemy sessions that flush changed
columns, do not refresh loaded rows and do not expire them on commit, and a pool with
a timeout; a Redis list with atomic operations and no persistence; backends that
answer, reject, fail, time out or break off.

## Plan

Done, most important first: slots and jobs with their abstract specification;
requests with breaker, queue and pool; billing; limits and prices; the model registry;
accounts and keys with their abstract specification; the cache; the proofs of them all.

Every safety and action property has its theorem. What would say more:

1. Weaker conditions: `StandingJustified` after deaths in operations whose refresh is
   `joint`, where the rollback leaves both or neither; `PaidIsFinalInOrder` for overlaps of
   sessions that do not touch the same invoice.
2. `UsageLimits` with several clients, each exact by itself.
3. For `SyncRequests`, that a released slot is one that its request had taken.

Worth modelling after that: an invoice ledger that `Billing` implements while sessions
do not overlap, payments, and plans with their seeding.
