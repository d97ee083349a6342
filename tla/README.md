# GoNext: a TLA+ model of its background and plugin machinery

GoNext is a content management system in Go with a Next.js front end: an API
server (`apps/api`), a worker (`apps/worker`), an admin and a public web
application, a command line tool and, in `packages/go`, the packages they are
built from. Most of it is CRUD over Postgres and rendering. The parts that are
hard to get right, and hard to test, are the ones in which several processes
share rows of Postgres or keys of Redis, fail halfway, or time out. This
directory models eight of them: the transactional outbox, the idempotency keys,
the cron scheduler, the plugin lifecycle, the pool of plugin instances, webhook
delivery, the session store and the revision history of posts. TLC checks all
eight on small instances; TLAPS proves all their safety properties for every
instance.

Paths below are relative to the root of the repository.

## 1. Inventory

### Parts with concurrent control

| part | state it keeps | operations | what is hard |
|---|---|---|---|
| Transactional outbox, `packages/go/jobs/outbox` | table `outbox` (`claimed_at`, `claimed_by`, `attempts`), the batch in each poller's memory, the tasks in Redis | `Store.Write`, `Poller.RunOnce` (claim, enqueue, delete, release), `Recoverer.SweepOnce` | pollers that overlap, die, or outlive their lease; calls that fail after their effect |
| Idempotency keys, `packages/go/jobs/idempotency` | a Redis entry and a Postgres row per key | `Middleware.Wrap`, `Claim` and `Finish` of three stores, `Prune` | two tiers written one after the other; expiry under a running handler; late `Finish` |
| Cron scheduler, `packages/go/jobs/cron` | the lease key in Redis, each replica's registry and next-fire times | `Lease.Acquire/Renew/Release`, `Scheduler.Run`, `runAsLeader`, `fire`, `Register` | firing and renewing share a goroutine; deposed leaders; crash in the middle of a tick |
| Plugin lifecycle, `packages/go/plugins/lifecycle` | the plugin's row, the modules in the runtime, the breaker | `Install`, `Activate`, `Deactivate`, `Uninstall`, `Reset`, `Trip`, `ResetBreaker` | no lock: a conditional UPDATE orders the callers, the runtime and the breaker are not covered by it |
| Plugin versioned updates, same package (`update.go`, `versions_postgres.go`) | version rows, in-flight counters per version (`drainTracker`) | `Update`, `Rollback`, `RunRetentionCleanup` | an update overlaps lifecycle calls; drain timeouts |
| Plugin instance pool, `packages/go/plugins/runtime/pool` | idle stack, `live`, `outstanding`, `closed`, use counts | `Start`, `Checkout`, `Return`, `MarkUnusable`, reaper, `Close` | modules are created and closed outside the lock; sleepers on a condition variable; Close against Return |
| Plugin runtime, `packages/go/plugins/runtime` | compiled modules, host function quotas | load, unload, host calls | unload under a running call |
| Webhook delivery, `packages/go/webhooks/delivery` | the task's attempt, the claim of an event, audit rows, degraded flags | `Deliver`, `exhaust`, `trigger` | retry of what was delivered; a claim that outlives its attempt; lost answers |
| Session store, `packages/go/session` | session keys and the user's index in Redis, each with a time to live | `Create`, `Get`, `Regenerate`, `Delete`, `DeleteAllForUser`, `List` | a read and a write with other requests in between; the index goes stale |
| Post revisions, `packages/go/revisions` | snapshots, deltas and their parents in Postgres | `Save`, `Materialize`, `Prune`, restore | decisions over several queries without a transaction; pruning of shared chains |
| Rate limiting and lockout, `packages/go/ratelimit` | token buckets, failure counters, lock deadlines | `Allow`, `RecordFailure`, `RecordSuccess`, `IsLocked` | counter and lock are written separately |
| Backpressure, `packages/go/jobs/backpressure` | last seen queue depths | `Monitor.Run`, gate | stale depths |
| Shutdown, `packages/go/shutdown` | the list of closers | `Register`, `Wait`, `Drain` | registration during drain, deadline during a close |

The rest has little control of its own: hooks bus, content packages, audit,
e-mail, importer, HTTP plumbing, API handlers, CLI, front ends. Section 8 says
for each why it is left out; `PROJECT.json` lists every part with its status.

### How the parts meet

A handler of the API writes an outbox row in its own transaction. A poller in a
worker moves it to Redis, where an asynq server picks it up: *at least once*, so
task handlers must be idempotent. Requests that carry an `Idempotency-Key` pass
the idempotency middleware first. The cron scheduler runs in every worker,
elects one leader through Redis and enqueues due tasks straight into Redis. The
plugin `Manager` is called by admin handlers and by the dispatcher of hooks,
which reports failures of a plugin to its breaker. The components share no
memory; they meet in Postgres and Redis only, so each is modelled with its own
tables and keys and with an environment that may fail, crash and delay. The
exception is the instance pool, whose goroutines share one mutex and a few
atomics in one process.

### What makes each modelled part correct

* **Outbox.** A committed row is delivered at least once and then removed; a row
  that was not committed is never delivered; duplicates come from recoveries
  only; nothing stays behind for ever.
* **Idempotency.** Once a claim or result is durable nobody else runs the
  handler while it lasts; a stored response is final; a replay answers the same
  request.
* **Cron.** A replica within its grant owns the lease; nobody takes or prolongs
  another's lease; no boundary fires twice unless a leader outlived its lease;
  there is always a leader again.
* **Plugins.** The row makes only the Manager's moves; one teardown at a time owns it;
  `LastError` and `Errored` go together; an uninstalled plugin leaves no module.
* **Instance pool.** An instance is in one place and open while it can be called;
  `live` counts the slots and stays within the cap; nobody sleeps while there is
  headroom for good; Close ends.
* **Webhooks.** With a claim store an event is posted at most once, without one
  success means acceptance; an event that failed on the wire goes through the whole
  dead-letter pipeline; every task is settled.
* **Sessions.** A session that is gone stays gone; a login has one usable token;
  the index knows a live session until its last second.
* **Revisions.** Every stored delta can be materialized; pruning spares what the
  policy protects, however old the list it works from.

## 2. Modules

| module | models | uses |
|---|---|---|
| `AtLeastOnce` | the outbox contract, without pollers, claims or time | |
| `Outbox` | `jobs/outbox/{store,poller,recover}.go` | `AtLeastOnce` (refinement) |
| `Idempotency` | `jobs/idempotency/{store,middleware}.go` | |
| `CronScheduler` | `jobs/cron/{lease,scheduler,cron}.go` | |
| `PluginLifecycle` | `plugins/lifecycle/{manager,breaker,postgres,state,storage}.go` | |
| `InstancePool` | `plugins/runtime/pool/{pool,reaper,instance}.go` | |
| `WebhookDelivery` | `webhooks/delivery/{task,retry,deadletter,client}.go` | |
| `SessionStore` | `session/manager.go`, `apps/api/internal/auth/sessions/sessions.go` | |
| `Revisions` | `revisions/{postgres,store,revision,pruner}.go`, restore of `apps/api/internal/admin/posts/handler.go`, migration 000012 | |
| `MCOutbox`, `MCIdempotency`, `MCCronScheduler`, `MCPluginLifecycle`, `MCInstancePool`, `MCWebhookDelivery`, `MCSessionStore`, `MCRevisions` | instances for TLC (symmetry sets, tables) | |
| `OutboxProofs`, `IdempotencyProofs`, `CronProofs`, `PluginProofs`, `PoolProofs`, `WebhookProofs`, `SessionProofs`, `RevisionsProofs` | theorems and proofs | `TLAPS` |

`PROJECT.json` ("map") gives the source lines of every definition. Definitions
whose name says what is wrong with them (`EligibleIgnoringLocks`, `CasBlind`,
`DropAnyones`, ...) are not part of the specifications: each is the form a
plausible bug would give the definition below it, and each property is known to
fail when the definition is replaced by such a form ("mutants" in
`PROJECT.json`).

### Conventions shared by the modules

* *Grain.* One action per round trip to Postgres, Redis or the runtime, because
  that is where other processes get in between. A transaction is two actions
  (query, commit) where its locks matter, a Lua script, a MULTI or a single
  statement one. In `InstancePool` an action is one hold of the mutex, or what
  lies between two accesses to the atomics.
* *Doubtful answers.* A call that returns an error may or may not have had its
  effect. Both outcomes are modelled.
* *Mishap budgets.* Errors, crashes, cancelled contexts and overlong work are
  counted, and `MaxMishaps` (`MaxRedisFaults`, `MaxHardFaults`, `MaxFaults`)
  bounds how many a behaviour contains. The proofs hold for every bound. In
  `SessionStore` and `Revisions` failures end a call and are not counted.
* *Time.* One clock for all processes. `Outbox` and the lease of `CronScheduler`
  use ages and countdowns, which need no bound; `Idempotency` has a clock that
  stops at `MaxTime`; the calendar of `CronScheduler` ends at `MaxTime` and all
  later boundaries are one.
* *Data.* Payloads, queue names, response bodies, manifests and error texts are
  opaque. A request hash is a model value, a response is named by the request
  that produced it, an outbox row by its rank in `ORDER BY created_at`.

### Outbox

| state | code |
|---|---|
| `txn[r]` | the row: not written, in an open handler transaction, committed, rolled back, deleted |
| `claimed`, `claimedBy`, `age`, `attempts` | columns `claimed_at IS NOT NULL`, `claimed_by`, `now - claimed_at`, `attempts` |
| `phase`, `batch`, `cur` | where a poller is in `Run`/`RunOnce`, the rows it has in memory, the one it works on |
| `taken` | age of the `now` an open claim transaction read before its SELECT |
| `enq`, `sweeps` | history: deliveries, recoveries |

`Write`/`EndTx` are the handler's transaction; `ClaimQuery`, `ClaimCommit` and
`ClaimFail` are `Poller.claim` (`FOR UPDATE SKIP LOCKED`: rows of another open
claim are skipped; DELETE and the release wait for it); `EnqueueOK`,
`EnqueueError`, `Delete`, `DeleteError`, `Release`, `ReleaseError` and
`FinishBatch` are the loop of `RunOnce`; `Stop` is a cancelled context, `Crash`
and `Start` the process; `Sweep` is `SweepOnce`. The order in which a batch is
worked off is left open, the model allows every one.

### Idempotency

`redis` and `pg` are the two entries of one key (keys do not interact), `phase`
is where a request is in `Middleware.Wrap`. `RedisClaim` is the Lua script,
`PgInsert` and `PgSelect` the two statements of `PostgresStore.Claim`, with the
`now` that was read before them and may be old; `Handle`, `PgFinish`,
`RedisFinish` follow the handler. `Prune`, `Tick` (Redis expires entries,
Postgres does not) and `RedisFlush` are the environment. History: `since` (when
the claim reached Redis), `honour` (until when Postgres promised it), `late`
(some request was in flight for TTL or longer), `rowless` (Postgres admitted a
request over an expired row, without giving it one of its own).

### CronScheduler

`owner`/`ttl` are the lease key; `grant[r]` is the lifetime `r` was last granted
and may count on; `registered`, `next`, `todo`, `tickNow` are the registry and
the local variables of `runAsLeader`. A tick seeds schedules registered since
the acquire, collects the due ones and fires them one by one, each fire a step;
renewals happen between ticks only. `Schedule.Next` comes from an external
parser and is modelled as "first multiple of the period strictly after";
`@every` schedules, which have no fixed boundaries, are left out. A restarted
replica has an empty registry until it is registered again.

### PluginLifecycle

`state`, `version`, `lastError` are the row (a reinstall is a new `version`),
`loaded` the modules the runtime holds for the slug, `trips` and `open` the
breaker, `call[c]` where goroutine `c` is in the Manager and the snapshot of the
row it works from. `Cas` is the conditional UPDATE of `UpdateState`: it compares
the state and nothing else. `Load` and `Unload` are the external runtime:
`Unload` drops whatever the slug has. `Trip` lets any number of earlier trips age
out of the window. `Crash` loses everything but the row.

### InstancePool

`idle`, `live`, `outstanding`, `closed`, `done` are the fields of `Pool` (`done`:
`doneCh` is closed), `open`, `uses`, `trapped` those of its instances, `pc[c]`
where caller `c` is in `Checkout` .. `Return`. The wait loop of `Checkout` is
`TryGivesUp`, `TryPops`, `TryReserves`, `TrySleeps`, with `CreateSucceeds` and
`CreateFails` outside the lock and `CtxExpires` for the watcher of the context.
`returnLease` is `Return` (the counter), `ReturnDecides` (reads `closed`, closes
a module), `ReturnRecycles` or `ReturnRestacks` (the lock), `ReturnEnds`
(`checkDrainComplete`). `reapOnce` is `ReapEvicts`, `ReapCloses` and the refill;
which idle instances are old is a free choice, and `Without` is what the loop
leaves of the stack. `MarkUnusable` has no `returned` check, so it may come from a
lease that is long over and poison an instance that lies on the stack or is with
another caller; `belated` is history: the instances poisoned after their `Return`
had decided to restack them. `owed` is history: what a failed `Start` took off `live`
without having counted it. `WarmFirst` says whether `Start`
ends before the host serves and before the reaper's first tick, which is what
pre-warming is for; without it `Start` races with both (section 7).

### WebhookDelivery

`stage[t]` is where the `Deliver` of task `t` is, `attempt[t]` its
`Payload.Attempt`, `claim` the keys in the `IdempotencyStore`, `requests` and
`accepted` what reached the subscriber, `audit` and `degrade` the two writes of
the dead-letter pipeline. The queue is external: it runs a task, again after a
retry answer with the next attempt, again as it was when the worker died.
`wired` is chosen once: a Deliverer with or without a claim store. Claims live
seven days, longer than the schedule, and do not expire here. `BeginInvalid` and
`BuildFails` answer the same `StatusDeadletter` as the pipeline, without its two
writes; `refused` is history: the tasks they ended.

### SessionStore

`ttl[t]` and `expiry[t]` are the session key of token `t` and the absolute expiry
in its blob, `index` and `indexTTL` the `user_sessions` set, `login[t]` the token
a session began with. Times to live count down with `Tick`. A session key lives in
milliseconds (`PX`), the set in whole seconds (`EXPIRE`): a second is `Second` ticks,
and `WholeSeconds` is the truncation of Regenerate and go-redis, one second at
least. `Extend` is `EXPIRE NX` and `GT` with such a value. `call[c]` holds what a
client read and has yet to act on: `Get` then `GetRefresh` (script) then
`GetExtend` (pipeline); `Regenerate` then `RegenerateRotate`; `Delete` then
`DeleteRuns`; `DeleteAllForUser` then `DeleteAllRuns`; `List`, `ListFetches`,
`ListPrunes`, from which the handlers go on to revoke one by one
(`DeleteNext`). A read that fails inside `Delete` leaves the index entry
behind. `stray` is history: the sessions that a mishap took out of the set's care, see
`Indexed`.

### Revisions

`rev[r]` is the row with `created_at` `r`, and a delta's `from` its parent;
`save[w]` is where a writer is between the probes of `Save`, the walk of
`Materialize` and the INSERT, `sweep[s]` what a `Prune` has yet to delete. The
foreign key on `delta_from` is part of `SaveInsert` and `PruneDelete`.
`classifyForPrune` is the classifier: caps by kind and author (`OverCap`), age
of autosaves (`TooOld`), exemptions, reachability (`Reach`: the least set with the
given rows and the parents of its members, which is what the code's walk up the
chains collects).

## 3. Runs

Passing runs:

| run | instance | checks |
|---|---|---|
| `outbox` | 2 pollers, 2 rows, batch 2, lease 1, backoff 1 to 2, 2 mishaps, fair | `TypeOK`, `NoLoss`, `NoPhantom`, `ClaimDiscipline`, `DeliveryBudget`, `ClaimHandover`, `ImplementsContract`, `Drained` |
| `idempotency_safety` | 3 requests, 2 hashes, TTL 2, clock to 4, 1 Redis fault, 1 Postgres fault or crash | `TypeOK`, `RedisClaimExclusive`, `ReplayFidelity`, `PlantedClaimHonoured`, `StoredResultFinal` |
| `cron` | 2 replicas, 2 schedules with shared boundaries, TTL 2, calendar of 3, 2 mishaps, fair | `TypeOK`, `GrantIsOwnership`, `NoDoubleFire`, `LeaseNotStolen`, `OnlyOwnerProlongs`, `LeaderAgain` |
| `plugin_safety` | 3 callers, 2 installs, breaker of 2 trips, 2 mishaps | `TypeOK`, `TeardownOwnsRow`, `ErrorRecorded`, `NothingOutlivesUninstall`, `RowMoves` |
| `pool` | 3 callers, 1 to 2 instances of 2 uses, 1 failing creation, fair | `TypeOK`, `OnePlace`, `NoReuse`, `CapRespected`, `NoStranding`, `CloseEnds` |
| `webhook` | 3 tasks (2 of one event), schedule of 2 delays, 3 faults, with and without a store, fair | `OneRequest`, `UnclaimedSuccess`, `DeadIsRecorded`, `Settles` |
| `session` | 2 clients, 3 tokens, absolute life 4, idle window 3, seconds of 2 ticks, clock to 4; states with all 3 tokens in use up to clock 1 | `TypeOK`, `OneTokenPerLogin`, `Indexed`, `NoResurrection` |
| `revisions` | 2 writers, 2 pruners, 4 revisions of 2 kinds (one pinned), snapshot every 3, one of a kind kept | `ChainIntact`, `PruneSpares` |

Why these bounds are enough to meet the interesting cases:

* *Outbox.* Two pollers are what it takes to race for a row, to outlive a lease
  and to delete what another one holds; two mishaps give a crash or a doubtful
  call on top of an expired lease; two rows with a batch of two give partly
  finished batches; the second backoff doubling reaches the maximum.
* *Idempotency.* Three requests let one entry expire, a second request plant a
  new one and a third meet it while the first is still in flight; TTL 2 in a
  calendar of 4 gives two generations.
* *Cron.* Two replicas with TTL 2 in a calendar of 3 give a handover between any
  two boundaries and a boundary that falls on the handover.
* *Plugins.* Three callers let two overlap while a third uninstalls and
  reinstalls; two installs make a stale snapshot of the first meet the second.
* *Pool.* Three callers for two instances: one sleeps while two work, return,
  wear out or poison theirs, and Close comes at any of those moments. Minimum
  below maximum gives the reaper something to evict and to refill. Three
  identities are enough for two slots and one instance about to be closed. A
  minimum of one means that a failed `Start` has nothing to take back; with a
  minimum of two `owed` becomes positive but the reaper, at this maximum, never
  evicts. The theorems cover both.
* *Webhooks.* Two tasks of one event meet in the claim, a third has its own; two
  delays give first, middle and last attempt; three faults exhaust a schedule, or
  fail twice and lose a worker.
* *Sessions.* Three tokens are two logins and a rotation, or one login rotated
  twice; the idle window is shorter than the life, so that refreshing matters,
  and the clock reaches the absolute expiry. With seconds of two ticks and an odd
  idle window, the truncation in a rotation loses a tick. `Bound` keeps the third token, which
  serves two rotations of one login, to the first ticks: two tokens are enough for
  what happens as lifetimes run out.
* *Revisions.* Four revisions give a chain of snapshot, delta, delta and a row
  that comes late; two pruners overlap with lists of different age.

Deadlock is checked in the outbox and cron runs. It is not in the others, where
the system may stop: the clock of `Idempotency` is bounded and all requests end;
a plugin row whose DELETE failed stays in `pending_uninstall` for good, and the
number of installs is bounded; a closed pool and settled webhook tasks rest;
tokens, revisions and the clock are bounded. Symmetry is used in runs without
liveness only: no definition tells callers, clients, tokens, writers, pruners,
requests or hashes apart.

Violation runs, each about a sentence in the repository that the code does not
keep:

| run | property | what happens |
|---|---|---|
| `idempotency_one_new` | `OneClaimNew` | an expired row that is not pruned yet makes `PostgresStore.Claim` say ClaimNew without writing anything: with Redis failing for one request both run |
| `plugin_active_loaded` | `ActiveIsLoaded` | of two overlapping `Activate` the loser unloads the module of the winner |
| `webhook_lost` | `SuccessMeansDelivered` | a retry finds the claim of its own first attempt and is answered as success; nothing was delivered |
| `revisions_prune_order` | `DeletesInOrder` | a Prune of a whole chain begins with the snapshot, which the foreign key refuses, and so does every later one |

"findings" in `PROJECT.json` quotes the sentences with their lines.

## 4. Fairness

`Outbox!Fairness`: `Run` of the poller and of the recoverer are loops over a
ticker that log errors and go on, so a poller step, and a sweep, that stays
possible is taken; the supervisor restarts a process; time passes. `Tick` also
stands for the passing of a lease, and it is what makes a sweep possible.
Handlers get no fairness: a transaction may stay open. Weak fairness is enough
since nobody can disable a poller's next step for ever: a row taken by another
poller is the other poller's progress, a lock ends with its transaction.

`CronScheduler!Fairness`: `Scheduler.Run` never gives up, whatever Acquire or
Renew return; replicas are restarted; time passes. `LeaderAgain` says nothing
of which replica leads: the code gives no such guarantee.

`InstancePool!Fairness`: goroutines that can run do. Holders return their lease,
which the package demands of its callers; a pass of the reaper, a Start and a
Close under way go on. Nobody has to call `Checkout` or `Close`, no context has to
end, the reaper need not tick.

`WebhookDelivery!FairSpec`: the queue goes on with a task until it is settled.

All are under a finite number of mishaps: with endless errors nothing can be
promised. The other runs use no fairness.

## 5. What is proved

Every safety property that a run checks is a theorem: for any number of rows,
pollers, requests, replicas, schedules, callers, instances, tasks, clients,
tokens and revisions, any lease, TTL, backoff, batch size, pool size and policy,
and any number of mishaps. The assumptions are the `ASSUME`s of the modules:
knobs are positive where the constructors enforce it by their defaults, the
markers for "nobody" and "no token" are no process and no token, and pollers and
pool callers are finitely many, since `DeliveryBudget` and `CapRespected` count
them.

* **`OutboxProofs`.** `TypeCorrect` (with the bound on claim stamps, which needs
  the clamp of `backoffFor`); `SafetyInv = ClaimDiscipline /\ NoLoss /\
  NoPhantom` is inductive together with the types. `NoLoss` alone is not: a
  DELETE looks at the id only, so one needs to know that a poller that is about
  to delete has enqueued its row (`DeletesDelivered`), that its row is in its
  batch (`WorksOnBatch`) and that batches hold committed rows
  (`BatchCommitted`). `HandoverByExpiry` follows from the exclusiveness of locks,
  and `OutboxImplementsContract` is step simulation of `AtLeastOnce` with
  `status` computed from `txn` and `delivered` from `enq`. `DuplicatesAreBounded`:
  `DeliveryBudget` is inductive with the invariant above and `CurInv` (only a
  poller that deletes or releases names a current row). A row's budget has units
  that are claimable, on their way or delivered; each action moves a unit or
  drops it, `BudgetStep` says so action by action, and only the sweep adds one.
  A stale release or delete grants nothing because its claim was taken away by a
  sweep that was counted.
* **`IdempotencyProofs`.** `ClaimInv`: a claim never reads a clock ahead of the
  real one, rows live at most TTL from now, and while a promise of Postgres runs
  its row is present and lasts at least as long. From it
  `PlantedClaimIsHonoured`; `StoredResultIsFinal` needs no invariant but the
  guard on `status`. `RedisClaimIsExclusive` rests on `ExclusiveInv`: while Redis
  does not fail, the claim of every request past the Lua script is *covered* (the
  entry lasts until TTL after it, or that time is over) and any two are TTL
  apart. `ReplaysAreFaithful` rests on `OnTime` (until a request is late, what is
  in flight claimed less than TTL ago) and `FidelityInv`: the two entries and all
  replays so far belong to their hash, a row in progress belongs to a request
  between claim and Finish (`RowOwned`), and as long as every admitted request
  planted its row, it finds that row when it finishes (`Planted`). With Redis
  working, the row that a Finish meets is the request's own because the claims
  are TTL apart (`OwnRow`). The attempt to prove an earlier form of
  `ReplayFidelity` without the condition on `rowless` failed, and section 7 has
  the behaviour that refutes it.
* **`CronProofs`.** `GrantIsOwnership` is inductive with the types and yields
  `LeaseIsNotStolen` and `LeaseIsProlongedByOwner`. `FiresOnce` rests on
  `TodoInv` (what a tick has left was due at its `now`) and `FireInv`: as long as
  nobody outlived a grant, leaders are within their grant, nothing beyond the
  clock has been fired and no leader's next-fire time lies at or before a
  boundary that was fired. `NextIsLater` is the fact about the schedule it uses.
* **`PluginProofs`.** `IInv`: types, `SeenInv` (what a call may have seen at each
  point), `TeardownOwnsRow`, `ErrorRecorded`. `EachStepMoves` lists every way the
  row changes, from which `RowMakesTheMoves`. `UninstallIsComplete` rests on
  `LoadInv`: while the row is gone or about to be deleted, a loaded module has an
  `Activate` that will lose its CAS and unload.
* **`PoolProofs`.** Four layers. `BaseInv`: types, `outstanding` is the number of
  callers that hold an unreturned lease (so it never goes negative), a caller has
  an instance exactly while it works with one, goroutines that rest have no
  working state. `PlaceInv`: the stack, the leases, the reaper's and Start's
  instances are without repetitions and apart, and the open modules are exactly
  those and some of the evicted; `OnePlace` is part of it. `FitInv`: what is or will
  be stacked has uses left and is not poisoned unless belatedly, and closed instances
  carry no bookkeeping, so that a new one starts clean; it gives
  `WornInstancesRetire`. A `MarkUnusable` from anywhere keeps it: the instance it
  poisons is with the caller that has yet to decide, or becomes belated, and that
  an instance is in one place makes these exclusive. For the count, with
  `WarmFirst`: `Warm` (until Start is over nothing else runs), `Counted` (`live +
  owed` is `Slots`, or more once Close cut a refill short, and `live` is within the
  cap) and `Awake` (while somebody sleeps and the stack is not empty, somebody else
  is in the wait loop or about to wake a sleeper). `SlackStep` goes through the
  actions and shows that none changes the difference of `live + owed` and `Slots`;
  `OpenBound` turns slots into open modules. From these `CapIsRespected`.
  `NobodyIsStranded`: a sleeper nobody is about to wake faces, by `Awake`, an empty
  stack, hence no slots at all, hence `live <= 0 < MinInstances`, and the reaper
  will refill. Both theorems carry `WarmFirst` as a hypothesis, because they
  fail without (section 7); `MinInstances` is positive by `SizesAssumption`, since
  `NewPool` turns 0 into 1. The stack lemmas
  (`PopToSet`, `ConcatToSet`, `WithoutToSet`, ...) avoid induction: ranks are
  counted with cardinalities, and the only induction is a least element.
* **`WebhookProofs`.** `OneRequest` is not inductive: a POST is counted long after
  the claim was won. `ClaimInv` adds, for a wired store, that a task between its
  claim and its POST holds the claim of its event with no request counted yet
  (`HoldsClaim`), that it is the only such task of the event (`Alone`) and that an
  event without a claim had no request (`Counted`). `OutcomeInv` carries
  `UnclaimedSuccess` (without a store nobody is at the claim, so success comes
  from the subscriber) and `DeadIsRecorded` (behind the audit write there is an audit
  result; the tasks that never came to it are the refused ones).
* **`SessionProofs`.** One inductive invariant `IInv`: types, `LifeInv` (sessions
  belong to minted tokens, expiries lie within `AbsTTL`), `LoginInv` (a login is
  named by a minted token, so a new one cannot meet it), `CallInv` (what a call
  carries between its round trips: a rotation's window is within the idle time,
  the entries `List` is about to prune belong to sessions that are gone,
  `Delete` removes no entry but its token's) and `IndexInv`: a live session that
  is no stray is in the set and ends less than a second after it, unless a `Get` is
  about to extend the set (`Pending`), or is out of the set and in its last second.
  `Indexed` alone is not inductive, as it says nothing of when the set ends; the
  fact about truncation is that `WholeSeconds` takes less than a second away.
  `Forward`, proved with each step, says that ended sessions stay
  ended; it gives `NoResurrection`, and `CallInv` needs it, because a prune acts
  on what was read earlier.
* **`RevisionsProofs`.** `TypeCorrect` with `BusyInv` (a Save under way has an id and
  a kind). `FreshInv`: the id of a Save under way is in the past, no row and no
  list has it, and no other Save. `ChainsStayIntact`: `Closed` (parents of stored
  deltas are stored: the foreign key) and `Grounded` (every non-empty set of stored
  rows that has the parents of its members contains a snapshot). `Grounded` replaces
  an induction along the chain; it is kept because an INSERT adds a row nothing
  refers to yet and a DELETE removes one nothing refers to. `PruneIsSparing` rests on
  `SweepInv`: what a list still has to delete is not pinned, and is an old autosave
  or has its full cap of newer rows of its kind in the history. That is not obvious
  because other Prunes delete newer rows meanwhile: but such a row was on a list
  too, so it had the full cap above it, which then counts for the older row as
  well, or it was an old autosave, and the older row is an older one.

## 6. What is only model-checked

* `Drained`, `LeaderAgain`, `CloseEnds` and `Settles`: liveness under fairness is
  out of the prover's reach. (`NobodyIsStranded` is the safety half of "every
  sleeper wakes up".)
* The four violation runs, which are counterexamples.

## 7. Observed while modelling

Without a run of their own. In the parts that are modelled:

* *Outbox.* `releaseFailed` (`poller.go:352-363`) pushes `claimed_at` into the
  future "so subsequent poll cycles skip the row until the backoff elapses"; the
  claim query wants `claimed_at IS NULL` (`poller.go:305`), so a failed row waits
  for backoff, lease and the next sweep.
* *Idempotency.* When Finish reaches Postgres and not Redis (`store.go:720`),
  retries are answered 409 from Redis until its entry expires, although the
  response is stored and the comment says the next request re-claims.
* *Cron.* A leader held up beyond its TTL goes on firing what its successor fires
  (`scheduler.go:327`): `NoDoubleFire` excuses it through `outlived`.
* *Plugins.* A trip that opens the breaker between `Activate`'s check and its CAS
  (`breaker.go:301`) deactivates nothing, and later trips are no-ops: the plugin
  runs with an open breaker, which `breaker.go:22-25` rules out. `RowMoves` is what the
  Manager does, not the diagram of the package: `Uninstall` takes Errored rows,
  although `state.go:39-42` calls `Reset` the only path out of that state, and a
  failed uninstall stays in `pending_uninstall`, where `state.go:33-36` and
  `doc.go:46` have it end in Errored.
* *Pool.* A `Start` that fails after its first instance subtracts what `live` never
  counted (`pool.go:241`): with two to pre-warm `live` is -1 and one instance too
  many can be opened. `CapRespected` allows for it by `owed`, and the theorem says
  that this is all that is ever lost. A `Start` that races with `Checkout` or the reaper can exceed
  the cap as well. A `Return` that read `closed` just before `Close` set it, or a
  `Start` that ends after `Close`, stacks an instance nobody closes. A failed
  creation wakes nobody; that this strands no one is
  `NoStranding`. A `MarkUnusable` after `Return` "has no effect" by
  `instance.go:157-159`; it sets `trapped` on an instance that may be idle or with
  another caller, so that a sound instance is recycled after its next use, and a
  broken one is handed out once more. `NoReuse` is about the calls that come before
  the decision of `Return` and lets the others through as `belated`.
* *Webhooks.* Invalid payloads and subscriptions, and requests that cannot be
  built, are answered `StatusDeadletter` without audit row and degraded flag
  (`BeginInvalid`, `BuildFails`), although `task.go:195-196` has the pipeline run
  before Deliver returns and `types.go:117-121` has the subscription
  of every task with that status marked degraded. `DeadIsRecorded` names these tasks by `refused`.
* *Sessions.* `DeleteAllForUser` misses a session created or rotated between its
  two round trips, and drops the index it was entered in. The set "should bracket the
  remaining absolute lifetime of any session in it" (`manager.go:513-515`). It does
  not: the set's lifetime is cut to whole seconds while the keys have milliseconds, so
  that a session can outlive its entry by less than a second, and a Get in that time
  refreshes it for a whole window without an entry; and Regenerate's SREM of a sole
  token drops the set together with its lifetime, so that the set it makes anew gets
  only the idle window (`manager.go:516`) and dies before the session when the
  extension by a Get fails or is late. `Indexed` allows the last second and counts
  the other cases as `stray`.
* *Revisions.* The length of a chain is not bounded by `SnapshotEveryN` as
  `store.go:30-31` says: a forced snapshot that arrives with an older `created_at`
  than a delta does not reset what the delta's successors extend. `Materialize`
  answers `ErrCorruptChain` for a healthy store when rows are pruned during its
  walk. `PruneLocked` (not called by anything) classifies the rows it could lock
  only, so two of them do not add up to one `Prune`. All code of the repository fixes
  `is_permanent` when it inserts a row, and so does the model; migration 000012
  (lines 24-27) has operators flip it on existing revisions. Prune's DELETE does not
  look at the flag again, so a revision pinned between the list and its DELETE would
  be lost, against that migration's "respects this flag unconditionally".
* `poller.go:242-244` says a cancelled `RunOnce` releases its claims; it returns
  and leaves them to the sweep (`Stop`).
* `PostgresStore.Finish` (`store.go:506-508`) finishes whatever `in_progress` row
  the key has, also one planted by another request after its own expired, and
  leaves that row's `request_hash`: hence `~late` in `ReplayFidelity`. It takes no
  late request if Redis fails: the first request's row expires; a second is
  admitted over it by `Claim`'s SELECT, without a row; the row is pruned; a third
  with another body, let through by a failing Redis, inserts its own; the second's
  Finish completes that row; a fourth, let through again, is answered the second's
  response for the third's hash. Hence the condition on `rowless`. It takes four
  requests and two Redis failures, more than the run has; TLC finds it on that
  instance in the form without the condition, and none with it.
* `RedisStore.Finish` is an unconditional SET (`store.go:279-281`).
* Two overlapping `Deactivate` and an `Activate` can leave a module loaded for an
  Inactive row; an uninstall and reinstall between `Activate`'s read and its CAS
  load the old version for the new row, since the CAS compares states only
  (`doc.go:121-122` calls that sufficient).
* A failed DELETE leaves a row in `pending_uninstall`, from where no operation
  leads on. A failed `MigrateUp` that loses its CAS to an `Activate` leaves the
  row Active.
* `MigrateDown` errors are logged, not recorded as LastError
  (`manager.go:98-100`). `ErrBreakerOpen` advises `Manager.Reset`
  (`breaker.go:246-249`), which refuses the Inactive row a trip leaves behind;
  `ResetBreaker` is what works.
* No code of the lifecycle package loads the modules of Active rows at boot.

In parts that were read and are not modelled:

* *Versioned updates.* Two overlapping `Update` calls can leave `plugins.version`
  and the active version of the log different; `MarkRetained` has no state
  guard; `Rollback` does not restore the manifest; nothing calls `MarkRetired`.
* *Publishing.* Neither the scheduled publisher nor the trash handler asks for
  revalidation of the page; the update handler decides about it from a status read
  before its write; a post may be `scheduled` without `scheduled_for` and is then
  never published; the autosave's lock check locks nothing while the lock row
  does not exist.

## 8. What is not modelled, and why

* *Cron expressions, request hashing, bundle parsing, SQL linting, body codecs*:
  pure functions whose results the control does not depend on beyond
  equal/different, valid/invalid.
* *WASM runtime, migrator, asynq, Redis, Postgres*: external, modelled by how the
  code uses them.
* *Hooks bus*: sequential per call. *Content, search, media, themes, importer*:
  data transformation and CRUD. *Audit, e-mail*: receive events, steer nothing.
  *HTTP, middleware, configuration, logging, secrets*: plumbing. *API handlers,
  CLI, front ends*: call the packages above. These, the generated GraphQL code
  and the host functions of the plugin runtime are most of the repository's lines.
* *Inside the modelled parts*: webhook signatures and Retry-After, the removal of
  oversized or corrupt session blobs, the content of deltas, the in-memory
  stores, the dry run of the pruner.
* *Several API processes with their own plugin runtime*: `PluginLifecycle` has
  one process; the row is shared, modules and breaker are per process.

## 9. Plan

Done, in this order: outbox with its contract, idempotency, cron, plugin
lifecycle and their proofs; then instance pool, webhook delivery, session store
and revisions; then the proofs of all remaining safety properties. Next:

1. What the theorems can still say beyond the runs: the condition
   `WarmFirst` of the pool, and the openings `Indexed` excuses.
2. **`PluginUpdate`**, composed with `PluginLifecycle` on one row; **`Publishing`**:
   update, trash, autosave and scheduled publisher on one post; **`LoginLimiter`**
   and **`Shutdown`**.

The project keeps to a dozen runs, one per question: violation runs whose
divergence is described in section 7 made room for the new components.
