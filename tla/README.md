# Verification of InfoHub's jobs, acquisitions, notifications and key pool

InfoHub Light collects items from the sources its users subscribe to and publishes
them as feeds. Everything that takes time runs as a *job*: a row of the table
`fetch_jobs` in one SQLite database, written by the API process, by the automatic
schedules and by any number of worker processes. Jobs of several users that need the same
source fetch it once, through a second table of leases. What is new in a feed is announced
through an outbox of deliveries, and the paid part of fetching goes through a pool of Apify
keys. This directory holds TLA+ models of those parts of the program, the TLC configurations
that check them and TLAPS proofs about them. Paths below are relative to the repository.

## 1. Inventory

| Part | State | Operations | Hard behaviour | What makes it correct |
|---|---|---|---|---|
| Job queue (`src/services/job_queue*.py`, `job_cancellation.py`, `worker_preexecution.py`) | rows of `fetch_jobs`: status, attempts, claim (worker, token, lease), back-off, stop mark | create (three forms), claim, complete, fail or retry, cancel, stop, retry, extend lease, recover expired leases, put back an unstarted claim, prune | several workers; expired leases; late answers of a worker that lost its claim; a row that becomes active again by four different paths | at most one active refresh per user and one active fetch per subscription; never more than `max_attempts` attempts; a live claim is exclusive |
| Worker (`worker*.py`, `catalog_source_runner.py`) | where the process is, its claim, its open transaction | cycle, claim, heartbeat, eligibility tests, publication, finalization, housekeeping, crash | minutes of network calls between reading and writing; heartbeat blocked by the publication of the same process; crash at any point | a feed job publishes exactly once, with its terminal status, and only while it may |
| Eligibility and lifecycle (`job_eligibility.py`, `storage/service_store.py`) | users, sources, subscriptions | enable, disable, delete, subscribe, role changes | they happen while jobs are queued, running or publishing | what is closed neither keeps schedules nor starts jobs |
| Schedules (`feed_schedule.py`, `source_schedule.py`, `schedule_runtime.py`) | interval and next run per user and per subscription | update, evaluate due rows, advance after a full refresh | evaluated by whichever worker is first, against the queue, quota and lifecycle | a schedule only enqueues what may run, and every due schedule is evaluated |
| Quota (`quota.py`) | usage events of the day | check, record | check and record are separate transactions for some jobs | bounded overspending |
| Job API (`api/job_routes.py`) | the request being served | create, stop, retry | transactions of different shape per job type | as the queue |
| Shared source acquisition (`source_acquisition.py`) | a claim with lease and back-off, and the latest content snapshot, per acquisition key | look for a fresh snapshot, claim, wait, back off, publish, record a failure, test | one fetch for many users' jobs; leases that are never renewed; keys that change during the fetch | one upstream call at a time per configuration; no fetch while the content is fresh; nobody waits for ever |
| Notification targets and transports (`notification_targets.py`, `notification_email_transport.py`, `workspace_telegram_transport.py`) | targets with configuration and activation generations, the workspace's mail and Telegram transports, values in the SecretStore file, tests in flight | create, configure, switch, archive, test, test and activate; set, switch, delete a transport | results of tests that arrive after a change; file and database written one after the other | only a destination that answered a test is used; nothing published during a pause is caught up |
| Item notifications (`preferred_source_notifications.py`) | account switch, bindings, subscription switches, outbox of deliveries | stage with a snapshot, claim, check, send, settle | several dispatchers; everything that was checked can change before the send; unknown outcomes; crashes | a delivery goes out at most once, to the destination it was announced for, and not if it was withdrawn; every delivery is taken up |
| Actor alerts (`apify_actor_alerts.py`) | settings, bindings, incidents, outbox | open, resolve, claim, send, retry | as above, with retries | as above; at most three attempts |
| Apify key pool (`apify_key_pool.py`, `apify_pool_*.py`, `scrapers/apify_client.py`) | members in order with status and role, the pool's row, the ledger of runs | reserve, start, register, wait, abort; drain and fail over; reconcile; edit, rotate, delete | unknown start of a paid run; a reservation declared lost while its call is alive; keys that change under runs | no live run is forgotten; live runs of acquisitions are on one key; the pool opens only when every start in doubt is settled |
| ActorOps (`services/actorops/`) | attempts, candidates, results | attempt, observe, recover, replace | results found after the job that paid for them failed | a paid result is used at most once |
| Information automations, agent change proposals (`agent_change_proposal.py`, `system_settings_proposals.py`), feed end messages (`feed_end_messages.py`) | proposals, revisions, leased messages | propose, confirm, expire | double confirmation, stale revision | confirmed at most once, on the revision proposed |
| Feed and content stores, source health, media, storage governance | snapshots, timelines, files | publish, read, collect | files against database rows | out of scope: data the properties do not tell apart |
| Scrapers, AI clients, orchestrator, frontend, migrations | none, or offline | network calls, rendering | | out of scope: I/O, user interface, offline scripts |

The parts interact through the database, and through the SecretStore file for what a row may
not hold. The API and the schedules insert rows; workers claim them; lifecycle transactions
cancel queued rows and make running ones ineligible; ActorOps puts failed fetches back; the
transaction that publishes a snapshot stages its deliveries, which workers send afterwards; a
running job starts Actor runs through the pool, which workers reconcile before they claim. SQLite gives every writer the whole
database (`BEGIN IMMEDIATE`), and that lock is part of the model because the publication
of a worker holds it for long.

## 2. Modules

| Module | Models |
|---|---|
| `JobQueue` | the table and every operation on it, with arbitrary callers. It is the abstract specification of the queue (`QueueSpec`) |
| `Lifecycle` (extends `JobQueue`) | users, sources, subscriptions, their schedules, the transactions that change them, and eligibility |
| `Schedules` (extends `Lifecycle`) | evaluation of due schedules, advance after a refresh, job quota |
| `Worker` (extends `Schedules`) | worker processes, the API process, the write lock, time, fairness; the composition of all of the above |
| `JobQueueProofs` (extends `JobQueue`, `TLAPS`) | the theorems about the queue |
| `WorkerProofs` (extends `Worker`, `JobQueueProofs`) | the theorems about the system of workers, API, schedules and lifecycle, its refinement of the queue included |
| `SourceAcquisition` | coordinators that share the acquisition of one source; independent of the others, a client stands for a running job |
| `AcquisitionProofs` (extends `SourceAcquisition`, `TLAPS`) | the theorems about shared acquisition |
| `NotificationTargets` | targets, transports, secrets and tests, and what their changes do to delivery rows |
| `PreferredNotifications`, `ActorAlerts` (each extends `NotificationTargets`) | the two outboxes: settings, staging, dispatch |
| `Notifications` (extends both) | their composition over the same targets; properties |
| `DeliveryLedger` | the abstract specification of an outbox, which `Notifications` is shown to implement |
| `NotificationProofs` (extends `Notifications`, `TLAPS`), `NotificationTheorems` (extends it) | the lemmas, and the theorems, about notifications |
| `ApifyKeyPool` | the pool, the ledger of runs and every transaction on them |
| `KeyPoolCalls` (extends `ApifyKeyPool`) | calls that start runs, step by step, and their crashes |
| `KeyPool` (extends `KeyPoolCalls`) | the workers' reconciliation, the administrator, Apify; properties |
| `KeyPoolProofs` (extends `KeyPool`, `TLAPS`) | the theorems about the key pool |
| `MCJobQueue`, `MCWorker`, `MCSourceAcquisition`, `MCNotifications`, `MCKeyPool` | instances for TLC |

### State and code

* `jobs[j]` is a row. `status`, `attempts`, `max`, `priority`, `user`, `source`, `sub`,
  `worker`, `token` are its columns. `stop` is `cancelled_at IS NOT NULL`, `auto` the
  scheduled reason in `payload_json`, `lock` the time left until `locked_until` (-1:
  passed), `delay` the time left until `next_run_at`. `absent` and `deleted` are rows
  that are not in the table; of a deleted row the kind is kept, which a worker that
  still holds it has in memory. `source_test` stands for every job type that is neither
  deduplicated nor published in a feed.
* `held[w]` is the claim the process holds in memory. It may be long lost.
* `users`, `sources`, `subs`, `feedSched`, `srcSched` are the entity tables. A
  subscription that was deleted does not come back; subscribing again to the same source
  uses another identifier, as the code's fresh ids do.
* `quota[u]` is what `ensure_job_allowed` has left for the day.
* `pc[w]`, `writer`, `api` are control: the point a worker process has reached, the one
  with an open transaction of several steps, and the creation request in progress. The
  API process handles one request after another: its handlers are coroutines that never
  await.
* `commits[j]` counts the publications of a job since it was last created, retried or
  recovered. It is history, no action reads it.

In `SourceAcquisition`, `rows[k]` is a row of `source_acquisition_states` (`there` tells whether
it exists), `snaps[k]` the latest row of `source_content_snapshots`, both by acquisition key. A
key is a record of the kind of call, the window and the versions of everything the fingerprint
covers; that identity is what `config_fingerprint` digests. `ctx[c]` and `pub[c]` are the contexts a
coordinator claims and publishes under, `loaded[c]` the version of the configuration its job
was built with; `cfg` and `pool` of a snapshot say what it was really fetched with and are
read by two properties only. The claim, the publication and the release are one transaction each;
looking for a snapshot, waiting and the upstream call are not. A private source has rows of its
own for each user, so it is an instance with the coordinators of one user.

One action is one transaction, or one read that is not in a transaction of the write that
follows it. `Worker` splits exactly where the code does: `CheckFailure` reads eligibility and
`RecordFailure` writes in a later transaction; `StageRefresh`/`StageFetch` open the publication,
`CommitPublication` tests eligibility again inside it and completes the job. While a
worker is `staged` nobody else writes, but time passes, so its lease can run out.

In `NotificationTargets`, `target[t]` and `transport[c]` are rows; `cfg` and `act` are
`config_generation` and `activation_generation`, `gen` the generation of a transport, `test`
and `testCfg`/`testGen` the last test and what it tested. `secret` is the SecretStore file. A
row keeps a digest of the value it was saved with, represented by the value: `Bound` says that
the file still has it. `tests[p]` is a test in a thread of the API with the rows it read. `rows` holds the delivery
rows of both outboxes by their unique key, `disp` and `alertDisp` the dispatchers. `maybe` counts the transmissions the
receiver may have accepted, `wanted` is the destination the target had when the row was staged;
with `proven`, `withdrawn` and `paused` they are history that no action reads. `clock` gives every operation that stores a time
an instant of its own. The API's event loop runs one settings request at a time, so each is an
action; tests are three (claim, send, record), because they hold no transaction on the network.
One user stands for all (rows of different users share targets and nothing else), and one alert
condition for the five that open an incident.

In `ApifyKeyPool`, `status`, `role` and `order` are the member rows (`order[k]` holds the members
whose position is behind that of `k`: the code compares positions and never reads their value), `pool` is the row of
`apify_key_pool_state`, `run[r]` a row of `apify_actor_runs`, `remote[r]` what exists at Apify. `held` says that the
secret still has the version the run was reserved with (`lease_for_run` raises otherwise);
`evidence` is the comparison of `updated_at` that `settled_start_can_release` makes.
`call[c]`, `rec[w]` and `admin` are where a call, a worker's reconciliation and an
administrator's request are; each of their steps is one transaction or one request to Apify. A call
that dies leaves its reservation and, if it was in its POST, perhaps a run.

Every operation that changes nothing (a second stop request, a creation that returns the
active job) is a stuttering step and needs no action. Definitions introduced by a comment
that begins with "Fault:" are not part of the specification: they are plausible mistakes
in the definition they precede, used to see that the properties notice them.

### Left out

* `migration_required`: while an offline migration is due the workers and schedules pause.
* `retire_queued_actorops_v1_jobs`: cancels queued rows of retired job types
  (the queue-level effect is `CancelQueued`); the ActorOps version 2 jobs that
  housekeeping enqueues are of the kind `source_test`, which the API creates as well.
* A `source_fetch` that names no source, which only an administrator can create.
* The cap of the back-off exponent at 16 and the limit of 100 due rows per evaluation:
  neither is reached within the bounds.
* The fence that compares the contexts again before the Feed is written
  (`assert_publication_current`), the projection of shared items for a user, and the reuse of
  content by `source_content_reuse.py`. A failure or a release the database refuses leaves the
  claim behind, as `EndJob` does.
* Source health and media, within the transactions that are modelled. Staging of
  notifications is an action of `PreferredNotifications`, not of `Worker`.
* Notifications by channel, from before targets existed, and the rendering of messages. The
  first snapshot of a user is a baseline that announces nothing; the models begin after it.
  `open_incident` and `resolve_incident` have callers in tests only; they are modelled as they are.
* In the pool: accounting of costs, `resume_actor_detailed` and
  `complete_run_reconciliation` (no caller in production), a token that is missing from the
  SecretStore, and the pool switched off. What a quota snapshot says is nondeterministic, the
  ActorOps fence may refuse any acquisition, and the terminal statuses of a run are one. That no POST lasts
  longer than the 30 seconds the proof of absence waits is assumed (`SettledPost`).
* A recovered ActorOps fetch is not charged to the quota, as in the code. Whether ActorOps
  has found a result, and whether it blocks a source, is nondeterministic.

## 3. Model checking

| Run | Configuration | Checks | Distinct states |
|---|---|---|---|
| `queue` | `MCJobQueue.cfg` | `QueueTypeOK`, `QueueInv`, `OneActiveRefresh`, `OneActiveFetch`, `RetryBudget`, `ClaimIntegrity`, `LeaseExclusive` | 868 thousand |
| `worker` | `MCWorker.cfg` | `WorkerTypeOK`, `AtomicPublication`, `StopHonoured`, `PublishOnlyEligible`, `ImplementsQueue` | 467 thousand |
| `liveness` | `MCLiveness.cfg` | `EveryJobSettles` | 75 thousand |
| `schedules` | `MCSchedules.cfg` | `LiveSchedules`, `ScheduledEnqueue`, `ImplementsQueue` | 345 thousand |
| `schedule_liveness` | `MCScheduleLiveness.cfg` | `SchedulesEvaluated` | 101 thousand |
| `quota` | `MCQuota.cfg` | `QuotaOvershoot` | 528 thousand |
| `acquisition` | `MCSourceAcquisition.cfg` | `SingleFlight`, `AcquireEnds` | 73 thousand |
| `paid_route` | `MCPaidRoute.cfg` | `AcquisitionInv`, `FreshMeansQuiet`, `PublishesOnce` | 225 thousand |
| `targets` | `MCTargets.cfg` | `NotificationsTypeOK`, `TestedInUse`, `RightDestination`, `NoBackfill`, `ImplementsLedger` | 1.1 million |
| `notifications` | `MCNotifications.cfg` | `RightDestination`, `WithdrawnNeverSent`, `NoBackfill`, `ImplementsLedger`, `TakenUp` | 250 thousand |
| `keypool` | `MCKeyPool.cfg` | `KeyPoolTypeOK`, `NoLostRun`, `OneKeyAtATime`, `BlockedUntilSettled` | 2.2 million |
| `transport_contract` | `MCTransport.cfg` | `TransportTested`; violated | |

* `queue` asks what the queue guarantees whoever calls it. The two workers may present any
  claim they ever got, in any order with all other operations.
* `worker` asks what the real callers achieve. The publication of a feed job and its
  terminal status are one (`AtomicPublication`), happen only while user, source,
  subscription and lease are in order (`PublishOnlyEligible`) and never after an accepted
  stop (`StopHonoured`). With `ImplementsQueue`, projected to `jobs` and `held`, every behaviour of
  workers and API is one of `QueueSpec`, so what is proved of the queue holds of the system.
  `schedules` checks the same with the schedules as callers.
* `liveness`, `schedule_liveness` use `FairSpec`.
* `quota` shows the size of a known gap: the three transactions of a plain job let at most
  one job over the quota, because the API serves one request at a time and the schedules
  check theirs in one transaction.
* `acquisition` lets two coordinators fetch a source and test it, and die at any point. `SingleFlight` is why the claim is looked for by fingerprint and not by key.
  `paid_route` adds a change of the Key pool during the fetch, after which a result with a
  proof moves its claim to another key: `FreshMeansQuiet` and `PublishesOnce` say that neither
  late results nor moved ones replace what somebody else has published.
* `targets` changes and tests one target and its transport in every order, with a test in
  flight and a SecretStore that a crash may leave behind, while alerts are staged, sent and
  retried. `TestedInUse` relates what is saved to what once answered; `NoBackfill` compares the
  publication time of whatever is staged with the last moment the outbox was off for its target.
* `notifications` has two dispatchers, three channels and everything they check changing under
  them. The interesting step of `WithdrawnNeverSent` is a switch that is off and on again
  between staging and claim: only the generation tells.
* Both check `ImplementsLedger`: under the mapping of `Notifications!Ledger` both outboxes
  together implement `DeliveryLedger!LedgerSpec`. A message is announced once, has one sender,
  is transmitted again only after the receiver certainly refused, at most three times; a
  message whose outcome is unknown stays as it is for ever. `TakenUp` is its liveness.
* `keypool` lets an acquisition and a validation start runs, with a worker that reconciles and an
  administrator. `NoLostRun` is why a start in doubt blocks the pool, `OneKeyAtATime` is the barrier
  of a drain, `BlockedUntilSettled` what opens the pool again.
* `transport_contract` shows a disagreement with `docs/contracts/api/schedules-jobs-notifications.md`
  (lines 36, 38, 46): deleting a transport forgets its generation. A test of the old credential that
  is still in flight is then recorded for the credential that was saved next.

### Known disagreements

Statements of `docs/contracts` that TLC refutes on the models. Their definitions stay in the
modules; adding one to the configuration named here shows the behaviour in seconds.

| Statement | Contract | What happens | Configuration |
|---|---|---|---|
| `Worker!StopEndsCancelled` | `api/service-secrets-source-jobs.md:58` | a failure recorded after the eligibility test (`worker_finalization.py:193`), or lease recovery, ends a stopped refresh as failed | `MCWorker.cfg` |
| `Worker!OneFetchPerSubscription` | `api/schedules-jobs-notifications.md:15` | a fetch detached from a deleted subscription runs for the one made next, beside that one's own | `MCWorker.cfg` with two subscriptions and two rows |
| `SourceAcquisition!SnapshotOfItsConfig` | `architecture/feed-storage-tenancy.md:36` | the configuration is read at the start of a job and again for the key; content is cached under a configuration it was not fetched with | `MCSourceAcquisition.cfg` with `Changes = {"cfg"}`, one version |
| `SourceAcquisition!SnapshotOfItsPool` | `api/service-secrets-source-jobs.md:84`, `:93` | a paid result with a proof is cached under the new generation of the pool | `MCPaidRoute.cfg` |
| `KeyPool!DrainKept` | `api/service-core.md:41`, `api/service-secrets-source-jobs.md:14` | a start becomes unknown while a key is drained; the release of the block (`apify_key_pool_unknown_start.py:140`) opens the pool with the key still draining, after which every acquisition is refused and no drain goes on | `MCKeyPool.cfg` |

Two more were met in the key pool. `remove_secret` writes the pool's status from the members
that remain, in a later transaction than the test of `ensure_secret_mutable`, and so ends a
drain or a block that began in between (`BlockedUntilSettled` names that step as its
exception). And `record_member_quota` does not look at the role: a depleted validation key whose
credits return while the pool is exhausted becomes the active key, where
`api/jobs-migrations-actorops.md:126` keeps it out of production. The attempt to prove that the
pool's active key is a member found where this leads: a credential failure of a call that still
has that key marks it depleted as a validation key (`apify_key_pool.py:1761`), without looking at
the pool's row, after which it can be deleted. The pool is then `ready` with an active key that no
longer exists; it refuses every acquisition, and no operation on the other keys that is modelled
here names another active key. One validating call and `MaxGen = 9` suffice; `KeyPoolTypeOK` says `active : Keys \cup {NoKey}` for that reason.

Behaviour that no property covers because no contract forbids it: staging that raises inside a
publication is undone alone, so the articles are published and never announced
(`worker_finalization.py:95`); the recovery of an incident can be claimed while its opening waits
for a retry (`apify_actor_alerts.py:2362`); `block_unregistered_reservations` overwrites the reason
of a pool that is blocked for a registered run (`apify_key_pool.py:1340`).

### Bounds

`MaxJobs` rows are ever created (a full table counts as a spent quota, so no schedule
waits for a row); two rows let two jobs of the same key meet, and with retries, recoveries
and requeues a single row already goes through every sequence of claims. `Tokens` has one
token per row, one per worker and a spare, so a fresh one always exists and a token is
used again only when nobody has it. `Lease`, `RetryBase`, `Postpone` and the intervals are
one or two ticks: each timer can run out before, at and after any other step. The quota is
that of one day. `AttemptLimits` is `{2}` where retries matter and `{1}` where they do not.
`ActorBlocked` waits at most a tick longer than the interval. `Inputs` selects the API calls an
instance makes; together the passing runs make all of them. The symmetry of workers is used in the
safety runs only.

In `SourceAcquisition` each part of the identity changes at most `MaxVersion` times, leases,
freshness, waiting and back-off are one or two ticks, and `failure_count` saturates at
`MaxFailures`, which the limit of the back-off makes indistinguishable in the code too. A
fetch and a test, two keys of one fingerprint as two windows are, are checked without changes of
the source; a change of the source with one key per generation: a claim that is moved is released in
the same transaction, so the two do not meet. The theorems need none of these bounds. The
symmetry of coordinators is used in `paid_route`.

In the notification runs `MaxClock` bounds the operations that store a time to three: one to
change something, one to change it back, one to stage, in any order with any number of claims,
checks, sends and crashes. `Scenes` keeps tests and changes of the alert settings in different
behaviours of `targets`: they write different tables, and meet in the switches of the target, which
both scenes have. One target suffices because the rows of different targets do not
interact; two destinations tell an old one from a new one. The generations count those operations. In `keypool` two
calls with two keys meet in a drain, in a block and in a failover; each call reserves at most two runs in all,
and `MaxGen` bounds what an administrator and the quota do, not what calls and reconciliation do.
Keys and runs, and destinations and credentials in `targets`, are interchangeable.

The passing runs never stop, so deadlock is checked: time, requests, idle cycles, passes of the
reconciliation or new jobs are always possible. The notification runs are the exception: with the
clock at its bound and nothing to send there is nothing left to do.

### Fairness

`Fairness` assumes that the main loop of a worker goes on (`worker.py` `main`) and that
the process is started again when it dies (`restart: unless-stopped` in the compose file);
that `schedule_poll_seconds` pass now and then between two cycles, so that a cycle with
schedules is taken (strong, because a cycle without them is always possible instead); that
`run_job` returns or raises, since its calls have time limits; that a heartbeat thread
that failed to start starts in some later attempt (strong: without it the requeue of
unstarted claims, which does not count attempts, can go on for ever); that the API ends the
requests it began; that time passes. Nothing is assumed of users, of the heartbeat or of
crashes. Strong fairness of the start of the heartbeat is what "not started" failures
being transient means; it does not follow from the code alone.

In `SourceAcquisition`, `Fairness` assumes that a coordinator goes on with the call it is in
(the upstream call has a time limit) and that time passes. The loop of `acquire` tests its
deadline when it finds a claim and not when `_try_claim` answers `cached`, so it could go on
for ever if each snapshot expired before the next read. Freshness is minutes and the two reads
follow each other, hence strong fairness of the read that finds a fresh snapshot. Nothing is
assumed of jobs, of crashes or of changes.

In `Notifications`, `Fairness` assumes that each worker's loop goes on with the dispatch of item
deliveries (`_dispatch_notification_backlog` in every cycle; sends have time limits). A crash is
followed by the next process. Nothing is assumed of users, administrators or tests. The pool is
checked for safety only: whether a blocked pool opens depends on Apify and on an administrator.

## 4. Proofs

### Queue

`JobQueueProofs` proves for every number of rows, users, sources, subscriptions, workers and
tokens:

* `QueueInvariant`: `QueueSpec => []QueueInv`, the inductive invariant;
* `TypeCorrect`, `SingleRefresh`, `SingleFetch`, `BudgetKept`, `ClaimsSound`: the invariants
  of the run `queue`;
* `LeaseIsExclusive`: the action property `LeaseExclusive`.

The assumptions are those of `JobQueue`: bounds are natural numbers, attempt limits are
positive, the back-off of every attempt is a natural number, and each `No...` constant is
outside its set. TLC evaluates them in every run.

None of the invariants is inductive alone. `OneActiveRefresh` needs to know that a row
that comes back from `running` was active before, `RetryBudget` that a running row has
counted its attempt and that its limit is one of `AttemptLimits`, `ClaimIntegrity` that
tokens in the table and in hands come from one supply. `QueueInv` adds to types and
deduplication:

* `RowOK(r)` for each row: a row that is queued has an attempt left, a running one has
  counted at least one and at most `max`, a token is there exactly while it runs, the limit
  of a row in the table is a configured one, and a fetch that names a subscription names
  its source (which the requeue by ActorOps needs, because it tests the source and not
  the subscription);
* `HoldOK(h)`: what a worker holds is nothing, or a job with a real token;
* `TokensDistinct`: no two rows carry the same token, and a row with the token a worker
  holds is the row it claimed, still its own.

The preservation proof is organised by what an action does to rows. *Quiet* changes leave
the key and the claim alone or release them (`Quiet...` lemmas); a *release* takes a
running row out of a claim; an *activation* makes a row active after testing its key
(`Activation`, used by creation, retry and recovery of a result); the claim is a case of its own,
where the fresh token matters. `NextInv` has one step per action. `LeaseKept` shows action
by action that a row under a live lease is touched only by its holder.

### Shared acquisition

`AcquisitionProofs` proves for every number of coordinators, windows, versions and tokens, and
for every lease, freshness and back-off:

* `AcquisitionInvariant`: `Spec => []AcquisitionInv`, the inductive invariant;
* `FetchedOnce` (`SingleFlight`), `NoClaimOnFresh` (`FreshMeansQuiet`) and `NeverPublishedTwice`
  (`PublishesOnce`).

`SingleFlight` speaks of coordinators, the claim test of rows. `ClaimOK` ties them: only a
coordinator that fetches has a token, no two have the same, and a row with its token is the row
of its context. `RowsOK` says that a fingerprint has one live claim, that a fresh key has none,
and that a key without a row has no fresh snapshot; the last part is what makes the test for a
row sufficient when a claim moves. Steps that write no table are covered by `LocalStep`, those
that release a row by `FreedStep`; `_try_claim` and `_store_success` are proved conjunct by
conjunct. The assumptions are those of `SourceAcquisition`, evaluated by TLC in its runs.

### Workers, API, schedules and lifecycle

`WorkerProofs` proves of `Worker!Spec`, for every number of users, sources, subscriptions, jobs,
workers and tokens and for every choice of intervals:

* `WorkerImplementsQueue`: the refinement `ImplementsQueue`, for `QueueSpec` whole (it has no
  fairness). `WorkerKeepsQueue` draws the conclusion: what is proved of the queue holds of its real callers;
* `WorkerInvariant`, `WorkerTypes`; `QuotaKept` (`QuotaOvershoot`); `SchedulesLive` (`LiveSchedules`);
* `PublicationInvariant`, `PublicationAtomic` (`AtomicPublication`), `StopKept` (`StopHonoured`);
* the action properties `PublishedEligible` (`PublishOnlyEligible`) and `ScheduledRunnable` (`ScheduledEnqueue`).

Every step is shown to be a step of the queue (`Simulates`), and most of them to be *calm*: no
job is created, revived or completed. `QuotaInv` is inductive because a request the API has admitted
keeps a job of the quota to spend, whatever the schedules spend meanwhile: they test and
charge in one transaction. `ScheduleInv` adds to `LiveSchedules` that no
subscription outlives its user. `AtomicPublication` is not inductive alone: a worker whose lease was lost may
still be on its way to completing a job, so `PublicationInv` says that only jobs without publication get to the
completion in two steps (`finishing`, `completing`), that what a worker holds was created, and that
a stop request on a job that has not ended is on a full refresh, whose commit tests it.

Two assumptions are new. `ReasonsAssumption` (`Worker`): jobs are created automatically and by hand.
`OwnerAssumption` (`Lifecycle`): the subscriptions to one private source belong to one user. In the code only
the owner may subscribe to one (`subscription_mutation.py` `_accessible`), and the scope of a source
changes from private to shared only; deleting a user closes the private sources of that user, and
without the assumption the subscriptions of others would keep their schedules. `MCSchedules.cfg` has
a private source.

### Notifications

`NotificationTheorems` proves of `Notifications!Spec`, for every number of targets, destinations,
credentials, tests in flight, subscriptions, articles, incidents and dispatchers, and any length of the clock:

* `SystemInvariant`, `NotificationTypes`; `OnlyTestedInUse` (`TestedInUse`);
* `OutboxesImplementLedger`: the refinement `ImplementsLedger`, step by step and for both outboxes;
* `AddressInvariant`, `DestinationKept` (`RightDestination`); `WithdrawnInvariant`, `WithdrawalHonoured`
  (`WithdrawnNeverSent`); `PauseInvariant`, `PausesNotCaughtUp` (`NoBackfill`).

Each property rests on an invariant that says why the code's comparison of generations suffices:

* `DeliveryInv`: a row in `sending` that somebody may still write belongs to one dispatcher, and its
  transmission is counted exactly while the answer is awaited. The refinement needs it to know that a
  second transmission follows a refusal only.
* `TestedInv`: a test in flight that carries the current configuration generation of its target carries
  its current destination; a result is recorded under that generation or not at all.
* `AddressInv`: a generation stands for one destination, so a row or a dispatcher that carries the current
  one carries the destination that was announced.
* `WithdrawnInv`: a withdrawn delivery is recognised by one of the two generations, and past the check of
  the account by the one the dispatcher has yet to compare.
* `PauseInv`: one of the three watermarks a message is compared with is not older than the last pause.

The settings touch rows only by failing pending ones, and the outboxes leave the settings of targets
alone; each invariant is proved over what such a step does (`SettingEvolves`, `RowStep`, `Moves`,
`Withdraws`, `WatermarksMove`), and each action is shown to be a step of that kind.
The assumptions: `MaxClock` is a natural number (`ClockAssumption`), the channels are those of the code
(`ChannelAssumption`), no test result is `"sent"` before a test is made (`NoneAssumption`), and an outbox without
dispatchers announces nothing (`OutboxAssumption`; every worker process dispatches both, an instance without
dispatchers leaves an outbox out).

### Key pool

`KeyPoolProofs` proves of `KeyPool!Spec`, for every number of keys, runs, calls and workers and every `MaxGen`:

* `KeyPoolInvariant`: `Spec => []KeyPoolInv`, the inductive invariant; `KeyPoolTypes` (`KeyPoolTypeOK`);
* `RunsNotLost` (`NoLostRun`) and `SingleKey` (`OneKeyAtATime`);
* `OpensWhenSettled`: the action property `BlockedUntilSettled`.

`OneKeyAtATime` speaks of what is alive at Apify, which no transaction can see; the barrier works on the
ledger. `LedgerInv` (`RunOK` for each row) closes the gap: what is alive is unresolved on the ledger,
whatever is unresolved is on a member, and on an acquisition key it is on the *active* one, with a generation that a drain
under way waits for. So a failover, which needs the drain to have nothing pending, changes the active key only when
no acquisition run is alive. `OwnerInv` is what makes a call's own steps sound: nobody else has its reservation, nothing was started for it before
the POST (so releasing it loses nothing), and during the POST nobody settles it, which is where `SettledPost` enters.
`MembersOK` has the part of the type invariant that is not about types: a key whose status is active or
draining is the one the pool's row names, also while the pool is blocked.

An operation on the members is shown to carry every row of the ledger over (`Carried`), a step
on the ledger to move each row in one of three ways (`RowMoves`) and to leave the runs that other calls own
undisturbed (`Undisturbed`); `CallKeeps`, `RecKeeps`, `EditKeeps`, `RequestKeeps` and `RunEndsKeeps` put them together.
For `OpensWhenSettled`, `MembersLeaveBlocked` and `DoubtLeavesBlocked` show that no other transaction opens the
pool. The assumptions: the configured keys are finitely many members of `Keys`, `NoKey` is none of them, the validating calls
are calls (`KeyPoolAssumption`), and the mark of a call without reservation is no reservation (`ReservationAssumption`).

### What stays with TLC

Liveness (`EveryJobSettles`, `SchedulesEvaluated`, `AcquireEnds`, `TakenUp`), which rests on fairness
and is outside the prover's reach. `TransportTested` and the statements under Known disagreements are false of the
code. Every other property of a passing run is stated by a theorem. TLC evaluates every assumption in the
runs, and checked each inductive invariant on the configurations above before its proof
(`QueueInv` and `AcquisitionInv` in the runs; `WorkerInv` and `PublicationInv` on `MCWorker.cfg`, `QuotaInv` on
`MCQuota.cfg`, `ScheduleInv` on `MCSchedules.cfg`, the conjuncts of `SystemInv`, `AddressInv`, `WithdrawnInv` and
`PauseInv` on the three notification configurations, `LedgerInv` and `OwnerInv` on `MCKeyPool.cfg`).

## 5. Not modelled

* Feed and content stores, source health, media, storage governance: what they hold is data that
  no property here tells apart. A publication is one count in `Worker`.
* ActorOps beyond its effects on the queue, information automations, agent change proposals, feed
  end messages: state machines of their own that could be modelled; see the plan.
* Scrapers, AI clients, the orchestrator, rendering of messages, the frontend: network, text and
  user interface. For the models they are calls that return, fail or have an unknown outcome.
* Migrations and most of `service_store.py`: schema, reads and offline scripts.

## 6. Plan

Done: jobs, schedules, workers, acquisition, notifications and the key pool with their runs; the
proofs about all of them.

1. Proofs: an inductive invariant of the jobs a subscription's fetch is resolved to, once `OneFetchPerSubscription`
   is settled; the order of the pool (`FailOver` keeps the standby keys in their order).
2. The fence of the Feed (`assert_publication_current`) in `SourceAcquisition`, and its
   composition with the publication of `Worker`.
3. `ActorOps`: attempts, observed results and their recovery; composed with `JobQueue` where it
   requeues a fetch.
4. `ChangeProposals` (confirm once, expiry, revision) and `FeedEndMessages` (the acquisition's
   lease protocol again).
