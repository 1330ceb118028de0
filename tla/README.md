# Steadhold control plane in TLA+

Steadhold gives every project a Postgres of its own. An API (`services/api`) writes
what customers ask for into the control-plane database; a worker (`services/worker`)
makes it so on Docker nodes. This directory models the parts of that program in which
order, concurrency and failure decide what is true, model-checks them with TLC and
proves their main invariants with TLAPS.

## 1. The system and its components

| Component | State it keeps | Operations | Interacts by |
|---|---|---|---|
| **Job execution** `worker/jobs/runner.ts`, `repo.ts`, `sweeper.ts`, `packages/queue` | `provisioning_jobs` rows (Postgres, state of record); BullMQ deliveries (Redis, disposable); locals of the handler slots | claim, step loop, saveCheckpoint, succeed, fail, onDeadLetter, heartbeat, findOrphans, enqueueProvisioning, enqueueRecovery, markEnqueued | rows shared by API, runners and sweeper; deliveries |
| **Placement** `worker/placement.ts` | `nodes` counters and status, `project_databases` rows | allocateNode, releaseNode, releaseRam, bookRam, registerNode | called by sagas inside row-locking transactions |
| **Reconciler** `worker/reconcile.ts` | none of its own | container drift, repairs, zombies, stuck transitions, reservation arithmetic | reads and writes project, job and node rows; enqueues jobs |
| **Project lifecycle** `api/modules/control-plane` | `projects.status`, job rows, audit rows | create, retry, pause, resume, restore, rotate, delete | one transaction per request, then a best-effort enqueue |
| **Sagas** `worker/jobs/sagas.ts` | containers, volumes, networks, backups, statuses | the steps of provision, pause, resume, delete, purge, backup, restore, rotate | run by the runner; call placement, secrets, Docker, backups |
| **Scans** `idle-scan.ts`, `purge-scan.ts`, `restore-expiry.ts`, `backup-scan.ts`, `verify-scan.ts` | none | pick due projects, insert a job under a deterministic key, sometimes set the status | timers beside the runners |
| **Ladders** `disk-scan.ts`, `wal-scan.ts` | `disk_state`, WAL state, node status | measure, choose a rung, apply it, cordon a node | timers; SQL in the project's database |
| **Backups** `backup.ts`, `verify-restore.ts`, `repo-destroy.ts` | `backup_runs`, `project_repos` | take, verify, schedule destruction, destroy and prove | sagas and scans; object store |
| **Secrets, key rotation** `packages/secrets`, `key-rotation.ts` | `project_secrets` versions, `project_signing_keys` | get, put, ensure, rotate, replace, purgeRetired; begin, cutOver, retire | sagas, rotate job, API |
| **Project auth** `api/modules/project-auth` | `auth.sessions`, `auth.refresh_tokens`, users, one-time tokens | sign-up, sign-in, refresh, grace replay, revoke | requests racing requests |
| **Object storage** `api/modules/storage`, `storage-sweep.ts` | objects (bytes) and `storage.objects` rows | upload, delete, signed upload, sweep, true-up | two stores, no common transaction |
| **Email** `packages/email`, `email-sender.ts` | gate counters, `email_sends` | check-and-consume, send, retry | a second BullMQ queue |
| **Organisations, sessions** `api/modules/orgs`, `auth`, `kernel/sessions.ts` | members, invites, sessions | role changes, removal, invites, log-in | requests |
| Kernel, gateway, SQL console, container driver, dashboard, shared packages | little or none | parsing, routing, rendering, I/O | |

### What is hard in each, and what makes it correct

- **Job execution.** At-least-once delivery from several sources (first enqueue, BullMQ's
  own redelivery, the sweeper, a user's retry), a mutex that is a lease, crashes between
  any two statements, four unrelated clocks. Correct when: one runner at a time is inside
  a job's saga; the checkpoint names only what was done and steps start in order; success
  is complete and final; every job is eventually answered; Postgres can always rebuild
  the queue.
- **Placement.** READ COMMITTED transactions over two tables, decisions on values read
  before a lock was held. Correct when: counters equal the bookings, nothing is oversold,
  ports are distinct, cordons are respected, nobody waits in a circle.
- **Lifecycle, sagas and scans.** Jobs of several kinds on one project, with nothing that
  serialises them; status moves split from job inserts; keys that are used once. Correct
  when: a status is what its containers are, deletion wins, in-flight states are left again.
- **Secrets, key rotation.** A cut-over in several transactions, repeated by hand after a
  crash, and readers that see half of it and cache what they saw; races on "the active
  version". Correct when: every key that signed a token in use is published, stored API
  keys verify by their kid, a cached document covers keys cut over to since, no private
  half is lost; one active version, no version reused.
- **Project auth.** Concurrent refreshes of one token, a lost answer, theft response racing
  rotation, a ban racing a refresh, row locks taken in opposite orders; links followed twice,
  or both at once. Correct when: one live lineage per session, an ended session stays dead,
  a banned user stays out, a link works once, a change both addresses confirmed is made.
- **Email.** A counter, an outbox row, a job and a provider without a common transaction,
  and a job id that is used again. Correct when: the cap holds, a mail recorded as sent is
  not sent again, a row that owes a mail has somebody who will send it.
- **Object storage.** Two stores and a sweeper that trusts a listing. Correct when: a row
  describes its bytes, garbage is collected and lost bytes are reported, the counter is
  near the truth.
- **Ladders, backups.** Record-then-act and act-then-record pairs with crashes in between.

## 2. Modules

| Module | Models | Used by |
|---|---|---|
| `JobContract` | what a job promises whoever asked for it (abstract: phase and completed steps) | refinement target of `JobQueue` |
| `JobQueue` | runner, repo, sweeper, delivery ids, the API's create and retry | `MCJobQueue`, `JobQueueProofs` |
| `JobQueueProofs` | theorems of `JobQueue` | |
| `Placement` | the four placement transactions, cordoning, the reconciler's arithmetic | `MCPlacement`, `PlacementProofs` |
| `PlacementProofs` | theorems of `Placement` | |
| `ProjectContract` | what the platform promises about the end of a project (abstract: open, buried, purged; backed up, window closed, data destroyed) | refinement target of `ProjectLifecycle` |
| `ProjectLifecycle` | one project: API requests, five sagas step by step, dead-letter hook, idle and purge scans, reconciler | `MCProjectLifecycle`, `ProjectLifecycleProofs` |
| `ProjectLifecycleProofs` | theorems of `ProjectLifecycle` | |
| `SessionContract` | what a session promises a client (abstract: one current token, exchanged for its successor, until the end) | refinement target of `EndUserSessions` |
| `EndUserSessions` | sign-in, refresh, grace replay, theft response, sign-out, ban and deletion of one end user, with row locks | `MCEndUserSessions`, `EndUserSessionsProofs` |
| `EndUserSessionsProofs` | theorems of `EndUserSessions` | |
| `AuthLinks` | one-time links of one end user: issuing, gate, outbox, job, sender, following a link, changing an address | `MCAuthLinks`, `AuthLinksProofs` |
| `AuthLinksProofs` | theorems of `AuthLinks` | |
| `StorageObjects` | rows, bytes, presigned uploads, the usage counter and the daily sweep | `MCStorageObjects`, `StorageObjectsProofs` |
| `StorageObjectsProofs` | theorems of `StorageObjects` | |
| `SigningKeys` | the first keypair, the rotation runbook, retirement, and the readers of keys | `MCSigningKeys`, `SigningKeysProofs` |
| `SigningKeysProofs` | theorems of `SigningKeys` | |
| `Sums` | lemmas about `SumFunctionOnSet`, the sum of a function over a finite set | `PlacementProofs`, `StorageObjectsProofs` |
| `MC...` | instances for TLC: definitions of constants, symmetry, bounds | the `.cfg` files |

The components meet in the database and in the deliveries, and the modules compose
accordingly: `ProjectLifecycle` rests on what `JobQueue` shows of a job, and uses a booking as
`Placement` keeps it; `SigningKeys` begins with a saga step that `JobQueue` may perform again,
and its readers are the gateway and the requests of `EndUserSessions`; `AuthLinks` opens the
sessions that `EndUserSessions` continues. The last two and `StorageObjects` live in a
project's own database and share no variable with the control plane.

### JobQueue

`row` is the part of `provisioning_jobs` the code decides on: `state`, `attempts`, the
checkpoint as a set of steps, and whether `heartbeat_at` is fresh. `redis` maps delivery
ids to BullMQ's record; an id is `<<job, Plain>>` for the bare idempotency key and
`<<job, n>>` for `key#recover-n`. A finished record stays in `redis`, because BullMQ keeps
it and refuses its id; `Forget` is retention or data loss. `run[r]` is a handler slot: its
delivery, its place in `execute` and its local `done` set. `api` holds the enqueue calls
that a committed request still owes. `verified` is a history variable: the steps that
really completed since the build was last asked for.

One action is one statement or one await of the code: `Claim` is `byIdempotencyKey` and the
claim UPDATE (the lookup decides nothing the UPDATE does not), `BeginStep`,
`StepCompletes`/`StepThrows`, `SaveCheckpoint`, `Succeed`, `Fail`, `OnDeadLetter`; then
BullMQ settles the delivery (`Ack`, `Nack`). The sweeper reads a batch (`SweepRead`),
delivers its rows one by one (`SweepDeliver`, `SweepMark`) and may stop half way
(`SweepAborts`). `Request`, `Enqueue`, `Retry`, `EnqueueRetry`, `EnqueueFails` are the API.
Faults (`crash`, `stall`, `redis`, `db`) draw on one budget.

Abstractions: clocks become "fresh or stale" (`HeartbeatExpires` is enabled only when no
awake runner is beating, `LockExpired` only when no awake slot holds the lock); an
`enqueued` row counts as old at once, which only adds sweeps; a saga is `NumSteps` steps
that may throw; the project's status is kept only as `failed`. A slot crashes alone,
which includes all slots of a process crashing together when the budget allows it. One
process runs the sweeper, as in `main.ts`. Not modelled: the drain at SIGTERM, a
heartbeat query that fails, jobs of other types on the same project.

### Placement

`reserved` and `active` are a node's counters and status, `placed` the project's row.
`tx[w]` is a worker's transaction: `Start`, one action per statement, and `Commit`, at
which the writes become visible. Locks are explicit (`nodeLock`, `rowLock`); a statement
that must wait is not enabled. `Abort` is a failed query, a
deadlock's victim or a dead worker, at any point. What READ COMMITTED does matters and is
modelled: `bookRam`'s `FOR UPDATE OF n` waits for the node and sees it again, but decides
on the project row its snapshot saw (`ReadBooking`, then `LockBooking`).

`Stop[n]` is the placement stop of a node on both axes (`floor(total * 0.85)`), `Ram` and
`Disk` what a project's plan books. One slot per project stands for its Postgres port,
pooler port and PostgREST pair, which are chosen and given back together, so the case that
one range is exhausted before another is left out. `Apart` says which operations the
callers keep apart on one project; `{}` is what these functions themselves guarantee.
The reconciler's pass over a node is three transactions (`ReadCounter`, `Compare`,
`Repair`); `Repair` is refused by `CHECK (ram_reserved_mb <= ram_total_mb)` when the sum is
too large. Not modelled: `registerNode`, stale nodes, plan changes (none exists in the
code), a reconciler that dies in a pass (it then starts over, as after `Compare`).

### ProjectLifecycle

It composes with `JobQueue` by what that module establishes about a job: a row whose saga
one runner at a time performs, step after step, each completed step on record. Here a job
is `none`, `open` (pending, enqueued or running), `done` or `dead`; its steps are concrete,
and steps of different jobs of the project interleave, since nothing in the code keeps them
apart. `Keys` is the set of idempotency keys that may exist (`<<"pause", 1>>`,
`<<"repair", 0>>`, ...): a key is used once, as the unique index has it, so the set also
bounds the behaviour.

`project` is `projects.status`, `deleted_at IS NOT NULL` (`gone`) and "`purge_after` has
passed" (`due`); `place` the row of `project_databases` (status, RAM booked, container ids
on record); `box` what Docker would report of the three containers; `have` the volume, the
network, the stored secrets, the api keys, a successful backup, and whether that backup is
younger than the last run of the database (`fresh`); `recon` a reconciler pass; `idle` the
idle scan's place with this project; `recent` the repair jobs of the last hour.

A step is described by when it can complete (`Able`, from its refusals) and by what it
writes (`NewBox`, `NewHave`, `NewPlace`, `NewProject`). It completes (`StepCompletes`),
refuses (`StepRefuses`, with what it had written before the refusal), throws half way
(`StepThrows`) or dies with its process (`Crash`, before, within or after). `Half` lists
the intermediate states: node before database, `project_databases` before `projects` unless
the status is the announcement. `Allowed` is the CHECK that ties `deleted_at` to the status.
The rest is one action per statement of the scans and of a reconciler pass (`IdleChoose`,
`IdleInsert`, `IdleMark`; `ReconcileDesired`, `ReconcileActual`, `RepairBusy`, `Repair`,
`StopZombie`), and one per request of the API.

Abstractions. Probes and configuration steps (`create_base_roles`, `wait_pooler_healthy`,
`wait_postgrest_healthy`, `write_connection`, `configure_backups`, `verify_archiving`) show
up only as a step that throws, which a neighbouring step does as well; `disable_api`,
`disable_writes` and `schedule_repo_destruction` touch nothing that is modelled. An attempt is a claim that
has ended. The statuses `provisioning` and `configuring` are not written by the modelled
code. A pass enqueues one repair although it may find two containers missing (the second
is deferred by the first). The hour's count drops to zero at once. A final backup is
required (`SH_REQUIRE_FINAL_BACKUP`) and a repository is configured. `WindowCloses` assumes
that the seven days of the recovery window outlast every job and pass that was at work at
the burial; without it a build asleep for a week could act on a purged project. Not
modelled: the restore, backup and credential-rotation sagas, restore expiry, alerts that change
nothing, the `disk_state`.

### EndUserSessions

One user (`user`: active, banned, deleted), the rows of `auth.sessions` (`opened`, `ended`,
`idle`) and of `auth.refresh_tokens` (`used`, `revoked`, `family`, `parent`), their row locks,
and the requests in progress. A request has a connection of its own, and a transaction's
writes become visible when it ends, so its last statement and its COMMIT are one action: a
refresh is `Present` (the SELECT by hash), `ReadUser`, `Rotate` (the conditional UPDATE,
which waits for the row's lock) and `Commit` (the child, the session's activity), or, when the
UPDATE matched nothing, `Judge`, `Replace` and `Recommit` (the grace replay) or the family's
revocation. `EndSessions` and `SelectTokens` are the two UPDATEs of `revokeUserSessions` and
`revokeSessionFamily`: the second selects its tokens when it starts and waits for each,
as READ COMMITTED has it. A statement that waits is not enabled; `Timeout` is the statement
timeout of `withProjectDb` and the deadlock detector, `Break` a lost connection. `EndOwn` is `revokeOwnSession`, whose
two UPDATEs are not a transaction (`cut`). `Ban` and `Scrub` write the user.

Times are three: unspent, spent within the ten seconds (`fresh`), spent before (`late`,
`GraceEnds`); `GoesIdle` passes the idle limit of a session. A changed
password is a sign-out of the others. The password check and the audit rows are left out.

### AuthLinks

One user, the links of one kind each (`link`, the unique `(user, type)`), the outbox rows
(`row`), the jobs (`job`, whose id is the kind and the user), the gate's counter (`spent`), and
requests that go through `Issue`, `Gate`, `Record`, `Enqueue`, or through `Consume`, `Confirm`,
`Open`, or `Consume`, `Sibling`, `Apply`, `Clear`, `Revoke`. Every statement commits by itself.
`Suppress`, `Undo` and `Refuse` are the mailer's refusals. A user has at most one row, so a
hash is a token number.

`hand[w]` is a handler's call with the job it was given and whether it still holds the job's
lock. It goes through `Take`, `Look` (the SELECTs), `Send`, `Note` and, where something
failed, `Fail`; then BullMQ hears how it ended (`Settle`). Each query may throw: the SELECTs
(`LookFails`) and the UPDATE of `fail` (`FailThrows`) are in no `try`, so the row is not told,
and after the last attempt nobody comes back; the UPDATE of a sent mail is inside one
(`NoteFails`). An UPDATE that throws may have taken effect. A lock that is not renewed
(`Stall`) belongs to a dead handler or to one that is only stuck and goes on beside the next;
BullMQ delivers the job again, and at the stall after `MaxStalls` fails it. `MaxStalls` and the rest
of the queue's conduct are taken from the BullMQ the repository is locked to (5.81.4), whose
default `createAuthEmailWorker` leaves alone. `Lose` is a job Redis loses, `Evict`
`removeOnComplete` and `removeOnFail`. Three history variables name what the code leaves:
`stranded` the kinds whose row says queued with nobody left to send, set where that comes about
(the five cases are in section 3), `overrun` those whose handler went on after it had lost its job,
`reset` those whose sent row another request has put back to queued.

Left out: that Redis may lose the counter with the job (a window lost
admits more), and a repair of `queued` rows: mailer.ts speaks of a sweeper that
could do it, and the repository has none.

The gate counts four windows one after the other and gives all of them back on a refusal;
one window stands for the one that is full. Its clock does not move. Sign-up is the
`confirmation` link without its password; invitations and magic links are consumed like
`recovery`. A failed link has no effect. The number of attempts is the code's 3, or less.

### StorageObjects

`row` (size by path), `store` (what the object store has, and whether it is older than the
sweep's grace window), `intent` (rows of `upload_intents`, with the URL that was signed),
`usage` (the trigger's counter), requests and one sweep. An upload is `Prepare` (limits,
quota and collision in one transaction), `Put`, `Write`, and `Undo` after the write has failed
(`WriteFails`) or has been committed without an answer (`WriteUnanswered`: the catch does not
tell these apart); a delete `DeleteRows`, then `DeleteBytes` for each path or `BytesStay`; a
presigned upload `Probe`, `Intend`, `Direct` (the client, at any time and as often as the URL lives), `Head`, `Sniff`,
`Reject` or `Finalise`. The sweep is one action per query and per deletion. `Day` lets a day
pass when no request is in progress: a day is far longer than any request or URL. objects.ts:466
speaks of a second look at the quota when a presigned upload completes; there is none in the
code, and none in the model.

History variables name what the properties leave out. `excused` holds the paths where two
operations met, where an overwrite stopped between its two writes, or where the COMMIT of a row
went unanswered: the code has no protection there, and the bytes of a live row may be another's
or gone. `crowded` says that an upload was admitted while another was under way, or that the
counter was rewritten. `quiet` says that since the sweep's listing nobody but the sweep has touched rows or bytes; what the sweep
deletes itself, in either pass, does not end it. `sweep.visited` holds the paths at which its
second pass has deleted: the third and fourth go by the listing made before that, so
`SweepIsThorough` speaks of the other paths, and `TrueUpIsTrue` of the total as the sweep counts
it (`AsCounted`).

Policies decide which rows a caller may write and appear as statements that fail; reads,
listings and bucket settings change nothing.

### SigningKeys

A key pair is one value; where its halves are stored apart, `secret.priv`, `secret.pub` and
`secret.kid` say whose half each is. `kept` are the archived private halves, `row` the
rows of `project_signing_keys` with the public half each carries, `api` the stored API keys,
`hand` the locals of the process that mints or rotates, `signed` the session tokens issued,
`signer` a request between its two readings, `load` and `cache` a reader's document.
`StartMinting` to `Provisioned` are the saga step `generate_api_keys` with its retries;
`Begin`, `Publish`, `StartCutOver`, `RetireOld`, `KeepOld`, `Swap` (three), `DropNext`, `Remint`
(two) and `Retire` the runbook. `Crash` may fall between any two. One process at a time
mints or rotates: the saga has its claim, the runbook its operator. A cut-over is not forced.

`ReadListed` and `ReadActive` are the separate queries of a verifier, in either order: the gateway
asks for the listed keys first, the JWKS endpoints and `start_postgrest` for the active one.
`cache` is the document they make, whole or crossed by a cut-over, and `cache.lasting` says whose
it is. Time is in the guards: `WaitOut` is the ten minutes after publication and `WindowCloses` the
thirty days of retirement, each longer than any request and than any document that is read again,
as JWKS clients, the gateway and the auth module do. PostgREST does not: it is created with the
keys of that moment, nothing reloads it (OQ-112), and its document outlasts both. `CacheCovers`
and `CacheComplete` are about whole documents that are read again. `signed` never shrinks; what a
property asks of it ends with the retirement of the key.

## 3. Runs

| Run | Instance | Question | Result |
|---|---|---|---|
| `job_crashes` | 1 job, 2 runners, 2 steps, `MaxAttempts` 1, one retry, one crash, Redis loss or failed query | Is the row safe whatever delivers the job, and does it keep `JobContract`? | holds; 268 000 states |
| `job_answered` | 1 job, 2 runners, 1 step, `MaxAttempts` 2, one crash or stall, fairness | Is every job answered, and does success stay honest? | holds up to the two named losses; 552 000 states |
| `placement_books` | 3 projects (small, large, small), 2 nodes, 2 workers | Do the counters stay right? | holds; 1.83 million states |
| `placement_repaired` | 2 projects, 2 workers, 1 node, its reconciler, fairness | Does a racing repair get repaired? | holds; 466 000 states |
| `lifecycle_crossing` | build, one repair, idle pause, resume, delete, purge; `MaxTries` 1; no faults | What survives when jobs of one project cross? | holds; 1.13 million states |
| `lifecycle_ends` | build, pause, delete, purge; `MaxTries` 2; one exception, crash or dead container; fairness | Does a project end cleanly, as `ProjectContract` says? | holds; 44 000 states |
| `sessions` | 3 requests, 2 sessions, 4 tokens, 4 calls, one lost connection; fairness | What survives when requests of one user cross, and does each end? | holds; 178 000 states |
| `links` | 2 requests, 2 workers, a confirmation link and a change of address, 2 tokens, a cap of 2, 2 attempts, one stall allowed; up to 3 calls, 3 faults and one event, 4 together | Do links work once, and are mails owed and sent once? | holds but for the named losses; 1.13 million states |
| `storage` | 2 paths, 2 requests, 2 intents, 3 calls, one fault | Do rows describe bytes, and is the sweep right? | holds but for the named paths; 3.06 million states |
| `keys` | 2 keypairs (a provisioning and a rotation), 3 crashes | Does every key that signed stay published, whatever is repeated? | holds; 1.95 million states |
| `lifecycle_interlock` | build, repair, pause; no faults | Is a database stopped only after its backup? | **violated** |
| `keys_partial` | 2 keypairs, 1 crash | Are the first keypair's parts of one pair? | **violated** |

**Why these bounds.** Jobs share nothing in the modelled code but the runners and the
sweeper's batch, so one job with two runners has every race for a row: three deliveries of
it (plain, two recoveries) exist in `job_crashes`. `MaxAttempts` 1 and 2 reach the dead
letter, the retry after it and the refusal of a used id. Two steps tell a resumed checkpoint
from a fresh one, and the one-step `Substrate` tells a retry from a resume. One fault
can fall anywhere; what a second fault adds is covered by the proofs, which have no bound.
`BullAttempts` 2 makes a nacked delivery come back. For placement, two nodes that rank
differently as they fill, each with room for a large project or two small ones, make
the two passes of `pickNode` disagree; three projects fill both; two workers are enough
for every pairwise race, and a circle of two.

For the lifecycle, each kind of job that can cross another exists once: `lifecycle_crossing`
has every pair of build, repair, pause, resume, delete and purge, every job giving up at its
first refusal (`MaxTries` 1), retries of builds included. `lifecycle_ends` adds the faults: one, anywhere, with
`MaxTries` 2 so that a step is performed again after it; `RepairLimit` 0 there stands for an
hour whose repairs are used up, so that the reconciler's other branch (the project is marked
failed) is taken.

Three requests are a refresh, its replay and a revocation, or a sign-out between two
refreshes; four tokens are a sign-in and three exchanges, or two sign-ins and one each; two
sessions tell the scopes of a sign-out apart. In `links`, two clicks at once, or a click
beside a new request, are two requests; one of the two tokens may be replaced by the other
or be its sibling in a change; three calls are a request and both clicks. Two faults throw away both
attempts or are the two stalls that end a job, and leave room for a second call beside them; two
workers are the handler that lost its job and the one that has it. `MaxTogether` lets faults take
the place of calls and events: 3 of each kind at once is beyond TLC, and not beyond the proofs.
`storage` has a
second path so that a batch delete, a sweep's lists and a counter have two entries; a
second request or intent is what contends a path; a ceiling of 3 with sizes to 2 is passed
only by two uploads at once. The third crash of `keys` falls into the repetition of a repetition.
The proofs have none of these bounds.

**What the violations show.**

- `lifecycle_interlock`: `pausing` is among the statuses whose containers must not run, and a
  zombie is stopped without asking whether a job is at work. A reconciler pass between the
  pause request and the backup stops the database; `final_backup` then finds nothing to back
  up, and where no backup exists yet the pause gives up with the project in `pausing`.
- `keys_partial`: the three puts of `generate_api_keys` are three transactions, and a retry
  takes the pair as present only when private half and kid both are. A crash after the first
  or the second put makes it generate another pair; `put` keeps what is there, and the second
  pair's kid ends beside the first one's private half. The properties of `keys` are about
  projects that were provisioned with one pair.

**What else the code does, and the models with it.** These are consequences the models
contain and no property forbids, or that a property names as its exception:

- The sweeper numbers its recoveries by `attempts`, the retry route by the count of retries,
  and `requestRetry` sets `attempts` back to 0. BullMQ drops an id it remembers, so a
  build that fails, is retried and fails again may be claimable and never delivered, until
  Redis forgets an id (`Stranded`, an exception of `EventuallyAnswered`).
- `saveCheckpoint`, `succeed` and `fail` name the row only: a process that stops for three
  heartbeats and goes on runs its saga beside the claimer's. `OneExecutor` is checked and
  proved without such stalls. `SuccessIsComplete` is checked and proved with them for builds
  that were not retried; one that was may be finished by a sleeper of the earlier attempt,
  whose copy of the checkpoint still holds the steps the retry took out.
- A rejected node stays locked while the next is locked, so two placements may wait for each
  other, and Postgres ends one (`Abort`).
- `bookRam` decides on a row it has not locked; alone it is not idempotent. The instances use
  what its callers guarantee (`ApartByCallers`).
- The reconciler sums plan RAM over paused projects too, so each pass charges the node again
  for what a pause gave back. `RepairConverges` is stated without paused projects, and
  `Accounted` checked without the reconciler.
- A replay within the grace finds the first child of a token, which an earlier replay has
  revoked: a client that loses two answers in a row is signed out as a thief.
- A second proposal of an address replaces both links while the first is on its way; a click on
  what remains of it finds nothing.
- A row of the outbox says queued with nobody left to send (`stranded`, the exceptions of
  `QueuedIsOwed`) when the request dies, or the enqueue fails, between the row and the job; when
  the delivery id belongs to a job that has ended; when a query throws in the last attempt; when the job
  stalls once more than BullMQ allows; and when Redis loses it.
- A handler that went on after it had lost its job may send what another has sent and recorded
  (`overrun`), and so may a request that puts the row back to queued (`reset`): the exceptions of
  `SentOnce`.
- COMMIT is awaited inside the `try` whose catch deletes the object (objects.ts:296,
  storage/context.ts:109). Where it took effect and its answer was lost, the clean-up that is there
  to prevent a row without bytes makes one (`WriteUnanswered`). objects.ts:24 says that a row must
  never reference bytes that do not exist: without the exception `RowDescribesBytes` is violated
  by one upload with nobody else about.
- The sweep's second pass deletes the object of an expired intent, even where a row has that path by
  now. The fourth still counts those bytes, and can write a total that is no longer there, although
  storage-sweep.ts:184 says it reflects what is left; the third does not report the row. The
  next sweep does both, a day later. With the store in place of `AsCounted`, or without `visited`,
  `TrueUpIsTrue` and `SweepIsThorough` are violated by a sweep that nobody disturbs.
- A reader asks for the listed keys and for the active one in two queries. A cut-over between them
  makes the document name the new key twice and the old one not at all, and tokens signed with the
  old one are refused while it is held: ten seconds at the gateway, ten minutes at a client of the JWKS
  endpoint. docs/05-auth/02-sessions-and-tokens.md:53 says a stale cache stays valid; without
  `cache.whole`, `CacheCovers` is violated.
- `start_postgrest` reads the published keys once, when it creates the container, and no later
  step gives it others: after a rotation PostgREST refuses the new tokens and API keys. sagas.ts:89
  and STATUS.md record that step 3 of the runbook is not built; without `~cache.lasting`,
  `CacheCovers` is violated.
- A cut-over that dies between the DELETE of the `next` row and the reminting cannot be repeated
  (`cutOver` finds no `next` key), and the old API keys die when the old key is retired.
  `StoredKeysVerify` speaks of cut-overs that ran to their end.
- The sweep deletes what an expired intent names without looking for a row: where an upload
  at the same path came after the intent, the bytes of a live row go (`excused`), and the sweep that
  takes them does not see it.
- `rotate` and `replace` lock the active row only: the loser of a race finds it demoted and
  inserts a second active version, which the unique index refuses. `SigningKeys` has one
  writer at a time.

**Fairness.** `JobQueue!FairSpec`: a slot that is awake goes on with its handler; the
heartbeat timer fires; BullMQ hands out some waiting delivery, promotes backed-off ones and
checks locks; the sweeper's interval comes round; a stalled process resumes. Nothing is
assumed of users, of a step's outcome, or of which delivery BullMQ takes first.
`ProjectLifecycle!FairSpec`: the worker goes on with some open job (its concurrency and the
delivery guarantees are the subject of `JobQueue`), the reconciler's and the purge scan's
timers come round; nothing is assumed of users, faults, the idle scan or the clock that closes
the window. `Placement!FairSpec`: the reconciler's timer comes round and its queries return. The
antecedent of `RepairConverges` is that the jobs have stopped. `EndUserSessions!Fairness`: a
handler that has begun goes on, and the server ends a statement that waits too long. The other
modules state safety only and assume no fairness.

## 4. Proofs

`JobQueueProofs`. `Typing` holds for all faults, and so does `FirstBuild`: until its build is
retried, a job's checkpoint is honest and its success complete, however many runners are in
its saga, since each runner's own `done` names completed steps only (`Unretried`).
`CompletenessUnderStalls` is its consequence where builds are not retried. The rest assumes `NoStalls` ("stall" is
not among the fault kinds: section 3 says what a stalled process does). The inductive invariant
`IInv` says, beyond the types: no runner is stalled; a runner in the saga sees its row
`running` and fresh enough not to be claimable from under it, with local `done` equal to
the checkpoint or one step ahead (`RunnerInv`); a row's checkpoint is a prefix-closed set of
verified steps, full when it succeeded, and a failed project has a dead row (`JobInv`); at
most one runner owns a job (`OneOwner`). `OneExecutor` alone is not inductive: nothing in it
says that a row with an executor cannot be claimed. From `IInv` follow `Exclusion`,
`Honesty`, `Completeness`, `FailedBuilds`, and, step by step, `Finality`, `Order` and
`Implementation` (each action maps to a step of `JobContract` or to a stutter).
The path of a job type without a saga (`refuse`) is covered by the proofs and not by the
runs, in which `Unregistered` is empty.

`PlacementProofs`. `IInv` adds to the types: where a transaction is, what it holds
(`Located`: past its lock, a worker owns it; the row it will write is the one it read);
what it was promised (`Promised`: having passed the check under the lock, there is still
room, and the slot is still free); `Roomy` for every node; and `SlotsDistinct`. `Room`,
`Capacity` (for nodes without a reconciler), `Ports` and `Cordons` follow, for any `Apart`.
Capacity needs `Reconciles = {}`, for the reason given in section 3.

That the counters add up rests on two more invariants. `RowInv` says that whoever writes a
project's row at its commit holds the row's lock, that an allocation found no row there, and
that a release takes away what the row says (`Knows`), so the disk counter of every node is
the sum over the rows on it (`DiskExact`, with nothing assumed of the callers).
For the RAM counter this is false of `bookRam`, which decides on a row it has not locked.
`BookInv` adds what its callers guarantee (`CallersKeepApart`: no second booking and no purge of
the project beside it), that the row a booking has read is then still as it was, and that the
RAM counter is the sum of the bookings. `Accounts` follows where no reconciler rewrites it.

`ProjectLifecycleProofs`. For any set of keys, attempts, repair limit and number of faults. The
safety properties are not inductive: nothing in `DeletionWins` says that a project whose
delete has succeeded cannot be resumed. `IInv` says: `Grave`, that `deleted_at` agrees with
the status, is only written by the one delete job and never taken back; `Window`, that after
`due` only the purge has open jobs, no hook, scan or repair is pending, and a purge exists only
then; `Kept`, that until then volume, placement, secrets and keys are never lost, and that
whoever moves a project among the usable statuses acts on one that has them; `Backed`, that a
`final_backup` on record, a paused and a buried project each mean a backup; `Destroyed`, that
`remove_volume` on record and `deleted` mean the volume is gone. A step is reduced to what
the invariant sees of it once (`StepFacts`, `Moved`), all other actions likewise (`Others`),
and each part is then preserved by two cases. `Usability`, `Deletion`, `Restorability` and
`Implementation` follow.

`EndUserSessionsProofs`. For any requests, sessions and tokens, with lost connections and
statement timeouts. `LineageIsSingle` is not inductive, because a rotation spends the parent and
inserts the child in two statements. `IInv` adds: a request knows what it works on (`Sound`);
between its two statements a rotation holds the lock of a token that still works (`Holding`),
so nobody else spends or revokes it; a sign-out holds its sessions' rows until it has revoked
every token it selected, and all that work are among them (`Closing`), so no child appears
behind its back; token rows belong to opened sessions (`RowsFit`). `LineageSingle`,
`EndedDead`, `ShutForGood` and `Implementation` (of `SessionContract`) follow.

`AuthLinksProofs`. From `IsFiniteSet(Reqs)`, since what refusals are about to give back is
counted. `Base` holds the types, `Counting` (the counter is at least what was admitted plus
the refusals still to be given back) and `Carrying` (who carries which token). `Linked`: a
token lies in one link, a good link has opened nothing and nobody is signing in with it, and
one request signs in with a token. `Concluding`: when both links of a change are spent, the
request that spent the second has not finished. `Locking`: a job is active exactly as long as
some handler holds its lock, and one does. `Mail`: a token is posted by one request or
held by one job (`Apart`; a handler that has lost its job may carry the same token, of the same
kind), a job or handler that may still send a mail recorded as sent finds the row saying so,
unless the row was reset or the lock overrun (`Once`), and a queued row is owed. `OpensOnce`, `CapKept`,
`ChangesApplied`, `MailOwed` and `MailOnce` follow.

`StorageObjectsProofs`. On a path that is not excused, `Owned` says that one request, one
intent or one item of the sweep's lists is at work, and that a request meets only the intent it
completes; `Known`, that what this one operation has learned is still true (a request about to
write a row has its bytes in place, whoever deletes bytes has no row, a pending intent has no
row, a URL that outlives its intent has the size of the row). `RowsDescribe` follows. Each
step is proved where it is (`Here`) and frames every other path (`Elsewhere`).
`SweepThorough` rests on a second invariant, `Undisturbed`: while nobody else has touched rows or
bytes since the listing, the sweep's lists are the truth, pass by pass, but for the paths its
second pass has visited. `TrueUps` adds that
the counter the sweep has read is then still the counter (`Read`).

`Typing` is in two parts: `Base`, and `Rest`, in which the counter is a natural number because
the trigger stops at zero. `OvershootIsCrowded` is not inductive: an upload is admitted long
before its row counts. `Quota` says that, until two are admitted side by side or the sweep
rewrites the counter, the counter is the sum of the rows and within the plan, that all
requests and intents that may still write belong to one upload (`OneUpload`), and that there is
room for it over what its path has now (`Within`). Each statement changes counter and
rows by the same amount, which is a lemma per statement on the sum. `QuotaHolds` follows.

`SigningKeysProofs`. A key is used when it signs, names, has signed or is about to sign.
`Provisioning` says how far the first puts have come, for an unborn project; for one born with
one pair, `OwnHalves` (a row carries the public half of its own key), `Named` (a used key has
a row or is the published active one, and a private half under its own kid), `Place` (each
statement of a cut-over knows what its predecessors have left), `Settlement` (after a cut-over
the three secrets are one pair and the API keys are signed with it) and `Caching` (a document
that is read again, and that no cut-over crossed, covers every used key). `PublishedKeys`, `StoredVerify`,
`PrivateKept` and `CacheComplete` follow. Without `born = "whole"` they are false, as
`keys_partial` shows.

`Sums`. The community modules define the sum of a function over a finite set by recursion over
its subsets. The lemmas say that this recursion has a solution which does not depend on the set
it is started from, and what the proofs above need: an element more or less, one value changed,
a sum split in two, sums of equal functions, sums of naturals. The library's induction
theorems take an operator as a parameter, which the provers cannot instantiate; each induction
is therefore an argument about a smallest counterexample, from the well-foundedness of `<`.

Only model-checked is liveness: `EventuallyAnswered`, `RepairConverges`, `ZombiesStopped`,
`PurgeFinishes` and `EveryRequestEnds` (fairness and ENABLED are out of the provers' reach).
Every safety property that a passing run checks is a theorem, under the assumptions named here;
`PauseInterlock` and `MintedIsOnePair` are violated.

## 5. Plan

Built, with their theorems: `JobQueue`, `Placement`, `ProjectLifecycle`, `EndUserSessions`,
`AuthLinks`, `StorageObjects`, `SigningKeys`. What they still lack, in the order of what it adds:

1. `ProjectLifecycle`: a crashed project is eventually repaired (the reused repair keys
   stand against it), an idle project is paused again after a resume, a project marked failed
   can be retried or deleted, a `deleting` project is not turned back into `ready` by a late
   build, two lifecycle jobs do not run at once (the advisory lock of
   docs/02-control-plane/04-job-queue-and-workers.md); the restore and credential-rotation
   sagas with restore expiry.
2. Versions of secrets: two callers of `rotate` or `replace` at once, one active version,
   no version reused.
3. Backups (`BackupRuns`): a run row and the backup it stands for, and the proof of a destroyed repository.
4. The disk ladder (`DiskLadder`): a rung stored before it is applied, and `rungFor` against a reference.
5. `JobQueue` with two jobs and a batch of one, to see head-of-line blocking in the sweeper.
6. Membership: the last owner, and invitations accepted twice.

**Not modelled**, and not planned: SMTP, templates, SQL lexing, Docker calls, rendering and
the dashboard, which are text and I/O and make up most of the repository's lines; the schema
browser and the listings, which read; the rate limiter and pagination, which are one
expression each; images, infrastructure and generated types.
