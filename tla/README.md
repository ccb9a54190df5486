# FetchNow in TLA+

FetchNow takes a media link, inspects it, downloads one selected format and
delivers the file to the browser. Its backend is a set of processes that share
one PostgreSQL database and one artifact directory: the API, one or more
workers and a delivery server. A browser controller drives them, and a set of
command-line tools deploys them on one host. This directory models the parts in
which several of these meet: queues with leases and fence tokens, the quota slot
that follows a download, the ledger of delivered byte ranges, grants and
permits, payments, the artifact directory, the external tools and servers the
backend has to do with, the release journals, and the web client's chains of
requests.

## 1. Inventory

Paths are relative to `src/backend/src/fetchnow/` unless they start with `src/`.

| component | state | operations | what makes it correct |
|---|---|---|---|
| job API, `jobs/service.py`, `jobs/credentials.py` | rows by credential hash | create (idempotent by the client's token), read | one job per token, however requests overlap or are repeated |
| inspection queue, `jobs/repository.py`, `jobs/models.py` | rows of `media_jobs`: state, attempt count, lease owner and expiry, fence token, TTL, result | enqueue, claim, complete, fail, retry, release, renew, reclaim, expire | one live claim per row; a result comes from the last claim; a queued row has an attempt left; every row expires |
| worker loop, `jobs/worker_loop.py` | tasks in memory, stop event, heartbeats | poll (hygiene, claim), run a task, record its failure, stop and drain | a stop, crash or database error at any point leaves no row behind |
| URL safety and resolution, `network/`, `url/`, `resolution/`, `media_inspection/` | one loop's URL, method, hops, chain | probe, fetch, follow redirects and wrappers, bind the tool's target | requests stay where they were vetted for, the loop ends, the tool gets the resolved URL |
| download queue, `downloads/repository.py`, `models.py`, `states.py`, `progress.py` | rows of `media_download_jobs` with stage, percent, cancel request, artifact pointer | as the inspection queue, plus cancel, stage and percent updates, promotion | a cancel is never lost, progress never rewinds, the quota slot follows the job |
| download executor, `downloads/executor.py`, `process_download.py`, `byte_progress.py` | the plan of one attempt, watchdog, process group, size monitor, progress writer | run the stages of a direct or a muxed download, supervise a tool, commit ready | a stalled executor changes nothing that is not its own; nothing outlives a failed tool |
| artifact store, `downloads/artifacts.py` | workspaces, published artifacts on disk | publish, delete, sweep orphans | no referenced artifact is deleted, no orphan is kept |
| delivery server, `delivery/*`, `downloads/grant_*.py` | grants, permits, descriptors, open responses | issue and revoke grants, authorize, open, stream a range at a rate | a booked response starts with a good grant, nothing leaks, the range is the one asked for |
| delivery ledger, `quota/delivery.py` | active and closed byte ranges of a Free download | begin, checkpoint, finalize, reconcile | a slot is consumed exactly when every byte was handed out |
| quota, `quota/repository.py`, `service.py`, `policy.py`, `reconcile.py` | anonymous identities, entries (reserved, consumed, released, expired) | admit, reserve, consume, release, reconcile, prune | no more than the limit in a window, no reservation for ever |
| payments and premium, `payments/`, `premium/`, `downloads/promote.py` | orders, entitlements, tier of a job | order, callback, expire, ensure, promote, backfill | one entitlement per payment, Premium only if paid for |
| release tooling, `src/scripts/fetchnow_release/` | `current.json`, journals, images, schema, locks | rollout, rollback, migrate, bootstrap, configure, recover, plan | after a crash between any two steps, saved state, running images and schema agree or the journal says that they do not |
| runner of commands, `src/scripts/fetchnow_release/bounded_subprocess.py` | a process group, two reader threads, a deadline, a cancel token | run a command within time and output limits | "ok" is said only of a command that ended with its output read; after any other answer the group is gone |
| backup tooling, `src/scripts/fetchnow_pg_backup/` | backup directories, attestations, holds, temporary databases, root lock | create, verify, hold, prune, the session of a migration | the way back from a migration in doubt is kept, and what the root says of a backup is true |
| web client, `src/web/src/lib/media-flow/` | phase machine, credentials, recovery record, grant fields | submit, poll, enqueue, cancel, restore, arm, promote | late answers change nothing, no phase without work behind it |

The processes interact through the database, the artifact directory and files on
the host. A repository method is one statement or one transaction under row
locks; **between** two of them anything may happen, and that is what the models
interleave: a lease that runs out under a stalled task, a read that is stale
when the write comes, a cancel that lands before any step, a TTL that passes
while bytes are streamed, a callback that comes twice, an answer that is lost, a
process that dies, is stopped, or meets an error anywhere. The hazards of
`PROJECT.json` give each with its line and the properties against it.

## 2. Modules

| module | models | composes |
|---|---|---|
| `JobLifecycle` | the contract of a queue with its client: `_ALLOWED_TRANSITIONS` and the attempt budget | |
| `MediaJobQueue` | the inspection queue and its workers | implements `JobLifecycle` |
| `JobRequests` | the inspection job API | |
| `SafeResolution` | URL safety, the HTTP client, wrappers, the tool's target | |
| `ToolRun` | one supervised tool stage and its progress writer | |
| `DownloadJobs` | the download queue, executors, cancel, promotion, hygiene, reconciler, the public view | implements `JobLifecycle` |
| `ArtifactStore` | workspaces, publications, and the hygiene pass that deletes and sweeps them | |
| `IntervalUnion` | `normalize_intervals` | |
| `DeliveryAccounting` | the range ledger of one Free download | `IntervalUnion` |
| `ByteRanges` | `parse_single_byte_range` | |
| `DeliveryAccess` | grants, authorization, permits, descriptors, pacing | `ByteRanges` |
| `Commerce` | identities, rolling window, orders, callbacks, entitlements, promotion, retention | |
| `ReleaseState` | what the tools of a deployment host share | |
| `AppRollout`, `SchemaMigration`, `DbBootstrap`, `ConfigRollout`, `DeployPlan`, `BackupRetention` | one tool each | `ReleaseState` |
| `ReleaseHost` | one host with all of them | the seven above |
| `BackupVault` | the steps inside the backup commands | |
| `BoundedProcess` | one call of `run_bounded` | |
| `WebFlow` | the phase machine, the chains of requests, the recovery record | |
| `WebGrants` | the ready phase: grants and the upgrade | |
| `MC*` | finite instances for TLC | |
| `InspectionProofs`, `DownloadJobsProofs`, `ArtifactStoreProofs`, `CommerceProofs`, `DeliveryProofs`, `ReleaseProofs`, `HostProofs`, `WebProofs` | the theorems, see 4 | the modules they are about |

Several `MC` modules put independent components side by side: a variable `part`,
chosen in the first state, says which of them a behaviour runs, and the others
stay in their initial state. The checked states are the sum of the components',
not the product. `MCInspection` has four parts, `MCProgress` three,
`MCDelivery` four, `MCReleaseHost` three, `MCWeb` two.

**MediaJobQueue.** `row` is the table, `tasks` the coroutines `_run_claimed`
with the snapshot they were given, `proc` the life of each worker process. A
handler of the loop is one action per database step: `fail_retry` is
`FailRetryRead` and `FailRetryWrite`, because its SELECT takes no lock. The
value lists of the statements are operators on rows (`ClaimedRow`,
`ReclaimedRow`, ...), the WHERE clauses predicates (`Fenced`, `LeaseExpired`,
`Due`). `database_now()` is read before it is used: `Nows` lets it lag behind
`clock_timestamp()` by up to `MaxLag` ticks. A result is identified with the
fence of the claim that computed it; that is all the properties look at. A
restarted process draws a new random worker id; the model reuses the old name,
which asks more of the fence tokens than the code does.

**JobRequests.** A request is its program counter between two awaits: lookup,
resolve, insert, commit. `pending` is an uncommitted row, on whose unique key a
second insert waits. An answer may be lost after the commit, and any later
request with the same token is the client's retry.

**SafeResolution.** A URL is host, scheme and shape. `lookups` holds the two
address sets seen before a request; names may answer differently every time,
servers may answer anything. `sent` and `chain` are the history of requests and
the recorded chain.

**ToolRun.** The direct child, one descendant of its group (with or without the
inherited pipes), the bytes on disk, the size monitor, and the coalescing writer
with its gate. A kill reaches the group; a reap may fail. Steps run from one
await to the next, and a cancellation may come at each of them, also in the
middle of the termination.

**DownloadJobs.** A row holds the quota slot of its job, since every method
that moves the job locks and settles the entry in the same transaction. An
executor is a task with a program counter and the list of stages it still has
to do (`Plans`); subprocesses, HTTP and the artifact store are the step
`WorkEnds`, which succeeds, fails retryably or fails for good. The range ledger
is reduced to the set `live` of jobs with a live delivery lease;
`DeliveryAccounting` has the detail. `View` is what GET answers for a row.
`MEDIA_DOWNLOAD_CONCURRENCY` must be 1 (the settings reject other values), so a
worker runs one task.

**ArtifactStore.** `disk` holds the directories, each with the attempt (job and
fence) that made it, its mtime, and whether a removal has failed half-way.
`exec` is where each worker's executor stands in `execute`, `pass` what its
hygiene pass has read and how far it is. The reads of a pass are two steps
(`HygieneBegin`, `HygieneReferences`) and every removal is one, so that another
worker can publish, clean up and commit in between; within one worker `publish`
and `reconcile` do not yield and exclude each other. Published directories have
random names in the code; here they are named by the attempt in their manifest,
of which there is one per publication. Two durations are assumed to be shorter
than the grace period, which nothing in the code enforces: from the reads of a
pass to its sweep (`MaxPass`), and the copy into the staging directory
(`MaxCopy`), since a staging directory is removed by its age alone. The time
from publication to the ready commit is not bounded: `core/config.py` asks for
a grace "well above" it, but it is the active fence, read first, that protects
that window.

**DeliveryAccounting.** One Free job that is ready, with a reserved slot.
Responses begin, send, checkpoint and finalize; a failed or missing
finalization leaves the row until its lease is stale. `sent` is a history
variable with the bytes that were really handed out. Offsets are in chunks.

**DeliveryAccess.** A content request is its program counter with what it holds
(permit, descriptor). Opening the artifact is the reader's steps: walk to the
directory, check the manifest, open the media file, between any two of which
hygiene may delete an entry (`Walk`, `CheckManifest`, `OpenMedia`,
`DeleteEntry`). A request may be cancelled at every await. `Drop` is a response
that the server never iterates: no `finally` runs, and the model leaves its
permit and descriptor held, as the code does; `NothingIsLeaked` speaks of the
requests that reach one of their own exits. What `begin` makes of a request
hangs on the download's `policy` and quota `entry`, which the promotion
(`UpgradeJob`), the booking of the last byte (`Charge`) and the expiry change
while requests are under way. A request authorized as Premium, or whose
download has no entry (made with the quota off), is not booked: `begin` returns
before it takes a lock or authorizes again (`quota/delivery.py:100-109`), so
such a response may start although its grant was evicted, revoked or ran out
since it was authorized. ADR 0016 (lines 62-64) and the comment at
`delivery/service.py:202` accept that, and `DeliveryIsAllowed` speaks of the
booked ones (`Accounted`). A booked one is authorized again under the locks
(`Revalidated`) and refused when its slot was given back. `UpgradeJob` leaves
out that an upgrade is refused while a lease is live, and whether the coverage
is complete is a choice here: both are in `DeliveryAccounting` and `Commerce`.

**Commerce.** Every handler holds the client's row, so it is one step; a
handler that reads the clock first works with a `now` that is up to `MaxLag`
ticks old. A callback is two steps, its unlocked read and its locked write. The
job and the delivery are reduced to what the quota reads of them.

**Release host.** Every journal event is a step together with the operation that
follows it; a tool may meet an error or be killed between any two. `proc[p]` is a
tool's memory, lost with its locks when it dies. Releases, heads and settings
are model values; building, verifying and probing a release are outcomes.

**BackupVault** is the backup root that `BackupRetention` shows the release
tools as one step per command, step by step: a directory has a name, files, a
dump and the attestations written into it; a session may meet an error at any
command and be killed between any two. A backup of which prune removed only the
dump still has its manifest, so the listing still offers it; the history
variable `condemned` keeps such a backup apart. Attestations are kept in the
order of their writing; `latest_attestation` sorts them by file name, which
within one second puts "passed" after "failed".

**BoundedProcess.** The calling thread, the two reader threads and a process
group of a leader and one descendant, which may keep a pipe open, ignore SIGTERM
and outlive its leader. Time is what may have passed. A descendant that leaves
the group with `setsid` is outside what the runner promises (a command with one
such descendant returned after its descendant, not after its timeout) and is
not modelled.

**Web client.** A chain of one generation runs from await to await. A new flow
aborts the signal of the old one and gives the machine a new generation; what
the old chain does when its answer comes is for its own checks to decide, and
two of its handlers act before they check: `DroppedFile` and `DroppedResume`. The
server is reduced to the states a poll tells apart.

## 3. Runs

| run | instance | what it shows |
|---|---|---|
| `inspection` | queue: 1 job, 2 workers with 2 slots, lag 1, lease 1, TTL 3, time 3, 1 fault; API: 2 requests, 2 tokens, 2 links; resolution: 13 URLs on 8 hosts, 2 redirects, depth 2; tool: limit 1 of 2 units, 1 database error | rows are well formed, results come from the last claim, a live claim is exclusive, outcomes are final, the queue implements `JobLifecycle`; one job per token; requests are confined and the tool gets the resolved URL; a run is accounted for; everything ends |
| `download_queue` | 1 job, 2 executors, 1 fault, lease 1, TTL up to 2 | constraints, slot, artifact, cancel, progress, delivery and public view stay coherent; implements `JobLifecycle` |
| `download_progress` | jobs: 1 job, 1 executor, ready-compatibility mode; store: 1 worker, 2 claims, grace 2, time 5; ledger: 2 responses, 2 chunks | jobs, slots, directories and deliveries are settled in the end |
| `artifact_store` | 1 job, 2 workers, grace 2, 1 fault, 2 claims | what a row points to and what a live attempt uses stays on disk |
| `delivery` | ledger: 2 responses, 3 chunks; access: 2 grants, 2 requests, 1 permit, 1 active grant, 2 bytes, 3 kinds of download; union: every set of intervals over 0..3; accounts: 2 clients, 2 downloads, 1 order, limit 1, window 2 | the ledger is honest and charges exactly complete delivery; permits, descriptors and ranges; no booked response starts with a dead grant or slot, throttled ones are paced; the window, payments, entitlements, promotion and retention |
| `release_host` | host: 3 releases (one with a new schema), 2 operators, 2 settings, 3 tools, 2 faults; vault: 2 backups, keep 1, 3 sessions, 1 trouble; process: any group of two | journals are sound, saved state, running tiers and schema agree, the way back is kept, plans and reports are true, no step undoes what was settled; everything started returns |
| `web_client` | 2 submissions, 4 generations; 2 ready flows, 2 grant requests, grant life 4 | the screen is coherent, the record follows the flow, the visitor is never stuck, stale chains are silent but for what a rejected restore forgets, work ends |
| `download_get_view`, `delivery_fragment_bound`, `free_limit`, `release_recovery`, `web_grant` | as above, small | **violations**, see 6 |

A property of a run is often a conjunction of named parts, each with its own
comment beside it: `RunIsAccountedFor` is four statements about one tool's run,
`SlotFollowsTheDownload` three about an entry, `SavedStateIsTruthful` four about
a host. `delivery` and `release_host` are the long ones, 1.2 million and 440 000 states,
with two and a half minutes and two. A download of the access part is Free and
throttled with its entry, Free and unthrottled without one, or Premium, when its
artifact agrees with its row; for the other artifacts, whose responses never begin, one kind is
enough.

Bounds. Every property of a queue speaks of one job; rows interact only through
the batch of a claim, so one job is enough for TLC, and the batch of several
jobs is covered by the proofs. Two workers, and two slots in one of them, give
every way in which two claims of a row can overlap; the third claim of a row
meets nothing the second did not, since a claim knows only its own fence. Two
attempts reach both sides of the budget. Lease, TTL and `MaxTime` are chosen so
that a lease can run out, be reclaimed and claimed again before the TTL, and the
clock reaches the TTL. Two requests are enough for every race of the job API,
whose rows are per token. Two redirects and two wrappers reach a loop, a change
of host and the limits. Two responses over three chunks reach overlapping,
nested, touching and disjoint ranges; the fragment run has three. Limit 1 with
two downloads and a window of two ticks reaches admission at the limit, a slot
given back and one that leaves the window; a retention of three ticks lets a
success be pruned. Three tools and two faults reach a rollout that dies, its
recovery that fails, and a second recovery, and a migration beside prune.
`MaxFaults` bounds crashes, stops, database and filesystem errors together. For
the artifact store, time 3 with a grace of 2 lets an entry age out after a pass
has read the tables but before it sweeps, and a limit of one removal per pass
makes the sweep stop with work left. Four generations let two abandoned flows
answer into a third. Responses, requests, grants, downloads, clients, workers are
interchangeable where a `SYMMETRY` is declared; the runs with liveness declare none.

Fairness. Time passes (`Tick`). A live worker polls: `run` loops until the stop
event, and a failed hygiene step is logged and does not end the loop, so
`PollHygiene`, `ClaimInspectionJobs` and `Hygiene` are weakly fair. Compose
restarts a dead worker and a stopping one drains its tasks, whose releases are
short transactions: these steps together are `WindDown`. A delivery of
`DownloadJobs` ends or its lease runs out (`EndDelivery`); in
`DeliveryAccounting` that is not assumed but follows from the finite ranges. In
`ArtifactStore` a worker's hygiene steps are weakly fair, and so is the end of
`publish`, which runs without an await. A request of the API goes on (`Served`),
since each of its awaits has a timeout; so do a lookup (`Working`), the
supervision of a tool and its writer (`Runner`, `Writer`), but not the tool, a
release tool that is running (`Running`: none of them waits without a limit),
and an answer of the server to the browser, which is an answer or a failure
(`Answers`). Nothing is assumed of inspections, executors, heartbeats or
clients.

Liveness is written `[]<>P` where P says that nothing is left undone. What is
undone stays undone until the steps in question end it, and new work is
bounded, so this says the same as the leads-to form for each item.

Deadlock is checked in the download queue, the artifact store and the release
host; behaviours of the other runs end when a part is over: the requests are
answered, the tool has run, the download has expired, the inputs are used up.

## 4. Proofs

Every invariant and every action property of the passing runs is also a theorem
for all values of the constants; only liveness is left to TLC. The
theorems a reader should know of are listed in `PROJECT.json`. The assumptions
are the ones the modules state about their constants (`QueueAssumption`,
`DownloadAssumption`, `StoreAssumption`, `LedgerAssumption`, ...): positive
limits and periods, the order the settings enforce between them, and that "no
worker", "no job" and the like are not workers or jobs. On the release host
`HeadsAssumption` also tells the schema states "none" and "partial" apart, and
`DocumentAssumption` a saved `current.json` from none at all.

None of the invariants is inductive as it stands. What each module adds:

- `InspectionProofs`. The queue (`TypeCorrect`, `Safety`, `LiveClaim`,
  `FinalOutcome`, `FencesAreFresh`, `Refinement`): `IInv` adds, for every row,
  that no fence issued to a claim is above the row's fence, and for every task
  that its fence was issued and that, while a task about to requeue still matches
  the row, the row has an attempt left. The last part is what makes the unlocked
  read of `fail_retry` safe: the fence binds the attempt count that was read to
  the row the UPDATE matches. One lemma (`RowSteps`) classifies how any step
  changes a row; the action properties and the refinement follow from it. The
  rest of the inspection side (`OneJob`, `RequestsAreConfined`,
  `ToolUrlIsResolved`, `RunAccounting`, `InspectionIsWellFormed`) has three
  invariants: `RequestInv` (rows are made, never changed, and what a request was
  told is the row of its token), `ResolutionInv` (what was vetted at each await
  is what is sent after it), `ToolInv` (what the supervisor has read, killed and
  reaped).
- `DownloadJobsProofs` (`RowsAreWellFormed`, `SlotSafety`, `ArtifactSafety`,
  `CancelIsKept`, `DeliveredArtifactStays`, `ShownIsMonotone`, `Refinement`).
  Every statement of the repository is shown once to be a good change of a row
  (`GoodStep`): it keeps `RowInv` and moves the row only as the action properties
  and the lifecycle allow. Each step then only has to be such a change, and each
  task to fit its row (`TaskInv`).
- `ArtifactStoreProofs` (`ReferencesAreSafe`, `LiveAttemptsAreSafe`). A pass
  spares what it found active or referenced; what it did not find was claimed
  after its reads, hence is younger than they are and within the grace period
  when the sweep begins (`PassOK`). Staging directories are safe by their age
  alone (`StageOK`). This is where `MaxPass` and `MaxCopy` are needed.
- `DeliveryProofs` (`CanonicalUnion`, `HonestLedger`, `ChargedLedger`,
  `SoundResponses`, `AllowedDelivery`, `KeptLimits`, `KeptBooks`).
  `CanonicalUnion` says what `normalize_intervals` returns for every finite set
  of intervals; since the provers have no induction over data it is done with
  the least counterexample: the smallest set for which the recursion goes wrong
  has a last interval, without which it goes right. `LedgerInv` relates each
  response's row in the ledger to what it has sent; `AccessInv` each request's
  program counter to the permit and the descriptor it holds, and says that a
  promoted download holds no reservation (`JobOK`).
- `CommerceProofs` (`PaidPremium`, `SettledSlots`; `QuotaLimits` and
  `AccountsAreKept` go into `KeptLimits` and `KeptBooks`). `PairOK` says which
  state a quota entry may be in while its job is in which. The reservation limit
  is carried by the invariant: an admission compares it with what was held at an
  older clock, and that is never less than what is held now. The reset time is
  the least number at which a slot is free.
- `ReleaseProofs` (`HonestReport`, `SoundVault`). `ProcessInv` says by the
  caller's position whether the group may have been signalled and who set the
  event; `VaultInv` what a session has established at each step about the
  backup it works on. The module also begins the proof of the release host:
  `HostInv` and the steps of a deployment and of its recovery.
- `HostProofs` (`HostInvariance`, `SoundJournals`, `TruthfulState`, `WayBack`,
  `HonestAnswers`, `NothingUndone`). `HostInv` says, beside the types: who is past
  a lock holds it (`LockInv`), and no two migrations work on one journal
  (`JournalsAreOwned`); at most one transaction is unresolved, and a deployment
  only as the last of its journals; status, result, hold and backup of a journal
  fit; the releases a rollback may go back to are in the saved envelope; until a
  migration reaches Alembic the database is as saved, and from its hold to its
  end its backup is there (`SavedOK`); and, for each tool and each of its steps,
  what its gates established and is still so (`ProcOK`). There is one lemma per
  action of the seven tools. A step of one tool keeps what another relies on for
  one of two reasons: the other holds the lock that the step would need, or it
  relies on a fact that no step takes away. Of the second kind are the backups a
  prune means to delete, which stay older than the newest ones whatever else is
  removed, and the journal of a migration that failed and gave up its locks: it
  may still write its terminal status, but not over a result that is there.
  `SavedOK` without `ProcOK` is not inductive: an unresolved journal alone does
  not say that the operation its next event reports was done.
- `WebProofs` (`CoherentScreen`, `WayOn`, `FollowedRecord`, `SilentChains`).
  `FlowInv`: the phase fixes at which await the current chain can stand, whose
  job the fields hold and whether a cancel can be under way; of older chains, that
  they are aborted and cannot forget a download that is shown. A download to
  restore is there only in a restored session, which `SilentChains` needs. `GrantInv`: a link
  that is shown has a timer in time, or the retry button.

Only model-checked: liveness (`EverythingEnds`, `EverythingSettles`,
`EverythingReturns`, `WorkEnds`), which needs fairness and ENABLED; and of course
the runs that expect a violation.

Proofs do not use the bounds of the runs: `MaxOps`, `MaxFaults`, `MaxSessions` and
the like are any natural numbers, and occur only in guards.

## 5. Mutants

Every property of a passing run has a mutant: an operator beside the definition
it changes, with a plausible mistake in it (a dropped fence, a lease compared
the wrong way round, a slot not given back, touching ranges not merged, a group
not killed because its leader had exited, an answer of an old flow applied) that
makes TLC find the property violated.

## 6. Findings

Shown by a run that expects a violation:

- **GET between the TTL and the hygiene pass** (`download_get_view`).
  `service.py` prefers "an authorized expired view over making the job
  unobservable", but the forced view of a ready row still has its bytes, and of a
  downloading row its percent, and both are refused with an internal error.
- **Fragment bound of the ledger** (`delivery_fragment_bound`). `begin` counts
  the first byte of every active attempt, which can bridge a gap in the count
  without being served; the closed fragments can exceed the bound at `finalize`,
  which then fails, as does every later reconciliation of the entry.
- **The Free limit and a stale clock** (`free_limit`). `admit_locked` reads
  `database_now()` before it waits for the client's row; a success booked during
  the wait is counted neither as used nor as reserved.
- **A recovery that cannot be recorded** (`release_recovery`).
  `recover_deployment` does all its work and then appends a status the journal's
  table does not allow from where the crash left it; the deployment stays
  unresolved.
- **A revoked link after the upgrade** (`web_grant`). A focus event during the
  Premium upgrade arms a Free grant, the promotion revokes it, and the page keeps
  offering it.

Met while modelling, in the models as the code has them, without a run:

- `rollout.py:716`: when `current.json` is written and the COMMITTED event
  fails, the rollback leaves `current.json` on the target, although the comment
  at line 310 wants it on the previous release.
- `migration_recover.py:308`: the hash expected after the migration is of a
  compact document, the file is written indented; a recovery after a crash
  between publication and event cannot recognise its own state.
- A migration that dies without a result before `state_committed` is refused by
  every recovery; a bootstrap result `requires_recovery` is never replaced and
  blocks the rollout; a hold whose release failed once cannot be released again.
- `migrate.py:750`: the handler does not name the lock and command errors of the
  backup session, so the journal stays at `backup_started`.
- `config_rollout.py:412`: the live heads are read before the lock and compared
  after the rollback; a migration in between turns a good rollback into
  `rollback_failed`.
- The compatibility envelope is carried over across migrations, where
  `docs/infrastructure/28-dual-application-database-state.md` says that nothing is inferred transitively.
- `quota/repository.py:253`: the removal of expired identities looks at quota
  entries only, while orders and entitlements refer to them with ON DELETE
  RESTRICT; one such identity aborts the pass, every time.
- `delivery/routes.py:372`: a response that is never iterated keeps its permit
  and descriptor.
- `controller.ts`: `enqueueDownload` goes on after an await without a look at the
  generation (1002, 1034); lines 788 and 919 clear the download to restore before
  that look, so that the late rejection of an earlier restore, of a page that came
  back from the bfcache and restored again, makes the current restore forget its
  download (a browser that rejects the aborted request before it freezes the page
  never gets there, but nothing in the code rests on it; `StaleChainIsSilent`
  states exactly this one exception); a poll
  that sees "cancelled" before the answer of `cancelTask` shows a generic error;
  a failed poll of a restored session leaves the phase "downloading" without a
  task; the first tick of a restored session stores a record without the
  download.
- `jobs/service.py:167`: the resolution of a URL, with its network requests, is
  awaited inside the open session of the lookup.

## 7. Plan

Done: every component of section 1 that is to be modelled has a module, and
every safety property of a passing run has a proof.

Not modelled, and not planned: the characters of URLs, pages and metadata, the
yt-dlp and ffmpeg argument builders, the format selection and its codecs,
logging, configuration, the files of the schema migrations, and the static
checks `dependency_audit.py` and `compose_contract_check.py`. They are sequential
transformations of strings and have no state that steps could disturb; their
limits appear here as constants. Row locks of PostgreSQL are not modelled
either: a transaction is one step, so lock-order deadlocks, which the database
breaks by aborting one transaction, are outside these models.
