# TLA+ models of the OWLBY telemetry pipeline

This directory holds TLA+ models of the EDR platform in this repository, the TLC
configurations that check them on small instances, and TLAPS proofs of the core
results for every instance. `PROJECT.json` maps every definition to the lines it
models and lists the runs, the mutants, the hazards, the findings and the theorems.

## The system

| Part | Source | State | Operations that change it |
|---|---|---|---|
| Agents (macOS, Windows) | `agents/` | SQLite event buffer, endpoint id | enqueue, select a batch, send, apply the answer, back off |
| Collector | `backend/collector.py` | none of its own | register, heartbeat, accept a batch and publish it to `telemetry.raw` |
| Event storage worker | `backend/workers.py` | Kafka offset, registry, ClickHouse, HOT metadata | claim, look up, guard, insert, publish, commit |
| Failure sink | `backend/failure.py` | S3 objects, `event_failures` rows | record, HEAD and PUT |
| Failure replay | `tools/replay_failure.py` | replay status of a failure | lock, republish, append the result |
| Detection worker | `backend/workers.py`, `detection.py` | alerts, incidents, links | insert alert, upsert incident, link |
| Dashboard rollup | `backend/rollup.py`, `storage/rollup.py` | rollup rows, coverage | buffer, flush, quarantine, backfill, reconcile |
| Storage lifecycle worker | `backend/archive_lifecycle.py` | S3 archives, `ingest_metadata` | export, verify, close a day, drop its partition, refresh restores |
| Archive restore | `backend/archive_service.py` | restore status of a bucket | request, refresh, expire |
| Endpoint registry | `storage/postgres.py` | endpoints, certificates, state | register, heartbeat, mark offline |
| Dashboard layouts | `backend/dashboard_layouts.py` | layout and its revision | upsert, delete |
| Risk and EDR state | `backend/policy/` | none | pure functions |
| Web API and frontend | `backend/main.py`, `frontend/` | sessions, local layout | login, logout, edits of alerts and incidents |

The parts meet in five stores. Kafka gives at-least-once delivery: a worker commits
the offset after it has settled a message, so every step up to the commit may be
repeated, by the same worker after a crash or by another one after a rebalance.
PostgreSQL is the only store with transactions; the claim transaction of an event id
stays open across the write to ClickHouse, and advisory locks named after a UTC day
keep ingest (shared) apart from the verification of an archive and from the deletion
of a partition (exclusive). ClickHouse and S3 have no transactions: a call that raises
may or may not have taken effect.

### Hard behaviours

* a crash, a lost answer or a rebalance between any two calls of a worker;
* a worker that lost its partition and goes on with its message;
* the same event id in two partitions, or with two payloads;
* late events that race the export, the verification and the deletion of their day;
* a failure recorded twice with different codes, or while operators replay it;
* a detection whose alert is stored and whose incident is not, and its later retry;
* analysts and the expiry sweep that change an incident which workers still extend;
* a lifecycle sweep that dies between closing a day and dropping its partition.

## Modules

| Module | What it is |
|---|---|
| `EventLedger` | Abstract specification: what the storage stage promises to the rest of the system. |
| `EventStorage` | The event storage workers with Kafka, the registry, ClickHouse, the HOT metadata and the failure sink; a coarse lifecycle worker as environment. |
| `EventStorageProofs` | TLAPS proofs about `EventStorage`. |
| `ArchiveLifecycle` | The lifecycle worker step by step, running beside the workers of `EventStorage`. |
| `FailureReplay` | Runs of the replay tool beside the worker that records the failure again. |
| `Detection` | The detection workers with alerts, incidents and links, the expiry sweep and the analysts. |
| `MCEventStorage`, `MCArchiveLifecycle`, `MCFailureReplay`, `MCDetection` | Instances for TLC. |

### EventStorage

A worker's control point `pc` names the call it makes next. `claim` covers parsing and
`EventIngestRegistryRepository.claim`; in `lookup` to `commitFound` its PostgreSQL
transaction is open, in `insert` and `commitNew` it also holds the shared lock of the
day. The uncommitted registry row and metadata writes are not in `registry`, `hot` and
`verified`: other workers see them only as a lock (`ClaimBlocked`, `BucketBusy`), and
`CommitClaim` writes them. A crash forgets them. The failure sink is three calls: the
HEAD (`failObject`), the PUT (`failPut`) and the failure row (`failRow`).

Data is abstract. The identity of an event in the code is endpoint, agent and payload
digest; here a message is an id, an endpoint and a payload, the payload fixes the UTC
day, and two messages with one id have the same identity exactly when they are equal.
`stored` is what `SELECT ... FINAL` returns, so a row inserted twice is one row.
`record` also rereads the status of the failure row; nothing but the replay tool can
change it, so that check is part of `FailureReplay`.

A payload that `_process` rejects (`Malformed`) is a permanent failure at once. One on
which `normalize_event` raises an error that `_process` does not expect (`Unreadable`,
for instance a payload that is not an object) fails every try and is recorded without
a code.

Assumptions about the environment: PostgreSQL makes a second insert of a key wait for
the first (`ClaimBlocked`, `BucketBusy`, marked external in the map); the broker refuses
the commit of a worker that no longer owns the partition (`CommitFenced`, which maps to
the call); a ClickHouse insert takes effect, if at all, before the call returns or
raises. The last one is part of `InsertError` and has no definition of its own. It is an
idealisation: the client gives up after `send_receive_timeout` (`runtime.py`), and an
insert that the server finished only after that would not be in the model.

### ArchiveLifecycle

`EventStorage` has four coarse lifecycle actions (verify, close, drop, mark). This
module replaces them by the steps of `_archive_completed_buckets` and
`_delete_verified_partitions`: choose a bucket and count, export without a lock, count
again under the day's exclusive lock and record; choose a day, refresh its rollup,
claim the deletion, drop the partition, mark the rows. `ImplementsStorage` says that
these steps do to the shared state only what the coarse actions allow, so what is
proved of `EventStorage` holds with the real worker. Time is abstract: `Age` lets the
safety window of a verified archive pass. One lifecycle worker runs, as in
`compose.prod.yaml`.

### FailureReplay

One failure row, of which ClickHouse reads the version with the greatest `updated_at`.
The worker takes `failed_at`, inserts its row, reads the status back and commits the
offset; when it reads anything but `FAILED` it rewinds and records again with a later
time. A replay takes its time when it is started, then the session lock, the row, the
object, the publish, and appends a result dated after the row it read (`ResultTime`).
The clock counts the milliseconds of `updated_at`. A worker's second record may hide a
replay result and start the replay count again (see Findings); `ResultsAreCounted` says
that runs of the tool do not do this to each other, and speaks of a failure that was
recorded once. `EventuallySettled` has one escape, `ClockIsSpent`: a result dated past
the bound of the clock hides the worker's row and no later time is left to take. A
worker that reads its own row back as `FAILED` does not satisfy it.

### Detection

One partition of `telemetry.validated` holds the messages of one endpoint, and incidents
belong to an endpoint, so one partition is enough. `alert`, `incident` and `link` are
the three transactions of a match in `_process`; `time` is the `detected_at` of the try,
`alertTime` the one of the stored alert. A message on which the parsing or the engine
raises an unexpected error (`Unreadable`, in `evaluate`) fails every try. The failure
sink is a single step, as `EventStorage` has its calls. Which rules match an event, and the correlation key and
window of a match, are constants: the engine is a pure function of the event. The rule
loader makes rules with one key agree on the window, so `window_end_at` belongs to the
key. `closed_at` follows from the status and is left out, as are title and description.

## Runs

| Run | Instance | What it shows |
|---|---|---|
| `storage_conflict` | 2 workers, 1 partition, 2 events of a bucket, a conflicting one, a rejected one, one on which every try raises, 2 faults | the safety properties and the refinement of the ledger when both workers hold the same message |
| `storage_two_partitions` | 2 workers, 2 partitions, 2 ids, 2 faults | the same id from two endpoints, and an event for a day that the lifecycle worker closed |
| `storage_live` | as `storage_conflict`, fair | every message is committed once faults stop, or its record collides |
| `storage_overwrite` | as `storage_conflict`, 3 faults | violation: see Findings |
| `archive_late` | 1 worker, 2 endpoints, 3 events, 1 day | an event whose guard committed is kept, an archive that is verified is complete, a closed day is rolled up |
| `archive_live` | 1 worker, 2 events, fair | a closed day is dropped in the end |
| `archive_crash` | as `archive_live` | violation: see Findings |
| `failure_replay` | 2 replays, clock to 4, 2 faults, fair | results of replays are not lost behind each other, none claims a publish that did not happen, and a worker whose record is hidden by a replay settles its message |
| `failure_replay_count` | 2 replays, clock to 4, 1 fault | violation: see Findings |
| `detection` | 2 workers, 2 messages, 4 events, 1 window, 2 faults, 1 edit | no detection is lost, incidents sum up their alerts, no worker takes back a status |
| `detection_live` | as `detection`, 1 fault, fair | every message is committed, a window that has passed closes its incident |
| `detection_first` | as `detection`, 3 messages | violation: see Findings |

Bounds. `MaxFaults` counts crashes, rebalances and failed calls together: two faults
give a rebalance followed by a crash or a lost answer of either worker, which is what
a second delivery of a message needs. `MaxRetries` is 1 where the code has 3: a retry
starts over from `claim` and remembers nothing but the count. `MaxLog` bounds the
messages of a partition; the second message of `detection` may be the first one again,
by redelivery or replay. `MaxClock` reaches the end of the window. The theorems hold for
all values of the constants of `EventStorage`.

Deadlock is not checked: with all messages committed and the bounds used up, the
system waits.

Fairness. `FairSpec` is weak fairness of each worker's own steps: `main` polls
forever, every call has a timeout, and the container restarts a process that ends.
Producers, faults and the lifecycle worker are not fair. `FairArchSpec` adds weak
fairness of the sweep, which runs in a loop; so does that of `Detection`, whose sweep
runs between two polls of the same loop. In `FailureReplay` the clock and the worker are
fair and the operators' runs are not: nobody has to start or finish one.

## Proofs

`EventStorageProofs` proves, for any sets of workers, partitions, events, endpoints,
payloads and days and any bounds:

* `TypeCorrect`: `Spec => []TypeOK`;
* `InvHolds`: `Spec => []Inv`, the inductive invariant;
* `IdentityIsUnique`, `RegistryIsHonest`, `DownstreamSeesRegistered`, `NothingIsLost`,
  `FailuresAreBacked`, `HotRowsHaveEvents`, `WorkersKeepOrder`: the invariants of the runs;
* `ClosedDaysStayClosed`: the action property `FrozenDayIsImmutable`;
* `StorageImplementsLedger`: `Spec => Ledger!Spec`, initial states and steps.

The only assumption is `StorageConstants`, on the constants.

None of the safety invariants is inductive alone. `OneIdentity` needs to know that a
worker about to insert still finds nothing under the id: `ClaimIsFresh` says that an
open claim excludes a registered row of the id, and that from the lookup on ClickHouse
holds nothing, or this very event; `ClaimsAreDisjoint` keeps another worker from
inserting meanwhile. `RegisteredIsStored` needs `DayIsOpen`: the shared lock keeps the
day from being dropped between the insert and the commit. `NoMessageLost` needs
`WorkIsDone` (what a worker has achieved when it reaches the commit) and `JobIsRead`
(the position it commits is the one it read, and the next one while the partition is
its own). `StorageInv` is the conjunction of these parts; TLC checks it in both storage
runs. The induction has one lemma per group of actions; `LocalMove` and `StoresFrame`
cover the many steps that only move one worker.

Liveness stays with TLC, as does everything about `ArchiveLifecycle`, `FailureReplay` and
`Detection` so far.

## Findings

* `archive_crash`: an insert lands but its transaction is lost, which also rolls back
  the guard's invalidation of the archive. The redelivery finds the event stored,
  registers it and skips the guard (`workers.py:208`), so an archive without the event
  stays verified and the day is dropped. `EDR_DATA_MODEL.md:156` says a late event
  takes the verification back.
* `storage_overwrite`: HEAD and PUT of the failure sink are not atomic. A worker that
  lost its partition and the new owner record the same message with different codes,
  and the second PUT overwrites the first (`failure.py:142`). `EDR_DATA_MODEL.md:144`
  says a differing checksum stops the overwrite.
* `detection_first`: an alert is stored, its incident is not, and the message ends as a
  failure. A later alert opens the incident; when the first message comes again, its
  alert is linked and `upsert` leaves `first_detected_at` as it is (`postgres.py:1168`),
  later than the time of that alert. `EDR_DATA_MODEL.md:328` calls it the time of the
  first alert.
* `failure_replay_count`: `record` writes `replay_count` 0 (`failure.py:112`). When the
  worker dies before the offset commit, the failure is replayed and the redelivery fails
  again, the new row hides the count. `EDR_DATA_MODEL.md:214` calls it the number of
  manual replays.

The collision that `_put_idempotent` refuses rewinds its message forever when every
delivery ends in another code than the recorded one. `EDR_DATA_MODEL.md:144` asks for
that refusal, so it is no finding; `EventuallyCommitted` exempts it and shows that
nothing else holds a partition up. `FailureIsBacked` speaks of an object under the key
of a failure row, not of one that `load_verified` accepts: after the overwrite of
`storage_overwrite` it does not, and payloads expire a week before their rows. Expiry is
not modelled.

## Plan

In order; each module is written so that its safety invariants can be proved.

1. `DashboardRollup`: buffering and flushing before the commit, poison messages, frozen
   days, backfill and reconciliation beside the lifecycle worker's barrier.
2. `AgentDelivery`: buffer, batch, partial acceptance, lost answers, capacity.
3. `ArchiveRestore`: request, refresh and expiry; one transaction around several buckets.
4. `EndpointRegistry`: concurrent registration, certificates, heartbeat against the
   offline sweep.
5. `DashboardLayouts`: optimistic revisions with deletion.
6. `RiskPolicy`: the pure risk and state rules against reference definitions.
7. Proofs of the invariants of `ArchiveLifecycle`, `Detection` (`NoDetectionLost`,
   `IncidentSummarisesAlerts`), `FailureReplay` and of the modules above.

Not planned: read-only queries and response formatting, loading of rule files,
migrations, provisioning and demo scripts, rendering in the frontend.
