---------------------------- MODULE EventStorage ----------------------------
(***************************************************************************)
(* The Event Storage Worker (backend/workers.py) and the stores it writes: *)
(* it consumes telemetry.raw, claims the event id in the PostgreSQL        *)
(* registry, writes the event to ClickHouse under the claim transaction,   *)
(* publishes it to telemetry.validated, and commits the Kafka offset.  A   *)
(* message that cannot be processed goes to the failure sink (an S3 object *)
(* and a ClickHouse failure row) before its offset is committed.           *)
(*                                                                         *)
(* Several workers run in one consumer group.  Every call to a store may   *)
(* fail, with or without having taken effect; a worker may die between any *)
(* two calls; a partition may be given to another worker while its message *)
(* is being processed.                                                     *)
(*                                                                         *)
(* An event's identity in the code is (endpoint_id, agent_id,              *)
(* payload_sha256).  Here a message is an id, an endpoint and a payload:   *)
(* the payload stands for agent_id and payload_sha256, and fixes the UTC   *)
(* day of occurred_at.  Two messages with the same id have the same        *)
(* identity exactly when they are equal.                                   *)
(***************************************************************************)
EXTENDS Naturals, Sequences

CONSTANTS
    Worker,        \* processes of the event-storage consumer group
    Partition,     \* partitions of telemetry.raw
    EventId,
    Endpoint,
    Payload,
    Day,           \* UTC days, the partitions of the ClickHouse table
    PartitionOf,   \* partition of an endpoint: messages are keyed by endpoint_id
    DayOf,         \* UTC day of a payload's occurred_at
    Malformed,     \* payloads rejected with an error that _process expects
    Unreadable,    \* payloads on which normalize_event raises another error
    Sent,          \* messages that producers put on telemetry.raw
    MaxRetries,    \* length of RETRY_DELAYS_SECONDS (3 in the code)
    MaxLog,        \* bound on the messages of a partition
    MaxFaults      \* bound on crashes, rebalances and failed calls

Message == [id : EventId, endpoint : Endpoint, payload : Payload]

ASSUME StorageConstants ==
    /\ PartitionOf \in [Endpoint -> Partition]
    /\ DayOf \in [Payload -> Day]
    /\ Malformed \subseteq Payload
    /\ Unreadable \subseteq Payload
    /\ Malformed \cap Unreadable = {}
    /\ Sent \subseteq Message
    /\ Sent # {}
    /\ MaxRetries \in Nat
    /\ MaxLog \in Nat
    /\ MaxFaults \in Nat

\* Codes a failure is recorded with; "NONE" is the null code of an exhausted
\* retry that has no code of its own, and the code of a worker with no failure.
RetryableCode == {"NONE", "EVENT_INGEST_LOCK_TIMEOUT"}
PermanentCode == {"ARCHIVED_DAY_IMMUTABLE", "EVENT_IDENTITY_CONFLICT", "INVALID_MESSAGE"}
FailureCode == RetryableCode \cup PermanentCode

VARIABLES
    raw,          \* telemetry.raw: a log per partition
    committed,    \* committed offset of a partition, as a number of messages
    owner,        \* worker a partition is assigned to
    pc,           \* where a worker is
    job,          \* message a worker holds, with its partition and position
    tries,        \* retries of the current message so far
    code,         \* code of the failure being recorded
    registry,     \* committed rows of event_ingest_registry
    stored,       \* rows of edr_events, as FINAL reads them
    validated,    \* messages on telemetry.validated
    hot,          \* HOT row of an (endpoint, day) in ingest_metadata
    verified,     \* (endpoint, day) whose S3 row has archive_verified_at set
    objects,      \* failure payload objects in S3
    failureRows,  \* rows of event_failures
    faults        \* faults so far

brokerVars == <<raw, committed, owner>>
workVars   == <<pc, job, tries, code>>
storeVars  == <<registry, stored, validated>>
metaVars   == <<hot, verified>>
sinkVars   == <<objects, failureRows>>
vars == <<brokerVars, workVars, storeVars, metaVars, sinkVars, faults>>

Bucket == Endpoint \X Day
DayOfMsg(m) == DayOf[m.payload]
BucketOf(m) == <<m.endpoint, DayOfMsg(m)>>

\* "absent": no HOT row; "hot": an active one; "deleting": is_delete with the
\* partition still there; "dropped": partition_deleted_at is set.
HotState == {"absent", "hot", "deleting", "dropped"}

\* A worker between two calls.  In "lookup" .. "commitFound" it holds an open
\* PostgreSQL transaction with its uncommitted registry row; in "insert" and
\* "commitNew" that transaction also holds the shared lock of the day.
Control == {"idle", "claim", "lookup", "guard", "insert", "commitNew",
            "commitFound", "publish", "failObject", "failPut", "failRow", "commit"}

Job == [part : Partition, off : Nat, msg : Sent]
NoJob == [part |-> CHOOSE p \in Partition : TRUE, off |-> 0, msg |-> CHOOSE m \in Sent : TRUE]

FailureRecord == [part : Partition, off : Nat, code : FailureCode]

Claims(w) == pc[w] \in {"lookup", "guard", "insert", "commitNew", "commitFound"}
HoldsDay(w) == pc[w] \in {"insert", "commitNew"}
FailureOf(w) == [part |-> job[w].part, off |-> job[w].off, code |-> code[w]]

\* hot_ingest_guard: some HOT row of the day is closed or its partition is gone.
Frozen(d) == \E e \in Endpoint : hot[<<e, d>>] \in {"deleting", "dropped"}

Init ==
    /\ raw = [p \in Partition |-> <<>>]
    /\ committed = [p \in Partition |-> 0]
    /\ owner \in [Partition -> Worker]
    /\ pc = [w \in Worker |-> "idle"]
    /\ job = [w \in Worker |-> NoJob]
    /\ tries = [w \in Worker |-> 0]
    /\ code = [w \in Worker |-> "NONE"]
    /\ registry = {}
    /\ stored = {}
    /\ validated = {}
    /\ hot = [b \in Bucket |-> "absent"]
    /\ verified = {}
    /\ objects = {}
    /\ failureRows = {}
    /\ faults = 0

-----------------------------------------------------------------------------
(* What a worker's step does to its own state.                             *)

Fault == faults < MaxFaults /\ faults' = faults + 1

Goto(w, label) == pc' = [pc EXCEPT ![w] = label] /\ UNCHANGED <<job, tries, code>>

\* Back to polling: the message was committed, rewound, or lost with the process.
Release(w) ==
    /\ pc' = [pc EXCEPT ![w] = "idle"]
    /\ job' = [job EXCEPT ![w] = NoJob]
    /\ tries' = [tries EXCEPT ![w] = 0]
    /\ code' = [code EXCEPT ![w] = "NONE"]

\* Mutant: the failure row is written without the payload object.
Fail_RowFirst(w, c) ==
    /\ pc' = [pc EXCEPT ![w] = "failRow"]
    /\ code' = [code EXCEPT ![w] = c]
    /\ UNCHANGED <<job, tries>>

\* The message is given up with a code: it goes to the failure sink.
Fail(w, c) ==
    /\ pc' = [pc EXCEPT ![w] = "failObject"]
    /\ code' = [code EXCEPT ![w] = c]
    /\ UNCHANGED <<job, tries>>

\* Mutant: one retry too many.
TryFails_OneMore(w, c) ==
    \/ /\ tries[w] <= MaxRetries
       /\ tries' = [tries EXCEPT ![w] = @ + 1]
       /\ pc' = [pc EXCEPT ![w] = "claim"]
       /\ UNCHANGED <<job, code>>
    \/ /\ tries[w] > MaxRetries
       /\ Fail(w, c)

\* run_with_retries: the try failed with an error that is worth another one.
TryFails(w, c) ==
    \/ /\ tries[w] < MaxRetries
       /\ tries' = [tries EXCEPT ![w] = @ + 1]
       /\ pc' = [pc EXCEPT ![w] = "claim"]
       /\ UNCHANGED <<job, code>>
    \/ /\ tries[w] = MaxRetries
       /\ Fail(w, c)

-----------------------------------------------------------------------------
(* Producers and the consumer group.                                       *)

\* The collector, or the replay tool, gets a message acknowledged by the broker.
Produce(m) ==
    LET p == PartitionOf[m.endpoint]
    IN  /\ Len(raw[p]) < MaxLog
        /\ raw' = [raw EXCEPT ![p] = Append(@, m)]
        /\ UNCHANGED <<committed, owner, workVars, storeVars, metaVars, sinkVars, faults>>

\* consume_one: the fetch position is the committed offset, since a worker
\* commits or rewinds every message before it polls again.
Consume(w, p) ==
    /\ pc[w] = "idle"
    /\ owner[p] = w
    /\ committed[p] < Len(raw[p])
    /\ pc' = [pc EXCEPT ![w] = "claim"]
    /\ job' = [job EXCEPT ![w] = [part |-> p, off |-> committed[p] + 1,
                                  msg |-> raw[p][committed[p] + 1]]]
    /\ UNCHANGED <<brokerVars, tries, code, storeVars, metaVars, sinkVars, faults>>

\* A partition moves to a worker that is polling.  The previous owner is not
\* told: it goes on with its message and finds out when it commits.
Rebalance(p, w) ==
    /\ Fault
    /\ pc[w] = "idle"
    /\ owner[p] # w
    /\ owner' = [owner EXCEPT ![p] = w]
    /\ UNCHANGED <<raw, committed, workVars, storeVars, metaVars, sinkVars>>

\* The process dies; PostgreSQL rolls its transaction back and frees its locks.
Crash(w) ==
    /\ Fault
    /\ pc[w] # "idle"
    /\ Release(w)
    /\ UNCHANGED <<brokerVars, storeVars, metaVars, sinkVars>>

-----------------------------------------------------------------------------
(* EventStorageWorker._process: one try.                                   *)

\* Mutant: a message that cannot be parsed is rewound, not recorded.
RejectMalformed_Rewind(w) ==
    /\ pc[w] = "claim"
    /\ job[w].msg.payload \in Malformed
    /\ Release(w)
    /\ UNCHANGED <<brokerVars, storeVars, metaVars, sinkVars, faults>>

RejectMalformed(w) ==
    /\ pc[w] = "claim"
    /\ job[w].msg.payload \in Malformed
    /\ Fail(w, "INVALID_MESSAGE")
    /\ UNCHANGED <<brokerVars, storeVars, metaVars, sinkVars, faults>>

\* An error outside the list of _process (a payload that is not an object has
\* no get) is not permanent: every try ends in it.
NormalizeRaises(w) ==
    /\ pc[w] = "claim"
    /\ job[w].msg.payload \in Unreadable
    /\ TryFails(w, "NONE")
    /\ UNCHANGED <<brokerVars, storeVars, metaVars, sinkVars, faults>>

WellFormed(w) == job[w].msg.payload \notin Malformed \cup Unreadable

\* Mutant: an uncommitted registry row does not block a second claim.
ClaimBlocked_Never(w) == FALSE

\* Another worker holds an uncommitted registry row for the same event id.
ClaimBlocked(w) == \E v \in Worker : v # w /\ Claims(v) /\ job[v].msg.id = job[w].msg.id

RegistryRow(id) == {r \in registry : r.id = id}

\* Mutant: the claim is committed before the event is stored.
ClaimCreated_Autocommit(w) ==
    /\ pc[w] = "claim"
    /\ WellFormed(w)
    /\ ~ClaimBlocked(w)
    /\ RegistryRow(job[w].msg.id) = {}
    /\ registry' = registry \cup {job[w].msg}
    /\ Goto(w, "lookup")
    /\ UNCHANGED <<brokerVars, stored, validated, metaVars, sinkVars, faults>>

\* INSERT ... ON CONFLICT DO NOTHING returned a row.
ClaimCreated(w) ==
    /\ pc[w] = "claim"
    /\ WellFormed(w)
    /\ ~ClaimBlocked(w)
    /\ RegistryRow(job[w].msg.id) = {}
    /\ Goto(w, "lookup")
    /\ UNCHANGED <<brokerVars, storeVars, metaVars, sinkVars, faults>>

\* The id is registered with the same identity: only the publish is left.
ClaimExisting(w) ==
    /\ pc[w] = "claim"
    /\ WellFormed(w)
    /\ ~ClaimBlocked(w)
    /\ job[w].msg \in registry
    /\ Goto(w, "publish")
    /\ UNCHANGED <<brokerVars, storeVars, metaVars, sinkVars, faults>>

ClaimConflict(w) ==
    /\ pc[w] = "claim"
    /\ WellFormed(w)
    /\ ~ClaimBlocked(w)
    /\ RegistryRow(job[w].msg.id) # {}
    /\ job[w].msg \notin registry
    /\ Fail(w, "EVENT_IDENTITY_CONFLICT")
    /\ UNCHANGED <<brokerVars, storeVars, metaVars, sinkVars, faults>>

\* lock_timeout expires while the other claim is still open.
ClaimTimeout(w) ==
    /\ pc[w] = "claim"
    /\ WellFormed(w)
    /\ ClaimBlocked(w)
    /\ TryFails(w, "EVENT_INGEST_LOCK_TIMEOUT")
    /\ UNCHANGED <<brokerVars, storeVars, metaVars, sinkVars, faults>>

StoredRow(id) == {r \in stored : r.id = id}

\* Mutant: the stored identity is not looked up.
LookupAbsent_Skip(w) ==
    /\ pc[w] = "lookup"
    /\ Goto(w, "guard")
    /\ UNCHANGED <<brokerVars, storeVars, metaVars, sinkVars, faults>>

\* events.identity: nothing is stored under the id.
LookupAbsent(w) ==
    /\ pc[w] = "lookup"
    /\ StoredRow(job[w].msg.id) = {}
    /\ Goto(w, "guard")
    /\ UNCHANGED <<brokerVars, storeVars, metaVars, sinkVars, faults>>

\* Mutant: an event found in ClickHouse is published without its registry row.
LookupFound_NoClaim(w) ==
    /\ pc[w] = "lookup"
    /\ StoredRow(job[w].msg.id) = {job[w].msg}
    /\ Goto(w, "publish")
    /\ UNCHANGED <<brokerVars, storeVars, metaVars, sinkVars, faults>>

\* An earlier try stored the event and lost its claim: hot_ingest_guard and
\* the insert are skipped.
LookupFound(w) ==
    /\ pc[w] = "lookup"
    /\ StoredRow(job[w].msg.id) = {job[w].msg}
    /\ Goto(w, "commitFound")
    /\ UNCHANGED <<brokerVars, storeVars, metaVars, sinkVars, faults>>

LookupConflict(w) ==
    /\ pc[w] = "lookup"
    /\ StoredRow(job[w].msg.id) \notin {{}, {job[w].msg}}
    /\ Fail(w, "EVENT_IDENTITY_CONFLICT")
    /\ UNCHANGED <<brokerVars, storeVars, metaVars, sinkVars, faults>>

\* Another open transaction has locked, or is inserting, the same HOT row.
BucketBusy(w) == \E v \in Worker : v # w /\ HoldsDay(v) /\ BucketOf(job[v].msg) = BucketOf(job[w].msg)

\* Mutant: the guard commits its writes in a transaction of its own.
GuardEnter_Autocommit(w) ==
    /\ pc[w] = "guard"
    /\ ~Frozen(DayOfMsg(job[w].msg))
    /\ ~BucketBusy(w)
    /\ hot' = [hot EXCEPT ![BucketOf(job[w].msg)] = "hot"]
    /\ verified' = verified \ {BucketOf(job[w].msg)}
    /\ Goto(w, "insert")
    /\ UNCHANGED <<brokerVars, storeVars, sinkVars, faults>>

\* Mutant: the guard does not look for a closed day.
GuardEnter_Unchecked(w) ==
    /\ pc[w] = "guard"
    /\ ~BucketBusy(w)
    /\ Goto(w, "insert")
    /\ UNCHANGED <<brokerVars, storeVars, metaVars, sinkVars, faults>>

\* hot_ingest_guard takes the shared lock of the day; its writes to
\* ingest_metadata stay uncommitted until CommitNew.
GuardEnter(w) ==
    /\ pc[w] = "guard"
    /\ ~Frozen(DayOfMsg(job[w].msg))
    /\ ~BucketBusy(w)
    /\ Goto(w, "insert")
    /\ UNCHANGED <<brokerVars, storeVars, metaVars, sinkVars, faults>>

GuardFrozen(w) ==
    /\ pc[w] = "guard"
    /\ Frozen(DayOfMsg(job[w].msg))
    /\ Fail(w, "ARCHIVED_DAY_IMMUTABLE")
    /\ UNCHANGED <<brokerVars, storeVars, metaVars, sinkVars, faults>>

\* Two first events of a bucket: the second INSERT of the HOT row fails on the
\* unique key once the first commits, or times out on its lock.
GuardCollides(w, c) ==
    /\ pc[w] = "guard"
    /\ BucketBusy(w)
    /\ c = "NONE" => hot[BucketOf(job[w].msg)] = "absent"
    /\ TryFails(w, c)
    /\ UNCHANGED <<brokerVars, storeVars, metaVars, sinkVars, faults>>

\* The day's exclusive lock is held for longer than lock_timeout.
GuardTimeout(w) ==
    /\ Fault
    /\ pc[w] = "guard"
    /\ TryFails(w, "EVENT_INGEST_LOCK_TIMEOUT")
    /\ UNCHANGED <<brokerVars, storeVars, metaVars, sinkVars>>

InsertEvent(w) ==
    /\ pc[w] = "insert"
    /\ stored' = stored \cup {job[w].msg}
    /\ Goto(w, "commitNew")
    /\ UNCHANGED <<brokerVars, registry, validated, metaVars, sinkVars, faults>>

\* Mutant: an insert that failed is taken for done.
InsertError_Ignored(w) ==
    /\ Fault
    /\ pc[w] = "insert"
    /\ Goto(w, "commitNew")
    /\ UNCHANGED <<brokerVars, storeVars, metaVars, sinkVars>>

\* The insert raises, with the row written or not; the transaction rolls back.
\* An insert that raised without effect is assumed not to land later.
InsertError(w) ==
    /\ Fault
    /\ pc[w] = "insert"
    /\ stored' \in {stored, stored \cup {job[w].msg}}
    /\ TryFails(w, "NONE")
    /\ UNCHANGED <<brokerVars, registry, validated, metaVars, sinkVars>>

\* A call of the claim transaction that writes nothing raises.
TransactionError(w) ==
    /\ Fault
    /\ pc[w] \in {"claim", "lookup", "guard"}
    /\ WellFormed(w)
    /\ TryFails(w, "NONE")
    /\ UNCHANGED <<brokerVars, storeVars, metaVars, sinkVars>>

\* What the claim transaction writes when it commits: the registry row and,
\* if it went through hot_ingest_guard, a HOT row and an archive that is no
\* longer verified.
RegistryWrites(w) == registry' = registry \cup {job[w].msg}

\* Mutant: a late event leaves the archive verified.
MetadataWrites_KeepVerified(w) ==
    IF pc[w] = "commitNew"
    THEN hot' = [hot EXCEPT ![BucketOf(job[w].msg)] = "hot"] /\ UNCHANGED verified
    ELSE UNCHANGED metaVars

MetadataWrites(w) ==
    LET b == BucketOf(job[w].msg)
    IN  IF pc[w] = "commitNew"
        THEN /\ hot' = [hot EXCEPT ![b] = "hot"]
             /\ verified' = verified \ {b}
        ELSE UNCHANGED metaVars

CommitClaim(w) ==
    /\ pc[w] \in {"commitNew", "commitFound"}
    /\ RegistryWrites(w)
    /\ MetadataWrites(w)
    /\ Goto(w, "publish")
    /\ UNCHANGED <<brokerVars, stored, validated, sinkVars, faults>>

\* COMMIT raises, having taken effect or not.
CommitClaimError(w) ==
    /\ Fault
    /\ pc[w] \in {"commitNew", "commitFound"}
    /\ \/ RegistryWrites(w) /\ MetadataWrites(w)
       \/ UNCHANGED <<registry, metaVars>>
    /\ TryFails(w, "NONE")
    /\ UNCHANGED <<brokerVars, stored, validated, sinkVars>>

PublishValidated(w) ==
    /\ pc[w] = "publish"
    /\ validated' = validated \cup {job[w].msg}
    /\ Goto(w, "commit")
    /\ UNCHANGED <<brokerVars, registry, stored, metaVars, sinkVars, faults>>

\* Mutant: a publish without acknowledgement is taken for done.
PublishError_Ignored(w) ==
    /\ Fault
    /\ pc[w] = "publish"
    /\ Goto(w, "commit")
    /\ UNCHANGED <<brokerVars, storeVars, metaVars, sinkVars>>

\* No acknowledgement within the flush timeout, delivered or not.
PublishError(w) ==
    /\ Fault
    /\ pc[w] = "publish"
    /\ validated' \in {validated, validated \cup {job[w].msg}}
    /\ TryFails(w, "NONE")
    /\ UNCHANGED <<brokerVars, registry, stored, metaVars, sinkVars>>

-----------------------------------------------------------------------------
(* _run_worker_once: the failure sink and the offset commit.               *)

ObjectsAt(w) == {o \in objects : o.part = job[w].part /\ o.off = job[w].off}

\* _put_idempotent, the HEAD: there is no object under the failure's key.
HeadAbsent(w) ==
    /\ pc[w] = "failObject"
    /\ ObjectsAt(w) = {}
    /\ Goto(w, "failPut")
    /\ UNCHANGED <<brokerVars, storeVars, metaVars, sinkVars, faults>>

\* The object is already there, with this checksum.
HeadSame(w) ==
    /\ pc[w] = "failObject"
    /\ ObjectsAt(w) = {FailureOf(w)}
    /\ Goto(w, "failRow")
    /\ UNCHANGED <<brokerVars, storeVars, metaVars, sinkVars, faults>>

\* "failure payload checksum collision": the message was recorded with another
\* code by an earlier delivery; the consumer is rewound.
HeadCollides(w) ==
    /\ pc[w] = "failObject"
    /\ ObjectsAt(w) \notin {{}, {FailureOf(w)}}
    /\ Release(w)
    /\ UNCHANGED <<brokerVars, storeVars, metaVars, sinkVars, faults>>

\* The PUT is unconditional: it replaces what another delivery wrote since the HEAD.
ObjectWrites(w) == objects' = (objects \ ObjectsAt(w)) \cup {FailureOf(w)}

PutObject(w) ==
    /\ pc[w] = "failPut"
    /\ ObjectWrites(w)
    /\ Goto(w, "failRow")
    /\ UNCHANGED <<brokerVars, storeVars, metaVars, failureRows, faults>>

\* Mutant: the offset is committed although the failure was not recorded.
ObjectError_Commit(w) ==
    /\ Fault
    /\ pc[w] \in {"failObject", "failPut"}
    /\ Goto(w, "commit")
    /\ UNCHANGED <<brokerVars, storeVars, metaVars, sinkVars>>

\* The HEAD or the PUT raises, the PUT with or without effect, or the HEAD after
\* it finds another length; the consumer is rewound.
ObjectError(w) ==
    /\ Fault
    /\ \/ pc[w] \in {"failObject", "failPut"} /\ UNCHANGED objects
       \/ pc[w] = "failPut" /\ ObjectWrites(w)
    /\ Release(w)
    /\ UNCHANGED <<brokerVars, storeVars, metaVars, failureRows>>

RecordRow(w) ==
    /\ pc[w] = "failRow"
    /\ failureRows' = failureRows \cup {FailureOf(w)}
    /\ Goto(w, "commit")
    /\ UNCHANGED <<brokerVars, storeVars, metaVars, objects, faults>>

RecordRowError(w) ==
    /\ Fault
    /\ pc[w] = "failRow"
    /\ failureRows' \in {failureRows, failureRows \cup {FailureOf(w)}}
    /\ Release(w)
    /\ UNCHANGED <<brokerVars, storeVars, metaVars, objects>>

\* Mutant: a worker that lost the partition still commits.
CommitOffset_Unfenced(w) ==
    /\ pc[w] = "commit"
    /\ committed' = [committed EXCEPT ![job[w].part] = job[w].off]
    /\ Release(w)
    /\ UNCHANGED <<raw, owner, storeVars, metaVars, sinkVars, faults>>

CommitOffset(w) ==
    /\ pc[w] = "commit"
    /\ owner[job[w].part] = w
    /\ committed' = [committed EXCEPT ![job[w].part] = job[w].off]
    /\ Release(w)
    /\ UNCHANGED <<raw, owner, storeVars, metaVars, sinkVars, faults>>

\* The group has moved on: the broker refuses the commit and the process ends.
CommitFenced(w) ==
    /\ pc[w] = "commit"
    /\ owner[job[w].part] # w
    /\ Release(w)
    /\ UNCHANGED <<brokerVars, storeVars, metaVars, sinkVars, faults>>

\* The commit takes effect but its answer is lost; the process ends.
CommitOffsetError(w) ==
    /\ Fault
    /\ pc[w] = "commit"
    /\ owner[job[w].part] = w
    /\ committed' = [committed EXCEPT ![job[w].part] = job[w].off]
    /\ Release(w)
    /\ UNCHANGED <<raw, owner, storeVars, metaVars, sinkVars>>

-----------------------------------------------------------------------------
(* The storage lifecycle worker, as far as ingest meets it.                *)

\* Mutant: the lifecycle worker does not wait for the day's lock.
DayUnlocked_Always(d) == TRUE

\* No transaction holds the shared lock of the day.
DayUnlocked(d) == \A w \in Worker : HoldsDay(w) => DayOfMsg(job[w].msg) # d

\* record_verified_archive, under the exclusive lock of archive_guard.
VerifyArchive(b) ==
    /\ hot[b] = "hot"
    /\ DayUnlocked(b[2])
    /\ verified' = verified \cup {b}
    /\ UNCHANGED <<brokerVars, workVars, storeVars, hot, sinkVars, faults>>

\* claim_partition_deletion: every HOT row of the day has a verified archive.
ClaimDeletion(d) ==
    /\ DayUnlocked(d)
    /\ \A e \in Endpoint : hot[<<e, d>>] # "deleting"
    /\ \E e \in Endpoint : hot[<<e, d>>] = "hot"
    /\ \A e \in Endpoint : hot[<<e, d>>] = "hot" => <<e, d>> \in verified
    /\ hot' = [b \in Bucket |-> IF b[2] = d /\ hot[b] = "hot" THEN "deleting" ELSE hot[b]]
    /\ UNCHANGED <<brokerVars, workVars, storeVars, verified, sinkVars, faults>>

\* ALTER TABLE edr_events DROP PARTITION.
DropPartition(d) ==
    /\ \E e \in Endpoint : hot[<<e, d>>] = "deleting"
    /\ stored' = {r \in stored : DayOfMsg(r) # d}
    /\ UNCHANGED <<brokerVars, workVars, registry, validated, metaVars, sinkVars, faults>>

\* mark_partition_deleted, after a drop that succeeded.
MarkDropped(d) ==
    /\ \E e \in Endpoint : hot[<<e, d>>] = "deleting"
    /\ \A r \in stored : DayOfMsg(r) # d
    /\ hot' = [b \in Bucket |-> IF b[2] = d /\ hot[b] = "deleting" THEN "dropped" ELSE hot[b]]
    /\ UNCHANGED <<brokerVars, workVars, storeVars, verified, sinkVars, faults>>

-----------------------------------------------------------------------------

\* What a worker does of itself, when nothing fails.
Step(w) ==
    \/ \E p \in Partition : Consume(w, p)
    \/ RejectMalformed(w) \/ NormalizeRaises(w)
    \/ ClaimCreated(w) \/ ClaimExisting(w) \/ ClaimConflict(w)
    \/ LookupAbsent(w) \/ LookupFound(w) \/ LookupConflict(w)
    \/ GuardEnter(w) \/ GuardFrozen(w)
    \/ InsertEvent(w) \/ CommitClaim(w) \/ PublishValidated(w)
    \/ HeadAbsent(w) \/ HeadSame(w) \/ HeadCollides(w) \/ PutObject(w) \/ RecordRow(w)
    \/ CommitOffset(w) \/ CommitFenced(w)

\* What may go wrong around it.
Disturbance(w) ==
    \/ Crash(w)
    \/ \E p \in Partition : Rebalance(p, w)
    \/ ClaimTimeout(w) \/ GuardTimeout(w) \/ TransactionError(w)
    \/ \E c \in RetryableCode : GuardCollides(w, c)
    \/ InsertError(w) \/ CommitClaimError(w) \/ PublishError(w)
    \/ ObjectError(w) \/ RecordRowError(w) \/ CommitOffsetError(w)

Lifecycle ==
    \/ \E b \in Bucket : VerifyArchive(b)
    \/ \E d \in Day : ClaimDeletion(d) \/ DropPartition(d) \/ MarkDropped(d)

Next ==
    \/ \E m \in Sent : Produce(m)
    \/ \E w \in Worker : Step(w) \/ Disturbance(w)
    \/ Lifecycle

Spec == Init /\ [][Next]_vars

\* A running worker keeps taking steps: main loops forever and every blocking
\* call has a timeout.  Failures are bounded by MaxFaults, so they end.
FairSpec == Spec /\ \A w \in Worker : WF_vars(Step(w))

-----------------------------------------------------------------------------
(* Properties.                                                             *)

\* Every variable has its type (the state of workers.py, kafka.py, failure.py
\* and the tables they write).
TypeOK ==
    /\ raw \in [Partition -> Seq(Sent)]
    /\ committed \in [Partition -> Nat]
    /\ owner \in [Partition -> Worker]
    /\ pc \in [Worker -> Control]
    /\ job \in [Worker -> Job]
    /\ tries \in [Worker -> 0 .. MaxRetries]
    /\ code \in [Worker -> FailureCode]
    /\ registry \subseteq Sent
    /\ stored \subseteq Sent
    /\ validated \subseteq Sent
    /\ hot \in [Bucket -> HotState]
    /\ verified \subseteq Bucket
    /\ objects \subseteq FailureRecord
    /\ failureRows \subseteq FailureRecord
    /\ faults \in 0 .. MaxFaults

\* An event id never gets a second identity, in the registry, in ClickHouse or
\* between the two, whatever order claims, inserts, rollbacks and redeliveries
\* come in (_process and _assert_same_identity).
OneIdentity == \A r, s \in registry \cup stored : r.id = s.id => r = s

\* The registry never vouches for an event that ClickHouse does not have,
\* unless the event's day has been archived and closed (the claim transaction
\* commits after the insert).
RegisteredIsStored == \A r \in registry : r \in stored \/ Frozen(DayOfMsg(r))

\* Detection and rollup consume only events that the registry holds
\* (the publish follows the commit of the claim).
ValidatedIsRegistered == validated \subseteq registry

Recorded(p, n) == \E f \in failureRows : f.part = p /\ f.off = n

\* A committed offset never passes a message that was neither registered and
\* published nor durably recorded as a failure (_run_worker_once).
NoMessageLost ==
    \A p \in Partition : \A n \in 1 .. committed[p] :
        raw[p][n] \in registry \cap validated \/ Recorded(p, n)

\* A failure row always has a payload object under its key: the row is written
\* only after the object, whatever was retried, rewound or lost in between
\* (FailureSink.record).  That the object is the one whose checksum the row has
\* is more than this; see FailureChecksumMatches.
FailureIsBacked == \A f \in failureRows : \E o \in objects : o.part = f.part /\ o.off = f.off

\* What the documents say of the failure sink: an object whose checksum differs
\* is not overwritten, so the checksum of a failure row is that of its object
\* (_put_idempotent).
FailureChecksumMatches == failureRows \subseteq objects

\* A HOT row always has an event behind it, so the archive of its day can be
\* verified: an empty one would never become a verified archive and would keep
\* the partition forever (hot_ingest_guard rolls back with the insert).
HotHasEvents ==
    \A b \in Bucket : hot[b] = "hot" => \E r \in stored : BucketOf(r) = b

\* No event is ever written to a day whose partition is being, or has been,
\* dropped: the partition is not recreated (hot_ingest_guard).
FrozenDayIsImmutable == [][\A r \in stored' \ stored : ~Frozen(DayOfMsg(r))]_vars

\* A worker cannot record the message it holds: an earlier delivery of the
\* same message recorded it with another code.
Colliding(p) ==
    \E w \in Worker : /\ pc[w] = "failObject"
                      /\ job[w].part = p
                      /\ ObjectsAt(w) \notin {{}, {FailureOf(w)}}

\* Once failures stop, every message on the raw topic is committed, unless the
\* failure sink refuses it because of a checksum collision (run_once).  The
\* documents ask for that refusal, and the partition then waits: the property
\* says that nothing else can hold it up.
EventuallyCommitted ==
    \A p \in Partition : \A n \in 1 .. MaxLog :
        (n <= Len(raw[p])) ~> (n <= committed[p] \/ Colliding(p))

Ledger == INSTANCE EventLedger WITH
    log <- raw,
    book <- registry,
    announced <- validated,
    quarantine <- {<<f.part, f.off>> : f \in failureRows},
    done <- committed

\* The worker group implements the ledger: an id is entered once, an entry is
\* announced after it is made, a position advances one settled message at a time.
ImplementsLedger == Ledger!Spec

-----------------------------------------------------------------------------
(* The inductive invariant behind the safety properties.                   *)

\* The message a worker holds is the one at its position of the log, and while
\* the partition is still its own that position is the next one to commit.
JobIsRead(w) ==
    pc[w] # "idle" =>
        /\ job[w].off \in 1 .. Len(raw[job[w].part])
        /\ raw[job[w].part][job[w].off] = job[w].msg
        /\ owner[job[w].part] = w => job[w].off = committed[job[w].part] + 1

\* While a claim is open no other row of the id is registered; from the lookup
\* on, ClickHouse holds nothing under the id, or this very event.
ClaimIsFresh(w) ==
    /\ Claims(w) => RegistryRow(job[w].msg.id) = {}
    /\ pc[w] \in {"guard", "insert"} => StoredRow(job[w].msg.id) = {}
    /\ pc[w] = "commitNew" => StoredRow(job[w].msg.id) = {job[w].msg}
    /\ pc[w] = "commitFound" =>
           /\ StoredRow(job[w].msg.id) \subseteq {job[w].msg}
           /\ job[w].msg \in stored \/ Frozen(DayOfMsg(job[w].msg))

\* The shared lock keeps the day open.
DayIsOpen(w) == HoldsDay(w) => ~Frozen(DayOfMsg(job[w].msg))

\* What a worker has done by the time it reaches its last steps.
WorkIsDone(w) ==
    /\ pc[w] = "publish" => job[w].msg \in registry
    /\ pc[w] = "failRow" => ObjectsAt(w) # {}
    /\ pc[w] = "commit" =>
           job[w].msg \in registry \cap validated \/ Recorded(job[w].part, job[w].off)

ClaimsAreDisjoint ==
    \A v, w \in Worker : v # w /\ Claims(v) /\ Claims(w) => job[v].msg.id # job[w].msg.id

\* Committed positions lie within the log, and a closed day has no active row.
CommittedIsRead == \A p \in Partition : committed[p] <= Len(raw[p])
ClosedHasNoHot == \A d \in Day : Frozen(d) => \A e \in Endpoint : hot[<<e, d>>] # "hot"

WorkerInv(w) == JobIsRead(w) /\ ClaimIsFresh(w) /\ DayIsOpen(w) /\ WorkIsDone(w)

\* The workers' part of the invariant: what holds at each control point of
\* _process and _run_worker_once while other workers, the lifecycle worker and
\* failures interleave.
StorageInv ==
    /\ \A w \in Worker : WorkerInv(w)
    /\ ClaimsAreDisjoint
    /\ CommittedIsRead
    /\ ClosedHasNoHot
=============================================================================
