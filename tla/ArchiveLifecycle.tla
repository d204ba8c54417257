-------------------------- MODULE ArchiveLifecycle --------------------------
(***************************************************************************)
(* The storage lifecycle worker (backend/archive_lifecycle.py) running     *)
(* beside the event storage workers.  It exports the events of an          *)
(* (endpoint, day) bucket to one S3 object without a lock, then compares   *)
(* counts under the exclusive lock of the day and records the archive as   *)
(* verified; after the safety window it refreshes the dashboard rollup of  *)
(* the day, closes the day's HOT rows and drops the ClickHouse partition.  *)
(*                                                                         *)
(* The module extends EventStorage and uses the workers' actions as they   *)
(* are.  The coarse lifecycle actions of that module are not used: the     *)
(* steps of the code are written out here and checked against them.        *)
(***************************************************************************)
EXTENDS EventStorage, FiniteSets

CONSTANT MaxSweepFaults   \* bound on failures of the lifecycle worker

VARIABLES
    phase,    \* where the lifecycle worker is
    target,   \* the bucket it exports, or a bucket of the day it deletes
    counted,  \* archive_count read before the export
    archive,  \* rows of a bucket's S3 object; {} while there is none
    aged,     \* buckets whose last verification is older than the safety window
    rolled,   \* events counted in the dashboard rollup
    sweepFaults,
    guarded   \* history: events whose hot_ingest_guard transaction committed

lifecycleVars == <<phase, target, counted, archive, aged, rolled, sweepFaults>>
archVars == <<vars, lifecycleVars, guarded>>

ASSUME LifecycleConstants == Bucket # {} /\ MaxSweepFaults \in Nat

NoBucket == CHOOSE b \in Bucket : TRUE

RowsOf(b) == {r \in stored : BucketOf(r) = b}
RowsOfDay(d) == {r \in stored : DayOfMsg(r) = d}

Phase == {"idle", "export", "verify", "barrier", "claim", "drop", "mark"}

ArchInit ==
    /\ Init
    /\ phase = "idle"
    /\ target = NoBucket
    /\ counted = 0
    /\ archive = [b \in Bucket |-> {}]
    /\ aged = {}
    /\ rolled = {}
    /\ sweepFaults = 0
    /\ guarded = {}

Finish == phase' = "idle" /\ target' = NoBucket /\ counted' = 0

-----------------------------------------------------------------------------
(* _archive_completed_buckets.                                             *)

\* archive_candidates: an active HOT row without a verified archive; the
\* events are counted without a lock, and a bucket with none is skipped.
SelectBucket(b) ==
    /\ phase = "idle"
    /\ hot[b] = "hot"
    /\ b \notin verified
    /\ RowsOf(b) # {}
    /\ phase' = "export"
    /\ target' = b
    /\ counted' = Cardinality(RowsOf(b))
    /\ UNCHANGED <<vars, archive, aged, rolled, sweepFaults, guarded>>

\* archive_store.write: the rows read now must be as many as were counted.
\* The object replaces an earlier one.
ExportBucket ==
    /\ phase = "export"
    /\ Cardinality(RowsOf(target)) = counted
    /\ archive' = [archive EXCEPT ![target] = RowsOf(target)]
    /\ phase' = "verify"
    /\ UNCHANGED <<vars, target, counted, aged, rolled, sweepFaults, guarded>>

ExportMismatch ==
    /\ phase = "export"
    /\ Cardinality(RowsOf(target)) # counted
    /\ Finish
    /\ UNCHANGED <<vars, archive, aged, rolled, sweepFaults, guarded>>

\* Mutant: the archive is recorded for the day and not for the bucket.
RecordVerified_PerDay ==
    /\ phase = "verify"
    /\ DayUnlocked(target[2])
    /\ hot[target] = "hot"
    /\ Cardinality(RowsOf(target)) = counted
    /\ verified' = verified \cup {target[2]}
    /\ aged' = aged \ {target}
    /\ Finish
    /\ UNCHANGED <<brokerVars, workVars, storeVars, hot, sinkVars, faults,
                   archive, rolled, sweepFaults, guarded>>

\* Mutant: the events are not counted again under the lock.
RecordVerified_NoRecount ==
    /\ phase = "verify"
    /\ DayUnlocked(target[2])
    /\ hot[target] = "hot"
    /\ verified' = verified \cup {target}
    /\ aged' = aged \ {target}
    /\ Finish
    /\ UNCHANGED <<brokerVars, workVars, storeVars, hot, sinkVars, faults,
                   archive, rolled, sweepFaults, guarded>>

\* archive_guard, the second count and record_verified_archive.
RecordVerified ==
    /\ phase = "verify"
    /\ DayUnlocked(target[2])
    /\ hot[target] = "hot"
    /\ Cardinality(RowsOf(target)) = counted
    /\ verified' = verified \cup {target}
    /\ aged' = aged \ {target}
    /\ Finish
    /\ UNCHANGED <<brokerVars, workVars, storeVars, hot, sinkVars, faults,
                   archive, rolled, sweepFaults, guarded>>

\* The HOT row is gone, or an event arrived during the export.
VerifyRejects ==
    /\ phase = "verify"
    /\ DayUnlocked(target[2])
    /\ hot[target] # "hot" \/ Cardinality(RowsOf(target)) # counted
    /\ Finish
    /\ UNCHANGED <<vars, archive, aged, rolled, sweepFaults, guarded>>

-----------------------------------------------------------------------------
(* _delete_verified_partitions.                                            *)

\* A day closed by an earlier sweep whose partition is not dropped yet.
DeletionPending(d) == \E e \in Endpoint : hot[<<e, d>>] = "deleting"

\* Every HOT row of the day has an archive verified before the safety window.
DeletionEligible(d) ==
    /\ \E e \in Endpoint : hot[<<e, d>>] = "hot"
    /\ \A e \in Endpoint : hot[<<e, d>>] = "hot" => <<e, d>> \in verified \cap aged

\* Mutant: a day that an earlier sweep closed is not a candidate again.
SelectDay_NoPending(b) ==
    /\ phase = "idle"
    /\ DeletionEligible(b[2])
    /\ phase' = "barrier"
    /\ target' = b
    /\ UNCHANGED <<vars, counted, archive, aged, rolled, sweepFaults, guarded>>

\* partition_deletion_candidates.
SelectDay(b) ==
    /\ phase = "idle"
    /\ DeletionPending(b[2]) \/ DeletionEligible(b[2])
    /\ phase' = "barrier"
    /\ target' = b
    /\ UNCHANGED <<vars, counted, archive, aged, rolled, sweepFaults, guarded>>

\* refresh_range: the rollup of a day is recomputed from ClickHouse under the
\* shared lock of the day, unless the day is frozen.
Refreshed(d) ==
    IF Frozen(d) THEN rolled ELSE {r \in rolled : DayOfMsg(r) # d} \cup RowsOfDay(d)

\* Mutant: the day is closed without a last refresh of its rollup.
RollupBarrier_Skip ==
    /\ phase = "barrier"
    /\ phase' = "claim"
    /\ UNCHANGED <<vars, target, counted, archive, aged, rolled, sweepFaults, guarded>>

RollupBarrier ==
    /\ phase = "barrier"
    /\ rolled' = Refreshed(target[2])
    /\ phase' = "claim"
    /\ UNCHANGED <<vars, target, counted, archive, aged, sweepFaults, guarded>>

\* claim_partition_deletion closes the day under its exclusive lock.
ClaimDay ==
    /\ phase = "claim"
    /\ DayUnlocked(target[2])
    /\ ~DeletionPending(target[2])
    /\ DeletionEligible(target[2])
    /\ hot' = [b \in Bucket |-> IF b[2] = target[2] /\ hot[b] = "hot" THEN "deleting" ELSE hot[b]]
    /\ phase' = "drop"
    /\ UNCHANGED <<brokerVars, workVars, storeVars, verified, sinkVars, faults,
                   target, counted, archive, aged, rolled, sweepFaults, guarded>>

ClaimPending ==
    /\ phase = "claim"
    /\ DayUnlocked(target[2])
    /\ DeletionPending(target[2])
    /\ phase' = "drop"
    /\ UNCHANGED <<vars, target, counted, archive, aged, rolled, sweepFaults, guarded>>

\* Mutant: the answer of claim_partition_deletion is ignored.
ClaimRefused_Ignored ==
    /\ phase = "claim"
    /\ DayUnlocked(target[2])
    /\ ~DeletionPending(target[2])
    /\ ~DeletionEligible(target[2])
    /\ phase' = "drop"
    /\ UNCHANGED <<vars, target, counted, archive, aged, rolled, sweepFaults, guarded>>

ClaimRefused ==
    /\ phase = "claim"
    /\ DayUnlocked(target[2])
    /\ ~DeletionPending(target[2])
    /\ ~DeletionEligible(target[2])
    /\ Finish
    /\ UNCHANGED <<vars, archive, aged, rolled, sweepFaults, guarded>>

DropRows(d) ==
    /\ stored' = {r \in stored : DayOfMsg(r) # d}
    /\ UNCHANGED <<brokerVars, workVars, registry, validated, metaVars, sinkVars, faults>>

DropDay ==
    /\ phase = "drop"
    /\ DropRows(target[2])
    /\ phase' = "mark"
    /\ UNCHANGED <<target, counted, archive, aged, rolled, sweepFaults, guarded>>

MarkDay ==
    /\ phase = "mark"
    /\ hot' = [b \in Bucket |-> IF b[2] = target[2] /\ hot[b] = "deleting" THEN "dropped" ELSE hot[b]]
    /\ Finish
    /\ UNCHANGED <<brokerVars, workVars, storeVars, verified, sinkVars, faults,
                   archive, aged, rolled, sweepFaults, guarded>>

-----------------------------------------------------------------------------
(* Failures of the lifecycle worker, time, and the rollup worker.          *)

SweepFault == sweepFaults < MaxSweepFaults /\ sweepFaults' = sweepFaults + 1

\* A call raises, or the process dies, before the call took effect.
SweepFails ==
    /\ SweepFault
    /\ phase # "idle"
    /\ Finish
    /\ UNCHANGED <<vars, archive, aged, rolled, guarded>>

\* The same, after the S3 object was replaced.
ExportFails ==
    /\ SweepFault
    /\ phase = "export"
    /\ archive' = [archive EXCEPT ![target] = RowsOf(target)]
    /\ Finish
    /\ UNCHANGED <<vars, aged, rolled, guarded>>

\* The same, after the partition was dropped.
DropFails ==
    /\ SweepFault
    /\ phase = "drop"
    /\ DropRows(target[2])
    /\ Finish
    /\ UNCHANGED <<archive, aged, rolled, guarded>>

\* ARCHIVE_SAFETY_WINDOW passes.
Age(b) ==
    /\ b \in verified \ aged
    /\ aged' = aged \cup {b}
    /\ UNCHANGED <<vars, phase, target, counted, archive, rolled, sweepFaults, guarded>>

\* The rollup worker refreshes the buckets of validated events.
RollupRefresh(d) ==
    /\ rolled' = Refreshed(d)
    /\ UNCHANGED <<vars, phase, target, counted, archive, aged, sweepFaults, guarded>>

\* A step of the storage workers, with the history of committed guards.
Ingest ==
    /\ \/ \E m \in Sent : Produce(m)
       \/ \E w \in Worker : Step(w) \/ Disturbance(w)
    /\ guarded' = guarded \cup
           {m \in registry' \ registry : \E w \in Worker : pc[w] = "commitNew" /\ job[w].msg = m}
    /\ UNCHANGED lifecycleVars

Sweep ==
    \/ \E b \in Bucket : SelectBucket(b) \/ SelectDay(b)
    \/ ExportBucket \/ ExportMismatch \/ RecordVerified \/ VerifyRejects
    \/ RollupBarrier \/ ClaimDay \/ ClaimPending \/ ClaimRefused \/ DropDay \/ MarkDay

ArchNext ==
    \/ Ingest
    \/ Sweep
    \/ SweepFails \/ ExportFails \/ DropFails
    \/ \E b \in Bucket : Age(b)
    \/ \E d \in Day : RollupRefresh(d)

ArchSpec == ArchInit /\ [][ArchNext]_archVars

\* The lifecycle worker sweeps forever, and a restarted process sweeps again;
\* a day that stays closed is in every list of deletion candidates.
FairArchSpec ==
    /\ ArchSpec
    /\ \A w \in Worker : WF_archVars(Ingest /\ Step(w))
    /\ WF_archVars(Sweep)

-----------------------------------------------------------------------------
(* Properties.                                                             *)

\* Every variable of the lifecycle worker has its type (StorageLifecycleWorker).
ArchTypeOK ==
    /\ TypeOK
    /\ phase \in Phase
    /\ target \in Bucket
    /\ counted \in Nat
    /\ archive \in [Bucket -> SUBSET Sent]
    /\ aged \subseteq Bucket
    /\ rolled \subseteq Sent
    /\ sweepFaults \in 0 .. MaxSweepFaults
    /\ guarded \subseteq registry

\* An event whose storing transaction committed with its guard is in ClickHouse
\* or in the S3 object of its bucket, whatever late events, exports, restarts
\* and deletions happened (claim_partition_deletion, archive_guard).
GuardedIsKept == \A r \in guarded : r \in stored \/ r \in archive[BucketOf(r)]

\* A verified archive holds every event whose guard committed: a later guard
\* takes the verification back (hot_ingest_guard, record_verified_archive).
VerifiedIsComplete ==
    \A r \in guarded : BucketOf(r) \in verified => r \in archive[BucketOf(r)]

\* When a day is closed its rollup counts every event whose guard committed
\* (the barrier in _delete_verified_partitions).
ClosedDayIsRolled == \A r \in guarded : Frozen(DayOfMsg(r)) => r \in rolled

\* A day that was closed is dropped in the end: a crash between the claim and
\* the drop, or a failed drop, is taken up by a later sweep.
DeletionCompletes == \A d \in Day : DeletionPending(d) ~> ~DeletionPending(d)

\* The lifecycle worker does to the storage state what EventStorage allows, in
\* the order it allows: it drops only a closed day, and marks a day as dropped
\* only while no event of it is left (_delete_verified_partitions).
ImplementsStorage == Init /\ [][Next]_vars

\* What the documents promise of every stored event: it is in ClickHouse or,
\* once its day is dropped, in the verified archive.
EveryEventIsKept == \A r \in registry : r \in stored \/ r \in archive[BucketOf(r)]
=============================================================================
