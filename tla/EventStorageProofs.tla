------------------------ MODULE EventStorageProofs --------------------------
(***************************************************************************)
(* Proofs about EventStorage, for any number of workers, partitions,       *)
(* messages, retries and faults.                                           *)
(***************************************************************************)
EXTENDS EventStorage, TLAPS

-----------------------------------------------------------------------------
(* Types.                                                                  *)

\* The part of the type invariant about a worker's own variables.
WorkType ==
    /\ pc \in [Worker -> Control]
    /\ job \in [Worker -> Job]
    /\ tries \in [Worker -> 0 .. MaxRetries]
    /\ code \in [Worker -> FailureCode]

\* The part about everything else.
SharedType ==
    /\ raw \in [Partition -> Seq(Sent)]
    /\ committed \in [Partition -> Nat]
    /\ owner \in [Partition -> Worker]
    /\ registry \subseteq Sent
    /\ stored \subseteq Sent
    /\ validated \subseteq Sent
    /\ hot \in [Bucket -> HotState]
    /\ verified \subseteq Bucket
    /\ objects \subseteq FailureRecord
    /\ failureRows \subseteq FailureRecord
    /\ faults \in 0 .. MaxFaults

LEMMA TypeSplit == TypeOK <=> WorkType /\ SharedType
BY Zenon DEF TypeOK, WorkType, SharedType

LEMMA TypeSplitNext == TypeOK' <=> WorkType' /\ SharedType'
BY Zenon DEF TypeOK, WorkType, SharedType

\* The idle job is a job: there is a message, hence an endpoint and a partition.
LEMMA NoJobType == NoJob \in Job
<1>1. PICK m \in Sent : TRUE
  BY StorageConstants, Zenon
<1>2. PartitionOf[m.endpoint] \in Partition
  BY <1>1, StorageConstants, Zenon DEF Message
<1>3. (CHOOSE p \in Partition : TRUE) \in Partition
  BY <1>2, Zenon
<1>4. (CHOOSE k \in Sent : TRUE) \in Sent
  BY <1>1, Zenon
<1> QED BY <1>3, <1>4, Zenon DEF NoJob, Job

\* Moving a worker keeps its variables typed.
LEMMA GotoType ==
    ASSUME WorkType, NEW w \in Worker, NEW l \in Control, Goto(w, l)
    PROVE  WorkType'
BY Zenon DEF WorkType, Goto

LEMMA ReleaseType ==
    ASSUME WorkType, NEW w \in Worker, Release(w)
    PROVE  WorkType'
BY NoJobType, StorageConstants DEF WorkType, Release, Control, FailureCode, RetryableCode

LEMMA FailType ==
    ASSUME WorkType, NEW w \in Worker, NEW c \in FailureCode, Fail(w, c)
    PROVE  WorkType'
BY Zenon DEF WorkType, Fail, Control

LEMMA TryFailsType ==
    ASSUME WorkType, NEW w \in Worker, NEW c \in FailureCode, TryFails(w, c)
    PROVE  WorkType'
<1>1. CASE tries[w] = MaxRetries /\ Fail(w, c)
  BY <1>1, FailType, Zenon
<1>2. CASE /\ tries[w] < MaxRetries
           /\ tries' = [tries EXCEPT ![w] = @ + 1]
           /\ pc' = [pc EXCEPT ![w] = "claim"]
           /\ UNCHANGED <<job, code>>
  BY <1>2, StorageConstants DEF WorkType, Control
<1> QED BY <1>1, <1>2, Zenon DEF TryFails

LEMMA InitType == Init => TypeOK
BY NoJobType, StorageConstants
   DEF Init, TypeOK, Control, FailureCode, RetryableCode, HotState

\* What a fault does to the counter.
LEMMA FaultType ==
    ASSUME faults \in 0 .. MaxFaults, Fault
    PROVE  faults' \in 0 .. MaxFaults
BY StorageConstants DEF Fault

\* The failure a worker records is a failure record.
LEMMA FailureOfType ==
    ASSUME WorkType, NEW w \in Worker
    PROVE  FailureOf(w) \in FailureRecord
BY Zenon DEF WorkType, FailureOf, FailureRecord, Job

LEMMA StepType ==
    ASSUME TypeOK, NEW w \in Worker, Step(w)
    PROVE  TypeOK'
<1> USE TypeSplit, TypeSplitNext DEF brokerVars, storeVars, metaVars, sinkVars
<1>w. WorkType /\ SharedType
  BY Zenon
<1>m. job[w].msg \in Sent /\ job[w].part \in Partition /\ job[w].off \in Nat
  BY <1>w, Zenon DEF WorkType, Job
<1>1. ASSUME NEW p \in Partition, Consume(w, p)
      PROVE  TypeOK'
  <2>1. raw[p] \in Seq(Sent) /\ committed[p] \in Nat /\ committed[p] < Len(raw[p])
    BY <1>1, <1>w, Zenon DEF Consume, SharedType
  <2>2. raw[p][committed[p] + 1] \in Sent
    BY <2>1
  <2>3. [part |-> p, off |-> committed[p] + 1, msg |-> raw[p][committed[p] + 1]] \in Job
    BY <2>1, <2>2 DEF Job
  <2>4. WorkType'
    BY <1>1, <1>w, <2>3, Zenon DEF Consume, WorkType, Control
  <2> QED BY <1>1, <1>w, <2>4, Zenon DEF Consume, SharedType
<1>2. CASE RejectMalformed(w) \/ ClaimConflict(w) \/ LookupConflict(w) \/ GuardFrozen(w)
  <2>1. SharedType'
    BY <1>2, <1>w, Zenon DEF RejectMalformed, ClaimConflict, LookupConflict, GuardFrozen, SharedType
  <2>2. PICK c \in PermanentCode : Fail(w, c)
    BY <1>2, Zenon DEF RejectMalformed, ClaimConflict, LookupConflict, GuardFrozen, PermanentCode
  <2> QED BY <1>w, <2>1, <2>2, FailType, Zenon DEF FailureCode
<1>3. CASE \/ ClaimCreated(w) \/ ClaimExisting(w) \/ LookupAbsent(w) \/ LookupFound(w)
           \/ GuardEnter(w) \/ HeadAbsent(w) \/ HeadSame(w)
  <2>1. SharedType'
    BY <1>3, <1>w, Zenon DEF ClaimCreated, ClaimExisting, LookupAbsent, LookupFound, GuardEnter, HeadAbsent,
       HeadSame, SharedType
  <2>2. PICK l \in Control : Goto(w, l)
    BY <1>3, Zenon DEF ClaimCreated, ClaimExisting, LookupAbsent, LookupFound, GuardEnter, HeadAbsent,
       HeadSame, Control
  <2> QED BY <1>w, <2>1, <2>2, GotoType, Zenon
<1>4. CASE InsertEvent(w) \/ CommitClaim(w) \/ PublishValidated(w)
  <2>1. PICK l \in Control : Goto(w, l)
    BY <1>4, Zenon DEF InsertEvent, CommitClaim, PublishValidated, Control
  <2>2. BucketOf(job[w].msg) \in Bucket
    BY <1>m, StorageConstants, Zenon DEF BucketOf, Bucket, DayOfMsg, Message
  <2>3. SharedType'
    BY <1>4, <1>w, <1>m, <2>2, Zenon DEF InsertEvent, CommitClaim, PublishValidated, SharedType,
       RegistryWrites, MetadataWrites, HotState
  <2> QED BY <1>w, <2>1, <2>3, GotoType, Zenon
<1>5. CASE PutObject(w) \/ RecordRow(w)
  <2>1. PICK l \in Control : Goto(w, l)
    BY <1>5, Zenon DEF PutObject, ObjectWrites, RecordRow, Control
  <2>2. SharedType'
    BY <1>5, <1>w, FailureOfType, Zenon DEF PutObject, ObjectWrites, RecordRow, SharedType
  <2> QED BY <1>w, <2>1, <2>2, GotoType, Zenon
<1>6. CASE HeadCollides(w) \/ CommitOffset(w) \/ CommitFenced(w)
  <2>1. Release(w)
    BY <1>6, Zenon DEF HeadCollides, CommitOffset, CommitFenced
  <2>2. SharedType'
    BY <1>6, <1>w, <1>m, Zenon DEF HeadCollides, CommitOffset, CommitFenced, SharedType
  <2> QED BY <1>w, <2>1, <2>2, ReleaseType, Zenon
<1>7. CASE NormalizeRaises(w)
  <2>1. "NONE" \in FailureCode /\ TryFails(w, "NONE")
    BY <1>7, Zenon DEF NormalizeRaises, FailureCode, RetryableCode
  <2>2. SharedType'
    BY <1>7, <1>w, Zenon DEF NormalizeRaises, SharedType
  <2> QED BY <1>w, <2>1, <2>2, TryFailsType, Zenon
<1> QED BY <1>1, <1>2, <1>3, <1>4, <1>5, <1>6, <1>7, Zenon DEF Step

LEMMA DisturbanceType ==
    ASSUME TypeOK, NEW w \in Worker, Disturbance(w)
    PROVE  TypeOK'
<1> USE TypeSplit, TypeSplitNext DEF brokerVars, workVars, storeVars, metaVars, sinkVars
<1>w. WorkType /\ SharedType
  BY Zenon
<1>m. job[w].msg \in Sent /\ job[w].part \in Partition /\ job[w].off \in Nat
  BY <1>w, Zenon DEF WorkType, Job
<1>f. Fault => faults' \in 0 .. MaxFaults
  BY <1>w, FaultType, Zenon DEF SharedType
<1>1. ASSUME NEW p \in Partition, Rebalance(p, w)
      PROVE  TypeOK'
  <2>1. WorkType'
    BY <1>1, <1>w, Zenon DEF Rebalance, WorkType
  <2> QED BY <1>1, <1>w, <1>f, <2>1, Zenon DEF Rebalance, SharedType
<1>2. CASE ClaimTimeout(w) \/ GuardTimeout(w) \/ TransactionError(w)
           \/ \E c \in RetryableCode : GuardCollides(w, c)
  <2>1. PICK c \in FailureCode : TryFails(w, c)
    BY <1>2, Zenon DEF ClaimTimeout, GuardTimeout, TransactionError, GuardCollides, FailureCode, RetryableCode
  <2>2. SharedType'
    BY <1>2, <1>w, <1>f, Zenon DEF ClaimTimeout, GuardTimeout, TransactionError, GuardCollides, SharedType
  <2> QED BY <1>w, <2>1, <2>2, TryFailsType, Zenon
<1>3. CASE InsertError(w) \/ CommitClaimError(w) \/ PublishError(w)
  <2>1. "NONE" \in FailureCode /\ TryFails(w, "NONE")
    BY <1>3, Zenon DEF InsertError, CommitClaimError, PublishError, FailureCode, RetryableCode
  <2>2. BucketOf(job[w].msg) \in Bucket
    BY <1>m, StorageConstants, Zenon DEF BucketOf, Bucket, DayOfMsg, Message
  <2>3. SharedType'
    BY <1>3, <1>w, <1>m, <1>f, <2>2, Zenon DEF InsertError, CommitClaimError, PublishError, SharedType,
       RegistryWrites, MetadataWrites, HotState
  <2> QED BY <1>w, <2>1, <2>3, TryFailsType, Zenon
<1>4. CASE Crash(w) \/ ObjectError(w) \/ RecordRowError(w) \/ CommitOffsetError(w)
  <2>1. Release(w)
    BY <1>4, Zenon DEF Crash, ObjectError, RecordRowError, CommitOffsetError
  <2>2. SharedType'
    BY <1>4, <1>w, <1>m, <1>f, FailureOfType, Zenon DEF Crash, ObjectError, ObjectWrites, RecordRowError,
       CommitOffsetError, SharedType
  <2> QED BY <1>w, <2>1, <2>2, ReleaseType, Zenon
<1> QED BY <1>1, <1>2, <1>3, <1>4, Zenon DEF Disturbance

LEMMA ProduceType ==
    ASSUME TypeOK, NEW m \in Sent, Produce(m)
    PROVE  TypeOK'
<1> DEFINE p == PartitionOf[m.endpoint]
<1>1. p \in Partition
  BY StorageConstants, Zenon DEF Message
<1>2. raw[p] \in Seq(Sent)
  BY <1>1, Zenon DEF TypeOK
<1>3. Append(raw[p], m) \in Seq(Sent)
  BY <1>2
<1> QED BY <1>1, <1>3, Zenon DEF TypeOK, Produce, workVars, storeVars, metaVars, sinkVars

LEMMA LifecycleType == TypeOK /\ Lifecycle => TypeOK'
<1> USE DEF brokerVars, workVars, storeVars, metaVars, sinkVars
<1>1. ASSUME TypeOK, NEW b \in Bucket, VerifyArchive(b)
      PROVE  TypeOK'
  BY <1>1, Zenon DEF TypeOK, VerifyArchive
<1>2. ASSUME TypeOK, NEW d \in Day, ClaimDeletion(d) \/ DropPartition(d) \/ MarkDropped(d)
      PROVE  TypeOK'
  BY <1>2, Zenon DEF TypeOK, ClaimDeletion, DropPartition, MarkDropped, HotState
<1> QED BY <1>1, <1>2, Zenon DEF Lifecycle

LEMMA NextType == TypeOK /\ [Next]_vars => TypeOK'
<1>1. ASSUME TypeOK, UNCHANGED vars
      PROVE  TypeOK'
  BY <1>1, Zenon DEF TypeOK, vars, brokerVars, workVars, storeVars, metaVars, sinkVars
<1> QED BY <1>1, StepType, DisturbanceType, ProduceType, LifecycleType, Zenon DEF Next

\* Every variable keeps its type, for any number of workers and partitions.
THEOREM TypeCorrect == Spec => []TypeOK
BY InitType, NextType, PTL DEF Spec

-----------------------------------------------------------------------------
(* Safety.                                                                 *)

\* The safety properties, with the workers' invariant that makes them inductive.
Inv ==
    /\ TypeOK
    /\ StorageInv
    /\ OneIdentity
    /\ RegisteredIsStored
    /\ ValidatedIsRegistered
    /\ NoMessageLost
    /\ FailureIsBacked
    /\ HotHasEvents

LEMMA InitInv == Init => Inv
<1> SUFFICES ASSUME Init PROVE Inv
  BY Zenon
<1>1. TypeOK
  BY InitType, Zenon
<1>2. StorageInv
  BY StorageConstants DEF Init, StorageInv, WorkerInv, JobIsRead, ClaimIsFresh, DayIsOpen, WorkIsDone, Claims,
     HoldsDay, ClaimsAreDisjoint, CommittedIsRead, ClosedHasNoHot, Frozen, Bucket
<1>3. OneIdentity /\ RegisteredIsStored /\ ValidatedIsRegistered /\ FailureIsBacked
  BY Zenon DEF Init, OneIdentity, RegisteredIsStored, ValidatedIsRegistered, FailureIsBacked
<1>4. NoMessageLost /\ HotHasEvents
  BY DEF Init, NoMessageLost, HotHasEvents
<1> QED BY <1>1, <1>2, <1>3, <1>4, Zenon DEF Inv

\* What one worker's move leaves of the invariant when it writes nothing
\* shared: only its own part has to be shown.
LEMMA LocalMove ==
    ASSUME Inv, TypeOK', NEW w \in Worker,
           UNCHANGED <<brokerVars, storeVars, metaVars, sinkVars>>,
           \A v \in Worker \ {w} : pc'[v] = pc[v] /\ job'[v] = job[v] /\ code'[v] = code[v],
           WorkerInv(w)',
           \A v \in Worker \ {w} : Claims(v) /\ Claims(w)' => job[v].msg.id # job'[w].msg.id
    PROVE  Inv'
<1> USE DEF brokerVars, storeVars, metaVars, sinkVars
<1>1. OneIdentity' /\ RegisteredIsStored' /\ ValidatedIsRegistered' /\ NoMessageLost' /\ FailureIsBacked' /\ HotHasEvents'
  BY ZenonT(40) DEF Inv, OneIdentity, RegisteredIsStored, ValidatedIsRegistered, NoMessageLost, FailureIsBacked,
     HotHasEvents, Recorded, Frozen
<1>2. ASSUME NEW v \in Worker, v # w
      PROVE  WorkerInv(v)'
  <2>1. WorkerInv(v) /\ pc'[v] = pc[v] /\ job'[v] = job[v] /\ code'[v] = code[v]
    BY <1>2, Zenon DEF Inv, StorageInv
  <2> QED BY <2>1 DEF WorkerInv, JobIsRead, ClaimIsFresh, DayIsOpen, WorkIsDone, Claims, HoldsDay, Frozen,
       RegistryRow, StoredRow, ObjectsAt, Recorded
<1>3. ClaimsAreDisjoint'
  <2> SUFFICES ASSUME NEW u \in Worker, NEW v \in Worker, u # v, Claims(u)', Claims(v)'
               PROVE  job'[u].msg.id # job'[v].msg.id
    BY Zenon DEF ClaimsAreDisjoint
  <2>1. CASE u # w /\ v # w
    BY <2>1 DEF Inv, StorageInv, ClaimsAreDisjoint, Claims
  <2>2. CASE u = w
    BY <2>2, Zenon DEF Claims
  <2>3. CASE v = w
    BY <2>3, Zenon DEF Claims
  <2> QED BY <2>1, <2>2, <2>3, Zenon
<1>4. CommittedIsRead' /\ ClosedHasNoHot'
  BY Zenon DEF Inv, StorageInv, CommittedIsRead, ClosedHasNoHot, Frozen
<1> QED BY <1>1, <1>2, <1>3, <1>4, Zenon DEF Inv, StorageInv

\* A worker that gives its message up, turns to the failure sink or starts
\* another try has nothing to show: its transaction is rolled back.
LEMMA BackOff ==
    ASSUME Inv, TypeOK', NEW w \in Worker, pc[w] # "idle",
           UNCHANGED <<brokerVars, storeVars, metaVars, sinkVars>>,
           Release(w) \/ \E c \in FailureCode : Fail(w, c) \/ TryFails(w, c)
    PROVE  Inv'
<1>1. /\ pc'[w] \in {"idle", "failObject", "claim"}
      /\ \A v \in Worker \ {w} : pc'[v] = pc[v] /\ job'[v] = job[v] /\ code'[v] = code[v]
      /\ pc'[w] = "idle" \/ job' = job
  BY DEF Inv, TypeOK, Release, Fail, TryFails
<1>2. JobIsRead(w)
  BY Zenon DEF Inv, StorageInv, WorkerInv
<1>3. WorkerInv(w)'
  BY <1>1, <1>2, Zenon DEF WorkerInv, JobIsRead, ClaimIsFresh, DayIsOpen, WorkIsDone, Claims, HoldsDay, brokerVars
<1>4. ~Claims(w)'
  BY <1>1, Zenon DEF Claims
<1> QED BY <1>1, <1>3, <1>4, LocalMove, Zenon

\* Consume: the worker holds the next message of a partition it owns.
LEMMA ConsumeInv ==
    ASSUME Inv, TypeOK', NEW w \in Worker, NEW p \in Partition, Consume(w, p)
    PROVE  Inv'
<1> USE DEF brokerVars, storeVars, metaVars, sinkVars
<1>1. /\ pc'[w] = "claim"
      /\ job'[w] = [part |-> p, off |-> committed[p] + 1, msg |-> raw[p][committed[p] + 1]]
      /\ \A v \in Worker \ {w} : pc'[v] = pc[v] /\ job'[v] = job[v] /\ code'[v] = code[v]
  BY Zenon DEF Inv, TypeOK, Consume
<1>2. committed[p] \in Nat /\ Len(raw[p]) \in Nat /\ committed[p] < Len(raw[p])
  BY SMTT(20) DEF Inv, TypeOK, Consume
<1>3. WorkerInv(w)'
  BY <1>1, <1>2 DEF Consume, WorkerInv, JobIsRead, ClaimIsFresh, DayIsOpen, WorkIsDone, Claims, HoldsDay
<1>4. ~Claims(w)'
  BY <1>1, Zenon DEF Claims
<1> QED BY <1>1, <1>3, <1>4, LocalMove, Zenon DEF Consume

\* A step of a worker's transaction that writes nothing shared keeps the job.
LEMMA GotoInv ==
    ASSUME Inv, TypeOK', NEW w \in Worker, NEW l \in Control, Goto(w, l), pc[w] # "idle",
           UNCHANGED <<brokerVars, storeVars, metaVars, sinkVars>>,
           ClaimIsFresh(w)', DayIsOpen(w)', WorkIsDone(w)',
           Claims(w) \/ (Claims(w)' => ~ClaimBlocked(w))
    PROVE  Inv'
<1>1. /\ pc'[w] = l
      /\ job' = job
      /\ \A v \in Worker \ {w} : pc'[v] = pc[v] /\ job'[v] = job[v] /\ code'[v] = code[v]
  BY Zenon DEF Inv, TypeOK, Goto
<1>2. WorkerInv(w)'
  BY <1>1, Zenon DEF Inv, StorageInv, WorkerInv, JobIsRead, brokerVars
<1>3. \A v \in Worker \ {w} : Claims(v) /\ Claims(w)' => job[v].msg.id # job'[w].msg.id
  BY <1>1, Zenon DEF Inv, StorageInv, ClaimsAreDisjoint, ClaimBlocked
<1> QED BY <1>1, <1>2, <1>3, LocalMove, Zenon

LEMMA ClaimInv ==
    ASSUME Inv, TypeOK', NEW w \in Worker, ClaimCreated(w) \/ ClaimExisting(w)
    PROVE  Inv'
<1> USE DEF brokerVars, storeVars, metaVars, sinkVars
<1>1. CASE ClaimCreated(w)
  <2>1. pc[w] # "idle" /\ Goto(w, "lookup") /\ pc'[w] = "lookup" /\ job' = job /\ ~ClaimBlocked(w)
    BY <1>1, Zenon DEF ClaimCreated, Goto, Inv, TypeOK
  <2>2. ClaimIsFresh(w)' /\ DayIsOpen(w)' /\ WorkIsDone(w)'
    BY <1>1, <2>1, Zenon DEF ClaimCreated, ClaimIsFresh, DayIsOpen, WorkIsDone, RegistryRow, HoldsDay
  <2> QED BY <1>1, <2>1, <2>2, GotoInv, Zenon DEF ClaimCreated, Control
<1>2. CASE ClaimExisting(w)
  <2>1. pc[w] # "idle" /\ Goto(w, "publish") /\ pc'[w] = "publish" /\ job' = job /\ ~ClaimBlocked(w)
    BY <1>2, Zenon DEF ClaimExisting, Goto, Inv, TypeOK
  <2>2. ClaimIsFresh(w)' /\ DayIsOpen(w)' /\ WorkIsDone(w)'
    BY <1>2, <2>1, Zenon DEF ClaimExisting, ClaimIsFresh, DayIsOpen, WorkIsDone, Claims, HoldsDay
  <2> QED BY <1>2, <2>1, <2>2, GotoInv, Zenon DEF ClaimExisting, Control
<1> QED BY <1>1, <1>2, Zenon

LEMMA LookupInv ==
    ASSUME Inv, TypeOK', NEW w \in Worker, LookupAbsent(w) \/ LookupFound(w)
    PROVE  Inv'
<1> USE DEF brokerVars, storeVars, metaVars, sinkVars
<1>0. pc[w] = "lookup" /\ Claims(w) /\ RegistryRow(job[w].msg.id) = {}
  BY Zenon DEF LookupAbsent, LookupFound, Claims, Inv, StorageInv, WorkerInv, ClaimIsFresh
<1>1. CASE LookupAbsent(w)
  <2>1. Goto(w, "guard") /\ pc'[w] = "guard" /\ job' = job
    BY <1>1, Zenon DEF LookupAbsent, Goto, Inv, TypeOK
  <2>2. ClaimIsFresh(w)' /\ DayIsOpen(w)' /\ WorkIsDone(w)'
    BY <1>0, <1>1, <2>1, Zenon DEF LookupAbsent, ClaimIsFresh, DayIsOpen, WorkIsDone, RegistryRow, StoredRow, HoldsDay
  <2> QED BY <1>0, <1>1, <2>1, <2>2, GotoInv, Zenon DEF LookupAbsent, Control
<1>2. CASE LookupFound(w)
  <2>1. Goto(w, "commitFound") /\ pc'[w] = "commitFound" /\ job' = job
    BY <1>2, Zenon DEF LookupFound, Goto, Inv, TypeOK
  <2>2. ClaimIsFresh(w)' /\ DayIsOpen(w)' /\ WorkIsDone(w)'
    BY <1>0, <1>2, <2>1, Zenon DEF LookupFound, ClaimIsFresh, DayIsOpen, WorkIsDone, RegistryRow, StoredRow, HoldsDay
  <2> QED BY <1>0, <1>2, <2>1, <2>2, GotoInv, Zenon DEF LookupFound, Control
<1> QED BY <1>1, <1>2, Zenon

LEMMA GuardInv ==
    ASSUME Inv, TypeOK', NEW w \in Worker, GuardEnter(w)
    PROVE  Inv'
<1> USE DEF brokerVars, storeVars, metaVars, sinkVars
<1>1. pc[w] = "guard" /\ Claims(w) /\ RegistryRow(job[w].msg.id) = {} /\ StoredRow(job[w].msg.id) = {}
  BY Zenon DEF GuardEnter, Claims, Inv, StorageInv, WorkerInv, ClaimIsFresh
<1>2. Goto(w, "insert") /\ pc'[w] = "insert" /\ job' = job
  BY Zenon DEF GuardEnter, Goto, Inv, TypeOK
<1>3. ClaimIsFresh(w)' /\ DayIsOpen(w)' /\ WorkIsDone(w)'
  BY <1>1, <1>2, Zenon DEF GuardEnter, ClaimIsFresh, DayIsOpen, WorkIsDone, RegistryRow, StoredRow, HoldsDay, Frozen
<1> QED BY <1>1, <1>2, <1>3, GotoInv, Zenon DEF GuardEnter, Control

\* Storing an event under its claim: no other claim is about the same id, and
\* the id had no row, so every other worker's part and OneIdentity survive.
LEMMA StoreInv ==
    ASSUME Inv, TypeOK', NEW w \in Worker, pc[w] = "insert",
           stored' = stored \cup {job[w].msg},
           UNCHANGED <<brokerVars, registry, validated, metaVars, sinkVars>>,
           \A v \in Worker \ {w} : pc'[v] = pc[v] /\ job'[v] = job[v] /\ code'[v] = code[v],
           job' = job,
           pc'[w] \in {"commitNew", "claim", "failObject"}
    PROVE  Inv'
<1> USE DEF brokerVars, metaVars, sinkVars
<1>0. Claims(w) /\ RegistryRow(job[w].msg.id) = {} /\ StoredRow(job[w].msg.id) = {} /\ ~Frozen(DayOfMsg(job[w].msg))
  BY Zenon DEF Claims, Inv, StorageInv, WorkerInv, ClaimIsFresh, DayIsOpen, HoldsDay
<1>1. WorkerInv(w)'
  <2>1. JobIsRead(w)' /\ DayIsOpen(w)' /\ WorkIsDone(w)'
    BY <1>0, Zenon DEF Inv, StorageInv, WorkerInv, JobIsRead, DayIsOpen, WorkIsDone, HoldsDay, Frozen
  <2>2. ClaimIsFresh(w)'
    BY <1>0, Zenon DEF ClaimIsFresh, RegistryRow, StoredRow, Claims
  <2> QED BY <2>1, <2>2, Zenon DEF WorkerInv
<1>2. ASSUME NEW v \in Worker, v # w
      PROVE  WorkerInv(v)'
  <2>1. WorkerInv(v) /\ pc'[v] = pc[v] /\ code'[v] = code[v]
    BY <1>2, Zenon DEF Inv, StorageInv
  <2>2. Claims(v) => job[v].msg.id # job[w].msg.id
    BY <1>0, <1>2, Zenon DEF Inv, StorageInv, ClaimsAreDisjoint
  <2>3. JobIsRead(v)' /\ DayIsOpen(v)' /\ WorkIsDone(v)'
    BY <2>1, Zenon DEF WorkerInv, JobIsRead, DayIsOpen, WorkIsDone, HoldsDay, Frozen, ObjectsAt, Recorded
  <2>4. ClaimIsFresh(v)'
    BY <2>1, <2>2, Zenon DEF WorkerInv, ClaimIsFresh, RegistryRow, StoredRow, Claims, Frozen
  <2> QED BY <2>3, <2>4, Zenon DEF WorkerInv
<1>3. ClaimsAreDisjoint'
  BY <1>0, Zenon DEF Inv, StorageInv, ClaimsAreDisjoint, Claims
<1>4. CommittedIsRead' /\ ClosedHasNoHot'
  BY Zenon DEF Inv, StorageInv, CommittedIsRead, ClosedHasNoHot, Frozen
<1>5. OneIdentity'
  BY <1>0 DEF Inv, OneIdentity, RegistryRow, StoredRow
<1>6. RegisteredIsStored' /\ ValidatedIsRegistered' /\ NoMessageLost' /\ FailureIsBacked' /\ HotHasEvents'
  BY Zenon DEF Inv, RegisteredIsStored, ValidatedIsRegistered, NoMessageLost, FailureIsBacked, HotHasEvents, Recorded, Frozen
<1> QED BY <1>1, <1>2, <1>3, <1>4, <1>5, <1>6, Zenon DEF Inv, StorageInv

LEMMA InsertInv ==
    ASSUME Inv, TypeOK', NEW w \in Worker, InsertEvent(w) \/ InsertError(w)
    PROVE  Inv'
<1> USE DEF brokerVars, storeVars, metaVars, sinkVars
<1>1. CASE InsertEvent(w)
  <2>1. /\ pc'[w] = "commitNew" /\ job' = job
        /\ \A v \in Worker \ {w} : pc'[v] = pc[v] /\ job'[v] = job[v] /\ code'[v] = code[v]
    BY <1>1, Zenon DEF InsertEvent, Goto, Inv, TypeOK
  <2> QED BY <1>1, <2>1, StoreInv, Zenon DEF InsertEvent
<1>2. CASE InsertError(w) /\ stored' = stored
  BY <1>2, BackOff, Zenon DEF InsertError, FailureCode, RetryableCode
<1>3. CASE InsertError(w) /\ stored' = stored \cup {job[w].msg}
  <2>1. /\ pc'[w] \in {"claim", "failObject"} /\ job' = job
        /\ \A v \in Worker \ {w} : pc'[v] = pc[v] /\ job'[v] = job[v] /\ code'[v] = code[v]
    BY <1>3 DEF InsertError, TryFails, Fail, Inv, TypeOK
  <2> QED BY <1>3, <2>1, StoreInv, Zenon DEF InsertError
<1> QED BY <1>1, <1>2, <1>3, Zenon DEF InsertError

\* The claim transaction takes effect: the registry row, and what
\* hot_ingest_guard wrote to ingest_metadata.
LEMMA ClaimLands ==
    ASSUME Inv, TypeOK', NEW w \in Worker, pc[w] \in {"commitNew", "commitFound"},
           RegistryWrites(w), MetadataWrites(w),
           UNCHANGED <<brokerVars, stored, validated, sinkVars>>,
           \A v \in Worker \ {w} : pc'[v] = pc[v] /\ job'[v] = job[v] /\ code'[v] = code[v],
           job' = job,
           pc'[w] \in {"publish", "claim", "failObject"}
    PROVE  Inv'
<1> USE DEF brokerVars, metaVars, sinkVars
<1> DEFINE m == job[w].msg
<1>0. /\ Claims(w)
      /\ RegistryRow(m.id) = {}
      /\ StoredRow(m.id) \subseteq {m}
      /\ m \in stored \/ Frozen(DayOfMsg(m))
      /\ pc[w] = "commitNew" => m \in stored /\ ~Frozen(DayOfMsg(m))
      /\ registry' = registry \cup {m}
  <2>1. WorkerInv(w) /\ registry' = registry \cup {m}
    BY Zenon DEF Inv, StorageInv, RegistryWrites
  <2> QED BY <2>1, Zenon DEF Claims, WorkerInv, ClaimIsFresh, DayIsOpen, HoldsDay, StoredRow
<1>1. /\ m \in Sent
      /\ BucketOf(m) \in Bucket
      /\ BucketOf(m) = <<m.endpoint, DayOfMsg(m)>>
      /\ m.endpoint \in Endpoint
      /\ hot \in [Bucket -> HotState]
  <2>1. m \in Sent /\ hot \in [Bucket -> HotState]
    BY Zenon DEF Inv, TypeOK, Job
  <2>2. m.endpoint \in Endpoint /\ DayOfMsg(m) \in Day
    BY <2>1, StorageConstants, Zenon DEF Message, DayOfMsg
  <2> QED BY <2>1, <2>2, Zenon DEF BucketOf, Bucket
<1>2. \A b \in Bucket : hot'[b] = hot[b] \/ (b = BucketOf(m) /\ hot'[b] = "hot" /\ pc[w] = "commitNew")
  BY <1>1, Zenon DEF MetadataWrites
<1>3. ASSUME NEW d \in Day
      PROVE  Frozen(d)' <=> Frozen(d)
  <2>1. \A e \in Endpoint : <<e, d>> \in Bucket
    BY Zenon DEF Bucket
  <2>2. \A e \in Endpoint : hot'[<<e, d>>] \in {"deleting", "dropped"} <=> hot[<<e, d>>] \in {"deleting", "dropped"}
    <3> SUFFICES ASSUME NEW e \in Endpoint, hot'[<<e, d>>] # hot[<<e, d>>]
                 PROVE  hot'[<<e, d>>] = "hot" /\ hot[<<e, d>>] \notin {"deleting", "dropped"}
      BY Zenon
    <3>1. <<e, d>> = BucketOf(m) /\ hot'[<<e, d>>] = "hot" /\ pc[w] = "commitNew"
      BY <1>2, <2>1, Zenon
    <3>2. e = m.endpoint /\ d = DayOfMsg(m)
      BY <1>1, <3>1
    <3> QED BY <1>0, <3>1, <3>2, Zenon DEF Frozen
  <2> QED BY <2>2, Zenon DEF Frozen
<1>4. \A r \in Sent : DayOfMsg(r) \in Day
  BY StorageConstants, Zenon DEF DayOfMsg, Message
<1>5. WorkerInv(w)'
  <2>1. JobIsRead(w)' /\ DayIsOpen(w)' /\ ClaimIsFresh(w)' /\ WorkIsDone(w)'
    BY <1>0, Zenon DEF Inv, StorageInv, WorkerInv, JobIsRead, DayIsOpen, HoldsDay, ClaimIsFresh, Claims, WorkIsDone
  <2> QED BY <2>1, Zenon DEF WorkerInv
<1>6. ASSUME NEW v \in Worker, v # w
      PROVE  WorkerInv(v)'
  <2>1. WorkerInv(v) /\ pc'[v] = pc[v] /\ code'[v] = code[v] /\ DayOfMsg(job[v].msg) \in Day
    BY <1>4, <1>6, Zenon DEF Inv, StorageInv, TypeOK, Job
  <2>2. Claims(v) => job[v].msg.id # m.id
    BY <1>0, <1>6, Zenon DEF Inv, StorageInv, ClaimsAreDisjoint
  <2>3. Frozen(DayOfMsg(job[v].msg))' <=> Frozen(DayOfMsg(job[v].msg))
    BY <1>3, <2>1, Zenon DEF Frozen, DayOfMsg
  <2>4. JobIsRead(v)' /\ WorkIsDone(v)'
    BY <1>0, <2>1, Zenon DEF WorkerInv, JobIsRead, WorkIsDone, ObjectsAt, Recorded
  <2>5. DayIsOpen(v)'
    BY <2>1, <2>3, Zenon DEF WorkerInv, DayIsOpen, HoldsDay
  <2>6. ClaimIsFresh(v)'
    BY <1>0, <2>1, <2>2, <2>3, Zenon DEF WorkerInv, ClaimIsFresh, RegistryRow, StoredRow, Claims
  <2> QED BY <2>4, <2>5, <2>6, Zenon DEF WorkerInv
<1>7. ClaimsAreDisjoint'
  BY <1>0, Zenon DEF Inv, StorageInv, ClaimsAreDisjoint, Claims
<1>8. CommittedIsRead'
  BY Zenon DEF Inv, StorageInv, CommittedIsRead
<1>9. ClosedHasNoHot'
  <2> SUFFICES ASSUME NEW d \in Day, Frozen(d)', NEW e \in Endpoint
               PROVE  hot'[<<e, d>>] # "hot"
    BY Zenon DEF ClosedHasNoHot
  <2>1. Frozen(d) /\ hot[<<e, d>>] # "hot"
    BY <1>3, Zenon DEF Inv, StorageInv, ClosedHasNoHot
  <2>2. <<e, d>> \in Bucket
    BY Zenon DEF Bucket
  <2>3. CASE hot'[<<e, d>>] = hot[<<e, d>>]
    BY <2>1, <2>3, Zenon
  <2>4. CASE <<e, d>> = BucketOf(m) /\ pc[w] = "commitNew"
    BY <1>0, <1>1, <2>1, <2>4, SMTT(20)
  <2> QED BY <1>2, <2>2, <2>3, <2>4, Zenon
<1>10. OneIdentity'
  BY <1>0 DEF Inv, OneIdentity, RegistryRow, StoredRow
<1>11. RegisteredIsStored'
  <2> SUFFICES ASSUME NEW r \in registry'
               PROVE  r \in stored \/ Frozen(DayOfMsg(r))'
    BY Zenon DEF RegisteredIsStored, DayOfMsg
  <2>1. r \in Sent /\ DayOfMsg(r) \in Day
    BY <1>4, Zenon DEF TypeOK
  <2>2. r \in stored \/ Frozen(DayOfMsg(r))
    BY <1>0, Zenon DEF Inv, RegisteredIsStored
  <2> QED BY <1>3, <2>1, <2>2, Zenon
<1>12. ValidatedIsRegistered' /\ NoMessageLost' /\ FailureIsBacked'
  BY <1>0, Zenon DEF Inv, ValidatedIsRegistered, NoMessageLost, FailureIsBacked, Recorded
<1>13. HotHasEvents'
  <2> SUFFICES ASSUME NEW b \in Bucket, hot'[b] = "hot"
               PROVE  \E r \in stored : BucketOf(r) = b
    BY Zenon DEF HotHasEvents, BucketOf, DayOfMsg
  <2> QED BY <1>0, <1>2, Zenon DEF Inv, HotHasEvents
<1> QED BY <1>5, <1>6, <1>7, <1>8, <1>9, <1>10, <1>11, <1>12, <1>13, Zenon DEF Inv, StorageInv

LEMMA CommitClaimInv ==
    ASSUME Inv, TypeOK', NEW w \in Worker, CommitClaim(w) \/ CommitClaimError(w)
    PROVE  Inv'
<1> USE DEF brokerVars, storeVars, metaVars, sinkVars
<1>1. CASE CommitClaim(w)
  <2>1. /\ pc'[w] = "publish" /\ job' = job
        /\ \A v \in Worker \ {w} : pc'[v] = pc[v] /\ job'[v] = job[v] /\ code'[v] = code[v]
    BY <1>1, Zenon DEF CommitClaim, Goto, Inv, TypeOK
  <2> QED BY <1>1, <2>1, ClaimLands, Zenon DEF CommitClaim
<1>2. CASE CommitClaimError(w) /\ RegistryWrites(w) /\ MetadataWrites(w)
  <2>1. /\ pc'[w] \in {"claim", "failObject"} /\ job' = job
        /\ \A v \in Worker \ {w} : pc'[v] = pc[v] /\ job'[v] = job[v] /\ code'[v] = code[v]
    BY <1>2 DEF CommitClaimError, TryFails, Fail, Inv, TypeOK
  <2> QED BY <1>2, <2>1, ClaimLands, Zenon DEF CommitClaimError
<1>3. CASE CommitClaimError(w) /\ UNCHANGED <<registry, metaVars>>
  BY <1>3, BackOff, Zenon DEF CommitClaimError, FailureCode, RetryableCode
<1> QED BY <1>1, <1>2, <1>3, Zenon DEF CommitClaimError

\* The publish and the failure sink add to sets on which the rest of the
\* invariant only depends upwards.
LEMMA AddsOnly ==
    ASSUME Inv, TypeOK', NEW w \in Worker, pc[w] \in {"publish", "failObject", "failPut", "failRow"},
           UNCHANGED <<brokerVars, registry, stored, metaVars>>,
           validated \subseteq validated', failureRows \subseteq failureRows',
           \A o \in objects : \E q \in objects' : q.part = o.part /\ q.off = o.off,
           \A v \in Worker \ {w} : pc'[v] = pc[v] /\ job'[v] = job[v] /\ code'[v] = code[v],
           ~Claims(w)', WorkIsDone(w)',
           pc'[w] # "idle" => job'[w] = job[w],
           ValidatedIsRegistered', FailureIsBacked'
    PROVE  Inv'
<1> USE DEF brokerVars, metaVars
<1>1. WorkerInv(w)'
  <2>1. JobIsRead(w)'
    BY Zenon DEF Inv, StorageInv, WorkerInv, JobIsRead
  <2>2. ClaimIsFresh(w)' /\ DayIsOpen(w)'
    BY Zenon DEF ClaimIsFresh, DayIsOpen, HoldsDay, Claims
  <2> QED BY <2>1, <2>2, Zenon DEF WorkerInv
<1>2. ASSUME NEW v \in Worker, v # w
      PROVE  WorkerInv(v)'
  <2>1. WorkerInv(v) /\ pc'[v] = pc[v] /\ code'[v] = code[v] /\ job'[v] = job[v]
    BY <1>2, Zenon DEF Inv, StorageInv
  <2>2. JobIsRead(v)' /\ DayIsOpen(v)' /\ WorkIsDone(v)'
    BY <2>1, SMTT(20) DEF WorkerInv, JobIsRead, DayIsOpen, WorkIsDone, HoldsDay, Frozen, ObjectsAt, Recorded, DayOfMsg
  <2>3. ClaimIsFresh(v)'
    BY <2>1, SMTT(20) DEF WorkerInv, ClaimIsFresh, RegistryRow, StoredRow, Claims, Frozen, DayOfMsg
  <2> QED BY <2>2, <2>3, Zenon DEF WorkerInv
<1>3. ClaimsAreDisjoint'
  BY DEF Inv, StorageInv, ClaimsAreDisjoint, Claims
<1>4. CommittedIsRead' /\ ClosedHasNoHot'
  BY Zenon DEF Inv, StorageInv, CommittedIsRead, ClosedHasNoHot, Frozen
<1>5. OneIdentity' /\ RegisteredIsStored' /\ HotHasEvents'
  BY Zenon DEF Inv, OneIdentity, RegisteredIsStored, HotHasEvents, Frozen, DayOfMsg
<1>6. NoMessageLost'
  BY DEF Inv, NoMessageLost, Recorded
<1> QED BY <1>1, <1>2, <1>3, <1>4, <1>5, <1>6, Zenon DEF Inv, StorageInv

LEMMA PublishInv ==
    ASSUME Inv, TypeOK', NEW w \in Worker, PublishValidated(w) \/ PublishError(w)
    PROVE  Inv'
<1> USE DEF brokerVars, storeVars, metaVars, sinkVars
<1>0. pc[w] = "publish" /\ job[w].msg \in registry /\ registry' = registry
  BY Zenon DEF PublishValidated, PublishError, Inv, StorageInv, WorkerInv, WorkIsDone
<1>1. CASE PublishValidated(w)
  <2>1. /\ pc'[w] = "commit" /\ job' = job /\ code' = code
        /\ \A v \in Worker \ {w} : pc'[v] = pc[v]
    BY <1>1, Zenon DEF PublishValidated, Goto, Inv, TypeOK
  <2>2. WorkIsDone(w)' /\ ~Claims(w)'
    BY <1>0, <1>1, <2>1, Zenon DEF PublishValidated, WorkIsDone, Claims
  <2>3. ValidatedIsRegistered' /\ FailureIsBacked'
    BY <1>0, <1>1, Zenon DEF PublishValidated, Inv, ValidatedIsRegistered, FailureIsBacked
  <2> QED BY <1>0, <1>1, <2>1, <2>2, <2>3, AddsOnly, Zenon DEF PublishValidated
<1>2. CASE PublishError(w)
  <2>1. /\ pc'[w] \in {"claim", "failObject"} /\ job' = job
        /\ \A v \in Worker \ {w} : pc'[v] = pc[v] /\ code'[v] = code[v]
    BY <1>2 DEF PublishError, TryFails, Fail, Inv, TypeOK
  <2>2. WorkIsDone(w)' /\ ~Claims(w)'
    BY <2>1, Zenon DEF WorkIsDone, Claims
  <2>3. ValidatedIsRegistered' /\ FailureIsBacked'
    BY <1>0, <1>2, Zenon DEF PublishError, Inv, ValidatedIsRegistered, FailureIsBacked
  <2> QED BY <1>0, <1>2, <2>1, <2>2, <2>3, AddsOnly, Zenon DEF PublishError
<1> QED BY <1>1, <1>2, Zenon

\* The PUT leaves an object under every key that had one, and under its own.
LEMMA PutKeeps ==
    ASSUME NEW w \in Worker, ObjectWrites(w)
    PROVE  /\ \A o \in objects : \E q \in objects' : q.part = o.part /\ q.off = o.off
           /\ \E q \in objects' : q.part = job[w].part /\ q.off = job[w].off
<1>1. FailureOf(w) \in objects' /\ FailureOf(w).part = job[w].part /\ FailureOf(w).off = job[w].off
  BY Zenon DEF ObjectWrites, FailureOf
<1>2. \A o \in objects : o \in objects' \/ (o.part = job[w].part /\ o.off = job[w].off)
  BY Zenon DEF ObjectWrites, ObjectsAt
<1> QED BY <1>1, <1>2, Zenon

LEMMA HeadInv ==
    ASSUME Inv, TypeOK', NEW w \in Worker, HeadAbsent(w) \/ HeadSame(w)
    PROVE  Inv'
<1> USE DEF brokerVars, storeVars, metaVars, sinkVars
<1>1. CASE HeadAbsent(w)
  <2>1. Goto(w, "failPut") /\ pc'[w] = "failPut" /\ job' = job
    BY <1>1, Zenon DEF HeadAbsent, Goto, Inv, TypeOK
  <2>2. ClaimIsFresh(w)' /\ DayIsOpen(w)' /\ WorkIsDone(w)' /\ ~Claims(w)'
    BY <2>1, Zenon DEF ClaimIsFresh, DayIsOpen, WorkIsDone, Claims, HoldsDay
  <2> QED BY <1>1, <2>1, <2>2, GotoInv, Zenon DEF HeadAbsent, Control
<1>2. CASE HeadSame(w)
  <2>1. Goto(w, "failRow") /\ pc'[w] = "failRow" /\ job' = job
    BY <1>2, Zenon DEF HeadSame, Goto, Inv, TypeOK
  <2>2. ClaimIsFresh(w)' /\ DayIsOpen(w)' /\ WorkIsDone(w)' /\ ~Claims(w)'
    BY <1>2, <2>1, Zenon DEF HeadSame, ClaimIsFresh, DayIsOpen, WorkIsDone, Claims, HoldsDay, ObjectsAt
  <2> QED BY <1>2, <2>1, <2>2, GotoInv, Zenon DEF HeadSame, Control
<1> QED BY <1>1, <1>2, Zenon

LEMMA RecordInv ==
    ASSUME Inv, TypeOK', NEW w \in Worker,
           PutObject(w) \/ ObjectError(w) \/ RecordRow(w) \/ RecordRowError(w)
    PROVE  Inv'
<1> USE DEF brokerVars, storeVars, metaVars, sinkVars
<1>0. /\ FailureIsBacked /\ ValidatedIsRegistered
      /\ pc[w] = "failRow" => ObjectsAt(w) # {}
  BY Zenon DEF Inv, StorageInv, WorkerInv, WorkIsDone
<1>1. CASE PutObject(w)
  <2>1. /\ pc'[w] = "failRow" /\ job' = job /\ code' = code
        /\ \A v \in Worker \ {w} : pc'[v] = pc[v]
    BY <1>1, Zenon DEF PutObject, Goto, Inv, TypeOK
  <2>2. WorkIsDone(w)' /\ ~Claims(w)'
    BY <1>1, <2>1, PutKeeps, Zenon DEF PutObject, WorkIsDone, Claims, ObjectsAt
  <2>3. ValidatedIsRegistered' /\ FailureIsBacked'
    BY <1>0, <1>1, PutKeeps DEF PutObject, ValidatedIsRegistered, FailureIsBacked
  <2> QED BY <1>1, <2>1, <2>2, <2>3, PutKeeps, AddsOnly, Zenon DEF PutObject
<1>2. CASE ObjectError(w)
  <2>1. /\ pc'[w] = "idle"
        /\ \A v \in Worker \ {w} : pc'[v] = pc[v] /\ job'[v] = job[v] /\ code'[v] = code[v]
    BY <1>2, Zenon DEF ObjectError, Release, Inv, TypeOK
  <2>2. WorkIsDone(w)' /\ ~Claims(w)'
    BY <2>1, Zenon DEF WorkIsDone, Claims
  <2>3. \A o \in objects : \E q \in objects' : q.part = o.part /\ q.off = o.off
    BY <1>2, PutKeeps, Zenon DEF ObjectError
  <2>4. ValidatedIsRegistered' /\ FailureIsBacked'
    BY <1>0, <1>2, <2>3 DEF ObjectError, ValidatedIsRegistered, FailureIsBacked
  <2> QED BY <1>2, <2>1, <2>2, <2>3, <2>4, AddsOnly, Zenon DEF ObjectError
<1>3. CASE RecordRow(w)
  <2>1. /\ pc'[w] = "commit" /\ job' = job /\ code' = code
        /\ \A v \in Worker \ {w} : pc'[v] = pc[v]
    BY <1>3, Zenon DEF RecordRow, Goto, Inv, TypeOK
  <2>2. WorkIsDone(w)' /\ ~Claims(w)'
    <3>1. FailureOf(w) \in failureRows'
      BY <1>3, Zenon DEF RecordRow
    <3>2. FailureOf(w).part = job[w].part /\ FailureOf(w).off = job[w].off
      BY Zenon DEF FailureOf
    <3>3. Recorded(job[w].part, job[w].off)'
      BY <2>1, <3>1, <3>2, Zenon DEF Recorded
    <3> QED BY <2>1, <3>3, Zenon DEF WorkIsDone, Claims
  <2>3. ValidatedIsRegistered' /\ FailureIsBacked'
    BY <1>0, <1>3 DEF RecordRow, ValidatedIsRegistered, FailureIsBacked, ObjectsAt, FailureOf
  <2> QED BY <1>3, <2>1, <2>2, <2>3, AddsOnly, Zenon DEF RecordRow
<1>4. CASE RecordRowError(w)
  <2>1. /\ pc'[w] = "idle"
        /\ \A v \in Worker \ {w} : pc'[v] = pc[v] /\ job'[v] = job[v] /\ code'[v] = code[v]
    BY <1>4, Zenon DEF RecordRowError, Release, Inv, TypeOK
  <2>2. WorkIsDone(w)' /\ ~Claims(w)'
    BY <2>1, Zenon DEF WorkIsDone, Claims
  <2>3. ValidatedIsRegistered' /\ FailureIsBacked'
    BY <1>0, <1>4 DEF RecordRowError, ValidatedIsRegistered, FailureIsBacked, ObjectsAt, FailureOf
  <2> QED BY <1>4, <2>1, <2>2, <2>3, AddsOnly, Zenon DEF RecordRowError
<1> QED BY <1>1, <1>2, <1>3, <1>4, Zenon

\* What the stores, the catalogue and the failure sink owe to each other does
\* not mention the broker or the workers.
Stores == /\ OneIdentity /\ RegisteredIsStored /\ ValidatedIsRegistered
          /\ FailureIsBacked /\ HotHasEvents /\ ClosedHasNoHot

LEMMA StoresFrame ==
    ASSUME Stores, UNCHANGED <<storeVars, metaVars, sinkVars>>
    PROVE  Stores'
BY Zenon DEF Stores, OneIdentity, RegisteredIsStored, ValidatedIsRegistered, FailureIsBacked,
       HotHasEvents, ClosedHasNoHot, Frozen, storeVars, metaVars, sinkVars

\* Committing the offset: the position passed is one whose work is done, and no
\* other worker still owns the partition.
LEMMA CommitInv ==
    ASSUME Inv, TypeOK', NEW w \in Worker, CommitOffset(w) \/ CommitOffsetError(w)
    PROVE  Inv'
<1> USE DEF brokerVars, storeVars, metaVars, sinkVars
<1> DEFINE p == job[w].part
           n == job[w].off
<1>0. /\ pc[w] = "commit" /\ owner[p] = w
      /\ committed' = [committed EXCEPT ![p] = n]
      /\ UNCHANGED <<raw, owner, storeVars, metaVars, sinkVars>>
      /\ Release(w)
  BY Zenon DEF CommitOffset, CommitOffsetError
<1>1. /\ p \in Partition
      /\ committed \in [Partition -> Nat]
      /\ n = committed[p] + 1
      /\ n \in 1 .. Len(raw[p])
      /\ raw[p][n] = job[w].msg
      /\ job[w].msg \in registry \cap validated \/ Recorded(p, n)
  BY <1>0, Zenon DEF Inv, StorageInv, WorkerInv, JobIsRead, WorkIsDone, TypeOK, Job
<1>2. /\ pc'[w] = "idle"
      /\ \A v \in Worker \ {w} : pc'[v] = pc[v] /\ job'[v] = job[v] /\ code'[v] = code[v]
  BY <1>0, Zenon DEF Release, Inv, TypeOK
<1>3. WorkerInv(w)'
  BY <1>2, Zenon DEF WorkerInv, JobIsRead, ClaimIsFresh, DayIsOpen, WorkIsDone, HoldsDay, Claims
<1>4. ASSUME NEW v \in Worker, v # w
      PROVE  WorkerInv(v)'
  <2>1. WorkerInv(v) /\ pc'[v] = pc[v] /\ code'[v] = code[v] /\ job'[v] = job[v] /\ job[v].part \in Partition
    BY <1>2, <1>4, Zenon DEF Inv, StorageInv, TypeOK, Job
  <2>2. JobIsRead(v)'
    BY <1>0, <1>1, <1>4, <2>1, Zenon DEF WorkerInv, JobIsRead
  <2>3. DayIsOpen(v)' /\ WorkIsDone(v)'
    BY <1>0, <2>1, Zenon DEF WorkerInv, DayIsOpen, WorkIsDone, HoldsDay, Frozen, ObjectsAt, Recorded, DayOfMsg
  <2>4. ClaimIsFresh(v)'
    BY <1>0, <2>1, Zenon DEF WorkerInv, ClaimIsFresh, RegistryRow, StoredRow, Claims, Frozen, DayOfMsg
  <2> QED BY <2>2, <2>3, <2>4, Zenon DEF WorkerInv
<1>5. ClaimsAreDisjoint'
  BY <1>2, SMTT(20) DEF Inv, StorageInv, ClaimsAreDisjoint, Claims
<1>6. CommittedIsRead'
  BY <1>0, <1>1, SMTT(20) DEF Inv, StorageInv, CommittedIsRead
<1>7. NoMessageLost'
  <2> SUFFICES ASSUME NEW q \in Partition, NEW i \in 1 .. committed'[q]
               PROVE  raw[q][i] \in registry \cap validated \/ Recorded(q, i)
    BY <1>0 DEF NoMessageLost, Recorded
  <2>1. CASE q = p /\ i = n
    BY <1>1, <2>1, Zenon
  <2>2. CASE i \in 1 .. committed[q]
    BY <2>2, Zenon DEF Inv, NoMessageLost
  <2> QED BY <1>0, <1>1, <2>1, <2>2, SMTT(20)
<1>8. Stores'
  BY <1>0, StoresFrame, Zenon DEF Inv, StorageInv, Stores
<1> QED BY <1>3, <1>4, <1>5, <1>6, <1>7, <1>8, Zenon DEF Inv, StorageInv, Stores

\* A rebalance gives the partition to a worker that holds no message.
LEMMA RebalanceInv ==
    ASSUME Inv, TypeOK', NEW w \in Worker, NEW p \in Partition, Rebalance(p, w)
    PROVE  Inv'
<1> USE DEF brokerVars, workVars, storeVars, metaVars, sinkVars
<1>1. ASSUME NEW v \in Worker
      PROVE  WorkerInv(v)'
  <2>1. WorkerInv(v) /\ job[v].part \in Partition
    BY Zenon DEF Inv, StorageInv, TypeOK, Job
  <2>2. JobIsRead(v)'
    BY <2>1, Zenon DEF WorkerInv, JobIsRead, Rebalance, Inv, TypeOK
  <2>3. DayIsOpen(v)' /\ WorkIsDone(v)'
    BY <2>1, Zenon DEF Rebalance, WorkerInv, DayIsOpen, WorkIsDone, HoldsDay, Frozen, ObjectsAt, Recorded
  <2>4. ClaimIsFresh(v)'
    BY <2>1, Zenon DEF Rebalance, WorkerInv, ClaimIsFresh, RegistryRow, StoredRow, Claims, Frozen
  <2> QED BY <2>2, <2>3, <2>4, Zenon DEF WorkerInv
<1>2. ClaimsAreDisjoint' /\ CommittedIsRead' /\ NoMessageLost'
  BY DEF Rebalance, Inv, StorageInv, ClaimsAreDisjoint, Claims, CommittedIsRead, NoMessageLost, Recorded
<1>3. Stores'
  BY StoresFrame, Zenon DEF Rebalance, Inv, StorageInv, Stores
<1> QED BY <1>1, <1>2, <1>3, Zenon DEF Inv, StorageInv, Stores

\* A message appended to the log changes no position that was read.
LEMMA ProduceInv ==
    ASSUME Inv, TypeOK', NEW m \in Sent, Produce(m)
    PROVE  Inv'
<1> USE DEF brokerVars, workVars, storeVars, metaVars, sinkVars
<1> DEFINE p == PartitionOf[m.endpoint]
<1>0. /\ p \in Partition
      /\ raw' = [raw EXCEPT ![p] = Append(@, m)]
      /\ UNCHANGED <<committed, owner, workVars, storeVars, metaVars, sinkVars>>
  BY StorageConstants, Zenon DEF Produce, Message
<1>1. ASSUME NEW q \in Partition
      PROVE  /\ Len(raw[q]) \in Nat
             /\ Len(raw'[q]) \in Nat
             /\ Len(raw[q]) <= Len(raw'[q])
             /\ \A i \in 1 .. Len(raw[q]) : raw'[q][i] = raw[q][i]
  <2>1. raw \in [Partition -> Seq(Sent)]
    BY Zenon DEF Inv, TypeOK
  <2> QED BY <1>0, <2>1
<1>2. ASSUME NEW v \in Worker
      PROVE  WorkerInv(v)'
  <2>1. WorkerInv(v) /\ job[v].part \in Partition
    BY Zenon DEF Inv, StorageInv, TypeOK, Job
  <2>2. JobIsRead(v)'
    BY <1>0, <1>1, <2>1 DEF WorkerInv, JobIsRead
  <2>3. DayIsOpen(v)' /\ WorkIsDone(v)'
    BY <1>0, <2>1, Zenon DEF WorkerInv, DayIsOpen, WorkIsDone, HoldsDay, Frozen, ObjectsAt, Recorded
  <2>4. ClaimIsFresh(v)'
    BY <1>0, <2>1, Zenon DEF WorkerInv, ClaimIsFresh, RegistryRow, StoredRow, Claims, Frozen
  <2> QED BY <2>2, <2>3, <2>4, Zenon DEF WorkerInv
<1>3. ClaimsAreDisjoint'
  BY <1>0, Zenon DEF Inv, StorageInv, ClaimsAreDisjoint, Claims
<1>4. CommittedIsRead'
  <2> SUFFICES ASSUME NEW q \in Partition
               PROVE  committed[q] <= Len(raw'[q])
    BY <1>0, Zenon DEF CommittedIsRead
  <2>1. committed[q] \in Nat /\ committed[q] <= Len(raw[q])
    BY Zenon DEF Inv, TypeOK, StorageInv, CommittedIsRead
  <2> QED BY <1>1, <2>1
<1>5. NoMessageLost'
  <2> SUFFICES ASSUME NEW q \in Partition, NEW i \in 1 .. committed[q]
               PROVE  raw'[q][i] \in registry \cap validated \/ Recorded(q, i)
    BY <1>0, ZenonT(40) DEF NoMessageLost, Recorded
  <2>1. committed[q] \in Nat /\ committed[q] <= Len(raw[q])
    BY Zenon DEF Inv, TypeOK, StorageInv, CommittedIsRead
  <2>2. raw'[q][i] = raw[q][i]
    BY <1>1, <2>1
  <2> QED BY <2>2, Zenon DEF Inv, NoMessageLost
<1>6. Stores'
  BY <1>0, StoresFrame, Zenon DEF Inv, StorageInv, Stores
<1> QED BY <1>2, <1>3, <1>4, <1>5, <1>6, Zenon DEF Inv, StorageInv, Stores

LEMMA VerifyInv ==
    ASSUME Inv, TypeOK', NEW b \in Bucket, VerifyArchive(b)
    PROVE  Inv'
<1> USE DEF brokerVars, workVars, storeVars, metaVars, sinkVars
<1>1. ASSUME NEW v \in Worker
      PROVE  WorkerInv(v)'
  <2>1. WorkerInv(v)
    BY Zenon DEF Inv, StorageInv
  <2>2. JobIsRead(v)' /\ DayIsOpen(v)' /\ WorkIsDone(v)'
    BY <2>1, Zenon DEF VerifyArchive, WorkerInv, JobIsRead, DayIsOpen, WorkIsDone, HoldsDay, Frozen, ObjectsAt, Recorded
  <2>3. ClaimIsFresh(v)'
    BY <2>1, Zenon DEF VerifyArchive, WorkerInv, ClaimIsFresh, RegistryRow, StoredRow, Claims, Frozen
  <2> QED BY <2>2, <2>3, Zenon DEF WorkerInv
<1>2. ClaimsAreDisjoint' /\ CommittedIsRead' /\ NoMessageLost'
  BY DEF VerifyArchive, Inv, StorageInv, ClaimsAreDisjoint, Claims, CommittedIsRead, NoMessageLost, Recorded
<1>3. Stores'
  BY Zenon DEF VerifyArchive, Inv, StorageInv, Stores, OneIdentity, RegisteredIsStored, ValidatedIsRegistered,
         FailureIsBacked, HotHasEvents, ClosedHasNoHot, Frozen
<1> QED BY <1>1, <1>2, <1>3, Zenon DEF Inv, StorageInv, Stores

\* Closing a day, or recording that its partition is gone: days only get
\* frozen, none that a worker holds the lock of, and no row becomes active.
LEMMA CloseInv ==
    ASSUME Inv, TypeOK', NEW d \in Day, ClaimDeletion(d) \/ MarkDropped(d)
    PROVE  Inv'
<1> USE DEF brokerVars, workVars, storeVars, metaVars, sinkVars
<1>0. /\ UNCHANGED <<brokerVars, workVars, storeVars, sinkVars>>
      /\ hot \in [Bucket -> HotState]
      /\ \A e \in Endpoint, x \in Day : <<e, x>> \in Bucket /\ <<e, x>>[2] = x
  BY Zenon DEF ClaimDeletion, MarkDropped, Inv, TypeOK, Bucket
<1>1. \A e \in Endpoint, x \in Day :
         /\ hot'[<<e, x>>] = "hot" => hot[<<e, x>>] = "hot"
         /\ x # d => hot'[<<e, x>>] = hot[<<e, x>>]
         /\ hot[<<e, x>>] \in {"deleting", "dropped"} => hot'[<<e, x>>] \in {"deleting", "dropped"}
         /\ ClaimDeletion(d) /\ x = d => hot'[<<e, x>>] # "hot"
  <2> TAKE e \in Endpoint, x \in Day
  <2>1. CASE ClaimDeletion(d)
    <3>1. hot'[<<e, x>>] = IF x = d /\ hot[<<e, x>>] = "hot" THEN "deleting" ELSE hot[<<e, x>>]
      BY <1>0, <2>1, Zenon DEF ClaimDeletion
    <3> QED BY <3>1, Zenon
  <2>2. CASE MarkDropped(d)
    <3>1. hot'[<<e, x>>] = IF x = d /\ hot[<<e, x>>] = "deleting" THEN "dropped" ELSE hot[<<e, x>>]
      BY <1>0, <2>2, Zenon DEF MarkDropped
    <3>2. Frozen(d) /\ (x = d => hot[<<e, x>>] # "hot")
      BY <2>2, Zenon DEF MarkDropped, Frozen, Inv, StorageInv, ClosedHasNoHot
    <3> QED BY <3>1, <3>2, Zenon
  <2> QED BY <2>1, <2>2, Zenon
<1>2. \A x \in Day : Frozen(x) => Frozen(x)'
  BY <1>1, Zenon DEF Frozen
<1>3. MarkDropped(d) => Frozen(d)
  BY Zenon DEF MarkDropped, Frozen
<1>4. \A x \in Day : x # d \/ MarkDropped(d) => (Frozen(x)' => Frozen(x))
  BY <1>1, <1>3, Zenon DEF Frozen
<1>5. \A r \in Sent : DayOfMsg(r) \in Day
  BY StorageConstants, Zenon DEF DayOfMsg, Message
<1>6. ASSUME NEW v \in Worker
      PROVE  WorkerInv(v)'
  <2>1. WorkerInv(v) /\ job[v].msg \in Sent /\ DayOfMsg(job[v].msg) \in Day
    BY <1>5, Zenon DEF Inv, StorageInv, TypeOK, Job
  <2>2. JobIsRead(v)' /\ WorkIsDone(v)'
    BY <1>0, <2>1, Zenon DEF WorkerInv, JobIsRead, WorkIsDone, ObjectsAt, Recorded
  <2>3. DayIsOpen(v)'
    <3> SUFFICES ASSUME HoldsDay(v)
                 PROVE  ~Frozen(DayOfMsg(job[v].msg))'
      BY <1>0, Zenon DEF DayIsOpen, HoldsDay
    <3>1. ~Frozen(DayOfMsg(job[v].msg))
      BY <2>1, Zenon DEF WorkerInv, DayIsOpen
    <3>2. ClaimDeletion(d) => DayOfMsg(job[v].msg) # d
      BY Zenon DEF ClaimDeletion, DayUnlocked
    <3>3. Frozen(DayOfMsg(job[v].msg))' => Frozen(DayOfMsg(job[v].msg))
      BY <1>0, <1>4, <2>1, <3>2, Zenon DEF DayOfMsg, Frozen
    <3> QED BY <3>1, <3>3, Zenon
  <2>4. ClaimIsFresh(v)'
    <3>1. Frozen(DayOfMsg(job[v].msg)) => Frozen(DayOfMsg(job[v].msg))'
      BY <1>0, <1>2, <2>1, Zenon DEF DayOfMsg, Frozen
    <3> QED BY <1>0, <2>1, <3>1, Zenon DEF WorkerInv, ClaimIsFresh, RegistryRow, StoredRow, Claims
  <2> QED BY <2>2, <2>3, <2>4, Zenon DEF WorkerInv
<1>7. ClaimsAreDisjoint' /\ CommittedIsRead' /\ NoMessageLost'
  BY <1>0 DEF Inv, StorageInv, ClaimsAreDisjoint, Claims, CommittedIsRead, NoMessageLost, Recorded
<1>8. OneIdentity' /\ ValidatedIsRegistered' /\ FailureIsBacked'
  BY <1>0, Zenon DEF Inv, OneIdentity, ValidatedIsRegistered, FailureIsBacked
<1>9. RegisteredIsStored'
  <2> SUFFICES ASSUME NEW r \in registry
               PROVE  r \in stored \/ Frozen(DayOfMsg(r))'
    BY <1>0, Zenon DEF RegisteredIsStored, DayOfMsg
  <2>1. DayOfMsg(r) \in Day /\ (r \in stored \/ Frozen(DayOfMsg(r)))
    BY <1>5, Zenon DEF Inv, TypeOK, RegisteredIsStored
  <2> QED BY <1>2, <2>1, Zenon
<1>10. HotHasEvents'
  <2> SUFFICES ASSUME NEW b \in Bucket, hot'[b] = "hot"
               PROVE  \E r \in stored : BucketOf(r) = b
    BY <1>0, Zenon DEF HotHasEvents, BucketOf, DayOfMsg
  <2>1. hot[b] = "hot"
    BY <1>1 DEF Bucket
  <2> QED BY <2>1, Zenon DEF Inv, HotHasEvents
<1>11. ClosedHasNoHot'
  <2> SUFFICES ASSUME NEW x \in Day, Frozen(x)', NEW e \in Endpoint
               PROVE  hot'[<<e, x>>] # "hot"
    BY Zenon DEF ClosedHasNoHot
  <2>1. CASE x = d /\ ClaimDeletion(d)
    BY <1>1, <2>1, Zenon
  <2>2. CASE x # d \/ MarkDropped(d)
    BY <1>1, <1>4, <2>2, Zenon DEF Inv, StorageInv, ClosedHasNoHot
  <2> QED BY <2>1, <2>2, Zenon
<1> QED BY <1>6, <1>7, <1>8, <1>9, <1>10, <1>11, Zenon DEF Inv, StorageInv

\* Dropping a partition removes events of a closed day, which no HOT row and no
\* open lock still speaks for.
LEMMA DropInv ==
    ASSUME Inv, TypeOK', NEW d \in Day, DropPartition(d)
    PROVE  Inv'
<1> USE DEF brokerVars, workVars, storeVars, metaVars, sinkVars
<1>0. /\ UNCHANGED <<brokerVars, workVars, registry, validated, metaVars, sinkVars>>
      /\ stored' = {r \in stored : DayOfMsg(r) # d}
      /\ Frozen(d)
  BY Zenon DEF DropPartition, Frozen
<1>1. ASSUME NEW v \in Worker
      PROVE  WorkerInv(v)'
  <2>1. WorkerInv(v)
    BY Zenon DEF Inv, StorageInv
  <2>2. JobIsRead(v)' /\ DayIsOpen(v)' /\ WorkIsDone(v)'
    BY <1>0, <2>1, Zenon DEF WorkerInv, JobIsRead, DayIsOpen, WorkIsDone, HoldsDay, Frozen, ObjectsAt, Recorded
  <2>3. pc[v] = "commitNew" => DayOfMsg(job[v].msg) # d
    BY <1>0, <2>1, Zenon DEF WorkerInv, DayIsOpen, HoldsDay
  <2>4. /\ StoredRow(job[v].msg.id)' \subseteq StoredRow(job[v].msg.id)
        /\ DayOfMsg(job[v].msg) # d /\ job[v].msg \in stored => job[v].msg \in stored'
    BY <1>0, Zenon DEF StoredRow
  <2>5. pc[v] = "commitNew" => StoredRow(job[v].msg.id)' = {job[v].msg}
    <3> SUFFICES ASSUME pc[v] = "commitNew"
                 PROVE  StoredRow(job[v].msg.id)' = {job[v].msg}
      BY Zenon
    <3>1. StoredRow(job[v].msg.id) = {job[v].msg} /\ job[v].msg \in stored
      BY <2>1, Zenon DEF WorkerInv, ClaimIsFresh, StoredRow
    <3>2. job[v].msg \in stored'
      BY <2>3, <2>4, <3>1, Zenon
    <3> QED BY <1>0, <2>4, <3>1, <3>2, Zenon DEF StoredRow
  <2>6. ClaimIsFresh(v)'
    <3>1. Frozen(DayOfMsg(job[v].msg))' <=> Frozen(DayOfMsg(job[v].msg))
      BY <1>0, Zenon DEF Frozen, DayOfMsg
    <3>2. RegistryRow(job[v].msg.id)' = RegistryRow(job[v].msg.id)
      BY <1>0, Zenon DEF RegistryRow
    <3> QED BY <1>0, <2>1, <2>4, <2>5, <3>1, <3>2, Zenon DEF WorkerInv, ClaimIsFresh, Claims
  <2> QED BY <2>2, <2>6, Zenon DEF WorkerInv
<1>2. ClaimsAreDisjoint' /\ CommittedIsRead' /\ NoMessageLost'
  BY <1>0 DEF Inv, StorageInv, ClaimsAreDisjoint, Claims, CommittedIsRead, NoMessageLost, Recorded
<1>3. OneIdentity' /\ ValidatedIsRegistered' /\ FailureIsBacked' /\ ClosedHasNoHot'
  BY <1>0, Zenon DEF Inv, StorageInv, OneIdentity, ValidatedIsRegistered, FailureIsBacked, ClosedHasNoHot, Frozen
<1>4. RegisteredIsStored'
  BY <1>0, Zenon DEF Inv, RegisteredIsStored, Frozen, DayOfMsg
<1>5. HotHasEvents'
  <2> SUFFICES ASSUME NEW b \in Bucket, hot[b] = "hot"
               PROVE  \E r \in stored' : BucketOf(r) = b
    BY <1>0, Zenon DEF HotHasEvents, BucketOf, DayOfMsg
  <2>1. PICK r \in stored : BucketOf(r) = b
    BY Zenon DEF Inv, HotHasEvents
  <2>2. b[2] # d
    BY <1>0 DEF Inv, StorageInv, ClosedHasNoHot, Bucket
  <2>3. DayOfMsg(r) # d
    BY <2>1, <2>2, Zenon DEF BucketOf
  <2> QED BY <1>0, <2>1, <2>3, Zenon
<1> QED BY <1>1, <1>2, <1>3, <1>4, <1>5, Zenon DEF Inv, StorageInv

LEMMA StepInv ==
    ASSUME Inv, TypeOK', NEW w \in Worker, Step(w)
    PROVE  Inv'
<1>1. CASE \E p \in Partition : Consume(w, p)
  BY <1>1, ConsumeInv, Zenon
<1>2. CASE RejectMalformed(w) \/ ClaimConflict(w) \/ LookupConflict(w) \/ GuardFrozen(w)
  BY <1>2, BackOff, Zenon DEF RejectMalformed, ClaimConflict, LookupConflict, GuardFrozen, FailureCode, PermanentCode
<1>3. CASE HeadCollides(w) \/ CommitFenced(w)
  BY <1>3, BackOff, Zenon DEF HeadCollides, CommitFenced
<1>4. CASE CommitOffset(w)
  BY <1>4, CommitInv, Zenon
<1>5. CASE PutObject(w) \/ RecordRow(w)
  BY <1>5, RecordInv, Zenon
<1>12. CASE HeadAbsent(w) \/ HeadSame(w)
  BY <1>12, HeadInv, Zenon
<1>6. CASE ClaimCreated(w) \/ ClaimExisting(w)
  BY <1>6, ClaimInv, Zenon
<1>7. CASE LookupAbsent(w) \/ LookupFound(w)
  BY <1>7, LookupInv, Zenon
<1>8. CASE GuardEnter(w)
  BY <1>8, GuardInv, Zenon
<1>9. CASE InsertEvent(w)
  BY <1>9, InsertInv, Zenon
<1>10. CASE CommitClaim(w)
  BY <1>10, CommitClaimInv, Zenon
<1>11. CASE PublishValidated(w)
  BY <1>11, PublishInv, Zenon
<1>13. CASE NormalizeRaises(w)
  BY <1>13, BackOff, Zenon DEF NormalizeRaises, FailureCode, RetryableCode
<1> QED BY <1>1, <1>2, <1>3, <1>4, <1>5, <1>6, <1>7, <1>8, <1>9, <1>10, <1>11, <1>12, <1>13, Zenon DEF Step

LEMMA DisturbanceInv ==
    ASSUME Inv, TypeOK', NEW w \in Worker, Disturbance(w)
    PROVE  Inv'
<1>1. CASE Crash(w)
  BY <1>1, BackOff, Zenon DEF Crash
<1>2. CASE \E p \in Partition : Rebalance(p, w)
  BY <1>2, RebalanceInv, Zenon
<1>3. CASE ClaimTimeout(w) \/ GuardTimeout(w) \/ TransactionError(w)
  BY <1>3, BackOff, Zenon DEF ClaimTimeout, GuardTimeout, TransactionError, FailureCode, RetryableCode
<1>4. CASE \E c \in RetryableCode : GuardCollides(w, c)
  BY <1>4, BackOff, Zenon DEF GuardCollides, FailureCode
<1>5. CASE InsertError(w)
  BY <1>5, InsertInv, Zenon
<1>6. CASE CommitClaimError(w)
  BY <1>6, CommitClaimInv, Zenon
<1>7. CASE PublishError(w)
  BY <1>7, PublishInv, Zenon
<1>8. CASE ObjectError(w) \/ RecordRowError(w)
  BY <1>8, RecordInv, Zenon
<1>9. CASE CommitOffsetError(w)
  BY <1>9, CommitInv, Zenon
<1> QED BY <1>1, <1>2, <1>3, <1>4, <1>5, <1>6, <1>7, <1>8, <1>9, Zenon DEF Disturbance

LEMMA NextInv == Inv /\ [Next]_vars => Inv'
<1> SUFFICES ASSUME Inv, [Next]_vars
             PROVE  Inv'
  BY Zenon
<1>0. TypeOK'
  BY NextType, Zenon DEF Inv
<1>1. CASE \E m \in Sent : Produce(m)
  BY <1>0, <1>1, ProduceInv, Zenon
<1>2. CASE \E w \in Worker : Step(w) \/ Disturbance(w)
  BY <1>0, <1>2, StepInv, DisturbanceInv, Zenon
<1>3. CASE Lifecycle
  BY <1>0, <1>3, VerifyInv, CloseInv, DropInv, Zenon DEF Lifecycle
<1>4. CASE UNCHANGED vars
  <2>1. UNCHANGED <<brokerVars, workVars, storeVars, metaVars, sinkVars>>
    BY <1>4, Zenon DEF vars
  <2>2. ASSUME NEW w \in Worker
        PROVE  WorkerInv(w)'
    <3> USE <2>1 DEF brokerVars, workVars, storeVars, metaVars, sinkVars
    <3>1. WorkerInv(w)
      BY Zenon DEF Inv, StorageInv
    <3>2. JobIsRead(w)' /\ DayIsOpen(w)' /\ WorkIsDone(w)'
      BY <3>1, Zenon DEF WorkerInv, JobIsRead, DayIsOpen, WorkIsDone, HoldsDay, Frozen, ObjectsAt, Recorded
    <3>3. ClaimIsFresh(w)'
      BY <3>1, Zenon DEF WorkerInv, ClaimIsFresh, Claims, RegistryRow, StoredRow, Frozen
    <3> QED BY <3>2, <3>3, Zenon DEF WorkerInv
  <2>3. ClaimsAreDisjoint' /\ CommittedIsRead' /\ NoMessageLost'
    BY <2>1 DEF brokerVars, workVars, storeVars, sinkVars, Inv, StorageInv, ClaimsAreDisjoint, Claims,
                CommittedIsRead, NoMessageLost, Recorded
  <2>4. Stores'
    BY <2>1, StoresFrame, Zenon DEF Inv, StorageInv, Stores
  <2> QED BY <1>0, <2>2, <2>3, <2>4, Zenon DEF Inv, StorageInv, Stores
<1> QED BY <1>1, <1>2, <1>3, <1>4, Zenon DEF Next

\* The inductive invariant holds of the worker group, for any number of
\* workers, partitions, events, retries and failures.
THEOREM InvHolds == Spec => []Inv
BY InitInv, NextInv, PTL DEF Spec

\* The workers' part of it: what each control point of _process and
\* _run_worker_once can rely on.
THEOREM WorkersKeepOrder == Spec => []StorageInv
<1>1. Inv => StorageInv
  BY Zenon DEF Inv
<1> QED BY <1>1, InvHolds, PTL

\* No event id ever has two identities (_assert_same_identity and the claim).
THEOREM IdentityIsUnique == Spec => []OneIdentity
<1>1. Inv => OneIdentity
  BY Zenon DEF Inv
<1> QED BY <1>1, InvHolds, PTL

\* A registered event is in ClickHouse, unless its day is closed (_process
\* commits the claim after the insert).
THEOREM RegistryIsHonest == Spec => []RegisteredIsStored
<1>1. Inv => RegisteredIsStored
  BY Zenon DEF Inv
<1> QED BY <1>1, InvHolds, PTL

\* Only registered events reach telemetry.validated (_process publishes last).
THEOREM DownstreamSeesRegistered == Spec => []ValidatedIsRegistered
<1>1. Inv => ValidatedIsRegistered
  BY Zenon DEF Inv
<1> QED BY <1>1, InvHolds, PTL

\* A committed offset passes only messages that were stored and published, or
\* recorded as failures (_run_worker_once), through any crashes, rebalances
\* and errors.
THEOREM NothingIsLost == Spec => []NoMessageLost
<1>1. Inv => NoMessageLost
  BY Zenon DEF Inv
<1> QED BY <1>1, InvHolds, PTL

\* Failure rows are backed by their only payload object (_put_idempotent).
THEOREM FailuresAreBacked == Spec => []FailureIsBacked
<1>1. Inv => FailureIsBacked
  BY Zenon DEF Inv
<1> QED BY <1>1, InvHolds, PTL

\* A HOT row always has an event to archive (hot_ingest_guard).
THEOREM HotRowsHaveEvents == Spec => []HotHasEvents
<1>1. Inv => HotHasEvents
  BY Zenon DEF Inv
<1> QED BY <1>1, InvHolds, PTL

\* Nothing is written to a closed day (hot_ingest_guard holds the day's lock
\* across the insert).
THEOREM ClosedDaysStayClosed == Spec => FrozenDayIsImmutable
<1> DEFINE NoLateRow == \A r \in stored' \ stored : ~Frozen(DayOfMsg(r))
<1>1. Inv /\ [Next]_vars => [NoLateRow]_vars
  <2> SUFFICES ASSUME Inv, Next, NEW r \in stored' \ stored
               PROVE  ~Frozen(DayOfMsg(r))
    BY Zenon
  <2> USE DEF storeVars
  <2>1. PICK w \in Worker : InsertEvent(w) \/ InsertError(w)
    <3>1. CASE \E m \in Sent : Produce(m)
      BY <3>1, Zenon DEF Produce
    <3>2. CASE Lifecycle
      BY <3>2, Zenon DEF Lifecycle, VerifyArchive, ClaimDeletion, DropPartition, MarkDropped
    <3>3. ASSUME NEW w \in Worker, Step(w)
          PROVE  InsertEvent(w)
      BY <3>3, Zenon DEF Step, Consume, RejectMalformed, NormalizeRaises, ClaimCreated, ClaimExisting,
                  ClaimConflict, LookupAbsent, LookupFound, LookupConflict, GuardEnter, GuardFrozen, CommitClaim, PublishValidated,
                  HeadAbsent, HeadSame, HeadCollides, PutObject, RecordRow, CommitOffset, CommitFenced
    <3>4. ASSUME NEW w \in Worker, Disturbance(w)
          PROVE  InsertError(w)
      BY <3>4, Zenon DEF Disturbance, Crash, Rebalance, ClaimTimeout, GuardTimeout, TransactionError, GuardCollides,
                  CommitClaimError, PublishError, ObjectError, RecordRowError, CommitOffsetError
    <3> QED BY <3>1, <3>2, <3>3, <3>4, Zenon DEF Next
  <2>2. r = job[w].msg /\ HoldsDay(w)
    BY <2>1, Zenon DEF InsertEvent, InsertError, HoldsDay
  <2> QED BY <2>2, Zenon DEF Inv, StorageInv, WorkerInv, DayIsOpen
<1> QED BY <1>1, InvHolds, PTL DEF Spec, FrozenDayIsImmutable

-----------------------------------------------------------------------------
(* Refinement.                                                             *)

\* What a step must leave alone to be a stutter of the ledger.
LedgerVars == <<raw, registry, validated, failureRows, committed>>

LEMMA LedgerStutter ==
    ASSUME UNCHANGED LedgerVars
    PROVE  UNCHANGED Ledger!vars
BY Zenon DEF LedgerVars, Ledger!vars

LEMMA EnterStep ==
    ASSUME Inv, NEW w \in Worker, RegistryWrites(w), pc[w] \in {"commitNew", "commitFound"},
           UNCHANGED <<raw, validated, failureRows, committed>>
    PROVE  Ledger!Next
<1>1. job[w].msg \in Sent /\ RegistryRow(job[w].msg.id) = {}
  BY Zenon DEF Inv, TypeOK, Job, StorageInv, WorkerInv, ClaimIsFresh, Claims
<1>2. Ledger!Enter(job[w].msg)
  BY <1>1, Zenon DEF RegistryWrites, RegistryRow, Ledger!Enter
<1> QED BY <1>1, <1>2, Zenon DEF Ledger!Next

LEMMA AnnounceStep ==
    ASSUME Inv, NEW w \in Worker, pc[w] = "publish", validated' = validated \cup {job[w].msg},
           UNCHANGED <<raw, registry, failureRows, committed>>
    PROVE  Ledger!Next
<1>1. job[w].msg \in Sent /\ job[w].msg \in registry
  BY Zenon DEF Inv, TypeOK, Job, StorageInv, WorkerInv, WorkIsDone
<1>2. Ledger!Announce(job[w].msg)
  BY <1>1, Zenon DEF Ledger!Announce
<1> QED BY <1>1, <1>2, Zenon DEF Ledger!Next

LEMMA SetAsideStep ==
    ASSUME Inv, NEW w \in Worker, pc[w] = "failRow", failureRows' = failureRows \cup {FailureOf(w)},
           UNCHANGED <<raw, registry, validated, committed>>
    PROVE  Ledger!Next
<1> DEFINE p == job[w].part
           n == job[w].off
<1>1. p \in Partition /\ n \in 1 .. Len(raw[p])
  BY Zenon DEF Inv, TypeOK, Job, StorageInv, WorkerInv, JobIsRead
<1>2. FailureOf(w).part = p /\ FailureOf(w).off = n
  BY Zenon DEF FailureOf
<1>3. {<<f.part, f.off>> : f \in failureRows'} = {<<f.part, f.off>> : f \in failureRows} \cup {<<p, n>>}
  BY <1>2, Zenon
<1>4. Ledger!SetAside(p, n)
  BY <1>3, Zenon DEF Ledger!SetAside
<1>5. \E q \in Partition : \E i \in 1 .. Len(raw[q]) : Ledger!SetAside(q, i)
  BY <1>1, <1>4, Zenon DEF Ledger!SetAside
<1> QED BY <1>5, Zenon DEF Ledger!Next

LEMMA AdvanceStep ==
    ASSUME Inv, NEW w \in Worker, pc[w] = "commit", owner[job[w].part] = w,
           committed' = [committed EXCEPT ![job[w].part] = job[w].off],
           UNCHANGED <<raw, registry, validated, failureRows>>
    PROVE  Ledger!Next
<1> DEFINE p == job[w].part
           n == job[w].off
<1>1. /\ p \in Partition
      /\ n \in 1 .. Len(raw[p])
      /\ n = committed[p] + 1
      /\ raw[p][n] = job[w].msg
      /\ job[w].msg \in registry \cap validated \/ Recorded(p, n)
  BY Zenon DEF Inv, TypeOK, Job, StorageInv, WorkerInv, JobIsRead, WorkIsDone
<1>2. Recorded(p, n) => <<p, n>> \in {<<f.part, f.off>> : f \in failureRows}
  BY Zenon DEF Recorded
<1>3. raw \in [Partition -> Seq(Sent)]
  BY Zenon DEF Inv, TypeOK
<1>4. n <= Len(raw[p])
  BY <1>1, <1>3
<1>5. Ledger!Advance(p)
  BY <1>1, <1>2, <1>4, Zenon DEF Ledger!Advance
<1> QED BY <1>1, <1>5, Zenon DEF Ledger!Next

LEMMA LedgerStep == Inv /\ [Next]_vars => [Ledger!Next]_(Ledger!vars)
<1> SUFFICES ASSUME Inv, Next
             PROVE  Ledger!Next \/ UNCHANGED LedgerVars
  BY LedgerStutter, Zenon DEF LedgerVars, vars, brokerVars, storeVars, sinkVars
<1> USE DEF LedgerVars, brokerVars, storeVars, sinkVars
<1>1. CASE \E m \in Sent : Produce(m)
  <2>1. PICK m \in Sent : Produce(m)
    BY <1>1, Zenon
  <2>2. PartitionOf[m.endpoint] \in Partition
    BY StorageConstants, Zenon DEF Message
  <2>3. Ledger!Arrive(PartitionOf[m.endpoint], m)
    BY <2>1, Zenon DEF Produce, Ledger!Arrive
  <2> QED BY <2>2, <2>3, Zenon DEF Ledger!Next
<1>2. CASE Lifecycle
  BY <1>2, Zenon DEF Lifecycle, VerifyArchive, ClaimDeletion, DropPartition, MarkDropped
<1>3. ASSUME NEW w \in Worker, Step(w)
      PROVE  Ledger!Next \/ UNCHANGED LedgerVars
  <2>1. CASE CommitClaim(w)
    BY <2>1, EnterStep, Zenon DEF CommitClaim
  <2>2. CASE PublishValidated(w)
    BY <2>2, AnnounceStep, Zenon DEF PublishValidated
  <2>3. CASE RecordRow(w)
    BY <2>3, SetAsideStep, Zenon DEF RecordRow
  <2>4. CASE CommitOffset(w)
    BY <2>4, AdvanceStep, Zenon DEF CommitOffset
  <2> QED BY <1>3, <2>1, <2>2, <2>3, <2>4, Zenon DEF Step, Consume, RejectMalformed, NormalizeRaises,
             ClaimCreated, ClaimExisting, ClaimConflict, LookupAbsent, LookupFound, LookupConflict, GuardEnter, GuardFrozen, InsertEvent,
             HeadAbsent, HeadSame, HeadCollides, PutObject, CommitFenced
<1>4. ASSUME NEW w \in Worker, Disturbance(w)
      PROVE  Ledger!Next \/ UNCHANGED LedgerVars
  <2>1. CASE CommitClaimError(w)
    BY <2>1, EnterStep, Zenon DEF CommitClaimError
  <2>2. CASE PublishError(w)
    BY <2>2, AnnounceStep, Zenon DEF PublishError
  <2>3. CASE RecordRowError(w)
    BY <2>3, SetAsideStep, Zenon DEF RecordRowError
  <2>4. CASE CommitOffsetError(w)
    BY <2>4, AdvanceStep, Zenon DEF CommitOffsetError
  <2> QED BY <1>4, <2>1, <2>2, <2>3, <2>4, Zenon DEF Disturbance, Crash, Rebalance, ClaimTimeout, GuardTimeout,
             TransactionError, GuardCollides, InsertError, ObjectError
<1> QED BY <1>1, <1>2, <1>3, <1>4, Zenon DEF Next

\* The worker group implements EventLedger: every step of _process, of
\* _run_worker_once and of what fails around them is a step of the ledger or
\* leaves it alone.
THEOREM StorageImplementsLedger == Spec => ImplementsLedger
<1>1. Init => Ledger!Init
  BY Zenon DEF Init, Ledger!Init
<1> QED BY <1>1, InvHolds, LedgerStep, PTL DEF Spec, ImplementsLedger, Ledger!Spec
=============================================================================
