---------------------------- MODULE FailureReplay ---------------------------
(***************************************************************************)
(* The replay of one failure (tools/replay_failure.py) beside the worker   *)
(* that recorded it.  A crash between the record and the offset commit     *)
(* delivers the message again, so the worker may record the failure while  *)
(* operators replay it.  All of them append versions of one row of         *)
(* event_failures, a ReplacingMergeTree: the version with the greatest     *)
(* updated_at is read, and of equal ones the last written.                 *)
(***************************************************************************)
EXTENDS Naturals

CONSTANTS
    Replay,      \* runs of the command line tool
    Nobody,      \* no run holds the advisory lock
    MaxClock,    \* bound on the clock, in the milliseconds of updated_at
    MaxFaults    \* bound on crashes and failed calls

ASSUME ReplayConstants ==
    Nobody \notin Replay /\ MaxClock \in Nat /\ MaxFaults \in Nat

VARIABLES
    clock,
    latest,      \* the version of the failure row that FINAL reads
    worker,      \* where the worker is with the failing message
    stamp,       \* failed_at of the record in progress
    step,        \* where each replay is
    now,         \* the time a replay took when it was started
    seen,        \* the failure row a replay read
    lock,        \* holder of the failure's advisory lock
    retryable,   \* whether the failure was recorded as retryable
    copies,      \* replays whose copy of the message is on telemetry.raw
    records,     \* history: rows the worker wrote, counted up to 2
    results,     \* history: rows the replays wrote
    published,   \* history: replays that wrote REPLAY_PUBLISHED
    faults

workerVars == <<worker, stamp, records>>
replayVars == <<step, now, seen, lock, copies, results, published>>
vars == <<clock, latest, workerVars, replayVars, retryable, faults>>

Status == {"FAILED", "REPLAY_PUBLISHED", "REPROCESS_FAILED"}
Row == [status : Status, count : Nat, at : Nat]
NoRow == [status |-> "NONE", count |-> 0, at |-> 0]

WorkerStep == {"handle", "insert", "check", "commit", "done"}
ReplayStep == {"new", "lock", "read", "load", "publish", "published", "failed", "unlock", "exit"}

\* ReplacingMergeTree(updated_at): what FINAL reads after r was inserted.
Newest(r) == IF r.at >= latest.at THEN r ELSE latest

Init ==
    /\ clock = 1
    /\ latest = NoRow
    /\ worker = "handle"
    /\ stamp = 0
    /\ step = [r \in Replay |-> "new"]
    /\ now = [r \in Replay |-> 0]
    /\ seen = [r \in Replay |-> NoRow]
    /\ lock = Nobody
    /\ retryable \in BOOLEAN
    /\ copies = {}
    /\ records = 0
    /\ results = 0
    /\ published = {}
    /\ faults = 0

Fault == faults < MaxFaults /\ faults' = faults + 1

Tick ==
    /\ clock < MaxClock
    /\ clock' = clock + 1
    /\ UNCHANGED <<latest, workerVars, replayVars, retryable, faults>>

-----------------------------------------------------------------------------
(* The worker: _run_worker_once and FailureSink.record.                    *)

\* Mutant: a repeated record keeps the time of the first one.
RecordStarts_FirstTime ==
    /\ worker = "handle"
    /\ worker' = "insert"
    /\ stamp' = IF stamp = 0 THEN clock ELSE stamp
    /\ UNCHANGED <<clock, latest, records, replayVars, retryable, faults>>

\* Mutant: failed_at is rounded up, past the clock.
RecordStarts_Later ==
    /\ worker = "handle"
    /\ worker' = "insert"
    /\ stamp' = clock + 1
    /\ UNCHANGED <<clock, latest, records, replayVars, retryable, faults>>

\* The message fails, for the first time or again; failed_at is taken now.
RecordStarts ==
    /\ worker = "handle"
    /\ worker' = "insert"
    /\ stamp' = clock
    /\ UNCHANGED <<clock, latest, records, replayVars, retryable, faults>>

\* A later delivery of the message succeeds and its offset is committed.
MessageSucceeds ==
    /\ worker = "handle"
    /\ records > 0
    /\ worker' = "done"
    /\ UNCHANGED <<clock, latest, stamp, records, replayVars, retryable, faults>>

InsertFailed ==
    /\ latest' = Newest([status |-> "FAILED", count |-> 0, at |-> stamp])
    /\ records' = IF records < 2 THEN records + 1 ELSE 2

RecordInserts ==
    /\ worker = "insert"
    /\ InsertFailed
    /\ worker' = "check"
    /\ UNCHANGED <<clock, stamp, replayVars, retryable, faults>>

\* latest_status reads FAILED: the record is durable.
RecordReadable ==
    /\ worker = "check"
    /\ latest.status = "FAILED"
    /\ worker' = "commit"
    /\ UNCHANGED <<clock, latest, stamp, records, replayVars, retryable, faults>>

\* "failure record was not durably readable": the consumer is rewound.
RecordHidden ==
    /\ worker = "check"
    /\ latest.status # "FAILED"
    /\ worker' = "handle"
    /\ UNCHANGED <<clock, latest, stamp, records, replayVars, retryable, faults>>

OffsetCommits ==
    /\ worker = "commit"
    /\ worker' = "done"
    /\ UNCHANGED <<clock, latest, stamp, records, replayVars, retryable, faults>>

\* A call raises or the process dies; the insert may have taken effect.
WorkerFails ==
    /\ Fault
    /\ \/ worker \in {"insert", "check", "commit"} /\ UNCHANGED <<latest, records>>
       \/ worker = "insert" /\ InsertFailed
    /\ worker' = "handle"
    /\ UNCHANGED <<clock, stamp, replayVars, retryable>>

-----------------------------------------------------------------------------
(* A run of replay_failure.                                                *)

Advance(r, s) == step' = [step EXCEPT ![r] = s]

\* main takes the time before it asks for the lock.
ReplayStarts(r) ==
    /\ step[r] = "new"
    /\ now' = [now EXCEPT ![r] = clock]
    /\ Advance(r, "lock")
    /\ UNCHANGED <<clock, latest, workerVars, seen, lock, copies, results, published, retryable, faults>>

\* pg_try_advisory_lock.
ReplayLocks(r) ==
    /\ step[r] = "lock"
    /\ lock = Nobody
    /\ lock' = r
    /\ Advance(r, "read")
    /\ UNCHANGED <<clock, latest, workerVars, now, seen, copies, results, published, retryable, faults>>

\* FailureReplayInProgressError.
ReplayRefused(r) ==
    /\ step[r] = "lock"
    /\ lock # Nobody
    /\ Advance(r, "exit")
    /\ UNCHANGED <<clock, latest, workerVars, now, seen, lock, copies, results, published, retryable, faults>>

\* repository.latest; without a row the run ends with FailureNotFoundError.
ReplayReads(r) ==
    /\ step[r] = "read"
    /\ seen' = [seen EXCEPT ![r] = latest]
    /\ Advance(r, IF latest = NoRow THEN "unlock" ELSE "load")
    /\ UNCHANGED <<clock, latest, workerVars, now, lock, copies, results, published, retryable, faults>>

\* load_verified refuses a failure that is not retryable.
ReplayLoads(r) ==
    /\ step[r] = "load"
    /\ Advance(r, IF retryable THEN "publish" ELSE "failed")
    /\ UNCHANGED <<clock, latest, workerVars, now, seen, lock, copies, results, published, retryable, faults>>

ReplayPublishes(r) ==
    /\ step[r] = "publish"
    /\ copies' = copies \cup {r}
    /\ Advance(r, "published")
    /\ UNCHANGED <<clock, latest, workerVars, now, seen, lock, results, published, retryable, faults>>

\* Mutant: a publish that was not acknowledged counts as published.
ReplayCallFails_Published(r) ==
    /\ Fault
    /\ step[r] \in {"load", "publish"}
    /\ UNCHANGED copies
    /\ Advance(r, "published")
    /\ UNCHANGED <<clock, latest, workerVars, now, seen, lock, results, published, retryable>>

\* The payload has expired or does not match, or the broker does not
\* acknowledge a message it may have taken.
ReplayCallFails(r) ==
    /\ Fault
    /\ \/ step[r] \in {"load", "publish"} /\ UNCHANGED copies
       \/ step[r] = "publish" /\ copies' = copies \cup {r}
    /\ Advance(r, "failed")
    /\ UNCHANGED <<clock, latest, workerVars, now, seen, lock, results, published, retryable>>

\* Mutant: the result carries the time at which the run was started.
ResultTime_Now(r) == now[r]

\* append_replay_result: later than the version it was read from.
ResultTime(r) == IF now[r] > seen[r].at THEN now[r] ELSE seen[r].at + 1

InsertResult(r) ==
    /\ latest' = Newest([status |-> IF step[r] = "published" THEN "REPLAY_PUBLISHED" ELSE "REPROCESS_FAILED",
                         count |-> seen[r].count + 1, at |-> ResultTime(r)])
    /\ results' = results + 1
    /\ published' = IF step[r] = "published" THEN published \cup {r} ELSE published

ReplayAppends(r) ==
    /\ step[r] \in {"published", "failed"}
    /\ InsertResult(r)
    /\ Advance(r, "unlock")
    /\ UNCHANGED <<clock, workerVars, now, seen, lock, copies, retryable, faults>>

ReplayAppendFails(r) ==
    /\ Fault
    /\ step[r] \in {"published", "failed"}
    /\ InsertResult(r) \/ UNCHANGED <<latest, results, published>>
    /\ Advance(r, "unlock")
    /\ UNCHANGED <<clock, workerVars, now, seen, lock, copies, retryable>>

\* The finally block of _failure_replay_guard.
ReplayUnlocks(r) ==
    /\ step[r] = "unlock"
    /\ lock' = Nobody
    /\ Advance(r, "exit")
    /\ UNCHANGED <<clock, latest, workerVars, now, seen, copies, results, published, retryable, faults>>

\* The process dies: its session, and the lock with it, ends.
ReplayDies(r) ==
    /\ Fault
    /\ step[r] \notin {"new", "exit"}
    /\ lock' = IF lock = r THEN Nobody ELSE lock
    /\ Advance(r, "exit")
    /\ UNCHANGED <<clock, latest, workerVars, now, seen, copies, results, published, retryable>>

-----------------------------------------------------------------------------

WorkerNext ==
    \/ RecordStarts \/ RecordInserts \/ RecordReadable \/ RecordHidden \/ OffsetCommits

ReplayNext(r) ==
    \/ ReplayStarts(r) \/ ReplayLocks(r) \/ ReplayRefused(r) \/ ReplayReads(r)
    \/ ReplayLoads(r) \/ ReplayPublishes(r) \/ ReplayAppends(r) \/ ReplayUnlocks(r)

Next ==
    \/ Tick
    \/ WorkerNext \/ MessageSucceeds \/ WorkerFails
    \/ \E r \in Replay : ReplayNext(r) \/ ReplayCallFails(r) \/ ReplayAppendFails(r) \/ ReplayDies(r)

Spec == Init /\ [][Next]_vars

\* Time goes on and the worker goes on with a message it has to settle.
FairSpec == Spec /\ WF_vars(Tick) /\ WF_vars(WorkerNext)

-----------------------------------------------------------------------------
(* Properties.                                                             *)

\* Every variable has its type (the rows of event_failures, the worker and the
\* command line runs).
ReplayTypeOK ==
    /\ clock \in 1 .. MaxClock
    /\ latest \in Row \cup {NoRow}
    /\ worker \in WorkerStep
    /\ stamp \in 0 .. MaxClock
    /\ step \in [Replay -> ReplayStep]
    /\ now \in [Replay -> 0 .. MaxClock]
    /\ seen \in [Replay -> Row \cup {NoRow}]
    /\ lock \in Replay \cup {Nobody}
    /\ retryable \in BOOLEAN
    /\ copies \subseteq Replay /\ published \subseteq Replay
    /\ records \in 0 .. 2 /\ results \in Nat
    /\ faults \in 0 .. MaxFaults

\* As long as the worker recorded the failure once, replay_count is the number
\* of results that were written: runs of the tool never overwrite each other's
\* result, in whatever order they took their time and got the lock
\* (_failure_replay_guard, append_replay_result).
ResultsAreCounted == records <= 1 => latest.count = results

\* What the data model says: replay_count is the number of manual replays, also
\* when the worker records the failure again (FailureSink.record starts at 0).
ReplayCountIsTotal == latest.count = results

\* A run that wrote REPLAY_PUBLISHED has put its own copy of the message on the
\* broker, whatever other runs, lost acknowledgements and crashes do (the order
\* of publish and append_replay_result, and what a publish without
\* acknowledgement records).
PublishedIsTrue == published \subseteq copies

\* The row that hides the worker's record is dated past the last time the
\* bounded clock can show.  Real time goes on; here no failed_at can be later.
ClockIsSpent == clock = MaxClock /\ latest.status # "FAILED" /\ latest.at > MaxClock

\* The worker's message is settled in the end.  A replay may hide the record of
\* a repeated failure, and the worker is rewound; it records again with a later
\* failed_at, which wins, and reads it back (the check of latest_status in
\* record).
EventuallySettled == <>(worker = "done" \/ ClockIsSpent)
=============================================================================
