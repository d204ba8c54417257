------------------------------ MODULE Detection -----------------------------
(***************************************************************************)
(* The Detection Worker (backend/workers.py) on the messages of one        *)
(* endpoint, which share a partition of telemetry.validated.  Every rule   *)
(* that matches an event gives an alert; a rule with correlation also      *)
(* opens, or extends, the incident of the event's window and links the     *)
(* alert to it.  Alert, incident and link are three PostgreSQL             *)
(* transactions, the offset is committed after the last one, and the whole *)
(* message is processed again when one of them fails.  Beside the workers, *)
(* analysts change the status of alerts and incidents, incidents whose     *)
(* window has passed are closed, and operators replay failures.            *)
(*                                                                         *)
(* The failure sink is one step here; EventStorage has its calls.          *)
(***************************************************************************)
EXTENDS Naturals, Sequences, FiniteSets

CONSTANTS
    Worker,      \* processes of the detection consumer group
    Event,
    Malformed,   \* events whose message is rejected with an error that _process expects
    Unreadable,  \* events on which the parsing or the engine raises another error
    Rule,
    Matches,     \* rules that match an event, in the order of the engine
    Key,         \* (correlation_key, window_start_at) of the endpoint
    NoKey,       \* the rule has no incident
    KeyOf,       \* key of a match
    Severity,    \* severity of a rule, as its place in LOW .. CRITICAL
    WindowEnd,   \* window_end_at of a key
    MaxRetries,  \* length of RETRY_DELAYS_SECONDS
    MaxLog,      \* bound on the messages
    MaxClock,    \* bound on time
    MaxFaults,   \* bound on crashes, rebalances and failed calls
    MaxEdits     \* bound on status changes by analysts

Alert == Event \X Rule

ASSUME DetectionConstants ==
    /\ Malformed \subseteq Event
    /\ Unreadable \subseteq Event
    /\ Malformed \cap Unreadable = {}
    /\ Matches \in [Event -> Seq(Rule)]
    /\ NoKey \notin Key
    /\ KeyOf \in [Alert -> Key \cup {NoKey}]
    /\ Severity \in [Rule -> 1 .. 4]
    /\ WindowEnd \in [Key -> Nat]
    /\ {MaxRetries, MaxLog, MaxClock, MaxFaults, MaxEdits} \subseteq Nat

VARIABLES
    clock,
    log,        \* the partition of telemetry.validated
    committed,  \* committed offset, as a number of messages
    owner,      \* worker the partition is assigned to
    pc,         \* where a worker is
    off,        \* position of the message a worker holds
    idx,        \* match a worker is at
    time,       \* detected_at of the try
    alertTime,  \* detected_at of the stored alert of the match
    tries,
    alerts,     \* alerts: detected_at and status, None if absent
    incidents,  \* incidents, None if absent
    links,      \* rows of incident_alerts
    failed,     \* positions recorded in the failure sink
    audits,     \* rows of audit_logs
    faults

groupVars == <<log, committed, owner>>
workVars == <<pc, off, idx, time, alertTime, tries>>
tableVars == <<alerts, incidents, links>>
vars == <<clock, groupVars, workVars, tableVars, failed, audits, faults>>

None == [at |-> 0, status |-> "ABSENT"]
NoIncident == [first |-> 0, last |-> 0, severity |-> 0, status |-> "ABSENT", overridden |-> FALSE]
AlertStatus == {"OPEN", "IN_PROGRESS", "RESOLVED"}
IncidentStatus == {"OPEN", "CLOSED"}
Control == {"idle", "evaluate", "alert", "incident", "link", "fail", "commit"}

EventOf(w) == log[off[w]]
MatchOf(w) == <<EventOf(w), Matches[EventOf(w)][idx[w]]>>
Correlated(a) == KeyOf[a] # NoKey

Init ==
    /\ clock = 1
    /\ log = <<>>
    /\ committed = 0
    /\ owner \in Worker
    /\ pc = [w \in Worker |-> "idle"]
    /\ off = [w \in Worker |-> 0]
    /\ idx = [w \in Worker |-> 0]
    /\ time = [w \in Worker |-> 0]
    /\ alertTime = [w \in Worker |-> 0]
    /\ tries = [w \in Worker |-> 0]
    /\ alerts = [a \in Alert |-> None]
    /\ incidents = [k \in Key |-> NoIncident]
    /\ links = {}
    /\ failed = {}
    /\ audits = 0
    /\ faults = 0

-----------------------------------------------------------------------------
(* What a step does to the worker's own state.                             *)

Fault == faults < MaxFaults /\ faults' = faults + 1

\* A try begins: the matches are evaluated with one detected_at.  A message
\* that matches no rule has only its offset left to commit.
TryStarts(w, e) ==
    /\ idx' = [idx EXCEPT ![w] = 1]
    /\ time' = [time EXCEPT ![w] = clock]
    /\ alertTime' = [alertTime EXCEPT ![w] = 0]
    /\ pc' = [pc EXCEPT ![w] = CASE e \in Malformed -> "fail"
                                 [] e \in Unreadable -> "evaluate"
                                 [] e \notin Malformed \cup Unreadable /\ Matches[e] = <<>> -> "commit"
                                 [] OTHER -> "alert"]

Goto(w, label) == pc' = [pc EXCEPT ![w] = label] /\ UNCHANGED <<off, idx, time, tries>>

\* The match is dealt with: on to the next one, or to the commit.
NextMatch(w) ==
    /\ IF idx[w] < Len(Matches[EventOf(w)])
       THEN pc' = [pc EXCEPT ![w] = "alert"] /\ idx' = [idx EXCEPT ![w] = @ + 1]
       ELSE pc' = [pc EXCEPT ![w] = "commit"] /\ UNCHANGED idx
    /\ UNCHANGED <<off, time, tries>>

Release(w) ==
    /\ pc' = [pc EXCEPT ![w] = "idle"]
    /\ off' = [off EXCEPT ![w] = 0]
    /\ idx' = [idx EXCEPT ![w] = 0]
    /\ time' = [time EXCEPT ![w] = 0]
    /\ alertTime' = [alertTime EXCEPT ![w] = 0]
    /\ tries' = [tries EXCEPT ![w] = 0]

\* Mutant: one try too many.
TryFails_OneMore(w) ==
    \/ /\ tries[w] <= MaxRetries
       /\ tries' = [tries EXCEPT ![w] = @ + 1]
       /\ TryStarts(w, EventOf(w))
       /\ UNCHANGED off
    \/ /\ tries[w] > MaxRetries
       /\ pc' = [pc EXCEPT ![w] = "fail"]
       /\ UNCHANGED <<off, idx, time, alertTime, tries>>

\* run_with_retries.
TryFails(w) ==
    \/ /\ tries[w] < MaxRetries
       /\ tries' = [tries EXCEPT ![w] = @ + 1]
       /\ TryStarts(w, EventOf(w))
       /\ UNCHANGED off
    \/ /\ tries[w] = MaxRetries
       /\ pc' = [pc EXCEPT ![w] = "fail"]
       /\ UNCHANGED <<off, idx, time, alertTime, tries>>

-----------------------------------------------------------------------------
(* Producers, the consumer group and time.                                 *)

\* The storage worker publishes a validated event, perhaps once more.
Produce(e) ==
    /\ Len(log) < MaxLog
    /\ log' = Append(log, e)
    /\ UNCHANGED <<clock, committed, owner, workVars, tableVars, failed, audits, faults>>

\* An operator replays a failure and the event comes back through telemetry.raw.
ReplayFailure(n) ==
    /\ n \in failed
    /\ log[n] \notin Malformed
    /\ Len(log) < MaxLog
    /\ log' = Append(log, log[n])
    /\ UNCHANGED <<clock, committed, owner, workVars, tableVars, failed, audits, faults>>

Consume(w) ==
    /\ pc[w] = "idle"
    /\ owner = w
    /\ committed < Len(log)
    /\ off' = [off EXCEPT ![w] = committed + 1]
    /\ TryStarts(w, log[committed + 1])
    /\ UNCHANGED <<clock, groupVars, tries, tableVars, failed, audits, faults>>

Rebalance(w) ==
    /\ Fault
    /\ pc[w] = "idle"
    /\ owner # w
    /\ owner' = w
    /\ UNCHANGED <<clock, log, committed, workVars, tableVars, failed, audits>>

Crash(w) ==
    /\ Fault
    /\ pc[w] # "idle"
    /\ Release(w)
    /\ UNCHANGED <<clock, groupVars, tableVars, failed, audits>>

Tick ==
    /\ clock < MaxClock
    /\ clock' = clock + 1
    /\ UNCHANGED <<groupVars, workVars, tableVars, failed, audits, faults>>

-----------------------------------------------------------------------------
(* DetectionWorker._process.                                               *)

\* Mutant: a message on which the engine raises is rewound, not given up.
EvaluateRaises_Rewind(w) ==
    /\ pc[w] = "evaluate"
    /\ Release(w)
    /\ UNCHANGED <<clock, groupVars, tableVars, failed, audits, faults>>

\* The error is not permanent, and every try ends in it.
EvaluateRaises(w) ==
    /\ pc[w] = "evaluate"
    /\ TryFails(w)
    /\ UNCHANGED <<clock, groupVars, tableVars, failed, audits, faults>>

\* INSERT ... ON CONFLICT (event_id, rule_code, rule_version) DO NOTHING.
AlertWrites(w) ==
    alerts' = IF alerts[MatchOf(w)] = None
              THEN [alerts EXCEPT ![MatchOf(w)] = [at |-> time[w], status |-> "OPEN"]]
              ELSE alerts

\* Mutant: the incident gets the time of this try.
StoredTime_Now(w) == time[w]

\* The stored alert keeps the time of its first detection.
StoredTime(w) == alerts'[MatchOf(w)].at

InsertAlert(w) ==
    /\ pc[w] = "alert"
    /\ AlertWrites(w)
    /\ alertTime' = [alertTime EXCEPT ![w] = StoredTime(w)]
    /\ IF Correlated(MatchOf(w)) THEN Goto(w, "incident") ELSE NextMatch(w)
    /\ UNCHANGED <<clock, groupVars, incidents, links, failed, audits, faults>>

Greatest(x, y) == IF x > y THEN x ELSE y

\* INSERT ... ON CONFLICT DO UPDATE of an incident.
Extended(i, sev, t) ==
    IF i = NoIncident
    THEN [first |-> t, last |-> t, severity |-> sev, status |-> "OPEN", overridden |-> FALSE]
    ELSE [i EXCEPT !.last = Greatest(@, t), !.severity = Greatest(@, sev)]

IncidentWrites(w) ==
    LET a == MatchOf(w)
    IN  incidents' = [incidents EXCEPT ![KeyOf[a]] = Extended(@, Severity[a[2]], alertTime[w])]

\* Mutant: the link is left to a redelivery.
UpsertIncident_NoLink(w) ==
    /\ pc[w] = "incident"
    /\ IncidentWrites(w)
    /\ NextMatch(w)
    /\ UNCHANGED <<clock, groupVars, alertTime, alerts, links, failed, audits, faults>>

UpsertIncident(w) ==
    /\ pc[w] = "incident"
    /\ IncidentWrites(w)
    /\ Goto(w, "link")
    /\ UNCHANGED <<clock, groupVars, alertTime, alerts, links, failed, audits, faults>>

LinkWrites(w) == links' = links \cup {<<KeyOf[MatchOf(w)], MatchOf(w)>>}

LinkAlert(w) ==
    /\ pc[w] = "link"
    /\ LinkWrites(w)
    /\ NextMatch(w)
    /\ UNCHANGED <<clock, groupVars, alertTime, alerts, incidents, failed, audits, faults>>

\* A transaction raises, having taken effect or not.
CallFails(w) ==
    /\ Fault
    /\ \/ pc[w] \in {"alert", "incident", "link"} /\ UNCHANGED tableVars
       \/ pc[w] = "alert" /\ AlertWrites(w) /\ UNCHANGED <<incidents, links>>
       \/ pc[w] = "incident" /\ IncidentWrites(w) /\ UNCHANGED <<alerts, links>>
       \/ pc[w] = "link" /\ LinkWrites(w) /\ UNCHANGED <<alerts, incidents>>
    /\ TryFails(w)
    /\ UNCHANGED <<clock, groupVars, failed, audits>>

\* failure_sink.record; if it raises the consumer is rewound.
RecordFailure(w) ==
    /\ pc[w] = "fail"
    /\ failed' = failed \cup {off[w]}
    /\ Goto(w, "commit")
    /\ UNCHANGED <<clock, groupVars, alertTime, tableVars, audits, faults>>

RecordFailureError(w) ==
    /\ Fault
    /\ pc[w] = "fail"
    /\ failed' \in {failed, failed \cup {off[w]}}
    /\ Release(w)
    /\ UNCHANGED <<clock, groupVars, tableVars, audits>>

\* The broker takes the commit of the owner only; any other process ends.
CommitOffset(w) ==
    /\ pc[w] = "commit"
    /\ committed' = IF owner = w THEN off[w] ELSE committed
    /\ Release(w)
    /\ UNCHANGED <<clock, log, owner, tableVars, failed, audits, faults>>

-----------------------------------------------------------------------------
(* The periodic task and the analysts.                                     *)

Expired(k) == incidents[k].status = "OPEN" /\ ~incidents[k].overridden /\ WindowEnd[k] <= clock


\* Mutant: an incident that an analyst opened again is closed by the sweep.
CloseExpired_Overridden ==
    /\ \E k \in Key : incidents[k].status = "OPEN" /\ WindowEnd[k] <= clock
    /\ incidents' = [k \in Key |-> IF incidents[k].status = "OPEN" /\ WindowEnd[k] <= clock
                                   THEN [incidents[k] EXCEPT !.status = "CLOSED"] ELSE incidents[k]]
    /\ UNCHANGED <<clock, groupVars, workVars, alerts, links, failed, audits, faults>>

\* LifecycleTasks.close_incidents: one UPDATE.
CloseExpired ==
    /\ \E k \in Key : Expired(k)
    /\ incidents' = [k \in Key |-> IF Expired(k) THEN [incidents[k] EXCEPT !.status = "CLOSED"]
                                   ELSE incidents[k]]
    /\ UNCHANGED <<clock, groupVars, workVars, alerts, links, failed, audits, faults>>

\* AlertRepository.update_status_with_audit; the same status changes nothing.
SetAlertStatus(a, s) ==
    /\ audits < MaxEdits
    /\ alerts[a] # None
    /\ alerts[a].status # s
    /\ alerts' = [alerts EXCEPT ![a].status = s]
    /\ audits' = audits + 1
    /\ UNCHANGED <<clock, groupVars, workVars, incidents, links, failed, faults>>

\* IncidentRepository.update_status_with_audit.
SetIncidentStatus(k, s) ==
    /\ audits < MaxEdits
    /\ incidents[k] # NoIncident
    /\ incidents[k].status # s
    /\ incidents' = [incidents EXCEPT ![k].status = s, ![k].overridden = TRUE]
    /\ audits' = audits + 1
    /\ UNCHANGED <<clock, groupVars, workVars, alerts, links, failed, faults>>

-----------------------------------------------------------------------------

Step(w) ==
    \/ Consume(w) \/ EvaluateRaises(w) \/ InsertAlert(w) \/ UpsertIncident(w) \/ LinkAlert(w)
    \/ RecordFailure(w) \/ CommitOffset(w)

Disturbance(w) == Crash(w) \/ Rebalance(w) \/ CallFails(w) \/ RecordFailureError(w)

Analyst ==
    \/ \E a \in Alert, s \in AlertStatus : SetAlertStatus(a, s)
    \/ \E k \in Key, s \in IncidentStatus : SetIncidentStatus(k, s)

Next ==
    \/ Tick
    \/ \E e \in Event : Produce(e)
    \/ \E n \in failed : ReplayFailure(n)
    \/ \E w \in Worker : Step(w) \/ Disturbance(w)
    \/ CloseExpired
    \/ Analyst

Spec == Init /\ [][Next]_vars

\* The worker loop polls forever and runs the sweep between messages.
FairSpec == Spec /\ (\A w \in Worker : WF_vars(Step(w))) /\ WF_vars(CloseExpired)

-----------------------------------------------------------------------------
(* Properties.                                                             *)

\* Every variable has its type (the tables alerts, incidents and
\* incident_alerts, and the state of the workers).
DetectionTypeOK ==
    /\ clock \in 1 .. MaxClock
    /\ log \in Seq(Event)
    /\ committed \in 0 .. Len(log)
    /\ owner \in Worker
    /\ pc \in [Worker -> Control]
    /\ off \in [Worker -> 0 .. Len(log)]
    /\ idx \in [Worker -> Nat]
    /\ time \in [Worker -> 0 .. MaxClock]
    /\ alertTime \in [Worker -> 0 .. MaxClock]
    /\ tries \in [Worker -> 0 .. MaxRetries]
    /\ alerts \in [Alert -> [at : 1 .. MaxClock, status : AlertStatus] \cup {None}]
    /\ incidents \in [Key -> [first : 1 .. MaxClock, last : 1 .. MaxClock, severity : 1 .. 4,
                              status : IncidentStatus, overridden : BOOLEAN] \cup {NoIncident}]
    /\ links \subseteq Key \X Alert
    /\ failed \subseteq 1 .. Len(log)
    /\ audits \in 0 .. MaxEdits
    /\ faults \in 0 .. MaxFaults

MatchesOf(e) == {<<e, Matches[e][i]>> : i \in 1 .. Len(Matches[e])}

\* Every match of the event has its alert and, if it correlates, its link.
Detected(e) ==
    /\ e \notin Malformed \cup Unreadable
    /\ \A a \in MatchesOf(e) : alerts[a] # None /\ (Correlated(a) => <<KeyOf[a], a>> \in links)

\* A committed message left all of its alerts, incidents and links behind, or
\* is recorded as a failure: no crash between the three transactions, retry or
\* rebalance loses a detection (_process commits the offset last).
NoDetectionLost == \A n \in 1 .. committed : n \in failed \/ Detected(log[n])

AlertsOf(k) == {a \in Alert : alerts[a] # None /\ KeyOf[a] = k}

\* An incident is as late and as severe as the alerts linked to it, and no later
\* and no more severe than some alert of its window: reprocessing an old message
\* does not move the incident (upsert, and detected_at=stored_alert.detected_at).
IncidentSummarisesAlerts ==
    /\ \A l \in links : /\ incidents[l[1]].last >= alerts[l[2]].at
                        /\ incidents[l[1]].severity >= Severity[l[2][2]]
    /\ \A k \in Key : incidents[k] # NoIncident =>
           /\ \E a \in AlertsOf(k) : incidents[k].last = alerts[a].at
           /\ \E a \in AlertsOf(k) : incidents[k].severity = Severity[a[2]]

\* The status of an alert that exists changes only with an audit row; the
\* status of an incident also when its window has passed and no analyst has set
\* it: workers that process a message again take back no decision.
StatusIsTheAnalysts ==
    [][ /\ \A a \in Alert : alerts[a] # None /\ alerts'[a].status # alerts[a].status => audits' = audits + 1
        /\ \A k \in Key : incidents[k] # NoIncident /\ incidents'[k].status # incidents[k].status =>
               \/ audits' = audits + 1
               \/ ~incidents[k].overridden /\ WindowEnd[k] <= clock /\ incidents'[k].status = "CLOSED"
      ]_vars

\* Once failures stop every validated message is committed, also one on which
\* every try raises (run_once, _run_worker_once).
EventuallyProcessed == \A n \in 1 .. MaxLog : (n <= Len(log)) ~> (n <= committed)


\* What the data model says: first_detected_at is the time of the first alert.
FirstIsFirst == \A l \in links : incidents[l[1]].first <= alerts[l[2]].at
=============================================================================
