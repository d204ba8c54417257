---------------------------- MODULE EventLedger -----------------------------
(***************************************************************************)
(* What the event storage stage promises, without workers, stores or       *)
(* failures: messages are appended to logs; a message is entered in the    *)
(* book at most once per event id; an entry may be announced downstream; a *)
(* message may be put in quarantine; the position of a log advances over   *)
(* one message at a time, and only over a message that was announced or is *)
(* in quarantine.                                                          *)
(***************************************************************************)
EXTENDS Naturals, Sequences

CONSTANTS Partition, Sent

VARIABLES log, book, announced, quarantine, done

vars == <<log, book, announced, quarantine, done>>

Init ==
    /\ log = [p \in Partition |-> <<>>]
    /\ book = {}
    /\ announced = {}
    /\ quarantine = {}
    /\ done = [p \in Partition |-> 0]

Arrive(p, m) ==
    /\ log' = [log EXCEPT ![p] = Append(@, m)]
    /\ UNCHANGED <<book, announced, quarantine, done>>

\* The first identity of an event id wins.
Enter(m) ==
    /\ \A b \in book : b.id = m.id => b = m
    /\ book' = book \cup {m}
    /\ UNCHANGED <<log, announced, quarantine, done>>

Announce(m) ==
    /\ m \in book
    /\ announced' = announced \cup {m}
    /\ UNCHANGED <<log, book, quarantine, done>>

SetAside(p, n) ==
    /\ quarantine' = quarantine \cup {<<p, n>>}
    /\ UNCHANGED <<log, book, announced, done>>

Advance(p) ==
    LET n == done[p] + 1
    IN  /\ n <= Len(log[p])
        /\ log[p][n] \in announced \/ <<p, n>> \in quarantine
        /\ done' = [done EXCEPT ![p] = n]
        /\ UNCHANGED <<log, book, announced, quarantine>>

Next ==
    \/ \E p \in Partition, m \in Sent : Arrive(p, m)
    \/ \E m \in Sent : Enter(m) \/ Announce(m)
    \/ \E p \in Partition : \E n \in 1 .. Len(log[p]) : SetAside(p, n)
    \/ \E p \in Partition : Advance(p)

Spec == Init /\ [][Next]_vars
=============================================================================
