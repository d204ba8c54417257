--------------------------- MODULE MCEventStorage ---------------------------
(* Instances of EventStorage for TLC. *)
EXTENDS EventStorage, TLC

CONSTANTS w1, w2, p1, p2, e1, e2, ep1, ep2, x, y, bad, odd, d1

Msg(i, ep, pl) == [id |-> i, endpoint |-> ep, payload |-> pl]

\* One partition, two workers that may both hold its messages: an event, the
\* same id with another payload, another event of the same bucket, a payload
\* that is rejected, and one that makes every try fail.
OnePartition == [ep \in {ep1} |-> p1]
OneDay == [pl \in {x, y, bad, odd} |-> d1]
ConflictSent == {Msg(e1, ep1, x), Msg(e1, ep1, y), Msg(e2, ep1, x), Msg(e1, ep1, bad), Msg(e1, ep1, odd)}

\* Two partitions: the same event id comes from two endpoints on the same day,
\* and a second id may come when the day is closed.
TwoPartitions == ep1 :> p1 @@ ep2 :> p2
TwoEndpointSent == {Msg(e1, ep1, x), Msg(e1, ep2, x), Msg(e2, ep2, x)}
XOneDay == [pl \in {x} |-> d1]
=============================================================================
