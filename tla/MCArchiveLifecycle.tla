------------------------- MODULE MCArchiveLifecycle -------------------------
(* Instances of ArchiveLifecycle for TLC. *)
EXTENDS ArchiveLifecycle, TLC

CONSTANTS w1, p1, e1, e2, e3, ep1, ep2, x, d1

Msg(i, ep, pl) == [id |-> i, endpoint |-> ep, payload |-> pl]

OnePartition == [ep \in Endpoint |-> p1]
OneDay == [pl \in {x} |-> d1]

\* Two events of one bucket: the second may come after the first was archived.
LateSent == {Msg(e1, ep1, x), Msg(e2, ep1, x)}

\* A day shared by two endpoints: its partition is dropped for both.
DaySent == {Msg(e1, ep1, x), Msg(e2, ep2, x), Msg(e3, ep1, x)}
=============================================================================
