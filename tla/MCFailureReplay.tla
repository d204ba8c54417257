-------------------------- MODULE MCFailureReplay ---------------------------
(* Instances of FailureReplay for TLC. *)
EXTENDS FailureReplay, TLC

CONSTANTS r1, r2

\* The runs of the tool are interchangeable.
Symmetry == Permutations({r1, r2})
=============================================================================
