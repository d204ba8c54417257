---------------------------- MODULE MCDetection -----------------------------
(* Instances of Detection for TLC. *)
EXTENDS Detection, TLC

CONSTANTS w1, w2, e1, e2, bad, odd, low, high, plain, k1

\* e1 matches a correlated rule and one without an incident, e2 a more
\* severe one with the same correlation key, in the same window; bad
\* is rejected and odd makes every try fail.
TwoMatches == e1 :> <<low, plain>> @@ e2 :> <<high>> @@ bad :> <<>> @@ odd :> <<>>
TwoKeys == [a \in Alert |-> IF a[2] = plain THEN NoKey ELSE k1]
TwoSeverities == low :> 1 @@ high :> 3 @@ plain :> 2
EndsAtThree == k1 :> 3
Workers == Permutations(Worker)
=============================================================================
