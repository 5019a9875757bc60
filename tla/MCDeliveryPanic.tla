-------------------------- MODULE MCDeliveryPanic ---------------------------
(* Constants of the runs with a panicking callback.                        *)
EXTENDS DeliveryPanic, TLC

CONSTANTS m1, m2, m3, m4, k1, k2

\* Two messages that fit into one batch, one that does not fit with the first, and
\* one above the limit.
MixedSizes == (m1 :> 2) @@ (m2 :> 1) @@ (m3 :> 2) @@ (m4 :> 9)
ThreeDeliveries == 1..3

\* Messages of one size and the Close calls are not told apart.
Symmetry == Permutations({m1, m3}) \cup Permutations({k1, k2})
=============================================================================
