----------------------------- MODULE MCDelivery -----------------------------
(* Constants of the Delivery runs.                                         *)
EXTENDS DeliveryRefinement, TLC

CONSTANTS m1, m2, m3, k1, k2

UnitSizes == [m \in Messages |-> 1]

TwoDeliveries == 1..2

\* Two messages that are always queued, and the Close calls, are not told apart.
Symmetry == Permutations({m1, m2}) \cup Permutations({k1, k2})
=============================================================================
