---------------------------- MODULE MCFlagCalled ----------------------------
(* Constants of the FlagCalled run.                                       *)
EXTENDS FlagCalled, TLC

CONSTANTS g1, g2, k1, k2, v1, v2, p, q, c

Interchangeable == Permutations(Goroutines) \cup Permutations(Keys) \cup Permutations(Originals)
=============================================================================
