----------------------------- MODULE MCMapStats -----------------------------
(***************************************************************************)
(* MapStats on four keys with arrays of four to sixteen buckets.           *)
(***************************************************************************)
EXTENDS MapStats, TLC

CONSTANTS k1, k2, k3, k4

FourKeys == {k1, k2, k3, k4}
SmallCaps == {4, 8, 16}
TwoSizes == {1, 2}
Stack == {0, 3}
Symmetry == Permutations(FourKeys)
=============================================================================
