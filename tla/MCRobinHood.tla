---------------------------- MODULE MCRobinHood ----------------------------
(***************************************************************************)
(* Five keys, three of them with one home in an array of four and two that *)
(* wrap around its end; k1 and k2 have the same hash.                      *)
(***************************************************************************)
EXTENDS RobinHood, TLC

CONSTANTS k1, k2, k3, k4, k5

FiveKeys == {k1, k2, k3, k4, k5}
Hashes == k1 :> 3 @@ k2 :> 3 @@ k3 :> 7 @@ k4 :> 6 @@ k5 :> 0
=============================================================================
