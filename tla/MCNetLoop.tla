------------------------------ MODULE MCNetLoop ------------------------------
(***************************************************************************)
(* NetLoop with two descriptors, of which the second is used by clients    *)
(* that send one command and the first by clients that pipeline two.       *)
(***************************************************************************)
EXTENDS NetLoop, TLC

CONSTANTS f1, f2

TwoFds == {f1, f2}
TwoOne == (f1 :> 2) @@ (f2 :> 1)
OnlyPlain == {"plain"}
BothPorts == {"plain", "tls"}
AllKinds == {"quick", "bg", "quit"}
=============================================================================
