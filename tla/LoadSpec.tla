------------------------------- MODULE LoadSpec -------------------------------
(***************************************************************************)
(* What load() promises of the N blocks of a file: it stores blocks, each   *)
(* at most once and in any order, and returns ok when all are stored and    *)
(* not ok when one of them cannot be.  Persist uses load() in this form.    *)
(***************************************************************************)
EXTENDS Naturals
CONSTANT N
VARIABLES kind,     \* block -> "good", "torn" (the reader sees it) or "bad"
          stored,   \* the blocks stored
          result    \* "none" until load() returns, then "ok" or "failed"

svars == <<kind, stored, result>>

Init ==
    /\ kind \in [1..N -> {"good", "torn", "bad"}]
    /\ stored = {} /\ result = "none"

StoreBlock(n) ==
    /\ result = "none" /\ kind[n] = "good" /\ n \notin stored
    /\ stored' = stored \cup {n}
    /\ UNCHANGED <<kind, result>>

Return ==
    /\ result = "none"
    /\ \/ stored = 1..N /\ result' = "ok"
       \/ (\E n \in 1..N : kind[n] # "good") /\ result' = "failed"
    /\ UNCHANGED <<kind, stored>>

Next == Return \/ \E n \in 1..N : StoreBlock(n)
Spec == Init /\ [][Next]_svars
=============================================================================
