------------------------------ MODULE MCShard ------------------------------
(***************************************************************************)
(* Instances of Shard for TLC.                                             *)
(***************************************************************************)
EXTENDS Shard, TLC

CONSTANTS k1, k2, v1, v2, c1, c2

OneClient == {c1}
TwoClients == {c1, c2}
TwoKeys == {k1, k2}
TwoVals == {v1, v2}

Plain == [casop |-> FALSE, nx |-> FALSE, xx |-> FALSE, keepttl |-> FALSE,
          lowmem |-> FALSE, reject |-> FALSE, expires |-> 0, ttl |-> 0]
SetEx == [Plain EXCEPT !.ttl = 1]
\* A time of expiry, past for a command that begins then or later.
SetAt == [Plain EXCEPT !.expires = 2]
SetGetReject == [Plain EXCEPT !.reject = TRUE]
Add == [Plain EXCEPT !.nx = TRUE]
Replacing == [Plain EXCEPT !.xx = TRUE, !.keepttl = TRUE]
Cas == [Plain EXCEPT !.casop = TRUE]
LowMem == [Plain EXCEPT !.lowmem = TRUE]
LowMemEx == [SetEx EXCEPT !.lowmem = TRUE]
LowMemAt == [SetAt EXCEPT !.lowmem = TRUE]

AllOpts == {Plain, SetEx, SetAt, SetGetReject, Add, Replacing, Cas, LowMem, LowMemEx,
            LowMemAt}
CasOpts == {SetEx, Cas, LowMem, LowMemAt}
PlainOpts == {Plain}

AllScans == {"clear", "sweep", "iter"}
OnlyClear == {"clear"}

OneTtl == {1}
SomeTtls == {0, 1}

Symmetry == Permutations(TwoVals) \cup Permutations(TwoKeys)
            \cup Permutations(TwoClients)
SerialSymmetry == Permutations(TwoVals) \cup Permutations(TwoKeys)
=============================================================================
