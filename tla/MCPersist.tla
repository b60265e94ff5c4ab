------------------------------ MODULE MCPersist ------------------------------
(* Instances of Persist for TLC. *)
EXTENDS Persist, TLC
CONSTANTS k1, k2

\* Three shards, the one in the middle empty.
MCShardOf == k1 :> 0 @@ k2 :> 2
Block(ents) == [kind |-> "good", time |-> 1, ents |-> ents]
Ent(k, ttl) == [key |-> k, val |-> 0, due |-> IF ttl = 0 THEN 0 ELSE 1 + ttl, ttl |-> ttl]
Broken == [kind |-> "torn", time |-> 0, ents |-> {}]
\* No file; a good one; one cut short.
MCFiles == {None,
            <<Block({Ent(k1, 0)}), Block({Ent(k2, 1)})>>,
            <<Block({Ent(k1, 0)}), Broken>>}
=============================================================================
