------------------------------ MODULE MapStats ------------------------------
(***************************************************************************)
(* The two statistics a shard's map keeps beside its count: total, which   *)
(* STATS prints as total_items, and entsize, printed as bytes.  The sizes  *)
(* of the array come from MapRoom; here each entry has a memory size.      *)
(***************************************************************************)
EXTENDS MapRoom, FiniteSets

CONSTANTS
    Keys,
    Sizes,      \* entry_memsize of the entries
    Garbage,    \* what an uninitialised struct map may hold
    MaxStores   \* bound on the number of stores

ASSUME StatsAssumption ==
    /\ IsFiniteSet(Keys)
    /\ Sizes \subseteq Nat \ {0}
    /\ Garbage \subseteq Nat /\ Garbage # {}
    /\ MaxStores \in Nat

VARIABLES
    size,     \* the memory size of each key's entry, 0 for none
    total,    \* map->total
    entsize,  \* map->entsize; a size_t in the code, so below 0 it wraps
    ever,     \* history: number of entries that have been stored
    resized,  \* history: the array was resized
    bypassed  \* history: an entry left or changed without map_insert, map_delete

statVars == <<nb, count, size, total, entsize, ever, resized, bypassed>>

Stored == {k \in Keys : size[k] > 0}

\* The memory of all entries, a pair for each of its units.
Memory(f) == UNION {{k} \X (1..f[k]) : k \in Keys}
SumSize == Cardinality(Memory(size))

InitStats ==
    /\ Init
    /\ size = [k \in Keys |-> 0]
    /\ total = 0 /\ entsize = 0 /\ ever = 0
    /\ resized = FALSE /\ bypassed = FALSE

(***************************************************************************)
(* total and entsize go up by t and e.  A resize in the same operation     *)
(* first replaces both by what the new struct map held on the stack:       *)
(* map_init leaves them out and resize copies the whole struct.            *)
(***************************************************************************)
Grew(t, e) ==
    /\ resized' = (resized \/ nb' # nb)
    /\ \E g \in IF nb' = nb THEN {total} ELSE Garbage : total' = g + t
    /\ \E g \in IF nb' = nb THEN {entsize} ELSE Garbage : entsize' = g + e

\* The same for a resize that comes last, in tryshrink.
ThenShrunk(t, e) ==
    /\ resized' = (resized \/ nb' # nb)
    /\ total' \in IF nb' = nb THEN {total + t} ELSE Garbage
    /\ entsize' \in IF nb' = nb THEN {entsize + e} ELSE Garbage

Counted == ever < MaxStores /\ ever' = ever + 1 /\ UNCHANGED bypassed
SetSize(k, s) == size' = [size EXCEPT ![k] = s]
DropSizes(K) == size' = [k \in Keys |-> IF k \in K THEN 0 ELSE size[k]]

StoreInsert(k, s) ==
    /\ k \notin Stored /\ Counted
    /\ Store(1) /\ Grew(1, s) /\ SetSize(k, s)

\* Mutant of StoreReplace: the size of the old entry stays in entsize.
StoreReplaceBoth(k, s) ==
    /\ k \in Stored /\ Counted
    /\ Store(0) /\ Grew(0, s) /\ SetSize(k, s)

StoreReplace(k, s) ==
    /\ k \in Stored /\ Counted
    /\ Store(0) /\ Grew(0, s - size[k]) /\ SetSize(k, s)

StorePutBack(k) ==
    /\ k \in Stored
    /\ Store(0) /\ Grew(0, 0) /\ UNCHANGED <<size, ever, bypassed>>

\* xx or cas, with no entry or with a dead one: map_insert, then map_delete.
StoreMissing(k) ==
    /\ \/ k \notin Stored /\ Store(0) /\ Grew(1, 0)
       \/ k \in Stored /\ Store(-1) /\ Grew(0, -size[k])
    /\ total < MaxStores
    /\ DropSizes({k}) /\ UNCHANGED <<ever, bypassed>>

StoreEvict(k, s, x) ==
    /\ k \notin Stored /\ x \in Stored /\ Counted
    /\ Store(0) /\ Grew(1, s - size[x])
    /\ size' = [size EXCEPT ![k] = s, ![x] = 0]

DeleteKey(k) ==
    /\ k \in Stored
    /\ Delete /\ ThenShrunk(0, -size[k])
    /\ DropSizes({k}) /\ UNCHANGED <<ever, bypassed>>

\* map_delete, then map_insert of the same entry.
DeleteCancel(k) ==
    /\ k \in Stored /\ total < MaxStores
    /\ total' = total + 1
    /\ UNCHANGED <<nb, count, size, entsize, ever, resized, bypassed>>

\* loadop: delbkt, which does not know about entsize.
LoadDeadKey(k) ==
    /\ k \in Stored
    /\ LoadDead /\ DropSizes({k}) /\ bypassed' = TRUE
    /\ UNCHANGED <<total, entsize, ever, resized>>

\* loadop with an update: the entry in the bucket is exchanged.
LoadUpdate(k, s) ==
    /\ k \in Stored
    /\ SetSize(k, s) /\ bypassed' = TRUE
    /\ UNCHANGED <<nb, count, total, entsize, ever, resized>>

\* sweepop and iterop: delbkt for each entry, then tryshrink.
ScanKeys(K) ==
    /\ Scan(Cardinality(K)) /\ ThenShrunk(0, 0)
    /\ DropSizes(K) /\ bypassed' = (bypassed \/ K # {}) /\ UNCHANGED ever

NextStats ==
    \/ \E k \in Keys :
          \/ \E s \in Sizes :
                \/ StoreInsert(k, s)
                \/ StoreReplace(k, s)
                \/ \E x \in Keys : StoreEvict(k, s, x)
                \/ LoadUpdate(k, s)
          \/ StorePutBack(k)
          \/ StoreMissing(k)
          \/ DeleteKey(k)
          \/ DeleteCancel(k)
          \/ LoadDeadKey(k)
    \/ \E K \in SUBSET Stored : ScanKeys(K)

SpecStats == InitStats /\ [][NextStats]_statVars

-----------------------------------------------------------------------------
(***************************************************************************)
(* What STATS reports of a map, whichever paths entries came and went by:  *)
(* count is the number of stored keys; until the first resize total leaves *)
(* out no stored key; and entsize is the "memory size of all entries"      *)
(* (struct map) as long as no resize, dead load, update or scan has gone   *)
(* past the two operations that keep it.                                   *)
(***************************************************************************)
StatsExact ==
    /\ count = Cardinality(Stored)
    /\ ~resized => total >= Cardinality(Stored)
    /\ ~resized /\ ~bypassed => entsize = SumSize
=============================================================================
