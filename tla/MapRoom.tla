------------------------------ MODULE MapRoom ------------------------------
(***************************************************************************)
(* How many buckets and entries a shard's map has (struct map,             *)
(* pogocache.c), without what is in them.  Every probe loop of the map     *)
(* runs until it meets an empty bucket, and two insertions are asserted    *)
(* not to allocate: both rest on this arithmetic.                          *)
(***************************************************************************)
EXTENDS Integers

CONSTANTS
    InitCap,     \* INITCAP
    Caps,        \* the array sizes that can be allocated
    LoadOpt,     \* pogocache_opts.loadfactor, in percent; 0 for the default
    ShrinkPct,   \* SHRINKAT, in percent
    AllowShrink  \* pogocache_opts.allowshrink

ASSUME RoomAssumption ==
    /\ InitCap \in Nat /\ InitCap >= 2
    /\ Caps \subseteq Nat /\ InitCap \in Caps
    /\ \A cap \in Caps :
          /\ cap >= InitCap
          /\ cap # InitCap => \E half \in Caps : cap = 2 * half
    /\ LoadOpt \in Int
    /\ ShrinkPct \in 0..27
    /\ AllowShrink \in BOOLEAN

VARIABLES nb, count  \* map->nbuckets, map->count

roomVars == <<nb, count>>

-----------------------------------------------------------------------------
\* opts_to_ctx
loadfactor ==
    IF LoadOpt = 0 THEN 75
    ELSE IF LoadOpt < 55 THEN 55
    ELSE IF LoadOpt > 95 THEN 95
    ELSE LoadOpt

growat(n) == (n * loadfactor) \div 100
shrinkat(n) == (n * ShrinkPct) \div 100

\* Mutant of Grown: the map grows one entry too late.
GrownLate == IF count > growat(nb) THEN 2 * nb ELSE nb

\* map_insert, first step: the array that the new entry goes into.
Grown == IF count >= growat(nb) THEN 2 * nb ELSE nb

needsshrink(n) == AllowShrink /\ nb > InitCap /\ n <= shrinkat(nb)

\* tryshrink with multi: the loop that doubles from map->cap.
Fits(cap, n) ==
    /\ n < growat(cap)
    /\ cap # InitCap => \E half \in Caps : cap = 2 * half /\ n >= growat(half)

\* tryshrink, with n entries left: the sizes the array may have afterwards.
\* The array stays when it need not shrink or when the allocation fails.
Shrunk(n, multi) ==
    {nb} \cup {cap \in Caps : /\ needsshrink(n)
                              /\ IF multi THEN Fits(cap, n) ELSE nb = 2 * cap}

-----------------------------------------------------------------------------
Init == nb = InitCap /\ count = 0

(***************************************************************************)
(* storeop: count changes by d = 1 for a new key; 0 for a key that is      *)
(* replaced or put back, a new key that is taken out again (xx, cas) or    *)
(* for which another is evicted; -1 for a dead one that is taken out.      *)
(* It returns NOMEM, with nothing changed, if the array cannot grow.       *)
(***************************************************************************)
Store(d) ==
    /\ Grown \in Caps
    /\ count + d >= 0
    /\ nb' = Grown
    /\ count' = count + d

\* deleteop.  A cancelled one puts the entry back and changes nothing.
Delete ==
    /\ count > 0
    /\ count' = count - 1
    /\ nb' \in Shrunk(count - 1, FALSE)

\* loadop of a dead entry
LoadDead ==
    /\ count > 0
    /\ count' = count - 1
    /\ UNCHANGED nb

\* sweepop and iterop delete any number of entries.
Scan(d) ==
    /\ count' = count - d
    /\ nb' \in Shrunk(count - d, TRUE)

Next ==
    \/ \E d \in -1..1 : Store(d)
    \/ Delete
    \/ LoadDead
    \/ \E d \in 0..count : Scan(d)

Spec == Init /\ [][Next]_roomVars

-----------------------------------------------------------------------------
TypeOK == nb \in Caps /\ count \in Nat

(***************************************************************************)
(* There is always an empty bucket, which is what ends the probe loops of  *)
(* map_insert, map_get_bucket, map_delete, delbkt and resize: no sequence  *)
(* of stores, deletes, sweeps and failed allocations fills the array, and  *)
(* a smaller array has room for all the entries.                           *)
(***************************************************************************)
RoomLeft == count <= growat(nb) /\ growat(nb) < nb

(***************************************************************************)
(* "There will never be a new allocation" (put_back in storeop) and "will  *)
(* not cause an allocation error" (cancel in deleteop): when an entry is   *)
(* inserted for the second time, count is below growat, in the array that  *)
(* the first insertion left (put_back), or with one entry less (cancel).   *)
(***************************************************************************)
ReinsertFits ==
    /\ Grown \in Caps => count < growat(Grown)
    /\ count > 0 => count - 1 < growat(nb)
=============================================================================
