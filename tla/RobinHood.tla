----------------------------- MODULE RobinHood -----------------------------
(***************************************************************************)
(* The hash table of a shard (struct map, pogocache.c): open addressing    *)
(* with Robin Hood displacement on insert, backward shift on delete, and   *)
(* resizing.  The state is the bucket array; the operations of the shard   *)
(* that rearrange it are the actions, each under the shard's lock.         *)
(*                                                                         *)
(* An entry is a key and a version: versions tell the old entry of a key   *)
(* from the new one, as the entries' addresses do in the code.             *)
(***************************************************************************)
EXTENDS Integers, FiniteSets, Folds

CONSTANTS
    Keys, NoKey,
    HashOf,      \* clip_hash of each key's hash; keys may collide
    InitCap,     \* INITCAP, a power of two
    LoadOpt,     \* pogocache_opts.loadfactor, in percent
    ShrinkPct,   \* SHRINKAT, in percent
    AllowShrink, \* pogocache_opts.allowshrink
    DibMod       \* a dib is a uint8_t: 256

ASSUME MapAssumption ==
    /\ NoKey \notin Keys
    /\ HashOf \in [Keys -> Nat]
    /\ InitCap \in Nat /\ InitCap >= 2
    /\ LoadOpt \in Int
    /\ ShrinkPct \in 0..27
    /\ AllowShrink \in BOOLEAN
    /\ DibMod \in Nat \ {0}

VARIABLES
    map,   \* shard->map: its buckets and its entry count
    ref,   \* reference: the version stored for each key, 0 for none
    out    \* what the last operation reported

vars == <<map, ref, out>>

-----------------------------------------------------------------------------
\* dib = 0 marks an empty bucket.
Empty == [dib |-> 0, key |-> NoKey, ver |-> 0]

map_init(cap) == [bkt |-> [i \in 0 .. cap - 1 |-> Empty], count |-> 0]

nbuckets(m) == Cardinality(DOMAIN m.bkt)

\* The sizes of this map, whose arithmetic is the subject of MapRoom.
Room == INSTANCE MapRoom WITH
    nb <- nbuckets(map), count <- map.count,
    Caps <- {InitCap * 2^j : j \in 0..8}

Home(n, k) == HashOf[k] % n
After(n, i) == (i + 1) % n
\* Mutant of Older: the dib is not increased.
OlderSameDib(e) == e

Older(e) == [e EXCEPT !.dib = (@ + 1) % DibMod]

(***************************************************************************)
(* The probe loop of map_insert, from bucket i with entry e in hand: take  *)
(* an empty bucket, replace the entry of the same key, or swap with an     *)
(* entry that is closer to home.  old is the version that was replaced.    *)
(***************************************************************************)
RECURSIVE Probe(_, _, _)
Probe(m, i, e) ==
    LET b == m.bkt[i]
        n == nbuckets(m)
    IN  IF b.dib = 0
        THEN [map |-> [bkt |-> [m.bkt EXCEPT ![i] = e], count |-> m.count + 1],
              old |-> 0]
        ELSE IF b.key = e.key
        THEN [map |-> [m EXCEPT !.bkt[i].ver = e.ver], old |-> b.ver]
        ELSE IF b.dib < e.dib
        THEN Probe([m EXCEPT !.bkt[i] = e], After(n, i), Older(b))
        ELSE Probe(m, After(n, i), Older(e))

Place(m, k, v) ==
    Probe(m, Home(nbuckets(m), k), [dib |-> 1, key |-> k, ver |-> v])

\* resize: the entries move to a new array, in the order of their buckets.
RECURSIVE MoveFrom(_, _, _)
MoveFrom(m, i, into) ==
    IF i = nbuckets(m) THEN into
    ELSE MoveFrom(m, i + 1, IF m.bkt[i].dib = 0 THEN into
                            ELSE Place(into, m.bkt[i].key, m.bkt[i].ver).map)

resize(m, cap) == MoveFrom(m, 0, map_init(cap))

\* Mutant of map_insert: the map grows one entry too early.
map_insertEarly(m, k, v) ==
    Place(IF m.count + 1 >= Room!growat(nbuckets(m))
          THEN resize(m, 2 * nbuckets(m)) ELSE m, k, v)

map_insert(m, k, v) ==
    Place(IF m.count >= Room!growat(nbuckets(m)) THEN resize(m, 2 * nbuckets(m))
          ELSE m, k, v)

\* map_get_bucket: the bucket of k, or -1.
RECURSIVE FindFrom(_, _, _)
FindFrom(m, i, k) ==
    IF m.bkt[i].dib = 0 THEN -1
    ELSE IF m.bkt[i].key = k THEN i
    ELSE FindFrom(m, After(nbuckets(m), i), k)

map_get_bucket(m, k) == FindFrom(m, Home(nbuckets(m), k), k)

\* Mutant of Shift: the entries behind are not moved.
ShiftNone(b, h) == [b EXCEPT ![h] = Empty]

\* delbkt: shift the entries behind bucket h back by one, up to one at home.
RECURSIVE Shift(_, _)
Shift(b, h) ==
    LET i == After(Cardinality(DOMAIN b), h)
    IN  IF b[i].dib <= 1 THEN [b EXCEPT ![h] = Empty]
        ELSE Shift([b EXCEPT ![h] = [b[i] EXCEPT !.dib = @ - 1]], i)

delbkt(m, i) ==
    [bkt |-> Shift([m.bkt EXCEPT ![i] = Empty], i), count |-> m.count - 1]

map_delete(m, k) == delbkt(m, map_get_bucket(m, k))

\* Mutant of needsshrink: the initial capacity is not a minimum.
needsshrinkBelow(m) == AllowShrink /\ m.count <= Room!shrinkat(nbuckets(m))

needsshrink(m) ==
    AllowShrink /\ nbuckets(m) > InitCap /\ m.count <= Room!shrinkat(nbuckets(m))

\* Mutant of CapFor: back to the initial capacity, whatever is left.
CapForInitial(count, cap) == cap

RECURSIVE CapFor(_, _)
CapFor(count, cap) == IF count >= Room!growat(cap) THEN CapFor(count, 2 * cap) ELSE cap

\* ok = FALSE is a resize that cannot allocate: the map stays as it is.
tryshrink(m, multi, ok) ==
    IF ~needsshrink(m) \/ ~ok THEN m
    ELSE resize(m, IF multi THEN CapFor(m.count, InitCap) ELSE nbuckets(m) \div 2)

\* Mutant of ScanFrom: the bucket is not visited again after a delete.
RECURSIVE ScanSkips(_, _, _, _)
ScanSkips(m, i, del, seen) ==
    IF i = nbuckets(m) THEN [map |-> m, seen |-> seen]
    ELSE LET b == m.bkt[i]
         IN  IF b.dib = 0 THEN ScanSkips(m, i + 1, del, seen)
             ELSE IF b.key \in del THEN ScanSkips(delbkt(m, i), i + 1, del, seen)
             ELSE ScanSkips(m, i + 1, del, [seen EXCEPT ![b.key] = @ + 1])

(***************************************************************************)
(* sweepop and iterop: one loop over the buckets that deletes the entries  *)
(* of the keys in del.  A bucket whose entry was deleted is visited again. *)
(* seen counts the visits to each key that stays.                          *)
(***************************************************************************)
RECURSIVE ScanFrom(_, _, _, _)
ScanFrom(m, i, del, seen) ==
    IF i = nbuckets(m) THEN [map |-> m, seen |-> seen]
    ELSE LET b == m.bkt[i]
         IN  IF b.dib = 0 THEN ScanFrom(m, i + 1, del, seen)
             ELSE IF b.key \in del THEN ScanFrom(delbkt(m, i), i, del, seen)
             ELSE ScanFrom(m, i + 1, del, [seen EXCEPT ![b.key] = @ + 1])

Scan(m, del) == ScanFrom(m, 0, del, [k \in Keys |-> 0])

(***************************************************************************)
(* auto_evict_entry: the keys it may evict after k was inserted, one of    *)
(* them: the first dead entry it meets or, of two candidates, the older.   *)
(***************************************************************************)
RECURSIVE EvictFrom(_, _, _, _, _)
EvictFrom(m, i, k, dead, cands) ==
    LET b == m.bkt[(i + HashOf[k]) % nbuckets(m)]
    IN  IF i >= nbuckets(m) \/ Cardinality(cands) = 2 THEN cands
        ELSE IF b.dib = 0 THEN EvictFrom(m, i + 1, k, dead, cands)
        ELSE IF b.key \in dead THEN {b.key}
        ELSE IF HashOf[b.key] = HashOf[k]
        THEN EvictFrom(m, i + 1, k, dead, cands)
        ELSE EvictFrom(m, i + 1, k, dead, cands \cup {b.key})

-----------------------------------------------------------------------------
(***************************************************************************)
(* out.got is what the operation's second insert, or its count of kept     *)
(* entries, came to, out.want what it should be; out.grew says that the    *)
(* second insert resized; out.lost has the live keys that the operation    *)
(* passed over (a scan) or evicted although they had just been stored.     *)
(***************************************************************************)
NoOut == [op |-> "none", grew |-> FALSE, got |-> 0, want |-> 0, lost |-> {}]

Stored == {k \in Keys : ref[k] # 0}
NewVer(k) == IF ref[k] = 1 THEN 2 ELSE 1

Init ==
    /\ map = map_init(InitCap)
    /\ ref = [k \in Keys |-> 0]
    /\ out = NoOut

\* storeop: the entry is inserted, or replaces the old one.
Store(k) ==
    /\ map' = map_insert(map, k, NewVer(k)).map
    /\ ref' = [ref EXCEPT ![k] = NewVer(k)]
    /\ out' = NoOut

\* storeop whose map_insert has to resize and cannot.
StoreNoMem ==
    /\ map.count >= Room!growat(nbuckets(map))
    /\ out' = NoOut
    /\ UNCHANGED <<map, ref>>

\* storeop, put_back: the new entry goes in, and the old one replaces it again.
StorePutBack(k) ==
    LET first == map_insert(map, k, NewVer(k))
        second == map_insert(first.map, k, first.old)
    IN  /\ ref[k] # 0
        /\ map' = second.map
        /\ out' = [NoOut EXCEPT !.op = "putback",
                       !.got = second.old, !.want = NewVer(k),
                       !.grew = nbuckets(second.map) # nbuckets(first.map)]
        /\ UNCHANGED ref

\* storeop, xx or casop without a live entry: the new entry is taken out again.
StoreMissing(k) ==
    /\ map' = map_delete(map_insert(map, k, NewVer(k)).map, k)
    /\ ref' = [ref EXCEPT ![k] = 0]
    /\ out' = NoOut

\* storeop of a new key under low memory: one entry is evicted for it.  The
\* new entry itself may be dead (stored with an expiration in the past).
StoreEvict(k, dead) ==
    LET m == map_insert(map, k, 1).map
        cands == EvictFrom(m, 1, k, dead, {})
    IN  /\ ref[k] = 0
        /\ \E x \in IF cands = {} THEN {NoKey} ELSE cands :
              /\ map' = IF x = NoKey THEN m ELSE map_delete(m, x)
              /\ ref' = [j \in Keys |-> CASE j = x -> 0
                                          [] j = k /\ j # x -> 1
                                          [] OTHER -> ref[j]]
              /\ out' = [NoOut EXCEPT !.op = "evict", !.lost = {k} \cap ({x} \ dead)]

\* deleteop.  ok: the shrinking map_init could allocate.
Delete(k, ok) ==
    /\ ref[k] # 0
    /\ map' = tryshrink(map_delete(map, k), FALSE, ok)
    /\ ref' = [ref EXCEPT ![k] = 0]
    /\ out' = NoOut

\* deleteop, canceled: the entry is taken out and put back.
DeleteCancel(k) ==
    LET first == map_delete(map, k)
        second == map_insert(first, k, ref[k])
    IN  /\ ref[k] # 0
        /\ map' = second.map
        /\ out' = [NoOut EXCEPT !.op = "cancel", !.got = second.old, !.want = 0,
                       !.grew = nbuckets(second.map) # nbuckets(first)]
        /\ UNCHANGED ref

\* loadop meets a dead entry; the map does not shrink.
LoadDead(k) ==
    /\ ref[k] # 0
    /\ map' = map_delete(map, k)
    /\ ref' = [ref EXCEPT ![k] = 0]
    /\ out' = NoOut

\* sweepop of the dead entries del, and iterop whose callback deletes del.
SweepOrIter(del, ok) ==
    LET s == Scan(map, del)
        stay == Stored \ del
    IN  /\ map' = tryshrink(s.map, TRUE, ok)
        /\ ref' = [k \in Keys |-> IF k \in del THEN 0 ELSE ref[k]]
        /\ out' = [NoOut EXCEPT !.op = "scan",
                       !.got = MapThenFoldSet(+, 0, LAMBDA k : s.seen[k],
                                              LAMBDA S : CHOOSE k \in S : TRUE, Keys),
                       !.want = Cardinality(stay),
                       !.lost = {k \in stay : s.seen[k] = 0}]

Next ==
    \/ \E k \in Keys :
          \/ Store(k)
          \/ StorePutBack(k)
          \/ StoreMissing(k)
          \/ \E dead \in SUBSET (Stored \cup {k}) : StoreEvict(k, dead)
          \/ \E ok \in BOOLEAN : Delete(k, ok)
          \/ DeleteCancel(k)
          \/ LoadDead(k)
    \/ StoreNoMem
    \/ \E del \in SUBSET Stored, ok \in BOOLEAN : SweepOrIter(del, ok)

Spec == Init /\ [][Next]_vars

-----------------------------------------------------------------------------
Full(i) == map.bkt[i].dib # 0

TypeOK ==
    /\ map.count \in Nat
    /\ map.bkt \in [DOMAIN map.bkt -> [dib : 0 .. DibMod - 1,
                                       key : Keys \cup {NoKey}, ver : 0..2]]
    /\ nbuckets(map) >= InitCap
    /\ ref \in [Keys -> 0..2]

(***************************************************************************)
(* map_get_bucket finds exactly the keys that were stored and not removed  *)
(* since, with the entry stored last, whatever was displaced, shifted back *)
(* or moved to another array in between.                                   *)
(***************************************************************************)
LookupExact ==
    \A k \in Keys :
        LET i == map_get_bucket(map, k)
        IN  IF ref[k] = 0 THEN i = -1 ELSE i # -1 /\ map.bkt[i].ver = ref[k]

(***************************************************************************)
(* The Robin Hood order that map_insert and delbkt maintain: a dib is the  *)
(* distance from the entry's home bucket plus one, and no entry is more    *)
(* than one further from home than the entry before it, so a backward      *)
(* shift never has to move an entry past its home.                         *)
(***************************************************************************)
DibExact ==
    LET n == nbuckets(map)
    IN  \A i \in DOMAIN map.bkt : Full(i) =>
           /\ map.bkt[i].dib = ((i - Home(n, map.bkt[i].key)) % n) + 1
           /\ map.bkt[After(n, i)].dib <= map.bkt[i].dib + 1

(***************************************************************************)
(* The map's sizes change only as MapRoom says, for which it is proved     *)
(* that an empty bucket always remains.                                    *)
(***************************************************************************)
ImplementsRoom == Room!Spec

(***************************************************************************)
(* storeop's put_back and deleteop's cancel insert a second time and       *)
(* assert that this insert neither allocates nor fails, and that it        *)
(* replaces the new entry (put_back) or nothing (cancel).                  *)
(***************************************************************************)
ReinsertSafe ==
    out.op \in {"putback", "cancel"} => ~out.grew /\ out.got = out.want

(***************************************************************************)
(* A scan that deletes while it walks (sweepop, iterop) never passes over  *)
(* an entry that a backward shift moved, and the kept count of a sweep     *)
(* leaves out none that is left (it may be too high: an entry that a       *)
(* delete in the last bucket pulls over the end of the array is counted    *)
(* twice); and auto_evict_entry never evicts the live entry the store has  *)
(* just inserted.                                                          *)
(***************************************************************************)
NothingPassedOver ==
    /\ out.lost = {}
    /\ out.op = "scan" => out.got >= out.want
=============================================================================
