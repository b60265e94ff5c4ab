--------------------------- MODULE MapRoomProofs ---------------------------
(***************************************************************************)
(* Theorems about MapRoom and MapStats, for every load factor that         *)
(* opts_to_ctx can be given, every sequence of array sizes and every       *)
(* finite set of keys.                                                     *)
(***************************************************************************)
EXTENDS MapStats, FiniteSetTheorems, TLAPS

\* opts_to_ctx clamps the load factor.
LEMMA LoadFactorRange == loadfactor \in 55..95
  BY RoomAssumption DEF loadfactor

\* growat leaves a bucket free, and twice the buckets have room for one more.
LEMMA GrowAtFacts ==
    ASSUME NEW n \in Nat, n >= 2
    PROVE  /\ growat(n) \in Nat
           /\ growat(n) < n
           /\ growat(2 * n) >= growat(n) + 1
           /\ growat(n) >= 1
<1> DEFINE p == n * loadfactor
<1>1. p \in Nat /\ p >= 55 * n /\ p <= 95 * n
  BY LoadFactorRange
<1>2. (2 * n) * loadfactor = 2 * p
  BY LoadFactorRange
<1> HIDE DEF p
<1>3. p \div 100 \in Nat /\ p \div 100 < n /\ p \div 100 >= 1
  BY <1>1
<1>4. (2 * p) \div 100 >= (p \div 100) + 1
  BY <1>1
<1> QED
  BY <1>2, <1>3, <1>4 DEF growat, p

\* tryshrink, halving: what is left fits half the buckets.
LEMMA ShrinkAtFits ==
    ASSUME NEW n \in Nat, NEW c \in Nat, c <= shrinkat(2 * n)
    PROVE  c <= growat(n)
<1> DEFINE p == n * loadfactor
           q == (2 * n) * ShrinkPct
<1>1. p \in Nat /\ p >= 55 * n
  BY LoadFactorRange
<1>2. q \in Nat /\ q <= 54 * n
  BY RoomAssumption
<1> HIDE DEF p, q
<1>3. q \div 100 <= p \div 100
  BY <1>1, <1>2
<1> QED
  BY <1>3, <1>1, <1>2 DEF growat, shrinkat, p, q

\* An array size is a number of at least two buckets.
LEMMA CapFacts == ASSUME NEW cap \in Caps PROVE cap \in Nat /\ cap >= 2
  BY RoomAssumption

IRoom == TypeOK /\ RoomLeft

\* Whatever tryshrink chooses has room for the n entries that are left.
LEMMA ShrunkFits ==
    ASSUME IRoom, NEW n \in Nat, n <= count, NEW multi \in BOOLEAN,
           NEW cap \in Shrunk(n, multi)
    PROVE  cap \in Caps /\ n <= growat(cap)
<1>0. nb \in Nat /\ nb >= 2
  BY CapFacts DEF IRoom, TypeOK
<1>1. CASE cap = nb
  BY <1>1, <1>0, GrowAtFacts DEF IRoom, RoomLeft, TypeOK
<1>2. CASE cap # nb
  <2>1. cap \in Caps /\ needsshrink(n)
        /\ (IF multi THEN Fits(cap, n) ELSE nb = 2 * cap)
    BY <1>2 DEF Shrunk
  <2>2. cap \in Nat /\ cap >= 2
    BY <2>1, CapFacts
  <2>3. CASE multi
    BY <2>1, <2>2, <2>3, GrowAtFacts DEF Fits
  <2>4. CASE ~multi
    <3>1. n <= shrinkat(2 * cap)
      BY <2>1, <2>4 DEF needsshrink
    <3> QED
      BY <2>1, <2>2, <3>1, ShrinkAtFits
  <2> QED
    BY <2>3, <2>4
<1> QED
  BY <1>1, <1>2

\* The room is there initially.
LEMMA RoomInit == Init => IRoom
<1> SUFFICES ASSUME Init PROVE IRoom
  OBVIOUS
<1>1. InitCap \in Caps /\ InitCap \in Nat /\ InitCap >= 2
  BY RoomAssumption
<1> QED
  BY <1>1, GrowAtFacts DEF Init, IRoom, TypeOK, RoomLeft

\* Every operation keeps the room.
LEMMA RoomStep == IRoom /\ [Next]_roomVars => IRoom'
<1> SUFFICES ASSUME IRoom, [Next]_roomVars PROVE IRoom'
  OBVIOUS
<1>0. nb \in Caps /\ nb \in Nat /\ nb >= 2 /\ count \in Nat
  BY CapFacts DEF IRoom, TypeOK
<1>a. count <= growat(nb)
  BY DEF IRoom, RoomLeft
<1>1. SUFFICES nb' \in Caps /\ count' \in Nat /\ count' <= growat(nb')
  <2>1. nb' \in Nat /\ nb' >= 2
    BY <1>1, CapFacts
  <2> QED
    BY <1>1, <2>1, GrowAtFacts DEF IRoom, TypeOK, RoomLeft, growat
<1>2. ASSUME NEW d \in -1..1, Store(d)
      PROVE  nb' \in Caps /\ count' \in Nat /\ count' <= growat(nb')
  <2>1. nb' \in Caps /\ count' \in Nat
    BY <1>0, <1>2 DEF Store
  <2>2. CASE count >= growat(nb)
    <3>1. growat(nb) \in Nat /\ growat(2 * nb) >= growat(nb) + 1
      BY <1>0, GrowAtFacts
    <3>2. 2 * nb \in Nat /\ 2 * nb >= 2
      BY <1>0
    <3>3. growat(2 * nb) \in Nat
      BY <3>2, GrowAtFacts
    <3>4. nb' = 2 * nb /\ count' <= count + 1
      BY <1>0, <1>2, <2>2 DEF Store, Grown
    <3> QED
      BY <1>0, <1>a, <2>1, <3>1, <3>3, <3>4
  <2>3. CASE ~(count >= growat(nb))
    <3>1. growat(nb) \in Nat
      BY <1>0, GrowAtFacts
    <3>2. nb' = nb /\ count' <= count + 1
      BY <1>0, <1>2, <2>3 DEF Store, Grown
    <3> QED
      BY <1>0, <2>1, <2>3, <3>1, <3>2
  <2> QED
    BY <2>2, <2>3
<1>3. CASE Delete
  <2> DEFINE left == count - 1
  <2>1. left \in Nat /\ left <= count
    BY <1>0, <1>3 DEF Delete
  <2>2. nb' \in Shrunk(left, FALSE) /\ count' = left
    BY <1>3, Zenon DEF Delete
  <2> HIDE DEF left
  <2> QED
    BY <2>1, <2>2, ShrunkFits, Zenon
<1>4. CASE LoadDead
  <2>1. growat(nb) \in Nat
    BY <1>0, GrowAtFacts
  <2> QED
    BY <1>0, <1>a, <1>4, <2>1 DEF LoadDead
<1>5. ASSUME NEW d \in 0..count, Scan(d)
      PROVE  nb' \in Caps /\ count' \in Nat /\ count' <= growat(nb')
  <2> DEFINE left == count - d
  <2>1. left \in Nat /\ left <= count
    BY <1>0, <1>5 DEF Scan
  <2>2. nb' \in Shrunk(left, TRUE) /\ count' = left
    BY <1>5, Zenon DEF Scan
  <2> HIDE DEF left
  <2> QED
    BY <2>1, <2>2, ShrunkFits, Zenon
<1>6. CASE UNCHANGED roomVars
  BY <1>0, <1>a, <1>6 DEF roomVars
<1> QED
  BY <1>2, <1>3, <1>4, <1>5, <1>6 DEF Next

\* The room implies that a second insertion never allocates.
LEMMA RoomReinsert == IRoom => ReinsertFits
<1> SUFFICES ASSUME IRoom PROVE ReinsertFits
  OBVIOUS
<1>0. nb \in Nat /\ nb >= 2 /\ count \in Nat /\ count <= growat(nb)
  BY CapFacts DEF IRoom, TypeOK, RoomLeft
<1>1. growat(nb) \in Nat /\ growat(2 * nb) >= growat(nb) + 1
  BY <1>0, GrowAtFacts
<1>2. 2 * nb \in Nat /\ 2 * nb >= 2
  BY <1>0
<1>3. growat(2 * nb) \in Nat
  BY <1>2, GrowAtFacts
<1> QED
  BY <1>0, <1>1, <1>3 DEF ReinsertFits, Grown

(***************************************************************************)
(* Whatever the load factor and the sequence of operations, the map of a   *)
(* shard always has an empty bucket, so its probe loops end.               *)
(***************************************************************************)
THEOREM RoomHolds == Spec => []RoomLeft
<1>1. IRoom => RoomLeft
  BY DEF IRoom
<1> QED
  BY RoomInit, RoomStep, <1>1, PTL DEF Spec

(***************************************************************************)
(* put_back in storeop and cancel in deleteop never resize the map, as     *)
(* their comments and assertions say.                                      *)
(***************************************************************************)
THEOREM ReinsertNeverAllocates == Spec => []ReinsertFits
  BY RoomInit, RoomStep, RoomReinsert, PTL DEF Spec
-----------------------------------------------------------------------------
(***************************************************************************)
(* The statistics.                                                         *)
(***************************************************************************)
\* The keys that have an entry.
Having(f) == {k \in Keys : f[k] > 0}

\* The entry of one key has n units of memory.
LEMMA UnitsOfOne ==
    ASSUME NEW k, NEW n \in Nat
    PROVE  IsFiniteSet({k} \X (1..n)) /\ Cardinality({k} \X (1..n)) = n
<1>1. IsFiniteSet(1..n) /\ Cardinality(1..n) = n
  BY FS_Interval
<1>2. IsFiniteSet({k}) /\ Cardinality({k}) = 1
  BY FS_Singleton, Zenon
<1>3. /\ IsFiniteSet({k} \X (1..n))
      /\ Cardinality({k} \X (1..n)) = Cardinality({k}) * Cardinality(1..n)
  BY <1>1, <1>2, FS_Product, Zenon
<1> QED
  BY <1>1, <1>2, <1>3

\* An entry of another size changes the sum by the difference (map_insert,
\* map_delete).
LEMMA MemoryOne ==
    ASSUME NEW f \in [Keys -> Nat], NEW k \in Keys, NEW s \in Nat, NEW g,
           g = [f EXCEPT ![k] = s], IsFiniteSet(Memory(f))
    PROVE  /\ IsFiniteSet(Memory(g))
           /\ Cardinality(Memory(g)) = Cardinality(Memory(f)) + (s - f[k])
<1> DEFINE A == {k} \X (1..f[k])
           B == {k} \X (1..s)
           R == Memory(f) \ A
<1>0. f[k] \in Nat
  BY Zenon
<1>1. \A p : p \in Memory(f) <=> \E j \in Keys : p \in {j} \X (1..f[j])
  BY Zenon DEF Memory
<1>2. \A p : p \in Memory(g) <=> \E j \in Keys : p \in {j} \X (1..g[j])
  BY Zenon DEF Memory
<1>3. g[k] = s /\ \A j \in Keys \ {k} : g[j] = f[j]
  BY Zenon
<1>4. \A j : \A n, p : p \in {j} \X (1..n) => p[1] = j
  BY Zenon
<1>5. /\ IsFiniteSet(A) /\ Cardinality(A) = f[k]
      /\ IsFiniteSet(B) /\ Cardinality(B) = s
  BY <1>0, UnitsOfOne, Zenon
<1>6. \A p \in R : p[1] # k
  <2> SUFFICES ASSUME NEW p \in R, p[1] = k PROVE FALSE
    BY Zenon
  <2>1. PICK j \in Keys : p \in {j} \X (1..f[j])
    BY <1>1, Zenon
  <2>2. j = k
    BY <1>4, <2>1, Zenon
  <2> QED
    BY <2>1, <2>2, Zenon
<1>7. \A p : p \in Memory(g) <=> p \in R \cup B
  <2> TAKE p
  <2>1. ASSUME p \in Memory(g) PROVE p \in R \cup B
    <3>1. PICK j \in Keys : p \in {j} \X (1..g[j])
      BY <1>2, <2>1, Zenon
    <3>2. CASE j = k
      BY <1>3, <3>1, <3>2, Zenon
    <3>3. CASE j # k
      <4>1. p \in {j} \X (1..f[j])
        BY <1>3, <3>1, <3>3, Zenon
      <4>2. p \in Memory(f) /\ p \notin A
        BY <1>1, <1>4, <3>3, <4>1, Zenon
      <4> QED
        BY <4>2, Zenon
    <3> QED
      BY <3>2, <3>3, Zenon
  <2>2. ASSUME p \in B PROVE p \in Memory(g)
    BY <1>2, <1>3, <2>2, Zenon
  <2>3. ASSUME p \in R PROVE p \in Memory(g)
    <3>1. PICK j \in Keys : p \in {j} \X (1..f[j])
      BY <1>1, <2>3, Zenon
    <3>2. j # k
      BY <1>4, <1>6, <2>3, <3>1, Zenon
    <3>3. p \in {j} \X (1..g[j])
      BY <1>3, <3>1, <3>2, Zenon
    <3> QED
      BY <1>2, <3>3, Zenon
  <2> QED
    BY <2>1, <2>2, <2>3, Zenon
<1>8. Memory(g) = R \cup B
  <2> HIDE DEF R, B
  <2> QED
    BY <1>7, Zenon
<1>9. R \cap B = {}
  BY <1>4, <1>6, Zenon
<1>10. Memory(f) \cap A = A
  <2>1. \A p \in A : p \in Memory(f)
    BY <1>1, Zenon
  <2> HIDE DEF A
  <2> QED
    BY <2>1
<1> HIDE DEF A, B
<1>11. /\ IsFiniteSet(R)
       /\ Cardinality(R) = Cardinality(Memory(f)) - Cardinality(Memory(f) \cap A)
  BY FS_Difference, Zenon
<1> HIDE DEF R
<1>12. /\ IsFiniteSet(R \cup B)
       /\ Cardinality(R \cup B) = Cardinality(R) + Cardinality(B) - Cardinality(R \cap B)
  BY <1>5, <1>11, FS_Union, Zenon
<1>13. Cardinality(R \cap B) = 0
  BY <1>9, FS_EmptySet, Zenon
<1>14. Cardinality(Memory(f)) \in Nat
  BY FS_CardinalityType, Zenon
<1>15. Cardinality(R) = Cardinality(Memory(f)) - f[k]
  BY <1>5, <1>10, <1>11, Zenon
<1>16. Cardinality(R \cup B) = Cardinality(R) + s
  BY <1>0, <1>5, <1>12, <1>13, <1>14, <1>15
<1>17. Cardinality(R \cup B) = Cardinality(Memory(f)) + (s - f[k])
  BY <1>0, <1>14, <1>15, <1>16
<1> QED
  BY <1>8, <1>12, <1>17, Zenon

\* The number of entries goes from m to n when the size of one goes from a to b.
Change(a, b, m, n) ==
    /\ a = 0 /\ b > 0 => n = m + 1
    /\ a > 0 /\ b > 0 => n = m
    /\ a > 0 /\ b = 0 => n = m - 1
    /\ a = 0 /\ b = 0 => n = m

\* The number of keys that have an entry changes by one at most.
LEMMA HavingOne ==
    ASSUME NEW f \in [Keys -> Nat], NEW k \in Keys, NEW s \in Nat, NEW g,
           g = [f EXCEPT ![k] = s]
    PROVE  Change(f[k], s, Cardinality(Having(f)), Cardinality(Having(g)))
<1>1. g[k] = s /\ f[k] \in Nat /\ \A j \in Keys \ {k} : g[j] = f[j]
  BY Zenon
<1>2. IsFiniteSet(Having(f)) /\ IsFiniteSet(Having(g))
  BY StatsAssumption, FS_Subset, Zenon DEF Having
<1>4. k \in Having(f) <=> f[k] > 0
  BY Zenon DEF Having
<1>5. s > 0 => Having(g) = Having(f) \cup {k}
  BY <1>1 DEF Having
<1>6. s = 0 => Having(g) = Having(f) \ {k}
  BY <1>1 DEF Having
<1>7. Cardinality(Having(f) \cup {k})
        = IF k \in Having(f) THEN Cardinality(Having(f)) ELSE Cardinality(Having(f)) + 1
  BY <1>2, FS_AddElement, Zenon
<1>8. Cardinality(Having(f) \ {k})
        = IF k \in Having(f) THEN Cardinality(Having(f)) - 1 ELSE Cardinality(Having(f))
  BY <1>2, FS_RemoveElement, Zenon
<1>9. f[k] = 0 => ~(f[k] > 0)
  BY <1>1
<1> QED
  BY <1>4, <1>5, <1>6, <1>7, <1>8, <1>9, Zenon DEF Change

-----------------------------------------------------------------------------
\* StatsExact with the types it needs is inductive.
StatsInv ==
    /\ size \in [Keys -> Nat] /\ total \in Nat /\ entsize \in Int
    /\ resized \in BOOLEAN /\ bypassed \in BOOLEAN
    /\ IsFiniteSet(Memory(size))
    /\ StatsExact

\* Until a resize, an operation adds what it says to total and entsize.
LEMMA Adds ==
    ASSUME StatsInv, NEW t \in Nat, NEW e \in Int, Grew(t, e) \/ ThenShrunk(t, e)
    PROVE  /\ total' \in Nat /\ entsize' \in Int /\ resized' \in BOOLEAN
           /\ ~resized' => ~resized /\ total' = total + t /\ entsize' = entsize + e
<1>1. total \in Nat /\ entsize \in Int /\ resized \in BOOLEAN
  BY Zenon DEF StatsInv
<1>2. resized' = (resized \/ nb' # nb)
  BY Zenon DEF Grew, ThenShrunk
<1>3. CASE Grew(t, e)
  <2>1. PICK g \in IF nb' = nb THEN {total} ELSE Garbage : total' = g + t
    BY <1>3, Zenon DEF Grew
  <2>2. PICK h \in IF nb' = nb THEN {entsize} ELSE Garbage : entsize' = h + e
    BY <1>3, Zenon DEF Grew
  <2>3. g \in Nat /\ h \in Int
    BY <1>1, <2>1, <2>2, StatsAssumption
  <2>4. total' \in Nat /\ entsize' \in Int
    BY <2>1, <2>2, <2>3
  <2>5. nb' = nb => g = total /\ h = entsize
    BY <2>1, <2>2, Zenon
  <2> QED
    BY <1>1, <1>2, <2>1, <2>2, <2>4, <2>5, Zenon
<1>4. CASE ThenShrunk(t, e)
  <2>1. /\ total' \in IF nb' = nb THEN {total + t} ELSE Garbage
        /\ entsize' \in IF nb' = nb THEN {entsize + e} ELSE Garbage
    BY <1>4, Zenon DEF ThenShrunk
  <2>2. total' \in Nat /\ entsize' \in Int
    BY <1>1, <2>1, StatsAssumption
  <2>3. nb' = nb => total' = total + t /\ entsize' = entsize + e
    BY <2>1, Zenon
  <2> QED
    BY <1>1, <1>2, <2>2, <2>3, Zenon
<1> QED
  BY <1>3, <1>4, Zenon

\* What the invariant says in numbers.
LEMMA InNumbers ==
    ASSUME StatsInv
    PROVE  /\ Cardinality(Stored) \in Nat /\ SumSize \in Nat /\ count = Cardinality(Stored)
           /\ total \in Nat /\ entsize \in Int
           /\ \A k \in Keys : size[k] \in Nat /\ (k \notin Stored => size[k] = 0)
                                              /\ (k \in Stored => size[k] > 0)
<1>1. size \in [Keys -> Nat]
  BY Zenon DEF StatsInv
<1>2. \A k \in Keys : size[k] \in Nat
  BY <1>1, Zenon
<1>3. IsFiniteSet(Stored)
  BY StatsAssumption, FS_Subset, Zenon DEF Stored
<1>4. Cardinality(Stored) \in Nat /\ SumSize \in Nat
  BY <1>3, FS_CardinalityType, Zenon DEF StatsInv, SumSize
<1>5. \A k \in Keys : (k \notin Stored => size[k] = 0) /\ (k \in Stored => size[k] > 0)
  BY <1>2 DEF Stored
<1> QED
  BY <1>2, <1>4, <1>5, Zenon DEF StatsInv, StatsExact

\* What the sizes of all but one key say of the next state.
LEMMA SizesOne ==
    ASSUME StatsInv, NEW k \in Keys, NEW s \in Nat, size' = [size EXCEPT ![k] = s]
    PROVE  /\ size' \in [Keys -> Nat] /\ IsFiniteSet(Memory(size'))
           /\ SumSize' = SumSize + (s - size[k])
           /\ Change(size[k], s, Cardinality(Stored), Cardinality(Stored'))
<1>1. size \in [Keys -> Nat] /\ IsFiniteSet(Memory(size))
  BY Zenon DEF StatsInv
<1>2. Stored = Having(size) /\ Stored' = Having(size')
  BY Zenon DEF Stored, Having
<1>3. size' \in [Keys -> Nat]
  BY <1>1, Zenon
<1>4. IsFiniteSet(Memory(size')) /\ SumSize' = SumSize + (s - size[k])
  BY <1>1, MemoryOne, Zenon DEF SumSize
<1>5. Change(size[k], s, Cardinality(Stored), Cardinality(Stored'))
  BY <1>1, <1>2, HavingOne, Zenon
<1> QED
  BY <1>3, <1>4, <1>5, Zenon

\* Without its entry a key has no memory.
LEMMA DropOne ==
    ASSUME StatsInv, NEW k \in Keys, DropSizes({k})
    PROVE  size' = [size EXCEPT ![k] = 0]
  BY Zenon DEF DropSizes, StatsInv

\* What the invariant says before a resize.
LEMMA StatsThen ==
    ASSUME StatsInv
    PROVE  /\ ~resized => total >= Cardinality(Stored)
           /\ ~resized /\ ~bypassed => entsize = SumSize
           /\ bypassed \in BOOLEAN /\ resized \in BOOLEAN
  BY Zenon DEF StatsInv, StatsExact

\* A step that has d entries more, and adds at least d to total and the change
\* of the memory to entsize unless it resizes or goes past them, keeps the
\* statistics.
LEMMA StatsBy ==
    ASSUME StatsInv, NEW d \in Int, NEW t \in Nat, NEW e \in Int, d <= t,
           size' \in [Keys -> Nat], IsFiniteSet(Memory(size')),
           total' \in Nat, entsize' \in Int, resized' \in BOOLEAN, bypassed' \in BOOLEAN,
           count' = count + d, Cardinality(Stored') = Cardinality(Stored) + d,
           ~resized' => ~resized /\ total' = total + t,
           ~resized' /\ ~bypassed'
             => ~bypassed /\ entsize' = entsize + e /\ SumSize' = SumSize + e
    PROVE  StatsInv'
<1>1. count' = Cardinality(Stored')
  BY InNumbers, Zenon
<1>2. ASSUME ~resized' PROVE total' >= Cardinality(Stored')
  <2>1. total >= Cardinality(Stored) /\ total' = total + t
    BY <1>2, StatsThen, Zenon
  <2> QED
    BY <2>1, InNumbers
<1>3. ~resized' /\ ~bypassed' => entsize' = SumSize'
  BY StatsThen, Zenon
<1> QED
  BY <1>1, <1>2, <1>3, Zenon DEF StatsInv, StatsExact

\* The same when map_insert and map_delete do the counting.
LEMMA StatsCounted ==
    ASSUME StatsInv, NEW d \in Int, NEW t \in Nat, NEW e \in Int, d <= t,
           size' \in [Keys -> Nat], IsFiniteSet(Memory(size')),
           Grew(t, e) \/ ThenShrunk(t, e), bypassed' = bypassed,
           count' = count + d, Cardinality(Stored') = Cardinality(Stored) + d,
           SumSize' = SumSize + e
    PROVE  StatsInv'
<1>1. /\ total' \in Nat /\ entsize' \in Int /\ resized' \in BOOLEAN
      /\ ~resized' => ~resized /\ total' = total + t /\ entsize' = entsize + e
  BY Adds, Zenon
<1>2. bypassed' \in BOOLEAN
  BY StatsThen, Zenon
<1> QED
  BY <1>1, <1>2, StatsBy, Zenon

\* storeop of a new key.
LEMMA InsertStep ==
    ASSUME StatsInv, NEW k \in Keys, NEW s \in Sizes, StoreInsert(k, s)
    PROVE  StatsInv'
<1>1. s \in Nat /\ s > 0 /\ s \in Int /\ 1 \in Nat /\ 1 \in Int /\ 1 <= 1
  BY StatsAssumption
<1>2. /\ k \notin Stored /\ count' = count + 1 /\ Grew(1, s) /\ bypassed' = bypassed
      /\ size' = [size EXCEPT ![k] = s]
  BY Zenon DEF StoreInsert, Store, Counted, SetSize
<1>3. /\ size' \in [Keys -> Nat] /\ IsFiniteSet(Memory(size'))
      /\ SumSize' = SumSize + (s - size[k])
      /\ Change(size[k], s, Cardinality(Stored), Cardinality(Stored'))
  BY <1>1, <1>2, SizesOne, Zenon
<1>4. size[k] = 0
  BY <1>2, InNumbers, Zenon
<1>5. Cardinality(Stored') = Cardinality(Stored) + 1
  BY <1>1, <1>3, <1>4, Zenon DEF Change
<1>6. SumSize' = SumSize + s
  BY <1>1, <1>3, <1>4, InNumbers
<1> QED
  BY <1>1, <1>2, <1>3, <1>5, <1>6, StatsCounted, Zenon

\* storeop of a key that has an entry.
LEMMA ReplaceStep ==
    ASSUME StatsInv, NEW k \in Keys, NEW s \in Sizes, StoreReplace(k, s)
    PROVE  StatsInv'
<1>1. s \in Nat /\ s > 0 /\ 0 \in Nat /\ 0 \in Int /\ 0 <= 0
  BY StatsAssumption
<1>2. /\ k \in Stored /\ count' = count + 0 /\ Grew(0, s - size[k]) /\ bypassed' = bypassed
      /\ size' = [size EXCEPT ![k] = s]
  BY Zenon DEF StoreReplace, Store, Counted, SetSize
<1>3. /\ size' \in [Keys -> Nat] /\ IsFiniteSet(Memory(size'))
      /\ SumSize' = SumSize + (s - size[k])
      /\ Change(size[k], s, Cardinality(Stored), Cardinality(Stored'))
  BY <1>1, <1>2, SizesOne, Zenon
<1>4. size[k] > 0
  BY <1>2, InNumbers, Zenon
<1>5. Cardinality(Stored') = Cardinality(Stored)
  BY <1>1, <1>3, <1>4, Zenon DEF Change
<1>6. Cardinality(Stored') = Cardinality(Stored) + 0 /\ s - size[k] \in Int
  BY <1>1, <1>5, InNumbers
<1> QED
  BY <1>1, <1>2, <1>3, <1>6, StatsCounted, Zenon

\* An entry that goes, by map_delete.
LEMMA GoneStep ==
    ASSUME StatsInv, NEW k \in Stored, DropSizes({k}), bypassed' = bypassed,
           count' = count + (-1),
           Grew(0, -size[k]) \/ ThenShrunk(0, -size[k])
    PROVE  StatsInv'
<1>0. k \in Keys
  BY Zenon DEF Stored
<1>1. 0 \in Nat /\ -1 \in Int /\ -1 <= 0 /\ -size[k] \in Int
  BY <1>0, InNumbers
<1>2. /\ size' \in [Keys -> Nat] /\ IsFiniteSet(Memory(size'))
      /\ SumSize' = SumSize + (0 - size[k])
      /\ Change(size[k], 0, Cardinality(Stored), Cardinality(Stored'))
  BY <1>0, <1>1, DropOne, SizesOne, Zenon
<1>3. size[k] > 0
  BY <1>0, InNumbers, Zenon
<1>4. Cardinality(Stored') = Cardinality(Stored) - 1
  BY <1>2, <1>3, Zenon DEF Change
<1>5. Cardinality(Stored') = Cardinality(Stored) + (-1) /\ SumSize' = SumSize + (-size[k])
  BY <1>0, <1>2, <1>4, InNumbers
<1> QED
  BY <1>1, <1>2, <1>5, StatsCounted, Zenon

\* storeop with an eviction.
LEMMA EvictStep ==
    ASSUME StatsInv, NEW k \in Keys, NEW s \in Sizes, NEW x \in Keys, StoreEvict(k, s, x)
    PROVE  StatsInv'
<1>1. s \in Nat /\ s > 0 /\ 1 \in Nat /\ 0 \in Int /\ 0 <= 1 /\ 0 \in Nat
  BY StatsAssumption
<1>2. /\ k \notin Stored /\ x \in Stored /\ count' = count + 0 /\ Grew(1, s - size[x])
      /\ bypassed' = bypassed /\ size' = [size EXCEPT ![k] = s, ![x] = 0]
  BY Zenon DEF StoreEvict, Store, Counted
<1>3. size[k] = 0 /\ size[x] > 0 /\ size[x] \in Nat /\ x # k
  BY <1>2, InNumbers, Zenon
<1>4. PICK h : h = [size EXCEPT ![k] = s]
  BY Zenon
<1>5. size \in [Keys -> Nat] /\ IsFiniteSet(Memory(size))
  BY Zenon DEF StatsInv
<1>6. h \in [Keys -> Nat] /\ h[x] = size[x] /\ size' = [h EXCEPT ![x] = 0]
  BY <1>1, <1>2, <1>3, <1>4, <1>5
<1>7. /\ IsFiniteSet(Memory(h))
      /\ Cardinality(Memory(h)) = Cardinality(Memory(size)) + (s - size[k])
      /\ Change(size[k], s, Cardinality(Having(size)), Cardinality(Having(h)))
  BY <1>1, <1>4, <1>5, MemoryOne, HavingOne, Zenon
<1>8. /\ IsFiniteSet(Memory(size'))
      /\ Cardinality(Memory(size')) = Cardinality(Memory(h)) + (0 - h[x])
      /\ Change(h[x], 0, Cardinality(Having(h)), Cardinality(Having(size')))
  <2>1. PICK g : g = size'
    BY Zenon
  <2>2. /\ h \in [Keys -> Nat] /\ g = [h EXCEPT ![x] = 0] /\ IsFiniteSet(Memory(h))
        /\ 0 \in Nat
    BY <1>1, <1>6, <1>7, <2>1, Zenon
  <2>3. /\ IsFiniteSet(Memory(g))
        /\ Cardinality(Memory(g)) = Cardinality(Memory(h)) + (0 - h[x])
    BY <2>2, MemoryOne, Zenon
  <2>4. Change(h[x], 0, Cardinality(Having(h)), Cardinality(Having(g)))
    BY <2>2, HavingOne, Zenon
  <2> QED
    BY <2>1, <2>3, <2>4, Zenon
<1>9. Stored = Having(size) /\ Stored' = Having(size')
  BY Zenon DEF Stored, Having
<1>10. /\ Cardinality(Having(h)) = Cardinality(Stored) + 1
       /\ Cardinality(Stored') = Cardinality(Having(h)) - 1
  BY <1>1, <1>3, <1>6, <1>7, <1>8, <1>9, Zenon DEF Change
<1>11. Cardinality(Stored') = Cardinality(Stored) + 0
  BY <1>10, InNumbers
<1>12. /\ Cardinality(Memory(h)) = SumSize + (s - size[k])
       /\ SumSize' = Cardinality(Memory(h)) + (0 - h[x])
  BY <1>7, <1>8, Zenon DEF SumSize
<1>13. SumSize' = SumSize + (s - size[x]) /\ s - size[x] \in Int
  BY <1>1, <1>3, <1>6, <1>12, InNumbers
<1>14. size' \in [Keys -> Nat]
  BY <1>1, <1>6, Zenon
<1> QED
  BY <1>1, <1>2, <1>8, <1>11, <1>13, <1>14, StatsCounted, Zenon

\* storeop with xx or cas and no live entry.
LEMMA MissingStep ==
    ASSUME StatsInv, NEW k \in Keys, StoreMissing(k)
    PROVE  StatsInv'
<1>1. CASE k \in Stored
  <2>1. /\ count' = count + (-1) /\ Grew(0, -size[k]) /\ DropSizes({k})
        /\ bypassed' = bypassed
    BY <1>1, Zenon DEF StoreMissing, Store
  <2> QED
    BY <1>1, <2>1, GoneStep, Zenon
<1>2. CASE k \notin Stored
  <2>1. /\ count' = count + 0 /\ Grew(1, 0) /\ DropSizes({k}) /\ bypassed' = bypassed
    BY <1>2, Zenon DEF StoreMissing, Store
  <2>2. 1 \in Nat /\ 0 \in Int /\ 0 \in Nat /\ 0 <= 1
    OBVIOUS
  <2>3. /\ size' \in [Keys -> Nat] /\ IsFiniteSet(Memory(size'))
        /\ SumSize' = SumSize + (0 - size[k])
        /\ Change(size[k], 0, Cardinality(Stored), Cardinality(Stored'))
    BY <2>1, <2>2, DropOne, SizesOne, Zenon
  <2>4. size[k] = 0
    BY <1>2, InNumbers, Zenon
  <2>5. Cardinality(Stored') = Cardinality(Stored)
    BY <2>3, <2>4, Zenon DEF Change
  <2>6. Cardinality(Stored') = Cardinality(Stored) + 0 /\ SumSize' = SumSize + 0
    BY <2>3, <2>4, <2>5, InNumbers
  <2> QED
    BY <2>1, <2>2, <2>3, <2>6, StatsCounted, Zenon
<1> QED
  BY <1>1, <1>2, Zenon

\* loadop of a dead entry, and a load with an update, go past the statistics.
LEMMA BypassStep ==
    ASSUME StatsInv, NEW k \in Stored,
           LoadDeadKey(k) \/ \E s \in Sizes : LoadUpdate(k, s)
    PROVE  StatsInv'
<1>0. k \in Keys
  BY Zenon DEF Stored
<1>1. bypassed' = TRUE /\ total' = total /\ entsize' = entsize /\ resized' = resized
  BY Zenon DEF LoadDeadKey, LoadUpdate
<1>2. /\ 0 \in Nat /\ 0 \in Int /\ 0 <= 0 /\ -1 \in Int /\ -1 <= 0 /\ total \in Nat
      /\ total = total + 0
  BY InNumbers
<1>3. entsize \in Int /\ size[k] > 0 /\ resized \in BOOLEAN
  BY <1>0, InNumbers, StatsThen, Zenon
<1>4. CASE LoadDeadKey(k)
  <2>1. DropSizes({k}) /\ count' = count - 1
    BY <1>4, Zenon DEF LoadDeadKey, LoadDead
  <2>2. /\ size' \in [Keys -> Nat] /\ IsFiniteSet(Memory(size'))
        /\ Change(size[k], 0, Cardinality(Stored), Cardinality(Stored'))
    BY <1>0, <1>2, <2>1, DropOne, SizesOne, Zenon
  <2>3. Cardinality(Stored') = Cardinality(Stored) - 1
    BY <1>3, <2>2, Zenon DEF Change
  <2>4. Cardinality(Stored') = Cardinality(Stored) + (-1) /\ count' = count + (-1)
    BY <2>1, <2>3, InNumbers
  <2> QED
    BY <1>1, <1>2, <1>3, <2>2, <2>4, StatsBy, Zenon
<1>5. ASSUME NEW s \in Sizes, LoadUpdate(k, s) PROVE StatsInv'
  <2>0. s \in Nat /\ s > 0
    BY StatsAssumption
  <2>1. size' = [size EXCEPT ![k] = s] /\ count' = count
    BY <1>5, Zenon DEF LoadUpdate, SetSize
  <2>2. /\ size' \in [Keys -> Nat] /\ IsFiniteSet(Memory(size'))
        /\ Change(size[k], s, Cardinality(Stored), Cardinality(Stored'))
    BY <1>0, <2>0, <2>1, SizesOne, Zenon
  <2>3. Cardinality(Stored') = Cardinality(Stored)
    BY <1>3, <2>0, <2>2, Zenon DEF Change
  <2>4. Cardinality(Stored') = Cardinality(Stored) + 0 /\ count' = count + 0
    BY <2>1, <2>3, InNumbers
  <2> QED
    BY <1>1, <1>2, <1>3, <2>2, <2>4, StatsBy, Zenon
<1> QED
  BY <1>4, <1>5, Zenon

\* A put-back and a cancelled delete insert an entry a second time.
LEMMA PutBackStep ==
    ASSUME StatsInv, NEW k \in Keys, StorePutBack(k) \/ DeleteCancel(k)
    PROVE  StatsInv'
<1>1. size' = size /\ bypassed' = bypassed /\ (count' = count + 0 \/ count' = count)
  BY Zenon DEF StorePutBack, DeleteCancel, Store
<1>2. /\ size' \in [Keys -> Nat] /\ IsFiniteSet(Memory(size'))
      /\ Stored' = Stored /\ SumSize' = SumSize
  BY <1>1, Zenon DEF StatsInv, Stored, SumSize
<1>3. /\ 0 \in Nat /\ 0 \in Int /\ 0 <= 0 /\ 1 \in Nat /\ 0 <= 1
      /\ count' = count + 0 /\ Cardinality(Stored') = Cardinality(Stored) + 0
      /\ SumSize' = SumSize + 0
  BY <1>1, <1>2, InNumbers
<1>4. CASE StorePutBack(k)
  <2>1. Grew(0, 0)
    BY <1>4, Zenon DEF StorePutBack
  <2> QED
    BY <1>1, <1>2, <1>3, <2>1, StatsCounted, Zenon
<1>5. CASE DeleteCancel(k)
  <2>1. total' = total + 1 /\ entsize' = entsize /\ resized' = resized
    BY <1>5, Zenon DEF DeleteCancel
  <2>2. total' \in Nat /\ entsize' \in Int /\ entsize' = entsize + 0
    BY <2>1, InNumbers
  <2>3. resized' \in BOOLEAN /\ bypassed' \in BOOLEAN
    BY <1>1, <2>1, StatsThen, Zenon
  <2> QED
    BY <1>1, <1>2, <1>3, <2>1, <2>2, <2>3, StatsBy, Zenon
<1> QED
  BY <1>4, <1>5, Zenon

\* What a scan may delete can be counted, and is part of what is there.
LEMMA ScanCount ==
    ASSUME StatsInv, NEW K \in SUBSET Stored
    PROVE  /\ Cardinality(K) \in 0..count
           /\ Cardinality(Stored \ K) = Cardinality(Stored) - Cardinality(K)
<1>1. IsFiniteSet(Stored)
  BY StatsAssumption, FS_Subset, Zenon DEF Stored
<1>2. IsFiniteSet(K) /\ Cardinality(K) <= Cardinality(Stored)
  BY <1>1, FS_Subset, Zenon
<1>3. Cardinality(K) \in Nat
  BY <1>2, FS_CardinalityType, Zenon
<1>4. Cardinality(Stored \ K) = Cardinality(Stored) - Cardinality(Stored \cap K)
  BY <1>1, FS_Difference, Zenon
<1>5. Stored \cap K = K
  BY Zenon
<1>6. Cardinality(Stored \ K) = Cardinality(Stored) - Cardinality(K)
  BY <1>4, <1>5, Zenon
<1>7. Cardinality(K) \in 0..count
  BY <1>2, <1>3, InNumbers
<1> QED
  BY <1>6, <1>7, Zenon

\* Memory is less without the entries of a scan.
LEMMA MemoryLess ==
    ASSUME StatsInv, NEW K \in SUBSET Keys, DropSizes(K)
    PROVE  size' \in [Keys -> Nat] /\ IsFiniteSet(Memory(size'))
<1>1. size \in [Keys -> Nat] /\ IsFiniteSet(Memory(size)) /\ 0 \in Nat
  BY Zenon DEF StatsInv
<1>2. size' = [k \in Keys |-> IF k \in K THEN 0 ELSE size[k]]
  BY Zenon DEF DropSizes
<1>3. size' \in [Keys -> Nat]
  BY <1>1, <1>2
<1>4. \A k \in Keys : 1..size'[k] \subseteq 1..size[k]
  BY <1>1, <1>2
<1>5. Memory(size') \subseteq Memory(size)
  <2>1. \A k \in Keys : \A p : p \in {k} \X (1..size'[k]) => p \in {k} \X (1..size[k])
    BY <1>4, Zenon
  <2>2. \A p : p \in Memory(size) <=> \E k \in Keys : p \in {k} \X (1..size[k])
    BY Zenon DEF Memory
  <2>3. \A p : p \in Memory(size') <=> \E k \in Keys : p \in {k} \X (1..size'[k])
    BY Zenon DEF Memory
  <2> QED
    BY <2>1, <2>2, <2>3, Zenon
<1> QED
  BY <1>1, <1>3, <1>5, FS_Subset, Zenon

\* sweepop and iterop.
LEMMA ScanStep ==
    ASSUME StatsInv, NEW K \in SUBSET Stored, ScanKeys(K)
    PROVE  StatsInv'
<1>1. /\ count' = count - Cardinality(K) /\ ThenShrunk(0, 0) /\ DropSizes(K)
      /\ bypassed' = (bypassed \/ K # {})
  BY Zenon DEF ScanKeys, Scan
<1>2. K \in SUBSET Keys
  BY Zenon DEF Stored
<1>3. size' \in [Keys -> Nat] /\ IsFiniteSet(Memory(size'))
  BY <1>1, <1>2, MemoryLess, Zenon
<1>4. size' = [k \in Keys |-> IF k \in K THEN 0 ELSE size[k]]
  BY <1>1, Zenon DEF DropSizes
<1>5. Stored' = Stored \ K
  BY <1>2, <1>4 DEF Stored
<1>6. PICK d \in Int : d = -Cardinality(K) /\ d <= 0
  <2>1. Cardinality(K) \in 0..count /\ count \in Nat
    BY ScanCount, InNumbers, Zenon
  <2>2. -Cardinality(K) \in Int /\ -Cardinality(K) <= 0
    BY <2>1
  <2> QED
    BY <2>2, Zenon
<1>7. count' = count + d /\ Cardinality(Stored') = Cardinality(Stored) + d
  BY <1>1, <1>5, <1>6, ScanCount, InNumbers
<1>8. 0 \in Nat /\ 0 \in Int
  OBVIOUS
<1>9. /\ total' \in Nat /\ entsize' \in Int /\ resized' \in BOOLEAN
      /\ ~resized' => ~resized /\ total' = total + 0 /\ entsize' = entsize + 0
  BY <1>1, <1>8, Adds, Zenon
<1>10. bypassed' \in BOOLEAN
  BY <1>1, Zenon
<1>11. ASSUME ~resized', ~bypassed'
       PROVE  ~bypassed /\ entsize' = entsize + 0 /\ SumSize' = SumSize + 0
  <2>1. K = {} /\ ~bypassed
    BY <1>1, <1>11, Zenon
  <2>2. size \in [Keys -> Nat]
    BY Zenon DEF StatsInv
  <2>3. size' = size
    BY <1>4, <2>1, <2>2, Zenon
  <2>4. SumSize' = SumSize
    BY <2>3, Zenon DEF SumSize
  <2>5. SumSize' = SumSize + 0
    BY <2>4, InNumbers
  <2> QED
    BY <1>9, <1>11, <2>1, <2>5, Zenon
<1> QED
  BY <1>3, <1>6, <1>7, <1>8, <1>9, <1>10, <1>11, StatsBy, Zenon

\* Every operation keeps the statistics.
LEMMA StatsStep == StatsInv /\ [NextStats]_statVars => StatsInv'
<1> SUFFICES ASSUME StatsInv, [NextStats]_statVars PROVE StatsInv'
  BY Zenon
<1>1. ASSUME NEW k \in Keys, DeleteKey(k) PROVE StatsInv'
  <2>1. /\ k \in Stored /\ count' = count - 1 /\ ThenShrunk(0, -size[k]) /\ DropSizes({k})
        /\ bypassed' = bypassed
    BY <1>1, Zenon DEF DeleteKey, Delete
  <2>2. count' = count + (-1)
    BY <2>1, InNumbers
  <2> QED
    BY <2>1, <2>2, GoneStep, Zenon
<1>2. ASSUME NEW k \in Keys, LoadDeadKey(k) \/ \E s \in Sizes : LoadUpdate(k, s)
      PROVE  StatsInv'
  <2>1. k \in Stored
    BY <1>2, Zenon DEF LoadDeadKey, LoadUpdate
  <2> QED
    BY <1>2, <2>1, BypassStep, Zenon
<1>3. ASSUME UNCHANGED statVars PROVE StatsInv'
  <2>1. /\ count' = count /\ size' = size /\ total' = total /\ entsize' = entsize
        /\ resized' = resized /\ bypassed' = bypassed
    BY <1>3 DEF statVars
  <2>2. Stored' = Stored /\ SumSize' = SumSize
    BY <2>1, Zenon DEF Stored, SumSize
  <2> QED
    BY <2>1, <2>2, Zenon DEF StatsInv, StatsExact
<1> QED
  BY <1>1, <1>2, <1>3, InsertStep, ReplaceStep, EvictStep, MissingStep, PutBackStep, ScanStep,
     Zenon DEF NextStats

\* A new map has no entries.
LEMMA StatsInit == InitStats => StatsInv
<1> SUFFICES ASSUME InitStats PROVE StatsInv
  BY Zenon
<1>1. /\ size = [k \in Keys |-> 0] /\ total = 0 /\ entsize = 0 /\ resized = FALSE
      /\ bypassed = FALSE
      /\ count = 0
  BY Zenon DEF InitStats, Init
<1>2. Memory(size) = {} /\ Stored = {}
  BY <1>1 DEF Memory, Stored
<1>3. Cardinality({}) = 0 /\ IsFiniteSet({})
  BY FS_EmptySet, Zenon
<1>4. size \in [Keys -> Nat] /\ 0 \in Nat /\ 0 \in Int /\ 0 >= 0
  BY <1>1
<1> QED
  BY <1>1, <1>2, <1>3, <1>4, Zenon DEF StatsInv, StatsExact, SumSize

(***************************************************************************)
(* Whatever operations a map went through, count is the number of keys;    *)
(* total misses none until a resize, and entsize is the memory of all      *)
(* entries until a resize, a dead load, an update or a scan.               *)
(***************************************************************************)
THEOREM StatsHold == SpecStats => []StatsExact
<1>1. StatsInv => StatsExact
  BY Zenon DEF StatsInv
<1> QED
  BY <1>1, StatsInit, StatsStep, PTL DEF SpecStats

(***************************************************************************)
(* The operations on keys change the sizes of the array as MapRoom says,   *)
(* so MapRoom's empty bucket is there for them.                            *)
(***************************************************************************)
THEOREM StatsRoom == SpecStats => Spec /\ []RoomLeft
<1>1. InitStats => Init
  BY Zenon DEF InitStats
<1>2. StatsInv /\ [NextStats]_statVars => [Next]_roomVars
  <2> SUFFICES ASSUME StatsInv, [NextStats]_statVars PROVE [Next]_roomVars
    BY Zenon
  <2>0. 0 \in -1..1 /\ 1 \in -1..1 /\ -1 \in -1..1
    OBVIOUS
  <2>1. ASSUME NEW k \in Keys, NEW s \in Sizes, NEW x \in Keys,
               StoreInsert(k, s) \/ StoreReplace(k, s) \/ StoreEvict(k, s, x)
        PROVE  Next
    BY <2>0, <2>1, Zenon DEF StoreInsert, StoreReplace, StoreEvict, Next
  <2>2. ASSUME NEW k \in Keys, StorePutBack(k) \/ StoreMissing(k) PROVE Next
    BY <2>0, <2>2, Zenon DEF StorePutBack, StoreMissing, Next
  <2>3. ASSUME NEW k \in Keys, DeleteKey(k) \/ LoadDeadKey(k) PROVE Next
    BY <2>3, Zenon DEF DeleteKey, LoadDeadKey, Next
  <2>4. ASSUME NEW k \in Keys, DeleteCancel(k) \/ \E s \in Sizes : LoadUpdate(k, s)
        PROVE  UNCHANGED roomVars
    BY <2>4, Zenon DEF DeleteCancel, LoadUpdate, roomVars
  <2>5. ASSUME NEW K \in SUBSET Stored, ScanKeys(K) PROVE Next
    <3>1. Cardinality(K) \in 0..count /\ Scan(Cardinality(K))
      BY <2>5, ScanCount, Zenon DEF ScanKeys
    <3> QED
      BY <3>1, Zenon DEF Next
  <2>6. CASE UNCHANGED statVars
    <3>1. nb' = nb /\ count' = count
      BY <2>6 DEF statVars
    <3> QED
      BY <3>1, Zenon DEF roomVars
  <2> QED
    BY <2>1, <2>2, <2>3, <2>4, <2>5, <2>6, Zenon DEF NextStats
<1> QED
  BY <1>1, <1>2, StatsInit, StatsStep, RoomHolds, PTL DEF SpecStats, Spec
=============================================================================
