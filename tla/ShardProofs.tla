---------------------------- MODULE ShardProofs ----------------------------
(***************************************************************************)
(* Theorems about Shard, for every set of keys, values and clients.        *)
(***************************************************************************)
EXTENDS Shard, FiniteSetTheorems, TLAPS

USE ShardAssumption

(***************************************************************************)
(* Type correctness.                                                       *)
(***************************************************************************)
\* The entry that a store creates is an entry (entry_new).
LEMMA NewEntryType ==
    ASSUME TypeOK, NEW c \in Clients, NEW k \in Keys, NEW v \in Vals,
           NEW o \in StoreOpts
    PROVE  NewEntry(c, k, v, o) \in Entry
<1>1. StoreExpires(c, k, o) \in Nat
  BY DEF TypeOK, Entry, StoreExpires, StoreOpt
<1>2. EntryCas \in Nat
  BY DEF TypeOK, EntryCas
<1> QED
  BY <1>1, <1>2, Zenon DEF TypeOK, Entry, NewEntry

\* A load may set the time of an entry (entry_settime).
LEMMA TouchedType ==
    ASSUME TypeOK, NEW c \in Clients, NEW k \in Keys, NEW b \in BOOLEAN
    PROVE  Touched(k, now[c], b) \in Entry
<1>1. map[k] \in Entry /\ now[c] \in Nat
  BY Zenon DEF TypeOK
<1> HIDE DEF TypeOK
<1> QED
  BY <1>1 DEF Touched, Entry

\* auto_evict_entry evicts a stored key or none.
LEMMA VictimsType ==
    ASSUME NEW m, NEW k, NEW t
    PROVE  Victims(m, k, t) \subseteq Keys \cup {NoKey}
  BY Zenon DEF Victims

\* Clearing counts finitely many entries (clearop, sweepop).
LEMMA StoredFinite ==
    ASSUME NEW S \in SUBSET Keys
    PROVE  Cardinality(S) \in Nat
  BY FS_Subset, FS_CardinalityType, Zenon

\* Every operation of the shard keeps the types.
LEMMA TypeStep == TypeOK /\ [Next]_vars => TypeOK'
<1> SUFFICES ASSUME TypeOK, [Next]_vars PROVE TypeOK'
  BY Zenon
<1> USE DEF TypeOK, Entry, NoEntry, Wrote, Reply, NoReply, StoreReply
<1>1. ASSUME NEW c \in Clients, Begin(c) PROVE TypeOK'
  BY <1>1 DEF Begin
<1>2. ASSUME NEW c \in Clients, NEW k \in Keys, Load(c, k) PROVE TypeOK'
  <2>1. CASE LoadMiss(c, k)
    BY <2>1 DEF LoadMiss, ClearedOne
  <2>2. ASSUME NEW b \in BOOLEAN, LoadHit(c, k, b) PROVE TypeOK'
    <3>1. Touched(k, now[c], b) \in Entry
      BY TouchedType, Zenon
    <3>2. map' \in [Keys -> Entry]
      BY <2>2, <3>1, Zenon DEF LoadHit
    <3>3. map[k].val \in Vals \cup {NoVal} /\ map[k].cas \in Nat
      BY Zenon
    <3>4. seen' \in [Clients -> [key: Keys \cup {NoKey}, val: Vals \cup {NoVal}, cas: Nat]]
      BY <2>2, <3>3, Zenon DEF LoadHit
    <3> QED
      BY <2>2, <3>2, <3>3, <3>4, Zenon DEF LoadHit
  <2>3. ASSUME NEW b \in BOOLEAN, LoadNoMem(c, k, b) PROVE TypeOK'
    <3>1. Touched(k, now[c], b) \in Entry
      BY TouchedType, Zenon
    <3>2. map' \in [Keys -> Entry]
      BY <2>3, <3>1, Zenon DEF LoadNoMem
    <3>3. cas' \in Nat
      BY <2>3 DEF LoadNoMem
    <3> QED
      BY <2>3, <3>2, <3>3, Zenon DEF LoadNoMem
  <2>4. ASSUME NEW v \in Vals, NEW e \in {0} \cup {now[c] + t : t \in Ttls},
               LoadUpdate(c, k, v, e)
        PROVE TypeOK'
    <3>1. e \in Nat
      OBVIOUS
    <3> QED
      BY <2>4, <3>1 DEF LoadUpdate, EntryCas
  <2> QED
    BY <1>2, <2>1, <2>2, <2>3, <2>4, Zenon DEF Load
<1>3. ASSUME NEW c \in Clients, NEW k \in Keys, Delete(c, k) PROVE TypeOK'
  <2>1. CASE DeleteMiss(c, k)
    BY <1>3, <2>1, SMTT(30) DEF DeleteMiss, ClearedOne
  <2>2. CASE DeleteHit(c, k)
    BY <2>2, SMTT(30) DEF DeleteHit
  <2>3. CASE DeleteCancel(c, k)
    BY <2>3, SMTT(30) DEF DeleteCancel
  <2> QED
    BY <1>3, <2>1, <2>2, <2>3, Zenon DEF Delete
<1>4. ASSUME NEW c \in Clients, NEW k \in Keys, Store(c, k) PROVE TypeOK'
  <2>1. CASE StoreNoMem(c, k)
    BY <2>1, SMTT(30) DEF StoreNoMem
  <2>2. ASSUME NEW o \in StoreOpts, StorePutBack(c, k, o) PROVE TypeOK'
    <3>1. cas' \in Nat
      BY <2>2 DEF StorePutBack
    <3>2. /\ map' = map /\ cleartime' = cleartime /\ clearcount' = clearcount
          /\ clock' = clock /\ now' = now /\ phase' = phase /\ seen' = seen
          /\ flushed' = flushed
      BY <2>2, Zenon DEF StorePutBack
    <3>3. PICK s \in {"FOUND", "CANCELED"} : ret' = Reply("store", k, s, NoVal)
      BY <2>2, Zenon DEF StorePutBack
    <3> QED
      BY <3>1, <3>2, <3>3
  <2>3. ASSUME NEW o \in StoreOpts, StoreMissing(c, k, o) PROVE TypeOK'
    BY <2>3 DEF StoreMissing, ClearedOne
  <2>4. ASSUME NEW o \in StoreOpts, NEW v \in Vals,
               StoreReplace(c, k, v, o) \/ StoreInsert(c, k, v, o)
                 \/ StoreEvict(c, k, v, o)
        PROVE TypeOK'
    <3> DEFINE e == NewEntry(c, k, v, o)
    <3>1. e \in Entry
      BY NewEntryType, Zenon
    <3> HIDE DEF e
    <3>2. CASE StoreReplace(c, k, v, o)
      BY <3>1, <3>2 DEF StoreReplace, e
    <3>3. CASE StoreInsert(c, k, v, o)
      BY <3>1, <3>3, SMTT(30) DEF StoreInsert, ClearedOne, e
    <3>4. CASE StoreEvict(c, k, v, o)
      <4> DEFINE m == [map EXCEPT ![k] = e]
      <4>1. m \in [Keys -> Entry]
        BY <3>1, Zenon
      <4> HIDE DEF m
      <4>2. PICK x \in Keys \cup {NoKey} :
              /\ map' = IF x = NoKey THEN m ELSE [m EXCEPT ![x] = NoEntry]
              /\ clearcount' = clearcount -
                    (IF x = NoKey THEN 0 ELSE ClearedOne(m[x]))
        BY <3>4, VictimsType, Zenon DEF StoreEvict, e, m
      <4>3. map' \in [Keys -> Entry]
        BY <4>1, <4>2, Zenon
      <4>4. clearcount' \in Int
        BY <4>2 DEF ClearedOne
      <4> QED
        BY <3>4, <4>3, <4>4 DEF StoreEvict
    <3> QED
      BY <2>4, <3>2, <3>3, <3>4, Zenon
  <2> QED
    BY <1>4, <2>1, <2>2, <2>3, <2>4, Zenon DEF Store
<1>5. ASSUME NEW c \in Clients, Clear(c) PROVE TypeOK'
  <2>1. Cardinality(Stored) \in Nat
    BY StoredFinite, Zenon DEF Stored
  <2> QED
    BY <1>5, <2>1 DEF Clear
<1>6. ASSUME NEW c \in Clients, Sweep(c) PROVE TypeOK'
  <2>1. Cardinality({k \in Stored : Cleared(map[k])}) \in Nat
    BY StoredFinite, Zenon DEF Stored
  <2> QED
    BY <1>6, <2>1 DEF Sweep
<1>7. ASSUME NEW c \in Clients, Iter(c) PROVE TypeOK'
  BY <1>7 DEF Iter
<1>8. CASE UNCHANGED vars
  BY <1>8 DEF vars
<1> QED
  BY <1>1, <1>2, <1>3, <1>4, <1>5, <1>6, <1>7, <1>8, Zenon DEF Next

\* Every reachable state is well typed.
THEOREM TypeCorrect == Spec => []TypeOK
<1>1. Init => TypeOK
  BY DEF Init, TypeOK, Entry, NoEntry, Wrote, Reply, NoReply
<1> QED
  BY <1>1, TypeStep, PTL DEF Spec
-----------------------------------------------------------------------------
(***************************************************************************)
(* Compare-and-store.                                                      *)
(***************************************************************************)
\* What an operation may do to the entries without disturbing CasInv: every
\* entry that is stored afterwards was stored before with the same CAS value
\* and value, or is the one entry with the new CAS value.
CasStep(k) ==
    /\ cas' \in {cas, cas + 1}
    /\ \A j \in Keys :
          \/ map'[j].val = NoVal
          \/ map'[j].val = map[j].val /\ map'[j].cas = map[j].cas
          \/ j = k /\ cas' = cas + 1 /\ map'[j].cas = cas + 1

\* A step of that shape that leaves what the clients have seen keeps CasInv.
LEMMA CasStepKeeps ==
    ASSUME TypeOK, TypeOK', CasInv, UseCas, NEW k \in Keys, CasStep(k),
           UNCHANGED seen
    PROVE  CasInv'
<1> USE DEF TypeOK, Entry, CasInv, CasStep, Stored
<1>1. \A j \in Stored' : \/ j \in Stored /\ map'[j].val = map[j].val
                              /\ map'[j].cas = map[j].cas
                         \/ j = k /\ cas' = cas + 1 /\ map'[j].cas = cas + 1
  BY Zenon
<1>2. \A j \in Stored' : map'[j].cas \in 1..cas'
  BY <1>1
<1>3. \A i, j \in Stored' : map'[i].cas = map'[j].cas => i = j
  BY <1>1
<1>4. \A c \in Clients : seen'[c].cas <= cas'
  OBVIOUS
<1>5. CasTokenSound'
  BY <1>1, SMTT(30) DEF CasTokenSound
<1> QED
  BY <1>2, <1>3, <1>4, <1>5, Zenon

\* The operations other than a plain load have that shape.
LEMMA CasSteps ==
    ASSUME TypeOK, UseCas, NEW c \in Clients, NEW k \in Keys
    PROVE  /\ LoadMiss(c, k) => CasStep(k)
           /\ \A b \in BOOLEAN : LoadNoMem(c, k, b) => CasStep(k)
           /\ \A v \in Vals : \A e : LoadUpdate(c, k, v, e) => CasStep(k)
           /\ Delete(c, k) => CasStep(k)
           /\ Store(c, k) => CasStep(k)
           /\ Begin(c) \/ Clear(c) \/ Sweep(c) \/ Iter(c) => CasStep(k)
<1> USE DEF TypeOK, Entry, NoEntry, CasStep
<1>1. LoadMiss(c, k) => CasStep(k)
  BY DEF LoadMiss
<1>2. ASSUME NEW b \in BOOLEAN, LoadNoMem(c, k, b) PROVE CasStep(k)
  BY <1>2, SMTT(30) DEF LoadNoMem, Touched
<1>3. ASSUME NEW v \in Vals, NEW e, LoadUpdate(c, k, v, e) PROVE CasStep(k)
  BY <1>3, SMTT(30) DEF LoadUpdate, EntryCas
<1>4. Delete(c, k) => CasStep(k)
  BY SMTT(30) DEF Delete, DeleteMiss, DeleteHit, DeleteCancel
<1>5. ASSUME Store(c, k) PROVE CasStep(k)
  <2>1. CASE StoreNoMem(c, k)
    BY <2>1, Zenon DEF StoreNoMem
  <2>2. ASSUME NEW o \in StoreOpts, StorePutBack(c, k, o) PROVE CasStep(k)
    BY <2>2, Zenon DEF StorePutBack
  <2>3. ASSUME NEW o \in StoreOpts, StoreMissing(c, k, o) PROVE CasStep(k)
    BY <2>3, SMTT(30) DEF StoreMissing
  <2>4. ASSUME NEW o \in StoreOpts, NEW v \in Vals,
               StoreReplace(c, k, v, o) \/ StoreInsert(c, k, v, o)
                 \/ StoreEvict(c, k, v, o)
        PROVE CasStep(k)
    <3> DEFINE e == NewEntry(c, k, v, o)
    <3>1. e \in Entry /\ e.cas = cas + 1
      BY NewEntryType, Zenon DEF NewEntry, EntryCas
    <3> HIDE DEF e
    <3>2. CASE StoreReplace(c, k, v, o) \/ StoreInsert(c, k, v, o)
      BY <3>1, <3>2, SMTT(30) DEF StoreReplace, StoreInsert, e
    <3>3. CASE StoreEvict(c, k, v, o)
      <4> DEFINE m == [map EXCEPT ![k] = e]
      <4>1. PICK x \in Keys \cup {NoKey} :
              map' = IF x = NoKey THEN m ELSE [m EXCEPT ![x] = NoEntry]
        BY <3>3, VictimsType, Zenon DEF StoreEvict, e
      <4> QED
        BY <3>1, <3>3, <4>1, SMTT(30) DEF StoreEvict
    <3> QED
      BY <2>4, <3>2, <3>3, Zenon
  <2> QED
    BY <1>5, <2>1, <2>2, <2>3, <2>4, Zenon DEF Store
<1>6. Begin(c) \/ Clear(c) \/ Sweep(c) \/ Iter(c) => CasStep(k)
  BY DEF Begin, Clear, Sweep, Iter
<1> QED
  BY <1>1, <1>2, <1>3, <1>4, <1>5, <1>6, Zenon

\* Only a plain load changes what a client has seen.
LEMMA SeenKept ==
    ASSUME NEW c \in Clients, NEW k \in Keys
    PROVE  /\ LoadMiss(c, k) => UNCHANGED seen
           /\ \A b \in BOOLEAN : LoadNoMem(c, k, b) => UNCHANGED seen
           /\ \A v \in Vals : \A e : LoadUpdate(c, k, v, e) => UNCHANGED seen
           /\ Delete(c, k) => UNCHANGED seen
           /\ Store(c, k) => UNCHANGED seen
           /\ Begin(c) \/ Clear(c) \/ Sweep(c) \/ Iter(c) => UNCHANGED seen
  BY ZenonT(30) DEF LoadMiss, LoadNoMem, LoadUpdate, Delete, DeleteMiss, DeleteHit,
         DeleteCancel, Store, StoreNoMem, StorePutBack, StoreMissing,
         StoreReplace, StoreInsert, StoreEvict, Begin, Clear, Sweep, Iter

\* Every operation keeps the CAS invariant.
LEMMA CasInvStep == TypeOK /\ CasInv /\ [Next]_vars => CasInv'
<1> SUFFICES ASSUME TypeOK, CasInv, [Next]_vars, UseCas PROVE CasInv'
  BY Zenon DEF CasInv
<1>1. TypeOK'
  BY TypeStep, Zenon
<1>2. ASSUME NEW c \in Clients, NEW k \in Keys, NEW b \in BOOLEAN,
             LoadHit(c, k, b)
      PROVE CasInv'
  <2> USE DEF TypeOK, Entry
  <2>1. \A j \in Keys : map'[j].val = map[j].val /\ map'[j].cas = map[j].cas
    BY <1>2 DEF LoadHit, Touched
  <2>2. Stored' = Stored /\ cas' = cas /\ k \in Stored
    BY <1>2, <2>1, SMTT(30) DEF LoadHit, Alive, Stored
  <2>3. \A d \in Clients : \/ seen'[d] = seen[d]
                           \/ seen'[d] = [key |-> k, val |-> map[k].val,
                                          cas |-> map[k].cas]
    BY <1>2, SMTT(30) DEF LoadHit
  <2>4. \A d \in Clients : seen'[d].cas <= cas'
    BY <2>2, <2>3, SMTT(30) DEF CasInv
  <2>5. CasTokenSound'
    BY <2>1, <2>2, <2>3, SMTT(30) DEF CasInv, CasTokenSound, Stored
  <2> QED
    BY <2>1, <2>2, <2>4, <2>5 DEF CasInv, Stored
<1>3. ASSUME NEW c \in Clients, NEW k \in Keys,
             Load(c, k) \/ Delete(c, k) \/ Store(c, k)
      PROVE CasInv'
  <2>1. CASE \E b \in BOOLEAN : LoadHit(c, k, b)
    BY <1>2, <2>1, Zenon
  <2>2. CASE ~ \E b \in BOOLEAN : LoadHit(c, k, b)
    <3>1. CasStep(k) /\ UNCHANGED seen
      <4>1. CASE Load(c, k)
        BY <2>2, <4>1, CasSteps, SeenKept, Zenon DEF Load
      <4>2. CASE Delete(c, k) \/ Store(c, k)
        BY <4>2, CasSteps, SeenKept, Zenon
      <4> QED
        BY <1>3, <4>1, <4>2, Zenon
    <3> QED
      BY <1>1, <3>1, CasStepKeeps, Zenon
  <2> QED
    BY <2>1, <2>2, Zenon
<1>4. ASSUME NEW c \in Clients, Begin(c) \/ Clear(c) \/ Sweep(c) \/ Iter(c)
      PROVE CasInv'
  <2>1. CASE Keys = {}
    <3>1. Stored' = {} /\ Stored = {}
      BY <2>1, Zenon DEF Stored
    <3>2. cas' = cas /\ seen' = seen
      BY <1>4, Zenon DEF Begin, Clear, Sweep, Iter
    <3> QED
      BY <3>1, <3>2, Zenon DEF CasInv, CasTokenSound
  <2>2. ASSUME NEW k \in Keys PROVE CasInv'
    BY <1>1, <1>4, <2>2, CasSteps, SeenKept, CasStepKeeps, Zenon
  <2> QED
    BY <2>1, <2>2, Zenon
<1>5. CASE UNCHANGED vars
  BY <1>5 DEF vars, CasInv, CasTokenSound, Stored
<1> QED
  BY <1>3, <1>4, <1>5, Zenon DEF Next

\* A compare-and-store never succeeds on a value other than the one its client
\* loaded: in every reachable state an equal CAS value means an equal value.
THEOREM CasSound == Spec => []CasTokenSound
<1>1. Init => CasInv
  BY DEF Init, CasInv, CasTokenSound, Stored, NoEntry
<1>2. TypeOK /\ CasInv => CasTokenSound
  BY Zenon DEF CasInv, CasTokenSound
<1> QED
  BY <1>1, <1>2, CasInvStep, TypeCorrect, PTL DEF Spec

\* No operation changes a value without giving the entry a CAS value that the
\* shard has never used.
THEOREM CasFresh == Spec => FreshCas
<1>1. TypeOK /\ [Next]_vars
        => [\A k \in Keys :
              map'[k].val \notin {NoVal, map[k].val} /\ UseCas
                => map'[k].cas > cas /\ map'[k].cas = cas']_vars
  <2> SUFFICES ASSUME TypeOK, Next, UseCas, NEW j \in Keys,
                      map'[j].val \notin {NoVal, map[j].val}
               PROVE  map'[j].cas > cas /\ map'[j].cas = cas'
    BY Zenon
  <2>1. ASSUME NEW k \in Keys, CasStep(k)
        PROVE  map'[j].cas > cas /\ map'[j].cas = cas'
    BY <2>1 DEF CasStep, TypeOK
  <2>2. ASSUME NEW c \in Clients, NEW k \in Keys, NEW b \in BOOLEAN,
               LoadHit(c, k, b)
        PROVE  FALSE
    BY <2>2, SMTT(30) DEF LoadHit, Touched, TypeOK, Entry
  <2>3. PICK c \in Clients :
          \/ Begin(c) \/ Clear(c) \/ Sweep(c) \/ Iter(c)
          \/ \E k \in Keys : Load(c, k) \/ Delete(c, k) \/ Store(c, k)
    BY Zenon DEF Next
  <2>4. CASE Begin(c) \/ Clear(c) \/ Sweep(c) \/ Iter(c)
    BY <2>1, <2>4, CasSteps, Zenon
  <2>5. CASE \E k \in Keys : Load(c, k) \/ Delete(c, k) \/ Store(c, k)
    <3>1. PICK k \in Keys : Load(c, k) \/ Delete(c, k) \/ Store(c, k)
      BY <2>5, Zenon
    <3>2. CasStep(k)
      BY <2>2, <3>1, CasSteps, Zenon DEF Load
    <3> QED
      BY <2>1, <3>2, Zenon
  <2> QED
    BY <2>3, <2>4, <2>5, Zenon
<1> QED
  BY <1>1, TypeCorrect, PTL DEF Spec, FreshCas
-----------------------------------------------------------------------------
(***************************************************************************)
(* The shard as a cache.  What an operation does to the entries comes in a *)
(* few shapes; each is a step of CacheSpec as long as the operation is not *)
(* behind a clear.                                                         *)
(***************************************************************************)
\* The command of c is not older than the last clear.
InTime(c) == cleartime <= now[c]

\* Entries outside of K stay.
Others(K) == \A j \in Keys \ K : map'[j] = map[j]

\* Nothing happens to the entries.
Leaves ==
    map' = map /\ cleartime' = cleartime /\ clearcount' = clearcount

\* The live entry of k stays and may get the timestamp of the command.
Touches(c, k) ==
    /\ Alive(k, now[c])
    /\ map'[k].val = map[k].val /\ map'[k].expires = map[k].expires
    /\ map'[k].time \in {map[k].time, now[c]}
    /\ Others({k}) /\ cleartime' = cleartime /\ clearcount' = clearcount

\* The entry of k, if there is one, goes.
Drops(k) ==
    /\ map'[k] = NoEntry /\ Others({k})
    /\ cleartime' = cleartime /\ clearcount' = clearcount - ClearedOne(map[k])

\* k gets a new entry.
Puts(c, k, v) ==
    /\ v \in Vals /\ map'[k].val = v /\ map'[k].time = now[c] /\ Others({k})
    /\ cleartime' = cleartime /\ clearcount' = clearcount - ClearedOne(map[k])

\* k gets an entry, its first, and the entry of x is evicted.
Evicts(c, k, v, x) ==
    /\ v \in Vals /\ map'[k].val = v /\ map'[k].time = now[c]
    /\ k \notin Stored /\ x \in Keys \ {k} /\ map'[x] = NoEntry /\ Others({k, x})
    /\ cleartime' = cleartime /\ clearcount' = clearcount - ClearedOne(map[x])

\* A live entry is not counted as cleared.
LEMMA AliveCounts ==
    ASSUME NEW k, NEW t, Alive(k, t)
    PROVE  ClearedOne(map[k]) = 0
  BY Zenon DEF Alive, entry_alive, ClearedOne

\* What the types say of the timestamps.
LEMMA Times ==
    ASSUME TypeOK
    PROVE  /\ cleartime \in Nat /\ clearcount \in Int /\ clock \in Nat
           /\ \A c \in Clients : now[c] \in Nat
           /\ \A k \in Keys : map[k] \in Entry
           /\ map \in [Keys -> Entry]
  BY Zenon DEF TypeOK

\* loadop has one of the shapes.
LEMMA LoadShape ==
    ASSUME TypeOK, NEW c \in Clients, NEW k \in Keys
    PROVE  /\ LoadMiss(c, k) => Drops(k)
           /\ \A b \in BOOLEAN : LoadHit(c, k, b) => Touches(c, k)
           /\ \A b \in BOOLEAN : LoadNoMem(c, k, b) => Touches(c, k)
           /\ \A v \in Vals : \A e : LoadUpdate(c, k, v, e) => Puts(c, k, v)
<1>1. LoadMiss(c, k) => Drops(k)
  BY Times, Zenon DEF LoadMiss, Drops, Others
<1>2. ASSUME NEW b \in BOOLEAN
      PROVE  /\ Touched(k, now[c], b).val = map[k].val
             /\ Touched(k, now[c], b).expires = map[k].expires
             /\ Touched(k, now[c], b).time \in {map[k].time, now[c]}
  BY Times, Zenon DEF Touched, Entry
<1>3. ASSUME NEW b \in BOOLEAN, LoadHit(c, k, b) \/ LoadNoMem(c, k, b)
      PROVE  Touches(c, k)
  <2>1. /\ map' = [map EXCEPT ![k] = Touched(k, now[c], b)] /\ Alive(k, now[c])
        /\ cleartime' = cleartime /\ clearcount' = clearcount
    BY <1>3, Zenon DEF LoadHit, LoadNoMem
  <2>2. map'[k] = Touched(k, now[c], b) /\ Others({k})
    BY <2>1, Times, Zenon DEF Others
  <2> QED
    BY <1>2, <2>1, <2>2, Zenon DEF Touches
<1>4. ASSUME NEW v \in Vals, NEW e, LoadUpdate(c, k, v, e)
      PROVE  Puts(c, k, v)
  <2>1. /\ Alive(k, now[c]) /\ cleartime' = cleartime /\ clearcount' = clearcount
        /\ map'[k].val = v /\ map'[k].time = now[c] /\ Others({k})
    BY <1>4, Times, Zenon DEF LoadUpdate, Others
  <2>2. ClearedOne(map[k]) = 0
    BY <2>1, AliveCounts, Zenon
  <2>3. clearcount' = clearcount - ClearedOne(map[k])
    BY <2>1, <2>2, Times
  <2> QED
    BY <2>1, <2>3, Zenon DEF Puts
<1> QED
  BY <1>1, <1>3, <1>4, Zenon

\* deleteop has one of the shapes.
LEMMA DeleteShape ==
    ASSUME TypeOK, NEW c \in Clients, NEW k \in Keys
    PROVE  /\ DeleteMiss(c, k) \/ DeleteHit(c, k) => Drops(k)
           /\ DeleteCancel(c, k) => Leaves
<1>1. DeleteMiss(c, k) => Drops(k)
  BY Times, Zenon DEF DeleteMiss, Drops, Others
<1>2. ASSUME DeleteHit(c, k) PROVE Drops(k)
  <2>1. /\ Alive(k, now[c]) /\ cleartime' = cleartime /\ clearcount' = clearcount
        /\ map'[k] = NoEntry /\ Others({k})
    BY <1>2, Times, Zenon DEF DeleteHit, Others
  <2>2. ClearedOne(map[k]) = 0
    BY <2>1, AliveCounts, Zenon
  <2>3. clearcount' = clearcount - ClearedOne(map[k])
    BY <2>1, <2>2, Times
  <2> QED
    BY <2>1, <2>3, Zenon DEF Drops
<1>3. DeleteCancel(c, k) => Leaves
  BY Zenon DEF DeleteCancel, Leaves
<1> QED
  BY <1>1, <1>2, <1>3, Zenon

\* auto_evict_entry takes the entry that was just stored only if it is dead.
LEMMA VictimNotNew ==
    ASSUME TypeOK, NEW c \in Clients, NEW k \in Keys, NEW m \in [Keys -> Entry],
           NEW x \in Victims(m, k, now[c]), entry_alive(m[k], now[c])
    PROVE  x # k
<1>1. NoKey # k
  BY Zenon
<1> QED
  BY <1>1, Zenon DEF Victims

\* A command in time stores an entry that no clear hides, and that is dead only if
\* it has an expiration.
LEMMA NewEntryAlive ==
    ASSUME TypeOK, NEW c \in Clients, NEW k \in Keys, NEW v \in Vals,
           NEW o \in StoreOpts, InTime(c)
    PROVE  /\ ~Cleared(NewEntry(c, k, v, o))
           /\ entry_alive(NewEntry(c, k, v, o), now[c]) \/ NewEntry(c, k, v, o).expires > 0
<1>1. NewEntry(c, k, v, o).time = now[c]
  BY Zenon DEF NewEntry
<1>2. ~(now[c] < cleartime)
  BY Times DEF InTime
<1> QED
  BY <1>1, <1>2, Zenon DEF entry_alive, Cleared, Expired

\* storeop has one of the shapes.
LEMMA StoreShape ==
    ASSUME TypeOK, NEW c \in Clients, NEW k \in Keys, NEW o \in StoreOpts
    PROVE  /\ StoreNoMem(c, k) \/ StorePutBack(c, k, o) => Leaves
           /\ StoreMissing(c, k, o) => Drops(k)
           /\ \A v \in Vals :
                StoreReplace(c, k, v, o) \/ StoreInsert(c, k, v, o)
                  => Puts(c, k, v) /\ map'[k] = NewEntry(c, k, v, o)
           /\ \A v \in Vals : InTime(c) /\ StoreEvict(c, k, v, o)
                 => \/ Puts(c, k, v) /\ map'[k] = NewEntry(c, k, v, o)
                    \/ \E x \in Keys : Evicts(c, k, v, x) /\ map'[k] = NewEntry(c, k, v, o)
                    \/ Drops(k) /\ NewEntry(c, k, v, o).expires > 0
<1>1. StoreNoMem(c, k) \/ StorePutBack(c, k, o) => Leaves
  BY Zenon DEF StoreNoMem, StorePutBack, Leaves
<1>2. StoreMissing(c, k, o) => Drops(k)
  BY Times, Zenon DEF StoreMissing, Drops, Others
<1>3. ASSUME NEW v \in Vals
      PROVE  NewEntry(c, k, v, o).val = v /\ NewEntry(c, k, v, o).time = now[c]
  BY Zenon DEF NewEntry
<1>4. ASSUME NEW v \in Vals, StoreReplace(c, k, v, o)
      PROVE  Puts(c, k, v) /\ map'[k] = NewEntry(c, k, v, o)
  <2>1. /\ Alive(k, now[c]) /\ cleartime' = cleartime /\ clearcount' = clearcount
        /\ map'[k] = NewEntry(c, k, v, o) /\ Others({k})
    BY <1>4, Times, Zenon DEF StoreReplace, Others
  <2>2. ClearedOne(map[k]) = 0
    BY <2>1, AliveCounts, Zenon
  <2>3. clearcount' = clearcount - ClearedOne(map[k])
    BY <2>1, <2>2, Times
  <2> QED
    BY <1>3, <2>1, <2>3, Zenon DEF Puts
<1>5. ASSUME NEW v \in Vals, StoreInsert(c, k, v, o)
      PROVE  Puts(c, k, v) /\ map'[k] = NewEntry(c, k, v, o)
  <2>1. /\ cleartime' = cleartime /\ clearcount' = clearcount - ClearedOne(map[k])
        /\ map'[k] = NewEntry(c, k, v, o) /\ Others({k})
    BY <1>5, Times, Zenon DEF StoreInsert, Others
  <2> QED
    BY <1>3, <2>1, Zenon DEF Puts
<1>6. ASSUME NEW v \in Vals, InTime(c), StoreEvict(c, k, v, o)
      PROVE  \/ Puts(c, k, v) /\ map'[k] = NewEntry(c, k, v, o)
             \/ \E x \in Keys : Evicts(c, k, v, x) /\ map'[k] = NewEntry(c, k, v, o)
             \/ Drops(k) /\ NewEntry(c, k, v, o).expires > 0
  <2> DEFINE e == NewEntry(c, k, v, o)
             m == [map EXCEPT ![k] = e]
  <2>1. PICK x \in Victims(m, k, now[c]) :
          /\ map' = IF x = NoKey THEN m ELSE [m EXCEPT ![x] = NoEntry]
          /\ clearcount' = clearcount - (IF x = NoKey THEN 0 ELSE ClearedOne(m[x]))
    BY <1>6, Zenon DEF StoreEvict
  <2>2. k \notin Stored /\ cleartime' = cleartime
    BY <1>6, Zenon DEF StoreEvict, MustEvict
  <2>3. /\ e \in Entry /\ e.val = v /\ e.time = now[c]
        /\ ~Cleared(e) /\ (entry_alive(e, now[c]) \/ e.expires > 0)
    BY <1>3, <1>6, NewEntryType, NewEntryAlive, Zenon
  <2>0. SUFFICES \/ Puts(c, k, v) /\ map'[k] = e
                 \/ \E y \in Keys : Evicts(c, k, v, y) /\ map'[k] = e
                 \/ Drops(k) /\ e.expires > 0
    BY Zenon
  <2> HIDE DEF e
  <2>4. m \in [Keys -> Entry] /\ m[k] = e /\ \A j \in Keys \ {k} : m[j] = map[j]
    BY <2>3, Times, Zenon
  <2> HIDE DEF m
  <2>5. x \in Keys \cup {NoKey} /\ (x = k => e.expires > 0)
    BY <2>1, <2>3, <2>4, VictimsType, VictimNotNew, Zenon
  <2>8. ClearedOne(map[k]) = 0 /\ ClearedOne(e) = 0
    BY <2>2, <2>3, Zenon DEF Stored, ClearedOne
  <2>6. CASE x = NoKey
    <3>1. map' = m /\ clearcount' = clearcount - 0
      BY <2>1, <2>6, Zenon
    <3> QED
      BY <2>2, <2>3, <2>4, <2>8, <3>1, Zenon DEF Puts, Others
  <2>9. CASE x = k
    <3>1. x # NoKey /\ e.expires > 0
      BY <2>5, <2>9, Zenon
    <3>2. map' = [m EXCEPT ![k] = NoEntry] /\ clearcount' = clearcount - ClearedOne(map[k])
      BY <2>1, <2>4, <2>8, <2>9, <3>1, Zenon
    <3>3. map'[k] = NoEntry /\ Others({k})
      BY <2>4, <3>2, Zenon DEF Others
    <3> QED
      BY <2>2, <3>1, <3>2, <3>3, Zenon DEF Drops
  <2>7. CASE x # NoKey /\ x # k
    <3>1. x \in Keys \ {k}
      BY <2>5, <2>7, Zenon
    <3>2. map' = [m EXCEPT ![x] = NoEntry] /\ clearcount' = clearcount - ClearedOne(map[x])
      BY <2>1, <2>4, <2>7, <3>1, Zenon
    <3>3. map'[x] = NoEntry /\ map'[k] = e /\ Others({k, x})
      BY <2>4, <3>1, <3>2, Zenon DEF Others
    <3> QED
      BY <2>2, <2>3, <3>1, <3>2, <3>3, Zenon DEF Evicts
  <2> QED
    BY <2>6, <2>7, <2>9, Zenon
<1> QED
  BY <1>1, <1>2, <1>4, <1>5, <1>6, Zenon

-----------------------------------------------------------------------------
\* What a user of the cache sees of one key.
LEMMA Shown ==
    /\ Dict = [k \in Keys |-> Dict[k]] /\ Mortal = [k \in Keys |-> Mortal[k]]
    /\ Dict' = [k \in Keys |-> Dict'[k]] /\ Mortal' = [k \in Keys |-> Mortal'[k]]
    /\ \A k \in Keys :
          /\ Dict[k] = IF Visible(k) THEN map[k].val ELSE NoVal
          /\ Dict'[k] = IF Visible(k)' THEN map'[k].val ELSE NoVal
          /\ Mortal[k] = (Visible(k) /\ map[k].expires > 0)
          /\ Mortal'[k] = (Visible(k)' /\ map'[k].expires > 0)
          /\ Mortal[k] \in BOOLEAN /\ Mortal'[k] \in BOOLEAN
  BY Zenon DEF Dict, Mortal, Visible

\* An entry that stays is seen as before.
LEMMA StaysShown ==
    ASSUME NEW j \in Keys, map'[j] = map[j], cleartime' = cleartime
    PROVE  Dict'[j] = Dict[j] /\ Mortal'[j] = Mortal[j]
<1>1. Visible(j)' <=> Visible(j)
  BY Zenon DEF Visible, Stored, Cleared
<1> QED
  BY <1>1, Shown, Zenon

\* The entries are seen as before.
LEMMA AllStay ==
    ASSUME \A j \in Keys : Dict'[j] = Dict[j] /\ Mortal'[j] = Mortal[j]
    PROVE  Dict' = Dict /\ Mortal' = Mortal
<1>1. [j \in Keys |-> Dict'[j]] = [j \in Keys |-> Dict[j]]
  BY Zenon
<1>2. [j \in Keys |-> Mortal'[j]] = [j \in Keys |-> Mortal[j]]
  BY Zenon
<1> QED
  BY <1>1, <1>2, Shown, Zenon

\* The value of a key that is written in time is seen.
LEMMA NewShown ==
    ASSUME TypeOK, NEW c \in Clients, InTime(c), NEW k \in Keys, NEW v \in Vals,
           map'[k].val = v, map'[k].time = now[c], cleartime' = cleartime
    PROVE  Dict'[k] = v
<1>1. ~(now[c] < cleartime) /\ v # NoVal
  BY Times DEF InTime
<1>2. Visible(k)'
  BY <1>1, Zenon DEF Visible, Stored, Cleared
<1> QED
  BY <1>2, Shown, Zenon

\* It may expire if it was given an expiration.
LEMMA NewMortal ==
    ASSUME TypeOK, NEW c \in Clients, InTime(c), NEW k \in Keys, NEW v \in Vals,
           map'[k].val = v, map'[k].time = now[c], cleartime' = cleartime
    PROVE  Mortal'[k] \in BOOLEAN /\ Mortal'[k] = (map'[k].expires > 0)
<1>1. ~(now[c] < cleartime) /\ v # NoVal
  BY Times DEF InTime
<1>2. Visible(k)'
  BY <1>1, Zenon DEF Visible, Stored, Cleared
<1>3. Mortal'[k] = (Visible(k)' /\ map'[k].expires > 0)
  BY Shown, Zenon
<1> QED
  BY <1>2, <1>3

\* A key without an entry is not seen.
LEMMA GoneShown ==
    ASSUME NEW k \in Keys, map'[k] = NoEntry
    PROVE  Dict'[k] = NoVal /\ Mortal'[k] = FALSE
<1>1. NoEntry.val = NoVal
  BY Zenon DEF NoEntry
<1>2. ~Visible(k)'
  BY <1>1, Zenon DEF Visible, Stored
<1> QED
  BY <1>2, Shown, Zenon

\* A live entry is seen; one that is seen and dead has expired.
LEMMA AliveShown ==
    ASSUME NEW k \in Keys, NEW t
    PROVE  /\ Alive(k, t) => Dict[k] = map[k].val /\ Dict[k] # NoVal
           /\ ~Alive(k, t) => Dict[k] = NoVal \/ Mortal[k]
           /\ k \notin Stored => Dict[k] = NoVal
           /\ Dict[k] # NoVal /\ ~Alive(k, t) => Mortal[k]
           /\ Mortal[k] => Dict[k] # NoVal
<1>1. Alive(k, t) => Visible(k)
  BY Zenon DEF Alive, entry_alive, Visible
<1>2. Visible(k) => map[k].val # NoVal
  BY Zenon DEF Visible, Stored
<1>3. Visible(k) /\ ~Alive(k, t) => map[k].expires > 0
  BY Zenon DEF Alive, entry_alive, Expired, Visible
<1>4. Visible(k) => k \in Stored
  BY Zenon DEF Visible
<1> QED
  BY <1>1, <1>2, <1>3, <1>4, Shown, Zenon

\* An operation that leaves the map alone leaves what it shows.
LEMMA LeavesShown ==
    ASSUME Leaves
    PROVE  Dict' = Dict /\ Mortal' = Mortal
  BY StaysShown, AllStay, Zenon DEF Leaves

\* loadop's touch and cas number leave what the map shows of a live entry.
LEMMA TouchShown ==
    ASSUME TypeOK, NEW c \in Clients, InTime(c), NEW k \in Keys, Touches(c, k)
    PROVE  Dict' = Dict /\ Mortal' = Mortal
<1>1. ~(now[c] < cleartime)
  BY Times DEF InTime
<1>2. Visible(k)
  BY Zenon DEF Touches, Alive, entry_alive, Visible
<1>3. Visible(k)'
  <2>1. map'[k].val # NoVal
    BY <1>2, Zenon DEF Visible, Stored, Touches
  <2>2. map'[k].time = map[k].time \/ map'[k].time = now[c]
    BY Zenon DEF Touches
  <2>3. ~(map'[k].time < cleartime)
    BY <1>1, <1>2, <2>2, Zenon DEF Visible, Cleared
  <2> QED
    BY <2>1, <2>3, Zenon DEF Visible, Stored, Cleared, Touches
<1>4. Dict'[k] = Dict[k] /\ Mortal'[k] = Mortal[k]
  BY <1>2, <1>3, Shown, Zenon DEF Touches
<1>5. \A j \in Keys \ {k} : Dict'[j] = Dict[j] /\ Mortal'[j] = Mortal[j]
  BY StaysShown, Zenon DEF Touches, Others
<1> QED
  BY <1>4, <1>5, AllStay, Zenon

\* A map_delete makes the cache lose that key.
LEMMA DropShown ==
    ASSUME NEW k \in Keys, Drops(k)
    PROVE  Cache!Lose({k})
<1>1. Dict'[k] = NoVal /\ Mortal'[k] = FALSE
  BY GoneShown, Zenon DEF Drops
<1>2. \A j \in Keys \ {k} : Dict'[j] = Dict[j] /\ Mortal'[j] = Mortal[j]
  BY StaysShown, Zenon DEF Drops, Others
<1>3. \A j \in Keys : Dict'[j] = IF j \in {k} THEN NoVal ELSE Dict[j]
  BY <1>1, <1>2, Zenon
<1>4. \A j \in Keys : Mortal'[j] = IF j \in {k} THEN FALSE ELSE Mortal[j]
  BY <1>1, <1>2, Zenon
<1> QED
  BY <1>3, <1>4, Shown, Zenon DEF Cache!Lose

\* A value put over one that is seen replaces it.
LEMMA PutReplaces ==
    ASSUME TypeOK, NEW c \in Clients, InTime(c), NEW k \in Keys, NEW v \in Vals,
           Puts(c, k, v), Dict[k] # NoVal,
           \/ ret' = Wrote("store", k, "REPLACED", v, map'[k].expires > 0)
           \/ ret' = Wrote("update", k, "FOUND", v, map'[k].expires > 0)
    PROVE  Cache!Replace(k, v)
<1>0. Mortal'[k] \in BOOLEAN /\ Mortal'[k] = (map'[k].expires > 0)
  BY NewMortal, Zenon DEF Puts
<1>1. /\ Dict'[k] = v
      /\ \A j \in Keys \ {k} : Dict'[j] = Dict[j] /\ Mortal'[j] = Mortal[j]
  <2>1. Dict'[k] = v
    BY NewShown, Zenon DEF Puts
  <2>2. \A j \in Keys \ {k} : Dict'[j] = Dict[j] /\ Mortal'[j] = Mortal[j]
    BY StaysShown, Zenon DEF Puts, Others
  <2> QED
    BY <2>1, <2>2, Zenon
<1>2. [j \in Keys |-> Dict'[j]] = [Dict EXCEPT ![k] = v]
  BY <1>1, Shown, Zenon
<1>3. [j \in Keys |-> Mortal'[j]] = [Mortal EXCEPT ![k] = Mortal'[k]]
  BY <1>1, Shown, Zenon
<1>4. Dict' = [Dict EXCEPT ![k] = v] /\ Mortal' = [Mortal EXCEPT ![k] = Mortal'[k]]
  BY <1>2, <1>3, Shown, Zenon
<1>5. \/ ret' = Wrote("store", k, "REPLACED", v, Mortal'[k])
      \/ ret' = Wrote("update", k, "FOUND", v, Mortal'[k])
  BY <1>0, Zenon
<1> QED
  BY <1>0, <1>4, <1>5, Zenon DEF Cache!Replace, Cache!Has, Cache!Reply, Cache!Wrote, Reply, Wrote

\* A value put where no live one was is inserted.
LEMMA PutInserts ==
    ASSUME TypeOK, NEW c \in Clients, InTime(c), NEW k \in Keys, NEW v \in Vals,
           Puts(c, k, v), ~Alive(k, now[c]),
           ret' = Wrote("store", k, "INSERTED", v, map'[k].expires > 0)
    PROVE  Cache!Insert(k, v, k)
<1>0. Mortal'[k] \in BOOLEAN /\ Mortal'[k] = (map'[k].expires > 0)
  BY NewMortal, Zenon DEF Puts
<1>1. /\ Dict'[k] = v
      /\ \A j \in Keys \ {k} : Dict'[j] = Dict[j] /\ Mortal'[j] = Mortal[j]
  <2>1. Dict'[k] = v
    BY NewShown, Zenon DEF Puts
  <2>2. \A j \in Keys \ {k} : Dict'[j] = Dict[j] /\ Mortal'[j] = Mortal[j]
    BY StaysShown, Zenon DEF Puts, Others
  <2> QED
    BY <2>1, <2>2, Zenon
<1>2. \A j \in Keys : Dict'[j] = IF j = k THEN v ELSE IF j = k THEN NoVal ELSE Dict[j]
  BY <1>1, Zenon
<1>3. \A j \in Keys : Mortal'[j] =
         IF j = k THEN Mortal'[k] ELSE IF j = k THEN FALSE ELSE Mortal[j]
  BY <1>1, Zenon
<1>4. Dict[k] = NoVal \/ Mortal[k]
  BY AliveShown, Zenon
<1>5. Dict' = [j \in Keys |-> IF j = k THEN v ELSE IF j = k THEN NoVal ELSE Dict[j]]
  BY <1>2, Shown, Zenon
<1>6. Mortal' = [j \in Keys |->
         IF j = k THEN Mortal'[k] ELSE IF j = k THEN FALSE ELSE Mortal[j]]
  BY <1>3, Shown, Zenon
<1>7. ret' = Wrote("store", k, "INSERTED", v, Mortal'[k])
  BY <1>0, Zenon
<1> QED
  BY <1>0, <1>1, <1>4, <1>5, <1>6, <1>7, Zenon
     DEF Cache!Insert, Cache!MayMiss, Cache!Has, Cache!Reply, Cache!Wrote, Reply, Wrote

\* A value put where none was may evict one other.
LEMMA EvictInserts ==
    ASSUME TypeOK, NEW c \in Clients, InTime(c), NEW k \in Keys, NEW v \in Vals,
           NEW x \in Keys, Evicts(c, k, v, x),
           ret' = Wrote("store", k, "INSERTED", v, map'[k].expires > 0)
    PROVE  Cache!Insert(k, v, x)
<1>1. /\ x # k /\ Dict'[k] = v /\ Dict'[x] = NoVal /\ Mortal'[x] = FALSE
      /\ \A j \in Keys \ {k, x} : Dict'[j] = Dict[j] /\ Mortal'[j] = Mortal[j]
  <2>1. Dict'[k] = v
    BY NewShown, Zenon DEF Evicts
  <2>2. x # k /\ Dict'[x] = NoVal /\ Mortal'[x] = FALSE
    BY GoneShown, Zenon DEF Evicts
  <2>3. \A j \in Keys \ {k, x} : Dict'[j] = Dict[j] /\ Mortal'[j] = Mortal[j]
    BY StaysShown, Zenon DEF Evicts, Others
  <2> QED
    BY <2>1, <2>2, <2>3, Zenon
<1>2. \A j \in Keys : Dict'[j] = IF j = k THEN v ELSE IF j = x THEN NoVal ELSE Dict[j]
  BY <1>1, Zenon
<1>3. \A j \in Keys : Mortal'[j] =
         IF j = k THEN Mortal'[k] ELSE IF j = x THEN FALSE ELSE Mortal[j]
  BY <1>1, Zenon
<1>4. Dict[k] = NoVal
  BY AliveShown, Zenon DEF Evicts
<1>5. Dict' = [j \in Keys |-> IF j = k THEN v ELSE IF j = x THEN NoVal ELSE Dict[j]]
  BY <1>2, Shown, Zenon
<1>6. Mortal' = [j \in Keys |->
         IF j = k THEN Mortal'[k] ELSE IF j = x THEN FALSE ELSE Mortal[j]]
  BY <1>3, Shown, Zenon
<1>7. Mortal'[k] \in BOOLEAN /\ Mortal'[k] = (map'[k].expires > 0)
  BY NewMortal, Zenon DEF Evicts
<1>8. ret' = Wrote("store", k, "INSERTED", v, Mortal'[k])
  BY <1>7, Zenon
<1> QED
  BY <1>1, <1>4, <1>5, <1>6, <1>7, <1>8, Zenon
     DEF Cache!Insert, Cache!MayMiss, Cache!Has, Cache!Reply, Cache!Wrote, Reply, Wrote

\* A value that is evicted by its own store vanishes.
LEMMA DropVanishes ==
    ASSUME NEW k \in Keys, NEW v \in Vals, Drops(k), k \notin Stored,
           ret' = Wrote("store", k, "INSERTED", v, TRUE)
    PROVE  Cache!Vanish(k, v)
<1>1. Dict'[k] = NoVal /\ Mortal'[k] = FALSE
  BY GoneShown, Zenon DEF Drops
<1>2. Dict[k] = NoVal /\ ~Mortal[k]
  BY AliveShown, Zenon
<1>3. Mortal[k] = FALSE
  BY <1>2, Shown, Zenon
<1>4. \A j \in Keys \ {k} : Dict'[j] = Dict[j] /\ Mortal'[j] = Mortal[j]
  BY StaysShown, Zenon DEF Drops, Others
<1>5. Dict' = Dict /\ Mortal' = Mortal
  BY <1>1, <1>2, <1>3, <1>4, AllStay, Zenon
<1> QED
  BY <1>2, <1>5, Zenon DEF Cache!Vanish, Cache!Has, Cache!Wrote, Wrote

-----------------------------------------------------------------------------
\* A load in time is a step of the cache.
LEMMA LoadCache ==
    ASSUME TypeOK, NEW c \in Clients, InTime(c), NEW k \in Keys, Load(c, k)
    PROVE  Cache!Next
<1>1. CASE LoadMiss(c, k)
  <2>1. Cache!Lose({k})
    BY <1>1, LoadShape, DropShown, Zenon
  <2>2. Dict[k] = NoVal \/ Mortal[k]
    BY <1>1, AliveShown, Zenon DEF LoadMiss
  <2>3. ret' = Reply("load", k, "NOTFOUND", NoVal)
    BY <1>1, Zenon DEF LoadMiss
  <2>4. Cache!Miss(k)
    BY <2>1, <2>2, <2>3, Zenon DEF Cache!Miss, Cache!MayMiss, Cache!Has, Cache!Reply, Cache!Wrote, Reply, Wrote
  <2> QED
    BY <2>4, Zenon DEF Cache!Next
<1>2. ASSUME NEW b \in BOOLEAN, LoadHit(c, k, b) PROVE Cache!Next
  <2>1. Dict' = Dict /\ Mortal' = Mortal
    BY <1>2, LoadShape, TouchShown, Zenon
  <2>2. Dict[k] = map[k].val /\ Dict[k] # NoVal
    BY <1>2, AliveShown, Zenon DEF LoadHit
  <2>3. ret' = Reply("load", k, "FOUND", Dict[k])
    BY <1>2, <2>2, Zenon DEF LoadHit
  <2>4. Cache!Get(k)
    BY <2>1, <2>2, <2>3, Zenon DEF Cache!Get, Cache!Has, Cache!Reply, Cache!Wrote, Reply, Wrote
  <2> QED
    BY <2>4, Zenon DEF Cache!Next
<1>3. ASSUME NEW b \in BOOLEAN, LoadNoMem(c, k, b) PROVE Cache!Next
  <2>1. Dict' = Dict /\ Mortal' = Mortal
    BY <1>3, LoadShape, TouchShown, Zenon
  <2>2. Dict[k] # NoVal
    BY <1>3, AliveShown, Zenon DEF LoadNoMem
  <2>3. ret' = Reply("update", k, "NOMEM", NoVal)
    BY <1>3, Zenon DEF LoadNoMem
  <2>4. Cache!Keep(k)
    BY <2>1, <2>2, <2>3, Zenon DEF Cache!Keep, Cache!Has, Cache!Reply, Cache!Wrote, Reply, Wrote
  <2> QED
    BY <2>4, Zenon DEF Cache!Next
<1>4. ASSUME NEW v \in Vals, NEW e, LoadUpdate(c, k, v, e) PROVE Cache!Next
  <2>1. Puts(c, k, v)
    BY <1>4, LoadShape, Zenon
  <2>2. Dict[k] # NoVal
    BY <1>4, AliveShown, Zenon DEF LoadUpdate
  <2>3. ret' = Wrote("update", k, "FOUND", v, e > 0) /\ map'[k].expires = e
    BY <1>4, Times, Zenon DEF LoadUpdate
  <2>4. Cache!Replace(k, v)
    BY <2>1, <2>2, <2>3, PutReplaces, Zenon
  <2> QED
    BY <2>4, Zenon DEF Cache!Next
<1> QED
  BY <1>1, <1>2, <1>3, <1>4, Zenon DEF Load

\* A delete is a step of the cache.
LEMMA DeleteCache ==
    ASSUME TypeOK, NEW c \in Clients, NEW k \in Keys, Delete(c, k)
    PROVE  Cache!Next
<1>1. CASE DeleteMiss(c, k)
  <2>1. Cache!Lose({k})
    BY <1>1, DeleteShape, DropShown, Zenon
  <2>2. Dict[k] = NoVal \/ Mortal[k]
    BY <1>1, AliveShown, Zenon DEF DeleteMiss
  <2>3. ret' = Reply("delete", k, "NOTFOUND", NoVal)
    BY <1>1, Zenon DEF DeleteMiss
  <2>4. Cache!Miss(k)
    BY <2>1, <2>2, <2>3, Zenon DEF Cache!Miss, Cache!MayMiss, Cache!Has, Cache!Reply, Cache!Wrote, Reply, Wrote
  <2> QED
    BY <2>4, Zenon DEF Cache!Next
<1>2. CASE DeleteHit(c, k)
  <2>1. Cache!Lose({k})
    BY <1>2, DeleteShape, DropShown, Zenon
  <2>2. Dict[k] # NoVal
    BY <1>2, AliveShown, Zenon DEF DeleteHit
  <2>3. ret' = Reply("delete", k, "DELETED", NoVal)
    BY <1>2, Zenon DEF DeleteHit
  <2>4. Cache!Remove(k)
    BY <2>1, <2>2, <2>3, Zenon DEF Cache!Remove, Cache!Has, Cache!Reply, Cache!Wrote, Reply, Wrote
  <2> QED
    BY <2>4, Zenon DEF Cache!Next
<1>3. CASE DeleteCancel(c, k)
  <2>1. Dict' = Dict /\ Mortal' = Mortal
    BY <1>3, DeleteShape, LeavesShown, Zenon
  <2>2. Dict[k] # NoVal
    BY <1>3, AliveShown, Zenon DEF DeleteCancel
  <2>3. ret' = Reply("delete", k, "CANCELED", NoVal)
    BY <1>3, Zenon DEF DeleteCancel
  <2>4. Cache!Keep(k)
    BY <2>1, <2>2, <2>3, Zenon DEF Cache!Keep, Cache!Has, Cache!Reply, Cache!Wrote, Reply, Wrote
  <2> QED
    BY <2>4, Zenon DEF Cache!Next
<1> QED
  BY <1>1, <1>2, <1>3, Zenon DEF Delete

\* A store in time is a step of the cache.
LEMMA StoreCache ==
    ASSUME TypeOK, NEW c \in Clients, InTime(c), NEW k \in Keys, Store(c, k)
    PROVE  Cache!Next
<1>1. CASE StoreNoMem(c, k)
  <2>1. Leaves /\ ret' = Reply("store", k, "NOMEM", NoVal)
    BY <1>1, Zenon DEF StoreNoMem, Leaves
  <2>2. Cache!NoMem(k)
    BY <2>1, LeavesShown, Zenon DEF Cache!NoMem, Cache!Reply, Cache!Wrote, Reply, Wrote
  <2> QED
    BY <2>2, Zenon DEF Cache!Next
<1>2. ASSUME NEW o \in StoreOpts, StorePutBack(c, k, o) PROVE Cache!Next
  <2>1. Dict' = Dict /\ Mortal' = Mortal
    BY <1>2, StoreShape, LeavesShown, Zenon
  <2>2. Alive(k, now[c]) /\ ret' \in {Reply("store", k, "FOUND", NoVal),
                                    Reply("store", k, "CANCELED", NoVal)}
    BY <1>2, Zenon DEF StorePutBack, Refused
  <2>3. Dict[k] # NoVal
    BY <2>2, AliveShown, Zenon
  <2>4. Cache!Keep(k)
    BY <2>1, <2>2, <2>3, Zenon DEF Cache!Keep, Cache!Has, Cache!Reply, Cache!Wrote, Reply, Wrote
  <2> QED
    BY <2>4, Zenon DEF Cache!Next
<1>3. ASSUME NEW o \in StoreOpts, StoreMissing(c, k, o) PROVE Cache!Next
  <2>1. Cache!Lose({k})
    BY <1>3, StoreShape, DropShown, Zenon
  <2>2. Dict[k] = NoVal \/ Mortal[k]
    BY <1>3, AliveShown, Zenon DEF StoreMissing, Missing
  <2>3. ret' = Reply("store", k, "NOTFOUND", NoVal)
    BY <1>3, Zenon DEF StoreMissing
  <2>4. Cache!Miss(k)
    BY <2>1, <2>2, <2>3, Zenon DEF Cache!Miss, Cache!MayMiss, Cache!Has, Cache!Reply, Cache!Wrote, Reply, Wrote
  <2> QED
    BY <2>4, Zenon DEF Cache!Next
<1>4. ASSUME NEW o \in StoreOpts, NEW v \in Vals, StoreReplace(c, k, v, o) PROVE Cache!Next
  <2>1. Puts(c, k, v) /\ map'[k] = NewEntry(c, k, v, o)
    BY <1>4, StoreShape, Zenon
  <2>2. Dict[k] # NoVal
    BY <1>4, AliveShown, Zenon DEF StoreReplace
  <2>3. ret' = Wrote("store", k, "REPLACED", v, NewEntry(c, k, v, o).expires > 0)
    BY <1>4, Zenon DEF StoreReplace, StoreReply
  <2>4. Cache!Replace(k, v)
    BY <2>1, <2>2, <2>3, PutReplaces, Zenon
  <2> QED
    BY <2>4, Zenon DEF Cache!Next
<1>5. ASSUME NEW o \in StoreOpts, NEW v \in Vals,
             StoreInsert(c, k, v, o) \/ StoreEvict(c, k, v, o)
      PROVE  Cache!Next
  <2> DEFINE e == NewEntry(c, k, v, o)
  <2>1. \/ Puts(c, k, v) /\ map'[k] = e
        \/ \E x \in Keys : Evicts(c, k, v, x) /\ map'[k] = e
        \/ StoreEvict(c, k, v, o) /\ Drops(k) /\ e.expires > 0
    BY <1>5, StoreShape, Zenon
  <2>2. ~Alive(k, now[c]) /\ ret' = Wrote("store", k, "INSERTED", v, e.expires > 0)
    BY <1>5, Zenon DEF StoreInsert, StoreEvict, MustEvict, Alive, StoreReply
  <2>3. StoreEvict(c, k, v, o) => k \notin Stored
    BY Zenon DEF StoreEvict, MustEvict
  <2> HIDE DEF e
  <2>4. Cache!Vanish(k, v) \/ \E x \in Keys : Cache!Insert(k, v, x)
    <3>1. CASE Puts(c, k, v) /\ map'[k] = e
      BY <2>2, <3>1, PutInserts, Zenon
    <3>2. ASSUME NEW x \in Keys, Evicts(c, k, v, x), map'[k] = e PROVE Cache!Insert(k, v, x)
      BY <2>2, <3>2, EvictInserts, Zenon
    <3>3. CASE StoreEvict(c, k, v, o) /\ Drops(k) /\ e.expires > 0
      <4>1. (e.expires > 0) = TRUE
        BY <3>3
      <4> QED
        BY <2>2, <2>3, <3>3, <4>1, DropVanishes, Zenon
    <3> QED
      BY <2>1, <3>1, <3>2, <3>3, Zenon
  <2> QED
    BY <2>4, Zenon DEF Cache!Next
<1> QED
  BY <1>1, <1>2, <1>3, <1>4, <1>5, Zenon DEF Store

\* Starting a command changes nothing.
LEMMA BeginCache ==
    ASSUME NEW c \in Clients, Begin(c)
    PROVE  Cache!Next
<1>1. Leaves /\ ret' = NoReply
  BY Zenon DEF Begin, Leaves
<1>2. Cache!Begin
  BY <1>1, LeavesShown, Zenon DEF Cache!Begin, Cache!Reply, Cache!Wrote, NoReply, Reply, Wrote
<1> QED
  BY <1>2, Zenon DEF Cache!Next

\* A clear that is newer than every entry clears the cache.
LEMMA ClearCache ==
    ASSUME NEW c \in Clients, Clear(c), \A k \in Stored : map[k].time < now[c]
    PROVE  Cache!Next
<1>1. map' = map /\ cleartime' = now[c] /\ ret' = Reply("clear", NoKey, "FINISHED", NoVal)
  BY Zenon DEF Clear
<1>2. \A k \in Keys : ~Visible(k)'
  BY <1>1, Zenon DEF Visible, Stored, Cleared
<1>3. \A k \in Keys : /\ Dict'[k] = IF k \in Keys THEN NoVal ELSE Dict[k]
                      /\ Mortal'[k] = IF k \in Keys THEN FALSE ELSE Mortal[k]
  BY <1>2, Shown, Zenon
<1>4. Cache!Lose(Keys)
  BY <1>3, Shown, Zenon DEF Cache!Lose
<1>5. Cache!Clear
  BY <1>1, <1>4, Zenon DEF Cache!Clear, Cache!Reply, Cache!Wrote, Reply, Wrote
<1> QED
  BY <1>5, Zenon DEF Cache!Next

\* A sweep removes what a clear has hidden already, and expired entries.
LEMMA SweepCache ==
    ASSUME TypeOK, NEW c \in Clients, Sweep(c)
    PROVE  Cache!Next
<1> DEFINE K == {k \in Keys : Mortal[k] /\ Dead(k, now[c])}
<1>1. /\ \A k \in Keys : map'[k] = IF Dead(k, now[c]) THEN NoEntry ELSE map[k]
      /\ cleartime' = cleartime /\ ret' = Reply("sweep", NoKey, "FINISHED", NoVal)
  BY Zenon DEF Sweep
<1>2. ASSUME NEW k \in Keys, Dead(k, now[c])
      PROVE  /\ Dict'[k] = IF k \in K THEN NoVal ELSE Dict[k]
             /\ Mortal'[k] = IF k \in K THEN FALSE ELSE Mortal[k]
  <2>1. Dict'[k] = NoVal /\ Mortal'[k] = FALSE
    BY <1>1, <1>2, GoneShown, Zenon
  <2>2. ~Alive(k, now[c])
    BY <1>2, Zenon DEF Dead, Alive
  <2>3. ~Mortal[k] => Dict[k] = NoVal /\ Mortal[k] = FALSE
    BY <2>2, AliveShown, Shown, Zenon
  <2> QED
    BY <1>2, <2>1, <2>3, Zenon
<1>3. ASSUME NEW k \in Keys, ~Dead(k, now[c])
      PROVE  /\ Dict'[k] = IF k \in K THEN NoVal ELSE Dict[k]
             /\ Mortal'[k] = IF k \in K THEN FALSE ELSE Mortal[k]
  <2>1. map'[k] = map[k]
    BY <1>1, <1>3, Zenon
  <2> QED
    BY <1>1, <1>3, <2>1, StaysShown, Zenon
<1>4. Cache!Lose(K)
  BY <1>2, <1>3, Shown, Zenon DEF Cache!Lose
<1>5. K \in SUBSET {k \in Keys : Mortal[k]}
  BY Zenon
<1>6. Cache!Sweep
  BY <1>1, <1>4, <1>5, Zenon DEF Cache!Sweep, Cache!Reply, Cache!Wrote, Reply, Wrote
<1> QED
  BY <1>6, Zenon DEF Cache!Next

\* An iteration removes entries that are seen.
LEMMA IterCache ==
    ASSUME TypeOK, NEW c \in Clients, Iter(c)
    PROVE  Cache!Next
<1>1. PICK D \in SUBSET {k \in Keys : Alive(k, now[c])} :
        map' = [k \in Keys |-> IF k \in D THEN NoEntry ELSE map[k]]
  BY Zenon DEF Iter
<1>2. PICK status \in {"FINISHED", "CANCELED"} : ret' = Reply("iter", NoKey, status, NoVal)
  BY Zenon DEF Iter
<1>3. cleartime' = cleartime
  BY Zenon DEF Iter
<1>4. ASSUME NEW k \in D
      PROVE  Dict'[k] = NoVal /\ Mortal'[k] = FALSE
  BY <1>1, GoneShown, Zenon
<1>5. ASSUME NEW k \in Keys \ D
      PROVE  Dict'[k] = Dict[k] /\ Mortal'[k] = Mortal[k]
  BY <1>1, <1>3, StaysShown, Zenon
<1>6. \A k \in Keys : /\ Dict'[k] = IF k \in D THEN NoVal ELSE Dict[k]
                      /\ Mortal'[k] = IF k \in D THEN FALSE ELSE Mortal[k]
  BY <1>4, <1>5, Zenon
<1>7. Cache!Lose(D)
  BY <1>6, Shown, Zenon DEF Cache!Lose
<1>8. D \in SUBSET {k \in Keys : Dict[k] # NoVal}
  BY AliveShown, Zenon
<1>9. Cache!Iter
  BY <1>2, <1>7, <1>8, Zenon DEF Cache!Iter, Cache!Has, Cache!Reply, Cache!Wrote, Reply, Wrote
<1> QED
  BY <1>9, Zenon DEF Cache!Next

\* What a command does on keys leaves the clock, the timestamps and the clears.
LEMMA KeyFrame ==
    ASSUME NEW c \in Clients, NEW k \in Keys, Load(c, k) \/ Delete(c, k) \/ Store(c, k)
    PROVE  /\ phase[c] = "key"
           /\ clock' = clock /\ now' = now /\ phase' = phase
           /\ cleartime' = cleartime /\ flushed' = flushed
<1>1. CASE Load(c, k)
  BY <1>1, Zenon DEF Load, LoadMiss, LoadHit, LoadNoMem, LoadUpdate
<1>2. CASE Delete(c, k)
  BY <1>2, Zenon DEF Delete, DeleteMiss, DeleteHit, DeleteCancel
<1>3. CASE Store(c, k)
  BY <1>3, ZenonT(30) DEF Store, StoreNoMem, StorePutBack, StoreMissing, StoreReplace,
                          StoreInsert, StoreEvict, StoreGuard
<1> QED
  BY <1>1, <1>2, <1>3, Zenon

\* Every operation that is in time is a step of the cache.
LEMMA CacheStep ==
    ASSUME TypeOK, Next,
           \A c \in Clients : phase[c] = "key" => InTime(c),
           \A c \in Clients : Clear(c) => \A k \in Stored : map[k].time < now[c]
    PROVE  Cache!Next
<1>1. PICK c \in Clients :
        \/ Begin(c) \/ Clear(c) \/ Sweep(c) \/ Iter(c)
        \/ \E k \in Keys : Load(c, k) \/ Delete(c, k) \/ Store(c, k)
  BY Zenon DEF Next
<1>2. ASSUME NEW k \in Keys, Load(c, k) \/ Delete(c, k) \/ Store(c, k) PROVE Cache!Next
  <2>1. InTime(c)
    BY <1>2, KeyFrame, Zenon
  <2> QED
    BY <1>2, <2>1, LoadCache, DeleteCache, StoreCache, Zenon
<1> QED
  BY <1>1, <1>2, BeginCache, ClearCache, SweepCache, IterCache, Zenon

-----------------------------------------------------------------------------
\* Before the first clear no time is behind cleartime, and a running command has
\* a timestamp after the start of the clock.
FirstInv ==
    /\ flushed = 0 => cleartime = 0
    /\ \A c \in Clients : phase[c] # "idle" => now[c] > 0

\* No step before the first clearop moves cleartime, and each begin reads a time
\* later than the start of the clock.
LEMMA FirstStep ==
    ASSUME TypeOK, FirstInv, [Next]_vars
    PROVE  FirstInv' /\ (flushed' = 0 => \A c \in Clients : ~Clear(c))
<1> USE DEF FirstInv
<1>0. /\ flushed \in Nat /\ cleartime \in Nat /\ clock \in Nat
      /\ now \in [Clients -> Nat] /\ phase \in [Clients -> {"idle", "key"} \cup Scans]
  BY Zenon DEF TypeOK
<1>1. ASSUME NEW c \in Clients, Clear(c) PROVE flushed' # 0 /\ FirstInv'
  <2>1. phase[c] # "idle" /\ now' = now /\ phase' = [phase EXCEPT ![c] = "idle"]
        /\ flushed' = IF now[c] > flushed THEN now[c] ELSE flushed
    BY <1>1, Zenon DEF Clear
  <2>2. flushed' # 0
    BY <1>0, <2>1
  <2>3. \A d \in Clients : phase'[d] # "idle" => now'[d] > 0
    BY <1>0, <2>1, Zenon
  <2> QED
    BY <2>2, <2>3, Zenon
<1>2. ASSUME NEW c \in Clients, Begin(c) PROVE FirstInv'
  <2>1. now' = [now EXCEPT ![c] = clock + 1] /\ flushed' = flushed /\ cleartime' = cleartime
        /\ \E p \in {"key"} \cup Scans : phase' = [phase EXCEPT ![c] = p]
    BY <1>2, Zenon DEF Begin
  <2>2. clock + 1 > 0
    BY <1>0
  <2>3. \A d \in Clients : phase'[d] # "idle" => now'[d] > 0
    BY <1>0, <2>1, <2>2, Zenon
  <2> QED
    BY <2>1, <2>3, Zenon
<1>3. ASSUME NEW c \in Clients, Sweep(c) \/ Iter(c) PROVE FirstInv'
  <2>1. now' = now /\ flushed' = flushed /\ cleartime' = cleartime
        /\ phase' = [phase EXCEPT ![c] = "idle"]
    BY <1>3, Zenon DEF Sweep, Iter
  <2>3. \A d \in Clients : phase'[d] # "idle" => now'[d] > 0
    BY <1>0, <2>1, Zenon
  <2> QED
    BY <2>1, <2>3, Zenon
<1>4. ASSUME NEW c \in Clients, NEW k \in Keys, Load(c, k) \/ Delete(c, k) \/ Store(c, k)
      PROVE  FirstInv'
  BY <1>4, KeyFrame, Zenon
<1>5. ASSUME UNCHANGED vars PROVE FirstInv'
  <2>1. flushed' = flushed /\ cleartime' = cleartime /\ phase' = phase /\ now' = now
    BY <1>5 DEF vars
  <2> QED
    BY <2>1, Zenon
<1>6. FirstInv'
  BY <1>1, <1>2, <1>3, <1>4, <1>5, Zenon DEF Next
<1> QED
  BY <1>1, <1>6, Zenon

\* Up to the first clear the shard is the cache of CacheSpec, for any number of
\* clients and any order of their timestamps.
THEOREM CacheBeforeClear == Spec => CacheUntilClear
<1>1. Init => FirstInv
  BY DEF Init, FirstInv
<1>2. TypeOK /\ FirstInv /\ [Next]_vars
        => FirstInv' /\ [flushed' = 0 => Cache!Next \/ UNCHANGED Cache!cacheVars]_vars
  <2> SUFFICES ASSUME TypeOK, FirstInv, [Next]_vars
               PROVE  /\ FirstInv'
                      /\ [flushed' = 0 => Cache!Next \/ UNCHANGED Cache!cacheVars]_vars
    BY Zenon
  <2>1. FirstInv' /\ (flushed' = 0 => \A c \in Clients : ~Clear(c))
    BY FirstStep, Zenon
  <2>2. ASSUME Next, flushed' = 0 PROVE Cache!Next
    <3>1. flushed = 0
      BY <2>1, <2>2, KeyFrame, Zenon DEF Next, Begin, Sweep, Iter
    <3>2. \A c \in Clients : phase[c] = "key" => InTime(c)
      BY <3>1 DEF FirstInv, InTime, TypeOK
    <3> QED
      BY <2>1, <2>2, <3>2, CacheStep, Zenon
  <2> QED
    BY <2>1, <2>2, Zenon
<1> QED
  BY <1>1, <1>2, TypeCorrect, PTL DEF Spec, CacheUntilClear

-----------------------------------------------------------------------------
(***************************************************************************)
(* One client, whose commands reach the shard in the order of their        *)
(* timestamps.                                                             *)
(***************************************************************************)
OneClient == \A c, d \in Clients : c = d

\* The entries that a clear has hidden and no operation has met yet.
Hidden == {k \in Stored : Cleared(map[k])}

\* Nothing is ahead of the clock, a clear is newer than every entry, and
\* clearcount counts what is hidden.
SerialInv ==
    /\ \A c \in Clients : now[c] = clock
    /\ cleartime <= clock
    /\ \A k \in Stored : map[k].time <= clock
    /\ \A c \in Clients : phase[c] = "clear" => \A k \in Stored : map[k].time < clock
    /\ clearcount = Cardinality(Hidden)

\* An operation on keys has one of the shapes.
Shape(c) ==
    \/ Leaves
    \/ \E k \in Keys : Touches(c, k) \/ Drops(k)
    \/ \E k \in Keys, v \in Vals :
          Puts(c, k, v) \/ \E x \in Keys : Evicts(c, k, v, x)

\* loadop, deleteop and storeop each change the map by one of the shapes.
LEMMA KeyShape ==
    ASSUME TypeOK, NEW c \in Clients, InTime(c), NEW k \in Keys,
           Load(c, k) \/ Delete(c, k) \/ Store(c, k)
    PROVE  Shape(c)
<1>1. CASE Load(c, k)
  <2>1. LoadMiss(c, k) => Shape(c)
    BY LoadShape, Zenon DEF Shape
  <2>2. ASSUME NEW b \in BOOLEAN, LoadHit(c, k, b) \/ LoadNoMem(c, k, b) PROVE Shape(c)
    BY <2>2, LoadShape, Zenon DEF Shape
  <2>3. ASSUME NEW v \in Vals, NEW e, LoadUpdate(c, k, v, e) PROVE Shape(c)
    BY <2>3, LoadShape, Zenon DEF Shape
  <2> QED
    BY <1>1, <2>1, <2>2, <2>3, Zenon DEF Load
<1>2. CASE Delete(c, k)
  BY <1>2, DeleteShape, Zenon DEF Shape, Delete
<1>3. CASE Store(c, k)
  <2>1. StoreNoMem(c, k) => Shape(c)
    BY Zenon DEF Shape, StoreNoMem, Leaves
  <2>2. ASSUME NEW o \in StoreOpts, StorePutBack(c, k, o) \/ StoreMissing(c, k, o)
        PROVE  Shape(c)
    BY <2>2, StoreShape, Zenon DEF Shape
  <2>3. ASSUME NEW o \in StoreOpts, NEW v \in Vals,
               StoreReplace(c, k, v, o) \/ StoreInsert(c, k, v, o) \/ StoreEvict(c, k, v, o)
        PROVE  Shape(c)
    <3>1. Puts(c, k, v) \/ Drops(k) \/ \E x \in Keys : Evicts(c, k, v, x)
      BY <2>3, StoreShape, Zenon
    <3> QED
      BY <3>1, Zenon DEF Shape
  <2> QED
    BY <1>3, <2>1, <2>2, <2>3, Zenon DEF Store
<1> QED
  BY <1>1, <1>2, <1>3, Zenon

\* What is hidden can be counted.
LEMMA HiddenFinite == IsFiniteSet(Hidden) /\ Cardinality(Hidden) \in Nat
<1>1. Hidden \in SUBSET Keys
  BY Zenon DEF Hidden, Stored
<1>2. IsFiniteSet(Hidden)
  BY <1>1, FS_Subset, Zenon
<1> QED
  BY <1>2, FS_CardinalityType, Zenon

\* Losing the entry of one key, or writing it, uncounts it.
LEMMA UncountOne ==
    ASSUME NEW k \in Keys, clearcount = Cardinality(Hidden), Hidden' = Hidden \ {k},
           clearcount' = clearcount - ClearedOne(map[k])
    PROVE  clearcount' = Cardinality(Hidden')
<1>1. Cardinality(Hidden \ {k}) =
         IF k \in Hidden THEN Cardinality(Hidden) - 1 ELSE Cardinality(Hidden)
  BY HiddenFinite, FS_RemoveElement, Zenon
<1>2. ClearedOne(map[k]) = IF k \in Hidden THEN 1 ELSE 0
  BY Zenon DEF ClearedOne, Hidden, Stored
<1> QED
  BY <1>1, <1>2, HiddenFinite

\* Which entries are hidden does not change for the ones that stay.
LEMMA HiddenStays ==
    ASSUME NEW j \in Keys, map'[j] = map[j], cleartime' = cleartime
    PROVE  j \in Hidden' <=> j \in Hidden
  BY Zenon DEF Hidden, Stored, Cleared

\* An operation on keys that is in time keeps the count.
LEMMA CountShape ==
    ASSUME TypeOK, NEW c \in Clients, InTime(c), clearcount = Cardinality(Hidden), Shape(c)
    PROVE  clearcount' = Cardinality(Hidden')
<1>0. ~(now[c] < cleartime)
  BY Times DEF InTime
<1>1. Hidden \subseteq Keys /\ Hidden' \subseteq Keys
  BY Zenon DEF Hidden, Stored
<1>2. NoEntry.val = NoVal
  BY Zenon DEF NoEntry
<1>3. CASE Leaves
  <2>1. Hidden' = Hidden
    BY <1>1, <1>3, HiddenStays, Zenon DEF Leaves
  <2> QED
    BY <1>3, <2>1, Zenon DEF Leaves
<1>4. ASSUME NEW k \in Keys, Touches(c, k) PROVE clearcount' = Cardinality(Hidden')
  <2>1. k \notin Hidden
    BY <1>4, Zenon DEF Touches, Alive, entry_alive, Hidden
  <2>2. ~(map'[k].time < cleartime)
    BY <1>0, <1>4, Zenon DEF Touches, Alive, entry_alive, Cleared
  <2>3. k \notin Hidden' /\ clearcount' = clearcount
    BY <1>4, <2>2, Zenon DEF Touches, Hidden, Cleared
  <2>4. \A j \in Keys \ {k} : j \in Hidden' <=> j \in Hidden
    BY <1>4, HiddenStays, Zenon DEF Touches, Others
  <2>5. Hidden' = Hidden
    BY <1>1, <2>1, <2>3, <2>4
  <2> QED
    BY <2>3, <2>5, Zenon
<1>5. ASSUME NEW k \in Keys, Drops(k) PROVE clearcount' = Cardinality(Hidden')
  <2>1. k \notin Hidden'
    BY <1>2, <1>5, Zenon DEF Drops, Hidden, Stored
  <2>2. \A j \in Keys \ {k} : j \in Hidden' <=> j \in Hidden
    BY <1>5, HiddenStays, Zenon DEF Drops, Others
  <2>3. Hidden' = Hidden \ {k}
    BY <1>1, <2>1, <2>2, Zenon
  <2> QED
    BY <1>5, <2>3, UncountOne, Zenon DEF Drops
<1>6. ASSUME NEW k \in Keys, NEW v \in Vals, Puts(c, k, v)
      PROVE  clearcount' = Cardinality(Hidden')
  <2>1. k \notin Hidden'
    BY <1>0, <1>6, Zenon DEF Puts, Hidden, Cleared
  <2>2. \A j \in Keys \ {k} : j \in Hidden' <=> j \in Hidden
    BY <1>6, HiddenStays, Zenon DEF Puts, Others
  <2>3. Hidden' = Hidden \ {k}
    BY <1>1, <2>1, <2>2, Zenon
  <2> QED
    BY <1>6, <2>3, UncountOne, Zenon DEF Puts
<1>7. ASSUME NEW k \in Keys, NEW v \in Vals, NEW x \in Keys, Evicts(c, k, v, x)
      PROVE  clearcount' = Cardinality(Hidden')
  <2>1. k \notin Hidden' /\ k \notin Hidden
    BY <1>0, <1>7, Zenon DEF Evicts, Hidden, Cleared
  <2>2. x \notin Hidden'
    BY <1>2, <1>7, Zenon DEF Evicts, Hidden, Stored
  <2>3. \A j \in Keys \ {k, x} : j \in Hidden' <=> j \in Hidden
    BY <1>7, HiddenStays, Zenon DEF Evicts, Others
  <2>4. Hidden' = Hidden \ {x}
    BY <1>1, <2>1, <2>2, <2>3, Zenon
  <2> QED
    BY <1>7, <2>4, UncountOne, Zenon DEF Evicts
<1> QED
  BY <1>3, <1>4, <1>5, <1>6, <1>7, Zenon DEF Shape

\* An operation on keys leaves the times of the entries or sets its own.
LEMMA TimeShape ==
    ASSUME NEW c \in Clients, Shape(c), NEW j \in Stored'
    PROVE  map'[j].time = now[c] \/ (j \in Stored /\ map'[j].time = map[j].time)
<1>1. NoEntry.val = NoVal
  BY Zenon DEF NoEntry
<1>2. j \in Keys /\ map'[j].val # NoVal
  BY Zenon DEF Stored
<1>3. map'[j] = map[j] => j \in Stored
  BY <1>2, Zenon DEF Stored
<1>4. CASE Leaves
  BY <1>3, <1>4, Zenon DEF Leaves
<1>5. ASSUME NEW k \in Keys, Touches(c, k) \/ Drops(k)
      PROVE  map'[j].time = now[c] \/ (j \in Stored /\ map'[j].time = map[j].time)
  BY <1>1, <1>2, <1>3, <1>5, Zenon DEF Touches, Drops, Others, Alive
<1>6. ASSUME NEW k \in Keys, NEW v \in Vals, Puts(c, k, v) \/ \E x \in Keys : Evicts(c, k, v, x)
      PROVE  map'[j].time = now[c] \/ (j \in Stored /\ map'[j].time = map[j].time)
  BY <1>1, <1>2, <1>3, <1>6, Zenon DEF Puts, Evicts, Others
<1> QED
  BY <1>4, <1>5, <1>6, Zenon DEF Shape

\* Every operation of the only client keeps the invariant.
LEMMA SerialStep ==
    ASSUME TypeOK, OneClient, SerialInv, [Next]_vars
    PROVE  SerialInv'
<1>0. /\ cleartime \in Nat /\ clearcount \in Int /\ clock \in Nat /\ map \in [Keys -> Entry]
      /\ now \in [Clients -> Nat] /\ phase \in [Clients -> {"idle", "key"} \cup Scans]
  BY Zenon DEF TypeOK
<1>1. \A k \in Stored : map[k].time \in Nat /\ map[k].time <= clock
  BY <1>0, Zenon DEF Stored, Entry, SerialInv
<1>2. ASSUME NEW c \in Clients, Begin(c) PROVE SerialInv'
  <2>1. /\ now' = [now EXCEPT ![c] = clock + 1] /\ clock' = clock + 1
        /\ map' = map /\ cleartime' = cleartime /\ clearcount' = clearcount
    BY <1>2, Zenon DEF Begin
  <2>2. \A d \in Clients : now'[d] = clock'
    BY <1>0, <2>1, Zenon DEF OneClient
  <2>3. cleartime' <= clock'
    BY <1>0, <2>1 DEF SerialInv
  <2>4. Stored' = Stored /\ Hidden' = Hidden
    BY <2>1, Zenon DEF Hidden, Stored, Cleared
  <2>5. \A k \in Stored' : map'[k].time <= clock' /\ map'[k].time < clock'
    BY <1>0, <1>1, <2>1, <2>4
  <2>6. clearcount' = Cardinality(Hidden')
    BY <2>1, <2>4, Zenon DEF SerialInv
  <2> QED
    BY <2>2, <2>3, <2>5, <2>6, Zenon DEF SerialInv
<1>3. ASSUME NEW c \in Clients, NEW k \in Keys, Load(c, k) \/ Delete(c, k) \/ Store(c, k)
      PROVE  SerialInv'
  <2>1. /\ phase[c] = "key" /\ clock' = clock /\ now' = now /\ phase' = phase
        /\ cleartime' = cleartime
    BY <1>3, KeyFrame, Zenon
  <2>2. InTime(c) /\ now[c] = clock
    BY Zenon DEF SerialInv, InTime
  <2>3. Shape(c)
    BY <1>3, <2>2, KeyShape, Zenon
  <2>4. clearcount' = Cardinality(Hidden')
    BY <2>2, <2>3, CountShape, Zenon DEF SerialInv
  <2>5. clock <= clock
    BY <1>0
  <2>6. \A j \in Stored' : map'[j].time <= clock'
    BY <1>1, <2>1, <2>2, <2>3, <2>5, TimeShape, Zenon
  <2>7. \A d \in Clients : phase'[d] # "clear"
    BY <2>1, Zenon DEF OneClient
  <2> QED
    BY <2>1, <2>4, <2>6, <2>7, Zenon DEF SerialInv
<1>4. ASSUME NEW c \in Clients, Clear(c) PROVE SerialInv'
  <2>1. /\ phase[c] = "clear" /\ cleartime' = now[c] /\ map' = map /\ now' = now
        /\ clock' = clock
        /\ clearcount' = clearcount + (Cardinality(Stored) - clearcount)
        /\ phase' = [phase EXCEPT ![c] = "idle"]
    BY <1>4, Zenon DEF Clear
  <2>2. cleartime' = clock /\ clock <= clock
    BY <1>0, <2>1 DEF SerialInv
  <2>3. Stored' = Stored
    BY <2>1, Zenon DEF Stored
  <2>4. Hidden' = Stored'
    BY <2>1, <2>2, <2>3, Zenon DEF Hidden, Cleared, SerialInv
  <2>5. Cardinality(Stored) \in Nat
    BY StoredFinite, Zenon DEF Stored
  <2>6. clearcount' = Cardinality(Stored)
    BY <1>0, <2>1, <2>5
  <2>7. \A d \in Clients : phase'[d] # "clear"
    BY <1>0, <2>1, Zenon DEF OneClient
  <2> QED
    BY <2>1, <2>2, <2>3, <2>4, <2>6, <2>7, Zenon DEF SerialInv
<1>5. ASSUME NEW c \in Clients, Sweep(c) \/ Iter(c) PROVE SerialInv'
  <2>1. /\ cleartime' = cleartime /\ now' = now /\ clock' = clock
        /\ phase' = [phase EXCEPT ![c] = "idle"]
    BY <1>5, Zenon DEF Sweep, Iter
  <2>2. NoEntry.val = NoVal
    BY Zenon DEF NoEntry
  <2>3. \A j \in Keys : map'[j] = NoEntry \/ map'[j] = map[j]
    BY <1>5, Zenon DEF Sweep, Iter
  <2>4. \A j \in Stored' : j \in Stored /\ map'[j] = map[j]
    BY <2>2, <2>3, Zenon DEF Stored
  <2>5. \A j \in Stored' : map'[j].time <= clock'
    BY <1>1, <2>1, <2>4, Zenon
  <2>6. \A d \in Clients : phase'[d] # "clear"
    BY <1>0, <2>1, Zenon DEF OneClient
  <2>7. CASE Sweep(c)
    <3>1. /\ clearcount' = clearcount - Cardinality(Hidden)
          /\ \A j \in Keys : map'[j] = IF Dead(j, now[c]) THEN NoEntry ELSE map[j]
      BY <2>7, Zenon DEF Sweep, Hidden
    <3>2. \A j \in Stored' : ~Cleared(map[j])
      BY <2>2, <2>4, <3>1, Zenon DEF Dead, entry_alive, Stored
    <3>3. Hidden' = {}
      BY <2>1, <2>4, <3>2, Zenon DEF Hidden, Cleared
    <3>4. clearcount' = 0
      BY <3>1, HiddenFinite DEF SerialInv
    <3>5. clearcount' = Cardinality(Hidden')
      BY <3>3, <3>4, FS_EmptySet, Zenon
    <3> QED
      BY <2>1, <2>5, <2>6, <3>5, Zenon DEF SerialInv
  <2>8. CASE Iter(c)
    <3>1. PICK D \in SUBSET {k \in Keys : Alive(k, now[c])} :
            map' = [k \in Keys |-> IF k \in D THEN NoEntry ELSE map[k]]
      BY <2>8, Zenon DEF Iter
    <3>2. \A j \in D : j \notin Hidden /\ j \notin Hidden'
      BY <2>2, <3>1, Zenon DEF Alive, entry_alive, Hidden, Stored
    <3>3. \A j \in Keys \ D : j \in Hidden' <=> j \in Hidden
      BY <2>1, <3>1, HiddenStays, Zenon
    <3>4. Hidden \subseteq Keys /\ Hidden' \subseteq Keys
      BY Zenon DEF Hidden, Stored
    <3>5. Hidden' = Hidden
      BY <3>2, <3>3, <3>4
    <3>6. clearcount' = clearcount
      BY <2>8, Zenon DEF Iter
    <3> QED
      BY <2>1, <2>5, <2>6, <3>5, <3>6, Zenon DEF SerialInv
  <2> QED
    BY <1>5, <2>7, <2>8, Zenon
<1>6. ASSUME UNCHANGED vars PROVE SerialInv'
  <2>1. /\ map' = map /\ cleartime' = cleartime /\ clearcount' = clearcount
        /\ clock' = clock
        /\ now' = now /\ phase' = phase
    BY <1>6 DEF vars
  <2>2. Stored' = Stored /\ Hidden' = Hidden
    BY <2>1, Zenon DEF Hidden, Stored, Cleared
  <2> QED
    BY <2>1, <2>2, Zenon DEF SerialInv
<1> QED
  BY <1>2, <1>3, <1>4, <1>5, <1>6, Zenon DEF Next

\* The invariant holds as long as there is one client.
LEMMA SerialHolds ==
    ASSUME OneClient
    PROVE  Spec => []SerialInv
<1>1. Init => SerialInv
  <2> SUFFICES ASSUME Init PROVE SerialInv
    OBVIOUS
  <2>1. Stored = {} /\ Hidden = {}
    BY DEF Init, Stored, Hidden, NoEntry
  <2>2. Cardinality(Hidden) = 0
    BY <2>1, FS_EmptySet, Zenon
  <2> QED
    BY <2>1, <2>2 DEF Init, SerialInv
<1>2. TypeOK /\ SerialInv /\ [Next]_vars => SerialInv'
  BY SerialStep, Zenon
<1> QED
  BY <1>1, <1>2, TypeCorrect, PTL DEF Spec

\* With timestamps in order pogocache_count is exact: countop is the number of
\* entries that no clear has removed, after any sequence of operations.
THEOREM SerialCount ==
    ASSUME OneClient
    PROVE  Spec => []CountExact
<1>1. SerialInv => CountExact
  <2> SUFFICES ASSUME SerialInv PROVE CountExact
    OBVIOUS
  <2>1. Stored \in SUBSET Keys
    BY Zenon DEF Stored
  <2>2. IsFiniteSet(Stored)
    BY <2>1, FS_Subset, Zenon
  <2>3. Cardinality(Stored \ Hidden) = Cardinality(Stored) - Cardinality(Stored \cap Hidden)
    BY <2>2, FS_Difference, Zenon
  <2>4. Stored \cap Hidden = Hidden /\ Stored \ Hidden = {k \in Stored : ~Cleared(map[k])}
    BY DEF Hidden
  <2> QED
    BY <2>3, <2>4, Zenon DEF CountExact, countop, SerialInv
<1> QED
  BY <1>1, SerialHolds, PTL

\* With timestamps in order the shard implements the abstract cache: a clear
\* hides every older value and no newer one, every reply is right, and nothing
\* but an operation, expiry or an eviction changes what a user sees.
THEOREM SerialCache ==
    ASSUME OneClient
    PROVE  Spec => ImplementsCache
<1>1. Init => Cache!Init
  <2> SUFFICES ASSUME Init PROVE Cache!Init
    OBVIOUS
  <2>1. \A k \in Keys : ~Visible(k)
    BY DEF Init, Visible, Stored, NoEntry
  <2>2. \A k \in Keys : Dict[k] = NoVal /\ Mortal[k] = FALSE
    BY <2>1, Shown, Zenon
  <2>3. Dict = [k \in Keys |-> NoVal] /\ Mortal = [k \in Keys |-> FALSE]
    BY <2>2, Shown, Zenon
  <2> QED
    BY <2>3, Zenon DEF Init, Cache!Init, Cache!Reply, Cache!Wrote, NoReply, Reply, Wrote
<1>2. TypeOK /\ SerialInv /\ [Next]_vars => [Cache!Next]_(Cache!cacheVars)
  <2> SUFFICES ASSUME TypeOK, SerialInv, [Next]_vars PROVE [Cache!Next]_(Cache!cacheVars)
    OBVIOUS
  <2>1. CASE Next
    <3>1. \A c \in Clients : InTime(c)
      BY Zenon DEF SerialInv, InTime
    <3>2. \A c \in Clients : Clear(c) => \A k \in Stored : map[k].time < now[c]
      BY Zenon DEF SerialInv, Clear
    <3> QED
      BY <2>1, <3>1, <3>2, CacheStep, Zenon
  <2>2. CASE UNCHANGED vars
    <3>1. map' = map /\ cleartime' = cleartime /\ clearcount' = clearcount /\ ret' = ret
      BY <2>2 DEF vars
    <3>2. Dict' = Dict /\ Mortal' = Mortal
      BY <3>1, LeavesShown, Zenon DEF Leaves
    <3> QED
      BY <3>1, <3>2, Zenon DEF Cache!cacheVars
  <2> QED
    BY <2>1, <2>2, Zenon
<1> QED
  BY <1>1, <1>2, SerialHolds, TypeCorrect, PTL DEF Spec, ImplementsCache, Cache!Spec
=============================================================================
