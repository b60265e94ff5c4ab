---------------------------- MODULE PersistSave -----------------------------
(***************************************************************************)
(* Lemmas about the operators of Persist (the shares of the threads of     *)
(* save(), their steps, what is written and loaded of an entry), that      *)
(* every step keeps the types, and that every step keeps SaveInv, which    *)
(* says what the threads of save() have done and what their work file      *)
(* holds.                                                                  *)
(***************************************************************************)
EXTENDS Persist, TLAPS

USE SizesPositive, NamesApart, KeysAndTtls

\* Equal shares of the shards for n threads: a quotient that is not 0, n of which
\* fit.
LEMMA Quotient ==
    ASSUME NEW n \in 1..NShards
    PROVE  NShards \div n \in Nat \ {0} /\ n * (NShards \div n) <= NShards
<1> DEFINE q == NShards \div n
           r == NShards % n
<1>1. q \in Int /\ r \in 0..n - 1 /\ NShards = n * q + r
  OBVIOUS
<1>2. q > 0
  OBVIOUS
<1> QED
  BY <1>1, <1>2

\* Products with the same quotient.
LEMMA Monotone ==
    ASSUME NEW a \in Nat, NEW b \in Nat, NEW q \in Nat, a <= b
    PROVE  a * q <= b * q /\ a * q \in Nat /\ b * q \in Nat
OBVIOUS

\* The range of each thread of save() lies within the shards and is not empty.
LEMMA ShareType ==
    ASSUME NEW n \in 1..NShards, NEW i \in 0..n - 1
    PROVE  /\ Share(i, n).first \in Shards /\ Share(i, n).last \in Shards
           /\ Share(i, n).first <= Share(i, n).last
<1> DEFINE q == NShards \div n
<1>1. q \in Nat \ {0} /\ n * q <= NShards
  BY Quotient, Zenon
<1> HIDE DEF q
<1>2. (i + 1) * q <= n * q /\ (i + 1) * q = i * q + q /\ i * q \in Nat
  BY <1>1, Monotone
<1>3. n * q \in Nat
  BY <1>1
<1>4. i * q \in 0..NShards - 1 /\ (i + 1) * q - 1 \in 0..NShards - 1
  BY <1>1, <1>2, <1>3
<1>5. i * q <= (i + 1) * q - 1
  BY <1>1, <1>2
<1> QED
  BY <1>4, <1>5 DEF Share, Shards, q

\* The ranges of two threads have no shard in common.
LEMMA SharesApart ==
    ASSUME NEW n \in 1..NShards, NEW i \in 0..n - 1, NEW j \in 0..n - 1, i < j
    PROVE  Share(i, n).last < Share(j, n).first
<1> DEFINE q == NShards \div n
<1>1. q \in Nat
  BY Quotient, Zenon
<1> HIDE DEF q
<1>2. (i + 1) * q <= j * q /\ (i + 1) * q \in Nat /\ j * q \in Nat
  BY <1>1, Monotone
<1> QED
  BY <1>2 DEF Share, q

\* Every shard is in the range of a thread, the last ones in that of the last.
LEMMA SharesCover ==
    ASSUME NEW n \in 1..NShards, NEW x \in Shards
    PROVE  \E i \in 0..n - 1 : Share(i, n).first <= x /\ x <= Share(i, n).last
<1> DEFINE q == NShards \div n
<1>1. q \in Nat \ {0} /\ n * q <= NShards
  BY Quotient, Zenon
<1> HIDE DEF q
<1>2. x \in 0..NShards - 1
  BY Zenon DEF Shards
<1>3. CASE x >= (n - 1) * q
  <2>1. n - 1 \in 0..n - 1
    OBVIOUS
  <2>2. Share(n - 1, n).first <= x /\ x <= Share(n - 1, n).last
    BY <1>2, <1>3 DEF Share, q
  <2> QED
    BY <2>1, <2>2, Zenon
<1>4. CASE x < (n - 1) * q
  <2> DEFINE i == x \div q
             r == x % q
  <2>1. i \in Int /\ r \in 0..q - 1 /\ x = q * i + r
    BY <1>1, <1>2
  <2> HIDE DEF i, r
  <2>2. i >= 0
    <3> SUFFICES ASSUME i < 0 PROVE FALSE
      BY <2>1
    <3>1. q * i <= q * (-1)
      BY <1>1, <2>1
    <3> QED
      BY <1>1, <1>2, <2>1, <3>1
  <2>3. i < n - 1
    <3> SUFFICES ASSUME i >= n - 1 PROVE FALSE
      BY <2>1
    <3>1. (n - 1) * q <= i * q /\ i * q = q * i
      BY <1>1, <2>1, <2>2, Monotone
    <3> QED
      BY <1>1, <1>2, <1>4, <2>1, <3>1
  <2>4. i * q <= x /\ x <= (i + 1) * q - 1
    <3>1. i * q = q * i /\ (i + 1) * q = q * i + q
      BY <1>1, <2>1
    <3> QED
      BY <1>1, <2>1, <3>1
  <2>5. Share(i, n).first <= x /\ x <= Share(i, n).last
    BY <2>1, <2>3, <2>4 DEF Share, q
  <2> QED
    BY <2>1, <2>2, <2>3, <2>5
<1> QED
  BY <1>1, <1>2, <1>3, <1>4

\* save() runs at least one thread and no more than there are shards.
LEMMA ThreadCount ==
    ASSUME NEW fast \in BOOLEAN PROVE NThreads(fast) \in 1..NShards
BY DEF NThreads

\* The threads that save() starts.
LEMMA ThreadsStart ==
    ASSUME NEW n \in 1..NShards
    PROVE  [i \in 0..n - 1 |-> StartThread(i, n)] \in [0..n - 1 -> SaveThreads]
<1> SUFFICES ASSUME NEW i \in 0..n - 1 PROVE StartThread(i, n) \in SaveThreads
  BY Zenon
<1> QED
  BY ShareType, Zenon DEF StartThread, SaveThreads

\* What save_entry writes of an entry that is alive.
LEMMA IterType ==
    ASSUME TypeOK, NEW x \in Shards, NEW time \in Nat
    PROVE  /\ Iter(x, time) \subseteq BlockEnts
           /\ \A e \in Iter(x, time) : /\ ShardOf[e.key] = x /\ cache[e.key] # None
                                       /\ Alive(cache[e.key].expires, time)
                                       /\ e = SaveEntry(e.key, time)
<1> SUFFICES ASSUME NEW k \in Keys, ShardOf[k] = x, cache[k] # None,
                    Alive(cache[k].expires, time)
             PROVE  SaveEntry(k, time) \in BlockEnts /\ SaveEntry(k, time).key = k
  BY Zenon DEF Iter
<1>1. cache[k] \in [val : Nat, expires : Nat, due : Nat]
  BY Zenon DEF TypeOK, Entries
<1>2. cache[k].expires > 0 => cache[k].expires - time \in Nat
  BY <1>1 DEF Alive
<1> QED
  BY <1>1, <1>2, Zenon DEF SaveEntry, BlockEnts

\* The types of a call of save(), at its start.
LEMMA BeginType ==
    ASSUME TypeOK, NEW s \in Saves, NEW fast \in BOOLEAN, mode = "up",
           BeginSave(s, fast), held' \in Shards \cup {None}
    PROVE  TypeOK'
<1> DEFINE n == NThreads(fast)
<1>1. n \in 1..NShards
  BY ThreadCount, Zenon
<1> HIDE DEF n
<1>2. th' = [th EXCEPT ![s] = [i \in 0..n - 1 |-> StartThread(i, n)]]
  BY Zenon DEF BeginSave, n
<1>3. \A r \in Saves : th'[r] \in [DOMAIN th'[r] -> SaveThreads]
  BY <1>1, <1>2, ThreadsStart, Zenon DEF TypeOK
<1>4. th' \in [Saves -> {th'[r] : r \in Saves}]
  BY <1>2 DEF TypeOK
<1>5. work' \in [Saves -> Seq(Blocks) \cup {None}] /\ save' \in [Saves -> {"idle", "threads", "done"}]
  BY DEF BeginSave, TypeOK
<1>6. stable' \in [Saves -> SUBSET Keys]
  BY Zenon DEF BeginSave, TypeOK, LiveKeys
<1> QED
  BY <1>3, <1>4, <1>5, <1>6, Zenon DEF BeginSave, TypeOK

\* What a thread of save() becomes.
LEMMA NextThread ==
    ASSUME TypeOK, NEW t \in SaveThreads, t.at <= t.last
    PROVE  /\ Stamped(t) \in SaveThreads /\ Past(t) \in SaveThreads /\ Failed(t) \in SaveThreads
           /\ \A r \in {Stamped(t), Past(t), Failed(t)} : r.first = t.first /\ r.last = t.last
           /\ Stamped(t).at = t.at /\ Stamped(t).st = "iter" /\ Stamped(t).time = clock
           /\ Failed(t).at = t.at /\ Failed(t).st = "failed" /\ Failed(t).time = 0
           /\ Past(t).time = 0
           /\ t.at = t.last => Past(t).at = t.at /\ Past(t).st = "ok"
           /\ t.at # t.last => Past(t).at = t.at + 1 /\ Past(t).st = "stamp"
<1>1. clock \in Nat
  BY Zenon DEF TypeOK
<1>2. t.at # t.last => t.at + 1 \in Shards
  BY DEF SaveThreads, Shards
<1> QED
  BY <1>1, <1>2, Zenon DEF SaveThreads, Stamped, Past, Failed

\* A step of one thread leaves the others alone.
LEMMA ThreadStep ==
    ASSUME TypeOK, NEW s \in Saves, NEW i \in DOMAIN th[s], NEW t \in SaveThreads,
           SetThread(s, i, t)
    PROVE  /\ th' \in [Saves -> {th'[r] : r \in Saves}]
           /\ \A r \in Saves : th'[r] \in [DOMAIN th'[r] -> SaveThreads]
           /\ \A r \in Saves : r # s => th'[r] = th[r]
           /\ DOMAIN th'[s] = DOMAIN th[s]
           /\ th'[s][i] = t /\ \A j \in DOMAIN th[s] : j # i => th'[s][j] = th[s][j]
           /\ save' = save
<1>1. th' = [th EXCEPT ![s] = [th[s] EXCEPT ![i] = t]] /\ save' = save
  BY Zenon DEF SetThread
<1>2. th \in [Saves -> {th[r] : r \in Saves}] /\ \A r \in Saves : th[r] \in [DOMAIN th[r] -> SaveThreads]
  BY Zenon DEF TypeOK
<1>3. th'[s] = [th[s] EXCEPT ![i] = t] /\ \A r \in Saves : r # s => th'[r] = th[r]
  BY <1>1, <1>2, Zenon
<1>4. th' \in [Saves -> {th'[r] : r \in Saves}]
  BY <1>1, <1>2, Zenon
<1> QED
  BY <1>1, <1>2, <1>3, <1>4, Zenon

\* flush appends one block to the work file, or none.
LEMMA BlockAppended ==
    ASSUME TypeOK, NEW w \in Seq(Blocks), NEW b \in Blocks
    PROVE  /\ Append(w, b) \in Seq(Blocks)
           /\ DOMAIN Append(w, b) = DOMAIN w \cup {Len(w) + 1}
           /\ Len(w) + 1 \notin DOMAIN w
           /\ Append(w, b)[Len(w) + 1] = b
           /\ \A j \in DOMAIN w : Append(w, b)[j] = w[j]
<1>1. Len(w) \in Nat /\ DOMAIN w = 1..Len(w)
  OBVIOUS
<1>2. /\ Append(w, b) \in Seq(Blocks) /\ Len(Append(w, b)) = Len(w) + 1
      /\ Append(w, b)[Len(w) + 1] = b /\ \A j \in 1..Len(w) : Append(w, b)[j] = w[j]
  OBVIOUS
<1>3. DOMAIN Append(w, b) = 1..Len(w) + 1
  BY <1>2
<1> QED
  BY <1>1, <1>2, <1>3

\* A step of a thread of save() keeps the types: it has a work file to append to.
LEMMA ThreadTypes ==
    ASSUME TypeOK, SaveInv, NEW s \in Saves, NEW i \in DOMAIN th[s],
           Stamp(s, i) \/ SaveShard(s, i) \/ FlushFails(s, i)
    PROVE  TypeOK'
<1> DEFINE t == th[s][i]
<1>1. t \in SaveThreads /\ t.at \in Shards /\ t.time \in Nat
  BY SMTT(30) DEF TypeOK, SaveThreads
<1>2. save[s] = "threads" /\ t.at <= t.last /\ work[s] \in Seq(Blocks)
  BY Zenon DEF Stamp, SaveShard, FlushFails, SaveInv, RangesInv, WorkInv
<1>3. \E u \in SaveThreads : SetThread(s, i, u)
  BY <1>1, <1>2, NextThread, Zenon DEF Stamp, SaveShard, FlushFails
<1>4. /\ th' \in [Saves -> {th'[r] : r \in Saves}]
      /\ \A r \in Saves : th'[r] \in [DOMAIN th'[r] -> SaveThreads]
      /\ save' = save
  BY <1>3, ThreadStep, Zenon
<1>5. Iter(t.at, t.time) \subseteq BlockEnts
  BY <1>1, IterType, Zenon
<1>6. work' \in [Saves -> Seq(Blocks) \cup {None}]
  <2>1. CASE Stamp(s, i)
    BY <2>1, Zenon DEF Stamp, TypeOK
  <2>2. CASE SaveShard(s, i)
    <3> DEFINE b == [kind |-> "good", time |-> t.time, ents |-> Iter(t.at, t.time)]
    <3>1. b \in Blocks
      BY <1>1, <1>5, Zenon DEF Blocks
    <3>2. work' = work \/ work' = [work EXCEPT ![s] = Append(work[s], b)]
      BY <2>2, Zenon DEF SaveShard
    <3> HIDE DEF b
    <3>3. Append(work[s], b) \in Seq(Blocks)
      BY <1>2, <3>1, BlockAppended, Zenon
    <3>4. CASE work' = work
      BY <3>4, Zenon DEF TypeOK
    <3>5. CASE work' = [work EXCEPT ![s] = Append(work[s], b)]
      BY <3>3, <3>5, Zenon DEF TypeOK
    <3> QED
      BY <3>2, <3>4, <3>5, Zenon
  <2>3. CASE FlushFails(s, i)
    <3> DEFINE b == [kind |-> "torn", time |-> 0, ents |-> {}]
    <3>1. b \in Blocks
      BY Zenon DEF Blocks
    <3>2. Append(work[s], b) \in Seq(Blocks)
      BY <1>2, <3>1
    <3>3. work' = [work EXCEPT ![s] = Append(work[s], b)]
      BY <2>3, Zenon DEF FlushFails
    <3> HIDE DEF b
    <3> QED
      BY <3>2, <3>3, Zenon DEF TypeOK
  <2> QED
    BY <2>1, <2>2, <2>3, Zenon
<1>7. UNCHANGED <<mode, clock, cache, file, unremoved, held, loading, writes, stable>>
  BY Zenon DEF Stamp, SaveShard, FlushFails
<1> QED
  BY <1>4, <1>6, <1>7, Zenon DEF TypeOK

-----------------------------------------------------------------------------
(* The saves.                                                               *)

\* A call of save() that neither runs nor loses one of its untouched keys.
LEMMA KeepSave ==
    ASSUME TypeOK, TypeOK', NEW s \in Saves, th'[s] = th[s], work'[s] = work[s],
           clock <= clock', stable'[s] \subseteq stable[s],
           \A k \in stable'[s] : cache'[k] = cache[k],
           RangesInv(s), WorkInv(s), StableInv(s)
    PROVE  RangesInv(s)' /\ WorkInv(s)' /\ StableInv(s)'
<1>0. clock \in Nat /\ clock' \in Nat
  BY Zenon DEF TypeOK
<1>1. Done(s)' = Done(s)
  BY SMTT(30) DEF Done, DoneBy
<1>2. RangesInv(s)'
  <2>1. \A i \in DOMAIN th[s] : th[s][i].time \in Nat
    BY DEF TypeOK, SaveThreads
  <2>2. \A i \in DOMAIN th[s] : th[s][i].time <= clock'
    BY <1>0, <2>1, SMTT(30) DEF RangesInv
  <2> QED
    BY <2>2, Zenon DEF RangesInv
<1>3. WorkInv(s)'
  BY <1>1 DEF WorkInv, KeysOnce
<1>4. StableInv(s)'
  <2> SUFFICES ASSUME NEW k \in stable'[s]
               PROVE  /\ cache'[k] # None
                      /\ ShardOf[k] \in Done(s)' /\ Alive(cache'[k].due, clock') =>
                            \E b \in DOMAIN work'[s] : \E e \in work'[s][b].ents :
                                e.key = k /\ e.val = cache'[k].val /\ e.due = cache'[k].due
    BY Zenon DEF StableInv
  <2>1. k \in stable[s] /\ cache'[k] = cache[k] /\ cache[k] # None /\ k \in Keys
    BY Zenon DEF StableInv, TypeOK
  <2>2. cache[k].due \in Nat
    BY <2>1, Zenon DEF TypeOK, Entries
  <2>3. Alive(cache[k].due, clock') => Alive(cache[k].due, clock)
    BY <1>0, <2>2, SMTT(30) DEF Alive
  <2>4. ShardOf[k] \in Done(s) /\ Alive(cache[k].due, clock) =>
           \E b \in DOMAIN work[s] : \E e \in work[s][b].ents :
               e.key = k /\ e.val = cache[k].val /\ e.due = cache[k].due
    BY <2>1, Zenon DEF StableInv
  <2> QED
    BY <1>1, <2>1, <2>3, <2>4, Zenon
<1> QED
  BY <1>2, <1>3, <1>4, Zenon

\* A call of save() when it begins.
LEMMA BeginInv ==
    ASSUME TypeOK, TypeOK', NEW s \in Saves, NEW fast \in BOOLEAN, BeginSave(s, fast)
    PROVE  RangesInv(s)' /\ WorkInv(s)' /\ StableInv(s)'
<1> DEFINE n == NThreads(fast)
<1>1. n \in 1..NShards
  BY ThreadCount, Zenon
<1>2. th'[s] = [i \in 0..n - 1 |-> StartThread(i, n)]
  BY ZenonT(60) DEF BeginSave, TypeOK
<1> HIDE DEF n
<1>3. DOMAIN th'[s] = 0..n - 1 /\ \A i \in 0..n - 1 :
         /\ th'[s][i].first = Share(i, n).first /\ th'[s][i].last = Share(i, n).last
         /\ th'[s][i].at = Share(i, n).first /\ th'[s][i].st = "stamp" /\ th'[s][i].time = 0
  BY <1>2, SMTT(30) DEF StartThread
<1>4. RangesInv(s)'
  <2>1. \A x \in Shards : \E i \in DOMAIN th'[s] : th'[s][i].first <= x /\ x <= th'[s][i].last
    <3> SUFFICES ASSUME NEW x \in Shards
                 PROVE  \E i \in 0..n - 1 : th'[s][i].first <= x /\ x <= th'[s][i].last
      BY <1>3, Zenon
    <3>1. PICK i \in 0..n - 1 : Share(i, n).first <= x /\ x <= Share(i, n).last
      BY <1>1, SharesCover, Zenon
    <3> QED
      BY <1>3, <3>1, Zenon
  <2>2. \A i \in DOMAIN th'[s] :
           /\ th'[s][i].first <= th'[s][i].at /\ th'[s][i].at <= th'[s][i].last
           /\ th'[s][i].time <= clock'
    <3>1. \A i \in 0..n - 1 : Share(i, n).first \in Nat /\ Share(i, n).first <= Share(i, n).last
      BY <1>1, ShareType DEF Shards
    <3>2. clock' \in Nat
      BY Zenon DEF TypeOK
    <3> QED
      BY <1>3, <3>1, <3>2
  <2>3. \A i, j \in DOMAIN th'[s] : i # j =>
           th'[s][i].last < th'[s][j].first \/ th'[s][j].last < th'[s][i].first
    <3> SUFFICES ASSUME NEW i \in 0..n - 1, NEW j \in 0..n - 1, i # j
                 PROVE  Share(i, n).last < Share(j, n).first \/ Share(j, n).last < Share(i, n).first
      BY <1>3
    <3>1. i < j \/ j < i
      BY <1>1
    <3> QED
      BY <1>1, <3>1, SharesApart, Zenon
  <2> QED
    BY <2>1, <2>2, <2>3, Zenon DEF RangesInv
<1>5. work'[s] = <<>>
  BY Zenon DEF BeginSave, TypeOK
<1>6. WorkInv(s)'
  BY <1>5 DEF WorkInv, KeysOnce
<1>7. Done(s)' = {}
  <2>1. \A i \in DOMAIN th'[s] : DoneBy(th'[s][i]) = {}
    <3> SUFFICES ASSUME NEW i \in 0..n - 1, NEW x \in DoneBy(th'[s][i]) PROVE FALSE
      BY <1>3, Zenon
    <3>1. Share(i, n).first \in Nat /\ x \in Nat
      BY <1>1, ShareType, SMTT(30) DEF Shards, DoneBy
    <3> QED
      BY <1>3, <3>1 DEF DoneBy
  <2> QED
    BY <2>1 DEF Done
<1>8. StableInv(s)'
  <2>1. \A k \in stable'[s] : cache'[k] # None
    BY SMTT(30) DEF BeginSave, TypeOK, LiveKeys
  <2> QED
    BY <1>7, <2>1, Zenon DEF StableInv
<1> QED
  BY <1>4, <1>6, <1>8, Zenon

\* A step of a thread within its range keeps the ranges.
LEMMA ThreadRanges ==
    ASSUME TypeOK, NEW s \in Saves, NEW i \in DOMAIN th[s], NEW t \in SaveThreads,
           SetThread(s, i, t), clock' = clock, RangesInv(s),
           t.first = th[s][i].first, t.last = th[s][i].last,
           t.first <= t.at, t.at <= t.last, t.time <= clock
    PROVE  RangesInv(s)'
<1>1. /\ DOMAIN th'[s] = DOMAIN th[s] /\ th'[s][i] = t
      /\ \A j \in DOMAIN th[s] : j # i => th'[s][j] = th[s][j]
  BY ThreadStep, SMTT(30)
<1>2. \A j \in DOMAIN th[s] : th'[s][j].first = th[s][j].first /\ th'[s][j].last = th[s][j].last
  BY <1>1, Zenon
<1>3. \A x \in Shards : \E j \in DOMAIN th'[s] : th'[s][j].first <= x /\ x <= th'[s][j].last
  BY <1>1, <1>2, Zenon DEF RangesInv
<1>4. \A j \in DOMAIN th'[s] :
         /\ th'[s][j].first <= th'[s][j].at /\ th'[s][j].at <= th'[s][j].last
         /\ th'[s][j].time <= clock'
  BY <1>1, Zenon DEF RangesInv
<1>5. \A j, k \in DOMAIN th'[s] : j # k =>
         th'[s][j].last < th'[s][k].first \/ th'[s][k].last < th'[s][j].first
  BY <1>1, <1>2, SMTT(30) DEF RangesInv
<1> QED
  BY <1>3, <1>4, <1>5, Zenon DEF RangesInv

\* The shards that are done after a step of a thread.
LEMMA ThreadDone ==
    ASSUME TypeOK, NEW s \in Saves, NEW i \in DOMAIN th[s], NEW t \in SaveThreads,
           SetThread(s, i, t)
    PROVE  /\ Done(s)' = DoneBy(t) \cup UNION {DoneBy(th[s][j]) : j \in DOMAIN th[s] \ {i}}
           /\ Done(s) = DoneBy(th[s][i]) \cup UNION {DoneBy(th[s][j]) : j \in DOMAIN th[s] \ {i}}
<1>1. /\ DOMAIN th'[s] = DOMAIN th[s] /\ th'[s][i] = t
      /\ \A j \in DOMAIN th[s] : j # i => th'[s][j] = th[s][j]
  BY ThreadStep, SMTT(30)
<1>2. Done(s)' = UNION {DoneBy(th'[s][j]) : j \in DOMAIN th'[s]}
  BY Zenon DEF Done, DoneBy
<1> QED
  BY <1>1, <1>2, Zenon DEF Done

\* A thread that has done no more than before leaves what save() has done.
LEMMA DoneSame ==
    ASSUME TypeOK, NEW s \in Saves, NEW i \in DOMAIN th[s], NEW t \in SaveThreads,
           SetThread(s, i, t), DoneBy(t) = DoneBy(th[s][i])
    PROVE  Done(s)' = Done(s)
<1> DEFINE O == UNION {DoneBy(th[s][j]) : j \in DOMAIN th[s] \ {i}}
<1>1. Done(s)' = DoneBy(t) \cup O /\ Done(s) = DoneBy(th[s][i]) \cup O
  BY ThreadDone, Zenon
<1> HIDE DEF O
<1> QED
  BY <1>1, Zenon

\* When no thread has failed after a step of a running one, none had before it.
LEMMA NoneFailed ==
    ASSUME TypeOK, NEW s \in Saves, NEW i \in DOMAIN th[s], NEW t \in SaveThreads,
           SetThread(s, i, t), th[s][i].st # "failed",
           \A j \in DOMAIN th'[s] : th'[s][j].st # "failed"
    PROVE  \A j \in DOMAIN th[s] : th[s][j].st # "failed"
<1>1. DOMAIN th'[s] = DOMAIN th[s] /\ \A j \in DOMAIN th[s] : j # i => th'[s][j] = th[s][j]
  BY ThreadStep, Zenon
<1> QED
  BY <1>1, Zenon

\* Stamping a shard, or failing at it, adds nothing to what is done.
LEMMA SameDone ==
    ASSUME TypeOK, NEW t \in SaveThreads, t.at <= t.last, t.st \in {"stamp", "iter"}
    PROVE  DoneBy(Stamped(t)) = DoneBy(t) /\ DoneBy(Failed(t)) = DoneBy(t)
BY NextThread, Zenon DEF DoneBy

\* A thread that is past its shard has done this one too.
LEMMA PastDone ==
    ASSUME TypeOK, NEW t \in SaveThreads, t.first <= t.at, t.at <= t.last, t.st = "iter"
    PROVE  DoneBy(Past(t)) = DoneBy(t) \cup {t.at} /\ t.at \notin DoneBy(t)
<1>1. t.first \in Nat /\ t.at \in Nat /\ t.last \in Nat /\ t.at \in Shards
  BY DEF SaveThreads, Shards
<1>2. \A x \in Shards : x \in Nat
  BY DEF Shards
<1>3. Past(t).first = t.first /\ Past(t).last = t.last
  BY NextThread, Zenon
<1>4. ASSUME NEW x \in Shards PROVE x \in DoneBy(Past(t)) <=> x \in DoneBy(t) \cup {t.at}
  <2>1. CASE t.at = t.last
    <3>1. Past(t).st = "ok" /\ Past(t).at = t.at
      BY <2>1, NextThread, Zenon
    <3> QED
      BY <1>1, <1>2, <1>3, <2>1, <3>1, SMTT(30) DEF DoneBy
  <2>2. CASE t.at # t.last
    <3>1. Past(t).st = "stamp" /\ Past(t).at = t.at + 1
      BY <2>2, NextThread, Zenon
    <3> QED
      BY <1>1, <1>2, <1>3, <3>1, SMTT(30) DEF DoneBy
  <2> QED
    BY <2>1, <2>2, Zenon
<1>5. DoneBy(Past(t)) \subseteq Shards /\ DoneBy(t) \cup {t.at} \subseteq Shards
  BY <1>1, Zenon DEF DoneBy
<1>6. t.at \notin DoneBy(t)
  BY <1>1, SMTT(30) DEF DoneBy
<1> QED
  BY <1>4, <1>5, <1>6, Zenon

\* No other thread does the shard that a thread is at.
LEMMA OthersElsewhere ==
    ASSUME TypeOK, NEW s \in Saves, RangesInv(s), NEW i \in DOMAIN th[s],
           NEW j \in DOMAIN th[s], j # i
    PROVE  th[s][i].at \notin DoneBy(th[s][j])
<1>1. th[s][i] \in SaveThreads /\ th[s][j] \in SaveThreads
  BY SMTT(30) DEF TypeOK
<1>2. /\ th[s][i].first \in Nat /\ th[s][i].at \in Nat /\ th[s][i].last \in Nat
      /\ th[s][j].first \in Nat /\ th[s][j].at \in Nat /\ th[s][j].last \in Nat
  BY <1>1, SMTT(30) DEF SaveThreads, Shards
<1>3. /\ th[s][i].first <= th[s][i].at /\ th[s][i].at <= th[s][i].last
      /\ th[s][j].at <= th[s][j].last
      /\ th[s][i].last < th[s][j].first \/ th[s][j].last < th[s][i].first
  BY Zenon DEF RangesInv
<1> QED
  BY <1>2, <1>3 DEF DoneBy

\* The conjuncts of WorkInv in the next state, for a step of a thread.
LEMMA WorkNow ==
    ASSUME NEW s \in Saves, work'[s] \in Seq(Blocks),
           (\A j \in DOMAIN th'[s] : th'[s][j].st # "failed") =>
              \A c \in DOMAIN work'[s] : work'[s][c].kind = "good",
           \A c \in DOMAIN work'[s] : \A e \in work'[s][c].ents : ShardOf[e.key] \in Done(s)',
           \A c, f \in DOMAIN work'[s] : \A d \in work'[s][c].ents : \A e \in work'[s][f].ents :
              d.key = e.key => c = f /\ d = e
    PROVE  WorkInv(s)'
  BY Zenon DEF WorkInv, KeysOnce

\* What save() has written of the untouched keys stays when the blocks in the
\* work file do, and grows with the shards that are done.
LEMMA StableMore ==
    ASSUME NEW s \in Saves, StableInv(s), clock' = clock, cache' = cache, stable' = stable,
           \A c \in DOMAIN work[s] : c \in DOMAIN work'[s] /\ work'[s][c] = work[s][c],
           \A k \in stable[s] :
              ShardOf[k] \in Done(s)' /\ ShardOf[k] \notin Done(s) /\ Alive(cache[k].due, clock) =>
                 \E b \in DOMAIN work'[s] : \E e \in work'[s][b].ents :
                     e.key = k /\ e.val = cache[k].val /\ e.due = cache[k].due
    PROVE  StableInv(s)'
<1> SUFFICES ASSUME NEW k \in stable[s]
             PROVE  /\ cache[k] # None
                    /\ ShardOf[k] \in Done(s)' /\ Alive(cache[k].due, clock) =>
                          \E b \in DOMAIN work'[s] : \E e \in work'[s][b].ents :
                              e.key = k /\ e.val = cache[k].val /\ e.due = cache[k].due
  BY SMTT(30) DEF StableInv
<1>1. cache[k] # None
  BY Zenon DEF StableInv
<1>2. ASSUME ShardOf[k] \in Done(s), Alive(cache[k].due, clock)
      PROVE  \E b \in DOMAIN work'[s] : \E e \in work'[s][b].ents :
                e.key = k /\ e.val = cache[k].val /\ e.due = cache[k].due
  <2>1. PICK b \in DOMAIN work[s] : \E e \in work[s][b].ents :
           e.key = k /\ e.val = cache[k].val /\ e.due = cache[k].due
    BY <1>2, Zenon DEF StableInv
  <2> QED
    BY <2>1, ZenonT(30)
<1> QED
  BY <1>1, <1>2, ZenonT(30)

\* A thread takes the time of its next shard.
LEMMA StampInv ==
    ASSUME TypeOK, NEW s \in Saves, NEW i \in DOMAIN th[s], Stamp(s, i),
           RangesInv(s), WorkInv(s), StableInv(s)
    PROVE  RangesInv(s)' /\ WorkInv(s)' /\ StableInv(s)'
<1> DEFINE t == th[s][i]
<1>1. t \in SaveThreads /\ t.first <= t.at /\ t.at <= t.last /\ t.st = "stamp"
  BY Zenon DEF TypeOK, RangesInv, Stamp
<1> HIDE DEF t
<1>2. /\ SetThread(s, i, Stamped(t))
      /\ clock' = clock /\ cache' = cache /\ work' = work /\ stable' = stable
  BY Zenon DEF Stamp, t
<1>3. clock \in Nat
  BY Zenon DEF TypeOK
<1>4. RangesInv(s)'
  BY <1>1, <1>2, <1>3, NextThread, ThreadRanges DEF t
<1>5. Done(s)' = Done(s)
  <2>1. Stamped(t) \in SaveThreads /\ DoneBy(Stamped(t)) = DoneBy(t)
    BY <1>1, NextThread, SameDone, Zenon
  <2> QED
    BY <1>2, <2>1, DoneSame, Zenon DEF t
<1>6. (\A j \in DOMAIN th'[s] : th'[s][j].st # "failed") => \A j \in DOMAIN th[s] : th[s][j].st # "failed"
  <2>1. Stamped(t) \in SaveThreads /\ t.st # "failed"
    BY <1>1, NextThread, Zenon
  <2> QED
    BY <1>2, <2>1, NoneFailed, Zenon DEF t
<1>7. WorkInv(s)'
  <2>1. work'[s] = work[s]
    BY <1>2, Zenon
  <2>2. /\ work'[s] \in Seq(Blocks)
        /\ (\A j \in DOMAIN th'[s] : th'[s][j].st # "failed") =>
              \A c \in DOMAIN work'[s] : work'[s][c].kind = "good"
    BY <1>6, <2>1, ZenonT(30) DEF WorkInv
  <2>3. \A c \in DOMAIN work'[s] : \A e \in work'[s][c].ents : ShardOf[e.key] \in Done(s)'
    BY <1>5, <2>1, Zenon DEF WorkInv
  <2>4. \A c, f \in DOMAIN work'[s] : \A d \in work'[s][c].ents : \A e \in work'[s][f].ents :
           d.key = e.key => c = f /\ d = e
    BY <2>1 DEF WorkInv, KeysOnce
  <2> QED
    BY <2>2, <2>3, <2>4, WorkNow, Zenon
<1>8. StableInv(s)'
  BY <1>2, <1>5, StableMore, Zenon
<1> QED
  BY <1>4, <1>7, <1>8, Zenon

\* A write that fails leaves a torn block without entries, and a failed thread.
LEMMA FlushInv ==
    ASSUME TypeOK, NEW s \in Saves, NEW i \in DOMAIN th[s], FlushFails(s, i),
           RangesInv(s), WorkInv(s), StableInv(s)
    PROVE  RangesInv(s)' /\ WorkInv(s)' /\ StableInv(s)'
<1> DEFINE t == th[s][i]
           b == [kind |-> "torn", time |-> 0, ents |-> {}]
           w == work[s]
<1>1. t \in SaveThreads /\ t.first <= t.at /\ t.at <= t.last /\ t.st = "iter"
  BY DEF TypeOK, RangesInv, FlushFails
<1>2. w \in Seq(Blocks) /\ b \in Blocks /\ b.ents = {}
  BY Zenon DEF WorkInv, Blocks
<1>3. work'[s] = Append(w, b)
  BY Zenon DEF FlushFails, TypeOK
<1> HIDE DEF t, b, w
<1>4. SetThread(s, i, Failed(t)) /\ clock' = clock /\ cache' = cache /\ stable' = stable
  BY Zenon DEF FlushFails, t
<1>5. clock \in Nat
  BY Zenon DEF TypeOK
<1>6. RangesInv(s)'
  <2>1. /\ Failed(t) \in SaveThreads /\ Failed(t).first = t.first /\ Failed(t).last = t.last
        /\ Failed(t).at = t.at /\ Failed(t).time = 0
    BY <1>1, NextThread, Zenon
  <2>2. Failed(t).time <= clock
    BY <1>5, <2>1
  <2> QED
    BY <1>1, <1>4, <2>1, <2>2, ThreadRanges, Zenon DEF t
<1>7. Done(s)' = Done(s)
  <2>1. Failed(t) \in SaveThreads /\ DoneBy(Failed(t)) = DoneBy(t)
    BY <1>1, NextThread, SameDone, Zenon
  <2> QED
    BY <1>4, <2>1, DoneSame, Zenon DEF t
<1>8. i \in DOMAIN th'[s] /\ th'[s][i].st = "failed"
  BY <1>1, <1>4, NextThread, ThreadStep DEF t
<1>9. /\ work'[s] \in Seq(Blocks) /\ DOMAIN work'[s] = DOMAIN w \cup {Len(w) + 1}
      /\ \A c \in DOMAIN w : work'[s][c] = w[c]
      /\ work'[s][Len(w) + 1] = b
  BY <1>2, <1>3, BlockAppended
<1>10. WorkInv(s)'
  <2>1. \A c \in DOMAIN work'[s] : work'[s][c].ents # {} => c \in DOMAIN w
    BY <1>2, <1>9, Zenon
  <2>2. \A c \in DOMAIN work'[s] : \A e \in work'[s][c].ents : ShardOf[e.key] \in Done(s)'
    BY <1>7, <1>9, <2>1, Zenon DEF WorkInv, w
  <2>3. \A c, f \in DOMAIN work'[s] : \A d \in work'[s][c].ents : \A e \in work'[s][f].ents :
           d.key = e.key => c = f /\ d = e
    BY <1>9, <2>1, SMTT(30) DEF WorkInv, w, KeysOnce
  <2> QED
    BY <1>8, <1>9, <2>2, <2>3, WorkNow, Zenon
<1>11. StableInv(s)'
  <2>1. \A c \in DOMAIN work[s] : c \in DOMAIN work'[s] /\ work'[s][c] = work[s][c]
    BY <1>9, Zenon DEF w
  <2> QED
    BY <1>4, <1>7, <2>1, StableMore, Zenon
<1> QED
  BY <1>6, <1>10, <1>11, Zenon

\* A thread saves a shard: its untouched keys come into the work file, once.
LEMMA ShardInv ==
    ASSUME TypeOK, ExpiryKept, NEW s \in Saves, NEW i \in DOMAIN th[s], SaveShard(s, i),
           RangesInv(s), WorkInv(s), StableInv(s)
    PROVE  RangesInv(s)' /\ WorkInv(s)' /\ StableInv(s)'
<1> DEFINE t == th[s][i]
           ents == Iter(t.at, t.time)
           b == [kind |-> "good", time |-> t.time, ents |-> ents]
           w == work[s]
<1>1. t \in SaveThreads /\ t.first <= t.at /\ t.at <= t.last /\ t.st = "iter" /\ t.time <= clock
  BY ZenonT(60) DEF TypeOK, RangesInv, SaveShard
<1>2. t.at \in Shards /\ t.time \in Nat /\ clock \in Nat
  BY <1>1, Zenon DEF TypeOK, SaveThreads
<1>3. SetThread(s, i, Past(t)) /\ clock' = clock /\ cache' = cache /\ stable' = stable
  BY Zenon DEF SaveShard
<1>4. IF ents = {} THEN work'[s] = w ELSE work'[s] = Append(w, b)
  BY Zenon DEF SaveShard, TypeOK
<1> HIDE DEF t
<1>5. /\ ents \subseteq BlockEnts
      /\ \A e \in ents : ShardOf[e.key] = t.at /\ e = SaveEntry(e.key, t.time)
  BY <1>2, IterType, SMTT(30)
<1>6. w \in Seq(Blocks) /\ b \in Blocks /\ b.ents = ents /\ b.kind = "good"
  BY <1>2, <1>5, Zenon DEF WorkInv, Blocks
<1>7. RangesInv(s)'
  <2>1. /\ Past(t) \in SaveThreads /\ Past(t).first = t.first /\ Past(t).last = t.last
        /\ Past(t).time = 0 /\ Past(t).at \in {t.at, t.at + 1}
        /\ t.at = t.last => Past(t).at = t.at
    BY <1>1, NextThread, Zenon
  <2>2. t.first <= Past(t).at /\ Past(t).at <= t.last
    BY <1>1, <2>1, SMTT(30) DEF SaveThreads, Shards
  <2> QED
    <3>1. Past(t).time <= clock
      BY <1>2, <2>1, SMTT(30)
    <3> QED
      BY <1>3, <2>1, <2>2, <3>1, ThreadRanges, ZenonT(30) DEF t
<1>8. Done(s)' = Done(s) \cup {t.at} /\ t.at \notin Done(s)
  <2>1. Past(t) \in SaveThreads /\ DoneBy(Past(t)) = DoneBy(t) \cup {t.at} /\ t.at \notin DoneBy(t)
    BY <1>1, NextThread, PastDone, Zenon
  <2>2. \A j \in DOMAIN th[s] : j # i => t.at \notin DoneBy(th[s][j])
    BY OthersElsewhere, Zenon DEF t
  <2> QED
    BY <1>3, <2>1, <2>2, ThreadDone, SMTT(30) DEF t
<1> HIDE DEF ents, b
<1>9. (\A j \in DOMAIN th'[s] : th'[s][j].st # "failed") => \A j \in DOMAIN th[s] : th[s][j].st # "failed"
  <2>1. Past(t) \in SaveThreads /\ t.st # "failed"
    BY <1>1, NextThread, Zenon
  <2> QED
    BY <1>3, <2>1, NoneFailed, Zenon DEF t
<1>10. /\ work'[s] \in Seq(Blocks)
       /\ \A c \in DOMAIN w : c \in DOMAIN work'[s] /\ work'[s][c] = w[c]
       /\ \A c \in DOMAIN work'[s] : c \in DOMAIN w \/ (c = Len(w) + 1 /\ work'[s][c] = b)
       /\ ents # {} => \E c \in DOMAIN work'[s] : work'[s][c] = b
  <2>1. CASE ents = {}
    BY <1>4, <1>6, <2>1, Zenon
  <2>2. CASE ents # {}
    <3>1. work'[s] = Append(w, b)
      BY <1>4, <2>2, Zenon
    <3> HIDE DEF w
    <3>2. /\ Append(w, b) \in Seq(Blocks) /\ DOMAIN Append(w, b) = DOMAIN w \cup {Len(w) + 1}
          /\ Append(w, b)[Len(w) + 1] = b
          /\ \A c \in DOMAIN w : Append(w, b)[c] = w[c]
      BY <1>6, BlockAppended, ZenonT(60)
    <3> QED
      BY <3>1, <3>2, Zenon
  <2> QED
    BY <2>1, <2>2, Zenon
<1>11. WorkInv(s)'
  <2>1. \A c \in DOMAIN work'[s] : \A e \in work'[s][c].ents :
           \/ c \in DOMAIN w /\ e \in w[c].ents /\ ShardOf[e.key] \in Done(s)
           \/ c = Len(w) + 1 /\ ShardOf[e.key] = t.at /\ e = SaveEntry(e.key, t.time)
    BY <1>5, <1>6, <1>10, Zenon DEF WorkInv
  <2>2. \A c \in DOMAIN work'[s] : \A e \in work'[s][c].ents : ShardOf[e.key] \in Done(s)'
    BY <1>8, <2>1, Zenon
  <2>3. ASSUME NEW c \in DOMAIN work'[s], NEW f \in DOMAIN work'[s],
               NEW d \in work'[s][c].ents, NEW e \in work'[s][f].ents, d.key = e.key
        PROVE  c = f /\ d = e
    <3>1. CASE ShardOf[d.key] = t.at
      BY <1>8, <2>1, <2>3, <3>1, Zenon
    <3>2. CASE ShardOf[d.key] # t.at
      <4>1. c \in DOMAIN w /\ f \in DOMAIN w /\ d \in w[c].ents /\ e \in w[f].ents
        BY <2>1, <2>3, <3>2, Zenon
      <4> QED
        <5>1. KeysOnce(w)
          BY Zenon DEF WorkInv
        <5> HIDE DEF w
        <5> QED
          BY <2>3, <4>1, <5>1, Zenon DEF KeysOnce
    <3> QED
      BY <3>1, <3>2, ZenonT(30)
  <2>4. (\A j \in DOMAIN th'[s] : th'[s][j].st # "failed") =>
           \A c \in DOMAIN work'[s] : work'[s][c].kind = "good"
    BY <1>6, <1>9, <1>10, Zenon DEF WorkInv
  <2> QED
    BY <1>10, <2>2, <2>3, <2>4, WorkNow, Zenon
<1>12. StableInv(s)'
  <2> SUFFICES ASSUME NEW k \in stable[s], ShardOf[k] \in Done(s)', ShardOf[k] \notin Done(s),
                      Alive(cache[k].due, clock)
               PROVE  \E c \in DOMAIN work'[s] : \E e \in work'[s][c].ents :
                         e.key = k /\ e.val = cache[k].val /\ e.due = cache[k].due
    BY <1>3, <1>10, StableMore, Zenon
  <2>1. cache[k] # None /\ k \in Keys /\ ShardOf[k] = t.at
    BY <1>8, Zenon DEF StableInv, TypeOK
  <2>2. cache[k].expires \in Nat /\ cache[k].due \in Nat
    BY <2>1, Zenon DEF TypeOK, Entries
  <2>3. Alive(cache[k].expires, t.time)
    BY <1>1, <1>2, <2>1, <2>2, SMTT(30) DEF Alive, ExpiryKept
  <2>4. SaveEntry(k, t.time) \in ents
    BY <2>1, <2>3, Zenon DEF ents, Iter
  <2>5. /\ SaveEntry(k, t.time).key = k /\ SaveEntry(k, t.time).val = cache[k].val
        /\ SaveEntry(k, t.time).due = cache[k].due
    BY Zenon DEF SaveEntry
  <2> QED
    BY <1>6, <1>10, <2>4, <2>5, ZenonT(60)
<1> QED
  BY <1>7, <1>11, <1>12, ZenonT(30)

\* Every step of the server keeps what makes a save complete.
LEMMA SaveInvStep ==
    TypeOK /\ TypeOK' /\ SaveInv /\ ExpiryKept /\ [Next]_vars => SaveInv'
<1> SUFFICES ASSUME TypeOK, TypeOK', SaveInv, ExpiryKept, [Next]_vars,
                    NEW r \in Saves, save'[r] = "threads"
             PROVE  mode' = "up" /\ RangesInv(r)' /\ WorkInv(r)' /\ StableInv(r)'
  BY Zenon DEF SaveInv
<1> DEFINE Kept == mode' = "up" /\ RangesInv(r)' /\ WorkInv(r)' /\ StableInv(r)'
<1>0. clock \in Nat /\ clock <= clock
  BY SMTT(30) DEF TypeOK
<1>1. ASSUME save[r] = "threads", mode' = "up", th'[r] = th[r], work'[r] = work[r],
             clock <= clock', stable'[r] \subseteq stable[r],
             \A k \in stable'[r] : cache'[k] = cache[k]
      PROVE  Kept
  BY <1>1, KeepSave, Zenon DEF SaveInv
<1>2. CASE Tick
  <2>1. clock <= clock'
    BY <1>0, <1>2, SMTT(30) DEF Tick
  <2> QED
    BY <1>1, <1>2, <2>1, Zenon DEF Tick, SaveInv
<1>3. ASSUME NEW k \in Keys, Delete(k) \/ \E ttl \in Ttls : Store(k, ttl) PROVE Kept
  <2>1. stable'[r] = stable[r] \ {k} /\ \A j \in Keys \ {k} : cache'[j] = cache[j]
    BY <1>3, SMTT(30) DEF Delete, Store, Forget, TypeOK
  <2>2. stable'[r] \subseteq stable[r] /\ \A j \in stable'[r] : cache'[j] = cache[j]
    BY <2>1, Zenon DEF TypeOK
  <2>3. UNCHANGED <<mode, clock, work, save, th>>
    BY <1>3, Zenon DEF Delete, Store
  <2> QED
    BY <1>0, <1>1, <2>2, <2>3, ZenonT(30) DEF SaveInv
<1>4. ASSUME NEW s \in Saves, NEW fast \in BOOLEAN, mode = "up", BeginSave(s, fast) PROVE Kept
  <2>1. CASE r = s
    BY <1>4, <2>1, BeginInv, Zenon DEF BeginSave
  <2>2. CASE r # s
    <3>1. save[r] = "threads" /\ th'[r] = th[r] /\ work'[r] = work[r] /\ stable'[r] = stable[r]
      BY <1>4, <2>2, Zenon DEF BeginSave, TypeOK
    <3> QED
      BY <1>0, <1>1, <1>4, <3>1, Zenon DEF BeginSave
  <2> QED
    BY <2>1, <2>2, Zenon
<1>5. ASSUME NEW s \in Saves, NEW i \in DOMAIN th[s],
             Stamp(s, i) \/ SaveShard(s, i) \/ FlushFails(s, i)
      PROVE  Kept
  <2>1. save[s] = "threads" /\ UNCHANGED <<mode, clock, cache, stable>>
    BY <1>5, ZenonT(30) DEF Stamp, SaveShard, FlushFails
  <2>2. mode = "up" /\ RangesInv(s) /\ WorkInv(s) /\ StableInv(s)
    BY <2>1, Zenon DEF SaveInv
  <2>3. CASE r = s
    BY <1>5, <2>1, <2>2, <2>3, StampInv, ShardInv, FlushInv, Zenon
  <2>4. CASE r # s
    <3>1. th'[r] = th[r] /\ save' = save
      <4>1. th[s][i] \in SaveThreads /\ th[s][i].at <= th[s][i].last
        BY <2>2 DEF TypeOK, RangesInv
      <4>2. \E u \in SaveThreads : SetThread(s, i, u)
        BY <1>5, <4>1, NextThread, Zenon DEF Stamp, SaveShard, FlushFails
      <4> QED
        BY <2>4, <4>2, ThreadStep, SMTT(30)
    <3>2. work'[r] = work[r]
      BY <1>5, <2>4, Zenon DEF Stamp, SaveShard, FlushFails, TypeOK
    <3> QED
      BY <1>0, <1>1, <2>1, <2>2, <3>1, <3>2, Zenon
  <2> QED
    BY <2>3, <2>4, Zenon
<1>6. ASSUME NEW s \in Saves, Rename(s) \/ GiveUp(s) \/ Answer(s) PROVE Kept
  <2>1. r # s /\ save[r] = "threads" /\ th'[r] = th[r] /\ work'[r] = work[r] /\ stable'[r] = stable[r]
    <3>1. PICK st \in {"idle", "done"} : save' = [save EXCEPT ![s] = st]
      BY <1>6, Zenon DEF Rename, GiveUp, Answer, Finish
    <3>2. r # s /\ save[r] = "threads"
      <4>1. save'[r] = IF r = s THEN st ELSE save[r]
        BY <3>1, ZenonT(30) DEF TypeOK
      <4> QED
        BY <4>1, Zenon
    <3>3. CASE Answer(s)
      BY <3>2, <3>3, Zenon DEF Answer
    <3>4. CASE Rename(s) \/ GiveUp(s)
      <4>1. PICK left \in {None, work[s]} : Finish(s, left) /\ stable' = [stable EXCEPT ![s] = {}]
        BY <3>4, Zenon DEF Rename, GiveUp
      <4> QED
        BY <3>2, <4>1, Zenon DEF Finish, TypeOK
    <3> QED
      BY <1>6, <3>3, <3>4, Zenon
  <2>2. UNCHANGED <<mode, clock, cache>>
    BY <1>6, Zenon DEF Rename, GiveUp, Answer
  <2> QED
    BY <1>0, <1>1, <2>1, <2>2, Zenon DEF SaveInv
<1>7. ASSUME Die PROVE Kept
  BY <1>7, Zenon DEF Die
<1>8. CASE Boot
  BY <1>8, Zenon DEF Boot, SaveInv
<1>9. CASE EndLoad \/ (LoadFails /\ loading.by # "boot") \/ (\E q \in Requests : RequestLoad(q)) \/ UNCHANGED vars
  <2>1. UNCHANGED <<clock, cache, work, save, th, stable>> /\ mode' \in {mode, "up"}
    BY <1>9, Zenon DEF EndLoad, LoadFails, RequestLoad, vars
  <2> QED
    BY <1>0, <1>1, <2>1, Zenon DEF SaveInv
<1>10. ASSUME NEW x \in loading.blocks, LoadBlock(x) PROVE Kept
  <2>1. UNCHANGED <<mode, clock, work, save, th>>
    BY <1>10, Zenon DEF LoadBlock
  <2>2. mode = "up" /\ loading.by # "boot"
    BY <2>1, Zenon DEF SaveInv, TypeOK
  <2>3. stable'[r] \subseteq stable[r] /\ \A k \in stable'[r] : cache'[k] = cache[k]
    <3> DEFINE ks == {e.key : e \in {f \in x.b.ents : ~Expired(x.b, f)}}
    <3>1. Forget(ks) /\ \A k \in Keys \ ks : cache'[k] = cache[k]
      BY <1>10, <2>2, Zenon DEF LoadBlock
    <3> HIDE DEF ks
    <3>2. stable'[r] = stable[r] \ ks
      BY <3>1, Zenon DEF Forget
    <3> QED
      BY <3>1, <3>2, Zenon DEF TypeOK
  <2> QED
    BY <1>0, <1>1, <2>1, <2>2, <2>3, Zenon
<1> QED
  BY <1>2, <1>3, <1>4, <1>5, <1>6, <1>7, <1>8, <1>9, <1>10, ZenonT(30)
     DEF Next, SaveStep, LoadStep, RequestSave, SigTerm, Exit, Crash, LoadFails, Saves

-----------------------------------------------------------------------------
(* The types.                                                               *)

\* What load_block stores of an entry that is not expired.
LEMMA LoadedType ==
    ASSUME TypeOK, NEW b \in Blocks, NEW e \in b.ents, ~Expired(b, e)
    PROVE  /\ Loaded(b, e) \in [val : Nat, expires : Nat, due : Nat]
           /\ Loaded(b, e).val = e.val /\ Loaded(b, e).due = e.due
           /\ Timed(b) /\ Loaded(b, e).expires # 0 => Loaded(b, e).expires = e.due
<1>1. e \in BlockEnts /\ b.time \in Nat /\ clock \in Nat
  BY Zenon DEF TypeOK, Blocks
<1>2. e.val \in Nat /\ e.due \in Nat /\ e.ttl \in Nat
  BY <1>1, Zenon DEF BlockEnts
<1> DEFINE ttl == IF e.ttl > 0 THEN b.time + e.ttl - clock ELSE 0
           ex == IF ttl > 0 THEN clock + ttl ELSE 0
<1>3. ttl \in Int /\ ex \in Nat
  BY <1>1, <1>2
<1>4. Loaded(b, e) = [val |-> e.val, due |-> e.due, expires |-> ex]
  BY Zenon DEF Loaded
<1>5. Timed(b) /\ ex # 0 => ex = e.due
  BY <1>1, <1>2 DEF Timed
<1> HIDE DEF ttl, ex
<1> QED
  BY <1>2, <1>3, <1>4, <1>5

\* What a block puts into the cache, key by key.
LEMMA LoadBlockCache ==
    ASSUME TypeOK, NEW x \in loading.blocks, LoadBlock(x)
    PROVE  /\ cache' \in [Keys -> Entries]
           /\ \A k \in Keys : cache'[k] = cache[k] \/ \E e \in x.b.ents :
                 e.key = k /\ ~Expired(x.b, e) /\ cache'[k] = Loaded(x.b, e)
<1> DEFINE ents == {e \in x.b.ents : ~Expired(x.b, e)}
           ks == {e.key : e \in ents}
           pick(k) == CHOOSE e \in ents : e.key = k
<1>1. x.b \in Blocks
  BY Zenon DEF TypeOK
<1>2. \A k \in ks : pick(k) \in ents /\ pick(k).key = k
  BY Zenon
<1>3. cache' = [k \in Keys |-> IF k \in ks THEN [j \in ks |-> Loaded(x.b, pick(j))][k] ELSE cache[k]]
  BY Zenon DEF LoadBlock
<1>4. cache' = [k \in Keys |-> IF k \in ks THEN Loaded(x.b, pick(k)) ELSE cache[k]]
  BY <1>3
<1> HIDE DEF pick
<1>5. \A k \in ks : Loaded(x.b, pick(k)) \in [val : Nat, expires : Nat, due : Nat]
  BY <1>1, <1>2, LoadedType, Zenon
<1>6. cache' \in [Keys -> Entries]
  BY <1>4, <1>5, Zenon DEF TypeOK, Entries
<1>7. ASSUME NEW k \in Keys
      PROVE cache'[k] = cache[k] \/ \E e \in x.b.ents :
               e.key = k /\ ~Expired(x.b, e) /\ cache'[k] = Loaded(x.b, e)
  BY <1>2, <1>4, Zenon
<1> QED
  BY <1>6, <1>7, Zenon

\* Every step of the server keeps the types.
LEMMA TypeStep == TypeOK /\ SaveInv /\ [Next]_vars => TypeOK'
<1> SUFFICES ASSUME TypeOK, SaveInv, [Next]_vars PROVE TypeOK'
  BY Zenon
<1>1. CASE Tick
  BY <1>1 DEF Tick, TypeOK, counters
<1>2. ASSUME NEW k \in Keys, NEW ttl \in Ttls, Store(k, ttl) PROVE TypeOK'
  <2> DEFINE due == IF ttl = 0 THEN 0 ELSE clock + ttl
  <2>1. due \in Nat /\ writes + 1 \in Nat
    BY DEF TypeOK
  <2>2. cache' = [cache EXCEPT ![k] = [val |-> writes + 1, expires |-> due, due |-> due]]
    BY <1>2, Zenon DEF Store
  <2> HIDE DEF due
  <2>3. cache' \in [Keys -> Entries]
    BY <2>1, <2>2, Zenon DEF TypeOK, Entries
  <2>4. stable' \in [Saves -> SUBSET Keys]
    BY <1>2, Zenon DEF Store, Forget, TypeOK
  <2> QED
    BY <1>2, <2>1, <2>3, <2>4 DEF Store, TypeOK, counters
<1>3. ASSUME NEW k \in Keys, Delete(k) PROVE TypeOK'
  <2>1. cache' \in [Keys -> Entries]
    BY <1>3, Zenon DEF Delete, TypeOK, Entries
  <2>2. stable' \in [Saves -> SUBSET Keys]
    BY <1>3, Zenon DEF Delete, Forget, TypeOK
  <2> QED
    BY <1>3, <2>1, <2>2 DEF Delete, TypeOK, counters
<1>4. ASSUME NEW s \in Requests, NEW fast \in BOOLEAN, RequestSave(s, fast) PROVE TypeOK'
  BY <1>4, BeginType, SMTT(30) DEF RequestSave, TypeOK, Saves
<1>5. ASSUME NEW lock \in Locks \cup {None}, SigTerm(lock) PROVE TypeOK'
  BY <1>5, BeginType, Zenon DEF SigTerm, Saves
<1>6. ASSUME NEW s \in Saves, NEW i \in DOMAIN th[s],
             Stamp(s, i) \/ SaveShard(s, i) \/ FlushFails(s, i)
      PROVE  TypeOK'
  BY <1>6, ThreadTypes, Zenon
<1>7. ASSUME NEW s \in Saves, Rename(s) \/ GiveUp(s) PROVE TypeOK'
  <2>1. save[s] = "threads" /\ work[s] \in Seq(Blocks)
    BY <1>7, Zenon DEF Rename, GiveUp, Joined, SaveInv, WorkInv
  <2>2. file' \in Seq(Blocks) \cup {None}
    BY <1>7, <2>1, Zenon DEF Rename, GiveUp, TypeOK
  <2>3. PICK left \in {None, work[s]} : Finish(s, left)
    BY <1>7, Zenon DEF Rename, GiveUp
  <2>4. NoThreads \in [DOMAIN NoThreads -> SaveThreads]
    BY Zenon DEF NoThreads
  <2>5. th' = [th EXCEPT ![s] = NoThreads]
    BY <2>3, Zenon DEF Finish
  <2>6. /\ th' \in [Saves -> {th'[r] : r \in Saves}]
        /\ \A r \in Saves : th'[r] \in [DOMAIN th'[r] -> SaveThreads]
    BY <2>4, <2>5 DEF TypeOK
  <2>7. /\ save' \in [Saves -> {"idle", "threads", "done"}]
        /\ work' \in [Saves -> Seq(Blocks) \cup {None}] /\ unremoved' \subseteq Saves
    BY <2>3, Zenon DEF Finish, TypeOK
  <2>8. stable' \in [Saves -> SUBSET Keys]
    BY <1>7, Zenon DEF Rename, GiveUp, TypeOK
  <2>9. UNCHANGED <<mode, clock, cache, held, loading, writes>>
    BY <1>7, Zenon DEF Rename, GiveUp
  <2> QED
    BY <2>2, <2>6, <2>7, <2>8, <2>9, Zenon DEF TypeOK
<1>8. ASSUME NEW s \in Saves, Answer(s) PROVE TypeOK'
  BY <1>8 DEF Answer, TypeOK
<1>9. ASSUME Die, UNCHANGED <<clock, file, work, unremoved, writes>> PROVE TypeOK'
  <2>1. NoThreads \in [DOMAIN NoThreads -> SaveThreads]
    BY Zenon DEF NoThreads
  <2>2. th' = [s \in Saves |-> NoThreads]
    BY <1>9, Zenon DEF Die
  <2>3. /\ th' \in [Saves -> {th'[r] : r \in Saves}]
        /\ \A r \in Saves : th'[r] \in [DOMAIN th'[r] -> SaveThreads]
    BY <2>1, <2>2, Zenon
  <2>4. cache' \in [Keys -> Entries] /\ save' \in [Saves -> {"idle", "threads", "done"}]
    BY <1>9, Zenon DEF Die, Entries
  <2>5. loading' \in [blocks : SUBSET [n : Nat, b : Blocks], by : Requests \cup {"boot", None}]
        /\ loading'.by = None
    BY <1>9, Zenon DEF Die, Undone
  <2>6. stable' \in [Saves -> SUBSET Keys] /\ held' = None /\ mode' = "down"
    BY <1>9, Zenon DEF Die
  <2> QED
    BY <1>9, <2>3, <2>4, <2>5, <2>6, Zenon DEF TypeOK
<1>10. CASE Exit \/ Crash
  BY <1>9, <1>10, Zenon DEF Exit, Crash
<1>11. ASSUME NEW by \in Requests \cup {"boot"}, file # None, BeginLoad(by)
       PROVE  /\ loading' \in [blocks : SUBSET [n : Nat, b : Blocks], by : Requests \cup {"boot", None}]
              /\ loading'.by = by
  <2>1. file \in Seq(Blocks)
    BY <1>11, Zenon DEF TypeOK
  <2>2. \A n \in DOMAIN file : n \in Nat /\ file[n] \in Blocks
    BY <2>1
  <2>3. {[n |-> n, b |-> file[n]] : n \in DOMAIN file} \subseteq [n : Nat, b : Blocks]
    BY <2>2
  <2> QED
    BY <1>11, <2>3, Zenon DEF BeginLoad
<1>12. CASE Boot
  <2>1. work' \in [Saves -> Seq(Blocks) \cup {None}] /\ unremoved' \subseteq Saves
    BY <1>12, Zenon DEF Boot, cleanwork, TypeOK
  <2>2. UNCHANGED <<clock, cache, file, save, th, held, writes, stable>>
    BY <1>12, Zenon DEF Boot
  <2>3. CASE file = None
    BY <1>12, <2>1, <2>2, <2>3, SMTT(30) DEF Boot, TypeOK
  <2>4. CASE file # None
    <3>1. mode' = "loading" /\ BeginLoad("boot")
      BY <1>12, <2>4, Zenon DEF Boot
    <3> QED
      BY <1>11, <2>1, <2>2, <2>4, <3>1 DEF TypeOK
  <2> QED
    BY <2>3, <2>4, Zenon
<1>13. ASSUME NEW r \in Requests, RequestLoad(r) PROVE TypeOK'
  <2>1. /\ loading' \in [blocks : SUBSET [n : Nat, b : Blocks], by : Requests \cup {"boot", None}]
        /\ loading'.by = r
    BY <1>11, <1>13, Zenon DEF RequestLoad
  <2> QED
    BY <1>13, <2>1 DEF RequestLoad, TypeOK
<1>14. CASE EndLoad
  BY <1>14 DEF EndLoad, Undone, TypeOK, counters
<1>15. CASE LoadFails
  <2>1. CASE loading.by = "boot"
    BY <1>9, <1>15, <2>1, Zenon DEF LoadFails
  <2>2. CASE loading.by # "boot"
    BY <1>15, <2>2 DEF LoadFails, Undone, TypeOK
  <2> QED
    BY <2>1, <2>2, Zenon
<1>16. ASSUME NEW x \in loading.blocks, LoadBlock(x) PROVE TypeOK'
  <2>1. cache' \in [Keys -> Entries]
    BY <1>16, LoadBlockCache, Zenon
  <2>2. stable' \in [Saves -> SUBSET Keys]
    BY <1>16 DEF LoadBlock, Forget, TypeOK
  <2>3. loading' \in [blocks : SUBSET [n : Nat, b : Blocks], by : Requests \cup {"boot", None}]
        /\ loading'.by = loading.by
    <3>1. loading' = [loading EXCEPT !.blocks = loading.blocks \ {x}]
      BY <1>16, Zenon DEF LoadBlock
    <3> QED
      BY <3>1, Zenon DEF TypeOK
  <2>4. UNCHANGED <<mode, clock, file, work, unremoved, save, th, held, writes>>
    BY <1>16, Zenon DEF LoadBlock
  <2> QED
    BY <2>1, <2>2, <2>3, <2>4, SMTT(30) DEF TypeOK
<1>17. CASE UNCHANGED vars
  BY <1>17 DEF vars, TypeOK
<1> QED
  BY Zenon, <1>1, <1>2, <1>3, <1>4, <1>5, <1>6, <1>7, <1>8, <1>10, <1>12, <1>13, <1>14, <1>15,
     <1>16, <1>17 DEF Next, SaveStep, LoadStep
=============================================================================
