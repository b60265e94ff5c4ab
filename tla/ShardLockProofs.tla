-------------------------- MODULE ShardLockProofs --------------------------
(***************************************************************************)
(* Theorems about ShardLock, for any number of threads and shards.         *)
(***************************************************************************)
EXTENDS ShardLock, TLAPS

USE LockAssumption

\* Every step of lock, the operations, pogocache_begin and pogocache_end keeps
\* the types.
LEMMA TypeStep == TypeOK /\ [Next]_vars => TypeOK'
<1> SUFFICES ASSUME TypeOK, [Next]_vars PROVE TypeOK'
  BY Zenon
<1> USE DEF TypeOK, Goto
<1>1. ASSUME NEW t \in Threads, Begin(t) PROVE TypeOK'
  BY <1>1, Zenon DEF Begin
<1>2. ASSUME NEW t \in Threads, CallAny(t) PROVE TypeOK'
  BY <1>2 DEF CallAny, Call
<1>3. ASSUME NEW t \in Threads, Acquire(t) PROVE TypeOK'
  BY <1>3, SMTT(30) DEF Acquire
<1>4. ASSUME NEW t \in Threads, Reacquire(t) PROVE TypeOK'
  BY <1>4, Zenon DEF Reacquire
<1>5. ASSUME NEW t \in Threads, ReadCounter(t) PROVE TypeOK'
  BY <1>5, Zenon DEF ReadCounter
<1>6. ASSUME NEW t \in Threads, WriteCounter(t) PROVE TypeOK'
  <2>1. (tmp[t] + 1) % Wrap \in Nat /\ (incrs[tgt[t]] + 1) % Wrap \in Nat
    OBVIOUS
  <2> QED
    BY <1>6, <2>1, Zenon DEF WriteCounter
<1>7. ASSUME NEW t \in Threads, ScanShard(t) PROVE TypeOK'
  BY <1>7, Zenon DEF ScanShard
<1>8. ASSUME NEW t \in Threads, Return(t) PROVE TypeOK'
  <2>1. lock' \in [Shards -> Threads \cup {Free, NoBatch}]
    BY <1>8, Zenon DEF Return
  <2>2. tgt' \in [Threads -> Shards]
    <3>1. 0 \in Shards
      BY DEF Shards
    <3> QED
      BY <1>8, <3>1 DEF Return
  <2>3. usebatch' \in [Threads -> BOOLEAN] /\ scan' \in [Threads -> BOOLEAN]
    BY <1>8, ZenonT(30) DEF Return
  <2>4. pc' \in [Threads -> {"idle", "lock", "in", "out", "end"}]
    BY <1>8 DEF Return
  <2> QED
    BY <1>8, <2>1, <2>2, <2>3, <2>4, Zenon DEF Return
<1>9. ASSUME NEW t \in Threads, End(t) \/ Unlock(t) \/ Ended(t) PROVE TypeOK'
  <2>1. CASE End(t)
    BY <2>1, Zenon DEF End
  <2>2. CASE Unlock(t)
    <3>1. cur[t] \in Shards
      BY <2>2, Zenon DEF Unlock
    <3> QED
      BY <2>2, <3>1, Zenon DEF Unlock
  <2>3. CASE Ended(t)
    BY <2>3, Zenon DEF Ended
  <2> QED
    BY <1>9, <2>1, <2>2, <2>3, Zenon
<1>10. CASE UNCHANGED vars
  BY <1>10, Zenon DEF vars
<1> QED
  BY <1>1, <1>2, <1>3, <1>4, <1>5, <1>6, <1>7, <1>8, <1>9, <1>10, Zenon
     DEF Next, Start, Continue

\* Every reachable state is well typed.
THEOREM TypeCorrect == Spec => []TypeOK
<1>1. Init => TypeOK
  BY DEF Init, TypeOK, Shards
<1> QED
  BY <1>1, TypeStep, PTL DEF Spec

\* Who runs an operation, or has a batch, in a shard is alone there.
LEMMA Exclusive == TypeOK /\ OwnerInv => MutualExclusion
<1> SUFFICES ASSUME TypeOK, OwnerInv, NEW t \in Threads, NEW u \in Threads,
                    NEW s \in Shards, Holds(t, s), Holds(u, s)
             PROVE  t = u
  BY Zenon DEF MutualExclusion
<1> QED
  BY DEF TypeOK, OwnerInv, Holds, InOp

-----------------------------------------------------------------------------
\* Every step keeps the ownership part of the invariant.
LEMMA OwnerStep == TypeOK /\ LockInv /\ [Next]_vars => OwnerInv'
<1> SUFFICES ASSUME TypeOK, OwnerInv, CallInv, ListInv, [Next]_vars
             PROVE  OwnerInv'
  BY Zenon DEF LockInv
<1> USE DEF TypeOK, Goto, OwnerInv, InOp
<1>1. ASSUME NEW t \in Threads, Begin(t) PROVE OwnerInv'
  BY <1>1, Zenon DEF Begin
<1>2. ASSUME NEW t \in Threads, CallAny(t) PROVE OwnerInv'
  BY <1>2 DEF CallAny, Call
<1>3. ASSUME NEW t \in Threads, Acquire(t) PROVE OwnerInv'
  BY <1>3 DEF Acquire
<1>4. ASSUME NEW t \in Threads, Reacquire(t) PROVE OwnerInv'
  BY <1>4 DEF Reacquire
<1>5. ASSUME NEW t \in Threads, ReadCounter(t) PROVE OwnerInv'
  BY <1>5 DEF ReadCounter
<1>6. ASSUME NEW t \in Threads, WriteCounter(t) \/ ScanShard(t) PROVE OwnerInv'
  <2>1. CASE WriteCounter(t)
    BY <2>1, SMTT(30) DEF WriteCounter
  <2>2. CASE ScanShard(t)
    BY <2>2, SMTT(30) DEF ScanShard
  <2> QED
    BY <1>6, <2>1, <2>2, Zenon
<1>7. ASSUME NEW t \in Threads, Return(t) PROVE OwnerInv'
  <2>1. ~InOp(t)' /\ \A u \in Threads : u # t =>
          (InOp(u)' <=> InOp(u)) /\ tgt'[u] = tgt[u] /\ usebatch'[u] = usebatch[u]
    BY <1>7 DEF Return
  <2>2. \A u \in Threads : u # t /\ InOp(u) => lock'[tgt[u]] = lock[tgt[u]]
    BY <1>7 DEF Return
  <2> HIDE DEF InOp
  <2> QED
    BY <2>1, <2>2
<1>8. ASSUME NEW t \in Threads, End(t) \/ Ended(t) PROVE OwnerInv'
  <2>1. ~InOp(t) /\ ~InOp(t)' /\ UNCHANGED <<lock, tgt, usebatch>>
    BY <1>8 DEF End, Ended
  <2>2. \A u \in Threads : u # t => (InOp(u)' <=> InOp(u))
    BY <1>8 DEF End, Ended
  <2> HIDE DEF InOp
  <2> QED
    BY <2>1, <2>2, Zenon
<1>9. ASSUME NEW t \in Threads, Unlock(t) PROVE OwnerInv'
  <2>1. lock[cur[t]] = t /\ ~InOp(t)
    BY <1>9, Zenon DEF Unlock, CallInv, ListInv, ListOf, Top
  <2> QED
    BY <1>9, <2>1, Zenon DEF Unlock
<1>10. CASE UNCHANGED vars
  BY <1>10, Zenon DEF vars
<1> QED
  BY <1>1, <1>2, <1>3, <1>4, <1>5, <1>6, <1>7, <1>8, <1>9, <1>10, Zenon
     DEF Next, Start, Continue

\* Every step keeps the correspondence of operations and open batches.
LEMMA CallStep == TypeOK /\ CallInv /\ [Next]_vars => CallInv'
<1> SUFFICES ASSUME TypeOK, CallInv, [Next]_vars PROVE CallInv'
  BY Zenon
<1> USE DEF TypeOK, Goto, CallInv
<1>1. ASSUME NEW t \in Threads, Begin(t) \/ CallAny(t) PROVE CallInv'
  BY <1>1, SMTT(30) DEF Begin, CallAny, Call
<1>2. ASSUME NEW t \in Threads, Acquire(t) \/ Reacquire(t) PROVE CallInv'
  BY <1>2 DEF Acquire, Reacquire
<1>3. ASSUME NEW t \in Threads, ReadCounter(t) \/ WriteCounter(t) \/ ScanShard(t)
      PROVE CallInv'
  BY <1>3 DEF ReadCounter, WriteCounter, ScanShard
<1>4. ASSUME NEW t \in Threads, Return(t) PROVE CallInv'
  BY <1>4 DEF Return
<1>5. ASSUME NEW t \in Threads, End(t) \/ Unlock(t) \/ Ended(t) PROVE CallInv'
  BY <1>5 DEF End, Unlock, Ended
<1>6. CASE UNCHANGED vars
  BY <1>6, Zenon DEF vars
<1> QED
  BY <1>1, <1>2, <1>3, <1>4, <1>5, <1>6, Zenon DEF Next, Start, Continue
\* The list of a thread's batch is as it was when none of its shards, nor their
\* links, nor its first shard has changed.
LEMMA ListFrame ==
    ASSUME TypeOK, TypeOK', NEW t \in Threads, ListOf(t),
           open'[t] => open[t], Top(t)' = Top(t),
           \A s \in Shards : lock'[s] = t <=> lock[s] = t,
           \A s \in Shards : lock[s] = t => next'[s] = next[s]
    PROVE  ListOf(t)'
<1> SUFFICES ASSUME open'[t] PROVE ListOf(t)'
  BY Zenon DEF ListOf
<1> DEFINE L == {s \in Shards : lock[s] = t}
<1>1. open[t] /\ L = {s \in Shards : lock'[s] = t}
  BY Zenon
<1>2. Top(t) # Nil => Top(t) \in Shards /\ lock[Top(t)] = t
  BY <1>1, SMTT(30) DEF ListOf, TypeOK, Top
<1>3. Top(t)' # Nil => lock'[Top(t)'] = t
  BY <1>2, Zenon
<1>4. ASSUME NEW s \in Shards, lock'[s] = t, next'[s] # Nil
      PROVE  lock'[next'[s]] = t /\ next'[s] # Top(t)'
  <2>1. next[s] \in Shards /\ lock[next[s]] = t /\ next[s] # Top(t)
    BY <1>1, <1>4 DEF ListOf, TypeOK
  <2> QED
    BY <1>4, <2>1, Zenon
<1>5. ASSUME NEW r \in Shards, NEW s \in Shards, lock'[r] = t, lock'[s] = t,
             next'[r] = next'[s], next'[r] # Nil
      PROVE  r = s
  BY <1>1, <1>5 DEF ListOf
<1>6. ASSUME NEW S \in SUBSET Shards, Top(t)' # Nil => Top(t)' \in S,
             \A s \in S : lock'[s] = t /\ next'[s] # Nil => next'[s] \in S
      PROVE  \A s \in Shards : lock'[s] = t => s \in S
  <2>1. \A s \in S : lock[s] = t /\ next[s] # Nil => next[s] \in S
    BY <1>6, Zenon
  <2> QED
    BY <1>1, <1>6, <2>1 DEF ListOf
<1> QED
  BY <1>3, <1>4, <1>5, <1>6, Zenon DEF ListOf

\* lock pushes the shard it has acquired for a batch onto the batch's list.
LEMMA ListPush ==
    ASSUME TypeOK, TypeOK', NEW t \in Threads, ListOf(t), CallInv, Acquire(t),
           usebatch[t]
    PROVE  ListOf(t)'
<1> DEFINE n == tgt[t]
<1>1. /\ n \in Shards /\ lock[n] = Free /\ open[t] /\ Top(t) = head[t]
      /\ Top(t)' = n /\ lock'[n] = t /\ next'[n] = head[t]
      /\ \A s \in Shards : s # n => lock'[s] = lock[s] /\ next'[s] = next[s]
  BY DEF Acquire, Goto, TypeOK, CallInv, Top
<1> HIDE DEF n
<1>2. head[t] # Nil => head[t] \in Shards /\ lock[head[t]] = t /\ head[t] # n
  BY <1>1 DEF ListOf, TypeOK
<1>3. \A s \in Shards : lock[s] = t /\ next[s] # Nil =>
          next[s] \in Shards /\ lock[next[s]] = t /\ next[s] # n
            /\ next[s] # head[t]
  BY <1>1 DEF ListOf, TypeOK
<1>4. ASSUME NEW s \in Shards, lock'[s] = t, next'[s] # Nil
      PROVE  lock'[next'[s]] = t /\ next'[s] # Top(t)'
  <2>1. CASE s = n
    BY <1>1, <1>2, <1>4, <2>1
  <2>2. CASE s # n
    BY <1>1, <1>3, <1>4, <2>2
  <2> QED
    BY <2>1, <2>2, Zenon
<1>5. ASSUME NEW r \in Shards, NEW s \in Shards, lock'[r] = t, lock'[s] = t,
             next'[r] = next'[s], next'[r] # Nil
      PROVE  r = s
  <2>1. CASE r = n \/ s = n
    BY <1>1, <1>3, <1>5, <2>1, SMTT(30)
  <2>2. CASE r # n /\ s # n
    BY <1>1, <1>5, <2>2 DEF ListOf
  <2> QED
    BY <2>1, <2>2, Zenon
<1>6. ASSUME NEW S \in SUBSET Shards, Top(t)' # Nil => Top(t)' \in S,
             \A s \in S : lock'[s] = t /\ next'[s] # Nil => next'[s] \in S
      PROVE  \A s \in Shards : lock'[s] = t => s \in S
  <2>1. n \in S
    BY <1>1, <1>6, Zenon
  <2>2. head[t] # Nil => head[t] \in S
    BY <1>1, <1>6, <2>1, Zenon
  <2>3. \A s \in S : lock[s] = t /\ next[s] # Nil => next[s] \in S
    BY <1>1, <1>6, SMTT(30)
  <2>4. \A s \in Shards : lock[s] = t => s \in S
    BY <1>1, <2>2, <2>3, SMTT(30) DEF ListOf
  <2> QED
    BY <1>1, <2>1, <2>4, Zenon
<1> QED
  BY <1>1, <1>4, <1>5, <1>6 DEF ListOf

\* pogocache_end pops the first shard and unlocks it.
LEMMA ListPop ==
    ASSUME TypeOK, TypeOK', NEW t \in Threads, ListOf(t), CallInv, Unlock(t)
    PROVE  ListOf(t)'
<1> DEFINE c == cur[t]
<1>1. /\ c \in Shards /\ open[t] /\ Top(t) = c /\ Top(t)' = next[c]
      /\ lock'[c] = Free
      /\ \A s \in Shards : s # c => lock'[s] = lock[s] /\ next'[s] = next[s]
  BY SMTT(30) DEF Unlock, TypeOK, CallInv, Top
<1> HIDE DEF c
<1>2. lock[c] = t
  BY <1>1, Zenon DEF ListOf
<1>3. \A s \in Shards : lock[s] = t /\ next[s] # Nil =>
          next[s] \in Shards /\ lock[next[s]] = t /\ next[s] # c
  BY <1>1, SMTT(30) DEF ListOf, TypeOK
<1>4. Top(t)' # Nil => lock'[Top(t)'] = t
  BY <1>1, <1>2, <1>3
<1>5. ASSUME NEW s \in Shards, lock'[s] = t, next'[s] # Nil
      PROVE  lock'[next'[s]] = t /\ next'[s] # Top(t)'
  <2>1. s # c /\ lock[s] = t /\ next'[s] = next[s]
    BY <1>1, <1>5, Zenon
  <2>2. next[s] # next[c]
    BY <1>1, <1>2, <1>5, <2>1, Zenon DEF ListOf
  <2> QED
    BY <1>1, <1>3, <1>5, <2>1, <2>2
<1>6. ASSUME NEW r \in Shards, NEW s \in Shards, lock'[r] = t, lock'[s] = t,
             next'[r] = next'[s], next'[r] # Nil
      PROVE  r = s
  <2>1. r # c /\ s # c
    BY <1>1, <1>6
  <2> QED
    BY <1>1, <1>6, <2>1 DEF ListOf
<1>7. ASSUME NEW S \in SUBSET Shards, Top(t)' # Nil => Top(t)' \in S,
             \A s \in S : lock'[s] = t /\ next'[s] # Nil => next'[s] \in S
      PROVE  \A s \in Shards : lock'[s] = t => s \in S
  <2> DEFINE U == S \cup {c}
  <2>1. U \in SUBSET Shards /\ Top(t) \in U
    BY <1>1, Zenon
  <2>2. \A s \in U : lock[s] = t /\ next[s] # Nil => next[s] \in U
    BY <1>1, <1>7, SMTT(30)
  <2>3. \A s \in Shards : lock[s] = t => s \in U
    BY <1>1, <2>1, <2>2, Zenon DEF ListOf
  <2> QED
    BY <1>1, <2>3
<1> QED
  BY <1>4, <1>5, <1>6, <1>7, Zenon DEF ListOf
\* Every step keeps the list of every batch.
LEMMA ListStep == TypeOK /\ LockInv /\ [Next]_vars => ListInv'
<1> SUFFICES ASSUME TypeOK, OwnerInv, CallInv, ListInv, NothingLeaked,
                    [Next]_vars, NEW u \in Threads
             PROVE  ListOf(u)'
  BY Zenon DEF LockInv, ListInv
<1>1. TypeOK' /\ ListOf(u)
  BY TypeStep, Zenon DEF ListInv
<1> USE DEF TypeOK, Goto, Top
<1>2. ASSUME NEW t \in Threads, Begin(t) PROVE ListOf(u)'
  <2>1. CASE u = t
    <3>1. Top(t)' = Nil /\ \A s \in Shards : lock'[s] # t
      BY <1>2, Zenon DEF Begin, NothingLeaked
    <3> QED
      BY <2>1, <3>1, Zenon DEF ListOf
  <2>2. CASE u # t
    BY <1>1, <1>2, <2>2, ListFrame, SMTT(30) DEF Begin
  <2> QED
    BY <2>1, <2>2, Zenon
<1>3. ASSUME NEW t \in Threads, CallAny(t) PROVE ListOf(u)'
  BY <1>1, <1>3, ListFrame DEF CallAny, Call
<1>4. ASSUME NEW t \in Threads, Acquire(t) PROVE ListOf(u)'
  <2>1. CASE usebatch[t] /\ u = t
    BY <1>1, <1>4, <2>1, ListPush, Zenon
  <2>2. CASE ~(usebatch[t] /\ u = t)
    <3>1. Top(u)' = Top(u) /\ open' = open
      BY <1>4, <2>2, Zenon DEF Acquire
    <3>2. \A s \in Shards : lock'[s] = u <=> lock[s] = u
      BY <1>4, <2>2 DEF Acquire
    <3>3. \A s \in Shards : lock[s] = u => next'[s] = next[s]
      BY <1>4, <2>2, Zenon DEF Acquire
    <3> QED
      BY <1>1, <3>1, <3>2, <3>3, ListFrame, Zenon
  <2> QED
    BY <2>1, <2>2, Zenon
<1>5. ASSUME NEW t \in Threads, Reacquire(t) PROVE ListOf(u)'
  BY <1>1, <1>5, ListFrame, SMTT(30) DEF Reacquire
<1>6. ASSUME NEW t \in Threads, ReadCounter(t) PROVE ListOf(u)'
  BY <1>1, <1>6, ListFrame, Zenon DEF ReadCounter
<1>7. ASSUME NEW t \in Threads, WriteCounter(t) \/ ScanShard(t)
      PROVE  ListOf(u)'
  <2>1. CASE WriteCounter(t)
    BY <1>1, <2>1, ListFrame, SMTT(30) DEF WriteCounter
  <2>2. CASE ScanShard(t)
    BY <1>1, <2>2, ListFrame, SMTT(30) DEF ScanShard
  <2> QED
    BY <1>7, <2>1, <2>2, Zenon
<1>8. ASSUME NEW t \in Threads, Return(t) PROVE ListOf(u)'
  <2>1. Top(u)' = Top(u) /\ open' = open /\ next' = next
    BY <1>8 DEF Return
  <2>2. \A s \in Shards : lock'[s] = u <=> lock[s] = u
    BY <1>8, SMTT(30) DEF Return, OwnerInv, InOp
  <2> QED
    BY <1>1, <2>1, <2>2, ListFrame, Zenon
<1>9. ASSUME NEW t \in Threads, End(t) PROVE ListOf(u)'
  BY <1>1, <1>9, ListFrame, SMTT(30) DEF End
<1>10. ASSUME NEW t \in Threads, Unlock(t) PROVE ListOf(u)'
  <2>1. CASE u = t
    BY <1>1, <1>10, <2>1, ListPop, Zenon
  <2>2. CASE u # t
    <3>1. cur[t] \in Shards /\ lock[cur[t]] = t
      BY <1>10 DEF Unlock, CallInv, ListInv, ListOf
    <3>2. Top(u)' = Top(u) /\ open' = open
      BY <1>10, <2>2, Zenon DEF Unlock
    <3>3. \A s \in Shards : lock'[s] = u <=> lock[s] = u
      BY <1>10, <2>2, <3>1, Zenon DEF Unlock
    <3>4. \A s \in Shards : lock[s] = u => next'[s] = next[s]
      BY <1>10, <2>2, <3>1, Zenon DEF Unlock
    <3> QED
      BY <1>1, <3>2, <3>3, <3>4, ListFrame, Zenon
  <2> QED
    BY <2>1, <2>2, Zenon
<1>11. ASSUME NEW t \in Threads, Ended(t) PROVE ListOf(u)'
  <2>1. CASE u = t
    BY <1>11, <2>1, Zenon DEF Ended, ListOf
  <2>2. CASE u # t
    BY <1>1, <1>11, <2>2, ListFrame, SMTT(30) DEF Ended
  <2> QED
    BY <2>1, <2>2, Zenon
<1>12. CASE UNCHANGED vars
  BY <1>1, <1>12, ListFrame, Zenon DEF vars
<1> QED
  BY <1>2, <1>3, <1>4, <1>5, <1>6, <1>7, <1>8, <1>9, <1>10, <1>11, <1>12, Zenon
     DEF Next, Start, Continue

\* pogocache_end has unlocked every shard of the batch when its cursor is null.
LEMMA LeakStep == TypeOK /\ LockInv /\ [Next]_vars => NothingLeaked'
<1> SUFFICES ASSUME TypeOK, OwnerInv, CallInv, ListInv, NothingLeaked,
                    [Next]_vars
             PROVE  NothingLeaked'
  BY Zenon DEF LockInv
<1> USE DEF TypeOK, Goto, NothingLeaked
<1>1. ASSUME NEW t \in Threads, Begin(t) \/ CallAny(t) PROVE NothingLeaked'
  BY <1>1, SMTT(30) DEF Begin, CallAny, Call
<1>2. ASSUME NEW t \in Threads, Acquire(t) PROVE NothingLeaked'
  BY <1>2, SMTT(30) DEF Acquire, CallInv
<1>3. ASSUME NEW t \in Threads,
             Reacquire(t) \/ ReadCounter(t) \/ WriteCounter(t) \/ ScanShard(t)
      PROVE  NothingLeaked'
  BY <1>3 DEF Reacquire, ReadCounter, WriteCounter, ScanShard
<1>4. ASSUME NEW t \in Threads, Return(t) PROVE NothingLeaked'
  <2>1. ~usebatch[t] => lock[tgt[t]] = NoBatch
    BY <1>4, Zenon DEF Return, OwnerInv, InOp
  <2> QED
    BY <1>4, <2>1, SMTT(30) DEF Return
<1>5. ASSUME NEW t \in Threads, End(t) PROVE NothingLeaked'
  BY <1>5, Zenon DEF End
<1>6. ASSUME NEW t \in Threads, Unlock(t) PROVE NothingLeaked'
  BY <1>6, Zenon DEF Unlock
<1>7. ASSUME NEW t \in Threads, Ended(t) PROVE NothingLeaked'
  <2>1. ListOf(t) /\ open[t] /\ Top(t) = Nil
    BY <1>7, Zenon DEF Ended, ListInv, CallInv, Top
  <2>2. \A s \in Shards : lock[s] # t
    <3>1. \A S \in SUBSET Shards :
            (\A s \in S : lock[s] = t /\ next[s] # Nil => next[s] \in S)
              => \A s \in Shards : lock[s] = t => s \in S
      BY <2>1, Zenon DEF ListOf
    <3> DEFINE E == {s \in Shards : FALSE}
    <3>2. /\ E \in SUBSET Shards
          /\ \A s \in E : lock[s] = t /\ next[s] # Nil => next[s] \in E
      BY Zenon
    <3> HIDE DEF E
    <3>3. \A s \in Shards : lock[s] = t => s \in E
      BY <3>1, <3>2, Zenon
    <3> QED
      BY <3>3, Zenon DEF E
  <2> QED
    BY <1>7, <2>2, Zenon DEF Ended
<1>8. CASE UNCHANGED vars
  BY <1>8, Zenon DEF vars
<1> QED
  BY <1>1, <1>2, <1>3, <1>4, <1>5, <1>6, <1>7, <1>8, Zenon DEF Next, Start, Continue

\* A counter that a thread has loaded stays as it is until the thread stores.
LEMMA LoadedStep ==
    TypeOK /\ LockInv /\ [Next]_vars => LoadedInv' /\ NoLostIncrement'
<1> SUFFICES ASSUME TypeOK, LockInv, [Next]_vars
             PROVE  LoadedInv' /\ NoLostIncrement'
  BY Zenon
<1>1. OwnerInv /\ CallInv /\ ListInv /\ LoadedInv /\ NoLostIncrement
        /\ MutualExclusion
  BY Exclusive, Zenon DEF LockInv
<1> USE DEF TypeOK, Goto, LoadedInv, NoLostIncrement
<1>2. ASSUME NEW t \in Threads, Begin(t) PROVE LoadedInv' /\ NoLostIncrement'
  BY <1>1, <1>2, SMTT(30) DEF Begin
<1>3. ASSUME NEW t \in Threads, CallAny(t) PROVE LoadedInv' /\ NoLostIncrement'
  BY <1>1, <1>3, SMTT(30) DEF CallAny, Call
<1>4. ASSUME NEW t \in Threads, Acquire(t) PROVE LoadedInv' /\ NoLostIncrement'
  BY <1>1, <1>4, SMTT(30) DEF Acquire
<1>5. ASSUME NEW t \in Threads, Reacquire(t) \/ ScanShard(t)
      PROVE LoadedInv' /\ NoLostIncrement'
  <2>1. CASE Reacquire(t)
    BY <1>1, <2>1 DEF Reacquire
  <2>2. CASE ScanShard(t)
    <3>1. scan[t] /\ pc[t] = "in" /\ pc' = [pc EXCEPT ![t] = "out"]
            /\ UNCHANGED <<lock, open, tgt, scan, loaded, tmp, val, incrs>>
      BY <2>2, Zenon DEF ScanShard
    <3> QED
      BY <1>1, <3>1
  <2> QED
    BY <1>5, <2>1, <2>2, Zenon
<1>6. ASSUME NEW t \in Threads, ReadCounter(t)
      PROVE LoadedInv' /\ NoLostIncrement'
  <2>1. IF usebatch[t] THEN open[t] /\ lock[tgt[t]] = t ELSE ~open[t]
    BY <1>1, <1>6, Zenon DEF ReadCounter, CallInv, OwnerInv, InOp
  <2> QED
    BY <1>1, <1>6, <2>1, SMTT(30) DEF ReadCounter
<1>7. ASSUME NEW t \in Threads, WriteCounter(t)
      PROVE LoadedInv' /\ NoLostIncrement'
  <2>1. Holds(t, tgt[t]) /\ loaded[t] = tgt[t] /\ tmp[t] = val[tgt[t]]
    BY <1>1, <1>7, SMTT(30) DEF WriteCounter, Holds
  <2>2. \A u \in Threads : u # t /\ loaded[u] # Nil => loaded[u] # tgt[t]
    BY <1>1, <2>1, SMTT(30) DEF MutualExclusion, Holds
  <2>3. LoadedInv'
    BY <1>1, <1>7, <2>2, SMTT(30) DEF WriteCounter
  <2>4. NoLostIncrement'
    BY <1>1, <1>7, <2>1, Zenon DEF WriteCounter
  <2> QED
    BY <2>3, <2>4, Zenon
<1>8. ASSUME NEW t \in Threads, Return(t) PROVE LoadedInv' /\ NoLostIncrement'
  <2>1. ~usebatch[t] => lock[tgt[t]] = NoBatch
    BY <1>1, <1>8, Zenon DEF Return, OwnerInv, InOp
  <2>2. /\ \A s \in Shards : lock[s] \in Threads => lock'[s] = lock[s]
        /\ \A u \in Threads : u # t => /\ pc'[u] = pc[u] /\ tgt'[u] = tgt[u]
                                       /\ scan'[u] = scan[u]
        /\ pc[t] = "out" /\ pc'[t] # "end"
        /\ UNCHANGED <<open, loaded, tmp, val, incrs>>
    BY <1>8, <2>1, SMTT(30) DEF Return
  <2> QED
    BY <1>1, <2>2, SMTT(30)
<1>9. ASSUME NEW t \in Threads, End(t) PROVE LoadedInv' /\ NoLostIncrement'
  BY <1>1, <1>9, SMTT(30) DEF End
<1>10. ASSUME NEW t \in Threads, Unlock(t) PROVE LoadedInv' /\ NoLostIncrement'
  <2>1. lock[cur[t]] = t
    BY <1>1, <1>10, Zenon DEF Unlock, CallInv, ListInv, ListOf, Top
  <2> QED
    BY <1>1, <1>10, <2>1, SMTT(30) DEF Unlock
<1>11. ASSUME NEW t \in Threads, Ended(t) PROVE LoadedInv' /\ NoLostIncrement'
  BY <1>1, <1>11, SMTT(30) DEF Ended
<1>12. CASE UNCHANGED vars
  BY <1>1, <1>12, Zenon DEF vars
<1> QED
  BY <1>2, <1>3, <1>4, <1>5, <1>6, <1>7, <1>8, <1>9, <1>10, <1>11, <1>12, Zenon
     DEF Next, Start, Continue

-----------------------------------------------------------------------------
\* The invariant holds in every reachable state.
THEOREM LockInvariant == Spec => [](TypeOK /\ LockInv)
<1>1. Init => LockInv
  BY DEF Init, LockInv, OwnerInv, CallInv, ListInv, ListOf, LoadedInv, InOp,
         NothingLeaked, NoLostIncrement, Shards
<1>2. TypeOK /\ LockInv /\ [Next]_vars => LockInv'
  BY OwnerStep, CallStep, ListStep, LeakStep, LoadedStep, Zenon DEF LockInv
<1> QED
  BY <1>1, <1>2, TypeCorrect, PTL DEF Spec

\* No two threads are ever in the same shard, whatever mixture of operations,
\* scans and batches they run.
THEOREM MutualExclusionHolds == Spec => []MutualExclusion
<1>1. TypeOK /\ LockInv => MutualExclusion
  BY Exclusive, Zenon DEF LockInv
<1> QED
  BY <1>1, LockInvariant, PTL

\* A load and a store in one batch are atomic: no increment is ever lost.
THEOREM BatchIsolation == Spec => []NoLostIncrement
<1>1. TypeOK /\ LockInv => NoLostIncrement
  BY Zenon DEF LockInv
<1> QED
  BY <1>1, LockInvariant, PTL

\* pogocache_end leaves no shard of the batch locked, and none on a list.
THEOREM NoLeak == Spec => []NothingLeaked
<1>1. TypeOK /\ LockInv => NothingLeaked
  BY Zenon DEF LockInv
<1> QED
  BY <1>1, LockInvariant, PTL
=============================================================================
