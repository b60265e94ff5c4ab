----------------------------- MODULE ShardLock -----------------------------
(***************************************************************************)
(* The spinlock of each shard, and batches (pogocache.c: lock, acquire_    *)
(* for_key, acquire_for_scan, pogocache_begin, pogocache_end).             *)
(*                                                                         *)
(* shard->lock is 0, UINTPTR_MAX while an operation without a batch runs,  *)
(* or the address of the batch that holds the shard until it ends.  A      *)
(* batch keeps its shards on a list threaded through shard->next.          *)
(*                                                                         *)
(* Each shard holds one counter.  An operation without a batch increments  *)
(* it under the lock; a batch loads it with one operation and stores the   *)
(* sum with another (execINCRDECR and cmdAPPEND, cmds.c).                  *)
(***************************************************************************)
EXTENDS Integers

CONSTANTS
    Threads,       \* each has one batch (ctx.usethreadbatch)
    NShards,
    Free,          \* lock value 0
    NoBatch,       \* lock value UINTPTR_MAX
    Nil,           \* null pointer to a shard
    Wrap,          \* the counters count modulo this number
    OneKeyBatches, \* a batch uses one key, as the server's batches do
    BatchScans     \* a scan may be given a batch

Shards == 0 .. NShards - 1

ASSUME LockAssumption ==
    /\ NShards \in Nat \ {0}
    /\ Free \notin Threads \cup {NoBatch}
    /\ NoBatch \notin Threads
    /\ Nil \notin Shards
    /\ Wrap \in Nat \ {0}
    /\ OneKeyBatches \in BOOLEAN
    /\ BatchScans \in BOOLEAN

VARIABLES
    lock,    \* shard->lock
    next,    \* shard->next
    head,    \* batch->shard, of each thread's batch
    open,    \* the thread is between pogocache_begin and pogocache_end
    calls,   \* number of operations of the batch so far
    pc,      \* where the thread is
    tgt,     \* the shard of its current operation
    usebatch,\* the operation was given the batch
    scan,    \* the operation is a scan over all shards
    cur,     \* pogocache_end's cursor
    loaded,  \* the shard whose counter the thread has loaded and not stored
    tmp,     \* what it loaded
    val,     \* the counter of each shard
    incrs    \* history: the number of increments of each counter

vars == <<lock, next, head, open, calls, pc, tgt, usebatch, scan, cur, loaded,
          tmp, val, incrs>>

\* A batch of the server is a load and a store; others may be as long.
MaxBatchOps == 2

Init ==
    /\ lock = [s \in Shards |-> Free]
    /\ next = [s \in Shards |-> Nil]
    /\ head = [t \in Threads |-> Nil]
    /\ open = [t \in Threads |-> FALSE]
    /\ calls = [t \in Threads |-> 0]
    /\ pc = [t \in Threads |-> "idle"]
    /\ tgt = [t \in Threads |-> 0]
    /\ usebatch = [t \in Threads |-> FALSE]
    /\ scan = [t \in Threads |-> FALSE]
    /\ cur = [t \in Threads |-> Nil]
    /\ loaded = [t \in Threads |-> Nil]
    /\ tmp = [t \in Threads |-> 0]
    /\ val = [s \in Shards |-> 0]
    /\ incrs = [s \in Shards |-> 0]

Goto(t, from, to) == pc[t] = from /\ pc' = [pc EXCEPT ![t] = to]

-----------------------------------------------------------------------------
\* pogocache_begin
Begin(t) ==
    /\ pc[t] = "idle" /\ ~open[t]
    /\ open' = [open EXCEPT ![t] = TRUE]
    /\ head' = [head EXCEPT ![t] = Nil]
    /\ calls' = [calls EXCEPT ![t] = 0]
    /\ UNCHANGED <<lock, next, pc, tgt, usebatch, scan, cur, loaded, tmp, val,
                   incrs>>

\* An operation is called: on the key of shard s, or as a scan from shard 0.
Call(t, s, isscan) ==
    /\ Goto(t, "idle", "lock")
    /\ isscan => s = 0
    /\ open[t] =>
          /\ calls[t] < MaxBatchOps
          /\ isscan => BatchScans
          /\ OneKeyBatches => head[t] \in {Nil, s}
    /\ tgt' = [tgt EXCEPT ![t] = s]
    /\ usebatch' = [usebatch EXCEPT ![t] = open[t]]
    /\ scan' = [scan EXCEPT ![t] = isscan]
    /\ calls' = [calls EXCEPT ![t] = IF open[t] THEN @ + 1 ELSE @]
    /\ UNCHANGED <<lock, next, head, open, cur, loaded, tmp, val, incrs>>

\* lock: the compare-and-swap succeeds.
Acquire(t) ==
    /\ Goto(t, "lock", "in")
    /\ lock[tgt[t]] = Free
    /\ IF usebatch[t]
       THEN /\ lock' = [lock EXCEPT ![tgt[t]] = t]
            /\ next' = [next EXCEPT ![tgt[t]] = head[t]]
            /\ head' = [head EXCEPT ![t] = tgt[t]]
       ELSE /\ lock' = [lock EXCEPT ![tgt[t]] = NoBatch]
            /\ UNCHANGED <<next, head>>
    /\ UNCHANGED <<open, calls, tgt, usebatch, scan, cur, loaded, tmp, val,
                   incrs>>

\* lock: it fails because this batch has the shard already.  When it fails for
\* any other reason the thread yields and tries again.
Reacquire(t) ==
    /\ Goto(t, "lock", "in")
    /\ usebatch[t] /\ lock[tgt[t]] = t
    /\ UNCHANGED <<lock, next, head, open, calls, tgt, usebatch, scan, cur,
                   loaded, tmp, val, incrs>>

-----------------------------------------------------------------------------
(***************************************************************************)
(* The operation itself, step by step: it is not atomic but for the lock.  *)
(***************************************************************************)
ReadCounter(t) ==
    /\ ~scan[t] /\ loaded[t] # tgt[t]
    /\ Goto(t, "in", IF usebatch[t] THEN "out" ELSE "in")
    /\ loaded' = [loaded EXCEPT ![t] = tgt[t]]
    /\ tmp' = [tmp EXCEPT ![t] = val[tgt[t]]]
    /\ UNCHANGED <<lock, next, head, open, calls, tgt, usebatch, scan, cur,
                   val, incrs>>

WriteCounter(t) ==
    /\ ~scan[t] /\ loaded[t] = tgt[t]
    /\ Goto(t, "in", "out")
    /\ loaded' = [loaded EXCEPT ![t] = Nil]
    /\ tmp' = [tmp EXCEPT ![t] = 0]
    /\ val' = [val EXCEPT ![tgt[t]] = (tmp[t] + 1) % Wrap]
    /\ incrs' = [incrs EXCEPT ![tgt[t]] = (@ + 1) % Wrap]
    /\ UNCHANGED <<lock, next, head, open, calls, tgt, usebatch, scan, cur>>

ScanShard(t) ==
    /\ scan[t]
    /\ Goto(t, "in", "out")
    /\ UNCHANGED <<lock, next, head, open, calls, tgt, usebatch, scan, cur,
                   loaded, tmp, val, incrs>>

\* Mutant of Return: the lock is released although it is the batch's.
ReturnUnlocks(t) ==
    /\ pc[t] = "out"
    /\ lock' = [lock EXCEPT ![tgt[t]] = Free]
    /\ pc' = [pc EXCEPT ![t] = "idle"]
    /\ tgt' = [tgt EXCEPT ![t] = 0]
    /\ scan' = [scan EXCEPT ![t] = FALSE]
    /\ usebatch' = [usebatch EXCEPT ![t] = FALSE]
    /\ UNCHANGED <<next, head, open, calls, cur, loaded, tmp, val, incrs>>
(***************************************************************************)
(* The operation returns: the lock is released unless it is the batch's.   *)
(* A scan goes on to the next shard, and does so without the batch:        *)
(* acquire_for_scan has replaced the caller's handle by the cache.         *)
(***************************************************************************)
Return(t) ==
    /\ pc[t] = "out"
    /\ lock' = IF usebatch[t] THEN lock ELSE [lock EXCEPT ![tgt[t]] = Free]
    /\ IF scan[t] /\ tgt[t] + 1 \in Shards
       THEN /\ pc' = [pc EXCEPT ![t] = "lock"]
            /\ tgt' = [tgt EXCEPT ![t] = tgt[t] + 1]
            /\ UNCHANGED scan
       ELSE /\ pc' = [pc EXCEPT ![t] = "idle"]
            /\ tgt' = [tgt EXCEPT ![t] = 0]
            /\ scan' = [scan EXCEPT ![t] = FALSE]
    /\ usebatch' = [usebatch EXCEPT ![t] = FALSE]
    /\ UNCHANGED <<next, head, open, calls, cur, loaded, tmp, val, incrs>>

-----------------------------------------------------------------------------
\* Mutant of End: the batch ends without a look at its list.
EndForgets(t) ==
    /\ open[t]
    /\ Goto(t, "idle", "end")
    /\ loaded' = [loaded EXCEPT ![t] = Nil]
    /\ tmp' = [tmp EXCEPT ![t] = 0]
    /\ UNCHANGED <<lock, next, head, open, calls, tgt, usebatch, scan, cur, val,
                   incrs>>

\* pogocache_end: read the list's head, unlink and unlock one shard at a time.
End(t) ==
    /\ open[t]
    /\ Goto(t, "idle", "end")
    /\ cur' = [cur EXCEPT ![t] = head[t]]
    /\ loaded' = [loaded EXCEPT ![t] = Nil]
    /\ tmp' = [tmp EXCEPT ![t] = 0]
    /\ UNCHANGED <<lock, next, head, open, calls, tgt, usebatch, scan, val,
                   incrs>>

Unlock(t) ==
    /\ pc[t] = "end" /\ cur[t] # Nil
    /\ next' = [next EXCEPT ![cur[t]] = Nil]
    /\ lock' = [lock EXCEPT ![cur[t]] = Free]
    /\ cur' = [cur EXCEPT ![t] = next[cur[t]]]
    /\ UNCHANGED <<head, open, calls, pc, tgt, usebatch, scan, loaded, tmp,
                   val, incrs>>

Ended(t) ==
    /\ Goto(t, "end", "idle")
    /\ cur[t] = Nil
    /\ open' = [open EXCEPT ![t] = FALSE]
    /\ head' = [head EXCEPT ![t] = Nil]
    /\ calls' = [calls EXCEPT ![t] = 0]
    /\ UNCHANGED <<lock, next, tgt, usebatch, scan, cur, loaded, tmp, val,
                   incrs>>

-----------------------------------------------------------------------------
CallAny(t) == \E s \in Shards, isscan \in BOOLEAN : Call(t, s, isscan)

\* The steps that a thread takes once it has started something.
Continue(t) ==
    \/ open[t] /\ CallAny(t)
    \/ Acquire(t) \/ Reacquire(t)
    \/ ReadCounter(t) \/ WriteCounter(t) \/ ScanShard(t)
    \/ Return(t)
    \/ End(t) \/ Unlock(t) \/ Ended(t)

Start(t) == Begin(t) \/ (~open[t] /\ CallAny(t))

Next == \E t \in Threads : Start(t) \/ Continue(t)

\* Commands run to their end: a thread is never stopped within one.
Fairness == \A t \in Threads : WF_vars(Continue(t))

Spec == Init /\ [][Next]_vars
FairSpec == Spec /\ Fairness

-----------------------------------------------------------------------------
TypeOK ==
    /\ lock \in [Shards -> Threads \cup {Free, NoBatch}]
    /\ next \in [Shards -> Shards \cup {Nil}]
    /\ head \in [Threads -> Shards \cup {Nil}]
    /\ open \in [Threads -> BOOLEAN]
    /\ calls \in [Threads -> Nat]
    /\ pc \in [Threads -> {"idle", "lock", "in", "out", "end"}]
    /\ tgt \in [Threads -> Shards]
    /\ usebatch \in [Threads -> BOOLEAN]
    /\ scan \in [Threads -> BOOLEAN]
    /\ cur \in [Threads -> Shards \cup {Nil}]
    /\ loaded \in [Threads -> Shards \cup {Nil}]
    /\ tmp \in [Threads -> Nat]
    /\ val \in [Shards -> Nat]
    /\ incrs \in [Shards -> Nat]

\* t runs an operation on shard s, or its batch has s.
Holds(t, s) == (pc[t] \in {"in", "out"} /\ tgt[t] = s) \/ lock[s] = t

\* No two threads are in a shard: neither two operations, nor an operation and
\* another thread's batch, however batches and scans are mixed.
MutualExclusion ==
    \A t, u \in Threads : \A s \in Shards : Holds(t, s) /\ Holds(u, s) => t = u

\* "Use a batch transaction for key isolation" (cmdAPPEND): what a batch has
\* loaded is still the counter's value when it stores the sum, so that no
\* increment is lost.
NoLostIncrement == val = incrs

\* A thread that is out of its batch leaves no shard locked behind it, and a
\* shard that is not locked by a batch is on no list.
NothingLeaked ==
    /\ \A t \in Threads : ~open[t] => \A s \in Shards : lock[s] # t
    /\ \A s \in Shards : lock[s] \in {Free, NoBatch} => next[s] = Nil

(***************************************************************************)
(* The inductive invariant behind the three.                               *)
(***************************************************************************)
InOp(t) == pc[t] \in {"in", "out"}

\* The shard at which thread t's list starts, while its batch is open.
Top(t) == IF pc[t] = "end" THEN cur[t] ELSE head[t]

\* Whoever runs an operation has the lock, and the lock says how.
OwnerInv ==
    /\ \A t \in Threads :
          InOp(t) => lock[tgt[t]] = IF usebatch[t] THEN t ELSE NoBatch
    /\ \A t, u \in Threads :
          InOp(t) /\ InOp(u) /\ ~usebatch[t] /\ ~usebatch[u] /\ tgt[t] = tgt[u]
            => t = u

\* An operation is given the batch exactly when one is open, but for the later
\* shards of a scan.
CallInv ==
    \A t \in Threads :
        /\ pc[t] = "end" => open[t]
        /\ pc[t] \in {"lock", "in", "out"} =>
              /\ usebatch[t] => open[t]
              /\ open[t] => usebatch[t] \/ scan[t]

\* The list of a batch holds shards of that batch only, each at most once, and
\* it holds all of them: a set that contains the first shard, and with a shard
\* the next one, contains every shard of the batch.
ListOf(t) ==
    open[t] =>
        /\ Top(t) # Nil => lock[Top(t)] = t
        /\ \A s \in Shards : lock[s] = t /\ next[s] # Nil =>
              lock[next[s]] = t /\ next[s] # Top(t)
        /\ \A r, s \in Shards :
              lock[r] = t /\ lock[s] = t /\ next[r] = next[s] /\ next[r] # Nil
                => r = s
        /\ \A S \in SUBSET Shards :
              /\ Top(t) # Nil => Top(t) \in S
              /\ \A s \in S : lock[s] = t /\ next[s] # Nil => next[s] \in S
              => \A s \in Shards : lock[s] = t => s \in S

ListInv == \A t \in Threads : ListOf(t)

\* A loaded counter is protected, by the batch or by the running operation, and
\* has not changed.
LoadedInv ==
    \A t \in Threads : loaded[t] # Nil =>
        /\ pc[t] # "end"
        /\ tmp[t] = val[loaded[t]]
        /\ \/ open[t] /\ lock[loaded[t]] = t
           \/ ~open[t] /\ ~scan[t] /\ pc[t] = "in" /\ tgt[t] = loaded[t]

LockInv == /\ OwnerInv /\ CallInv /\ ListInv /\ LoadedInv
           /\ NothingLeaked /\ NoLostIncrement

\* In the server no shard stays locked: whatever the threads do, each shard is
\* free again and again.
AlwaysFreed == \A s \in Shards : []<>(lock[s] = Free)
=============================================================================
