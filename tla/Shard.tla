------------------------------- MODULE Shard -------------------------------
(***************************************************************************)
(* One shard of the cache (struct shard, pogocache.c): a map from keys to  *)
(* entries, the CAS counter, and the lazy clear (cleartime, clearcount).   *)
(*                                                                         *)
(* An operation runs under the shard's lock, so it is one atomic step; the *)
(* lock itself is the subject of ShardLock.  What is NOT atomic is the     *)
(* timestamp: every command reads the clock first (cmds.c, sys_now) and    *)
(* reaches the shard later, so operations of concurrent commands meet the  *)
(* shard in an order that need not be the order of their timestamps.       *)
(*                                                                         *)
(* The hash table behind the map is the subject of RobinHood.              *)
(***************************************************************************)
EXTENDS Integers, FiniteSets

CONSTANTS
    Keys, Vals,     \* keys that hash to this shard, values
    Clients,        \* threads that run commands
    NoVal, NoKey,   \* not a value, not a key
    UseCas,         \* pogocache_opts.usecas
    NoEvict,        \* pogocache_opts.noevict
    StoreOpts,      \* the pogocache_store_opts that clients use
    Ttls,           \* lifetimes that an update gives an entry (EXPIRE)
    Scans,          \* the scan operations that clients use
    MaxClock,       \* bound on the number of commands
    MaxCas          \* bound on the number of writes

(***************************************************************************)
(* The options of a store.  reject is an entry callback that returns       *)
(* false.  The expiration is a time (expires, which the server's commands  *)
(* use, and which may be past) or a lifetime (ttl); 0 is none.             *)
(***************************************************************************)
StoreOpt == [casop: BOOLEAN, nx: BOOLEAN, xx: BOOLEAN, keepttl: BOOLEAN,
             lowmem: BOOLEAN, reject: BOOLEAN, expires: Nat, ttl: Nat]

ASSUME ShardAssumption ==
    /\ NoVal \notin Vals
    /\ NoKey \notin Keys
    /\ IsFiniteSet(Keys)
    /\ UseCas \in BOOLEAN
    /\ NoEvict \in BOOLEAN
    /\ StoreOpts \subseteq StoreOpt
    /\ Ttls \subseteq Nat
    /\ Scans \subseteq {"clear", "sweep", "iter"}
    /\ MaxClock \in Nat
    /\ MaxCas \in Nat

VARIABLES
    map,         \* shard->map: the entry of each key, or NoEntry
    cas,         \* shard->cas
    cleartime,   \* shard->cleartime
    clearcount,  \* shard->clearcount
    clock,       \* the monotonic clock; each reading is a new instant
    now,         \* the timestamp of each client's current command
    phase,       \* what that command is: "idle", "key" or a scan
    seen,        \* the key, value and CAS each client last loaded
    ret,         \* what the last operation returned
    flushed      \* history: the latest timestamp of any executed clear

vars == <<map, cas, cleartime, clearcount, clock, now, phase, seen, ret,
          flushed>>

(***************************************************************************)
(* struct entry.  wtime is history: the timestamp of the command that      *)
(* wrote the value.  entry_time is what a load touches.                    *)
(***************************************************************************)
Entry == [val: Vals \cup {NoVal}, time: Nat, expires: Nat, cas: Nat,
          wtime: Nat]
NoEntry == [val |-> NoVal, time |-> 0, expires |-> 0, cas |-> 0, wtime |-> 0]

Stored == {k \in Keys : map[k].val # NoVal}

Cleared(e) == e.time < cleartime
Expired(e, t) == e.expires > 0 /\ e.expires <= t

\* entry_alive: of a stored entry, at time t.
entry_alive(e, t) == ~Cleared(e) /\ ~Expired(e, t)

Alive(k, t) == k \in Stored /\ entry_alive(map[k], t)
Dead(k, t) == k \in Stored /\ ~entry_alive(map[k], t)

\* shard->clearcount -= (reason==POGOCACHE_REASON_CLEARED)
ClearedOne(e) == IF e.val # NoVal /\ Cleared(e) THEN 1 ELSE 0

\* countop: what pogocache_count adds up over the shards.
countop == Cardinality(Stored) - clearcount

\* What an operation returns; mortal is history: whether it wrote an entry
\* with an expiration.
Wrote(op, k, status, v, b) ==
    [op |-> op, key |-> k, status |-> status, val |-> v, mortal |-> b]
Reply(op, k, status, v) == Wrote(op, k, status, v, FALSE)
NoReply == Reply("none", NoKey, "NONE", NoVal)

Init ==
    /\ map = [k \in Keys |-> NoEntry]
    /\ cas = 1
    /\ cleartime = 0
    /\ clearcount = 0
    /\ clock = 0
    /\ now = [c \in Clients |-> 0]
    /\ phase = [c \in Clients |-> "idle"]
    /\ seen = [c \in Clients |-> [key |-> NoKey, val |-> NoVal, cas |-> 0]]
    /\ ret = NoReply
    /\ flushed = 0

(***************************************************************************)
(* A command starts: it reads the clock.  Commands on keys apply any       *)
(* number of operations with that one timestamp (MGET, DEL, the load and   *)
(* the store of INCR and APPEND); a scan visits the shard once.            *)
(***************************************************************************)
Begin(c) ==
    /\ clock < MaxClock
    /\ clock' = clock + 1
    /\ now' = [now EXCEPT ![c] = clock + 1]
    /\ \E p \in {"key"} \cup Scans : phase' = [phase EXCEPT ![c] = p]
    /\ ret' = NoReply
    /\ UNCHANGED <<map, cas, cleartime, clearcount, seen, flushed>>

-----------------------------------------------------------------------------
\* Mutant of LoadMiss: clearcount is not decremented.
LoadMissUncounted(c, k) ==
    /\ phase[c] = "key"
    /\ ~Alive(k, now[c])
    /\ map' = [map EXCEPT ![k] = NoEntry]
    /\ ret' = Reply("load", k, "NOTFOUND", NoVal)
    /\ UNCHANGED <<cas, cleartime, clearcount, clock, now, phase, seen, flushed>>

(***************************************************************************)
(* loadop.  A dead entry is removed on the way.                            *)
(***************************************************************************)
LoadMiss(c, k) ==
    /\ phase[c] = "key"
    /\ ~Alive(k, now[c])
    /\ map' = [map EXCEPT ![k] = NoEntry]
    /\ clearcount' = clearcount - ClearedOne(map[k])
    /\ ret' = Reply("load", k, "NOTFOUND", NoVal)
    /\ UNCHANGED <<cas, cleartime, clock, now, phase, seen, flushed>>

Touched(k, t, notouch) ==
    [map[k] EXCEPT !.time = IF notouch THEN map[k].time ELSE t]

\* Mutant of LoadHit: the load only looks at the expiration.
LoadHitCleared(c, k, notouch) ==
    /\ phase[c] = "key"
    /\ k \in Stored /\ ~Expired(map[k], now[c])
    /\ map' = [map EXCEPT ![k] = Touched(k, now[c], notouch)]
    /\ ret' = Reply("load", k, "FOUND", map[k].val)
    /\ UNCHANGED <<cas, cleartime, clearcount, clock, now, phase, seen, flushed>>

LoadHit(c, k, notouch) ==
    /\ phase[c] = "key"
    /\ Alive(k, now[c])
    /\ map' = [map EXCEPT ![k] = Touched(k, now[c], notouch)]
    /\ seen' = [seen EXCEPT ![c] =
                  [key |-> k, val |-> map[k].val, cas |-> map[k].cas]]
    /\ ret' = Reply("load", k, "FOUND", map[k].val)
    /\ UNCHANGED <<cas, cleartime, clearcount, clock, now, phase, flushed>>

\* entry_new under ctx->usecas: only then does the entry hold its CAS value.
EntryCas == IF UseCas THEN cas + 1 ELSE 0

\* Mutant of LoadUpdate: the updated entry keeps the old CAS value.
LoadUpdateSameCas(c, k, v, expires) ==
    /\ phase[c] = "key"
    /\ cas < MaxCas
    /\ Alive(k, now[c])
    /\ cas' = cas + 1
    /\ map' = [map EXCEPT ![k] =
                [@ EXCEPT !.val = v, !.time = now[c], !.expires = expires]]
    /\ ret' = Wrote("update", k, "FOUND", v, expires > 0)
    /\ UNCHANGED <<cleartime, clearcount, clock, now, phase, seen, flushed>>

\* The entry callback of a load asks for an update (expire_entry, cmds.c).
LoadUpdate(c, k, v, expires) ==
    /\ phase[c] = "key"
    /\ cas < MaxCas
    /\ Alive(k, now[c])
    /\ cas' = cas + 1
    /\ map' = [map EXCEPT ![k] =
                [val |-> v, time |-> now[c], expires |-> expires,
                 cas |-> EntryCas,
                 wtime |-> IF v = map[k].val THEN map[k].wtime ELSE now[c]]]
    /\ ret' = Wrote("update", k, "FOUND", v, expires > 0)
    /\ UNCHANGED <<cleartime, clearcount, clock, now, phase, seen, flushed>>

\* The new entry cannot be allocated: the old one stays, already touched.
LoadNoMem(c, k, notouch) ==
    /\ phase[c] = "key"
    /\ cas < MaxCas
    /\ Alive(k, now[c])
    /\ cas' = cas + 1
    /\ map' = [map EXCEPT ![k] = Touched(k, now[c], notouch)]
    /\ ret' = Reply("update", k, "NOMEM", NoVal)
    /\ UNCHANGED <<cleartime, clearcount, clock, now, phase, seen, flushed>>

-----------------------------------------------------------------------------
(***************************************************************************)
(* deleteop.                                                               *)
(***************************************************************************)
DeleteMiss(c, k) ==
    /\ phase[c] = "key"
    /\ ~Alive(k, now[c])
    /\ map' = [map EXCEPT ![k] = NoEntry]
    /\ clearcount' = clearcount - ClearedOne(map[k])
    /\ ret' = Reply("delete", k, "NOTFOUND", NoVal)
    /\ UNCHANGED <<cas, cleartime, clock, now, phase, seen, flushed>>

DeleteHit(c, k) ==
    /\ phase[c] = "key"
    /\ Alive(k, now[c])
    /\ map' = [map EXCEPT ![k] = NoEntry]
    /\ ret' = Reply("delete", k, "DELETED", NoVal)
    /\ UNCHANGED <<cas, cleartime, clearcount, clock, now, phase, seen,
                   flushed>>

\* The entry callback returns false: the entry is put back.
DeleteCancel(c, k) ==
    /\ phase[c] = "key"
    /\ Alive(k, now[c])
    /\ ret' = Reply("delete", k, "CANCELED", NoVal)
    /\ UNCHANGED <<map, cas, cleartime, clearcount, clock, now, phase, seen,
                   flushed>>

-----------------------------------------------------------------------------
(***************************************************************************)
(* storeop.  Each outcome is an action; all of them consume a CAS value.   *)
(***************************************************************************)
StoreExpires(c, k, o) ==
    IF o.keepttl /\ Alive(k, now[c]) THEN map[k].expires
    ELSE IF o.expires > 0 THEN o.expires
    ELSE IF o.ttl > 0 THEN now[c] + o.ttl ELSE 0

NewEntry(c, k, v, o) ==
    [val |-> v, time |-> now[c], expires |-> StoreExpires(c, k, o),
     cas |-> EntryCas, wtime |-> now[c]]

StoreReply(c, k, v, o, status) ==
    Wrote("store", k, status, v, NewEntry(c, k, v, o).expires > 0)

\* The CAS test: opts.cas is the value that the client last loaded.
CasFails(c, k) == ~UseCas \/ seen[c].cas # map[k].cas

\* A live entry is in the way, the new one is swapped out again.
Refused(c, k, o) ==
    Alive(k, now[c]) /\ (IF o.casop THEN CasFails(c, k) ELSE o.nx)

\* There is no live entry and the options demand one.
Missing(c, k, o) == ~Alive(k, now[c]) /\ (o.xx \/ o.casop)

StoreGuard(c, o) == phase[c] = "key" /\ cas < MaxCas /\ ~(o.lowmem /\ NoEvict)

\* entry_new or the resize fails, or memory is low and nothing may be evicted.
StoreNoMem(c, k) ==
    /\ phase[c] = "key"
    /\ cas < MaxCas
    /\ cas' = cas + 1
    /\ ret' = Reply("store", k, "NOMEM", NoVal)
    /\ UNCHANGED <<map, cleartime, clearcount, clock, now, phase, seen,
                   flushed>>

StorePutBack(c, k, o) ==
    /\ StoreGuard(c, o)
    /\ \/ Refused(c, k, o) /\ ret' = Reply("store", k, "FOUND", NoVal)
       \/ /\ Alive(k, now[c]) /\ ~Refused(c, k, o) /\ o.reject
          /\ ret' = Reply("store", k, "CANCELED", NoVal)
    /\ cas' = cas + 1
    /\ UNCHANGED <<map, cleartime, clearcount, clock, now, phase, seen,
                   flushed>>

StoreMissing(c, k, o) ==
    /\ StoreGuard(c, o)
    /\ Missing(c, k, o)
    /\ cas' = cas + 1
    /\ map' = [map EXCEPT ![k] = NoEntry]
    /\ clearcount' = clearcount - ClearedOne(map[k])
    /\ ret' = Reply("store", k, "NOTFOUND", NoVal)
    /\ UNCHANGED <<cleartime, clock, now, phase, seen, flushed>>

StoreReplace(c, k, v, o) ==
    /\ StoreGuard(c, o)
    /\ Alive(k, now[c]) /\ ~Refused(c, k, o) /\ ~o.reject
    /\ cas' = cas + 1
    /\ map' = [map EXCEPT ![k] = NewEntry(c, k, v, o)]
    /\ ret' = StoreReply(c, k, v, o, "REPLACED")
    /\ UNCHANGED <<cleartime, clearcount, clock, now, phase, seen, flushed>>

\* Mutant of MustEvict: an eviction also when the key was there before.
MustEvictAlways(k, o) == o.lowmem

\* Memory is low and the map has grown by one entry.
MustEvict(k, o) == o.lowmem /\ k \notin Stored

StoreInsert(c, k, v, o) ==
    /\ StoreGuard(c, o)
    /\ ~Alive(k, now[c]) /\ ~Missing(c, k, o) /\ ~MustEvict(k, o)
    /\ cas' = cas + 1
    /\ map' = [map EXCEPT ![k] = NewEntry(c, k, v, o)]
    /\ clearcount' = clearcount - ClearedOne(map[k])
    /\ ret' = StoreReply(c, k, v, o, "INSERTED")
    /\ UNCHANGED <<cleartime, clock, now, phase, seen, flushed>>

(***************************************************************************)
(* auto_evict_entry scans the buckets after the home bucket of the hash:   *)
(* it stops at the first dead entry, or takes the older of the first two   *)
(* live entries of other hashes.  The bucket order is not part of this     *)
(* model, so the scan order is arbitrary and any one entry may be the one  *)
(* in the home bucket, which the scan leaves out.  The new entry itself is *)
(* a victim when its expiration is past: the store still says INSERTED.    *)
(***************************************************************************)
Victims(m, k, t) ==
    LET stored == {x \in Keys : m[x].val # NoVal}
        Pick(scan) ==
            LET dead == {x \in scan : ~entry_alive(m[x], t)}
                live == {x \in scan : x # k /\ entry_alive(m[x], t)}
            IN  dead
                \cup {x \in live : \E y \in live \ {x} : m[x].time <= m[y].time}
                \cup {x \in live : live = {x} /\ dead = {}}
                \cup {x \in {NoKey} : live = {} /\ dead = {}}
    IN  UNION {Pick(stored \ {home}) : home \in stored \cup {NoKey}}

StoreEvict(c, k, v, o) ==
    LET m == [map EXCEPT ![k] = NewEntry(c, k, v, o)]
    IN  /\ StoreGuard(c, o)
        /\ MustEvict(k, o) /\ ~Missing(c, k, o)
        /\ cas' = cas + 1
        /\ \E x \in Victims(m, k, now[c]) :
              /\ map' = IF x = NoKey THEN m ELSE [m EXCEPT ![x] = NoEntry]
              /\ clearcount' = clearcount -
                    (IF x = NoKey THEN 0 ELSE ClearedOne(m[x]))
        /\ ret' = StoreReply(c, k, v, o, "INSERTED")
        /\ UNCHANGED <<cleartime, clock, now, phase, seen, flushed>>

-----------------------------------------------------------------------------
(***************************************************************************)
(* clearop, sweepop, iterop.                                               *)
(***************************************************************************)
Clear(c) ==
    /\ phase[c] = "clear"
    /\ cleartime' = now[c]
    /\ clearcount' = clearcount + (Cardinality(Stored) - clearcount)
    /\ flushed' = IF now[c] > flushed THEN now[c] ELSE flushed
    /\ phase' = [phase EXCEPT ![c] = "idle"]
    /\ ret' = Reply("clear", NoKey, "FINISHED", NoVal)
    /\ UNCHANGED <<map, cas, clock, now, seen>>

Sweep(c) ==
    /\ phase[c] = "sweep"
    /\ map' = [k \in Keys |-> IF Dead(k, now[c]) THEN NoEntry ELSE map[k]]
    /\ clearcount' = clearcount - Cardinality({k \in Stored : Cleared(map[k])})
    /\ phase' = [phase EXCEPT ![c] = "idle"]
    /\ ret' = Reply("sweep", NoKey, "FINISHED", NoVal)
    /\ UNCHANGED <<cas, cleartime, clock, now, seen, flushed>>

\* The callback chooses which live entries to delete and where to stop.
Iter(c) ==
    /\ phase[c] = "iter"
    /\ \E D \in SUBSET {k \in Keys : Alive(k, now[c])} :
          map' = [k \in Keys |-> IF k \in D THEN NoEntry ELSE map[k]]
    /\ phase' = [phase EXCEPT ![c] = "idle"]
    /\ \E status \in {"FINISHED", "CANCELED"} :
          ret' = Reply("iter", NoKey, status, NoVal)
    /\ UNCHANGED <<cas, cleartime, clearcount, clock, now, seen, flushed>>

-----------------------------------------------------------------------------
Load(c, k) ==
    \/ LoadMiss(c, k)
    \/ \E notouch \in BOOLEAN :
          \/ LoadHit(c, k, notouch)
          \/ LoadNoMem(c, k, notouch)
    \/ \E v \in Vals, expires \in {0} \cup {now[c] + ttl : ttl \in Ttls} :
          LoadUpdate(c, k, v, expires)

Delete(c, k) == DeleteMiss(c, k) \/ DeleteHit(c, k) \/ DeleteCancel(c, k)

Store(c, k) ==
    \/ StoreNoMem(c, k)
    \/ \E o \in StoreOpts :
          \/ StorePutBack(c, k, o)
          \/ StoreMissing(c, k, o)
          \/ \E v \in Vals :
                \/ StoreReplace(c, k, v, o)
                \/ StoreInsert(c, k, v, o)
                \/ StoreEvict(c, k, v, o)

Next ==
    \E c \in Clients :
        \/ Begin(c)
        \/ \E k \in Keys : Load(c, k) \/ Delete(c, k) \/ Store(c, k)
        \/ Clear(c)
        \/ Sweep(c)
        \/ Iter(c)

Spec == Init /\ [][Next]_vars

-----------------------------------------------------------------------------
(***************************************************************************)
(* Properties.                                                             *)
(***************************************************************************)
\* The types of the state.  clearcount is an Int: whether it can go wrong is
\* the question of CountExact.
TypeOK ==
    /\ map \in [Keys -> Entry]
    /\ cas \in Nat
    /\ cleartime \in Nat
    /\ clearcount \in Int
    /\ clock \in Nat
    /\ now \in [Clients -> Nat]
    /\ phase \in [Clients -> {"idle", "key"} \cup Scans]
    /\ seen \in [Clients -> [key: Keys \cup {NoKey}, val: Vals \cup {NoVal},
                             cas: Nat]]
    /\ ret \in [op: {"none", "load", "update", "delete", "store", "clear",
                     "sweep", "iter"},
                key: Keys \cup {NoKey},
                status: {"NONE", "INSERTED", "REPLACED", "FOUND", "NOTFOUND",
                         "DELETED", "FINISHED", "CANCELED", "NOMEM"},
                val: Vals \cup {NoVal}, mortal: BOOLEAN]
    /\ flushed \in Nat

\* Compare-and-store is sound (storeop, casop): if the entry of a key still has
\* the CAS value that a client loaded, whatever was stored, updated, deleted or
\* evicted in between, then it still holds the value that the client loaded.
CasTokenSound ==
    UseCas => \A c \in Clients : \A k \in Stored :
        map[k].cas = seen[c].cas => seen[c].key = k /\ seen[c].val = map[k].val

\* What makes it so, an inductive invariant: no CAS value is ahead of the
\* counter, and no two entries of the shard share one.
CasInv ==
    UseCas =>
        /\ \A k \in Stored : map[k].cas \in 1..cas
        /\ \A j, k \in Stored : map[j].cas = map[k].cas => j = k
        /\ \A c \in Clients : seen[c].cas <= cas
        /\ CasTokenSound

\* pogocache_count is the number of entries that a clear has not removed, for
\* every order of stores, loads, deletes, sweeps and clears.
CountExact == countop = Cardinality({k \in Stored : ~Cleared(map[k])})

\* A clear hides no value written by a command that began after it: such an
\* entry can only expire, be evicted, replaced or deleted.
NoFalseClear == \A k \in Stored : map[k].wtime >= flushed => ~Cleared(map[k])

\* An entry's value never changes without a fresh CAS value, greater than every
\* value handed out before (shard->cas++ in storeop and loadop).
FreshCas ==
    [][\A k \in Keys :
          map'[k].val \notin {NoVal, map[k].val} /\ UseCas
            => map'[k].cas > cas /\ map'[k].cas = cas']_vars

(***************************************************************************)
(* What a user of the cache sees: the entries that no clear has hidden.    *)
(* An entry past its expiration is there until some operation meets it.    *)
(***************************************************************************)
Visible(k) == k \in Stored /\ ~Cleared(map[k])

Dict == [k \in Keys |-> IF Visible(k) THEN map[k].val ELSE NoVal]
Mortal == [k \in Keys |-> Visible(k) /\ map[k].expires > 0]

Cache == INSTANCE CacheSpec WITH dict <- Dict, mortal <- Mortal

\* The shard implements the abstract cache: every reply is right for the
\* entries that are visible when the operation runs, and nothing but the
\* operation's own effect, expiry or an eviction for memory changes them.
ImplementsCache == Cache!Spec

\* Without a clear it does so for any number of clients, although their
\* timestamps come out of order.
CacheUntilClear ==
    [][flushed' = 0 => Cache!Next \/ UNCHANGED Cache!cacheVars]_vars
=============================================================================
