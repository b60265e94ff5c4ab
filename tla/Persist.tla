------------------------------- MODULE Persist -------------------------------
(***************************************************************************)
(* The life of the server process around its persistence file: start-up    *)
(* (cleanwork and load in main.c's listening), SAVE and LOAD requests,      *)
(* the save that SIGTERM runs inside the signal handler, and a crash at     *)
(* any step.  save() divides the shards among threads that append one       *)
(* block per non-empty shard to a work file and renames it over the         *)
(* persistence file; load() reads that file block by block into a queue     *)
(* that worker threads empty.                                               *)
(*                                                                         *)
(* Data are abstracted: a value is the number of the write that made it, a  *)
(* block is the set of entries of one shard with the time it was stamped.   *)
(* sys_now and sys_unixnow, read one after the other, are one clock.        *)
(***************************************************************************)
EXTENDS Integers, Sequences, FiniteSets

CONSTANTS Keys, NShards, ShardOf,   \* ShardOf: key -> 0..NShards-1
          NProcs,                   \* sys_nprocs()
          Requests,                 \* connections that may ask SAVE or LOAD
          Signal,                   \* the save of the signal handler
          Locks,                    \* shards an interrupted thread may have locked
          Ttls,                     \* requested times to live, 0 = none
          Files,                    \* files found at the first start
          None,
          MaxClock, MaxWrites, MaxCrashes, MaxCalls  \* bounds; calls of save and load

VARIABLES mode,     \* "down", "loading" (listening), "up" (loaded = true)
          clock,
          cache,    \* key -> entry or None
          file,     \* the blocks at the persistence path, or None
          work,     \* save -> the blocks of its work file, or None
          unremoved,  \* saves whose work file a removal has left (history)
          save,     \* save -> "idle", "threads" (save() runs) or "done"
          th,       \* save -> the threads of the call of save(), struct savectx
          held,     \* shard whose lock the interrupted thread holds, or None
          loading,  \* blocks that a call of load() has still to store, and its caller
          writes, crashes, calls,   \* counters, for the bounds
          stable,   \* save -> keys live and untouched since it began (history)
          saved     \* key -> what the last completed save guarantees (history)

vars == <<mode, clock, cache, file, work, unremoved, save, th, held, loading,
          writes, crashes, calls, stable, saved>>
counters == <<crashes, calls>>

Saves == Requests \cup {Signal}
Shards == 0..NShards - 1
Alive(expires, time) == expires = 0 \/ expires > time

NoThreads == [i \in {} |-> None]
Undone == [blocks |-> {}, by |-> None]

\* An entry of a block, a block of a file, and a thread of save() with its
\* range of shards.
BlockEnts == [key : Keys, val : Nat, due : Nat, ttl : Nat]
Blocks == [kind : {"good", "torn"}, time : Nat, ents : SUBSET BlockEnts]
SaveThreads == [st : {"stamp", "iter", "ok", "failed"}, first : Shards,
                at : Shards, last : Shards, time : Nat]

\* A ttl is what was left of it at the time of the block.
Timed(b) == \A e \in b.ents : e.ttl > 0 => b.time + e.ttl = e.due

\* No key twice in the blocks of a file.
KeysOnce(f) ==
    \A i, j \in DOMAIN f : \A d \in f[i].ents : \A e \in f[j].ents :
        d.key = e.key => i = j /\ d = e

ASSUME SizesPositive == NProcs \in Nat \ {0} /\ NShards \in Nat \ {0}
ASSUME NamesApart == Signal \notin Requests /\ "boot" \notin Requests /\ None # "boot"
ASSUME NoneApart == None \notin Seq(Blocks) /\ None \notin [val : Nat, expires : Nat, due : Nat]
ASSUME KeysAndTtls ==
    ShardOf \in [Keys -> Shards] /\ Ttls \subseteq Nat /\ Locks \subseteq Shards
ASSUME FilesSound == \A f \in Files \ {None} :
    f \in Seq(Blocks) /\ KeysOnce(f) /\ \A i \in DOMAIN f : Timed(f[i])

\* What a save wrote: the entries of the good blocks of a file.
Good(f) == {i \in DOMAIN f : f[i].kind = "good"}
Contents(f) == UNION {f[i].ents : i \in Good(f)}

Init ==
    /\ mode = "down" /\ clock = 1
    /\ cache = [k \in Keys |-> None]
    /\ file \in Files
    /\ work = [s \in Saves |-> None] /\ unremoved = {}
    /\ save = [s \in Saves |-> "idle"]
    /\ th = [s \in Saves |-> NoThreads]
    /\ held = None
    /\ loading = Undone
    /\ writes = 0 /\ crashes = 0 /\ calls = 0
    /\ stable = [s \in Saves |-> {}]
    /\ saved = [k \in Keys |-> None]

-----------------------------------------------------------------------------
(* Clients *)

\* Whatever changes an entry ends the guarantees that earlier saves gave it.
Forget(ks) ==
    /\ stable' = [s \in Saves |-> stable[s] \ ks]
    /\ saved' = [k \in Keys |-> IF k \in ks THEN None ELSE saved[k]]

Tick ==
    /\ clock < MaxClock
    /\ clock' = clock + 1
    /\ UNCHANGED <<mode, cache, file, work, unremoved, save, th, held, loading,
                   writes, counters, stable, saved>>

\* A store takes the lock of the key's shard.
Store(k, ttl) ==
    /\ mode = "up" /\ held # ShardOf[k] /\ writes < MaxWrites
    /\ LET due == IF ttl = 0 THEN 0 ELSE clock + ttl IN
       cache' = [cache EXCEPT ![k] =
                    [val |-> writes + 1, expires |-> due, due |-> due]]
    /\ writes' = writes + 1
    /\ Forget({k})
    /\ UNCHANGED <<mode, clock, file, work, unremoved, save, th, held, loading, counters>>

Delete(k) ==
    /\ mode = "up" /\ held # ShardOf[k] /\ cache[k] # None /\ writes < MaxWrites
    /\ cache' = [cache EXCEPT ![k] = None]
    /\ writes' = writes + 1
    /\ Forget({k})
    /\ UNCHANGED <<mode, clock, file, work, unremoved, save, th, held, loading, counters>>

-----------------------------------------------------------------------------
(* save() *)

\* Mutant of Share: the last thread takes no more shards than the others.
ShareEqual(i, n) ==
    [first |-> i * (NShards \div n), last |-> (i + 1) * (NShards \div n) - 1]

\* The shards of thread i of n: an equal share, the last one takes the rest.
Share(i, n) ==
    [first |-> i * (NShards \div n),
     last  |-> IF i = n - 1 THEN NShards - 1
                            ELSE (i + 1) * (NShards \div n) - 1]

NThreads(fast) == IF ~fast THEN 1 ELSE IF NProcs > NShards THEN NShards ELSE NProcs

StartThread(i, n) ==
    LET share == Share(i, n) IN
    [st |-> "stamp", first |-> share.first, at |-> share.first,
     last |-> share.last, time |-> 0]

LiveKeys == {k \in Keys : cache[k] # None /\ Alive(cache[k].expires, clock)}

BeginSave(s, fast) ==
    LET n == NThreads(fast) IN
    /\ calls < MaxCalls
    /\ calls' = calls + 1
    /\ work' = [work EXCEPT ![s] = <<>>]
    /\ unremoved' = unremoved \ {s}
    /\ save' = [save EXCEPT ![s] = "threads"]
    /\ th' = [th EXCEPT ![s] = [i \in 0..n - 1 |-> StartThread(i, n)]]
    /\ stable' = [stable EXCEPT ![s] = LiveKeys]
    /\ UNCHANGED <<mode, clock, cache, file, loading, writes, crashes,
                   saved>>

\* SAVE [FAST]: cmdSAVELOAD hands the call of save() to a background thread.
RequestSave(s, fast) ==
    /\ mode = "up" /\ save[s] = "idle"
    /\ BeginSave(s, fast)
    /\ UNCHANGED held

\* Mutant of SigTerm: the handler does not look at loaded.
SigTermEarly(lock) ==
    /\ mode # "down" /\ save[Signal] = "idle"
    /\ BeginSave(Signal, TRUE)
    /\ held' = lock

\* SIGTERM or SIGINT: the handler saves on the interrupted thread, which may
\* hold the lock of a shard.  Before the load is over it exits at once.
SigTerm(lock) ==
    /\ mode = "up" /\ save[Signal] = "idle"
    /\ BeginSave(Signal, TRUE)
    /\ held' = lock

SetThread(s, i, t) == th' = [th EXCEPT ![s][i] = t] /\ UNCHANGED save

\* A thread with the time of its next shard, past that shard, and after a failure.
Stamped(t) == [t EXCEPT !.st = "iter", !.time = clock]
Past(t) ==
    IF t.at = t.last THEN [t EXCEPT !.st = "ok", !.time = 0]
    ELSE [t EXCEPT !.st = "stamp", !.time = 0, !.at = t.at + 1]
Failed(t) == [t EXCEPT !.st = "failed", !.time = 0]

\* The thread takes the time that decides which entries are alive.
Stamp(s, i) ==
    LET t == th[s][i] IN
    /\ save[s] = "threads" /\ t.st = "stamp"
    /\ SetThread(s, i, Stamped(t))
    /\ UNCHANGED <<mode, clock, cache, file, work, unremoved, held, loading, writes,
                   counters, stable, saved>>

\* save_entry: what a block holds of an entry.
SaveEntry(k, time) ==
    [key |-> k, val |-> cache[k].val, due |-> cache[k].due,
     ttl |-> IF cache[k].expires > 0 THEN cache[k].expires - time ELSE 0]

\* pogocache_iter: the entries of a shard that are alive at that time.
Iter(shard, time) ==
    {SaveEntry(k, time) : k \in {j \in Keys :
        ShardOf[j] = shard /\ cache[j] # None /\ Alive(cache[j].expires, time)}}

\* One shard of thsave: iterate under the shard's lock, then flush.  A block
\* without entries is dropped, another one is appended to the work file under
\* the write lock.
SaveShard(s, i) ==
    LET t == th[s][i]
        ents == Iter(t.at, t.time) IN
    /\ save[s] = "threads" /\ t.st = "iter" /\ held # t.at
    /\ SetThread(s, i, Past(t))
    /\ work' = IF ents = {} THEN work
               ELSE [work EXCEPT ![s] = Append(@,
                        [kind |-> "good", time |-> t.time, ents |-> ents])]
    /\ UNCHANGED <<mode, clock, cache, file, unremoved, held, loading, writes,
                   counters, stable, saved>>

\* write() fails, perhaps after a part of the block: the thread ends not ok.
FlushFails(s, i) ==
    LET t == th[s][i] IN
    /\ save[s] = "threads" /\ t.st = "iter" /\ held # t.at
    /\ Iter(t.at, t.time) # {}
    /\ SetThread(s, i, Failed(t))
    /\ work' = [work EXCEPT ![s] = Append(@,
                    [kind |-> "torn", time |-> 0, ents |-> {}])]
    /\ UNCHANGED <<mode, clock, cache, file, unremoved, held, loading, writes,
                   counters, stable, saved>>

Joined(s) ==
    /\ save[s] = "threads"
    /\ \A i \in DOMAIN th[s] : th[s][i].st \in {"ok", "failed"}

\* Mutant of AllOk: one thread without a failure is enough.
AllOkAny(s) == \E i \in DOMAIN th[s] : th[s][i].st = "ok"

AllOk(s) == \A i \in DOMAIN th[s] : th[s][i].st = "ok"

\* The end of save(): unlink, whose result is ignored; left is what it leaves.
Finish(s, left) ==
    /\ save' = [save EXCEPT ![s] = "done"]
    /\ th' = [th EXCEPT ![s] = NoThreads]
    /\ work' = [work EXCEPT ![s] = left]
    /\ unremoved' = IF left = None THEN unremoved ELSE unremoved \cup {s}

\* The work file becomes the persistence file.  What the history records: the
\* untouched keys are saved, and whether no other save was under way.
Rename(s) ==
    /\ Joined(s) /\ AllOk(s)
    /\ file' = work[s]
    /\ Finish(s, None)
    /\ saved' = [k \in Keys |->
            IF k \notin stable[s] THEN saved[k]
            ELSE [val |-> cache[k].val, due |-> cache[k].due,
                  alone |-> \A r \in Saves \ {s} : save[r] # "threads"]]
    /\ stable' = [stable EXCEPT ![s] = {}]
    /\ UNCHANGED <<mode, clock, cache, held, loading, writes, counters>>

\* A thread failed, or rename() does: the work file is removed, unless unlink
\* fails too.
GiveUp(s) ==
    /\ Joined(s)
    /\ \E left \in {None, work[s]} : Finish(s, left)
    /\ stable' = [stable EXCEPT ![s] = {}]
    /\ UNCHANGED <<mode, clock, cache, file, held, loading, writes,
                   counters, saved>>

\* bgsaveloaddone answers the client.
Answer(s) ==
    /\ s # Signal /\ save[s] = "done"
    /\ save' = [save EXCEPT ![s] = "idle"]
    /\ UNCHANGED <<th, mode, clock, cache, file, work, unremoved, held, loading, writes,
                   counters, stable, saved>>

-----------------------------------------------------------------------------
(* The end of the process *)

\* Everything but the file system is lost.
Die ==
    /\ mode' = "down"
    /\ cache' = [k \in Keys |-> None]
    /\ save' = [s \in Saves |-> "idle"]
    /\ th' = [s \in Saves |-> NoThreads]
    /\ held' = None
    /\ loading' = Undone
    /\ stable' = [s \in Saves |-> {}]

\* sigterm after its save, whether it failed or not: _Exit.
Exit ==
    /\ save[Signal] = "done"
    /\ Die
    /\ UNCHANGED <<clock, file, work, unremoved, writes, counters, saved>>

\* The process is killed, or SIGTERM arrives before the load is over.
Crash ==
    /\ mode # "down" /\ crashes < MaxCrashes
    /\ crashes' = crashes + 1
    /\ Die
    /\ UNCHANGED <<clock, file, work, unremoved, writes, calls, saved>>

-----------------------------------------------------------------------------
(* load(), as LoadSpec states it and LoadQueue implements it *)

\* The blocks of the file opened, even if a rename replaces it meanwhile.
BeginLoad(by) ==
    loading' = [blocks |-> {[n |-> n, b |-> file[n]] : n \in DOMAIN file}, by |-> by]

\* Mutant of cleanwork: the work files stay.
cleanworkNot(kept) == UNCHANGED <<work, unremoved>>

\* Every work file is removed but those kept: readdir gives them another type
\* than DT_REG, or unlink fails, which only prints a message.
cleanwork(kept) ==
    /\ work' = [s \in Saves |-> IF s \in kept THEN work[s] ELSE None]
    /\ unremoved' = kept

\* listening: remove the work files, then load the file if there is one.  When
\* opendir fails the server exits before either.
Boot ==
    /\ mode = "down"
    /\ \E kept \in SUBSET {s \in Saves : work[s] # None} : cleanwork(kept)
    /\ IF file = None
       THEN mode' = "up" /\ UNCHANGED loading
       ELSE mode' = "loading" /\ BeginLoad("boot")
    /\ UNCHANGED <<clock, cache, file, save, th, held, writes, counters, stable, saved>>

\* LOAD: the same call, in a background thread, while the server runs.
RequestLoad(r) ==
    /\ mode = "up" /\ loading = Undone /\ file # None /\ calls < MaxCalls
    /\ calls' = calls + 1
    /\ BeginLoad(r)
    /\ UNCHANGED <<mode, clock, cache, file, work, unremoved, save, th, held, writes, crashes,
                   stable, saved>>

\* load_block: an entry of a block, with the time the block was stamped, is
\* skipped when expired and otherwise stored with what is left of its ttl.
Expired(b, e) == e.ttl > 0 /\ b.time + e.ttl < clock

\* Mutant of Loaded: the whole ttl is granted again.
LoadedAfresh(b, e) ==
    [val |-> e.val, due |-> e.due,
     expires |-> IF e.ttl > 0 THEN clock + e.ttl ELSE 0]

Loaded(b, e) ==
    LET ttl == IF e.ttl > 0 THEN b.time + e.ttl - clock ELSE 0 IN
    [val |-> e.val, due |-> e.due,
     expires |-> IF ttl > 0 THEN clock + ttl ELSE 0]

LoadBlock(x) ==
    LET ents == {e \in x.b.ents : ~Expired(x.b, e)}
        ks == {e.key : e \in ents}
        new == [k \in ks |-> Loaded(x.b, CHOOSE e \in ents : e.key = k)] IN
    /\ x \in loading.blocks /\ x.b.kind = "good"
    /\ \A k \in ks : held # ShardOf[k]
    /\ loading' = [loading EXCEPT !.blocks = @ \ {x}]
    /\ cache' = [k \in Keys |-> IF k \in ks THEN new[k] ELSE cache[k]]
    /\ IF loading.by = "boot" THEN UNCHANGED <<stable, saved>> ELSE Forget(ks)
    /\ UNCHANGED <<mode, clock, file, work, unremoved, save, th, held, writes, counters>>

\* Mutant of LoadOver: the last block is not waited for.
LoadOverEarly == loading.by # None /\ Cardinality(loading.blocks) <= 1

\* load() succeeds when it has stored every block: loaded = true, or the answer
\* to LOAD.
LoadOver == loading.by # None /\ loading.blocks = {}
EndLoad ==
    /\ LoadOver
    /\ mode' = "up" /\ loading' = Undone
    /\ UNCHANGED <<clock, cache, file, work, unremoved, save, th, held, writes, counters,
                   stable, saved>>

\* Mutant of LoadFails: the server goes on with what was loaded.
LoadFailsServes ==
    /\ \E x \in loading.blocks : x.b.kind # "good"
    /\ mode' = "up" /\ loading' = Undone
    /\ UNCHANGED <<clock, cache, file, work, unremoved, save, th, held, writes, counters,
                   stable, saved>>

\* It fails at a block that is not good, after some of the others; listening
\* then exits.
LoadFails ==
    /\ \E x \in loading.blocks : x.b.kind # "good"
    /\ IF loading.by = "boot"
       THEN Die
       ELSE loading' = Undone /\ UNCHANGED <<mode, cache, save, th, held, stable>>
    /\ UNCHANGED <<clock, file, work, unremoved, writes, counters, saved>>

-----------------------------------------------------------------------------
SaveStep(s) ==
    \/ \E i \in DOMAIN th[s] : Stamp(s, i) \/ SaveShard(s, i) \/ FlushFails(s, i)
    \/ Rename(s) \/ GiveUp(s) \/ Answer(s)

LoadStep == EndLoad \/ LoadFails \/ \E x \in loading.blocks : LoadBlock(x)

Next ==
    \/ Tick
    \/ \E k \in Keys : Delete(k) \/ \E ttl \in Ttls : Store(k, ttl)
    \/ \E s \in Requests : RequestLoad(s) \/ \E fast \in BOOLEAN : RequestSave(s, fast)
    \/ \E lock \in Locks \cup {None} : SigTerm(lock)
    \/ \E s \in Saves : SaveStep(s)
    \/ LoadStep
    \/ Boot \/ Exit \/ Crash

Spec == Init /\ [][Next]_vars

-----------------------------------------------------------------------------
(* Properties *)

Entries == [val : Nat, expires : Nat, due : Nat] \cup {None}

\* Every variable holds a value of its kind; a thread of save() stays within the
\* shards there are, and start-up is over when the load is.
TypeOK ==
    /\ mode \in {"down", "loading", "up"} /\ clock \in Nat /\ writes \in Nat
    /\ cache \in [Keys -> Entries]
    /\ file \in Seq(Blocks) \cup {None}
    /\ work \in [Saves -> Seq(Blocks) \cup {None}] /\ unremoved \subseteq Saves
    /\ save \in [Saves -> {"idle", "threads", "done"}]
    /\ th \in [Saves -> {th[s] : s \in Saves}]
    /\ \A s \in Saves : th[s] \in [DOMAIN th[s] -> SaveThreads]
    /\ held \in Shards \cup {None}
    /\ loading \in [blocks : SUBSET [n : Nat, b : Blocks], by : Requests \cup {"boot", None}]
    /\ stable \in [Saves -> SUBSET Keys]
    /\ mode = "loading" <=> loading.by = "boot"

\* A save that is about to rename its work file (the end of save() without a
\* failed thread) has in it every key that was live when the save began and was
\* not touched since, with its value, whatever clients did to the other keys.
SaveCovers ==
    \A s \in Saves : Joined(s) /\ AllOk(s) =>
        \A k \in stable[s] : Alive(cache[k].due, clock) =>
            \E e \in Contents(work[s]) : e.key = k /\ e.val = cache[k].val

\* What makes this and PathWhole hold, an inductive invariant: the threads have
\* disjoint ranges that leave out no shard; what the work file holds comes from
\* shards that a thread has done, one block each; and of a done shard it holds
\* every key that was not touched.
DoneBy(t) == {x \in Shards : t.first <= x /\ (x < t.at \/ (t.st = "ok" /\ x <= t.last))}
Done(s) == UNION {DoneBy(th[s][i]) : i \in DOMAIN th[s]}

RangesInv(s) ==
    /\ \A x \in Shards : \E i \in DOMAIN th[s] : th[s][i].first <= x /\ x <= th[s][i].last
    /\ \A i \in DOMAIN th[s] :
          /\ th[s][i].first <= th[s][i].at /\ th[s][i].at <= th[s][i].last
          /\ th[s][i].time <= clock
    /\ \A i, j \in DOMAIN th[s] : i # j =>
          th[s][i].last < th[s][j].first \/ th[s][j].last < th[s][i].first

WorkInv(s) ==
    /\ work[s] \in Seq(Blocks)
    /\ (\A i \in DOMAIN th[s] : th[s][i].st # "failed") =>
          \A b \in DOMAIN work[s] : work[s][b].kind = "good"
    /\ \A b \in DOMAIN work[s] : \A e \in work[s][b].ents : ShardOf[e.key] \in Done(s)
    /\ KeysOnce(work[s])

StableInv(s) ==
    \A k \in stable[s] :
        /\ cache[k] # None
        /\ ShardOf[k] \in Done(s) /\ Alive(cache[k].due, clock) =>
              \E b \in DOMAIN work[s] : \E e \in work[s][b].ents :
                  e.key = k /\ e.val = cache[k].val /\ e.due = cache[k].due

SaveInv ==
    \A s \in Saves : save[s] = "threads" =>
        mode = "up" /\ RangesInv(s) /\ WorkInv(s) /\ StableInv(s)

\* Whatever fails and whenever the process dies, a file that a save has put at
\* the persistence path is whole: no torn block, no key twice (the work file and
\* the rename of save(), the check of every thread's ok).
PathWhole ==
    file \notin Files => Good(file) = DOMAIN file /\ KeysOnce(file)

\* After a save with no other save under way, an untouched unexpired key is in
\* the persistence file, and in the cache of every later run of the server, for
\* every crash, failed save and restart (save, listening, load).
Durable ==
    \A k \in Keys : saved[k] # None /\ saved[k].alone /\ Alive(saved[k].due, clock) =>
        /\ \E e \in Contents(file) : e.key = k /\ e.val = saved[k].val
        /\ mode = "up" => cache[k] # None /\ cache[k].val = saved[k].val

\* When the start-up load is over and succeeded, the cache holds the entries of
\* the file and no other: none lost between reader and workers, none expired
\* that is not (load, thload, load_block).
LoadExact ==
    LoadOver /\ loading.by = "boot" =>
        /\ \A k \in Keys : cache[k] # None =>
              \E e \in Contents(file) : e.key = k /\ e.val = cache[k].val
        /\ \A e \in Contents(file) : Alive(e.due, clock) =>
              cache[e.key] # None /\ cache[e.key].val = e.val

\* A server that serves has loaded its file to the end: a bad file is never
\* half loaded and then saved over (the loaded flag, listening's _Exit).
ServesWhole ==
    mode = "up" /\ file # None => Good(file) = DOMAIN file

\* An entry that expires does so at the time its client asked for, however
\* often it was saved and loaded (ttl in save_entry, unixexpires in load_block).
ExpiryKept ==
    \A k \in Keys : cache[k] # None /\ cache[k].expires # 0 =>
        cache[k].expires = cache[k].due

\* What makes it so, an inductive invariant: every block, in a work file, in the
\* persistence file or on its way into the cache, has ttls that end at the time
\* the client asked for.
TimeInv ==
    /\ ExpiryKept
    /\ \A s \in Saves : work[s] # None => \A b \in DOMAIN work[s] : Timed(work[s][b])
    /\ file # None => \A b \in DOMAIN file : Timed(file[b])
    /\ \A x \in loading.blocks : Timed(x.b)

\* While the server is up, a work file that no running save writes is one that
\* a removal was tried on and left: neither a failed save nor a crash leaves any
\* other behind, whatever the order of saves, crashes and restarts (unlink in
\* save, cleanwork before loaded is set).
NoStrayWork ==
    mode = "up" => \A s \in Saves :
        work[s] # None => save[s] = "threads" \/ s \in unremoved
=============================================================================
