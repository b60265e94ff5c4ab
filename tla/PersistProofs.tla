--------------------------- MODULE PersistProofs ----------------------------
(***************************************************************************)
(* Theorems about Persist, for every number of keys, shards, processors,   *)
(* clients and crashes: every step keeps the times of the entries, the     *)
(* persistence file whole, the work files to the saves that run, and the   *)
(* start of the server exact.                                              *)
(***************************************************************************)
EXTENDS PersistSave

USE SizesPositive, NamesApart, KeysAndTtls

\* The entries of a block that save_entry writes end when the client asked.
LEMMA IterTimed ==
    ASSUME TypeOK, ExpiryKept, NEW x \in Shards, NEW time \in Nat
    PROVE  \A e \in Iter(x, time) : e.ttl > 0 => time + e.ttl = e.due
<1> SUFFICES ASSUME NEW k \in Keys, cache[k] # None, SaveEntry(k, time).ttl > 0
             PROVE  time + SaveEntry(k, time).ttl = SaveEntry(k, time).due
  BY Zenon DEF Iter
<1>1. cache[k].expires \in Nat /\ cache[k].due \in Nat
  BY Zenon DEF TypeOK, Entries
<1>2. cache[k].expires # 0 => cache[k].expires = cache[k].due
  BY Zenon DEF ExpiryKept
<1> QED
  BY <1>1, <1>2 DEF SaveEntry

\* Every step of the server keeps the time of expiry of an entry.
LEMMA ExpiryStep == TypeOK /\ TimeInv /\ [Next]_vars => ExpiryKept'
<1> SUFFICES ASSUME TypeOK, TimeInv, [Next]_vars, NEW k \in Keys,
                    cache'[k] # None, cache'[k].expires # 0
             PROVE  cache'[k].expires = cache'[k].due
  BY Zenon DEF ExpiryKept
<1>1. CASE cache'[k] = cache[k]
  BY <1>1, Zenon DEF TimeInv, ExpiryKept
<1>2. ASSUME NEW j \in Keys, Delete(j) PROVE cache'[k] = cache[k]
  BY <1>2, Zenon DEF Delete, TypeOK
<1>3. ASSUME NEW j \in Keys, NEW ttl \in Ttls, Store(j, ttl)
      PROVE  cache'[k] = cache[k] \/ cache'[k].expires = cache'[k].due
  BY <1>3, Zenon DEF Store, TypeOK
<1>4. ASSUME NEW x \in loading.blocks, LoadBlock(x)
      PROVE  cache'[k] = cache[k] \/ cache'[k].expires = cache'[k].due
  <2>1. x.b \in Blocks /\ Timed(x.b)
    BY Zenon DEF TypeOK, TimeInv
  <2>2. CASE cache'[k] = cache[k]
    BY <2>2, Zenon
  <2>3. ASSUME NEW e \in x.b.ents, ~Expired(x.b, e), cache'[k] = Loaded(x.b, e)
        PROVE  cache'[k].expires = cache'[k].due
    BY <2>1, <2>3, LoadedType
  <2> QED
    BY <1>4, <2>2, <2>3, LoadBlockCache
<1>5. ~Die
  BY Zenon DEF Die
<1>6. ASSUME NEW s \in Saves, SaveStep(s) PROVE cache' = cache
  BY <1>6, Zenon DEF SaveStep, Stamp, SaveShard, FlushFails, Rename, GiveUp, Answer
<1>7. ASSUME NEW s \in Requests, RequestLoad(s) \/ \E fast \in BOOLEAN : RequestSave(s, fast)
      PROVE  cache' = cache
  BY <1>7, Zenon DEF RequestLoad, RequestSave, BeginSave
<1>8. ASSUME NEW lock \in Locks \cup {None}, SigTerm(lock) PROVE cache' = cache
  BY <1>8, Zenon DEF SigTerm, BeginSave
<1>9. CASE Tick \/ EndLoad \/ LoadFails \/ Boot \/ Exit \/ Crash \/ UNCHANGED vars
  BY <1>1, <1>5, <1>9, Zenon DEF Tick, EndLoad, LoadFails, Boot, Exit, Crash, vars
<1> QED
  BY <1>1, <1>2, <1>3, <1>4, <1>6, <1>7, <1>8, <1>9, Zenon DEF Next, LoadStep

\* Every step of the server keeps the times of the blocks of the work files.
LEMMA WorkTimedStep ==
    TypeOK /\ SaveInv /\ TimeInv /\ [Next]_vars =>
        \A s \in Saves : work'[s] # None => \A b \in DOMAIN work'[s] : Timed(work'[s][b])
<1> SUFFICES ASSUME TypeOK, SaveInv, TimeInv, [Next]_vars, NEW r \in Saves, work'[r] # None,
                    NEW c \in DOMAIN work'[r]
             PROVE  Timed(work'[r][c])
  BY Zenon
<1>1. CASE work'[r] = work[r]
  BY <1>1, Zenon DEF TimeInv
<1>2. ASSUME NEW s \in Saves, NEW i \in DOMAIN th[s], SaveShard(s, i) \/ FlushFails(s, i)
      PROVE  Timed(work'[r][c])
  <2> DEFINE w == work[s]
             t == th[s][i]
  <2>1. w \in Seq(Blocks) /\ t \in SaveThreads
    BY <1>2, Zenon DEF SaveShard, FlushFails, SaveInv, WorkInv, TypeOK
  <2>2. t.at \in Shards /\ t.time \in Nat
    BY <2>1, Zenon DEF SaveThreads
  <2> HIDE DEF t
  <2>3. \E b \in Blocks : Timed(b) /\ (work' = work \/ work' = [work EXCEPT ![s] = Append(w, b)])
    <3>1. CASE FlushFails(s, i)
      <4> DEFINE b == [kind |-> "torn", time |-> 0, ents |-> {}]
      <4>1. b \in Blocks /\ Timed(b) /\ work' = [work EXCEPT ![s] = Append(w, b)]
        BY <3>1, Zenon DEF FlushFails, Blocks, Timed
      <4> QED
        BY <4>1, Zenon
    <3>2. CASE SaveShard(s, i)
      <4> DEFINE b == [kind |-> "good", time |-> t.time, ents |-> Iter(t.at, t.time)]
      <4>1. b \in Blocks
        BY <2>2, IterType, Zenon DEF Blocks
      <4>2. Timed(b)
        BY <2>2, IterTimed DEF Timed, TimeInv
      <4>3. work' = work \/ work' = [work EXCEPT ![s] = Append(w, b)]
        BY <3>2, Zenon DEF SaveShard, t
      <4> QED
        BY <4>1, <4>2, <4>3, Zenon
    <3> QED
      BY <1>2, <3>1, <3>2, Zenon
  <2>4. PICK b \in Blocks : Timed(b) /\ (work' = work \/ work' = [work EXCEPT ![s] = Append(w, b)])
    BY <2>3, Zenon
  <2>5. CASE work' = work \/ r # s
    BY <1>1, <2>4, <2>5, Zenon DEF TypeOK
  <2>6. CASE work' # work /\ r = s
    <3>1. work'[r] = Append(w, b)
      BY <2>4, <2>6, Zenon DEF TypeOK
    <3>2. w # None => \A j \in DOMAIN w : Timed(w[j])
      BY Zenon DEF TimeInv
    <3> HIDE DEF w
    <3>3. w # None
      BY <2>1, NoneApart, Zenon
    <3> QED
      BY <2>1, <2>4, <3>1, <3>2, <3>3, BlockAppended
  <2> QED
    BY <2>5, <2>6, Zenon
<1>3. ASSUME NEW s \in Saves, NEW fast \in BOOLEAN, BeginSave(s, fast) PROVE Timed(work'[r][c])
  BY <1>1, <1>3 DEF BeginSave, TypeOK
<1>4. ASSUME NEW s \in Saves, Rename(s) \/ GiveUp(s) PROVE work'[r] = work[r]
  BY <1>4, Zenon DEF Rename, GiveUp, Finish, TypeOK
<1>5. ASSUME Boot PROVE work'[r] = work[r]
  BY <1>5, Zenon DEF Boot, cleanwork
<1>6. ASSUME NEW s \in Saves, Answer(s) \/ \E i \in DOMAIN th[s] : Stamp(s, i) PROVE work' = work
  BY <1>6, Zenon DEF Stamp, Answer
<1>7. ASSUME NEW k \in Keys, Delete(k) \/ \E ttl \in Ttls : Store(k, ttl) PROVE work' = work
  BY <1>7, Zenon DEF Delete, Store
<1>8. CASE Tick \/ LoadStep \/ Exit \/ Crash \/ (\E q \in Requests : RequestLoad(q)) \/ UNCHANGED vars
  BY <1>1, <1>8, Zenon DEF Tick, LoadStep, EndLoad, LoadFails, LoadBlock, Exit, Crash, RequestLoad, vars
<1> QED
  BY <1>1, <1>2, <1>3, <1>4, <1>5, <1>6, <1>7, <1>8, Zenon
     DEF Next, SaveStep, RequestSave, SigTerm, Saves

\* Only the rename of a save changes the persistence file.
LEMMA FileStep ==
    ASSUME [Next]_vars PROVE file' = file \/ \E s \in Saves : Rename(s)
<1>1. ASSUME NEW k \in Keys, Delete(k) \/ \E ttl \in Ttls : Store(k, ttl) PROVE file' = file
  BY <1>1, Zenon DEF Delete, Store
<1>2. ASSUME NEW s \in Requests, RequestLoad(s) \/ \E fast \in BOOLEAN : RequestSave(s, fast)
      PROVE  file' = file
  BY <1>2, Zenon DEF RequestLoad, RequestSave, BeginSave
<1>3. ASSUME NEW lock \in Locks \cup {None}, SigTerm(lock) PROVE file' = file
  BY <1>3, Zenon DEF SigTerm, BeginSave
<1>4. ASSUME NEW s \in Saves, SaveStep(s) PROVE file' = file \/ Rename(s)
  BY <1>4, Zenon DEF SaveStep, Stamp, SaveShard, FlushFails, GiveUp, Answer
<1>5. CASE Tick \/ LoadStep \/ Boot \/ Exit \/ Crash \/ UNCHANGED vars
  BY <1>5, Zenon DEF Tick, LoadStep, EndLoad, LoadFails, LoadBlock, Boot, Exit, Crash, vars
<1> QED
  BY <1>1, <1>2, <1>3, <1>4, <1>5, Zenon DEF Next

\* The blocks under way into the cache come from the persistence file.
LEMMA BlocksStep ==
    ASSUME TypeOK, [Next]_vars
    PROVE  \/ loading'.blocks \subseteq loading.blocks
           \/ file # None /\ loading'.blocks = {[n |-> n, b |-> file[n]] : n \in DOMAIN file}
<1>1. ASSUME NEW k \in Keys, Delete(k) \/ \E ttl \in Ttls : Store(k, ttl) PROVE loading' = loading
  BY <1>1, Zenon DEF Delete, Store
<1>2. ASSUME NEW s \in Requests, \E fast \in BOOLEAN : RequestSave(s, fast) PROVE loading' = loading
  BY <1>2, Zenon DEF RequestSave, BeginSave
<1>3. ASSUME NEW s \in Requests, RequestLoad(s)
      PROVE  file # None /\ loading'.blocks = {[n |-> n, b |-> file[n]] : n \in DOMAIN file}
  BY <1>3, Zenon DEF RequestLoad, BeginLoad
<1>4. ASSUME NEW lock \in Locks \cup {None}, SigTerm(lock) PROVE loading' = loading
  BY <1>4, Zenon DEF SigTerm, BeginSave
<1>5. ASSUME NEW s \in Saves, SaveStep(s) PROVE loading' = loading
  BY <1>5, Zenon DEF SaveStep, Stamp, SaveShard, FlushFails, GiveUp, Answer, Rename
<1>6. CASE Exit \/ Crash \/ EndLoad \/ LoadFails
  <2>1. loading'.blocks = {}
    BY <1>6, SMTT(30) DEF Exit, Crash, EndLoad, LoadFails, Die, Undone
  <2> QED
    BY <2>1, Zenon
<1>7. CASE Boot
  BY <1>7 DEF Boot, BeginLoad
<1>8. ASSUME NEW x \in loading.blocks, LoadBlock(x) PROVE loading'.blocks = loading.blocks \ {x}
  BY <1>8, Zenon DEF LoadBlock, TypeOK
<1>9. CASE Tick \/ UNCHANGED vars
  BY <1>9, Zenon DEF Tick, vars
<1> QED
  BY <1>1, <1>2, <1>3, <1>4, <1>5, <1>6, <1>7, <1>8, <1>9, Zenon DEF Next, LoadStep

\* Every step of the server keeps the times of all entries and blocks.
LEMMA TimeStep == TypeOK /\ SaveInv /\ TimeInv /\ [Next]_vars => TimeInv'
<1> SUFFICES ASSUME TypeOK, SaveInv, TimeInv, [Next]_vars PROVE TimeInv'
  BY Zenon
<1>1. ExpiryKept'
  BY ExpiryStep, Zenon
<1>2. \A s \in Saves : work'[s] # None => \A b \in DOMAIN work'[s] : Timed(work'[s][b])
  BY WorkTimedStep, Zenon
<1>3. file' # None => \A b \in DOMAIN file' : Timed(file'[b])
  <2>1. CASE file' = file
    BY <2>1, Zenon DEF TimeInv
  <2>2. ASSUME NEW s \in Saves, Rename(s) PROVE file' = work[s]
    BY <2>2, Zenon DEF Rename
  <2> QED
    BY <2>1, <2>2, FileStep, Zenon DEF TimeInv
<1>4. \A x \in loading'.blocks : Timed(x.b)
  <2>1. CASE loading'.blocks \subseteq loading.blocks
    BY <2>1, Zenon DEF TimeInv
  <2>2. CASE file # None /\ loading'.blocks = {[n |-> n, b |-> file[n]] : n \in DOMAIN file}
    BY <2>2, SMTT(30) DEF TimeInv
  <2> QED
    BY <2>1, <2>2, BlocksStep, Zenon
<1> QED
  BY <1>1, <1>2, <1>3, <1>4, Zenon DEF TimeInv, Timed

\* A file that a save renames is whole.
LEMMA RenamedWhole ==
    ASSUME SaveInv, NEW s \in Saves, Rename(s)
    PROVE  file' = work[s] /\ KeysOnce(file') /\ \A i \in DOMAIN file' : file'[i].kind = "good"
<1>1. file' = work[s] /\ WorkInv(s) /\ \A i \in DOMAIN th[s] : th[s][i].st # "failed"
  BY Zenon DEF Rename, Joined, AllOk, SaveInv
<1> QED
  BY <1>1, SMTT(30) DEF WorkInv, KeysOnce

\* Every step of the server keeps a file at the persistence path whole.
LEMMA PathStep == SaveInv /\ PathWhole /\ [Next]_vars => PathWhole'
<1> SUFFICES ASSUME SaveInv, PathWhole, [Next]_vars PROVE PathWhole'
  BY Zenon
<1>1. CASE file' = file
  BY <1>1 DEF PathWhole, Good, KeysOnce
<1>2. ASSUME NEW s \in Saves, Rename(s) PROVE PathWhole'
  BY <1>2, RenamedWhole, Zenon DEF PathWhole, Good, KeysOnce
<1> QED
  BY <1>1, <1>2, FileStep, Zenon

\* What is left of a process that is down, and of the saves of one that is not.
StrayInv ==
    /\ mode = "down" => loading = Undone
    /\ mode # "down" => \A s \in Saves :
          work[s] # None => save[s] = "threads" \/ s \in unremoved

\* Every step of the server keeps work files to running saves, or to the ones
\* that could not be removed.
LEMMA StrayStep == TypeOK /\ StrayInv /\ [Next]_vars => StrayInv'
<1> SUFFICES ASSUME TypeOK, StrayInv, [Next]_vars PROVE StrayInv'
  BY Zenon
<1>1. ASSUME NEW k \in Keys, Delete(k) \/ \E ttl \in Ttls : Store(k, ttl) PROVE StrayInv'
  BY <1>1, Zenon DEF Delete, Store, StrayInv
<1>2. ASSUME NEW s \in Saves, NEW fast \in BOOLEAN, mode = "up", BeginSave(s, fast) PROVE StrayInv'
  BY <1>2, Zenon DEF BeginSave, StrayInv, TypeOK
<1>3. ASSUME NEW s \in Saves, NEW i \in DOMAIN th[s],
             Stamp(s, i) \/ SaveShard(s, i) \/ FlushFails(s, i)
      PROVE  StrayInv'
  <2>1. /\ save[s] = "threads" /\ UNCHANGED <<mode, loading, save, unremoved>>
        /\ \A r \in Saves : r # s => work'[r] = work[r]
    BY <1>3, Zenon DEF Stamp, SaveShard, FlushFails, SetThread, TypeOK
  <2> QED
    BY <2>1, Zenon DEF StrayInv
<1>4. ASSUME NEW s \in Saves, Rename(s) \/ GiveUp(s) PROVE StrayInv'
  <2>1. PICK left \in {None, work[s]} : Finish(s, left) /\ UNCHANGED <<mode, loading>>
    BY <1>4, Zenon DEF Rename, GiveUp
  <2> QED
    BY <2>1, Zenon DEF Finish, StrayInv, TypeOK
<1>5. ASSUME NEW s \in Saves, Answer(s) PROVE StrayInv'
  BY <1>5, Zenon DEF Answer, StrayInv, TypeOK
<1>6. CASE Die
  BY <1>6, Zenon DEF Die, Undone, StrayInv
<1>7. CASE Boot
  <2>1. PICK kept \in SUBSET {s \in Saves : work[s] # None} : cleanwork(kept)
    BY <1>7, Zenon DEF Boot
  <2>2. \A s \in Saves : work'[s] # None => s \in unremoved'
    BY <2>1, Zenon DEF cleanwork
  <2>3. mode' # "down"
    BY <1>7, Zenon DEF Boot
  <2> QED
    BY <2>2, <2>3, Zenon DEF StrayInv
<1>8. ASSUME NEW q \in Requests, RequestLoad(q) PROVE StrayInv'
  BY <1>8, Zenon DEF RequestLoad, StrayInv
<1>9. CASE EndLoad
  BY <1>9 DEF EndLoad, LoadOver, Undone, StrayInv
<1>10. CASE LoadFails /\ loading.by # "boot"
  BY <1>10, Zenon DEF LoadFails, Undone, StrayInv
<1>11. ASSUME NEW x \in loading.blocks, LoadBlock(x) PROVE StrayInv'
  BY <1>11, SMTT(30) DEF LoadBlock, Undone, StrayInv
<1>12. CASE Tick \/ UNCHANGED vars
  BY <1>12, Zenon DEF Tick, vars, StrayInv
<1> QED
  BY <1>1, <1>2, <1>3, <1>4, <1>5, <1>6, <1>7, <1>8, <1>9, <1>10, <1>11, <1>12, Zenon
     DEF Next, SaveStep, LoadStep, LoadFails, RequestSave, SigTerm, Exit, Crash, Saves

\* What load_block does to each key of the cache.
LEMMA LoadBlockKeys ==
    ASSUME NEW x \in loading.blocks, LoadBlock(x)
    PROVE  /\ \A k \in Keys : (\A e \in x.b.ents : e.key # k) => cache'[k] = cache[k]
           /\ \A e \in x.b.ents : e.key \in Keys /\ ~Expired(x.b, e) =>
                 \E f \in x.b.ents : f.key = e.key /\ cache'[e.key] = Loaded(x.b, f)
<1> DEFINE ents == {e \in x.b.ents : ~Expired(x.b, e)}
           ks == {e.key : e \in ents}
           pick(k) == CHOOSE e \in ents : e.key = k
<1>1. \A k \in ks : pick(k) \in ents /\ pick(k).key = k
  BY Zenon
<1>2. cache' = [k \in Keys |-> IF k \in ks THEN [j \in ks |-> Loaded(x.b, pick(j))][k] ELSE cache[k]]
  BY Zenon DEF LoadBlock
<1>3. cache' = [k \in Keys |-> IF k \in ks THEN Loaded(x.b, pick(k)) ELSE cache[k]]
  BY <1>2
<1> HIDE DEF pick
<1>4. \A k \in Keys : (\A e \in x.b.ents : e.key # k) => cache'[k] = cache[k]
  BY <1>3, Zenon
<1>5. \A e \in x.b.ents : e.key \in Keys /\ ~Expired(x.b, e) =>
         \E f \in x.b.ents : f.key = e.key /\ cache'[e.key] = Loaded(x.b, f)
  BY <1>1, <1>3, Zenon
<1> QED
  BY <1>4, <1>5, Zenon

\* The entries of a block of a file.
LEMMA BlockOfFile ==
    ASSUME NEW f \in Seq(Blocks), NEW n \in DOMAIN f, NEW e \in f[n].ents
    PROVE  e.key \in Keys /\ e.due \in Nat
<1>1. f[n] \in Blocks
  OBVIOUS
<1> QED
  BY <1>1, Zenon DEF Blocks, BlockEnts

\* An entry that is alive is not one that load_block skips.
LEMMA AliveLoads ==
    ASSUME TypeOK, NEW b \in Blocks, Timed(b), NEW e \in b.ents, Alive(e.due, clock)
    PROVE  ~Expired(b, e)
<1>1. clock \in Nat /\ b.time \in Nat /\ e.ttl \in Nat /\ e.due \in Nat
  BY Zenon DEF TypeOK, Blocks, BlockEnts
<1>2. e.ttl > 0 => b.time + e.ttl = e.due
  BY Zenon DEF Timed
<1> QED
  BY <1>1, <1>2 DEF Alive, Expired

\* The start of the server: no key before it, then those of the blocks of the
\* file that are no longer under way; a bad block stays under way.
Under(n) == [n |-> n, b |-> file[n]]
FromFile == \A k \in Keys : cache[k] # None =>
    \E n \in Good(file) : \E e \in file[n].ents : e.key = k /\ e.val = cache[k].val
InCache(n) == \A e \in file[n].ents : Alive(e.due, clock) =>
    cache[e.key] # None /\ cache[e.key].val = e.val /\ cache[e.key].due = e.due
FileOnce == file # None => KeysOnce(file)
BootInv ==
    /\ mode = "down" => \A k \in Keys : cache[k] = None
    /\ mode = "loading" =>
          /\ file # None /\ FromFile
          /\ loading.blocks \subseteq {Under(n) : n \in DOMAIN file}
          /\ \A n \in DOMAIN file : Under(n) \in loading.blocks \/ (n \in Good(file) /\ InCache(n))
    /\ ServesWhole

\* A block of the file goes into the cache while the server starts.
LEMMA BootBlock ==
    ASSUME TypeOK, TimeInv, FileOnce, BootInv, mode = "loading",
           NEW x \in loading.blocks, LoadBlock(x)
    PROVE  FromFile' /\ \A n \in DOMAIN file : Under(n) \in loading'.blocks \/ (n \in Good(file) /\ InCache(n)')
<1>1. file \in Seq(Blocks) /\ file # None /\ KeysOnce(file)
  BY Zenon DEF TypeOK, BootInv, FileOnce
<1>2. PICK m \in DOMAIN file : x = Under(m)
  BY Zenon DEF BootInv
<1>3. x.b = file[m] /\ x.n = m /\ file[m] \in Blocks /\ m \in Good(file)
  BY <1>1, <1>2 DEF Under, LoadBlock, Good
<1>4. UNCHANGED <<mode, clock, file>> /\ loading'.blocks = loading.blocks \ {x}
  <2>1. UNCHANGED <<mode, clock, file>> /\ loading' = [loading EXCEPT !.blocks = loading.blocks \ {x}]
    BY Zenon DEF LoadBlock
  <2> QED
    BY <2>1, Zenon DEF TypeOK
<1>5. \A n \in DOMAIN file : \A e \in file[n].ents : e.key \in Keys
  BY <1>1, BlockOfFile, Zenon
<1>6. FromFile'
  <2> SUFFICES ASSUME NEW k \in Keys, cache'[k] # None
               PROVE  \E n \in Good(file) : \E e \in file[n].ents : e.key = k /\ e.val = cache'[k].val
    BY <1>4, Zenon DEF FromFile, Good
  <2>1. CASE cache'[k] = cache[k]
    BY <2>1, SMTT(30) DEF BootInv, FromFile
  <2>2. ASSUME NEW e \in x.b.ents, e.key = k, ~Expired(x.b, e), cache'[k] = Loaded(x.b, e)
        PROVE  \E n \in Good(file) : \E f \in file[n].ents : f.key = k /\ f.val = cache'[k].val
    BY <1>3, <2>2, LoadedType
  <2> QED
    BY <2>1, <2>2, LoadBlockCache
<1>7. InCache(m)'
  <2> SUFFICES ASSUME NEW e \in file[m].ents, Alive(e.due, clock)
               PROVE  cache'[e.key] # None /\ cache'[e.key].val = e.val /\ cache'[e.key].due = e.due
    BY <1>4, Zenon DEF InCache
  <2>1. Timed(file[m]) /\ ~Expired(file[m], e)
    BY <1>1, <1>3, AliveLoads, Zenon DEF TimeInv
  <2>2. PICK f \in file[m].ents : f.key = e.key /\ cache'[e.key] = Loaded(file[m], f)
    BY <1>3, <1>5, <2>1, LoadBlockKeys
  <2>3. f = e
    BY <1>1, <2>2, Zenon DEF KeysOnce
  <2>4. /\ cache'[e.key] \in [val : Nat, expires : Nat, due : Nat]
        /\ cache'[e.key].val = e.val /\ cache'[e.key].due = e.due
    BY <1>3, <2>1, <2>2, <2>3, LoadedType
  <2> QED
    BY <2>4, NoneApart, Zenon
<1>8. ASSUME NEW n \in DOMAIN file, n # m, InCache(n) PROVE InCache(n)'
  <2>1. \A e \in file[n].ents : cache'[e.key] = cache[e.key]
    BY <1>1, <1>3, <1>5, <1>8, LoadBlockKeys, SMTT(30) DEF KeysOnce
  <2> QED
    BY <1>4, <1>8, <2>1, Zenon DEF InCache
<1>9. \A n \in DOMAIN file : Under(n) = x => n = m
  BY <1>2, Zenon DEF Under
<1>10. \A n \in DOMAIN file : Under(n) \in loading.blocks \/ (n \in Good(file) /\ InCache(n))
  BY Zenon DEF BootInv
<1> QED
  BY <1>3, <1>4, <1>6, <1>7, <1>8, <1>9, <1>10, Zenon

\* Every step of the server keeps the start of the server exact.
LEMMA BootStep ==
    ASSUME TypeOK, TypeOK', SaveInv, TimeInv, FileOnce, StrayInv, BootInv, [Next]_vars
    PROVE  BootInv'
<1>0. clock \in Nat /\ clock' \in Nat /\ clock <= clock
  BY DEF TypeOK
<1>1. ASSUME UNCHANGED <<mode, cache, file, loading>>, clock <= clock' PROVE BootInv'
  <2>1. ServesWhole'
    BY <1>1, Zenon DEF BootInv, ServesWhole, Good
  <2>2. CASE mode # "loading"
    BY <1>1, <2>1, <2>2, Zenon DEF BootInv
  <2>3. CASE mode = "loading"
    <3>1. FromFile' /\ Good(file)' = Good(file) /\ \A n \in DOMAIN file : Under(n)' = Under(n)
      BY <1>1, <2>3, SMTT(30) DEF BootInv, FromFile, Good, Under
    <3>2. file \in Seq(Blocks)
      BY <2>3, Zenon DEF TypeOK, BootInv
    <3>3. ASSUME NEW n \in DOMAIN file, InCache(n) PROVE InCache(n)'
      <4> SUFFICES ASSUME NEW e \in file[n].ents, Alive(e.due, clock')
                   PROVE  cache[e.key] # None /\ cache[e.key].val = e.val /\ cache[e.key].due = e.due
        BY <1>1, Zenon DEF InCache
      <4>1. e.due \in Nat
        BY <3>2, BlockOfFile, Zenon
      <4>2. Alive(e.due, clock)
        BY <1>0, <1>1, <4>1, SMTT(30) DEF Alive
      <4> QED
        BY <3>3, <4>2, Zenon DEF InCache
    <3> QED
      BY <1>1, <2>1, <2>3, <3>1, <3>3, Zenon DEF BootInv
  <2> QED
    BY <2>2, <2>3, Zenon
<1>2. ASSUME mode' = "up", ServesWhole' PROVE BootInv'
  BY <1>2, Zenon DEF BootInv
<1>3. ASSUME mode' = "up", mode = "up", file' = file PROVE BootInv'
  BY <1>2, <1>3, Zenon DEF BootInv, ServesWhole, Good
<1>4. ASSUME Die PROVE BootInv'
  BY <1>4, Zenon DEF Die, BootInv, ServesWhole
<1>5. CASE Tick
  <2>1. clock <= clock'
    BY <1>0, <1>5, SMTT(30) DEF Tick
  <2> QED
    BY <1>1, <1>5, <2>1, Zenon DEF Tick
<1>6. ASSUME NEW k \in Keys, Delete(k) \/ \E ttl \in Ttls : Store(k, ttl) PROVE BootInv'
  BY <1>3, <1>6, Zenon DEF Delete, Store
<1>7. ASSUME NEW q \in Requests, RequestLoad(q) PROVE BootInv'
  BY <1>3, <1>7, Zenon DEF RequestLoad
<1>8. ASSUME NEW s \in Saves, NEW fast \in BOOLEAN, BeginSave(s, fast) PROVE BootInv'
  BY <1>0, <1>1, <1>8, Zenon DEF BeginSave
<1>9. ASSUME NEW s \in Saves, SaveStep(s) PROVE BootInv'
  <2>1. CASE Rename(s)
    <3>1. mode = "up" /\ mode' = mode
      BY <2>1, Zenon DEF Rename, Joined, SaveInv
    <3>2. ServesWhole'
      BY <2>1, RenamedWhole, Zenon DEF ServesWhole, Good
    <3> QED
      BY <1>2, <3>1, <3>2, Zenon
  <2>2. CASE ~Rename(s)
    <3>1. UNCHANGED <<mode, cache, file, loading, clock>>
      BY <1>9, <2>2, Zenon DEF SaveStep, Stamp, SaveShard, FlushFails, GiveUp, Answer
    <3> QED
      BY <1>0, <1>1, <3>1, Zenon
  <2> QED
    BY <2>1, <2>2, Zenon
<1>10. CASE Boot
  <2>1. CASE file = None
    BY <1>2, <1>10, <2>1, Zenon DEF Boot, ServesWhole
  <2>2. CASE file # None
    <3>1. mode = "down" /\ mode' = "loading" /\ UNCHANGED <<clock, cache, file>>
      BY <1>10, <2>2, Zenon DEF Boot
    <3>2. loading'.blocks = {[n |-> n, b |-> file[n]] : n \in DOMAIN file}
      BY <1>10, <2>2, SMTT(30) DEF Boot, BeginLoad
    <3>3. \A k \in Keys : cache'[k] = None
      BY <3>1, Zenon DEF BootInv
    <3> QED
      BY <2>2, <3>1, <3>2, <3>3, ZenonT(60) DEF BootInv, FromFile, ServesWhole, Under
  <2> QED
    BY <2>1, <2>2, Zenon
<1>11. CASE EndLoad
  <2>1. mode' = "up" /\ file' = file /\ loading.by # None /\ loading.blocks = {}
    BY <1>11, Zenon DEF EndLoad, LoadOver
  <2>2. mode # "down"
    BY <2>1 DEF StrayInv, Undone
  <2>3. CASE mode = "loading"
    <3>1. \A n \in DOMAIN file : n \in Good(file)
      BY <2>1, <2>3, Zenon DEF BootInv
    <3>2. ServesWhole'
      BY <2>1, <3>1, Zenon DEF ServesWhole, Good
    <3> QED
      BY <1>2, <2>1, <3>2, Zenon
  <2> QED
    BY <1>3, <2>1, <2>2, <2>3, Zenon DEF TypeOK
<1>12. CASE LoadFails
  <2>1. CASE loading.by = "boot"
    BY <1>4, <1>12, <2>1, Zenon DEF LoadFails
  <2>2. CASE loading.by # "boot"
    <3>1. mode # "loading" /\ mode' = mode /\ cache' = cache /\ file' = file
      BY <1>12, <2>2, Zenon DEF LoadFails, TypeOK
    <3> QED
      BY <3>1, Zenon DEF BootInv, ServesWhole, Good
  <2> QED
    BY <2>1, <2>2, Zenon
<1>13. ASSUME NEW x \in loading.blocks, LoadBlock(x) PROVE BootInv'
  <2>1. UNCHANGED <<mode, file>>
    BY <1>13, Zenon DEF LoadBlock
  <2>2. mode # "down"
    BY <1>13 DEF StrayInv, Undone
  <2>3. CASE mode = "loading"
    <3>1. /\ FromFile'
          /\ \A n \in DOMAIN file : Under(n) \in loading'.blocks \/ (n \in Good(file) /\ InCache(n)')
      BY <1>13, <2>3, BootBlock, Zenon
    <3>2. loading'.blocks \subseteq loading.blocks
      <4>1. loading' = [loading EXCEPT !.blocks = loading.blocks \ {x}]
        BY <1>13, Zenon DEF LoadBlock
      <4> QED
        BY <4>1, Zenon DEF TypeOK
    <3>3. Good(file)' = Good(file) /\ \A n \in DOMAIN file : Under(n)' = Under(n)
      BY <2>1, Zenon DEF Good, Under
    <3>4. {Under(n)' : n \in DOMAIN file} = {Under(n) : n \in DOMAIN file}
      BY <3>3, Zenon
    <3> QED
      BY <2>1, <2>3, <3>1, <3>2, <3>3, <3>4, ZenonT(30) DEF BootInv, ServesWhole
  <2> QED
    BY <1>3, <2>1, <2>2, <2>3, SMTT(30) DEF TypeOK
<1>14. CASE UNCHANGED vars
  BY <1>0, <1>1, <1>14, Zenon DEF vars
<1> QED
  BY <1>4, <1>5, <1>6, <1>7, <1>8, <1>9, <1>10, <1>11, <1>12, <1>13, <1>14, Zenon
     DEF Next, LoadStep, RequestSave, SigTerm, Exit, Crash, Saves
-----------------------------------------------------------------------------
(* The theorems.                                                            *)

\* When every thread ended well, every shard is done.
LEMMA AllDone ==
    ASSUME TypeOK, NEW s \in Saves, RangesInv(s), AllOk(s), NEW x \in Shards
    PROVE  x \in Done(s)
<1>1. PICK i \in DOMAIN th[s] : th[s][i].first <= x /\ x <= th[s][i].last
  BY Zenon DEF RangesInv
<1>2. x \in DoneBy(th[s][i])
  BY <1>1, Zenon DEF DoneBy, AllOk
<1> QED
  BY <1>2, Zenon DEF Done

\* The untouched keys of a save that is about to rename are in its work file.
LEMMA StableSaved ==
    ASSUME TypeOK, SaveInv, NEW s \in Saves, Joined(s), AllOk(s),
           NEW k \in stable[s], Alive(cache[k].due, clock)
    PROVE  /\ k \in Keys /\ cache[k] # None
           /\ \E b \in Good(work[s]) : \E e \in work[s][b].ents :
                 e.key = k /\ e.val = cache[k].val /\ e.due = cache[k].due
<1>1. RangesInv(s) /\ WorkInv(s) /\ StableInv(s)
  BY Zenon DEF Joined, SaveInv
<1>2. k \in Keys /\ ShardOf[k] \in Shards
  BY Zenon DEF TypeOK
<1>3. ShardOf[k] \in Done(s)
  BY <1>1, <1>2, AllDone, Zenon
<1>4. \A b \in DOMAIN work[s] : b \in Good(work[s])
  BY <1>1, Zenon DEF WorkInv, AllOk, Good
<1> QED
  BY <1>1, <1>2, <1>3, <1>4, ZenonT(30) DEF StableInv

\* What the last completed save guarantees of a key holds of the file, of the
\* cache of a server that is up, and of every save that runs.
InFile(k) == \E n \in Good(file) : \E e \in file[n].ents :
    e.key = k /\ e.val = saved[k].val /\ e.due = saved[k].due
Sure(k) == saved[k] # None /\ saved[k].alone /\ Alive(saved[k].due, clock)
Cached(k) == cache[k] # None /\ cache[k].val = saved[k].val /\ cache[k].due = saved[k].due
Untouched(k) == \A s \in Saves : save[s] = "threads" => k \in stable[s]
DurableAt(k) ==
    /\ saved[k] # None => saved[k].due \in Nat
    /\ Sure(k) =>
          /\ file # None /\ InFile(k)
          /\ mode = "up" => Cached(k)
          /\ Untouched(k)
DurableInv == \A k \in Keys : DurableAt(k)

\* A step that changes neither the guarantee of a key nor the file keeps the
\* guarantee, when the cache and the saves that run keep the key.
LEMMA DurableBy ==
    ASSUME NEW k \in Keys, DurableAt(k), saved'[k] = saved[k], file' = file,
           clock \in Nat, clock' \in Nat, clock <= clock',
           Sure(k) /\ mode' = "up" => Cached(k)', Sure(k) => Untouched(k)'
    PROVE  DurableAt(k)'
<1>1. saved[k] # None => saved[k].due \in Nat
  BY Zenon DEF DurableAt
<1>2. Sure(k)' => Sure(k)
  BY <1>1, SMTT(30) DEF Sure, Alive
<1>3. InFile(k)' <=> InFile(k)
  BY SMTT(30) DEF InFile, Good
<1>4. Sure(k) => file # None /\ InFile(k)
  BY Zenon DEF DurableAt
<1> QED
  BY <1>1, <1>2, <1>3, <1>4, ZenonT(30) DEF DurableAt

\* Time passes, and nothing else that the guarantee speaks of changes.
LEMMA DurableSame ==
    ASSUME NEW k \in Keys, DurableAt(k), saved' = saved, file' = file,
           clock \in Nat, clock' \in Nat, clock <= clock',
           mode' = mode, cache' = cache, save' = save, stable' = stable
    PROVE  DurableAt(k)'
<1>1. Sure(k) /\ mode' = "up" => Cached(k)'
  BY Zenon DEF DurableAt, Cached
<1>2. Sure(k) => Untouched(k)'
  BY Zenon DEF DurableAt, Untouched
<1> QED
  BY <1>1, <1>2, DurableBy, Zenon

\* A write ends the guarantee of its keys and leaves the others alone.
LEMMA DurableForget ==
    ASSUME NEW k \in Keys, DurableAt(k), clock \in Nat, NEW ks, Forget(ks),
           k \notin ks => cache'[k] = cache[k],
           file' = file, clock' = clock, mode' = mode, save' = save
    PROVE  DurableAt(k)'
<1>1. CASE k \in ks
  <2>1. saved'[k] = None
    BY <1>1, Zenon DEF Forget
  <2> QED
    BY <2>1, Zenon DEF DurableAt, Sure
<1>2. CASE k \notin ks
  <2>1. saved'[k] = saved[k] /\ \A s \in Saves : k \in stable[s] => k \in stable'[s]
    BY <1>2, Zenon DEF Forget
  <2>2. Sure(k) /\ mode' = "up" => Cached(k)'
    BY <1>2, <2>1, Zenon DEF DurableAt, Cached
  <2>3. Sure(k) => Untouched(k)'
    BY <2>1, Zenon DEF DurableAt, Untouched
  <2>4. clock \in Nat /\ clock' \in Nat /\ clock <= clock'
    OBVIOUS
  <2> QED
    BY <2>1, <2>2, <2>3, <2>4, DurableBy, Zenon
<1> QED
  BY <1>1, <1>2, ZenonT(30)

\* A save that begins finds every guaranteed key in the cache.
LEMMA DurableBegin ==
    ASSUME TypeOK, TimeInv, NEW k \in Keys, DurableAt(k), NEW s \in Saves,
           NEW fast \in BOOLEAN, mode = "up", BeginSave(s, fast)
    PROVE  DurableAt(k)'
<1>1. /\ mode' = mode /\ clock' = clock /\ cache' = cache /\ file' = file /\ saved' = saved
      /\ stable' = [stable EXCEPT ![s] = LiveKeys] /\ save' = [save EXCEPT ![s] = "threads"]
  BY Zenon DEF BeginSave
<1>2. Sure(k) => Cached(k)
  BY Zenon DEF DurableAt
<1>3. Sure(k) => k \in LiveKeys
  BY <1>2, Zenon DEF LiveKeys, Sure, Cached, Alive, TimeInv, ExpiryKept
<1>4. Sure(k) => \A r \in Saves : save[r] = "threads" => k \in stable[r]
  BY Zenon DEF DurableAt, Untouched
<1>5. /\ \A r \in Saves : r # s => save'[r] = save[r] /\ stable'[r] = stable[r]
      /\ stable'[s] = LiveKeys
  BY <1>1, Zenon DEF TypeOK
<1>6. Sure(k) => Untouched(k)'
  BY <1>3, <1>4, <1>5, ZenonT(30) DEF Untouched
<1>7. Sure(k) => Cached(k)'
  BY <1>1, <1>2, Zenon DEF Cached
<1>8. clock \in Nat /\ clock' \in Nat /\ clock <= clock'
  BY <1>1 DEF TypeOK
<1> QED
  BY <1>1, <1>6, <1>7, <1>8, DurableBy, ZenonT(30)

\* The rename gives the guarantee to the untouched keys of the save; when
\* another save had a guarantee for a key, this one wrote the key too.
LEMMA DurableRename ==
    ASSUME TypeOK, SaveInv, NEW k \in Keys, DurableAt(k), NEW s \in Saves, Rename(s)
    PROVE  DurableAt(k)'
<1>1. /\ save[s] = "threads" /\ mode = "up" /\ mode' = mode /\ clock' = clock /\ cache' = cache
      /\ file' = work[s] /\ save' = [save EXCEPT ![s] = "done"] /\ Joined(s) /\ AllOk(s)
  BY Zenon DEF Rename, Joined, SaveInv, Finish
<1>2. CASE k \in stable[s]
  <2>1. cache[k] # None /\ cache[k].due \in Nat
    BY <1>1, <1>2, SMTT(30) DEF SaveInv, StableInv, TypeOK, Entries
  <2>2. saved'[k] = [val |-> cache[k].val, due |-> cache[k].due,
                     alone |-> \A r \in Saves \ {s} : save[r] # "threads"]
    BY <1>2, Zenon DEF Rename
  <2>3. /\ saved'[k].val = cache[k].val /\ saved'[k].due = cache[k].due
        /\ saved'[k].alone => \A r \in Saves \ {s} : save[r] # "threads"
    BY <2>2, SMTT(30)
  <2>4. ASSUME Sure(k)' PROVE file' # None /\ InFile(k)'
    <3>1. Alive(cache[k].due, clock)
      BY <1>1, <2>3, <2>4, Zenon DEF Sure
    <3>2. \E b \in Good(work[s]) : \E e \in work[s][b].ents :
             e.key = k /\ e.val = cache[k].val /\ e.due = cache[k].due
      BY <1>1, <1>2, <3>1, StableSaved, SMTT(30)
    <3>3. work[s] # None
      BY <1>1, NoneApart, Zenon DEF SaveInv, WorkInv
    <3> QED
      BY <1>1, <2>3, <3>2, <3>3, ZenonT(30) DEF InFile, Good
  <2>5. \A r \in Saves : r # s => save'[r] = save[r]
    BY <1>1, Zenon DEF TypeOK
  <2>6. save'[s] # "threads"
    BY <1>1, Zenon DEF TypeOK
  <2>7. Sure(k)' => Untouched(k)'
    BY <2>3, <2>5, <2>6, Zenon DEF Sure, Untouched
  <2>8. Cached(k)' /\ saved'[k].due \in Nat
    BY <1>1, <2>1, <2>3, Zenon DEF Cached
  <2> QED
    BY <2>4, <2>7, <2>8, ZenonT(30) DEF DurableAt
<1>3. CASE k \notin stable[s]
  <2>1. saved'[k] = saved[k]
    BY <1>3, Zenon DEF Rename
  <2>2. ~Sure(k)
    BY <1>1, <1>3, Zenon DEF DurableAt, Untouched
  <2>3. ~Sure(k)'
    BY <1>1, <2>1, <2>2, Zenon DEF Sure
  <2>4. saved'[k] # None => saved'[k].due \in Nat
    BY <2>1, Zenon DEF DurableAt
  <2> QED
    BY <2>3, <2>4, ZenonT(30) DEF DurableAt
<1> QED
  BY <1>2, <1>3, ZenonT(30)

\* The load at the start brings every guaranteed key back into the cache.
LEMMA DurableLoaded ==
    ASSUME TypeOK, StrayInv, BootInv, NEW k \in Keys, DurableAt(k), EndLoad
    PROVE  DurableAt(k)'
<1>1. /\ clock' = clock /\ cache' = cache /\ file' = file /\ save' = save /\ stable' = stable
      /\ saved' = saved /\ loading.by # None /\ loading.blocks = {}
  BY Zenon DEF EndLoad, LoadOver
<1>2. Sure(k) => Untouched(k)'
  BY <1>1, Zenon DEF DurableAt, Untouched
<1>3. Sure(k) => Cached(k)
  <2>1. CASE mode = "up"
    BY <2>1, Zenon DEF DurableAt
  <2>2. CASE mode = "loading"
    <3> SUFFICES ASSUME Sure(k) PROVE Cached(k)
      BY Zenon
    <3>1. PICK n \in Good(file) : \E e \in file[n].ents :
             e.key = k /\ e.val = saved[k].val /\ e.due = saved[k].due
      BY Zenon DEF DurableAt, InFile
    <3>2. InCache(n)
      BY <1>1, <2>2, <3>1, Zenon DEF BootInv, Good
    <3> QED
      BY <3>1, <3>2 DEF InCache, Sure, Cached
  <2>3. mode # "down"
    <3>1. Undone.by = None
      BY Zenon DEF Undone
    <3> QED
      BY <1>1, <3>1, Zenon DEF StrayInv
  <2> QED
    BY <2>1, <2>2, <2>3, Zenon DEF TypeOK
<1>4. Sure(k) => Cached(k)'
  BY <1>1, <1>3, Zenon DEF Cached
<1>5. clock \in Nat /\ clock' \in Nat /\ clock <= clock'
  BY <1>1 DEF TypeOK
<1> QED
  BY <1>1, <1>2, <1>4, <1>5, DurableBy, Zenon

\* A block that LOAD stores ends the guarantee of its keys; the load at the
\* start meets no server that is up.
LEMMA DurableBlock ==
    ASSUME TypeOK, NEW k \in Keys, DurableAt(k), NEW x \in loading.blocks, LoadBlock(x)
    PROVE  DurableAt(k)'
<1>1. mode' = mode /\ clock' = clock /\ file' = file /\ save' = save
  BY Zenon DEF LoadBlock
<1>2. clock \in Nat /\ clock' \in Nat /\ clock <= clock'
  BY <1>1 DEF TypeOK
<1>3. CASE loading.by = "boot"
  <2>1. mode' # "up" /\ stable' = stable /\ saved' = saved
    BY <1>1, <1>3, Zenon DEF LoadBlock, TypeOK
  <2>2. Sure(k) => Untouched(k)'
    BY <1>1, <2>1, Zenon DEF DurableAt, Untouched
  <2> QED
    BY <1>1, <1>2, <2>1, <2>2, DurableBy, Zenon
<1>4. CASE loading.by # "boot"
  <2> DEFINE ks == {e.key : e \in {f \in x.b.ents : ~Expired(x.b, f)}}
  <2>1. Forget(ks) /\ (k \notin ks => cache'[k] = cache[k])
    BY <1>4, Zenon DEF LoadBlock
  <2> HIDE DEF ks
  <2> QED
    BY <1>1, <1>2, <2>1, DurableForget, Zenon
<1> QED
  BY <1>3, <1>4, Zenon

\* Every step of the server keeps the guarantees of completed saves.
LEMMA DurableStep ==
    ASSUME TypeOK, TypeOK', SaveInv, TimeInv, StrayInv, BootInv, DurableInv, [Next]_vars
    PROVE  DurableInv'
<1> SUFFICES ASSUME NEW k \in Keys PROVE DurableAt(k)'
  BY Zenon DEF DurableInv
<1>0. DurableAt(k) /\ clock \in Nat /\ clock' \in Nat /\ clock <= clock
  BY DEF TypeOK, DurableInv
<1>1. ASSUME NEW j \in Keys, Delete(j) \/ \E ttl \in Ttls : Store(j, ttl) PROVE DurableAt(k)'
  <2>1. Forget({j}) /\ \E c : cache' = [cache EXCEPT ![j] = c]
    BY <1>1, Zenon DEF Delete, Store
  <2>2. k \notin {j} => cache'[k] = cache[k]
    BY <2>1, SMTT(30) DEF TypeOK
  <2>3. file' = file /\ clock' = clock /\ mode' = mode /\ save' = save
    BY <1>1, Zenon DEF Delete, Store
  <2> QED
    BY <1>0, <2>1, <2>2, <2>3, DurableForget, ZenonT(30)
<1>2. ASSUME NEW s \in Saves, GiveUp(s) \/ Answer(s) PROVE DurableAt(k)'
  <2>1. /\ mode' = mode /\ clock' = clock /\ cache' = cache /\ file' = file /\ saved' = saved
        /\ \A r \in Saves : save'[r] = "threads" => save[r] = "threads" /\ stable'[r] = stable[r]
    <3>1. CASE GiveUp(s)
      <4>1. save' = [save EXCEPT ![s] = "done"] /\ stable' = [stable EXCEPT ![s] = {}]
        BY <3>1, Zenon DEF GiveUp, Finish
      <4>2. mode' = mode /\ clock' = clock /\ cache' = cache /\ file' = file /\ saved' = saved
        BY <3>1, Zenon DEF GiveUp
      <4> QED
        BY <4>1, <4>2, Zenon DEF TypeOK
    <3>2. CASE Answer(s)
      BY <3>2, Zenon DEF Answer, TypeOK
    <3> QED
      BY <1>2, <3>1, <3>2, ZenonT(30)
  <2>2. Sure(k) /\ mode' = "up" => Cached(k)'
    BY <1>0, <2>1, ZenonT(30) DEF DurableAt, Cached
  <2>3. Sure(k) => Untouched(k)'
    BY <1>0, <2>1, Zenon DEF DurableAt, Untouched
  <2> QED
    BY <1>0, <2>1, <2>2, <2>3, DurableBy, Zenon
<1>3. ASSUME saved' = saved, file' = file, clock <= clock', mode' = mode, cache' = cache,
             save' = save, stable' = stable
      PROVE  DurableAt(k)'
  BY <1>0, <1>3, DurableSame, ZenonT(30)
<1>4. ASSUME NEW s \in Saves, NEW i \in DOMAIN th[s],
             Stamp(s, i) \/ SaveShard(s, i) \/ FlushFails(s, i)
      PROVE  DurableAt(k)'
  BY <1>0, <1>3, <1>4, Zenon DEF Stamp, SaveShard, FlushFails, SetThread
<1>5. ASSUME Die, UNCHANGED <<clock, file, saved>> PROVE DurableAt(k)'
  <2>1. /\ saved' = saved /\ file' = file /\ clock' = clock /\ mode' = "down"
        /\ \A s \in Saves : save'[s] = "idle"
    BY <1>5, Zenon DEF Die
  <2>2. Untouched(k)'
    BY <2>1, Zenon DEF Untouched
  <2> QED
    BY <1>0, <2>1, <2>2, DurableBy, Zenon
<1>6. CASE Tick
  <2>1. clock <= clock'
    BY <1>0, <1>6, SMTT(30) DEF Tick
  <2> QED
    BY <1>3, <1>6, <2>1, Zenon DEF Tick
<1>7. CASE Boot
  <2>1. /\ clock' = clock /\ file' = file /\ save' = save /\ stable' = stable /\ saved' = saved
        /\ mode' = "up" => file = None
    BY <1>7, Zenon DEF Boot
  <2>2. Sure(k) => Untouched(k)' /\ mode' # "up"
    BY <1>0, <2>1, Zenon DEF DurableAt, Untouched
  <2> QED
    BY <1>0, <2>1, <2>2, DurableBy, Zenon
<1>8. ASSUME NEW q \in Requests, RequestLoad(q) PROVE DurableAt(k)'
  BY <1>0, <1>3, <1>8, Zenon DEF RequestLoad
<1>9. CASE LoadFails
  <2>1. CASE loading.by = "boot"
    BY <1>5, <1>9, <2>1, Zenon DEF LoadFails
  <2>2. CASE loading.by # "boot"
    BY <1>0, <1>3, <1>9, <2>2, Zenon DEF LoadFails
  <2> QED
    BY <2>1, <2>2, Zenon
<1>10. CASE UNCHANGED vars
  BY <1>0, <1>3, <1>10, Zenon DEF vars
<1>11. ASSUME NEW s \in Saves, NEW fast \in BOOLEAN, mode = "up", BeginSave(s, fast)
       PROVE  DurableAt(k)'
  BY <1>0, <1>11, DurableBegin, Zenon
<1>12. ASSUME NEW s \in Saves, Rename(s) PROVE DurableAt(k)'
  BY <1>0, <1>12, DurableRename, Zenon
<1>13. CASE EndLoad
  BY <1>0, <1>13, DurableLoaded, Zenon
<1>14. ASSUME NEW x \in loading.blocks, LoadBlock(x) PROVE DurableAt(k)'
  BY <1>0, <1>14, DurableBlock, Zenon
<1> QED
  BY <1>1, <1>2, <1>4, <1>5, <1>6, <1>7, <1>8, <1>9, <1>10, <1>11, <1>12, <1>13, <1>14, ZenonT(30)
     DEF Next, SaveStep, LoadStep, RequestSave, SigTerm, Exit, Crash, Saves

-----------------------------------------------------------------------------
\* The inductive invariant: all of the above together.
AllInv ==
    /\ TypeOK /\ SaveInv /\ TimeInv /\ PathWhole /\ FileOnce
    /\ StrayInv /\ BootInv /\ DurableInv

\* The server starts in it.
LEMMA InitInv == Init => AllInv
<1> SUFFICES ASSUME Init PROVE AllInv
  BY Zenon
<1>1. file = None \/ (file \in Seq(Blocks) /\ KeysOnce(file) /\ \A b \in DOMAIN file : Timed(file[b]))
  BY FilesSound, Zenon DEF Init
<1>2. TypeOK
  <2>1. NoThreads \in [DOMAIN NoThreads -> SaveThreads]
    BY Zenon DEF NoThreads
  <2>2. th = [s \in Saves |-> NoThreads]
    BY Zenon DEF Init
  <2>3. th \in [Saves -> {th[s] : s \in Saves}] /\ \A s \in Saves : th[s] \in [DOMAIN th[s] -> SaveThreads]
    BY <2>1, <2>2, Zenon
  <2>4. cache \in [Keys -> Entries]
    BY Zenon DEF Init, Entries
  <2>5. loading \in [blocks : SUBSET [n : Nat, b : Blocks], by : Requests \cup {"boot", None}]
        /\ loading.by = None
    BY Zenon DEF Init, Undone
  <2> QED
    BY <1>1, <2>3, <2>4, <2>5, SMTT(30) DEF Init, TypeOK
<1>3. SaveInv
  BY Zenon DEF Init, SaveInv
<1>4. TimeInv
  BY <1>1, Zenon DEF Init, TimeInv, ExpiryKept, Undone
<1>5. PathWhole
  BY Zenon DEF Init, PathWhole
<1>6. FileOnce
  BY <1>1, Zenon DEF FileOnce
<1>7. StrayInv
  BY Zenon DEF Init, StrayInv
<1>8. BootInv
  BY Zenon DEF Init, BootInv, ServesWhole
<1>9. DurableInv
  BY Zenon DEF Init, DurableInv, DurableAt, Sure
<1> QED
  BY <1>2, <1>3, <1>4, <1>5, <1>6, <1>7, <1>8, <1>9, Zenon DEF AllInv

\* Every step of the server keeps it.
LEMMA NextInv == AllInv /\ [Next]_vars => AllInv'
<1> SUFFICES ASSUME AllInv, [Next]_vars PROVE AllInv'
  BY Zenon
<1>1. TypeOK /\ SaveInv /\ TimeInv /\ PathWhole /\ FileOnce /\ StrayInv /\ BootInv /\ DurableInv
  BY Zenon DEF AllInv
<1>2. TypeOK'
  BY <1>1, TypeStep, Zenon
<1>3. SaveInv'
  BY <1>1, <1>2, SaveInvStep, Zenon DEF TimeInv
<1>4. TimeInv'
  BY <1>1, TimeStep, Zenon
<1>5. PathWhole'
  BY <1>1, PathStep, Zenon
<1>6. FileOnce'
  <2>1. CASE file' = file
    BY <1>1, <2>1, SMTT(30) DEF FileOnce, KeysOnce
  <2>2. ASSUME NEW s \in Saves, Rename(s) PROVE FileOnce'
    BY <1>1, <2>2, RenamedWhole, Zenon DEF FileOnce, KeysOnce
  <2> QED
    BY <2>1, <2>2, FileStep, Zenon
<1>7. StrayInv'
  BY <1>1, StrayStep, Zenon
<1>8. BootInv'
  BY <1>1, <1>2, BootStep, Zenon
<1>9. DurableInv'
  BY <1>1, <1>2, DurableStep, Zenon
<1> QED
  BY <1>2, <1>3, <1>4, <1>5, <1>6, <1>7, <1>8, <1>9, Zenon DEF AllInv

\* It holds in every state of every execution.
THEOREM Invariance == Spec => []AllInv
BY InitInv, NextInv, PTL DEF Spec

\* Every variable of the server's life cycle keeps its type, for every crash and
\* restart.
THEOREM TypeCorrect == Spec => []TypeOK
<1>1. AllInv => TypeOK
  BY Zenon DEF AllInv
<1> QED
  BY <1>1, Invariance, PTL

\* The threads of save() divide the shards, and what they have done is in the
\* work file.
THEOREM SaveInvariant == Spec => []SaveInv
<1>1. AllInv => SaveInv
  BY Zenon DEF AllInv
<1> QED
  BY <1>1, Invariance, PTL

\* A save that is about to rename its work file misses no untouched key.
THEOREM SavesCover == Spec => []SaveCovers
<1>1. AllInv => SaveCovers
  <2> SUFFICES ASSUME AllInv, NEW s \in Saves, Joined(s), AllOk(s), NEW k \in stable[s],
                      Alive(cache[k].due, clock)
               PROVE  \E e \in Contents(work[s]) : e.key = k /\ e.val = cache[k].val
    BY Zenon DEF SaveCovers
  <2>1. \E b \in Good(work[s]) : \E e \in work[s][b].ents : e.key = k /\ e.val = cache[k].val
    BY StableSaved DEF AllInv
  <2> QED
    BY <2>1, Zenon DEF Contents
<1> QED
  BY <1>1, Invariance, PTL

\* A file that a save has put at the persistence path is whole.
THEOREM PathIsWhole == Spec => []PathWhole
<1>1. AllInv => PathWhole
  BY Zenon DEF AllInv
<1> QED
  BY <1>1, Invariance, PTL

\* What a save that ran alone has saved survives every crash, failed save and
\* restart until it is changed or expires.
THEOREM Durability == Spec => []Durable
<1>1. AllInv => Durable
  <2> SUFFICES ASSUME AllInv, NEW k \in Keys, Sure(k)
               PROVE  /\ \E e \in Contents(file) : e.key = k /\ e.val = saved[k].val
                      /\ mode = "up" => cache[k] # None /\ cache[k].val = saved[k].val
    BY Zenon DEF Durable, Sure
  <2>1. InFile(k) /\ (mode = "up" => cache[k] # None /\ cache[k].val = saved[k].val)
    BY Zenon DEF AllInv, DurableInv, DurableAt, Cached
  <2> QED
    BY <2>1, Zenon DEF InFile, Contents
<1> QED
  BY <1>1, Invariance, PTL

\* The start-up load puts the entries of the file into the cache, and no other.
THEOREM StartIsExact == Spec => []LoadExact
<1>1. AllInv => LoadExact
  <2> SUFFICES ASSUME AllInv, LoadOver, loading.by = "boot"
               PROVE  /\ \A k \in Keys : cache[k] # None =>
                            \E e \in Contents(file) : e.key = k /\ e.val = cache[k].val
                      /\ \A e \in Contents(file) : Alive(e.due, clock) =>
                            cache[e.key] # None /\ cache[e.key].val = e.val
    BY Zenon DEF LoadExact
  <2>1. mode = "loading" /\ loading.blocks = {}
    BY Zenon DEF AllInv, TypeOK, LoadOver
  <2>2. FromFile /\ \A n \in DOMAIN file : InCache(n)
    BY <2>1, Zenon DEF AllInv, BootInv
  <2>3. \A k \in Keys : cache[k] # None => \E e \in Contents(file) : e.key = k /\ e.val = cache[k].val
    BY <2>2, SMTT(30) DEF FromFile, Contents
  <2>4. \A e \in Contents(file) : Alive(e.due, clock) => cache[e.key] # None /\ cache[e.key].val = e.val
    BY <2>2, SMTT(30) DEF InCache, Contents, Good
  <2> QED
    BY <2>3, <2>4, Zenon
<1> QED
  BY <1>1, Invariance, PTL

\* A server that serves has loaded all of a good file.
THEOREM ServedWhole == Spec => []ServesWhole
<1>1. AllInv => ServesWhole
  BY Zenon DEF AllInv, BootInv
<1> QED
  BY <1>1, Invariance, PTL

\* However often it is saved and loaded, an entry that expires does so when its
\* client asked.
THEOREM ExpiryHolds == Spec => []ExpiryKept
<1>1. AllInv => ExpiryKept
  BY Zenon DEF AllInv, TimeInv
<1> QED
  BY <1>1, Invariance, PTL

\* A server that is up has no work file but those of its running saves.
THEOREM NoStray == Spec => []NoStrayWork
<1>1. AllInv => NoStrayWork
  BY Zenon DEF AllInv, StrayInv, NoStrayWork
<1> QED
  BY <1>1, Invariance, PTL
=============================================================================
