------------------------------- MODULE Commands -------------------------------
(***************************************************************************)
(* The commands of cmds.c on the cache.  A connection runs one command at a  *)
(* time: it reads the clock once, and then makes one call of pogocache.c per *)
(* key, a load and a store inside a batch, or a scan of shard after shard    *)
(* in the background.  Other connections run between those calls.            *)
(*                                                                         *)
(* A call of pogocache.c is one step here (Shard and ShardLock show what is  *)
(* behind it); the entries are those of Entry, the numbers those of Numbers. *)
(***************************************************************************)
EXTENDS Numbers, Entry, FiniteSets

CONSTANTS Conns, Proto,           \* Proto: connection -> "resp", "memcache"
          Keys, NShards, ShardOf, \* keys are texts; ShardOf: key -> 0..NShards-1
          Menus,                  \* name -> the commands of each connection, whether
                                  \* there is a memory limit, and a bound on the
                                  \* stores to a shard
          NProcs,                 \* sys_nprocs()
          SECOND, MILLISECOND, MONTH,  \* in ticks of the clock
          Epoch,                  \* sys_unixnow() - sys_now()
          MaxVal,                 \* MAXARGSZ
          None,
          MaxClock                \* bound of the clock

ASSUME ShardsAndProcs == NShards \in Nat \ {0} /\ NProcs \in Nat \ {0}

VARIABLES menu,         \* what the clients of this behaviour do
          clock,        \* sys_now()
          db,           \* the entries of the cache
          cas,          \* shard -> shard->cas
          cleartime,    \* shard -> shard->cleartime
          locked,       \* shard -> the connection whose batch holds it, or None
          conn,         \* connection -> the command it runs
          lowmem, flush_delay,
          plain,        \* key -> what the commands so far mean (history)
          wrong         \* connections that got an answer not meant (history)

vars == <<menu, clock, db, cas, cleartime, locked, conn, lowmem, flush_delay, plain, wrong>>

Shards == 0..NShards - 1
Idle == [st |-> "idle"]

Init ==
    /\ menu \in DOMAIN Menus
    /\ clock = 1 /\ db = {}
    /\ cas = [s \in Shards |-> 0] /\ cleartime = [s \in Shards |-> 0]
    /\ locked = [s \in Shards |-> None]
    /\ conn = [c \in Conns |-> Idle]
    /\ lowmem = FALSE /\ flush_delay = 0
    /\ plain = [k \in Keys |-> None] /\ wrong = {}

\* What a connection is told.
Error == <<"error">>
Null == <<"null">>
OK == <<"ok">>
Number(n) == <<"number", n>>
Bulk(t) == <<"bulk", t>>

-----------------------------------------------------------------------------
(* The calls of pogocache.c *)

Find(k) == {e \in db : entry_key(e) = k}
Alive(e, t) ==
    /\ entry_time(e) >= cleartime[ShardOf[entry_key(e)]]
    /\ entry_expires(e) = 0 \/ entry_expires(e) > t
Live(k, t) == {e \in Find(k) : Alive(e, t)}
The(es) == entry_extract(CHOOSE e \in es : TRUE)
Of(shard) == {e \in db : ShardOf[entry_key(e)] = shard}

\* A load removes an entry that is no longer alive and sets the time of
\* one that is.
Loaded(k, t, touch) ==
    (db \ Find(k)) \cup {IF touch THEN entry_settime(e, t) ELSE e : e \in Live(k, t)}

NextCas(k) == cas[ShardOf[k]] + 1
CountCas(k) == cas' = [cas EXCEPT ![ShardOf[k]] = @ + 1]

Defaults == [expires |-> 0, flags |-> 0, nx |-> FALSE, xx |-> FALSE, bad |-> FALSE,
             get |-> FALSE, keepttl |-> FALSE, cas |-> 0, casop |-> FALSE,
             hasex |-> FALSE]

\* storeop: the status and the entries afterwards.
Put(new) == {e \in db : ~entry_same(e, new)} \cup {new}
NewEntry(k, val, expires, flags, t) ==
    entry_settime(entry_new(k, val, expires, flags, NextCas(k)), t)

StoreOver(k, val, o, t, old) ==
    IF IF o.casop THEN ~UseCas \/ o.cas # old.cas ELSE o.nx
    THEN [status |-> "FOUND", db |-> db]
    ELSE [status |-> "REPLACED",
          db |-> Put(NewEntry(k, val, IF o.keepttl THEN old.expires ELSE o.expires,
                              o.flags, t))]
StoreNew(k, val, o, t) ==
    IF o.xx \/ o.casop
    THEN [status |-> "NOTFOUND", db |-> db \ Find(k)]
    ELSE [status |-> "INSERTED", db |-> Put(NewEntry(k, val, o.expires, o.flags, t))]
Store(k, val, o, t) ==
    IF Live(k, t) # {} THEN StoreOver(k, val, o, t, The(Live(k, t)))
    ELSE StoreNew(k, val, o, t)

-----------------------------------------------------------------------------
(* What the commands mean: a dictionary with times of expiry *)

\* FLUSHALL undoes what was last stored or used by a command that began before it.
Has(k, t) ==
    /\ plain[k] # None
    /\ plain[k].at >= cleartime[ShardOf[k]]
    /\ plain[k].due = 0 \/ plain[k].due > t
Meant(k, val, due, flags, t) ==
    [plain EXCEPT ![k] = [val |-> val, due |-> due, flags |-> flags, id |-> NextCas(k),
                          at |-> t]]
Used(k, t) ==
    [plain EXCEPT ![k] = IF Has(k, t) THEN [@ EXCEPT !.at = t] ELSE None]
Without(K) == [k \in Keys |-> IF k \in K THEN None ELSE plain[k]]
\* Once a command has found that a key has expired, it has for every other.
Checked(K, t) == Without({k \in K : ~Has(k, t)})
IsDecimal(t, range) == \E n \in range : i64toa(n) = t
Decimal(t) == CHOOSE n \in MinI..MaxU : i64toa(n) = t

\* The time a client asks for with SETEX or the last expiry option of a SET.
Due(c, now, cmd) ==
    LET opts == CASE cmd.op = "SET" -> cmd.opts
                  [] cmd.op = "SETEX" -> <<[o |-> "ex", n |-> cmd.num]>>
                  [] cmd.op \notin {"SET", "SETEX"} -> <<>>
        ex == {i \in 1..Len(opts) : opts[i].o \in {"ex", "px", "exat", "pxat"}}
        o == opts[CHOOSE i \in ex : \A j \in ex : j <= i]
        n == (IF IsDecimal(o.n, Ints) THEN Decimal(o.n) ELSE 0) * (IF o.o \in {"ex", "exat"} THEN SECOND ELSE MILLISECOND)
    IN  IF ex = {} THEN 0
        ELSE IF o.o \in {"exat", "pxat"} \/ (Proto[c] = "memcache" /\ n > MONTH)
        THEN IF n - Epoch > now THEN Clamp(n - Epoch) ELSE now
        ELSE IF n <= 0 THEN now ELSE Clamp(now + n)

-----------------------------------------------------------------------------
(* Commands *)

Running(c, ops) == conn[c].st = "run" /\ conn[c].cmd.op \in ops
Free(c, k) == locked[ShardOf[k]] \in {None, c}
Room(k) == cas[ShardOf[k]] < Menus[menu].stores
Answer(c, r, meant) ==
    /\ conn' = [conn EXCEPT ![c] = Idle]
    /\ wrong' = IF r = meant THEN wrong \ {c} ELSE wrong \cup {c}
Rest == <<menu, clock, cleartime, lowmem, flush_delay>>

\* Mutant of expiry_seconds_time: a time of memcache is always an offset.
expiry_seconds_timeOffset(c, now, n) == int64_add_clamp(now, n)

expiry_seconds_time(c, now, n) ==
    int64_add_clamp(now,
        IF Proto[c] = "memcache" /\ n > MONTH
        THEN IF n > now + Epoch THEN n - (now + Epoch) ELSE 0
        ELSE n)

Expiry(c, now, o, n) ==
    CASE n <= 0 -> expiry_seconds_time(c, now, 0)
      [] n > 0 /\ o = "ex" -> expiry_seconds_time(c, now, int64_mul_clamp(n, SECOND))
      [] n > 0 /\ o = "px" -> expiry_seconds_time(c, now, int64_mul_clamp(n, MILLISECOND))
      [] n > 0 /\ o = "exat" -> int64_mul_clamp(n, SECOND)
      [] n > 0 /\ o = "pxat" -> int64_mul_clamp(n, MILLISECOND)

\* The options of SET, from the left; an option that is unknown or lacks its
\* argument is "bad".
ExpiryOption(c, now, r, o, i) ==
    [r EXCEPT !.bad = @ \/ ~i.ok \/ (i.n <= 0 /\ Proto[c] # "memcache"),
              !.expires = Expiry(c, now, o, i.n), !.hasex = TRUE]
\* The flags are the lower half of a number.
NumberOption(r, o, u) ==
    IF o = "flags" THEN [r EXCEPT !.flags = u.n % 2 ^ (W \div 2), !.bad = @ \/ ~u.ok]
    ELSE [r EXCEPT !.cas = u.n, !.casop = TRUE, !.bad = @ \/ ~u.ok]
Option(c, now, r, o) ==
    CASE o.o \in {"ex", "px", "exat", "pxat"} ->
           ExpiryOption(c, now, r, o.o, parse_i64(o.n))
      [] o.o \in {"flags", "cas"} -> NumberOption(r, o.o, parse_u64(o.n))
      [] o.o = "nx" -> [r EXCEPT !.nx = TRUE]
      [] o.o = "xx" -> [r EXCEPT !.xx = TRUE]
      [] o.o = "get" -> [r EXCEPT !.get = TRUE]
      [] o.o = "keepttl" -> [r EXCEPT !.keepttl = TRUE]
      [] o.o = "bad" -> [r EXCEPT !.bad = TRUE]

Compatible(r) == [r EXCEPT !.bad = @ \/ (r.keepttl /\ r.hasex) \/ (r.xx /\ r.nx)]
SetOptions(c, now, opts) ==
    LET after[i \in 0..Len(opts)] ==
            IF i = 0 THEN Defaults ELSE Option(c, now, after[i - 1], opts[i])
    IN  Compatible(after[Len(opts)])

Later(now, n) == int64_add_clamp(now, int64_mul_clamp(n, SECOND))
SetexOptions(now, i) ==
    [Defaults EXCEPT !.expires = Later(now, i.n), !.bad = ~i.ok \/ i.n <= 0]

ParseOptions(c, now, cmd) ==
    CASE cmd.op = "SET" -> SetOptions(c, now, cmd.opts)
      [] cmd.op = "SETEX" -> SetexOptions(now, parse_i64(cmd.num))
      [] cmd.op \notin {"SET", "SETEX"} -> Defaults

\* evcommand: the connection starts a command, which reads sys_now.
Start(c, cmd) ==
    /\ conn[c].st = "idle" /\ cmd.op \notin {"KEYS", "SWEEP", "FLUSHALL"}
    /\ conn' = [conn EXCEPT ![c] =
            [st |-> "run", cmd |-> cmd, now |-> clock, i |-> 1, n |-> <<>>,
             meant |-> <<>>, o |-> ParseOptions(c, clock, cmd), due |-> Due(c, clock, cmd)]]
    /\ UNCHANGED <<Rest, db, cas, locked, plain, wrong>>

\* SET and SETEX: wrong options, a store, or no memory for it.
SetRefused(c) ==
    /\ Running(c, {"SET", "SETEX"})
    /\ conn[c].o.bad
    /\ Answer(c, Error, Error)
    /\ UNCHANGED <<Rest, db, cas, locked, plain>>

SetNoMem(c) ==
    LET k == conn[c].cmd.key IN
    /\ Running(c, {"SET", "SETEX"}) /\ Free(c, k) /\ Room(k) /\ ~conn[c].o.bad
    /\ CountCas(k)
    /\ Answer(c, Error, Error)
    /\ UNCHANGED <<Rest, db, locked, plain>>

\* With little memory an insertion evicts an entry of the shard, the new one
\* only if it is born expired.
Evicted(k, r, t) ==
    IF lowmem /\ r.status = "INSERTED" /\ Find(k) = {}
    THEN {{}} \cup {{e} : e \in {d \in r.db : /\ ShardOf[entry_key(d)] = ShardOf[k]
                                          /\ entry_key(d) = k => ~Alive(d, t)}}
    ELSE {{}}

\* What is said when nothing is stored; memcache tells the reasons apart.
NotStored(c, found) ==
    IF Proto[c] # "memcache" THEN Null ELSE IF found THEN <<"exists">> ELSE <<"not found">>
SetAnswer(c, o, r, hit) ==
    IF o.get THEN IF r.status = "REPLACED" THEN Bulk(The(hit).val) ELSE Null
    ELSE IF r.status \in {"INSERTED", "REPLACED"} THEN OK
    ELSE NotStored(c, r.status = "FOUND")

\* A SET stores when it has a key and a CAS number, or what NX and XX ask for.
Stores(k, o, t) ==
    IF o.casop THEN Has(k, t) /\ plain[k].id = o.cas
    ELSE (o.nx => ~Has(k, t)) /\ (o.xx => Has(k, t))
SetMeans(k, o, x, stores) ==
    IF stores
    THEN Meant(k, x.cmd.val, IF o.keepttl /\ Has(k, x.now) THEN plain[k].due ELSE x.due,
               o.flags, x.now)
    ELSE Checked({k}, x.now)
SetAnswerMeant(c, k, o, t, stores) ==
    IF o.get THEN IF stores /\ Has(k, t) THEN Bulk(plain[k].val) ELSE Null
    ELSE IF stores THEN OK ELSE NotStored(c, Has(k, t))

SetEnds(c, k, o, x, r, stores) ==
    /\ \E gone \in Evicted(k, r, x.now) :
        /\ db' = r.db \ gone
        /\ plain' = [j \in Keys |-> IF j \in {entry_key(e) : e \in gone} THEN None
                                  ELSE SetMeans(k, o, x, stores)[j]]
    /\ Answer(c, SetAnswer(c, o, r, Live(k, x.now)), SetAnswerMeant(c, k, o, x.now, stores))

ExecSET(c) ==
    LET x == conn[c]
        k == x.cmd.key
    IN  /\ Running(c, {"SET", "SETEX"}) /\ Free(c, k) /\ Room(k) /\ ~x.o.bad
        /\ CountCas(k)
        /\ SetEnds(c, k, x.o, x, Store(k, x.cmd.val, x.o, x.now), Stores(k, x.o, x.now))
        /\ UNCHANGED <<Rest, locked>>

\* Commands of several keys: one call per key, then the answer.
ForKey(c, k, r, meant) ==
    LET x == conn[c] IN
    IF x.i = Len(x.cmd.keys)
    THEN Answer(c, Append(x.n, r), Append(x.meant, meant))
    ELSE /\ conn' = [conn EXCEPT ![c] =
                [x EXCEPT !.i = @ + 1, !.n = Append(@, r), !.meant = Append(@, meant)]]
         /\ UNCHANGED wrong

LoadKey(c) ==
    LET x == conn[c]
        k == x.cmd.keys[x.i]
        hit == Live(k, x.now)
        has == Has(k, x.now)
    IN  /\ Running(c, {"MGET", "EXISTS", "TOUCH"}) /\ Free(c, k)
        /\ db' = Loaded(k, x.now, x.cmd.op # "EXISTS")
        /\ plain' = IF x.cmd.op # "EXISTS" THEN Used(k, x.now)
                    ELSE Checked({k}, x.now)
        /\ IF x.cmd.op = "MGET"
           THEN ForKey(c, k, IF hit = {} THEN Null ELSE Bulk(The(hit).val),
                       IF has THEN Bulk(plain[k].val) ELSE Null)
           ELSE ForKey(c, k, Number(Cardinality(hit)), Number(IF has THEN 1 ELSE 0))
        /\ UNCHANGED <<Rest, cas, locked>>

DeleteKey(c) ==
    LET x == conn[c]
        k == x.cmd.keys[x.i]
    IN  /\ Running(c, {"DEL"}) /\ Free(c, k)
        /\ db' = db \ Find(k)
        /\ plain' = Without({k})
        /\ ForKey(c, k, Number(Cardinality(Live(k, x.now))),
                  Number(IF Has(k, x.now) THEN 1 ELSE 0))
        /\ UNCHANGED <<Rest, cas, locked>>

\* TTL and PTTL: what is left, -1 without an expiration, -2 without an entry.
TtlOf(hit, now, unit) ==
    IF hit = {} THEN Number(-2)
    ELSE IF The(hit).expires > 0 THEN Number(Quot(The(hit).expires - now, unit))
    ELSE Number(-1)

ExecTTL(c) ==
    LET x == conn[c]
        k == x.cmd.key
        unit == IF x.cmd.op = "TTL" THEN SECOND ELSE MILLISECOND
    IN  /\ Running(c, {"TTL", "PTTL"}) /\ Free(c, k)
        /\ db' = Loaded(k, x.now, FALSE) /\ plain' = Checked({k}, x.now)
        /\ Answer(c, TtlOf(Live(k, x.now), x.now, unit),
                  IF ~Has(k, x.now) THEN Number(-2)
                  ELSE IF plain[k].due = 0 THEN Number(-1)
                  ELSE Number((plain[k].due - x.now) \div unit))
        /\ UNCHANGED <<Rest, cas, locked>>

\* EXPIRE: an update inside the load, 1 when there was an entry.
ExpireRefused(c) ==
    /\ Running(c, {"EXPIRE"}) /\ ~parse_i64(conn[c].cmd.num).ok
    /\ Answer(c, Error, Error)
    /\ UNCHANGED <<Rest, db, cas, locked, plain>>

Expire(c, k, now, hit, n) ==
    /\ IF hit = {}
       THEN db' = db \ Find(k) /\ UNCHANGED cas
       ELSE /\ db' = (db \ hit) \cup {NewEntry(k, The(hit).val, Later(now, n),
                                              The(hit).flags, now)}
            /\ CountCas(k)
    /\ plain' = IF ~Has(k, now) THEN Without({k})
                ELSE Meant(k, plain[k].val,
                           Clamp(now + Clamp(Decimal(conn[c].cmd.num) * SECOND)),
                           plain[k].flags, now)
    /\ Answer(c, Number(Cardinality(hit)), Number(IF Has(k, now) THEN 1 ELSE 0))

ExecEXPIRE(c) ==
    LET x == conn[c]
        k == x.cmd.key
        r == parse_i64(x.cmd.num)
    IN  /\ Running(c, {"EXPIRE"}) /\ r.ok /\ Free(c, k) /\ Room(k)
        /\ Expire(c, k, x.now, Live(k, x.now), r.n)
        /\ UNCHANGED <<Rest, locked>>

ExpireNoMem(c) ==
    LET x == conn[c]
        k == x.cmd.key
    IN  /\ Running(c, {"EXPIRE"}) /\ parse_i64(x.cmd.num).ok /\ Free(c, k) /\ Room(k)
        /\ Live(k, x.now) # {}
        /\ db' = Loaded(k, x.now, TRUE) /\ plain' = Used(k, x.now)
        /\ CountCas(k)
        /\ Answer(c, Number(0), Number(0))
        /\ UNCHANGED <<Rest, locked>>

-----------------------------------------------------------------------------
(* INCR, DECR, APPEND and PREPEND: a load and a store in one batch.  The batch *)
(* holds the lock of the shard from the load until pogocache_end.              *)

Batches == {"INCR", "APPEND"}
Parse(cmd, t) == IF cmd.unsigned THEN parse_u64(t) ELSE parse_i64(t)
RangeOf(cmd) == IF cmd.unsigned THEN Uints ELSE Ints

DeltaRefused(c) ==
    /\ Running(c, {"INCR"}) /\ ~Parse(conn[c].cmd, conn[c].cmd.num).ok
    /\ Answer(c, Error, Error)
    /\ UNCHANGED <<Rest, db, cas, locked, plain>>

\* Mutant of Keep: the batch lets go of the lock after the load.
KeepNothing(c, k) == UNCHANGED locked

\* A batch keeps the lock that its first call takes.
Keep(c, k) == locked' = [locked EXCEPT ![ShardOf[k]] = c]

\* The load.  A value that is not a number, or an absent one that memcache
\* asks for, ends the command.
Load(c, x, k, hit) ==
    IF hit = {} /\ Proto[c] = "memcache"
    THEN /\ Answer(c, Null, IF Has(k, x.now) THEN OK ELSE Null)
         /\ UNCHANGED locked
    ELSE IF x.cmd.op = "INCR" /\ hit # {} /\ ~Parse(x.cmd, The(hit).val).ok
    THEN /\ Answer(c, Error, IF IsDecimal(plain[k].val, RangeOf(x.cmd)) THEN OK ELSE Error)
         /\ UNCHANGED locked
    ELSE /\ conn' = [conn EXCEPT ![c] =
                 [st |-> "batch", cmd |-> x.cmd, now |-> x.now, hit |-> hit # {},
                  got |-> IF hit = {} THEN Defaults ELSE The(hit),
                  was |-> IF Has(k, x.now) THEN plain[k] ELSE None]]
         /\ Keep(c, k)
         /\ UNCHANGED wrong

BatchLoad(c) ==
    LET x == conn[c]
        k == x.cmd.key
    IN  /\ Running(c, Batches) /\ Free(c, k)
        /\ x.cmd.op = "INCR" => Parse(x.cmd, x.cmd.num).ok
        /\ db' = Loaded(k, x.now, TRUE) /\ plain' = Used(k, x.now)
        /\ Load(c, x, k, Live(k, x.now))
        /\ UNCHANGED <<Rest, cas>>

\* The store of a batch, with the expiration and the flags of what was loaded.
BatchStore(c, val, answer, meantVal, meantAnswer) ==
    LET x == conn[c]
        k == x.cmd.key
        o == [Defaults EXCEPT !.expires = x.got.expires, !.flags = x.got.flags]
        old == IF x.was # None THEN x.was ELSE [due |-> 0, flags |-> 0]
    IN  /\ Room(k) /\ CountCas(k)
        /\ db' = Store(k, val, o, x.now).db
        /\ plain' = Meant(k, meantVal, old.due, old.flags, x.now)
        /\ Answer(c, answer, meantAnswer)

\* The store fails, or there is nothing to store.
BatchDrops(c) ==
    /\ Answer(c, Error, Error)
    /\ UNCHANGED <<db, plain>>

\* Mutant of EndBatch: pogocache_end is left out.
EndBatchNever(c) == UNCHANGED <<locked, Rest>>

EndBatch(c) ==
    /\ locked' = [s \in Shards |-> IF locked[s] = c THEN None ELSE locked[s]]
    /\ UNCHANGED Rest

InBatch(c, op) == conn[c].st = "batch" /\ conn[c].cmd.op = op

BatchNoMem(c) ==
    /\ conn[c].st = "batch" /\ Room(conn[c].cmd.key)
    /\ CountCas(conn[c].cmd.key) /\ BatchDrops(c) /\ EndBatch(c)

\* Mutant of Wrapped: an overflow goes unnoticed.
WrappedWide(cmd, n) == n

\* The sum of W bits, as the builtins leave it.
Wrapped(cmd, n) ==
    IF cmd.unsigned THEN n % 2 ^ W
    ELSE IF n % 2 ^ W > MaxI THEN (n % 2 ^ W) - 2 ^ W ELSE n % 2 ^ W

Delta(cmd, n) == IF cmd.decr THEN -n ELSE n

\* The answer and the value of a sum, and of the sum that is meant.
StoreSum(c, cmd, n, meant, m) ==
    BatchStore(c, IF cmd.unsigned THEN u64toa(n) ELSE i64toa(n), Number(n), i64toa(m),
               IF m = meant \/ Proto[c] = "memcache" THEN Number(m) ELSE Error)

AddSum(c, cmd, sum, meant) ==
    IF Wrapped(cmd, sum) # sum /\ Proto[c] # "memcache"
    THEN BatchDrops(c) /\ UNCHANGED cas
    ELSE StoreSum(c, cmd, Wrapped(cmd, sum), meant,
                  CHOOSE i \in RangeOf(cmd) : (i - meant) % 2 ^ W = 0)

execINCRDECR(c) ==
    LET x == conn[c] IN
    /\ InBatch(c, "INCR")
    /\ AddSum(c, x.cmd,
              (IF x.hit THEN Parse(x.cmd, x.got.val).n ELSE 0)
              + Delta(x.cmd, Parse(x.cmd, x.cmd.num).n),
              (IF x.was # None THEN Decimal(x.was.val) ELSE 0)
              + Delta(x.cmd, Decimal(x.cmd.num)))
    /\ EndBatch(c)

Join(cmd, t) == IF cmd.prepend THEN cmd.val \o t ELSE t \o cmd.val
Length(c, t) == IF Proto[c] = "memcache" THEN OK ELSE Number(Len(t))
StoreJoined(c, hit, val, meant) ==
    IF hit /\ Len(val) > MaxVal
    THEN BatchDrops(c) /\ UNCHANGED cas
    ELSE BatchStore(c, val, Length(c, val), meant, Length(c, meant))

cmdAPPEND(c) ==
    LET x == conn[c] IN
    /\ InBatch(c, "APPEND")
    /\ StoreJoined(c, x.hit, IF x.hit THEN Join(x.cmd, x.got.val) ELSE x.cmd.val,
                   IF x.was # None THEN Join(x.cmd, x.was.val) ELSE x.cmd.val)
    /\ EndBatch(c)

-----------------------------------------------------------------------------
(* KEYS, SWEEP and FLUSHALL: background work that visits every shard *)

Star == 42
Question == 63
Escape == 92

\* Mutant of match: a star stands for at least one character.
RECURSIVE matchSome(_, _, _)
matchSome(pat, str, depth) ==
    IF pat = <<>> THEN str = <<>>
    ELSE IF pat[1] = Star
    THEN str # <<>> /\ (Len(pat) = 1 \/ matchSome(Tail(pat), Tail(str), depth + 1)
                       \/ matchSome(pat, Tail(str), depth))
    ELSE str # <<>> /\ pat[1] \in {Question, str[1]}
         /\ matchSome(Tail(pat), Tail(str), depth)

\* The pattern matcher; MaxDepth stars at most.
MaxDepth == 128

RECURSIVE match(_, _, _)
match(pat, str, depth) ==
    LET One(p) == str # <<>> /\ p[1] \in {Question, str[1]}
                  /\ match(Tail(p), Tail(str), depth)
    IN  IF depth = MaxDepth THEN FALSE
        ELSE IF pat = <<>> THEN str = <<>>
        ELSE IF pat[1] = Escape THEN Len(pat) > 1 /\ One(Tail(pat))
        ELSE IF pat[1] = Star
        THEN \/ Len(pat) = 1
             \/ IF pat[2] = Star THEN match(Tail(pat), str, depth)
                ELSE \/ match(Tail(pat), str, depth + 1)
                     \/ str # <<>> /\ match(pat, Tail(str), depth)
        ELSE One(pat)

\* The texts that a pattern stands for.
RECURSIVE StandsFor(_, _)
StandsFor(pat, str) ==
    CASE pat = <<>> -> str = <<>>
      [] pat # <<>> /\ pat[1] = Star ->
            \E i \in 0..Len(str) : StandsFor(Tail(pat), SubSeq(str, i + 1, Len(str)))
      [] pat # <<>> /\ pat[1] = Escape ->
            Len(pat) > 1 /\ str # <<>> /\ str[1] = pat[2]
            /\ StandsFor(SubSeq(pat, 3, Len(pat)), Tail(str))
      [] pat # <<>> /\ pat[1] \notin {Star, Escape} ->
            str # <<>> /\ pat[1] \in {Question, str[1]} /\ StandsFor(Tail(pat), Tail(str))

Procs == IF NProcs > NShards THEN NShards ELSE NProcs

\* Mutant of Share: the last thread takes no more shards than the others.
ShareEqual(i) ==
    [next |-> i * (NShards \div Procs), end |-> (i + 1) * (NShards \div Procs), time |-> 0]

\* The shards that thread i of a FLUSHALL visits.
Share(i) ==
    [next |-> i * (NShards \div Procs),
     end |-> IF i = Procs - 1 THEN NShards ELSE (i + 1) * (NShards \div Procs),
     time |-> 0]

Scanning(op) == {d \in Conns : conn[d].st = "scan" /\ conn[d].cmd.op = op}

\* begun is history: what the scan found when it began.
Scan(c, cmd, threads, begun) ==
    conn' = [conn EXCEPT ![c] =
        [st |-> "scan", cmd |-> cmd, now |-> clock, th |-> threads, found |-> {},
         begun |-> begun]]

\* Mutant of Whole: the last shard is left out.
WholeButLast == [i \in {0} |-> [next |-> 0, end |-> NShards - 1, time |-> clock]]

Whole == [i \in {0} |-> [next |-> 0, end |-> NShards, time |-> clock]]

StartScan(c, cmd) ==
    /\ conn[c].st = "idle" /\ cmd.op \in {"KEYS", "SWEEP"}
    /\ Scan(c, cmd, Whole, {e \in db : Alive(e, clock) = (cmd.op = "KEYS")})
    /\ UNCHANGED <<Rest, db, cas, locked, plain, wrong>>

\* FLUSHALL SYNC starts its threads; ASYNC only notes when it should happen.
FlushAll(c, cmd) ==
    LET n == parse_i64(cmd.num).n
        delay == int64_mul_clamp(IF n < 0 THEN 0 ELSE n, SECOND)
    IN  /\ conn[c].st = "idle" /\ cmd.op = "FLUSHALL"
        /\ IF ~parse_i64(cmd.num).ok
           THEN Answer(c, Error, Error) /\ UNCHANGED flush_delay
           ELSE IF cmd.async \/ n > 0
           THEN /\ flush_delay' = int64_add_clamp(delay, clock)
                /\ Answer(c, OK, OK)
           ELSE /\ flush_delay' = 0
                /\ Scan(c, cmd, [i \in 0..Procs - 1 |-> Share(i)],
                        {clock} \cup {conn[d].now : d \in Scanning("FLUSHALL")})
                /\ UNCHANGED wrong
        /\ UNCHANGED <<menu, clock, cleartime, lowmem, db, cas, locked, plain>>

\* A thread of FLUSHALL reads the clock.
ThreadStarts(c, i) ==
    /\ conn[c].st = "scan" /\ i \in DOMAIN conn[c].th /\ conn[c].th[i].time = 0
    /\ conn' = [conn EXCEPT ![c].th[i].time = clock]
    /\ UNCHANGED <<Rest, db, cas, locked, plain, wrong>>

AtShard(c, i, op) ==
    /\ conn[c].st = "scan" /\ i \in DOMAIN conn[c].th /\ conn[c].cmd.op = op
    /\ conn[c].th[i].time > 0 /\ conn[c].th[i].next < conn[c].th[i].end
    /\ locked[conn[c].th[i].next] = None

bgkeys_work(c, i) ==
    LET x == conn[c] IN
    /\ AtShard(c, i, "KEYS")
    /\ conn' = [conn EXCEPT ![c].th[i].next = @ + 1,
            ![c].found = @ \cup {entry_key(e) : e \in
                {d \in Of(x.th[i].next) : Alive(d, x.now) /\
                    (x.cmd.pattern = <<Star>> \/ match(x.cmd.pattern, entry_key(d), 0))}}]
    /\ UNCHANGED <<Rest, db, cas, locked, plain, wrong>>

sweep_work(c, i) ==
    /\ AtShard(c, i, "SWEEP")
    /\ db' = db \ {e \in Of(conn[c].th[i].next) : ~Alive(e, conn[c].th[i].time)}
    /\ plain' = Checked({k \in Keys : ShardOf[k] = conn[c].th[i].next}, conn[c].th[i].time)
    /\ conn' = [conn EXCEPT ![c].th[i].next = @ + 1]
    /\ UNCHANGED <<Rest, cas, locked, wrong>>

thflush(c, i) ==
    /\ AtShard(c, i, "FLUSHALL")
    /\ cleartime' = [cleartime EXCEPT ![conn[c].th[i].next] = conn[c].th[i].time]
    /\ conn' = [conn EXCEPT ![c].th[i].next = @ + 1]
    /\ UNCHANGED <<menu, clock, lowmem, flush_delay, db, cas, locked, plain, wrong>>

Scanned(c) ==
    conn[c].st = "scan" /\ \A i \in DOMAIN conn[c].th : conn[c].th[i].next = conn[c].th[i].end

EndScan(c) ==
    /\ Scanned(c)
    /\ Answer(c, OK, OK)
    /\ UNCHANGED <<Rest, db, cas, locked, plain>>

-----------------------------------------------------------------------------
\* tick: the memory in use may have crossed the limit.
tick ==
    /\ Menus[menu].memlimit
    /\ lowmem' = ~lowmem
    /\ UNCHANGED <<menu, clock, cleartime, flush_delay, db, cas, locked, conn, plain, wrong>>

Tick ==
    /\ clock < MaxClock /\ clock' = clock + 1
    /\ UNCHANGED <<menu, cleartime, lowmem, flush_delay, db, cas, locked, conn, plain, wrong>>

Works(c) ==
    \/ SetRefused(c) \/ SetNoMem(c) \/ ExecSET(c)
    \/ LoadKey(c) \/ DeleteKey(c) \/ ExecTTL(c)
    \/ ExpireRefused(c) \/ ExecEXPIRE(c) \/ ExpireNoMem(c)
    \/ DeltaRefused(c) \/ BatchLoad(c) \/ BatchNoMem(c) \/ execINCRDECR(c) \/ cmdAPPEND(c)
    \/ \E i \in 0..NShards - 1 :
          ThreadStarts(c, i) \/ bgkeys_work(c, i) \/ sweep_work(c, i) \/ thflush(c, i)
    \/ EndScan(c)

Next ==
    \/ \E c \in Conns :
          \/ \E cmd \in Menus[menu].of[c] : Start(c, cmd) \/ StartScan(c, cmd) \/ FlushAll(c, cmd)
          \/ Works(c)
    \/ tick
    \/ Tick

Spec == Init /\ [][Next]_vars

-----------------------------------------------------------------------------
(* Properties *)

\* Types; a key has one entry, and a lock is held by a connection in a batch.
TypeOK ==
    /\ clock \in 1..MaxClock /\ lowmem \in BOOLEAN /\ flush_delay \in 0..MaxI
    /\ \A e \in db : entry_key(e) \in Keys /\ entry_cas(e) \in 1..Menus[menu].stores
    /\ \A d, e \in db : entry_key(d) = entry_key(e) => d = e
    /\ cas \in [Shards -> 0..Menus[menu].stores] /\ cleartime \in [Shards -> 0..MaxClock]
    /\ \A s \in Shards : locked[s] # None =>
          conn[locked[s]].st = "batch" /\ ShardOf[conn[locked[s]].cmd.key] = s

\* What the entries decode to is, key by key, what the commands so far mean:
\* the value, the time of expiry, the flags and the CAS number.  Commands run
\* concurrently and go through options, clamped times, decimal numbers,
\* batches and packed entries; none of that shows.
Faithful ==
    \A k \in Keys :
        IF Has(k, clock)
        THEN /\ Live(k, clock) # {}
             /\ The(Live(k, clock)) =
                    [key |-> k, val |-> plain[k].val, expires |-> plain[k].due,
                     flags |-> plain[k].flags, cas |-> plain[k].id]
        ELSE Live(k, clock) = {}

\* Every answer is the one that the meaning of the command gives at the moment
\* it takes effect: old values, counts, times to live, sums, refusals.
AnswersMeant == wrong = {}

\* From the load of a batch to its store no other connection changes the
\* entry: a concurrent SET, DEL or INCR is before or after both.
Isolated ==
    \A c \in Conns : conn[c].st = "batch" =>
        LET x == conn[c]
            now == Find(x.cmd.key)
        IN  IF x.hit THEN now # {} /\ The(now) = x.got ELSE now = {}

\* When KEYS has visited the shards, it has every key that matches the pattern
\* and had the same entry from beginning to end, and only keys that match.
KeysComplete ==
    \A c \in Conns : Scanned(c) /\ conn[c].cmd.op = "KEYS" =>
        LET x == conn[c] IN
        /\ \A e \in x.begun : \A d \in Live(entry_key(e), clock) :
              /\ entry_cas(d) = entry_cas(e)
              /\ StandsFor(x.cmd.pattern, entry_key(e))
              => entry_key(e) \in x.found
        /\ \A k \in x.found : StandsFor(x.cmd.pattern, k)

\* When FLUSHALL answers, every entry that is left has been stored or used by a
\* command that began after it, or after another FLUSHALL that was under way when
\* it began: its threads left out no shard, and only a thread of that other one,
\* which took its time earlier, can have moved a cleartime back (bgflushwork,
\* thflush, clearop).
FlushComplete ==
    \A c \in Scanning("FLUSHALL") : Scanned(c) =>
        \A e \in db : Alive(e, clock) => \E t \in conn[c].begun : entry_time(e) >= t

\* When SWEEP answers, none of the entries is left that were dead when it began.
SweepComplete ==
    \A c \in Conns : Scanned(c) /\ conn[c].cmd.op = "SWEEP" =>
        \A e \in conn[c].begun, d \in db : entry_key(d) = entry_key(e) =>
            entry_cas(d) # entry_cas(e)
=============================================================================
