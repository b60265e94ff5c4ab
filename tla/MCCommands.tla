------------------------------ MODULE MCCommands ------------------------------
EXTENDS Commands
CONSTANTS c1, c2

\* "abc" packs into three bytes with padding, "z~" does not pack.
KeyA == <<97, 98, 99>>
KeyZ == <<122, 126>>
TwoKeys == {KeyA, KeyZ}
TwoConns == {c1, c2}
Protos == [c \in TwoConns |-> IF c = c1 THEN "resp" ELSE "memcache"]
Shard2 == [k \in TwoKeys |-> 2]
Six1 == [ch \in {97, 98, 99, 122, 126} |-> IF ch = 126 THEN 0 ELSE ch - 96]

\* States that differ in the cleartime of shards without keys are the same: only
\* the entries of a shard are compared with it.
KeyShards == {ShardOf[k] : k \in Keys}
View == <<menu, clock, db, cas, [s \in KeyShards |-> cleartime[s]], locked, conn, lowmem,
          flush_delay, plain, wrong>>

T(n) == i64toa(n)
O(o, n) == [o |-> o, n |-> n]
SET(k, v, opts) == [op |-> "SET", key |-> k, val |-> v, opts |-> opts]
INCR(k, n, unsigned, decr) ==
    [op |-> "INCR", key |-> k, num |-> n, unsigned |-> unsigned, decr |-> decr]

Op(op, k) == [op |-> op, key |-> k]
Ops(op, keys) == [op |-> op, keys |-> keys]
Pair(memlimit, stores, resp, memcache) ==
    [memlimit |-> memlimit, stores |-> stores,
     of |-> [c \in TwoConns |-> IF c = c1 THEN resp ELSE memcache]]

\* A text that is no number.
X == <<120>>

\* The options of SET, against expiry and another client that reads.
Options ==
    Pair(TRUE, 2,
         {SET(KeyA, T(6), <<O("px", T(1))>>), SET(KeyZ, X, <<O("nx", <<>>)>>),
          SET(KeyA, X, <<O("keepttl", <<>>), O("get", <<>>)>>),
          SET(KeyA, T(6), <<O("xx", <<>>), O("ex", T(5))>>),
          SET(KeyA, T(6), <<O("cas", T(1)), O("flags", T(3))>>),
          SET(KeyA, X, <<O("ex", T(0))>>), SET(KeyA, X, <<O("bad", <<>>)>>),
          SET(KeyA, X, <<O("nx", <<>>), O("xx", <<>>)>>),
          [op |-> "SETEX", key |-> KeyZ, val |-> X, num |-> T(1)],
          [op |-> "SETEX", key |-> KeyZ, val |-> X, num |-> X]},
         {Ops("MGET", <<KeyA, KeyZ>>)})

\* memcache: times of expiry, an absent key, numbers that wrap.
Memcache ==
    Pair(FALSE, 3,
         {Op("TTL", KeyA)},
         {SET(KeyA, T(9), <<O("flags", T(1)), O("ex", T(0))>>),
          SET(KeyA, T(9), <<O("flags", T(1)), O("ex", T(3))>>),
          SET(KeyA, T(9), <<O("flags", T(5)), O("ex", T(1)), O("cas", T(1))>>),
          INCR(KeyA, T(8), TRUE, FALSE), INCR(KeyA, T(12), TRUE, TRUE),
          INCR(KeyA, X, TRUE, FALSE),
          [op |-> "APPEND", key |-> KeyA, val |-> X, prepend |-> FALSE],
          Ops("DEL", <<KeyA>>)})

\* Two clients that count and append, with another that overwrites.
Batch ==
    Pair(FALSE, 3,
         {INCR(KeyA, T(1), FALSE, FALSE), INCR(KeyA, T(-8), FALSE, TRUE),
          [op |-> "APPEND", key |-> KeyA, val |-> T(1), prepend |-> FALSE],
          [op |-> "APPEND", key |-> KeyA, val |-> X, prepend |-> TRUE]},
         {SET(KeyA, T(5), <<O("flags", T(1)), O("ex", T(1))>>),
          INCR(KeyA, T(3), FALSE, FALSE)})

Expiring ==
    Pair(FALSE, 2,
         {Op("TTL", KeyA), Op("PTTL", KeyA), Ops("TOUCH", <<KeyA>>),
          [op |-> "EXPIRE", key |-> KeyA, num |-> T(1)],
          [op |-> "EXPIRE", key |-> KeyA, num |-> T(0)],
          [op |-> "EXPIRE", key |-> KeyA, num |-> T(7)],
          [op |-> "EXPIRE", key |-> KeyA, num |-> X]},
         {SET(KeyA, T(5), <<O("flags", T(1)), O("ex", T(1))>>),
          SET(KeyZ, T(5), <<>>), Ops("EXISTS", <<KeyA, KeyZ>>)})

Scans ==
    Pair(FALSE, 2,
         {[op |-> "KEYS", pattern |-> <<Star, 99, Star>>], [op |-> "SWEEP"]},
         {SET(KeyA, T(5), <<>>), SET(KeyA, T(5), <<O("ex", T(1))>>),
          SET(KeyZ, T(5), <<>>), Ops("DEL", <<KeyA, KeyZ>>)})

\* Two clients that flush, one of which also stores and reads; and a FLUSHALL
\* that is refused, put off or left to the ticker.
FLUSHALL(n, async) == [op |-> "FLUSHALL", num |-> n, async |-> async]
Flushing ==
    Pair(FALSE, 1,
         {SET(KeyA, X, <<>>), Ops("MGET", <<KeyA>>), FLUSHALL(T(0), FALSE)},
         {FLUSHALL(T(0), FALSE)})
Delaying ==
    Pair(FALSE, 1,
         {SET(KeyA, X, <<>>)},
         {FLUSHALL(X, FALSE), FLUSHALL(T(1), FALSE), FLUSHALL(T(0), TRUE)})

AllMenus ==
    [options |-> Options, memcache |-> Memcache, batch |-> Batch,
     expiring |-> Expiring, scanning |-> Scans, flushing |-> Flushing,
     delaying |-> Delaying]
=============================================================================
