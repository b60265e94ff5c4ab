------------------------------ MODULE Memcache ------------------------------
(***************************************************************************)
(* memcache.c: a line of words, for the storage commands followed by a block *)
(* of data, turned into the command that cmds.c knows.                       *)
(***************************************************************************)
EXTENDS Numbers, Text

\* An argument whose length has fallen below zero: too long for every use of it.
Overlong == [i \in 1..MAXARGSZ + 251 |-> NUL]

\* The words of the line; an empty one is kept unless it is the last.  last is the
\* last byte that is no blank: after CR and a blank, the empty last word has a
\* length of -1.
RECURSIVE Words(_, _, _, _, _)
Words(b, s, p, last, args) ==
    IF p > Len(b) THEN More
    ELSE IF b[p] = SP THEN Words(b, p + 1, p + 1, last, Append(args, SubSeq(b, s, p - 1)))
    ELSE IF b[p] = LF
    THEN LET wn == p - s - (IF last = CR THEN 1 ELSE 0) IN
         Parsed(p, IF wn = 0 THEN args
                   ELSE Append(args, IF wn > 0 THEN SubSeq(b, s, s + wn - 1) ELSE Overlong))
    ELSE Words(b, s, p + 1, b[p], args)

parse_memcache_telnet(b) == Words(b, 1, 1, NUL, <<>>)

mc_valid_key(key) == Len(key) \in 1..250 /\ \A i \in 1..Len(key) : key[i] > SP /\ key[i] # 127

IsNumber(t) == parse_i64(t).ok
StoreCmds == {B("set"), B("add"), B("replace"), B("append"), B("prepend"), B("cas")}
OtherWriters ==
    {B("incr"), B("decr"), B("flush_all"), B("delete"), B("touch"), B("verbosity")}
is_mc_store_cmd(cmd) == cmd \in StoreCmds
is_mc_noreplyable(cmd) == cmd \in StoreCmds \cup OtherWriters
Zero == B("0")

\* The block that follows the line of n bytes.
Block(b, n, x) == SubSeq(b, n + 1, n + x)
BlockEnds(b, n, x) == SubSeq(b, n + x + 1, n + x + 2) = CRLF

\* A storage command and its block, for the size x that the line gives.
WithBlock(b, n, x, head, options) ==
    IF ~x.ok \/ x.n \notin 0..MAXARGSZ THEN Bad(n)
    ELSE IF Len(b) - n < x.n + 2 THEN More
    ELSE IF ~BlockEnds(b, n, x.n) THEN Bad(n + x.n + 2)
    ELSE Parsed(n + x.n + 2, head \o <<Block(b, n, x.n)>> \o options)

NotNegative(x) == x.ok /\ x.n >= 0

\* set_plus: storage commands.  Clients send the arguments that they need.
StoreOptions(a, glue) ==
    (IF ~glue /\ a[3] # Zero THEN <<B("flags"), a[3]>> ELSE <<>>)
    \o (IF ~glue /\ a[4] # Zero THEN <<B("ex"), a[4]>> ELSE <<>>)
    \o (IF a[1] = B("add") THEN <<B("nx")>>
        ELSE IF a[1] = B("replace") THEN <<B("xx")>> ELSE <<>>)
    \o (IF a[1] = B("cas") THEN <<B("cas"), a[6]>> ELSE <<>>)
StoreAs(b, n, a, glue) ==
    WithBlock(b, n, parse_i64(a[5]), <<IF glue THEN a[1] ELSE B("set"), a[2]>>,
              StoreOptions(a, glue))
Store(b, n, a) ==
    IF \/ ~mc_valid_key(a[2])
       \/ ~NotNegative(parse_i64(a[3]))
       \/ ~IsNumber(a[4])
       \/ a[1] = B("cas") /\ ~parse_u64(a[6]).ok
    THEN Bad(n)
    ELSE StoreAs(b, n, a, a[1] \in {B("append"), B("prepend")})

\* The common set without flags.
Set5(b, n, a) ==
    IF ~mc_valid_key(a[2]) \/ (a[4] # Zero /\ ~IsNumber(a[4])) THEN Bad(n)
    ELSE WithBlock(b, n, parse_i64(a[5]), <<a[1], a[2]>>,
                   IF a[4] # Zero THEN <<B("ex"), a[4]>> ELSE <<>>)

\* Commands of one line, as cmds.c names them.
Keys(n, a, first, name) ==
    IF Len(a) < first \/ \E i \in first..Len(a) : ~mc_valid_key(a[i]) THEN Bad(n)
    ELSE Parsed(n, <<name>> \o Tail(a))

GetAndTouch(n, a) == IF Len(a) < 3 \/ ~IsNumber(a[3]) THEN Bad(n) ELSE Keys(n, a, 3, a[1])

KeyAndNumber(n, a, name) == IF Len(a) # 3 \/ ~mc_valid_key(a[2]) THEN Bad(n)
                            ELSE Parsed(n, <<name>> \o Tail(a))

Line(n, a) ==
    CASE a[1] = B("get")       -> Keys(n, a, 2, B("mget"))
      [] a[1] = B("gets")      -> Keys(n, a, 2, B("mgets"))
      [] a[1] = B("delete")    -> IF Len(a) > 2 THEN Bad(n) ELSE Keys(n, a, 2, B("del"))
      [] a[1] \in {B("gat"), B("gats")} -> GetAndTouch(n, a)
      [] a[1] = B("stats")     -> Parsed(n, a)
      [] a[1] = B("incr")      -> KeyAndNumber(n, a, B("uincrby"))
      [] a[1] = B("decr")      -> KeyAndNumber(n, a, B("udecrby"))
      [] a[1] = B("touch")     -> KeyAndNumber(n, a, B("expire"))
      [] a[1] = B("flush_all") ->
            IF Len(a) > 2 THEN Bad(n)
            ELSE Parsed(n, <<B("flushall")>>
                           \o (IF Len(a) = 2 THEN <<B("delay"), a[2]>> ELSE <<>>))
      [] a[1] \in {B("quit"), B("version")} -> Parsed(n, <<a[1]>>)
      [] a[1] = B("verbosity") ->
            IF Len(a) > 2 THEN Bad(n) ELSE Parsed(n, <<B("verbosi")>> \o Tail(a))
      [] OTHER -> Bad(n)

\* The line without a noreply, for the commands that take one.
WithoutNoreply(a) == IF is_mc_noreplyable(a[1]) /\ a[Len(a)] = B("noreply")
            THEN SubSeq(a, 1, Len(a) - 1) ELSE a
Ordinary(b, n, a) == IF is_mc_store_cmd(a[1]) THEN Store(b, n, a) ELSE Line(n, a)
AfterLine(b, r, a) ==
    IF r.n <= 0 \/ a = <<>> THEN r
    ELSE IF Len(a) = 2 /\ a[1] = B("get") THEN Keys(r.n, a, 2, B("mget"))
    ELSE IF Len(a) = 5 /\ a[1] = B("set") /\ a[3] = Zero THEN Set5(b, r.n, a)
    ELSE Ordinary(b, r.n, IF Len(a) = 5 /\ a[1] = B("set") THEN a ELSE WithoutNoreply(a))
Lined(b, r) == AfterLine(b, r, r.args)
parse_memcache(b) == Lined(b, parse_memcache_telnet(b))
=============================================================================
