------------------------------ MODULE Frontend ------------------------------
(***************************************************************************)
(* conn.c and parse.c: what a connection does with the bytes that arrive,    *)
(* in pieces of any size, for each of the protocols; the password; and the   *)
(* commands that go to a background thread.                                  *)
(*                                                                           *)
(* A scenario is the password of the server and what a client sends: a       *)
(* sequence of requests, each with its bytes and with what it is meant to    *)
(* run and to be answered.                                                   *)
(***************************************************************************)
EXTENDS Resp, Memcache, Http, Postgres, SequencesExt
CONSTANTS Scenarios

VARIABLES menu,     \* the scenario
          pos,      \* bytes of the stream that have arrived
          clean,    \* no piece ended at a place where the parsers cannot wait
          conn,     \* struct conn, and whether the connection is closed
          ran,      \* the commands that were run, with their arguments
          out       \* the answers
vars == <<menu, pos, clean, conn, ran, out>>

NoConn == [proto |-> "none", packet |-> <<>>, auth |-> FALSE, pg |-> pg_new,
           bg |-> <<>>, closed |-> FALSE]

-----------------------------------------------------------------------------
\* The protocol of the first bytes, "none" when they do not tell.  A size that
\* falls below zero is large.
sniff_proto(b) ==
    LET n == FindFrom(b, 1, {LF})
        t == Skipped(b)
    IN  IF b[1] = Asterisk THEN "resp"
        ELSE IF b[1] = NUL THEN "postgres"
        ELSE IF n >= 11 /\ SubSeq(b, n - 10, n - 6) = B(" HTTP") /\ b[n - 3] = 46 /\ b[n - 1] = CR
        THEN "http"
        ELSE IF n = 0 /\ t = 0 THEN "none"
        ELSE IF t < Len(b) /\ b[t + 1] \in 65..90 THEN "resp"
        ELSE "memcache"

\* Text sniffed as one protocol is parsed as that one ever after.
FromPostgres(c, x) ==
    [r |-> [n |-> x.n, args |-> x.args, skip |-> 0, err |-> "error"],
     c |-> [c EXCEPT !.proto = "postgres", !.pg = x.pg]]
ParseAs(b, c, proto, pw) ==
    IF proto = "postgres" THEN FromPostgres(c, parse_postgres(b, c.pg, pw))
    ELSE [r |-> CASE proto = "resp" ->
                       IF b[1] = Asterisk THEN parse_resp(b) ELSE parse_resp_telnet(b)
                  [] proto = "memcache" -> parse_memcache(b)
                  [] proto = "http" -> parse_http(b, pw)
                  [] proto = "none" -> Bad(0),
          c |-> [c EXCEPT !.proto = proto]]
parse_command(b, c, pw) == ParseAs(b, c, IF c.proto = "none" THEN sniff_proto(b) ELSE c.proto, pw)

-----------------------------------------------------------------------------
(* Answers and commands.  s is the connection with what it ran and answered. *)

Say(s, ans) == [s EXCEPT !.out = @ \o ans]
Close(s) == [s EXCEPT !.c.closed = TRUE]

write_error(s, err) ==
    Say(s, IF s.c.proto = "postgres" THEN pg_error(s.c.pg) ELSE <<<<"err", err>>>>)

Answer(s, ans) ==
    Say(s, <<ans>> \o (IF s.c.proto = "postgres" THEN pg_write_ready(s.c.pg) ELSE <<>>))

cmdAUTH(s, args, pw) ==
    IF Fold(args[1]) # B("auth") THEN write_error(s, "noauth")
    ELSE IF Len(args) \notin {2, 3} THEN write_error(s, "args")
    ELSE IF Len(args) = 3 \/ args[2] # pw THEN write_error(s, "wrongpass")
    ELSE Answer([s EXCEPT !.c.auth = TRUE], <<"OK">>)

cmdQUIT(s) == Close(IF s.c.proto = "resp" THEN Say(s, <<<<"OK">>>>) ELSE s)

\* What is left of FLUSHALL's arguments from i on does not put it off: the last of
\* ASYNC, SYNC and a delay decides, and what it does not know is an error.
RECURSIVE FlushesNow(_, _, _)
FlushesNow(args, i, async) ==
    LET word == Fold(args[i])
        delay == parse_i64(args[i + 1])
    IN  IF i > Len(args) THEN ~async
        ELSE \/ word = B("async") /\ FlushesNow(args, i + 1, TRUE)
             \/ word = B("sync") /\ FlushesNow(args, i + 1, FALSE)
             \/ /\ word = B("delay") /\ i < Len(args) /\ delay.ok
                /\ FlushesNow(args, i + 2, async \/ delay.n > 0)

\* The arguments of SAVE and LOAD from i on are known and leave it with a path; the
\* server has one of its own.
RECURSIVE HasPath(_, _, _)
HasPath(args, i, path) ==
    LET word == Fold(args[i])
        way == IF Fold(args[1]) = B("load") THEN B("from") ELSE B("to")
    IN  IF i > Len(args) THEN path
        ELSE \/ word = B("fast") /\ HasPath(args, i + 1, path)
             \/ word = way /\ i < Len(args) /\ HasPath(args, i + 2, args[i + 1] # <<>>)

\* Whether a command works in a background thread and answers when that is done.
Background(args) ==
    LET name == Fold(args[1]) IN
    \/ name \in {B("save"), B("load")} /\ HasPath(args, 2, TRUE)
    \/ name = B("keys") /\ Len(args) = 2
    \/ name \in {B("sweep"), B("purge")} /\ Len(args) = 1
    \/ name \in {B("flushall"), B("flushdb"), B("flush")} /\ FlushesNow(args, 2, FALSE)

\* Mutant of evcommand: the password is not asked for.
evcommandOpen(s, args, pw) ==
    LET name == Fold(args[1])
        t == [s EXCEPT !.ran = Append(@, args)]
    IN  IF name = B("auth") THEN cmdAUTH(s, args, pw)
        ELSE IF name = B("quit") THEN cmdQUIT(t)
        ELSE IF Background(args) THEN [t EXCEPT !.c.bg = args]
        ELSE Answer(t, <<"reply", args>>)

evcommand(s, args, pw) ==
    LET name == Fold(args[1])
        t == [s EXCEPT !.ran = Append(@, args)]
    IN  IF pw # <<>> /\ ~s.c.auth /\ s.c.proto # "http" THEN cmdAUTH(s, args, pw)
        ELSE IF name = B("auth") THEN cmdAUTH(s, args, pw)
        ELSE IF name = B("quit") THEN cmdQUIT(t)
        ELSE IF Background(args) THEN [t EXCEPT !.c.bg = args]
        ELSE Answer(t, <<"reply", args>>)

-----------------------------------------------------------------------------
\* A message without arguments.
Responded(s, p) == Say([s EXCEPT !.c.pg = p.pg, !.c.auth = @ \/ p.setauth,
                                 !.c.closed = @ \/ ~p.ok], p.out)
NoArgs(s, pw) ==
    CASE s.c.proto = "postgres" -> Responded(s, pg_respond(s.c.pg, pw))
      [] s.c.proto = "memcache" -> write_error(s, "error")
      [] OTHER -> s

\* One message with arguments; pg_precommand may answer it.
Prepared(s, p) == Say([s EXCEPT !.c.pg = p.pg], p.out)
Precommand(s, p, pw) ==
    IF p.run THEN evcommand(Prepared(s, p), p.args, pw) ELSE Prepared(s, p)
Handle(s, args, pw) ==
    IF s.c.proto # "postgres" THEN evcommand(s, args, pw)
    ELSE IF "ready" \notin s.c.pg.on THEN Close(s)
    ELSE Precommand(s, pg_precommand(args, s.c.pg), pw)

Advance(s, n) == [s EXCEPT !.c.packet = SubSeq(@, n + 1, Len(@))]

\* The loop of evdata, until more bytes are needed, the connection closes, or a
\* command went to the background.
RECURSIVE Loop(_, _)
Refused(e, skip, pw) ==
    IF e.c.proto = "memcache" THEN Loop(Advance(e, skip), pw) ELSE Close(e)
Handled(h, n, pw) ==
    IF h.c.bg # <<>> THEN Advance(h, n)
    ELSE Loop(IF h.c.proto = "http" THEN Close(h) ELSE Advance(h, n), pw)
Message(t, r, pw) ==
    IF r.n = 0 THEN t
    ELSE IF r.n = -1 THEN Refused(write_error(t, r.err), r.skip, pw)
    ELSE Handled(IF r.args = <<>> THEN NoArgs(t, pw) ELSE Handle(t, r.args, pw), r.n, pw)
Take(s, p, pw) == Message([s EXCEPT !.c = p.c], p.r, pw)
Loop(s, pw) ==
    IF s.c.packet = <<>> \/ s.c.closed THEN s
    ELSE Take(s, parse_command(s.c.packet, s.c, pw), pw)

evdata(s, piece, pw) == Loop([s EXCEPT !.c.packet = @ \o piece], pw)

-----------------------------------------------------------------------------
Stream == menu.stream    \* the bytes of the requests

Init ==
    /\ menu \in Scenarios
    /\ pos = 0 /\ clean = TRUE
    /\ conn = NoConn
    /\ ran = <<>> /\ out = <<>>

\* The next n bytes, with whatever waits in the packet.
Becomes(t) == conn' = t.c /\ ran' = t.ran /\ out' = t.out
Receive(s, n) ==
    /\ pos' = pos + n
    /\ clean' = (clean /\ pos' \notin menu.fragile)
    /\ Becomes(evdata(s, SubSeq(Stream, pos + 1, pos + n), menu.password))
    /\ UNCHANGED menu

Deliver ==
    /\ conn.bg = <<>> /\ ~conn.closed
    /\ \E n \in 1..Len(Stream) - pos : Receive([c |-> conn, ran |-> ran, out |-> out], n)

\* done5 answers, and the connection goes on with what it has, and with what has
\* arrived since, which may be nothing.
BgDone ==
    /\ conn.bg # <<>>
    /\ LET s == Answer([c |-> [conn EXCEPT !.bg = <<>>], ran |-> ran, out |-> out],
                       <<"reply", conn.bg>>)
       IN  \E n \in 0..Len(Stream) - pos : Receive(s, n)

Next == Deliver \/ BgDone
Spec == Init /\ [][Next]_vars

-----------------------------------------------------------------------------
(* What the client means. *)

RECURSIVE Ends(_, _)
Ends(reqs, i) == IF i = 0 THEN 0 ELSE Ends(reqs, i - 1) + Len(reqs[i].wire)

\* Requests that have arrived whole, and of these the ones that are to be served:
\* none after one that ends the connection, or that is at work in the background.
Arrived == Max({i \in 0..Len(menu.reqs) : Ends(menu.reqs, i) <= pos})
Served ==
    Min({Arrived} \cup {i \in 1..Arrived : menu.reqs[i].closes}
                  \cup {i \in 1..Arrived : conn.bg # <<>> /\ menu.reqs[i].runs = <<conn.bg>>})

Meant(n) == FlattenSeq([i \in 1..n |-> menu.reqs[i].runs])
Answers(n) == FlattenSeq([i \in 1..n |-> menu.reqs[i].out])

\* However the bytes of a client are cut into pieces, the commands that have run
\* are those of the requests that have arrived whole: none early or late, none
\* twice, out of order or with other arguments.
ServedWhenWhole == clean => ran = Meant(Served)


\* With a password, no command runs for a client that has not sent it.
PasswordFirst ==
    menu.password # <<>> /\ ran # <<>> => \E i \in 1..Arrived : menu.reqs[i].login
=============================================================================
