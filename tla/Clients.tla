------------------------------ MODULE Clients ------------------------------
(***************************************************************************)
(* Requests as clients write them: the bytes, what they are meant to run,    *)
(* and the answers that are due.  login: it gives the password; closes: it   *)
(* ends the connection.                                                      *)
(***************************************************************************)
EXTENDS Numbers, Text, SequencesExt

A(words) == [i \in 1..Len(words) |-> B(words[i])]

Req(wire, runs, ans) ==
    [wire |-> wire, runs |-> runs, out |-> ans, login |-> FALSE, closes |-> FALSE]
Run(wire, args) == Req(wire, <<args>>, <<<<"reply", args>>>>)
Refused(wire, err) == Req(wire, <<>>, <<<<"err", err>>>>)
Closing(req) == [req EXCEPT !.closes = TRUE]
Login(req) == [req EXCEPT !.login = TRUE]

Joined(words) ==
    FlattenSeq([i \in 1..Len(words) |-> (IF i = 1 THEN <<>> ELSE <<SP>>) \o words[i]])

-----------------------------------------------------------------------------
(* Arrays of bulk strings, and lines with every word but the first quoted. *)

Bulk(arg) == B("$") \o u64toa(Len(arg)) \o CRLF \o arg \o CRLF
Array(args) ==
    B("*") \o u64toa(Len(args)) \o CRLF \o FlattenSeq([i \in 1..Len(args) |-> Bulk(args[i])])

Escaped(ch) == IF ch = LF THEN B("\\n") ELSE IF ch \in {34, 92} THEN <<92, ch>> ELSE <<ch>>
Quoted(w) == <<34>> \o FlattenSeq([i \in 1..Len(w) |-> Escaped(w[i])]) \o <<34>>
Telnet(args) ==
    Joined([i \in 1..Len(args) |-> IF i = 1 THEN args[i] ELSE Quoted(args[i])]) \o CRLF

-----------------------------------------------------------------------------
(* memcache lines, with a block or without. *)

Line(words) == Joined(A(words)) \o CRLF
WithBlock(words, block) == Line(words) \o block \o CRLF

-----------------------------------------------------------------------------
(* HTTP: a request line, headers and a body. *)

HttpHead(method, path, headers, body) ==
    Joined(<<B(method), B(path), B("HTTP/1.1")>>) \o CRLF
    \o FlattenSeq([i \in 1..Len(headers) |-> B(headers[i]) \o CRLF])
    \o B("Content-Length: ") \o u64toa(Len(body)) \o CRLF
Http(method, path, headers, body) == HttpHead(method, path, headers, body) \o CRLF \o body

-----------------------------------------------------------------------------
(* Postgres messages.  A statement is a sequence of words, a word a sequence *)
(* of pieces without blanks between them: texts and numbers of parameters.   *)

Int2(n) == <<n \div 256, n % 256>>
Int4(n) == <<0, 0>> \o Int2(n)
Message(type, body) == B(type) \o Int4(Len(body) + 4) \o body
Z(text) == text \o <<NUL>>

Startup(pairs) ==
    LET body == FlattenSeq([i \in 1..Len(pairs) |-> Z(B(pairs[i]))]) \o <<NUL>> IN
    Int4(Len(body) + 8) \o <<0, 3, 0, 0>> \o body
SSL == Int4(8) \o <<4, 210, 22, 47>>

Lit(text) == [param |-> 0, text |-> text]
Param(n) == [param |-> n, text |-> <<>>]
Bare(ch) == ch \in 48..58 \cup 65..90 \cup 97..122
Piece(p) ==
    IF p.param > 0 THEN B("$") \o u64toa(p.param)
    ELSE IF p.text # <<>> /\ \A i \in 1..Len(p.text) : Bare(p.text[i]) THEN p.text
    ELSE <<39>> \o p.text \o <<39>>
Sql(words) ==
    Joined([i \in 1..Len(words) |-> FlattenSeq([j \in 1..Len(words[i]) |-> Piece(words[i][j])])])
Meaning(words, params) ==
    [i \in 1..Len(words) |->
        FlattenSeq([j \in 1..Len(words[i]) |->
            IF words[i][j].param > 0 THEN params[words[i][j].param] ELSE words[i][j].text])]

Query(text) == Message("Q", Z(text))
Parse(name, words) == Message("P", Z(B(name)) \o Z(Sql(words)) \o Int2(0))
Bind(portal, name, params) ==
    Message("B", Z(B(portal)) \o Z(B(name)) \o Int2(1) \o Int2(0) \o Int2(Len(params))
                 \o FlattenSeq([i \in 1..Len(params) |-> Int4(Len(params[i])) \o params[i]])
                 \o Int2(0))
Describe(type, name) == Message("D", B(type) \o Z(B(name)))
Execute(portal) == Message("E", Z(B(portal)) \o <<0, 0, 0, 0>>)
Sync == Message("S", <<>>)
Terminate == Message("X", <<>>)
Password(text) == Message("p", Z(text))
=============================================================================
