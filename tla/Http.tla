-------------------------------- MODULE Http --------------------------------
(***************************************************************************)
(* http.c: one request, turned into the command that cmds.c knows.           *)
(***************************************************************************)
EXTENDS Numbers, Text, FiniteSetsExt

BadRequest == Fail("Bad Request")
At == 64
Percent == 37
Colon == 58
Ampersand == 38
Equals == 61
Question == 63
Slash == 47

http_valid_key(key) ==
    /\ Len(key) \in 1..250
    /\ \A i \in 1..Len(key) : key[i] \in 33..126 \ {Percent, Plus, At, 36, Question, Equals}

\* Method, path and version up to the first line feed.
Version(v) ==
    /\ Len(v) = 8 /\ SubSeq(v, 1, 5) = B("HTTP/")
    /\ IsDigit(v[6]) /\ v[7] = 46 /\ IsDigit(v[8])
    /\ (v[6] - 48) * 10 + v[8] - 48 \in 9..29
LineOf(b, m, u, l) ==
    [ok |-> /\ m > 0 /\ b[m] = SP
            /\ u > 0 /\ b[u] = SP
            /\ l > 0 /\ b[l - 1] = CR
            /\ Version(SubSeq(b, u + 1, l - 2)),
     method |-> SubSeq(b, 1, m - 1), uri |-> SubSeq(b, m + 1, u - 1), next |-> l + 1]
UpToUri(b, m, u) == LineOf(b, m, u, FindFrom(b, u + 1, {LF}))
UpToMethod(b, m) == UpToUri(b, m, FindFrom(b, m + 1, {SP, LF}))
RequestLine(b) == UpToMethod(b, FindFrom(b, 1, {SP, LF}))

Occurs(t, s) == \E i \in 0..Len(t) - Len(s) : SubSeq(t, i + 1, i + Len(s)) = s

\* One header: what is kept of it.
Header(h, name, value) ==
    LET is == Fold(name) IN
    CASE is = B("content-length") -> [h EXCEPT !.len = parse_u64(value).n]
      [] is = B("accept") /\ Occurs(value, B("text/html")) -> [h EXCEPT !.html = TRUE]
      [] is = B("authorization") -> [h EXCEPT !.auth = value]
      [] OTHER -> h

\* A content-length is a number that the limit allows.
WrongLength(name, x) == Fold(name) = B("content-length") /\ (~x.ok \/ x.n > MAXARGSZ)

\* The headers, until the empty line after one of them.
RECURSIVE Headers(_, _, _)
AfterHeader(b, q, h) ==
    IF q > Len(b) \/ b[q] # CR THEN Headers(b, q, h)
    ELSE IF q = Len(b) \/ b[q + 1] # LF THEN [st |-> "bad"]
    ELSE [st |-> "body", body |-> q + 2, h |-> h]
OneHeader(b, h, name, v, l) ==
    IF l = 0 THEN [st |-> "more"]
    ELSE IF b[l - 1] # CR \/ WrongLength(name, parse_u64(SubSeq(b, v, l - 2)))
    THEN [st |-> "bad"]
    ELSE AfterHeader(b, l + 1, Header(h, name, SubSeq(b, v, l - 2)))
HeaderAt(b, h, name, v) == OneHeader(b, h, name, v, FindFrom(b, v, {LF}))
Named(b, p, h, c) ==
    IF c = 0 THEN [st |-> "more"]
    ELSE HeaderAt(b, h, SubSeq(b, p, c - 1), c + 1 + Skipped(SubSeq(b, c + 1, Len(b))))
Headers(b, p, h) == Named(b, p, h, FindFrom(b, p, {Colon}))

\* The pairs of the query: a name and, in a set, the value it may have.
RECURSIVE Pairs(_, _, _, _)
Pairs(q, j, i, acc) ==
    LET a == FindFrom(q, i + 1, {Ampersand})
        e == IF q[i] = Equals THEN IF a = 0 THEN Len(q) + 1 ELSE a
             ELSE IF i = Len(q) THEN Len(q) + 1 ELSE i
        pair == IF q[i] = Equals THEN <<SubSeq(q, j, i - 1), {SubSeq(q, i + 1, e - 1)}>>
                ELSE <<SubSeq(q, j, e - 1), {}>>
    IN  IF i > Len(q) THEN acc
        ELSE IF q[i] \in {Equals, Ampersand} \/ i = Len(q)
        THEN Pairs(q, e + 1, e + 1, Append(acc, pair))
        ELSE Pairs(q, j, i + 1, acc)

\* The last pair of a name counts.
Value(pairs, names) ==
    LET at == {i \in 1..Len(pairs) : pairs[i][1] \in names} IN
    IF at = {} THEN {} ELSE pairs[Max(at)][2]
Has(pairs, name) == \E i \in 1..Len(pairs) : pairs[i][1] = name
Option(name, value) == IF value = {} THEN <<>> ELSE <<name, CHOOSE v \in value : TRUE>>

\* The command that a method, a key, the query and the body make.
Command(method, key, pairs, body, html) ==
    IF method \notin {B("GET"), B("PUT"), B("DELETE")} \/ (key # <<>> /\ key[1] = At)
    THEN BadRequest
    ELSE IF method = B("GET") /\ key = <<>>
    THEN Fail(IF html THEN "Help HTML" ELSE "Help TEXT")
    ELSE IF ~http_valid_key(key) THEN Fail("Invalid Key")
    ELSE Parsed(1,
        CASE method = B("GET") -> <<B("get"), key>>
          [] method = B("DELETE") -> <<B("del"), key>>
          [] method = B("PUT") ->
                <<B("set"), key, body>>
                \o Option(B("cas"), Value(pairs, {B("cas")}))
                \o Option(B("ex"), Value(pairs, {B("ex"), B("ttl")}))
                \o Option(B("flags"), Value(pairs, {B("flags")}))
                \o (IF Has(pairs, B("xx")) THEN <<B("xx")>> ELSE <<>>)
                \o (IF Has(pairs, B("nx")) THEN <<B("nx")>> ELSE <<>>))

\* The password, in the query or as a bearer token.
Authorized(pairs, header, auth) ==
    LET q == Value(pairs, {B("auth")})
        given == IF q # {} /\ q # {<<>>} THEN CHOOSE v \in q : TRUE
                 ELSE SubSeq(header, 8, Len(header))
    IN  /\ (q # {} /\ q # {<<>>}) \/ header = <<>> \/ SubSeq(header, 1, 7) = B("Bearer ")
        /\ auth # <<>> \/ given # <<>> => given = auth

Reply(cmd, pairs, h, auth, n) ==
    IF cmd.n = -1 THEN cmd
    ELSE IF ~Authorized(pairs, h.auth, auth) THEN Fail("Unauthorized")
    ELSE [cmd EXCEPT !.n = n]
WithPairs(b, method, key, pairs, hs, auth) ==
    Reply(Command(method, key, pairs, SubSeq(b, hs.body, hs.body + hs.h.len - 1), hs.h.html),
          pairs, hs.h, auth, Len(b))
WithUri(b, method, uri, at, hs, auth) ==
    IF at = 0 THEN WithPairs(b, method, uri, <<>>, hs, auth)
    ELSE WithPairs(b, method, SubSeq(uri, 1, at - 1),
                   Pairs(SubSeq(uri, at + 1, Len(uri)), 1, 1, <<>>), hs, auth)
Request(b, r, hs, auth) ==
    IF ~r.ok THEN BadRequest
    ELSE IF hs.st = "more" THEN More
    ELSE IF hs.st = "bad" THEN BadRequest
    ELSE IF Len(b) - hs.body + 1 < hs.h.len THEN More
    ELSE IF r.uri = <<>> \/ r.uri[1] # Slash THEN BadRequest
    ELSE WithUri(b, r.method, Tail(r.uri), FindFrom(Tail(r.uri), 1, {Question}), hs, auth)
NoHeaders == [len |-> 0, html |-> FALSE, auth |-> <<>>]
Lines(b, r, auth) == Request(b, r, Headers(b, r.next, NoHeaders), auth)
parse_http(b, auth) == Lines(b, RequestLine(b), auth)
=============================================================================
