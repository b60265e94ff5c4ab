------------------------------ MODULE Postgres ------------------------------
(***************************************************************************)
(* postgres.c: the messages of the frontend/backend protocol, the arguments  *)
(* in the text of a query, prepared statements and portals, and what         *)
(* pg_respond answers.                                                       *)
(*                                                                           *)
(* A pg record has the set of the flags that are up, the type of the columns,*)
(* the description to send, and the named statements and portals.            *)
(***************************************************************************)
EXTENDS Numbers, Text, FiniteSets, FiniteSetsExt
CONSTANT PGNAMEDATALEN

pg_new == [on |-> {}, oid |-> "text", desc |-> <<>>, statements |-> <<>>, portals |-> <<>>]

Up(pg, flag) == [pg EXCEPT !.on = @ \cup {flag}]
Down(pg, flag) == [pg EXCEPT !.on = @ \ {flag}]

\* A result of the parser; all is the whole message, whatever its length.
PgDone(pg, args) == [n |-> 1, args |-> args, pg |-> pg]
PgErr(pg) == PgDone(Up(pg, "error"), <<>>)
PgBad(pg) == [n |-> -1, args |-> <<>>, pg |-> pg]
PgMore(pg) == [n |-> 0, args |-> <<>>, pg |-> pg]

-----------------------------------------------------------------------------
(* Escapes in E'...'. *)

Hex(ch) == IF IsDigit(ch) THEN ch - 48 ELSE IF Lower(ch) \in 97..102 THEN Lower(ch) - 87 ELSE 0
decode_hex(s, i) == Hex(s[i]) * 4096 + Hex(s[i + 1]) * 256 + Hex(s[i + 2]) * 16 + Hex(s[i + 3])
is_surrogate(cp) == cp > 55296 /\ cp < 57344

\* The bytes of a character beyond ASCII are one cell, above those of the bytes,
\* and a pair of surrogates one character.
decode_codepoint(cp1, cp2) == 1024 * (cp1 - 55296) + cp2
encode_codepoint(cp) == <<IF cp < 128 THEN cp ELSE 256 + cp>>

Escapes == (92 :> <<92>>) @@ (47 :> <<47>>) @@ (98 :> <<8>>) @@ (102 :> <<12>>)
           @@ (110 :> <<LF>>) @@ (114 :> <<CR>>) @@ (116 :> <<TAB>>) @@ (34 :> <<34>>)

\* for_each_utf8; an escape that is not known is dropped.
RECURSIVE Unescape(_, _)
Unescape(s, i) ==
    LET cp == decode_hex(s, i + 2)
        pair == /\ is_surrogate(cp) /\ Len(s) - (i + 5) >= 6
                /\ s[i + 6] = 92 /\ s[i + 7] = 117
    IN  IF i > Len(s) \/ (i = Len(s) /\ s[i] = 92) THEN <<>>
        ELSE IF s[i] # 92 THEN <<s[i]>> \o Unescape(s, i + 1)
        ELSE IF s[i + 1] = 117
        THEN IF i + 5 > Len(s) THEN <<>>
             ELSE IF pair THEN encode_codepoint(decode_codepoint(cp, decode_hex(s, i + 8)))
                               \o Unescape(s, i + 12)
             ELSE encode_codepoint(cp) \o Unescape(s, i + 6)
        ELSE (IF s[i + 1] \in DOMAIN Escapes THEN Escapes[s[i + 1]] ELSE <<>>)
             \o Unescape(s, i + 2)
-----------------------------------------------------------------------------
(* The arguments in the text of a query. *)

Quote == 39
DoubleQuote == 34
DollarSign == 36
Semicolon == 59

\* The quote that ends a simple string; two of them do not.
RECURSIVE SimpleEnd(_, _)
SimpleEnd(q, i) ==
    IF i > Len(q) THEN 0
    ELSE IF q[i] # Quote THEN SimpleEnd(q, i + 1)
    ELSE IF i < Len(q) /\ q[i + 1] = Quote THEN SimpleEnd(q, i + 2)
    ELSE i

\* arg_append_unescape_simplestr copies nothing: its loop ends at the length of
\* the copy, which is 0 when it starts.
SimpleString(s) == IF \E i \in 1..Len(s) : s[i] = Quote THEN <<>> ELSE s

\* The quote after an even number of back slashes.
EscapedEnd(q, i) ==
    LET run(j) == Cardinality({h \in 1..j - 1 : \A g \in h..j - 1 : q[g] = 92})
        ends == {j \in i..Len(q) : q[j] = Quote /\ run(j) % 2 = 0}
    IN  IF ends = {} THEN 0 ELSE Min(ends)

\* Tokens so far: the arguments, whether each is a parameter and is glued to the
\* one before it, the parameters' numbers, and whether the next one is glued.
Token(q, st, arg, param, next) ==
    [st EXCEPT !.args = Append(@, arg),
               !.types = Append(@, [param |-> param, join |-> st.join]),
               !.join = next <= Len(q) /\ ~IsSpace(q[next])]

Wrong == [ok |-> FALSE]

\* Numbers from 1 to the number of times that parameters occur.
pmap_exists(params) == \A i \in 1..Len(params) : \E j \in 1..Len(params) : params[j] = i

RECURSIVE Tokens(_, _, _)
Tokens(q, p, st) ==
    LET simple == SimpleEnd(q, p + 1)
        escaped == EscapedEnd(q, p + 2)
        digits == CHOOSE e \in p + 1..Len(q) + 1 :
                      /\ e = Len(q) + 1 \/ ~IsDigit(q[e])
                      /\ \A j \in p + 1..e - 1 : IsDigit(q[j])
        number == Magnitude(SubSeq(q, p + 1, digits - 1), 0)
        stop == FindFrom(q, p, Spaces \cup {Semicolon, Quote, DoubleQuote, DollarSign})
        end == IF stop = 0 THEN Len(q) + 1 ELSE stop
    IN  IF p > Len(q) \/ q[p] = Semicolon
        THEN IF (\A i \in p..Len(q) : q[i] = Semicolon) /\ pmap_exists(st.params)
             THEN [ok |-> TRUE, args |-> st.args, types |-> st.types, nparams |-> Len(st.params)]
             ELSE Wrong
        ELSE IF IsSpace(q[p]) THEN Tokens(q, p + 1, st)
        ELSE IF q[p] = DoubleQuote THEN Wrong
        ELSE IF q[p] = Quote
        THEN IF simple = 0 THEN Wrong
             ELSE Tokens(q, simple + 1,
                     Token(q, st, SimpleString(SubSeq(q, p + 1, simple - 1)), FALSE, simple + 1))
        ELSE IF q[p] = DollarSign
        THEN IF digits = p + 1 \/ number \notin 1..65535 THEN Wrong
             ELSE Tokens(q, digits,
                     [Token(q, st, SubSeq(q, p, digits - 1), TRUE, digits)
                      EXCEPT !.params = Append(@, number)])
        ELSE IF Lower(q[p]) = 101 /\ p < Len(q) /\ q[p + 1] = Quote
        THEN IF escaped = 0 THEN Wrong
             ELSE Tokens(q, escaped + 1,
                     Token(q, st, Unescape(SubSeq(q, p + 2, escaped - 1), 1), FALSE, escaped + 1))
        ELSE Tokens(q, end, Token(q, st, SubSeq(q, p, end - 1), FALSE, end))

parse_query_args(q) ==
    Tokens(q, 1, [args |-> <<>>, types |-> <<>>, params |-> <<>>, join |-> FALSE])
-----------------------------------------------------------------------------
(* Messages.  d is what follows the length. *)

I16(d, i) == 256 * d[i] + d[i + 1]
I32(d, i) == (IF d[i] >= 128 THEN d[i] - 256 ELSE d[i]) * 16777216
             + 65536 * d[i + 1] + 256 * d[i + 2] + d[i + 3]
Fits(d, i, n) == i + n - 1 <= Len(d)

\* parse_cstr: the place of the zero byte that ends the text at i, or 0.
Cstr(d, i) == FindFrom(d, i, {NUL})

Query(q, pg) ==
    IF ~q.ok \/ q.nparams > 0 THEN PgErr(pg)
    ELSE IF q.args = <<>> THEN PgDone(Up(pg, "empty_query"), <<>>)
    ELSE PgDone(pg, q.args)
parseQ(d, pg) ==
    IF Cstr(d, 1) = 0 \/ Cstr(d, 1) # Len(d) THEN PgBad(pg)
    ELSE Query(parse_query_args(SubSeq(d, 1, Len(d) - 1)), pg)

statement_insert(pg, name, stmt) == [pg EXCEPT !.statements = (name :> stmt) @@ @]
portal_insert(pg, name, portal) == [pg EXCEPT !.portals = (name :> portal) @@ @]

Statement(name, q, pg) ==
    IF Len(name) >= PGNAMEDATALEN \/ ~q.ok THEN PgErr(pg)
    ELSE PgDone(Up(statement_insert(pg, name, q), "parse"), <<>>)
parseP(d, pg) ==
    LET z == Cstr(d, 1)
        y == Cstr(d, z + 1)
    IN  IF z = 0 \/ y = 0 \/ ~Fits(d, y + 1, 2) THEN PgBad(pg)
        ELSE IF y + 2 + 4 * I16(d, y + 1) # Len(d) THEN PgBad(pg)
        ELSE Statement(SubSeq(d, 1, z - 1), parse_query_args(SubSeq(d, z + 1, y - 1)), pg)

parseD(d, pg) ==
    LET z == Cstr(d, 2)
        name == SubSeq(d, 2, z - 1)
    IN  IF "describe" \in pg.on THEN PgBad(Up(pg, "error"))
        ELSE IF z = 0 \/ z # Len(d) THEN PgBad(pg)
        ELSE IF d[1] \in {80, 81} /\ name \in DOMAIN pg.portals
        THEN PgDone([pg EXCEPT !.desc = <<"T", Len(pg.portals[name].params), pg.oid>>], <<>>)
        ELSE IF d[1] = 83 /\ name \in DOMAIN pg.statements
        THEN PgDone(Up([pg EXCEPT !.desc = <<"t", pg.statements[name].nparams, pg.oid>>],
                       "describe"), <<>>)
        ELSE PgErr(pg)

\* The parameters of a Bind: lengths and values; a null is an empty text.
RECURSIVE Params(_, _, _, _)
Params(d, i, left, acc) ==
    LET n == IF I32(d, i) <= 0 THEN 0 ELSE I32(d, i) IN
    IF left = 0 THEN [ok |-> TRUE, next |-> i, params |-> acc]
    ELSE IF ~Fits(d, i, 4) THEN Wrong
    ELSE IF ~Fits(d, i + 4, n) THEN Wrong
    ELSE Params(d, i + 4 + n, left - 1, Append(acc, SubSeq(d, i + 4, i + 3 + n)))

parseB(d, pg) ==
    LET z == Cstr(d, 1)
        y == Cstr(d, z + 1)
        formats == I16(d, y + 1)
        at == y + 3 + 2 * formats
        ps == Params(d, at + 2, I16(d, at), <<>>)
        misformat == \E j \in 0..formats - 1 :
                         Fits(d, y + 3 + 2 * j, 2) /\ I16(d, y + 3 + 2 * j) \notin {0, 1}
    IN  IF z = 0 \/ y = 0 \/ ~Fits(d, y + 1, 2) THEN PgBad(pg)
        ELSE IF misformat THEN PgErr(pg)
        ELSE IF ~Fits(d, at, 2) THEN PgBad(pg)
        ELSE IF ~ps.ok THEN PgBad(pg)
        ELSE IF ~Fits(d, ps.next, 2) THEN PgBad(pg)
        ELSE IF ps.next + 1 + 2 * I16(d, ps.next) # Len(d) THEN PgBad(pg)
        ELSE IF z > PGNAMEDATALEN \/ y - z > PGNAMEDATALEN THEN PgErr(pg)
        ELSE PgDone(Up(portal_insert(pg, SubSeq(d, 1, z - 1),
                           [stmt |-> SubSeq(d, z + 1, y - 1), params |-> ps.params]),
                       "bind"), <<>>)

parseX(d, pg) == IF d # <<>> THEN PgBad(pg) ELSE PgDone(Up(pg, "close"), <<>>)
parseS(d, pg) == IF d # <<>> THEN PgBad(pg) ELSE PgDone(Up(pg, "sync"), <<>>)

\* The arguments of a statement with the parameters put in; what is glued to the
\* argument before it is joined to it.
RECURSIVE Filled(_, _, _, _)
Filled(stmt, params, i, acc) ==
    LET arg == IF stmt.types[i].param
               THEN params[parse_u64(Tail(stmt.args[i])).n] ELSE stmt.args[i]
    IN  IF i > Len(stmt.args) THEN acc
        ELSE Filled(stmt, params, i + 1,
                 IF stmt.types[i].join THEN [acc EXCEPT ![Len(acc)] = @ \o arg]
                 ELSE Append(acc, arg))

parseE(d, pg) ==
    LET z == Cstr(d, 1)
        name == SubSeq(d, 1, z - 1)
        portal == pg.portals[name]
        stmt == pg.statements[portal.stmt]
    IN  IF z = 0 \/ z + 4 # Len(d) THEN PgBad(pg)
        ELSE IF name \notin DOMAIN pg.portals THEN PgErr(pg)
        ELSE IF portal.stmt \notin DOMAIN pg.statements THEN PgErr(pg)
        ELSE IF stmt.nparams # Len(portal.params) THEN PgErr(pg)
        ELSE PgDone(Up(pg, "execute"), Filled(stmt, portal.params, 1, <<>>))

parsep(d, pg, auth) ==
    LET z == Cstr(d, 1) IN
    IF z = 0 \/ z # Len(d) \/ SubSeq(d, 1, z - 1) # auth THEN PgBad(pg)
    ELSE PgDone(Up(pg, "auth"), <<>>)
Dispatch(type, d, pg, auth) ==
    CASE type = Code["Q"] -> parseQ(d, pg)
      [] type = Code["P"] -> parseP(d, pg)
      [] type = Code["X"] -> parseX(d, pg)
      [] type = Code["E"] -> parseE(d, pg)
      [] type = Code["p"] -> parsep(d, pg, auth)
      [] type = Code["D"] -> parseD(d, pg)
      [] type = Code["B"] -> parseB(d, pg)
      [] type = Code["S"] -> parseS(d, pg)
      [] OTHER -> PgErr(pg)
OfSize(r, size) == IF r.n = -1 THEN r ELSE [r EXCEPT !.n = size]
Sized(b, pg, auth, size) ==
    IF Len(b) < size THEN PgMore(pg)
    ELSE OfSize(Dispatch(b[1], SubSeq(b, 6, size), pg, auth), size)
\* The length is unsigned where it is compared: one below -1 is never reached.  From
\* -1 to 3 it wraps to a body past the end of the packet, which has no meaning.
parse_message(b, pg, auth) ==
    IF Len(b) < 5 THEN PgMore(pg)
    ELSE CASE I32(b, 2) < -1 -> PgMore(pg)
           [] I32(b, 2) >= 4 -> Sized(b, pg, auth, I32(b, 2) + 1)

\* The texts that are not empty, each up to a zero byte.
RECURSIVE Texts(_, _)
Texts(d, i) ==
    LET z == Cstr(d, i) IN
    IF z = 0 THEN <<>>
    ELSE (IF z > i THEN <<SubSeq(d, i, z - 1)>> ELSE <<>>) \o Texts(d, z + 1)

\* Names and values take turns; the last value of a name counts.
parse_magic_proto3(d, pg) ==
    LET ts == Texts(d, 1)
        at == {i \in 1..Len(ts) : i % 2 = 0 /\ ts[i - 1] = B("client_encoding")}
    IN  IF at # {} /\ ts[Max(at)] # B("UTF8") THEN PgBad(pg)
        ELSE PgDone(Up(pg, "startup"), <<>>)

SSLRequest == <<4, 210, 22, 47>>
Protocol3 == <<0, 3, 0, 0>>

\* A cancel request is refused like every other number.
parse_magic(b, pg) ==
    LET size == I32(b, 1)
        magic == SubSeq(b, 5, 8)
        d == SubSeq(b, 9, size)
        r == CASE magic = SSLRequest -> PgDone(Up(pg, "ssl"), <<>>)
               [] magic = Protocol3 -> parse_magic_proto3(d, pg)
               [] OTHER -> PgBad(pg)
    IN  IF Len(b) < 4 THEN PgMore(pg)
        ELSE IF size > 65536 THEN PgBad(pg)
        ELSE IF Len(b) < size THEN PgMore(pg)
        ELSE IF size < 8 \/ r.n = -1 THEN PgBad(pg)
        ELSE [r EXCEPT !.n = size]

parse_postgres(b, pg0, auth) ==
    LET pg == Down(pg0, "error") IN
    IF b = <<>> THEN PgMore(pg)
    ELSE IF b[1] = NUL THEN parse_magic(b, pg)
    ELSE parse_message(b, pg, auth)

-----------------------------------------------------------------------------
(* Answers. *)


\* pg_write_ready is silent from an Execute to the next Sync.
pg_write_ready(pg) == IF "execute" \in pg.on THEN <<>> ELSE <<<<"Z">>>>

\* conn_write_error.
pg_error(pg) == <<<<"E">>>> \o pg_write_ready(pg)

write_auth_ok(pg) == <<<<"R", 0>>, <<"S">>>> \o pg_write_ready(pg)

Respond(pg, out) == [ok |-> TRUE, pg |-> pg, out |-> out, setauth |-> FALSE]

pg_respond(pg, auth) ==
    LET on == pg.on
        synced == Down(Down(pg, "sync"), "execute")
        stop == [Respond(Down(pg, "close"), <<>>) EXCEPT !.ok = FALSE]
    IN  IF "error" \in on THEN Respond(pg, pg_error(pg))
        ELSE IF "empty_query" \in on THEN Respond(Down(pg, "empty_query"), <<<<"I">>, <<"Z">>>>)
        ELSE IF "parse" \in on THEN Respond(Down(pg, "parse"), <<<<"1">>>>)
        ELSE IF "bind" \in on THEN Respond(Down(pg, "bind"), <<<<"2">>>>)
        ELSE IF "describe" \in on
        THEN Respond(Down([pg EXCEPT !.desc = <<>>], "describe"), <<pg.desc>>)
        ELSE IF "sync" \in on THEN Respond(synced, pg_write_ready(synced))
        ELSE IF "close" \in on THEN stop
        ELSE IF "ssl" \in on THEN Respond(Down(pg, "ssl"), <<<<"N">>>>)
        ELSE IF "auth" \in on /\ "startup" \notin on THEN stop
        ELSE IF "auth" \in on
        THEN [Respond(Up(Down(pg, "auth"), "ready"), write_auth_ok(pg)) EXCEPT !.setauth = TRUE]
        ELSE IF "startup" \notin on THEN Respond(pg, <<>>)
        ELSE IF auth # <<>> THEN Respond(pg, <<<<"R", 3>>>>)
        ELSE Respond(Up(Down(pg, "startup"), "ready"), write_auth_ok(pg))

Complete(pg, tag) == <<<<"C", tag>>>> \o pg_write_ready(pg)

\* Transactions are answered and have no effect; a type holds from here on.
pg_precommand(args, pg) ==
    LET name == Fold(args[1])
        typed == [pg EXCEPT !.oid = IF name = B("::text") THEN "text" ELSE "bytea"]
        handled(p, out) == [run |-> FALSE, args |-> args, pg |-> p, out |-> out]
    IN  CASE name \in {B("begin"), B("rollback"), B("commit")} -> handled(pg, Complete(pg, name))
          [] name \in {B("::bytea"), B("::bytes"), B("::text")} ->
                IF Len(args) = 1 THEN handled(typed, Complete(pg, B("type")))
                ELSE [run |-> TRUE, args |-> Tail(args), pg |-> typed, out |-> <<>>]
          [] Len(name) > 1 /\ SubSeq(name, 1, 2) = B("::")
             /\ name \notin {B("::bytea"), B("::bytes"), B("::text")} -> handled(pg, pg_error(pg))
          [] OTHER -> [run |-> TRUE, args |-> args, pg |-> pg, out |-> <<>>]
=============================================================================
