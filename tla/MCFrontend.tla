----------------------------- MODULE MCFrontend -----------------------------
(* Clients of every protocol for the connection of module Frontend. *)
EXTENDS Frontend
C == INSTANCE Clients
A(words) == C!A(words)

\* A line of text that is cut before its end cannot be sniffed.
Scenario(password, reqs) ==
    [password |-> B(password), reqs |-> reqs,
     stream |-> FlattenSeq([i \in 1..Len(reqs) |-> reqs[i].wire]),
     fragile |-> IF reqs[1].wire[1] \in {Asterisk, NUL} THEN {}
                 ELSE 1..FindFrom(reqs[1].wire, 1, {LF}) - 1]

Arr(args) == C!Run(C!Array(args), args)
Tel(args) == C!Run(C!Telnet(args), args)
Said(ans) == C!Req(<<>>, <<>>, ans)

\* Binary values, an empty one, a command in the background and commands behind it.
RespArrays ==
    Scenario("", <<
        Arr(<<B("SET"), B("k"), <<CR, LF, 42, NUL>>>>),
        Arr(<<B("echo"), <<>>>>),
        C!Req(C!Array(<<>>), <<>>, <<>>),
        Arr(A(<<"SAVE", "FAST", "to", "f">>)),
        Arr(A(<<"GET", "k">>)),
        Arr(A(<<"FLUSHALL", "async", "SYNC">>)),
        Arr(A(<<"SWEEP">>)),
        Arr(A(<<"SWEEP", "ASYNC">>)),
        Tel(<<B("TTL"), B("k")>>),
        C!Closing(C!Refused(B("*1") \o CRLF \o B("x"), "error")),
        Arr(A(<<"DEL", "k">>))>>)

RespLines ==
    Scenario("", <<
        Tel(<<B("SET"), B("a b"), <<34, 92, LF, 39>>>>),
        C!Req(CRLF, <<>>, <<>>),
        Tel(<<B("GET"), B("a b"), <<>>>>),
        Arr(A(<<"keys", "a">>)),
        C!Closing(C!Req(C!Telnet(A(<<"QUIT">>)), <<A(<<"QUIT">>)>>, <<<<"OK">>>>)),
        Tel(A(<<"GET", "a">>))>>)

RespMany ==
    Scenario("", <<
        Arr(A(<<"mget", "a", "b", "c", "d">>)),
        C!Closing(C!Refused(B("*6") \o CRLF, "error")),
        Arr(A(<<"GET", "a">>))>>)
RespQuotes ==
    Scenario("", <<
        Tel(A(<<"GET", "a">>)),
        C!Closing(C!Refused(B("SET \"a\"b"), "error")),
        Tel(A(<<"GET", "a">>))>>)

\* What is not the password, and what is no password at all, runs nothing.
RespPassword ==
    Scenario("pw", <<
        C!Refused(C!Array(A(<<"GET", "k">>)), "noauth"),
        C!Refused(C!Array(A(<<"AUTH", "p">>)), "wrongpass"),
        C!Refused(C!Array(A(<<"AUTH", "pw", "pw">>)), "wrongpass"),
        C!Refused(C!Array(A(<<"AUTH">>)), "args"),
        C!Login(C!Req(C!Array(A(<<"AUTH", "pw">>)), <<>>, <<<<"OK">>>>)),
        Arr(A(<<"GET", "k">>))>>)

Mc(words, args) == C!Run(C!Line(words), args)
McBlock(words, block, args) == C!Run(C!WithBlock(words, block), args)

\* The ones with noreply are due an answer too: the server gives it.
McStores ==
    Scenario("", <<
        McBlock(<<"set", "k", "0", "0", "3">>, <<CR, LF, 97>>, <<B("set"), B("k"), <<CR, LF, 97>>>>),
        McBlock(<<"set", "k", "5", "9", "0", "noreply">>, <<>>,
                <<B("set"), B("k"), <<>>>> \o A(<<"flags", "5", "ex", "9">>)),
        McBlock(<<"add", "k", "0", "0", "1">>, B("x"), A(<<"set", "k", "x", "nx">>)),
        McBlock(<<"replace", "k", "1", "0", "1">>, B("y"), A(<<"set", "k", "y", "flags", "1", "xx">>)),
        McBlock(<<"cas", "k", "0", "7", "1", "12">>, B("z"), A(<<"set", "k", "z", "ex", "7", "cas", "12">>)),
        McBlock(<<"append", "k", "3", "0", "1">>, B("t"), A(<<"append", "k", "t">>)),
        C!Refused(C!Line(<<"set", "k", "0", "0", "2">>) \o B("uvwx"), "error"),
        C!Refused(C!Line(<<"set", "k", "0", "x", "2">>), "error"),
        Mc(<<"get", "k", "j">>, A(<<"mget", "k", "j">>))>>)

McLines ==
    Scenario("", <<
        Mc(<<"get", "k">>, A(<<"mget", "k">>)),
        Mc(<<"gets", "k", "j">>, A(<<"mgets", "k", "j">>)),
        Mc(<<"gat", "3", "5">>, A(<<"gat", "3", "5">>)),
        C!Refused(C!Line(<<"gats", "3">>), "error"),
        Mc(<<"stats">>, A(<<"stats">>)),
        Mc(<<"version">>, A(<<"version">>)),
        Mc(<<"delete", "k", "noreply">>, A(<<"del", "k">>)),
        Mc(<<"incr", "k", "2">>, A(<<"uincrby", "k", "2">>)),
        C!Refused(C!Line(<<"decr", "k">>), "error"),
        Mc(<<"decr", "k", "1">>, A(<<"udecrby", "k", "1">>)),
        C!Refused(CRLF, "error"),
        C!Refused(B("get k") \o <<CR, SP, LF>>, "error"),
        Mc(<<"touch", "k", "4">>, A(<<"expire", "k", "4">>)),
        C!Refused(C!Line(<<"delete", "k", "j">>), "error"),
        Mc(<<"flush_all">>, A(<<"flushall">>)),
        Mc(<<"flush_all", "3", "noreply">>, A(<<"flushall", "delay", "3">>)),
        C!Refused(C!Line(<<"nothing">>), "error"),
        C!Closing(C!Req(C!Line(<<"quit">>), <<A(<<"quit">>)>>, <<>>)),
        Mc(<<"get", "k">>, A(<<"mget", "k">>))>>)

\* One request per connection; the carriage return of the empty line may not be
\* the last byte of a piece.
OverHttp(password, method, path, headers, body, runs, ans, login) ==
    LET head == Len(C!HttpHead(method, path, headers, body))
        req == [C!Closing(C!Req(C!Http(method, path, headers, body), runs, ans)) EXCEPT !.login = login]
        s == Scenario(password, <<req>>)
    IN  [s EXCEPT !.fragile = @ \cup {head + 1}]
HttpRuns(password, method, path, headers, body, args, login) ==
    OverHttp(password, method, path, headers, body, <<args>>, <<<<"reply", args>>>>, login)
HttpFails(password, method, path, headers, body, err) ==
    OverHttp(password, method, path, headers, body, <<>>, <<<<"err", err>>>>, FALSE)

HttpPut ==
    HttpRuns("", "PUT", "/k?flags=5&nx&ttl=9&x=1&cas=2", <<"Accept: */*">>, <<CR, LF, 58, NUL>>,
             <<B("set"), B("k"), <<CR, LF, 58, NUL>>>>
             \o A(<<"cas", "2", "ex", "9", "flags", "5", "nx">>), FALSE)
HttpGet == HttpRuns("pw", "GET", "/k?auth=pw", <<"Authorization: Bearer no">>, <<>>,
                    A(<<"get", "k">>), TRUE)
HttpDelete == HttpRuns("pw", "DELETE", "/k", <<"authorization: Bearer pw">>, <<>>,
                       A(<<"del", "k">>), TRUE)
HttpDenied == HttpFails("pw", "PUT", "/k", <<"Authorization: Bearer p">>, B("v"), "Unauthorized")
HttpSecret == HttpFails("pw", "GET", "/k", <<>>, <<>>, "Unauthorized")
HttpHelp == HttpFails("", "GET", "/", <<"Accept: text/html">>, <<>>, "Help HTML")
HttpKey == HttpFails("", "PUT", "/a%20", <<>>, B("v"), "Invalid Key")

-----------------------------------------------------------------------------
(* Postgres. *)

Ready == <<<<"R", 0>>, <<"S">>, <<"Z">>>>
Start == C!Req(C!Startup(<<"user", "u", "client_encoding", "UTF8">>), <<>>, Ready)
Ask(text, args) == C!Req(C!Query(text), <<args>>, <<<<"reply", args>>, <<"Z">>>>)
PgSays(wire, ans) == C!Req(wire, <<>>, ans)

\* Simple queries: strings, escapes, nothing at all, errors, transactions, types.
PgSimple ==
    Scenario("", <<
        PgSays(C!SSL, <<<<"N">>>>),
        Start,
        Ask(B(" set k 'a b;';"), A(<<"set", "k", "a b;">>)),
        Ask(B("set k E'\\n\\u0041\\u00e9\\uD83D\\uDE00'"),
            <<B("set"), B("k"), <<LF, 65, 256 + 233, 256 + 119296>>>>),
        PgSays(C!Query(B(" ;;")), <<<<"I">>, <<"Z">>>>),
        PgSays(C!Query(B("get $1")), <<<<"E">>, <<"Z">>>>),
        PgSays(C!Query(B("get 'k")), <<<<"E">>, <<"Z">>>>),
        PgSays(C!Query(B("get k; x")), <<<<"E">>, <<"Z">>>>),
        PgSays(C!Query(B("Begin")), <<<<"C", B("begin")>>, <<"Z">>>>),
        Ask(B("::bytea get k"), A(<<"get", "k">>)),
        Ask(B("save"), A(<<"save">>)),
        Ask(B("get k"), A(<<"get", "k">>)),
        C!Closing(PgSays(C!Terminate, <<>>)),
        Ask(B("get k"), A(<<"get", "k">>))>>)

\* Two statements, one with a parameter used alone and one glued to texts, bound
\* and run more than once before the client asks for the end of the batch.  The
\* description of a portal is made and not sent.
SetWords == <<<<C!Lit(B("set"))>>, <<C!Lit(B("a:")), C!Param(2), C!Lit(B(":z"))>>, <<C!Param(1)>>>>
GetWords == <<<<C!Lit(B("get"))>>, <<C!Lit(B("a b"))>>>>
Runs(portal, words, params) ==
    LET args == C!Meaning(words, params) IN
    C!Req(C!Execute(portal), <<args>>, <<<<"reply", args>>>>)

PgPrepared ==
    Scenario("", <<
        Start,
        PgSays(C!Parse("s", SetWords), <<<<"1">>>>),
        PgSays(C!Parse("", GetWords), <<<<"1">>>>),
        PgSays(C!Describe("S", "s"), <<<<"t", 2, "text">>>>),
        PgSays(C!Bind("p", "s", <<B("v w"), B("q")>>), <<<<"2">>>>),
        PgSays(C!Bind("", "", <<>>), <<<<"2">>>>),
        PgSays(C!Describe("P", "p"), <<>>),
        Runs("p", SetWords, <<B("v w"), B("q")>>),
        Runs("", GetWords, <<>>),
        PgSays(C!Bind("p", "s", <<<<>>, B("$1")>>), <<<<"2">>>>),
        Runs("p", SetWords, <<<<>>, B("$1")>>),
        PgSays(C!Execute("x"), <<<<"E">>>>),
        PgSays(C!Sync, <<<<"Z">>>>),
        Ask(B("get k"), A(<<"get", "k">>))>>)

\* Errors in every part of a batch, and a message that is not known.
PgErrors ==
    Scenario("", <<
        Start,
        PgSays(C!Parse("s", <<<<C!Lit(B("get"))>>, <<C!Param(2)>>>>), <<<<"E">>, <<"Z">>>>),
        PgSays(C!Parse("long", GetWords), <<<<"E">>, <<"Z">>>>),
        PgSays(C!Describe("S", "s"), <<<<"E">>, <<"Z">>>>),
        PgSays(C!Bind("", "s", <<B("k")>>), <<<<"2">>>>),
        PgSays(C!Execute(""), <<<<"E">>, <<"Z">>>>),
        PgSays(C!Message("H", <<>>), <<<<"E">>, <<"Z">>>>),
        PgSays(C!Query(B("::json get k")), <<<<"E">>, <<"Z">>>>),
        PgSays(C!Query(B("::text")), <<<<"C", B("type")>>, <<"Z">>>>),
        PgSays(C!Sync, <<<<"Z">>>>),
        C!Closing(PgSays(C!Message("S", <<NUL>>), <<<<"E">>, <<"Z">>>>)),
        Ask(B("get k"), A(<<"get", "k">>))>>)

\* A client that has to give the password; to describe a portal is to be asked for
\* it again, since startup stays set after the login.
PgPassword ==
    Scenario("pw", <<
        PgSays(C!Startup(<<"user", "u", "database", "d">>), <<<<"R", 3>>>>),
        C!Login(PgSays(C!Password(B("pw")), Ready)),
        PgSays(C!Parse("", GetWords), <<<<"1">>>>),
        PgSays(C!Bind("", "", <<>>), <<<<"2">>>>),
        PgSays(C!Describe("P", ""), <<<<"R", 3>>>>),
        Runs("", GetWords, <<>>),
        PgSays(C!Sync, <<<<"Z">>>>)>>)
PgWrong ==
    Scenario("pw", <<
        PgSays(C!Startup(<<"user", "u">>), <<<<"R", 3>>>>),
        C!Closing(PgSays(C!Password(B("p")), <<<<"E">>, <<"Z">>>>)),
        Ask(B("get k"), A(<<"get", "k">>))>>)

\* A query before the password, and a password before the startup.
PgEarly ==
    Scenario("pw", <<
        PgSays(C!Startup(<<"user", "u">>), <<<<"R", 3>>>>),
        C!Closing(PgSays(C!Query(B("get k")), <<>>)),
        C!Login(PgSays(C!Password(B("pw")), <<>>))>>)
PgUnstarted ==
    Scenario("pw", <<
        PgSays(C!SSL, <<<<"N">>>>),
        C!Closing(PgSays(C!Password(B("pw")), <<>>)),
        Ask(B("get k"), A(<<"get", "k">>))>>)

AllScenarios ==
    {RespArrays, RespLines, RespMany, RespQuotes, RespPassword, McStores, McLines,
     HttpPut, HttpGet, HttpDelete, HttpDenied, HttpSecret, HttpHelp, HttpKey,
     PgSimple, PgPrepared, PgErrors, PgPassword, PgWrong, PgEarly, PgUnstarted}
=============================================================================
