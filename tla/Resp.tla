-------------------------------- MODULE Resp --------------------------------
(***************************************************************************)
(* resp.c: commands as arrays of bulk strings, and as a line of text.        *)
(***************************************************************************)
EXTENDS Numbers, Text
CONSTANT MAXARGS    \* the most arguments

Asterisk == 42
Dollar == 36

\* read_resp_num: a number and CR LF at position i.
InLimits(x, min, max, next) ==
    [st |-> IF x.ok /\ x.n \in min..max THEN "ok" ELSE "bad", n |-> x.n, next |-> next]
NumberUpTo(b, i, p, min, max) ==
    IF (p = 0 /\ Len(b) - i + 1 > 32) \/ (p > 0 /\ p < Len(b) /\ b[p + 1] # LF)
    THEN [st |-> "bad"]
    ELSE IF p = 0 \/ p = Len(b) THEN [st |-> "more"]
    ELSE InLimits(parse_i64(SubSeq(b, i, p - 1)), min, max, p + 2)
read_resp_num(b, i, min, max) == NumberUpTo(b, i, FindFrom(b, i, {CR}), min, max)

\* Mutant of Bulks: an argument is taken before the line end after it is there.
RECURSIVE BulksEarly(_, _, _, _)
BulkEarly(b, r, left, args) ==
    IF r.st = "more" THEN More
    ELSE IF r.st = "bad" THEN Bad(0)
    ELSE IF r.n > Len(b) - r.next + 1 THEN More
    ELSE BulksEarly(b, r.next + r.n + 2, left - 1,
                    Append(args, SubSeq(b, r.next, r.next + r.n - 1)))
BulksEarly(b, i, left, args) ==
    IF left <= 0 THEN Parsed(i - 1, args)
    ELSE IF i > Len(b) THEN More
    ELSE IF b[i] # Dollar THEN Bad(0)
    ELSE IF i = Len(b) THEN More
    ELSE BulkEarly(b, read_resp_num(b, i + 1, 0, MAXARGSZ), left, args)

\* The bulk strings that are left, from position i on.
RECURSIVE Bulks(_, _, _, _)
Bulk(b, r, left, args) ==
    IF r.st = "more" THEN More
    ELSE IF r.st = "bad" THEN Bad(0)
    ELSE IF r.n + 2 > Len(b) - r.next + 1 THEN More
    ELSE Bulks(b, r.next + r.n + 2, left - 1,
               Append(args, SubSeq(b, r.next, r.next + r.n - 1)))
Bulks(b, i, left, args) ==
    IF left <= 0 THEN Parsed(i - 1, args)
    ELSE IF i > Len(b) THEN More
    ELSE IF b[i] # Dollar THEN Bad(0)
    ELSE IF i = Len(b) THEN More
    ELSE Bulk(b, read_resp_num(b, i + 1, 0, MAXARGSZ), left, args)

ArrayOf(b, r) ==
    IF r.st = "more" THEN More
    ELSE IF r.st = "bad" THEN Bad(0)
    ELSE Bulks(b, r.next, r.n, <<>>)
parse_resp(b) ==
    IF b = <<>> THEN More
    ELSE IF b[1] # Asterisk THEN Bad(0)
    ELSE IF Len(b) = 1 THEN More
    ELSE ArrayOf(b, read_resp_num(b, 2, MinI, MAXARGS))

-----------------------------------------------------------------------------
(* parse_resp_telnet.  Position i is the next byte; quote is 0 outside quotes. *)

Quotes == {34, 39}
Backslash == 92
Unescaped(ch) ==
    CASE ch = 110 -> LF [] ch = 114 -> CR [] ch = 116 -> TAB [] ch \notin {110, 114, 116} -> ch

RECURSIVE InArg(_, _, _, _, _), Between(_, _, _)

\* After an argument; a quote must be followed by white space.
InArg(b, i, args, arg, quote) ==
    LET ch == b[i]
        done == Append(args, arg)
    IN  CASE i > Len(b) -> More
          [] i <= Len(b) /\ quote # 0 ->
                IF ch = LF THEN Bad(0)
                ELSE IF ch = quote
                THEN IF Len(done) > MAXARGS THEN Bad(0)
                     ELSE IF i = Len(b) THEN More
                     ELSE IF b[i + 1] = LF THEN Between(b, i + 1, done)
                     ELSE IF ~IsSpace(b[i + 1]) THEN Bad(0)
                     ELSE Between(b, i + 2, done)
                ELSE IF ch = Backslash
                THEN IF i = Len(b) THEN More
                     ELSE IF Len(arg) = MAXARGSZ THEN Bad(0)
                     ELSE InArg(b, i + 2, args, Append(arg, Unescaped(b[i + 1])), quote)
                ELSE IF Len(arg) = MAXARGSZ THEN Bad(0)
                ELSE InArg(b, i + 1, args, Append(arg, ch), quote)
          [] i <= Len(b) /\ quote = 0 ->
                IF ch \in Quotes THEN InArg(b, i + 1, args, arg, ch)
                ELSE IF IsSpace(ch)
                THEN IF Len(done) > MAXARGS THEN Bad(0)
                     ELSE IF ch = LF THEN More
                     ELSE Between(b, i + 1, done)
                ELSE IF Len(arg) = MAXARGSZ THEN Bad(0)
                ELSE InArg(b, i + 1, args, Append(arg, ch), 0)

Between(b, i, args) ==
    IF i > Len(b) THEN More
    ELSE IF b[i] = LF THEN Parsed(i, args)
    ELSE IF IsSpace(b[i]) THEN Between(b, i + 1, args)
    ELSE IF b[i] \in Quotes THEN InArg(b, i + 1, args, <<>>, b[i])
    ELSE InArg(b, i + 1, args, <<b[i]>>, 0)

parse_resp_telnet(b) == Between(b, 1, <<>>)
=============================================================================
