-------------------------------- MODULE Text --------------------------------
(***************************************************************************)
(* Bytes on the wire, and the searches that every parser makes.  A byte is   *)
(* its code, a text a sequence of bytes.                                     *)
(***************************************************************************)
EXTENDS Integers, Sequences, TLC
CONSTANT MAXARGSZ    \* the longest argument

\* From blank to tilde; the two-part text leaves out the back quote (96).
Upto95 == " !\"#$%&'()*+,-./0123456789:;<=>?@ABCDEFGHIJKLMNOPQRSTUVWXYZ[\\]^_"
From97 == "abcdefghijklmnopqrstuvwxyz{|}~"
Code ==
    [ch \in {SubSeq(Upto95, i, i) : i \in 1..64} |->
        31 + CHOOSE i \in 1..64 : SubSeq(Upto95, i, i) = ch]
    @@ [ch \in {SubSeq(From97, i, i) : i \in 1..30} |->
        96 + CHOOSE i \in 1..30 : SubSeq(From97, i, i) = ch]

\* The bytes of a TLA+ string, which is a sequence of characters.
B(s) == [i \in 1..Len(s) |-> Code[SubSeq(s, i, i)]]

NUL == 0
TAB == 9
LF == 10
CR == 13
SP == 32
CRLF == <<CR, LF>>
Spaces == 9..13 \cup {SP}
IsSpace(ch) == ch \in Spaces
Lower(ch) == IF ch \in 65..90 THEN ch + 32 ELSE ch
Fold(t) == [i \in 1..Len(t) |-> Lower(t[i])]

\* The first position from i on where t has one of the bytes, or 0.
FindFrom(t, i, bytes) ==
    IF \E j \in i..Len(t) : t[j] \in bytes
    THEN CHOOSE j \in i..Len(t) : t[j] \in bytes /\ \A h \in i..j - 1 : t[h] \notin bytes
    ELSE 0

\* What a parser returns: n bytes are used up, 0 when more are needed and -1 for
\* an error; the arguments of the command; how many bytes a memcache error skips;
\* and the kind of error.
More == [n |-> 0, args |-> <<>>, skip |-> 0, err |-> "none"]
Bad(skip) == [n |-> -1, args |-> <<>>, skip |-> skip, err |-> "error"]
Fail(err) == [Bad(0) EXCEPT !.err = err]
Parsed(n, args) == [n |-> n, args |-> args, skip |-> 0, err |-> "none"]
=============================================================================
