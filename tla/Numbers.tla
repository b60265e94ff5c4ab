------------------------------- MODULE Numbers -------------------------------
(***************************************************************************)
(* Integers as util.c handles them: arithmetic that clamps, decimal text to *)
(* numbers and back.  int64_t and uint64_t are numbers of W bits.  A text    *)
(* is a sequence of character codes.                                         *)
(***************************************************************************)
EXTENDS Integers, Sequences
CONSTANT W

ASSUME WidthPositive == W \in Nat \ {0}

MaxI == 2 ^ (W - 1) - 1
MinI == -(2 ^ (W - 1))
MaxU == 2 ^ W - 1
Ints == MinI..MaxI
Uints == 0..MaxU

\* C's division truncates towards zero.
Quot(a, b) == IF (a < 0) = (b < 0)
              THEN (IF a < 0 THEN -a ELSE a) \div (IF b < 0 THEN -b ELSE b)
              ELSE -((IF a < 0 THEN -a ELSE a) \div (IF b < 0 THEN -b ELSE b))

int64_add_clamp(a, b) ==
    IF (a < 0) = (b < 0) /\ a > 0 /\ b > MaxI - a THEN MaxI
    ELSE IF (a < 0) = (b < 0) /\ a <= 0 /\ b < MinI - a THEN MinI
    ELSE a + b

int64_mul_clamp(a, b) ==
    IF a > 0 /\ b > 0 /\ a > Quot(MaxI, b) THEN MaxI
    ELSE IF a > 0 /\ b < 0 /\ b < Quot(MinI, a) THEN MinI
    ELSE IF a <= 0 /\ b > 0 /\ a < Quot(MinI, b) THEN MinI
    ELSE IF a <= 0 /\ b < 0 /\ a < Quot(MaxI, b) THEN MaxI
    ELSE a * b

-----------------------------------------------------------------------------
Space == 32
Plus == 43
Minus == 45
Digit(n) == 48 + n
IsDigit(ch) == ch \in 48..57

Skipped(t) ==     \* what strtoll skips
    IF \E i \in 1..Len(t) : t[i] # Space
    THEN (CHOOSE i \in 1..Len(t) : t[i] # Space /\ \A j \in 1..i - 1 : t[j] = Space) - 1
    ELSE Len(t)

\* strtoll and strtoull: blanks, a sign, digits up to the first other character.
\* Without a digit nothing is consumed and the number is 0.
RECURSIVE Magnitude(_, _)
Magnitude(ds, acc) ==
    IF ds = <<>> THEN acc ELSE Magnitude(Tail(ds), 10 * acc + Head(ds) - 48)

LastDigit(t, first) ==
    LET stops == {i \in first..Len(t) : ~IsDigit(t[i])} IN
    IF stops = {} THEN Len(t) ELSE (CHOOSE i \in stops : \A j \in stops : i <= j) - 1

Digits(t, neg, first, last) ==
    [neg |-> neg,
     mag |-> Magnitude(SubSeq(t, first, last), 0),
     whole |-> IF last < first THEN t = <<>> ELSE last = Len(t)]

AfterBlanks(t, s) ==
    LET signed == s < Len(t) /\ t[s + 1] \in {Plus, Minus}
        first == IF signed THEN s + 2 ELSE s + 1
    IN  Digits(t, signed /\ t[s + 1] = Minus, first, LastDigit(t, first))

strto(t) == AfterBlanks(t, Skipped(t))

\* Not a number, or out of range (ERANGE).
NaN == [ok |-> FALSE, n |-> 0]

Signed(r) == IF r.neg THEN -r.mag ELSE r.mag

InInts(r) == IF r.whole /\ Signed(r) \in Ints THEN [ok |-> TRUE, n |-> Signed(r)] ELSE NaN
parse_i64(t) == InInts(strto(t))

InUints(t, r) ==
    IF r.whole /\ r.mag \in Uints /\ ~(t # <<>> /\ t[1] = Minus)
    THEN [ok |-> TRUE, n |-> Signed(r) % 2 ^ W]
    ELSE NaN
parse_u64(t) == InUints(t, strto(t))

RECURSIVE u64toa(_)
u64toa(x) == IF x < 10 THEN <<Digit(x)>>
             ELSE Append(u64toa(x \div 10), Digit(x % 10))

i64toa(x) == IF x < 0 THEN <<Minus>> \o u64toa((-x) % 2 ^ W) ELSE u64toa(x)

-----------------------------------------------------------------------------
\* What the clamping operations are for.
Clamp(n) == IF n > MaxI THEN MaxI ELSE IF n < MinI THEN MinI ELSE n
=============================================================================
