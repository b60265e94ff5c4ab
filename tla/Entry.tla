-------------------------------- MODULE Entry --------------------------------
(***************************************************************************)
(* The entry of pogocache.c: one allocation that holds a header, the time,  *)
(* the fields that the header says are there, and key and value, each after *)
(* its length.  The model is a sequence of cells: a field of fixed width is  *)
(* one cell, a byte of a length, of a key or of a value is one cell.         *)
(***************************************************************************)
EXTENDS Integers, Sequences
CONSTANTS UseCas, UseSixpack,   \* the options usecas and !nosixpack
          Base,                 \* 128: what one byte of a length can hold
          tosix                 \* character -> its 6-bit code, 0 when it has none

ASSUME BaseAssumption == Base \in Nat /\ Base > 1

-----------------------------------------------------------------------------
(* Lengths: varint_write_u64, varint_read_u64 *)

varint_write_u64[x \in Nat] ==
    IF x < Base THEN <<x>> ELSE <<Base + (x % Base)>> \o varint_write_u64[x \div Base]

\* The number at cell i of an entry, and the cell after it.
LastCell(e, i) ==
    CHOOSE j \in i..Len(e) : e[j] < Base /\ \A h \in i..j - 1 : e[h] >= Base
ReadCells(e, i, last) ==
    LET sum[j \in i..last] == (e[j] % Base) * Base ^ (j - i)
                              + IF j = last THEN 0 ELSE sum[j + 1]
    IN  [n |-> sum[i], next |-> last + 1]
varint_read_u64(e, i) == ReadCells(e, i, LastCell(e, i))

-----------------------------------------------------------------------------
(* Keys: four 6-bit codes in three bytes *)

\* The codes of a packed string; past its end they are 0.
Six(c, j) == IF j <= Len(c) THEN c[j] ELSE 0

Pack(c) ==
    [j \in 1..Len(c) - Len(c) \div 4 |->
        LET g == 4 * ((j - 1) \div 3) IN
        CASE j % 3 = 1 -> Six(c, g + 1) * 4 + Six(c, g + 2) \div 16
          [] j % 3 = 2 -> (Six(c, g + 2) % 16) * 16 + Six(c, g + 3) \div 4
          [] j % 3 = 0 -> (Six(c, g + 3) % 4) * 64 + Six(c, g + 4)]

UnpackAll(b) ==
    [j \in 1..Len(b) + Len(b) \div 3 |->
        LET g == 3 * ((j - 1) \div 4) IN
        CASE j % 4 = 1 -> b[g + 1] \div 4
          [] j % 4 = 2 -> (b[g + 1] % 4) * 16 + b[g + 2] \div 16
          [] j % 4 = 3 -> (b[g + 2] % 16) * 4 + b[g + 3] \div 64
          [] j % 4 = 0 -> b[g + 3] % 64]

\* Three bytes hold three codes and padding, or four codes.
Unpadded(c) == IF c # <<>> /\ c[Len(c)] = 0 THEN SubSeq(c, 1, Len(c) - 1) ELSE c

fromsix(code) == IF code = 0 THEN 0 ELSE CHOOSE ch \in DOMAIN tosix : tosix[ch] = code

\* The packed key, or <<>> when a character has no code.
sixpack(key) ==
    IF \E i \in 1..Len(key) : tosix[key[i]] = 0 THEN <<>>
    ELSE Pack([i \in 1..Len(key) |-> tosix[key[i]]])

FromSix(c) == [i \in 1..Len(c) |-> fromsix(c[i])]
unsixpack(bytes) == FromSix(Unpadded(UnpackAll(bytes)))

-----------------------------------------------------------------------------
(* Entries *)

Bit(hdr, i) == (hdr \div 2 ^ i) % 2

entry_settime(e, time) == [e EXCEPT ![2] = time]
entry_time(e) == e[2]

EntryOf(key, packed, val, expires, flags, cas) ==
    <<(IF expires > 0 THEN 1 ELSE 0) + (IF flags > 0 THEN 2 ELSE 0)
      + (IF UseCas THEN 4 ELSE 0) + (IF packed THEN 8 ELSE 0), 0>>
    \o (IF expires > 0 THEN <<expires>> ELSE <<>>)
    \o (IF flags > 0 THEN <<flags>> ELSE <<>>)
    \o (IF UseCas THEN <<cas>> ELSE <<>>)
    \o varint_write_u64[Len(key)] \o key
    \o varint_write_u64[Len(val)] \o val

entry_new(key, val, expires, flags, cas) ==
    IF UseSixpack /\ sixpack(key) # <<>>
    THEN EntryOf(sixpack(key), TRUE, val, expires, flags, cas)
    ELSE EntryOf(key, FALSE, val, expires, flags, cas)

\* Where the optional fields and the length of the key are.
FlagsAt(e) == 3 + Bit(e[1], 0)
CasAt(e) == FlagsAt(e) + Bit(e[1], 1)
KeyAt(e) == CasAt(e) + Bit(e[1], 2)

entry_expires(e) == IF Bit(e[1], 0) = 1 THEN e[3] ELSE 0
entry_flags(e) == IF Bit(e[1], 1) = 1 THEN e[FlagsAt(e)] ELSE 0
entry_cas(e) == IF Bit(e[1], 2) = 1 THEN e[CasAt(e)] ELSE 0
entry_sixpacked(e) == Bit(e[1], 3) = 1

\* The bytes after a length, and the cell after them.
Bytes(e, len) == SubSeq(e, len.next, len.next + len.n - 1)
AfterBytes(len) == len.next + len.n

entry_rawkey(e) == Bytes(e, varint_read_u64(e, KeyAt(e)))

KeyOf(sixpacked, raw) == IF sixpacked THEN unsixpack(raw) ELSE raw
entry_key(e) == KeyOf(entry_sixpacked(e), entry_rawkey(e))

entry_value(e) == Bytes(e, varint_read_u64(e, AfterBytes(varint_read_u64(e, KeyAt(e)))))

entry_extract(e) ==
    [key |-> entry_key(e), val |-> entry_value(e), expires |-> entry_expires(e),
     flags |-> entry_flags(e), cas |-> entry_cas(e)]

\* Whether entry_compare returns 0.
entry_same(a, b) ==
    IF entry_sixpacked(a) = entry_sixpacked(b)
    THEN entry_rawkey(a) = entry_rawkey(b)
    ELSE entry_key(a) = entry_key(b)
=============================================================================
