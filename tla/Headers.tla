------------------------------- MODULE Headers -------------------------------
(***************************************************************************)
(* The octets in front of packets and subpackets: the tag, and the length  *)
(* in the new and the old format (Header in src/pgpy/types.py and in       *)
(* src/pgpy/packet/types.py).                                              *)
(*                                                                         *)
(* Octets are numbers here, Unknown where nobody has looked into the datum *)
(* that an octet is part of.                                               *)
(***************************************************************************)
EXTENDS Integers, Sequences

Unknown == -1

(* Python's o[:n]. *)
Clipped(o, n) == SubSeq(o, 1, IF n < Len(o) THEN n ELSE Len(o))

(* bytes_to_int: big-endian, of four octets at most. *)
BigEndian(o) ==
    LET Place(k) == IF k < Len(o) THEN o[Len(o) - k] ELSE 0
    IN  IF \E i \in 1 .. Len(o) : o[i] = Unknown THEN Unknown
        ELSE Place(0) + 256 * Place(1) + 65536 * Place(2) + 16777216 * Place(3)

IntByteLen(i) == IF i < 256 THEN 1 ELSE IF i < 65536 THEN 2 ELSE IF i < 16777216 THEN 3 ELSE 4

Digit(i, k) ==
    CASE k = 0 -> i % 256
      [] k = 1 -> (i \div 256) % 256
      [] k = 2 -> (i \div 65536) % 256
      [] k = 3 -> (i \div 16777216) % 256
      [] OTHER -> 0

(* int_to_bytes: at least min octets, more when the number needs them. *)
ToOctets(i, min) ==
    LET n == IF min > IntByteLen(i) THEN min ELSE IntByteLen(i)
    IN  [k \in 1 .. n |-> Digit(i, n - k)]

-----------------------------------------------------------------------------
(* llen of a new-format header, which follows from the length. *)
NewLlen(len) == IF len < 192 THEN 1 ELSE IF len < 8384 THEN 2 ELSE 5

(* encode_length, new format. *)
EncodeNew(len) ==
    IF len < 192 THEN ToOctets(len, 1)
    ELSE IF len < 8384 THEN ToOctets(len + 49152 - 192, 2)
    ELSE <<255>> \o ToOctets(len, 4)

(* encode_length, old format: llen is the one the header was read with, and *)
(* a length that has outgrown it gets the octets it needs all the same.     *)
EncodeOld(len, llen) == IF llen > 0 THEN ToOctets(len, llen) ELSE <<>>

(* What _parse_len returns: the length, the size of the length field, and  *)
(* whether another chunk follows.                                          *)
LengthField(len, size, partial) == [len |-> len, size |-> size, partial |-> partial]

TwoOctetLength(o) == BigEndian(Clipped(o, 2)) - 49152 + 192
FiveOctetLength(o) == BigEndian(Clipped(Tail(o), 4))
ChunkLength(first) == 2 ^ (first % 32)

(* _parse_len at the front of o. *)
ParseNew(o) ==
    LET first == BigEndian(Clipped(o, 1))
    IN  IF first < 192 THEN LengthField(first, 1, FALSE)
        ELSE IF first < 224 THEN LengthField(TwoOctetLength(o), 2, FALSE)
        ELSE IF first < 255 THEN LengthField(ChunkLength(first), 1, TRUE)
        ELSE LengthField(FiveOctetLength(o), 5, FALSE)

(* length_bin, old format, which has a length if llen is not 0. *)
ParseOld(o, llen) == LengthField(BigEndian(Clipped(o, llen)), llen, FALSE)

-----------------------------------------------------------------------------
(* The first octet of a packet. *)
LenType(llen) == CASE llen = 1 -> 0 [] llen = 2 -> 1 [] llen = 4 -> 2 [] llen = 0 -> 3

FirstOctet(h) ==
    IF h.fmt = "new" THEN 192 + h.tag ELSE 128 + 4 * h.tag + LenType(h.llen)

ParseFirst(first) ==
    IF (first \div 64) % 2 = 0
    THEN [fmt |-> "old", tag |-> (first \div 4) % 16, llen |-> <<1, 2, 4, 0>>[(first % 4) + 1]]
    ELSE [fmt |-> "new", tag |-> first % 64, llen |-> 1]

HeaderOctets(h) ==
    <<FirstOctet(h)>> \o IF h.fmt = "new" THEN EncodeNew(h.len) ELSE EncodeOld(h.len, h.llen)

HeaderLen(h) == 1 + IF h.fmt = "new" THEN NewLlen(h.len) ELSE h.llen
=============================================================================
