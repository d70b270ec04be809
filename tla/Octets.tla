------------------------------- MODULE Octets -------------------------------
(***************************************************************************)
(* The octet strings that PGPy reads and writes, and the lengths read from *)
(* them (Header.length in src/pgpy/types.py).                              *)
(*                                                                         *)
(* An octet string is a sequence of runs <<name, first, n>>.  An octet the *)
(* code looks at is a run of its own, <<"#", value, 1>>.  Any other run is *)
(* the n octets, from number first on, of some datum of that name: octets  *)
(* are counted one by one, though nobody looks into them.                  *)
(***************************************************************************)
EXTENDS Headers, SequencesExt

Data(name, n) == IF n = 0 THEN <<>> ELSE << <<name, 0, n>> >>

Octet(o) == << <<"#", o, 1>> >>

RECURSIVE Size(_), TakeFirst(_, _), DropFirst(_, _), Flat(_)

(* How many octets s has. *)
Size(s) == IF s = <<>> THEN 0 ELSE Head(s)[3] + Size(Tail(s))

(* Two adjacent pieces of one datum are one run again. *)
Continues(r1, r2) == r1[1] = r2[1] /\ r1[1] # "#" /\ r1[2] + r1[3] = r2[2]

Cat(s, t) ==
    IF s # <<>> /\ t # <<>> /\ Continues(Last(s), Head(t))
    THEN Front(s) \o << <<Last(s)[1], Last(s)[2], Last(s)[3] + Head(t)[3]>> >> \o Tail(t)
    ELSE s \o t

Flat(parts) == IF parts = <<>> THEN <<>> ELSE Cat(Head(parts), Flat(Tail(parts)))

(* Python's s[:n] and s[n:].  A negative n counts from the end. *)
Bound(s, n) == IF n >= 0 THEN n ELSE IF Size(s) + n > 0 THEN Size(s) + n ELSE 0

TakeFirst(s, n) ==
    IF s = <<>> \/ n = 0 THEN <<>>
    ELSE IF Head(s)[3] <= n THEN <<Head(s)>> \o TakeFirst(Tail(s), n - Head(s)[3])
    ELSE << <<Head(s)[1], Head(s)[2], n>> >>

DropFirst(s, n) ==
    IF s = <<>> \/ n = 0 THEN s
    ELSE IF Head(s)[3] <= n THEN DropFirst(Tail(s), n - Head(s)[3])
    ELSE << <<Head(s)[1], Head(s)[2] + n, Head(s)[3] - n>> >> \o Tail(s)

Take(s, n) == TakeFirst(s, Bound(s, n))
Drop(s, n) == DropFirst(s, Bound(s, n))

-----------------------------------------------------------------------------
(* Octets the code looks at, and their values; any other datum is Unknown. *)
Known(o) == [i \in DOMAIN o |-> <<"#", o[i], 1>>]
Values(s) == [i \in DOMAIN s |-> IF s[i][1] = "#" THEN s[i][2] ELSE Unknown]

BytesToInt(s) == BigEndian(Values(s))
IntToBytes(i, min) == Known(ToOctets(i, min))
NewLength(len) == Known(EncodeNew(len))
OldLength(len, llen) == Known(EncodeOld(len, llen))
ParseLength(s) == ParseNew(Values(Take(s, 5)))

RECURSIVE Gather(_, _)
(* The lengths between the chunks are cut out of the stream, so that the   *)
(* chunks become one body of total octets.                                 *)
Gather(s, total) ==
    LET Chunk(p) ==
          LET rest == Cat(Take(s, total), Drop(Drop(s, total), p.size))
          IN  IF p.partial THEN Gather(rest, total + p.len)
              ELSE [len |-> total + p.len, rest |-> rest]
    IN  Chunk(ParseLength(Drop(s, total)))

(* Mutant of ReadNewLength: only the first chunk counts. *)
ReadNewLengthOne(s) ==
    LET First(p) == [len |-> p.len, rest |-> Drop(s, p.size)] IN First(ParseLength(s))

(* length_bin, new format: the length, and the stream after it. *)
ReadNewLength(s) == Gather(s, 0)

(* length_bin, old format. *)
ReadOldLength(s, llen) ==
    LET Of(p) == [len |-> p.len, rest |-> Drop(s, p.size)] IN Of(ParseOld(Values(Take(s, 4)), llen))
=============================================================================
