------------------------------- MODULE Fields -------------------------------
(***************************************************************************)
(* Reading the fields that packets, subpackets and keys are made of: the   *)
(* parse methods and setters of src/pgpy/packet.                           *)
(*                                                                         *)
(* What an object holds is represented by the octets it will be written    *)
(* as: reading a field turns the octets of the stream into those octets.   *)
(* For most fields they are the same; the definitions below say where they *)
(* are not.  A format is the sequence of fields of a class, a field a      *)
(* record of its kind, a number and a set.                                 *)
(*                                                                         *)
(* Text comes as runs of three names: "text" (ASCII), "utf" (UTF-8 of      *)
(* characters that take two octets), "latin" (octets that are not UTF-8).  *)
(***************************************************************************)
EXTENDS Octets, FiniteSets

Field(kind, n, of) == [kind |-> kind, n |-> n, of |-> of]

Octets(n)  == Field("octets", n, {})     \* n octets, whatever they are
Rest(k)    == Field("rest", k, {})       \* all but k octets of the header's length
Latin1(k)  == Field("latin1", k, {})     \* the same as text, read as Latin-1
Enum(S)    == Field("enum", 1, S)        \* one octet, an exception unless in S
Mpi        == Field("mpi", 0, {})        \* a number with its length in bits
AnyOctet   == Octets(1)

(* An operator defined by LET and applied once, as Of below, has for its     *)
(* argument what several conjuncts or fields of its body need.              *)

(* Reading goes on while ok; len is the length the header states. *)
Reading(rest, len) == [ok |-> TRUE, rest |-> rest, len |-> len, out |-> <<>>]

Utf8(s) == [i \in 1..Len(s) |->
               IF s[i][1] \in {"utf", "latin"} THEN <<"utf", 0, 2 * s[i][3]>> ELSE s[i]]

(* FlagEnumMeta.__and__, summed up: the members that are bits of value. *)
FlagsOf(value, members) ==
    LET bit == [k \in 0..8 |-> IF 2 ^ k \in members /\ (value \div 2 ^ k) % 2 = 1 THEN 2 ^ k ELSE 0]
    IN  bit[0] + bit[1] + bit[2] + bit[3] + bit[4] + bit[5] + bit[6] + bit[7] + bit[8]

(* The members that are bits of any octet of s. *)
AnyBit(s, members) ==
    FlagsOf(511, {f \in members : \E i \in 1..Len(s) : FlagsOf(s[i][2], {f}) = f})

Zeros(n) == [i \in 1..(IF n > 0 THEN n ELSE 0) |-> <<"#", 0, 1>>]

(* An MPI read from octets with zeros in front is written without them. *)
Stripped(s) == SelectInSeq(s, LAMBDA run : run # <<"#", 0, 1>>)

BitLength(s) ==
    8 * (Size(s) - 1)
      + IF s[1][1] # "#" THEN 8
        ELSE CHOOSE b \in 1..8 : 2 ^ (b - 1) <= s[1][2] /\ s[1][2] < 2 ^ b

ToMpiBytes(s) ==
    IF Stripped(s) = 0 THEN Zeros(3)     \* int_to_bytes gives 0 an octet all the same
    ELSE LET v == SubSeq(s, Stripped(s), Len(s)) IN IntToBytes(BitLength(v), 2) \o v

(* How many octets of the stream a field takes. *)
Width(f, st) ==
    CASE f.kind \in {"rest", "latin1", "list", "flags"} -> st.len - f.n
      [] f.kind = "mpi" -> 2 + (BytesToInt(Take(st.rest, 2)) + 7) \div 8
      [] OTHER -> f.n

(* Mutant of Accepted: any value is a member of the enumeration. *)
AcceptedAny(f, s) == f.kind # "mpi" \/ BytesToInt(Take(s, 2)) >= 0

(* Whether the setter of the field takes the octets s without an exception. *)
Accepted(f, s) ==
    CASE f.kind = "enum" -> BytesToInt(s) \in f.of
      [] f.kind = "list" -> \A i \in 1..Len(s) : s[i][1] = "#" /\ s[i][2] \in f.of
      [] f.kind = "mpi"  -> BytesToInt(Take(s, 2)) >= 0
      [] OTHER -> TRUE

(* What is written for the octets s. *)
Stored(f, s) ==
    CASE f.kind = "latin1" -> Utf8(s)
      [] f.kind = "mpi"    -> ToMpiBytes(Drop(s, 2))
      [] f.kind \in {"bits", "flags"} -> Octet(AnyBit(s, f.of)) \o Zeros(Size(s) - 1)
      [] f.kind = "bool"   -> Octet(IF BytesToInt(s) = 0 THEN 0 ELSE 1)
      [] f.kind = "unset"  -> Octet(0)
      [] OTHER -> s

ReadField(st, f) ==
    LET Of(n, s) ==
          IF ~st.ok \/ ~Accepted(f, s) THEN [st EXCEPT !.ok = FALSE]
          ELSE [st EXCEPT !.rest = Drop(st.rest, n), !.out = Cat(@, Stored(f, s))]
    IN  Of(Width(f, st), Take(st.rest, Width(f, st)))

RECURSIVE ReadFields(_, _)
ReadFields(st, format) ==
    IF format = <<>> THEN st ELSE ReadFields(ReadField(st, Head(format)), Tail(format))

-----------------------------------------------------------------------------
(* The enumerations that setters check against (src/pgpy/constants.py). *)
PubKeyAlgorithm   == {0, 1, 2, 3, 16, 17, 18, 19, 20, 21, 22}
HashAlgorithm     == 0..11
SymmetricKeyAlgorithm == {0, 1, 2, 3, 4, 7, 8, 9, 10, 11, 12, 13}
CompressionAlgorithm  == 0..3
SignatureType     == {0, 1, 2, 16, 17, 18, 19, 22, 24, 25, 31, 32, 40, 48, 64, 80}
RevocationReason  == {0, 1, 2, 3, 32}
KeyFlagBits       == {1, 2, 4, 8, 16, 32, 128}
FeatureBits       == {1}
KeyServerBits     == {128}
RevocationKeyBits == {64, 128}
NotationBits      == {128}
=============================================================================
