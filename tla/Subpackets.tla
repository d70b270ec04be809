----------------------------- MODULE Subpackets -----------------------------
(***************************************************************************)
(* Signature and attribute subpackets, the two areas of a signature, and   *)
(* the body of a version 4 signature (src/pgpy/packet/subpackets,          *)
(* SubPackets in src/pgpy/packet/fields.py, SignatureV4 in packets.py).    *)
(***************************************************************************)
EXTENDS Fields

-----------------------------------------------------------------------------
(* The format of each class. *)
Opaque                == <<Rest(1)>>
URI                   == <<Latin1(1)>>
FlagList(S)           == <<Field("list", 1, S)>>
ByteFlag(S)           == <<Field("flags", 1, S)>>
Boolean               == <<Field("unset", 1, {})>>      \* sets self.bool: the flag stays False
CreationTime          == <<Octets(4)>>
SignatureExpirationTime == <<Octets(4)>>
TrustSignature        == <<AnyOctet, AnyOctet>>
RegularExpression     == <<Latin1(1)>>
RevocationKey         == <<Field("bits", 1, RevocationKeyBits), Enum(PubKeyAlgorithm), Octets(20)>>
Issuer                == <<Octets(8)>>
PrimaryUserID         == <<Field("bool", 1, {})>>
SignersUserID         == <<Latin1(1)>>
ReasonForRevocation   == <<Enum(RevocationReason), Latin1(2)>>
AttestedCertifications == <<Rest(1)>>

(* The length of a fingerprint follows from the version in front of it, and *)
(* for a version nobody knows from the header, which counts the type octet  *)
(* and the version octet too.                                               *)
IssuerFingerprint(version) ==
    <<AnyOctet, CASE version = 4 -> Octets(20) [] version = 5 -> Octets(32) [] OTHER -> Rest(1)>>

IntendedRecipient(version) ==
    <<AnyOctet, CASE version = 4 -> Octets(20) [] version = 5 -> Octets(32) [] OTHER -> Rest(1)>>

(* name and value are read as Latin-1 and written as UTF-8 (the value only  *)
(* if flagged as readable); the lengths in front count characters.          *)
NotationData(s) ==
    LET Of(flags, nlen, vlen) ==
          LET name  == Utf8(Take(Drop(s, 8), nlen))
              value == Take(Drop(s, 8 + nlen), vlen)
          IN  [ok   |-> 8 + nlen + vlen >= 8,
               rest |-> Drop(s, 8 + nlen + vlen),
               out  |-> Flat(<<Octet(flags), Zeros(3), IntToBytes(nlen, 2), IntToBytes(vlen, 2),
                               name, IF flags = 0 THEN value ELSE Utf8(value)>>)]
    IN  Of(AnyBit(Take(s, 1), NotationBits),
           BytesToInt(Take(Drop(s, 4), 2)), BytesToInt(Take(Drop(s, 6), 2)))

(* The class registered for a type; Opaque for all others, and for 0x18 the *)
(* first of the two classes that claim it.                                  *)
Format(type, next) ==
    CASE type = 2  -> CreationTime
      [] type \in {3, 9} -> SignatureExpirationTime
      [] type \in {4, 7} -> Boolean
      [] type = 5  -> TrustSignature
      [] type = 6  -> RegularExpression
      [] type = 11 -> FlagList(SymmetricKeyAlgorithm)
      [] type = 12 -> RevocationKey
      [] type = 16 -> Issuer
      [] type = 21 -> FlagList(HashAlgorithm)
      [] type = 22 -> FlagList(CompressionAlgorithm)
      [] type = 23 -> ByteFlag(KeyServerBits)
      [] type \in {24, 26} -> URI
      [] type = 25 -> PrimaryUserID
      [] type = 27 -> ByteFlag(KeyFlagBits)
      [] type = 28 -> SignersUserID
      [] type = 29 -> ReasonForRevocation
      [] type = 30 -> ByteFlag(FeatureBits)
      [] type = 33 -> IssuerFingerprint(next)
      [] type = 35 -> IntendedRecipient(next)
      [] type = 37 -> AttestedCertifications
      [] OTHER -> Opaque

-----------------------------------------------------------------------------
(* A subpacket: [len, type, critical, body]. The length counts the type. *)
WriteSubpacket(sp) ==
    NewLength(sp.len) \o Octet(sp.type + IF sp.critical THEN 128 ELSE 0) \o sp.body

WriteSubpackets(area) == FoldLeft(LAMBDA out, sp : out \o WriteSubpacket(sp), <<>>, area)

SubpacketLen(sp) == NewLlen(sp.len) + sp.len

(* Mutant of UpdateLen: the type octet is not counted. *)
UpdateLenNoType(sp) == [sp EXCEPT !.len = Size(sp.body)]

(* SubPacket.update_hlen. *)
UpdateLen(sp) == [sp EXCEPT !.len = Size(sp.body) + 1]

(* A subpacket made by addnew. *)
NewSubpacket(type, body) ==
    UpdateLen([len |-> 1, type |-> type, critical |-> FALSE, body |-> body])

(* Mutant of ReadSubpacketHeader: the critical bit is dropped. *)
ReadSubpacketHeaderPlain(s) ==
    LET Of(l) == [len |-> l.len, type |-> BytesToInt(Take(l.rest, 1)) % 128, critical |-> FALSE,
                  rest |-> Drop(l.rest, 1)]
    IN  Of(ReadNewLength(s))

ReadSubpacketHeader(s) ==
    LET Of(l) ==
          LET t == BytesToInt(Take(l.rest, 1))
          IN  [len |-> l.len, type |-> IF t < 0 THEN t ELSE t % 128, critical |-> t >= 128,
               rest |-> Drop(l.rest, 1)]
    IN  Of(ReadNewLength(s))

(* __hashbytearray__ and __unhashbytearray__: the length written in front   *)
(* of an area is the sum of what the subpackets say of themselves.          *)
WriteArea(area) ==
    IntToBytes(FoldLeft(LAMBDA sum, sp : sum + SubpacketLen(sp), 0, area), 2)
      \o WriteSubpackets(area)

WriteSig(sig) == Flat(<<sig.head, WriteArea(sig.hashed), WriteArea(sig.unhashed), sig.tail>>)

(* The signature numbers: OpaqueSignature takes the rest of the stream and  *)
(* leaves it there.                                                         *)
SignatureFormat(alg) ==
    CASE alg \in {1, 2, 3} -> <<Mpi>>
      [] alg \in {17, 19, 22} -> <<Mpi, Mpi>>
      [] OTHER -> <<>>

ReadSignature(st, alg) ==
    IF SignatureFormat(alg) # <<>> THEN ReadFields(st, SignatureFormat(alg))
    ELSE [st EXCEPT !.out = Cat(@, st.rest)]

RECURSIVE ReadSubpacket(_), ReadSubpackets(_, _, _), ReadArea(_), ReadHashed(_), ReadUnhashed(_),
          ReadSig(_), Embedded(_)

(* EmbeddedSignature: a whole signature, without the header of a packet. *)
Embedded(s) ==
    LET Of(r) == [ok |-> r.ok, rest |-> r.rest, out |-> WriteSig(r)] IN Of(ReadSig(s))

(* What a subpacket with header h is, when st is its body: [ok, rest, sp]. *)
SubpacketOf(h, st) ==
    [ok   |-> st.ok /\ h.len >= 0 /\ h.type >= 0,
     rest |-> st.rest,
     sp   |-> [len |-> h.len, type |-> h.type, critical |-> h.critical, body |-> st.out]]

ReadSubpacket(s) ==
    LET Of(h) ==
          SubpacketOf(h, CASE h.type = 20 -> NotationData(h.rest)
                           [] h.type = 32 -> Embedded(h.rest)
                           [] OTHER -> ReadFields(Reading(h.rest, h.len),
                                                  Format(h.type, BytesToInt(Take(h.rest, 1)))))
    IN  Of(ReadSubpacketHeader(s))

(* One of the loops of SubPackets.parse: subpackets are read until left     *)
(* octets are used up.                                                      *)
ReadSubpackets(s, left, area) ==
    LET Of(r) ==
          IF s = <<>> \/ ~r.ok THEN [ok |-> FALSE, rest |-> s, area |-> area]
          ELSE ReadSubpackets(r.rest, left - (Size(s) - Size(r.rest)), Append(area, r.sp))
    IN  IF left <= 0 THEN [ok |-> TRUE, rest |-> s, area |-> area] ELSE Of(ReadSubpacket(s))

(* The number of octets, and subpackets that take as many. *)
ReadArea(s) ==
    LET Of(n) ==
          IF n < 0 THEN [ok |-> FALSE, rest |-> s, area |-> <<>>]
          ELSE ReadSubpackets(Drop(s, 2), n, <<>>)
    IN  Of(BytesToInt(Take(s, 2)))

(* SignatureV4.parse from the version octet on: the head, the two areas,    *)
(* hash2 and the numbers, one after the other.                              *)
ReadHashed(sig) ==
    LET Of(a) == [sig EXCEPT !.ok = @ /\ a.ok, !.rest = a.rest, !.hashed = a.area]
    IN  Of(ReadArea(sig.rest))

ReadUnhashed(sig) ==
    LET Of(a) == [sig EXCEPT !.ok = @ /\ a.ok, !.rest = a.rest, !.unhashed = a.area]
    IN  Of(ReadArea(sig.rest))

ReadTail(sig, alg) ==
    LET Of(st) == [sig EXCEPT !.ok = @ /\ st.ok, !.rest = st.rest, !.tail = st.out]
    IN  Of(ReadSignature(ReadFields(Reading(sig.rest, 0), <<Octets(2)>>), alg))

ReadSig(s) ==
    LET Of(head) ==
          ReadTail(ReadUnhashed(ReadHashed(
                     [ok |-> head.ok, rest |-> head.rest, head |-> head.out,
                      hashed |-> <<>>, unhashed |-> <<>>, tail |-> <<>>])),
                   BytesToInt(Take(Drop(s, 2), 1)))
    IN  Of(ReadFields(Reading(s, 0),
                      <<AnyOctet, Enum(SignatureType), Enum(PubKeyAlgorithm), AnyOctet>>))

-----------------------------------------------------------------------------
(* The image attribute: of its header of 16 octets the encoding is kept,    *)
(* and for another version than 1 no header is written.                     *)
Image(s, len) ==
    LET version  == BytesToInt(Take(Drop(s, 2), 1))
        encoding == Take(Drop(s, 3), 1)
    IN  (IF version # 1 THEN <<>>
         ELSE Octet(16) \o Octet(0) \o Octet(1) \o encoding \o Zeros(12))
          \o Take(Drop(s, 16), len - 17)

(* One subpacket of a user attribute packet. *)
ReadAttribute(s) ==
    LET Of(h) ==
          SubpacketOf(h, IF h.type = 1
                         THEN [ok |-> Size(h.rest) >= 16, rest |-> Drop(h.rest, h.len - 1),
                               out |-> Image(h.rest, h.len)]
                         ELSE ReadFields(Reading(h.rest, h.len), Opaque))
    IN  Of(ReadSubpacketHeader(s))

RECURSIVE ReadAttributes(_, _, _)
(* UserAttribute.parse: subpackets are read until left octets are used up. *)
ReadAttributes(s, left, area) ==
    LET Of(r) ==
          IF s = <<>> \/ ~r.ok THEN [ok |-> FALSE, rest |-> s, area |-> area]
          ELSE ReadAttributes(r.rest, left - (Size(s) - Size(r.rest)), Append(area, r.sp))
    IN  IF left <= 0 THEN [ok |-> TRUE, rest |-> s, area |-> area] ELSE Of(ReadAttribute(s))
=============================================================================
