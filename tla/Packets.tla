------------------------------- MODULE Packets -------------------------------
(***************************************************************************)
(* Packets: header and body, read from a stream, made by PGPy, written,    *)
(* copied, and for keys protected and halved (src/pgpy/packet/types.py and *)
(* packets.py).                                                            *)
(*                                                                         *)
(* A packet holds its header; its head: for keys the public part, for      *)
(* signatures what is in front of the subpackets, for most others all; the *)
(* two areas of subpackets; and its tail: a key's secret part, a           *)
(* signature's hash2 and numbers, a session key's encrypted part.          *)
(***************************************************************************)
EXTENDS Subpackets, KeyMaterial

CONSTANTS Received,     \* packets as others write them: [octets, forms]
          Made,         \* packets of PGPy's own making: [pkt, forms]
          Follow,       \* the octets of the packets that follow in the stream
          MaxSteps      \* bound on the operations on one packet

VARIABLES pkt,          \* the packet in memory
          rest,         \* what reading it left of the stream
          sent,         \* the octets it was read from
          forms,        \* what is uncommon about it (for the properties)
          op,           \* the last operation
          steps
vars == <<pkt, rest, sent, forms, op, steps>>

-----------------------------------------------------------------------------
(* Headers *)
NewHeader(tag) == [fmt |-> "new", tag |-> tag, llen |-> 1, len |-> 1]

WriteHeader(h) == Known(HeaderOctets(h))

ReadHeader(s) ==
    LET Of(h, l) == [rest |-> l.rest,
                     hdr  |-> [fmt |-> h.fmt, tag |-> h.tag, llen |-> h.llen, len |-> l.len]]
        After(h, r) ==
          CASE h.fmt = "new" -> Of(h, ReadNewLength(r))
            [] h.fmt = "old" /\ h.llen > 0 -> Of(h, ReadOldLength(r, h.llen))
            [] OTHER -> Of(h, [len |-> Size(r), rest |-> r])
    IN  After(ParseFirst(OctetAt(s, 0)), Drop(s, 1))

(* MetaDispatchable.__call__: the class registered for a tag and a version, *)
(* Opaque for all others.                                                   *)
ClassOf(tag, version) ==
    CASE tag = 1 /\ version = 3       -> "PKESessionKeyV3"
      [] tag = 2 /\ version = 4       -> "SignatureV4"
      [] tag = 3 /\ version = 4       -> "SKESessionKeyV4"
      [] tag = 4 /\ version = 3       -> "OnePassSignatureV3"
      [] tag \in {5, 7} /\ version = 4  -> "PrivKeyV4"
      [] tag \in {6, 14} /\ version = 4 -> "PubKeyV4"
      [] tag = 8  -> "CompressedData"
      [] tag = 9  -> "SKEData"
      [] tag = 10 -> "Marker"
      [] tag = 11 -> "LiteralData"
      [] tag = 12 -> "Trust"
      [] tag = 13 -> "UserID"
      [] tag = 17 -> "UserAttribute"
      [] tag = 18 /\ version = 1 -> "IntegrityProtectedSKEDataV1"
      [] tag = 19 -> "MDC"
      [] OTHER    -> "Opaque"

Class(p) == ClassOf(p.hdr.tag, OctetAt(p.head, 0))

Packet(hdr, head, hashed, unhashed, tail) ==
    [hdr |-> hdr, head |-> head, hashed |-> hashed, unhashed |-> unhashed, tail |-> tail]

NoPacket == Packet(NewHeader(0), <<>>, <<>>, <<>>, <<>>)

-----------------------------------------------------------------------------
(* Writing *)
Body(p) ==
    CASE Class(p) = "SignatureV4"   -> WriteSig(p)
      [] Class(p) = "UserAttribute" -> WriteSubpackets(p.unhashed)
      [] OTHER                      -> Cat(p.head, p.tail)

Write(p) == WriteHeader(p.hdr) \o Body(p)

(* Writing raises UnicodeEncodeError for a file name that is not Latin-1.   *)
Writable(p) ==
    Class(p) = "LiteralData" => \A i \in DOMAIN p.head : p.head[i][1] # "wide"

(* update_hlen, of the subpackets first. *)
UpdateHlen(p) ==
    LET Of(q) == [q EXCEPT !.hdr.len = Size(Write(q)) - HeaderLen(q.hdr)]
    IN  Of([p EXCEPT !.hashed   = [i \in DOMAIN @ |-> UpdateLen(@[i])],
                     !.unhashed = [i \in DOMAIN @ |-> UpdateLen(@[i])]])

-----------------------------------------------------------------------------
(* Reading, class by class: [ok, rest, head, hashed, unhashed, tail]. *)
Parts(ok, r, head, tail) ==
    [ok |-> ok, rest |-> r, head |-> head, hashed |-> <<>>, unhashed |-> <<>>, tail |-> tail]

ReadPlain(s, len, format) ==
    LET Of(st) == Parts(st.ok, st.rest, st.out, <<>>)
    IN  Of(ReadFields(Reading(s, len), format))

(* For an algorithm without a class of its own the octets after it are     *)
(* dropped, all but the last eight; zeros are written instead.             *)
ReadPKESessionKey(s, len) ==
    LET With(head, ct) == Parts(head.ok /\ ct.ok, ct.rest, head.out, ct.out)
        Of(head, format) ==
          IF format = <<>> THEN Parts(head.ok, Drop(head.rest, len - 18), head.out, Zeros(len - 10))
          ELSE With(head, ReadKeyFields(Reading(head.rest, len), format))
    IN  Of(ReadFields(Reading(s, len), <<AnyOctet, Octets(8), Enum(PubKeyAlgorithm)>>),
           CipherText(OctetAt(s, 9)))

(* A usage octet is put in front, so that the specifier parses as a key's. *)
ReadSKESessionKey(s, len) ==
    LET Of(s2k) ==
          LET end == len - Size(s2k.out)
          IN  Parts(s2k.ok, Drop(s2k.rest, end), Take(s, 1),
                    Cat(Drop(s2k.out, 1), Take(s2k.rest, end)))
    IN  Of(ReadS2K(Octet(255) \o Drop(s, 1), FALSE))

OnePassSignature ==
    <<AnyOctet, Enum(SignatureType), AnyOctet, Enum(PubKeyAlgorithm), Octets(8)>>

ReadOnePassSignature(s) ==
    LET Of(st) == Parts(st.ok, Drop(st.rest, 1),
                        Cat(st.out, Octet(IF OctetAt(st.rest, 0) = 1 THEN 1 ELSE 0)), <<>>)
    IN  Of(ReadFields(Reading(s, 0), OnePassSignature))

(* Mutant of KeyBlob: the key material has no end. *)
KeyBlobAll(s, len) == s

(* The key material is bounded to the length of the packet. *)
KeyBlob(s, len) == Take(s, len - 6)

(* The material of an algorithm that has a class: the public and the secret *)
(* part.                                                                    *)
ReadMaterial(alg, km, private) ==
    LET Private(pub, sec) == [ok |-> pub.ok /\ sec.ok, pub |-> pub.out, sec |-> sec.out]
        Of(pub) == IF private THEN Private(pub, ReadPriv(alg, pub.rest))
                   ELSE [ok |-> pub.ok, pub |-> pub.out, sec |-> <<>>]
    IN  Of(ReadKeyFields(Reading(km, 0), PubFormat(alg, km)))

(* An opaque private key also writes its s2k usage. *)
OpaqueMaterial(km, private) ==
    [ok |-> TRUE, pub |-> <<>>, sec |-> Cat(km, IF private THEN Octet(0) ELSE <<>>)]

ReadKey(s, len, private) ==
    LET With(head, km) ==
          Parts(head.ok /\ km.ok, Drop(head.rest, len - 6), Cat(head.out, km.pub), km.sec)
        Of(head, alg) ==
          With(head, IF alg \in KnownAlgorithms
                     THEN ReadMaterial(alg, KeyBlob(head.rest, len), private)
                     ELSE OpaqueMaterial(KeyBlob(head.rest, len), private))
    IN  Of(ReadFields(Reading(s, len), <<AnyOctet, Octets(4), Enum(PubKeyAlgorithm)>>), OctetAt(s, 5))

(* LiteralData: the name is read as UTF-8 and written as Latin-1 after the  *)
(* number of its characters.  A character that is not in Latin-1 ("wide",   *)
(* three octets each in UTF-8) stays in the name and cannot be written.     *)
ReadLiteral(s, len) ==
    LET Latin1Of(name) == [i \in DOMAIN name |->
                             CASE name[i][1] = "utf"  -> <<"latin", 0, name[i][3] \div 2>>
                               [] name[i][1] = "wide" -> <<"wide", 0, name[i][3] \div 3>>
                               [] OTHER -> name[i]]
        Of(name, chars, data, size) ==
          Parts(\A i \in DOMAIN name : name[i][1] # "latin", Drop(data, size),
                Flat(<<Take(s, 1), Octet(Size(chars)), chars, Take(data, size)>>), <<>>)
        Named(fnl) == Of(Take(Drop(s, 2), fnl), Latin1Of(Take(Drop(s, 2), fnl)),
                         Drop(s, 2 + fnl), 4 + len - (6 + fnl))
    IN  Named(OctetAt(s, 1))

TrustLevel == 0..6
TrustFlags == {32, 64, 128, 256}

ReadTrust(s) ==
    LET Of(t) == Parts((t % 16) \in TrustLevel, Drop(s, 2),
                       IntToBytes((t % 16) + FlagsOf(t, TrustFlags), 2), <<>>)
    IN  Of(BytesToInt(Take(s, 2)))

ReadUserAttribute(s, len) ==
    LET Of(r) == [Parts(r.ok, r.rest, <<>>, <<>>) EXCEPT !.unhashed = r.area]
    IN  Of(ReadAttributes(s, len, <<>>))

(* What is compressed is decompressed, and compressed again when written:   *)
(* zlib's own octets, "zlib", take the place of another's, which were fewer *)
(* ("best") or more ("fast").  A stream that lacks its end does not         *)
(* decompress, and what follows its end is ignored.                         *)
StreamEnd == <<"end", 0, 1>>

Recompressed(run) ==
    CASE run[1] = "best" -> <<"zlib", 0, run[3] + 1>>
      [] run[1] = "fast" -> <<"zlib", 0, run[3] - 1>>
      [] OTHER           -> run

Decompresses(s) == OctetAt(s, 0) = 0 \/ (Len(s) > 2 /\ s[3] = StreamEnd)

ReadCompressed(s, len) ==
    LET Of(p) == IF ~Decompresses(p.head) THEN [p EXCEPT !.ok = FALSE]
                 ELSE IF OctetAt(p.head, 0) = 0 THEN p
                 ELSE [p EXCEPT !.head = <<@[1], Recompressed(@[2]), StreamEnd>>]
    IN  Of(ReadPlain(s, len, <<Enum(CompressionAlgorithm), Rest(1)>>))

ReadBody(class, s, len) ==
    CASE class = "PKESessionKeyV3"    -> ReadPKESessionKey(s, len)
      [] class = "SignatureV4"        -> ReadSig(s)
      [] class = "SKESessionKeyV4"    -> ReadSKESessionKey(s, len)
      [] class = "OnePassSignatureV3" -> ReadOnePassSignature(s)
      [] class \in {"PrivKeyV4", "PubKeyV4"} -> ReadKey(s, len, class = "PrivKeyV4")
      [] class = "CompressedData"     -> ReadCompressed(s, len)
      [] class = "LiteralData"        -> ReadLiteral(s, len)
      [] class = "Trust"              -> ReadTrust(s)
      [] class = "UserAttribute"      -> ReadUserAttribute(s, len)
      [] class = "MDC"                -> ReadPlain(s, len, <<Octets(20)>>)
      [] OTHER                        -> ReadPlain(s, len, <<Rest(0)>>)

Read(s) ==
    LET With(hdr, r) == [ok |-> r.ok, rest |-> r.rest,
                         pkt |-> Packet(hdr, r.head, r.hashed, r.unhashed, r.tail)]
        Of(h) == With(h.hdr, ReadBody(ClassOf(h.hdr.tag, OctetAt(h.rest, 0)), h.rest, h.hdr.len))
    IN  Of(ReadHeader(s))

-----------------------------------------------------------------------------
(* Keys *)
Algorithm(p) == OctetAt(p.head, 5)
IsPrivate(p) == Class(p) = "PrivKeyV4"
IsKey(p)     == Class(p) \in {"PrivKeyV4", "PubKeyV4"}

(* Mutant of PubLen: ECDHPriv has no publen of its own. *)
PubLenOfPoint(p) ==
    IF Algorithm(p) \notin KnownAlgorithms THEN 0
    ELSE Size(p.head) - 6 - IF Algorithm(p) = 18 /\ IsPrivate(p) THEN 4 ELSE 0

(* publen: an opaque key has no public fields. *)
PubLen(p) == IF Algorithm(p) \in KnownAlgorithms THEN Size(p.head) - 6 ELSE 0

(* What the fingerprint is a hash of, after the octet 0x99. *)
Fingerprint(p) ==
    IntToBytes(6 + PubLen(p), 2) \o Take(p.head, 6 + PubLen(p))

(* pubkey(): the public fields and a header of its own. *)
PublicHalf(p) ==
    UpdateHlen(Packet(NewHeader(IF p.hdr.tag = 7 THEN 14 ELSE 6), p.head, <<>>, <<>>, <<>>))

-----------------------------------------------------------------------------
(* Copying.  The numbers of a class are copied by name, and what has no     *)
(* name among them is not: the data of opaque signatures and keys, and the  *)
(* wrapped key of an ECDH session key.  The copy of a signature has areas   *)
(* of its own with the same subpacket objects in them (SubPackets.__copy__  *)
(* is shallow), which no operation here changes but update_hlen.            *)
PointOf(ct) == ReadKeyField(Reading(ct, 0), Point({4, 64})).out

CopiedTail(p) ==
    CASE Class(p) = "PKESessionKeyV3" /\ OctetAt(p.head, 9) = 18 -> PointOf(p.tail) \o Octet(0)
      [] Class(p) = "SignatureV4" /\ SignatureFormat(OctetAt(p.head, 2)) = <<>> -> Take(p.tail, 2)
      [] IsKey(p) /\ Algorithm(p) \notin KnownAlgorithms ->
            IF IsPrivate(p) THEN Octet(0) ELSE <<>>
      [] OTHER -> p.tail

(* A user ID that is not UTF-8 forgets that it was read as Latin-1. *)
CopiedHead(p) ==
    IF Class(p) = "UserID" /\ \E i \in DOMAIN p.head : p.head[i][1] = "latin"
    THEN Utf8(p.head) ELSE p.head

(* Encrypted data get a new header, and nobody calls update_hlen. *)
CopiedHeader(p) ==
    IF Class(p) \in {"SKEData", "IntegrityProtectedSKEDataV1"} THEN NewHeader(p.hdr.tag) ELSE p.hdr

(* Mutant of Copied: the unhashed area is left behind. *)
CopiedHashed(p) ==
    Packet(CopiedHeader(p), CopiedHead(p), p.hashed, <<>>, CopiedTail(p))

Copied(p) == Packet(CopiedHeader(p), CopiedHead(p), p.hashed, p.unhashed, CopiedTail(p))

-----------------------------------------------------------------------------
Init ==
    /\ pkt = NoPacket
    /\ rest = <<>>
    /\ sent = <<>>
    /\ forms = {}
    /\ op = "start"
    /\ steps = 0

Step(name) == op' = name /\ steps < MaxSteps /\ steps' = steps + 1

(* Packet(data): a packet of another program is read, or reading fails: an  *)
(* exception, or, when a field was given octets of another, whatever their  *)
(* values make of them (op is "fail" for both; what is lost when PGPy reads *)
(* its own output is "lose").                                               *)
Receive ==
    /\ op = "start"
    /\ \E in \in Received : \E r \in {Read(in.octets \o Follow)} :
          /\ sent' = in.octets
          /\ forms' = in.forms
          /\ IF r.ok THEN pkt' = r.pkt /\ rest' = r.rest /\ Step("receive")
             ELSE Step("fail") /\ UNCHANGED <<pkt, rest>>

(* A packet of PGPy's own: its fields set, then update_hlen, which writes   *)
(* it.                                                                      *)
Make ==
    /\ op = "start"
    /\ \E m \in Made :
          /\ forms' = m.forms
          /\ IF Writable(m.pkt) THEN pkt' = UpdateHlen(m.pkt) /\ Step("make")
             ELSE pkt' = m.pkt /\ Step("unwritten")
    /\ UNCHANGED <<rest, sent>>

Live == op \notin {"start", "fail", "lose"}

(* Written, with the next packets after it, and read again. *)
SaveAndReload ==
    /\ Live /\ Writable(pkt)
    /\ \E r \in {Read(Write(pkt) \o Follow)} :
          IF r.ok THEN pkt' = r.pkt /\ rest' = r.rest /\ Step("reload")
          ELSE Step("lose") /\ pkt' = NoPacket /\ rest' = <<>>
    /\ UNCHANGED <<sent, forms>>

(* Writing raises, and nothing is saved. *)
SaveFails ==
    /\ Live /\ ~Writable(pkt)
    /\ Step("unwritten")
    /\ UNCHANGED <<pkt, rest, sent, forms>>

Copy ==
    /\ Live
    /\ pkt' = Copied(pkt)
    /\ Step("copy")
    /\ UNCHANGED <<rest, sent, forms>>

(* Of a private key in the clear. *)
Protect ==
    /\ Live /\ IsPrivate(pkt) /\ Algorithm(pkt) \in KnownAlgorithms /\ OctetAt(pkt.tail, 0) = 0
    /\ \E encalg \in {4, 9} :
          pkt' = UpdateHlen([pkt EXCEPT !.tail = EncryptKeyblob(pkt.tail, encalg)])
    /\ Step("protect")
    /\ UNCHANGED <<rest, sent, forms>>

Pubkey ==
    /\ Live /\ IsPrivate(pkt)
    /\ pkt' = PublicHalf(pkt)
    /\ Step("pubkey")
    /\ UNCHANGED <<rest, sent, forms>>

Next == Receive \/ Make \/ SaveAndReload \/ SaveFails \/ Copy \/ Protect \/ Pubkey
Spec == Init /\ [][Next]_vars

-----------------------------------------------------------------------------
(* What each property excepts is named by the form of the input, and the   *)
(* properties say "exactly these": a form that turns out to be harmless, or *)
(* another that is not, violates them.                                      *)
Has(S) == forms \cap S # {}

Failing ==
    {"wide boolean", "unknown algorithm", "unknown reason", "unknown key version",
     "wrong point format", "odd point", "unknown curve", "file name not UTF-8", "unknown trust",
     "truncated stream"}

Altered ==
    {"set boolean", "two flag octets", "no flag octet", "unknown flag", "odd boolean",
     "text not ASCII", "file name not ASCII", "long length", "long attribute length",
     "partial lengths", "indeterminate length", "zero", "leading zeros", "checksum cut off",
     "no serial number", "long serial number", "opaque secret", "opaque signature",
     "no ciphertext class", "recompressed longer", "recompressed shorter",
     "file name not Latin-1", "unknown image version"}

Overread == {"opaque signature", "no ciphertext class", "indeterminate length"}

Misread == {"set boolean", "text not ASCII", "file name not UTF-8"}

Uncopied ==
    {"ECDH session key", "opaque signature", "opaque key", "encrypted data", "user ID not UTF-8"}

(* A length that has outgrown the field of an old-format header. *)
Outgrown(p) == p.hdr.fmt = "old" /\ p.hdr.llen \in {1, 2} /\ p.hdr.len >= 256 ^ p.hdr.llen

(* Reading fails for exactly these forms: everything else another program   *)
(* writes is read, if only as an opaque packet or subpacket.                *)
ReadsAllButNamed ==
    /\ op = "receive" => ~Has(Failing)
    /\ op = "fail" => Has(Failing)

(* What was read is written back octet by octet, which signatures over keys *)
(* and over other signatures depend on, but for the forms that PGPy does    *)
(* not hold as they were (Boolean.bflag, FlagEnum, text recoded, lengths).  *)
RewrittenAsReceived ==
    /\ op = "receive" => (Write(pkt) = sent <=> ~Has(Altered))
    /\ op = "unwritten" => Has({"file name not Latin-1"})

(* Each parse method takes its own packet from the stream and nothing else, *)
(* so that the packets after it are found.                                  *)
NextPacketFound ==
    op = "receive" => (rest = Follow <=> ~Has(Overread))

(* A packet that PGPy made, protected or halved, and then saved is read back *)
(* as it was, the next packet after it: the lengths update_hlen computes    *)
(* fit what is written.                                                     *)
FreshIsReadBack ==
    [][(op \in {"make", "protect", "pubkey"} /\ op' \in {"reload", "lose"})
         => (pkt' = pkt /\ rest' = Follow <=> ~(Has(Misread) \/ Outgrown(pkt)))]_vars

Unsettled ==
    {"text not ASCII", "checksum cut off", "indeterminate length", "opaque signature",
     "long attribute length", "unknown image version", "recompressed longer",
     "recompressed shorter", "no ciphertext class", "opaque secret", "zero",
     "no serial number", "no flag octet", "file name not ASCII"}

(* What was received can be saved and read back; once it has been, it stays *)
(* as it is when saved again, and so do the packets after it: nothing is    *)
(* lost, grows, shrinks or shifts from save to save, but for these forms.   *)
SavesSettle ==
    [][(op = "reload" /\ op' = "reload") \/ (op \in {"receive", "reload"} /\ op' = "lose")
         => (pkt' = pkt /\ rest' = Follow <=> ~(Has(Unsettled) \/ Outgrown(pkt)))]_vars

(* No operation on a key in memory or on disk changes its fingerprint: a    *)
(* protected, halved, copied or reloaded key is found under the same name.  *)
FingerprintKept ==
    [][IsKey(pkt) /\ IsKey(pkt') => Fingerprint(pkt') = Fingerprint(pkt)]_vars

(* A copy is written as the original is, except where the copy forgets      *)
(* something (the test of copies compares each original with itself).       *)
CopyWritesTheSame ==
    [][(op \in {"receive", "make"} /\ op' = "copy")
         => (Write(pkt') = Write(pkt) <=> ~Has(Uncopied))]_vars
=============================================================================
