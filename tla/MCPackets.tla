----------------------------- MODULE MCPackets -----------------------------
(***************************************************************************)
(* Packets as other programs write them, and as PGPy makes them.  Each is  *)
(* listed with what is uncommon about it.                                  *)
(***************************************************************************)
EXTENDS Packets

O(bytes) == [i \in DOMAIN bytes |-> <<"#", bytes[i], 1>>]

(* A marker and a user ID of 80 octets. *)
NextPackets == O(<<202, 3>>) \o Data("PGP", 3) \o O(<<205, 80>>) \o Data("user ID", 80)

Number(name, n) == IntToBytes(8 * n, 2) \o Data(name, n)
Curve(name, n)  == Octet(n) \o Data(name, n)
Pt(first, n)    == IntToBytes(8 * n + (IF first = 4 THEN 3 ELSE 7), 2) \o Octet(first) \o Data("xy", n)

-----------------------------------------------------------------------------
(* Framing *)
New(tag, body)  == Octet(192 + tag) \o NewLength(Size(body)) \o body
New5(tag, body) == O(<<192 + tag, 255>>) \o IntToBytes(Size(body), 4) \o body
Old(tag, llen, body) ==
    Octet(128 + 4 * tag + LenType(llen)) \o OldLength(Size(body), llen) \o body
Partial(tag, body) ==      \* two chunks of 16 octets and a rest
    O(<<192 + tag, 228>>) \o Take(body, 16) \o Octet(228) \o Take(Drop(body, 16), 16)
      \o NewLength(Size(body) - 32) \o Drop(body, 32)

Item(octets, fs) == [octets |-> octets, forms |-> fs]

-----------------------------------------------------------------------------
(* Signatures *)
SubOf(type, body, fs) == [octets |-> NewLength(Size(body) + 1) \o Octet(type) \o body, forms |-> fs]

Fpr(version, n) == Octet(version) \o Data("fpr", n)

Sig(hashed, unhashed, alg, numbers) ==
    O(<<4, 16, alg, 8>>) \o IntToBytes(Size(hashed), 2) \o hashed
      \o IntToBytes(Size(unhashed), 2) \o unhashed \o Data("hash2", 2) \o numbers

IssuerSub  == SubOf(16, Data("keyid", 8), {}).octets
CreatedSub == SubOf(2, Data("time", 4), {}).octets
RsaSig(hashed) == Sig(hashed, IssuerSub, 1, Number("m^d", 32))
Backsig == Sig(CreatedSub, <<>>, 22, Number("r", 4) \o Number("s", 4))

Note(flags, name, value, nlen, vlen) ==
    Octet(flags) \o Zeros(3) \o IntToBytes(nlen, 2) \o IntToBytes(vlen, 2) \o name \o value

Common ==
    { SubOf(2, Data("time", 4), {}), SubOf(9, Data("time", 4), {}), SubOf(4, Octet(0), {"local"}),
      SubOf(5, O(<<1, 60>>), {}), SubOf(6, Data("text", 5), {}),
      SubOf(11, O(<<9, 8, 2>>), {}), SubOf(12, O(<<128, 1>>) \o Data("fpr", 20), {}),
      SubOf(16, Data("keyid", 8), {}), SubOf(20, Note(128, Data("text", 1), Data("text", 2), 1, 2), {}),
      SubOf(20, Note(0, Data("text", 1), Data("latin", 2), 1, 2), {}), SubOf(23, Octet(128), {}),
      SubOf(25, Octet(1), {}), SubOf(26, Data("text", 9), {}), SubOf(27, Octet(3), {}),
      SubOf(29, Octet(2) \o Data("text", 4), {}), SubOf(30, Octet(1), {}),
      SubOf(32, Backsig, {}), SubOf(33, Fpr(4, 20), {}), SubOf(33, Fpr(5, 32), {}),
      SubOf(35, Fpr(4, 20), {}), SubOf(37, Data("hash", 32), {}),
      SubOf(100, Data("x", 2), {}), SubOf(228, Data("x", 2), {}),
      SubOf(20, Note(0, Data("text", 1), Data("x", 300), 1, 300), {}) }

Uncommon ==
    { SubOf(4, Octet(1), {"set boolean"}), SubOf(7, Octet(1), {"set boolean"}),
      SubOf(27, O(<<3, 4>>), {"two flag octets"}), SubOf(27, <<>>, {"no flag octet"}),
      SubOf(30, Octet(7), {"unknown flag"}), SubOf(25, Octet(2), {"odd boolean"}),
      SubOf(12, O(<<136, 1>>) \o Data("fpr", 20), {"unknown flag"}),
      SubOf(26, Data("utf", 2), {"text not ASCII"}),
      SubOf(29, Octet(0) \o Data("utf", 2), {"text not ASCII"}),
      SubOf(20, Note(128, Data("text", 1), Data("utf", 4), 1, 4), {"text not ASCII"}),
      [octets |-> O(<<255, 0, 0, 0, 5, 2>>) \o Data("time", 4), forms |-> {"long length"}] }

Failures ==
    { SubOf(4, O(<<1, 0>>), {"wide boolean"}), SubOf(11, O(<<9, 99>>), {"unknown algorithm"}),
      SubOf(29, Octet(99) \o Data("text", 3), {"unknown reason"}),
      SubOf(33, Fpr(6, 32), {"unknown key version"}) }

AnySub == Common \cup Uncommon \cup Failures

Signatures ==
    { Item(New(2, RsaSig(a.octets \o CreatedSub)), a.forms) : a \in AnySub }
    \cup { Item(New(2, RsaSig(a.octets \o b.octets)), a.forms \cup b.forms) :
             a \in Common \cup Uncommon, b \in Uncommon }
    \cup { Item(New(2, Sig(CreatedSub, a.octets, 17, Number("r", 5) \o Number("s", 5))), a.forms) :
             a \in Common }
    \cup { Item(f, {}) : f \in {Old(2, 2, RsaSig(CreatedSub)), Old(2, 1, RsaSig(CreatedSub))} }
    \cup { Item(New5(2, RsaSig(CreatedSub)), {"long length"}),
           Item(Partial(2, RsaSig(CreatedSub)), {"partial lengths"}),
           Item(Old(2, 2, RsaSig(Data("x", 0))), {}),
           Item(New(2, Sig(CreatedSub, <<>>, 20, Data("numbers", 9))), {"opaque signature"}),
           Item(New(2, Sig(CreatedSub, <<>>, 1, O(<<0, 0>>))), {"zero"}),
           Item(New(2, Sig(CreatedSub, <<>>, 1, O(<<0, 24, 0>>) \o Data("m^d", 2))), {"leading zeros"}),
           Item(New(2, Octet(3) \o Data("v3 sig", 20)), {}) }

-----------------------------------------------------------------------------
(* Keys *)
KeyHead(alg) == Octet(4) \o Data("time", 4) \o Octet(alg)
Kdf          == O(<<3, 1, 8, 7>>)

PublicPart ==
    [a \in {1, 16, 17, 18, 19, 22} |->
        CASE a = 1  -> Number("n", 128) \o Number("e", 3)
          [] a = 16 -> Number("p", 64) \o Number("g", 1) \o Number("y", 64)
          [] a = 17 -> Number("p", 64) \o Number("q", 20) \o Number("g", 64) \o Number("y", 64)
          [] a = 18 -> Curve("Curve25519", 10) \o Pt(64, 32) \o Kdf
          [] a = 19 -> Curve("P521", 5) \o Pt(4, 132)
          [] a = 22 -> Curve("Ed25519", 9) \o Pt(64, 32)]

Secrets ==
    [a \in {1, 16, 17, 18, 19, 22} |->
        CASE a = 1  -> Number("d", 128) \o Number("p'", 64) \o Number("q'", 64) \o Number("u", 64)
          [] a = 19 -> Number("s", 66)
          [] OTHER  -> Number("s", 32)]

Iterated(usage, cipher) ==
    O(<<usage, cipher, 3, 8>>) \o Data("salt", 8) \o Octet(96) \o Data("iv", BlockSize(cipher))
Salted(usage, spec) == O(<<usage, 9, spec, 8>>) \o Data("salt", 8) \o Data("iv", 16)
Simple(usage)  == O(<<usage, 9, 0, 8>>) \o Data("iv", 16)
Gnu(ext)       == O(<<255, 0, 101, 0>>) \o Data("GNU", 3) \o Octet(ext)
Card(n)        == Gnu(2) \o Octet(n) \o Data("serial", n)

CutOff(a) == IF a \in {16, 17} THEN {"checksum cut off"} ELSE {}

(* The secret parts a key may have: in the clear, encrypted, elsewhere. *)
SecretParts(a) ==
    { Item(Octet(0) \o Secrets[a] \o Data("sum", 2), {}) }
    \cup { Item(Iterated(254, c) \o Data("enc", 60), {}) : c \in {3, 9} }
    \cup { Item(Salted(254, spec) \o Data("enc", 60), {}) : spec \in {1, 2} }
    \cup { Item(Simple(255) \o Data("enc", 60), CutOff(a)) }
    \cup { Item(Gnu(1), {}), Item(Card(16), {}), Item(Card(0), {"no serial number"}),
           Item(Card(17), {"long serial number"} \cup CutOff(a)) }

Keys ==
    { Item(New(6, KeyHead(a) \o PublicPart[a]), {}) : a \in DOMAIN PublicPart }
    \cup UNION { { Item(New(5, KeyHead(a) \o PublicPart[a] \o sec.octets), sec.forms) :
                     sec \in SecretParts(a) } : a \in DOMAIN PublicPart }
    \cup { Item(Old(5, llen, KeyHead(a) \o PublicPart[a] \o Octet(0) \o Secrets[a] \o Data("sum", 2)), {}) :
             llen \in {1, 2, 4}, a \in {18, 19, 22} }
    \cup { Item(New(14, KeyHead(18) \o Curve("P256", 8) \o Pt(4, 64) \o Kdf), {}),
           Item(New(14, KeyHead(19) \o Curve("P256", 8) \o Pt(64, 64)), {"wrong point format"}),
           Item(New(14, KeyHead(19) \o Curve("P256", 8) \o Pt(4, 63)), {"odd point"}),
           Item(New(14, KeyHead(22) \o Curve("Ed448", 9) \o Pt(64, 57)), {"unknown curve"}),
           Item(New(7, KeyHead(22) \o PublicPart[22] \o Octet(0) \o Secrets[22] \o Data("sum", 2)), {}),
           Item(New(6, KeyHead(21) \o Number("p", 64) \o Number("y", 64)), {"opaque key"}),
           Item(New(5, KeyHead(21) \o Number("p", 64) \o Octet(0) \o Number("x", 32) \o Data("sum", 2)),
                {"opaque key", "opaque secret"}),
           Item(New(6, Octet(3) \o Data("v3 key", 70)), {}) }

-----------------------------------------------------------------------------
(* Session keys, data, and the rest *)
Esk(alg, ct)   == Octet(3) \o Data("keyid", 8) \o Octet(alg) \o ct
ImageSub(version, n) == SubOf(1, O(<<16, 0, version, 1>>) \o Zeros(12) \o Data("jpeg", n), {}).octets
Literal(name)  == Data("b", 1) \o Octet(Size(name)) \o name \o Data("time", 4) \o Data("body", 9)

Stream(name, n) == Data(name, n - 1) \o Data("end", 1)

Others ==
    { Item(New(1, Esk(1, Number("m^e", 128))), {}),
      Item(New(1, Esk(16, Number("g^k", 64) \o Number("m*y^k", 64))), {}),
      Item(New(1, Esk(18, Pt(64, 32) \o Octet(48) \o Data("wrapped", 48))), {"ECDH session key"}),
      Item(New(1, Esk(22, Data("what", 30))), {"no ciphertext class"}),
      Item(New(3, Octet(4) \o Drop(Take(Iterated(254, 9), 13), 1)), {}),
      Item(New(3, Octet(4) \o Drop(Take(Iterated(254, 9), 13), 1) \o Data("esk", 33)), {}),
      Item(New(3, O(<<4, 9, 0, 8>>) \o Data("esk", 33)), {}),
      Item(New(4, O(<<3, 0, 8, 1>>) \o Data("keyid", 8) \o Octet(1)), {}),
      Item(New(4, O(<<3, 0, 8, 1>>) \o Data("keyid", 8) \o Octet(2)), {"odd boolean"}),
      Item(New(8, Octet(0) \o Data("packets", 40)), {}),
      Item(New(8, Octet(1) \o Stream("zlib", 30)), {}),
      Item(New(8, Octet(1) \o Stream("best", 30)), {"recompressed longer"}),
      Item(New(8, Octet(2) \o Stream("fast", 30)), {"recompressed shorter"}),
      Item(New(8, Octet(2) \o Data("zlib", 30)), {"truncated stream"}),
      Item(Partial(8, Octet(1) \o Stream("zlib", 80)), {"partial lengths"}),
      Item(New(9, Data("ct", 60)), {"encrypted data"}),
      Item(New(18, Octet(1) \o Data("ct", 9000)), {"encrypted data"}),
      Item(Partial(18, Octet(1) \o Data("ct", 100)), {"encrypted data", "partial lengths"}),
      Item(New(10, Data("PGP", 3)), {}), Item(New(19, Data("sha1", 20)), {}),
      Item(New(11, Literal(Data("text", 5))), {}), Item(New(11, Literal(<<>>)), {}),
      Item(New(11, Literal(Data("utf", 4))), {"file name not ASCII"}),
      Item(New(11, Literal(Data("latin", 2))), {"file name not UTF-8"}),
      Item(New(11, Literal(Data("wide", 6))), {"file name not Latin-1"}),
      Item(Partial(11, Literal(Data("text", 40))), {"partial lengths"}),
      Item(New(12, O(<<0, 37>>)), {}), Item(New(12, O(<<1, 5>>)), {}),
      Item(New(12, O(<<5, 16>>)), {"unknown flag"}), Item(New(12, O(<<0, 7>>)), {"unknown trust"}),
      Item(Old(13, 1, Data("text", 20)), {}), Item(New(13, Data("utf", 20)), {}),
      Item(New(13, Data("text", 3) \o Data("latin", 4)), {"user ID not UTF-8"}),
      Item(Old(10, 0, Data("PGP", 3)), {"indeterminate length"}),
      Item(New(17, ImageSub(1, 40)), {}), Item(New(17, ImageSub(1, 400)), {}),
      Item(New(17, ImageSub(2, 40)), {"unknown image version"}),
      Item(New(17, ImageSub(1, 40) \o SubOf(5, Data("x", 3), {}).octets), {}),
      Item(New(17, O(<<255, 0, 0, 0, 57>>) \o Drop(ImageSub(1, 40), 1)), {"long attribute length"}),
      Item(New(60, Data("x", 5)), {}), Item(Old(12, 1, O(<<0, 37>>)), {}) }

Foreign == Signatures \cup Keys \cup Others

-----------------------------------------------------------------------------
(* PGPy's own packets, before update_hlen. *)
MadeSub(type, body, fs) == [sp |-> NewSubpacket(type, body), forms |-> fs]
MadeSubs ==
    { MadeSub(2, Data("time", 4), {}), MadeSub(4, Octet(1), {"set boolean"}),
      MadeSub(4, Octet(0), {"local"}), MadeSub(7, Octet(0), {}), MadeSub(9, Data("time", 4), {}),
      MadeSub(11, O(<<9, 8>>), {}), MadeSub(26, Data("text", 9), {}),
      MadeSub(26, Data("text", 250), {}), MadeSub(26, Data("utf", 4), {"text not ASCII"}),
      MadeSub(27, Octet(3), {}), MadeSub(27, Octet(0), {}), MadeSub(30, Octet(1), {}),
      MadeSub(20, Note(128, Data("text", 1), Data("text", 2), 1, 2), {}),
      MadeSub(20, Note(128, Data("text", 1), Data("utf", 4), 1, 2), {"text not ASCII"}),
      MadeSub(32, Backsig, {}), MadeSub(37, Data("hash", 64), {}) }

MadeSignature(hashed) ==
    Packet(NewHeader(2), O(<<4, 16, 22, 8>>), hashed,
           <<NewSubpacket(16, Data("keyid", 8)), NewSubpacket(33, Fpr(4, 20))>>,
           Data("hash2", 2) \o Number("r", 32) \o Number("s", 32))

Plain(tag, head, tail) == Packet(NewHeader(tag), head, <<>>, <<>>, tail)
MadeItem(p, fs) == [pkt |-> p, forms |-> fs]

Own ==
    { MadeItem(MadeSignature(<<a.sp, b.sp>>), a.forms \cup b.forms) : a, b \in MadeSubs }
    \cup { MadeItem(Plain(5, KeyHead(a) \o PublicPart[a], Octet(0) \o Secrets[a] \o Data("sum", 2)), {}) :
             a \in {1, 17, 18, 19, 22} }
    \cup { MadeItem(Plain(7, KeyHead(18) \o PublicPart[18], Octet(0) \o Secrets[18] \o Data("sum", 2)), {}),
           MadeItem(Plain(1, Octet(3) \o Data("keyid", 8) \o Octet(18), Pt(64, 32) \o Octet(48) \o Data("wrapped", 48)),
                    {"ECDH session key"}),
           MadeItem(Plain(3, Octet(4), Drop(Take(Iterated(254, 9), 13), 1) \o Data("esk", 33)), {}),
           MadeItem(Plain(11, Literal(Data("text", 5)), <<>>), {}),
           MadeItem(Plain(11, Literal(Data("latin", 2)), <<>>), {"file name not UTF-8"}),
           MadeItem(Plain(11, Literal(Data("wide", 2)), <<>>), {"file name not Latin-1"}),
           MadeItem(Plain(13, Data("utf", 30), <<>>), {}),
           MadeItem(Plain(18, Octet(1) \o Data("ct", 200), <<>>), {"encrypted data"}),
           MadeItem(Packet(NewHeader(17), <<>>, <<>>,
                           <<NewSubpacket(1, O(<<16, 0, 1, 1>>) \o Zeros(12) \o Data("jpeg", 200))>>, <<>>), {}) }
=============================================================================
