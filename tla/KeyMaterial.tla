----------------------------- MODULE KeyMaterial -----------------------------
(***************************************************************************)
(* What a key packet holds after its algorithm octet: public numbers, the  *)
(* string-to-key specifier, and the secret part, in the clear or encrypted *)
(* (src/pgpy/packet/fields.py); and the encrypted session keys of PKESK    *)
(* packets.                                                                *)
(*                                                                         *)
(* An EC point is an MPI whose first octet is 4 (both coordinates) or 64   *)
(* (native).  An OID is a length octet and a run with the curve's name.    *)
(***************************************************************************)
EXTENDS Fields

Counted(max)   == Field("counted", max, {})   \* an octet that says how many follow
Oid            == Field("oid", 0, {})
Point(formats) == Field("point", 0, formats)

(* Read field by field; a counted field takes max octets at most. *)
KeyWidth(f, st) ==
    LET first == BytesToInt(Take(st.rest, 1))
    IN  CASE f.kind = "counted" -> 1 + (IF first < f.n THEN first ELSE f.n)
          [] f.kind = "oid"     -> 1 + first
          [] OTHER              -> Width([f EXCEPT !.kind = "mpi"], st)

Curves == {"Curve25519", "Ed25519", "P256", "P521"}

(* ECPoint: the two coordinates of a standard point are of the same length. *)
PointAccepted(f, format, xylen) == format \in f.of /\ (format = 4 => xylen % 2 = 0)

KeyAccepted(f, s) ==
    CASE f.kind = "oid"   -> Len(s) = 2 /\ s[2][1] \in Curves
      [] f.kind = "point" -> PointAccepted(f, BytesToInt(Take(Drop(s, 2), 1)), Size(s) - 3)
      [] OTHER            -> TRUE

ReadKeyField(st, f) ==
    LET Of(n, s) ==
          IF ~st.ok \/ ~KeyAccepted(f, s) THEN [st EXCEPT !.ok = FALSE]
          ELSE [st EXCEPT !.rest = Drop(st.rest, n),
                          !.out  = Cat(@, IF f.kind = "counted"
                                          THEN Cat(Octet(Size(s) - 1), Drop(s, 1)) ELSE s)]
    IN  IF f.kind \notin {"counted", "oid", "point"} THEN ReadField(st, f)
        ELSE Of(KeyWidth(f, st), Take(st.rest, KeyWidth(f, st)))

RECURSIVE ReadKeyFields(_, _)
ReadKeyFields(st, format) ==
    IF format = <<>> THEN st ELSE ReadKeyFields(ReadKeyField(st, Head(format)), Tail(format))

-----------------------------------------------------------------------------
(* Public key material, by class. *)
RSAPub   == <<Mpi, Mpi>>
DSAPub   == <<Mpi, Mpi, Mpi, Mpi>>
ElGPub   == <<Mpi, Mpi, Mpi>>
ECDSAPub == <<Oid, Point({4})>>
EdDSAPub == <<Oid, Point({64})>>
ECKDF    == <<Field("enum", 1, {3}), Field("enum", 1, {1}),
              Enum(HashAlgorithm), Enum(SymmetricKeyAlgorithm)>>
ECDHPub(curve) == <<Oid, Point(IF curve = "Curve25519" THEN {64} ELSE {4})>> \o ECKDF

(* The classes pkalg_int chooses from; <<>> stands for OpaquePubKey. *)
PubFormat(alg, s) ==
    CASE alg \in {1, 2, 3} -> RSAPub
      [] alg = 17          -> DSAPub
      [] alg \in {16, 20}  -> ElGPub
      [] alg = 18          -> ECDHPub(s[2][1])
      [] alg = 19          -> ECDSAPub
      [] alg = 22          -> EdDSAPub
      [] OTHER             -> <<>>

KnownAlgorithms == {1, 2, 3, 16, 17, 18, 19, 20, 22}

(* The secret numbers of a class. *)
PrivFields(alg) == IF alg \in {1, 2, 3} THEN <<Mpi, Mpi, Mpi, Mpi>> ELSE <<Mpi>>

-----------------------------------------------------------------------------
(* String2Key *)
String2KeyType == {0, 1, 2, 3, 101}
GNUExtension == 101
Smartcard    == 2
Encrypted    == {254, 255}               \* bool(s2k)

(* The octets of an IV, a multiple of the algorithm's block_size. *)
BlockSize(encalg) == IF encalg \in {1, 2, 3, 4} THEN 8 ELSE 16

OctetAt(s, i) == BytesToInt(Take(Drop(s, i), 1))

(* _experimental_parse *)
GnuFormat(s) ==
    <<AnyOctet, Enum(SymmetricKeyAlgorithm), AnyOctet, Octets(4), Enum({1, Smartcard})>>
      \o (IF OctetAt(s, 7) = Smartcard THEN <<Counted(16)>> ELSE <<>>)

S2KFormat(s, iv) ==
    LET Of(spec) ==
          IF OctetAt(s, 0) \notin Encrypted THEN <<AnyOctet>>
          ELSE IF spec = GNUExtension THEN GnuFormat(s)
          ELSE <<AnyOctet, Enum(SymmetricKeyAlgorithm), Enum(String2KeyType), Enum(HashAlgorithm)>>
                 \o (IF spec >= 1 THEN <<Octets(8)>> ELSE <<>>)
                 \o (IF spec = 3 THEN <<AnyOctet>> ELSE <<>>)
                 \o (IF iv THEN <<Octets(BlockSize(OctetAt(s, 1)))>> ELSE <<>>)
    IN  Of(OctetAt(s, 2))

(* A serial number of no octets is not written, nor is its length. *)
WrittenS2K(out) ==
    IF OctetAt(out, 2) = GNUExtension /\ OctetAt(out, 7) = Smartcard /\ OctetAt(out, 8) = 0
    THEN Take(out, 8) ELSE out

ReadS2K(s, iv) ==
    [ReadKeyFields(Reading(s, 0), S2KFormat(s, iv)) EXCEPT !.out = WrittenS2K(@)]

-----------------------------------------------------------------------------
(* The parse methods of the PrivKey classes after the public part.          *)
(* encbytes is the whole rest of the key material, and for DSA and ElGamal  *)
(* with usage 255 the checksum is then cut off the same bytearray: the      *)
(* first two encrypted octets are lost.                                     *)
EncBytes(alg, usage, rest) == IF alg \in {16, 17, 20} /\ usage = 255 THEN Drop(rest, 2) ELSE rest

ReadPriv(alg, s) ==
    LET Of(s2k, usage) ==
          IF usage \in Encrypted
          THEN [s2k EXCEPT !.out = Cat(@, EncBytes(alg, usage, s2k.rest))]
          ELSE ReadFields(s2k, PrivFields(alg) \o IF usage = 0 THEN <<Octets(2)>> ELSE <<>>)
    IN  Of(ReadS2K(s, TRUE), OctetAt(s, 0))

(* encrypt_keyblob: a new iterated specifier, the secret numbers and a      *)
(* SHA-1 over them in CFB mode; the checksum is no longer written.          *)
NumberOctets(tail) == Size(tail) - 3

EncryptKeyblob(tail, encalg) ==
    Octet(254) \o Octet(encalg) \o Octet(3) \o Octet(8) \o Data("salt", 8) \o Octet(96)
      \o Data("iv", BlockSize(encalg)) \o Data("cfb", NumberOctets(tail) + 20)

(* The CipherText classes; <<>> for an algorithm without one. *)
CipherText(alg) ==
    CASE alg \in {1, 2}   -> <<Mpi>>
      [] alg \in {16, 20} -> <<Mpi, Mpi>>
      [] alg = 18         -> <<Point({4, 64}), Counted(255)>>
      [] OTHER            -> <<>>
=============================================================================
