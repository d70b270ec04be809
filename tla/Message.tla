------------------------------ MODULE Message ------------------------------
(***************************************************************************)
(* PGPMessage: composing, signing, encrypting to several keys and          *)
(* passphrases, copying, writing and re-reading, and decrypting messages.  *)
(*                                                                         *)
(* A secret is a cipher with a session key; encrypted data is the secret   *)
(* it was encrypted under and what was encrypted.  Decrypting with another *)
(* secret fails (checksum, key size, MDC).  A session key that does not    *)
(* fit the cipher raises before anything changes and is left out.          *)
(***************************************************************************)
EXTENDS SorteDeque

CONSTANTS
  Key,          \* keys that messages are encrypted to, by key id
  OwnerOf,      \* OwnerOf[k]: the primary key k belongs to, maybe k itself
  Passphrase,
  Secret,       \* ciphers with session keys, chosen by the caller or generated
  Sig, Time,    \* signatures on messages; Time[s]: creation time of s
  MaxMsgs,      \* bound on the messages made
  MaxEsks       \* bound on the session key packets of a message

Form == {"literal", "cleartext", "none"}    \* "none": nothing but signatures
Recipient == Key \cup Passphrase

ASSUME MessageAssumption ==
  /\ Key \cap Passphrase = {}
  /\ Time \in [Sig -> Nat]
  /\ MaxMsgs \in Nat /\ MaxEsks \in Nat

Contents == [form : Form, sigs : Seq(Sig)]
NoData == [secret |-> {}, inside |-> [form |-> "none", sigs |-> <<>>], framed |-> TRUE]

EncryptedData == [secret : SUBSET Secret, inside : Contents, framed : BOOLEAN]
SessionKey == [to : Recipient, secret : Secret]
MessageObject == [form : Form, sigs : Seq(Sig), data : EncryptedData, esks : Seq(SessionKey)]
Intent == [to : SUBSET Recipient, form : Form, sigs : SUBSET Sig]

VARIABLES
  msgs,   \* the PGPMessage objects made, in order: form and _signatures, then
          \* _message if it is encrypted data (secret = {s}; framed: with the length
          \* of the data in its header), and _sessionkeys
  meant   \* meant[i]: to whom the caller has encrypted what ended up in msgs[i]

vars == <<msgs, meant>>

Init == msgs = <<>> /\ meant = <<>>

-----------------------------------------------------------------------------
IsEncrypted(m) == m.data.secret # {}
Plain(c) == [form |-> c.form, sigs |-> c.sigs, data |-> NoData, esks |-> <<>>]

\* Mutant of PutSig: the signature is appended.
PutSigLast(sigs, s) == Append(sigs, s)

Earlier == [p \in Sig \X Sig |-> Time[p[1]] < Time[p[2]]]

PutSig(sigs, s) == Insort(sigs, s, Earlier)

\* Signatures read or copied one after the other
PutSigs(sigs) == InsortAll(sigs, Earlier)

\* What bytes(message) holds of a message that is not encrypted: the text of a
\* cleartext message is not in it.
Written(m) == [form |-> IF m.form = "cleartext" THEN "none" ELSE m.form, sigs |-> m.sigs]

\* IntegrityProtectedSKEDataV1.encrypt
Encrypted(m, secret) ==
  [form |-> "none", sigs |-> <<>>, esks |-> <<>>,
   data |-> [secret |-> {secret}, inside |-> Written(m), framed |-> TRUE]]

Esk(to, secret) == [to |-> to, secret |-> secret]

-----------------------------------------------------------------------------
(***************************************************************************)
(* Decryption.  An outcome is {the message read} or, when it raises, {}.   *)
(***************************************************************************)
Read(m, secret) ==
  IF m.data.secret = {secret}
  THEN {[form |-> m.data.inside.form, sigs |-> PutSigs(m.data.inside.sigs)]} ELSE {}

\* PGPKey.decrypt of key k: the first packet for k.  A packet for a passphrase met on
\* the way has no attribute pkalg and raises.
DecryptFor(m, k) ==
  LET hit == {i \in DOMAIN m.esks : m.esks[i].to \in Passphrase \cup {k}}
      i == CHOOSE i \in hit : \A j \in hit : i <= j
  IN  IF hit = {} \/ m.esks[i].to # k THEN {} ELSE Read(m, m.esks[i].secret)

\* Mutant of KeysFor: the recipients are not intersected with the subkeys of o.
KeysForAny(m, o) == {k \in Key : \E i \in DOMAIN m.esks : m.esks[i].to = k}

\* PGPKey.decrypt called on the primary key o: itself, or any of its subkeys.
KeysFor(m, o) ==
  LET mine == {k \in Key : OwnerOf[k] = o /\ \E i \in DOMAIN m.esks : m.esks[i].to = k}
  IN  IF o \in mine THEN {o} ELSE mine

\* PGPMessage.decrypt: the packets for passphrases are tried in turn.
DecryptWith(m, p) ==
  UNION {Read(m, m.esks[i].secret) : i \in {i \in DOMAIN m.esks : m.esks[i].to = p}}

Outcomes(m, r) ==
  IF r \in Passphrase THEN {DecryptWith(m, r)}
  ELSE IF KeysFor(m, OwnerOf[r]) = {} THEN {{}}
  ELSE {DecryptFor(m, k) : k \in KeysFor(m, OwnerOf[r])}

-----------------------------------------------------------------------------
Room == Len(msgs) < MaxMsgs

Make(m, what) == msgs' = Append(msgs, m) /\ meant' = Append(meant, what)

\* PGPMessage.new
New(form) ==
  /\ Room
  /\ Make(Plain([form |-> form, sigs |-> <<>>]), [to |-> {}, form |-> form, sigs |-> {}])

\* message |= key.sign(message)
Sign(i, s) ==
  /\ msgs[i].form # "none" \/ IsEncrypted(msgs[i])
  /\ \A m \in ToSet(msgs) : s \notin ToSet(m.sigs) \cup ToSet(m.data.inside.sigs)
  /\ msgs' = [msgs EXCEPT ![i].sigs = PutSig(@, s)]
  /\ meant' = IF IsEncrypted(msgs[i]) THEN meant ELSE [meant EXCEPT ![i].sigs = @ \cup {s}]

\* PGPKey.encrypt, on the key or subkey k: a message that is encrypted already gets
\* one more session key packet, in place.
EncryptFor(i, k, secret) ==
  LET m == msgs[i]
  IN  /\ Len(m.esks) < MaxEsks
      /\ IF IsEncrypted(m)
         THEN /\ msgs' = [msgs EXCEPT ![i].esks = Append(@, Esk(k, secret))]
              /\ meant' = [meant EXCEPT ![i].to = @ \cup {k}]
         ELSE /\ m.form # "none" /\ Room
              /\ Make([Encrypted(m, secret) EXCEPT !.esks = <<Esk(k, secret)>>],
                      [meant[i] EXCEPT !.to = {k}])

\* Mutant of EncryptWith: the session keys of the encrypted message are not taken over.
EncryptWithAlone(i, p, secret) ==
  LET m == msgs[i]
  IN  /\ Len(m.esks) < MaxEsks /\ Room
      /\ m.form # "none" \/ IsEncrypted(m)
      /\ Make([(IF IsEncrypted(m) THEN m ELSE Encrypted(m, secret)) EXCEPT
                 !.esks = <<Esk(p, secret)>>],
              [meant[i] EXCEPT !.to = @ \cup {p}])

\* PGPMessage.encrypt: always a new message; an encrypted one is merged into it,
\* after the new session key packet (PGPMessage.__or__).
EncryptWith(i, p, secret) ==
  LET m == msgs[i]
  IN  /\ Len(m.esks) < MaxEsks /\ Room
      /\ m.form # "none" \/ IsEncrypted(m)
      /\ Make([(IF IsEncrypted(m) THEN m ELSE Encrypted(m, secret)) EXCEPT
                 !.esks = <<Esk(p, secret)>> \o m.esks],
              [meant[i] EXCEPT !.to = @ \cup {p}])

\* Mutant of Copy: the signatures are inserted as one item.
CopyNested(i) ==
  /\ Room
  /\ Make([msgs[i] EXCEPT !.sigs = <<@>>, !.data.framed = ~IsEncrypted(msgs[i])], meant[i])

\* copy.copy(message).  The copy of encrypted data has a new header.
Copy(i) ==
  /\ Room
  /\ Make([msgs[i] EXCEPT !.sigs = PutSigs(@), !.data.framed = ~IsEncrypted(msgs[i])],
          meant[i])

\* str(message), parsed back in its place: a cleartext message keeps its text.
\* What is written of encrypted data without its length does not parse.
SaveAndReload(i) ==
  /\ msgs[i].form # "none" \/ IsEncrypted(msgs[i])
  /\ msgs[i].data.framed
  /\ msgs' = [msgs EXCEPT ![i].sigs = PutSigs(@)]
  /\ UNCHANGED meant

\* A recipient or anybody else decrypts a message, successfully.
Decrypt(i, r) ==
  /\ Room
  /\ IsEncrypted(msgs[i])
  /\ \E outcome \in Outcomes(msgs[i], r) : \E c \in outcome :
       Make(Plain(c), [to |-> {}, form |-> c.form, sigs |-> ToSet(c.sigs)])

Next ==
  \/ \E form \in Form \ {"none"} : New(form)
  \/ \E i \in DOMAIN msgs :
       \/ \E s \in Sig : Sign(i, s)
       \/ \E k \in Key, secret \in Secret : EncryptFor(i, k, secret)
       \/ \E p \in Passphrase, secret \in Secret : EncryptWith(i, p, secret)
       \/ Copy(i)
       \/ SaveAndReload(i)
       \/ \E r \in Recipient : Decrypt(i, r)

Spec == Init /\ [][Next]_vars

-----------------------------------------------------------------------------
TypeOK ==
  /\ msgs \in Seq(MessageObject)
  /\ meant \in Seq(Intent)
  /\ Len(meant) = Len(msgs)

\* A read message has the form and the signatures the caller meant it to have.
AsMeant(i, c) == c.form = meant[i].form /\ ToSet(c.sigs) = meant[i].sigs

\* The caller gave every recipient the secret the data is encrypted under.
Consistent(m) == \A esk \in ToSet(m.esks) : m.data.secret = {esk.secret}

\* Recipient r can decrypt the message and finds what was encrypted.
Reads(i, r) ==
  \A outcome \in Outcomes(msgs[i], r) : \E c \in outcome : AsMeant(i, c)

\* The message holds a text that was encrypted under one secret for all recipients.
Readable(i) ==
  IsEncrypted(msgs[i]) /\ meant[i].form = "literal" /\ Consistent(msgs[i])

\* Whoever a message was encrypted to, by the two encrypt methods, in place or merged,
\* and through copies and reloads, can decrypt it and finds its contents with all
\* their signatures, if the caller gave the same secret every time: every passphrase,
\* and every key if all recipients are keys (EveryoneReads below is about the others).
EveryRecipientReads ==
  \A i \in DOMAIN msgs : Readable(i) =>
    \A r \in meant[i].to : r \in Passphrase \/ meant[i].to \subseteq Key => Reads(i, r)

\* Whatever the secrets, the recipients and the order they were added in, a
\* decryption that succeeds is that of a recipient, and gives what was encrypted
\* and its signatures, never what another message held.
OnlyRecipientsRead ==
  \A i \in DOMAIN msgs : \A r \in Recipient : \A outcome \in Outcomes(msgs[i], r) :
    \A c \in outcome :
      /\ meant[i].form = "literal" => AsMeant(i, c)
      /\ \E t \in meant[i].to : t = r \/ ({t, r} \subseteq Key /\ OwnerOf[t] = OwnerOf[r])

\* The signatures of a message are in the order they were made in, through merging,
\* copying, encryption and re-reading (SorteDeque, PGPMessage.__or__).
SignaturesInOrder ==
  \A m \in ToSet(msgs) : \A j, k \in DOMAIN m.sigs :
    j < k => Time[m.sigs[j]] <= Time[m.sigs[k]]

-----------------------------------------------------------------------------
\* A statement of the documentation that the code does not keep.  SKESessionKey's: its
\* packets allow "a message to be encrypted to a number of public keys, and also to one
\* or more passphrases", so whoever it was encrypted to can decrypt it.  With both kinds
\* of recipients no key can.
EveryoneReads == \A i \in DOMAIN msgs : Readable(i) => \A r \in meant[i].to : Reads(i, r)
=============================================================================
