--------------------------- MODULE MessageProofs ---------------------------
(***************************************************************************)
(* Proofs about messages, for any keys, passphrases, secrets, signatures   *)
(* and creation times: the order of signatures, and who can read what.     *)
(***************************************************************************)
EXTENDS Message, SequenceLemmas

-----------------------------------------------------------------------------
\* Creation times order signatures, those of the same second either way.
LEMMA EarlierOrders == WeakOrder(Earlier, Sig)
<1>1. \A x, y \in Sig : Time[x] \in Nat /\ (Earlier[<<x, y>>] = (Time[x] < Time[y]))
  BY MessageAssumption DEF Earlier
<1>2. ASSUME NEW x \in Sig, NEW y \in Sig
      PROVE  Earlier[<<x, y>>] => ~Earlier[<<y, x>>]
  <2>1. Time[x] < Time[y] => ~(Time[y] < Time[x])
    BY MessageAssumption
  <2>2. QED
    BY <1>1, <2>1, Zenon
<1>3. ASSUME NEW x \in Sig, NEW y \in Sig, NEW z \in Sig
      PROVE  ~Earlier[<<x, y>>] /\ ~Earlier[<<y, z>>] => ~Earlier[<<x, z>>]
  <2>1. ~(Time[x] < Time[y]) /\ ~(Time[y] < Time[z]) => ~(Time[x] < Time[z])
    BY MessageAssumption
  <2>2. QED
    BY <1>1, <2>1, Zenon
<1>4. QED
  BY <1>2, <1>3 DEF WeakOrder

\* Putting a signature into a deque adds it and keeps the order.
LEMMA PutSigFacts ==
  ASSUME NEW q \in Seq(Sig), NEW s \in Sig
  PROVE  /\ PutSig(q, s) \in Seq(Sig)
         /\ ToSet(PutSig(q, s)) = ToSet(q) \cup {s}
         /\ InOrder(q, Earlier) => InOrder(PutSig(q, s), Earlier)
BY EarlierOrders, InsortFacts, InsortKeepsOrder DEF PutSig

\* Copied and parsed signatures are the same ones, in order.
LEMMA PutSigsFacts ==
  ASSUME NEW q \in Seq(Sig)
  PROVE  /\ PutSigs(q) \in Seq(Sig)
         /\ ToSet(PutSigs(q)) = ToSet(q)
         /\ InOrder(PutSigs(q), Earlier)
BY EarlierOrders, InsortAllFacts DEF PutSigs

-----------------------------------------------------------------------------
(***************************************************************************)
(* The inductive invariant: a message and what the caller meant with it.   *)
(***************************************************************************)
Addressees(m) == {m.esks[j].to : j \in DOMAIN m.esks}

\* encrypt with a passphrase puts its packet first, encrypt with a key last.
PassphrasesFirst(m) ==
  \A j, k \in DOMAIN m.esks :
    j < k /\ m.esks[k].to \in Passphrase => m.esks[j].to \in Passphrase

Good(m, w) ==
  /\ InOrder(m.sigs, Earlier)
  /\ ~IsEncrypted(m) => m.form = w.form /\ ToSet(m.sigs) = w.sigs
  /\ IsEncrypted(m) /\ w.form = "literal" =>
       m.data.inside.form = "literal" /\ ToSet(m.data.inside.sigs) = w.sigs
  /\ Addressees(m) = w.to
  /\ PassphrasesFirst(m)

MessageInv == TypeOK /\ \A i \in 1 .. Len(msgs) : Good(msgs[i], meant[i])

\* One more message.
LEMMA MakeKeeps ==
  ASSUME MessageInv, NEW m \in MessageObject, NEW w \in Intent, Good(m, w), Make(m, w)
  PROVE  MessageInv'
<1> USE DEF MessageInv, TypeOK
<1>1. /\ msgs' = Append(msgs, m) /\ meant' = Append(meant, w)
      /\ msgs \in Seq(MessageObject) /\ meant \in Seq(Intent) /\ Len(meant) = Len(msgs)
  BY DEF Make
<1>2. /\ msgs' \in Seq(MessageObject) /\ meant' \in Seq(Intent)
      /\ Len(msgs') = Len(msgs) + 1 /\ Len(meant') = Len(msgs) + 1 /\ Len(msgs) \in Nat
  BY <1>1
<1>3. ASSUME NEW i \in 1 .. Len(msgs')
      PROVE  Good(msgs'[i], meant'[i])
  <2>1. CASE i = Len(msgs) + 1
    <3>1. msgs'[i] = m /\ meant'[i] = w
      BY <1>1, <2>1
    <3>2. QED
      BY <3>1
  <2>2. CASE i # Len(msgs) + 1
    <3>1. i \in 1 .. Len(msgs)
      BY <1>2, <2>2
    <3>2. msgs'[i] = msgs[i] /\ meant'[i] = meant[i]
      BY <1>1, <3>1
    <3>3. QED
      BY <3>1, <3>2
  <2>3. QED
    BY <2>1, <2>2
<1>4. QED
  BY <1>2, <1>3

\* A message changed in place.
LEMMA ReplaceKeeps ==
  ASSUME MessageInv, NEW i \in DOMAIN msgs, NEW m \in MessageObject, NEW w \in Intent, Good(m, w),
         msgs' = [msgs EXCEPT ![i] = m], meant' = [meant EXCEPT ![i] = w]
  PROVE  MessageInv'
<1> USE DEF MessageInv, TypeOK
<1>1. /\ msgs' \in Seq(MessageObject) /\ meant' \in Seq(Intent)
      /\ Len(msgs') = Len(msgs) /\ Len(meant') = Len(msgs)
      /\ DOMAIN msgs = 1 .. Len(msgs) /\ DOMAIN meant = 1 .. Len(msgs)
  OBVIOUS
<1>2. ASSUME NEW j \in 1 .. Len(msgs')
      PROVE  Good(msgs'[j], meant'[j])
  <2>1. CASE j = i
    <3>1. msgs'[j] = m /\ meant'[j] = w
      BY <1>1, <2>1
    <3>2. QED
      BY <3>1
  <2>2. CASE j # i
    <3>1. msgs'[j] = msgs[j] /\ meant'[j] = meant[j]
      BY <1>1, <2>2
    <3>2. QED
      BY <1>1, <3>1
  <2>3. QED
    BY <2>1, <2>2
<1>3. QED
  BY <1>1, <1>2

\* The message of an index and what was meant with it.
LEMMA MessageAt ==
  ASSUME MessageInv, NEW i \in DOMAIN msgs
  PROVE  msgs[i] \in MessageObject /\ meant[i] \in Intent /\ Good(msgs[i], meant[i])
BY DEF MessageInv, TypeOK

-----------------------------------------------------------------------------
(***************************************************************************)
(* The operations, on a message m and what was meant with it, w.           *)
(***************************************************************************)
\* A message that is not encrypted is good if it is what was meant, to nobody.
LEMMA PlainGood ==
  ASSUME NEW c \in Contents, InOrder(c.sigs, Earlier)
  PROVE  LET w == [to |-> {}, form |-> c.form, sigs |-> ToSet(c.sigs)]
         IN  Plain(c) \in MessageObject /\ w \in Intent /\ Good(Plain(c), w)
<1> DEFINE w == [to |-> {}, form |-> c.form, sigs |-> ToSet(c.sigs)]
           m == Plain(c)
<1>1. /\ m.form = c.form /\ m.sigs = c.sigs /\ m.data = NoData /\ m.esks = <<>>
      /\ c.form \in Form /\ c.sigs \in Seq(Sig)
  BY DEF Plain, Contents
<1>2. NoData \in EncryptedData /\ NoData.secret = {}
  BY DEF NoData, EncryptedData, Contents, Form
<1>3. m \in MessageObject
  BY <1>1, <1>2 DEF Plain, MessageObject
<1>4. ToSet(c.sigs) \in SUBSET Sig
  BY <1>1 DEF ToSet
<1>5. w \in Intent
  BY <1>1, <1>4 DEF Intent
<1>6. ~IsEncrypted(m) /\ Addressees(m) = {} /\ PassphrasesFirst(m)
  BY <1>1, <1>2 DEF IsEncrypted, Addressees, PassphrasesFirst
<1> HIDE DEF m
<1>7. Good(m, w)
  BY <1>1, <1>6 DEF Good
<1>8. QED
  BY <1>3, <1>5, <1>7 DEF m

\* message |= signature
LEMMA SignGood ==
  ASSUME NEW m \in MessageObject, NEW w \in Intent, Good(m, w), NEW s \in Sig
  PROVE  LET n == [m EXCEPT !.sigs = PutSig(m.sigs, s)]
             v == IF IsEncrypted(m) THEN w ELSE [w EXCEPT !.sigs = w.sigs \cup {s}]
         IN  n \in MessageObject /\ v \in Intent /\ Good(n, v)
<1> DEFINE n == [m EXCEPT !.sigs = PutSig(m.sigs, s)]
           v == IF IsEncrypted(m) THEN w ELSE [w EXCEPT !.sigs = w.sigs \cup {s}]
<1>1. /\ PutSig(m.sigs, s) \in Seq(Sig) /\ ToSet(PutSig(m.sigs, s)) = ToSet(m.sigs) \cup {s}
      /\ InOrder(PutSig(m.sigs, s), Earlier)
  BY PutSigFacts DEF MessageObject, Good
<1>2. n \in MessageObject /\ v \in Intent
  BY <1>1 DEF MessageObject, Intent
<1>3. /\ n.form = m.form /\ n.sigs = PutSig(m.sigs, s) /\ n.data = m.data /\ n.esks = m.esks
      /\ v.to = w.to /\ v.form = w.form
      /\ v.sigs = IF IsEncrypted(m) THEN w.sigs ELSE w.sigs \cup {s}
  BY DEF MessageObject, Intent
<1> HIDE DEF n, v
<1>4. /\ IsEncrypted(n) = IsEncrypted(m) /\ Addressees(n) = Addressees(m)
      /\ PassphrasesFirst(n) = PassphrasesFirst(m)
  BY <1>3 DEF IsEncrypted, Addressees, PassphrasesFirst
<1>5. Good(n, v)
  BY <1>1, <1>3, <1>4 DEF Good
<1>6. QED
  BY <1>2, <1>5 DEF n, v

\* A copied or re-read message.
LEMMA CopyGood ==
  ASSUME NEW m \in MessageObject, NEW w \in Intent, Good(m, w), NEW framed \in BOOLEAN
  PROVE  LET n == [m EXCEPT !.sigs = PutSigs(m.sigs), !.data.framed = framed]
         IN  n \in MessageObject /\ Good(n, w)
<1> DEFINE n == [m EXCEPT !.sigs = PutSigs(m.sigs), !.data.framed = framed]
<1>1. /\ PutSigs(m.sigs) \in Seq(Sig) /\ ToSet(PutSigs(m.sigs)) = ToSet(m.sigs)
      /\ InOrder(PutSigs(m.sigs), Earlier)
  BY PutSigsFacts DEF MessageObject
<1>2. n \in MessageObject
  BY <1>1 DEF MessageObject, EncryptedData
<1>3. /\ n.form = m.form /\ n.sigs = PutSigs(m.sigs) /\ n.esks = m.esks
      /\ n.data.secret = m.data.secret /\ n.data.inside = m.data.inside
  BY DEF MessageObject, EncryptedData
<1> HIDE DEF n
<1>4. /\ IsEncrypted(n) = IsEncrypted(m) /\ Addressees(n) = Addressees(m)
      /\ PassphrasesFirst(n) = PassphrasesFirst(m)
  BY <1>3 DEF IsEncrypted, Addressees, PassphrasesFirst
<1>5. Good(n, w)
  BY <1>1, <1>3, <1>4 DEF Good
<1>6. QED
  BY <1>2, <1>5 DEF n

\* A message written and parsed again in its place.
LEMMA ReloadGood ==
  ASSUME NEW m \in MessageObject, NEW w \in Intent, Good(m, w)
  PROVE  LET n == [m EXCEPT !.sigs = PutSigs(m.sigs)]
         IN  n \in MessageObject /\ Good(n, w)
<1> DEFINE n == [m EXCEPT !.sigs = PutSigs(m.sigs)]
<1>1. /\ PutSigs(m.sigs) \in Seq(Sig) /\ ToSet(PutSigs(m.sigs)) = ToSet(m.sigs)
      /\ InOrder(PutSigs(m.sigs), Earlier)
  BY PutSigsFacts DEF MessageObject
<1>2. n \in MessageObject
  BY <1>1 DEF MessageObject
<1>3. n.form = m.form /\ n.sigs = PutSigs(m.sigs) /\ n.esks = m.esks /\ n.data = m.data
  BY DEF MessageObject
<1> HIDE DEF n
<1>4. /\ IsEncrypted(n) = IsEncrypted(m) /\ Addressees(n) = Addressees(m)
      /\ PassphrasesFirst(n) = PassphrasesFirst(m)
  BY <1>3 DEF IsEncrypted, Addressees, PassphrasesFirst
<1>5. Good(n, w)
  BY <1>1, <1>3, <1>4 DEF Good
<1>6. QED
  BY <1>2, <1>5 DEF n

\* What encryption makes of a message that is not encrypted holds the message.
LEMMA EncryptedHolds ==
  ASSUME NEW m \in MessageObject, NEW w \in Intent, Good(m, w), ~IsEncrypted(m), NEW x \in Secret
  PROVE  LET e == Encrypted(m, x)
         IN  /\ e \in MessageObject /\ IsEncrypted(e) /\ e.sigs = <<>> /\ e.esks = <<>>
             /\ w.form = "literal" =>
                  e.data.inside.form = "literal" /\ ToSet(e.data.inside.sigs) = w.sigs
<1>1. /\ Written(m) \in Contents /\ Written(m).sigs = m.sigs
      /\ m.form = "literal" => Written(m).form = "literal"
  BY DEF Written, Contents, MessageObject, Form
<1>2. /\ Encrypted(m, x).data = [secret |-> {x}, inside |-> Written(m), framed |-> TRUE]
      /\ Encrypted(m, x).form = "none" /\ Encrypted(m, x).sigs = <<>>
      /\ Encrypted(m, x).esks = <<>>
  BY DEF Encrypted
<1>3. Encrypted(m, x).data \in EncryptedData
  BY <1>1, <1>2 DEF EncryptedData
<1>4. Encrypted(m, x) \in MessageObject
  BY <1>3 DEF Encrypted, MessageObject, Form
<1>5. IsEncrypted(Encrypted(m, x))
  BY <1>2 DEF IsEncrypted
<1>6. w.form = "literal" => m.form = "literal" /\ ToSet(m.sigs) = w.sigs
  BY DEF Good
<1>7. QED
  BY <1>1, <1>2, <1>4, <1>5, <1>6

\* A session key packet put last.
LEMMA LastEsk ==
  ASSUME NEW m \in MessageObject, PassphrasesFirst(m), NEW k \in Key, NEW x \in Secret
  PROVE  LET n == [m EXCEPT !.esks = Append(m.esks, Esk(k, x))]
         IN  n \in MessageObject /\ Addressees(n) = Addressees(m) \cup {k} /\ PassphrasesFirst(n)
<1> DEFINE n == [m EXCEPT !.esks = Append(m.esks, Esk(k, x))]
           e == Esk(k, x)
           L == Len(m.esks)
<1>1. e \in SessionKey /\ e.to = k /\ k \notin Passphrase
  BY MessageAssumption DEF Esk, SessionKey, Recipient
<1> HIDE DEF e
<1>2. m.esks \in Seq(SessionKey) /\ n.esks = Append(m.esks, e)
  BY DEF MessageObject, e
<1>3. n \in MessageObject
  BY <1>1, <1>2 DEF MessageObject, e
<1> HIDE DEF n
<1>4. /\ DOMAIN m.esks = 1 .. L /\ L \in Nat /\ DOMAIN n.esks = 1 .. L + 1
      /\ n.esks[L + 1] = e /\ \A i \in 1 .. L : n.esks[i] = m.esks[i]
  BY <1>1, <1>2
<1> HIDE DEF L
<1>5. 1 .. L + 1 = (1 .. L) \cup {L + 1}
  BY <1>4
<1>6. Addressees(n) = Addressees(m) \cup {k}
  BY <1>1, <1>4, <1>5 DEF Addressees
<1>7. ASSUME NEW i \in DOMAIN n.esks, NEW j \in DOMAIN n.esks, i < j, n.esks[j].to \in Passphrase
      PROVE  n.esks[i].to \in Passphrase
  <2>1. j # L + 1
    BY <1>1, <1>4, <1>7
  <2>2. i \in 1 .. L /\ j \in 1 .. L
    BY <1>4, <1>7, <2>1
  <2>3. QED
    BY <1>4, <1>7, <2>2 DEF PassphrasesFirst
<1>8. PassphrasesFirst(n)
  BY <1>7 DEF PassphrasesFirst
<1>9. QED
  BY <1>3, <1>6, <1>8 DEF n

\* The same for a packet put first: it is one for a passphrase.
LEMMA FirstEsk ==
  ASSUME NEW m \in MessageObject, PassphrasesFirst(m), NEW p \in Passphrase, NEW x \in Secret
  PROVE  LET n == [m EXCEPT !.esks = <<Esk(p, x)>> \o m.esks]
         IN  n \in MessageObject /\ Addressees(n) = Addressees(m) \cup {p} /\ PassphrasesFirst(n)
<1> DEFINE n == [m EXCEPT !.esks = <<Esk(p, x)>> \o m.esks]
           e == Esk(p, x)
           L == Len(m.esks)
<1>1. e \in SessionKey /\ e.to = p
  BY DEF Esk, SessionKey, Recipient
<1> HIDE DEF e
<1>2. m.esks \in Seq(SessionKey) /\ n.esks = <<e>> \o m.esks
  BY DEF MessageObject, e
<1>3. n \in MessageObject
  <2>1. <<e>> \o m.esks \in Seq(SessionKey)
    BY <1>1, <1>2
  <2>2. QED
    BY <2>1 DEF MessageObject, e
<1> HIDE DEF n
<1>4. /\ DOMAIN m.esks = 1 .. L /\ L \in Nat /\ DOMAIN n.esks = 1 .. L + 1
      /\ n.esks[1] = e /\ \A i \in 1 .. L : n.esks[i + 1] = m.esks[i]
  BY <1>1, <1>2
<1> HIDE DEF L
<1>5. \A i \in 1 .. L + 1 : i = 1 \/ (i - 1 \in 1 .. L /\ (i - 1) + 1 = i)
  BY <1>4
<1>6. \A i \in 1 .. L : i + 1 \in 1 .. L + 1
  BY <1>4
<1>7. 1 \in 1 .. L + 1
  BY <1>4
<1>8. Addressees(n) = Addressees(m) \cup {p}
  <2>1. ASSUME NEW i \in 1 .. L + 1
        PROVE  n.esks[i].to \in Addressees(m) \cup {p}
    <3>1. i = 1 \/ n.esks[i] = m.esks[i - 1]
      BY <1>4, <1>5
    <3>2. QED
      BY <1>1, <1>4, <1>5, <3>1 DEF Addressees
  <2>2. ASSUME NEW i \in 1 .. L
        PROVE  m.esks[i].to \in Addressees(n)
    BY <1>4, <1>6 DEF Addressees
  <2>3. p \in Addressees(n)
    BY <1>1, <1>4, <1>7 DEF Addressees
  <2>4. QED
    BY <1>4, <2>1, <2>2, <2>3 DEF Addressees
<1>9. ASSUME NEW i \in DOMAIN n.esks, NEW j \in DOMAIN n.esks, i < j, n.esks[j].to \in Passphrase
      PROVE  n.esks[i].to \in Passphrase
  <2>1. CASE i = 1
    BY <1>1, <1>4, <2>1
  <2>2. CASE i # 1
    <3>1. /\ i - 1 \in 1 .. L /\ j - 1 \in 1 .. L /\ i - 1 < j - 1
          /\ (i - 1) + 1 = i /\ (j - 1) + 1 = j
      BY <1>4, <1>9, <2>2
    <3>2. n.esks[i] = m.esks[i - 1] /\ n.esks[j] = m.esks[j - 1]
      BY <1>4, <3>1
    <3>3. QED
      BY <1>4, <1>9, <3>1, <3>2 DEF PassphrasesFirst
  <2>3. QED
    BY <2>1, <2>2
<1>10. PassphrasesFirst(n)
  BY <1>9 DEF PassphrasesFirst
<1>11. QED
  BY <1>3, <1>8, <1>10 DEF n

\* The parts of Good that a change of session key packets leaves alone.
LEMMA EskGood ==
  ASSUME NEW m \in MessageObject, NEW w \in Intent, Good(m, w), IsEncrypted(m),
         NEW n \in MessageObject, n.sigs = m.sigs, n.data = m.data,
         NEW r \in Recipient, Addressees(n) = Addressees(m) \cup {r}, PassphrasesFirst(n)
  PROVE  LET v == [w EXCEPT !.to = w.to \cup {r}]
         IN  v \in Intent /\ Good(n, v)
<1> DEFINE v == [w EXCEPT !.to = w.to \cup {r}]
<1>1. v \in Intent /\ v.to = w.to \cup {r} /\ v.form = w.form /\ v.sigs = w.sigs
  BY DEF Intent
<1> HIDE DEF v
<1>2. IsEncrypted(n)
  BY DEF IsEncrypted
<1>3. Good(n, v)
  BY <1>1, <1>2 DEF Good
<1>4. QED
  BY <1>1, <1>3 DEF v

\* A message that is encrypted for the first time, to r.
LEMMA FirstGood ==
  ASSUME NEW m \in MessageObject, NEW w \in Intent, Good(m, w), ~IsEncrypted(m),
         NEW x \in Secret, NEW r \in Recipient, NEW to \in SUBSET Recipient, to = {r}
  PROVE  LET n == [Encrypted(m, x) EXCEPT !.esks = <<Esk(r, x)>>]
             v == [w EXCEPT !.to = to]
         IN  n \in MessageObject /\ v \in Intent /\ Good(n, v)
<1> DEFINE e == Encrypted(m, x)
           n == [e EXCEPT !.esks = <<Esk(r, x)>>]
           v == [w EXCEPT !.to = to]
<1>1. /\ e \in MessageObject /\ IsEncrypted(e) /\ e.sigs = <<>>
      /\ w.form = "literal" =>
           e.data.inside.form = "literal" /\ ToSet(e.data.inside.sigs) = w.sigs
  BY EncryptedHolds
<1> HIDE DEF e
<1>2. Esk(r, x) \in SessionKey /\ Esk(r, x).to = r
  BY DEF Esk, SessionKey
<1>3. n \in MessageObject /\ n.sigs = <<>> /\ n.data = e.data /\ n.esks = <<Esk(r, x)>>
  <2>1. <<Esk(r, x)>> \in Seq(SessionKey)
    BY <1>2
  <2>2. QED
    BY <1>1, <2>1 DEF MessageObject
<1>4. v \in Intent /\ v.to = to /\ v.form = w.form /\ v.sigs = w.sigs
  BY DEF Intent
<1> HIDE DEF n, v
<1>5. DOMAIN n.esks = {1} /\ n.esks[1].to = r
  BY <1>2, <1>3
<1>6. Addressees(n) = {r} /\ PassphrasesFirst(n)
  BY <1>5 DEF Addressees, PassphrasesFirst
<1>7. InOrder(n.sigs, Earlier) /\ IsEncrypted(n)
  BY <1>1, <1>3 DEF InOrder, IsEncrypted
<1>8. Good(n, v)
  BY <1>1, <1>3, <1>4, <1>6, <1>7 DEF Good
<1>9. QED
  BY <1>3, <1>4, <1>8 DEF n, v, e

-----------------------------------------------------------------------------
\* PGPKey.encrypt, in place or making a new message.
LEMMA EncryptForKeeps ==
  ASSUME MessageInv, NEW i \in DOMAIN msgs, NEW k \in Key, NEW x \in Secret, EncryptFor(i, k, x)
  PROVE  MessageInv'
<1> DEFINE m == msgs[i]
           w == meant[i]
<1>1. m \in MessageObject /\ w \in Intent /\ Good(m, w)
  BY MessageAt
<1>2. k \in Recipient
  BY DEF Recipient
<1>3. CASE IsEncrypted(m)
  <2> DEFINE n == [m EXCEPT !.esks = Append(m.esks, Esk(k, x))]
             v == [w EXCEPT !.to = w.to \cup {k}]
  <2>1. msgs' = [msgs EXCEPT ![i] = n] /\ meant' = [meant EXCEPT ![i] = v]
    BY <1>3 DEF EncryptFor
  <2> HIDE DEF m, w
  <2>2. n \in MessageObject /\ Addressees(n) = Addressees(m) \cup {k} /\ PassphrasesFirst(n)
    BY <1>1, LastEsk DEF Good
  <2>3. n.sigs = m.sigs /\ n.data = m.data
    BY <1>1 DEF MessageObject
  <2> HIDE DEF n
  <2>4. v \in Intent /\ Good(n, v)
    BY <1>1, <1>2, <1>3, <2>2, <2>3, EskGood
  <2> HIDE DEF v
  <2>5. QED
    BY <2>1, <2>2, <2>4, ReplaceKeeps
<1>4. CASE ~IsEncrypted(m)
  <2> DEFINE n == [Encrypted(m, x) EXCEPT !.esks = <<Esk(k, x)>>]
             v == [w EXCEPT !.to = {k}]
  <2>1. Make(n, v)
    BY <1>4 DEF EncryptFor
  <2> HIDE DEF m, w
  <2>2. {k} \in SUBSET Recipient
    BY <1>2
  <2>3. n \in MessageObject /\ v \in Intent /\ Good(n, v)
    BY <1>1, <1>2, <1>4, <2>2, FirstGood
  <2> HIDE DEF n, v
  <2>4. QED
    BY <2>1, <2>3, MakeKeeps
<1>5. QED
  BY <1>3, <1>4

\* PGPMessage.encrypt, always making a new message.
LEMMA EncryptWithKeeps ==
  ASSUME MessageInv, NEW i \in DOMAIN msgs, NEW p \in Passphrase, NEW x \in Secret,
         EncryptWith(i, p, x)
  PROVE  MessageInv'
<1> DEFINE m == msgs[i]
           w == meant[i]
           v == [w EXCEPT !.to = w.to \cup {p}]
<1>1. m \in MessageObject /\ w \in Intent /\ Good(m, w)
  BY MessageAt
<1>2. p \in Recipient
  BY DEF Recipient
<1>3. CASE IsEncrypted(m)
  <2> DEFINE n == [m EXCEPT !.esks = <<Esk(p, x)>> \o m.esks]
  <2>1. Make(n, v)
    BY <1>3 DEF EncryptWith
  <2> HIDE DEF m, w
  <2>2. n \in MessageObject /\ Addressees(n) = Addressees(m) \cup {p} /\ PassphrasesFirst(n)
    BY <1>1, FirstEsk DEF Good
  <2>3. n.sigs = m.sigs /\ n.data = m.data
    BY <1>1 DEF MessageObject
  <2> HIDE DEF n
  <2>4. v \in Intent /\ Good(n, v)
    BY <1>1, <1>2, <1>3, <2>2, <2>3, EskGood
  <2> HIDE DEF v
  <2>5. QED
    BY <2>1, <2>2, <2>4, MakeKeeps
<1>4. CASE ~IsEncrypted(m)
  <2> DEFINE e == Encrypted(m, x)
             n == [e EXCEPT !.esks = <<Esk(p, x)>> \o m.esks]
  <2>1. Make(n, v)
    BY <1>4 DEF EncryptWith
  <2> HIDE DEF m, w
  <2>2. /\ e \in MessageObject /\ IsEncrypted(e) /\ e.sigs = <<>>
        /\ w.form = "literal" =>
             e.data.inside.form = "literal" /\ ToSet(e.data.inside.sigs) = w.sigs
    BY <1>1, <1>4, EncryptedHolds
  <2> HIDE DEF e
  <2> DEFINE q == [m EXCEPT !.esks = <<Esk(p, x)>> \o m.esks]
  <2>3. q \in MessageObject /\ Addressees(q) = Addressees(m) \cup {p} /\ PassphrasesFirst(q)
    BY <1>1, FirstEsk DEF Good
  <2>4. q.esks = <<Esk(p, x)>> \o m.esks
    BY <1>1 DEF MessageObject
  <2> HIDE DEF q
  <2>5. n \in MessageObject /\ n.sigs = <<>> /\ n.data = e.data /\ n.esks = q.esks
    BY <2>2, <2>3, <2>4 DEF MessageObject
  <2> HIDE DEF n
  <2>6. /\ Addressees(n) = w.to \cup {p} /\ PassphrasesFirst(n) /\ IsEncrypted(n)
        /\ InOrder(n.sigs, Earlier)
    <3>1. Addressees(n) = Addressees(q) /\ PassphrasesFirst(n)
      BY <2>3, <2>5 DEF Addressees, PassphrasesFirst
    <3>2. Addressees(q) = w.to \cup {p}
      BY <1>1, <2>3 DEF Good
    <3>3. IsEncrypted(n)
      BY <2>2, <2>5 DEF IsEncrypted
    <3>4. InOrder(n.sigs, Earlier)
      BY <2>5 DEF InOrder
    <3>5. QED
      BY <3>1, <3>2, <3>3, <3>4
  <2>7. v \in Intent /\ v.to = w.to \cup {p} /\ v.form = w.form /\ v.sigs = w.sigs
    BY <1>1, <1>2 DEF Intent
  <2> HIDE DEF v
  <2>8. Good(n, v)
    BY <2>2, <2>5, <2>6, <2>7 DEF Good
  <2>9. QED
    BY <2>1, <2>5, <2>7, <2>8, MakeKeeps
<1>5. QED
  BY <1>3, <1>4

\* What is decrypted is a message that the caller meant as it came out.
LEMMA DecryptKeeps ==
  ASSUME MessageInv, NEW i \in DOMAIN msgs, NEW r \in Recipient, Decrypt(i, r)
  PROVE  MessageInv'
<1>1. msgs[i] \in MessageObject
  BY MessageAt
<1>2a. PICK outcome \in Outcomes(msgs[i], r) : \E c \in outcome :
         Make(Plain(c), [to |-> {}, form |-> c.form, sigs |-> ToSet(c.sigs)])
  BY DEF Decrypt
<1>2. PICK c \in outcome : Make(Plain(c), [to |-> {}, form |-> c.form, sigs |-> ToSet(c.sigs)])
  BY <1>2a
<1>3. \E x : c \in Read(msgs[i], x)
  BY <1>2a, <1>2 DEF Outcomes, DecryptWith, DecryptFor
<1>4. c = [form |-> msgs[i].data.inside.form, sigs |-> PutSigs(msgs[i].data.inside.sigs)]
  BY <1>3 DEF Read
<1>5. msgs[i].data.inside.form \in Form /\ msgs[i].data.inside.sigs \in Seq(Sig)
  BY <1>1 DEF MessageObject, EncryptedData, Contents
<1>6. c \in Contents /\ InOrder(c.sigs, Earlier)
  BY <1>4, <1>5, PutSigsFacts DEF Contents
<1> DEFINE w == [to |-> {}, form |-> c.form, sigs |-> ToSet(c.sigs)]
<1>7. Plain(c) \in MessageObject /\ w \in Intent /\ Good(Plain(c), w)
  BY <1>6, PlainGood
<1>8. Make(Plain(c), w)
  BY <1>2
<1> HIDE DEF w
<1>9. QED
  BY <1>7, <1>8, MakeKeeps

\* Every step keeps the messages good.
LEMMA MessageStep ==
  ASSUME MessageInv, [Next]_vars
  PROVE  MessageInv'
<1>1. ASSUME NEW form \in Form \ {"none"}, New(form)
      PROVE  MessageInv'
  <2> DEFINE c == [form |-> form, sigs |-> <<>>]
             w == [to |-> {}, form |-> c.form, sigs |-> ToSet(c.sigs)]
  <2>1. c \in Contents /\ InOrder(c.sigs, Earlier) /\ ToSet(c.sigs) = {}
    BY DEF Contents, InOrder, ToSet
  <2>2. Make(Plain(c), w)
    BY <1>1, <2>1 DEF New
  <2>3. Plain(c) \in MessageObject /\ w \in Intent /\ Good(Plain(c), w)
    BY <2>1, PlainGood
  <2> HIDE DEF c, w
  <2>4. QED
    BY <2>2, <2>3, MakeKeeps
<1>2. ASSUME NEW i \in DOMAIN msgs, NEW s \in Sig, Sign(i, s)
      PROVE  MessageInv'
  <2> DEFINE m == msgs[i]
             w == meant[i]
             n == [m EXCEPT !.sigs = PutSig(m.sigs, s)]
             v == IF IsEncrypted(m) THEN w ELSE [w EXCEPT !.sigs = w.sigs \cup {s}]
  <2>1. m \in MessageObject /\ w \in Intent /\ Good(m, w)
    BY MessageAt
  <2>2. msgs' = [msgs EXCEPT ![i] = n]
    BY <1>2 DEF Sign
  <2>3. meant' = [meant EXCEPT ![i] = v]
    <3>1. DOMAIN meant = DOMAIN msgs /\ meant \in Seq(Intent)
      BY DEF MessageInv, TypeOK
    <3>2. CASE IsEncrypted(m)
      BY <1>2, <3>1, <3>2 DEF Sign
    <3>3. CASE ~IsEncrypted(m)
      BY <1>2, <3>3 DEF Sign
    <3>4. QED
      BY <3>2, <3>3
  <2> HIDE DEF m, w
  <2>4. n \in MessageObject /\ v \in Intent /\ Good(n, v)
    BY <2>1, SignGood
  <2> HIDE DEF n, v
  <2>5. QED
    BY <2>2, <2>3, <2>4, ReplaceKeeps
<1>3. ASSUME NEW i \in DOMAIN msgs, Copy(i)
      PROVE  MessageInv'
  <2> DEFINE m == msgs[i]
             w == meant[i]
             framed == ~IsEncrypted(m)
             n == [m EXCEPT !.sigs = PutSigs(m.sigs), !.data.framed = framed]
  <2>1. m \in MessageObject /\ w \in Intent /\ Good(m, w) /\ framed \in BOOLEAN
    BY MessageAt DEF IsEncrypted
  <2>2. Make(n, w)
    BY <1>3 DEF Copy
  <2> HIDE DEF m, w, framed
  <2>3. n \in MessageObject /\ Good(n, w)
    BY <2>1, CopyGood
  <2> HIDE DEF n
  <2>4. QED
    BY <2>1, <2>2, <2>3, MakeKeeps
<1>4. ASSUME NEW i \in DOMAIN msgs, SaveAndReload(i)
      PROVE  MessageInv'
  <2> DEFINE m == msgs[i]
             w == meant[i]
             n == [m EXCEPT !.sigs = PutSigs(m.sigs)]
  <2>1. m \in MessageObject /\ w \in Intent /\ Good(m, w)
    BY MessageAt
  <2>2. msgs' = [msgs EXCEPT ![i] = n] /\ meant' = [meant EXCEPT ![i] = w]
    BY <1>4 DEF SaveAndReload, MessageInv, TypeOK
  <2> HIDE DEF m, w
  <2>3. n \in MessageObject /\ Good(n, w)
    BY <2>1, ReloadGood
  <2> HIDE DEF n
  <2>4. QED
    BY <2>1, <2>2, <2>3, ReplaceKeeps
<1>5. CASE UNCHANGED vars
  BY <1>5 DEF vars, MessageInv, TypeOK
<1>6. QED
  BY <1>1, <1>2, <1>3, <1>4, <1>5, EncryptForKeeps, EncryptWithKeeps, DecryptKeeps DEF Next

\* Messages stay good: typed, in order, addressed and filled as the caller meant them.
THEOREM MessagesGood == Spec => []MessageInv
<1>1. Init => MessageInv
  BY DEF Init, MessageInv, TypeOK
<1>2. MessageInv /\ [Next]_vars => MessageInv'
  BY MessageStep
<1>3. QED
  BY <1>1, <1>2, PTL DEF Spec

\* Every variable stays within its type.
THEOREM TypeCorrect == Spec => []TypeOK
<1>1. MessageInv => TypeOK
  BY DEF MessageInv
<1>2. QED
  BY <1>1, MessagesGood, PTL

\* Signatures stay in the order of their creation times, through every operation.
THEOREM InOrderAlways == Spec => []SignaturesInOrder
<1>1. MessageInv => SignaturesInOrder
  <2> SUFFICES ASSUME MessageInv, NEW m \in ToSet(msgs), NEW j \in DOMAIN m.sigs,
                      NEW k \in DOMAIN m.sigs, j < k
               PROVE  Time[m.sigs[j]] <= Time[m.sigs[k]]
    BY DEF SignaturesInOrder
  <2>1. PICK i \in DOMAIN msgs : m = msgs[i]
    BY DEF ToSet
  <2>2. m \in MessageObject /\ InOrder(m.sigs, Earlier)
    BY <2>1, MessageAt DEF Good
  <2>3. m.sigs[j] \in Sig /\ m.sigs[k] \in Sig
    BY <2>2 DEF MessageObject
  <2>4. ~Earlier[<<m.sigs[k], m.sigs[j]>>]
    BY <2>2 DEF InOrder
  <2>5. ~(Time[m.sigs[k]] < Time[m.sigs[j]])
    BY <2>3, <2>4 DEF Earlier
  <2>6. Time[m.sigs[j]] \in Nat /\ Time[m.sigs[k]] \in Nat
    BY <2>3, MessageAssumption
  <2>7. QED
    BY <2>5, <2>6
<1>2. QED
  BY <1>1, MessagesGood, PTL

-----------------------------------------------------------------------------
(***************************************************************************)
(* Who reads what.                                                         *)
(***************************************************************************)
\* What a good message holds, read with any secret, is what was meant.
LEMMA ReadsAsMeant ==
  ASSUME MessageInv, NEW i \in DOMAIN msgs, NEW x, NEW c \in Read(msgs[i], x)
  PROVE  meant[i].form = "literal" => AsMeant(i, c)
<1>1. msgs[i] \in MessageObject /\ Good(msgs[i], meant[i])
  BY MessageAt
<1>2. /\ msgs[i].data.secret = {x}
      /\ c = [form |-> msgs[i].data.inside.form, sigs |-> PutSigs(msgs[i].data.inside.sigs)]
  BY DEF Read
<1>3. msgs[i].data.inside.sigs \in Seq(Sig) /\ IsEncrypted(msgs[i])
  BY <1>1, <1>2 DEF MessageObject, EncryptedData, Contents, IsEncrypted
<1>4. c.form = msgs[i].data.inside.form /\ ToSet(c.sigs) = ToSet(msgs[i].data.inside.sigs)
  BY <1>2, <1>3, PutSigsFacts
<1>5. QED
  BY <1>1, <1>3, <1>4 DEF Good, AsMeant

\* Only recipients read a message, and they find what was encrypted.
THEOREM OnlyRecipientsAlways == Spec => []OnlyRecipientsRead
<1>1. MessageInv => OnlyRecipientsRead
  <2> SUFFICES ASSUME MessageInv, NEW i \in DOMAIN msgs, NEW r \in Recipient,
                      NEW outcome \in Outcomes(msgs[i], r), NEW c \in outcome
               PROVE  /\ meant[i].form = "literal" => AsMeant(i, c)
                      /\ \E t \in meant[i].to :
                           t = r \/ ({t, r} \subseteq Key /\ OwnerOf[t] = OwnerOf[r])
    BY DEF OnlyRecipientsRead
  <2> DEFINE m == msgs[i]
  <2>1. Addressees(m) = meant[i].to
    BY MessageAt DEF Good
  <2>2. CASE r \in Passphrase
    <3>1. outcome = DecryptWith(m, r)
      BY <2>2 DEF Outcomes
    <3>2. PICK j \in DOMAIN m.esks : m.esks[j].to = r /\ c \in Read(m, m.esks[j].secret)
      BY <3>1 DEF DecryptWith
    <3>3. r \in meant[i].to
      BY <2>1, <3>2 DEF Addressees
    <3>4. QED
      BY <3>2, <3>3, ReadsAsMeant
  <2>3. CASE r \notin Passphrase
    <3>1. r \in Key
      BY <2>3 DEF Recipient
    <3>2. PICK k \in KeysFor(m, OwnerOf[r]) : outcome = DecryptFor(m, k)
      BY <2>3 DEF Outcomes
    <3>3. k \in Key /\ OwnerOf[k] = OwnerOf[r] /\ \E j \in DOMAIN m.esks : m.esks[j].to = k
      BY <3>2 DEF KeysFor
    <3>4. k \in meant[i].to
      BY <2>1, <3>3 DEF Addressees
    <3>5. \E x : c \in Read(m, x)
      BY <3>2 DEF DecryptFor
    <3>6. {k, r} \subseteq Key
      BY <3>1, <3>3
    <3>7. QED
      BY <3>3, <3>4, <3>5, <3>6, ReadsAsMeant
  <2>4. QED
    BY <2>2, <2>3
<1>2. QED
  BY <1>1, MessagesGood, PTL

\* The packet that the decryption for a key takes is the first that it can take.
LEMMA FirstHit ==
  ASSUME NEW m \in MessageObject, NEW k,
         \E j \in DOMAIN m.esks : m.esks[j].to \in Passphrase \cup {k}
  PROVE  \E j \in DOMAIN m.esks :
           /\ m.esks[j].to \in Passphrase \cup {k}
           /\ \A h \in DOMAIN m.esks : m.esks[h].to \in Passphrase \cup {k} => j <= h
           /\ DecryptFor(m, k) = IF m.esks[j].to # k THEN {} ELSE Read(m, m.esks[j].secret)
<1> DEFINE hit == {j \in DOMAIN m.esks : m.esks[j].to \in Passphrase \cup {k}}
           First(j) == j \in hit /\ \A h \in hit : j <= h
           i == CHOOSE j \in hit : \A h \in hit : j <= h
<1>1. DOMAIN m.esks = 1 .. Len(m.esks) /\ Len(m.esks) \in Nat
  BY DEF MessageObject
<1>2. hit \in SUBSET Nat /\ hit # {}
  BY <1>1
<1>3. \E j \in hit : \A h \in hit : j <= h
  <2> HIDE DEF hit
  <2> QED
    BY <1>2, LeastNatural
<1>4. i \in hit /\ \A h \in hit : i <= h
  <2> HIDE DEF hit
  <2> QED
    BY <1>3
<1>5. DecryptFor(m, k) = IF hit = {} \/ m.esks[i].to # k THEN {} ELSE Read(m, m.esks[i].secret)
  BY DEF DecryptFor
<1> HIDE DEF i
<1>6. QED
  BY <1>2, <1>4, <1>5

\* Of a message encrypted under one secret, what each recipient's packet yields is what
\* was meant.
LEMMA PacketsRead ==
  ASSUME MessageInv, NEW i \in DOMAIN msgs, Readable(i), NEW j \in DOMAIN msgs[i].esks
  PROVE  \E c \in Read(msgs[i], msgs[i].esks[j].secret) : AsMeant(i, c)
<1> DEFINE m == msgs[i]
<1>1. m.data.secret = {m.esks[j].secret} /\ IsEncrypted(m) /\ meant[i].form = "literal"
  BY DEF Readable, Consistent, ToSet
<1>2. \E c : c \in Read(m, m.esks[j].secret)
  BY <1>1 DEF Read
<1>3. QED
  BY <1>1, <1>2, ReadsAsMeant

\* A key among the recipients: who decrypts for it.
LEMMA KeyOutcomes ==
  ASSUME MessageInv, NEW i \in DOMAIN msgs, NEW r \in meant[i].to, r \in Key
  PROVE  /\ KeysFor(msgs[i], OwnerOf[r]) # {}
         /\ Outcomes(msgs[i], r) = {DecryptFor(msgs[i], k) : k \in KeysFor(msgs[i], OwnerOf[r])}
         /\ \A k \in KeysFor(msgs[i], OwnerOf[r]) :
              k \in Key /\ k \notin Passphrase /\ \E j \in DOMAIN msgs[i].esks : msgs[i].esks[j].to = k
<1> DEFINE m == msgs[i]
<1>1. \E j \in DOMAIN m.esks : m.esks[j].to = r
  BY MessageAt DEF Good, Addressees
<1>2. KeysFor(m, OwnerOf[r]) # {} /\ r \notin Passphrase
  BY <1>1, MessageAssumption DEF KeysFor
<1>3. Outcomes(m, r) = {DecryptFor(m, k) : k \in KeysFor(m, OwnerOf[r])}
  BY <1>2 DEF Outcomes
<1>4. ASSUME NEW k \in KeysFor(m, OwnerOf[r])
      PROVE  k \in Key /\ k \notin Passphrase /\ \E j \in DOMAIN m.esks : m.esks[j].to = k
  BY MessageAssumption DEF KeysFor
<1>5. QED
  BY <1>2, <1>3, <1>4

\* Every passphrase, and every key where all recipients are keys, reads what was
\* encrypted under one secret (PGPMessage.decrypt, PGPKey.decrypt).
THEOREM EveryRecipientAlways == Spec => []EveryRecipientReads
<1>1. MessageInv => EveryRecipientReads
  <2> SUFFICES ASSUME MessageInv, NEW i \in DOMAIN msgs, Readable(i), NEW r \in meant[i].to,
                      r \in Passphrase \/ meant[i].to \subseteq Key
               PROVE  Reads(i, r)
    BY DEF EveryRecipientReads
  <2> DEFINE m == msgs[i]
             to == meant[i].to
  <2>1. m \in MessageObject /\ meant[i] \in Intent /\ Addressees(m) = to
    BY MessageAt DEF Good
  <2>2. \E j \in DOMAIN m.esks : m.esks[j].to = r
    BY <2>1 DEF Addressees
  <2>3. \A j \in DOMAIN m.esks : \E c \in Read(m, m.esks[j].secret) : AsMeant(i, c)
    BY PacketsRead
  <2>4. CASE r \in Passphrase
    <3>1. Outcomes(m, r) = {DecryptWith(m, r)}
      BY <2>4 DEF Outcomes
    <3>2. \E c \in DecryptWith(m, r) : AsMeant(i, c)
      BY <2>2, <2>3 DEF DecryptWith
    <3>3. QED
      BY <3>1, <3>2 DEF Reads
  <2>5. CASE to \subseteq Key
    <3>1. ASSUME NEW k \in KeysFor(m, OwnerOf[r])
          PROVE  \E c \in DecryptFor(m, k) : AsMeant(i, c)
      <4>1. k \in Key /\ \E j \in DOMAIN m.esks : m.esks[j].to = k
        BY <2>5, KeyOutcomes
      <4>2. PICK j \in DOMAIN m.esks :
              /\ m.esks[j].to \in Passphrase \cup {k}
              /\ DecryptFor(m, k) = IF m.esks[j].to # k THEN {} ELSE Read(m, m.esks[j].secret)
        BY <2>1, <4>1, FirstHit
      <4>3. m.esks[j].to \in Key
        BY <2>1, <2>5 DEF Addressees
      <4>4. m.esks[j].to = k
        BY <4>2, <4>3, MessageAssumption
      <4>5. QED
        BY <2>3, <4>2, <4>4
    <3>2. Outcomes(m, r) = {DecryptFor(m, k) : k \in KeysFor(m, OwnerOf[r])}
      BY <2>5, KeyOutcomes
    <3>3. QED
      BY <3>1, <3>2 DEF Reads
  <2>6. QED
    BY <2>4, <2>5
<1>2. QED
  BY <1>1, MessagesGood, PTL

\* How far the code is from EveryoneReads: once a passphrase is among the recipients, no
\* key decrypts the message.
KeysShutOut ==
  \A i \in DOMAIN msgs : \A r \in meant[i].to :
    r \in Key /\ ~(meant[i].to \subseteq Key) => Outcomes(msgs[i], r) = {{}}

\* The disagreement that EveryoneReads shows is no matter of the order of recipients: in
\* no order of encrypting, merging and copying can a key decrypt what a passphrase can
\* (pkalg of every packet that PGPKey.decrypt passes, PGPMessage.__or__).
THEOREM KeysAlwaysShutOut == Spec => []KeysShutOut
<1>1. MessageInv => KeysShutOut
  <2> SUFFICES ASSUME MessageInv, NEW i \in DOMAIN msgs, NEW r \in meant[i].to,
                      r \in Key, ~(meant[i].to \subseteq Key)
               PROVE  Outcomes(msgs[i], r) = {{}}
    BY DEF KeysShutOut
  <2> DEFINE m == msgs[i]
             to == meant[i].to
  <2>1. /\ m \in MessageObject /\ meant[i] \in Intent
        /\ Addressees(m) = to /\ PassphrasesFirst(m)
    BY MessageAt DEF Good
  <2>2. PICK h \in DOMAIN m.esks : m.esks[h].to \in Passphrase
    <3>1. to \subseteq Recipient
      BY <2>1 DEF Intent
    <3>2. \E p \in to : p \in Passphrase
      BY <3>1 DEF Recipient
    <3>3. QED
      BY <2>1, <3>2 DEF Addressees
  <2>3. ASSUME NEW k \in KeysFor(m, OwnerOf[r])
        PROVE  DecryptFor(m, k) = {}
    <3>1. k \notin Passphrase /\ \E j \in DOMAIN m.esks : m.esks[j].to = k
      BY KeyOutcomes, <2>3
    <3>2. PICK j \in DOMAIN m.esks :
            /\ \A g \in DOMAIN m.esks : m.esks[g].to \in Passphrase \cup {k} => j <= g
            /\ DecryptFor(m, k) = IF m.esks[j].to # k THEN {} ELSE Read(m, m.esks[j].secret)
      BY <2>1, <3>1, FirstHit
    <3>3. j <= h
      BY <2>2, <3>2
    <3>4. DOMAIN m.esks = 1 .. Len(m.esks)
      BY <2>1 DEF MessageObject
    <3>5. j = h \/ j < h
      BY <3>3, <3>4
    <3>6. m.esks[j].to \in Passphrase
      BY <2>1, <2>2, <3>5 DEF PassphrasesFirst
    <3>7. QED
      BY <3>1, <3>2, <3>6
  <2>4. KeysFor(m, OwnerOf[r]) # {}
    BY KeyOutcomes
  <2>5. Outcomes(m, r) = {DecryptFor(m, k) : k \in KeysFor(m, OwnerOf[r])}
    BY KeyOutcomes
  <2>6. QED
    BY <2>3, <2>4, <2>5
<1>2. QED
  BY <1>1, MessagesGood, PTL
=============================================================================
