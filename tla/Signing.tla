------------------------------ MODULE Signing ------------------------------
(***************************************************************************)
(* The signatures PGPKey makes (sign, certify, revoke, add_uid,            *)
(* add_subkey/bind), what each is computed over (PGPSignature.hashdata),   *)
(* and PGPKey.verify: which signatures it collects, the key that verifies  *)
(* each, and the issues that make it fail without a look at the signature. *)
(*                                                                         *)
(* The hash of data stands for the data, and a signature is good for a key *)
(* and data if that key signed that data.  Signatures are numbered in the  *)
(* order they are made in; they do not expire, keys do.  User IDs are      *)
(* always self-signed, none is marked primary (UserIds has both).          *)
(***************************************************************************)
EXTENDS SorteDeque, FiniteSetsExt

CONSTANTS
  Primary, Sub,     \* keys; those of Sub can be subkeys, and can sign
  Uid, Doc,         \* User IDs; documents to sign
  FirstUid,         \* FirstUid[k]: the User ID that k starts with, None if it has none yet
  FlagSign,         \* the primary keys whose certifications of themselves give the Sign flag
  Short,            \* keys with an issue of their own: shorter than recommended, ...
  None,
  MaxSigs, MaxTime  \* bounds on the signatures made and on the clock

Key == Primary \cup Sub
Thing == Key \cup Uid \cup Doc

ASSUME SigningAssumption ==
  /\ IsFiniteSet(Primary)
  /\ Primary \cap Sub = {} /\ Uid \cap Key = {} /\ Doc \cap (Uid \cup Key) = {}
  /\ FirstUid \in [Primary -> Uid \cup {None}]
  /\ \A j, k \in Primary : FirstUid[j] = FirstUid[k] => j = k \/ FirstUid[j] = None
  /\ FlagSign \subseteq Primary /\ Short \subseteq Key
  /\ None \notin Thing
  /\ MaxSigs \in Nat /\ MaxTime \in Nat

\* BinaryDocument, Generic_Cert .. Positive_Cert, CertRevocation, Attestation,
\* DirectlyOnKey, KeyRevocation, SubkeyRevocation, Subkey_Binding, PrimaryKey_Binding
Type == {"doc", "cert", "certrev", "attest", "direct", "keyrev", "subrev", "bind", "pkbind"}

\* Key expiration dates that are given: 0 for none.
Expiry == 0 .. MaxTime

VARIABLES
  owner,     \* the parent of a User ID or subkey
  uids,      \* _uids of the primary keys
  children,  \* the subkeys of each key
  made,      \* the signatures made.  over and whose, which the code does not keep, are
             \* what the caller wanted it signed and its parent at that time
  on,        \* on[x]: _signatures of x, by number
  now

Made == [type : Type, by : Key, data : Seq(Thing), time : Nat, exp : Expiry,
         lists : SUBSET Nat, over : Thing, whose : Primary \cup {None}]

vars == <<owner, uids, children, made, on, now>>

OwnerOf(x) == IF x \in DOMAIN owner THEN owner[x] ELSE None

-----------------------------------------------------------------------------
\* Mutant of Hashed: a certification is computed over the User ID only.
HashedUidOnly(type, by, x) ==
  CASE type \in {"cert", "certrev"} -> <<x>>
    [] type \in {"bind", "pkbind"} -> IF x \in Primary THEN <<x, by>> ELSE <<owner[x], x>>
    [] type = "subrev" -> <<owner[x], x>>
    [] type = "attest" -> <<>>
    [] OTHER -> <<x>>

\* hashdata of a signature of this type by this key for x.  Its type and its hashed
\* subpackets are hashed too.  Attestations have no branch of their own.
Hashed(type, by, x) ==
  CASE type \in {"cert", "certrev"} -> <<owner[x], x>>
    [] type \in {"bind", "pkbind"} -> IF x \in Primary THEN <<x, by>> ELSE <<owner[x], x>>
    [] type = "subrev" -> <<owner[x], x>>
    [] type = "attest" -> <<>>
    [] OTHER -> <<x>>

Signature(type, by, x, over, exp, lists) ==
  [type |-> type, by |-> by, data |-> Hashed(type, by, x), time |-> now, exp |-> exp,
   lists |-> lists, over |-> over, whose |-> OwnerOf(over)]

\* Mutant of Selfsig: whoever made the signature.
SelfsigOfAnyone(u) == IF on[u] = <<>> THEN {} ELSE {Last(on[u])}

\* PGPUID.selfsig, of any type, as {} or {its number}
Selfsig(u) ==
  LET self == {i \in DOMAIN on[u] : made[on[u][i]].by = owner[u]}
  IN  IF self = {} THEN {} ELSE {on[u][Max(self)]}

\* PGPUID.__lt__ for two User IDs that are not primary
Lt(u, v) ==
  IF Selfsig(u) = {} THEN Selfsig(v) # {}
  ELSE \A m \in Selfsig(u) : \E n \in Selfsig(v) : made[n].time < made[m].time

Ranked == [p \in Uid \X Uid |-> Lt(p[1], p[2])]

Init ==
  /\ owner = [x \in Uid \cup Sub |->
                IF \E k \in Primary : FirstUid[k] = x
                THEN CHOOSE k \in Primary : FirstUid[k] = x ELSE None]
  /\ uids = [k \in Primary |-> IF FirstUid[k] = None THEN <<>> ELSE <<FirstUid[k]>>]
  /\ children = [k \in Key |-> <<>>]
  /\ now = 0
  /\ made = LET ks == SetToSeq({k \in Primary : FirstUid[k] # None})
            IN  [i \in DOMAIN ks |->
                   Signature("cert", ks[i], FirstUid[ks[i]], FirstUid[ks[i]], 0, {})]
  /\ on = [x \in Thing |->
             IF \E i \in DOMAIN made : made[i].over = x
             THEN <<CHOOSE i \in DOMAIN made : made[i].over = x>> ELSE <<>>]

-----------------------------------------------------------------------------
(***************************************************************************)
(* Making signatures and attaching them: x |= signature.                   *)
(***************************************************************************)
Earlier == [p \in (DOMAIN made) \X (DOMAIN made) |-> made[p[1]].time < made[p[2]].time]
PutSig(q, n) == Insort(q, n, Earlier')

Room(n) == Len(made) + n <= MaxSigs

\* The User ID x, if it is one and belongs to a key, is sorted again.
Resorted(x) ==
  IF OwnerOf(x) \in Primary /\ x \in Uid
  THEN [uids EXCEPT ![owner[x]] = Resort(@, x, Ranked')]
  ELSE uids

\* by signs x; the signature is put on at, which may be another User ID or document.
SignAndAttach(type, by, x, at, exp, lists) ==
  /\ Room(1)
  /\ made' = Append(made, Signature(type, by, x, x, exp, lists))
  /\ on' = [on EXCEPT ![at] = PutSig(@, Len(made'))]
  /\ UNCHANGED <<owner, children, now>>
  /\ uids' = Resorted(at)

\* KeyAction: a key without User ID can do nothing but certify.
Complete(k) == uids[k] # <<>>

\* key.certify(uid): a key expiration date only in self-certifications.
Certify(k, u, at, exp) ==
  /\ owner[u] # None
  /\ exp # 0 => owner[u] = k
  /\ SignAndAttach("cert", k, u, at, exp, {})

\* key.certify(another key, or itself)
CertifyKey(k, x) == SignAndAttach("direct", k, x, x, 0, {})

ThirdParty(u) == {n \in ToSet(on[u]) : made[n].by # owner[u]}

\* key.certify(uid, Attestation, attested_certifications=...): only certifications and
\* their revocations are listed.
Attest(k, u, at, lists) ==
  /\ owner[u] = k
  /\ \A n \in lists : made[n].type \in {"cert", "certrev"}
  /\ SignAndAttach("attest", k, u, at, 0, lists)

\* key.revoke
Revoke(k, x, at) ==
  /\ Complete(k)
  /\ x \notin Primary => owner[x] # None
  /\ SignAndAttach(IF x \in Uid THEN "certrev" ELSE IF x \in Primary THEN "keyrev" ELSE "subrev",
                   k, x, at, 0, {})

\* The self-signature of the first User ID gives the flags, and a revocation has none.
HasSignFlag(k) ==
  k \in FlagSign /\ \A n \in Selfsig(uids[k][1]) : made[n].type # "certrev"

\* Which key sign uses: the key itself or its first subkey, all of which can sign.
Signer(k) == IF HasSignFlag(k) THEN {k} ELSE IF children[k] = <<>> THEN {} ELSE {children[k][1]}

SignDoc(k, d, at) ==
  /\ Complete(k)
  /\ \E s \in Signer(k) : SignAndAttach("doc", s, d, at, 0, {})

\* key.add_uid(u): u is signed before it is put into the deque.
AddUid(k, u, exp) ==
  /\ owner[u] = None /\ Room(1)
  /\ UNCHANGED <<children, now>>
  /\ owner' = [owner EXCEPT ![u] = k]
  /\ made' = Append(made, Signature("cert", k, u, u, exp, {})')
  /\ on' = [on EXCEPT ![u] = PutSig(@, Len(made'))]
  /\ uids' = [uids EXCEPT ![k] = Insort(@, u, Ranked')]

\* Mutant of DelUid: the User ID keeps its parent.
DelUidKeepsParent(k, u) ==
  /\ owner[u] = k
  /\ uids' = [uids EXCEPT ![k] = RemoveFirst(@, u)]
  /\ UNCHANGED <<owner, children, made, on, now>>

\* key.del_uid(u).  (Bound: while there is room for a signature.)
DelUid(k, u) ==
  /\ owner[u] = k /\ Room(1)
  /\ owner' = [owner EXCEPT ![u] = None]
  /\ uids' = [uids EXCEPT ![k] = RemoveFirst(@, u)]
  /\ UNCHANGED <<children, made, on, now>>

\* key.add_subkey(s), which another key may have already: s becomes a child of k first;
\* a key without User ID goes no further.  Then the cross-signature is made, over the
\* primary key, and is embedded in the binding signature.  (Bound: calls that go no
\* further are made while there is room for a signature.)
AddSubkey(k, s) ==
  /\ UNCHANGED <<uids, now>>
  /\ owner' = [owner EXCEPT ![s] = k]
  /\ children' = [children EXCEPT ![k] = IF s \in ToSet(@) THEN @ ELSE Append(@, s)]
  /\ IF Complete(k)
     THEN /\ Room(2)
          /\ made' = made \o <<Signature("pkbind", s, k, s, 0, {})',
                               Signature("bind", k, s, s, 0, {})'>>
          /\ on' = [on EXCEPT ![s] = PutSig(PutSig(@, Len(made')), Len(made') - 1)]
     ELSE Room(1) /\ UNCHANGED <<made, on>>

Tick ==
  /\ now < MaxTime
  /\ now' = now + 1
  /\ UNCHANGED <<owner, uids, children, made, on>>

Next ==
  \/ \E k \in Primary :
       \/ \E u, at \in Uid :
            \/ \E exp \in Expiry : Certify(k, u, at, exp)
            \/ \E lists \in SUBSET ThirdParty(u) : Attest(k, u, at, lists)
            \/ Revoke(k, u, at)
       \/ \E x \in Key : CertifyKey(k, x) \/ Revoke(k, x, x)
       \/ \E d, at \in Doc : SignDoc(k, d, at)
       \/ \E u \in Uid : DelUid(k, u) \/ \E exp \in Expiry : AddUid(k, u, exp)
       \/ \E s \in Sub : AddSubkey(k, s)
  \/ Tick

Spec == Init /\ [][Next]_vars

-----------------------------------------------------------------------------
(***************************************************************************)
(* Verification.                                                           *)
(***************************************************************************)
\* expires_at: of the last User ID whose self-signature has a date (0: never).
ExpiresAt(k) ==
  LET dated == {i \in DOMAIN uids[k] : \E n \in Selfsig(uids[k][i]) : made[n].exp # 0}
  IN  IF dated = {} THEN 0 ELSE made[CHOOSE n \in Selfsig(uids[k][Max(dated)]) : TRUE].exp

\* A subkey has no User IDs.
IsExpired(k) == k \in Primary /\ ExpiresAt(k) # 0 /\ ExpiresAt(k) <= now

\* revocation_signatures is not empty
IsRevoked(k) ==
  \E n \in ToSet(on[k]) :
    IF k \in Primary THEN made[n].type = "keyrev" /\ made[n].by = k
                     ELSE made[n].type = "subrev" /\ made[n].by = owner[k]

\* check_soundness
Issues(k) == (IF k \in Short THEN {"TooShort"} ELSE {})
              \cup (IF IsRevoked(k) THEN {"Revoked"} ELSE {})
              \cup (IF IsExpired(k) THEN {"Expired"} ELSE {})

\* causes_signature_verify_to_fail: the issues are one of the failing ones, alone.
CausesFailure(issues) == issues = {"Expired"}

\* What verify(x) collects for key k, as pairs of a signature and its subject.
Collected(k, x) ==
  LET things == {x} \cup (IF x \in Primary THEN ToSet(uids[x] \o children[x]) ELSE {})
      ids == {k} \cup ToSet(children[k])
  IN  UNION {{<<n, y>> : n \in {m \in ToSet(on[y]) : made[m].by \in ids}} : y \in things}

\* A subkey verifies what it made.
Verifier(k, n) == IF made[n].by \in ToSet(children[k]) THEN made[n].by ELSE k

\* The issues verify records for signature n on x
Outcome(k, n, x) ==
  LET v == Verifier(k, n)
  IN  IF CausesFailure(Issues(v)) THEN "Expired"
      ELSE IF made[n].type \in {"cert", "certrev"} /\ owner[x] = None THEN "AttributeError"
      ELSE IF made[n].by = v /\ made[n].data = Hashed(made[n].type, made[n].by, x) THEN "OK"
      ELSE "WrongSig"

\* Mutant of CurrentAttestations: earlier ones are kept.
CurrentAttestationsKept(u) ==
  SelectSeq(on[u], LAMBDA n : /\ made[n].type = "attest" /\ made[n].by = owner[u]
                              /\ Outcome(owner[u], n, u) = "OK")

\* attested_to: the owner's latest attestations, as the loop over _signatures finds them
CurrentAttestations(u) ==
  LET Own(n) == /\ made[n].type = "attest" /\ made[n].by = owner[u]
                /\ Outcome(owner[u], n, u) = "OK"
      Step(latest, n) ==
        IF ~Own(n) THEN latest
        ELSE IF latest = <<>> \/ made[n].time > made[Head(latest)].time THEN <<n>>
        ELSE IF made[n].time = made[Head(latest)].time THEN Append(latest, n) ELSE latest
  IN  FoldLeft(Step, <<>>, on[u])

\* attested_third_party_certifications
Attested(u) ==
  IF owner[u] = None THEN {}
  ELSE {c \in ThirdParty(u) : \E a \in ToSet(CurrentAttestations(u)) : c \in made[a].lists}

-----------------------------------------------------------------------------
TypeOK ==
  /\ owner \in [Uid \cup Sub -> Primary \cup {None}]
  /\ uids \in [Primary -> Seq(Uid)]
  /\ children \in [Key -> Seq(Sub)]
  /\ now \in Nat /\ made \in Seq(Made)
  /\ \A n \in DOMAIN made : made[n].time <= now /\ made[n].lists \subseteq 1 .. n - 1
  /\ on \in [Thing -> Seq(DOMAIN made)]
  /\ \A k \in Primary :
       IsInjective(uids[k]) /\ \A u \in Uid : u \in ToSet(uids[k]) <=> owner[u] = k

\* Whatever is attached to what, and wherever User IDs and subkeys were moved, verify
\* finds a signature good if and only if its maker made it over the very thing it is
\* found on, with the parent it has, and the maker's expiry alone does not fail it:
\* subkey and embedded cross-signatures included, attestations left out (they are
\* good for anything), and parents do not matter to what is signed without them.
GoodIffSigned ==
  \A k \in Primary : \A pair \in UNION {Collected(k, x) : x \in Thing} :
    LET s == made[pair[1]]
        same == s.over = pair[2] /\ (s.type \in {"doc", "direct", "keyrev"}
                                      \/ s.whose = OwnerOf(pair[2]))
    IN  s.type # "attest" =>
          (Outcome(k, pair[1], pair[2]) = "OK"
             <=> same /\ (IsExpired(s.by) => IsRevoked(s.by) \/ s.by \in Short))

NoTies(k) ==
  \A u, v \in ToSet(uids[k]) : u # v =>
    \A m \in Selfsig(u), n \in Selfsig(v) : made[m].time # made[n].time

\* The expiry of a key changes only when it loses or gets a User ID or signs one itself:
\* third parties' signatures, attached anywhere, do not reach it through the ranks of
\* the User IDs and their self-signatures, unless two User IDs were signed in the
\* same second (expires_at, selfsig, resort).
ExpiryIsOwners ==
  [][\A k \in Primary :
       /\ ToSet(uids[k])' = ToSet(uids[k])
       /\ \A n \in DOMAIN made' \ DOMAIN made : made'[n].by # k
       /\ NoTies(k)
       => ExpiresAt(k)' = ExpiresAt(k)]_vars

\* A certification counts as attested only while the newest attestations on the User
\* ID by its key list it: one made later, even of nothing, withdraws the others.
AttestationsAreCurrent ==
  \A u \in Uid : \A c \in Attested(u) :
    \E a \in ToSet(on[u]) :
      /\ made[a].type = "attest" /\ made[a].by = owner[u] /\ c \in made[a].lists
      /\ \A b \in ToSet(on[u]) :
           made[b].type = "attest" /\ made[b].by = owner[u] => made[b].time <= made[a].time
=============================================================================
