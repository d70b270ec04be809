------------------------------ MODULE UserIds ------------------------------
(***************************************************************************)
(* The User IDs and User Attributes of a primary key, kept in rank order   *)
(* in a SorteDeque: the first one gives the key its flags and preferences. *)
(* The rank of a User ID depends on its most recent self-signature, so it  *)
(* changes while the User ID is in the deque.                              *)
(*                                                                         *)
(* A signature is its creation time and its kind.  Names are distinct, so  *)
(* that get_uid(name) is the User ID itself.                               *)
(***************************************************************************)
EXTENDS SorteDeque, FiniteSetsExt, Functions

CONSTANTS
  Uid,            \* PGPUID objects
  Attribute,      \* those that hold a User Attribute
  Kind,           \* kinds of signatures on them
  SelfKind,       \* issued by the key itself, certifications or not
  PrimaryKind,    \* with the PrimaryUserID subpacket
  LocalKind,      \* not exportable
  Time,           \* creation times, in seconds
  MaxSigs         \* bound on the signatures of all the User IDs

ASSUME UserIdsAssumption ==
  /\ Attribute \subseteq Uid
  /\ PrimaryKind \subseteq SelfKind /\ SelfKind \subseteq Kind /\ LocalKind \subseteq Kind
  /\ Time \subseteq Nat /\ MaxSigs \in Nat

Sig == [time : Time, kind : Kind]

VARIABLES
  uids,   \* PGPKey._uids
  sigs    \* sigs[u]: PGPUID._signatures

vars == <<uids, sigs>>

Init == uids = <<>> /\ sigs = [u \in Uid |-> <<>>]

-----------------------------------------------------------------------------
\* PGPUID.selfsig, as {} or {the signature}.
Selfsig(ss) ==
  LET own == {i \in DOMAIN ss : ss[i].kind \in SelfKind}
  IN  IF own = {} THEN {} ELSE {ss[Max(own)]}

IsPrimary(ss) == \E s \in Selfsig(ss) : s.kind \in PrimaryKind

\* PGPUID.__lt__, given the signatures of every User ID.
Lt(sg, u, v) ==
  IF (u \in Attribute) # (v \in Attribute) THEN v \in Attribute
  ELSE IF IsPrimary(sg[u]) # IsPrimary(sg[v]) THEN IsPrimary(sg[u])
  ELSE IF Selfsig(sg[u]) = {} THEN Selfsig(sg[v]) # {}
  ELSE \A s \in Selfsig(sg[u]) : \E t \in Selfsig(sg[v]) : t.time < s.time

\* Mutant of PutSig: the new signature goes first.
PutSigFirst(ss, s) == <<s>> \o ss

Earlier == [p \in Sig \X Sig |-> p[1].time < p[2].time]
Ranked(sg) == [p \in Uid \X Uid |-> Lt(sg, p[1], p[2])]

PutSig(ss, s) == Insort(ss, s, Earlier)
PutUid(us, sg, u) == Insort(us, u, Ranked(sg))

\* Mutant of ResortUid: the User ID is not removed before it is inserted.
ResortUidTwice(us, sg, u) == PutUid(us, sg, u)

\* Mutant of ResortUid: the User ID is left where it is.
ResortUidNever(us, sg, u) == us

ResortUid(us, sg, u) == Resort(us, u, Ranked(sg))

-----------------------------------------------------------------------------
Fits == FoldFunction(+, 0, [u \in Uid |-> Len(sigs[u])]) < MaxSigs

\* add_uid(u, selfsign=True): u is not in the deque yet when it is signed.
AddSigned(u, s) ==
  /\ u \notin ToSet(uids) /\ Fits
  /\ s.kind \in SelfKind
  /\ sigs' = [sigs EXCEPT ![u] = PutSig(@, s)]
  /\ uids' = PutUid(uids, sigs', u)

\* add_uid(u, selfsign=False), and key |= u
AddUnsigned(u) ==
  /\ u \notin ToSet(uids)
  /\ uids' = PutUid(uids, sigs, u)
  /\ UNCHANGED sigs

\* u |= s
Certify(u, s) ==
  /\ Fits
  /\ sigs' = [sigs EXCEPT ![u] = PutSig(@, s)]
  /\ uids' = IF u \in ToSet(uids) THEN ResortUid(uids, sigs', u) ELSE uids

\* del_uid, whose search string can only be of a User ID
DelUid(u) ==
  /\ u \in ToSet(uids) /\ u \notin Attribute
  /\ uids' = RemoveFirst(uids, u)
  /\ UNCHANGED sigs

\* Each User ID is made anew with its signatures of some kinds, one after the other,
\* and is then put into the new key.
RebuiltSigs(kinds) ==
  [u \in Uid |-> IF u \in ToSet(uids)
                 THEN InsortSome(sigs[u], [time : Time, kind : kinds], Earlier)
                 ELSE sigs[u]]

\* Mutant of RebuiltUids: the User IDs are put into the key before their signatures.
RebuiltUidsBare(sg) == InsortAll(uids, Ranked([v \in Uid |-> <<>>]))

RebuiltUids(sg) == InsortAll(uids, Ranked(sg))

\* The key is replaced by a copy of it (__copy__, pubkey).
Copy ==
  /\ sigs' = RebuiltSigs(Kind)
  /\ uids' = RebuiltUids(sigs')

\* bytes(key), parsed back.
SaveAndReload ==
  /\ sigs' = RebuiltSigs(Kind \ LocalKind)
  /\ uids' = RebuiltUids(sigs')

Next ==
  \/ \E u \in Uid, s \in Sig : AddSigned(u, s) \/ Certify(u, s)
  \/ \E u \in Uid : AddUnsigned(u) \/ DelUid(u)
  \/ Copy
  \/ SaveAndReload

Spec == Init /\ [][Next]_vars

-----------------------------------------------------------------------------
TypeOK ==
  /\ uids \in Seq(Uid) /\ IsInjective(uids)
  /\ sigs \in [Uid -> Seq(Sig)]

\* selfsig, which takes the last self-signature in the deque, is the most recent one
\* however the signatures came in, were copied and reloaded (PGPUID.selfsig).
SelfsigIsMostRecent ==
  \A u \in Uid : \A s \in Selfsig(sigs[u]) : \A t \in ToSet(sigs[u]) :
    t.kind \in SelfKind => t.time <= s.time

Sorted(us, sg) == \A i, j \in DOMAIN us : i < j => ~Lt(sg, us[j], us[i])

\* A User ID of the key falls back: it stops being the primary one, or it had no
\* self-signature (those come before the others) and gets one.
SomeDemoted ==
  \E u \in ToSet(uids) :
    \/ IsPrimary(sigs[u]) /\ ~IsPrimary(sigs'[u])
    \/ Selfsig(sigs[u]) = {} /\ Selfsig(sigs'[u]) # {} /\ ~IsPrimary(sigs'[u])

\* The User IDs stay in rank order while their rank changes under them, unless the
\* step demotes one: bisect still finds its way in a deque whose one misplaced item
\* is too far back (SorteDeque.insort and resort, PGPUID.__or__).
OrderIsKept ==
  [][Sorted(uids, sigs) /\ ~SomeDemoted => Sorted(uids, sigs)']_vars

\* No two User IDs, and no two signatures of one of them, tie.
NoTies ==
  /\ \A u \in Uid : \A i, j \in DOMAIN sigs[u] : i < j => sigs[u][i].time < sigs[u][j].time
  /\ \A u, v \in ToSet(uids) : u # v => Lt(sigs, u, v) \/ Lt(sigs, v, u)

\* A copy of a key has the User IDs and the signatures of the key in the same order,
\* hence the same default User ID and the same self-signatures, when nothing ties
\* (ties come out reversed) and the key was in order (PGPKey.__copy__, pubkey).
CopyKeepsOrder ==
  LET copied == RebuiltSigs(Kind)
  IN  NoTies /\ Sorted(uids, sigs) => copied = sigs /\ RebuiltUids(copied) = uids

\* Whatever the disorder, copying or reloading a key leaves its User IDs in order.
RebuildingSorts ==
  LET copied == RebuiltSigs(Kind)
      loaded == RebuiltSigs(Kind \ LocalKind)
  IN  Sorted(RebuiltUids(copied), copied) /\ Sorted(RebuiltUids(loaded), loaded)
=============================================================================
