--------------------------- MODULE UserIdsProofs ---------------------------
(***************************************************************************)
(* Proofs about the User IDs of a key, for any User IDs, signatures and    *)
(* creation times: which signature counts, and the order of the deque.     *)
(***************************************************************************)
EXTENDS UserIds, SequenceLemmas

-----------------------------------------------------------------------------
\* Creation times order signatures, those of the same second either way.
LEMMA EarlierOrders == WeakOrder(Earlier, Sig)
<1>1. \A x, y \in Sig : x.time \in Nat /\ (Earlier[<<x, y>>] = (x.time < y.time))
  BY UserIdsAssumption DEF Earlier, Sig
<1>2. ASSUME NEW x \in Sig, NEW y \in Sig
      PROVE  Earlier[<<x, y>>] => ~Earlier[<<y, x>>]
  <2>1. x.time \in Nat /\ y.time \in Nat
    BY <1>1
  <2>2. x.time < y.time => ~(y.time < x.time)
    BY <2>1
  <2>3. QED
    BY <1>1, <2>2, Zenon
<1>3. ASSUME NEW x \in Sig, NEW y \in Sig, NEW z \in Sig
      PROVE  ~Earlier[<<x, y>>] /\ ~Earlier[<<y, z>>] => ~Earlier[<<x, z>>]
  <2>1. x.time \in Nat /\ y.time \in Nat /\ z.time \in Nat
    BY <1>1
  <2>2. ~(x.time < y.time) /\ ~(y.time < z.time) => ~(x.time < z.time)
    BY <2>1
  <2>3. QED
    BY <1>1, <2>2, Zenon
<1>4. QED
  BY <1>2, <1>3 DEF WeakOrder

\* The last self-signature of a deque, when there is one.
LEMMA SelfsigFacts ==
  ASSUME NEW ss \in Seq(Sig)
  PROVE  \/ /\ Selfsig(ss) = {}
            /\ \A i \in DOMAIN ss : ss[i].kind \notin SelfKind
         \/ \E m \in DOMAIN ss :
              /\ Selfsig(ss) = {ss[m]} /\ ss[m].kind \in SelfKind
              /\ \A i \in DOMAIN ss : ss[i].kind \in SelfKind => i <= m
<1> DEFINE own == {i \in DOMAIN ss : ss[i].kind \in SelfKind}
<1>1. Selfsig(ss) = IF own = {} THEN {} ELSE {ss[Max(own)]}
  BY DEF Selfsig
<1>2. CASE own = {}
  BY <1>1, <1>2
<1>3. CASE own # {}
  <2>1. Len(ss) \in Nat /\ own \in SUBSET (0 .. Len(ss))
    OBVIOUS
  <2>2. Max(own) \in own /\ \A k \in own : k <= Max(own)
    <3> HIDE DEF own
    <3> QED
      BY <1>3, <2>1, MaxOfBounded
  <2>3. QED
    BY <1>1, <1>3, <2>2
<1>4. QED
  BY <1>2, <1>3

\* The rank of a User ID as numbers, the most significant one first.
Attr(u) == IF u \in Attribute THEN 1 ELSE 0
Prim(ss) == IF IsPrimary(ss) THEN 0 ELSE 1
Has(ss) == IF Selfsig(ss) = {} THEN 0 ELSE 1
Age(ss) == IF Selfsig(ss) = {} THEN 0 ELSE -(CHOOSE s \in Selfsig(ss) : TRUE).time

\* A deque with a self-signature.
LEMMA SelfsigOf ==
  ASSUME NEW ss \in Seq(Sig), NEW x \in Selfsig(ss)
  PROVE  /\ Selfsig(ss) = {x} /\ x \in ToSet(ss) /\ x.kind \in SelfKind
         /\ x.time \in Nat /\ Age(ss) = -x.time /\ Has(ss) = 1
<1>1. PICK m \in DOMAIN ss : Selfsig(ss) = {ss[m]} /\ ss[m].kind \in SelfKind
  BY SelfsigFacts
<1>2. x = ss[m] /\ ss[m] \in Sig /\ Selfsig(ss) # {}
  BY <1>1
<1>3. (CHOOSE s \in {x} : TRUE) = x
  OBVIOUS
<1>4. QED
  BY <1>1, <1>2, <1>3, UserIdsAssumption DEF Sig, Age, Has, ToSet

\* __lt__ is the lexicographic order of those numbers.
LEMMA LtIsLexicographic ==
  ASSUME NEW sg \in [Uid -> Seq(Sig)], NEW u \in Uid, NEW v \in Uid
  PROVE  Lt(sg, u, v) <=>
           \/ Attr(u) < Attr(v)
           \/ Attr(u) = Attr(v) /\ Prim(sg[u]) < Prim(sg[v])
           \/ Attr(u) = Attr(v) /\ Prim(sg[u]) = Prim(sg[v]) /\ Has(sg[u]) < Has(sg[v])
           \/ /\ Attr(u) = Attr(v) /\ Prim(sg[u]) = Prim(sg[v]) /\ Has(sg[u]) = Has(sg[v])
              /\ Age(sg[u]) < Age(sg[v])
<1>1. CASE (u \in Attribute) # (v \in Attribute)
  <2>1. Lt(sg, u, v) <=> v \in Attribute
    BY <1>1, Zenon DEF Lt
  <2>2. CASE v \in Attribute
    <3>1. u \notin Attribute /\ Attr(u) = 0 /\ Attr(v) = 1
      BY <1>1, <2>2 DEF Attr
    <3>2. QED
      BY <2>1, <2>2, <3>1
  <2>3. CASE v \notin Attribute
    <3>1. u \in Attribute /\ Attr(u) = 1 /\ Attr(v) = 0
      BY <1>1, <2>3 DEF Attr
    <3>2. QED
      BY <2>1, <2>3, <3>1
  <2>4. QED
    BY <2>2, <2>3
<1>2. CASE (u \in Attribute) = (v \in Attribute)
  <2>0. Attr(u) = Attr(v) /\ Attr(u) \in {0, 1}
    BY <1>2 DEF Attr
  <2>1. CASE IsPrimary(sg[u]) # IsPrimary(sg[v])
    <3>1. Lt(sg, u, v) <=> IsPrimary(sg[u])
      BY <1>2, <2>1, Zenon DEF Lt
    <3>2. CASE IsPrimary(sg[u])
      <4>1. ~IsPrimary(sg[v]) /\ Prim(sg[u]) = 0 /\ Prim(sg[v]) = 1
        BY <2>1, <3>2 DEF Prim
      <4>2. QED
        BY <2>0, <3>1, <3>2, <4>1
    <3>3. CASE ~IsPrimary(sg[u])
      <4>0. IsPrimary(sg[v])
        BY <2>1, <3>3 DEF IsPrimary
      <4>1. Prim(sg[u]) = 1 /\ Prim(sg[v]) = 0
        BY <3>3, <4>0 DEF Prim
      <4>2. QED
        BY <2>0, <3>1, <3>3, <4>1
    <3>4. QED
      BY <3>2, <3>3
  <2>2. CASE IsPrimary(sg[u]) = IsPrimary(sg[v])
    <3>0. Prim(sg[u]) = Prim(sg[v]) /\ Prim(sg[u]) \in {0, 1}
      BY <2>2 DEF Prim
    <3>1. Lt(sg, u, v) <=>
            IF Selfsig(sg[u]) = {} THEN Selfsig(sg[v]) # {}
            ELSE \A s \in Selfsig(sg[u]) : \E t \in Selfsig(sg[v]) : t.time < s.time
      BY <1>2, <2>2, Zenon DEF Lt
    <3>2. CASE Selfsig(sg[u]) = {}
      <4>1. Has(sg[u]) = 0 /\ Age(sg[u]) = 0 /\ (Lt(sg, u, v) <=> Selfsig(sg[v]) # {})
        BY <3>1, <3>2 DEF Has, Age
      <4>2. CASE Selfsig(sg[v]) = {}
        <5>1. Has(sg[v]) = 0 /\ Age(sg[v]) = 0
          BY <4>2 DEF Has, Age
        <5>2. QED
          BY <2>0, <3>0, <4>1, <4>2, <5>1
      <4>3. CASE Selfsig(sg[v]) # {}
        <5>1. Has(sg[v]) = 1
          BY <4>3 DEF Has
        <5>2. QED
          BY <2>0, <3>0, <4>1, <4>3, <5>1
      <4>4. QED
        BY <4>2, <4>3
    <3>3. CASE Selfsig(sg[u]) # {}
      <4>1. PICK x : x \in Selfsig(sg[u])
        BY <3>3
      <4>2. Selfsig(sg[u]) = {x} /\ x.time \in Nat /\ Age(sg[u]) = -x.time /\ Has(sg[u]) = 1
        BY <4>1, SelfsigOf
      <4>3. CASE Selfsig(sg[v]) = {}
        <5>1. Has(sg[v]) = 0 /\ ~Lt(sg, u, v)
          BY <3>1, <3>3, <4>2, <4>3 DEF Has
        <5>2. QED
          BY <2>0, <3>0, <4>2, <5>1
      <4>4. CASE Selfsig(sg[v]) # {}
        <5>1. PICK y : y \in Selfsig(sg[v])
          BY <4>4
        <5>2. Selfsig(sg[v]) = {y} /\ y.time \in Nat /\ Age(sg[v]) = -y.time /\ Has(sg[v]) = 1
          BY <5>1, SelfsigOf
        <5>3. Lt(sg, u, v) <=> y.time < x.time
          BY <3>1, <3>3, <4>2, <5>2
        <5>4. QED
          BY <2>0, <3>0, <4>2, <5>2, <5>3
      <4>5. QED
        BY <4>3, <4>4
    <3>4. QED
      BY <3>2, <3>3
  <2>3. QED
    BY <2>1, <2>2, Zenon
<1>3. QED
  BY <1>1, <1>2, Zenon

\* Those numbers are numbers.
LEMMA RankTypes ==
  ASSUME NEW ss \in Seq(Sig), NEW u
  PROVE  Attr(u) \in {0, 1} /\ Prim(ss) \in {0, 1} /\ Has(ss) \in {0, 1} /\ Age(ss) \in Int
<1>1. Age(ss) \in Int
  <2>1. CASE Selfsig(ss) = {}
    BY <2>1 DEF Age
  <2>2. CASE Selfsig(ss) # {}
    <3>1. PICK x : x \in Selfsig(ss)
      BY <2>2
    <3>2. QED
      BY <3>1, SelfsigOf
  <2>3. QED
    BY <2>1, <2>2
<1>2. QED
  BY <1>1 DEF Attr, Prim, Has

\* The rank orders the User IDs, those that tie either way.
LEMMA RankedOrders ==
  ASSUME NEW sg \in [Uid -> Seq(Sig)]
  PROVE  WeakOrder(Ranked(sg), Uid)
<1>1. \A u, v \in Uid : Ranked(sg)[<<u, v>>] = Lt(sg, u, v)
  BY DEF Ranked
<1>2. ASSUME NEW u \in Uid
      PROVE  Attr(u) \in {0, 1} /\ Prim(sg[u]) \in {0, 1} /\ Has(sg[u]) \in {0, 1} /\ Age(sg[u]) \in Int
  BY RankTypes
<1>3. ASSUME NEW u \in Uid, NEW v \in Uid
      PROVE  Lt(sg, u, v) => ~Lt(sg, v, u)
  BY <1>2, LtIsLexicographic
<1>4. ASSUME NEW u \in Uid, NEW v \in Uid, NEW w \in Uid
      PROVE  ~Lt(sg, u, v) /\ ~Lt(sg, v, w) => ~Lt(sg, u, w)
  <2> DEFINE a(x) == Attr(x)
             p(x) == Prim(sg[x])
             h(x) == Has(sg[x])
             t(x) == Age(sg[x])
             Lex(x, y) == \/ a(x) < a(y)
                          \/ a(x) = a(y) /\ p(x) < p(y)
                          \/ a(x) = a(y) /\ p(x) = p(y) /\ h(x) < h(y)
                          \/ a(x) = a(y) /\ p(x) = p(y) /\ h(x) = h(y) /\ t(x) < t(y)
  <2>1. (Lt(sg, u, v) <=> Lex(u, v)) /\ (Lt(sg, v, w) <=> Lex(v, w)) /\ (Lt(sg, u, w) <=> Lex(u, w))
    BY LtIsLexicographic, Zenon
  <2>2. \A x \in {u, v, w} : a(x) \in {0, 1} /\ p(x) \in {0, 1} /\ h(x) \in {0, 1} /\ t(x) \in Int
    BY <1>2
  <2> HIDE DEF a, p, h, t
  <2>3. ~Lex(u, v) /\ ~Lex(v, w) => ~Lex(u, w)
    BY <2>2
  <2> HIDE DEF Lex
  <2>4. QED
    BY <2>1, <2>3, Zenon
<1>5. QED
  BY <1>1, <1>3, <1>4, Zenon DEF WeakOrder

-----------------------------------------------------------------------------
(***************************************************************************)
(* The inductive invariant: every deque of signatures is in order.  That   *)
(* of User IDs need not be, see OrderIsKept.                               *)
(***************************************************************************)
SigsInOrder == \A u \in Uid : InOrder(sigs[u], Earlier)

UserIdsInv == TypeOK /\ SigsInOrder

\* The signatures of some kinds, put into a new deque.
LEMMA RebuiltSigsFacts ==
  ASSUME UserIdsInv, NEW kinds
  PROVE  /\ RebuiltSigs(kinds) \in [Uid -> Seq(Sig)]
         /\ \A u \in Uid : InOrder(RebuiltSigs(kinds)[u], Earlier)
<1> DEFINE keep == [time : Time, kind : kinds]
           put(u) == InsortSome(sigs[u], keep, Earlier)
<1>1. ASSUME NEW u \in Uid
      PROVE  put(u) \in Seq(Sig) /\ InOrder(put(u), Earlier)
  <2>1. sigs[u] \in Seq(Sig)
    BY DEF UserIdsInv, TypeOK
  <2> HIDE DEF keep
  <2>2. QED
    BY <2>1, EarlierOrders, InsortSomeFacts
<1>2. ASSUME NEW u \in Uid
      PROVE  sigs[u] \in Seq(Sig) /\ InOrder(sigs[u], Earlier)
  BY DEF UserIdsInv, TypeOK, SigsInOrder
<1>3. RebuiltSigs(kinds) = [u \in Uid |-> IF u \in ToSet(uids) THEN put(u) ELSE sigs[u]]
  BY DEF RebuiltSigs
<1> HIDE DEF put
<1>4. QED
  BY <1>1, <1>2, <1>3

\* The User IDs, put into a new deque.
LEMMA RebuiltUidsFacts ==
  ASSUME TypeOK, NEW sg \in [Uid -> Seq(Sig)]
  PROVE  /\ RebuiltUids(sg) \in Seq(Uid)
         /\ IsInjective(RebuiltUids(sg))
         /\ InOrder(RebuiltUids(sg), Ranked(sg))
BY RankedOrders, InsortAllFacts DEF TypeOK, RebuiltUids

\* Sorted says that the deque is in the order of rank.
LEMMA SortedIsInOrder ==
  ASSUME NEW us \in Seq(Uid), NEW sg
  PROVE  Sorted(us, sg) <=> InOrder(us, Ranked(sg))
<1>1. \A i \in DOMAIN us : us[i] \in Uid
  OBVIOUS
<1>2. \A i, j \in DOMAIN us : Ranked(sg)[<<us[j], us[i]>>] = Lt(sg, us[j], us[i])
  BY <1>1 DEF Ranked
<1>3. QED
  BY <1>2, Zenon DEF Sorted, InOrder

\* One more signature on one User ID.
LEMMA PutSigFacts ==
  ASSUME UserIdsInv, NEW u \in Uid, NEW s \in Sig
  PROVE  /\ [sigs EXCEPT ![u] = PutSig(@, s)] \in [Uid -> Seq(Sig)]
         /\ \A v \in Uid : InOrder([sigs EXCEPT ![u] = PutSig(@, s)][v], Earlier)
         /\ ToSet(PutSig(sigs[u], s)) = ToSet(sigs[u]) \cup {s}
<1>1. sigs \in [Uid -> Seq(Sig)] /\ \A v \in Uid : InOrder(sigs[v], Earlier)
  BY DEF UserIdsInv, TypeOK, SigsInOrder
<1> DEFINE t == PutSig(sigs[u], s)
<1>2. t \in Seq(Sig) /\ InOrder(t, Earlier) /\ ToSet(t) = ToSet(sigs[u]) \cup {s}
  <2>1. sigs[u] \in Seq(Sig) /\ InOrder(sigs[u], Earlier)
    BY <1>1
  <2>2. QED
    BY <2>1, EarlierOrders, InsortFacts, InsortKeepsOrder DEF PutSig
<1> HIDE DEF t
<1>3. [sigs EXCEPT ![u] = t] \in [Uid -> Seq(Sig)]
      /\ \A v \in Uid : InOrder([sigs EXCEPT ![u] = t][v], Earlier)
  BY <1>1, <1>2
<1>4. QED
  BY <1>2, <1>3 DEF t

\* A key without User IDs.
LEMMA InitHolds == Init => UserIdsInv
<1>1. <<>> \in Seq(Uid) /\ <<>> \in Seq(Sig) /\ IsInjective(<<>>) /\ InOrder(<<>>, Earlier)
  BY DEF IsInjective, InOrder
<1>2. QED
  BY <1>1 DEF Init, UserIdsInv, TypeOK, SigsInOrder

\* Every step keeps both parts of the invariant.
LEMMA StepKeeps == UserIdsInv /\ [Next]_vars => UserIdsInv'
<1> SUFFICES ASSUME UserIdsInv, [Next]_vars
             PROVE  UserIdsInv'
  OBVIOUS
<1>0. uids \in Seq(Uid) /\ IsInjective(uids) /\ sigs \in [Uid -> Seq(Sig)]
  BY DEF UserIdsInv, TypeOK
<1>1. ASSUME NEW u \in Uid, NEW s \in Sig, AddSigned(u, s)
      PROVE  UserIdsInv'
  <2>1. sigs' \in [Uid -> Seq(Sig)] /\ SigsInOrder'
    BY <1>1, PutSigFacts DEF AddSigned, SigsInOrder
  <2>2. uids' = Insort(uids, u, Ranked(sigs')) /\ u \notin ToSet(uids)
    BY <1>1 DEF AddSigned, PutUid
  <2>3. uids' \in Seq(Uid) /\ IsInjective(uids')
    BY <1>0, <2>2, InsortFacts
  <2>4. QED
    BY <2>1, <2>3 DEF UserIdsInv, TypeOK
<1>2. ASSUME NEW u \in Uid, NEW s \in Sig, Certify(u, s)
      PROVE  UserIdsInv'
  <2>1. sigs' \in [Uid -> Seq(Sig)] /\ SigsInOrder'
    BY <1>2, PutSigFacts DEF Certify, SigsInOrder
  <2>2. uids' \in Seq(Uid) /\ IsInjective(uids')
    <3>1. CASE u \in ToSet(uids)
      <4>1. uids' = Resort(uids, u, Ranked(sigs'))
        BY <1>2, <3>1 DEF Certify, ResortUid
      <4>2. QED
        BY <1>0, <3>1, <4>1, ResortFacts
    <3>2. CASE u \notin ToSet(uids)
      BY <1>0, <1>2, <3>2 DEF Certify
    <3>3. QED
      BY <3>1, <3>2
  <2>3. QED
    BY <2>1, <2>2 DEF UserIdsInv, TypeOK
<1>3. ASSUME NEW u \in Uid, AddUnsigned(u)
      PROVE  UserIdsInv'
  <2>1. uids' = Insort(uids, u, Ranked(sigs)) /\ u \notin ToSet(uids) /\ sigs' = sigs
    BY <1>3 DEF AddUnsigned, PutUid
  <2>2. uids' \in Seq(Uid) /\ IsInjective(uids')
    BY <1>0, <2>1, InsortFacts
  <2>3. QED
    BY <1>0, <2>1, <2>2 DEF UserIdsInv, TypeOK, SigsInOrder
<1>4. ASSUME NEW u \in Uid, DelUid(u)
      PROVE  UserIdsInv'
  <2>1. uids' = RemoveFirst(uids, u) /\ sigs' = sigs
    BY <1>4 DEF DelUid
  <2>2. uids' \in Seq(Uid) /\ IsInjective(uids')
    BY <1>0, <2>1, RemoveFirstFacts
  <2>3. QED
    BY <1>0, <2>1, <2>2 DEF UserIdsInv, TypeOK, SigsInOrder
<1>5. ASSUME NEW kinds, sigs' = RebuiltSigs(kinds), uids' = RebuiltUids(sigs')
      PROVE  UserIdsInv'
  <2>1. sigs' \in [Uid -> Seq(Sig)] /\ SigsInOrder'
    BY <1>5, RebuiltSigsFacts DEF SigsInOrder
  <2>2. uids' \in Seq(Uid) /\ IsInjective(uids')
    BY <1>5, <2>1, RebuiltUidsFacts DEF UserIdsInv
  <2>3. QED
    BY <2>1, <2>2 DEF UserIdsInv, TypeOK
<1>6. CASE UNCHANGED vars
  BY <1>6 DEF vars, UserIdsInv, TypeOK, SigsInOrder
<1>7. QED
  BY <1>1, <1>2, <1>3, <1>4, <1>5, <1>6 DEF Next, Copy, SaveAndReload

\* Throughout, the deques hold what they may hold, no User ID twice, and the signatures
\* of each User ID are in the order of their times.
THEOREM UserIdsGood == Spec => []UserIdsInv
BY InitHolds, StepKeeps, PTL DEF Spec

\* Every variable stays within its type: in particular resort never leaves a User ID in
\* its deque twice (SorteDeque.resort removes before it inserts).
THEOREM TypeCorrect == Spec => []TypeOK
<1>1. UserIdsInv => TypeOK
  BY DEF UserIdsInv
<1>2. QED
  BY <1>1, UserIdsGood, PTL

\* The last of the self-signatures in a deque that is in order.
LEMMA LastIsLatest ==
  ASSUME NEW ss \in Seq(Sig), InOrder(ss, Earlier), NEW s \in Selfsig(ss), NEW t \in ToSet(ss),
         t.kind \in SelfKind
  PROVE  t.time <= s.time
<1>1. PICK m \in DOMAIN ss : s = ss[m] /\ \A i \in DOMAIN ss : ss[i].kind \in SelfKind => i <= m
  BY SelfsigFacts
<1>2. PICK i \in DOMAIN ss : t = ss[i]
  BY DEF ToSet
<1>3. i <= m
  BY <1>1, <1>2
<1>4. s \in Sig /\ t \in Sig /\ s.time \in Nat /\ t.time \in Nat
  <2>1. s \in Sig /\ t \in Sig
    BY <1>1, <1>2
  <2>2. QED
    BY <2>1, UserIdsAssumption DEF Sig
<1>5. CASE i = m
  BY <1>1, <1>2, <1>4, <1>5
<1>6. CASE i < m
  <2>1. ~Earlier[<<s, t>>]
    BY <1>1, <1>2, <1>6 DEF InOrder
  <2>2. Earlier[<<s, t>>] = (s.time < t.time)
    BY <1>4 DEF Earlier
  <2>3. ~(s.time < t.time)
    BY <2>1, <2>2, Zenon
  <2>4. QED
    BY <1>4, <2>3
<1>7. QED
  <2>1. i \in 1 .. Len(ss) /\ m \in 1 .. Len(ss) /\ Len(ss) \in Nat
    OBVIOUS
  <2>2. QED
    BY <1>3, <1>5, <1>6, <2>1

\* The self-signature that gives a User ID its flags is the most recent one by its key,
\* however signatures were added, copied and read again (PGPUID.selfsig).
THEOREM MostRecentAlways == Spec => []SelfsigIsMostRecent
<1>1. UserIdsInv => SelfsigIsMostRecent
  BY LastIsLatest DEF UserIdsInv, TypeOK, SigsInOrder, SelfsigIsMostRecent
<1>2. QED
  BY <1>1, UserIdsGood, PTL

\* Copying or reading a key puts its User IDs in the order of rank, whatever order they
\* were in.
THEOREM RebuildingAlwaysSorts == Spec => []RebuildingSorts
<1>1. ASSUME UserIdsInv, NEW kinds
      PROVE  Sorted(RebuiltUids(RebuiltSigs(kinds)), RebuiltSigs(kinds))
  <2>1. RebuiltSigs(kinds) \in [Uid -> Seq(Sig)]
    BY <1>1, RebuiltSigsFacts
  <2>2. QED
    BY <1>1, <2>1, RebuiltUidsFacts, SortedIsInOrder DEF UserIdsInv
<1>2. UserIdsInv => RebuildingSorts
  BY <1>1 DEF RebuildingSorts
<1>3. QED
  BY <1>2, UserIdsGood, PTL

-----------------------------------------------------------------------------
\* A signature that does not demote a User ID leaves none before it that was not.
LEMMA NotDemoted ==
  ASSUME UserIdsInv, NEW u \in Uid, NEW s \in Sig,
         NEW sg, sg = [sigs EXCEPT ![u] = PutSig(@, s)],
         ~(IsPrimary(sigs[u]) /\ ~IsPrimary(sg[u])),
         ~(Selfsig(sigs[u]) = {} /\ Selfsig(sg[u]) # {} /\ ~IsPrimary(sg[u])),
         NEW v \in Uid, v # u, ~Lt(sigs, v, u)
  PROVE  ~Lt(sg, v, u)
<1> DEFINE old == sigs[u]
           new == sg[u]
<1>1. /\ sigs \in [Uid -> Seq(Sig)] /\ sg \in [Uid -> Seq(Sig)]
      /\ sg[v] = sigs[v] /\ sg[u] = PutSig(sigs[u], s)
      /\ ToSet(PutSig(sigs[u], s)) = ToSet(sigs[u]) \cup {s} /\ InOrder(sg[u], Earlier)
  BY PutSigFacts DEF UserIdsInv, TypeOK
<1>2. /\ old \in Seq(Sig) /\ new \in Seq(Sig) /\ sigs[v] \in Seq(Sig)
      /\ InOrder(new, Earlier) /\ ToSet(old) \subseteq ToSet(new)
  BY <1>1
<1>3. (Lt(sigs, v, u) <=>
           \/ Attr(v) < Attr(u)
           \/ Attr(v) = Attr(u) /\ Prim(sigs[v]) < Prim(old)
           \/ Attr(v) = Attr(u) /\ Prim(sigs[v]) = Prim(old) /\ Has(sigs[v]) < Has(old)
           \/ /\ Attr(v) = Attr(u) /\ Prim(sigs[v]) = Prim(old) /\ Has(sigs[v]) = Has(old)
              /\ Age(sigs[v]) < Age(old))
  BY <1>1, LtIsLexicographic
<1>4. (Lt(sg, v, u) <=>
           \/ Attr(v) < Attr(u)
           \/ Attr(v) = Attr(u) /\ Prim(sigs[v]) < Prim(new)
           \/ Attr(v) = Attr(u) /\ Prim(sigs[v]) = Prim(new) /\ Has(sigs[v]) < Has(new)
           \/ /\ Attr(v) = Attr(u) /\ Prim(sigs[v]) = Prim(new) /\ Has(sigs[v]) = Has(new)
              /\ Age(sigs[v]) < Age(new))
  BY <1>1, LtIsLexicographic
<1>5. /\ Attr(u) \in {0, 1} /\ Attr(v) \in {0, 1}
      /\ Prim(old) \in {0, 1} /\ Prim(new) \in {0, 1} /\ Prim(sigs[v]) \in {0, 1}
      /\ Has(old) \in {0, 1} /\ Has(new) \in {0, 1} /\ Has(sigs[v]) \in {0, 1}
      /\ Age(old) \in Int /\ Age(new) \in Int /\ Age(sigs[v]) \in Int
  BY <1>2, RankTypes
<1> HIDE DEF old, new
<1>6. Prim(new) < Prim(old) \/ (Prim(new) = Prim(old) /\ Has(new) = Has(old) /\ Age(new) <= Age(old))
  <2>1. Prim(new) <= Prim(old)
    <3>1. ~(IsPrimary(old) /\ ~IsPrimary(new))
      BY DEF old, new
    <3>2. QED
      BY <3>1 DEF Prim
  <2>2. CASE Selfsig(old) = {}
    <3>1. Prim(old) = 1 /\ Has(old) = 0 /\ Age(old) = 0
      BY <2>2 DEF Prim, IsPrimary, Has, Age
    <3>2. CASE Selfsig(new) = {}
      <4>1. Prim(new) = 1 /\ Has(new) = 0 /\ Age(new) = 0
        BY <3>2 DEF Prim, IsPrimary, Has, Age
      <4>2. QED
        BY <3>1, <4>1
    <3>3. CASE Selfsig(new) # {}
      <4>1. IsPrimary(new)
        BY <2>2, <3>3 DEF old, new
      <4>2. Prim(new) = 0
        BY <4>1 DEF Prim
      <4>3. QED
        BY <3>1, <4>2
    <3>4. QED
      BY <3>2, <3>3
  <2>3. CASE Selfsig(old) # {}
    <3>1. PICK x : x \in Selfsig(old)
      BY <2>3
    <3>2. x \in ToSet(new) /\ x.kind \in SelfKind /\ x.time \in Nat /\ Age(old) = -x.time /\ Has(old) = 1
      BY <1>2, <3>1, SelfsigOf
    <3>3. PICK i \in DOMAIN new : new[i] = x
      BY <3>2 DEF ToSet
    <3>4. Selfsig(new) # {}
      BY <1>2, <3>2, <3>3, SelfsigFacts
    <3>5. PICK y : y \in Selfsig(new)
      BY <3>4
    <3>6. y.time \in Nat /\ Age(new) = -y.time /\ Has(new) = 1
      BY <1>2, <3>5, SelfsigOf
    <3>7. x.time <= y.time
      BY <1>2, <3>2, <3>5, LastIsLatest
    <3>8. QED
      BY <1>5, <2>1, <3>2, <3>6, <3>7
  <2>4. QED
    BY <2>2, <2>3
<1>7. QED
  <2> DEFINE a == Attr(u)
             b == Attr(v)
             p1 == Prim(old)
             p2 == Prim(new)
             p3 == Prim(sigs[v])
             h1 == Has(old)
             h2 == Has(new)
             h3 == Has(sigs[v])
             t1 == Age(old)
             t2 == Age(new)
             t3 == Age(sigs[v])
             Before(p, h, t) == \/ b < a
                                \/ b = a /\ p3 < p
                                \/ b = a /\ p3 = p /\ h3 < h
                                \/ b = a /\ p3 = p /\ h3 = h /\ t3 < t
  <2>1. (Lt(sigs, v, u) <=> Before(p1, h1, t1)) /\ (Lt(sg, v, u) <=> Before(p2, h2, t2))
    BY <1>3, <1>4, Zenon
  <2>2. /\ a \in {0, 1} /\ b \in {0, 1} /\ p1 \in {0, 1} /\ p2 \in {0, 1} /\ p3 \in {0, 1}
        /\ h1 \in {0, 1} /\ h2 \in {0, 1} /\ h3 \in {0, 1} /\ t1 \in Int /\ t2 \in Int /\ t3 \in Int
        /\ p2 < p1 \/ (p2 = p1 /\ h2 = h1 /\ t2 <= t1)
    BY <1>5, <1>6
  <2> HIDE DEF a, b, p1, p2, p3, h1, h2, h3, t1, t2, t3
  <2>3. ~Before(p1, h1, t1) => ~Before(p2, h2, t2)
    BY <2>2
  <2> HIDE DEF Before
  <2>4. QED
    BY <2>1, <2>3, Zenon

\* The order of User IDs that get no signature does not change.
LEMMA OthersKeepOrder ==
  ASSUME NEW u \in Uid, NEW sg, NEW ss, NEW v \in Uid, NEW w \in Uid, v # u, w # u,
         sigs \in [Uid -> Seq(Sig)], sg = [sigs EXCEPT ![u] = ss]
  PROVE  Lt(sg, v, w) <=> Lt(sigs, v, w)
<1>1. sg[v] = sigs[v] /\ sg[w] = sigs[w]
  OBVIOUS
<1>2. QED
  BY <1>1, Zenon DEF Lt

\* No step takes a deque of User IDs out of order, unless it demotes one of them.
LEMMA StepKeepsOrder ==
  ASSUME UserIdsInv, [Next]_vars, Sorted(uids, sigs), ~SomeDemoted
  PROVE  Sorted(uids', sigs')
<1>0. uids \in Seq(Uid) /\ IsInjective(uids) /\ sigs \in [Uid -> Seq(Sig)]
  BY DEF UserIdsInv, TypeOK
<1>1. UserIdsInv'
  BY StepKeeps
<1>2. uids' \in Seq(Uid) /\ sigs' \in [Uid -> Seq(Sig)] /\ WeakOrder(Ranked(sigs'), Uid)
  BY <1>1, RankedOrders DEF UserIdsInv, TypeOK
<1>3. (\A i \in DOMAIN uids : uids[i] \in Uid /\ uids[i] \in ToSet(uids))
      /\ (InOrder(uids', Ranked(sigs')) => Sorted(uids', sigs'))
  BY <1>0, <1>2, SortedIsInOrder DEF ToSet
<1>4. ASSUME NEW u \in Uid, NEW s \in Sig, AddSigned(u, s)
      PROVE  Sorted(uids', sigs')
  <2>1. /\ sigs' = [sigs EXCEPT ![u] = PutSig(@, s)] /\ u \notin ToSet(uids)
        /\ uids' = Insort(uids, u, Ranked(sigs'))
    BY <1>4 DEF AddSigned, PutUid
  <2>2. Sorted(uids, sigs')
    <3>1. ASSUME NEW i \in DOMAIN uids, NEW j \in DOMAIN uids, i < j
          PROVE  ~Lt(sigs', uids[j], uids[i])
      <4>1. uids[i] \in Uid /\ uids[j] \in Uid /\ uids[i] # u /\ uids[j] # u
        BY <1>3, <2>1
      <4>2. ~Lt(sigs, uids[j], uids[i])
        BY <3>1 DEF Sorted
      <4>3. QED
        BY <1>0, <2>1, <4>1, <4>2, OthersKeepOrder
    <3>2. QED
      BY <3>1 DEF Sorted
  <2>3. InOrder(uids, Ranked(sigs'))
    BY <1>0, <2>2, SortedIsInOrder
  <2>4. QED
    BY <1>0, <1>2, <1>3, <2>1, <2>3, InsortKeepsOrder
<1>5. ASSUME NEW u \in Uid, NEW s \in Sig, Certify(u, s)
      PROVE  Sorted(uids', sigs')
  <2>1. sigs' = [sigs EXCEPT ![u] = PutSig(@, s)]
    BY <1>5 DEF Certify
  <2>2. ASSUME NEW i \in DOMAIN uids, NEW j \in DOMAIN uids, i < j, uids[i] # u, uids[j] # u
        PROVE  ~Lt(sigs', uids[j], uids[i])
    <3>1. uids[i] \in Uid /\ uids[j] \in Uid /\ ~Lt(sigs, uids[j], uids[i])
      BY <1>3, <2>2 DEF Sorted
    <3>2. QED
      BY <1>0, <2>1, <2>2, <3>1, OthersKeepOrder
  <2>3. CASE u \notin ToSet(uids)
    <3>1. uids' = uids /\ \A i \in DOMAIN uids : uids[i] # u
      BY <1>3, <1>5, <2>3 DEF Certify
    <3>2. QED
      BY <2>2, <3>1 DEF Sorted
  <2>4. CASE u \in ToSet(uids)
    <3>1. uids' = Resort(uids, u, Ranked(sigs'))
      BY <1>5, <2>4 DEF Certify, ResortUid
    <3>2. /\ ~(IsPrimary(sigs[u]) /\ ~IsPrimary(sigs'[u]))
          /\ ~(Selfsig(sigs[u]) = {} /\ Selfsig(sigs'[u]) # {} /\ ~IsPrimary(sigs'[u]))
      BY <2>4 DEF SomeDemoted
    <3>3. ASSUME NEW i \in DOMAIN uids, NEW j \in DOMAIN uids, i < j, uids[i] = u
          PROVE  ~Lt(sigs', uids[j], u)
      <4>1. i # j
        <5>1. i \in 1 .. Len(uids) /\ j \in 1 .. Len(uids)
          BY <1>0
        <5>2. QED
          BY <3>3, <5>1
      <4>2. uids[j] # u /\ uids[j] \in Uid
        BY <1>0, <1>3, <3>3, <4>1 DEF IsInjective
      <4>3. ~Lt(sigs, uids[j], u)
        BY <3>3 DEF Sorted
      <4>4. QED
        BY <2>1, <3>2, <4>2, <4>3, NotDemoted
    <3> DEFINE R == Ranked(sigs')
    <3>4. \A v, w \in Uid : R[<<v, w>>] = Lt(sigs', v, w)
      BY DEF Ranked
    <3> HIDE DEF R
    <3>5. \A i, j \in DOMAIN uids : i < j /\ uids[j] # u => uids[i] = u \/ ~R[<<uids[j], uids[i]>>]
      BY <1>3, <2>2, <3>4
    <3>6. \A i, j \in DOMAIN uids : i < j /\ uids[i] = u => ~R[<<uids[j], u>>]
      BY <1>3, <3>3, <3>4
    <3>7. InOrder(Resort(uids, u, R), R)
      BY <1>0, <1>2, <2>4, <3>5, <3>6, ResortKeepsOrder DEF R
    <3>8. QED
      BY <1>3, <3>1, <3>7 DEF R
  <2>5. QED
    BY <2>3, <2>4
<1>6. ASSUME NEW u \in Uid, AddUnsigned(u)
      PROVE  Sorted(uids', sigs')
  <2>1. uids' = Insort(uids, u, Ranked(sigs')) /\ sigs' = sigs
    BY <1>6 DEF AddUnsigned, PutUid
  <2>2. InOrder(uids, Ranked(sigs'))
    BY <1>0, <2>1, SortedIsInOrder
  <2>3. QED
    BY <1>0, <1>2, <1>3, <2>1, <2>2, InsortKeepsOrder
<1>7. ASSUME NEW u \in Uid, DelUid(u)
      PROVE  Sorted(uids', sigs')
  <2>1. uids' = RemoveFirst(uids, u) /\ sigs' = sigs
    BY <1>7 DEF DelUid
  <2>2. InOrder(uids, Ranked(sigs'))
    BY <1>0, <2>1, SortedIsInOrder
  <2>3. InOrder(uids', Ranked(sigs'))
    BY <1>0, <2>1, <2>2, RemoveFirstFacts
  <2>4. QED
    BY <1>3, <2>3
<1>8. ASSUME uids' = RebuiltUids(sigs')
      PROVE  Sorted(uids', sigs')
  BY <1>2, <1>3, <1>8, RebuiltUidsFacts DEF UserIdsInv
<1>9. CASE UNCHANGED vars
  BY <1>9 DEF vars
<1>10. QED
  BY <1>4, <1>5, <1>6, <1>7, <1>8, <1>9 DEF Next, Copy, SaveAndReload

\* A step that demotes no User ID keeps the deque in the order of rank, if it was: the
\* bisection of resort, on a deque with one item out of place, ends where that item
\* belongs or on the item itself.
THEOREM OrderIsAlwaysKept == Spec => OrderIsKept
<1>1. UserIdsInv /\ [Next]_vars => [Sorted(uids, sigs) /\ ~SomeDemoted => Sorted(uids, sigs)']_vars
  BY StepKeepsOrder
<1>2. QED
  BY <1>1, UserIdsGood, PTL DEF Spec, OrderIsKept

\* A deque of signatures of different times, put into a new one.
LEMMA SameSigs ==
  ASSUME TypeOK, NoTies
  PROVE  RebuiltSigs(Kind) = sigs
<1>1. ASSUME NEW u \in Uid
      PROVE  InsortSome(sigs[u], [time : Time, kind : Kind], Earlier) = sigs[u]
  <2>1. sigs[u] \in Seq(Sig) /\ \A i \in DOMAIN sigs[u] : sigs[u][i] \in Sig
    BY DEF TypeOK
  <2>2. ToSet(sigs[u]) \subseteq [time : Time, kind : Kind]
    BY <2>1 DEF ToSet, Sig
  <2>3. \A i, j \in DOMAIN sigs[u] : i < j => Earlier[<<sigs[u][i], sigs[u][j]>>]
    BY <2>1 DEF NoTies, Earlier
  <2> DEFINE keep == [time : Time, kind : Kind]
  <2> HIDE DEF keep
  <2>4. QED
    BY <2>1, <2>2, <2>3, InsortSomeKeeps DEF keep
<1>2. RebuiltSigs(Kind) = [u \in Uid |-> sigs[u]]
  BY <1>1 DEF RebuiltSigs
<1>3. QED
  BY <1>2 DEF TypeOK

\* A copy of a key has the User IDs and signatures in the order of the original, if that
\* was sorted and no two have the same rank or time.
THEOREM CopyAlwaysKeepsOrder == Spec => []CopyKeepsOrder
<1>1. ASSUME TypeOK, NoTies, Sorted(uids, sigs)
      PROVE  RebuiltSigs(Kind) = sigs /\ RebuiltUids(sigs) = uids
  <2>1. uids \in Seq(Uid) /\ IsInjective(uids) /\ \A i \in DOMAIN uids : uids[i] \in Uid
    BY <1>1 DEF TypeOK
  <2>2. ASSUME NEW i \in DOMAIN uids, NEW j \in DOMAIN uids, i < j
        PROVE  Ranked(sigs)[<<uids[i], uids[j]>>]
    <3>1. i # j
      <4>1. i \in 1 .. Len(uids) /\ j \in 1 .. Len(uids)
        BY <2>1
      <4>2. QED
        BY <2>2, <4>1
    <3>2. uids[i] # uids[j] /\ uids[i] \in ToSet(uids) /\ uids[j] \in ToSet(uids)
      BY <2>1, <3>1 DEF IsInjective, ToSet
    <3>3. ~Lt(sigs, uids[j], uids[i])
      BY <1>1, <2>2 DEF Sorted
    <3>4. Lt(sigs, uids[i], uids[j])
      BY <1>1, <3>2, <3>3, Zenon DEF NoTies
    <3>5. Ranked(sigs)[<<uids[i], uids[j]>>] = Lt(sigs, uids[i], uids[j])
      BY <2>1 DEF Ranked
    <3>6. QED
      BY <3>4, <3>5, Zenon
  <2> DEFINE R == Ranked(sigs)
             keep == ToSet(uids)
  <2>3. InsortSome(uids, keep, R) = uids
    <3>1. keep \subseteq keep /\ ToSet(uids) \subseteq keep
      OBVIOUS
    <3> HIDE DEF R, keep
    <3>2. \A i, j \in DOMAIN uids : i < j => R[<<uids[i], uids[j]>>]
      BY <2>2 DEF R
    <3>3. QED
      BY <2>1, <3>1, <3>2, InsortSomeKeeps
  <2>4. RebuiltUids(sigs) = uids
    BY <2>3 DEF RebuiltUids, InsortAll
  <2>5. QED
    BY <1>1, <2>4, SameSigs
<1>2. UserIdsInv => CopyKeepsOrder
  <2>1. UserIdsInv => TypeOK
    BY DEF UserIdsInv
  <2>2. ASSUME TypeOK, NoTies, Sorted(uids, sigs)
        PROVE  RebuiltSigs(Kind) = sigs /\ RebuiltUids(RebuiltSigs(Kind)) = uids
    <3>1. RebuiltSigs(Kind) = sigs /\ RebuiltUids(sigs) = uids
      BY <1>1, <2>2
    <3>2. QED
      BY <3>1
  <2>3. QED
    BY <2>1, <2>2 DEF CopyKeepsOrder
<1>3. QED
  BY <1>2, UserIdsGood, PTL
=============================================================================
