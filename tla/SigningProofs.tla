--------------------------- MODULE SigningProofs ---------------------------
(***************************************************************************)
(* Proofs about Signing, for any keys, User IDs, documents and bounds:     *)
(* which signatures verify, which attestations count, and what changes     *)
(* when a key expires.                                                     *)
(***************************************************************************)
EXTENDS Signing, SequenceLemmas, FiniteSetTheorems

-----------------------------------------------------------------------------
(***************************************************************************)
(* The inductive invariant.                                                *)
(***************************************************************************)
\* What a signature of a type is made for and attached to.
Subjects(type) ==
  IF type \in {"cert", "certrev", "attest"} THEN Uid
  ELSE IF type \in {"bind", "pkbind", "subrev"} THEN Sub
  ELSE IF type = "doc" THEN Doc
  ELSE IF type = "keyrev" THEN Primary ELSE Key

\* A signature was computed over what it was wanted for, with the parent it had then.
Fits(s) ==
  /\ s.type \in {"cert", "certrev"} => s.whose # None
  /\ s.data = IF s.type \in {"doc", "direct", "keyrev"} THEN <<s.over>>
              ELSE IF s.type = "attest" THEN <<>> ELSE <<s.whose, s.over>>

MadeFits == \A n \in DOMAIN made : Fits(made[n])

Placed == \A x \in Thing : \A n \in ToSet(on[x]) : x \in Subjects(made[n].type)

\* The signatures on a thing are in the order of their times.
InTime == \A x \in Thing : InOrder(on[x], Earlier)

\* The User IDs of a key, of which each has a self-signature, are in the order of rank.
Ids(k) == {u \in Uid : owner[u] = k}
SelfSigned == \A k \in Primary : \A u \in Ids(k) : Selfsig(u) # {}
Ranking == \A k \in Primary : InOrder(uids[k], Ranked)

SigningInv == TypeOK /\ MadeFits /\ Placed /\ InTime /\ SelfSigned /\ Ranking

-----------------------------------------------------------------------------
(***************************************************************************)
(* Signatures, the list mk of them, and a deque q of their numbers.        *)
(***************************************************************************)
ByTime(mk) == [p \in (DOMAIN mk) \X (DOMAIN mk) |-> mk[p[1]].time < mk[p[2]].time]

\* The last of q that o made, as {} or {its number}, and the time of it.
LastBy(q, mk, o) ==
  LET self == {i \in DOMAIN q : mk[q[i]].by = o}
  IN  IF self = {} THEN {} ELSE {q[Max(self)]}
Latest(q, mk, o) == mk[CHOOSE n \in LastBy(q, mk, o) : TRUE].time

\* Signatures have creation times.
LEMMA TimesAreNumbers ==
  ASSUME NEW mk \in Seq(Made), NEW n \in DOMAIN mk
  PROVE  mk[n] \in Made /\ mk[n].time \in Nat
<1>1. mk[n] \in Made
  OBVIOUS
<1>2. QED
  BY <1>1 DEF Made

\* Creation times order signatures, those of the same second either way.
LEMMA ByTimeOrders ==
  ASSUME NEW mk \in Seq(Made)
  PROVE  WeakOrder(ByTime(mk), DOMAIN mk)
<1>1. \A n \in DOMAIN mk : mk[n].time \in Nat
  BY TimesAreNumbers
<1>2. ASSUME NEW x \in DOMAIN mk, NEW y \in DOMAIN mk
      PROVE  ByTime(mk)[<<x, y>>] = (mk[x].time < mk[y].time)
  BY DEF ByTime
<1>3. ASSUME NEW x \in DOMAIN mk, NEW y \in DOMAIN mk
      PROVE  ByTime(mk)[<<x, y>>] => ~ByTime(mk)[<<y, x>>]
  <2>1. mk[x].time < mk[y].time => ~(mk[y].time < mk[x].time)
    BY <1>1
  <2>2. QED
    BY <1>2, <2>1, Zenon
<1>4. ASSUME NEW x \in DOMAIN mk, NEW y \in DOMAIN mk, NEW z \in DOMAIN mk
      PROVE  ~ByTime(mk)[<<x, y>>] /\ ~ByTime(mk)[<<y, z>>] => ~ByTime(mk)[<<x, z>>]
  <2>1. ~(mk[x].time < mk[y].time) /\ ~(mk[y].time < mk[z].time) => ~(mk[x].time < mk[z].time)
    BY <1>1
  <2>2. QED
    BY <1>2, <2>1, Zenon
<1>5. QED
  BY <1>3, <1>4 DEF WeakOrder

\* It is at place m.
IsLastBy(q, mk, o, m) ==
  /\ m \in DOMAIN q /\ mk[q[m]].by = o /\ \A i \in DOMAIN q : mk[q[i]].by = o => i <= m
  /\ LastBy(q, mk, o) = {q[m]} /\ Latest(q, mk, o) = mk[q[m]].time

\* What is known of the last one.
LEMMA LastByFacts ==
  ASSUME NEW D, NEW q \in Seq(D), NEW mk, NEW o
  PROVE  \/ LastBy(q, mk, o) = {} /\ \A i \in DOMAIN q : mk[q[i]].by # o
         \/ \E m : IsLastBy(q, mk, o, m)
<1> DEFINE self == {i \in DOMAIN q : mk[q[i]].by = o}
<1>1. LastBy(q, mk, o) = IF self = {} THEN {} ELSE {q[Max(self)]}
  BY DEF LastBy
<1>2. CASE self = {}
  BY <1>1, <1>2
<1>3. CASE self # {}
  <2>1. Len(q) \in Nat /\ self \in SUBSET (0 .. Len(q))
    OBVIOUS
  <2>2. Max(self) \in self /\ \A k \in self : k <= Max(self)
    <3> HIDE DEF self
    <3> QED
      BY <1>3, <2>1, MaxOfBounded
  <2>3. LastBy(q, mk, o) = {q[Max(self)]}
    BY <1>1, <1>3
  <2> DEFINE e == q[Max(self)]
  <2>4. Latest(q, mk, o) = mk[e].time
    <3> HIDE DEF e
    <3>1. (CHOOSE n \in {e} : TRUE) = e
      OBVIOUS
    <3>2. QED
      BY <2>3, <3>1 DEF Latest, e
  <2>5. IsLastBy(q, mk, o, Max(self))
    BY <2>2, <2>3, <2>4 DEF IsLastBy
  <2> HIDE DEF self
  <2>6. QED
    BY <2>5
<1>4. QED
  BY <1>2, <1>3

\* Signatures that are not in the deque do not matter.
LEMMA LastBySame ==
  ASSUME NEW D, NEW q \in Seq(D), NEW mk, NEW mk2, NEW o,
         \A n \in D : mk2[n] = mk[n]
  PROVE  LastBy(q, mk2, o) = LastBy(q, mk, o)
<1>1. \A i \in DOMAIN q : mk2[q[i]] = mk[q[i]]
  OBVIOUS
<1>2. QED
  BY <1>1 DEF LastBy

\* A signature that another made does not replace the last one, wherever it is inserted.
LEMMA LastByOther ==
  ASSUME NEW D, NEW q \in Seq(D), NEW n \in D, NEW before, NEW mk, NEW o, mk[n].by # o
  PROVE  LastBy(Insort(q, n, before), mk, o) = LastBy(q, mk, o)
<1> DEFINE b == BisectLeft(q, Less(q, n, before))
           p == Insort(q, n, before)
<1>1. b \in 0 .. Len(q) /\ Len(q) \in Nat
  BY BisectLeftStops
<1>2. p = InsertAt(q, b + 1, n)
  BY DEF Insort
<1> HIDE DEF b, p
<1>3. p \in Seq(D) /\ Inserted(p, q, b, n)
  BY <1>1, <1>2, InsertAtFacts
<1>4. /\ p \in Seq(D) /\ Len(p) = Len(q) + 1
      /\ \A j \in 1 .. Len(q) + 1 :
           p[j] = IF j <= b THEN q[j] ELSE IF j = b + 1 THEN n ELSE q[j - 1]
  BY <1>3 DEF Inserted
<1>5. ASSUME NEW i \in 1 .. Len(q)
      PROVE  LET j == IF i <= b THEN i ELSE i + 1 IN j \in 1 .. Len(p) /\ p[j] = q[i]
  <2>1. i \in Nat /\ b \in Nat
    BY <1>1
  <2>2. CASE i <= b
    BY <1>1, <1>4, <2>2
  <2>3. CASE ~(i <= b)
    <3>1. i + 1 \in 1 .. Len(q) + 1 /\ ~(i + 1 <= b) /\ i + 1 # b + 1 /\ i + 1 - 1 = i
      BY <1>1, <2>1, <2>3
    <3>2. QED
      BY <1>4, <2>3, <3>1
  <2>4. QED
    BY <2>2, <2>3
<1>6. ASSUME NEW j \in 1 .. Len(p), j # b + 1
      PROVE  LET i == IF j <= b THEN j ELSE j - 1 IN i \in 1 .. Len(q) /\ p[j] = q[i]
  BY <1>1, <1>4, <1>6
<1>7. p[b + 1] = n
  <2>1. b + 1 \in 1 .. Len(q) + 1 /\ ~(b + 1 <= b)
    BY <1>1
  <2>2. QED
    BY <1>4, <2>1
<1>8. DOMAIN q = 1 .. Len(q) /\ DOMAIN p = 1 .. Len(p)
  BY <1>4
<1>9. CASE \A i \in DOMAIN q : mk[q[i]].by # o
  <2>1. LastBy(q, mk, o) = {}
    BY <1>9 DEF LastBy
  <2>2. \A j \in DOMAIN p : mk[p[j]].by # o
    BY <1>6, <1>7, <1>8, <1>9
  <2>3. QED
    BY <2>1, <2>2 DEF LastBy, p
<1>10. CASE \E i \in DOMAIN q : mk[q[i]].by = o
  <2>1. PICK m : IsLastBy(q, mk, o, m)
    BY <1>10, LastByFacts
  <2> DEFINE t == IF m <= b THEN m ELSE m + 1
  <2>2. t \in DOMAIN p /\ p[t] = q[m]
    BY <1>5, <1>8, <2>1 DEF IsLastBy
  <2>3. mk[p[t]].by = o
    BY <2>1, <2>2 DEF IsLastBy
  <2> HIDE DEF t
  <2>4. PICK l : IsLastBy(p, mk, o, l)
    BY <1>4, <2>2, <2>3, LastByFacts
  <2>5. t <= l /\ l # b + 1 /\ l \in DOMAIN p
    BY <1>7, <2>2, <2>3, <2>4 DEF IsLastBy
  <2> DEFINE i == IF l <= b THEN l ELSE l - 1
  <2>6. i \in DOMAIN q /\ p[l] = q[i]
    BY <1>6, <1>8, <2>5
  <2>7. i <= m
    BY <2>1, <2>4, <2>6 DEF IsLastBy
  <2>8. i = m
    <3>1. i \in Nat /\ m \in Nat /\ b \in Nat /\ l \in Nat
      BY <1>1, <1>8, <2>1, <2>5, <2>6 DEF IsLastBy
    <3>2. QED
      BY <2>5, <2>7, <3>1 DEF t
  <2>9. QED
    BY <2>1, <2>4, <2>6, <2>8 DEF IsLastBy, p
<1>11. QED
  BY <1>9, <1>10

\* In a deque that is in order the last one by somebody is the latest one.
LEMMA LastIsLatest ==
  ASSUME NEW mk \in Seq(Made), NEW q \in Seq(DOMAIN mk), InOrder(q, ByTime(mk)), NEW o,
         NEW n \in ToSet(q), mk[n].by = o
  PROVE  LastBy(q, mk, o) # {} /\ mk[n].time <= Latest(q, mk, o) /\ Latest(q, mk, o) \in Nat
<1>1. PICK i \in DOMAIN q : n = q[i]
  BY DEF ToSet
<1>2. PICK m : IsLastBy(q, mk, o, m)
  BY <1>1, LastByFacts
<1>3. i <= m /\ i \in Nat /\ m \in Nat /\ m \in DOMAIN q
  BY <1>1, <1>2 DEF IsLastBy
<1>4. q[i] \in DOMAIN mk /\ q[m] \in DOMAIN mk
      /\ mk[q[i]].time \in Nat /\ mk[q[m]].time \in Nat
  <2>1. q[i] \in DOMAIN mk /\ q[m] \in DOMAIN mk
    BY <1>3
  <2>2. QED
    BY <2>1, TimesAreNumbers
<1>5. mk[q[i]].time <= mk[q[m]].time
  <2>1. CASE i = m
    BY <1>4, <2>1
  <2>2. CASE i < m
    <3>1. ~ByTime(mk)[<<q[m], q[i]>>]
      BY <1>3, <2>2 DEF InOrder
    <3>2. ByTime(mk)[<<q[m], q[i]>>] = (mk[q[m]].time < mk[q[i]].time)
      BY <1>4 DEF ByTime
    <3>3. ~(mk[q[m]].time < mk[q[i]].time)
      BY <3>1, <3>2, Zenon
    <3>4. QED
      BY <1>4, <3>3
  <2>3. QED
    BY <1>3, <2>1, <2>2
<1>6. QED
  BY <1>1, <1>2, <1>4, <1>5 DEF IsLastBy

-----------------------------------------------------------------------------
(***************************************************************************)
(* More signatures, mk2, and one of them put into a deque.                 *)
(***************************************************************************)
Extends(mk, mk2) == DOMAIN mk \subseteq DOMAIN mk2 /\ \A n \in DOMAIN mk : mk2[n] = mk[n]

Agree(D, b1, b2) == \A x, y \in D : b2[<<x, y>>] <=> b1[<<x, y>>]

\* What is in order stays so under an order that agrees on it.
LEMMA SameOrder ==
  ASSUME NEW D, NEW q \in Seq(D), NEW b1, NEW b2, Agree(D, b1, b2), InOrder(q, b1)
  PROVE  InOrder(q, b2)
<1>1. \A i \in DOMAIN q : q[i] \in D
  OBVIOUS
<1>2. QED
  BY <1>1, Zenon DEF InOrder, Agree

\* A deque may hold more than it does.
LEMMA LargerDomain ==
  ASSUME NEW D, NEW D2, D \subseteq D2, NEW q \in Seq(D)
  PROVE  q \in Seq(D2)
OBVIOUS

\* A deque that nothing is put into.
LEMMA Unchanged ==
  ASSUME NEW mk \in Seq(Made), NEW mk2 \in Seq(Made), Extends(mk, mk2),
         NEW q \in Seq(DOMAIN mk)
  PROVE  /\ q \in Seq(DOMAIN mk2)
         /\ InOrder(q, ByTime(mk)) => InOrder(q, ByTime(mk2))
         /\ \A o : LastBy(q, mk2, o) = LastBy(q, mk, o)
<1>1. q \in Seq(DOMAIN mk2)
  <2>1. DOMAIN mk \subseteq DOMAIN mk2
    BY DEF Extends
  <2>2. QED
    BY <2>1, LargerDomain
<1>2. ASSUME NEW x \in DOMAIN mk, NEW y \in DOMAIN mk
      PROVE  ByTime(mk2)[<<x, y>>] <=> ByTime(mk)[<<x, y>>]
  BY DEF Extends, ByTime
<1>3. InOrder(q, ByTime(mk)) => InOrder(q, ByTime(mk2))
  <2>1. Agree(DOMAIN mk, ByTime(mk), ByTime(mk2))
    BY <1>2, Zenon DEF Agree
  <2>2. QED
    BY <2>1, SameOrder
<1>4. ASSUME NEW o
      PROVE  LastBy(q, mk2, o) = LastBy(q, mk, o)
  BY LastBySame DEF Extends
<1>5. QED
  BY <1>1, <1>3, <1>4

\* A signature put into a deque: the last one by its maker is not older then, the last one
\* by another the same.
LEMMA PutOne ==
  ASSUME NEW mk \in Seq(Made), NEW mk2 \in Seq(Made), Extends(mk, mk2),
         NEW q \in Seq(DOMAIN mk), InOrder(q, ByTime(mk)), NEW n \in DOMAIN mk2
  PROVE  LET p == Insort(q, n, ByTime(mk2))
         IN  /\ p \in Seq(DOMAIN mk2) /\ ToSet(p) = ToSet(q) \cup {n}
             /\ InOrder(p, ByTime(mk2))
             /\ \A o : mk2[n].by # o => LastBy(p, mk2, o) = LastBy(q, mk, o)
             /\ \A o : mk2[n].by = o => /\ LastBy(p, mk2, o) # {}
                                       /\ mk2[n].time <= Latest(p, mk2, o)
<1> DEFINE p == Insort(q, n, ByTime(mk2))
<1>1. q \in Seq(DOMAIN mk2) /\ InOrder(q, ByTime(mk2))
      /\ \A o : LastBy(q, mk2, o) = LastBy(q, mk, o)
  BY Unchanged
<1>2. p \in Seq(DOMAIN mk2) /\ ToSet(p) = ToSet(q) \cup {n}
  BY <1>1, InsortFacts
<1>3. InOrder(p, ByTime(mk2))
  BY <1>1, ByTimeOrders, InsortKeepsOrder
<1>4. ASSUME NEW o, mk2[n].by # o
      PROVE  LastBy(p, mk2, o) = LastBy(q, mk, o)
  BY <1>1, <1>4, LastByOther
<1> HIDE DEF p
<1>5. ASSUME NEW o, mk2[n].by = o
      PROVE  LastBy(p, mk2, o) # {} /\ mk2[n].time <= Latest(p, mk2, o)
  <2>1. n \in ToSet(p)
    BY <1>2
  <2>2. QED
    BY <1>2, <1>3, <1>5, <2>1, LastIsLatest
<1>6. QED
  BY <1>2, <1>3, <1>4, <1>5 DEF p

-----------------------------------------------------------------------------
(***************************************************************************)
(* Ranks: a User ID comes before those that were signed earlier.           *)
(***************************************************************************)
Before(S, T, mk) ==
  IF S = {} THEN T # {} ELSE \A m \in S : \E n \in T : mk[n].time < mk[m].time

RankBy(onn, mk, ow) ==
  [p \in Uid \X Uid |->
     Before(LastBy(onn[p[1]], mk, ow[p[1]]), LastBy(onn[p[2]], mk, ow[p[2]]), mk)]

\* The orders and self-signatures of the model, before and after a step.
LEMMA Ranks ==
  /\ Ranked = RankBy(on, made, owner) /\ Ranked' = RankBy(on', made', owner')
  /\ Earlier = ByTime(made) /\ Earlier' = ByTime(made')
  /\ \A u \in Uid : Selfsig(u) = LastBy(on[u], made, owner[u])
  /\ \A u \in Uid : Selfsig(u)' = LastBy(on'[u], made', owner'[u])
<1>1. \A u \in Uid : Selfsig(u) = LastBy(on[u], made, owner[u])
  BY DEF Selfsig, LastBy
<1>2. \A u \in Uid : Selfsig(u)' = LastBy(on'[u], made', owner'[u])
  BY DEF Selfsig, LastBy
<1>3. Ranked = RankBy(on, made, owner)
  BY <1>1 DEF Ranked, RankBy, Lt, Before
<1>4. Ranked' = RankBy(on', made', owner')
  BY <1>2 DEF Ranked, RankBy, Lt, Before
<1>5. Earlier = ByTime(made) /\ Earlier' = ByTime(made')
  BY DEF Earlier, ByTime
<1>6. QED
  BY <1>1, <1>2, <1>3, <1>4, <1>5

ByLatest(onn, mk, ow, u, v) ==
  /\ RankBy(onn, mk, ow)[<<u, v>>] <=> Latest(onn[v], mk, ow[v]) < Latest(onn[u], mk, ow[u])
  /\ Latest(onn[u], mk, ow[u]) \in Nat /\ Latest(onn[v], mk, ow[v]) \in Nat

\* For User IDs with self-signatures the rank is the time of these, the latest first.
LEMMA RankIsTime ==
  ASSUME NEW mk \in Seq(Made), NEW onn, NEW ow,
         NEW u \in Uid, onn[u] \in Seq(DOMAIN mk), LastBy(onn[u], mk, ow[u]) # {},
         NEW v \in Uid, onn[v] \in Seq(DOMAIN mk), LastBy(onn[v], mk, ow[v]) # {}
  PROVE  ByLatest(onn, mk, ow, u, v)
<1>1. PICK l : IsLastBy(onn[u], mk, ow[u], l)
  BY LastByFacts
<1>2. PICK m : IsLastBy(onn[v], mk, ow[v], m)
  BY LastByFacts
<1> DEFINE a == onn[u][l]
           b == onn[v][m]
<1>3. /\ LastBy(onn[u], mk, ow[u]) = {a} /\ Latest(onn[u], mk, ow[u]) = mk[a].time
      /\ a \in DOMAIN mk
  BY <1>1 DEF IsLastBy
<1>4. /\ LastBy(onn[v], mk, ow[v]) = {b} /\ Latest(onn[v], mk, ow[v]) = mk[b].time
      /\ b \in DOMAIN mk
  BY <1>2 DEF IsLastBy
<1> HIDE DEF a, b
<1>5. Before({a}, {b}, mk) <=> mk[b].time < mk[a].time
  <2>1. {a} # {}
    OBVIOUS
  <2>2. Before({a}, {b}, mk) <=> \A m0 \in {a} : \E n \in {b} : mk[n].time < mk[m0].time
    BY <2>1, Zenon DEF Before
  <2>3. QED
    BY <2>2, Zenon
<1>6. RankBy(onn, mk, ow)[<<u, v>>] <=> Before({a}, {b}, mk)
  BY <1>3, <1>4 DEF RankBy
<1>7. mk[a].time \in Nat /\ mk[b].time \in Nat
  BY <1>3, <1>4, TimesAreNumbers
<1>8. QED
  BY <1>3, <1>4, <1>5, <1>6, <1>7, Zenon DEF ByLatest

\* A set of such User IDs is ordered by rank.
LEMMA RankOrders ==
  ASSUME NEW mk \in Seq(Made), NEW onn, NEW ow, NEW A \in SUBSET Uid,
         \A u \in A : onn[u] \in Seq(DOMAIN mk) /\ LastBy(onn[u], mk, ow[u]) # {}
  PROVE  WeakOrder(RankBy(onn, mk, ow), A)
<1> DEFINE L(u) == Latest(onn[u], mk, ow[u])
           R == RankBy(onn, mk, ow)
<1>1. ASSUME NEW u \in A, NEW v \in A
      PROVE  (R[<<u, v>>] <=> L(v) < L(u)) /\ L(u) \in Nat /\ L(v) \in Nat
  <2>1. /\ u \in Uid /\ onn[u] \in Seq(DOMAIN mk) /\ LastBy(onn[u], mk, ow[u]) # {}
        /\ v \in Uid /\ onn[v] \in Seq(DOMAIN mk) /\ LastBy(onn[v], mk, ow[v]) # {}
    OBVIOUS
  <2>2. ByLatest(onn, mk, ow, u, v)
    BY <2>1, RankIsTime
  <2>3. QED
    BY <2>2, Zenon DEF ByLatest
<1> HIDE DEF L, R
<1>2. ASSUME NEW x \in A, NEW y \in A
      PROVE  R[<<x, y>>] => ~R[<<y, x>>]
  <2>1. L(x) \in Nat /\ L(y) \in Nat
    BY <1>1
  <2>2. L(y) < L(x) => ~(L(x) < L(y))
    BY <2>1
  <2>3. (R[<<x, y>>] <=> L(y) < L(x)) /\ (R[<<y, x>>] <=> L(x) < L(y))
    BY <1>1
  <2>4. QED
    BY <2>2, <2>3, Zenon
<1>3. ASSUME NEW x \in A, NEW y \in A, NEW z \in A
      PROVE  ~R[<<x, y>>] /\ ~R[<<y, z>>] => ~R[<<x, z>>]
  <2>1. L(x) \in Nat /\ L(y) \in Nat /\ L(z) \in Nat
    BY <1>1
  <2>2. ~(L(y) < L(x)) /\ ~(L(z) < L(y)) => ~(L(z) < L(x))
    BY <2>1
  <2>3. /\ (R[<<x, y>>] <=> L(y) < L(x)) /\ (R[<<y, z>>] <=> L(z) < L(y))
        /\ (R[<<x, z>>] <=> L(z) < L(x))
    BY <1>1
  <2>4. QED
    BY <2>2, <2>3, Zenon
<1>4. QED
  BY <1>2, <1>3 DEF WeakOrder, R

-----------------------------------------------------------------------------
(***************************************************************************)
(* What the steps have in common.                                          *)
(***************************************************************************)
MadeOK(mk, t) ==
  /\ mk \in Seq(Made)
  /\ \A n \in DOMAIN mk : mk[n].time <= t /\ mk[n].lists \subseteq 1 .. n - 1 /\ Fits(mk[n])

\* One more signature.
LEMMA OneMore ==
  ASSUME NEW mk, NEW t, MadeOK(mk, t), NEW s \in Made, Fits(s), s.time <= t,
         s.lists \subseteq DOMAIN mk
  PROVE  LET mk2 == Append(mk, s)
         IN  /\ MadeOK(mk2, t) /\ Extends(mk, mk2)
             /\ Len(mk2) = Len(mk) + 1 /\ mk2[Len(mk2)] = s /\ Len(mk2) \in DOMAIN mk2
<1> DEFINE mk2 == Append(mk, s)
<1>1. mk \in Seq(Made) /\ Len(mk) \in Nat /\ DOMAIN mk = 1 .. Len(mk)
  BY DEF MadeOK
<1>2. /\ mk2 \in Seq(Made) /\ Len(mk2) = Len(mk) + 1 /\ DOMAIN mk2 = 1 .. Len(mk) + 1
      /\ mk2[Len(mk) + 1] = s /\ \A n \in DOMAIN mk : mk2[n] = mk[n]
  BY <1>1
<1> HIDE DEF mk2
<1>3. Extends(mk, mk2)
  BY <1>1, <1>2 DEF Extends
<1>4. ASSUME NEW n \in DOMAIN mk2
      PROVE  mk2[n].time <= t /\ mk2[n].lists \subseteq 1 .. n - 1 /\ Fits(mk2[n])
  <2>1. CASE n \in DOMAIN mk
    BY <1>2, <2>1 DEF MadeOK
  <2>2. CASE n \notin DOMAIN mk
    <3>1. n = Len(mk) + 1 /\ n - 1 = Len(mk)
      BY <1>1, <1>2, <2>2
    <3>2. QED
      BY <1>1, <1>2, <3>1
  <2>3. QED
    BY <2>1, <2>2
<1>5. MadeOK(mk2, t)
  BY <1>2, <1>4 DEF MadeOK
<1>6. QED
  BY <1>1, <1>2, <1>3, <1>5 DEF mk2

\* The User IDs of a key.
LEMMA UidsOfKey ==
  ASSUME TypeOK, NEW k \in Primary
  PROVE  /\ uids[k] \in Seq(Ids(k)) /\ ToSet(uids[k]) = Ids(k) /\ IsInjective(uids[k])
         /\ uids[k] \in Seq(Uid)
<1>1. uids[k] \in Seq(Uid) /\ IsInjective(uids[k])
  BY DEF TypeOK
<1>2. ToSet(uids[k]) \subseteq Uid
  BY <1>1 DEF ToSet
<1>3. ToSet(uids[k]) = Ids(k)
  BY <1>2 DEF TypeOK, Ids
<1>4. \A i \in 1 .. Len(uids[k]) : uids[k][i] \in Ids(k)
  BY <1>1, <1>3 DEF ToSet
<1>5. QED
  BY <1>1, <1>3, <1>4

\* The signatures of one thing change, those made before stay what they are.
LEMMA OneDeque ==
  ASSUME SigningInv, made' \in Seq(Made), Extends(made, made'),
         NEW at \in Thing, NEW p \in Seq(DOMAIN made'), InOrder(p, ByTime(made')),
         \A n \in ToSet(p) \ ToSet(on[at]) : at \in Subjects(made'[n].type),
         on' = [on EXCEPT ![at] = p]
  PROVE  /\ on' \in [Thing -> Seq(DOMAIN made')] /\ Placed' /\ InTime'
         /\ \A x \in Thing : \A o :
              x # at => LastBy(on'[x], made', o) = LastBy(on[x], made, o)
<1>1. /\ made \in Seq(Made) /\ on \in [Thing -> Seq(DOMAIN made)] /\ on'[at] = p
      /\ \A x \in Thing : x # at => on'[x] = on[x]
  BY DEF SigningInv, TypeOK
<1>2. \A x \in Thing : on[x] \in Seq(DOMAIN made) /\ InOrder(on[x], ByTime(made))
  BY <1>1, Ranks DEF SigningInv, InTime
<1>3. ASSUME NEW x \in Thing
      PROVE  /\ on[x] \in Seq(DOMAIN made') /\ InOrder(on[x], ByTime(made'))
             /\ \A o : LastBy(on[x], made', o) = LastBy(on[x], made, o)
  BY <1>1, <1>2, Unchanged
<1>4. on' \in [Thing -> Seq(DOMAIN made')]
  BY <1>1, <1>3
<1>5. InTime'
  BY <1>1, <1>3, Ranks DEF InTime
<1>6. ASSUME NEW x \in Thing, NEW n \in ToSet(on[x])
      PROVE  x \in Subjects(made'[n].type)
  <2>1. n \in DOMAIN made
    BY <1>2 DEF ToSet
  <2>2. QED
    BY <2>1 DEF SigningInv, Placed, Extends
<1>7. ASSUME NEW x \in Thing, NEW n \in ToSet(on'[x])
      PROVE  x \in Subjects(made'[n].type)
  BY <1>1, <1>6, <1>7
<1>8. Placed'
  BY <1>7 DEF Placed, Subjects
<1>9. QED
  BY <1>1, <1>3, <1>4, <1>5, <1>8

\* User IDs whose last self-signature stays keep their ranks.
LEMMA RanksKept ==
  ASSUME SigningInv, made' \in Seq(Made), Extends(made, made'),
         on' \in [Thing -> Seq(DOMAIN made')],
         NEW k \in Primary, NEW A \in SUBSET Ids(k),
         \A u \in A : owner'[u] = k /\ LastBy(on'[u], made', k) = LastBy(on[u], made, k)
  PROVE  /\ Agree(A, Ranked, Ranked')
         /\ \A u \in A : /\ LastBy(on'[u], made', k) # {}
                         /\ Latest(on'[u], made', k) = Latest(on[u], made, k)
<1>1. made \in Seq(Made) /\ on \in [Thing -> Seq(DOMAIN made)]
  BY DEF SigningInv, TypeOK
<1>2. ASSUME NEW u \in A
      PROVE  /\ u \in Uid /\ u \in Thing /\ owner[u] = k /\ owner'[u] = k
             /\ on[u] \in Seq(DOMAIN made) /\ on'[u] \in Seq(DOMAIN made')
             /\ LastBy(on[u], made, owner[u]) # {} /\ LastBy(on'[u], made', owner'[u]) # {}
  <2>1. u \in Uid /\ owner[u] = k /\ u \in Thing
    BY DEF Ids, Thing
  <2>2. LastBy(on[u], made, k) # {}
    BY <2>1, Ranks DEF SigningInv, SelfSigned, Ids
  <2>3. QED
    BY <1>1, <2>1, <2>2
<1>3. ASSUME NEW u \in A
      PROVE  Latest(on'[u], made', k) = Latest(on[u], made, k)
  <2>1. PICK m : IsLastBy(on[u], made, k, m)
    BY <1>2, LastByFacts
  <2>2. LastBy(on[u], made, k) = {on[u][m]} /\ on[u][m] \in DOMAIN made
    BY <1>2, <2>1 DEF IsLastBy
  <2> DEFINE e == on[u][m]
  <2> HIDE DEF e
  <2>3. (CHOOSE n \in {e} : TRUE) = e
    OBVIOUS
  <2>4. QED
    BY <2>2, <2>3 DEF Latest, Extends, e
<1>4. ASSUME NEW u \in A, NEW v \in A
      PROVE  Ranked'[<<u, v>>] <=> Ranked[<<u, v>>]
  <2>1. ByLatest(on, made, owner, u, v) /\ ByLatest(on', made', owner', u, v)
    BY <1>1, <1>2, RankIsTime
  <2>2. /\ Latest(on'[u], made', owner'[u]) = Latest(on[u], made, owner[u])
        /\ Latest(on'[v], made', owner'[v]) = Latest(on[v], made, owner[v])
    BY <1>2, <1>3
  <2>3. Ranked = RankBy(on, made, owner) /\ Ranked' = RankBy(on', made', owner')
    BY Ranks
  <2>4. QED
    BY <2>1, <2>2, <2>3, Zenon DEF ByLatest
<1>5. QED
  BY <1>2, <1>3, <1>4, Zenon DEF Agree

\* The User IDs of a key stay in order if nothing happens to them.
LEMMA OrderStays ==
  ASSUME SigningInv, made' \in Seq(Made), Extends(made, made'),
         on' \in [Thing -> Seq(DOMAIN made')], NEW k \in Primary, uids'[k] = uids[k],
         \A u \in Ids(k) : owner'[u] = k /\ LastBy(on'[u], made', k) = LastBy(on[u], made, k)
  PROVE  InOrder(uids'[k], Ranked')
<1>1. Agree(Ids(k), Ranked, Ranked')
  BY RanksKept
<1>2. uids[k] \in Seq(Ids(k)) /\ InOrder(uids[k], Ranked)
  BY UidsOfKey DEF SigningInv, Ranking
<1>3. QED
  BY <1>1, <1>2, SameOrder

-----------------------------------------------------------------------------
(***************************************************************************)
(* The steps.                                                              *)
(***************************************************************************)
\* What Signature returns is computed over what it is wanted for.
LEMMA SignatureFits ==
  ASSUME TypeOK, NEW type \in Type, type \notin {"bind", "pkbind"}, NEW by \in Key,
         NEW x \in Subjects(type), NEW exp \in Expiry, NEW lists \in SUBSET (DOMAIN made),
         type \in {"cert", "certrev", "subrev"} => owner[x] # None
  PROVE  LET s == Signature(type, by, x, x, exp, lists)
         IN  /\ s \in Made /\ Fits(s) /\ s.type = type /\ s.by = by
             /\ s.time = now /\ s.lists = lists
<1> DEFINE s == Signature(type, by, x, x, exp, lists)
<1>1. x \in Thing /\ OwnerOf(x) \in Primary \cup {None} /\ (x \in Uid \cup Sub => OwnerOf(x) = owner[x])
  BY DEF Subjects, Thing, Key, OwnerOf, TypeOK
<1>2. /\ s.type = type /\ s.by = by /\ s.data = Hashed(type, by, x) /\ s.time = now
      /\ s.exp = exp /\ s.lists = lists /\ s.over = x /\ s.whose = OwnerOf(x)
      /\ s = [type |-> type, by |-> by, data |-> Hashed(type, by, x), time |-> now, exp |-> exp,
               lists |-> lists, over |-> x, whose |-> OwnerOf(x)]
  BY DEF Signature
<1> HIDE DEF s
<1>3. ASSUME type \in {"cert", "certrev", "subrev"}
      PROVE  Hashed(type, by, x) \in Seq(Thing) /\ Fits(s)
  <2>1. x \in Uid \cup Sub /\ owner[x] \in Primary /\ None \notin Primary
    BY <1>3, SigningAssumption DEF Subjects, TypeOK, Thing, Key
  <2>2. Hashed(type, by, x) = <<owner[x], x>>
    BY <1>3 DEF Hashed
  <2>3. Hashed(type, by, x) \in Seq(Thing)
    BY <1>1, <2>1, <2>2 DEF Thing, Key
  <2>4. Fits(s)
    BY <1>1, <1>2, <1>3, <2>1, <2>2 DEF Fits
  <2>5. QED
    BY <2>3, <2>4
<1>4. ASSUME type \in {"doc", "direct", "keyrev"}
      PROVE  Hashed(type, by, x) \in Seq(Thing) /\ Fits(s)
  <2>1. Hashed(type, by, x) = <<x>>
    BY <1>4 DEF Hashed
  <2>2. QED
    BY <1>1, <1>2, <1>4, <2>1 DEF Fits
<1>5. ASSUME type = "attest"
      PROVE  Hashed(type, by, x) \in Seq(Thing) /\ Fits(s)
  <2>1. Hashed(type, by, x) = <<>>
    BY <1>5 DEF Hashed
  <2>2. <<>> \in Seq(Thing)
    OBVIOUS
  <2>3. s.type = "attest" /\ s.data = <<>>
    BY <1>2, <1>5, <2>1
  <2>4. Fits(s)
    BY <2>3 DEF Fits
  <2>5. QED
    BY <2>1, <2>2, <2>4
<1>6. Hashed(type, by, x) \in Seq(Thing) /\ Fits(s)
  <2>1. type \in {"cert", "certrev", "subrev", "doc", "direct", "keyrev", "attest"}
    BY DEF Type
  <2>2. QED
    BY <1>3, <1>4, <1>5, <2>1
<1>7. now \in Nat /\ lists \in SUBSET Nat
  BY DEF TypeOK
<1>8. s \in Made
  BY <1>1, <1>2, <1>6, <1>7 DEF Made
<1>9. QED
  BY <1>2, <1>6, <1>8 DEF s

\* A signature is made for x and attached to at, where a signature of its type may be.
Attached(type, by, x, at, exp, lists) ==
  /\ type \in Type \ {"bind", "pkbind"} /\ by \in Key /\ exp \in Expiry
  /\ x \in Subjects(type) /\ at \in Subjects(type) /\ lists \in SUBSET (DOMAIN made)
  /\ type \in {"cert", "certrev", "subrev"} => owner[x] # None
  /\ SignAndAttach(type, by, x, at, exp, lists)

\* by has signed something, n is the number of that signature, and it hangs on at.
Signed(by, at) ==
  LET n == Len(made')
  IN  /\ at \in Thing /\ by \in Key /\ now \in Nat /\ UNCHANGED <<owner, children, now>>
      /\ uids' = Resorted(at)
      /\ MadeOK(made', now) /\ Extends(made, made') /\ n \in DOMAIN made' \ DOMAIN made
      /\ made'[n].by = by
      /\ on' \in [Thing -> Seq(DOMAIN made')] /\ Placed' /\ InTime'
      /\ \A y \in Thing : \A o : y # at => LastBy(on'[y], made', o) = LastBy(on[y], made, o)
      /\ \A o : by # o => LastBy(on'[at], made', o) = LastBy(on[at], made, o)
      /\ LastBy(on'[at], made', by) # {} /\ now <= Latest(on'[at], made', by)

\* What such a step does to the signatures.
LEMMA AttachFacts ==
  ASSUME SigningInv, NEW type, NEW by, NEW x, NEW at, NEW exp, NEW lists,
         Attached(type, by, x, at, exp, lists)
  PROVE  Signed(by, at)
<1> DEFINE s == Signature(type, by, x, x, exp, lists)
           n == Len(made')
           q == Insort(on[at], n, ByTime(made'))
<1>1. /\ TypeOK /\ MadeOK(made, now) /\ at \in Thing /\ type \in Type /\ type \notin {"bind", "pkbind"}
      /\ by \in Key /\ exp \in Expiry /\ x \in Subjects(type) /\ at \in Subjects(type)
      /\ lists \in SUBSET (DOMAIN made) /\ (type \in {"cert", "certrev", "subrev"} => owner[x] # None)
  BY DEF Attached, SigningInv, TypeOK, MadeFits, MadeOK, Subjects, Thing, Key
<1>2. s \in Made /\ Fits(s) /\ s.type = type /\ s.by = by /\ s.time = now /\ s.lists = lists
  BY <1>1, SignatureFits
<1>3. /\ made' = Append(made, s) /\ on' = [on EXCEPT ![at] = q] /\ UNCHANGED <<owner, children, now>>
      /\ uids' = Resorted(at)
  BY Ranks DEF Attached, SignAndAttach, PutSig
<1> HIDE DEF s
<1>4. /\ MadeOK(made', now) /\ Extends(made, made') /\ n \in DOMAIN made'
      /\ made'[n].type = type /\ made'[n].by = by /\ made'[n].time = now /\ now \in Nat
      /\ n \notin DOMAIN made
  <2>1. s.time <= now /\ s.lists \subseteq DOMAIN made /\ now \in Nat
    BY <1>1, <1>2 DEF TypeOK
  <2>2. n = Len(made) + 1 /\ n \notin DOMAIN made
    <3>1. made \in Seq(Made)
      BY <1>1 DEF MadeOK
    <3>2. QED
      BY <1>3, <3>1
  <2>3. QED
    BY <1>1, <1>2, <1>3, <2>1, <2>2, OneMore
<1> HIDE DEF n
<1>5. /\ made \in Seq(Made) /\ made' \in Seq(Made)
      /\ on \in [Thing -> Seq(DOMAIN made)] /\ on[at] \in Seq(DOMAIN made)
      /\ InOrder(on[at], ByTime(made))
  BY <1>1, <1>4, Ranks DEF MadeOK, TypeOK, SigningInv, InTime
<1>6. /\ q \in Seq(DOMAIN made') /\ ToSet(q) = ToSet(on[at]) \cup {n} /\ InOrder(q, ByTime(made'))
      /\ \A o : by # o => LastBy(q, made', o) = LastBy(on[at], made, o)
      /\ LastBy(q, made', by) # {} /\ now <= Latest(q, made', by)
  BY <1>4, <1>5, PutOne
<1> HIDE DEF q
<1>7. /\ on' \in [Thing -> Seq(DOMAIN made')] /\ Placed' /\ InTime'
      /\ \A y \in Thing : \A o : y # at => LastBy(on'[y], made', o) = LastBy(on[y], made, o)
  <2>1. \A m \in ToSet(q) \ ToSet(on[at]) : at \in Subjects(made'[m].type)
    BY <1>1, <1>4, <1>6
  <2>2. QED
    BY <1>1, <1>3, <1>4, <1>5, <1>6, <2>1, OneDeque
<1>8. on'[at] = q
  BY <1>1, <1>3, <1>5
<1>9. QED
  BY <1>1, <1>3, <1>4, <1>6, <1>7, <1>8 DEF Signed, n

\* The invariant is kept.
LEMMA AttachKeeps ==
  ASSUME SigningInv, NEW type, NEW by, NEW x, NEW at, NEW exp, NEW lists,
         Attached(type, by, x, at, exp, lists)
  PROVE  SigningInv'
<1>0. Signed(by, at)
  BY AttachFacts
<1>1. TypeOK /\ MadeOK(made, now) /\ at \in Thing /\ by \in Key
  BY <1>0 DEF Signed, SigningInv, TypeOK, MadeFits, MadeOK
<1>2. UNCHANGED <<owner, children, now>> /\ uids' = Resorted(at)
  BY <1>0, Zenon DEF Signed
<1>3. MadeOK(made', now) /\ Extends(made, made') /\ now \in Nat
  BY <1>0, Zenon DEF Signed
<1>4. made \in Seq(Made) /\ made' \in Seq(Made) /\ on \in [Thing -> Seq(DOMAIN made)]
  BY <1>1, <1>3 DEF MadeOK, TypeOK
<1>5. /\ \A o : by # o => LastBy(on'[at], made', o) = LastBy(on[at], made, o)
      /\ LastBy(on'[at], made', by) # {} /\ now <= Latest(on'[at], made', by)
  BY <1>0, Zenon DEF Signed
<1>6. /\ on' \in [Thing -> Seq(DOMAIN made')] /\ Placed' /\ InTime'
      /\ \A y \in Thing : \A o : y # at => LastBy(on'[y], made', o) = LastBy(on[y], made, o)
  BY <1>0, Zenon DEF Signed
<1>7. ASSUME NEW k \in Primary
      PROVE  /\ uids'[k] \in Seq(Uid) /\ IsInjective(uids'[k]) /\ ToSet(uids'[k]) = Ids(k)
             /\ InOrder(uids'[k], Ranked')
             /\ \A u \in Ids(k) : LastBy(on'[u], made', k) # {}
  <2>0. /\ uids[k] \in Seq(Ids(k)) /\ ToSet(uids[k]) = Ids(k) /\ IsInjective(uids[k])
        /\ uids[k] \in Seq(Uid) /\ InOrder(uids[k], Ranked)
    BY <1>1, UidsOfKey DEF SigningInv, Ranking
  <2>1. \A u \in Ids(k) : u \in Thing /\ owner[u] = k /\ owner'[u] = k
    BY <1>2 DEF Ids, Thing
  <2>2. CASE at \notin Ids(k)
    <3>1. \A u \in Ids(k) : owner'[u] = k /\ LastBy(on'[u], made', k) = LastBy(on[u], made, k)
      BY <1>6, <2>1, <2>2
    <3>2. uids'[k] = uids[k]
      BY <1>1, <1>2, <2>2 DEF Resorted, OwnerOf, Ids, TypeOK
    <3>3. InOrder(uids'[k], Ranked')
      BY <1>3, <1>4, <1>6, <3>1, <3>2, OrderStays
    <3>4. \A u \in Ids(k) : LastBy(on'[u], made', k) # {}
      BY <1>3, <1>4, <1>6, <3>1, RanksKept
    <3>5. QED
      BY <2>0, <3>2, <3>3, <3>4
  <2>3. CASE at \in Ids(k)
    <3> DEFINE A == Ids(k)
               B == Ids(k) \ {at}
               t == Resort(uids[k], at, Ranked')
    <3>1. uids'[k] = t
      BY <1>1, <1>2, <2>1, <2>3 DEF Resorted, OwnerOf, Ids, TypeOK
    <3>2. at \in ToSet(uids[k])
      BY <2>0, <2>3
    <3>3. t \in Seq(A) /\ IsInjective(t) /\ ToSet(t) = A
      BY <2>0, <3>2, ResortFacts
    <3>4. \A u \in B : owner'[u] = k /\ LastBy(on'[u], made', k) = LastBy(on[u], made, k)
      BY <1>6, <2>1
    <3>5. /\ Agree(B, Ranked, Ranked')
          /\ \A u \in B : /\ LastBy(on'[u], made', k) # {}
                          /\ Latest(on'[u], made', k) = Latest(on[u], made, k)
      BY <1>3, <1>4, <1>6, <3>4, RanksKept
    <3>6. LastBy(on'[at], made', k) # {}
      <4>1. LastBy(on[at], made, k) # {}
        BY <2>3, Ranks DEF SigningInv, SelfSigned, Ids
      <4>2. QED
        BY <1>5, <4>1
    <3>7. \A u \in A : on'[u] \in Seq(DOMAIN made') /\ LastBy(on'[u], made', owner'[u]) # {}
      BY <1>6, <2>1, <3>5, <3>6
    <3>8. WeakOrder(Ranked', A)
      <4>1. A \in SUBSET Uid
        BY DEF Ids
      <4>2. WeakOrder(RankBy(on', made', owner'), A)
        BY <1>4, <3>7, <4>1, RankOrders
      <4>3. QED
        BY <4>2, Ranks
    <3>9. ASSUME NEW i \in DOMAIN uids[k], NEW j \in DOMAIN uids[k], i < j, uids[k][j] # at
          PROVE  uids[k][i] = at \/ ~Ranked'[<<uids[k][j], uids[k][i]>>]
      <4>1. uids[k][i] \in A /\ uids[k][j] \in B
        BY <2>0, <3>9
      <4>2. ~Ranked[<<uids[k][j], uids[k][i]>>]
        BY <2>0, <3>9 DEF InOrder
      <4>3. QED
        BY <3>5, <4>1, <4>2, Zenon DEF Agree
    <3>10. ASSUME NEW i \in DOMAIN uids[k], NEW j \in DOMAIN uids[k], i < j, uids[k][i] = at
           PROVE  ~Ranked'[<<uids[k][j], at>>]
      <4> DEFINE v == uids[k][j]
      <4>1. v \in B
        <5>1. i # j /\ v \in Ids(k)
          BY <2>0, <3>10
        <5>2. QED
          BY <2>0, <3>10, <5>1 DEF IsInjective
      <4>2. ~Ranked[<<v, at>>]
        BY <2>0, <3>10 DEF InOrder
      <4> HIDE DEF v
      <4>3. CASE by # k
        <5>1. \A u \in A : owner'[u] = k /\ LastBy(on'[u], made', k) = LastBy(on[u], made, k)
          BY <1>5, <2>1, <3>4, <4>3
        <5>2. Agree(A, Ranked, Ranked')
          BY <1>3, <1>4, <1>6, <5>1, RanksKept
        <5>3. ~Ranked'[<<v, at>>]
          BY <2>3, <4>1, <4>2, <5>2, Zenon DEF Agree
        <5>4. QED
          BY <5>3, Zenon DEF v
      <4>4. CASE by = k
        <5>1. ByLatest(on', made', owner', v, at)
          <6>1. v \in A /\ v \in Uid /\ at \in Uid
            BY <2>3, <4>1 DEF Ids
          <6>2. QED
            BY <1>4, <2>3, <3>7, <6>1, RankIsTime
        <5>2. Latest(on'[v], made', k) <= now
          <6>1. on[v] \in Seq(DOMAIN made) /\ LastBy(on[v], made, k) # {}
            BY <1>4, <2>1, <4>1, Ranks DEF SigningInv, SelfSigned, Ids
          <6>2. PICK m : IsLastBy(on[v], made, k, m)
            BY <6>1, LastByFacts
          <6>3. Latest(on[v], made, k) = made[on[v][m]].time /\ on[v][m] \in DOMAIN made
            BY <6>1, <6>2 DEF IsLastBy
          <6>4. QED
            BY <1>1, <3>5, <4>1, <6>3 DEF MadeOK
        <5>3. ~(Latest(on'[at], made', k) < Latest(on'[v], made', k))
          BY <1>3, <1>5, <4>4, <5>1, <5>2, <2>1, <2>3, <4>1 DEF ByLatest
        <5>4. Ranked' = RankBy(on', made', owner') /\ owner'[at] = k /\ owner'[v] = k
          BY <2>1, <2>3, <4>1, Ranks
        <5>5. ~Ranked'[<<v, at>>]
          BY <5>1, <5>3, <5>4, Zenon DEF ByLatest
        <5>6. QED
          BY <5>5, Zenon DEF v
      <4>5. QED
        BY <4>3, <4>4, Zenon
    <3>11. InOrder(t, Ranked')
      BY <2>0, <3>2, <3>8, <3>9, <3>10, ResortKeepsOrder
    <3>12. t \in Seq(Uid)
      <4>1. A \subseteq Uid
        BY DEF Ids
      <4>2. QED
        BY <3>3, <4>1, LargerDomain
    <3>13. QED
      BY <2>1, <3>1, <3>3, <3>7, <3>11, <3>12
  <2>4. QED
    BY <2>2, <2>3
<1>8. /\ \A k \in Primary : Ids(k)' = Ids(k)
      /\ \A k \in Primary : \A u \in Ids(k)' : Selfsig(u)' = LastBy(on'[u], made', k)
  BY <1>2, Ranks DEF Ids
<1>9. uids' \in [Primary -> Seq(Uid)]
  <2>1. uids' = [k \in Primary |-> uids'[k]]
    <3>1. uids = [k \in Primary |-> uids[k]]
      BY <1>1 DEF TypeOK
    <3>2. QED
      BY <1>2, <3>1 DEF Resorted
  <2>2. QED
    BY <1>7, <2>1
<1>10. TypeOK'
  <2>1. \A k \in Primary : \A u \in Uid : u \in ToSet(uids'[k]) <=> owner'[u] = k
    BY <1>2, <1>7 DEF Ids
  <2>2. QED
    BY <1>1, <1>2, <1>3, <1>6, <1>7, <1>9, <2>1 DEF TypeOK, MadeOK
<1>11. MadeFits'
  BY <1>3 DEF MadeOK, MadeFits, Fits
<1>12. SelfSigned'
  BY <1>7, <1>8 DEF SelfSigned
<1>13. Ranking'
  BY <1>7 DEF Ranking
<1>14. QED
  BY <1>6, <1>10, <1>11, <1>12, <1>13 DEF SigningInv

\* A User ID that has no key is signed and put among those of key k.
LEMMA AddUidKeeps ==
  ASSUME SigningInv, NEW k \in Primary, NEW u \in Uid, NEW exp \in Expiry, AddUid(k, u, exp)
  PROVE  SigningInv'
<1> DEFINE s == Signature("cert", k, u, u, exp, {})'
           n == Len(made')
           q == Insort(on[u], n, ByTime(made'))
<1>1. /\ TypeOK /\ MadeOK(made, now) /\ u \in Thing /\ k \in Key /\ k \in Thing
      /\ u \in DOMAIN owner /\ owner[u] = None /\ None \notin Primary /\ now \in Nat
  BY SigningAssumption DEF SigningInv, TypeOK, MadeFits, MadeOK, Thing, Key, AddUid
<1>2. /\ owner' = [owner EXCEPT ![u] = k] /\ owner'[u] = k
      /\ UNCHANGED <<children, now>> /\ made' = Append(made, s)
      /\ on' = [on EXCEPT ![u] = q] /\ uids' = [uids EXCEPT ![k] = Insort(@, u, Ranked')]
      /\ u \in DOMAIN owner'
  BY <1>1, Ranks DEF AddUid, PutSig
<1>3. s \in Made /\ Fits(s) /\ s.type = "cert" /\ s.by = k /\ s.time = now /\ s.lists = {}
  <2>1. Hashed("cert", k, u)' = <<k, u>> /\ OwnerOf(u)' = k
    BY <1>2 DEF Hashed, OwnerOf
  <2>2. s = [type |-> "cert", by |-> k, data |-> <<k, u>>, time |-> now, exp |-> exp,
             lists |-> {}, over |-> u, whose |-> k]
    BY <1>2, <2>1 DEF Signature
  <2> HIDE DEF s
  <2>3. <<k, u>> \in Seq(Thing) /\ {} \in SUBSET Nat /\ "cert" \in Type
    BY <1>1 DEF Type
  <2>4. s \in Made
    BY <1>1, <2>2, <2>3 DEF Made
  <2>5. Fits(s)
    BY <1>1, <2>2 DEF Fits
  <2>6. QED
    BY <2>2, <2>4, <2>5
<1> HIDE DEF s
<1>4. /\ MadeOK(made', now) /\ Extends(made, made') /\ n \in DOMAIN made'
      /\ made'[n].type = "cert" /\ made'[n].by = k /\ made'[n].time = now
  <2>1. s.time <= now /\ s.lists \subseteq DOMAIN made
    BY <1>1, <1>3
  <2>2. QED
    BY <1>1, <1>2, <1>3, <2>1, OneMore
<1> HIDE DEF n
<1>5. /\ made \in Seq(Made) /\ made' \in Seq(Made)
      /\ on \in [Thing -> Seq(DOMAIN made)] /\ on[u] \in Seq(DOMAIN made)
      /\ InOrder(on[u], ByTime(made))
  BY <1>1, <1>4, Ranks DEF MadeOK, TypeOK, SigningInv, InTime
<1>6. /\ q \in Seq(DOMAIN made') /\ ToSet(q) = ToSet(on[u]) \cup {n} /\ InOrder(q, ByTime(made'))
      /\ LastBy(q, made', k) # {}
  BY <1>4, <1>5, PutOne
<1> HIDE DEF q
<1>7. /\ on' \in [Thing -> Seq(DOMAIN made')] /\ Placed' /\ InTime'
      /\ \A y \in Thing : \A o : y # u => LastBy(on'[y], made', o) = LastBy(on[y], made, o)
  <2>1. \A m \in ToSet(q) \ ToSet(on[u]) : u \in Subjects(made'[m].type)
    BY <1>4, <1>6 DEF Subjects
  <2>2. QED
    BY <1>1, <1>2, <1>4, <1>5, <1>6, <2>1, OneDeque
<1>8. on'[u] = q
  BY <1>1, <1>2, <1>5
<1>9. ASSUME NEW j \in Primary
      PROVE  /\ uids'[j] \in Seq(Uid) /\ IsInjective(uids'[j]) /\ ToSet(uids'[j]) = Ids(j)'
             /\ InOrder(uids'[j], Ranked')
             /\ \A v \in Ids(j)' : LastBy(on'[v], made', j) # {}
  <2>1. /\ uids[j] \in Seq(Ids(j)) /\ ToSet(uids[j]) = Ids(j) /\ IsInjective(uids[j])
        /\ uids[j] \in Seq(Uid) /\ InOrder(uids[j], Ranked)
    BY <1>1, UidsOfKey DEF SigningInv, Ranking
  <2>2. u \notin Ids(j)
    BY <1>1 DEF Ids
  <2>3. ASSUME NEW v \in Ids(j)
        PROVE  v \in Uid /\ owner'[v] = j /\ LastBy(on'[v], made', j) = LastBy(on[v], made, j)
    <3>1. v \in Uid /\ v \in Thing /\ v # u /\ owner[v] = j
      BY <2>2 DEF Ids, Thing
    <3>2. QED
      BY <1>1, <1>2, <1>7, <3>1 DEF TypeOK
  <2>4. /\ Agree(Ids(j), Ranked, Ranked')
        /\ \A v \in Ids(j) : LastBy(on'[v], made', j) # {}
    BY <1>4, <1>5, <1>7, <2>3, RanksKept
  <2>5. CASE j # k
    <3>1. uids'[j] = uids[j] /\ Ids(j)' = Ids(j)
      BY <1>1, <1>2, <2>5 DEF TypeOK, Ids
    <3>2. InOrder(uids'[j], Ranked')
      BY <1>4, <1>5, <1>7, <2>3, <3>1, OrderStays
    <3>3. QED
      BY <2>1, <2>4, <3>1, <3>2
  <2>6. CASE j = k
    <3> DEFINE A == Ids(k) \cup {u}
               t == Insort(uids[k], u, Ranked')
    <3>1. uids'[k] = t /\ Ids(k)' = A
      BY <1>1, <1>2 DEF TypeOK, Ids
    <3>2. uids[k] \in Seq(A)
      BY <2>1, <2>6, LargerDomain
    <3>3. /\ t \in Seq(A) /\ ToSet(t) = A /\ IsInjective(t)
      BY <2>1, <2>2, <2>6, <3>2, InsortFacts
    <3>4. A \in SUBSET Uid /\ \A v \in A : owner'[v] = k /\ v \in Thing
      BY <1>2, <2>3, <2>6 DEF Thing
    <3>5. \A v \in A : on'[v] \in Seq(DOMAIN made') /\ LastBy(on'[v], made', k) # {}
      BY <1>6, <1>7, <1>8, <2>4, <2>6, <3>4
    <3>6. WeakOrder(Ranked', A)
      <4>1. WeakOrder(RankBy(on', made', owner'), A)
        BY <1>5, <3>4, <3>5, RankOrders
      <4>2. QED
        BY <4>1, Ranks
    <3>7. InOrder(uids[k], Ranked')
      BY <2>1, <2>4, <2>6, SameOrder
    <3>8. InOrder(t, Ranked')
      BY <3>2, <3>6, <3>7, InsortKeepsOrder
    <3>9. t \in Seq(Uid)
      BY <3>3, <3>4, LargerDomain
    <3>10. QED
      BY <2>6, <3>1, <3>3, <3>5, <3>8, <3>9
  <2>7. QED
    BY <2>5, <2>6
<1>10. \A j \in Primary : \A v \in Ids(j)' : Selfsig(v)' = LastBy(on'[v], made', j)
  BY Ranks DEF Ids
<1>11. uids' \in [Primary -> Seq(Uid)]
  <2>1. uids' = [j \in Primary |-> uids'[j]]
    BY <1>1, <1>2 DEF TypeOK
  <2>2. QED
    BY <1>9, <2>1
<1>12. TypeOK'
  <2>1. \A j \in Primary : \A v \in Uid : v \in ToSet(uids'[j]) <=> owner'[v] = j
    BY <1>9 DEF Ids
  <2>2. owner' \in [Uid \cup Sub -> Primary \cup {None}]
    BY <1>1, <1>2 DEF TypeOK
  <2>3. QED
    BY <1>1, <1>2, <1>4, <1>7, <1>9, <1>11, <2>1, <2>2 DEF TypeOK, MadeOK
<1>13. MadeFits'
  BY <1>4 DEF MadeOK, MadeFits, Fits
<1>14. SelfSigned'
  BY <1>9, <1>10 DEF SelfSigned
<1>15. Ranking'
  BY <1>9 DEF Ranking
<1>16. QED
  BY <1>7, <1>12, <1>13, <1>14, <1>15 DEF SigningInv

\* Nothing is signed and a User ID may leave its key.
LEMMA DelUidKeeps ==
  ASSUME SigningInv, NEW k \in Primary, NEW u \in Uid, DelUid(k, u)
  PROVE  SigningInv'
<1>1. /\ TypeOK /\ None \notin Primary /\ u \in DOMAIN owner /\ owner[u] = k
      /\ owner' = [owner EXCEPT ![u] = None] /\ made' = made /\ on' = on /\ now' = now
      /\ children' = children /\ uids' = [uids EXCEPT ![k] = RemoveFirst(@, u)]
  BY SigningAssumption DEF SigningInv, TypeOK, DelUid, Thing, Key
<1>2. /\ made \in Seq(Made) /\ made' \in Seq(Made) /\ Extends(made, made')
      /\ on' \in [Thing -> Seq(DOMAIN made')]
  BY <1>1 DEF TypeOK, Extends
<1>3. ASSUME NEW j \in Primary
      PROVE  /\ uids'[j] \in Seq(Uid) /\ IsInjective(uids'[j]) /\ ToSet(uids'[j]) = Ids(j)'
             /\ InOrder(uids'[j], Ranked')
             /\ \A v \in Ids(j)' : LastBy(on'[v], made', j) # {}
  <2>1. /\ uids[j] \in Seq(Ids(j)) /\ ToSet(uids[j]) = Ids(j) /\ IsInjective(uids[j])
        /\ uids[j] \in Seq(Uid) /\ InOrder(uids[j], Ranked)
    BY <1>1, UidsOfKey DEF SigningInv, Ranking
  <2> DEFINE A == Ids(j) \ {u}
  <2>2. Ids(j)' = A
    BY <1>1 DEF Ids, TypeOK
  <2>3. A \in SUBSET Ids(j) /\ \A v \in A : owner'[v] = j /\ LastBy(on'[v], made', j) = LastBy(on[v], made, j)
    BY <1>1 DEF Ids, TypeOK
  <2>4. Agree(A, Ranked, Ranked') /\ \A v \in A : LastBy(on'[v], made', j) # {}
    BY <1>2, <2>3, RanksKept
  <2>5. /\ uids'[j] \in Seq(Uid) /\ IsInjective(uids'[j]) /\ ToSet(uids'[j]) = A
        /\ InOrder(uids'[j], Ranked)
    <3>1. CASE j # k
      <4>1. uids'[j] = uids[j] /\ A = Ids(j)
        BY <1>1, <3>1 DEF TypeOK, Ids
      <4>2. QED
        BY <2>1, <4>1
    <3>2. CASE j = k
      <4>1. uids'[j] = RemoveFirst(uids[j], u)
        BY <1>1, <3>2 DEF TypeOK
      <4>2. QED
        BY <2>1, <4>1, RemoveFirstFacts
    <3>3. QED
      BY <3>1, <3>2
  <2>6. uids'[j] \in Seq(A)
    BY <2>5 DEF ToSet
  <2> HIDE DEF A
  <2>7. InOrder(uids'[j], Ranked')
    BY <2>4, <2>5, <2>6, SameOrder
  <2>8. QED
    BY <2>2, <2>4, <2>5, <2>7
<1>4. \A j \in Primary : \A v \in Ids(j)' : Selfsig(v)' = LastBy(on'[v], made', j)
  BY Ranks DEF Ids
<1>5. TypeOK'
  <2>1. uids' = [j \in Primary |-> uids'[j]]
    BY <1>1 DEF TypeOK
  <2>2. \A j \in Primary : \A v \in Uid : v \in ToSet(uids'[j]) <=> owner'[v] = j
    BY <1>3 DEF Ids
  <2>3. owner' \in [Uid \cup Sub -> Primary \cup {None}]
    BY <1>1 DEF TypeOK
  <2>4. uids' \in [Primary -> Seq(Uid)]
    BY <1>3, <2>1
  <2>5. QED
    BY <1>1, <1>3, <2>2, <2>3, <2>4 DEF TypeOK
<1>6. MadeFits' /\ Placed' /\ InTime'
  BY <1>1, Ranks DEF SigningInv, MadeFits, Placed, InTime
<1>7. SelfSigned' /\ Ranking'
  BY <1>3, <1>4 DEF SelfSigned, Ranking
<1>8. QED
  BY <1>5, <1>6, <1>7 DEF SigningInv

\* The subkey of a key without User ID: only its parent changes.
LEMMA AdoptKeeps ==
  ASSUME SigningInv, NEW k \in Primary, NEW s \in Sub, AddSubkey(k, s), ~Complete(k)
  PROVE  SigningInv'
<1>1. /\ owner' = [owner EXCEPT ![s] = k] /\ uids' = uids /\ now' = now /\ made' = made /\ on' = on
      /\ children' = [children EXCEPT ![k] = IF s \in ToSet(@) THEN @ ELSE Append(@, s)]
  BY DEF AddSubkey
<1>2. TypeOK /\ k \in Key /\ s \in DOMAIN owner /\ s \notin Uid
  BY SigningAssumption DEF SigningInv, TypeOK, Key
<1>3. \A u \in Uid : owner'[u] = owner[u]
  BY <1>1, <1>2 DEF TypeOK
<1>4. TypeOK'
  <2>1. owner' \in [Uid \cup Sub -> Primary \cup {None}]
    BY <1>1, <1>2 DEF TypeOK
  <2>2. children' \in [Key -> Seq(Sub)]
    <3>1. children[k] \in Seq(Sub) /\ Append(children[k], s) \in Seq(Sub)
      BY <1>2 DEF TypeOK
    <3>2. QED
      BY <1>1, <1>2, <3>1 DEF TypeOK
  <2>3. QED
    BY <1>1, <1>2, <1>3, <2>1, <2>2 DEF TypeOK
<1>5. \A u \in Uid : Selfsig(u)' = Selfsig(u)
  BY <1>1, <1>3 DEF Selfsig
<1>6. Ranked' = Ranked
  BY <1>1, <1>5 DEF Ranked, Lt
<1>7. MadeFits' /\ Placed' /\ InTime'
  BY <1>1, Ranks DEF SigningInv, MadeFits, Placed, InTime
<1>8. \A j \in Primary : Ids(j)' = Ids(j) /\ Ids(j) \subseteq Uid
  BY <1>3 DEF Ids
<1>9. SelfSigned' /\ Ranking'
  BY <1>1, <1>5, <1>6, <1>8 DEF SigningInv, SelfSigned, Ranking
<1>10. QED
  BY <1>4, <1>7, <1>9 DEF SigningInv

\* The cross-signature of the subkey and the signature that binds it.
LEMMA BindKeeps ==
  ASSUME SigningInv, NEW k \in Primary, NEW s \in Sub, AddSubkey(k, s), Complete(k)
  PROVE  SigningInv'
<1> DEFINE a == Signature("pkbind", s, k, s, 0, {})'
           b == Signature("bind", k, s, s, 0, {})'
           mk == Append(made, a)
           n == Len(made')
           q == Insort(on[s], n, ByTime(made'))
           p == Insort(q, n - 1, ByTime(made'))
<1>1. /\ TypeOK /\ MadeOK(made, now) /\ s \in Thing /\ k \in Key /\ k \in Thing /\ s \in Key
      /\ s \in DOMAIN owner /\ None \notin Primary /\ now \in Nat /\ s \notin Primary /\ s \notin Uid
  BY SigningAssumption DEF SigningInv, TypeOK, MadeFits, MadeOK, Thing, Key, AddSubkey
<1>2. /\ owner' = [owner EXCEPT ![s] = k] /\ owner'[s] = k /\ s \in DOMAIN owner'
      /\ uids' = uids /\ now' = now
      /\ children' = [children EXCEPT ![k] = IF s \in ToSet(@) THEN @ ELSE Append(@, s)]
  BY <1>1 DEF AddSubkey
<1>3. made' = Append(mk, b)
  <2>1. made \in Seq(Made) /\ made' = made \o <<a, b>>
    BY <1>1 DEF MadeOK, AddSubkey
  <2> HIDE DEF a, b
  <2>2. QED
    BY <2>1
<1>4. on' = [on EXCEPT ![s] = p]
  BY Ranks DEF AddSubkey, PutSig
<1>5. /\ a \in Made /\ Fits(a) /\ a.type = "pkbind" /\ a.time = now /\ a.lists = {}
      /\ b \in Made /\ Fits(b) /\ b.type = "bind" /\ b.time = now /\ b.lists = {}
  <2>1. Hashed("pkbind", s, k)' = <<k, s>> /\ Hashed("bind", k, s)' = <<k, s>> /\ OwnerOf(s)' = k
    BY <1>1, <1>2 DEF Hashed, OwnerOf
  <2>2. /\ a = [type |-> "pkbind", by |-> s, data |-> <<k, s>>, time |-> now, exp |-> 0,
                lists |-> {}, over |-> s, whose |-> k]
        /\ b = [type |-> "bind", by |-> k, data |-> <<k, s>>, time |-> now, exp |-> 0,
                lists |-> {}, over |-> s, whose |-> k]
    BY <1>2, <2>1 DEF Signature
  <2> HIDE DEF a, b
  <2>3. <<k, s>> \in Seq(Thing) /\ {} \in SUBSET Nat /\ {"bind", "pkbind"} \subseteq Type
    BY <1>1 DEF Type
  <2>4. 0 \in Expiry
    BY SigningAssumption DEF Expiry
  <2>5. a \in Made /\ b \in Made
    BY <1>1, <2>2, <2>3, <2>4 DEF Made
  <2>6. Fits(a) /\ Fits(b)
    BY <1>1, <2>2 DEF Fits
  <2>7. QED
    BY <2>2, <2>5, <2>6
<1> HIDE DEF a, b
<1>6. MadeOK(mk, now) /\ Extends(made, mk) /\ Len(mk) \in DOMAIN mk /\ mk[Len(mk)] = a
  <2>1. a.time <= now /\ a.lists \subseteq DOMAIN made
    BY <1>1, <1>5
  <2>2. QED
    BY <1>1, <1>5, <2>1, OneMore
<1> HIDE DEF mk
<1>7. /\ MadeOK(made', now) /\ Extends(mk, made') /\ n \in DOMAIN made' /\ made'[n] = b
      /\ n = Len(mk) + 1
  <2>1. b.time <= now /\ b.lists \subseteq DOMAIN mk
    BY <1>1, <1>5
  <2>2. QED
    BY <1>3, <1>5, <1>6, <2>1, OneMore
<1>8. /\ Extends(made, made') /\ n - 1 \in DOMAIN made' /\ made'[n - 1] = a
  <2>1. Len(mk) \in Nat /\ n - 1 = Len(mk)
    BY <1>6, <1>7 DEF MadeOK
  <2>2. QED
    BY <1>6, <1>7, <2>1 DEF Extends
<1> HIDE DEF n
<1>9. /\ made \in Seq(Made) /\ made' \in Seq(Made)
      /\ on \in [Thing -> Seq(DOMAIN made)] /\ on[s] \in Seq(DOMAIN made)
      /\ InOrder(on[s], ByTime(made)) /\ Extends(made', made')
  BY <1>1, <1>7, Ranks DEF MadeOK, TypeOK, SigningInv, InTime, Extends
<1>10. q \in Seq(DOMAIN made') /\ ToSet(q) = ToSet(on[s]) \cup {n} /\ InOrder(q, ByTime(made'))
  BY <1>7, <1>8, <1>9, PutOne
<1> HIDE DEF q
<1>11. p \in Seq(DOMAIN made') /\ ToSet(p) = ToSet(q) \cup {n - 1} /\ InOrder(p, ByTime(made'))
  BY <1>8, <1>9, <1>10, PutOne
<1> HIDE DEF p
<1>12. /\ on' \in [Thing -> Seq(DOMAIN made')] /\ Placed' /\ InTime'
       /\ \A y \in Thing : \A o : y # s => LastBy(on'[y], made', o) = LastBy(on[y], made, o)
  <2>1. \A m \in ToSet(p) \ ToSet(on[s]) : s \in Subjects(made'[m].type)
    BY <1>5, <1>7, <1>8, <1>10, <1>11 DEF Subjects
  <2>2. QED
    BY <1>1, <1>4, <1>8, <1>9, <1>11, <2>1, OneDeque
<1>13. ASSUME NEW u \in Uid
       PROVE  /\ owner'[u] = owner[u] /\ u \in Thing
              /\ \A o : LastBy(on'[u], made', o) = LastBy(on[u], made, o)
  <2>1. u # s /\ u \in Thing /\ u \in DOMAIN owner
    BY <1>1 DEF TypeOK, Thing
  <2>2. QED
    BY <1>2, <1>12, <2>1
<1>14. TypeOK'
  <2>1. owner' \in [Uid \cup Sub -> Primary \cup {None}]
    BY <1>1, <1>2 DEF TypeOK
  <2>2. children' \in [Key -> Seq(Sub)]
    <3>1. children[k] \in Seq(Sub) /\ Append(children[k], s) \in Seq(Sub)
      BY <1>1 DEF TypeOK
    <3>2. QED
      BY <1>1, <1>2, <3>1 DEF TypeOK
  <2>3. QED
    BY <1>1, <1>2, <1>7, <1>12, <1>13, <2>1, <2>2 DEF TypeOK, MadeOK
<1>15. MadeFits'
  BY <1>7 DEF MadeOK, MadeFits, Fits
<1>16. ASSUME NEW j \in Primary
       PROVE  InOrder(uids'[j], Ranked') /\ \A u \in Ids(j)' : Selfsig(u)' # {}
  <2>1. Ids(j)' = Ids(j)
    BY <1>13 DEF Ids
  <2>2. \A u \in Ids(j) : owner'[u] = j /\ LastBy(on'[u], made', j) = LastBy(on[u], made, j)
    BY <1>13 DEF Ids
  <2>3. InOrder(uids'[j], Ranked')
    BY <1>2, <1>8, <1>9, <1>12, <2>2, OrderStays
  <2>4. \A u \in Ids(j) : LastBy(on'[u], made', j) # {}
    BY <1>8, <1>9, <1>12, <2>2, RanksKept
  <2>5. \A u \in Ids(j)' : Selfsig(u)' = LastBy(on'[u], made', j)
    BY Ranks DEF Ids
  <2>6. QED
    BY <2>1, <2>3, <2>4, <2>5
<1>17. SelfSigned' /\ Ranking'
  BY <1>16 DEF SelfSigned, Ranking
<1>18. QED
  BY <1>12, <1>14, <1>15, <1>17 DEF SigningInv

LEMMA AddSubkeyKeeps ==
  ASSUME SigningInv, NEW k \in Primary, NEW s \in Sub, AddSubkey(k, s)
  PROVE  SigningInv'
BY AdoptKeeps, BindKeeps

\* No variable the invariant speaks of changes, or only the clock, which goes on.
LEMMA TickKeeps ==
  ASSUME SigningInv, UNCHANGED <<owner, uids, children, made, on>>, now' \in Nat, now <= now'
  PROVE  SigningInv'
<1>1. TypeOK'
  <2>1. \A n \in DOMAIN made : made[n].time \in Nat
    BY TimesAreNumbers DEF SigningInv, TypeOK
  <2>2. \A n \in DOMAIN made : made[n].time <= now'
    <3>1. now \in Nat /\ \A n \in DOMAIN made : made[n].time <= now
      BY DEF SigningInv, TypeOK
    <3>2. QED
      BY <2>1, <3>1
  <2>3. QED
    BY <2>2 DEF SigningInv, TypeOK
<1>2. Ranked' = Ranked /\ Earlier' = Earlier /\ \A u \in Uid : Selfsig(u)' = Selfsig(u)
  BY Ranks
<1>3. QED
  BY <1>1, <1>2 DEF SigningInv, MadeFits, Placed, InTime, SelfSigned, Ranking, Ids

\* The kinds of steps.
Attaching == \E type, by, x, at, exp, lists : Attached(type, by, x, at, exp, lists)
Waiting == now' \in Nat /\ now <= now' /\ UNCHANGED <<owner, uids, children, made, on>>

\* Every step is of one of five kinds.
LEMMA StepKinds ==
  ASSUME SigningInv, [Next]_vars
  PROVE  \/ Attaching
         \/ \E k \in Primary, u \in Uid, exp \in Expiry : AddUid(k, u, exp)
         \/ \E k \in Primary, u \in Uid : DelUid(k, u)
         \/ \E k \in Primary, s \in Sub : AddSubkey(k, s)
         \/ Waiting
<1>1. /\ Primary \cap Uid = {} /\ Sub \cap Uid = {} /\ Primary \cap Sub = {} /\ Primary \subseteq Key
      /\ Sub \subseteq Key /\ 0 \in Expiry /\ {} \in SUBSET (DOMAIN made)
  BY SigningAssumption DEF Key, Expiry
<1>2. ASSUME NEW k \in Primary, NEW u \in Uid, NEW at \in Uid, NEW exp \in Expiry,
             Certify(k, u, at, exp)
      PROVE  Attaching
  <2>1. /\ "cert" \in Type \ {"bind", "pkbind"} /\ k \in Key
        /\ u \in Subjects("cert") /\ at \in Subjects("cert") /\ owner[u] # None
        /\ SignAndAttach("cert", k, u, at, exp, {})
    BY <1>1, <1>2 DEF Type, Subjects, Certify
  <2>2. QED
    BY <1>1, <2>1, Zenon DEF Attaching, Attached
<1>3. ASSUME NEW k \in Primary, NEW u \in Uid, NEW at \in Uid, NEW lists \in SUBSET ThirdParty(u),
             Attest(k, u, at, lists)
      PROVE  Attaching
  <2>1. /\ "attest" \in Type /\ "attest" \notin {"bind", "pkbind", "cert", "certrev", "subrev"}
        /\ k \in Key /\ u \in Subjects("attest") /\ at \in Subjects("attest")
        /\ SignAndAttach("attest", k, u, at, 0, lists)
    BY <1>1, <1>3 DEF Type, Subjects, Attest
  <2>2. lists \in SUBSET (DOMAIN made)
    <3>1. u \in Thing /\ on[u] \in Seq(DOMAIN made)
      BY DEF SigningInv, TypeOK, Thing
    <3>2. QED
      BY <3>1 DEF ThirdParty, ToSet
  <2>3. QED
    BY <1>1, <2>1, <2>2, Zenon DEF Attaching, Attached
<1>4. ASSUME NEW k \in Primary, NEW x \in Uid, NEW at \in Uid, Revoke(k, x, at)
      PROVE  Attaching
  <2>1. /\ "certrev" \in Type /\ "certrev" \notin {"bind", "pkbind"} /\ k \in Key
        /\ x \in Subjects("certrev") /\ at \in Subjects("certrev") /\ owner[x] # None
        /\ SignAndAttach("certrev", k, x, at, 0, {})
    BY <1>1, <1>4 DEF Type, Subjects, Revoke
  <2>2. QED
    BY <1>1, <2>1, Zenon DEF Attaching, Attached
<1>5. ASSUME NEW k \in Primary, NEW x \in Key, CertifyKey(k, x)
      PROVE  Attaching
  <2>1. /\ "direct" \in Type /\ "direct" \notin {"bind", "pkbind", "cert", "certrev", "subrev"}
        /\ k \in Key /\ x \in Subjects("direct") /\ SignAndAttach("direct", k, x, x, 0, {})
    BY <1>1, <1>5 DEF Type, Subjects, CertifyKey
  <2>2. QED
    BY <1>1, <2>1, Zenon DEF Attaching, Attached
<1>6. ASSUME NEW k \in Primary, NEW x \in Key, Revoke(k, x, x)
      PROVE  Attaching
  <2>1. CASE x \in Primary
    <3>1. /\ "keyrev" \in Type /\ "keyrev" \notin {"bind", "pkbind", "cert", "certrev", "subrev"}
          /\ k \in Key /\ x \in Subjects("keyrev") /\ x \notin Uid
      BY <1>1, <2>1 DEF Type, Subjects
    <3>2. SignAndAttach("keyrev", k, x, x, 0, {})
      BY <1>6, <2>1, <3>1 DEF Revoke
    <3>3. QED
      BY <1>1, <3>1, <3>2, Zenon DEF Attaching, Attached
  <2>2. CASE x \in Sub
    <3>1. /\ "subrev" \in Type /\ "subrev" \notin {"bind", "pkbind"} /\ k \in Key
          /\ x \in Subjects("subrev") /\ x \notin Uid /\ x \notin Primary
      BY <1>1, <2>2 DEF Type, Subjects
    <3>2. owner[x] # None /\ SignAndAttach("subrev", k, x, x, 0, {})
      BY <1>6, <3>1 DEF Revoke
    <3>3. QED
      BY <1>1, <3>1, <3>2, Zenon DEF Attaching, Attached
  <2>3. QED
    BY <2>1, <2>2 DEF Key
<1>7. ASSUME NEW k \in Primary, NEW d \in Doc, NEW at \in Doc, SignDoc(k, d, at)
      PROVE  Attaching
  <2>1. PICK s \in Signer(k) : SignAndAttach("doc", s, d, at, 0, {})
    BY <1>7 DEF SignDoc
  <2>2. s \in Key
    <3>1. k \in Key /\ children[k] \in Seq(Sub)
      BY <1>1 DEF SigningInv, TypeOK
    <3>2. children[k] # <<>> => children[k][1] \in Sub
      BY <3>1
    <3>3. QED
      BY <1>1, <2>1, <3>1, <3>2 DEF Signer
  <2>3. /\ "doc" \in Type /\ "doc" \notin {"bind", "pkbind", "cert", "certrev", "subrev"}
        /\ d \in Subjects("doc") /\ at \in Subjects("doc")
    BY DEF Type, Subjects
  <2>4. QED
    BY <1>1, <2>1, <2>2, <2>3, Zenon DEF Attaching, Attached
<1>8. CASE Tick
  <2>1. now \in Nat
    BY DEF SigningInv, TypeOK
  <2>2. QED
    BY <1>8, <2>1 DEF Tick, Waiting
<1>9. CASE UNCHANGED vars
  BY <1>9 DEF SigningInv, TypeOK, vars, Waiting
<1>10. QED
  BY <1>2, <1>3, <1>4, <1>5, <1>6, <1>7, <1>8, <1>9 DEF Next

\* Every step keeps the invariant.
LEMMA NextKeeps == SigningInv /\ [Next]_vars => SigningInv'
<1> SUFFICES ASSUME SigningInv, [Next]_vars
             PROVE  SigningInv'
  OBVIOUS
<1>1. Attaching => SigningInv'
  BY AttachKeeps DEF Attaching
<1>2. Waiting => SigningInv'
  BY TickKeeps DEF Waiting
<1>3. QED
  BY <1>1, <1>2, StepKinds, AddUidKeeps, DelUidKeeps, AddSubkeyKeeps

\* At first every User ID that has a key has one self-signature.
LEMMA InitHolds == Init => SigningInv
<1> SUFFICES ASSUME Init
             PROVE  SigningInv
  OBVIOUS
<1> DEFINE S == {k \in Primary : FirstUid[k] # None}
           ks == SetToSeq(S)
<1>1. IsFiniteSet(S)
  BY SigningAssumption, FS_Subset
<1>2. /\ ks \in Seq(S) /\ IsInjective(ks)
      /\ \A k \in S : \E i \in DOMAIN ks : ks[i] = k
  BY <1>1, SetToSeqFacts
<1>3. /\ owner = [x \in Uid \cup Sub |->
                    IF \E k \in Primary : FirstUid[k] = x
                    THEN CHOOSE k \in Primary : FirstUid[k] = x ELSE None]
      /\ uids = [k \in Primary |-> IF FirstUid[k] = None THEN <<>> ELSE <<FirstUid[k]>>]
      /\ children = [k \in Key |-> <<>>] /\ now = 0
      /\ made = [i \in DOMAIN ks |-> Signature("cert", ks[i], FirstUid[ks[i]], FirstUid[ks[i]], 0, {})]
      /\ on = [x \in Thing |->
                 IF \E i \in DOMAIN made : made[i].over = x
                 THEN <<CHOOSE i \in DOMAIN made : made[i].over = x>> ELSE <<>>]
  BY DEF Init
<1> HIDE DEF ks
<1>4. ASSUME NEW k \in S
      PROVE  /\ k \in Primary /\ k \in Key /\ FirstUid[k] \in Uid /\ FirstUid[k] \in Thing
             /\ owner[FirstUid[k]] = k /\ FirstUid[k] \in DOMAIN owner /\ k # None /\ k \in Thing
  <2>1. k \in Primary /\ FirstUid[k] \in Uid /\ k # None /\ k \in Key
    BY SigningAssumption DEF Thing, Key
  <2>2. \A j \in Primary : FirstUid[j] = FirstUid[k] => j = k
    BY <2>1, SigningAssumption DEF Thing
  <2>3. (CHOOSE j \in Primary : FirstUid[j] = FirstUid[k]) = k
    BY <2>1, <2>2
  <2>4. QED
    BY <1>3, <2>1, <2>3 DEF Thing
<1>5. ASSUME NEW u \in Uid, NEW k \in Primary
      PROVE  owner[u] = k <=> FirstUid[k] = u
  <2>1. None \notin Uid /\ None \notin Primary
    BY SigningAssumption DEF Thing, Key
  <2>2. CASE FirstUid[k] = u
    BY <1>4, <2>1, <2>2
  <2>3. CASE owner[u] = k
    <3>1. \E j \in Primary : FirstUid[j] = u
      BY <1>3, <2>1, <2>3
    <3>2. owner[u] = CHOOSE j \in Primary : FirstUid[j] = u
      BY <1>3, <3>1
    <3>3. QED
      BY <2>3, <3>1, <3>2
  <2>4. QED
    BY <2>2, <2>3
<1>6. Len(ks) \in Nat /\ DOMAIN ks = 1 .. Len(ks) /\ \A i \in DOMAIN ks : ks[i] \in S
  BY <1>2
<1>7. ASSUME NEW i \in DOMAIN made
      PROVE  /\ i \in DOMAIN ks /\ made[i] \in Made /\ Fits(made[i]) /\ made[i].type = "cert"
             /\ made[i].by = ks[i] /\ made[i].time = 0 /\ made[i].lists = {}
             /\ made[i].over = FirstUid[ks[i]] /\ made[i].over \in Uid
  <2> DEFINE k == ks[i]
             u == FirstUid[ks[i]]
             s == made[i]
  <2>1. i \in DOMAIN ks /\ k \in S
    BY <1>3, <1>6
  <2>2. s = Signature("cert", k, u, u, 0, {})
    BY <1>3, <2>1
  <2>3. /\ k \in Primary /\ k \in Key /\ u \in Uid /\ u \in Thing /\ owner[u] = k
        /\ u \in DOMAIN owner /\ k # None /\ k \in Thing
    BY <1>4, <2>1
  <2> HIDE DEF k, u, s
  <2>4. Hashed("cert", k, u) = <<k, u>> /\ OwnerOf(u) = k
    BY <2>3 DEF Hashed, OwnerOf
  <2>5. s = [type |-> "cert", by |-> k, data |-> <<k, u>>, time |-> 0, exp |-> 0,
             lists |-> {}, over |-> u, whose |-> k]
    BY <1>3, <2>2, <2>4 DEF Signature
  <2>6. <<k, u>> \in Seq(Thing) /\ {} \in SUBSET Nat /\ "cert" \in Type /\ 0 \in Expiry
    BY <2>3, SigningAssumption DEF Type, Expiry
  <2>7. s \in Made
    BY <2>3, <2>5, <2>6 DEF Made
  <2>8. Fits(s)
    BY <2>3, <2>5 DEF Fits
  <2>9. QED
    BY <2>1, <2>3, <2>5, <2>7, <2>8 DEF k, u, s
<1>8. /\ made \in Seq(Made) /\ DOMAIN made = DOMAIN ks
      /\ \A n \in DOMAIN made : made[n].time <= now /\ made[n].lists \subseteq 1 .. n - 1
  <2>1. DOMAIN made = DOMAIN ks
    BY <1>3
  <2>2. made \in [1 .. Len(ks) -> Made]
    BY <1>3, <1>6, <1>7, <2>1
  <2>3. made \in Seq(Made)
    BY <1>6, <2>2
  <2>4. \A n \in DOMAIN made : made[n].time <= now /\ made[n].lists \subseteq 1 .. n - 1
    <3>1. now = 0
      BY <1>3
    <3>2. QED
      BY <1>7, <3>1
  <2>5. QED
    BY <2>1, <2>3, <2>4
<1>9. ASSUME NEW x \in Thing
      PROVE  \/ on[x] = <<>> /\ \A i \in DOMAIN made : made[i].over # x
             \/ \E i \in DOMAIN made : on[x] = <<i>> /\ made[i].over = x
  BY <1>3
<1>10. ASSUME NEW x \in Thing
       PROVE  /\ on[x] \in Seq(DOMAIN made) /\ InOrder(on[x], Earlier)
              /\ \A n \in ToSet(on[x]) : n \in DOMAIN made /\ made[n].over = x
  <2>1. CASE on[x] = <<>>
    BY <2>1 DEF InOrder, ToSet
  <2>2. CASE \E i \in DOMAIN made : on[x] = <<i>> /\ made[i].over = x
    <3>1. PICK i \in DOMAIN made : on[x] = <<i>> /\ made[i].over = x
      BY <2>2
    <3>2. on[x] \in Seq(DOMAIN made) /\ DOMAIN on[x] = {1} /\ on[x][1] = i
      BY <3>1
    <3>3. InOrder(on[x], Earlier)
      BY <3>2 DEF InOrder
    <3>4. QED
      BY <3>1, <3>2, <3>3 DEF ToSet
  <2>3. QED
    BY <1>9, <2>1, <2>2
<1>11. Placed
  BY <1>7, <1>10 DEF Placed, Subjects
<1>12. SelfSigned
  <2> SUFFICES ASSUME NEW k \in Primary, NEW u \in Ids(k)
               PROVE  Selfsig(u) # {}
    BY DEF SelfSigned
  <2>1. u \in Uid /\ owner[u] = k /\ FirstUid[k] = u /\ k \in S /\ u \in Thing
    <3>1. u \in Uid /\ owner[u] = k /\ u # None
      BY SigningAssumption DEF Ids, Thing
    <3>2. QED
      BY <1>5, <3>1 DEF Thing
  <2>2. PICK i \in DOMAIN ks : ks[i] = k
    BY <1>2, <2>1
  <2>3. i \in DOMAIN made /\ made[i].over = u
    BY <1>7, <1>8, <2>1, <2>2
  <2>4. PICK j \in DOMAIN made : on[u] = <<j>> /\ made[j].over = u
    BY <1>9, <2>1, <2>3
  <2>5. made[j].by = k
    <3>1. made[j].by = ks[j] /\ FirstUid[ks[j]] = u /\ ks[j] \in S
      BY <1>6, <1>7, <2>4
    <3>2. QED
      BY <1>4, <2>1, <3>1
  <2>6. DOMAIN on[u] = {1} /\ on[u][1] = j
    BY <2>4
  <2>7. {m \in DOMAIN on[u] : made[on[u][m]].by = owner[u]} # {}
    BY <2>1, <2>5, <2>6
  <2>8. QED
    BY <2>7 DEF Selfsig
<1>13. ASSUME NEW k \in Primary
       PROVE  /\ uids[k] \in Seq(Uid) /\ IsInjective(uids[k]) /\ InOrder(uids[k], Ranked)
              /\ \A u \in Uid : u \in ToSet(uids[k]) <=> owner[u] = k
  <2>1. CASE FirstUid[k] = None
    <3>1. uids[k] = <<>>
      BY <1>3, <2>1
    <3>2. \A u \in Uid : owner[u] # k
      BY <1>5, <2>1, SigningAssumption DEF Thing
    <3>3. QED
      BY <3>1, <3>2 DEF IsInjective, InOrder, ToSet
  <2>2. CASE FirstUid[k] # None
    <3> DEFINE v == FirstUid[k]
    <3>1. uids[k] = <<v>> /\ v \in Uid /\ \A u \in Uid : u = v <=> owner[u] = k
      BY <1>3, <1>4, <1>5, <2>2
    <3> HIDE DEF v
    <3>2. uids[k] \in Seq(Uid) /\ DOMAIN uids[k] = {1} /\ uids[k][1] = v
      BY <3>1
    <3>3. IsInjective(uids[k]) /\ InOrder(uids[k], Ranked) /\ ToSet(uids[k]) = {v}
      BY <3>2 DEF IsInjective, InOrder, ToSet
    <3>4. QED
      BY <3>1, <3>2, <3>3
  <2>3. QED
    BY <2>1, <2>2
<1>14. TypeOK
  <2>1. owner \in [Uid \cup Sub -> Primary \cup {None}]
    BY <1>3
  <2>2. children \in [Key -> Seq(Sub)]
    <3>1. <<>> \in Seq(Sub)
      OBVIOUS
    <3>2. QED
      BY <1>3, <3>1
  <2>3. uids \in [Primary -> Seq(Uid)] /\ on \in [Thing -> Seq(DOMAIN made)] /\ now \in Nat
    BY <1>3, <1>10, <1>13
  <2>4. QED
    BY <1>8, <1>13, <2>1, <2>2, <2>3 DEF TypeOK
<1>15. MadeFits /\ InTime /\ Ranking
  BY <1>7, <1>10, <1>13 DEF MadeFits, InTime, Ranking
<1>16. QED
  BY <1>11, <1>12, <1>14, <1>15 DEF SigningInv

-----------------------------------------------------------------------------
\* The inductive invariant of Signing: every signature fits what it was made for, hangs
\* on a thing of its kind in the order of creation, every User ID of a key has a
\* self-signature and _uids is in the order of these (sign, certify, revoke, |=, resort).
THEOREM SigningGood == Spec => []SigningInv
<1>1. QED
  BY InitHolds, NextKeeps, PTL DEF Spec

\* The type invariant: _uids lists the User IDs whose parent the key is, each once, and a
\* signature lists only signatures made before it (add_uid, del_uid, attested_certifications).
THEOREM TypeCorrect == Spec => []TypeOK
<1>1. SigningInv => TypeOK
  BY DEF SigningInv
<1>2. QED
  BY <1>1, SigningGood, PTL

-----------------------------------------------------------------------------
(***************************************************************************)
(* verify.                                                                 *)
(***************************************************************************)
\* What a signature was computed over is what verify computes for y just if it was made
\* for y, with the parent y has.
LEMMA DataTells ==
  ASSUME TypeOK, NEW s \in Made, Fits(s), NEW y \in Subjects(s.type), s.type # "attest"
  PROVE  /\ s.type \in {"cert", "certrev"} => y \in Uid
         /\ (s.type \in {"cert", "certrev"} => owner[y] # None) /\ s.data = Hashed(s.type, s.by, y)
              <=> s.over = y /\ (s.type \in {"doc", "direct", "keyrev"} \/ s.whose = OwnerOf(y))
<1>1. s.type \in Type /\ Primary \cap Sub = {} /\ None \notin Primary
  BY SigningAssumption DEF Made, Thing, Key
<1>2. CASE s.type \in {"doc", "direct", "keyrev"}
  <2>1. s.data = <<s.over>> /\ Hashed(s.type, s.by, y) = <<y>>
    BY <1>2 DEF Fits, Hashed
  <2>2. QED
    BY <1>2, <2>1
<1>3. CASE s.type \in {"cert", "certrev", "subrev", "bind", "pkbind"}
  <2>1. y \in Uid \cup Sub /\ OwnerOf(y) = owner[y]
    BY <1>3 DEF Subjects, OwnerOf, TypeOK
  <2>2. Hashed(s.type, s.by, y) = <<owner[y], y>>
    <3>1. s.type \in {"bind", "pkbind"} => y \notin Primary
      BY <1>1 DEF Subjects
    <3>2. QED
      BY <1>3, <3>1 DEF Hashed
  <2>3. s.data = <<s.whose, s.over>> /\ (s.type \in {"cert", "certrev"} => s.whose # None /\ y \in Uid)
    BY <1>3 DEF Fits, Subjects
  <2>4. s.data = Hashed(s.type, s.by, y) <=> s.over = y /\ s.whose = OwnerOf(y)
    BY <2>1, <2>2, <2>3
  <2>5. QED
    BY <1>3, <2>1, <2>3, <2>4
<1>4. QED
  BY <1>1, <1>2, <1>3 DEF Type

\* verify has a signature that it collects verified by the key that made it.
LEMMA CollectedFacts ==
  ASSUME TypeOK, NEW k \in Primary, NEW x \in Thing, NEW pair \in Collected(k, x)
  PROVE  LET n == pair[1]
         IN  pair[2] \in Thing /\ n \in ToSet(on[pair[2]]) /\ n \in DOMAIN made /\ Verifier(k, n) = made[n].by
<1> DEFINE things == {x} \cup (IF x \in Primary THEN ToSet(uids[x] \o children[x]) ELSE {})
           ids == {k} \cup ToSet(children[k])
<1>1. PICK y \in things : pair \in {<<m, y>> : m \in {m \in ToSet(on[y]) : made[m].by \in ids}}
  BY DEF Collected
<1>2. PICK m \in ToSet(on[y]) : made[m].by \in ids /\ pair = <<m, y>>
  BY <1>1
<1>3. y \in Thing
  <2>1. CASE y = x
    BY <2>1
  <2>2. CASE x \in Primary /\ y \in ToSet(uids[x] \o children[x])
    <3>1. uids[x] \in Seq(Thing) /\ children[x] \in Seq(Thing)
      <4>1. uids[x] \in Seq(Uid) /\ children[x] \in Seq(Sub)
        BY <2>2 DEF TypeOK, Key
      <4>2. Uid \subseteq Thing /\ Sub \subseteq Thing
        BY DEF Thing, Key
      <4>3. QED
        BY <4>1, <4>2, LargerDomain
    <3>2. uids[x] \o children[x] \in Seq(Thing)
      BY <3>1
    <3> DEFINE z == uids[x] \o children[x]
    <3> HIDE DEF z
    <3>3. y \in ToSet(z) /\ z \in Seq(Thing)
      BY <2>2, <3>2 DEF z
    <3>4. QED
      BY <3>3 DEF ToSet
  <2>3. QED
    BY <1>1, <2>1, <2>2
<1>4. m \in DOMAIN made
  <2>1. on[y] \in Seq(DOMAIN made)
    BY <1>3 DEF TypeOK
  <2>2. QED
    BY <1>2, <2>1 DEF ToSet
<1>5. Verifier(k, m) = made[m].by
  BY <1>2 DEF Verifier
<1>6. QED
  BY <1>2, <1>3, <1>4, <1>5

\* Expiry alone fails a verification, and a key that is revoked or short is not looked at.
LEMMA FailsIfOnlyExpired ==
  ASSUME NEW v
  PROVE  CausesFailure(Issues(v)) <=> IsExpired(v) /\ ~IsRevoked(v) /\ v \notin Short
<1>1. "Expired" # "TooShort" /\ "Expired" # "Revoked"
  OBVIOUS
<1>2. QED
  BY <1>1 DEF CausesFailure, Issues

\* verify finds a signature good if and only if its maker made it over the very thing it is
\* found on, with the parent it has now, unless the maker has expired and has no other
\* issue: whatever was signed, attached, moved, added and deleted (hashdata, verify).
THEOREM GoodIffSignedAlways == Spec => []GoodIffSigned
<1>1. SigningInv => GoodIffSigned
  <2> SUFFICES ASSUME SigningInv, NEW k \in Primary, NEW x \in Thing, NEW pair \in Collected(k, x),
                      made[pair[1]].type # "attest"
               PROVE  LET s == made[pair[1]]
                          same == s.over = pair[2] /\ (s.type \in {"doc", "direct", "keyrev"}
                                                        \/ s.whose = OwnerOf(pair[2]))
                      IN  Outcome(k, pair[1], pair[2]) = "OK"
                            <=> same /\ (IsExpired(s.by) => IsRevoked(s.by) \/ s.by \in Short)
    BY DEF GoodIffSigned
  <2> DEFINE n == pair[1]
             y == pair[2]
             s == made[n]
             fits == /\ s.type \in {"cert", "certrev"} => owner[y] # None
                     /\ s.data = Hashed(s.type, s.by, y)
  <2>1. TypeOK /\ made \in Seq(Made)
    BY DEF SigningInv, TypeOK
  <2>2. y \in Thing /\ n \in ToSet(on[y]) /\ n \in DOMAIN made /\ Verifier(k, n) = s.by
    BY <2>1, CollectedFacts
  <2>3. s \in Made /\ Fits(s) /\ y \in Subjects(s.type)
    BY <2>1, <2>2 DEF SigningInv, MadeFits, Placed
  <2>4. fits <=> s.over = y /\ (s.type \in {"doc", "direct", "keyrev"} \/ s.whose = OwnerOf(y))
    BY <2>1, <2>3, DataTells
  <2>5. Outcome(k, n, y) = "OK" <=> ~CausesFailure(Issues(s.by)) /\ fits
    <3>1. "Expired" # "OK" /\ "AttributeError" # "OK" /\ "WrongSig" # "OK"
      OBVIOUS
    <3>2. QED
      BY <2>2, <3>1 DEF Outcome
  <2>6. CausesFailure(Issues(s.by)) <=> IsExpired(s.by) /\ ~IsRevoked(s.by) /\ s.by \notin Short
    BY FailsIfOnlyExpired
  <2> HIDE DEF n, y, s, fits
  <2>7. Outcome(k, n, y) = "OK"
          <=> /\ s.over = y /\ (s.type \in {"doc", "direct", "keyrev"} \/ s.whose = OwnerOf(y))
              /\ IsExpired(s.by) => IsRevoked(s.by) \/ s.by \in Short
    BY <2>4, <2>5, <2>6
  <2>8. QED
    BY <2>7 DEF n, y, s
<1>2. QED
  BY <1>1, SigningGood, PTL

-----------------------------------------------------------------------------
(***************************************************************************)
(* attested_to: its loop takes one signature after the other.              *)
(***************************************************************************)
OwnAttestation(n, u) ==
  /\ made[n].type = "attest" /\ made[n].by = owner[u]
  /\ Outcome(owner[u], n, u) = "OK"

Took(latest, n, u) ==
  IF ~OwnAttestation(n, u) THEN latest
  ELSE IF latest = <<>> \/ made[n].time > made[Head(latest)].time THEN <<n>>
  ELSE IF made[n].time = made[Head(latest)].time THEN Append(latest, n) ELSE latest

AttestationSteps(u, r) ==
  /\ r[0] = <<>>
  /\ \A k \in 0 .. Len(on[u]) - 1 : r[k + 1] = Took(r[k], on[u][k + 1], u)

\* The loop has its steps: the latest attestations among the first 0, 1, .. signatures.
LEMMA AttestationLoop ==
  ASSUME NEW A, NEW u, on[u] \in Seq(A)
  PROVE  \E r : AttestationSteps(u, r) /\ CurrentAttestations(u) = r[Len(on[u])]
<1> DEFINE q == on[u]
           n == Len(q)
           D == SUBSET (1 .. n)
           B == Seq(A)
           step == [p \in B \X (1 .. n) |-> Took(p[1], q[p[2]], u)]
           Folds(g) == g = [s \in D |-> IF s = {} THEN <<>>
                                        ELSE Took(g[s \ {Max(s)}], q[Max(s)], u)]
           iter == CHOOSE g : Folds(g)
           r == [k \in 0 .. n |-> iter[1 .. k]]
<1>1. n \in Nat /\ DOMAIN q = 1 .. n /\ <<>> \in B
  OBVIOUS
<1>2. CurrentAttestations(u) = iter[1 .. n]
  BY <1>1 DEF CurrentAttestations, FoldLeft, MapThenFoldSet, Took, OwnAttestation
<1>3. step \in [B \X (1 .. n) -> B]
  <2>1. ASSUME NEW p \in B \X (1 .. n)
        PROVE  Took(p[1], q[p[2]], u) \in B
    <3>1. p[1] \in B /\ q[p[2]] \in A
      OBVIOUS
    <3> DEFINE l == p[1]
               e == q[p[2]]
    <3> HIDE DEF l, e
    <3>2. l \in B /\ e \in A
      BY <3>1 DEF l, e
    <3>3. Append(l, e) \in B /\ <<e>> \in B
      BY <3>2
    <3>4. Took(l, e, u) \in {l, Append(l, e), <<e>>}
      BY DEF Took
    <3>5. QED
      BY <3>2, <3>3, <3>4 DEF l, e
  <2>2. QED
    BY <2>1
<1> HIDE DEF n, B, q
<1>4. \E g : Folds(g)
  <2>1. Foldable(n, B, <<>>, step)
    <3> HIDE DEF step
    <3> QED
      BY <1>1, <1>3, FoldRecursion
  <2> DEFINE st == step
  <2> HIDE DEF st
  <2>2. PICK g \in [D -> B] :
          \A s \in D : g[s] = IF s = {} THEN <<>> ELSE st[<<g[s \ {Max(s)}], Max(s)>>]
    BY <2>1 DEF Foldable, st
  <2>3. ASSUME NEW s \in D, s # {}
        PROVE  g[s] = Took(g[s \ {Max(s)}], q[Max(s)], u)
    <3>1. Max(s) \in 1 .. n
      <4>1. s \in SUBSET (0 .. n)
        BY <1>1
      <4>2. Max(s) \in s
        BY <1>1, <2>3, <4>1, MaxOfBounded
      <4>3. QED
        BY <4>2
    <3>2. g[s \ {Max(s)}] \in B
      OBVIOUS
    <3>3. st[<<g[s \ {Max(s)}], Max(s)>>] = Took(g[s \ {Max(s)}], q[Max(s)], u)
      BY <3>1, <3>2 DEF st
    <3>4. QED
      BY <2>2, <2>3, <3>3
  <2>4. g[{}] = <<>>
    BY <2>2
  <2>5. Folds(g)
    BY <2>3, <2>4
  <2> HIDE DEF Folds
  <2>6. QED
    BY <2>5
<1>5. Folds(iter)
  <2> HIDE DEF Folds
  <2> QED
    BY <1>4
<1> HIDE DEF iter
<1>6. \A s \in D : iter[s] = IF s = {} THEN <<>> ELSE Took(iter[s \ {Max(s)}], q[Max(s)], u)
  BY <1>5
<1>7. ASSUME NEW k \in 0 .. n - 1
      PROVE  iter[1 .. k + 1] = Took(iter[1 .. k], q[k + 1], u)
  <2>1. /\ 1 .. k + 1 \in D /\ 1 .. k + 1 # {} /\ Max(1 .. k + 1) = k + 1
        /\ (1 .. k + 1) \ {k + 1} = 1 .. k
    BY <1>1, FirstPlaces
  <2>2. QED
    BY <1>6, <2>1
<1>8. iter[1 .. 0] = <<>>
  <2>1. 1 .. 0 = {}
    OBVIOUS
  <2>2. QED
    BY <1>6, <2>1
<1>9. r[0] = <<>> /\ r[n] = iter[1 .. n]
      /\ \A k \in 0 .. n - 1 : r[k + 1] = Took(r[k], q[k + 1], u)
  BY <1>1, <1>7, <1>8
<1> HIDE DEF r
<1>10. AttestationSteps(u, r)
  BY <1>9 DEF AttestationSteps, n, q
<1>11. QED
  BY <1>2, <1>9, <1>10 DEF n, q

\* Every attestation it finds is one, and no other is newer.
LEMMA CurrentAreNewest ==
  ASSUME made \in Seq(Made), NEW u, on[u] \in Seq(DOMAIN made),
         NEW a \in ToSet(CurrentAttestations(u))
  PROVE  /\ a \in ToSet(on[u]) /\ OwnAttestation(a, u)
         /\ \A b \in ToSet(on[u]) : OwnAttestation(b, u) => made[b].time <= made[a].time
<1> DEFINE q == on[u]
           n == Len(q)
           Good(l, k) ==
             /\ l \in Seq(DOMAIN made)
             /\ \A i \in 1 .. Len(l) : /\ l[i] \in ToSet(q) /\ OwnAttestation(l[i], u)
                                       /\ made[l[i]].time = made[l[1]].time
             /\ \A i \in 1 .. k : OwnAttestation(q[i], u) =>
                                    Len(l) >= 1 /\ made[q[i]].time <= made[l[1]].time
<1>1. PICK r : AttestationSteps(u, r) /\ CurrentAttestations(u) = r[n]
  BY AttestationLoop
<1>2. n \in Nat /\ DOMAIN q = 1 .. n /\ \A i \in 1 .. n : q[i] \in DOMAIN made /\ q[i] \in ToSet(q)
  BY DEF ToSet
<1>3. \A m \in DOMAIN made : made[m].time \in Nat
  BY TimesAreNumbers
<1> DEFINE T == {k \in 0 .. n : Good(r[k], k)}
<1>4. r[0] = <<>> /\ \A k \in 0 .. n - 1 : r[k + 1] = Took(r[k], q[k + 1], u)
  BY <1>1 DEF AttestationSteps
<1> HIDE DEF q, n
<1>5. 0 \in T
  <2>1. Good(r[0], 0)
    BY <1>4
  <2>2. QED
    BY <1>2, <2>1
<1>6. ASSUME NEW k \in 0 .. n - 1, k \in T
      PROVE  k + 1 \in T
  <2> DEFINE l == r[k]
             e == q[k + 1]
             m == r[k + 1]
  <2>1. k \in Nat /\ k + 1 \in 1 .. n /\ e \in DOMAIN made /\ e \in ToSet(q) /\ made[e].time \in Nat
    BY <1>2, <1>3
  <2>2. Good(l, k) /\ m = Took(l, e, u)
    BY <1>4, <1>6
  <2>3. \A i \in 1 .. k + 1 : i \in 1 .. k \/ q[i] = e
    BY <2>1
  <2> HIDE DEF l, e, m
  <2>4. Len(l) \in Nat /\ (l = <<>> <=> Len(l) = 0) /\ (Len(l) >= 1 => Head(l) = l[1] /\ l[1] \in DOMAIN made)
    BY <2>2
  <2>5. CASE ~OwnAttestation(e, u)
    <3>1. m = l
      BY <2>2, <2>5 DEF Took
    <3>2. Good(m, k + 1)
      BY <2>2, <2>3, <2>5, <3>1
    <3>3. QED
      BY <2>1, <3>2 DEF m
  <2>6. CASE OwnAttestation(e, u) /\ (l = <<>> \/ made[e].time > made[Head(l)].time)
    <3>1. m = <<e>>
      BY <2>2, <2>6 DEF Took
    <3>2. m \in Seq(DOMAIN made) /\ Len(m) = 1 /\ m[1] = e
      BY <2>1, <3>1
    <3>3. \A i \in 1 .. k : OwnAttestation(q[i], u) => made[q[i]].time <= made[e].time
      <4>1. CASE l = <<>>
        BY <2>2, <2>4, <4>1
      <4>2. CASE l # <<>>
        <5>1. Len(l) >= 1 /\ made[e].time > made[l[1]].time /\ made[l[1]].time \in Nat
          BY <1>3, <2>4, <2>6, <4>2
        <5>2. \A i \in 1 .. k : made[q[i]].time \in Nat
          BY <1>2, <1>3, <2>1
        <5>3. QED
          BY <2>1, <2>2, <5>1, <5>2
      <4>3. QED
        BY <4>1, <4>2
    <3>4. \A i \in 1 .. k + 1 : OwnAttestation(q[i], u) => Len(m) >= 1 /\ made[q[i]].time <= made[m[1]].time
      BY <2>1, <2>3, <3>2, <3>3
    <3>5. Good(m, k + 1)
      BY <2>1, <2>6, <3>2, <3>4
    <3>6. QED
      BY <2>1, <3>5 DEF m
  <2>7. CASE OwnAttestation(e, u) /\ l # <<>> /\ ~(made[e].time > made[Head(l)].time)
    <3>1. Len(l) >= 1 /\ Head(l) = l[1] /\ made[l[1]].time \in Nat /\ made[e].time <= made[l[1]].time
      BY <1>3, <2>1, <2>4, <2>7
    <3>2. CASE made[e].time = made[l[1]].time
      <4>1. m = Append(l, e)
        BY <2>2, <2>7, <3>1, <3>2 DEF Took
      <4>2. m \in Seq(DOMAIN made) /\ Len(m) = Len(l) + 1 /\ m[Len(l) + 1] = e
            /\ (\A i \in 1 .. Len(l) : m[i] = l[i]) /\ m[1] = l[1]
        BY <2>1, <2>2, <2>4, <3>1, <4>1
      <4>3. \A i \in 1 .. Len(m) : i \in 1 .. Len(l) \/ m[i] = e
        BY <2>4, <4>2
      <4>4. \A i \in 1 .. Len(m) : /\ m[i] \in ToSet(q) /\ OwnAttestation(m[i], u)
                                   /\ made[m[i]].time = made[m[1]].time
        BY <2>1, <2>2, <2>7, <3>2, <4>2, <4>3
      <4>5. Len(m) >= 1
        BY <2>4, <4>2
      <4>6. Good(m, k + 1)
        BY <2>2, <2>3, <3>1, <4>2, <4>4, <4>5
      <4>7. QED
        BY <2>1, <4>6 DEF m
    <3>3. CASE made[e].time # made[l[1]].time
      <4>1. m = l
        BY <2>2, <2>7, <3>1, <3>3 DEF Took
      <4>2. Good(m, k + 1)
        BY <2>2, <2>3, <3>1, <4>1
      <4>3. QED
        BY <2>1, <4>2 DEF m
    <3>4. QED
      BY <3>2, <3>3
  <2>8. QED
    BY <2>5, <2>6, <2>7
<1>7. n \in T
  <2> HIDE DEF T
  <2>1. \A k \in 0 .. n : k \in T
    BY <1>2, <1>5, <1>6, BoundedInduction
  <2>2. QED
    BY <1>2, <2>1
<1> DEFINE l == CurrentAttestations(u)
<1>8. Good(l, n) /\ a \in ToSet(l)
  BY <1>1, <1>7 DEF n, q
<1> HIDE DEF l
<1>9. PICK i \in 1 .. Len(l) : a = l[i]
  BY <1>8 DEF ToSet
<1>10. a \in ToSet(q) /\ OwnAttestation(a, u) /\ made[a].time = made[l[1]].time
  BY <1>8, <1>9
<1>11. ASSUME NEW b \in ToSet(q), OwnAttestation(b, u)
       PROVE  made[b].time <= made[a].time
  <2>1. PICK j \in 1 .. n : b = q[j]
    BY <1>2 DEF ToSet
  <2>2. QED
    BY <1>8, <1>10, <1>11, <2>1
<1>12. QED
  BY <1>10, <1>11 DEF q

\* An attestation by the key of a User ID is good unless that key has expired: the loop
\* leaves out all of them or none.
LEMMA AllOrNone ==
  ASSUME SigningInv, NEW u \in Uid, owner[u] # None, NEW b \in ToSet(on[u]),
         made[b].type = "attest", made[b].by = owner[u]
  PROVE  OwnAttestation(b, u) <=> ~CausesFailure(Issues(owner[u]))
<1>1. u \in Thing /\ on[u] \in Seq(DOMAIN made) /\ b \in DOMAIN made
  <2>1. u \in Thing /\ on[u] \in Seq(DOMAIN made)
    BY DEF SigningInv, TypeOK, Thing
  <2>2. QED
    BY <2>1 DEF ToSet
<1>2. made[b].data = <<>>
  BY <1>1 DEF SigningInv, MadeFits, Fits
<1>3. Hashed("attest", owner[u], u) = <<>>
  BY DEF Hashed
<1>4. Verifier(owner[u], b) = owner[u]
  BY DEF Verifier
<1>5. Outcome(owner[u], b, u) = IF CausesFailure(Issues(owner[u])) THEN "Expired" ELSE "OK"
  BY <1>2, <1>3, <1>4 DEF Outcome
<1>6. QED
  BY <1>5 DEF OwnAttestation

\* A third party's certification counts as attested only while the newest attestations on
\* the User ID by its key list it, whatever they attest (attested_to,
\* attested_third_party_certifications).
THEOREM AttestationsCurrentAlways == Spec => []AttestationsAreCurrent
<1>1. SigningInv => AttestationsAreCurrent
  <2> SUFFICES ASSUME SigningInv, NEW u \in Uid, NEW c \in Attested(u)
               PROVE  \E a \in ToSet(on[u]) :
                        /\ made[a].type = "attest" /\ made[a].by = owner[u] /\ c \in made[a].lists
                        /\ \A b \in ToSet(on[u]) :
                             made[b].type = "attest" /\ made[b].by = owner[u]
                               => made[b].time <= made[a].time
    BY DEF AttestationsAreCurrent
  <2>1. owner[u] # None
    BY DEF Attested
  <2>2. PICK a \in ToSet(CurrentAttestations(u)) : c \in made[a].lists
    BY <2>1 DEF Attested
  <2>3. made \in Seq(Made) /\ on[u] \in Seq(DOMAIN made)
    BY DEF SigningInv, TypeOK, Thing
  <2>4. /\ a \in ToSet(on[u]) /\ OwnAttestation(a, u)
        /\ \A b \in ToSet(on[u]) : OwnAttestation(b, u) => made[b].time <= made[a].time
    BY <2>3, CurrentAreNewest
  <2>5. made[a].type = "attest" /\ made[a].by = owner[u]
    BY <2>4 DEF OwnAttestation
  <2>6. ~CausesFailure(Issues(owner[u]))
    BY <2>1, <2>4, <2>5, AllOrNone
  <2>7. ASSUME NEW b \in ToSet(on[u]), made[b].type = "attest", made[b].by = owner[u]
        PROVE  made[b].time <= made[a].time
    <3>1. OwnAttestation(b, u)
      BY <2>1, <2>6, <2>7, AllOrNone
    <3>2. QED
      BY <2>4, <3>1
  <2>8. QED
    BY <2>2, <2>4, <2>5, <2>7
<1>2. QED
  BY <1>1, SigningGood, PTL

-----------------------------------------------------------------------------
(***************************************************************************)
(* When the expiry of a key changes.                                       *)
(***************************************************************************)
\* An item that is where the bisection looks for it is left there.
LEMMA ResortStays ==
  ASSUME NEW A, NEW s \in Seq(A), NEW p \in DOMAIN s, NEW before,
         \A i \in DOMAIN s : before[<<s[i], s[p]>>] <=> i < p
  PROVE  Resort(s, s[p], before) = s
<1> DEFINE e == s[p]
           less == Less(s, e, before)
           b == BisectLeft(s, less)
<1>1. b \in 0 .. Len(s)
  BY BisectLeftStops
<1>2. (b # 0 => less[s[b]]) /\ (b # Len(s) => ~less[s[b + 1]])
  BY BisectLeftStops
<1>3. ASSUME NEW i \in DOMAIN s
      PROVE  less[s[i]] <=> i < p
  <2>1. less[s[i]] = before[<<s[i], e>>]
    BY LessAt
  <2>2. before[<<s[i], e>>] <=> i < p
    OBVIOUS
  <2>3. QED
    BY <2>1, <2>2, Zenon
<1>4. DOMAIN s = 1 .. Len(s) /\ Len(s) \in Nat /\ p \in 1 .. Len(s) /\ e \in ToSet(s)
  BY DEF ToSet
<1> HIDE DEF less, b
<1>5. b < p
  <2> SUFFICES ASSUME b # 0
               PROVE  b < p
    BY <1>4
  <2>1. b \in DOMAIN s
    BY ONLY <1>1, <1>4, b # 0
  <2>2. QED
    BY ONLY <1>2, <1>3, <2>1, b # 0, Zenon
<1>6. ~(b + 1 < p)
  <2> SUFFICES ASSUME b + 1 < p
               PROVE  FALSE
    OBVIOUS
  <2>1. b # Len(s) /\ b + 1 \in DOMAIN s
    <3> DEFINE n == Len(s)
    <3>1. b \in 0 .. n /\ n \in Nat /\ p \in 1 .. n /\ b < p
      BY <1>1, <1>4, <1>5
    <3> HIDE DEF n
    <3>2. b # n /\ b + 1 \in 1 .. n
      BY ONLY <3>1
    <3>3. QED
      BY <1>4, <3>2 DEF n
  <2>2. QED
    BY ONLY <1>2, <1>3, <2>1, b + 1 < p, Zenon
<1>7. b + 1 = p /\ b + 1 <= Len(s)
  BY ONLY <1>1, <1>4, <1>5, <1>6
<1>8. QED
  BY <1>4, <1>7 DEF Resort, b, less

\* No two User IDs of the key have self-signatures of the same second: its User IDs are
\* strictly in the order of rank.
LEMMA StrictlyRanked ==
  ASSUME SigningInv, NEW k \in Primary, NoTies(k), NEW i \in DOMAIN uids[k], NEW j \in DOMAIN uids[k]
  PROVE  Ranked[<<uids[k][i], uids[k][j]>>] <=> i < j
<1> DEFINE u == uids[k][i]
           v == uids[k][j]
           L(x) == Latest(on[x], made, k)
<1>1. /\ TypeOK /\ made \in Seq(Made) /\ uids[k] \in Seq(Ids(k)) /\ ToSet(uids[k]) = Ids(k)
      /\ IsInjective(uids[k]) /\ InOrder(uids[k], Ranked) /\ i \in Nat /\ j \in Nat
  BY UidsOfKey DEF SigningInv, TypeOK, Ranking
<1>2. u \in Ids(k) /\ v \in Ids(k)
  BY <1>1
<1>3. ASSUME NEW x \in Ids(k)
      PROVE  /\ x \in Uid /\ owner[x] = k /\ on[x] \in Seq(DOMAIN made) /\ LastBy(on[x], made, k) # {}
             /\ Selfsig(x) = LastBy(on[x], made, k) /\ \A n \in Selfsig(x) : made[n].time = L(x)
  <2>1. x \in Uid /\ owner[x] = k /\ on[x] \in Seq(DOMAIN made)
    BY <1>1 DEF Ids, TypeOK, Thing
  <2>2. Selfsig(x) = LastBy(on[x], made, k) /\ Selfsig(x) # {}
    BY <2>1, Ranks DEF SigningInv, SelfSigned
  <2>3. PICK m : IsLastBy(on[x], made, k, m)
    BY <2>1, <2>2, LastByFacts
  <2>4. \A n \in Selfsig(x) : made[n].time = L(x)
    BY <2>2, <2>3 DEF IsLastBy
  <2>5. QED
    BY <2>1, <2>2, <2>4
<1>4. ByLatest(on, made, owner, u, v) /\ ByLatest(on, made, owner, v, u)
  BY <1>1, <1>2, <1>3, RankIsTime
<1>5. L(u) \in Nat /\ L(v) \in Nat
  BY <1>2, <1>3, <1>4 DEF ByLatest
<1>6. (Ranked[<<u, v>>] <=> L(v) < L(u)) /\ (Ranked[<<v, u>>] <=> L(u) < L(v))
  <2>1. owner[u] = k /\ owner[v] = k /\ Ranked = RankBy(on, made, owner)
    BY <1>2, <1>3, Ranks
  <2>2. QED
    BY <1>4, <2>1, Zenon DEF ByLatest
<1>7. u # v => L(u) # L(v)
  <2>1. /\ \E m \in Selfsig(u) : made[m].time = L(u)
        /\ \E n \in Selfsig(v) : made[n].time = L(v)
    BY <1>2, <1>3
  <2>2. u \in ToSet(uids[k]) /\ v \in ToSet(uids[k])
    BY <1>1, <1>2
  <2> HIDE DEF u, v, L
  <2>3. QED
    BY <2>1, <2>2 DEF NoTies
<1>8. (i < j => ~Ranked[<<v, u>>]) /\ (j < i => ~Ranked[<<u, v>>])
  BY <1>1, Zenon DEF InOrder
<1>9. i # j => u # v
  BY <1>1 DEF IsInjective
<1>10. i = j => u = v
  OBVIOUS
<1> HIDE DEF u, v, L
<1>11. CASE i < j
  <2>1. u # v /\ ~(L(u) < L(v))
    BY <1>1, <1>6, <1>8, <1>9, <1>11
  <2>2. L(v) < L(u)
    BY <1>5, <1>7, <2>1
  <2>3. QED
    BY <1>6, <1>11, <2>2, Zenon DEF u, v
<1>12. CASE j < i
  <2>1. ~(i < j) /\ ~Ranked[<<u, v>>]
    BY <1>1, <1>8, <1>12
  <2>2. QED
    BY <2>1, Zenon DEF u, v
<1>13. CASE i = j
  <2>1. ~(i < j) /\ ~(L(v) < L(u))
    BY <1>1, <1>5, <1>10, <1>13
  <2>2. ~Ranked[<<u, v>>]
    BY <1>6, <2>1, Zenon
  <2>3. QED
    BY <2>1, <2>2, Zenon DEF u, v
<1>14. QED
  BY <1>1, <1>11, <1>12, <1>13

\* The step leaves the User IDs of k and their self-signatures what they are.
Quiet(k) ==
  /\ Extends(made, made') /\ uids'[k] = uids[k]
  /\ \A u \in Ids(k) : Selfsig(u)' = Selfsig(u)

\* The expiry that the self-signatures on the User IDs q give.
ExpiryBy(q, onn, mk, ow) ==
  LET dated == {i \in DOMAIN q : \E n \in LastBy(onn[q[i]], mk, ow[q[i]]) : mk[n].exp # 0}
      last == q[Max(dated)]
  IN  IF dated = {} THEN 0 ELSE mk[CHOOSE n \in LastBy(onn[last], mk, ow[last]) : TRUE].exp

\* The expiry is then the same.
LEMMA QuietExpiry ==
  ASSUME SigningInv, NEW k \in Primary, Quiet(k)
  PROVE  ExpiresAt(k)' = ExpiresAt(k)
<1> DEFINE q == uids[k]
           S(u) == LastBy(on[u], made, owner[u])
           T(u) == LastBy(on'[u], made', owner'[u])
           dated == {i \in DOMAIN q : \E n \in S(q[i]) : made[n].exp # 0}
           dated2 == {i \in DOMAIN q : \E n \in T(q[i]) : made'[n].exp # 0}
<1>1. TypeOK /\ uids'[k] = q /\ q \in Seq(Ids(k)) /\ Extends(made, made')
      /\ \A u \in Ids(k) : Selfsig(u)' = Selfsig(u)
  BY UidsOfKey DEF SigningInv, Quiet
<1>2. /\ ExpiresAt(k) = ExpiryBy(q, on, made, owner)
      /\ ExpiresAt(k)' = ExpiryBy(q, on', made', owner')
  <2>1. ExpiresAt(k) = ExpiryBy(uids[k], on, made, owner)
    BY DEF ExpiresAt, Selfsig, ExpiryBy, LastBy
  <2>2. ExpiresAt(k)' = ExpiryBy(uids'[k], on', made', owner')
    BY DEF ExpiresAt, Selfsig, ExpiryBy, LastBy
  <2>3. QED
    BY <1>1, <2>1, <2>2
<1>3. ASSUME NEW u \in Ids(k)
      PROVE  T(u) = S(u) /\ \A n \in S(u) : made'[n] = made[n]
  <2>1. on[u] \in Seq(DOMAIN made) /\ u \in Uid
    BY <1>1 DEF TypeOK, Ids, Thing
  <2>2. T(u) = S(u)
    BY <1>1, <2>1, Ranks
  <2>3. S(u) \subseteq DOMAIN made
    <3>1. CASE S(u) = {}
      BY <3>1
    <3>2. CASE S(u) # {}
      <4>1. PICK m : IsLastBy(on[u], made, owner[u], m)
        BY <2>1, <3>2, LastByFacts
      <4>2. QED
        BY <2>1, <4>1 DEF IsLastBy
    <3>3. QED
      BY <3>1, <3>2
  <2>4. QED
    BY <1>1, <2>2, <2>3 DEF Extends
<1> HIDE DEF S, T, q
<1>4. \A i \in DOMAIN q : q[i] \in Ids(k)
  BY <1>1
<1>5. dated2 = dated
  BY <1>3, <1>4
<1>6. /\ ExpiryBy(q, on, made, owner)
           = IF dated = {} THEN 0 ELSE made[CHOOSE n \in S(q[Max(dated)]) : TRUE].exp
      /\ ExpiryBy(q, on', made', owner')
           = IF dated2 = {} THEN 0 ELSE made'[CHOOSE n \in T(q[Max(dated2)]) : TRUE].exp
  BY DEF ExpiryBy, S, T
<1>7. dated # {} => Max(dated) \in dated
  <2>1. Len(q) \in Nat /\ dated \in SUBSET (0 .. Len(q))
    BY <1>1
  <2> HIDE DEF dated
  <2>2. QED
    BY <2>1, MaxOfBounded
<1>8. CASE dated = {}
  BY <1>2, <1>5, <1>6, <1>8
<1>9. CASE dated # {}
  <2> DEFINE u == q[Max(dated)]
             m == CHOOSE n \in S(u) : TRUE
  <2>1. u \in Ids(k) /\ S(u) # {}
    BY <1>4, <1>7, <1>9
  <2>2. T(u) = S(u) /\ made'[m] = made[m]
    <3>1. m \in S(u)
      BY <2>1
    <3>2. QED
      BY <1>3, <2>1, <3>1
  <2> HIDE DEF dated, dated2
  <2>3. ExpiresAt(k)' = made'[CHOOSE n \in T(u) : TRUE].exp
    BY <1>2, <1>5, <1>6, <1>9
  <2>4. ExpiresAt(k) = made[m].exp
    BY <1>2, <1>6, <1>9
  <2>5. QED
    BY <2>2, <2>3, <2>4
<1>10. QED
  BY <1>8, <1>9

\* A signature by another than k, wherever it is attached.
LEMMA AttachIsQuiet ==
  ASSUME SigningInv, NEW k \in Primary, NoTies(k), NEW by, NEW at, Signed(by, at), by # k
  PROVE  Quiet(k)
<1>1. /\ at \in Thing /\ owner' = owner /\ uids' = Resorted(at)
      /\ MadeOK(made', now) /\ Extends(made, made') /\ on' \in [Thing -> Seq(DOMAIN made')]
  BY Zenon DEF Signed
<1>2. /\ \A y \in Thing : \A o : y # at => LastBy(on'[y], made', o) = LastBy(on[y], made, o)
      /\ LastBy(on'[at], made', k) = LastBy(on[at], made, k)
  BY Zenon DEF Signed
<1>3. made' \in Seq(Made)
  BY <1>1 DEF MadeOK
<1>4. /\ TypeOK /\ uids[k] \in Seq(Ids(k)) /\ ToSet(uids[k]) = Ids(k)
      /\ \A i \in DOMAIN uids[k] : uids[k][i] \in Ids(k)
  BY UidsOfKey DEF SigningInv
<1>5. ASSUME NEW u \in Ids(k)
      PROVE  /\ u \in Uid /\ u \in Thing /\ owner[u] = k /\ owner'[u] = k
             /\ LastBy(on'[u], made', k) = LastBy(on[u], made, k)
  <2>1. u \in Uid /\ u \in Thing /\ owner[u] = k
    BY DEF Ids, Thing
  <2>2. QED
    BY <1>1, <1>2, <2>1
<1>6. \A u \in Ids(k) : Selfsig(u)' = Selfsig(u)
  <2>1. ASSUME NEW u \in Ids(k)
        PROVE  Selfsig(u)' = Selfsig(u)
    <3>1. Selfsig(u) = LastBy(on[u], made, k) /\ Selfsig(u)' = LastBy(on'[u], made', k)
      BY <1>5, Ranks
    <3>2. QED
      BY <1>5, <3>1
  <2>2. QED
    BY <2>1
<1>7. uids'[k] = uids[k]
  <2>1. CASE at \notin Ids(k)
    BY <1>1, <1>4, <2>1 DEF Resorted, OwnerOf, Ids, TypeOK
  <2>2. CASE at \in Ids(k)
    <3>1. uids'[k] = Resort(uids[k], at, Ranked')
      BY <1>1, <1>4, <1>5, <2>2 DEF Resorted, OwnerOf, TypeOK
    <3>2. PICK p \in DOMAIN uids[k] : uids[k][p] = at
      BY <1>4, <2>2 DEF ToSet
    <3>3. Agree(Ids(k), Ranked, Ranked')
      BY <1>1, <1>3, <1>5, RanksKept
    <3>4. ASSUME NEW i \in DOMAIN uids[k]
          PROVE  Ranked'[<<uids[k][i], uids[k][p]>>] <=> i < p
      <4>1. Ranked[<<uids[k][i], uids[k][p]>>] <=> i < p
        BY StrictlyRanked
      <4>2. uids[k][i] \in Ids(k) /\ uids[k][p] \in Ids(k)
        BY <1>4
      <4>3. QED
        BY <3>3, <4>1, <4>2, Zenon DEF Agree
    <3>5. Resort(uids[k], uids[k][p], Ranked') = uids[k]
      BY <1>4, <3>4, ResortStays
    <3>6. QED
      BY <3>1, <3>2, <3>5
  <2>3. QED
    BY <2>1, <2>2
<1>8. QED
  BY <1>1, <1>6, <1>7 DEF Quiet

\* Whatever else happens to no User ID of k.
LEMMA OthersAreQuiet ==
  ASSUME TypeOK, NEW k \in Primary, Extends(made, made'), uids'[k] = uids[k],
         \A u \in Ids(k) : owner'[u] = owner[u] /\ on'[u] = on[u]
  PROVE  Quiet(k)
<1>1. ASSUME NEW u \in Ids(k)
      PROVE  Selfsig(u)' = Selfsig(u)
  <2>1. u \in Uid /\ on[u] \in Seq(DOMAIN made)
    BY DEF Ids, TypeOK, Thing
  <2>2. \A n \in DOMAIN made : made'[n] = made[n]
    BY DEF Extends
  <2>3. LastBy(on[u], made', owner[u]) = LastBy(on[u], made, owner[u])
    BY <2>1, <2>2, LastBySame
  <2>4. QED
    BY <2>1, <2>3, Ranks
<1>2. QED
  BY <1>1 DEF Quiet

\* The expiry of a key changes only when it loses or gets a User ID or signs one, unless two
\* of its User IDs were signed in the same second: a signature by another key leaves _uids
\* and selfsig as they are (expires_at, resort).
THEOREM ExpiryAlwaysOwners == Spec => ExpiryIsOwners
<1>1. ASSUME SigningInv, [Next]_vars, NEW k \in Primary, NoTies(k),
             ToSet(uids[k])' = ToSet(uids[k]),
             \A n \in DOMAIN made' \ DOMAIN made : made'[n].by # k
      PROVE  ExpiresAt(k)' = ExpiresAt(k)
  <2>1. /\ TypeOK /\ made \in Seq(Made) /\ ToSet(uids[k]) = Ids(k) /\ None \notin Primary
        /\ Extends(made, made) /\ \A u \in Ids(k) : u \in Uid /\ u \in Thing /\ owner[u] = k
    <3>1. TypeOK /\ made \in Seq(Made)
      BY <1>1 DEF SigningInv, TypeOK
    <3>2. ToSet(uids[k]) = Ids(k)
      BY <3>1, UidsOfKey
    <3>3. None \notin Primary
      BY SigningAssumption DEF Thing, Key
    <3>4. QED
      BY <3>1, <3>2, <3>3 DEF Extends, Ids, Thing
  <2>2. CASE Attaching
    <3>1. PICK type, by, x, at, exp, lists : Attached(type, by, x, at, exp, lists)
      BY <2>2 DEF Attaching
    <3>2. Signed(by, at)
      BY <1>1, <3>1, AttachFacts
    <3>3. by # k
      BY <1>1, <3>2, Zenon DEF Signed
    <3>4. QED
      BY <1>1, <3>2, <3>3, AttachIsQuiet, QuietExpiry
  <2>3. ASSUME NEW j \in Primary, NEW u \in Uid, NEW exp \in Expiry, AddUid(j, u, exp)
        PROVE  ExpiresAt(k)' = ExpiresAt(k)
    <3> DEFINE s == Signature("cert", j, u, u, exp, {})'
    <3>1. /\ made' = Append(made, s) /\ owner' = [owner EXCEPT ![u] = j] /\ owner[u] = None
          /\ on' = [on EXCEPT ![u] = PutSig(@, Len(made'))]
          /\ uids' = [uids EXCEPT ![j] = Insort(@, u, Ranked')]
      BY <2>3 DEF AddUid
    <3>2. s.by = j
      BY DEF Signature
    <3> HIDE DEF s
    <3>3. /\ Len(made') \in DOMAIN made' \ DOMAIN made /\ made'[Len(made')] = s
          /\ Extends(made, made')
      BY <2>1, <3>1 DEF Extends
    <3>4. j # k
      BY <1>1, <3>2, <3>3
    <3>5. uids'[k] = uids[k]
      BY <2>1, <3>1, <3>4 DEF TypeOK
    <3>6. \A v \in Ids(k) : owner'[v] = owner[v] /\ on'[v] = on[v]
      <4>1. \A v \in Ids(k) : v # u
        BY <2>1, <3>1
      <4>2. QED
        BY <2>1, <3>1, <4>1 DEF TypeOK
    <3>7. QED
      BY <1>1, <2>1, <3>3, <3>5, <3>6, OthersAreQuiet, QuietExpiry
  <2>4. ASSUME NEW j \in Primary, NEW u \in Uid, DelUid(j, u)
        PROVE  ExpiresAt(k)' = ExpiresAt(k)
    <3>1. /\ owner[u] = j /\ owner' = [owner EXCEPT ![u] = None] /\ made' = made /\ on' = on
          /\ uids' = [uids EXCEPT ![j] = RemoveFirst(@, u)]
      BY <2>4 DEF DelUid
    <3>2. j # k
      <4> SUFFICES ASSUME j = k
                   PROVE  FALSE
        OBVIOUS
      <4>1. u \in Ids(k)
        BY <3>1 DEF Ids
      <4>2. uids[k] \in Seq(Uid) /\ IsInjective(uids[k])
        BY <2>1, UidsOfKey
      <4>3. uids'[k] = RemoveFirst(uids[k], u)
        BY <2>1, <3>1 DEF TypeOK
      <4>4. ToSet(uids'[k]) = ToSet(uids[k]) \ {u}
        BY <4>2, <4>3, RemoveFirstFacts
      <4>5. ToSet(uids'[k]) = ToSet(uids[k])
        BY <1>1 DEF ToSet
      <4>6. QED
        BY <2>1, <4>1, <4>4, <4>5
    <3>3. uids'[k] = uids[k]
      BY <2>1, <3>1, <3>2 DEF TypeOK
    <3>4. \A v \in Ids(k) : owner'[v] = owner[v] /\ on'[v] = on[v]
      <4>1. \A v \in Ids(k) : v # u
        BY <2>1, <3>1, <3>2
      <4>2. QED
        BY <2>1, <3>1, <4>1 DEF TypeOK
    <3>5. Extends(made, made')
      BY <2>1, <3>1
    <3>6. QED
      BY <1>1, <2>1, <3>3, <3>4, <3>5, OthersAreQuiet, QuietExpiry
  <2>5. ASSUME NEW j \in Primary, NEW s \in Sub, AddSubkey(j, s)
        PROVE  ExpiresAt(k)' = ExpiresAt(k)
    <3> DEFINE a == Signature("pkbind", s, j, s, 0, {})'
               b == Signature("bind", j, s, s, 0, {})'
    <3>1. /\ made' = made \o <<a, b>> \/ made' = made
          /\ owner' = [owner EXCEPT ![s] = j] /\ uids' = uids
          /\ \/ on' = [on EXCEPT ![s] = PutSig(PutSig(@, Len(made')), Len(made') - 1)]
             \/ on' = on
      BY <2>5 DEF AddSubkey
    <3> HIDE DEF a, b
    <3>2. Extends(made, made')
      <4>1. CASE made' = made \o <<a, b>>
        BY <2>1, <4>1 DEF Extends
      <4>2. CASE made' = made
        BY <4>2 DEF Extends
      <4>3. QED
        BY <3>1, <4>1, <4>2
    <3>3. \A v \in Ids(k) : owner'[v] = owner[v] /\ on'[v] = on[v]
      <4>1. \A v \in Ids(k) : v # s
        BY <2>1, SigningAssumption DEF Key
      <4>2. QED
        BY <2>1, <3>1, <4>1 DEF TypeOK
    <3>4. QED
      BY <1>1, <2>1, <3>1, <3>2, <3>3, OthersAreQuiet, QuietExpiry
  <2>6. CASE Waiting
    <3>1. Extends(made, made') /\ uids' = uids /\ on' = on /\ owner' = owner
      BY <2>1, <2>6 DEF Waiting
    <3>2. QED
      BY <1>1, <2>1, <3>1, OthersAreQuiet, QuietExpiry
  <2>7. QED
    BY <1>1, <2>2, <2>3, <2>4, <2>5, <2>6, StepKinds
<1>2. SigningInv /\ [Next]_vars
        => \A k \in Primary :
             /\ ToSet(uids[k])' = ToSet(uids[k])
             /\ \A n \in DOMAIN made' \ DOMAIN made : made'[n].by # k
             /\ NoTies(k)
             => ExpiresAt(k)' = ExpiresAt(k)
  BY <1>1
<1>3. QED
  BY <1>2, SigningGood, PTL DEF Spec, ExpiryIsOwners
=============================================================================
