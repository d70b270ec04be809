--------------------------- MODULE KeyringProofs ---------------------------
(***************************************************************************)
(* Proofs about Keyring, for any key objects, aliases and subkeys: what    *)
(* the alias maps hold and in which order, that the deques and the key     *)
(* dict agree, and that a keyring which is only loaded implements the      *)
(* relation of KeyringAbs.                                                 *)
(***************************************************************************)
EXTENDS Keyring, SequenceLemmas

-----------------------------------------------------------------------------
(***************************************************************************)
(* Kept, a fold over the items of a sequence.                              *)
(***************************************************************************)
KeepStep(q, x, keep) == IF x \in keep THEN Append(q, x) ELSE q

\* t is what is kept of the first k items of s: its items are in the order of s, and
\* none that is to be kept is missing.
KeptOf(t, s, k, keep) ==
  \E p \in [1 .. Len(t) -> 1 .. k] :
    /\ \A j \in 1 .. Len(t) : t[j] = s[p[j]] /\ t[j] \in keep
    /\ \A i, j \in 1 .. Len(t) : i < j => p[i] < p[j]
    /\ \A i \in 1 .. k : s[i] \in keep => \E j \in 1 .. Len(t) : p[j] = i

\* r[k] is what the fold of Kept has kept of the first k items.
KeptRun(r, s, keep, A) ==
  /\ r \in [0 .. Len(s) -> Seq(A)]
  /\ r[0] = <<>> /\ Kept(s, keep) = r[Len(s)]
  /\ \A k \in 0 .. Len(s) - 1 : r[k + 1] = KeepStep(r[k], s[k + 1], keep)

\* The fold of Kept has such a run.
LEMMA KeptSteps ==
  ASSUME NEW A, NEW s \in Seq(A), NEW keep
  PROVE  \E r : KeptRun(r, s, keep, A)
<1> DEFINE n == Len(s)
           B == Seq(A)
           D == SUBSET (1 .. n)
           step == [p \in B \X (1 .. n) |-> KeepStep(p[1], s[p[2]], keep)]
           Folds(g) == g = [S \in D |-> IF S = {} THEN <<>>
                                        ELSE KeepStep(g[S \ {Max(S)}], s[Max(S)], keep)]
           iter == CHOOSE g : Folds(g)
<1>1. n \in Nat /\ DOMAIN s = 1 .. n /\ <<>> \in B
  OBVIOUS
<1>2. Kept(s, keep) = iter[1 .. n]
  BY <1>1 DEF Kept, FoldLeft, MapThenFoldSet, KeepStep
<1>3. step \in [B \X (1 .. n) -> B]
  BY DEF KeepStep
<1>4. \A b \in B, i \in 1 .. n : step[<<b, i>>] = KeepStep(b, s[i], keep)
  OBVIOUS
<1> HIDE DEF n, B, step
<1>5. Folds(iter)
  <2>1. PICK g : FoldSolution(g, n, B, <<>>, step)
    BY <1>1, <1>3, FoldSolved
  <2>2. Folds(g)
    BY <1>4, <2>1 DEF FoldSolution
  <2> HIDE DEF Folds
  <2>3. QED
    BY <2>2
<1> HIDE DEF iter
<1>6. PICK r : FoldRun(r, n, B, <<>>, step) /\ r[n] = iter[1 .. n]
  <2>1. Follows(iter, n, B, <<>>, step)
    BY <1>4, <1>5 DEF Follows
  <2>2. QED
    <3>1. Runs(iter, n, B, <<>>, step)
      BY <1>1, <1>3, <2>1, RunOfFold
    <3>2. QED
      BY <3>1 DEF Runs
<1>7. \A k \in 0 .. n - 1 : r[k + 1] = KeepStep(r[k], s[k + 1], keep)
  <2>1. \A k \in 0 .. n - 1 : k + 1 \in 1 .. n
    BY <1>1
  <2>2. QED
    BY <1>4, <1>6, <2>1 DEF FoldRun
<1>8. QED
  BY <1>2, <1>6, <1>7 DEF FoldRun, KeptRun, n, B

\* One more item is kept, if it is to be.
LEMMA KeepOne ==
  ASSUME NEW A, NEW s \in Seq(A), NEW keep, NEW k \in 0 .. Len(s) - 1,
         NEW t \in Seq(A), KeptOf(t, s, k, keep)
  PROVE  KeptOf(KeepStep(t, s[k + 1], keep), s, k + 1, keep)
<1>1. PICK p \in [1 .. Len(t) -> 1 .. k] :
        /\ \A j \in 1 .. Len(t) : t[j] = s[p[j]] /\ t[j] \in keep
        /\ \A i, j \in 1 .. Len(t) : i < j => p[i] < p[j]
        /\ \A i \in 1 .. k : s[i] \in keep => \E j \in 1 .. Len(t) : p[j] = i
  BY DEF KeptOf
<1>2. Len(t) \in Nat /\ k \in Nat /\ k + 1 \in 1 .. Len(s) /\ s[k + 1] \in A
  OBVIOUS
<1>3. CASE s[k + 1] \notin keep
  <2>1. KeepStep(t, s[k + 1], keep) = t
    BY <1>3 DEF KeepStep
  <2>2. \A j \in 1 .. Len(t) : p[j] \in 1 .. k + 1
    BY <1>2
  <2>3. p \in [1 .. Len(t) -> 1 .. k + 1]
    BY <2>2
  <2>4. \A i \in 1 .. k + 1 : s[i] \in keep => i \in 1 .. k
    BY <1>2, <1>3
  <2>5. KeptOf(t, s, k + 1, keep)
    BY <1>1, <2>3, <2>4 DEF KeptOf
  <2>6. QED
    BY <2>1, <2>5
<1>4. CASE s[k + 1] \in keep
  <2> DEFINE u == Append(t, s[k + 1])
             l == Len(t)
             o == [j \in 1 .. l + 1 |-> IF j = l + 1 THEN k + 1 ELSE p[j]]
  <2>1. KeepStep(t, s[k + 1], keep) = u
    BY <1>4 DEF KeepStep
  <2>2. /\ Len(u) = l + 1 /\ u[l + 1] = s[k + 1] /\ l \in Nat
        /\ \A j \in 1 .. l : u[j] = t[j]
    BY <1>2
  <2> HIDE DEF u
  <2>3. o \in [1 .. l + 1 -> 1 .. k + 1] /\ o[l + 1] = k + 1 /\ \A j \in 1 .. l : o[j] = p[j]
    <3>1. ASSUME NEW j \in 1 .. l + 1
          PROVE  (IF j = l + 1 THEN k + 1 ELSE p[j]) \in 1 .. k + 1
      BY <1>2
    <3>2. QED
      BY <1>2, <3>1
  <2> HIDE DEF o
  <2>4. \A j \in 1 .. l + 1 : j \in 1 .. l \/ j = l + 1
    BY <1>2
  <2>5. \A j \in 1 .. l + 1 : u[j] = s[o[j]] /\ u[j] \in keep
    <3>1. \A j \in 1 .. l : u[j] = s[o[j]] /\ u[j] \in keep
      BY <1>1, <2>2, <2>3
    <3>2. u[l + 1] = s[o[l + 1]] /\ u[l + 1] \in keep
      BY <1>4, <2>2, <2>3
    <3>3. QED
      BY <2>4, <3>1, <3>2
  <2>6. ASSUME NEW i \in 1 .. l + 1, NEW j \in 1 .. l + 1, i < j
        PROVE  o[i] < o[j]
    <3>1. CASE j = l + 1
      <4>1. i \in 1 .. l /\ p[i] \in 1 .. k
        BY <1>2, <2>6, <3>1
      <4>2. QED
        BY <1>2, <2>3, <3>1, <4>1
    <3>2. CASE j # l + 1
      <4>0. l \in Nat
        BY <2>2
      <4> HIDE DEF l
      <4>1. i \in 1 .. l /\ j \in 1 .. l
        BY <2>6, <3>2, <4>0
      <4>2. p[i] < p[j]
        BY <1>1, <2>6, <4>1 DEF l
      <4>3. QED
        BY <2>3, <4>1, <4>2
    <3>3. QED
      BY <3>1, <3>2
  <2>7. ASSUME NEW i \in 1 .. k + 1, s[i] \in keep
        PROVE  \E j \in 1 .. l + 1 : o[j] = i
    <3>1. CASE i = k + 1
      <4>1. l + 1 \in 1 .. l + 1
        BY <1>2
      <4>2. QED
        BY <2>3, <3>1, <4>1
    <3>2. CASE i # k + 1
      <4>1. i \in 1 .. k
        BY <1>2, <3>2
      <4>2. PICK j \in 1 .. l : p[j] = i
        BY <1>1, <2>7, <4>1
      <4>3. j \in 1 .. l + 1
        BY <1>2
      <4>4. QED
        BY <2>3, <4>2, <4>3
    <3>3. QED
      BY <3>1, <3>2
  <2>8. KeptOf(u, s, k + 1, keep)
    <3> HIDE DEF l
    <3>1. /\ o \in [1 .. Len(u) -> 1 .. k + 1]
          /\ \A j \in 1 .. Len(u) : u[j] = s[o[j]] /\ u[j] \in keep
      BY <2>2, <2>3, <2>5
    <3>2. \A i, j \in 1 .. Len(u) : i < j => o[i] < o[j]
      BY <2>2, <2>6
    <3>3. \A i \in 1 .. k + 1 : s[i] \in keep => \E j \in 1 .. Len(u) : o[j] = i
      BY <2>2, <2>7
    <3>4. QED
      BY <3>1, <3>2, <3>3 DEF KeptOf
  <2>9. QED
    BY <2>1, <2>8
<1>5. QED
  BY <1>3, <1>4

\* Kept keeps the items it should, in their order, and no other.
LEMMA KeptFacts ==
  ASSUME NEW A, NEW s \in Seq(A), NEW keep
  PROVE  /\ Kept(s, keep) \in Seq(A)
         /\ KeptOf(Kept(s, keep), s, Len(s), keep)
         /\ ToSet(Kept(s, keep)) = ToSet(s) \cap keep
<1>1. PICK r \in [0 .. Len(s) -> Seq(A)] :
        /\ r[0] = <<>> /\ Kept(s, keep) = r[Len(s)]
        /\ \A k \in 0 .. Len(s) - 1 : r[k + 1] = KeepStep(r[k], s[k + 1], keep)
  <2>1. \E r : KeptRun(r, s, keep, A)
    BY KeptSteps
  <2>2. QED
    BY <2>1 DEF KeptRun
<1> DEFINE T == {k \in 0 .. Len(s) : KeptOf(r[k], s, k, keep)}
           t == Kept(s, keep)
<1>2. 0 \in T
  <2>1. Len(r[0]) = 0 /\ 1 .. 0 = {}
    BY <1>1
  <2>2. [j \in 1 .. 0 |-> 0] \in [1 .. 0 -> 1 .. 0]
    OBVIOUS
  <2>3. KeptOf(r[0], s, 0, keep)
    BY <2>1, <2>2 DEF KeptOf
  <2>4. QED
    BY <2>3
<1>3. ASSUME NEW k \in 0 .. Len(s) - 1, k \in T
      PROVE  k + 1 \in T
  <2>1. k \in 0 .. Len(s) /\ k + 1 \in 0 .. Len(s)
    OBVIOUS
  <2>2. r[k] \in Seq(A) /\ KeptOf(r[k], s, k, keep)
    BY <1>3, <2>1
  <2>3. KeptOf(r[k + 1], s, k + 1, keep)
    BY <1>1, <2>2, KeepOne
  <2>4. QED
    BY <2>1, <2>3
<1>4. Len(s) \in 0 .. Len(s) /\ Len(s) \in Nat
  OBVIOUS
<1>5. Len(s) \in T
  <2> HIDE DEF T
  <2> QED
    BY <1>2, <1>3, <1>4, BoundedInduction
<1>6. t \in Seq(A) /\ KeptOf(t, s, Len(s), keep)
  BY <1>1, <1>4, <1>5
<1> HIDE DEF t
<1>7. PICK p \in [1 .. Len(t) -> 1 .. Len(s)] :
        /\ \A j \in 1 .. Len(t) : t[j] = s[p[j]] /\ t[j] \in keep
        /\ \A i \in 1 .. Len(s) : s[i] \in keep => \E j \in 1 .. Len(t) : p[j] = i
  BY <1>6 DEF KeptOf
<1>8. DOMAIN t = 1 .. Len(t) /\ DOMAIN s = 1 .. Len(s)
  BY <1>6
<1>9. ToSet(t) = ToSet(s) \cap keep
  <2>1. ASSUME NEW j \in 1 .. Len(t)
        PROVE  t[j] \in ToSet(s) \cap keep
    <3>1. p[j] \in 1 .. Len(s)
      BY <1>7
    <3>2. QED
      BY <1>7, <1>8, <3>1 DEF ToSet
  <2>2. ASSUME NEW i \in 1 .. Len(s), s[i] \in keep
        PROVE  s[i] \in ToSet(t)
    <3>1. PICK j \in 1 .. Len(t) : p[j] = i
      BY <1>7, <2>2
    <3>2. QED
      BY <1>7, <1>8, <3>1 DEF ToSet
  <2>3. QED
    BY <1>8, <2>1, <2>2 DEF ToSet
<1>10. QED
  BY <1>6, <1>9 DEF t

\* Kept keeps the order, and the last item if it is to be kept.
LEMMA KeptLast ==
  ASSUME NEW A, NEW s \in Seq(A), NEW keep, s # <<>>, s[Len(s)] \in keep
  PROVE  Kept(s, keep) # <<>> /\ Kept(s, keep)[Len(Kept(s, keep))] = s[Len(s)]
<1> DEFINE t == Kept(s, keep)
<1>1. t \in Seq(A) /\ KeptOf(t, s, Len(s), keep)
  BY KeptFacts
<1> HIDE DEF t
<1>2. PICK p \in [1 .. Len(t) -> 1 .. Len(s)] :
        /\ \A j \in 1 .. Len(t) : t[j] = s[p[j]]
        /\ \A i, j \in 1 .. Len(t) : i < j => p[i] < p[j]
        /\ \A i \in 1 .. Len(s) : s[i] \in keep => \E j \in 1 .. Len(t) : p[j] = i
  BY <1>1 DEF KeptOf
<1>3. Len(s) \in 1 .. Len(s) /\ Len(t) \in Nat
  BY <1>1
<1>4. PICK j \in 1 .. Len(t) : p[j] = Len(s)
  BY <1>2, <1>3
<1>5. Len(t) \in 1 .. Len(t) /\ p[Len(t)] \in 1 .. Len(s) /\ p[j] \in 1 .. Len(s)
  BY <1>2, <1>3, <1>4
<1>6. ~(j < Len(t))
  <2>1. ASSUME j < Len(t)
        PROVE  FALSE
    <3>1. Len(s) < p[Len(t)]
      BY <1>2, <1>4, <1>5, <2>1
    <3>2. QED
      BY <1>3, <1>5, <3>1
  <2>2. QED
    BY <2>1
<1>7. j = Len(t)
  BY <1>3, <1>4, <1>6
<1>8. t[Len(t)] = s[Len(s)] /\ t # <<>>
  BY <1>2, <1>4, <1>5, <1>7
<1>9. QED
  BY <1>8 DEF t

-----------------------------------------------------------------------------
(***************************************************************************)
(* One alias map, as the set of its entries.                               *)
(***************************************************************************)
Dict == Seq(Alias \X Keys)

\* No alias is in the map twice.
DictOK(m) == \A x, y \in ToSet(m) : x[1] = y[1] => x = y

\* What a sequence has is what it holds at 1 .. its length.
LEMMA ToSetFacts ==
  ASSUME NEW A, NEW s \in Seq(A)
  PROVE  /\ ToSet(s) \subseteq A /\ (s = <<>> <=> ToSet(s) = {})
         /\ \A x : x \in ToSet(s) <=> \E i \in 1 .. Len(s) : s[i] = x
<1>1. DOMAIN s = 1 .. Len(s) /\ Len(s) \in Nat /\ (s = <<>> <=> Len(s) = 0)
  OBVIOUS
<1>2. \A x : x \in ToSet(s) <=> \E i \in 1 .. Len(s) : s[i] = x
  BY <1>1 DEF ToSet
<1>3. ToSet(s) = {} => Len(s) = 0
  <2>1. Len(s) # 0 => s[1] \in ToSet(s)
    BY <1>1, <1>2
  <2>2. QED
    BY <2>1
<1>4. Len(s) = 0 => ToSet(s) = {}
  <2>1. Len(s) = 0 => 1 .. Len(s) = {}
    OBVIOUS
  <2>2. QED
    BY <1>2, <2>1
<1>5. ToSet(s) \subseteq A
  BY <1>1 DEF ToSet
<1>6. QED
  BY <1>1, <1>2, <1>3, <1>4, <1>5

\* A map has an alias if it has an entry for it, and finds the key of that entry.
LEMMA MapFacts ==
  ASSUME NEW m \in Dict, NEW a
  PROVE  /\ Has(m, a) <=> \E x \in ToSet(m) : x[1] = a
         /\ Has(m, a) => <<a, At(m, a)>> \in ToSet(m)
         /\ DictOK(m) => \A x \in ToSet(m) : x[1] = a => x[2] = At(m, a)
<1>1. DOMAIN m = 1 .. Len(m) /\ ToSet(m) \subseteq Alias \X Keys
      /\ \A x : x \in ToSet(m) <=> \E i \in 1 .. Len(m) : m[i] = x
  BY ToSetFacts DEF Dict
<1>2. Has(m, a) <=> \E x \in ToSet(m) : x[1] = a
  BY <1>1 DEF Has
<1>3. ASSUME Has(m, a)
      PROVE  <<a, At(m, a)>> \in ToSet(m)
  <2> DEFINE n == CHOOSE n \in DOMAIN m : m[n][1] = a
  <2>1. n \in DOMAIN m /\ m[n][1] = a
    BY <1>3 DEF Has
  <2>2. At(m, a) = m[n][2]
    BY DEF At
  <2> HIDE DEF n
  <2>3. m[n] \in ToSet(m) /\ m[n] \in Alias \X Keys
    BY <1>1, <2>1
  <2>4. m[n] = <<a, At(m, a)>>
    BY <2>1, <2>2, <2>3
  <2>5. QED
    BY <2>3, <2>4
<1>4. ASSUME DictOK(m), NEW x \in ToSet(m), x[1] = a
      PROVE  x[2] = At(m, a)
  <2>1. <<a, At(m, a)>> \in ToSet(m)
    BY <1>2, <1>3, <1>4
  <2>2. x = <<a, At(m, a)>>
    BY <1>4, <2>1 DEF DictOK
  <2>3. QED
    BY <2>2
<1>5. QED
  BY <1>2, <1>3, <1>4

\* A map without an alias.
LEMMA WithoutFacts ==
  ASSUME NEW m \in Dict, NEW a
  PROVE  /\ Without(m, a) \in Dict
         /\ ToSet(Without(m, a)) = {x \in ToSet(m) : x[1] # a}
<1>1. /\ Without(m, a) \in Dict
      /\ ToSet(Without(m, a)) = ToSet(m) \cap {x \in ToSet(m) : x[1] # a}
  BY KeptFacts DEF Without, Dict
<1>2. QED
  BY <1>1

\* A map with an entry put in: it takes the place of the alias's old one.
LEMMA WithFacts ==
  ASSUME NEW m \in Dict, NEW a \in Alias, NEW k \in Keys
  PROVE  /\ With(m, a, k) \in Dict
         /\ ToSet(With(m, a, k)) = {x \in ToSet(m) : x[1] # a} \cup {<<a, k>>}
<1> DEFINE w == With(m, a, k)
<1>1. /\ DOMAIN m = 1 .. Len(m) /\ Len(m) \in Nat
      /\ \A x : x \in ToSet(m) <=> \E i \in 1 .. Len(m) : m[i] = x
  BY ToSetFacts DEF Dict
<1>2. CASE Has(m, a)
  <2>1. w = [n \in 1 .. Len(m) |-> IF m[n][1] = a THEN <<a, k>> ELSE m[n]]
    BY <1>1, <1>2 DEF With
  <2>2. \A n \in 1 .. Len(m) : m[n] \in Alias \X Keys
    BY DEF Dict
  <2>3. w \in Dict /\ Len(w) = Len(m)
        /\ \A n \in 1 .. Len(m) : w[n] = IF m[n][1] = a THEN <<a, k>> ELSE m[n]
    BY <1>1, <2>1, <2>2 DEF Dict
  <2> HIDE DEF w
  <2>4. \A x : x \in ToSet(w) <=> \E i \in 1 .. Len(m) : w[i] = x
    BY <2>3, ToSetFacts DEF Dict
  <2>5. \E n \in 1 .. Len(m) : m[n][1] = a
    BY <1>1, <1>2 DEF Has
  <2>6. ToSet(w) = {x \in ToSet(m) : x[1] # a} \cup {<<a, k>>}
    BY <1>1, <2>3, <2>4, <2>5
  <2>7. QED
    BY <2>3, <2>6 DEF w
<1>3. CASE ~Has(m, a)
  <2>1. w = Append(m, <<a, k>>)
    BY <1>3 DEF With
  <2>2. /\ w \in Dict /\ Len(w) = Len(m) + 1 /\ w[Len(m) + 1] = <<a, k>>
        /\ \A n \in 1 .. Len(m) : w[n] = m[n]
    BY <2>1 DEF Dict
  <2> HIDE DEF w
  <2>3. \A n : n \in 1 .. Len(m) + 1 <=> n \in 1 .. Len(m) \/ n = Len(m) + 1
    BY <1>1
  <2>4. \A x : x \in ToSet(w) <=> \E i \in 1 .. Len(m) + 1 : w[i] = x
    BY <2>2, ToSetFacts DEF Dict
  <2>5. \A x : x \in ToSet(w) <=> x \in ToSet(m) \/ x = <<a, k>>
    BY <1>1, <2>2, <2>3, <2>4
  <2>6. \A x \in ToSet(m) : x[1] # a
    BY <1>3, MapFacts
  <2>7. ToSet(w) = {x \in ToSet(m) : x[1] # a} \cup {<<a, k>>}
    BY <2>5, <2>6
  <2>8. QED
    BY <2>2, <2>7 DEF w
<1>4. QED
  BY <1>2, <1>3

-----------------------------------------------------------------------------
(***************************************************************************)
(* The keys of one alias, sorted.                                          *)
(***************************************************************************)
before == [p \in Keys \X Keys |-> Before(p[1], p[2])]

\* The comparison in other words.
LEMMA BeforeFacts ==
  ASSUME NEW j \in Keys, NEW k \in Keys
  PROVE  before[<<j, k>>] <=> Before(j, k)
<1>1. <<j, k>> \in Keys \X Keys /\ <<j, k>>[1] = j /\ <<j, k>>[2] = k
  OBVIOUS
<1>2. before[<<j, k>>] = Before(<<j, k>>[1], <<j, k>>[2])
  BY <1>1, Zenon DEF before
<1>3. QED
  BY <1>1, <1>2, Zenon

\* It orders keys: by their creation times, and private halves before public ones.
LEMMA BeforeOrders == WeakOrder(before, Keys)
<1>0. \A k \in Keys : Created[k] \in Nat
  BY KeyringAssumption
<1>1. ASSUME NEW x \in Keys, NEW y \in Keys
      PROVE  before[<<x, y>>] => ~before[<<y, x>>]
  <2>1. Before(x, y) => ~Before(y, x)
    BY <1>0 DEF Before
  <2>2. QED
    BY <2>1, BeforeFacts, Zenon
<1>2. ASSUME NEW x \in Keys, NEW y \in Keys, NEW z \in Keys
      PROVE  ~before[<<x, y>>] /\ ~before[<<y, z>>] => ~before[<<x, z>>]
  <2>1. ~Before(x, y) /\ ~Before(y, z) => ~Before(x, z)
    BY <1>0 DEF Before
  <2>2. QED
    BY <2>1, BeforeFacts, Zenon
<1>3. QED
  BY <1>1, <1>2 DEF WeakOrder

\* There is a sequence of the keys in that order, which is what the sort gives.
LEMMA SortedFacts ==
  ASSUME NEW S \in SUBSET Keys, IsFiniteSet(S)
  PROVE  /\ Sorted(S) \in Seq(S) /\ Len(Sorted(S)) = Cardinality(S)
         /\ ToSet(Sorted(S)) = S /\ IsInjective(Sorted(S))
         /\ \A i, j \in 1 .. Len(Sorted(S)) :
              i < j => ~Before(Sorted(S)[j], Sorted(S)[i])
<1> DEFINE n == Cardinality(S)
           InRank(q) == \A i, j \in DOMAIN q : i < j => ~Before(q[j], q[i])
           q == Sorted(S)
           t == InsortAll(SetToSeq(S), before)
<1>1. n \in Nat
  BY FS_CardinalityType
<1>2. t \in Seq(S) /\ Len(t) = n /\ IsInjective(t) /\ InOrder(t, before)
  <2>1. SetToSeq(S) \in Seq(S) /\ IsInjective(SetToSeq(S)) /\ Len(SetToSeq(S)) = n
    BY SetToSeqFacts
  <2>2. WeakOrder(before, S)
    BY BeforeOrders DEF WeakOrder
  <2> HIDE DEF n
  <2>3. QED
    BY <2>1, <2>2, InsortAllFacts
<1> HIDE DEF t
<1>3. InRank(t)
  <2>1. ASSUME NEW i \in DOMAIN t, NEW j \in DOMAIN t, i < j
        PROVE  ~Before(t[j], t[i])
    <3>1. ~before[<<t[j], t[i]>>]
      BY <1>2, <2>1, Zenon DEF InOrder
    <3>2. t[i] \in Keys /\ t[j] \in Keys
      BY <1>2
    <3>3. QED
      BY <3>1, <3>2, BeforeFacts, Zenon
  <2>2. QED
    BY <2>1
<1>4. t \in [1 .. n -> S]
  BY <1>2
<1>5. q \in [1 .. n -> S] /\ IsInjective(q) /\ InRank(q)
  <2>1. q = CHOOSE f \in [1 .. n -> S] : IsInjective(f) /\ InRank(f)
    BY Zenon DEF Sorted
  <2> HIDE DEF q, InRank
  <2>2. QED
    BY <1>2, <1>3, <1>4, <2>1, Zenon
<1> HIDE DEF q
<1>6. DOMAIN q = 1 .. n /\ q \in Seq(S) /\ Len(q) = n
  BY <1>1, <1>5
<1>7. \A x \in S : \E i \in 1 .. n : q[i] = x
  <2>1. q \in Injection(1 .. n, S)
    BY <1>5 DEF Injection
  <2>2. Cardinality(1 .. n) = Cardinality(S)
    <3>1. Cardinality(1 .. n) = IF 1 > n THEN 0 ELSE n - 1 + 1
      BY <1>1, FS_Interval
    <3>2. QED
      BY <1>1, <3>1
  <2>3. q \in Surjection(1 .. n, S)
    BY <2>1, <2>2, FS_Injection
  <2>4. QED
    BY <2>3 DEF Surjection
<1>8. ToSet(q) = S
  BY <1>5, <1>6, <1>7 DEF ToSet
<1>9. QED
  BY <1>5, <1>6, <1>8 DEF q

-----------------------------------------------------------------------------
(***************************************************************************)
(* The maps, as the set of their entries.                                  *)
(***************************************************************************)
\* Two entries, from a map and one further right: not the same alias and key, and the
\* keys of one alias in their order.
Ranked(x, y) == x[1] = y[1] => x[2] # y[2] /\ ~Before(y[2], x[2])

\* The maps are in order, but perhaps for the alias a.
OrderedBut(ms, a) ==
  \A i, j \in 1 .. Len(ms) : i < j =>
    \A x \in ToSet(ms[i]), y \in ToSet(ms[j]) : x[1] # a => Ranked(x, y)

Ordered(ms) ==
  \A i, j \in 1 .. Len(ms) : i < j => \A x \in ToSet(ms[i]), y \in ToSet(ms[j]) : Ranked(x, y)

DictsOK(ms) == \A i \in 1 .. Len(ms) : DictOK(ms[i])

\* An entry is in one of the maps.
LEMMA EntriesFacts ==
  ASSUME NEW ms \in Seq(Dict)
  PROVE  /\ \A x : x \in Entries(ms) <=> \E i \in 1 .. Len(ms) : x \in ToSet(ms[i])
         /\ Entries(ms) \subseteq Alias \X Keys
<1>1. DOMAIN ms = 1 .. Len(ms)
  OBVIOUS
<1>2. \A x : x \in Entries(ms) <=> \E i \in 1 .. Len(ms) : x \in ToSet(ms[i])
  BY <1>1 DEF Entries
<1>3. \A i \in 1 .. Len(ms) : ms[i] \in Dict
  OBVIOUS
<1>4. \A i \in 1 .. Len(ms) : ToSet(ms[i]) \subseteq Alias \X Keys
  BY <1>3, ToSetFacts DEF Dict
<1>5. QED
  BY <1>2, <1>4

\* The keys found under an alias: no more than there are maps.
LEMMA KeysOfFacts ==
  ASSUME NEW ms \in Seq(Dict), NEW a
  PROVE  /\ KeysOf(ms, a) \subseteq Keys /\ IsFiniteSet(KeysOf(ms, a))
         /\ Cardinality(KeysOf(ms, a)) <= Len(ms)
         /\ \A k \in KeysOf(ms, a) : <<a, k>> \in Entries(ms)
         /\ DictsOK(ms) => \A x \in Entries(ms) : x[1] = a => x[2] \in KeysOf(ms, a)
         /\ Holding(ms, a) = {} <=> \A x \in Entries(ms) : x[1] # a
         /\ Cardinality(Holding(ms, a)) \in 0 .. Len(ms)
<1> DEFINE H == Holding(ms, a)
           f == [i \in H |-> At(ms[i], a)]
           S == KeysOf(ms, a)
<1>1. DOMAIN ms = 1 .. Len(ms) /\ Len(ms) \in Nat /\ \A i \in 1 .. Len(ms) : ms[i] \in Dict
  OBVIOUS
<1>2. H \in SUBSET (1 .. Len(ms)) /\ \A i \in 1 .. Len(ms) : i \in H <=> Has(ms[i], a)
  BY <1>1 DEF Holding
<1>3. S = {At(ms[i], a) : i \in H}
  BY DEF KeysOf
<1> HIDE DEF H
<1>4. f \in Surjection(H, S)
  BY <1>3 DEF Surjection
<1>5. IsFiniteSet(H) /\ Cardinality(H) <= Len(ms) /\ Cardinality(H) \in 0 .. Len(ms)
  <2>1. IsFiniteSet(1 .. Len(ms)) /\ Cardinality(1 .. Len(ms)) = IF 1 > Len(ms) THEN 0 ELSE Len(ms) - 1 + 1
    BY <1>1, FS_Interval
  <2>2. IsFiniteSet(H) /\ Cardinality(H) <= Cardinality(1 .. Len(ms))
    BY <1>2, <2>1, FS_Subset
  <2>3. Cardinality(H) \in Nat
    BY <2>2, FS_CardinalityType
  <2>4. Cardinality(1 .. Len(ms)) = Len(ms)
    BY <1>1, <2>1
  <2>5. QED
    BY <1>1, <2>2, <2>3, <2>4
<1>6. IsFiniteSet(S) /\ Cardinality(S) <= Len(ms)
  <2> HIDE DEF f, S
  <2>1. IsFiniteSet(S) /\ Cardinality(S) <= Cardinality(H)
    BY <1>4, <1>5, FS_Surjection
  <2>2. Cardinality(S) \in Nat /\ Cardinality(H) \in Nat
    BY <1>5, <2>1, FS_CardinalityType
  <2>3. QED
    BY <1>1, <1>5, <2>1, <2>2
<1>7. ASSUME NEW i \in H
      PROVE  <<a, At(ms[i], a)>> \in Entries(ms)
  <2>1. i \in 1 .. Len(ms) /\ ms[i] \in Dict /\ Has(ms[i], a)
    BY <1>1, <1>2
  <2>2. <<a, At(ms[i], a)>> \in ToSet(ms[i])
    BY <2>1, MapFacts
  <2>3. QED
    BY <2>1, <2>2, EntriesFacts
<1>8. \A k \in S : <<a, k>> \in Entries(ms)
  BY <1>3, <1>7
<1>9. S \subseteq Keys
  BY <1>8, EntriesFacts
<1>10. ASSUME NEW x \in Entries(ms), x[1] = a
       PROVE  H # {} /\ (DictsOK(ms) => x[2] \in S)
  <2>1. PICK i \in 1 .. Len(ms) : x \in ToSet(ms[i])
    BY EntriesFacts
  <2>2. Has(ms[i], a) /\ (DictOK(ms[i]) => x[2] = At(ms[i], a))
    BY <1>1, <1>10, <2>1, MapFacts
  <2>3. QED
    BY <1>2, <1>3, <2>2 DEF DictsOK
<1>11. H = {} <=> \A x \in Entries(ms) : x[1] # a
  BY <1>7, <1>10
<1>12. QED
  BY <1>5, <1>6, <1>8, <1>9, <1>10, <1>11 DEF H

\* The maps of _sort_alias before the empty ones go.
Placed(ms, a) ==
  LET ids == Sorted(KeysOf(ms, a))
  IN  [i \in DOMAIN ms |-> IF i <= Len(ids) THEN With(Without(ms[i], a), a, ids[i])
                                            ELSE Without(ms[i], a)]

\* What each map then holds.
PlacedAt(ms, a, ids, i) ==
  {x \in ToSet(ms[i]) : x[1] # a} \cup (IF i <= Len(ids) THEN {<<a, ids[i]>>} ELSE {})

\* The sorted keys are in the leftmost maps, and the other entries where they were.
LEMMA PlacedFacts ==
  ASSUME NEW ms \in Seq(Dict), NEW a \in Alias
  PROVE  LET ids == Sorted(KeysOf(ms, a))
             p == Placed(ms, a)
         IN  /\ p \in Seq(Dict) /\ Len(p) = Len(ms)
             /\ ids \in Seq(Keys) /\ Len(ids) <= Len(ms) /\ ToSet(ids) = KeysOf(ms, a)
             /\ IsInjective(ids)
             /\ \A i, j \in 1 .. Len(ids) : i < j => ~Before(ids[j], ids[i])
             /\ \A i \in 1 .. Len(ms) : ToSet(p[i]) = PlacedAt(ms, a, ids, i)
<1> DEFINE ids == Sorted(KeysOf(ms, a))
           p == Placed(ms, a)
<1>1. /\ ids \in Seq(Keys) /\ Len(ids) <= Len(ms) /\ ToSet(ids) = KeysOf(ms, a)
      /\ IsInjective(ids)
      /\ \A i, j \in 1 .. Len(ids) : i < j => ~Before(ids[j], ids[i])
  <2>1. KeysOf(ms, a) \in SUBSET Keys /\ IsFiniteSet(KeysOf(ms, a)) /\ Cardinality(KeysOf(ms, a)) <= Len(ms)
    BY KeysOfFacts
  <2>2. ids \in Seq(KeysOf(ms, a))
    BY <2>1, SortedFacts
  <2>3. ids \in Seq(Keys)
    BY <2>1, <2>2
  <2>4. QED
    BY <2>1, <2>3, SortedFacts
<1>2. p = [i \in DOMAIN ms |-> IF i <= Len(ids) THEN With(Without(ms[i], a), a, ids[i])
                                                ELSE Without(ms[i], a)]
  BY DEF Placed
<1> HIDE DEF ids, p
<1>3. DOMAIN ms = 1 .. Len(ms) /\ Len(ms) \in Nat /\ Len(ids) \in Nat
  BY <1>1
<1>4. ASSUME NEW i \in 1 .. Len(ms)
      PROVE  p[i] \in Dict /\ ToSet(p[i]) = PlacedAt(ms, a, ids, i)
  <2>1. ms[i] \in Dict
    OBVIOUS
  <2>2. Without(ms[i], a) \in Dict /\ ToSet(Without(ms[i], a)) = {x \in ToSet(ms[i]) : x[1] # a}
    BY <2>1, WithoutFacts
  <2>3. CASE i <= Len(ids)
    <3>1. ids[i] \in Keys
      BY <1>1, <1>3, <2>3
    <3>2. p[i] = With(Without(ms[i], a), a, ids[i])
      BY <1>2, <1>3, <2>3
    <3> DEFINE w == Without(ms[i], a)
    <3> HIDE DEF w
    <3>3. With(w, a, ids[i]) \in Dict /\ ToSet(With(w, a, ids[i])) = {x \in ToSet(w) : x[1] # a} \cup {<<a, ids[i]>>}
      BY <2>2, <3>1, WithFacts DEF w
    <3>4. {x \in ToSet(w) : x[1] # a} = {x \in ToSet(ms[i]) : x[1] # a}
      BY <2>2 DEF w
    <3>5. QED
      BY <2>3, <3>2, <3>3, <3>4 DEF w, PlacedAt
  <2>4. CASE ~(i <= Len(ids))
    <3>1. p[i] = Without(ms[i], a)
      BY <1>2, <1>3, <2>4
    <3>2. QED
      BY <2>2, <2>4, <3>1 DEF PlacedAt
  <2>5. QED
    BY <2>3, <2>4
<1>5. p \in Seq(Dict) /\ Len(p) = Len(ms)
  <2>1. DOMAIN p = 1 .. Len(ms)
    BY <1>2, <1>3
  <2>2. p \in [1 .. Len(ms) -> Dict]
    <3>1. p = [i \in 1 .. Len(ms) |-> p[i]]
      BY <1>2, <1>3
    <3>2. QED
      BY <1>4, <3>1
  <2>3. QED
    BY <1>3, <2>2
<1>6. QED
  BY <1>1, <1>4, <1>5 DEF ids, p

\* Placing the keys of an alias changes no entry, and puts them in order.
LEMMA PlacedKeeps ==
  ASSUME NEW ms \in Seq(Dict), NEW a \in Alias, DictsOK(ms), OrderedBut(ms, a)
  PROVE  /\ DictsOK(Placed(ms, a)) /\ Ordered(Placed(ms, a))
         /\ Entries(Placed(ms, a)) = Entries(ms)
<1> DEFINE ids == Sorted(KeysOf(ms, a))
           p == Placed(ms, a)
<1>1. /\ p \in Seq(Dict) /\ Len(p) = Len(ms)
      /\ ids \in Seq(Keys) /\ Len(ids) <= Len(ms) /\ ToSet(ids) = KeysOf(ms, a)
      /\ IsInjective(ids)
      /\ \A i, j \in 1 .. Len(ids) : i < j => ~Before(ids[j], ids[i])
      /\ \A i \in 1 .. Len(ms) : ToSet(p[i]) = PlacedAt(ms, a, ids, i)
  BY PlacedFacts
<1> HIDE DEF ids, p
<1>2. DOMAIN ids = 1 .. Len(ids) /\ Len(ids) \in Nat /\ Len(ms) \in Nat
      /\ \A k : k \in KeysOf(ms, a) <=> \E i \in 1 .. Len(ids) : ids[i] = k
  BY <1>1, ToSetFacts
<1>3. \A i \in 1 .. Len(ms) : \A x \in ToSet(p[i]) :
        \/ x \in ToSet(ms[i]) /\ x[1] # a
        \/ i \in 1 .. Len(ids) /\ x = <<a, ids[i]>>
  BY <1>1, <1>2 DEF PlacedAt
<1>4. DictsOK(p)
  <2>1. ASSUME NEW i \in 1 .. Len(ms), NEW x \in ToSet(p[i]), NEW y \in ToSet(p[i]), x[1] = y[1]
        PROVE  x = y
    <3>1. CASE x[1] = a
      BY <1>3, <2>1, <3>1
    <3>2. CASE x[1] # a
      <4>1. x \in ToSet(ms[i]) /\ y \in ToSet(ms[i])
        <5>1. <<a, ids[i]>>[1] = a
          OBVIOUS
        <5>2. QED
          BY <1>3, <2>1, <3>2, <5>1
      <4>2. QED
        BY <2>1, <4>1 DEF DictsOK, DictOK
    <3>3. QED
      BY <3>1, <3>2
  <2>2. QED
    BY <1>1, <2>1 DEF DictsOK, DictOK
<1>5. Ordered(p)
  <2>1. ASSUME NEW i \in 1 .. Len(ms), NEW j \in 1 .. Len(ms), i < j,
               NEW x \in ToSet(p[i]), NEW y \in ToSet(p[j]), x[1] = y[1]
        PROVE  x[2] # y[2] /\ ~Before(y[2], x[2])
    <3>1. CASE x[1] = a
      <4>1. i \in 1 .. Len(ids) /\ x = <<a, ids[i]>> /\ j \in 1 .. Len(ids) /\ y = <<a, ids[j]>>
        BY <1>3, <2>1, <3>1
      <4>2. ids[i] # ids[j]
        <5>1. i # j
          BY <2>1
        <5>2. QED
          BY <1>1, <1>2, <4>1, <5>1 DEF IsInjective
      <4>3. ~Before(ids[j], ids[i])
        BY <1>1, <2>1, <4>1
      <4>4. x[2] = ids[i] /\ y[2] = ids[j]
        BY <4>1
      <4>5. QED
        BY <4>2, <4>3, <4>4, Zenon
    <3>2. CASE x[1] # a
      <4>1. x \in ToSet(ms[i]) /\ y \in ToSet(ms[j])
        <5>1. <<a, ids[i]>>[1] = a /\ <<a, ids[j]>>[1] = a
          OBVIOUS
        <5>2. QED
          BY <1>3, <2>1, <3>2, <5>1
      <4>2. Ranked(x, y)
        BY <2>1, <3>2, <4>1 DEF OrderedBut
      <4>3. QED
        BY <2>1, <4>2, Zenon DEF Ranked
    <3>3. QED
      BY <3>1, <3>2
  <2>2. QED
    BY <1>1, <2>1, Zenon DEF Ordered, Ranked
<1>6. Entries(p) = Entries(ms)
  <2>1. ASSUME NEW x \in Entries(p)
        PROVE  x \in Entries(ms)
    <3>1. PICK i \in 1 .. Len(ms) : x \in ToSet(p[i])
      BY <1>1, EntriesFacts
    <3>2. CASE x \in ToSet(ms[i])
      BY <3>2, EntriesFacts
    <3>3. CASE i \in 1 .. Len(ids) /\ x = <<a, ids[i]>>
      <4>1. ids[i] \in KeysOf(ms, a)
        BY <1>2, <3>3
      <4>2. QED
        BY <3>3, <4>1, KeysOfFacts
    <3>4. QED
      BY <1>3, <3>1, <3>2, <3>3
  <2>2. ASSUME NEW x \in Entries(ms)
        PROVE  x \in Entries(p)
    <3>0. x \in Alias \X Keys
      BY EntriesFacts
    <3>1. CASE x[1] = a
      <4>1. x[2] \in KeysOf(ms, a)
        BY <3>1, KeysOfFacts
      <4>2. PICK i \in 1 .. Len(ids) : ids[i] = x[2]
        BY <1>2, <4>1
      <4>3. i \in 1 .. Len(ms) /\ x = <<a, ids[i]>> /\ i <= Len(ids)
        BY <1>1, <1>2, <3>0, <3>1, <4>2
      <4>4. x \in ToSet(p[i])
        BY <1>1, <4>3 DEF PlacedAt
      <4>5. QED
        BY <1>1, <4>3, <4>4, EntriesFacts
    <3>2. CASE x[1] # a
      <4>1. PICK i \in 1 .. Len(ms) : x \in ToSet(ms[i])
        BY EntriesFacts
      <4>2. x \in ToSet(p[i])
        BY <1>1, <3>2, <4>1 DEF PlacedAt
      <4>3. QED
        BY <1>1, <4>1, <4>2, EntriesFacts
    <3>3. QED
      BY <3>1, <3>2
  <2>3. QED
    BY <2>1, <2>2
<1>7. QED
  BY <1>4, <1>5, <1>6 DEF p

\* Dropping the empty maps changes no entry and no order; a last map that is not empty
\* stays the last.
LEMMA NonEmptyFacts ==
  ASSUME NEW ms \in Seq(Dict)
  PROVE  /\ NonEmpty(ms) \in Seq(Dict)
         /\ Entries(NonEmpty(ms)) = Entries(ms)
         /\ Entries(ms) # {} => NonEmpty(ms) # <<>>
         /\ DictsOK(ms) => DictsOK(NonEmpty(ms))
         /\ Ordered(ms) => Ordered(NonEmpty(ms))
         /\ ms # <<>> /\ ToSet(ms[Len(ms)]) # {} =>
              NonEmpty(ms)[Len(NonEmpty(ms))] = ms[Len(ms)]
<1> DEFINE keep == ToSet(ms) \ {EmptyMap}
           t == NonEmpty(ms)
<1>1. t \in Seq(Dict) /\ KeptOf(t, ms, Len(ms), keep) /\ ToSet(t) = ToSet(ms) \cap keep
  BY KeptFacts DEF NonEmpty
<1>2. \A m \in Dict : m = EmptyMap <=> ToSet(m) = {}
  BY ToSetFacts DEF Dict, EmptyMap
<1>3. ms # <<>> /\ ToSet(ms[Len(ms)]) # {} => t[Len(t)] = ms[Len(ms)]
  <2>1. ASSUME ms # <<>>, ToSet(ms[Len(ms)]) # {}
        PROVE  ms[Len(ms)] \in keep
    <3>1. Len(ms) \in 1 .. Len(ms) /\ ms[Len(ms)] \in Dict
      BY <2>1
    <3>2. ms[Len(ms)] \in ToSet(ms)
      BY <3>1, ToSetFacts
    <3>3. ms[Len(ms)] # EmptyMap
      BY <1>2, <2>1, <3>1
    <3>4. QED
      BY <3>2, <3>3
  <2> HIDE DEF keep
  <2>2. ASSUME ms # <<>>, ms[Len(ms)] \in keep
        PROVE  t[Len(t)] = ms[Len(ms)]
    BY <2>2, KeptLast DEF NonEmpty, keep
  <2>3. QED
    BY <2>1, <2>2
<1> HIDE DEF t
<1>4. PICK p \in [1 .. Len(t) -> 1 .. Len(ms)] :
        /\ \A j \in 1 .. Len(t) : t[j] = ms[p[j]]
        /\ \A i, j \in 1 .. Len(t) : i < j => p[i] < p[j]
        /\ \A i \in 1 .. Len(ms) : ms[i] \in keep => \E j \in 1 .. Len(t) : p[j] = i
  BY <1>1 DEF KeptOf
<1>5. \A i \in 1 .. Len(ms) : ToSet(ms[i]) # {} => ms[i] \in keep
  <2>1. \A i \in 1 .. Len(ms) : ms[i] \in Dict /\ ms[i] \in ToSet(ms)
    BY ToSetFacts
  <2>2. QED
    BY <1>2, <2>1
<1> HIDE DEF keep
<1>6. \A j \in 1 .. Len(t) : p[j] \in 1 .. Len(ms) /\ t[j] = ms[p[j]]
  BY <1>4
<1>7. Entries(t) = Entries(ms)
  <2>1. ASSUME NEW x \in Entries(t)
        PROVE  x \in Entries(ms)
    <3>1. PICK j \in 1 .. Len(t) : x \in ToSet(t[j])
      BY <1>1, EntriesFacts
    <3>2. QED
      BY <1>6, <3>1, EntriesFacts
  <2>2. ASSUME NEW x \in Entries(ms)
        PROVE  x \in Entries(t)
    <3>1. PICK i \in 1 .. Len(ms) : x \in ToSet(ms[i])
      BY EntriesFacts
    <3>2. PICK j \in 1 .. Len(t) : p[j] = i
      BY <1>4, <1>5, <3>1
    <3>3. x \in ToSet(t[j])
      BY <1>6, <3>1, <3>2
    <3>4. QED
      BY <1>1, <3>2, <3>3, EntriesFacts
  <2>3. QED
    BY <2>1, <2>2
<1>8. Entries(ms) # {} => t # <<>>
  <2>1. Entries(t) # {} => Len(t) # 0
    <3>1. Len(t) = 0 => 1 .. Len(t) = {}
      OBVIOUS
    <3>2. QED
      BY <1>1, <3>1, EntriesFacts
  <2>2. t = <<>> => Len(t) = 0
    OBVIOUS
  <2>3. QED
    BY <1>7, <2>1, <2>2
<1>9. DictsOK(ms) => DictsOK(t)
  BY <1>6 DEF DictsOK
<1>10. Ordered(ms) => Ordered(t)
  <2>1. ASSUME Ordered(ms), NEW i \in 1 .. Len(t), NEW j \in 1 .. Len(t), i < j,
               NEW x \in ToSet(t[i]), NEW y \in ToSet(t[j])
        PROVE  Ranked(x, y)
    <3>1. p[i] < p[j] /\ p[i] \in 1 .. Len(ms) /\ p[j] \in 1 .. Len(ms)
      BY <1>4, <1>6, <2>1
    <3>2. x \in ToSet(ms[p[i]]) /\ y \in ToSet(ms[p[j]])
      BY <1>6, <2>1
    <3>3. QED
      BY <2>1, <3>1, <3>2, Zenon DEF Ordered
  <2>2. QED
    BY <2>1, Zenon DEF Ordered
<1>11. QED
  BY <1>1, <1>3, <1>7, <1>8, <1>9, <1>10 DEF t

\* Sorting an alias changes no entry and leaves the maps in order.
LEMMA SortAliasKeeps ==
  ASSUME NEW ms \in Seq(Dict), NEW a \in Alias, DictsOK(ms), OrderedBut(ms, a),
         Entries(ms) # {}
  PROVE  LET t == SortAlias(ms, a)
         IN  /\ t \in Seq(Dict) /\ t # <<>> /\ DictsOK(t) /\ Ordered(t)
             /\ Entries(t) = Entries(ms)
             /\ \A x \in ToSet(ms[Len(ms)]) : x[1] # a => x \in ToSet(t[Len(t)])
<1> DEFINE p == Placed(ms, a)
           t == SortAlias(ms, a)
<1>1. t = NonEmpty(p)
  BY Zenon DEF SortAlias, Placed
<1>2. /\ p \in Seq(Dict) /\ Len(p) = Len(ms)
      /\ \A i \in 1 .. Len(ms) : ToSet(p[i]) = PlacedAt(ms, a, Sorted(KeysOf(ms, a)), i)
  BY PlacedFacts
<1>3. DictsOK(p) /\ Ordered(p) /\ Entries(p) = Entries(ms)
  BY PlacedKeeps
<1> HIDE DEF p, t
<1>4. t \in Seq(Dict) /\ t # <<>> /\ DictsOK(t) /\ Ordered(t) /\ Entries(t) = Entries(ms)
  BY <1>1, <1>2, <1>3, NonEmptyFacts
<1>5. ASSUME NEW x \in ToSet(ms[Len(ms)]), x[1] # a
      PROVE  x \in ToSet(t[Len(t)])
  <2>1. Len(ms) \in 1 .. Len(ms) /\ p # <<>>
    <3>1. \E i \in 1 .. Len(ms) : TRUE
      BY EntriesFacts
    <3>2. QED
      BY <1>2, <3>1
  <2>2. x \in ToSet(p[Len(p)])
    BY <1>2, <1>5, <2>1 DEF PlacedAt
  <2>3. t[Len(t)] = p[Len(p)]
    BY <1>1, <1>2, <2>1, <2>2, NonEmptyFacts
  <2>4. QED
    BY <2>2, <2>3
<1>6. QED
  BY <1>4, <1>5 DEF t

Put(ms, d, a, k) == [ms EXCEPT ![d] = With(@, a, k)]

\* Putting an entry into the map d takes away no entry but one of the same alias there.
LEMMA PutFacts ==
  ASSUME NEW ms \in Seq(Dict), NEW d \in 1 .. Len(ms), NEW a \in Alias, NEW k \in Keys,
         DictsOK(ms), Ordered(ms)
  PROVE  LET t == Put(ms, d, a, k)
         IN  /\ t \in Seq(Dict) /\ Len(t) = Len(ms) /\ DictsOK(t) /\ OrderedBut(t, a)
             /\ \A i \in 1 .. Len(ms) : i # d => t[i] = ms[i]
             /\ ToSet(t[d]) = {x \in ToSet(ms[d]) : x[1] # a} \cup {<<a, k>>}
<1> DEFINE t == Put(ms, d, a, k)
<1>1. ms[d] \in Dict /\ DOMAIN ms = 1 .. Len(ms)
  OBVIOUS
<1>2. /\ With(ms[d], a, k) \in Dict
      /\ ToSet(With(ms[d], a, k)) = {x \in ToSet(ms[d]) : x[1] # a} \cup {<<a, k>>}
  BY <1>1, WithFacts
<1> DEFINE w == With(ms[d], a, k)
<1>3. t = [ms EXCEPT ![d] = w]
  BY DEF Put
<1> HIDE DEF t, w
<1>4. /\ t \in Seq(Dict) /\ Len(t) = Len(ms)
      /\ \A i \in 1 .. Len(ms) : i # d => t[i] = ms[i]
  BY <1>2, <1>3 DEF w
<1>5. t[d] = w
  BY <1>1, <1>3
<1>6. ToSet(t[d]) = {x \in ToSet(ms[d]) : x[1] # a} \cup {<<a, k>>}
  BY <1>2, <1>5 DEF w
<1>7. DictsOK(t)
  <2>1. DictOK(t[d])
    BY <1>6 DEF DictsOK, DictOK
  <2>2. \A i \in 1 .. Len(ms) : i # d => DictOK(t[i])
    BY <1>4 DEF DictsOK
  <2>3. QED
    BY <1>4, <2>1, <2>2 DEF DictsOK
<1>8. OrderedBut(t, a)
  <2>1. \A i \in 1 .. Len(ms) : \A x \in ToSet(t[i]) : x[1] # a => x \in ToSet(ms[i])
    BY <1>4, <1>6
  <2>2. ASSUME NEW i \in 1 .. Len(t), NEW j \in 1 .. Len(t), i < j,
               NEW x \in ToSet(t[i]), NEW y \in ToSet(t[j]), x[1] # a
        PROVE  Ranked(x, y)
    <3>1. x \in ToSet(ms[i])
      BY <1>4, <2>1, <2>2
    <3>2. CASE y[1] = a
      BY <2>2, <3>2, Zenon DEF Ranked
    <3>3. CASE y[1] # a
      <4>1. y \in ToSet(ms[j])
        BY <1>4, <2>1, <3>3
      <4>2. QED
        BY <1>4, <2>2, <3>1, <4>1 DEF Ordered
    <3>4. QED
      BY <3>2, <3>3
  <2>3. QED
    BY <2>2, Zenon DEF OrderedBut
<1>9. QED
  BY <1>4, <1>6, <1>7, <1>8 DEF t

\* What that does to the entries.
LEMMA PutEntries ==
  ASSUME NEW ms \in Seq(Dict), NEW d \in 1 .. Len(ms), NEW a \in Alias, NEW k \in Keys,
         DictsOK(ms), Ordered(ms)
  PROVE  LET t == Put(ms, d, a, k)
         IN  /\ Entries(t) \subseteq Entries(ms) \cup {<<a, k>>} /\ <<a, k>> \in Entries(t)
             /\ \A x \in Entries(ms) : x[1] # a \/ ~Has(ms[d], a) => x \in Entries(t)
<1> DEFINE t == Put(ms, d, a, k)
<1>1. /\ t \in Seq(Dict) /\ Len(t) = Len(ms)
      /\ \A i \in 1 .. Len(ms) : i # d => t[i] = ms[i]
      /\ ToSet(t[d]) = {x \in ToSet(ms[d]) : x[1] # a} \cup {<<a, k>>}
  BY PutFacts
<1> HIDE DEF t
<1>2. ASSUME NEW x \in Entries(t)
      PROVE  x \in Entries(ms) \cup {<<a, k>>}
  <2>1. PICK i \in 1 .. Len(ms) : x \in ToSet(t[i])
    BY <1>1, EntriesFacts
  <2>2. x \in ToSet(ms[i]) \/ x = <<a, k>>
    BY <1>1, <2>1
  <2>3. QED
    BY <2>2, EntriesFacts
<1>3. <<a, k>> \in Entries(t)
  BY <1>1, EntriesFacts
<1>4. ASSUME NEW x \in Entries(ms), x[1] # a \/ ~Has(ms[d], a)
      PROVE  x \in Entries(t)
  <2>1. PICK i \in 1 .. Len(ms) : x \in ToSet(ms[i])
    BY EntriesFacts
  <2>2. i = d => x[1] # a
    <3>1. ms[d] \in Dict
      OBVIOUS
    <3>2. Has(ms[d], a) <=> \E y \in ToSet(ms[d]) : y[1] = a
      BY <3>1, MapFacts
    <3>3. QED
      BY <1>4, <2>1, <3>2
  <2>3. x \in ToSet(t[i])
    BY <1>1, <2>1, <2>2
  <2>4. QED
    BY <1>1, <2>3, EntriesFacts
<1>5. QED
  BY <1>2, <1>3, <1>4 DEF t

\* An empty map on the left changes nothing.
LEMMA GrownFacts ==
  ASSUME NEW ms \in Seq(Dict), DictsOK(ms), Ordered(ms)
  PROVE  LET t == <<EmptyMap>> \o ms
         IN  /\ t \in Seq(Dict) /\ Len(t) = Len(ms) + 1 /\ DictsOK(t) /\ Ordered(t)
             /\ Entries(t) = Entries(ms) /\ t[1] = EmptyMap
             /\ \A i \in 1 .. Len(ms) : t[i + 1] = ms[i]
<1> DEFINE t == <<EmptyMap>> \o ms
<1>1. EmptyMap \in Dict /\ ToSet(EmptyMap) = {}
  <2>1. EmptyMap \in Dict /\ EmptyMap = <<>>
    BY DEF EmptyMap, Dict
  <2>2. QED
    BY <2>1, ToSetFacts DEF Dict
<1>2. /\ t \in Seq(Dict) /\ Len(t) = Len(ms) + 1 /\ t[1] = EmptyMap /\ Len(ms) \in Nat
      /\ \A i \in 1 .. Len(ms) : t[i + 1] = ms[i]
  BY <1>1
<1> HIDE DEF t
<1>3. ASSUME NEW i \in 1 .. Len(t)
      PROVE  \/ i = 1 /\ ToSet(t[i]) = {}
             \/ i - 1 \in 1 .. Len(ms) /\ t[i] = ms[i - 1]
  <2>1. CASE i = 1
    BY <1>1, <1>2, <2>1
  <2>2. CASE i # 1
    <3>1. i - 1 \in 1 .. Len(ms) /\ (i - 1) + 1 = i
      BY <1>2, <2>2
    <3>2. QED
      BY <1>2, <3>1
  <2>3. QED
    BY <2>1, <2>2
<1>4. DictsOK(t)
  BY <1>3 DEF DictsOK, DictOK
<1>5. Ordered(t)
  <2>1. ASSUME NEW i \in 1 .. Len(t), NEW j \in 1 .. Len(t), i < j,
               NEW x \in ToSet(t[i]), NEW y \in ToSet(t[j])
        PROVE  Ranked(x, y)
    <3>1. i - 1 \in 1 .. Len(ms) /\ t[i] = ms[i - 1] /\ j - 1 \in 1 .. Len(ms) /\ t[j] = ms[j - 1]
      BY <1>3, <2>1
    <3>2. i - 1 < j - 1
      BY <1>2, <2>1
    <3>3. QED
      BY <2>1, <3>1, <3>2 DEF Ordered
  <2>2. QED
    BY <2>1, Zenon DEF Ordered
<1>6. Entries(t) = Entries(ms)
  <2>1. ASSUME NEW x \in Entries(t)
        PROVE  x \in Entries(ms)
    <3>1. PICK i \in 1 .. Len(t) : x \in ToSet(t[i])
      BY <1>2, EntriesFacts
    <3>2. QED
      BY <1>3, <3>1, EntriesFacts
  <2>2. ASSUME NEW x \in Entries(ms)
        PROVE  x \in Entries(t)
    <3>1. PICK i \in 1 .. Len(ms) : x \in ToSet(ms[i])
      BY EntriesFacts
    <3>2. i + 1 \in 1 .. Len(t) /\ t[i + 1] = ms[i]
      BY <1>2
    <3>3. QED
      BY <1>2, <3>1, <3>2, EntriesFacts
  <2>3. QED
    BY <2>1, <2>2
<1>7. QED
  BY <1>2, <1>4, <1>5, <1>6 DEF t

-----------------------------------------------------------------------------
(***************************************************************************)
(* What holds of the alias maps while the keys of L are loaded: each map   *)
(* has an alias once, the keys of an alias are in order over the maps, and *)
(* every entry leads to a key of L that has the alias.                     *)
(***************************************************************************)
MapsOK(ms, L) ==
  /\ ms \in Seq(Dict) /\ ms # <<>>
  /\ DictsOK(ms) /\ Ordered(ms)
  /\ \A x \in Entries(ms) : x[2] \in L /\ HasAlias(x[2], x[1])

\* Where _add_alias puts a key that is new to an alias: the maps, and which of them.
Grown(ms, a) ==
  IF Len(ms) - Cardinality(Holding(ms, a)) - 1 = -1 THEN <<EmptyMap>> \o ms ELSE ms
Depth(ms, a) ==
  IF Len(ms) - Cardinality(Holding(ms, a)) - 1 = -1 THEN 1
  ELSE Len(ms) - Cardinality(Holding(ms, a)) - 1 + 1

\* The three branches of _add_alias.
LEMMA AddAliasBranches ==
  ASSUME NEW ms, NEW a, NEW k
  PROVE  AddAlias(ms, a, k) =
           IF ~Known(ms, a) THEN Put(ms, Len(ms), a, k)
           ELSE IF k \in KeysOf(ms, a) THEN ms
           ELSE SortAlias(Put(Grown(ms, a), Depth(ms, a), a, k), a)
BY Zenon DEF AddAlias, Put, Grown, Depth

\* The map is there.
LEMMA GrownDepth ==
  ASSUME NEW ms \in Seq(Dict), NEW a, ms # <<>>, DictsOK(ms), Ordered(ms)
  PROVE  /\ Grown(ms, a) \in Seq(Dict) /\ DictsOK(Grown(ms, a)) /\ Ordered(Grown(ms, a))
         /\ Entries(Grown(ms, a)) = Entries(ms)
         /\ Depth(ms, a) \in 1 .. Len(Grown(ms, a))
         /\ Grown(ms, a) = ms \/ (Grown(ms, a) = <<EmptyMap>> \o ms /\ Depth(ms, a) = 1)
<1> DEFINE h == Cardinality(Holding(ms, a))
<1>1. h \in 0 .. Len(ms) /\ Len(ms) \in Nat
  BY KeysOfFacts
<1> HIDE DEF h
<1>2. Len(ms) - h - 1 = -1 <=> h = Len(ms)
  BY <1>1
<1>3. CASE h = Len(ms)
  <2>1. Grown(ms, a) = <<EmptyMap>> \o ms /\ Depth(ms, a) = 1
    BY <1>2, <1>3 DEF Grown, Depth, h
  <2>2. 1 \in 1 .. Len(ms) + 1
    BY <1>1
  <2>3. QED
    BY <2>1, <2>2, GrownFacts
<1>4. CASE h # Len(ms)
  <2>1. Grown(ms, a) = ms /\ Depth(ms, a) = Len(ms) - h - 1 + 1
    BY <1>2, <1>4 DEF Grown, Depth, h
  <2>2. Len(ms) - h - 1 + 1 \in 1 .. Len(ms)
    BY <1>1, <1>4
  <2>3. QED
    BY <2>1, <2>2
<1>5. QED
  BY <1>3, <1>4

\* A known alias is the alias of an entry, or would be one without its spaces.
LEMMA KnownFacts ==
  ASSUME NEW ms \in Seq(Dict), NEW a \in Alias
  PROVE  /\ Known(ms, a) => Entries(ms) # {}
         /\ ~Known(ms, a) => \A x \in Entries(ms) : x[1] # a
<1>1. /\ Holding(ms, a) = {} <=> \A x \in Entries(ms) : x[1] # a
      /\ Holding(ms, Squeeze[a]) = {} <=> \A x \in Entries(ms) : x[1] # Squeeze[a]
  BY KeysOfFacts
<1>2. QED
  BY <1>1 DEF Known

\* _add_alias keeps the maps well, finds the key under the alias, and takes the place
\* of no entry of another alias.
LEMMA AddAliasKeeps ==
  ASSUME NEW L \in SUBSET Keys, NEW ms, MapsOK(ms, L), NEW a \in Alias, NEW k \in L,
         HasAlias(k, a)
  PROVE  LET t == AddAlias(ms, a, k)
         IN  /\ MapsOK(t, L) /\ <<a, k>> \in Entries(t)
             /\ \A x \in Entries(ms) : x[1] # a => x \in Entries(t)
<1> DEFINE t == AddAlias(ms, a, k)
<1>1. /\ ms \in Seq(Dict) /\ ms # <<>> /\ DictsOK(ms) /\ Ordered(ms) /\ k \in Keys
      /\ \A x \in Entries(ms) : x[2] \in L /\ HasAlias(x[2], x[1])
  BY DEF MapsOK
<1>2. <<a, k>>[1] = a /\ <<a, k>>[2] = k
  OBVIOUS
<1>3. CASE ~Known(ms, a)
  <2>1. t = Put(ms, Len(ms), a, k)
    BY <1>3, AddAliasBranches
  <2> HIDE DEF t
  <2>2. Len(ms) \in 1 .. Len(ms)
    BY <1>1
  <2>3. /\ t \in Seq(Dict) /\ Len(t) = Len(ms) /\ DictsOK(t) /\ OrderedBut(t, a)
        /\ \A i \in 1 .. Len(ms) : i # Len(ms) => t[i] = ms[i]
        /\ Entries(t) \subseteq Entries(ms) \cup {<<a, k>>} /\ <<a, k>> \in Entries(t)
        /\ \A x \in Entries(ms) : x[1] # a => x \in Entries(t)
    BY <1>1, <2>1, <2>2, PutFacts, PutEntries
  <2>4. \A x \in Entries(ms) : x[1] # a
    BY <1>1, <1>3, KnownFacts
  <2>5. ASSUME NEW i \in 1 .. Len(t), NEW j \in 1 .. Len(t), i < j,
               NEW x \in ToSet(t[i]), NEW y \in ToSet(t[j])
        PROVE  Ranked(x, y)
    <3>1. x \in ToSet(ms[i])
      <4>1. i # Len(ms) /\ i \in 1 .. Len(ms)
        BY <2>3, <2>5
      <4>2. QED
        BY <2>3, <2>5, <4>1
    <3>2. x[1] # a
      BY <1>1, <2>3, <2>4, <3>1, EntriesFacts
    <3>3. QED
      BY <2>3, <2>5, <3>2 DEF OrderedBut
  <2>6. Ordered(t)
    BY <2>5, Zenon DEF Ordered
  <2>7. t # <<>>
    BY <1>1, <2>3
  <2>8. \A x \in Entries(t) : x[2] \in L /\ HasAlias(x[2], x[1])
    BY <1>1, <1>2, <2>3, Zenon
  <2>9. QED
    BY <2>3, <2>6, <2>7, <2>8 DEF MapsOK, t
<1>4. CASE Known(ms, a) /\ k \in KeysOf(ms, a)
  <2>1. t = ms
    BY <1>4, AddAliasBranches
  <2>2. <<a, k>> \in Entries(ms)
    BY <1>1, <1>4, KeysOfFacts
  <2>3. QED
    BY <2>1, <2>2
<1>5. CASE Known(ms, a) /\ k \notin KeysOf(ms, a)
  <2> DEFINE g == Grown(ms, a)
             d == Depth(ms, a)
             u == Put(g, d, a, k)
  <2>1. t = SortAlias(u, a)
    BY <1>5, AddAliasBranches
  <2>2. /\ g \in Seq(Dict) /\ DictsOK(g) /\ Ordered(g) /\ Entries(g) = Entries(ms)
        /\ d \in 1 .. Len(g)
    BY <1>1, GrownDepth
  <2> HIDE DEF t, g, d
  <2>3. /\ u \in Seq(Dict) /\ DictsOK(u) /\ OrderedBut(u, a)
        /\ Entries(u) \subseteq Entries(g) \cup {<<a, k>>} /\ <<a, k>> \in Entries(u)
        /\ \A x \in Entries(g) : x[1] # a => x \in Entries(u)
    BY <1>1, <2>2, PutFacts, PutEntries
  <2> HIDE DEF u
  <2>4. t \in Seq(Dict) /\ t # <<>> /\ DictsOK(t) /\ Ordered(t) /\ Entries(t) = Entries(u)
    BY <2>1, <2>3, SortAliasKeeps
  <2>5. ASSUME NEW x \in Entries(t)
        PROVE  x[2] \in L /\ HasAlias(x[2], x[1])
    <3>1. x \in Entries(ms) \/ x = <<a, k>>
      BY <2>2, <2>3, <2>4
    <3>2. QED
      BY <1>1, <1>2, <3>1, Zenon
  <2>6. QED
    BY <2>2, <2>3, <2>4, <2>5 DEF MapsOK, t
<1>6. QED
  BY <1>3, <1>4, <1>5

\* More keys may be loaded.
LEMMA MapsOKMore ==
  ASSUME NEW ms, NEW L, NEW M, L \subseteq M, MapsOK(ms, L)
  PROVE  MapsOK(ms, M)
BY DEF MapsOK

\* r is the run of the fold over the aliases of the key o.
AddAliasRun(r, q, o, B, base) ==
  /\ r \in [0 .. Len(q) -> B] /\ r[0] = base
  /\ FoldLeft(LAMBDA ms, a : AddAlias(ms, a, o), base, q) = r[Len(q)]
  /\ \A k \in 0 .. Len(q) - 1 : r[k] \in B /\ r[k + 1] = AddAlias(r[k], q[k + 1], o)

\* There is one, within any set that the steps do not leave.
LEMMA AddAliasSteps ==
  ASSUME NEW A, NEW q \in Seq(A), NEW o, NEW B, NEW base \in B,
         \A b \in B, i \in 1 .. Len(q) : AddAlias(b, q[i], o) \in B
  PROVE  \E r : AddAliasRun(r, q, o, B, base)
<1> DEFINE n == Len(q)
           step == [p \in B \X (1 .. n) |-> AddAlias(p[1], q[p[2]], o)]
           Folds(g) == g = [S \in SUBSET (1 .. n) |->
                              IF S = {} THEN base ELSE AddAlias(g[S \ {Max(S)}], q[Max(S)], o)]
           iter == CHOOSE g : Folds(g)
<1>1. n \in Nat /\ DOMAIN q = 1 .. n
  OBVIOUS
<1>2. FoldLeft(LAMBDA ms, a : AddAlias(ms, a, o), base, q) = iter[1 .. n]
  BY <1>1 DEF FoldLeft, MapThenFoldSet
<1>3. step \in [B \X (1 .. n) -> B]
  OBVIOUS
<1>4. \A b \in B, i \in 1 .. n : step[<<b, i>>] = AddAlias(b, q[i], o)
  OBVIOUS
<1> HIDE DEF n, step
<1>5. Folds(iter)
  <2>1. PICK g : FoldSolution(g, n, B, base, step)
    BY <1>1, <1>3, FoldSolved
  <2>2. Folds(g)
    BY <1>4, <2>1 DEF FoldSolution
  <2> HIDE DEF Folds
  <2>3. QED
    BY <2>2
<1> HIDE DEF iter
<1>6. PICK r : FoldRun(r, n, B, base, step) /\ r[n] = iter[1 .. n]
  <2>1. Follows(iter, n, B, base, step)
    BY <1>4, <1>5 DEF Follows
  <2>2. Runs(iter, n, B, base, step)
    BY <1>1, <1>3, <2>1, RunOfFold
  <2>3. QED
    BY <2>2 DEF Runs
<1>7. \A k \in 0 .. n - 1 : r[k] \in B /\ r[k + 1] = AddAlias(r[k], q[k + 1], o)
  <2>1. \A k \in 0 .. n - 1 : k + 1 \in 1 .. n
    BY <1>1
  <2>2. QED
    BY <1>4, <1>6, <2>1 DEF FoldRun
<1>8. r \in [0 .. n -> B] /\ r[0] = base
  BY <1>6 DEF FoldRun
<1>9. QED
  BY <1>2, <1>6, <1>7, <1>8 DEF AddAliasRun, n

\* The aliases that have an entry.
Held(ms) == {x[1] : x \in Entries(ms)}

AddAliases(ms, k) == FoldLeft(LAMBDA m, a : AddAlias(m, a, k), ms, Aliases[k])

\* Adding all aliases of a key keeps the maps well and forgets no alias.
LEMMA AddAliasesKeeps ==
  ASSUME NEW L \in SUBSET Keys, NEW ms, MapsOK(ms, L), NEW k \in L
  PROVE  /\ MapsOK(AddAliases(ms, k), L)
         /\ Held(ms) \cup ToSet(Aliases[k]) \subseteq Held(AddAliases(ms, k))
<1> DEFINE B == {m \in Seq(Dict) : MapsOK(m, L)}
           q == Aliases[k]
           n == Len(q)
<1>1. q \in Seq(Alias) /\ n \in Nat /\ k \in Keys
  BY KeyringAssumption
<1>2. \A i \in 1 .. n : q[i] \in Alias /\ HasAlias(k, q[i])
  <2>1. \A i \in 1 .. n : q[i] \in ToSet(q)
    BY <1>1, ToSetFacts
  <2>2. QED
    BY <1>1, <2>1 DEF HasAlias
<1>3. ms \in B /\ \A m \in B : MapsOK(m, L)
  BY DEF MapsOK
<1>4. ASSUME NEW m \in B, NEW i \in 1 .. n
      PROVE  AddAlias(m, q[i], k) \in B /\ Held(m) \cup {q[i]} \subseteq Held(AddAlias(m, q[i], k))
  <2> DEFINE a == q[i]
             t == AddAlias(m, a, k)
  <2>1. a \in Alias /\ HasAlias(k, a)
    BY <1>2
  <2> HIDE DEF a
  <2>2. /\ MapsOK(t, L) /\ <<a, k>> \in Entries(t)
        /\ \A x \in Entries(m) : x[1] # a => x \in Entries(t)
    BY <1>3, <2>1, AddAliasKeeps
  <2> HIDE DEF t
  <2>3. <<a, k>>[1] = a
    OBVIOUS
  <2>4. Held(m) \cup {a} \subseteq Held(t)
    BY <2>2, <2>3 DEF Held
  <2>5. t \in B
    BY <2>2 DEF MapsOK
  <2>6. QED
    BY <2>4, <2>5 DEF t, a
<1> HIDE DEF B
<1>5. PICK r : AddAliasRun(r, q, k, B, ms)
  <2>1. \A m \in B, i \in 1 .. Len(q) : AddAlias(m, q[i], k) \in B
    BY <1>4
  <2> HIDE DEF q, n
  <2>2. \E r : AddAliasRun(r, q, k, B, ms)
    BY <1>1, <1>3, <2>1, AddAliasSteps
  <2>3. QED
    BY <2>2
<1>6. /\ r \in [0 .. n -> B] /\ r[0] = ms /\ AddAliases(ms, k) = r[n]
      /\ \A j \in 0 .. n - 1 : r[j] \in B /\ r[j + 1] = AddAlias(r[j], q[j + 1], k)
  BY <1>5 DEF AddAliasRun, AddAliases
<1> HIDE DEF q
<1> DEFINE T == {j \in 0 .. n : Held(ms) \cup {q[i] : i \in 1 .. j} \subseteq Held(r[j])}
<1>7. 0 \in T
  BY <1>1, <1>6
<1>8. ASSUME NEW j \in 0 .. n - 1, j \in T
      PROVE  j + 1 \in T
  <2>1. j + 1 \in 1 .. n /\ j + 1 \in 0 .. n /\ \A i \in 1 .. j + 1 : i \in 1 .. j \/ i = j + 1
    BY <1>1
  <2>2. Held(r[j]) \cup {q[j + 1]} \subseteq Held(r[j + 1])
    BY <1>4, <1>6, <2>1
  <2>3. Held(ms) \cup {q[i] : i \in 1 .. j} \subseteq Held(r[j])
    BY <1>8
  <2>4. Held(ms) \cup {q[i] : i \in 1 .. j + 1} \subseteq Held(r[j + 1])
    BY <2>1, <2>2, <2>3
  <2>5. QED
    BY <2>1, <2>4
<1>9. n \in 0 .. n /\ n \in T
  <2>1. n \in 0 .. n
    BY <1>1
  <2> HIDE DEF T
  <2>2. QED
    BY <1>1, <1>7, <1>8, <2>1, BoundedInduction
<1>10. Held(ms) \cup {q[i] : i \in 1 .. n} \subseteq Held(r[n])
  BY <1>9
<1>11. \A a \in ToSet(q) : a \in {q[i] : i \in 1 .. n}
  BY <1>1, ToSetFacts
<1>12. MapsOK(r[n], L)
  BY <1>3, <1>6, <1>9
<1>13. QED
  BY <1>6, <1>10, <1>11, <1>12 DEF q

\* One key at the end of a deque it is not in.
LEMMA AppendFacts ==
  ASSUME NEW q \in Seq(Keys), NEW k \in Keys
  PROVE  /\ Append(q, k) \in Seq(Keys) /\ ToSet(Append(q, k)) = ToSet(q) \cup {k}
         /\ IsInjective(q) /\ k \notin ToSet(q) => IsInjective(Append(q, k))
<1> DEFINE t == Append(q, k)
<1>1. /\ t \in Seq(Keys) /\ Len(t) = Len(q) + 1 /\ Len(q) \in Nat
      /\ t[Len(q) + 1] = k /\ \A i \in 1 .. Len(q) : t[i] = q[i]
  OBVIOUS
<1> HIDE DEF t
<1>2. DOMAIN t = 1 .. Len(q) + 1 /\ DOMAIN q = 1 .. Len(q)
      /\ \A i : i \in 1 .. Len(q) + 1 <=> i \in 1 .. Len(q) \/ i = Len(q) + 1
  BY <1>1
<1>3. ToSet(t) = ToSet(q) \cup {k}
  BY <1>1, <1>2 DEF ToSet
<1>4. IsInjective(q) /\ k \notin ToSet(q) => IsInjective(t)
  BY <1>1, <1>2 DEF IsInjective, ToSet
<1>5. QED
  BY <1>1, <1>3, <1>4 DEF t

-----------------------------------------------------------------------------
(***************************************************************************)
(* The keyring.  C stands for the keys that are subkeys of another key.    *)
(***************************************************************************)
RingType == [loaded : SUBSET Keys, pubs : Seq(Keys), privs : Seq(Keys), maps : Seq(Dict)]

\* The deque q lists keys of S, once each.
Lists(q, S) == IsInjective(q) /\ ToSet(q) \subseteq S

RingOK(r, C) ==
  /\ r \in RingType /\ MapsOK(r.maps, r.loaded)
  /\ Lists(r.pubs, r.loaded \cap Public) /\ Lists(r.privs, r.loaded \ Public)
  /\ \A k \in r.loaded : k \notin C => k \in ToSet(r.pubs) \cup ToSet(r.privs)

\* Every alias of a loaded key leads somewhere.
AliasesHeld(r) == \A k \in r.loaded : ToSet(Aliases[k]) \subseteq Held(r.maps)

Children(sk) == {k \in Keys : \E p \in Keys : k \in ToSet(sk[p])}

\* HasParent, of the subkeys as they are.
LEMMA ParentFacts ==
  ASSUME NEW k \in Keys
  PROVE  HasParent(k) <=> k \in Children(subkeys)
BY DEF HasParent, Children

\* Adding one key.
LEMMA AddOneKeeps ==
  ASSUME NEW r, NEW k \in Keys, RingOK(r, Children(subkeys))
  PROVE  LET t == AddOne(r, k)
         IN  /\ RingOK(t, Children(subkeys)) /\ t.loaded = r.loaded \cup {k}
             /\ AliasesHeld(r) => AliasesHeld(t)
<1> DEFINE t == AddOne(r, k)
           C == Children(subkeys)
<1>1. CASE k \in r.loaded
  <2>1. t = r
    BY <1>1 DEF AddOne
  <2>2. r.loaded = r.loaded \cup {k}
    BY <1>1
  <2>3. QED
    BY <2>1, <2>2
<1>2. CASE k \notin r.loaded
  <2> DEFINE L == r.loaded \cup {k}
             pb == IF k \in Public /\ k \notin C THEN Append(r.pubs, k) ELSE r.pubs
             pv == IF k \notin Public /\ k \notin C THEN Append(r.privs, k) ELSE r.privs
             m == AddAliases(r.maps, k)
  <2>1. t = [loaded |-> L, pubs |-> pb, privs |-> pv, maps |-> m]
    BY <1>2, ParentFacts DEF AddOne, AddAliases
  <2>2. /\ r \in RingType /\ MapsOK(r.maps, r.loaded)
        /\ Lists(r.pubs, r.loaded \cap Public) /\ Lists(r.privs, r.loaded \ Public)
        /\ \A j \in r.loaded : j \notin C => j \in ToSet(r.pubs) \cup ToSet(r.privs)
    BY DEF RingOK
  <2> HIDE DEF t, C
  <2>3. /\ L \in SUBSET Keys /\ k \in L /\ r.loaded \subseteq L
        /\ r.pubs \in Seq(Keys) /\ r.privs \in Seq(Keys)
    BY <2>2 DEF RingType
  <2>4. MapsOK(m, L) /\ Held(r.maps) \cup ToSet(Aliases[k]) \subseteq Held(m)
    <3>1. MapsOK(r.maps, L)
      BY <2>2, MapsOKMore
    <3> HIDE DEF L
    <3>2. QED
      BY <2>3, <3>1, AddAliasesKeeps
  <2>5. k \notin ToSet(r.pubs) /\ k \notin ToSet(r.privs)
    BY <1>2, <2>2 DEF Lists
  <2>6. pb \in Seq(Keys) /\ Lists(pb, L \cap Public)
        /\ ToSet(pb) = ToSet(r.pubs) \cup (IF k \in Public /\ k \notin C THEN {k} ELSE {})
    BY <2>2, <2>3, <2>5, AppendFacts DEF Lists
  <2>7. pv \in Seq(Keys) /\ Lists(pv, L \ Public)
        /\ ToSet(pv) = ToSet(r.privs) \cup (IF k \notin Public /\ k \notin C THEN {k} ELSE {})
    BY <1>2, <2>2, <2>3, <2>5, AppendFacts DEF Lists
  <2>8. \A j \in L : j \notin C => j \in ToSet(pb) \cup ToSet(pv)
    BY <2>2, <2>6, <2>7
  <2>9. AliasesHeld(r) => \A j \in L : ToSet(Aliases[j]) \subseteq Held(m)
    BY <2>4 DEF AliasesHeld
  <2>10. m \in Seq(Dict)
    BY <2>4 DEF MapsOK
  <2> HIDE DEF L, pb, pv, m
  <2>11. t.loaded = L /\ t.pubs = pb /\ t.privs = pv /\ t.maps = m /\ t \in RingType
    BY <2>1, <2>3, <2>6, <2>7, <2>10 DEF RingType
  <2>12. RingOK(t, C)
    BY <2>4, <2>6, <2>7, <2>8, <2>11 DEF RingOK
  <2>13. AliasesHeld(r) => AliasesHeld(t)
    BY <2>9, <2>11 DEF AliasesHeld
  <2>14. QED
    BY <2>11, <2>12, <2>13 DEF C, L, t
<1>3. QED
  BY <1>1, <1>2

\* r is the run of the fold over the subkeys of a key that is loaded.
AddOneRun(r, q, B, base) ==
  /\ r \in [0 .. Len(q) -> B] /\ r[0] = base
  /\ FoldLeft(AddOne, base, q) = r[Len(q)]
  /\ \A k \in 0 .. Len(q) - 1 : r[k] \in B /\ r[k + 1] = AddOne(r[k], q[k + 1])

\* There is one, within any set that the steps do not leave.
LEMMA AddOneSteps ==
  ASSUME NEW A, NEW q \in Seq(A), NEW B, NEW base \in B,
         \A b \in B, i \in 1 .. Len(q) : AddOne(b, q[i]) \in B
  PROVE  \E r : AddOneRun(r, q, B, base)
<1> DEFINE n == Len(q)
           step == [p \in B \X (1 .. n) |-> AddOne(p[1], q[p[2]])]
           Folds(g) == g = [S \in SUBSET (1 .. n) |->
                              IF S = {} THEN base ELSE AddOne(g[S \ {Max(S)}], q[Max(S)])]
           iter == CHOOSE g : Folds(g)
<1>1. n \in Nat /\ DOMAIN q = 1 .. n
  OBVIOUS
<1>2. FoldLeft(AddOne, base, q) = iter[1 .. n]
  BY <1>1 DEF FoldLeft, MapThenFoldSet
<1>3. step \in [B \X (1 .. n) -> B]
  OBVIOUS
<1>4. \A b \in B, i \in 1 .. n : step[<<b, i>>] = AddOne(b, q[i])
  OBVIOUS
<1> HIDE DEF n, step
<1>5. Folds(iter)
  <2>1. PICK g : FoldSolution(g, n, B, base, step)
    BY <1>1, <1>3, FoldSolved
  <2>2. Folds(g)
    BY <1>4, <2>1 DEF FoldSolution
  <2> HIDE DEF Folds
  <2>3. QED
    BY <2>2
<1> HIDE DEF iter
<1>6. PICK r : FoldRun(r, n, B, base, step) /\ r[n] = iter[1 .. n]
  <2>1. Follows(iter, n, B, base, step)
    BY <1>4, <1>5 DEF Follows
  <2>2. Runs(iter, n, B, base, step)
    BY <1>1, <1>3, <2>1, RunOfFold
  <2>3. QED
    BY <2>2 DEF Runs
<1>7. \A k \in 0 .. n - 1 : r[k] \in B /\ r[k + 1] = AddOne(r[k], q[k + 1])
  <2>1. \A k \in 0 .. n - 1 : k + 1 \in 1 .. n
    BY <1>1
  <2>2. QED
    BY <1>4, <1>6, <2>1 DEF FoldRun
<1>8. r \in [0 .. n -> B] /\ r[0] = base
  BY <1>6 DEF FoldRun
<1>9. QED
  BY <1>2, <1>6, <1>7, <1>8 DEF AddOneRun, n

\* load for one key: it and its subkeys, unless it is there.
LEMMA AddKeyKeeps ==
  ASSUME NEW r, NEW k \in Keys, RingOK(r, Children(subkeys)), subkeys[k] \in Seq(Keys)
  PROVE  LET t == AddKey(r, k)
         IN  /\ RingOK(t, Children(subkeys))
             /\ t.loaded = r.loaded \cup (IF k \in r.loaded THEN {} ELSE {k} \cup ToSet(subkeys[k]))
             /\ AliasesHeld(r) => AliasesHeld(t)
<1> DEFINE C == Children(subkeys)
           B == {x \in RingType : RingOK(x, C)}
           q == subkeys[k]
           n == Len(q)
           one == AddOne(r, k)
           t == AddKey(r, k)
<1>1. CASE k \in r.loaded
  BY <1>1 DEF AddKey
<1>2. CASE k \notin r.loaded
  <2>1. n \in Nat /\ \A i \in 1 .. n : q[i] \in Keys
    OBVIOUS
  <2>2. \A x : RingOK(x, C) <=> x \in B
    BY DEF RingOK
  <2>3. ASSUME NEW x \in B, NEW j \in Keys
        PROVE  /\ AddOne(x, j) \in B /\ AddOne(x, j).loaded = x.loaded \cup {j}
               /\ AliasesHeld(x) => AliasesHeld(AddOne(x, j))
    <3>1. RingOK(x, Children(subkeys))
      BY <2>2
    <3> HIDE DEF B
    <3>2. /\ RingOK(AddOne(x, j), Children(subkeys)) /\ AddOne(x, j).loaded = x.loaded \cup {j}
          /\ AliasesHeld(x) => AliasesHeld(AddOne(x, j))
      BY <3>1, AddOneKeeps
    <3>3. QED
      BY <2>2, <3>2
  <2>4. r \in B
    BY <2>2
  <2> HIDE DEF B
  <2>5. one \in B /\ one.loaded = r.loaded \cup {k} /\ (AliasesHeld(r) => AliasesHeld(one))
    BY <2>3, <2>4
  <2>6. t = FoldLeft(AddOne, one, q)
    BY <1>2 DEF AddKey
  <2> HIDE DEF one, q, n, t
  <2>7. PICK f : AddOneRun(f, q, B, one)
    <3>1. \A x \in B, i \in 1 .. Len(q) : AddOne(x, q[i]) \in B
      BY <2>1, <2>3 DEF n
    <3>2. q \in Seq(Keys)
      BY DEF q
    <3>3. \E f : AddOneRun(f, q, B, one)
      BY <2>5, <3>1, <3>2, AddOneSteps
    <3>4. QED
      BY <3>3
  <2>8. /\ f \in [0 .. n -> B] /\ f[0] = one /\ t = f[n]
        /\ \A i \in 0 .. n - 1 : f[i] \in B /\ f[i + 1] = AddOne(f[i], q[i + 1])
    BY <2>6, <2>7 DEF AddOneRun, n
  <2> DEFINE After(x, i) == /\ x.loaded = r.loaded \cup {k} \cup {q[h] : h \in 1 .. i}
                            /\ AliasesHeld(r) => AliasesHeld(x)
             T == {i \in 0 .. n : After(f[i], i)}
  <2>9. 0 \in T
    <3>1. {q[h] : h \in 1 .. 0} = {} /\ 0 \in 0 .. n
      BY <2>1
    <3>2. After(f[0], 0)
      BY <2>5, <2>8, <3>1
    <3>3. QED
      BY <3>1, <3>2
  <2>10. ASSUME NEW i \in 0 .. n - 1, i \in T
         PROVE  i + 1 \in T
    <3>1. i + 1 \in 1 .. n /\ i + 1 \in 0 .. n
          /\ {q[h] : h \in 1 .. i + 1} = {q[h] : h \in 1 .. i} \cup {q[i + 1]}
      BY <2>1
    <3>2. /\ f[i + 1].loaded = f[i].loaded \cup {q[i + 1]}
          /\ AliasesHeld(f[i]) => AliasesHeld(f[i + 1])
      BY <2>1, <2>3, <2>8, <3>1
    <3>3. After(f[i], i)
      BY <2>10
    <3>4. After(f[i + 1], i + 1)
      BY <3>1, <3>2, <3>3
    <3> HIDE DEF After
    <3>5. QED
      BY <3>1, <3>4
  <2>11. n \in T /\ n \in 0 .. n
    <3>1. n \in 0 .. n
      BY <2>1
    <3> HIDE DEF T
    <3>2. QED
      BY <2>1, <2>9, <2>10, <3>1, BoundedInduction
  <2>12. After(t, n) /\ t \in B
    BY <2>8, <2>11
  <2>13. {q[h] : h \in 1 .. n} = ToSet(q)
    BY ToSetFacts DEF n, q
  <2>14. t.loaded = r.loaded \cup {k} \cup ToSet(q)
    BY <2>12, <2>13
  <2>15. QED
    BY <1>2, <2>2, <2>12, <2>14 DEF t, q
<1>3. QED
  BY <1>1, <1>2

-----------------------------------------------------------------------------
(***************************************************************************)
(* Unloading.                                                              *)
(***************************************************************************)
\* One entry less.
LEMMA PopFacts ==
  ASSUME NEW ms \in Seq(Dict), NEW e, DictsOK(ms), Ordered(ms)
  PROVE  LET t == Pop(ms, e)
         IN  /\ t \in Seq(Dict) /\ Len(t) = Len(ms) /\ DictsOK(t) /\ Ordered(t)
             /\ Entries(t) = Entries(ms) \ {e}
<1> DEFINE t == Pop(ms, e)
<1>1. DOMAIN ms = 1 .. Len(ms) /\ Len(ms) \in Nat
  OBVIOUS
<1>2. ASSUME NEW i \in 1 .. Len(ms)
      PROVE  t[i] \in Dict /\ ToSet(t[i]) = ToSet(ms[i]) \ {e}
  <2>1. ms[i] \in Dict /\ t[i] = Kept(ms[i], ToSet(ms[i]) \ {e})
    BY <1>1 DEF Pop
  <2>2. /\ Kept(ms[i], ToSet(ms[i]) \ {e}) \in Dict
        /\ ToSet(Kept(ms[i], ToSet(ms[i]) \ {e})) = ToSet(ms[i]) \cap (ToSet(ms[i]) \ {e})
    BY <2>1, KeptFacts DEF Dict
  <2>3. QED
    BY <2>1, <2>2
<1>3. t = [i \in 1 .. Len(ms) |-> t[i]]
  BY <1>1 DEF Pop
<1> HIDE DEF t
<1>4. t \in Seq(Dict) /\ Len(t) = Len(ms)
  <2>1. t \in [1 .. Len(ms) -> Dict]
    BY <1>2, <1>3
  <2>2. QED
    BY <1>1, <2>1
<1>5. DictsOK(t)
  BY <1>2, <1>4 DEF DictsOK, DictOK
<1>6. Ordered(t)
  BY <1>2, <1>4 DEF Ordered
<1>7. Entries(t) = Entries(ms) \ {e}
  <2>1. \A x : x \in Entries(t) <=> \E i \in 1 .. Len(ms) : x \in ToSet(t[i])
    BY <1>4, EntriesFacts
  <2>2. \A x : x \in Entries(ms) <=> \E i \in 1 .. Len(ms) : x \in ToSet(ms[i])
    BY EntriesFacts
  <2>3. ASSUME NEW x
        PROVE  x \in Entries(t) <=> x \in Entries(ms) /\ x # e
    BY <1>2, <2>1, <2>2
  <2>4. QED
    BY <2>3
<1>8. QED
  BY <1>4, <1>5, <1>6, <1>7 DEF t

\* unload for one entry takes away that entry and no other.
LEMMA DropEntryKeeps ==
  ASSUME NEW ms, NEW L, MapsOK(ms, L), NEW e \in Alias \X Keys
  PROVE  MapsOK(DropEntry(ms, e), L) /\ Entries(DropEntry(ms, e)) = Entries(ms) \ {e}
<1> DEFINE p == Pop(ms, e)
           t == DropEntry(ms, e)
<1>1. /\ ms \in Seq(Dict) /\ ms # <<>> /\ DictsOK(ms) /\ Ordered(ms) /\ e[1] \in Alias
      /\ \A x \in Entries(ms) : x[2] \in L /\ HasAlias(x[2], x[1])
  BY DEF MapsOK
<1>2. /\ p \in Seq(Dict) /\ Len(p) = Len(ms) /\ DictsOK(p) /\ Ordered(p)
      /\ Entries(p) = Entries(ms) \ {e}
  BY <1>1, PopFacts
<1>3. t = IF Known(p, e[1]) THEN SortAlias(p, e[1]) ELSE p
  BY DEF DropEntry
<1> HIDE DEF p, t
<1>4. t \in Seq(Dict) /\ t # <<>> /\ DictsOK(t) /\ Ordered(t) /\ Entries(t) = Entries(p)
  <2>1. CASE Known(p, e[1])
    <3>1. OrderedBut(p, e[1])
      BY <1>2 DEF Ordered, OrderedBut
    <3>2. Entries(p) # {}
      BY <1>1, <1>2, <2>1, KnownFacts
    <3>3. QED
      BY <1>1, <1>2, <1>3, <2>1, <3>1, <3>2, SortAliasKeeps
  <2>2. CASE ~Known(p, e[1])
    <3>1. p # <<>>
      BY <1>1, <1>2
    <3>2. QED
      BY <1>2, <1>3, <2>2, <3>1
  <2>3. QED
    BY <2>1, <2>2
<1>5. \A x \in Entries(t) : x[2] \in L /\ HasAlias(x[2], x[1])
  BY <1>1, <1>2, <1>4
<1>6. QED
  BY <1>2, <1>4, <1>5 DEF MapsOK, t

\* r is the run of the concatenation of all maps.
ConcatRun(r, q, B, base) ==
  /\ r \in [0 .. Len(q) -> B] /\ r[0] = base
  /\ FoldLeft(LAMBDA u, m : u \o m, base, q) = r[Len(q)]
  /\ \A k \in 0 .. Len(q) - 1 : r[k] \in B /\ r[k + 1] = r[k] \o q[k + 1]

\* There is one, within any set that the steps do not leave.
LEMMA ConcatSteps ==
  ASSUME NEW A, NEW q \in Seq(A), NEW B, NEW base \in B,
         \A b \in B, i \in 1 .. Len(q) : b \o q[i] \in B
  PROVE  \E r : ConcatRun(r, q, B, base)
<1> DEFINE n == Len(q)
           step == [p \in B \X (1 .. n) |-> p[1] \o q[p[2]]]
           Folds(g) == g = [S \in SUBSET (1 .. n) |->
                              IF S = {} THEN base ELSE g[S \ {Max(S)}] \o q[Max(S)]]
           iter == CHOOSE g : Folds(g)
<1>1. n \in Nat /\ DOMAIN q = 1 .. n
  OBVIOUS
<1>2. FoldLeft(LAMBDA u, m : u \o m, base, q) = iter[1 .. n]
  BY <1>1 DEF FoldLeft, MapThenFoldSet
<1>3. step \in [B \X (1 .. n) -> B]
  OBVIOUS
<1>4. \A b \in B, i \in 1 .. n : step[<<b, i>>] = b \o q[i]
  OBVIOUS
<1> HIDE DEF n, step
<1>5. Folds(iter)
  <2>1. PICK g : FoldSolution(g, n, B, base, step)
    BY <1>1, <1>3, FoldSolved
  <2>2. Folds(g)
    BY <1>4, <2>1 DEF FoldSolution
  <2> HIDE DEF Folds
  <2>3. QED
    BY <2>2
<1> HIDE DEF iter
<1>6. PICK r : FoldRun(r, n, B, base, step) /\ r[n] = iter[1 .. n]
  <2>1. Follows(iter, n, B, base, step)
    BY <1>4, <1>5 DEF Follows
  <2>2. Runs(iter, n, B, base, step)
    BY <1>1, <1>3, <2>1, RunOfFold
  <2>3. QED
    BY <2>2 DEF Runs
<1>7. \A k \in 0 .. n - 1 : r[k] \in B /\ r[k + 1] = r[k] \o q[k + 1]
  <2>1. \A k \in 0 .. n - 1 : k + 1 \in 1 .. n
    BY <1>1
  <2>2. QED
    BY <1>4, <1>6, <2>1 DEF FoldRun
<1>8. r \in [0 .. n -> B] /\ r[0] = base
  BY <1>6 DEF FoldRun
<1>9. QED
  BY <1>2, <1>6, <1>7, <1>8 DEF ConcatRun, n

\* r is the run of the fold over the entries of a key.
DropEntryRun(r, q, B, base) ==
  /\ r \in [0 .. Len(q) -> B] /\ r[0] = base
  /\ FoldLeft(DropEntry, base, q) = r[Len(q)]
  /\ \A k \in 0 .. Len(q) - 1 : r[k] \in B /\ r[k + 1] = DropEntry(r[k], q[k + 1])

\* There is one, within any set that the steps do not leave.
LEMMA DropEntrySteps ==
  ASSUME NEW A, NEW q \in Seq(A), NEW B, NEW base \in B,
         \A b \in B, i \in 1 .. Len(q) : DropEntry(b, q[i]) \in B
  PROVE  \E r : DropEntryRun(r, q, B, base)
<1> DEFINE n == Len(q)
           step == [p \in B \X (1 .. n) |-> DropEntry(p[1], q[p[2]])]
           Folds(g) == g = [S \in SUBSET (1 .. n) |->
                              IF S = {} THEN base ELSE DropEntry(g[S \ {Max(S)}], q[Max(S)])]
           iter == CHOOSE g : Folds(g)
<1>1. n \in Nat /\ DOMAIN q = 1 .. n
  OBVIOUS
<1>2. FoldLeft(DropEntry, base, q) = iter[1 .. n]
  BY <1>1 DEF FoldLeft, MapThenFoldSet
<1>3. step \in [B \X (1 .. n) -> B]
  OBVIOUS
<1>4. \A b \in B, i \in 1 .. n : step[<<b, i>>] = DropEntry(b, q[i])
  OBVIOUS
<1> HIDE DEF n, step
<1>5. Folds(iter)
  <2>1. PICK g : FoldSolution(g, n, B, base, step)
    BY <1>1, <1>3, FoldSolved
  <2>2. Folds(g)
    BY <1>4, <2>1 DEF FoldSolution
  <2> HIDE DEF Folds
  <2>3. QED
    BY <2>2
<1> HIDE DEF iter
<1>6. PICK r : FoldRun(r, n, B, base, step) /\ r[n] = iter[1 .. n]
  <2>1. Follows(iter, n, B, base, step)
    BY <1>4, <1>5 DEF Follows
  <2>2. Runs(iter, n, B, base, step)
    BY <1>1, <1>3, <2>1, RunOfFold
  <2>3. QED
    BY <2>2 DEF Runs
<1>7. \A k \in 0 .. n - 1 : r[k] \in B /\ r[k + 1] = DropEntry(r[k], q[k + 1])
  <2>1. \A k \in 0 .. n - 1 : k + 1 \in 1 .. n
    BY <1>1
  <2>2. QED
    BY <1>4, <1>6, <2>1 DEF FoldRun
<1>8. r \in [0 .. n -> B] /\ r[0] = base
  BY <1>6 DEF FoldRun
<1>9. QED
  BY <1>2, <1>6, <1>7, <1>8 DEF DropEntryRun, n

\* r is the run of the fold over the subkeys of a key that is unloaded.
DropOneRun(r, q, B, base) ==
  /\ r \in [0 .. Len(q) -> B] /\ r[0] = base
  /\ FoldLeft(DropOne, base, q) = r[Len(q)]
  /\ \A k \in 0 .. Len(q) - 1 : r[k] \in B /\ r[k + 1] = DropOne(r[k], q[k + 1])

\* There is one, within any set that the steps do not leave.
LEMMA DropOneSteps ==
  ASSUME NEW A, NEW q \in Seq(A), NEW B, NEW base \in B,
         \A b \in B, i \in 1 .. Len(q) : DropOne(b, q[i]) \in B
  PROVE  \E r : DropOneRun(r, q, B, base)
<1> DEFINE n == Len(q)
           step == [p \in B \X (1 .. n) |-> DropOne(p[1], q[p[2]])]
           Folds(g) == g = [S \in SUBSET (1 .. n) |->
                              IF S = {} THEN base ELSE DropOne(g[S \ {Max(S)}], q[Max(S)])]
           iter == CHOOSE g : Folds(g)
<1>1. n \in Nat /\ DOMAIN q = 1 .. n
  OBVIOUS
<1>2. FoldLeft(DropOne, base, q) = iter[1 .. n]
  BY <1>1 DEF FoldLeft, MapThenFoldSet
<1>3. step \in [B \X (1 .. n) -> B]
  OBVIOUS
<1>4. \A b \in B, i \in 1 .. n : step[<<b, i>>] = DropOne(b, q[i])
  OBVIOUS
<1> HIDE DEF n, step
<1>5. Folds(iter)
  <2>1. PICK g : FoldSolution(g, n, B, base, step)
    BY <1>1, <1>3, FoldSolved
  <2>2. Folds(g)
    BY <1>4, <2>1 DEF FoldSolution
  <2> HIDE DEF Folds
  <2>3. QED
    BY <2>2
<1> HIDE DEF iter
<1>6. PICK r : FoldRun(r, n, B, base, step) /\ r[n] = iter[1 .. n]
  <2>1. Follows(iter, n, B, base, step)
    BY <1>4, <1>5 DEF Follows
  <2>2. Runs(iter, n, B, base, step)
    BY <1>1, <1>3, <2>1, RunOfFold
  <2>3. QED
    BY <2>2 DEF Runs
<1>7. \A k \in 0 .. n - 1 : r[k] \in B /\ r[k + 1] = DropOne(r[k], q[k + 1])
  <2>1. \A k \in 0 .. n - 1 : k + 1 \in 1 .. n
    BY <1>1
  <2>2. QED
    BY <1>4, <1>6, <2>1 DEF FoldRun
<1>8. r \in [0 .. n -> B] /\ r[0] = base
  BY <1>6 DEF FoldRun
<1>9. QED
  BY <1>2, <1>6, <1>7, <1>8 DEF DropOneRun, n

\* The entries of one key, wherever they are.
LEMMA EntriesOfFacts ==
  ASSUME NEW ms \in Seq(Dict), NEW k
  PROVE  /\ EntriesOf(ms, k) \in Dict
         /\ ToSet(EntriesOf(ms, k)) = {x \in Entries(ms) : x[2] = k}
<1> DEFINE all == FoldLeft(LAMBDA u, m : u \o m, <<>>, ms)
           n == Len(ms)
<1>1. n \in Nat /\ <<>> \in Dict /\ ms \in Seq(Dict)
  BY DEF Dict
<1>2. \A b \in Dict : \A i \in 1 .. n : b \o ms[i] \in Dict
  <2>1. \A i \in 1 .. n : ms[i] \in Dict
    OBVIOUS
  <2>2. QED
    BY <2>1 DEF Dict
<1>3. PICK r : ConcatRun(r, ms, Dict, <<>>)
  <2>1. \E r : ConcatRun(r, ms, Dict, <<>>)
    BY <1>1, <1>2, ConcatSteps
  <2>2. QED
    BY <2>1
<1>4. /\ r \in [0 .. n -> Dict] /\ r[0] = <<>> /\ all = r[n]
      /\ \A i \in 0 .. n - 1 : r[i] \in Dict /\ r[i + 1] = r[i] \o ms[i + 1]
  BY <1>3 DEF ConcatRun
<1> HIDE DEF all
<1>5. ASSUME NEW u \in Dict, NEW m \in Dict
      PROVE  ToSet(u \o m) = ToSet(u) \cup ToSet(m)
  <2>1. /\ Len(u) \in Nat /\ Len(m) \in Nat /\ u \o m \in Dict /\ Len(u \o m) = Len(u) + Len(m)
        /\ \A i \in 1 .. Len(u) : (u \o m)[i] = u[i]
        /\ \A i \in 1 .. Len(m) : (u \o m)[Len(u) + i] = m[i]
    BY DEF Dict
  <2>2. \A i \in 1 .. Len(u) + Len(m) :
          i \in 1 .. Len(u) \/ (i - Len(u) \in 1 .. Len(m) /\ Len(u) + (i - Len(u)) = i)
    BY <2>1
  <2>3. /\ \A i \in 1 .. Len(u) : i \in 1 .. Len(u) + Len(m)
        /\ \A i \in 1 .. Len(m) : Len(u) + i \in 1 .. Len(u) + Len(m)
    BY <2>1
  <2> DEFINE w == u \o m
  <2> HIDE DEF w
  <2>4. /\ \A x : x \in ToSet(w) <=> \E i \in 1 .. Len(u) + Len(m) : w[i] = x
        /\ \A x : x \in ToSet(u) <=> \E i \in 1 .. Len(u) : u[i] = x
        /\ \A x : x \in ToSet(m) <=> \E i \in 1 .. Len(m) : m[i] = x
    BY <2>1, ToSetFacts DEF w, Dict
  <2>5. ASSUME NEW x \in ToSet(w)
        PROVE  x \in ToSet(u) \cup ToSet(m)
    <3>1. PICK i \in 1 .. Len(u) + Len(m) : w[i] = x
      BY <2>4
    <3>2. CASE i \in 1 .. Len(u)
      BY <2>1, <2>4, <3>1, <3>2 DEF w
    <3>3. CASE i - Len(u) \in 1 .. Len(m) /\ Len(u) + (i - Len(u)) = i
      <4>1. w[i] = m[i - Len(u)]
        BY <2>1, <3>3 DEF w
      <4>2. QED
        BY <2>4, <3>1, <3>3, <4>1
    <3>4. QED
      BY <2>2, <3>2, <3>3
  <2>6. ASSUME NEW x \in ToSet(u) \cup ToSet(m)
        PROVE  x \in ToSet(w)
    BY <2>1, <2>3, <2>4 DEF w
  <2>7. QED
    BY <2>5, <2>6 DEF w
<1> DEFINE T == {i \in 0 .. n : ToSet(r[i]) = UNION {ToSet(ms[h]) : h \in 1 .. i}}
<1>6. 0 \in T
  <2>1. ToSet(r[0]) = {}
    BY <1>1, <1>4, ToSetFacts DEF Dict
  <2>2. UNION {ToSet(ms[h]) : h \in 1 .. 0} = {}
    OBVIOUS
  <2>3. 0 \in 0 .. n
    BY <1>1
  <2>4. QED
    BY <2>1, <2>2, <2>3
<1>7. ASSUME NEW i \in 0 .. n - 1, i \in T
      PROVE  i + 1 \in T
  <2>1. i + 1 \in 0 .. n /\ i + 1 \in 1 .. n /\ \A h : h \in 1 .. i + 1 <=> h \in 1 .. i \/ h = i + 1
    BY <1>1
  <2>2. ms[i + 1] \in Dict /\ r[i] \in Dict /\ r[i + 1] = r[i] \o ms[i + 1]
    BY <1>1, <1>4, <2>1
  <2>3. ToSet(r[i + 1]) = ToSet(r[i]) \cup ToSet(ms[i + 1])
    BY <1>5, <2>2
  <2>4. ToSet(r[i]) = UNION {ToSet(ms[h]) : h \in 1 .. i}
    BY <1>7
  <2>5. ToSet(r[i + 1]) = UNION {ToSet(ms[h]) : h \in 1 .. i + 1}
    BY <2>1, <2>3, <2>4
  <2>6. QED
    BY <2>1, <2>5
<1>8. n \in T /\ n \in 0 .. n
  <2>1. n \in 0 .. n
    BY <1>1
  <2> HIDE DEF T
  <2>2. QED
    BY <1>1, <1>6, <1>7, <2>1, BoundedInduction
<1>9. all \in Dict /\ ToSet(all) = Entries(ms)
  <2>1. ToSet(all) = UNION {ToSet(ms[h]) : h \in 1 .. n}
    BY <1>4, <1>8
  <2>2. DOMAIN ms = 1 .. n
    BY <1>1
  <2>3. QED
    BY <1>4, <1>8, <2>1, <2>2 DEF Entries
<1>10. EntriesOf(ms, k) = Kept(all, {x \in ToSet(all) : x[2] = k})
  BY DEF EntriesOf, all
<1>11. /\ EntriesOf(ms, k) \in Dict
       /\ ToSet(EntriesOf(ms, k)) = ToSet(all) \cap {x \in ToSet(all) : x[2] = k}
  BY <1>9, <1>10, KeptFacts DEF Dict
<1>12. QED
  BY <1>9, <1>11

\* After all entries of a key are dropped one by one, none is left, and the others are.
LEMMA DropEntriesKeep ==
  ASSUME NEW ms, NEW L, MapsOK(ms, L), NEW k
  PROVE  LET t == FoldLeft(DropEntry, ms, EntriesOf(ms, k))
         IN  MapsOK(t, L) /\ Entries(t) = {x \in Entries(ms) : x[2] # k}
<1> DEFINE q == EntriesOf(ms, k)
           n == Len(q)
           B == {m \in Seq(Dict) : MapsOK(m, L)}
           t == FoldLeft(DropEntry, ms, q)
<1>1. ms \in B /\ ms \in Seq(Dict) /\ \A m \in B : MapsOK(m, L)
  BY DEF MapsOK
<1>2. q \in Dict /\ ToSet(q) = {x \in Entries(ms) : x[2] = k}
  BY <1>1, EntriesOfFacts
<1> HIDE DEF q
<1>3. n \in Nat /\ \A i \in 1 .. n : q[i] \in Alias \X Keys
  BY <1>2 DEF Dict
<1>4. ASSUME NEW m \in B, NEW i \in 1 .. n
      PROVE  DropEntry(m, q[i]) \in B /\ Entries(DropEntry(m, q[i])) = Entries(m) \ {q[i]}
  <2>1. MapsOK(DropEntry(m, q[i]), L) /\ Entries(DropEntry(m, q[i])) = Entries(m) \ {q[i]}
    BY <1>1, <1>3, DropEntryKeeps
  <2>2. QED
    BY <2>1 DEF MapsOK
<1> HIDE DEF B
<1>5. PICK r : DropEntryRun(r, q, B, ms)
  <2>1. \A m \in B, i \in 1 .. Len(q) : DropEntry(m, q[i]) \in B
    BY <1>4
  <2>2. q \in Seq(Alias \X Keys)
    BY <1>2 DEF Dict
  <2> HIDE DEF n
  <2>3. \E r : DropEntryRun(r, q, B, ms)
    BY <1>1, <2>1, <2>2, DropEntrySteps
  <2>4. QED
    BY <2>3
<1>6. /\ r \in [0 .. n -> B] /\ r[0] = ms /\ t = r[n]
      /\ \A i \in 0 .. n - 1 : r[i] \in B /\ r[i + 1] = DropEntry(r[i], q[i + 1])
  BY <1>5 DEF DropEntryRun
<1> HIDE DEF t
<1> DEFINE T == {i \in 0 .. n : Entries(r[i]) = Entries(ms) \ {q[h] : h \in 1 .. i}}
<1>7. 0 \in T
  <2>1. {q[h] : h \in 1 .. 0} = {}
    OBVIOUS
  <2>2. QED
    BY <1>3, <1>6, <2>1
<1>8. ASSUME NEW i \in 0 .. n - 1, i \in T
      PROVE  i + 1 \in T
  <2>1. i + 1 \in 0 .. n /\ i + 1 \in 1 .. n
        /\ {q[h] : h \in 1 .. i + 1} = {q[h] : h \in 1 .. i} \cup {q[i + 1]}
    BY <1>3
  <2>2. Entries(r[i + 1]) = Entries(r[i]) \ {q[i + 1]}
    BY <1>4, <1>6, <2>1
  <2>3. Entries(r[i]) = Entries(ms) \ {q[h] : h \in 1 .. i}
    BY <1>8
  <2>4. Entries(r[i + 1]) = Entries(ms) \ {q[h] : h \in 1 .. i + 1}
    BY <2>1, <2>2, <2>3
  <2>5. QED
    BY <2>1, <2>4
<1>9. n \in T /\ n \in 0 .. n
  <2>1. n \in 0 .. n
    BY <1>3
  <2> HIDE DEF T
  <2>2. QED
    BY <1>3, <1>7, <1>8, <2>1, BoundedInduction
<1>10. {q[h] : h \in 1 .. n} = ToSet(q)
  BY <1>2, ToSetFacts DEF Dict
<1>11. Entries(t) = {x \in Entries(ms) : x[2] # k}
  <2>1. Entries(t) = Entries(ms) \ ToSet(q)
    BY <1>6, <1>9, <1>10
  <2>2. QED
    BY <1>2, <2>1
<1>12. QED
  BY <1>1, <1>6, <1>9, <1>11 DEF t, q

\* Unloading one key.
LEMMA DropOneKeeps ==
  ASSUME NEW r, NEW k \in Keys, NEW C, RingOK(r, C)
  PROVE  RingOK(DropOne(r, k), C)
<1> DEFINE t == DropOne(r, k)
<1>1. CASE k \notin r.loaded
  BY <1>1 DEF DropOne
<1>2. CASE k \in r.loaded
  <2> DEFINE L == r.loaded \ {k}
             pb == RemoveFirst(r.pubs, k)
             pv == RemoveFirst(r.privs, k)
             m == FoldLeft(DropEntry, r.maps, EntriesOf(r.maps, k))
  <2>1. t = [loaded |-> L, pubs |-> pb, privs |-> pv, maps |-> m]
    BY <1>2 DEF DropOne
  <2>2. /\ r \in RingType /\ MapsOK(r.maps, r.loaded)
        /\ Lists(r.pubs, r.loaded \cap Public) /\ Lists(r.privs, r.loaded \ Public)
        /\ \A j \in r.loaded : j \notin C => j \in ToSet(r.pubs) \cup ToSet(r.privs)
    BY DEF RingOK
  <2> HIDE DEF t
  <2>3. r.pubs \in Seq(Keys) /\ r.privs \in Seq(Keys) /\ L \in SUBSET Keys
    BY <2>2 DEF RingType
  <2>4. pb \in Seq(Keys) /\ IsInjective(pb) /\ ToSet(pb) = ToSet(r.pubs) \ {k}
    BY <2>2, <2>3, RemoveFirstFacts DEF Lists
  <2>5. pv \in Seq(Keys) /\ IsInjective(pv) /\ ToSet(pv) = ToSet(r.privs) \ {k}
    BY <2>2, <2>3, RemoveFirstFacts DEF Lists
  <2>6. MapsOK(m, r.loaded) /\ Entries(m) = {x \in Entries(r.maps) : x[2] # k}
    BY <2>2, DropEntriesKeep
  <2>7. MapsOK(m, L) /\ m \in Seq(Dict)
    BY <2>6 DEF MapsOK
  <2> HIDE DEF pb, pv, m
  <2>8. Lists(pb, L \cap Public) /\ Lists(pv, L \ Public)
    BY <2>2, <2>4, <2>5 DEF Lists
  <2>9. \A j \in L : j \notin C => j \in ToSet(pb) \cup ToSet(pv)
    BY <2>2, <2>4, <2>5
  <2> HIDE DEF L
  <2>10. t.loaded = L /\ t.pubs = pb /\ t.privs = pv /\ t.maps = m /\ t \in RingType
    BY <2>1, <2>3, <2>4, <2>5, <2>7 DEF RingType
  <2>11. RingOK(t, C)
    BY <2>7, <2>8, <2>9, <2>10 DEF RingOK
  <2>12. QED
    BY <2>11 DEF t
<1>3. QED
  BY <1>1, <1>2

\* unload: the key, then its subkeys.
LEMMA DropKeyKeeps ==
  ASSUME NEW r, NEW k \in Keys, NEW C, RingOK(r, C), subkeys[k] \in Seq(Keys)
  PROVE  LET t == DropKey(r, k)
         IN  /\ RingOK(t, C)
             /\ t.loaded = r.loaded \ (IF k \in r.loaded THEN {k} \cup ToSet(subkeys[k]) ELSE {})
<1> DEFINE B == {x \in RingType : RingOK(x, C)}
           q == subkeys[k]
           n == Len(q)
           one == DropOne(r, k)
           t == DropKey(r, k)
<1>1. CASE k \notin r.loaded
  BY <1>1 DEF DropKey
<1>2. CASE k \in r.loaded
  <2>1. n \in Nat /\ \A i \in 1 .. n : q[i] \in Keys
    OBVIOUS
  <2>2. \A x : RingOK(x, C) <=> x \in B
    BY DEF RingOK
  <2> HIDE DEF B
  <2>3. \A x \in B, j \in Keys : DropOne(x, j) \in B /\ DropOne(x, j).loaded = x.loaded \ {j}
    <3>1. SUFFICES ASSUME NEW x \in B, NEW j \in Keys
                   PROVE  DropOne(x, j) \in B /\ DropOne(x, j).loaded = x.loaded \ {j}
      OBVIOUS
    <3>2. DropOne(x, j) \in B
      BY <2>2, DropOneKeeps
    <3>3. DropOne(x, j).loaded = x.loaded \ {j}
      BY DEF DropOne
    <3>4. QED
      BY <3>2, <3>3
  <2>4. one \in B /\ one.loaded = r.loaded \ {k}
    BY <2>2, <2>3
  <2>5. t = FoldLeft(DropOne, one, q)
    BY <1>2 DEF DropKey
  <2>6. \A x \in B, i \in 1 .. Len(q) : DropOne(x, q[i]) \in B
    BY <2>1, <2>3
  <2>7. q \in Seq(Keys)
    OBVIOUS
  <2> HIDE DEF one, q, n, t
  <2>8. PICK f : DropOneRun(f, q, B, one)
    <3>1. \E f : DropOneRun(f, q, B, one)
      BY <2>4, <2>6, <2>7, DropOneSteps
    <3>2. QED
      BY <3>1
  <2>9. /\ f \in [0 .. n -> B] /\ f[0] = one /\ t = f[n]
        /\ \A i \in 0 .. n - 1 : f[i] \in B /\ f[i + 1] = DropOne(f[i], q[i + 1])
    BY <2>5, <2>8 DEF DropOneRun, n
  <2> DEFINE After(x, i) == x.loaded = r.loaded \ ({k} \cup {q[h] : h \in 1 .. i})
             T == {i \in 0 .. n : After(f[i], i)}
  <2>10. 0 \in T
    <3>1. {q[h] : h \in 1 .. 0} = {} /\ 0 \in 0 .. n
      BY <2>1
    <3>2. After(f[0], 0)
      BY <2>4, <2>9, <3>1
    <3>3. QED
      BY <3>1, <3>2
  <2>11. ASSUME NEW i \in 0 .. n - 1, i \in T
         PROVE  i + 1 \in T
    <3>1. i + 1 \in 1 .. n /\ i + 1 \in 0 .. n
          /\ {q[h] : h \in 1 .. i + 1} = {q[h] : h \in 1 .. i} \cup {q[i + 1]}
      BY <2>1
    <3>2. f[i + 1].loaded = f[i].loaded \ {q[i + 1]}
      BY <2>1, <2>3, <2>9, <3>1
    <3>3. After(f[i], i)
      BY <2>11
    <3>4. After(f[i + 1], i + 1)
      BY <3>1, <3>2, <3>3
    <3> HIDE DEF After
    <3>5. QED
      BY <3>1, <3>4
  <2>12. n \in T /\ n \in 0 .. n
    <3>1. n \in 0 .. n
      BY <2>1
    <3> HIDE DEF T
    <3>2. QED
      BY <2>1, <2>10, <2>11, <3>1, BoundedInduction
  <2>13. After(t, n) /\ t \in B
    BY <2>9, <2>12
  <2>14. {q[h] : h \in 1 .. n} = ToSet(q)
    BY <2>7, ToSetFacts DEF n
  <2>15. t.loaded = r.loaded \ ({k} \cup ToSet(q))
    BY <2>13, <2>14
  <2>16. QED
    BY <1>2, <2>2, <2>13, <2>15 DEF t, q
<1>3. QED
  BY <1>1, <1>2

-----------------------------------------------------------------------------
(***************************************************************************)
(* The theorems.                                                           *)
(***************************************************************************)
KeyringInv ==
  /\ RingOK(ring, Children(subkeys))
  /\ subkeys \in [Keys -> Seq(Keys)]
  /\ reported \subseteq Keys /\ missed \subseteq Keys

LEMMA RingFields ==
  /\ ring.loaded = loaded /\ ring.pubs = pubs /\ ring.privs = privs /\ ring.maps = maps
BY DEF ring

\* What a step makes of a ring becomes the keyring.
LEMMA BecomesIt ==
  ASSUME NEW r \in RingType, BecomesRing(r)
  PROVE  ring' = r
<1>1. r = [loaded |-> r.loaded, pubs |-> r.pubs, privs |-> r.privs, maps |-> r.maps]
  BY DEF RingType
<1>2. QED
  BY <1>1 DEF BecomesRing, ring

\* At first there is one empty map and no key.
LEMMA InitHolds == Init => KeyringInv
<1> SUFFICES ASSUME Init
             PROVE  KeyringInv
  OBVIOUS
<1>1. loaded = {} /\ pubs = <<>> /\ privs = <<>> /\ maps = <<EmptyMap>> /\ reported = {}
      /\ missed = {} /\ subkeys = Subkeys0
  BY DEF Init
<1>2. EmptyMap \in Dict /\ ToSet(EmptyMap) = {}
  <2>1. EmptyMap \in Dict /\ EmptyMap = <<>>
    BY DEF EmptyMap, Dict
  <2>2. QED
    BY <2>1, ToSetFacts DEF Dict
<1>3. maps \in Seq(Dict) /\ maps # <<>> /\ Len(maps) = 1 /\ maps[1] = EmptyMap
  BY <1>1, <1>2
<1>4. Entries(maps) = {}
  BY <1>2, <1>3, EntriesFacts
<1>5. DictsOK(maps) /\ Ordered(maps)
  BY <1>2, <1>3 DEF DictsOK, DictOK, Ordered
<1>6. MapsOK(maps, loaded)
  BY <1>3, <1>4, <1>5 DEF MapsOK
<1>7. Lists(pubs, loaded \cap Public) /\ Lists(privs, loaded \ Public)
  <2>1. <<>> \in Seq(Keys) /\ ToSet(<<>>) = {}
    <3>1. <<>> \in Seq(Keys)
      OBVIOUS
    <3>2. QED
      BY <3>1, ToSetFacts
  <2>2. IsInjective(<<>>)
    BY DEF IsInjective
  <2>3. QED
    BY <1>1, <2>1, <2>2 DEF Lists
<1>8. ring \in RingType
  BY <1>1, <1>3 DEF ring, RingType
<1>9. RingOK(ring, Children(subkeys))
  BY <1>1, <1>6, <1>7, <1>8, RingFields DEF RingOK
<1>10. QED
  BY <1>1, <1>9, KeyringAssumption DEF KeyringInv

\* Every step keeps the invariant.
LEMMA StepKeeps == KeyringInv /\ [Next]_vars => KeyringInv'
<1> SUFFICES ASSUME KeyringInv, [Next]_vars
             PROVE  KeyringInv'
  OBVIOUS
<1>1. /\ RingOK(ring, Children(subkeys)) /\ subkeys \in [Keys -> Seq(Keys)]
      /\ reported \subseteq Keys /\ missed \subseteq Keys
  BY DEF KeyringInv
<1>2. ASSUME NEW k \in Keys, Load(k)
      PROVE  KeyringInv'
  <2>1. BecomesRing(AddKey(ring, k)) /\ reported' = {k} \cup ToSet(subkeys[k]) /\ subkeys' = subkeys
    BY <1>2 DEF Load
  <2>2. subkeys[k] \in Seq(Keys)
    BY <1>1
  <2>3. RingOK(AddKey(ring, k), Children(subkeys))
    BY <1>1, <2>2, AddKeyKeeps
  <2>4. ring' = AddKey(ring, k)
    BY <2>1, <2>3, BecomesIt DEF RingOK
  <2>5. ToSet(subkeys[k]) \subseteq Keys
    BY <2>2, ToSetFacts
  <2>6. RingOK(ring', Children(subkeys'))
    BY <2>1, <2>3, <2>4
  <2>7. missed' \subseteq Keys
    BY <1>1, <1>2 DEF Load
  <2>8. QED
    BY <1>1, <2>1, <2>5, <2>6, <2>7 DEF KeyringInv
<1>3. ASSUME NEW k \in Keys, Unload(k)
      PROVE  KeyringInv'
  <2>1. BecomesRing(DropKey(ring, k)) /\ reported' = {} /\ subkeys' = subkeys
    BY <1>3 DEF Unload
  <2>2. subkeys[k] \in Seq(Keys)
    BY <1>1
  <2>3. RingOK(DropKey(ring, k), Children(subkeys))
    BY <1>1, <2>2, DropKeyKeeps
  <2>4. ring' = DropKey(ring, k)
    BY <2>1, <2>3, BecomesIt DEF RingOK
  <2>5. RingOK(ring', Children(subkeys'))
    BY <2>1, <2>3, <2>4
  <2>6. ToSet(subkeys[k]) \subseteq Keys
    BY <2>2, ToSetFacts
  <2>7. missed' \subseteq Keys
    BY <1>1, <1>3, <2>6 DEF Unload
  <2>8. QED
    BY <1>1, <2>1, <2>5, <2>7 DEF KeyringInv
<1>4. ASSUME NEW ks \in Late, AdoptSubkey(ks[1], ks[2])
      PROVE  KeyringInv'
  <2> DEFINE k == ks[1]
             s == ks[2]
  <2>1. k \in Keys /\ s \in Keys
    BY KeyringAssumption
  <2>2. subkeys' = [subkeys EXCEPT ![k] = Append(@, s)] /\ reported' = {} /\ ring' = ring
    BY <1>4 DEF AdoptSubkey, ring
  <2> HIDE DEF k, s
  <2>3. subkeys[k] \in Seq(Keys)
    BY <1>1, <2>1
  <2>4. Append(subkeys[k], s) \in Seq(Keys) /\ ToSet(Append(subkeys[k], s)) = ToSet(subkeys[k]) \cup {s}
    BY <2>1, <2>3, AppendFacts
  <2> DEFINE grown == Append(subkeys[k], s)
  <2> HIDE DEF grown
  <2>5. subkeys' = [subkeys EXCEPT ![k] = grown]
    BY <2>2 DEF grown
  <2>6. subkeys' \in [Keys -> Seq(Keys)] /\ \A p \in Keys : ToSet(subkeys[p]) \subseteq ToSet(subkeys'[p])
    BY <1>1, <2>4, <2>5 DEF grown
  <2>7. Children(subkeys) \subseteq Children(subkeys')
    BY <2>6 DEF Children
  <2>8. RingOK(ring, Children(subkeys'))
    BY <1>1, <2>7 DEF RingOK
  <2>9. RingOK(ring', Children(subkeys'))
    BY <2>2, <2>8
  <2>10. missed' \subseteq Keys
    BY <1>1, <1>4, <2>1 DEF AdoptSubkey, s
  <2>11. QED
    BY <2>2, <2>6, <2>9, <2>10 DEF KeyringInv
<1>5. CASE UNCHANGED vars
  BY <1>1, <1>5 DEF vars, KeyringInv, ring
<1>6. QED
  BY <1>2, <1>3, <1>4, <1>5 DEF Next

\* Whatever is loaded, unloaded, adopted and loaded again, the deques, the key dict and
\* the alias maps fit together (PGPKeyring.load, unload, _add_key, _add_alias,
\* _sort_alias).
THEOREM KeyringGood == Spec => []KeyringInv
<1>1. Init => KeyringInv
  BY InitHolds
<1>2. KeyringInv /\ [Next]_vars => KeyringInv'
  BY StepKeeps
<1>3. QED
  BY <1>1, <1>2, PTL DEF Spec

\* The parts of the invariant, of the variables themselves.
LEMMA InvParts ==
  ASSUME KeyringInv
  PROVE  /\ loaded \in SUBSET Keys /\ pubs \in Seq(Keys) /\ privs \in Seq(Keys)
         /\ maps \in Seq(Dict) /\ maps # <<>> /\ DictsOK(maps) /\ Ordered(maps)
         /\ \A x \in Entries(maps) : x[2] \in loaded /\ HasAlias(x[2], x[1])
         /\ Lists(pubs, loaded \cap Public) /\ Lists(privs, loaded \ Public)
         /\ \A k \in loaded : ~HasParent(k) => k \in ToSet(pubs) \cup ToSet(privs)
         /\ subkeys \in [Keys -> Seq(Keys)] /\ reported \subseteq Keys
         /\ missed \subseteq Keys
<1>1. /\ RingOK(ring, Children(subkeys)) /\ subkeys \in [Keys -> Seq(Keys)]
      /\ reported \subseteq Keys /\ missed \subseteq Keys
  BY DEF KeyringInv
<1>2. loaded \in SUBSET Keys /\ pubs \in Seq(Keys) /\ privs \in Seq(Keys) /\ maps \in Seq(Dict)
  BY <1>1, RingFields DEF RingOK, RingType
<1>3. MapsOK(maps, loaded)
  BY <1>1, RingFields DEF RingOK
<1>4. /\ Lists(pubs, loaded \cap Public) /\ Lists(privs, loaded \ Public)
      /\ \A k \in loaded : k \notin Children(subkeys) => k \in ToSet(pubs) \cup ToSet(privs)
  BY <1>1, RingFields DEF RingOK
<1>5. \A k \in loaded : ~HasParent(k) => k \in ToSet(pubs) \cup ToSet(privs)
  BY <1>2, <1>4, ParentFacts
<1>6. QED
  BY <1>1, <1>2, <1>3, <1>4, <1>5 DEF MapsOK

\* The keyring's state has its type: there is always a last alias map to add to.
THEOREM TypeCorrect == Spec => []TypeOK
<1>1. KeyringInv => TypeOK
  BY InvParts DEF TypeOK, Dict
<1>2. QED
  BY <1>1, KeyringGood, PTL

\* No alias leads to a key that is not loaded or does not have it (_get_key).
THEOREM NoDanglingAlways == Spec => []NoDangling
<1>1. KeyringInv => NoDangling
  BY InvParts DEF NoDangling
<1>2. QED
  BY <1>1, KeyringGood, PTL

\* The two deques list the loaded keys of their half once each, and every loaded key
\* without a parent is in one (__iter__).
THEOREM DequesAlwaysAgree == Spec => []DequesAgree
<1>1. KeyringInv => DequesAgree
  <2>1. SUFFICES ASSUME KeyringInv
                 PROVE  DequesAgree
    OBVIOUS
  <2>2. /\ Lists(pubs, loaded \cap Public) /\ Lists(privs, loaded \ Public)
        /\ \A k \in loaded : ~HasParent(k) => k \in ToSet(pubs) \cup ToSet(privs)
    BY <2>1, InvParts
  <2>3. QED
    BY <2>2, Zenon DEF DequesAgree, Lists
<1>2. QED
  BY <1>1, KeyringGood, PTL

\* In the order of the alias maps from left to right the keys of an alias are in that of
\* _sort_alias's sort key: the older ones and, at the same age, the private ones first.
Ascending(ks) ==
  \A i, j \in DOMAIN ks : i < j =>
    /\ ks[i] # ks[j]
    /\ Created[ks[i]] <= Created[ks[j]]
    /\ Created[ks[i]] = Created[ks[j]] => ~(ks[i] \in Public /\ ks[j] \notin Public)

LEMMA KeysAscend ==
  ASSUME KeyringInv
  PROVE  \A a \in Alias : /\ DOMAIN GetKeys(a) \subseteq Nat
                         /\ \A i \in DOMAIN GetKeys(a) : GetKeys(a)[i] \in Keys
                         /\ Ascending(GetKeys(a))
<1>1. ASSUME NEW a \in Alias,
             NEW i \in DOMAIN GetKeys(a), NEW j \in DOMAIN GetKeys(a)
      PROVE  /\ i \in Nat /\ GetKeys(a)[i] \in Keys
             /\ i < j =>
                  /\ GetKeys(a)[i] # GetKeys(a)[j]
                  /\ Created[GetKeys(a)[i]] <= Created[GetKeys(a)[j]]
                  /\ Created[GetKeys(a)[i]] = Created[GetKeys(a)[j]] =>
                       ~(GetKeys(a)[i] \in Public /\ GetKeys(a)[j] \notin Public)
  <2>1. maps \in Seq(Dict) /\ Ordered(maps)
    BY InvParts
  <2> DEFINE keep == {m \in ToSet(maps) : Has(m, a)}
             t == Kept(maps, keep)
             ks == GetKeys(a)
  <2>2. ks = [h \in DOMAIN t |-> At(t[h], a)]
    BY DEF GetKeys
  <2>3. t \in Seq(Dict) /\ KeptOf(t, maps, Len(maps), keep) /\ ToSet(t) = ToSet(maps) \cap keep
    BY <2>1, KeptFacts
  <2> HIDE DEF t, ks
  <2>4. PICK p \in [1 .. Len(t) -> 1 .. Len(maps)] :
          /\ \A h \in 1 .. Len(t) : t[h] = maps[p[h]] /\ t[h] \in keep
          /\ \A g, h \in 1 .. Len(t) : g < h => p[g] < p[h]
    BY <2>3 DEF KeptOf
  <2>5. DOMAIN t = 1 .. Len(t) /\ DOMAIN ks = 1 .. Len(t)
    BY <2>2, <2>3
  <2>6. i \in 1 .. Len(t) /\ j \in 1 .. Len(t)
    BY <2>5 DEF ks
  <2>7. \A h \in 1 .. Len(t) : <<a, ks[h]>> \in ToSet(maps[p[h]]) /\ p[h] \in 1 .. Len(maps)
    <3>1. ASSUME NEW h \in 1 .. Len(t)
          PROVE  <<a, ks[h]>> \in ToSet(t[h])
      <4>1. t[h] \in Dict /\ Has(t[h], a)
        BY <2>3, <2>4
      <4>2. ks[h] = At(t[h], a)
        BY <2>2, <2>5
      <4>3. QED
        BY <4>1, <4>2, MapFacts
    <3>2. QED
      BY <2>4, <3>1
  <2>8. i < j => p[i] < p[j]
    BY <2>4, <2>6
  <2>9. i < j => Ranked(<<a, ks[i]>>, <<a, ks[j]>>)
    BY <2>1, <2>6, <2>7, <2>8 DEF Ordered
  <2>10. i < j => ks[i] # ks[j] /\ ~Before(ks[j], ks[i])
    BY <2>9 DEF Ranked
  <2>11. ks[i] \in Keys /\ ks[j] \in Keys
    <3>1. <<a, ks[i]>> \in Entries(maps) /\ <<a, ks[j]>> \in Entries(maps)
      BY <2>1, <2>6, <2>7, EntriesFacts
    <3>2. QED
      BY <2>1, <3>1, EntriesFacts
  <2>12. Created[ks[i]] \in Nat /\ Created[ks[j]] \in Nat
    BY <2>11, KeyringAssumption
  <2>13. i < j => Created[ks[i]] <= Created[ks[j]]
    BY <2>10, <2>12 DEF Before
  <2>14. i < j /\ Created[ks[i]] = Created[ks[j]] => ~(ks[i] \in Public /\ ks[j] \notin Public)
    BY <2>10 DEF Before
  <2>15. i \in Nat
    BY <2>3, <2>6
  <2>16. QED
    BY <2>10, <2>11, <2>13, <2>14, <2>15 DEF ks
<1>2. QED
  BY <1>1 DEF Ascending

\* The keys of an alias are found once each, private before public at the same age, and
\* keys of different ages in one order under all their aliases (_get_keys, _sort_alias).
THEOREM SortedAlways == Spec => []AliasesSorted
<1>1. KeyringInv => AliasesSorted
  <2> SUFFICES ASSUME KeyringInv
               PROVE  AliasesSorted
    OBVIOUS
  <2>1. ASSUME NEW a \in Alias
        PROVE  IsInjective(GetKeys(a))
    <3>1. \A i, j \in DOMAIN GetKeys(a) : i < j => GetKeys(a)[i] # GetKeys(a)[j]
      BY KeysAscend DEF Ascending
    <3>2. DOMAIN GetKeys(a) \subseteq Nat
      BY KeysAscend
    <3>3. QED
      BY <3>1, <3>2 DEF IsInjective
  <2>2. ASSUME NEW a \in Alias, NEW j \in Keys, NEW k \in Keys, Precedes(a, j, k)
        PROVE  /\ Created[j] <= Created[k]
               /\ Created[j] = Created[k] => ~(j \in Public /\ k \notin Public)
    BY <2>2, KeysAscend DEF Ascending, Precedes
  <2>3. ASSUME NEW a \in Alias, NEW j \in Keys, NEW k \in Keys, Precedes(a, j, k),
               Created[j] # Created[k], NEW b \in Alias
        PROVE  ~Precedes(b, k, j)
    <3>1. Created[j] \in Nat /\ Created[k] \in Nat
      BY KeyringAssumption
    <3>2. Created[j] <= Created[k]
      BY <2>2, <2>3
    <3>3. Precedes(b, k, j) => Created[k] <= Created[j]
      BY <2>2
    <3>4. QED
      BY <2>3, <3>1, <3>2, <3>3
  <2>4. QED
    BY <2>1, <2>2, <2>3 DEF AliasesSorted
<1>2. QED
  BY <1>1, KeyringGood, PTL

-----------------------------------------------------------------------------
(***************************************************************************)
(* Loading only.                                                           *)
(***************************************************************************)
\* Keys are loaded, never unloaded, and none grows a subkey meanwhile.
LoadOnly == ~CanUnload /\ Late = {}

LoadOnlyInv ==
  /\ subkeys = Subkeys0 /\ AliasesHeld(ring)
  /\ \A k \in loaded : ToSet(Subkeys0[k]) \subseteq loaded

\* Every step is then a load, after which the key and its subkeys are there.
LEMMA LoadOnlyStep ==
  ASSUME LoadOnly, KeyringInv, LoadOnlyInv, [Next]_vars
  PROVE  \/ UNCHANGED vars
         \/ \E k \in Keys :
              /\ ring' = AddKey(ring, k) /\ subkeys' = subkeys
              /\ loaded' = loaded \cup {k} \cup ToSet(Subkeys0[k])
              /\ reported' = {k} \cup ToSet(Subkeys0[k])
<1>1. /\ RingOK(ring, Children(subkeys)) /\ subkeys \in [Keys -> Seq(Keys)]
      /\ subkeys = Subkeys0 /\ \A k \in loaded : ToSet(Subkeys0[k]) \subseteq loaded
  BY DEF KeyringInv, LoadOnlyInv
<1>2. ASSUME NEW k \in Keys, Load(k)
      PROVE  /\ ring' = AddKey(ring, k) /\ subkeys' = subkeys
             /\ loaded' = loaded \cup {k} \cup ToSet(Subkeys0[k])
             /\ reported' = {k} \cup ToSet(Subkeys0[k])
  <2>1. BecomesRing(AddKey(ring, k)) /\ reported' = {k} \cup ToSet(subkeys[k]) /\ subkeys' = subkeys
    BY <1>2 DEF Load
  <2>2. /\ RingOK(AddKey(ring, k), Children(subkeys))
        /\ AddKey(ring, k).loaded =
             ring.loaded \cup (IF k \in ring.loaded THEN {} ELSE {k} \cup ToSet(subkeys[k]))
    BY <1>1, AddKeyKeeps
  <2>3. ring' = AddKey(ring, k)
    BY <2>1, <2>2, BecomesIt DEF RingOK
  <2>4. loaded' = AddKey(ring, k).loaded
    BY <2>1 DEF BecomesRing
  <2>5. loaded' = loaded \cup {k} \cup ToSet(Subkeys0[k])
    BY <1>1, <2>2, <2>4, RingFields
  <2>6. QED
    BY <1>1, <2>1, <2>3, <2>5
<1>3. ASSUME NEW k \in Keys, Unload(k)
      PROVE  FALSE
  BY <1>3 DEF Unload, LoadOnly
<1>4. QED
  BY <1>2, <1>3 DEF Next, LoadOnly

\* What is loaded stays within reach.
LEMMA LoadOnlyKeeps ==
  ASSUME LoadOnly, KeyringInv, LoadOnlyInv, [Next]_vars
  PROVE  LoadOnlyInv'
<1>1. /\ RingOK(ring, Children(subkeys)) /\ subkeys \in [Keys -> Seq(Keys)]
      /\ subkeys = Subkeys0 /\ AliasesHeld(ring)
      /\ \A k \in loaded : ToSet(Subkeys0[k]) \subseteq loaded
      /\ loaded \subseteq Keys
  BY InvParts DEF KeyringInv, LoadOnlyInv
<1>2. CASE UNCHANGED vars
  BY <1>1, <1>2 DEF vars, LoadOnlyInv, ring
<1>3. ASSUME NEW k \in Keys, ring' = AddKey(ring, k), subkeys' = subkeys,
             loaded' = loaded \cup {k} \cup ToSet(Subkeys0[k]),
             reported' = {k} \cup ToSet(Subkeys0[k])
      PROVE  LoadOnlyInv'
  <2>1. AliasesHeld(AddKey(ring, k))
    BY <1>1, AddKeyKeeps
  <2>2. ASSUME NEW j \in loaded'
        PROVE  ToSet(Subkeys0[j]) \subseteq loaded'
    <3>1. CASE j \in loaded \/ j = k
      BY <1>1, <1>3, <3>1
    <3>2. CASE j \in ToSet(Subkeys0[k])
      <4>1. j \in Keys
        BY <1>1, <3>2, ToSetFacts
      <4>2. ToSet(Subkeys0[j]) = {}
        <5>1. Subkeys0[j] \in Seq(Keys) /\ \A t \in ToSet(Subkeys0[j]) : MayOwn(k, j) /\ MayOwn(j, t)
          BY <3>2, <4>1, KeyringAssumption DEF MayOwn
        <5>2. ToSet(Subkeys0[j]) \subseteq Keys
          BY <5>1, ToSetFacts
        <5>3. QED
          BY <4>1, <5>1, <5>2, KeyringAssumption
      <4>3. QED
        BY <4>2
    <3>3. QED
      BY <1>3, <3>1, <3>2
  <2>3. AliasesHeld(ring')
    BY <1>3, <2>1
  <2>4. QED
    BY <1>1, <1>3, <2>2, <2>3 DEF LoadOnlyInv
<1>4. QED
  BY <1>2, <1>3, LoadOnlyStep

THEOREM LoadedStaysReachable == LoadOnly => (Spec => []LoadOnlyInv)
<1> SUFFICES ASSUME LoadOnly
             PROVE  Spec => []LoadOnlyInv
  OBVIOUS
<1>1. Init => LoadOnlyInv
  BY RingFields DEF Init, LoadOnlyInv, AliasesHeld
<1>2. KeyringInv /\ LoadOnlyInv /\ [Next]_vars => LoadOnlyInv'
  BY LoadOnlyKeeps
<1>3. QED
  BY <1>1, <1>2, KeyringGood, PTL DEF Spec

\* Every alias of a loaded key leads to some loaded key ("KeyError if there is no loaded
\* key that satisfies the identifier").
LoadedIsFound == \A k \in loaded : \A a \in ToSet(Aliases[k]) : GetKey(a) # {}

\* As long as nothing is unloaded, a loaded key is found under each of its aliases,
\* whatever keys share them and whatever subkeys keys grow (key's docstring, _add_alias).
THEOREM LoadedAlwaysFound == ~CanUnload => (Spec => []LoadedIsFound)
<1> SUFFICES ASSUME ~CanUnload
             PROVE  Spec => []LoadedIsFound
  OBVIOUS
<1> DEFINE I == AliasesHeld(ring)
<1>1. Init => I
  BY RingFields DEF Init, AliasesHeld
<1>2. KeyringInv /\ I /\ [Next]_vars => I'
  <2> SUFFICES ASSUME KeyringInv, I, [Next]_vars
               PROVE  AliasesHeld(ring')
    OBVIOUS
  <2>1. ASSUME NEW k \in Keys, Load(k)
        PROVE  AliasesHeld(ring')
    <3>1. RingOK(AddKey(ring, k), Children(subkeys)) /\ AliasesHeld(AddKey(ring, k))
      BY AddKeyKeeps DEF KeyringInv
    <3>2. ring' = AddKey(ring, k)
      BY <2>1, <3>1, BecomesIt DEF Load, RingOK
    <3>3. QED
      BY <3>1, <3>2
  <2>2. CASE UNCHANGED ring
    BY <2>2
  <2>3. QED
    BY <2>1, <2>2 DEF Next, Unload, AdoptSubkey, vars, ring
<1>3. KeyringInv /\ I => LoadedIsFound
  <2> SUFFICES ASSUME KeyringInv, I, NEW k \in loaded, NEW a \in ToSet(Aliases[k])
               PROVE  GetKey(a) # {}
    BY DEF LoadedIsFound
  <2>1. ToSet(Aliases[k]) \subseteq Held(maps) /\ maps \in Seq(Dict)
    BY InvParts, RingFields DEF AliasesHeld
  <2>2. \E x \in Entries(maps) : x[1] = a
    BY <2>1 DEF Held
  <2>3. Holding(maps, a) # {}
    BY <2>1, <2>2, KeysOfFacts
  <2>4. QED
    BY <2>3 DEF GetKey
<1> HIDE DEF I
<1>4. QED
  BY <1>1, <1>2, <1>3, KeyringGood, PTL DEF Spec

-----------------------------------------------------------------------------
(***************************************************************************)
(* What load reports.                                                      *)
(***************************************************************************)
\* Subkeys are those a key may own; of a loaded key, each is loaded or was missed.
ReportedInv ==
  /\ \A p, s \in Keys : s \in ToSet(subkeys[p]) => MayOwn(p, s)
  /\ \A p \in loaded : ToSet(subkeys[p]) \subseteq loaded \cup missed
  /\ ReportedIsLoaded

\* Every step keeps it.
LEMMA ReportedStep == KeyringInv /\ ReportedInv /\ [Next]_vars => ReportedInv'
<1> SUFFICES ASSUME KeyringInv, ReportedInv, [Next]_vars
             PROVE  ReportedInv'
  OBVIOUS
<1>1. /\ RingOK(ring, Children(subkeys)) /\ subkeys \in [Keys -> Seq(Keys)]
      /\ loaded \subseteq Keys /\ \A p \in Keys : ToSet(subkeys[p]) \subseteq Keys
  BY InvParts, ToSetFacts DEF KeyringInv
<1>2. /\ \A p, s \in Keys : s \in ToSet(subkeys[p]) => MayOwn(p, s)
      /\ \A p \in loaded : ToSet(subkeys[p]) \subseteq loaded \cup missed
      /\ reported \ missed \subseteq loaded
  BY DEF ReportedInv, ReportedIsLoaded
<1>3. ASSUME NEW k \in Keys, Load(k)
      PROVE  ReportedInv'
  <2> DEFINE unit == {k} \cup ToSet(subkeys[k])
  <2>1. subkeys' = subkeys /\ reported' = unit
        /\ missed' = IF k \in loaded THEN missed ELSE missed \ unit
    BY <1>3 DEF Load
  <2>2. loaded' = loaded \cup (IF k \in loaded THEN {} ELSE unit)
    BY <1>1, <1>3, AddKeyKeeps, RingFields DEF Load, BecomesRing
  <2>3. ASSUME NEW p \in loaded'
        PROVE  ToSet(subkeys[p]) \subseteq loaded' \cup missed'
    <3>1. CASE p \in loaded \/ p = k
      BY <1>2, <2>1, <2>2, <3>1
    <3>2. CASE p \in ToSet(subkeys[k])
      <4>1. \A t \in ToSet(subkeys[p]) : MayOwn(k, p) /\ MayOwn(p, t) /\ t \in Keys /\ p \in Keys
        BY <1>1, <1>2, <3>2
      <4>2. QED
        BY <4>1, KeyringAssumption
    <3>3. QED
      BY <2>2, <3>1, <3>2
  <2>4. reported' \ missed' \subseteq loaded'
    BY <1>2, <2>1, <2>2
  <2> HIDE DEF unit
  <2>5. QED
    BY <1>2, <2>1, <2>3, <2>4 DEF ReportedInv, ReportedIsLoaded
<1>4. ASSUME NEW k \in Keys, Unload(k)
      PROVE  ReportedInv'
  <2> DEFINE unit == {k} \cup ToSet(subkeys[k])
  <2>1. subkeys' = subkeys /\ reported' = {}
        /\ missed' = IF k \in loaded THEN missed \cup unit ELSE missed
    BY <1>4 DEF Unload
  <2>2. loaded' = loaded \ (IF k \in loaded THEN unit ELSE {})
    BY <1>1, <1>4, DropKeyKeeps, RingFields DEF Unload, BecomesRing
  <2>3. \A p \in loaded' : ToSet(subkeys[p]) \subseteq loaded' \cup missed'
    BY <1>2, <2>1, <2>2
  <2> HIDE DEF unit
  <2>4. QED
    BY <1>2, <2>1, <2>3 DEF ReportedInv, ReportedIsLoaded
<1>5. ASSUME NEW ks \in Late, AdoptSubkey(ks[1], ks[2])
      PROVE  ReportedInv'
  <2> DEFINE k == ks[1]
             s == ks[2]
  <2>1. k \in Keys /\ s \in Keys /\ MayOwn(k, s)
    <3>1. ks \in Keys \X Keys
      BY KeyringAssumption
    <3>2. k \in Keys /\ s \in Keys /\ <<k, s>> \in Late
      BY <3>1
    <3>3. QED
      BY <3>2 DEF MayOwn
  <2>2. /\ subkeys' = [subkeys EXCEPT ![k] = Append(@, s)] /\ reported' = {}
        /\ loaded' = loaded /\ missed' = IF k \in loaded THEN missed \cup {s} ELSE missed
    BY <1>5 DEF AdoptSubkey
  <2> HIDE DEF k, s
  <2>3. ToSet(Append(subkeys[k], s)) = ToSet(subkeys[k]) \cup {s}
    BY <1>1, <2>1, AppendFacts
  <2> DEFINE grown == Append(subkeys[k], s)
  <2> HIDE DEF grown
  <2>4. \A p \in Keys : subkeys'[p] = IF p = k THEN grown ELSE subkeys[p]
    BY <1>1, <2>2 DEF grown
  <2>5. \A p \in Keys : ToSet(subkeys'[p]) = ToSet(subkeys[p]) \cup (IF p = k THEN {s} ELSE {})
    BY <2>3, <2>4 DEF grown
  <2>6. \A p, t \in Keys : t \in ToSet(subkeys'[p]) => MayOwn(p, t)
    BY <1>2, <2>1, <2>5
  <2>7. \A p \in loaded' : ToSet(subkeys'[p]) \subseteq loaded' \cup missed'
    BY <1>1, <1>2, <2>2, <2>5
  <2>8. QED
    BY <2>2, <2>6, <2>7 DEF ReportedInv, ReportedIsLoaded
<1>6. CASE UNCHANGED vars
  BY <1>2, <1>6 DEF vars, ReportedInv, ReportedIsLoaded
<1>7. QED
  BY <1>3, <1>4, <1>5, <1>6 DEF Next

\* Whatever the caller loads, unloads and adds to key objects, load reports no key that is
\* not in the keyring, but for those it passes over: unloaded by themselves, or got by a
\* key that was loaded already (load, _add_key, unload).
THEOREM ReportedAlwaysLoaded == Spec => []ReportedIsLoaded
<1>1. Init => ReportedInv
  BY DEF Init, ReportedInv, ReportedIsLoaded, MayOwn
<1>2. KeyringInv /\ ReportedInv /\ [Next]_vars => ReportedInv'
  BY ReportedStep
<1>3. ReportedInv => ReportedIsLoaded
  BY DEF ReportedInv
<1>4. QED
  BY <1>1, <1>2, <1>3, KeyringGood, PTL DEF Spec

-----------------------------------------------------------------------------
(***************************************************************************)
(* The refinement.                                                         *)
(***************************************************************************)
\* An alias has at most two keys, such as the two halves of one, and no alias is
\* another one with spaces.
AtMostTwo ==
  /\ \A a \in Alias : Squeeze[a] = a
  /\ \A a \in Alias : \A i, j, k \in Keys :
       HasAlias(i, a) /\ HasAlias(j, a) /\ HasAlias(k, a) => i = j \/ j = k \/ i = k

\* An alias that has one entry has it in the last map.
OnceLast(ms) ==
  \A x \in Entries(ms) :
    \/ x \in ToSet(ms[Len(ms)])
    \/ \E y \in Entries(ms) : y[1] = x[1] /\ y[2] # x[2]

\* Then a second key of an alias gets a map that does not have the alias: the one left
\* of the last.
LEMMA SecondKey ==
  ASSUME NEW ms, NEW L \in SUBSET Keys, MapsOK(ms, L), OnceLast(ms), AtMostTwo,
         NEW a \in Alias, NEW j \in Keys, NEW k \in Keys, j # k,
         HasAlias(k, a), <<a, j>> \in Entries(ms), <<a, k>> \notin Entries(ms)
  PROVE  /\ Depth(ms, a) # Len(Grown(ms, a))
         /\ ~Has(Grown(ms, a)[Depth(ms, a)], a)
         /\ Grown(ms, a)[Len(Grown(ms, a))] = ms[Len(ms)]
<1>1. /\ ms \in Seq(Dict) /\ ms # <<>> /\ Ordered(ms) /\ DictsOK(ms)
      /\ \A x \in Entries(ms) : x[2] \in L /\ HasAlias(x[2], x[1])
  BY DEF MapsOK
<1>2. Len(ms) \in 1 .. Len(ms) /\ Len(ms) \in Nat /\ DOMAIN ms = 1 .. Len(ms)
  BY <1>1
<1>3. \A x \in Entries(ms) : x[1] = a => x = <<a, j>>
  <2>1. ASSUME NEW x \in Entries(ms), x[1] = a
        PROVE  x = <<a, j>>
    <3>1. x \in Alias \X Keys /\ HasAlias(x[2], a) /\ x = <<a, x[2]>> /\ x[2] \in Keys
      BY <1>1, <2>1, EntriesFacts
    <3>2. x[2] # k
      BY <3>1
    <3>3. HasAlias(j, a)
      <4>1. <<a, j>>[1] = a /\ <<a, j>>[2] = j
        OBVIOUS
      <4>2. QED
        BY <1>1, <4>1, Zenon
    <3>4. x[2] = j
      BY <3>1, <3>2, <3>3, Zenon DEF AtMostTwo
    <3>5. QED
      BY <3>1, <3>4
  <2>2. QED
    BY <2>1
<1>4. <<a, j>> \in ToSet(ms[Len(ms)])
  <2>1. <<a, j>>[1] = a /\ <<a, j>>[2] = j
    OBVIOUS
  <2>2. \A y \in Entries(ms) : y[1] = a => y[2] = j
    BY <1>3, <2>1
  <2>3. QED
    BY <2>1, <2>2, Zenon DEF OnceLast
<1>5. Holding(ms, a) = {Len(ms)}
  <2>1. \A i \in 1 .. Len(ms) : i \in Holding(ms, a) <=> Has(ms[i], a)
    BY <1>2 DEF Holding
  <2>2. \A i \in 1 .. Len(ms) : Has(ms[i], a) <=> \E x \in ToSet(ms[i]) : x[1] = a
    <3>1. ASSUME NEW i \in 1 .. Len(ms)
          PROVE  Has(ms[i], a) <=> \E x \in ToSet(ms[i]) : x[1] = a
      <4>1. ms[i] \in Dict
        BY <1>1
      <4>2. QED
        BY <4>1, MapFacts
    <3>2. QED
      BY <3>1
  <2>3. Len(ms) \in Holding(ms, a)
    <3>1. <<a, j>>[1] = a
      OBVIOUS
    <3>2. QED
      BY <1>2, <1>4, <2>1, <2>2, <3>1
  <2>4. ASSUME NEW i \in 1 .. Len(ms), Has(ms[i], a)
        PROVE  i = Len(ms)
    <3>1. <<a, j>> \in ToSet(ms[i])
      <4>1. PICK x \in ToSet(ms[i]) : x[1] = a
        BY <2>2, <2>4
      <4>2. x \in Entries(ms)
        BY <1>1, EntriesFacts
      <4>3. QED
        BY <1>3, <4>1, <4>2
    <3>2. ~(i < Len(ms))
      <4>1. ASSUME i < Len(ms)
            PROVE  FALSE
        <5>1. Ranked(<<a, j>>, <<a, j>>)
          BY <1>1, <1>2, <1>4, <3>1, <4>1 DEF Ordered
        <5>2. QED
          BY <5>1, Zenon DEF Ranked
      <4>2. QED
        BY <4>1
    <3> DEFINE n == Len(ms)
    <3>3. i \in 1 .. n /\ n \in Nat /\ ~(i < n)
      BY <1>2, <3>2
    <3> HIDE DEF n
    <3>4. i = n
      BY <3>3
    <3>5. QED
      BY <3>4 DEF n
  <2>5. Holding(ms, a) \subseteq 1 .. Len(ms)
    BY <1>2 DEF Holding
  <2>6. QED
    BY <2>1, <2>3, <2>4, <2>5
<1>6. Cardinality(Holding(ms, a)) = 1
  BY <1>5, FS_Singleton
<1>7. CASE Len(ms) = 1
  <2>1. Grown(ms, a) = <<EmptyMap>> \o ms /\ Depth(ms, a) = 1
    BY <1>6, <1>7 DEF Grown, Depth
  <2> DEFINE g == <<EmptyMap>> \o ms
  <2>2. Len(g) = 2 /\ g[1] = EmptyMap /\ g[2] = ms[1]
    <3>1. Len(g) = Len(ms) + 1 /\ g[1] = EmptyMap /\ \A i \in 1 .. Len(ms) : g[i + 1] = ms[i]
      BY <1>1, GrownFacts
    <3>2. g[1 + 1] = ms[1]
      BY <1>7, <3>1
    <3>3. QED
      BY <1>7, <3>1, <3>2
  <2> HIDE DEF g
  <2>3. ~Has(EmptyMap, a)
    BY DEF Has, EmptyMap
  <2>4. QED
    BY <1>7, <2>1, <2>2, <2>3 DEF g
<1>8. CASE Len(ms) # 1
  <2>1. Grown(ms, a) = ms /\ Depth(ms, a) = Len(ms) - 1
    BY <1>2, <1>6, <1>8 DEF Grown, Depth
  <2>2. Len(ms) - 1 \in 1 .. Len(ms) /\ Len(ms) - 1 # Len(ms)
    <3> DEFINE n == Len(ms)
    <3>1. n \in 1 .. n /\ n \in Nat /\ n # 1
      BY <1>2, <1>8
    <3> HIDE DEF n
    <3>2. n - 1 \in 1 .. n /\ n - 1 # n
      BY <3>1
    <3>3. QED
      BY <3>2 DEF n
  <2>3. ~Has(ms[Len(ms) - 1], a)
    BY <1>2, <1>5, <2>2 DEF Holding
  <2>4. QED
    BY <2>1, <2>2, <2>3
<1>9. QED
  BY <1>7, <1>8

\* Adding an alias then adds its entry and nothing else.
LEMMA AddAliasExact ==
  ASSUME NEW ms, NEW L \in SUBSET Keys, MapsOK(ms, L), OnceLast(ms), AtMostTwo,
         NEW a \in Alias, NEW k \in L, HasAlias(k, a)
  PROVE  LET t == AddAlias(ms, a, k)
         IN  MapsOK(t, L) /\ OnceLast(t) /\ Entries(t) = Entries(ms) \cup {<<a, k>>}
<1> DEFINE t == AddAlias(ms, a, k)
           e == <<a, k>>
<1>1. /\ ms \in Seq(Dict) /\ ms # <<>> /\ DictsOK(ms) /\ Ordered(ms) /\ k \in Keys
      /\ Len(ms) \in 1 .. Len(ms)
  BY DEF MapsOK
<1>2. MapsOK(t, L) /\ e[1] = a /\ e[2] = k
  BY AddAliasKeeps
<1> HIDE DEF e
<1>3. CASE ~Known(ms, a)
  <2>1. t = Put(ms, Len(ms), a, k)
    BY <1>3, AddAliasBranches
  <2> HIDE DEF t
  <2>2. \A x \in Entries(ms) : x[1] # a
    BY <1>1, <1>3, KnownFacts
  <2>3. ~Has(ms[Len(ms)], a)
    <3>1. ms[Len(ms)] \in Dict /\ \A x \in ToSet(ms[Len(ms)]) : x \in Entries(ms)
      BY <1>1, EntriesFacts
    <3>2. QED
      BY <2>2, <3>1, MapFacts
  <2>4. /\ Len(t) = Len(ms)
        /\ ToSet(t[Len(ms)]) = {x \in ToSet(ms[Len(ms)]) : x[1] # a} \cup {e}
    BY <1>1, <2>1, PutFacts DEF e
  <2>5. /\ Entries(t) \subseteq Entries(ms) \cup {e} /\ e \in Entries(t)
        /\ \A x \in Entries(ms) : x \in Entries(t)
    BY <1>1, <2>1, <2>3, PutEntries DEF e
  <2>6. Entries(t) = Entries(ms) \cup {e}
    BY <2>5
  <2>7. \A x \in ToSet(ms[Len(ms)]) : x \in ToSet(t[Len(t)])
    <3>1. \A x \in ToSet(ms[Len(ms)]) : x \in Entries(ms)
      BY <1>1, EntriesFacts
    <3>2. QED
      BY <2>2, <2>4, <3>1
  <2>8. OnceLast(t)
    BY <2>4, <2>6, <2>7 DEF OnceLast
  <2>9. QED
    BY <1>2, <2>6, <2>8 DEF t, e
<1>4. CASE Known(ms, a) /\ k \in KeysOf(ms, a)
  <2>1. t = ms
    BY <1>4, AddAliasBranches
  <2>2. e \in Entries(ms)
    BY <1>1, <1>4, KeysOfFacts DEF e
  <2>3. Entries(ms) = Entries(ms) \cup {e}
    BY <2>2
  <2>4. QED
    BY <2>1, <2>3 DEF e
<1>5. CASE Known(ms, a) /\ k \notin KeysOf(ms, a)
  <2> DEFINE g == Grown(ms, a)
             d == Depth(ms, a)
             u == Put(g, d, a, k)
  <2>1. t = SortAlias(u, a)
    BY <1>5, AddAliasBranches
  <2>2. e \notin Entries(ms)
    BY <1>1, <1>2, <1>5, KeysOfFacts
  <2>3. PICK f \in Entries(ms) : f[1] = a /\ f[2] # k
    <3>1. Holding(ms, a) # {}
      BY <1>5 DEF Known, AtMostTwo
    <3>2. PICK f \in Entries(ms) : f[1] = a
      BY <1>1, <3>1, KeysOfFacts
    <3>3. f[2] # k
      BY <1>1, <1>5, <3>2, KeysOfFacts
    <3>4. QED
      BY <3>2, <3>3
  <2>4. f[2] \in Keys /\ f = <<a, f[2]>>
    BY <1>1, <2>3, EntriesFacts
  <2>5. d # Len(g) /\ ~Has(g[d], a) /\ g[Len(g)] = ms[Len(ms)]
    <3> DEFINE j == f[2]
    <3>1. j \in Keys /\ j # k /\ <<a, j>> \in Entries(ms)
      BY <2>3, <2>4
    <3> HIDE DEF j
    <3>2. QED
      BY <1>1, <2>2, <3>1, SecondKey DEF e
  <2>6. /\ g \in Seq(Dict) /\ DictsOK(g) /\ Ordered(g) /\ Entries(g) = Entries(ms)
        /\ d \in 1 .. Len(g)
    BY <1>1, GrownDepth
  <2> HIDE DEF t, g, d
  <2>7. /\ u \in Seq(Dict) /\ Len(u) = Len(g) /\ DictsOK(u) /\ OrderedBut(u, a)
        /\ \A i \in 1 .. Len(g) : i # d => u[i] = g[i]
    BY <1>1, <2>6, PutFacts
  <2>8. /\ Entries(u) \subseteq Entries(g) \cup {e} /\ e \in Entries(u)
        /\ \A x \in Entries(g) : x \in Entries(u)
    BY <1>1, <2>5, <2>6, PutEntries DEF e
  <2> HIDE DEF u
  <2>9. u[Len(u)] = ms[Len(ms)]
    <3>1. Len(g) \in 1 .. Len(g)
      BY <2>6
    <3>2. QED
      BY <2>5, <2>7, <3>1
  <2>10. /\ Entries(t) = Entries(u)
         /\ \A x \in ToSet(ms[Len(ms)]) : x[1] # a => x \in ToSet(t[Len(t)])
    <3>1. Entries(u) # {}
      BY <2>8
    <3>2. QED
      BY <2>1, <2>7, <2>9, <3>1, SortAliasKeeps
  <2>11. Entries(t) = Entries(ms) \cup {e}
    BY <2>6, <2>8, <2>10
  <2>12. ASSUME NEW x \in Entries(t)
         PROVE  \/ x \in ToSet(t[Len(t)])
                \/ \E y \in Entries(t) : y[1] = x[1] /\ y[2] # x[2]
    <3>1. CASE x[1] = a
      <4>1. x[2] # f[2] \/ x[2] # k
        BY <2>3
      <4>2. e \in Entries(t) /\ f \in Entries(t)
        BY <2>3, <2>11
      <4>3. QED
        BY <1>2, <2>3, <3>1, <4>1, <4>2
    <3>2. CASE x[1] # a
      <4>1. x \in Entries(ms)
        BY <1>2, <2>11, <3>2
      <4>2. CASE x \in ToSet(ms[Len(ms)])
        BY <2>10, <3>2, <4>2
      <4>3. CASE \E y \in Entries(ms) : y[1] = x[1] /\ y[2] # x[2]
        BY <2>11, <4>3
      <4>4. QED
        BY <4>1, <4>2, <4>3 DEF OnceLast
    <3>3. QED
      BY <3>1, <3>2
  <2>13. OnceLast(t)
    BY <2>12 DEF OnceLast
  <2>14. QED
    BY <1>2, <2>11, <2>13 DEF t, e
<1>6. QED
  BY <1>3, <1>4, <1>5

\* So a new key adds an entry for each of its aliases.
LEMMA AddAliasesExact ==
  ASSUME NEW L \in SUBSET Keys, NEW ms, MapsOK(ms, L), OnceLast(ms), AtMostTwo, NEW k \in L
  PROVE  LET t == AddAliases(ms, k)
         IN  OnceLast(t) /\ Entries(t) = Entries(ms) \cup {<<a, k>> : a \in ToSet(Aliases[k])}
<1> DEFINE B == {m \in Seq(Dict) : MapsOK(m, L) /\ OnceLast(m)}
           q == Aliases[k]
           n == Len(q)
<1>1. q \in Seq(Alias) /\ n \in Nat /\ k \in Keys
  BY KeyringAssumption
<1>2. \A i \in 1 .. n : q[i] \in Alias /\ HasAlias(k, q[i])
  <2>1. \A i \in 1 .. n : q[i] \in ToSet(q)
    BY <1>1, ToSetFacts
  <2>2. QED
    BY <1>1, <2>1 DEF HasAlias
<1>3. ms \in B /\ \A m \in B : MapsOK(m, L) /\ OnceLast(m)
  BY DEF MapsOK
<1>4. ASSUME NEW m \in B, NEW i \in 1 .. n
      PROVE  /\ AddAlias(m, q[i], k) \in B
             /\ Entries(AddAlias(m, q[i], k)) = Entries(m) \cup {<<q[i], k>>}
  <2> DEFINE a == q[i]
             t == AddAlias(m, a, k)
  <2>1. a \in Alias /\ HasAlias(k, a)
    BY <1>2
  <2> HIDE DEF a
  <2>2. MapsOK(t, L) /\ OnceLast(t) /\ Entries(t) = Entries(m) \cup {<<a, k>>}
    BY <1>3, <2>1, AddAliasExact
  <2> HIDE DEF t
  <2>3. t \in B
    BY <2>2 DEF MapsOK
  <2>4. QED
    BY <2>2, <2>3 DEF t, a
<1> HIDE DEF B
<1>5. PICK r : AddAliasRun(r, q, k, B, ms)
  <2>1. \A m \in B, i \in 1 .. Len(q) : AddAlias(m, q[i], k) \in B
    BY <1>4
  <2> HIDE DEF q, n
  <2>2. \E r : AddAliasRun(r, q, k, B, ms)
    BY <1>1, <1>3, <2>1, AddAliasSteps
  <2>3. QED
    BY <2>2
<1>6. /\ r \in [0 .. n -> B] /\ r[0] = ms /\ AddAliases(ms, k) = r[n]
      /\ \A j \in 0 .. n - 1 : r[j] \in B /\ r[j + 1] = AddAlias(r[j], q[j + 1], k)
  BY <1>5 DEF AddAliasRun, AddAliases
<1> HIDE DEF q
<1> DEFINE T == {j \in 0 .. n : Entries(r[j]) = Entries(ms) \cup {<<q[i], k>> : i \in 1 .. j}}
<1>7. 0 \in T
  <2>1. 0 \in 0 .. n /\ {<<q[i], k>> : i \in 1 .. 0} = {}
    BY <1>1
  <2>2. QED
    BY <1>6, <2>1
<1>8. ASSUME NEW j \in 0 .. n - 1, j \in T
      PROVE  j + 1 \in T
  <2>1. j + 1 \in 1 .. n /\ j + 1 \in 0 .. n
        /\ \A i : i \in 1 .. j + 1 <=> i \in 1 .. j \/ i = j + 1
    BY <1>1
  <2>2. Entries(r[j + 1]) = Entries(r[j]) \cup {<<q[j + 1], k>>}
    BY <1>4, <1>6, <2>1
  <2>3. Entries(r[j]) = Entries(ms) \cup {<<q[i], k>> : i \in 1 .. j}
    BY <1>8
  <2>4. {<<q[i], k>> : i \in 1 .. j + 1} = {<<q[i], k>> : i \in 1 .. j} \cup {<<q[j + 1], k>>}
    BY <2>1
  <2>5. Entries(r[j + 1]) = Entries(ms) \cup {<<q[i], k>> : i \in 1 .. j + 1}
    BY <2>2, <2>3, <2>4
  <2>6. QED
    BY <2>1, <2>5
<1>9. n \in 0 .. n /\ n \in T
  <2>1. n \in 0 .. n
    BY <1>1
  <2> HIDE DEF T
  <2>2. QED
    BY <1>1, <1>7, <1>8, <2>1, BoundedInduction
<1>10. Entries(r[n]) = Entries(ms) \cup {<<q[i], k>> : i \in 1 .. n}
  BY <1>9
<1>11. {<<q[i], k>> : i \in 1 .. n} = {<<a, k>> : a \in ToSet(q)}
  <2>1. \A a : a \in ToSet(q) <=> \E i \in 1 .. n : q[i] = a
    BY <1>1, ToSetFacts
  <2>2. QED
    BY <2>1
<1>12. OnceLast(r[n])
  BY <1>3, <1>6, <1>9
<1>13. QED
  BY <1>6, <1>10, <1>11, <1>12 DEF q

\* All aliases of the keys of L.
FullIndex(L) == UNION {{<<a, m>> : a \in ToSet(Aliases[m])} : m \in L}

\* The maps hold them and nothing else.
Exact(r) == OnceLast(r.maps) /\ Entries(r.maps) = FullIndex(r.loaded)

LEMMA AddOneExact ==
  ASSUME NEW r, NEW k \in Keys, RingOK(r, Children(subkeys)), Exact(r), AtMostTwo
  PROVE  Exact(AddOne(r, k))
<1>1. CASE k \in r.loaded
  BY <1>1 DEF AddOne
<1>2. CASE k \notin r.loaded
  <2> DEFINE L == r.loaded \cup {k}
             m == AddAliases(r.maps, k)
  <2>1. AddOne(r, k).loaded = L /\ AddOne(r, k).maps = m
    BY <1>2 DEF AddOne, AddAliases
  <2>2. r.loaded \in SUBSET Keys /\ MapsOK(r.maps, r.loaded)
    BY DEF RingOK, RingType
  <2>3. L \in SUBSET Keys /\ k \in L /\ MapsOK(r.maps, L)
    <3>1. L \in SUBSET Keys /\ r.loaded \subseteq L
      BY <2>2
    <3>2. MapsOK(r.maps, L)
      BY <2>2, <3>1, MapsOKMore
    <3>3. QED
      BY <3>1, <3>2
  <2>4. OnceLast(r.maps) /\ Entries(r.maps) = FullIndex(r.loaded)
    BY DEF Exact
  <2>5. FullIndex(L) = FullIndex(r.loaded) \cup {<<a, k>> : a \in ToSet(Aliases[k])}
    BY DEF FullIndex
  <2> HIDE DEF L
  <2>6. OnceLast(m) /\ Entries(m) = Entries(r.maps) \cup {<<a, k>> : a \in ToSet(Aliases[k])}
    BY <2>3, <2>4, AddAliasesExact
  <2>7. QED
    BY <2>1, <2>4, <2>5, <2>6 DEF Exact
<1>3. QED
  BY <1>1, <1>2

\* And so does a key with its subkeys.
LEMMA AddKeyExact ==
  ASSUME NEW r, NEW k \in Keys, RingOK(r, Children(subkeys)), subkeys[k] \in Seq(Keys),
         Exact(r), AtMostTwo
  PROVE  Exact(AddKey(r, k))
<1> DEFINE C == Children(subkeys)
           B == {x \in RingType : RingOK(x, C) /\ Exact(x)}
           q == subkeys[k]
           one == AddOne(r, k)
<1>1. CASE k \in r.loaded
  BY <1>1 DEF AddKey
<1>2. CASE k \notin r.loaded
  <2>1. \A x : RingOK(x, C) /\ Exact(x) <=> x \in B
    BY DEF RingOK
  <2>2. ASSUME NEW x \in B, NEW j \in Keys
        PROVE  AddOne(x, j) \in B
    <3>1. RingOK(x, Children(subkeys)) /\ Exact(x)
      BY <2>1
    <3> HIDE DEF B
    <3>2. RingOK(AddOne(x, j), Children(subkeys))
      BY <3>1, AddOneKeeps
    <3>3. Exact(AddOne(x, j))
      BY <3>1, AddOneExact
    <3>4. QED
      BY <2>1, <3>2, <3>3
  <2>3. r \in B
    BY <2>1
  <2> HIDE DEF B
  <2>4. one \in B
    BY <2>2, <2>3
  <2>5. AddKey(r, k) = FoldLeft(AddOne, one, q)
    BY <1>2 DEF AddKey
  <2>6. q \in Seq(Keys) /\ \A i \in 1 .. Len(q) : q[i] \in Keys
    OBVIOUS
  <2> HIDE DEF one, q
  <2>7. PICK f : AddOneRun(f, q, B, one)
    <3>1. \A x \in B, i \in 1 .. Len(q) : AddOne(x, q[i]) \in B
      BY <2>2, <2>6
    <3>2. \E f : AddOneRun(f, q, B, one)
      BY <2>4, <2>6, <3>1, AddOneSteps
    <3>3. QED
      BY <3>2
  <2>8. AddKey(r, k) \in B
    <3>1. f \in [0 .. Len(q) -> B] /\ AddKey(r, k) = f[Len(q)] /\ Len(q) \in 0 .. Len(q)
      BY <2>5, <2>6, <2>7 DEF AddOneRun
    <3>2. QED
      BY <3>1
  <2>9. QED
    BY <2>1, <2>8
<1>3. QED
  BY <1>1, <1>2

\* The relation that maps stand for.
IndexOf(ms) == {entry \in Alias \X Keys : entry[2] \in KeysOf(ms, entry[1])}

\* It is the set of their entries.
LEMMA IndexFacts ==
  ASSUME NEW ms, NEW L \in SUBSET Keys, MapsOK(ms, L)
  PROVE  IndexOf(ms) = Entries(ms)
<1>1. ms \in Seq(Dict) /\ DictsOK(ms)
  BY DEF MapsOK
<1>2. ASSUME NEW x \in Entries(ms)
      PROVE  x \in IndexOf(ms)
  <2>1. x \in Alias \X Keys
    BY <1>1, EntriesFacts
  <2>2. x[2] \in KeysOf(ms, x[1])
    BY <1>1, KeysOfFacts
  <2>3. QED
    BY <2>1, <2>2 DEF IndexOf
<1>3. ASSUME NEW x \in IndexOf(ms)
      PROVE  x \in Entries(ms)
  <2>1. x \in Alias \X Keys /\ x[2] \in KeysOf(ms, x[1])
    BY DEF IndexOf
  <2>2. <<x[1], x[2]>> \in Entries(ms)
    BY <1>1, <2>1, KeysOfFacts
  <2>3. x = <<x[1], x[2]>>
    BY <2>1
  <2>4. QED
    BY <2>2, <2>3
<1>4. QED
  BY <1>2, <1>3

ExactInv == Exact(ring)

\* At first there is nothing to hold.
LEMMA ExactInit == Init => ExactInv /\ Index = {}
<1> SUFFICES ASSUME Init
             PROVE  ExactInv /\ Index = {}
  OBVIOUS
<1>1. loaded = {} /\ maps = <<EmptyMap>>
  BY DEF Init
<1>2. KeyringInv
  BY InitHolds
<1>3. MapsOK(maps, loaded) /\ \A x \in Entries(maps) : x[2] \in loaded
  BY <1>2, RingFields DEF KeyringInv, RingOK, MapsOK
<1>4. Entries(maps) = {} /\ FullIndex(loaded) = {}
  BY <1>1, <1>3 DEF FullIndex
<1>5. OnceLast(maps)
  BY <1>4 DEF OnceLast
<1>6. IndexOf(maps) = {}
  BY <1>1, <1>3, <1>4, IndexFacts
<1>7. QED
  BY <1>4, <1>5, <1>6, RingFields DEF ExactInv, Exact, Index, IndexOf

\* Every step keeps it so.
LEMMA ExactStep ==
  ASSUME LoadOnly, AtMostTwo, KeyringInv, LoadOnlyInv, ExactInv, [Next]_vars
  PROVE  ExactInv'
<1>1. RingOK(ring, Children(subkeys)) /\ subkeys \in [Keys -> Seq(Keys)] /\ Exact(ring)
  BY DEF KeyringInv, ExactInv
<1>2. CASE UNCHANGED vars
  BY <1>1, <1>2 DEF vars, ExactInv, ring
<1>3. ASSUME NEW k \in Keys, ring' = AddKey(ring, k)
      PROVE  ExactInv'
  <2>1. subkeys[k] \in Seq(Keys)
    BY <1>1
  <2>2. Exact(AddKey(ring, k))
    BY <1>1, <2>1, AddKeyExact
  <2>3. Exact(ring')
    BY <1>3, <2>2
  <2>4. QED
    BY <2>3 DEF ExactInv
<1>4. QED
  BY <1>2, <1>3, LoadOnlyStep

\* With nothing unloaded and two keys at most to an alias, what the maps stand for is
\* all aliases of the loaded keys, so that a load does what KeyringAbs says of it
\* (load, _add_key, _add_alias, _sort_alias).
THEOREM ImplementsAbsAlways == LoadOnly /\ AtMostTwo => (Spec => ImplementsAbs)
<1> SUFFICES ASSUME LoadOnly, AtMostTwo
             PROVE  Spec => ImplementsAbs
  OBVIOUS
<1>1. Init => Abs!Init
  BY ExactInit DEF Init, Abs!Init
<1>2. ASSUME KeyringInv, LoadOnlyInv, ExactInv, KeyringInv', ExactInv', [Next]_vars
      PROVE  [Abs!Next]_(Abs!vars)
  <2>1. Index = FullIndex(loaded)
    <3>1. MapsOK(maps, loaded) /\ loaded \in SUBSET Keys /\ Entries(maps) = FullIndex(loaded)
      BY <1>2, InvParts, RingFields DEF KeyringInv, RingOK, ExactInv, Exact
    <3>2. IndexOf(maps) = FullIndex(loaded)
      BY <3>1, IndexFacts
    <3>3. QED
      BY <3>2 DEF Index, IndexOf
  <2>2. Index' = FullIndex(loaded')
    <3>1. ring'.maps = maps' /\ ring'.loaded = loaded'
      BY DEF ring
    <3>2. RingOK(ring', Children(subkeys')) /\ Exact(ring')
      BY <1>2 DEF KeyringInv, ExactInv
    <3>3. /\ MapsOK(maps', loaded') /\ loaded' \in SUBSET Keys
          /\ Entries(maps') = FullIndex(loaded')
      BY <3>1, <3>2 DEF RingOK, RingType, Exact
    <3>4. IndexOf(maps') = FullIndex(loaded')
      BY <3>3, IndexFacts
    <3>5. Index' = IndexOf(maps')
      BY DEF Index, IndexOf
    <3>6. QED
      BY <3>4, <3>5
  <2>3. CASE UNCHANGED vars
    <3>1. loaded' = loaded /\ reported' = reported
      BY <2>3 DEF vars
    <3>2. QED
      BY <2>1, <2>2, <3>1 DEF Abs!vars
  <2>4. ASSUME NEW k \in Keys, loaded' = loaded \cup {k} \cup ToSet(Subkeys0[k]),
               reported' = {k} \cup ToSet(Subkeys0[k])
        PROVE  Abs!Next
    <3> DEFINE M == {k} \cup ToSet(Subkeys0[k])
    <3>1. M \subseteq Keys
      <4>1. Subkeys0[k] \in Seq(Keys)
        BY KeyringAssumption
      <4>2. QED
        BY <4>1, ToSetFacts
    <3>2. loaded' = loaded \cup M /\ reported' = M
      BY <2>4
    <3> HIDE DEF M
    <3>3. FullIndex(loaded \cup M) =
            FullIndex(loaded) \cup UNION {{<<a, m>> : a \in ToSet(Aliases[m])} : m \in M}
      BY DEF FullIndex
    <3>4. Index' = Index \cup UNION {{<<a, m>> : a \in ToSet(Aliases[m])} : m \in M}
      BY <2>1, <2>2, <3>2, <3>3
    <3>5. UNION {{<<a, m>> : a \in [j \in Keys |-> ToSet(Aliases[j])][m]} : m \in M}
            = UNION {{<<a, m>> : a \in ToSet(Aliases[m])} : m \in M}
      BY <3>1
    <3>6. [j \in Keys |-> {j} \cup ToSet(Subkeys0[j])][k] = M
      BY DEF M
    <3>7. Abs!Load(k)
      BY <3>2, <3>4, <3>5, <3>6 DEF Abs!Load
    <3>8. QED
      BY <3>7 DEF Abs!Next
  <2>5. QED
    BY <1>2, <2>3, <2>4, LoadOnlyStep
<1>3. Init => ExactInv
  BY ExactInit
<1>4. KeyringInv /\ LoadOnlyInv /\ ExactInv /\ [Next]_vars => ExactInv'
  BY ExactStep
<1>5. QED
  BY <1>1, <1>2, <1>3, <1>4, KeyringGood, LoadedStaysReachable, PTL
     DEF Spec, ImplementsAbs, Abs!Spec

=============================================================================
