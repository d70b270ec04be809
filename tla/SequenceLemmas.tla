--------------------------- MODULE SequenceLemmas ---------------------------
(***************************************************************************)
(* Facts about numbers, sequences, folds and bisection that the proofs of  *)
(* several modules rest on.  Induction is by the least number for which a  *)
(* statement would fail.                                                   *)
(***************************************************************************)
EXTENDS SorteDeque, FiniteSetsExt, Functions, WellFoundedInduction, FiniteSetTheorems, TLAPS

\* A set of natural numbers that is not empty has a least element.
LEMMA LeastNatural ==
  ASSUME NEW S \in SUBSET Nat, S # {}
  PROVE  \E m \in S : \A k \in S : m <= k
<1> DEFINE R == {ss \in Nat \X Nat : ss[1] < ss[2]}
<1>1. IsWellFoundedOn(R, Nat)
  BY NatLessThanWellFounded, Zenon DEF OpToRel
<1>2. \A i, j \in Nat : i < j => <<i, j>> \in R
  OBVIOUS
<1> HIDE DEF R
<1>3. PICK m \in S : \A y \in S : ~(<<y, m>> \in R)
  BY <1>1, WFMin
<1>4. ASSUME NEW k \in S
      PROVE  m <= k
  <2>1. ~(k < m)
    BY <1>2, <1>3
  <2>2. QED
    BY <2>1
<1>5. QED
  BY <1>4

\* Induction up to a bound, for the set of the numbers that a statement holds of.
LEMMA BoundedInduction ==
  ASSUME NEW n \in Nat, NEW T,
         0 \in T,
         \A k \in 0 .. n - 1 : k \in T => k + 1 \in T
  PROVE  \A k \in 0 .. n : k \in T
<1> SUFFICES ASSUME NEW k \in 0 .. n, k \notin T
             PROVE  FALSE
  OBVIOUS
<1> DEFINE S == {i \in 0 .. n : i \notin T}
<1>1. S \in SUBSET Nat /\ k \in S
  OBVIOUS
<1>2. PICK m \in S : \A i \in S : m <= i
  <2> HIDE DEF S
  <2> QED
    BY <1>1, LeastNatural
<1>3. m # 0 /\ m - 1 \in 0 .. n - 1 /\ m - 1 \notin S
  BY <1>2
<1>4. QED
  BY <1>2, <1>3

\* A set of numbers with an upper bound has a greatest element, which is its Max.
LEMMA MaxOfBounded ==
  ASSUME NEW n \in Nat, NEW S \in SUBSET (0 .. n), S # {}
  PROVE  Max(S) \in S /\ \A k \in S : k <= Max(S)
<1> DEFINE U == {n - k : k \in S}
<1>0. PICK k \in S : TRUE
  OBVIOUS
<1>1. U \in SUBSET Nat /\ n - k \in U
  BY <1>0
<1>2. PICK u \in U : \A v \in U : u <= v
  <2> HIDE DEF U
  <2> QED
    BY <1>1, LeastNatural
<1>3. PICK m \in S : u = n - m
  BY <1>2
<1>4. ASSUME NEW j \in S
      PROVE  m >= j
  <2>1. n - j \in U /\ j \in Nat /\ m \in Nat
    OBVIOUS
  <2>2. u <= n - j
    BY <1>2, <2>1
  <2>3. QED
    BY <1>3, <2>1, <2>2
<1>5. QED
  BY <1>3, <1>4 DEF Max

\* The recursion under FoldLeft, over n items, has a solution.
Foldable(n, A, base, step) ==
  \E g \in [SUBSET (1 .. n) -> A] :
    \A s \in SUBSET (1 .. n) :
      g[s] = IF s = {} THEN base ELSE step[<<g[s \ {Max(s)}], Max(s)>>]

\* It has: each step goes from a set of places
\* without its greatest to the set with it.
LEMMA FoldRecursion ==
  ASSUME NEW A, NEW n \in Nat, NEW base \in A, NEW step \in [A \X (1 .. n) -> A]
  PROVE  Foldable(n, A, base, step)
<1> DEFINE Solves(g, k) ==
             \A s \in SUBSET (1 .. k) :
               g[s] = IF s = {} THEN base ELSE step[<<g[s \ {Max(s)}], Max(s)>>]
           F == [SUBSET (1 .. n) -> A]
           T == {k \in 0 .. n : \E g \in F : Solves(g, k)}
<1>1. 0 \in T
  <2> DEFINE g == [s \in SUBSET (1 .. n) |-> base]
  <2>1. g \in F /\ g[{}] = base
    OBVIOUS
  <2>2. \A s \in SUBSET (1 .. 0) : s = {}
    OBVIOUS
  <2> HIDE DEF g
  <2>3. Solves(g, 0)
    BY <2>1, <2>2
  <2> HIDE DEF Solves
  <2>4. QED
    BY <2>1, <2>3
<1>2. ASSUME NEW k \in 0 .. n - 1, k \in T
      PROVE  k + 1 \in T
  <2>1. PICK g \in F : Solves(g, k)
    BY <1>2
  <2>2. k \in Nat /\ k + 1 \in 1 .. n
    OBVIOUS
  <2>3. \A s \in SUBSET (1 .. n) : \A i : s \ {i} \in SUBSET (1 .. n)
    OBVIOUS
  <2> DEFINE h == [s \in SUBSET (1 .. n) |->
                     IF k + 1 \in s THEN step[<<g[s \ {k + 1}], k + 1>>] ELSE g[s]]
  <2>4. h \in F
    <3>1. ASSUME NEW s \in SUBSET (1 .. n)
          PROVE  g[s] \in A /\ g[s \ {k + 1}] \in A
      BY <2>1, <2>3
    <3>2. QED
      BY <2>2, <3>1
  <2>5. ASSUME NEW s \in SUBSET (1 .. k + 1), s # {}
        PROVE  h[s] = step[<<h[s \ {Max(s)}], Max(s)>>]
    <3>1. \A i \in s : i \in 0 .. k + 1 /\ i \in 1 .. n
      BY <2>2
    <3>2. Max(s) \in s /\ \A i \in s : i <= Max(s)
      <4>1. k + 1 \in Nat /\ s \in SUBSET (0 .. k + 1)
        BY <2>2, <3>1
      <4>2. QED
        BY <2>5, <4>1, MaxOfBounded
    <3>3. s \in SUBSET (1 .. n) /\ s \ {Max(s)} \in SUBSET (1 .. n)
      BY <3>1
    <3>4. CASE k + 1 \in s
      <4>1. Max(s) = k + 1
        <5>1. Max(s) \in 0 .. k + 1 /\ k + 1 <= Max(s)
          BY <3>1, <3>2, <3>4
        <5>2. QED
          BY <2>2, <5>1
      <4>2. h[s] = step[<<g[s \ {k + 1}], k + 1>>] /\ h[s \ {k + 1}] = g[s \ {k + 1}]
        BY <3>3, <3>4, <4>1
      <4>3. QED
        BY <4>1, <4>2
    <3>5. CASE k + 1 \notin s
      <4>1. s \in SUBSET (1 .. k)
        <5>1. ASSUME NEW i \in s PROVE i \in 1 .. k
          BY <2>2, <3>1, <3>5
        <5>2. QED
          BY <5>1
      <4>2. h[s] = g[s] /\ h[s \ {Max(s)}] = g[s \ {Max(s)}]
        BY <3>3, <3>5
      <4>3. QED
        BY <2>1, <2>5, <4>1, <4>2
    <3>6. QED
      BY <3>4, <3>5
  <2>6. h[{}] = base
    <3>1. g[{}] = base
      BY <2>1
    <3>2. QED
      BY <3>1
  <2> HIDE DEF h
  <2>7. Solves(h, k + 1)
    BY <2>5, <2>6
  <2> HIDE DEF Solves
  <2>8. QED
    BY <2>2, <2>4, <2>7
<1>3. n \in T
  <2> HIDE DEF T
  <2> QED
    BY <1>1, <1>2, BoundedInduction
<1>4. QED
  BY <1>3 DEF Foldable

\* What the recursion does from the first k places to the first k + 1.
LEMMA FirstPlaces ==
  ASSUME NEW n \in Nat, NEW k \in 0 .. n - 1
  PROVE  /\ 1 .. k + 1 \in SUBSET (1 .. n) /\ 1 .. k + 1 # {}
         /\ k + 1 \in 1 .. n
         /\ Max(1 .. k + 1) = k + 1
         /\ (1 .. k + 1) \ {k + 1} = 1 .. k
<1> DEFINE S == 1 .. k + 1
<1>1. k + 1 \in Nat /\ S \in SUBSET (0 .. k + 1) /\ k + 1 \in S /\ \A i \in S : i \in Nat /\ i <= k + 1
  OBVIOUS
<1>2. Max(S) = k + 1
  <2> HIDE DEF S
  <2>1. S # {}
    BY <1>1
  <2>2. Max(S) \in S /\ \A i \in S : i <= Max(S)
    BY <1>1, <2>1, MaxOfBounded
  <2>3. k + 1 <= Max(S) /\ Max(S) <= k + 1 /\ Max(S) \in Nat
    BY <1>1, <2>2
  <2> HIDE DEF S
  <2>4. QED
    BY <2>3
<1>3. QED
  BY <1>1, <1>2

\* A solution of the recursion, with what it says of the places that are not none.
FoldSolution(g, n, B, base, step) ==
  /\ g \in [SUBSET (1 .. n) -> B] /\ g[{}] = base
  /\ \A s \in SUBSET (1 .. n) : s # {} =>
       /\ Max(s) \in 1 .. n /\ g[s \ {Max(s)}] \in B
       /\ g[s] = step[<<g[s \ {Max(s)}], Max(s)>>]

\* There is one.
LEMMA FoldSolved ==
  ASSUME NEW B, NEW n \in Nat, NEW base \in B, NEW step \in [B \X (1 .. n) -> B]
  PROVE  \E g : FoldSolution(g, n, B, base, step)
<1>1. PICK g \in [SUBSET (1 .. n) -> B] :
        \A s \in SUBSET (1 .. n) :
          g[s] = IF s = {} THEN base ELSE step[<<g[s \ {Max(s)}], Max(s)>>]
  <2>1. Foldable(n, B, base, step)
    BY FoldRecursion
  <2>2. QED
    BY <2>1 DEF Foldable
<1>2. ASSUME NEW s \in SUBSET (1 .. n), s # {}
      PROVE  /\ Max(s) \in 1 .. n /\ g[s \ {Max(s)}] \in B
             /\ g[s] = step[<<g[s \ {Max(s)}], Max(s)>>]
  <2>1. s \in SUBSET (0 .. n)
    OBVIOUS
  <2>2. Max(s) \in s
    BY <1>2, <2>1, MaxOfBounded
  <2>3. QED
    BY <1>1, <1>2, <2>2
<1>3. g[{}] = base
  BY <1>1
<1>4. QED
  BY <1>2, <1>3 DEF FoldSolution

\* What a fold gives after 0, 1, .. of its n items.
FoldRun(r, n, B, base, step) ==
  /\ r \in [0 .. n -> B] /\ r[0] = base
  /\ \A k \in 0 .. n - 1 : r[k] \in B /\ r[k + 1] = step[<<r[k], k + 1>>]

\* iter follows the recursion wherever it has a value.
Follows(iter, n, B, base, step) ==
  /\ iter[{}] = base
  /\ \A s \in SUBSET (1 .. n) :
       s # {} /\ Max(s) \in 1 .. n /\ iter[s \ {Max(s)}] \in B =>
         iter[s] = step[<<iter[s \ {Max(s)}], Max(s)>>]

\* Its values are those of a run.
Runs(iter, n, B, base, step) ==
  \E r : FoldRun(r, n, B, base, step) /\ r[n] = iter[1 .. n]

\* A function that follows the recursion, read at the first places.
LEMMA RunOfFold ==
  ASSUME NEW B, NEW n \in Nat, NEW base \in B, NEW step \in [B \X (1 .. n) -> B],
         NEW iter, Follows(iter, n, B, base, step)
  PROVE  Runs(iter, n, B, base, step)
<1> DEFINE r == [k \in 0 .. n |-> iter[1 .. k]]
           T == {k \in 0 .. n : iter[1 .. k] \in B}
<1>1. ASSUME NEW k \in 0 .. n - 1, iter[1 .. k] \in B
      PROVE  iter[1 .. k + 1] = step[<<iter[1 .. k], k + 1>>] /\ iter[1 .. k + 1] \in B
  <2>1. /\ 1 .. k + 1 \in SUBSET (1 .. n) /\ 1 .. k + 1 # {} /\ Max(1 .. k + 1) = k + 1
        /\ (1 .. k + 1) \ {k + 1} = 1 .. k /\ k + 1 \in 1 .. n
    BY FirstPlaces
  <2>2. iter[1 .. k + 1] = step[<<iter[1 .. k], k + 1>>]
    BY <1>1, <2>1 DEF Follows
  <2>3. QED
    BY <1>1, <2>1, <2>2
<1>2. iter[1 .. 0] = base
  <2>1. 1 .. 0 = {}
    OBVIOUS
  <2>2. QED
    BY <2>1 DEF Follows
<1>3. \A k \in 0 .. n : k \in T
  <2>1. 0 \in T
    BY <1>2
  <2>2. ASSUME NEW k \in 0 .. n - 1, k \in T
        PROVE  k + 1 \in T
    <3>1. iter[1 .. k] \in B /\ k + 1 \in 0 .. n
      BY <2>2
    <3>2. iter[1 .. k + 1] \in B
      BY <1>1, <3>1
    <3>3. QED
      BY <3>1, <3>2
  <2> HIDE DEF T
  <2>3. QED
    BY <2>1, <2>2, BoundedInduction
<1>4. r \in [0 .. n -> B] /\ r[0] = base /\ r[n] = iter[1 .. n]
  BY <1>2, <1>3
<1>5. ASSUME NEW k \in 0 .. n - 1
      PROVE  r[k] \in B /\ r[k + 1] = step[<<r[k], k + 1>>]
  <2>1. k \in 0 .. n /\ k + 1 \in 0 .. n
    OBVIOUS
  <2>2. QED
    BY <1>1, <1>3, <2>1
<1> HIDE DEF r
<1>6. QED
  BY <1>4, <1>5 DEF FoldRun, Runs

-----------------------------------------------------------------------------
\* The middle of a range.
LEMMA Middle ==
  ASSUME NEW lo \in Nat, NEW hi \in Nat, lo < hi
  PROVE  (lo + hi) \div 2 \in lo .. hi - 1
OBVIOUS

\* What BisectLeft says of the range r, g saying it of the smaller ranges.
Probe(g, s, less, r) ==
  IF r[1] >= r[2] THEN r[1]
  ELSE IF less[s[(r[1] + r[2]) \div 2 + 1]] THEN g[<<(r[1] + r[2]) \div 2 + 1, r[2]>>]
       ELSE g[<<r[1], (r[1] + r[2]) \div 2>>]

\* The recursion of BisectLeft has a solution on the ranges in 0 .. n.
Bisects(n, s, less) ==
  \E g : /\ g = [r \in (0 .. n) \X (0 .. n) |-> g[r]]
         /\ \A r \in (0 .. n) \X (0 .. n) : g[r] = Probe(g, s, less, r)

\* It has, because the ranges get smaller.
LEMMA BisectRecursion ==
  ASSUME NEW n \in Nat, NEW s, NEW less
  PROVE  Bisects(n, s, less)
<1> DEFINE D == (0 .. n) \X (0 .. n)
           Value(g, r) == Probe(g, s, less, r)
           Solves(g, k) == \A r \in D : r[2] - r[1] <= k => g[r] = Value(g, r)
           T == {k \in 0 .. n : \E g : g = [r \in D |-> g[r]] /\ Solves(g, k)}
<1>1. 0 \in T
  <2> DEFINE g == [r \in D |-> r[1]]
  <2>1. g = [r \in D |-> g[r]] /\ \A r \in D : g[r] = r[1] /\ (r[2] - r[1] <= 0 => r[1] >= r[2])
    OBVIOUS
  <2> HIDE DEF g
  <2>2. Solves(g, 0)
    BY <2>1 DEF Probe
  <2> HIDE DEF Solves
  <2>3. QED
    BY <2>1, <2>2
<1>2. ASSUME NEW k \in 0 .. n - 1, k \in T
      PROVE  k + 1 \in T
  <2>1. PICK g : g = [r \in D |-> g[r]] /\ Solves(g, k)
    BY <1>2
  <2> DEFINE h == [r \in D |-> IF r[2] - r[1] <= k THEN g[r] ELSE Value(g, r)]
  <2>2. h = [r \in D |-> h[r]]
    OBVIOUS
  <2>3. ASSUME NEW r \in D, r[2] - r[1] <= k + 1
        PROVE  h[r] = Value(h, r)
    <3>1. h[r] = Value(g, r)
      BY <2>1
    <3>2. CASE r[1] >= r[2]
      BY <3>1, <3>2 DEF Probe
    <3>3. CASE r[1] < r[2]
      <4> DEFINE mid == (r[1] + r[2]) \div 2
      <4>1. r[1] \in Nat /\ r[2] \in Nat /\ r[2] <= n
        OBVIOUS
      <4>2. mid \in r[1] .. r[2] - 1
        BY <3>3, <4>1, Middle
      <4> HIDE DEF mid
      <4>3. /\ <<mid + 1, r[2]>> \in D /\ <<r[1], mid>> \in D
            /\ r[2] - (mid + 1) <= k /\ mid - r[1] <= k
        BY <2>3, <4>1, <4>2
      <4>4. h[<<mid + 1, r[2]>>] = g[<<mid + 1, r[2]>>] /\ h[<<r[1], mid>>] = g[<<r[1], mid>>]
        BY <4>3
      <4> HIDE DEF h
      <4>5. QED
        BY <3>1, <3>3, <4>4 DEF mid, Probe
    <3>4. QED
      BY <3>2, <3>3
  <2> HIDE DEF h
  <2>4. Solves(h, k + 1)
    BY <2>3
  <2> HIDE DEF Solves
  <2>5. QED
    BY <2>2, <2>4
<1>3. n \in T
  <2> HIDE DEF T
  <2> QED
    BY <1>1, <1>2, BoundedInduction
<1>4. PICK g : g = [r \in D |-> g[r]] /\ Solves(g, n)
  BY <1>3
<1>5. ASSUME NEW r \in D
      PROVE  g[r] = Value(g, r)
  <2>1. r[1] \in 0 .. n /\ r[2] \in 0 .. n
    OBVIOUS
  <2>2. r[2] - r[1] <= n
    BY <2>1
  <2> HIDE DEF Value, D
  <2>3. QED
    BY <1>4, <2>2
<1>6. QED
  BY <1>4, <1>5 DEF Bisects

\* bisect_left stops between an item that is less and one that is not.
LEMMA BisectLeftStops ==
  ASSUME NEW A, NEW s \in Seq(A), NEW less
  PROVE  LET b == BisectLeft(s, less)
         IN  /\ b \in 0 .. Len(s)
             /\ b # 0 => less[s[b]]
             /\ b # Len(s) => ~less[s[b + 1]]
<1> DEFINE n == Len(s)
           D == (0 .. n) \X (0 .. n)
           Solution(g) == g = [r \in D |-> Probe(g, s, less, r)]
           f == CHOOSE g : Solution(g)
           Stops(b) == b \in 0 .. n /\ (b # 0 => less[s[b]]) /\ (b # n => ~less[s[b + 1]])
           Between(r) == /\ r[1] <= r[2]
                         /\ r[1] # 0 => less[s[r[1]]]
                         /\ r[2] # n => ~less[s[r[2] + 1]]
           T == {k \in 0 .. n : \A r \in D : r[2] - r[1] <= k /\ Between(r) => Stops(f[r])}
<1>0. n \in Nat
  OBVIOUS
<1>1. BisectLeft(s, less) = f[<<0, n>>]
  BY DEF BisectLeft, Probe
<1>2. \A r \in D : f[r] = IF r[1] >= r[2] THEN r[1]
                          ELSE IF less[s[(r[1] + r[2]) \div 2 + 1]]
                               THEN f[<<(r[1] + r[2]) \div 2 + 1, r[2]>>]
                               ELSE f[<<r[1], (r[1] + r[2]) \div 2>>]
  <2> HIDE DEF n
  <2>1. \E g : Solution(g)
    <3>1. PICK g : /\ g = [r \in D |-> g[r]]
                   /\ \A r \in D : g[r] = Probe(g, s, less, r)
      <4>1. Bisects(n, s, less)
        BY <1>0, BisectRecursion
      <4>2. QED
        BY <4>1 DEF Bisects
    <3>2. Solution(g)
      BY <3>1
    <3> HIDE DEF Solution
    <3>3. QED
      BY <3>2
  <2>2. Solution(f)
    <3> HIDE DEF Solution
    <3> QED
      BY <2>1
  <2> HIDE DEF f
  <2>3. QED
    BY <2>2 DEF Probe
<1> HIDE DEF f, n
<1>3. 0 \in T
  <2>1. ASSUME NEW r \in D, r[2] - r[1] <= 0, Between(r)
        PROVE  Stops(f[r])
    <3>0. r[1] \in 0 .. n /\ r[2] \in 0 .. n
      OBVIOUS
    <3>1. r[1] = r[2] /\ r[1] >= r[2]
      BY <1>0, <2>1, <3>0
    <3>2. f[r] = r[1]
      <4> HIDE DEF D
      <4> QED
        BY <1>2, <3>1
    <3>3. QED
      BY <2>1, <3>0, <3>1, <3>2
  <2> HIDE DEF Stops, Between
  <2>2. QED
    BY <1>0, <2>1
<1>4. ASSUME NEW k \in 0 .. n - 1, k \in T
      PROVE  k + 1 \in T
  <2>1. ASSUME NEW r \in D, r[2] - r[1] <= k + 1, Between(r)
        PROVE  Stops(f[r])
    <3>1. CASE r[1] = r[2]
      <4>1. r[1] \in 0 .. n /\ r[1] >= r[2]
        BY <1>0, <3>1
      <4>2. f[r] = r[1]
        <5> HIDE DEF D
        <5> QED
          BY <1>2, <4>1
      <4>3. QED
        BY <2>1, <3>1, <4>1, <4>2
    <3>2. CASE r[1] # r[2]
      <4> DEFINE mid == (r[1] + r[2]) \div 2
      <4>1. r[1] \in Nat /\ r[2] \in Nat /\ r[2] <= n /\ r[1] < r[2]
        BY <1>0, <2>1, <3>2
      <4>2. mid \in r[1] .. r[2] - 1
        BY <4>1, Middle
      <4>3. f[r] = IF less[s[mid + 1]] THEN f[<<mid + 1, r[2]>>] ELSE f[<<r[1], mid>>]
        BY <1>2, <4>1
      <4> HIDE DEF mid
      <4>4. /\ <<mid + 1, r[2]>> \in D /\ <<r[1], mid>> \in D
            /\ r[2] - (mid + 1) <= k /\ mid - r[1] <= k
        BY <1>0, <2>1, <4>1, <4>2
      <4>5. CASE less[s[mid + 1]]
        <5>1. Between(<<mid + 1, r[2]>>)
          BY <2>1, <4>1, <4>2, <4>5
        <5> HIDE DEF Between, Stops
        <5>2. QED
          BY <1>4, <4>3, <4>4, <4>5, <5>1
      <4>6. CASE ~less[s[mid + 1]]
        <5>1. Between(<<r[1], mid>>)
          BY <2>1, <4>1, <4>2, <4>6
        <5> HIDE DEF Between, Stops
        <5>2. QED
          BY <1>4, <4>3, <4>4, <4>6, <5>1
      <4>7. QED
        BY <4>5, <4>6
    <3>3. QED
      BY <3>1, <3>2
  <2> HIDE DEF Stops, Between
  <2>2. QED
    BY <1>0, <1>4, <2>1
<1>5. n \in T
  <2> HIDE DEF T
  <2> QED
    <3>1. \A k \in 0 .. n : k \in T
      BY <1>0, <1>3, <1>4, BoundedInduction
    <3>2. QED
      BY <1>0, <3>1
<1>6. <<0, n>> \in D /\ n - 0 <= n /\ Between(<<0, n>>)
  BY <1>0
<1>7. Stops(f[<<0, n>>])
  <2> HIDE DEF Between, Stops, D
  <2> QED
    BY <1>0, <1>5, <1>6
<1>8. QED
  BY <1>1, <1>7 DEF n

-----------------------------------------------------------------------------
\* A deque is in order if no item is before one that is left of it.
InOrder(s, before) ==
  \A i, j \in DOMAIN s : i < j => ~before[<<s[j], s[i]>>]

\* What comes before what: not both ways, and what is not before is transitive.
WeakOrder(before, A) ==
  /\ \A x, y \in A : before[<<x, y>>] => ~before[<<y, x>>]
  /\ \A x, y, z \in A : ~before[<<x, y>>] /\ ~before[<<y, z>>] => ~before[<<x, z>>]

\* The comparison that the bisection makes with the item i.
LEMMA LessAt ==
  ASSUME NEW s, NEW e, NEW before, NEW i \in DOMAIN s
  PROVE  Less(s, e, before)[s[i]] = before[<<s[i], e>>]
<1>1. s[i] \in ToSet(s)
  BY DEF ToSet
<1>2. QED
  BY <1>1 DEF Less

\* The deque t is s with e inserted behind b of its items.
Inserted(t, s, b, e) ==
  /\ Len(t) = Len(s) + 1
  /\ \A j \in 1 .. Len(s) + 1 :
       t[j] = IF j <= b THEN s[j] ELSE IF j = b + 1 THEN e ELSE s[j - 1]

\* Inserting moves what is right of the place by one.
LEMMA InsertAtFacts ==
  ASSUME NEW A, NEW s \in Seq(A), NEW b \in 0 .. Len(s), NEW e \in A
  PROVE  InsertAt(s, b + 1, e) \in Seq(A) /\ Inserted(InsertAt(s, b + 1, e), s, b, e)
<1>1. /\ SubSeq(s, 1, b) \in Seq(A) /\ Len(SubSeq(s, 1, b)) = b
      /\ \A j \in 1 .. b : SubSeq(s, 1, b)[j] = s[j]
  OBVIOUS
<1>2. /\ SubSeq(s, b + 1, Len(s)) \in Seq(A) /\ Len(SubSeq(s, b + 1, Len(s))) = Len(s) - b
      /\ \A j \in 1 .. Len(s) - b : SubSeq(s, b + 1, Len(s))[j] = s[b + j]
  OBVIOUS
<1> DEFINE l == SubSeq(s, 1, b)
           r == SubSeq(s, b + 1, Len(s))
           t == l \o <<e>> \o r
<1>3. InsertAt(s, b + 1, e) = t
  <2>1. SubSeq(s, 1, (b + 1) - 1) = SubSeq(s, 1, b)
    OBVIOUS
  <2>2. InsertAt(s, b + 1, e) = SubSeq(s, 1, (b + 1) - 1) \o <<e>> \o SubSeq(s, b + 1, Len(s))
    BY Zenon DEF InsertAt
  <2>3. QED
    BY <2>1, <2>2, Zenon
<1>4. l \in Seq(A) /\ r \in Seq(A) /\ Len(l) = b /\ Len(r) = Len(s) - b /\ Len(s) \in Nat
  BY <1>1, <1>2
<1>5. \A j \in 1 .. b : l[j] = s[j]
  BY <1>1
<1>6. \A j \in 1 .. Len(s) - b : r[j] = s[b + j]
  BY <1>2
<1> HIDE DEF l, r
<1>7. t \in Seq(A) /\ Len(t) = Len(s) + 1
  BY <1>4
<1>8. ASSUME NEW j \in 1 .. Len(s) + 1
      PROVE  t[j] = IF j <= b THEN s[j] ELSE IF j = b + 1 THEN e ELSE s[j - 1]
  <2>1. CASE j <= b
    BY <1>4, <1>5, <2>1
  <2>2. CASE j = b + 1
    BY <1>4, <2>2
  <2>3. CASE j > b + 1
    <3>1. j - (b + 1) \in 1 .. Len(s) - b /\ b + (j - (b + 1)) = j - 1
      BY <1>4, <2>3
    <3>2. t[j] = r[j - (b + 1)]
      BY <1>4, <2>3
    <3>3. QED
      BY <1>4, <1>6, <2>3, <3>1, <3>2
  <2>4. QED
    BY <1>4, <2>1, <2>2, <2>3
<1> HIDE DEF t
<1>9. QED
  BY <1>3, <1>7, <1>8 DEF Inserted

\* An insertion adds the item and nothing else.
LEMMA InsortFacts ==
  ASSUME NEW A, NEW s \in Seq(A), NEW e \in A, NEW before
  PROVE  /\ Insort(s, e, before) \in Seq(A)
         /\ Len(Insort(s, e, before)) = Len(s) + 1
         /\ ToSet(Insort(s, e, before)) = ToSet(s) \cup {e}
         /\ IsInjective(s) /\ e \notin ToSet(s) => IsInjective(Insort(s, e, before))
<1> DEFINE b == BisectLeft(s, Less(s, e, before))
           t == Insort(s, e, before)
<1>1. b \in 0 .. Len(s)
  BY BisectLeftStops
<1>2. t = InsertAt(s, b + 1, e)
  BY DEF Insort
<1> HIDE DEF b, t
<1>3. /\ t \in Seq(A) /\ Len(t) = Len(s) + 1 /\ Len(s) \in Nat
      /\ \A j \in 1 .. Len(s) + 1 :
           t[j] = IF j <= b THEN s[j] ELSE IF j = b + 1 THEN e ELSE s[j - 1]
  <2>1. t \in Seq(A) /\ Inserted(t, s, b, e)
    BY <1>1, <1>2, InsertAtFacts
  <2>2. QED
    BY <2>1 DEF Inserted
<1>4. DOMAIN t = 1 .. Len(s) + 1 /\ DOMAIN s = 1 .. Len(s)
  BY <1>3
<1>5. ASSUME NEW j \in DOMAIN t
      PROVE  t[j] \in ToSet(s) \cup {e}
  <2>1. CASE j <= b
    BY <1>1, <1>3, <1>4, <2>1 DEF ToSet
  <2>2. CASE j = b + 1
    BY <1>1, <1>3, <1>4, <2>2
  <2>3. CASE j > b + 1
    <3>1. j - 1 \in DOMAIN s /\ t[j] = s[j - 1]
      BY <1>1, <1>3, <1>4, <2>3
    <3>2. QED
      BY <3>1 DEF ToSet
  <2>4. QED
    BY <1>1, <1>3, <1>4, <2>1, <2>2, <2>3
<1>6. ASSUME NEW i \in DOMAIN s
      PROVE  \E j \in DOMAIN t : t[j] = s[i]
  <2>1. CASE i <= b
    BY <1>1, <1>3, <1>4, <2>1
  <2>2. CASE i > b
    <3>1. i + 1 \in DOMAIN t /\ t[i + 1] = s[i]
      BY <1>1, <1>3, <1>4, <2>2
    <3>2. QED
      BY <3>1
  <2>3. QED
    BY <1>1, <1>3, <1>4, <2>1, <2>2
<1>7. b + 1 \in DOMAIN t /\ t[b + 1] = e
  BY <1>1, <1>3, <1>4
<1>8. ToSet(t) = ToSet(s) \cup {e}
  BY <1>5, <1>6, <1>7 DEF ToSet
<1>9. ASSUME IsInjective(s), e \notin ToSet(s), NEW i \in DOMAIN t, NEW j \in DOMAIN t,
             t[i] = t[j], i < j
      PROVE  FALSE
  <2>0. \A k \in 1 .. Len(s) : s[k] # e
    BY <1>4, <1>9 DEF ToSet
  <2>1. CASE j <= b
    <3>1. i \in 1 .. Len(s) /\ j \in 1 .. Len(s) /\ t[i] = s[i] /\ t[j] = s[j]
      BY <1>1, <1>3, <1>4, <1>9, <2>1
    <3>2. i # j /\ s[i] = s[j]
      <4>1. i < j /\ i \in Int /\ j \in Int
        BY <1>9, <3>1
      <4>2. i # j
        BY <4>1
      <4>3. QED
        BY <1>9, <3>1, <4>2, Zenon
    <3>3. QED
      BY <1>4, <1>9, <3>1, <3>2 DEF IsInjective
  <2>2. CASE j = b + 1
    <3>1. i \in 1 .. Len(s) /\ t[i] = s[i] /\ t[j] = e
      BY <1>1, <1>3, <1>4, <1>9, <2>2
    <3>2. QED
      BY <1>9, <2>0, <3>1
  <2>3. CASE j > b + 1
    <3>1. j - 1 \in 1 .. Len(s) /\ t[j] = s[j - 1]
      BY <1>1, <1>3, <1>4, <2>3
    <3>2. CASE i <= b
      <4>1. i \in 1 .. Len(s) /\ t[i] = s[i] /\ i # j - 1
        BY <1>1, <1>3, <1>4, <2>3, <3>2
      <4>2. QED
        BY <1>4, <1>9, <3>1, <4>1 DEF IsInjective
    <3>3. CASE i = b + 1
      <4>1. t[i] = e
        BY <1>1, <1>3, <1>4, <3>3
      <4>2. QED
        BY <1>9, <2>0, <3>1, <4>1
    <3>4. CASE i > b + 1
      <4>1. i - 1 \in 1 .. Len(s) /\ t[i] = s[i - 1] /\ i - 1 # j - 1
        BY <1>1, <1>3, <1>4, <1>9, <3>4
      <4>2. QED
        BY <1>4, <1>9, <3>1, <4>1 DEF IsInjective
    <3>5. QED
      BY <1>1, <1>3, <1>4, <3>2, <3>3, <3>4
  <2>4. QED
    BY <1>1, <1>3, <1>4, <2>1, <2>2, <2>3
<1>10. IsInjective(s) /\ e \notin ToSet(s) => IsInjective(t)
  <2>1. \A i, j \in DOMAIN t : i < j \/ j < i \/ i = j
    BY <1>3, <1>4
  <2>2. QED
    BY <1>9, <2>1 DEF IsInjective
<1>11. QED
  BY <1>3, <1>8, <1>10 DEF t

\* In a deque that is in order, bisection finds the place that keeps it so.
LEMMA InsortKeepsOrder ==
  ASSUME NEW A, NEW s \in Seq(A), NEW e \in A, NEW before,
         WeakOrder(before, A), InOrder(s, before)
  PROVE  InOrder(Insort(s, e, before), before)
<1> DEFINE less == Less(s, e, before)
           b == BisectLeft(s, less)
           t == Insort(s, e, before)
<1>0. b \in 0 .. Len(s) /\ (b # 0 => less[s[b]]) /\ (b # Len(s) => ~less[s[b + 1]])
  BY BisectLeftStops
<1>1. b \in 0 .. Len(s)
  BY <1>0
<1>2. t = InsertAt(s, b + 1, e)
  BY DEF Insort
<1> HIDE DEF b, t, less
<1>2a. \A i \in DOMAIN s : less[s[i]] = before[<<s[i], e>>]
  BY LessAt DEF less
<1>3. /\ t \in Seq(A) /\ Len(t) = Len(s) + 1 /\ Len(s) \in Nat
      /\ \A j \in 1 .. Len(s) + 1 :
           t[j] = IF j <= b THEN s[j] ELSE IF j = b + 1 THEN e ELSE s[j - 1]
  <2>1. t \in Seq(A) /\ Inserted(t, s, b, e)
    BY <1>1, <1>2, InsertAtFacts
  <2>2. QED
    BY <2>1 DEF Inserted
<1>4. DOMAIN t = 1 .. Len(s) + 1 /\ DOMAIN s = 1 .. Len(s) /\ \A i \in 1 .. Len(s) : s[i] \in A
  BY <1>3
<1>5. \A i, j \in 1 .. Len(s) : i < j => ~before[<<s[j], s[i]>>]
  BY <1>4 DEF InOrder
\* What is left of the place is not after the item, and what is right not before it.
<1>6. ASSUME NEW i \in 1 .. Len(s), i <= b
      PROVE  ~before[<<e, s[i]>>]
  <2>1. b \in 1 .. Len(s) /\ b # 0 /\ s[b] \in A /\ s[i] \in A /\ (i = b \/ i < b)
    BY <1>1, <1>3, <1>4, <1>6
  <2>2. ~before[<<e, s[b]>>]
    BY <1>0, <1>2a, <1>4, <2>1, Zenon DEF WeakOrder
  <2>3. i = b \/ ~before[<<s[b], s[i]>>]
    BY <1>5, <2>1, Zenon
  <2>4. QED
    BY <2>1, <2>2, <2>3 DEF WeakOrder
<1>7. ASSUME NEW i \in 1 .. Len(s), b < i
      PROVE  ~before[<<s[i], e>>]
  <2>0. b + 1 \in 1 .. Len(s) /\ b # Len(s)
    BY <1>1, <1>3, <1>7
  <2>1. b + 1 \in 1 .. Len(s) /\ b # Len(s) /\ s[b + 1] \in A /\ s[i] \in A
    BY <1>4, <2>0, Zenon
  <2>2. ~before[<<s[b + 1], e>>]
    BY <1>0, <1>2a, <1>4, <2>1, Zenon
  <2>3. i = b + 1 \/ ~before[<<s[i], s[b + 1]>>]
    <3>1. i = b + 1 \/ b + 1 < i
      BY <1>1, <1>3, <1>4, <1>7
    <3>2. QED
      BY <1>5, <2>1, <3>1
  <2>4. QED
    BY <2>1, <2>2, <2>3 DEF WeakOrder
<1>8. ASSUME NEW i \in 1 .. Len(s) + 1, NEW j \in 1 .. Len(s) + 1, i < j
      PROVE  ~before[<<t[j], t[i]>>]
  <2>1. CASE j <= b
    <3>1. i \in 1 .. Len(s) /\ j \in 1 .. Len(s) /\ t[i] = s[i] /\ t[j] = s[j]
      BY <1>1, <1>3, <1>4, <1>8, <2>1
    <3>2. QED
      BY <1>5, <1>8, <3>1
  <2>2. CASE j = b + 1
    <3>1. i \in 1 .. Len(s) /\ i <= b /\ t[i] = s[i] /\ t[j] = e
      BY <1>1, <1>3, <1>4, <1>8, <2>2
    <3>2. QED
      BY <1>6, <3>1
  <2>3. CASE j > b + 1
    <3>1. j - 1 \in 1 .. Len(s) /\ b < j - 1 /\ t[j] = s[j - 1]
      BY <1>1, <1>3, <1>4, <2>3
    <3>2. CASE i <= b
      <4>1. i \in 1 .. Len(s) /\ t[i] = s[i] /\ i < j - 1
        BY <1>1, <1>3, <1>4, <1>8, <2>3, <3>2
      <4>2. QED
        BY <1>5, <3>1, <4>1
    <3>3. CASE i = b + 1
      <4>1. t[i] = e
        BY <1>1, <1>3, <1>4, <3>3
      <4>2. QED
        BY <1>7, <3>1, <4>1
    <3>4. CASE i > b + 1
      <4>1. i - 1 \in 1 .. Len(s) /\ t[i] = s[i - 1] /\ i - 1 < j - 1
        BY <1>1, <1>3, <1>4, <1>8, <3>4
      <4>2. QED
        BY <1>5, <3>1, <4>1
    <3>5. QED
      BY <1>1, <1>3, <1>4, <3>2, <3>3, <3>4
  <2>4. QED
    BY <1>1, <1>3, <1>4, <2>1, <2>2, <2>3
<1>9. QED
  BY <1>4, <1>8 DEF InOrder, t

\* InsortSome makes its deque in steps.
InsortSteps(items, keep, before, r) ==
  /\ r[0] = <<>>
  /\ \A k \in 0 .. Len(items) - 1 :
       r[k + 1] = IF items[k + 1] \in keep THEN Insort(r[k], items[k + 1], before) ELSE r[k]

\* Every fold of InsortSome has its steps: the deques after 0, 1, .. of the items.
LEMMA InsortSomeSteps ==
  ASSUME NEW A, NEW items \in Seq(A), NEW keep, NEW before
  PROVE  \E r : InsortSteps(items, keep, before, r) /\ InsortSome(items, keep, before) = r[Len(items)]
<1> DEFINE n == Len(items)
           D == SUBSET (1 .. n)
           B == Seq(A)
           Put(s, e) == IF e \in keep THEN Insort(s, e, before) ELSE s
           step == [p \in B \X (1 .. n) |-> Put(p[1], items[p[2]])]
           Folds(g) == g = [s \in D |-> IF s = {} THEN <<>>
                                        ELSE Put(g[s \ {Max(s)}], items[Max(s)])]
           iter == CHOOSE g : Folds(g)
           r == [k \in 0 .. n |-> iter[1 .. k]]
<1>1. n \in Nat /\ DOMAIN items = 1 .. n /\ <<>> \in B
  OBVIOUS
<1>2. InsortSome(items, keep, before) = iter[1 .. n]
  BY <1>1 DEF InsortSome, FoldLeft, MapThenFoldSet
<1>3. step \in [B \X (1 .. n) -> B]
  <2>1. ASSUME NEW p \in B \X (1 .. n)
        PROVE  Put(p[1], items[p[2]]) \in B
    <3>1. p[1] \in B /\ items[p[2]] \in A
      OBVIOUS
    <3>2. QED
      BY <3>1, InsortFacts
  <2> HIDE DEF Put
  <2>2. QED
    BY <2>1
<1> HIDE DEF n, B, Put
<1>4. \E g : Folds(g)
  <2>1. Foldable(n, B, <<>>, step)
    <3> HIDE DEF step
    <3> QED
      BY <1>1, <1>3, FoldRecursion
  <2> DEFINE st == step
  <2> HIDE DEF st
  <2>2. PICK g \in [D -> B] :
          \A s \in D : g[s] = IF s = {} THEN <<>> ELSE st[<<g[s \ {Max(s)}], Max(s)>>]
    BY <2>1 DEF Foldable, st
  <2>3. ASSUME NEW s \in D, s # {}
        PROVE  g[s] = Put(g[s \ {Max(s)}], items[Max(s)])
    <3>1. Max(s) \in 1 .. n
      <4>1. s \in SUBSET (0 .. n)
        BY <1>1
      <4>2. Max(s) \in s
        BY <1>1, <2>3, <4>1, MaxOfBounded
      <4>3. QED
        BY <4>2
    <3>2. g[s \ {Max(s)}] \in B
      OBVIOUS
    <3>3. st[<<g[s \ {Max(s)}], Max(s)>>] = Put(g[s \ {Max(s)}], items[Max(s)])
      BY <3>1, <3>2 DEF st
    <3>4. QED
      BY <2>2, <2>3, <3>3
  <2>4. g[{}] = <<>>
    BY <2>2
  <2>5. Folds(g)
    BY <2>3, <2>4
  <2> HIDE DEF Folds
  <2>6. QED
    BY <2>5
<1>5. Folds(iter)
  <2> HIDE DEF Folds
  <2> QED
    BY <1>4
<1> HIDE DEF iter
<1>6. \A s \in D : iter[s] = IF s = {} THEN <<>> ELSE Put(iter[s \ {Max(s)}], items[Max(s)])
  BY <1>5
<1>7. ASSUME NEW k \in 0 .. n - 1
      PROVE  iter[1 .. k + 1] = Put(iter[1 .. k], items[k + 1])
  <2>1. /\ 1 .. k + 1 \in D /\ 1 .. k + 1 # {} /\ Max(1 .. k + 1) = k + 1
        /\ (1 .. k + 1) \ {k + 1} = 1 .. k
    BY <1>1, FirstPlaces
  <2>2. QED
    BY <1>6, <2>1
<1>8. iter[1 .. 0] = <<>>
  <2>1. 1 .. 0 = {}
    OBVIOUS
  <2>2. QED
    BY <1>6, <2>1
<1>9. r[0] = <<>> /\ r[n] = iter[1 .. n]
      /\ \A k \in 0 .. n - 1 : r[k + 1] = Put(r[k], items[k + 1])
  BY <1>1, <1>7, <1>8
<1> HIDE DEF r
<1>10. InsortSteps(items, keep, before, r)
  BY <1>9 DEF InsortSteps, n, Put
<1>11. QED
  BY <1>2, <1>9, <1>10 DEF n

\* InsortSome gives those of the items that are kept, in order, each as often as before.
LEMMA InsortSomeFacts ==
  ASSUME NEW A, NEW items \in Seq(A), NEW keep, NEW before, WeakOrder(before, A)
  PROVE  /\ InsortSome(items, keep, before) \in Seq(A)
         /\ ToSet(InsortSome(items, keep, before)) = ToSet(items) \cap keep
         /\ InOrder(InsortSome(items, keep, before), before)
         /\ IsInjective(items) => IsInjective(InsortSome(items, keep, before))
         /\ ToSet(items) \subseteq keep => Len(InsortSome(items, keep, before)) = Len(items)
<1>1. PICK r : InsortSteps(items, keep, before, r) /\ InsortSome(items, keep, before) = r[Len(items)]
  BY InsortSomeSteps
<1> DEFINE n == Len(items)
           Upto(k) == {items[i] : i \in 1 .. k} \cap keep
           Good(k) == /\ r[k] \in Seq(A)
                      /\ ToSet(r[k]) = Upto(k)
                      /\ InOrder(r[k], before)
                      /\ IsInjective(items) => IsInjective(r[k])
                      /\ ToSet(items) \subseteq keep => Len(r[k]) = k
           T == {k \in 0 .. n : Good(k)}
<1>2. n \in Nat /\ DOMAIN items = 1 .. n /\ \A i \in 1 .. n : items[i] \in A
  OBVIOUS
<1>3. 0 \in T
  <2>1. r[0] = <<>>
    BY <1>1 DEF InsortSteps
  <2>2. /\ <<>> \in Seq(A) /\ Len(<<>>) = 0 /\ ToSet(<<>>) = {} /\ InOrder(<<>>, before)
        /\ IsInjective(<<>>)
    BY DEF ToSet, InOrder, IsInjective
  <2>3. Upto(0) = {}
    OBVIOUS
  <2>4. Good(0)
    BY <2>1, <2>2, <2>3
  <2> HIDE DEF Good
  <2>5. QED
    BY <1>2, <2>4
<1>4. ASSUME NEW k \in 0 .. n - 1, k \in T
      PROVE  k + 1 \in T
  <2>1. Good(k)
    BY <1>4
  <2> HIDE DEF n
  <2>2. k + 1 \in 1 .. n /\ k + 1 \in 0 .. n /\ items[k + 1] \in A
    BY <1>2
  <2> DEFINE s == r[k]
           e == items[k + 1]
           t == Insort(s, e, before)
  <2>3. r[k + 1] = IF e \in keep THEN t ELSE s
    BY <1>1 DEF InsortSteps, n
  <2>4. /\ t \in Seq(A) /\ Len(t) = Len(s) + 1
        /\ ToSet(t) = ToSet(s) \cup {e}
        /\ IsInjective(s) /\ e \notin ToSet(s) => IsInjective(t)
        /\ InOrder(s, before) => InOrder(t, before)
    <3>1. s \in Seq(A) /\ e \in A
      BY <2>1, <2>2
    <3> HIDE DEF s, e
    <3>2. QED
      BY <3>1, InsortFacts, InsortKeepsOrder
  <2> HIDE DEF t
  <2>5. Upto(k + 1) = IF e \in keep THEN Upto(k) \cup {e} ELSE Upto(k)
    <3>1. 1 .. k + 1 = (1 .. k) \cup {k + 1}
      BY <1>2
    <3>2. QED
      BY <3>1
  <2>6. IsInjective(items) => e \notin Upto(k)
    <3>1. ASSUME IsInjective(items), NEW i \in 1 .. k, items[i] = e
          PROVE  FALSE
      <4>1. i \in DOMAIN items /\ k + 1 \in DOMAIN items /\ i # k + 1
        BY <1>2, <2>2
      <4>2. QED
        BY <3>1, <4>1 DEF IsInjective
    <3>2. QED
      BY <3>1
  <2>7. e \in ToSet(items)
    BY <1>2, <2>2 DEF ToSet
  <2>8. Good(k + 1)
    <3> HIDE DEF e, s, Upto
    <3>1. CASE e \in keep
      <4>1. r[k + 1] = t /\ Upto(k + 1) = Upto(k) \cup {e}
        BY <2>3, <2>5, <3>1
      <4>2. IsInjective(items) => IsInjective(t)
        BY <2>1, <2>4, <2>6 DEF s
      <4>3. ToSet(items) \subseteq keep => Len(t) = k + 1
        BY <2>1, <2>4 DEF s
      <4>4. t \in Seq(A) /\ ToSet(t) = Upto(k + 1) /\ InOrder(t, before)
        BY <2>1, <2>4, <4>1 DEF s
      <4>5. QED
        BY <4>1, <4>2, <4>3, <4>4
    <3>2. CASE e \notin keep
      <4>1. r[k + 1] = r[k] /\ Upto(k + 1) = Upto(k)
        BY <2>3, <2>5, <3>2 DEF s
      <4>2. ~(ToSet(items) \subseteq keep)
        BY <2>7, <3>2
      <4>3. QED
        BY <2>1, <4>1, <4>2
    <3>3. QED
      BY <3>1, <3>2
  <2> HIDE DEF Good
  <2>9. QED
    BY <2>2, <2>8
<1>5. n \in T
  <2> HIDE DEF T, n
  <2>1. \A k \in 0 .. n : k \in T
    BY <1>2, <1>3, <1>4, BoundedInduction
  <2>2. QED
    BY <1>2, <2>1
<1>6. Upto(n) = ToSet(items) \cap keep
  BY <1>2 DEF ToSet
<1>7. Good(n)
  BY <1>5
<1>8. QED
  BY <1>1, <1>6, <1>7

\* InsortAll gives the same items in order.
LEMMA InsortAllFacts ==
  ASSUME NEW A, NEW items \in Seq(A), NEW before, WeakOrder(before, A)
  PROVE  /\ InsortAll(items, before) \in Seq(A)
         /\ Len(InsortAll(items, before)) = Len(items)
         /\ ToSet(InsortAll(items, before)) = ToSet(items)
         /\ InOrder(InsortAll(items, before), before)
         /\ IsInjective(items) => IsInjective(InsortAll(items, before))
<1> DEFINE all == InsortAll(items, before)
           K == ToSet(items)
<1>1. all = InsortSome(items, K, before) /\ K \subseteq K /\ ToSet(items) \cap K = ToSet(items)
  BY DEF InsortAll
<1> HIDE DEF all
<1>2. /\ all \in Seq(A)
      /\ ToSet(all) = ToSet(items) \cap K
      /\ InOrder(all, before)
      /\ IsInjective(items) => IsInjective(all)
      /\ ToSet(items) \subseteq K => Len(all) = Len(items)
  <2> HIDE DEF K
  <2> QED
    BY <1>1, InsortSomeFacts
<1>3. QED
  BY <1>1, <1>2 DEF all

\* Putting in an item that all others are before appends it.
LEMMA InsortLast ==
  ASSUME NEW A, NEW s \in Seq(A), NEW e \in A, NEW before,
         \A i \in DOMAIN s : before[<<s[i], e>>]
  PROVE  Insort(s, e, before) = Append(s, e)
<1> DEFINE less == Less(s, e, before)
           b == BisectLeft(s, less)
           t == Insort(s, e, before)
<1>1. ASSUME NEW i \in DOMAIN s
      PROVE  less[s[i]]
  <2>1. less[s[i]] = before[<<s[i], e>>]
    BY LessAt
  <2>2. QED
    BY <2>1
<1> HIDE DEF less
<1>2. b \in 0 .. Len(s) /\ (b # Len(s) => ~less[s[b + 1]])
  BY BisectLeftStops
<1>3. t = InsertAt(s, b + 1, e)
  BY DEF Insort, less
<1> HIDE DEF b
<1>4. b = Len(s)
  <2>1. b \in 0 .. Len(s)
    BY <1>2
  <2>2. b # Len(s) => b + 1 \in DOMAIN s
    BY <2>1
  <2>3. QED
    BY <1>1, <1>2, <2>2, Zenon
<1>5. b \in 0 .. Len(s) /\ Len(s) \in Nat
  BY <1>2
<1>6. InsertAt(s, b + 1, e) \in Seq(A) /\ Inserted(InsertAt(s, b + 1, e), s, b, e)
  BY <1>5, InsertAtFacts
<1> HIDE DEF t
<1>7. /\ t \in Seq(A) /\ Len(t) = Len(s) + 1
      /\ \A j \in 1 .. Len(s) + 1 : t[j] = IF j <= Len(s) THEN s[j] ELSE e
  BY <1>3, <1>4, <1>5, <1>6 DEF Inserted
<1>8. t = Append(s, e)
  BY <1>5, <1>7
<1>9. QED
  BY <1>8 DEF t

\* Items already in order, with no ties, and all of them kept, stay as they are.
LEMMA InsortSomeKeeps ==
  ASSUME NEW A, NEW items \in Seq(A), NEW keep, NEW before,
         ToSet(items) \subseteq keep,
         \A i, j \in DOMAIN items : i < j => before[<<items[i], items[j]>>]
  PROVE  InsortSome(items, keep, before) = items
<1>1. PICK r : InsortSteps(items, keep, before, r) /\ InsortSome(items, keep, before) = r[Len(items)]
  BY InsortSomeSteps
<1> DEFINE n == Len(items)
           T == {k \in 0 .. n : r[k] = SubSeq(items, 1, k)}
<1>2. n \in Nat /\ DOMAIN items = 1 .. n /\ \A i \in 1 .. n : items[i] \in A
  OBVIOUS
<1>3. 0 \in T
  <2>1. r[0] = <<>>
    BY <1>1 DEF InsortSteps
  <2>2. SubSeq(items, 1, 0) = <<>> /\ 0 \in 0 .. n
    OBVIOUS
  <2>3. QED
    BY <2>1, <2>2
<1>4. ASSUME NEW k \in 0 .. n - 1, k \in T
      PROVE  k + 1 \in T
  <2> DEFINE s == SubSeq(items, 1, k)
  <2>1. r[k] = s
    BY <1>4
  <2>2. /\ s \in Seq(A) /\ Len(s) = k /\ DOMAIN s = 1 .. k /\ k + 1 \in 1 .. n /\ k + 1 \in 0 .. n
        /\ \A i \in 1 .. k : s[i] = items[i]
    BY <1>2
  <2>3. Append(s, items[k + 1]) = SubSeq(items, 1, k + 1)
    BY <1>2
  <2> HIDE DEF s, n
  <2>4. \A i \in DOMAIN s : before[<<s[i], items[k + 1]>>]
    <3>1. ASSUME NEW i \in DOMAIN s
          PROVE  i \in DOMAIN items /\ k + 1 \in DOMAIN items /\ i < k + 1 /\ s[i] = items[i]
      BY <1>2, <2>2
    <3>2. QED
      BY <3>1
  <2>5. Insort(s, items[k + 1], before) = Append(s, items[k + 1])
    BY <1>2, <2>2, <2>4, InsortLast
  <2>6. r[k + 1] = Append(s, items[k + 1])
    <3>1. items[k + 1] \in keep
      BY <1>2, <2>2 DEF ToSet
    <3>2. QED
      BY <1>1, <2>1, <2>5, <3>1 DEF InsortSteps, n
  <2>7. QED
    BY <2>2, <2>3, <2>6
<1>5. n \in T
  <2> HIDE DEF T, n
  <2>1. \A k \in 0 .. n : k \in T
    BY <1>2, <1>3, <1>4, BoundedInduction
  <2>2. QED
    BY <1>2, <2>1
<1>6. r[n] = items
  BY <1>2, <1>5
<1>7. QED
  BY <1>1, <1>6

-----------------------------------------------------------------------------
\* Removing the item at a place moves what is right of it by one.
LEMMA RemoveAtFacts ==
  ASSUME NEW A, NEW s \in Seq(A), NEW i \in 1 .. Len(s)
  PROVE  /\ RemoveAt(s, i) \in Seq(A)
         /\ Len(RemoveAt(s, i)) = Len(s) - 1
         /\ \A j \in 1 .. Len(s) - 1 : RemoveAt(s, i)[j] = IF j < i THEN s[j] ELSE s[j + 1]
<1> DEFINE l == SubSeq(s, 1, i - 1)
           r == SubSeq(s, i + 1, Len(s))
           t == l \o r
<1>1. l \in Seq(A) /\ Len(l) = i - 1 /\ \A j \in 1 .. i - 1 : l[j] = s[j]
  OBVIOUS
<1>2. r \in Seq(A) /\ Len(r) = Len(s) - i /\ \A j \in 1 .. Len(s) - i : r[j] = s[i + j]
  OBVIOUS
<1>3. RemoveAt(s, i) = t
  BY Zenon DEF RemoveAt
<1>4. Len(s) \in Nat /\ i \in 1 .. Len(s)
  OBVIOUS
<1> HIDE DEF l, r
<1>5. t \in Seq(A) /\ Len(t) = Len(s) - 1
  <2>1. l \in Seq(A) /\ r \in Seq(A) /\ Len(l) = i - 1 /\ Len(r) = Len(s) - i
    BY <1>1, <1>2
  <2>2. t \in Seq(A) /\ Len(t) = Len(l) + Len(r)
    BY <2>1
  <2> HIDE DEF t
  <2>3. QED
    BY <1>4, <2>1, <2>2
<1>6. ASSUME NEW j \in 1 .. Len(s) - 1
      PROVE  t[j] = IF j < i THEN s[j] ELSE s[j + 1]
  <2>1. CASE j < i
    BY <1>1, <1>2, <1>4, <2>1
  <2>2. CASE j >= i
    <3>1. j - (i - 1) \in 1 .. Len(s) - i /\ i + (j - (i - 1)) = j + 1
      BY <1>4, <2>2
    <3>2. t[j] = r[j - (i - 1)]
      BY <1>1, <1>2, <1>4, <2>2
    <3>3. QED
      BY <1>2, <1>4, <2>2, <3>1, <3>2
  <2> HIDE DEF t
  <2>3. j < i \/ j >= i
    BY <1>4
  <2>4. QED
    BY <2>1, <2>2, <2>3
<1> HIDE DEF t
<1>7. QED
  BY <1>3, <1>5, <1>6

\* What is left when the first occurrence of an item goes: the items that were there,
\* in the order they had, and all but that item when none was there twice.
LEMMA RemoveFirstFacts ==
  ASSUME NEW A, NEW s \in Seq(A), NEW e
  PROVE  /\ RemoveFirst(s, e) \in Seq(A)
         /\ \A before : InOrder(s, before) => InOrder(RemoveFirst(s, e), before)
         /\ IsInjective(s) => /\ IsInjective(RemoveFirst(s, e))
                              /\ ToSet(RemoveFirst(s, e)) = ToSet(s) \ {e}
<1> DEFINE I == {i \in 1 .. Len(s) : s[i] = e}
           t == RemoveFirst(s, e)
<1>1. Len(s) \in Nat /\ DOMAIN s = 1 .. Len(s)
  OBVIOUS
<1>2. CASE ~\E i \in 1 .. Len(s) : s[i] = e
  <2>1. t = s
    BY <1>2 DEF RemoveFirst
  <2>2. ToSet(s) = ToSet(s) \ {e}
    BY <1>1, <1>2 DEF ToSet
  <2>3. QED
    BY <2>1, <2>2
<1>3. CASE \E i \in 1 .. Len(s) : s[i] = e
  <2> DEFINE m == Min(I)
  <2>1. m \in 1 .. Len(s) /\ s[m] = e
    <3>1. I \in SUBSET Nat /\ I # {}
      BY <1>1, <1>3
    <3> HIDE DEF I
    <3>2. \E k \in I : \A j \in I : k <= j
      BY <3>1, LeastNatural
    <3>3. m \in I
      BY <3>2 DEF Min
    <3>4. QED
      BY <3>3 DEF I
  <2>2. t = RemoveAt(s, m)
    <3>1. I # {}
      BY <1>3
    <3>2. QED
      BY <1>3, <3>1, Zenon DEF RemoveFirst, SelectInSeq
  <2> HIDE DEF I, m, t
  <2>3. /\ t \in Seq(A) /\ Len(t) = Len(s) - 1
        /\ \A j \in 1 .. Len(s) - 1 : t[j] = IF j < m THEN s[j] ELSE s[j + 1]
    BY <2>1, <2>2, RemoveAtFacts
  <2> DEFINE was(j) == IF j < m THEN j ELSE j + 1
  <2>4. ASSUME NEW j \in DOMAIN t
        PROVE  was(j) \in DOMAIN s /\ t[j] = s[was(j)] /\ was(j) # m
    <3>1. j \in 1 .. Len(s) - 1
      BY <2>3
    <3>2. QED
      BY <1>1, <2>1, <2>3, <3>1
  <2>5. ASSUME NEW i \in DOMAIN t, NEW j \in DOMAIN t
        PROVE  (i < j => was(i) < was(j)) /\ (i # j => was(i) # was(j))
    <3>1. i \in 1 .. Len(s) - 1 /\ j \in 1 .. Len(s) - 1 /\ m \in Int
      BY <2>1, <2>3
    <3>2. QED
      BY <3>1
  <2>6. ASSUME NEW i \in DOMAIN s, i # m
        PROVE  \E j \in DOMAIN t : was(j) = i
    <3>1. CASE i < m
      BY <1>1, <2>1, <2>3, <3>1
    <3>2. CASE i > m
      <4>1. i - 1 \in DOMAIN t /\ was(i - 1) = i
        BY <1>1, <2>1, <2>3, <3>2
      <4>2. QED
        BY <4>1
    <3>3. QED
      BY <1>1, <2>1, <2>6, <3>1, <3>2
  <2> HIDE DEF was
  <2>7. ASSUME NEW before, InOrder(s, before)
        PROVE  InOrder(t, before)
    BY <2>4, <2>5, <2>7, Zenon DEF InOrder
  <2>8. ASSUME IsInjective(s)
        PROVE  IsInjective(t) /\ ToSet(t) = ToSet(s) \ {e}
    <3>1. IsInjective(t)
      BY <2>4, <2>5, <2>8, Zenon DEF IsInjective
    <3>2. ASSUME NEW j \in DOMAIN t
          PROVE  t[j] \in ToSet(s) /\ t[j] # e
      <4>1. s[was(j)] # s[m]
        BY <1>1, <2>1, <2>4, <2>8 DEF IsInjective
      <4>2. QED
        BY <2>1, <2>4, <4>1 DEF ToSet
    <3>3. ASSUME NEW i \in DOMAIN s, s[i] # e
          PROVE  \E j \in DOMAIN t : t[j] = s[i]
      <4>1. i # m
        BY <2>1, <3>3
      <4>2. PICK j \in DOMAIN t : was(j) = i
        BY <2>6, <4>1
      <4>3. QED
        BY <2>4, <4>2
    <3>4. QED
      BY <3>1, <3>2, <3>3 DEF ToSet
  <2>9. QED
    BY <2>3, <2>7, <2>8 DEF t
<1>4. QED
  BY <1>2, <1>3

\* Resort keeps the items.
LEMMA ResortFacts ==
  ASSUME NEW A, NEW s \in Seq(A), IsInjective(s), NEW e \in ToSet(s), NEW before
  PROVE  /\ Resort(s, e, before) \in Seq(A)
         /\ IsInjective(Resort(s, e, before))
         /\ ToSet(Resort(s, e, before)) = ToSet(s)
<1> DEFINE t == RemoveFirst(s, e)
           u == Insort(t, e, before)
<1>1. t \in Seq(A) /\ IsInjective(t) /\ ToSet(t) = ToSet(s) \ {e}
  BY RemoveFirstFacts
<1>2. e \in A
  BY DEF ToSet
<1>3. Resort(s, e, before) = s \/ Resort(s, e, before) = u
  BY DEF Resort
<1> HIDE DEF t
<1>4. u \in Seq(A) /\ ToSet(u) = ToSet(t) \cup {e} /\ IsInjective(u)
  BY <1>1, <1>2, InsortFacts
<1>5. ToSet(u) = ToSet(s)
  BY <1>1, <1>4
<1> HIDE DEF u
<1>6. QED
  BY <1>3, <1>4, <1>5

\* Resort puts in order a deque in which only that item may be out of place, and only
\* behind its place: it can be found where it stands too early, and then stays there.
LEMMA ResortKeepsOrder ==
  ASSUME NEW A, NEW s \in Seq(A), IsInjective(s), NEW e \in ToSet(s), NEW before,
         WeakOrder(before, A),
         \A i, j \in DOMAIN s : i < j /\ s[j] # e => s[i] = e \/ ~before[<<s[j], s[i]>>],
         \A i, j \in DOMAIN s : i < j /\ s[i] = e => ~before[<<s[j], e>>]
  PROVE  InOrder(Resort(s, e, before), before)
<1> DEFINE less == Less(s, e, before)
           b == BisectLeft(s, less)
           t == RemoveFirst(s, e)
<1>1. b \in 0 .. Len(s) /\ (b # 0 => less[s[b]])
  BY BisectLeftStops
<1>2. \A i \in DOMAIN s : less[s[i]] = before[<<s[i], e>>]
  BY LessAt
<1>3. e \in A /\ Len(s) \in Nat /\ DOMAIN s = 1 .. Len(s) /\ \A i \in DOMAIN s : s[i] \in A
  BY DEF ToSet
<1>4. CASE b + 1 <= Len(s) /\ s[b + 1] = e
  <2>1. Resort(s, e, before) = s
    BY <1>4 DEF Resort
  <2>2. \A i \in DOMAIN s : s[i] = e => i = b + 1
    BY <1>1, <1>3, <1>4 DEF IsInjective
  <2> HIDE DEF b, less
  <2>3. ASSUME NEW i \in DOMAIN s, NEW j \in DOMAIN s, i < j
        PROVE  ~before[<<s[j], s[i]>>]
    <3>1. CASE s[i] = e
      BY <2>3, <3>1
    <3>2. CASE s[i] # e /\ s[j] # e
      BY <2>3, <3>2
    <3>3. CASE s[j] = e
      <4>1. j = b + 1
        BY <2>2, <3>3
      <4>2. b # 0 /\ b \in DOMAIN s /\ (i = b \/ i < b)
        BY <1>1, <1>3, <2>3, <4>1
      <4>3. before[<<s[b], e>>]
        BY <1>1, <1>2, <4>2
      <4>4. ~before[<<e, s[b]>>]
        BY <1>3, <4>2, <4>3 DEF WeakOrder
      <4>5. CASE i < b
        <5>1. b # b + 1 /\ i # b + 1
          BY <1>1, <1>3, <4>5
        <5>2. s[b] # e /\ s[i] # e
          BY <2>2, <4>2, <5>1
        <5>3. ~before[<<s[b], s[i]>>]
          BY <4>2, <4>5, <5>2
        <5>4. QED
          BY <1>3, <3>3, <4>2, <4>4, <5>3 DEF WeakOrder
      <4>6. QED
        BY <3>3, <4>2, <4>4, <4>5
    <3>4. QED
      BY <3>1, <3>2, <3>3
  <2>4. QED
    BY <2>1, <2>3 DEF InOrder
<1>5. CASE ~(b + 1 <= Len(s) /\ s[b + 1] = e)
  <2>1. Resort(s, e, before) = Insort(t, e, before)
    BY <1>5 DEF Resort
  <2>2. t \in Seq(A) /\ IsInjective(t) /\ ToSet(t) = ToSet(s) \ {e}
    BY RemoveFirstFacts
  <2>3. InOrder(t, before)
    <3> DEFINE but == [p \in A \X A |-> p[1] # e /\ p[2] # e /\ before[p]]
    <3>1. ASSUME NEW i \in DOMAIN s, NEW j \in DOMAIN s, i < j
          PROVE  ~but[<<s[j], s[i]>>]
      <4>1. s[i] \in A /\ s[j] \in A
        BY <1>3
      <4>2. QED
        BY <3>1, <4>1
    <3> HIDE DEF but
    <3>2. InOrder(s, but)
      BY <3>1 DEF InOrder
    <3>3. InOrder(t, but)
      BY <3>2, RemoveFirstFacts
    <3> HIDE DEF t
    <3>4. ASSUME NEW i \in DOMAIN t, NEW j \in DOMAIN t, i < j
          PROVE  ~before[<<t[j], t[i]>>]
      <4>1. t[i] \in A /\ t[j] \in A /\ t[i] # e /\ t[j] # e
        <5>1. t[i] \in ToSet(t) /\ t[j] \in ToSet(t)
          BY DEF ToSet
        <5>2. QED
          BY <2>2, <5>1
      <4>2. ~but[<<t[j], t[i]>>]
        BY <3>3, <3>4 DEF InOrder
      <4>3. QED
        BY <4>1, <4>2 DEF but
    <3>5. QED
      BY <3>4 DEF InOrder
  <2> HIDE DEF t
  <2>4. QED
    BY <1>3, <2>1, <2>2, <2>3, InsortKeepsOrder
<1>6. QED
  BY <1>4, <1>5
-----------------------------------------------------------------------------
\* A finite set has a sequence of its elements.
LEMMA SetToSeqFacts ==
  ASSUME NEW S, IsFiniteSet(S)
  PROVE  /\ SetToSeq(S) \in Seq(S) /\ IsInjective(SetToSeq(S))
         /\ Len(SetToSeq(S)) = Cardinality(S)
         /\ \A x \in S : \E i \in DOMAIN SetToSeq(S) : SetToSeq(S)[i] = x
<1> DEFINE n == Cardinality(S)
           f == SetToSeq(S)
<1>1. n \in Nat /\ Bijection(1 .. n, S) # {}
  BY FS_CardinalityType DEF ExistsBijection
<1>2. PICK g : g \in Bijection(1 .. n, S)
  BY <1>1
<1>3. g \in [1 .. n -> S] /\ IsInjective(g)
  BY <1>2 DEF Bijection, Injection
<1>4. f \in [1 .. n -> S] /\ IsInjective(f)
  BY <1>3 DEF SetToSeq
<1> HIDE DEF f
<1>5. f \in Injection(1 .. n, S)
  BY <1>4 DEF Injection
<1>6. Cardinality(1 .. n) = Cardinality(S)
  <2>1. Cardinality(1 .. n) = IF 1 > n THEN 0 ELSE n - 1 + 1
    BY <1>1, FS_Interval
  <2>2. QED
    BY <1>1, <2>1
<1>7. f \in Surjection(1 .. n, S)
  BY <1>5, <1>6, FS_Injection
<1>8. \A x \in S : \E i \in 1 .. n : f[i] = x
  BY <1>7 DEF Surjection
<1>9. DOMAIN f = 1 .. n /\ f \in Seq(S) /\ Len(f) = n
  BY <1>1, <1>4
<1>10. QED
  BY <1>4, <1>8, <1>9 DEF f
=============================================================================
