--------------------------- MODULE KeyPairProofs ---------------------------
(***************************************************************************)
(* Theorems about KeyPair, for every set of private and public halves and  *)
(* every bound.                                                            *)
(***************************************************************************)
EXTENDS KeyPair, SequenceLemmas, SequenceTheorems

(* What is reached holds the objects it is reached from, and its children.  *)
LEMMA ReachedHolds ==
  ASSUME NEW objects \in SUBSET Half, NEW children \in [Half -> SUBSET Half]
  PROVE  /\ objects \subseteq Reached(objects, children)
         /\ Reached(objects, children) \subseteq Half
         /\ \A h \in Reached(objects, children) : children[h] \subseteq Reached(objects, children)
<1>1. \A S \in Closed(objects, children) : objects \subseteq S /\ \A h \in S : children[h] \subseteq S
  BY DEF Closed
<1>2. objects \subseteq Reached(objects, children)
  BY <1>1 DEF Reached
<1>3. ASSUME NEW h \in Reached(objects, children), NEW s \in children[h]
      PROVE  s \in Reached(objects, children)
  <2>1. h \in Half /\ s \in Half
    BY <1>3 DEF Reached
  <2>2. \A S \in Closed(objects, children) : s \in S
    BY <1>1, <1>3 DEF Reached
  <2>3. QED
    BY <2>1, <2>2 DEF Reached
<1>4. QED
  BY <1>2, <1>3 DEF Reached

(* And it is the least such set. *)
LEMMA ReachedLeast ==
  ASSUME NEW objects \in SUBSET Half, NEW children \in [Half -> SUBSET Half],
         NEW S \in SUBSET Half, objects \subseteq S, \A h \in S : children[h] \subseteq S
  PROVE  Reached(objects, children) \subseteq S
<1> DEFINE owned == UNION {children[h] : h \in Half}
           least == objects \cup (S \cap (owned \ objects))
<1>1. S \cap (owned \ objects) \in SUBSET (owned \ objects)
  OBVIOUS
<1>2. ASSUME NEW h \in least
      PROVE  children[h] \subseteq least
  OBVIOUS
<1>3. least \in Closed(objects, children)
  BY <1>1, <1>2 DEF Closed
<1>4. QED
  BY <1>3 DEF Reached

LEMMA AliveFacts ==
  ASSUME TypeOK
  PROVE  /\ held \subseteq Alive /\ Alive \subseteq Half
         /\ \A h \in Alive : subs[h] \subseteq Alive
BY ReachedHolds DEF TypeOK, Alive

(* Everything that is alive after a step is in a set that holds the children *)
(* of its own.                                                               *)
LEMMA AliveAfter ==
  ASSUME held' \subseteq Half, subs' \in [Half -> SUBSET Half],
         NEW S \in SUBSET Half, held' \subseteq S, \A h \in S : subs'[h] \subseteq S
  PROVE  Alive' \subseteq S
<1>1. Reached(held', subs') \subseteq S
  BY ReachedLeast
<1>2. QED
  BY <1>1 DEF Alive

LEMMA AliveFactsAfter ==
  ASSUME held' \subseteq Half, subs' \in [Half -> SUBSET Half]
  PROVE  /\ held' \subseteq Alive' /\ Alive' \subseteq Half
         /\ \A h \in Alive' : subs'[h] \subseteq Alive'
<1>1. /\ held' \subseteq Reached(held', subs') /\ Reached(held', subs') \subseteq Half
      /\ \A h \in Reached(held', subs') : subs'[h] \subseteq Reached(held', subs')
  BY ReachedHolds
<1>2. QED
  BY <1>1 DEF Alive

(* The descendants of a private key are private and alive. *)
LEMMA TreeFacts ==
  ASSUME TypeOK, NEW h \in Private \cap Alive
  PROVE  /\ h \in Tree(h) /\ Tree(h) \subseteq Private \cap Alive
         /\ \A s \in Tree(h) : subs[s] \subseteq Tree(h)
<1>1. {h} \in SUBSET Half /\ subs \in [Half -> SUBSET Half]
  BY DEF TypeOK, Half
<1>2. h \in Tree(h) /\ \A s \in Tree(h) : subs[s] \subseteq Tree(h)
  BY <1>1, ReachedHolds DEF Tree
<1>3. \A x \in Alive : subs[x] \subseteq Alive
  BY AliveFacts
<1>4. \A x \in Private \cap Alive : subs[x] \subseteq Private \cap Alive
  BY <1>3 DEF TypeOK, ChildrenFit
<1>5. Private \cap Alive \in SUBSET Half
  BY DEF Half
<1>6. Reached({h}, subs) \subseteq Private \cap Alive
  <2> DEFINE S == Private \cap Alive
  <2>1. {h} \subseteq S /\ S \in SUBSET Half /\ \A x \in S : subs[x] \subseteq S
    BY <1>4, <1>5
  <2> HIDE DEF S
  <2>2. Reached({h}, subs) \subseteq S
    BY <1>1, <2>1, ReachedLeast
  <2>3. QED
    BY <2>2 DEF S
<1>7. QED
  BY <1>2, <1>6 DEF Tree

(* A call is made for a descendant; the first is made for the key itself;   *)
(* and where the recursion ends, there is a call for every child of the key *)
(* that a call is made for.                                                 *)
LEMMA CallFacts ==
  ASSUME TypeOK, NEW h \in Private \cap Alive
  PROVE  /\ <<h>> \in Calls(h) /\ End(<<h>>) = h
         /\ \A c \in Calls(h) : /\ Len(c) \in 1..MaxDepth /\ c \in [1..Len(c) -> Tree(h)]
                                /\ End(c) \in Tree(h)
         /\ Ends(h) => \A c \in Calls(h) : \A s \in subs[End(c)] :
                          Append(c, s) \in Calls(h) /\ End(Append(c, s)) = s
<1>1. h \in Tree(h) /\ \A s \in Tree(h) : subs[s] \subseteq Tree(h)
  BY TreeFacts
<1>2. <<h>> \in Calls(h) /\ End(<<h>>) = h
  <2>1. <<h>> \in [1..1 -> Tree(h)] /\ Len(<<h>>) = 1 /\ <<h>>[1] = h
    BY <1>1
  <2>2. 1 \in 1..MaxDepth
    BY HalvesAssumption
  <2>3. QED
    BY <2>1, <2>2 DEF Calls, End
<1>3. ASSUME NEW c \in Calls(h)
      PROVE  Len(c) \in 1..MaxDepth /\ c \in [1..Len(c) -> Tree(h)] /\ End(c) \in Tree(h)
  <2>1. PICK n \in 1..MaxDepth : c \in [1..n -> Tree(h)]
    BY DEF Calls
  <2>2. Len(c) = n
    BY <2>1, HalvesAssumption
  <2>3. QED
    BY <2>1, <2>2, HalvesAssumption DEF End
<1>4. ASSUME Ends(h), NEW c \in Calls(h), NEW s \in subs[End(c)]
      PROVE  Append(c, s) \in Calls(h) /\ End(Append(c, s)) = s
  <2> DEFINE n == Len(c)
             d == Append(c, s)
  <2>1. n \in 1..MaxDepth /\ c \in [1..n -> Tree(h)] /\ End(c) \in Tree(h)
    BY <1>3
  <2>2. n + 1 \in 1..MaxDepth
    BY <1>4, <2>1, HalvesAssumption DEF Ends
  <2>3. s \in Tree(h)
    BY <1>1, <2>1
  <2>4. n \in Nat /\ c \in Seq(Tree(h))
    BY <2>1, HalvesAssumption
  <2>5. /\ d \in Seq(Tree(h)) /\ Len(d) = n + 1 /\ d[n + 1] = s
        /\ \A i \in 1..n : d[i] = c[i]
    BY <2>3, <2>4
  <2>6. d \in [1..n + 1 -> Tree(h)]
    BY <2>5, LenProperties
  <2>7. c[1] = h /\ \A i \in 2..n : c[i] \in subs[c[i - 1]]
    BY DEF Calls
  <2>8. \A i \in 2..n + 1 : d[i] \in subs[d[i - 1]]
    <3>1. SUFFICES ASSUME NEW i \in 2..n + 1 PROVE d[i] \in subs[d[i - 1]]
      OBVIOUS
    <3>2. CASE i = n + 1
      BY <2>1, <2>4, <2>5, <3>2 DEF End
    <3>3. CASE i # n + 1
      <4>1. i \in 2..n /\ i \in 1..n /\ i - 1 \in 1..n
        BY <2>4, <3>3
      <4>2. QED
        BY <2>5, <2>7, <4>1
    <3>4. QED
      BY <3>2, <3>3
  <2>9. d[1] = h
    BY <2>1, <2>5, <2>7
  <2>10. d \in Calls(h)
    BY <2>2, <2>5, <2>6, <2>8, <2>9 DEF Calls
  <2>11. QED
    BY <2>5, <2>10 DEF End
<1>5. QED
  BY <1>2, <1>3, <1>4

(* A call that is not the first one is made by another. *)
LEMMA CallBefore ==
  ASSUME TypeOK, NEW h \in Private \cap Alive, NEW c \in Calls(h), Len(c) # 1
  PROVE  \E d \in Calls(h) : \E s \in subs[End(d)] : c = Append(d, s) /\ Len(c) = Len(d) + 1
<1> DEFINE n == Len(c)
           d == [i \in 1..n - 1 |-> c[i]]
<1>1. n \in 2..MaxDepth /\ c \in [1..n -> Tree(h)]
  <2>1. Len(c) \in 1..MaxDepth /\ c \in [1..Len(c) -> Tree(h)]
    BY CallFacts
  <2>2. QED
    BY <2>1, HalvesAssumption
<1>2. c[1] = h /\ \A i \in 2..n : c[i] \in subs[c[i - 1]]
  BY DEF Calls
<1>3. /\ n \in Nat /\ n - 1 \in Nat /\ n - 1 \in 1..MaxDepth
      /\ \A i \in 1..n - 1 : i \in 1..n
  BY <1>1, HalvesAssumption
<1>4. d \in [1..n - 1 -> Tree(h)] /\ Len(d) = n - 1 /\ d \in Seq(Tree(h))
  BY <1>1, <1>3
<1>5. \A i \in 1..n - 1 : d[i] = c[i]
  OBVIOUS
<1> HIDE DEF d
<1>6. d[1] = h /\ \A i \in 2..n - 1 : d[i] \in subs[d[i - 1]]
  <2>1. 1 \in 1..n - 1 /\ \A i \in 2..n - 1 : i \in 2..n /\ i \in 1..n - 1 /\ i - 1 \in 1..n - 1
    BY <1>1, <1>3
  <2>2. QED
    BY <1>2, <1>5, <2>1
<1>7. d \in Calls(h)
  BY <1>3, <1>4, <1>6 DEF Calls
<1>8. c[n] \in subs[End(d)]
  <2>1. n \in 2..n /\ n - 1 \in 1..n - 1
    BY <1>1, <1>3
  <2>2. QED
    BY <1>2, <1>4, <1>5, <2>1 DEF End
<1>9. c = Append(d, c[n])
  <2>1. c[n] \in Tree(h) /\ c \in Seq(Tree(h)) /\ Append(d, c[n]) \in Seq(Tree(h))
    BY <1>1, <1>3, <1>4
  <2>2. Len(Append(d, c[n])) = n
    BY <1>3, <1>4
  <2>3. ASSUME NEW i \in 1..n PROVE c[i] = Append(d, c[n])[i]
    <3>1. CASE i = n
      BY <1>3, <1>4, <3>1
    <3>2. CASE i # n
      <4>1. i \in 1..n - 1
        BY <1>3, <3>2
      <4>2. QED
        BY <1>4, <1>5, <4>1
    <3>3. QED
      BY <3>1, <3>2
  <2>4. QED
    BY <2>1, <2>2, <2>3, SeqEqual
<1>10. QED
  BY <1>3, <1>4, <1>7, <1>8, <1>9

(* The objects pubkey copies are private and alive, the copies were free,   *)
(* and each copy has one origin.                                            *)
LEMMA FreshFacts ==
  ASSUME TypeOK, NEW h \in Private \cap Alive, NEW f \in Fresh(h)
  PROVE  /\ Copies(f) \subseteq Public \cap Gone
         /\ \A c \in Calls(h) : /\ f[c] \in Copies(f) /\ Maker(f, f[c]) = c
                                /\ Origin(f, f[c]) = End(c)
                                /\ KeyOf[f[c]] = KeyOf[End(c)]
         /\ \A x \in Copies(f) : /\ Maker(f, x) \in Calls(h) /\ f[Maker(f, x)] = x
                                 /\ Origin(f, x) = End(Maker(f, x)) /\ Origin(f, x) \in Tree(h)
         /\ Tree(h) \cap Copies(f) = {}
<1>1. f \in [Calls(h) -> Public \cap Gone]
  BY DEF Fresh
<1>2. \A c \in Calls(h) : KeyOf[f[c]] = KeyOf[End(c)] /\ \A d \in Calls(h) : f[c] = f[d] => c = d
  BY DEF Fresh
<1>3. Copies(f) \subseteq Public \cap Gone
  BY <1>1 DEF Copies
<1>4. \A x \in Copies(f) : Maker(f, x) \in Calls(h) /\ f[Maker(f, x)] = x
  BY <1>1 DEF Copies, Maker
<1>5. \A c \in Calls(h) : f[c] \in Copies(f)
  BY <1>1 DEF Copies
<1>6. \A c \in Calls(h) : Maker(f, f[c]) = c
  BY <1>2, <1>4, <1>5
<1>7. Tree(h) \cap Copies(f) = {}
  BY <1>3, TreeFacts, HalvesAssumption
<1>8. \A x \in Copies(f) : Origin(f, x) = End(Maker(f, x)) /\ Origin(f, x) \in Tree(h)
  BY <1>4, CallFacts DEF Origin
<1>9. \A c \in Calls(h) : Origin(f, f[c]) = End(c)
  BY <1>6 DEF Origin
<1>10. QED
  BY <1>2, <1>3, <1>4, <1>5, <1>6, <1>7, <1>8, <1>9

(* What pubkey copies keeps its type. *)
LEMMA CopiedType ==
  ASSUME NEW T, NEW content \in [Half -> T], NEW f, \A x \in Copies(f) : Origin(f, x) \in Half
  PROVE  Copied(content, f) \in [Half -> T]
BY DEF Copied

(* What pubkey makes keeps the types of what holds objects. *)
LEMMA MadeHalves ==
  ASSUME TypeOK, NEW h \in Private \cap Alive, Ends(h), NEW f \in Fresh(h),
         NEW last, MakePublic(h, f, last)
  PROVE  /\ held' \subseteq Half /\ subs' \in [Half -> SUBSET Half]
         /\ \A x \in Half \ Copies(f) : subs'[x] = subs[x]
         /\ \A c \in Calls(h) : subs'[f[c]] = {f[Append(c, s)] : s \in subs[End(c)]}
<1>1. /\ Copies(f) \subseteq Half
      /\ \A c \in Calls(h) : f[c] \in Copies(f) /\ Maker(f, f[c]) = c /\ Origin(f, f[c]) = End(c)
      /\ \A x \in Copies(f) : Maker(f, x) \in Calls(h) /\ Origin(f, x) = End(Maker(f, x))
  BY FreshFacts DEF Half
<1>2. /\ <<h>> \in Calls(h)
      /\ \A c \in Calls(h) : \A s \in subs[End(c)] : Append(c, s) \in Calls(h)
  BY CallFacts
<1>3. subs' = [x \in Half |-> IF x \in Copies(f)
                             THEN {f[Append(Maker(f, x), s)] : s \in subs[Origin(f, x)]}
                             ELSE subs[x]]
  BY DEF MakePublic
<1>4. \A x \in Copies(f) : {f[Append(Maker(f, x), s)] : s \in subs[Origin(f, x)]} \in SUBSET Half
  BY <1>1, <1>2
<1>5. subs' \in [Half -> SUBSET Half]
  BY <1>3, <1>4 DEF TypeOK
<1>6. held' \subseteq Half
  BY <1>1, <1>2 DEF MakePublic, TypeOK
<1>7. \A c \in Calls(h) : subs'[f[c]] = {f[Append(c, s)] : s \in subs[End(c)]}
  BY <1>1, <1>3
<1>8. QED
  BY <1>3, <1>5, <1>6, <1>7

(* pubkey brings its copies to life, and nothing dies. *)
LEMMA PubkeyAlive ==
  ASSUME TypeOK, NEW h \in Private \cap Alive, Ends(h), NEW f \in Fresh(h),
         NEW last, MakePublic(h, f, last)
  PROVE  Alive' = Alive \cup Copies(f)
<1>1. /\ held' \subseteq Half /\ subs' \in [Half -> SUBSET Half]
      /\ \A x \in Half \ Copies(f) : subs'[x] = subs[x]
      /\ \A c \in Calls(h) : subs'[f[c]] = {f[Append(c, s)] : s \in subs[End(c)]}
  BY MadeHalves
<1>2. /\ Copies(f) \subseteq Half /\ Copies(f) \cap Alive = {}
      /\ \A c \in Calls(h) : f[c] \in Copies(f)
      /\ \A x \in Copies(f) : Maker(f, x) \in Calls(h) /\ f[Maker(f, x)] = x
  BY FreshFacts DEF Half, Gone
<1>3. /\ <<h>> \in Calls(h)
      /\ \A c \in Calls(h) : \A s \in subs[End(c)] : Append(c, s) \in Calls(h)
      /\ \A c \in Calls(h) : Len(c) \in 1..MaxDepth
  BY CallFacts
<1>4. held \subseteq Alive /\ Alive \subseteq Half /\ \A x \in Alive : subs[x] \subseteq Alive
  BY AliveFacts
<1>5. held' = held \cup {f[<<h>>]}
  BY DEF MakePublic
<1>6. Alive' \subseteq Alive \cup Copies(f)
  <2> DEFINE S == Alive \cup Copies(f)
  <2>1. S \in SUBSET Half /\ held' \subseteq S
    BY <1>2, <1>3, <1>4, <1>5
  <2>2. ASSUME NEW x \in S PROVE subs'[x] \subseteq S
    <3>1. CASE x \in Copies(f)
      BY <1>1, <1>2, <1>3, <3>1
    <3>2. CASE x \notin Copies(f)
      BY <1>1, <1>4, <3>2
    <3>3. QED
      BY <3>1, <3>2
  <2> HIDE DEF S
  <2>3. Alive' \subseteq S
    BY <1>1, <2>1, <2>2, AliveAfter
  <2>4. QED
    BY <2>3 DEF S
<1>7. /\ held' \subseteq Alive' /\ Alive' \subseteq Half
      /\ \A x \in Alive' : subs'[x] \subseteq Alive'
  BY <1>1, AliveFactsAfter
<1>8. Alive \subseteq Alive'
  <2> DEFINE S == Alive \cap Alive'
  <2>1. S \in SUBSET Half /\ held \subseteq S
    BY <1>4, <1>5, <1>7
  <2>2. \A x \in S : subs[x] \subseteq S
    BY <1>1, <1>2, <1>4, <1>7
  <2>3. held \in SUBSET Half /\ subs \in [Half -> SUBSET Half]
    BY DEF TypeOK
  <2> HIDE DEF S
  <2>4. Reached(held, subs) \subseteq S
    BY <2>1, <2>2, <2>3, ReachedLeast
  <2>5. QED
    BY <2>4 DEF S, Alive
<1>9. \A c \in Calls(h) : f[c] \in Alive'
  <2> DEFINE T == {n \in 0..MaxDepth : \A c \in Calls(h) : Len(c) = n => f[c] \in Alive'}
  <2>1. MaxDepth \in Nat
    BY HalvesAssumption
  <2>2. 0 \in T
    BY <1>3, <2>1
  <2>3. ASSUME NEW n \in 0..MaxDepth - 1, n \in T PROVE n + 1 \in T
    <3>1. n + 1 \in 0..MaxDepth
      BY <2>1
    <3>2. ASSUME NEW c \in Calls(h), Len(c) = n + 1 PROVE f[c] \in Alive'
      <4>1. CASE Len(c) = 1
        <5>1. c = <<h>>
          <6>1. c \in [1..1 -> Tree(h)] /\ c[1] = h
            BY <4>1, CallFacts DEF Calls
          <6>2. QED
            BY <6>1
        <5>2. QED
          BY <1>5, <1>7, <5>1
      <4>2. CASE Len(c) # 1
        <5>1. PICK d \in Calls(h) : \E s \in subs[End(d)] : c = Append(d, s) /\ Len(c) = Len(d) + 1
          BY <4>2, CallBefore
        <5>2. Len(d) = n
          BY <1>3, <3>2, <5>1
        <5>3. f[d] \in Alive'
          BY <2>3, <5>1, <5>2
        <5>4. QED
          BY <1>1, <1>7, <5>1, <5>3
      <4>3. QED
        BY <4>1, <4>2
    <3>3. QED
      BY <3>1, <3>2
  <2> HIDE DEF T
  <2>4. \A n \in 0..MaxDepth : n \in T
    BY <2>1, <2>2, <2>3, BoundedInduction
  <2>5. QED
    BY <1>3, <2>1, <2>4 DEF T
<1>10. QED
  BY <1>2, <1>6, <1>8, <1>9

LEMMA MarkedType ==
  ASSUME TypeOK, NEW objects, NEW reason \in Reason
  PROVE  Marked(objects, reason) \in [Half -> SUBSET Reason]
BY DEF TypeOK, Marked

LEMMA MadeType == ASSUME TypeOK, Made PROVE items' \in Item
BY HalvesAssumption DEF TypeOK, Made, Item

LEMMA RememberedType ==
  ASSUME TypeOK, NEW objects, NEW children
  PROVE  Remembered(objects, children) \in [Half -> Half \cup {NoHalf}]
BY DEF TypeOK, Remembered

(* Taking a child in brings nobody to life who was not. *)
LEMMA AdoptAlive ==
  ASSUME TypeOK, NEW h \in Alive, NEW s \in Alive, held' = held,
         subs' = [subs EXCEPT ![h] = Adopt(h, s)]
  PROVE  Alive' \subseteq Alive /\ subs' \in [Half -> SUBSET Half]
<1>1. held \subseteq Alive /\ Alive \subseteq Half /\ \A x \in Alive : subs[x] \subseteq Alive
  BY AliveFacts
<1>2. Adopt(h, s) \subseteq subs[h] \cup {s}
  BY DEF Adopt
<1>3. /\ subs \in [Half -> SUBSET Half] /\ h \in Half /\ s \in Half
      /\ subs[h] \cup {s} \in SUBSET Half
  BY <1>1 DEF TypeOK
<1>4. subs' \in [Half -> SUBSET Half]
  BY <1>2, <1>3
<1>5. \A x \in Alive : subs'[x] \subseteq Alive
  BY <1>1, <1>2, <1>3
<1>6. held' \subseteq Alive /\ held' \subseteq Half /\ Alive \in SUBSET Half
  BY <1>1
<1> DEFINE S == Alive
<1>7. S \in SUBSET Half /\ held' \subseteq S /\ \A x \in S : subs'[x] \subseteq S
  BY <1>5, <1>6
<1> HIDE DEF S
<1>8. Alive' \subseteq S
  BY <1>4, <1>6, <1>7, AliveAfter
<1>9. QED
  BY <1>4, <1>8 DEF S

(* Nor does forgetting, or holding on to what is alive. *)
LEMMA HeldAlive ==
  ASSUME TypeOK, held' \subseteq Alive, subs' = subs
  PROVE  Alive' \subseteq Alive
<1>1. held \subseteq Alive /\ Alive \subseteq Half /\ \A x \in Alive : subs[x] \subseteq Alive
  BY AliveFacts
<1> DEFINE S == Alive
<1>2. S \in SUBSET Half /\ held' \subseteq S /\ \A x \in S : subs'[x] \subseteq S
  BY <1>1
<1>3. held' \subseteq Half /\ subs' \in [Half -> SUBSET Half]
  BY <1>1 DEF TypeOK
<1> HIDE DEF S
<1>4. Alive' \subseteq S
  BY <1>2, <1>3, AliveAfter
<1>5. QED
  BY <1>4 DEF S

LEMMA AliveSame == ASSUME held' = held, subs' = subs PROVE Alive' = Alive
BY DEF Alive

(* Holding on to what is alive lets nothing die. *)
LEMMA HoldAlive ==
  ASSUME TypeOK, held \subseteq held', held' \subseteq Alive, subs' = subs
  PROVE  Alive' = Alive
<1>1. Alive' \subseteq Alive
  BY HeldAlive
<1>2. held' \subseteq Half /\ subs' \in [Half -> SUBSET Half]
  BY AliveFacts DEF TypeOK
<1>3. /\ held' \subseteq Alive' /\ Alive' \subseteq Half
      /\ \A x \in Alive' : subs'[x] \subseteq Alive'
  BY <1>2, AliveFactsAfter
<1> DEFINE S == Alive'
<1>4. /\ S \in SUBSET Half /\ held \subseteq S /\ \A x \in S : subs[x] \subseteq S
      /\ held \in SUBSET Half /\ subs \in [Half -> SUBSET Half]
  BY <1>3 DEF TypeOK
<1> HIDE DEF S
<1>5. Reached(held, subs) \subseteq S
  BY <1>4, ReachedLeast
<1>6. QED
  BY <1>1, <1>5 DEF S, Alive

(* Every variable stays within its type, and the children of every living   *)
(* key, however deep, are subkeys of its own half.                          *)
THEOREM TypeCorrect == Spec => []TypeOK
<1>1. Init => TypeOK
  <2>1. ASSUME Init PROVE ChildrenFit
    <3>1. \A h \in Half : subs[h] = {}
      BY <2>1 DEF Init
    <3>2. Alive \subseteq Half
      BY DEF Alive, Reached
    <3>3. QED
      BY <3>1, <3>2 DEF ChildrenFit
  <2>2. ASSUME Init
        PROVE  /\ held \subseteq Half /\ sib \in [Half -> Half \cup {NoHalf}]
               /\ subkey \in [Half -> BOOLEAN] /\ subs \in [Half -> SUBSET Half]
               /\ sigs \in [Half -> SUBSET Item] /\ certs \in [Half -> SUBSET (Item \X Item)]
               /\ apart \in [Half -> SUBSET Reason] /\ raised \in BOOLEAN
    BY <2>2, HalvesAssumption DEF Init
  <2>3. ASSUME Init PROVE uids \in [Half -> SUBSET Item]
    BY <2>3, HalvesAssumption DEF Init, Item
  <2>4. ASSUME Init PROVE items \in Item /\ steps \in 0..MaxSteps
    BY <2>4, HalvesAssumption DEF Init, Item
  <2>5. QED
    BY <2>1, <2>2, <2>3, <2>4 DEF TypeOK
<1>2. TypeOK /\ [Next]_vars => TypeOK'
  <2> SUFFICES ASSUME TypeOK, [Next]_vars PROVE TypeOK'
    OBVIOUS
  <2>1. CASE UNCHANGED vars
    <3>1. ChildrenFit'
      BY <2>1, AliveSame DEF vars, TypeOK, ChildrenFit
    <3>2. QED
      BY <2>1, <3>1 DEF vars, TypeOK
  <2>2. CASE Next
    <3>1. steps' \in 0..MaxSteps
      BY <2>2, HalvesAssumption DEF Next, TypeOK
    <3>2. held \subseteq Alive /\ Alive \subseteq Half /\ \A x \in Alive : subs[x] \subseteq Alive
      BY AliveFacts
    <3>3. ASSUME held' = held, subs' = subs, subkey' = subkey PROVE ChildrenFit'
      BY <3>3, AliveSame DEF TypeOK, ChildrenFit
    <3>4. ASSUME NEW h \in Alive, Pubkey(h) PROVE TypeOK'
      <4>1. h \in Private \cap Alive /\ Ends(h)
        BY <3>4 DEF Pubkey
      <4>2. PICK f \in Fresh(h), last \in [Tree(h) -> Calls(h)] : MakePublic(h, f, last)
        BY <3>4 DEF Pubkey
      <4>3. /\ Copies(f) \subseteq Public \cap Gone /\ Copies(f) \subseteq Half
            /\ \A c \in Calls(h) : f[c] \in Copies(f) /\ Origin(f, f[c]) = End(c)
            /\ \A x \in Copies(f) : /\ Maker(f, x) \in Calls(h) /\ f[Maker(f, x)] = x
                                    /\ Origin(f, x) = End(Maker(f, x)) /\ Origin(f, x) \in Tree(h)
        BY <4>1, FreshFacts DEF Half
      <4>4. Tree(h) \subseteq Private \cap Alive /\ Tree(h) \subseteq Half
        BY <4>1, TreeFacts DEF Half
      <4>5. /\ subkey' = Copied(subkey, f) /\ sigs' = Copied(sigs, f)
            /\ uids' = Copied(uids, f) /\ certs' = Copied(certs, f)
        BY <4>2 DEF MakePublic
      <4>6. /\ subkey' \in [Half -> BOOLEAN] /\ sigs' \in [Half -> SUBSET Item]
            /\ uids' \in [Half -> SUBSET Item] /\ certs' \in [Half -> SUBSET (Item \X Item)]
        BY <4>3, <4>4, <4>5, CopiedType DEF TypeOK
      <4>7. /\ held' \subseteq Half /\ subs' \in [Half -> SUBSET Half]
            /\ \A x \in Half \ Copies(f) : subs'[x] = subs[x]
            /\ \A c \in Calls(h) : subs'[f[c]] = {f[Append(c, s)] : s \in subs[End(c)]}
        BY <4>1, <4>2, MadeHalves
      <4>8. sib' \in [Half -> Half \cup {NoHalf}] /\ apart' \in [Half -> SUBSET Reason]
        <5>1. \A s \in Tree(h) : f[last[s]] \in Half
          BY <4>3
        <5>2. QED
          BY <4>2, <4>3, <4>4, <5>1 DEF MakePublic, TypeOK
      <4>9. ChildrenFit'
        <5>1. Alive' = Alive \cup Copies(f)
          BY <4>1, <4>2, PubkeyAlive
        <5>2. ASSUME NEW k \in Alive, k \notin Copies(f), NEW s \in subs'[k]
              PROVE  subkey'[s] /\ (s \in Private <=> k \in Private)
          <6>1. s \in subs[k] /\ s \in Alive
            BY <3>2, <4>7, <5>2
          <6>2. subkey'[s] = subkey[s]
            BY <3>2, <4>3, <4>5, <6>1 DEF Copied, Gone
          <6>3. QED
            BY <5>2, <6>1, <6>2 DEF TypeOK, ChildrenFit
        <5>3. ASSUME NEW k \in Copies(f), NEW s \in subs'[k]
              PROVE  subkey'[s] /\ (s \in Private <=> k \in Private)
          <6>1. PICK t \in subs[Origin(f, k)] : s = f[Append(Maker(f, k), t)]
            BY <4>3, <4>7, <5>3
          <6>2. Append(Maker(f, k), t) \in Calls(h) /\ End(Append(Maker(f, k), t)) = t
            <7>1. \A c \in Calls(h) : \A x \in subs[End(c)] :
                     Append(c, x) \in Calls(h) /\ End(Append(c, x)) = x
              BY <4>1, CallFacts
            <7>2. QED
              BY <4>3, <6>1, <7>1
          <6>3. s \in Copies(f) /\ s \in Half /\ Origin(f, s) = t
            BY <4>3, <6>1, <6>2
          <6>4. subkey'[s] = subkey[t]
            BY <4>5, <6>3 DEF Copied
          <6>5. subkey[t]
            BY <4>3, <4>4, <6>1 DEF TypeOK, ChildrenFit
          <6>6. s \notin Private /\ k \notin Private
            BY <4>3, <6>3, HalvesAssumption
          <6>7. QED
            BY <6>4, <6>5, <6>6
        <5>4. QED
          BY <5>1, <5>2, <5>3 DEF ChildrenFit
      <4>10. raised' \in BOOLEAN /\ items' \in Item
        BY <3>4 DEF Pubkey, TypeOK
      <4>11. QED
        BY <3>1, <4>6, <4>7, <4>8, <4>9, <4>10 DEF TypeOK
    <3>14. ASSUME NEW h \in Alive, PubkeyFails(h) PROVE TypeOK'
      <4>1. sib' \in [Half -> Half \cup {NoHalf}]
        BY <3>14 DEF PubkeyFails, TypeOK
      <4>2. QED
        BY <3>1, <3>3, <3>14, <4>1 DEF PubkeyFails, TypeOK
    <3>5. ASSUME NEW h \in Alive, AddSignature(h) PROVE TypeOK'
      <4>1. apart' \in [Half -> SUBSET Reason]
        BY <3>5, MarkedType DEF AddSignature, Reason
      <4>2. QED
        BY <3>1, <3>3, <3>5, <4>1, MadeType DEF AddSignature, Composed, TypeOK
    <3>6. ASSUME NEW h \in Alive, AddUid(h) PROVE TypeOK'
      <4>1. apart' \in [Half -> SUBSET Reason]
        BY <3>6, MarkedType DEF AddUid, Reason
      <4>2. QED
        BY <3>1, <3>3, <3>6, <4>1, MadeType DEF AddUid, Composed, TypeOK
    <3>7. ASSUME NEW h \in Alive, CertifyUid(h) PROVE TypeOK'
      <4>1. apart' \in [Half -> SUBSET Reason]
        BY <3>7, MarkedType DEF CertifyUid, Reason
      <4>2. items' \in Item
        BY <3>7, MadeType DEF CertifyUid
      <4>3. PICK u \in uids[h] : certs' = [certs EXCEPT ![h] = @ \cup {<<u, items'>>}]
        BY <3>7 DEF CertifyUid
      <4>4. u \in Item
        BY <3>2 DEF TypeOK
      <4>5. certs' \in [Half -> SUBSET (Item \X Item)]
        BY <3>2, <4>2, <4>3, <4>4 DEF TypeOK
      <4>6. QED
        BY <3>1, <3>3, <3>7, <4>1, <4>2, <4>5 DEF CertifyUid, TypeOK
    <3>8. ASSUME NEW h \in Alive, DelUid(h) PROVE TypeOK'
      <4>1. Marked({h}, "deleted") \in [Half -> SUBSET Reason]
        BY MarkedType DEF Reason
      <4>2. /\ uids' \in [Half -> SUBSET Item] /\ certs' \in [Half -> SUBSET (Item \X Item)]
            /\ apart' \in [Half -> SUBSET Reason] /\ raised' \in BOOLEAN
        <5>1. CASE subkey[h]
          BY <3>2, <3>8, <5>1 DEF DelUid, TypeOK
        <5>2. CASE ~subkey[h]
          <6>1. PICK u \in uids[h] :
                  /\ uids' = [uids EXCEPT ![h] = @ \ {u}]
                  /\ certs' = [certs EXCEPT ![h] = {c \in @ : c[1] # u}]
            BY <3>8, <5>2 DEF DelUid
          <6>2. uids' \in [Half -> SUBSET Item] /\ certs' \in [Half -> SUBSET (Item \X Item)]
            BY <6>1 DEF TypeOK
          <6>3. apart' \in [Half -> SUBSET Reason] /\ raised' \in BOOLEAN
            BY <3>2, <3>8, <4>1, <5>2 DEF DelUid, TypeOK
          <6>4. QED
            BY <6>2, <6>3
        <5>3. QED
          BY <5>1, <5>2
      <4>3. QED
        BY <3>1, <3>3, <3>8, <4>2 DEF DelUid, TypeOK
    <3>9. ASSUME NEW h \in Half, Forget(h) \/ (h \in Alive /\ Hold(h)) PROVE TypeOK'
      <4>1. Alive' \subseteq Alive
        BY <3>2, <3>9, HeldAlive DEF Forget, Hold
      <4>2. sib' \in [Half -> Half \cup {NoHalf}]
        BY <3>9, RememberedType DEF Forget, Hold, TypeOK
      <4>3. ChildrenFit'
        BY <3>9, <4>1 DEF Forget, Hold, TypeOK, ChildrenFit
      <4>4. QED
        BY <3>1, <3>9, <4>2, <4>3 DEF Forget, Hold, TypeOK
    <3>10. ASSUME NEW h \in Alive, NEW p \in Alive, SetPubkey(h, p) PROVE TypeOK'
      <4>1. apart' \in [Half -> SUBSET Reason]
        <5>1. Marked({h}, "set") \in [Half -> SUBSET Reason]
          BY MarkedType DEF Reason
        <5>2. QED
          BY <3>10, <5>1 DEF SetPubkey, TypeOK
      <4>2. sib' \in [Half -> Half \cup {NoHalf}] /\ raised' \in BOOLEAN
        BY <3>10, <3>2 DEF SetPubkey, TypeOK, Settable
      <4>3. QED
        BY <3>1, <3>3, <3>10, <4>1, <4>2 DEF SetPubkey, TypeOK
    <3>11. ASSUME NEW h \in Alive, NEW s \in Alive, AddHalf(h, s) PROVE TypeOK'
      <4>1. sib' \in [Half -> Half \cup {NoHalf}]
        BY <3>11, RememberedType DEF AddHalf
      <4>2. CASE Fits(h, s)
        <5>1. subs' = [subs EXCEPT ![h] = Adopt(h, s)]
          BY <3>11, <4>2 DEF AddHalf
        <5>2. Alive' \subseteq Alive /\ subs' \in [Half -> SUBSET Half]
          BY <3>11, <5>1, AdoptAlive DEF AddHalf
        <5>3. ChildrenFit'
          BY <3>11, <3>2, <4>2, <5>1, <5>2 DEF AddHalf, Adopt, Fits, TypeOK, ChildrenFit
        <5>4. apart' \in [Half -> SUBSET Reason]
          <6>1. Marked({h}, "subkey") \in [Half -> SUBSET Reason]
            BY MarkedType DEF Reason
          <6>2. QED
            BY <3>11, <4>2, <6>1 DEF AddHalf
        <5>5. raised' \in BOOLEAN
          BY <3>11, <4>2 DEF AddHalf
        <5>6. QED
          BY <3>1, <3>11, <4>1, <5>2, <5>3, <5>4, <5>5 DEF AddHalf, TypeOK
      <4>3. CASE ~Fits(h, s)
        BY <3>1, <3>3, <3>11, <4>1, <4>3 DEF AddHalf, TypeOK
      <4>4. QED
        BY <4>2, <4>3
    <3>12. ASSUME NEW h \in Alive, NEW s \in Alive, AddSubkey(h, s) PROVE TypeOK'
      <4>1. subs' = [subs EXCEPT ![h] = Adopt(h, s)]
        BY <3>12 DEF AddSubkey
      <4>2. Alive' \subseteq Alive /\ subs' \in [Half -> SUBSET Half]
        BY <3>12, <4>1, AdoptAlive DEF AddSubkey
      <4>3. ChildrenFit'
        <5>1. SUFFICES ASSUME NEW k \in Alive', NEW x \in subs'[k]
                       PROVE  subkey'[x] /\ (x \in Private <=> k \in Private)
          BY DEF ChildrenFit
        <5>2. k \in Alive /\ k \in Half
          BY <4>2, <3>2
        <5>3. /\ subkey' = [subkey EXCEPT ![s] = TRUE]
              /\ h \in Private /\ s \in Private
          BY <3>12 DEF AddSubkey
        <5>4. \A y \in subs[k] : subkey[y] /\ y \in Half /\ (y \in Private <=> k \in Private)
          BY <5>2 DEF TypeOK, ChildrenFit
        <5>5. x \in subs[k] \/ (x = s /\ k = h)
          BY <4>1, <5>1, <5>2 DEF Adopt, TypeOK
        <5>6. QED
          BY <3>2, <5>3, <5>4, <5>5 DEF TypeOK
      <4>4. sigs' \in [Half -> SUBSET Item] /\ items' \in Item /\ raised' \in BOOLEAN
        <5>1. CASE Made /\ sigs' = Composed(sigs, s) /\ raised' = FALSE
          BY <5>1, MadeType DEF Composed, TypeOK
        <5>2. CASE raised' = TRUE /\ UNCHANGED <<sigs, items>>
          BY <5>2 DEF TypeOK
        <5>3. QED
          BY <3>12, <5>1, <5>2 DEF AddSubkey
      <4>5. apart' \in [Half -> SUBSET Reason]
        BY <3>12, MarkedType DEF AddSubkey, Reason
      <4>6. sib' \in [Half -> Half \cup {NoHalf}] /\ subkey' \in [Half -> BOOLEAN]
        BY <3>12, RememberedType DEF AddSubkey, TypeOK
      <4>7. QED
        BY <3>1, <3>12, <4>2, <4>3, <4>4, <4>5, <4>6 DEF AddSubkey, TypeOK
    <3>13. QED
      BY <2>2, <3>2, <3>4, <3>5, <3>6, <3>7, <3>8, <3>9, <3>10, <3>11, <3>12, <3>14 DEF Next
  <2>3. QED
    BY <2>1, <2>2
<1>3. QED
  BY <1>1, <1>2, PTL DEF Spec

(* References die with what they refer to. *)
LEMMA FilteredSiblingsMatch ==
  ASSUME SiblingsMatch, sib' = Remembered(held', subs')
  PROVE  SiblingsMatch'
<1>1. sib' = [x \in Half |-> IF sib[x] \in Alive' THEN sib[x] ELSE NoHalf]
  BY DEF Remembered, Alive
<1>2. QED
  BY <1>1 DEF SiblingsMatch

LEMMA PubkeySiblings ==
  ASSUME TypeOK, SiblingsMatch, NEW h \in Private \cap Alive, Ends(h), NEW f \in Fresh(h),
         NEW last \in [Tree(h) -> Calls(h)], MakePublic(h, f, last)
  PROVE  SiblingsMatch'
<1>1. /\ Copies(f) \subseteq Public \cap Gone
      /\ \A c \in Calls(h) : f[c] \in Copies(f) /\ KeyOf[f[c]] = KeyOf[End(c)]
      /\ \A x \in Copies(f) : /\ Maker(f, x) \in Calls(h) /\ f[Maker(f, x)] = x
                              /\ Origin(f, x) = End(Maker(f, x)) /\ Origin(f, x) \in Tree(h)
      /\ Tree(h) \cap Copies(f) = {}
  BY FreshFacts
<1>2. Tree(h) \subseteq Private \cap Alive
  BY TreeFacts
<1>3. Alive' = Alive \cup Copies(f)
  BY PubkeyAlive
<1>4. /\ \A s \in Tree(h) : last[s] \in Calls(h) /\ End(last[s]) = s
      /\ sib' = [x \in Half |-> IF x \in Tree(h) THEN f[last[x]]
                                ELSE IF x \in Copies(f) THEN Origin(f, x) ELSE sib[x]]
  BY DEF MakePublic
<1>5. SUFFICES ASSUME NEW x \in Half, sib'[x] # NoHalf
               PROVE  /\ sib'[x] \in Alive'
                      /\ KeyOf[sib'[x]] = KeyOf[x]
                      /\ x \in Private <=> sib'[x] \in Public
  BY DEF SiblingsMatch
<1>6. CASE x \in Tree(h)
  BY <1>1, <1>2, <1>3, <1>4, <1>6
<1>7. CASE x \in Copies(f)
  <2>1. sib'[x] = Origin(f, x)
    BY <1>1, <1>4, <1>7
  <2>2. KeyOf[x] = KeyOf[Origin(f, x)]
    BY <1>1, <1>7
  <2>3. x \notin Private /\ Origin(f, x) \notin Public
    BY <1>1, <1>2, <1>7, HalvesAssumption
  <2>4. QED
    BY <1>1, <1>2, <1>3, <1>7, <2>1, <2>2, <2>3
<1>8. CASE x \notin Tree(h) /\ x \notin Copies(f)
  BY <1>3, <1>4, <1>5, <1>8 DEF SiblingsMatch
<1>9. QED
  BY <1>6, <1>7, <1>8

LEMMA SiblingsMatchStep == TypeOK /\ SiblingsMatch /\ [Next]_vars => SiblingsMatch'
<1> SUFFICES ASSUME TypeOK, SiblingsMatch, [Next]_vars PROVE SiblingsMatch'
  OBVIOUS
<1>1. ASSUME sib' = sib, Alive' = Alive PROVE SiblingsMatch'
  BY <1>1 DEF SiblingsMatch
<1>2. ASSUME NEW h \in Alive, Pubkey(h) PROVE SiblingsMatch'
  BY <1>2, PubkeySiblings DEF Pubkey
<1>3. ASSUME NEW h \in Alive, NEW p \in Alive, SetPubkey(h, p) PROVE SiblingsMatch'
  <2>1. Alive' = Alive
    BY <1>3, AliveSame DEF SetPubkey
  <2>2. CASE Settable(h, p)
    <3>1. sib' = [sib EXCEPT ![h] = p, ![p] = h]
      BY <1>3, <2>2 DEF SetPubkey
    <3>2. /\ h \in Private /\ p \in Public /\ KeyOf[p] = KeyOf[h] /\ h # p
          /\ h \notin Public /\ p \notin Private /\ h \in Alive /\ p \in Alive
      BY <1>3, <2>2, HalvesAssumption DEF Settable
    <3>3. sib \in [Half -> Half \cup {NoHalf}]
      BY DEF TypeOK
    <3>4. QED
      BY <2>1, <3>1, <3>2, <3>3 DEF SiblingsMatch
  <2>3. CASE ~Settable(h, p)
    BY <1>1, <1>3, <2>1, <2>3 DEF SetPubkey
  <2>4. QED
    BY <2>2, <2>3
<1>4. ASSUME NEW h, NEW s, AddHalf(h, s) \/ AddSubkey(h, s) \/ Forget(h)
      PROVE  SiblingsMatch'
  <2>1. sib' = Remembered(held', subs')
    BY <1>4 DEF AddHalf, AddSubkey, Forget
  <2>2. QED
    BY <2>1, FilteredSiblingsMatch
<1>5. ASSUME NEW h, AddSignature(h) \/ AddUid(h) \/ CertifyUid(h) \/ DelUid(h)
      PROVE  SiblingsMatch'
  <2>1. Alive' = Alive
    BY <1>5, AliveSame DEF AddSignature, AddUid, CertifyUid, DelUid
  <2>2. QED
    BY <1>1, <1>5, <2>1 DEF AddSignature, AddUid, CertifyUid, DelUid
<1>6. ASSUME NEW h \in Alive, Hold(h) PROVE SiblingsMatch'
  <2>1. Alive' = Alive
    BY <1>6, HoldAlive, AliveFacts DEF Hold
  <2>2. QED
    BY <1>1, <1>6, <2>1 DEF Hold
<1>7. ASSUME NEW h \in Alive, PubkeyFails(h) PROVE SiblingsMatch'
  <2>1. Alive' = Alive
    BY <1>7, AliveSame DEF PubkeyFails
  <2>2. \A x \in Half : sib'[x] = sib[x] \/ sib'[x] = NoHalf
    BY <1>7 DEF PubkeyFails
  <2>3. QED
    BY <2>1, <2>2 DEF SiblingsMatch
<1>8. CASE UNCHANGED vars
  BY <1>1, <1>8, AliveSame DEF vars
<1>9. QED
  BY <1>2, <1>3, <1>4, <1>5, <1>6, <1>7, <1>8 DEF Next

(* A sibling is an object that lives, of the same key and of the other half. *)
THEOREM SiblingsAlwaysMatch == Spec => []SiblingsMatch
<1>1. Init => SiblingsMatch
  BY DEF Init, SiblingsMatch
<1>2. QED
  BY <1>1, SiblingsMatchStep, TypeCorrect, PTL DEF Spec

-----------------------------------------------------------------------------
(* Two private halves have one public half for a sibling only when one of   *)
(* them took it from the other by the setter.                               *)
OneClaim ==
  \A h, s \in Private, p \in Public :
    Linked(h, p) /\ sib[s] = p => s = h \/ "set" \in apart[h]

HalvesInv == TypeOK /\ SiblingsMatch /\ OneClaim /\ HalvesAgree

LEMMA LinkedBefore ==
  ASSUME NEW objects, NEW children, sib' = Remembered(objects, children),
         NEW x \in Half, NEW y \in Half, sib'[x] = y
  PROVE  sib[x] = y
BY HalvesAssumption DEF Remembered

LEMMA ApartKept ==
  ASSUME \A x \in Half : apart[x] \subseteq apart'[x],
         NEW h \in Half, NEW p \in Half, NEW R, Apart(h, p, R)
  PROVE  Apart(h, p, R)'
BY DEF Apart

LEMMA MarkedKeeps ==
  ASSUME NEW objects, NEW reason, apart' = Marked(objects, reason)
  PROVE  /\ \A x \in Half : apart[x] \subseteq apart'[x]
         /\ \A x \in Half \cap objects : reason \in apart'[x]
BY DEF Marked

(* What is composed with an object changes both linked halves, or neither,  *)
(* or marks the one it changes.                                             *)
LEMMA ComposedBoth ==
  ASSUME HalvesInv, NEW a \in Alive, NEW old, NEW new, NEW i,
         new = [x \in Half |-> IF x \in Both(a) THEN old[x] \cup {i} ELSE old[x]],
         NEW h \in Private, NEW p \in Public, Linked(h, p), old[h] = old[p]
  PROVE  new[h] = new[p] \/ h \in Behind(a) \/ p \in Behind(a)
<1>1. h \in Half /\ p \in Half /\ h # NoHalf /\ p # NoHalf
  BY HalvesAssumption DEF Half
<1>2. h \in Alive /\ p \in Alive
  BY <1>1 DEF HalvesInv, SiblingsMatch, Linked
<1>3. CASE a = h \/ a = p
  BY <1>1, <1>2, <1>3 DEF Both, Linked
<1>4. CASE a # h /\ a # p /\ sib[a] \in {h, p}
  BY <1>2, <1>4 DEF Behind, Linked
<1>5. CASE a # h /\ a # p /\ sib[a] \notin {h, p}
  BY <1>1, <1>5 DEF Both
<1>6. QED
  BY <1>3, <1>4, <1>5

(* A step that composes or changes contents, marks what it sets apart, and  *)
(* at most forgets siblings, keeps whatever holds of linked halves.         *)
LEMMA HalvesStep == HalvesInv /\ [Next]_vars => (OneClaim /\ HalvesAgree)'
<1> SUFFICES ASSUME HalvesInv, [Next]_vars PROVE (OneClaim /\ HalvesAgree)'
  OBVIOUS
<1>1. TypeOK /\ SiblingsMatch /\ OneClaim /\ HalvesAgree
  BY DEF HalvesInv
<1>2. /\ Private \subseteq Half /\ Public \subseteq Half /\ Private \cap Public = {} /\ NoHalf \notin Half
      /\ Alive \subseteq Half
  BY <1>1, AliveFacts, HalvesAssumption DEF Half
<1>3. ASSUME \A x \in Half : apart[x] \subseteq apart'[x],
             \A x, y \in Half : sib'[x] = y => sib[x] = y,
             \A h \in Private, p \in Public : Linked(h, p) /\ Agree(h, p) => Agree(h, p)'
      PROVE  (OneClaim /\ HalvesAgree)'
  BY <1>1, <1>2, <1>3 DEF OneClaim, HalvesAgree, Linked
<1>4. ASSUME sib' = sib PROVE \A x, y \in Half : sib'[x] = y => sib[x] = y
  BY <1>4
<1>5. ASSUME NEW a \in Alive, AddSignature(a) PROVE (OneClaim /\ HalvesAgree)'
  <2>1. /\ \A x \in Half : apart[x] \subseteq apart'[x]
        /\ \A x \in Half \cap Behind(a) : "older half" \in apart'[x]
    BY <1>2, <1>5, MarkedKeeps DEF AddSignature
  <2>2. ASSUME NEW h \in Private, NEW p \in Public, Linked(h, p), Agree(h, p)
        PROVE  Agree(h, p)'
    <3>1. sigs[h] = sigs[p] => sigs'[h] = sigs'[p] \/ h \in Behind(a) \/ p \in Behind(a)
      <4>1. sigs' = [x \in Half |-> IF x \in Both(a) THEN sigs[x] \cup {items'} ELSE sigs[x]]
        BY <1>5 DEF AddSignature, Composed
      <4>2. QED
        BY <1>5, <2>2, <4>1, ComposedBoth
    <3>2. h \in Behind(a) \/ p \in Behind(a) => Apart(h, p, {"older half"})'
      BY <1>2, <2>1 DEF Apart
    <3>3. \A R : Apart(h, p, R) => Apart(h, p, R)'
      BY <1>2, <2>1, ApartKept
    <3>4. QED
      BY <1>5, <2>2, <3>1, <3>2, <3>3 DEF Agree, AddSignature
  <2>3. QED
    BY <1>3, <1>4, <1>5, <2>1, <2>2 DEF AddSignature
<1>6. ASSUME NEW a \in Alive, AddUid(a) PROVE (OneClaim /\ HalvesAgree)'
  <2>1. /\ \A x \in Half : apart[x] \subseteq apart'[x]
        /\ \A x \in Half \cap Behind(a) : "older half" \in apart'[x]
    BY <1>2, <1>6, MarkedKeeps DEF AddUid
  <2>2. ASSUME NEW h \in Private, NEW p \in Public, Linked(h, p), Agree(h, p)
        PROVE  Agree(h, p)'
    <3>1. uids[h] = uids[p] => uids'[h] = uids'[p] \/ h \in Behind(a) \/ p \in Behind(a)
      <4>1. uids' = [x \in Half |-> IF x \in Both(a) THEN uids[x] \cup {items'} ELSE uids[x]]
        BY <1>6 DEF AddUid, Composed
      <4>2. QED
        BY <1>6, <2>2, <4>1, ComposedBoth
    <3>2. h \in Behind(a) \/ p \in Behind(a) => Apart(h, p, {"older half", "deleted"})'
      BY <1>2, <2>1 DEF Apart
    <3>3. \A R : Apart(h, p, R) => Apart(h, p, R)'
      BY <1>2, <2>1, ApartKept
    <3>4. QED
      BY <1>6, <2>2, <3>1, <3>2, <3>3 DEF Agree, AddUid
  <2>3. QED
    BY <1>3, <1>4, <1>6, <2>1, <2>2 DEF AddUid
<1>7. ASSUME NEW a \in Alive, CertifyUid(a) PROVE (OneClaim /\ HalvesAgree)'
  <2>1. /\ \A x \in Half : apart[x] \subseteq apart'[x]
        /\ "certified" \in apart'[a]
    BY <1>2, <1>7, MarkedKeeps DEF CertifyUid
  <2>2. ASSUME NEW h \in Private, NEW p \in Public, Linked(h, p), Agree(h, p)
        PROVE  Agree(h, p)'
    <3>1. \A x \in Half : x # a => certs'[x] = certs[x]
      BY <1>7 DEF CertifyUid
    <3>2. a \in {h, p} => Apart(h, p, {"older half", "deleted", "certified"})'
      BY <2>1 DEF Apart
    <3>3. \A R : Apart(h, p, R) => Apart(h, p, R)'
      BY <1>2, <2>1, ApartKept
    <3>4. QED
      BY <1>2, <1>7, <2>2, <3>1, <3>2, <3>3 DEF Agree, CertifyUid
  <2>3. QED
    BY <1>3, <1>4, <1>7, <2>1, <2>2 DEF CertifyUid
<1>8. ASSUME NEW a \in Alive, DelUid(a) PROVE (OneClaim /\ HalvesAgree)'
  <2>1. CASE subkey[a]
    <3>1. \A h \in Private, p \in Public : Agree(h, p) => Agree(h, p)'
      BY <1>8, <2>1 DEF DelUid, Agree, Apart
    <3>2. QED
      BY <1>3, <1>4, <1>8, <2>1, <3>1 DEF DelUid
  <2>2. CASE ~subkey[a]
    <3>1. /\ \A x \in Half : apart[x] \subseteq apart'[x]
          /\ "deleted" \in apart'[a]
      BY <1>2, <1>8, <2>2, MarkedKeeps DEF DelUid
    <3>2. ASSUME NEW h \in Private, NEW p \in Public, Linked(h, p), Agree(h, p)
          PROVE  Agree(h, p)'
      <4>1. \A x \in Half : x # a => uids'[x] = uids[x] /\ certs'[x] = certs[x]
        <5>1. PICK u \in uids[a] :
                /\ uids' = [uids EXCEPT ![a] = @ \ {u}]
                /\ certs' = [certs EXCEPT ![a] = {c \in @ : c[1] # u}]
          BY <1>8, <2>2 DEF DelUid
        <5>2. QED
          BY <1>1, <5>1 DEF TypeOK
      <4>2. a \in {h, p} => /\ Apart(h, p, {"older half", "deleted"})'
                            /\ Apart(h, p, {"older half", "deleted", "certified"})'
        BY <3>1 DEF Apart
      <4>3. \A R : Apart(h, p, R) => Apart(h, p, R)'
        BY <1>2, <3>1, ApartKept
      <4>4. QED
        BY <1>2, <1>8, <3>2, <4>1, <4>2, <4>3 DEF Agree, DelUid
    <3>3. QED
      BY <1>3, <1>4, <1>8, <3>1, <3>2 DEF DelUid
  <2>3. QED
    BY <2>1, <2>2
<1>9. ASSUME NEW a \in Half, Forget(a) PROVE (OneClaim /\ HalvesAgree)'
  <2>1. \A x, y \in Half : sib'[x] = y => sib[x] = y
    BY <1>9, LinkedBefore DEF Forget
  <2>2. \A h \in Private, p \in Public : Agree(h, p) => Agree(h, p)'
    BY <1>9 DEF Forget, Agree, Apart
  <2>3. QED
    BY <1>3, <1>9, <2>1, <2>2 DEF Forget
<1>10. ASSUME NEW a \in Alive, NEW s \in Alive, AddHalf(a, s) PROVE (OneClaim /\ HalvesAgree)'
  <2>1. \A x, y \in Half : sib'[x] = y => sib[x] = y
    BY <1>10, LinkedBefore DEF AddHalf
  <2>2. CASE Fits(a, s)
    <3>1. /\ \A x \in Half : apart[x] \subseteq apart'[x]
          /\ "subkey" \in apart'[a]
      BY <1>2, <1>10, <2>2, MarkedKeeps DEF AddHalf
    <3>2. ASSUME NEW h \in Private, NEW p \in Public, Linked(h, p), Agree(h, p)
          PROVE  Agree(h, p)'
      <4>1. \A x \in Half : x # a => subs'[x] = subs[x]
        BY <1>1, <1>10, <2>2 DEF AddHalf, TypeOK
      <4>2. a \in {h, p} => Apart(h, p, {"subkey"})'
        BY <3>1 DEF Apart
      <4>3. \A R : Apart(h, p, R) => Apart(h, p, R)'
        BY <1>2, <3>1, ApartKept
      <4>4. QED
        BY <1>2, <1>10, <2>2, <3>2, <4>1, <4>2, <4>3 DEF Agree, AddHalf
    <3>3. QED
      BY <1>3, <2>1, <3>1, <3>2
  <2>3. CASE ~Fits(a, s)
    <3>1. \A h \in Private, p \in Public : Agree(h, p) => Agree(h, p)'
      BY <1>10, <2>3 DEF AddHalf, Agree, Apart
    <3>2. QED
      BY <1>3, <1>10, <2>1, <2>3, <3>1 DEF AddHalf
  <2>4. QED
    BY <2>2, <2>3
<1>11. ASSUME NEW a \in Alive, NEW s \in Alive, AddSubkey(a, s) PROVE (OneClaim /\ HalvesAgree)'
  <2>1. \A x, y \in Half : sib'[x] = y => sib[x] = y
    BY <1>11, LinkedBefore DEF AddSubkey
  <2>2. /\ \A x \in Half : apart[x] \subseteq apart'[x]
        /\ "subkey" \in apart'[a] /\ "subkey" \in apart'[s]
    <3>1. apart' = Marked({a, s}, "subkey")
      BY <1>11 DEF AddSubkey
    <3>2. QED
      BY <1>2, <3>1, MarkedKeeps
  <2>3. ASSUME NEW h \in Private, NEW p \in Public, Linked(h, p), Agree(h, p)
        PROVE  Agree(h, p)'
    <3>1. \A R : Apart(h, p, R) => Apart(h, p, R)'
      BY <1>2, <2>2, ApartKept
    <3>2. uids' = uids /\ certs' = certs
      BY <1>11 DEF AddSubkey
    <3>3. subkey'[h] = subkey'[p] \/ Apart(h, p, {"subkey"})'
      <4>1. \A x \in Half : x # s => subkey'[x] = subkey[x]
        BY <1>11 DEF AddSubkey
      <4>2. s \in {h, p} => Apart(h, p, {"subkey"})'
        BY <2>2 DEF Apart
      <4>3. QED
        BY <1>2, <2>3, <3>1, <4>1, <4>2 DEF Agree
    <3>4. {KeyOf[x] : x \in subs'[h]} = {KeyOf[x] : x \in subs'[p]} \/ Apart(h, p, {"subkey"})'
      <4>1. \A x \in Half : x # a => subs'[x] = subs[x]
        BY <1>11 DEF AddSubkey
      <4>2. a \in {h, p} => Apart(h, p, {"subkey"})'
        BY <2>2 DEF Apart
      <4>3. QED
        BY <1>2, <2>3, <3>1, <4>1, <4>2 DEF Agree
    <3>5. sigs'[h] = sigs'[p] \/ Apart(h, p, {"older half"})'
      <4>1. CASE sigs' = sigs
        BY <2>3, <3>1, <4>1 DEF Agree
      <4>2. CASE sigs' = Composed(sigs, s)
        <5>1. s \in Alive /\ s \in Private
          BY <1>11 DEF AddSubkey
        <5>2. CASE Apart(h, p, {"older half"})
          BY <3>1, <5>2
        <5>3. CASE sigs[h] = sigs[p] /\ ~Apart(h, p, {"older half"})
          <6>1. sigs'[h] = sigs'[p] \/ h \in Behind(s) \/ p \in Behind(s)
            <7>1. sigs' = [x \in Half |-> IF x \in Both(s) THEN sigs[x] \cup {items'} ELSE sigs[x]]
              BY <4>2 DEF Composed
            <7>2. QED
              BY <2>3, <5>1, <5>3, <7>1, ComposedBoth
          <6>2. h \notin Behind(s)
            BY <1>1, <1>2, <5>1 DEF Behind, SiblingsMatch, TypeOK
          <6>3. "set" \notin apart[h]
            BY <5>3 DEF Apart
          <6>4. p \in Behind(s) => sib[s] = p /\ s # h
            BY <2>3 DEF Behind, Linked
          <6>5. p \notin Behind(s)
            BY <1>1, <2>3, <5>1, <6>3, <6>4 DEF OneClaim
          <6>6. QED
            BY <6>1, <6>2, <6>5
        <5>4. QED
          BY <2>3, <5>2, <5>3 DEF Agree
      <4>3. QED
        BY <1>11, <4>1, <4>2 DEF AddSubkey
    <3>6. QED
      BY <2>3, <3>1, <3>2, <3>3, <3>4, <3>5 DEF Agree
  <2>4. QED
    BY <1>3, <2>1, <2>2, <2>3
<1>12. ASSUME NEW a \in Alive, NEW q \in Alive, SetPubkey(a, q) PROVE (OneClaim /\ HalvesAgree)'
  <2>1. CASE ~Settable(a, q)
    <3>1. \A h \in Private, p \in Public : Agree(h, p) => Agree(h, p)'
      BY <1>12, <2>1 DEF SetPubkey, Agree, Apart
    <3>2. QED
      BY <1>3, <1>4, <1>12, <2>1, <3>1 DEF SetPubkey
  <2>2. CASE Settable(a, q)
    <3>1. /\ sib' = [sib EXCEPT ![a] = q, ![q] = a]
          /\ a \in Private /\ q \in Public /\ a # q
      BY <1>2, <1>12, <2>2 DEF SetPubkey, Settable
    <3>2. /\ \A x \in Half : apart[x] \subseteq apart'[x]
          /\ "set" \in apart'[a]
      BY <1>2, <1>12, <2>2, MarkedKeeps DEF SetPubkey
    <3>3. \A x \in Half : x # a /\ x # q => sib'[x] = sib[x]
      BY <1>1, <3>1 DEF TypeOK
    <3>4. sib'[a] = q /\ sib'[q] = a
      BY <1>1, <1>2, <3>1 DEF TypeOK
    <3>5. ASSUME NEW h \in Private, NEW p \in Public, Linked(h, p)', h # a
          PROVE  Linked(h, p) /\ p # q
      BY <1>2, <3>1, <3>3, <3>4, <3>5 DEF Linked
    <3>6. OneClaim'
      <4>1. SUFFICES ASSUME NEW h \in Private, NEW s \in Private, NEW p \in Public,
                            Linked(h, p)', sib'[s] = p, s # h, h # a
                     PROVE  "set" \in apart'[h]
        BY <3>2 DEF OneClaim
      <4>2. Linked(h, p) /\ p # q
        BY <3>5, <4>1
      <4>3. s # a /\ s # q
        BY <1>2, <3>1, <3>4, <4>1, <4>2
      <4>4. sib[s] = p
        BY <1>2, <3>3, <4>1, <4>3
      <4>5. QED
        BY <1>1, <1>2, <3>2, <4>1, <4>2, <4>4 DEF OneClaim
    <3>7. HalvesAgree'
      <4>1. SUFFICES ASSUME NEW h \in Private, NEW p \in Public, Linked(h, p)'
                     PROVE  Agree(h, p)'
        BY DEF HalvesAgree
      <4>2. CASE h = a
        <5>1. \A R : Apart(h, p, R)'
          BY <3>2, <4>2 DEF Apart
        <5>2. QED
          BY <5>1 DEF Agree
      <4>3. CASE h # a
        <5>1. Agree(h, p)
          BY <1>1, <3>5, <4>1, <4>3 DEF HalvesAgree
        <5>2. \A R : Apart(h, p, R) => Apart(h, p, R)'
          BY <1>2, <3>2, ApartKept
        <5>3. QED
          BY <1>12, <5>1, <5>2 DEF Agree, SetPubkey
      <4>4. QED
        BY <4>2, <4>3
    <3>8. QED
      BY <3>6, <3>7
  <2>3. QED
    BY <2>1, <2>2
<1>13. ASSUME NEW a \in Alive, Pubkey(a) PROVE (OneClaim /\ HalvesAgree)'
  <2>1. a \in Private \cap Alive /\ Ends(a)
    BY <1>13 DEF Pubkey
  <2>2. PICK f \in Fresh(a), last \in [Tree(a) -> Calls(a)] : MakePublic(a, f, last)
    BY <1>13 DEF Pubkey
  <2>3. /\ \A s \in Tree(a) : last[s] \in Calls(a) /\ End(last[s]) = s
        /\ sib' = [x \in Half |-> IF x \in Tree(a) THEN f[last[x]]
                                  ELSE IF x \in Copies(f) THEN Origin(f, x) ELSE sib[x]]
        /\ apart' = [x \in Half |-> IF x \in Tree(a) \cup Copies(f) THEN {} ELSE apart[x]]
        /\ subkey' = Copied(subkey, f) /\ sigs' = Copied(sigs, f)
        /\ uids' = Copied(uids, f) /\ certs' = Copied(certs, f)
    BY <2>2 DEF MakePublic
  <2>4. /\ Copies(f) \subseteq Public \cap Gone
        /\ \A c \in Calls(a) : f[c] \in Copies(f) /\ Origin(f, f[c]) = End(c) /\ KeyOf[f[c]] = KeyOf[End(c)]
        /\ Tree(a) \cap Copies(f) = {} /\ Tree(a) \subseteq Private
    BY <1>1, <2>1, FreshFacts, TreeFacts
  \* The siblings there were are none of the new objects.
  <2>5. \A x \in Half : sib[x] \notin Copies(f)
    BY <1>1, <1>2, <2>4 DEF SiblingsMatch, Gone
  <2>6. ASSUME NEW h \in Private, NEW p \in Public, sib'[h] = p
        PROVE  IF p \in Copies(f) THEN h \in Tree(a) /\ f[last[h]] = p
               ELSE h \notin Tree(a) /\ p \notin Tree(a) /\ sib[h] = p /\ sib'[p] = sib[p]
    <3>1. h \in Half /\ p \in Half /\ h \notin Copies(f) /\ p \notin Tree(a)
      BY <1>2, <2>4
    <3>2. CASE h \in Tree(a)
      BY <2>3, <2>4, <2>6, <3>1, <3>2
    <3>3. CASE h \notin Tree(a)
      BY <2>3, <2>5, <2>6, <3>1, <3>3
    <3>4. QED
      BY <3>2, <3>3
  <2>7. ASSUME NEW h \in Private, NEW p \in Copies(f), sib'[p] = h PROVE h = Origin(f, p)
    BY <1>2, <2>3, <2>4, <2>7
  <2>8. OneClaim'
    <3>1. SUFFICES ASSUME NEW h \in Private, NEW s \in Private, NEW p \in Public,
                          Linked(h, p)', sib'[s] = p, s # h
                   PROVE  "set" \in apart'[h]
      BY DEF OneClaim
    <3>2. p \notin Copies(f)
      <4>1. SUFFICES ASSUME p \in Copies(f) PROVE FALSE
        OBVIOUS
      <4>2. h \in Tree(a) /\ f[last[h]] = p /\ s \in Tree(a) /\ f[last[s]] = p
        BY <2>6, <3>1, <4>1 DEF Linked
      <4>3. Origin(f, p) = h /\ Origin(f, p) = s
        BY <2>3, <2>4, <4>2
      <4>4. QED
        BY <3>1, <4>3
    <3>3. /\ sib[h] = p /\ sib[p] = h /\ sib[s] = p
          /\ h \notin Tree(a) /\ h \notin Copies(f)
      BY <1>2, <2>4, <2>6, <3>1, <3>2 DEF Linked
    <3>4. "set" \in apart[h]
      BY <1>1, <3>1, <3>3 DEF OneClaim, Linked
    <3>5. QED
      BY <1>2, <2>3, <3>3, <3>4
  <2>9. HalvesAgree'
    <3>1. SUFFICES ASSUME NEW h \in Private, NEW p \in Public, Linked(h, p)'
                   PROVE  Agree(h, p)'
      BY DEF HalvesAgree
    <3>2. h \in Half /\ p \in Half /\ h \notin Copies(f) /\ p \notin Tree(a)
      BY <1>2, <2>4
    <3>3. sigs'[h] = sigs[h] /\ uids'[h] = uids[h] /\ certs'[h] = certs[h] /\ subkey'[h] = subkey[h]
      BY <2>3, <3>2 DEF Copied
    <3>4. /\ \A x \in Half \ Copies(f) : subs'[x] = subs[x]
          /\ \A c \in Calls(a) : subs'[f[c]] = {f[Append(c, s)] : s \in subs[End(c)]}
      BY <1>1, <2>1, <2>2, MadeHalves
    <3>5. CASE p \in Copies(f)
      <4>1. h \in Tree(a) /\ f[last[h]] = p /\ last[h] \in Calls(a) /\ End(last[h]) = h /\ Origin(f, p) = h
        BY <2>3, <2>4, <2>6, <3>1, <3>5 DEF Linked
      <4>2. sigs'[p] = sigs[h] /\ uids'[p] = uids[h] /\ certs'[p] = certs[h] /\ subkey'[p] = subkey[h]
        BY <2>3, <3>2, <3>5, <4>1 DEF Copied
      <4>3. {KeyOf[s] : s \in subs'[p]} = {KeyOf[s] : s \in subs[h]}
        <5>1. subs'[p] = {f[Append(last[h], s)] : s \in subs[h]}
          BY <3>4, <4>1
        <5>2. \A s \in subs[h] : Append(last[h], s) \in Calls(a) /\ End(Append(last[h], s)) = s
          <6>1. \A c \in Calls(a) : \A s \in subs[End(c)] :
                   Append(c, s) \in Calls(a) /\ End(Append(c, s)) = s
            BY <1>1, <2>1, CallFacts
          <6>2. QED
            BY <4>1, <6>1
        <5>3. \A s \in subs[h] : KeyOf[f[Append(last[h], s)]] = KeyOf[s]
          BY <2>4, <5>2
        <5>4. QED
          BY <5>1, <5>3
      <4>4. subs'[h] = subs[h]
        BY <3>2, <3>4
      <4>5. QED
        BY <3>3, <4>2, <4>3, <4>4 DEF Agree
    <3>6. CASE p \notin Copies(f)
      <4>1. Linked(h, p) /\ h \notin Tree(a)
        BY <2>6, <3>1, <3>6 DEF Linked
      <4>2. Agree(h, p)
        BY <1>1, <4>1 DEF HalvesAgree
      <4>3. sigs'[p] = sigs[p] /\ uids'[p] = uids[p] /\ certs'[p] = certs[p] /\ subkey'[p] = subkey[p]
        BY <2>3, <3>2, <3>6 DEF Copied
      <4>4. subs'[h] = subs[h] /\ subs'[p] = subs[p] /\ apart'[p] = apart[p] /\ apart'[h] = apart[h]
        BY <2>3, <3>2, <3>4, <3>6, <4>1
      <4>5. QED
        BY <3>3, <4>2, <4>3, <4>4 DEF Agree, Apart
    <3>7. QED
      BY <3>5, <3>6
  <2>10. QED
    BY <2>8, <2>9
<1>16. ASSUME NEW a \in Alive, PubkeyFails(a) PROVE (OneClaim /\ HalvesAgree)'
  <2>1. \A x, y \in Half : sib'[x] = y => sib[x] = y
    BY <1>2, <1>16 DEF PubkeyFails
  <2>2. \A h \in Private, p \in Public : Agree(h, p) => Agree(h, p)'
    BY <1>16 DEF PubkeyFails, Agree, Apart
  <2>3. QED
    BY <1>3, <1>16, <2>1, <2>2 DEF PubkeyFails
<1>17. ASSUME NEW a \in Alive, Hold(a) PROVE (OneClaim /\ HalvesAgree)'
  <2>1. \A h \in Private, p \in Public : Agree(h, p) => Agree(h, p)'
    BY <1>17 DEF Hold, Agree, Apart
  <2>2. QED
    BY <1>3, <1>4, <1>17, <2>1 DEF Hold
<1>14. CASE UNCHANGED vars
  <2>1. \A h \in Private, p \in Public : Agree(h, p) => Agree(h, p)'
    BY <1>14 DEF vars, Agree, Apart
  <2>2. QED
    BY <1>3, <1>4, <1>14, <2>1 DEF vars
<1>15. QED
  BY <1>2, <1>5, <1>6, <1>7, <1>8, <1>9, <1>10, <1>11, <1>12, <1>13, <1>14, <1>16, <1>17 DEF Next

(* Linked halves hold the same, but for what was done to one half only. *)
THEOREM HalvesAlwaysAgree == Spec => []HalvesAgree
<1>1. Init => OneClaim /\ HalvesAgree
  BY HalvesAssumption DEF Init, OneClaim, HalvesAgree, Linked, Half
<1>2. TypeOK /\ SiblingsMatch /\ OneClaim /\ HalvesAgree /\ [Next]_vars
        => OneClaim' /\ HalvesAgree'
  BY HalvesStep DEF HalvesInv
<1>3. QED
  BY <1>1, <1>2, TypeCorrect, SiblingsAlwaysMatch, PTL DEF Spec
=============================================================================
