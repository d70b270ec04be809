---------------------------- MODULE ParsingProofs ----------------------------
(***************************************************************************)
(* Proofs about what is read.  Key blocks, of any length, over any key     *)
(* ids: what is given to what, and which blocks parse.  Headers, of every  *)
(* tag and length: what is written is read back.                           *)
(***************************************************************************)
EXTENDS KeyParse, Headers, SequenceLemmas, SequenceTheorems

-----------------------------------------------------------------------------
(***************************************************************************)
(* The inductive invariant.  It says of the packets read so far, those     *)
(* before next, what FiledAsMeant says of all of them in the end.          *)
(***************************************************************************)
SupersededBefore(n, k) ==
  \E m \in Places : /\ n < m /\ m < k /\ Kind(m) = "sub" /\ block[m].id = block[n].id
                    /\ KeyBefore(m) = KeyBefore(n)

\* Where packet n belongs if the block ends before place k.
MeantBefore(n, k) ==
  CASE Kind(n) = "sig" -> IF Kind(Subject(n)) = "opaque" THEN 0 ELSE Subject(n)
    [] Kind(n) = "uid" -> KeyBefore(n)
    [] Kind(n) = "sub" -> IF SupersededBefore(n, k) THEN 0 ELSE KeyBefore(n)
    [] OTHER -> 0

\* The dict of keys holds primary keys that were read, the last of them last.
KeysFiled ==
  /\ \A i \in DOMAIN keys : /\ keys[i][3] \in 1 .. next - 1 /\ Kind(keys[i][3]) = "primary"
                            /\ block[keys[i][3]].id = keys[i][1]
                            /\ block[keys[i][3]].half = keys[i][2]
  /\ IF keys = <<>> THEN KeyBefore(next) = 0 ELSE LastKey = KeyBefore(next)

OwnersSoFar == \A n \in Places : owner[n] = IF n < next THEN MeantBefore(n, next) ELSE 0

\* Without a packet to put away the grouper is made once.
OneGrouper ==
  /\ next <= Len(block) + 1
  /\ fresh => next = 1
  /\ next > 1 => ~IsSig(1)
  /\ status = "done" => next = Len(block) + 1

RegularInv == Regular => OneGrouper /\ KeysFiled /\ OwnersSoFar
KeyParseInv == TypeOK /\ RegularInv /\ AcceptsKeyBlocks

-----------------------------------------------------------------------------
\* The last place of a kind before another one, 0 if there is none.
LEMMA LastBeforeFacts ==
  ASSUME NEW n \in Nat, n > 0, NEW S \in SUBSET (Nat \ {0})
  PROVE  /\ LastBefore(n, S) \in 0 .. n - 1
         /\ LastBefore(n, S) = 0 \/ LastBefore(n, S) \in S
         /\ \A m \in S : m < n => m <= LastBefore(n, S)
<1> DEFINE T == {0} \cup {m \in S : m < n}
<1>0. \A m \in S : m \in Nat /\ m # 0
  OBVIOUS
<1>1. T \in SUBSET (0 .. n) /\ T # {}
  <2>1. ASSUME NEW x \in T
        PROVE  x \in 0 .. n
    <3>1. x = 0 \/ (x \in Nat /\ x < n)
      BY <1>0
    <3>2. QED
      BY <3>1
  <2>2. QED
    BY <2>1
<1>2. LastBefore(n, S) = Max(T)
  BY DEF LastBefore
<1>3. Max(T) \in T /\ \A k \in T : k <= Max(T)
  <2> HIDE DEF T
  <2> QED
    BY <1>1, MaxOfBounded
<1>4. Max(T) = 0 \/ (Max(T) \in S /\ Max(T) < n)
  BY <1>3
<1>5. \A m \in S : m < n => m <= Max(T)
  BY <1>3
<1> HIDE DEF T
<1>6. Max(T) \in 0 .. n - 1
  <2>1. Max(T) = 0 \/ (Max(T) \in Nat /\ Max(T) < n)
    BY <1>0, <1>4
  <2>2. QED
    BY <2>1
<1>7. QED
  BY <1>2, <1>4, <1>5, <1>6

\* It is known by being the last one.
LEMMA LastBeforeIs ==
  ASSUME NEW n \in Nat, n > 0, NEW S \in SUBSET (Nat \ {0}),
         NEW x \in S, x < n, \A m \in S : m < n => m <= x
  PROVE  LastBefore(n, S) = x
<1>1. /\ LastBefore(n, S) \in 0 .. n - 1
      /\ LastBefore(n, S) = 0 \/ LastBefore(n, S) \in S
      /\ \A m \in S : m < n => m <= LastBefore(n, S)
  BY LastBeforeFacts
<1>2. x <= LastBefore(n, S) /\ x \in Nat /\ x # 0
  BY <1>1
<1>3. LastBefore(n, S) \in S
  BY <1>1, <1>2
<1>4. LastBefore(n, S) <= x
  BY <1>1, <1>3
<1>5. QED
  BY <1>1, <1>2, <1>4

\* A place with none of them from another place on has the same one before it.
LEMMA LastBeforeSame ==
  ASSUME NEW n \in Nat, NEW k \in Nat, n <= k, NEW S \in SUBSET Nat,
         \A m \in S : m < k => m < n
  PROVE  LastBefore(k, S) = LastBefore(n, S)
<1>0. \A m \in S : m \in Nat
  OBVIOUS
<1>1. {m \in S : m < k} = {m \in S : m < n}
  <2>1. \A m \in S : m < k <=> m < n
    BY <1>0
  <2>2. QED
    BY <2>1
<1>2. QED
  BY <1>1, Zenon DEF LastBefore

\* What is known of a place before the end of the block.
LEMMA PlaceFacts ==
  ASSUME TypeOK
  PROVE  /\ Places = 1 .. Len(block) /\ Len(block) \in Nat
         /\ \A n \in Places : block[n] \in KeyPacket \cup Plain
         /\ \A n \in Places : IsKey(n) => block[n] \in KeyPacket /\ block[n].id \in KeyId
                                          /\ block[n].half \in Half
<1>1. block \in Seq(KeyPacket \cup Plain)
  BY DEF TypeOK
<1>2. Places = 1 .. Len(block) /\ Len(block) \in Nat
  BY <1>1 DEF Places
<1>3. \A n \in Places : block[n] \in KeyPacket \cup Plain
  BY <1>1 DEF Places
<1>4. ASSUME NEW n \in Places, IsKey(n)
      PROVE  block[n] \in KeyPacket /\ block[n].id \in KeyId /\ block[n].half \in Half
  <2>1. block[n].kind \in {"primary", "sub"}
    BY <1>4 DEF IsKey, Kind
  <2>2. block[n] \in KeyPacket
    BY <1>3, <2>1 DEF Plain
  <2>3. QED
    BY <2>2 DEF KeyPacket
<1>5. QED
  BY <1>2, <1>3, <1>4

\* A group is a packet and the signatures after it.
LEMMA GroupFacts ==
  ASSUME TypeOK, next <= Len(block)
  PROVE  /\ next \in Places /\ GroupEnd \in next + 1 .. Len(block) + 1
         /\ \A n \in Places : next < n /\ n < GroupEnd => IsSig(n)
         /\ GroupSigs = {n \in Places : next < n /\ n < GroupEnd /\ Kind(n) = "sig"}
         /\ GroupEnd <= Len(block) => ~IsSig(GroupEnd)
<1>1. Places = 1 .. Len(block) /\ Len(block) \in Nat /\ next \in 1 .. Len(block)
  BY PlaceFacts DEF TypeOK
<1> DEFINE Ends == {e \in next + 1 .. Len(block) + 1 : e = Len(block) + 1 \/ ~IsSig(e)}
           Good(e) == /\ e = Len(block) + 1 \/ ~IsSig(e)
                      /\ \A n \in next + 1 .. e - 1 : IsSig(n)
<1>2. PICK e \in Ends : \A d \in Ends : e <= d
  <2>1. Len(block) + 1 \in Ends /\ Ends \in SUBSET Nat
    BY <1>1
  <2> HIDE DEF Ends
  <2>2. QED
    BY <2>1, LeastNatural
<1>3. Good(e)
  <2>1. ASSUME NEW n \in next + 1 .. e - 1
        PROVE  IsSig(n)
    <3>1. n \in next + 1 .. Len(block) + 1 /\ n \in Nat /\ ~(e <= n)
      BY <1>1, <1>2
    <3>2. n \notin Ends
      BY <1>2, <3>1
    <3>3. QED
      BY <3>1, <3>2
  <2>2. QED
    BY <1>2, <2>1
<1>4. GroupEnd \in next + 1 .. Len(block) + 1 /\ Good(GroupEnd)
  <2>1. \E d \in next + 1 .. Len(block) + 1 : Good(d)
    BY <1>2, <1>3
  <2>2. GroupEnd = CHOOSE d \in next + 1 .. Len(block) + 1 : Good(d)
    BY DEF GroupEnd
  <2> HIDE DEF Good
  <2>3. QED
    BY <2>1, <2>2
<1>5. \A n \in Places : next < n /\ n < GroupEnd => n \in next + 1 .. GroupEnd - 1
  BY <1>1, <1>4
<1>6. next + 1 .. GroupEnd - 1 = {n \in Places : next < n /\ n < GroupEnd}
  BY <1>1, <1>4
<1>7. QED
  BY <1>1, <1>4, <1>5, <1>6 DEF GroupSigs

\* The key filed last is the last of the dict.
LEMMA FiledFacts ==
  ASSUME TypeOK, NEW id \in KeyId, NEW half \in Half, NEW n \in Places
  PROVE  /\ Filed(id, half, n) \in Seq(KeyId \X Half \X Places)
         /\ (\A i \in DOMAIN keys : <<keys[i][1], keys[i][2]>> # <<id, half>>) =>
              Filed(id, half, n) = Append(keys, <<id, half, n>>)
<1> DEFINE Triples == KeyId \X Half \X Places
           same(i) == <<keys[i][1], keys[i][2]>> = <<id, half>>
<1>1. keys \in Seq(Triples) /\ <<id, half, n>> \in Triples
  BY DEF TypeOK
<1> HIDE DEF Triples
<1>2. Filed(id, half, n) = IF \E i \in DOMAIN keys : same(i)
                           THEN [i \in DOMAIN keys |-> IF same(i) THEN <<id, half, n>> ELSE keys[i]]
                           ELSE Append(keys, <<id, half, n>>)
  BY DEF Filed
<1> HIDE DEF same
<1>3. [i \in DOMAIN keys |-> IF same(i) THEN <<id, half, n>> ELSE keys[i]] \in Seq(Triples)
  BY <1>1
<1>4. Append(keys, <<id, half, n>>) \in Seq(Triples)
  BY <1>1
<1>5. QED
  BY <1>2, <1>3, <1>4 DEF Triples, same

\* The last key is one of those filed.
LEMMA LastKeyFacts ==
  ASSUME TypeOK, keys # <<>>
  PROVE  /\ Len(keys) \in DOMAIN keys /\ LastKey = keys[Len(keys)][3]
         /\ LastKey \in Places /\ LastKey \in 0 .. Len(block)
<1>1. keys \in Seq(KeyId \X Half \X Places) /\ Places = 1 .. Len(block) /\ Len(block) \in Nat
  BY PlaceFacts DEF TypeOK
<1>2. Len(keys) \in DOMAIN keys /\ keys[Len(keys)] \in KeyId \X Half \X Places
  BY <1>1
<1>3. LastKey = keys[Len(keys)][3]
  BY DEF LastKey, Last
<1>4. QED
  BY <1>1, <1>2, <1>3

-----------------------------------------------------------------------------
\* Every variable stays within its type.
LEMMA StepKeepsType == TypeOK /\ [Next]_vars => TypeOK'
<1> SUFFICES ASSUME TypeOK, [Next]_vars
             PROVE  TypeOK'
  OBVIOUS
<1>0. /\ Places = 1 .. Len(block) /\ Len(block) \in Nat
      /\ \A n \in Places : IsKey(n) => block[n].id \in KeyId /\ block[n].half \in Half
  BY PlaceFacts
<1>1. UNCHANGED block
  BY DEF Next, vars, LeadingSignature, Raise, SkipOpaque, ParsePrimary, ParseSub, ParseUser,
         NoKeyForIt, WrongHalf, Orphan, Finish, Advance
<1>2. block' \in Seq(KeyPacket \cup Plain) /\ Places' = Places
  BY <1>1 DEF TypeOK, Places
<1>3. ASSUME Parsing, NEW own \in [Places -> 0 .. Len(block)], Advance(own),
             keys' \in Seq(KeyId \X Half \X Places), self' \in {self, next}
      PROVE  TypeOK'
  <2>1. next \in Places /\ GroupEnd \in next + 1 .. Len(block) + 1
    BY <1>3, GroupFacts DEF Parsing
  <2>2. next' \in 1 .. Len(block) + 2 /\ self' \in 0 .. Len(block)
    BY <1>0, <1>3, <2>1 DEF Advance, TypeOK
  <2>3. owner' \in [Places -> 0 .. Len(block)]
    <3>1. next \in 0 .. Len(block)
      BY <1>0, <2>1
    <3>2. QED
      BY <1>3, <3>1 DEF Advance
  <2>4. QED
    BY <1>1, <1>2, <1>3, <2>2, <2>3 DEF Advance, TypeOK
<1>4. ASSUME NEW e \in {"AttributeError", "StopIteration", "TypeError"}, Raise(e)
      PROVE  TypeOK'
  BY <1>2, <1>4 DEF Raise, TypeOK
<1>5. ASSUME Parsing, next' \in {GroupEnd, GroupEnd + 1}, fresh' \in BOOLEAN,
             orphaned' \subseteq Places, UNCHANGED <<self, keys, owner, status>>
      PROVE  TypeOK'
  <2>1. next \in Places /\ GroupEnd \in next + 1 .. Len(block) + 1
    BY <1>5, GroupFacts DEF Parsing
  <2>2. next' \in 1 .. Len(block) + 2
    BY <1>0, <1>5, <2>1
  <2>3. QED
    BY <1>1, <1>2, <1>5, <2>2 DEF TypeOK
<1>6. CASE SkipOpaque
  BY <1>5, <1>6 DEF SkipOpaque, TypeOK
<1>7. CASE ParsePrimary
  <2>1. Parsing /\ next \in Places /\ IsKey(next) /\ owner \in [Places -> 0 .. Len(block)]
    BY <1>7, GroupFacts DEF ParsePrimary, Parsing, IsKey, TypeOK
  <2>2. keys' \in Seq(KeyId \X Half \X Places)
    BY <1>0, <1>7, <2>1, FiledFacts DEF ParsePrimary
  <2>3. QED
    BY <1>3, <1>7, <2>1, <2>2 DEF ParsePrimary, Takes
<1>8. CASE ParseSub
  <2>1. Parsing /\ next \in Places /\ LastKey \in 0 .. Len(block)
    BY <1>8, GroupFacts, LastKeyFacts DEF ParseSub, Parsing
  <2>2. Adopt(LastKey) \in [Places -> 0 .. Len(block)]
    BY <1>0, <2>1 DEF Adopt, TypeOK
  <2>3. QED
    BY <1>3, <1>8, <2>1, <2>2 DEF ParseSub, Takes, TypeOK
<1>9. CASE ParseUser
  <2>1. Parsing /\ next \in Places /\ LastKey \in 0 .. Len(block)
    BY <1>9, GroupFacts, LastKeyFacts DEF ParseUser, Parsing
  <2>2. [owner EXCEPT ![next] = LastKey] \in [Places -> 0 .. Len(block)]
    BY <2>1 DEF TypeOK
  <2>3. QED
    BY <1>3, <1>9, <2>1, <2>2 DEF ParseUser, TypeOK
<1>10. CASE Orphan
  <2>1. Parsing /\ next \in Places /\ GroupEnd \in next + 1 .. Len(block) + 1
    BY <1>10, GroupFacts DEF Orphan, Parsing
  <2>2. next .. GroupEnd - 1 \subseteq Places
    BY <1>0, <2>1
  <2>3. orphaned' \subseteq Places
    BY <1>10, <2>2 DEF Orphan, TypeOK
  <2>4. QED
    BY <1>5, <1>10, <2>1, <2>3 DEF Orphan
<1>11. CASE Finish
  BY <1>2, <1>11 DEF Finish, TypeOK
<1>12. CASE UNCHANGED vars
  BY <1>2, <1>12 DEF vars, TypeOK
<1>13. QED
  BY <1>4, <1>6, <1>7, <1>8, <1>9, <1>10, <1>11, <1>12
     DEF Next, LeadingSignature, NoKeyForIt, WrongHalf

\* A new parser.
LEMMA InitHasType == Init => TypeOK
<1> SUFFICES ASSUME Init
             PROVE  TypeOK
  OBVIOUS
<1>1. block \in Seq(KeyPacket \cup Plain)
  <2> DEFINE P == KeyPacket \cup Plain
  <2>1. \A m \in Nat : [1 .. m -> P] \subseteq Seq(P)
    OBVIOUS
  <2> HIDE DEF P
  <2>2. PICK m \in 0 .. Length : block \in [1 .. m -> P]
    BY DEF Init, Block, BoundedSeq, SeqOf, P
  <2>3. m \in Nat
    BY KeyParseAssumption, <2>2
  <2>4. QED
    BY <2>1, <2>2, <2>3 DEF P
<1>2. Places = 1 .. Len(block) /\ Len(block) \in Nat
  BY <1>1 DEF Places
<1>3. keys \in Seq(KeyId \X Half \X Places)
  BY DEF Init
<1>4. QED
  BY <1>1, <1>2, <1>3 DEF Init, TypeOK

\* Every variable stays within its type.
THEOREM TypeCorrect == Spec => []TypeOK
BY InitHasType, StepKeepsType, PTL DEF Spec

-----------------------------------------------------------------------------
\* The packets of a group have the first one as their subject.
LEMMA SubjectInGroup ==
  ASSUME TypeOK, next <= Len(block), ~IsSig(next), NEW n \in Places, next < n, n < GroupEnd
  PROVE  Subject(n) = next
<1> DEFINE S == {m \in Places : ~IsSig(m)}
<1>1. /\ Places = 1 .. Len(block) /\ Len(block) \in Nat
      /\ next \in Places /\ GroupEnd \in next + 1 .. Len(block) + 1
      /\ \A m \in Places : next < m /\ m < GroupEnd => IsSig(m)
  BY PlaceFacts, GroupFacts
<1>2. S \in SUBSET (Nat \ {0}) /\ next \in S /\ n \in Nat /\ n > 0
  BY <1>1
<1>3. \A m \in S : m < n => m <= next
  <2>1. ASSUME NEW m \in S, m < n, ~(m <= next)
        PROVE  FALSE
    <3>1. m \in Places /\ next < m /\ m < GroupEnd /\ ~IsSig(m)
      BY <1>1, <2>1
    <3>2. QED
      BY <1>1, <3>1
  <2>2. QED
    BY <2>1
<1> HIDE DEF S
<1>4. LastBefore(n, S) = next
  BY <1>2, <1>3, LastBeforeIs
<1>5. QED
  BY <1>4 DEF Subject, S

\* The last primary key before the end of a group.
LEMMA KeyAfterGroup ==
  ASSUME TypeOK, next <= Len(block)
  PROVE  KeyBefore(GroupEnd) = IF Kind(next) = "primary" THEN next ELSE KeyBefore(next)
<1> DEFINE S == {m \in Places : Kind(m) = "primary"}
<1>1. /\ Places = 1 .. Len(block) /\ Len(block) \in Nat
      /\ next \in Places /\ GroupEnd \in next + 1 .. Len(block) + 1
      /\ \A m \in Places : next < m /\ m < GroupEnd => IsSig(m)
  BY PlaceFacts, GroupFacts
<1>2. S \in SUBSET (Nat \ {0}) /\ S \in SUBSET Nat /\ GroupEnd \in Nat /\ GroupEnd > 0
      /\ next \in Nat /\ next <= GroupEnd /\ next < GroupEnd
  BY <1>1
<1>3. ASSUME NEW m \in S, m < GroupEnd
      PROVE  m <= next
  <2>1. m \in Places /\ Kind(m) = "primary"
    OBVIOUS
  <2>2. ~IsSig(m)
    BY <2>1 DEF IsSig
  <2>3. QED
    BY <1>1, <1>3, <2>1, <2>2
<1>4. KeyBefore(GroupEnd) = LastBefore(GroupEnd, S) /\ KeyBefore(next) = LastBefore(next, S)
  BY DEF KeyBefore
<1>5. next \in S <=> Kind(next) = "primary"
  BY <1>1
<1> HIDE DEF S
<1>6. CASE next \in S
  <2>1. LastBefore(GroupEnd, S) = next
    BY <1>2, <1>3, <1>6, LastBeforeIs
  <2>2. QED
    BY <1>4, <1>5, <1>6, <2>1
<1>7. CASE next \notin S
  <2>1. \A m \in S : m < GroupEnd => m < next
    <3>1. \A m \in S : m \in Nat /\ m # next
      BY <1>2, <1>7
    <3>2. QED
      BY <1>2, <1>3, <3>1
  <2>2. LastBefore(GroupEnd, S) = LastBefore(next, S)
    BY <1>2, <2>1, LastBeforeSame
  <2>3. QED
    BY <1>4, <1>5, <1>7, <2>2
<1>8. QED
  BY <1>6, <1>7

\* Reading a group settles where its packets belong, and moves what was read before
\* only if a subkey came again.
LEMMA MeantAfterGroup ==
  ASSUME TypeOK, next <= Len(block), ~IsSig(next), NEW n \in Places
  PROVE  /\ n < next => MeantBefore(n, GroupEnd) =
                          IF /\ Kind(n) = "sub" /\ Kind(next) = "sub"
                             /\ block[next].id = block[n].id /\ KeyBefore(next) = KeyBefore(n)
                          THEN 0 ELSE MeantBefore(n, next)
         /\ n = next => MeantBefore(n, GroupEnd) =
                          IF Kind(next) \in {"sub", "uid"} THEN KeyBefore(next) ELSE 0
         /\ next < n /\ n < GroupEnd =>
              MeantBefore(n, GroupEnd) = IF Kind(n) = "sig" /\ Kind(next) # "opaque" THEN next ELSE 0
<1>1. /\ Places = 1 .. Len(block) /\ Len(block) \in Nat
      /\ next \in Places /\ GroupEnd \in next + 1 .. Len(block) + 1
      /\ \A m \in Places : next < m /\ m < GroupEnd => IsSig(m)
  BY PlaceFacts, GroupFacts
<1> DEFINE again(m) == Kind(m) = "sub" /\ block[m].id = block[n].id /\ KeyBefore(m) = KeyBefore(n)
<1>2. ASSUME NEW m \in Places, next < m, m < GroupEnd
      PROVE  Kind(m) # "sub"
  <2>1. IsSig(m)
    BY <1>1, <1>2
  <2>2. QED
    BY <2>1 DEF IsSig
<1>3. ASSUME n < next
      PROVE  MeantBefore(n, GroupEnd) =
               IF /\ Kind(n) = "sub" /\ Kind(next) = "sub"
                  /\ block[next].id = block[n].id /\ KeyBefore(next) = KeyBefore(n)
               THEN 0 ELSE MeantBefore(n, next)
  <2>1. SupersededBefore(n, GroupEnd) <=> SupersededBefore(n, next) \/ again(next)
    <3>1. ASSUME NEW m \in Places
          PROVE  n < m /\ m < GroupEnd /\ again(m) <=> (n < m /\ m < next /\ again(m)) \/ (m = next /\ again(m))
      <4>1. again(m) /\ m < GroupEnd => m < next \/ m = next
        BY <1>1, <1>2
      <4>2. m < next \/ m = next => m < GroupEnd
        BY <1>1
      <4>3. m = next => n < m
        BY <1>3
      <4> HIDE DEF again
      <4>4. QED
        BY <4>1, <4>2, <4>3, Zenon
    <3>2. SupersededBefore(n, GroupEnd) <=> \E m \in Places : n < m /\ m < GroupEnd /\ again(m)
      BY Zenon DEF SupersededBefore
    <3>3. SupersededBefore(n, next) <=> \E m \in Places : n < m /\ m < next /\ again(m)
      BY Zenon DEF SupersededBefore
    <3> HIDE DEF again
    <3>4. QED
      BY <1>1, <3>1, <3>2, <3>3, Zenon
  <2> HIDE DEF again
  <2>2. CASE Kind(n) = "sub"
    <3>1. /\ MeantBefore(n, GroupEnd) = IF SupersededBefore(n, GroupEnd) THEN 0 ELSE KeyBefore(n)
          /\ MeantBefore(n, next) = IF SupersededBefore(n, next) THEN 0 ELSE KeyBefore(n)
      BY <2>2 DEF MeantBefore
    <3>2. CASE again(next)
      BY <2>1, <2>2, <3>1, <3>2 DEF again
    <3>3. CASE ~again(next)
      <4>1. SupersededBefore(n, GroupEnd) <=> SupersededBefore(n, next)
        BY <2>1, <3>3
      <4>2. MeantBefore(n, GroupEnd) = MeantBefore(n, next)
        BY <3>1, <4>1
      <4>3. QED
        BY <3>3, <4>2 DEF again
    <3>4. QED
      BY <3>2, <3>3
  <2>3. CASE Kind(n) # "sub"
    BY <2>3 DEF MeantBefore
  <2>4. QED
    BY <2>2, <2>3
<1>4. ASSUME n = next
      PROVE  MeantBefore(n, GroupEnd) = IF Kind(next) \in {"sub", "uid"} THEN KeyBefore(next) ELSE 0
  <2>1. ~SupersededBefore(next, GroupEnd)
    BY <1>2 DEF SupersededBefore
  <2>2. Kind(next) # "sig"
    BY DEF IsSig
  <2>3. QED
    BY <1>4, <2>1, <2>2 DEF MeantBefore
<1>5. ASSUME next < n, n < GroupEnd
      PROVE  MeantBefore(n, GroupEnd) = IF Kind(n) = "sig" /\ Kind(next) # "opaque" THEN next ELSE 0
  <2>1. Subject(n) = next /\ Kind(n) \in {"sig", "opaquesig"}
    BY <1>1, <1>5, SubjectInGroup DEF IsSig
  <2>2. QED
    BY <2>1 DEF MeantBefore
<1>6. QED
  BY <1>3, <1>4, <1>5

\* The block does not change, and what is meant by it neither.
LEMMA SameBlock ==
  ASSUME UNCHANGED block
  PROVE  /\ Places' = Places /\ Regular' = Regular
         /\ \A n : Kind(n)' = Kind(n) /\ IsSig(n)' = IsSig(n)
         /\ \A n : KeyBefore(n)' = KeyBefore(n) /\ Subject(n)' = Subject(n)
         /\ \A n, k : MeantBefore(n, k)' = MeantBefore(n, k)
<1>1. Places' = Places /\ \A n : Kind(n)' = Kind(n) /\ IsSig(n)' = IsSig(n)
  BY DEF Places, Kind, IsSig
<1>2. Regular' = Regular
  BY <1>1 DEF Regular
<1>3. \A n : KeyBefore(n)' = KeyBefore(n) /\ Subject(n)' = Subject(n)
  BY <1>1 DEF KeyBefore, Subject, LastBefore
<1>4. \A n, k : SupersededBefore(n, k)' = SupersededBefore(n, k)
  BY <1>1, <1>3 DEF SupersededBefore
<1>5. \A n, k : MeantBefore(n, k)' = MeantBefore(n, k)
  BY <1>1, <1>3, <1>4 DEF MeantBefore
<1>6. QED
  BY <1>1, <1>2, <1>3, <1>5

-----------------------------------------------------------------------------
\* An item's group is read: one more stretch of the block, from a group's first packet.
LEMMA ReadGroup ==
  ASSUME TypeOK, OneGrouper, Parsing, ~IsSig(next),
         UNCHANGED <<block, status>>, next' = GroupEnd, fresh' = FALSE
  PROVE  OneGrouper'
<1>1. /\ Places = 1 .. Len(block) /\ Len(block) \in Nat /\ next \in Places
      /\ GroupEnd \in next + 1 .. Len(block) + 1
  BY PlaceFacts, GroupFacts DEF Parsing
<1>2. next' <= Len(block') + 1 /\ next' > 1
  BY <1>1
<1>3. ~IsSig(1)
  BY <1>1 DEF OneGrouper
<1>4. ~IsSig(1)' /\ status' # "done"
  BY <1>3, SameBlock DEF Parsing
<1>5. QED
  BY <1>2, <1>4 DEF OneGrouper

\* The keys stay filed when the group read is not that of a primary key.
LEMMA KeysStayFiled ==
  ASSUME TypeOK, KeysFiled, Parsing, Kind(next) # "primary",
         UNCHANGED <<block, keys>>, next' = GroupEnd
  PROVE  KeysFiled'
<1>1. /\ Places = 1 .. Len(block) /\ Len(block) \in Nat /\ next \in Places
      /\ GroupEnd \in next + 1 .. Len(block) + 1
  BY PlaceFacts, GroupFacts DEF Parsing
<1>2. KeyBefore(next)' = KeyBefore(next)
  <2>1. KeyBefore(GroupEnd) = KeyBefore(next)
    BY KeyAfterGroup DEF Parsing
  <2>2. \A n : KeyBefore(n)' = KeyBefore(n)
    BY SameBlock
  <2>3. KeyBefore(next)' = KeyBefore(next')
    BY <2>2
  <2>4. QED
    BY <2>1, <2>3
<1>3. ASSUME NEW i \in DOMAIN keys
      PROVE  /\ keys'[i][3] \in 1 .. next' - 1 /\ Kind(keys[i][3])' = "primary"
             /\ block'[keys'[i][3]].id = keys'[i][1]
             /\ block'[keys'[i][3]].half = keys'[i][2]
  <2>1. /\ keys[i][3] \in 1 .. next - 1 /\ Kind(keys[i][3]) = "primary"
        /\ block[keys[i][3]].id = keys[i][1] /\ block[keys[i][3]].half = keys[i][2]
    BY DEF KeysFiled
  <2>2. keys[i][3] \in 1 .. GroupEnd - 1
    BY <1>1, <2>1
  <2>3. Kind(keys[i][3])' = Kind(keys[i][3])
    BY DEF Kind
  <2>4. QED
    BY <2>1, <2>2, <2>3
<1>4. IF keys' = <<>> THEN KeyBefore(next)' = 0 ELSE LastKey' = KeyBefore(next)'
  BY <1>2 DEF KeysFiled, LastKey
<1>5. QED
  BY <1>3, <1>4 DEF KeysFiled

\* In a regular block a primary key is filed behind the others.
LEMMA KeyIsFiledLast ==
  ASSUME TypeOK, Regular, KeysFiled, UNCHANGED block, ParsePrimary
  PROVE  KeysFiled'
<1>0. /\ Parsing /\ Kind(next) = "primary" /\ next' = GroupEnd
      /\ keys' = Filed(block[next].id, block[next].half, next)
  BY DEF ParsePrimary, Advance
<1>1. /\ Places = 1 .. Len(block) /\ Len(block) \in Nat /\ next \in Places
      /\ GroupEnd \in next + 1 .. Len(block) + 1
      /\ \A n \in Places : IsKey(n) => block[n] \in KeyPacket /\ block[n].id \in KeyId
                                       /\ block[n].half \in Half
  BY <1>0, PlaceFacts, GroupFacts DEF Parsing
<1>2. IsKey(next) /\ block[next].id \in KeyId /\ block[next].half \in Half
  BY <1>0, <1>1 DEF IsKey
<1>3. ASSUME NEW i \in DOMAIN keys
      PROVE  <<keys[i][1], keys[i][2]>> # <<block[next].id, block[next].half>>
  <2>1. /\ keys[i][3] \in 1 .. next - 1 /\ Kind(keys[i][3]) = "primary"
        /\ block[keys[i][3]].id = keys[i][1] /\ block[keys[i][3]].half = keys[i][2]
    BY DEF KeysFiled
  <2>2. keys[i][3] \in Places /\ keys[i][3] # next
    BY <1>1, <2>1
  <2>3. block[keys[i][3]] # block[next]
    BY <1>0, <1>1, <2>1, <2>2 DEF Regular
  <2>4. block[keys[i][3]] \in KeyPacket /\ block[next] \in KeyPacket
    BY <1>1, <1>2, <2>1, <2>2 DEF IsKey
  <2>5. block[keys[i][3]].kind = "primary" /\ block[next].kind = "primary"
    BY <1>0, <2>1 DEF Kind
  <2>6. QED
    BY <2>1, <2>3, <2>4, <2>5 DEF KeyPacket
<1>4. keys' = Append(keys, <<block[next].id, block[next].half, next>>)
  BY <1>0, <1>1, <1>2, <1>3, FiledFacts
<1>5. /\ keys \in Seq(KeyId \X Half \X Places)
      /\ DOMAIN keys' = 1 .. Len(keys) + 1 /\ Len(keys) \in Nat /\ Len(keys') = Len(keys) + 1
      /\ \A i \in DOMAIN keys : keys'[i] = keys[i]
      /\ keys'[Len(keys) + 1] = <<block[next].id, block[next].half, next>>
      /\ DOMAIN keys = 1 .. Len(keys)
  <2>1. keys \in Seq(KeyId \X Half \X Places)
    BY DEF TypeOK
  <2>2. QED
    BY <1>4, <2>1
<1>6. ASSUME NEW i \in DOMAIN keys'
      PROVE  /\ keys'[i][3] \in 1 .. next' - 1 /\ Kind(keys[i][3])' = "primary"
             /\ block'[keys'[i][3]].id = keys'[i][1]
             /\ block'[keys'[i][3]].half = keys'[i][2]
  <2>1. CASE i \in DOMAIN keys
    <3>1. /\ keys[i][3] \in 1 .. next - 1 /\ Kind(keys[i][3]) = "primary"
          /\ block[keys[i][3]].id = keys[i][1] /\ block[keys[i][3]].half = keys[i][2]
      BY <2>1 DEF KeysFiled
    <3>2. keys'[i] = keys[i] /\ keys[i][3] \in 1 .. GroupEnd - 1
      BY <1>1, <1>5, <2>1, <3>1
    <3>3. Kind(keys[i][3])' = Kind(keys[i][3])
      BY <3>2 DEF Kind
    <3>4. QED
      BY <1>0, <3>1, <3>2, <3>3
  <2>2. CASE i = Len(keys) + 1
    <3>1. keys'[i][3] = next /\ keys'[i][1] = block[next].id /\ keys'[i][2] = block[next].half
      BY <1>5, <2>2
    <3>2. next \in 1 .. GroupEnd - 1
      BY <1>1
    <3>3. Kind(keys[i][3])' = Kind(next)
      BY <3>1 DEF Kind
    <3>4. QED
      BY <1>0, <3>1, <3>2, <3>3
  <2>3. QED
    BY <1>5, <2>1, <2>2
<1>7. keys' # <<>> /\ LastKey' = next
  BY <1>5 DEF LastKey, Last
<1>8. KeyBefore(next)' = next
  <2>1. KeyBefore(GroupEnd) = next
    BY <1>0, KeyAfterGroup DEF Parsing
  <2>2. \A n : KeyBefore(n)' = KeyBefore(n)
    BY SameBlock
  <2>3. KeyBefore(next)' = KeyBefore(next')
    BY <2>2
  <2>4. QED
    BY <1>0, <2>1, <2>3
<1>9. QED
  BY <1>6, <1>7, <1>8 DEF KeysFiled

\* A group's packets are all given to what they belong to if the first one and those
\* before it are, and if the group is not of an unknown packet.
LEMMA AdvanceSettles ==
  ASSUME TypeOK, Parsing, ~IsSig(next), Kind(next) # "opaque",
         NEW own,
         \A n \in Places : own[n] = IF n <= next THEN MeantBefore(n, GroupEnd) ELSE 0,
         Advance(own)
  PROVE  OwnersSoFar'
<1>1. /\ Places = 1 .. Len(block) /\ Len(block) \in Nat /\ next \in Places
      /\ GroupEnd \in next + 1 .. Len(block) + 1
      /\ GroupSigs = {n \in Places : next < n /\ n < GroupEnd /\ Kind(n) = "sig"}
  BY PlaceFacts, GroupFacts DEF Parsing
<1>2. /\ owner' = [n \in Places |-> IF n \in GroupSigs THEN next ELSE own[n]]
      /\ next' = GroupEnd /\ UNCHANGED block
  BY DEF Advance
<1>3. ASSUME NEW n \in Places
      PROVE  owner'[n] = IF n < GroupEnd THEN MeantBefore(n, GroupEnd) ELSE 0
  <2>1. CASE n <= next
    <3>1. n \notin GroupSigs /\ n < GroupEnd
      BY <1>1, <2>1
    <3>2. QED
      BY <1>2, <2>1, <3>1
  <2>2. CASE next < n /\ n < GroupEnd
    <3>1. MeantBefore(n, GroupEnd) = IF Kind(n) = "sig" /\ Kind(next) # "opaque" THEN next ELSE 0
      BY <2>2, MeantAfterGroup DEF Parsing
    <3>2. n \in GroupSigs <=> Kind(n) = "sig"
      BY <1>1, <2>2
    <3>3. own[n] = 0
      BY <1>1, <2>2
    <3>4. QED
      BY <1>2, <2>2, <3>1, <3>2, <3>3
  <2>3. CASE ~(n < GroupEnd)
    <3>1. n \notin GroupSigs /\ ~(n <= next)
      BY <1>1, <2>3
    <3>2. QED
      BY <1>2, <2>3, <3>1
  <2>4. QED
    BY <1>1, <2>1, <2>2, <2>3
<1>4. Places' = Places /\ \A n, k : MeantBefore(n, k)' = MeantBefore(n, k)
  BY <1>2, SameBlock
<1>5. \A n \in Places : MeantBefore(n, next)' = MeantBefore(n, GroupEnd)
  <2>1. \A n \in Places : MeantBefore(n, next)' = MeantBefore(n, next')
    BY <1>4
  <2>2. QED
    BY <1>2, <2>1
<1>6. QED
  BY <1>2, <1>3, <1>4, <1>5 DEF OwnersSoFar

\* What was read before, and what is read, when no subkey comes again.
LEMMA OthersStay ==
  ASSUME TypeOK, OwnersSoFar, Parsing, ~IsSig(next), Kind(next) # "sub", NEW n \in Places
  PROVE  /\ n < next => owner[n] = MeantBefore(n, GroupEnd)
         /\ n = next => MeantBefore(n, GroupEnd) = IF Kind(next) = "uid" THEN KeyBefore(next) ELSE 0
         /\ ~(n < next) => owner[n] = 0
<1>1. n < next => owner[n] = MeantBefore(n, next)
  BY DEF OwnersSoFar
<1>2. n < next => MeantBefore(n, GroupEnd) = MeantBefore(n, next)
  BY MeantAfterGroup DEF Parsing
<1>3. n = next => MeantBefore(n, GroupEnd) = IF Kind(next) = "uid" THEN KeyBefore(next) ELSE 0
  BY MeantAfterGroup DEF Parsing
<1>4. ~(n < next) => owner[n] = 0
  BY DEF OwnersSoFar
<1>5. QED
  BY <1>1, <1>2, <1>3, <1>4

\* A subkey takes the place of one of the same id under the same key, and no other's.
LEMMA AdoptSettles ==
  ASSUME TypeOK, OwnersSoFar, KeysFiled, Parsing, Kind(next) = "sub", keys # <<>>, NEW n \in Places
  PROVE  Adopt(LastKey)[n] = IF n <= next THEN MeantBefore(n, GroupEnd) ELSE 0
<1>0. /\ Places = 1 .. Len(block) /\ Len(block) \in Nat /\ next \in Places
      /\ ~IsSig(next) /\ IsKey(next)
  BY PlaceFacts, GroupFacts DEF Parsing, IsSig, IsKey
<1>1. LastKey = KeyBefore(next) /\ LastKey \in Places /\ LastKey # 0
  BY <1>0, LastKeyFacts DEF KeysFiled
<1>2. Adopt(LastKey)[n] = IF n = next THEN LastKey
                          ELSE IF IsKey(n) /\ owner[n] = LastKey /\ block[n].id = block[next].id THEN 0
                          ELSE owner[n]
  BY DEF Adopt
<1>3. CASE n = next
  <2>1. MeantBefore(n, GroupEnd) = KeyBefore(next)
    BY <1>0, <1>3, MeantAfterGroup DEF Parsing
  <2>2. n <= next
    BY <1>0, <1>3
  <2>3. QED
    BY <1>1, <1>2, <1>3, <2>1, <2>2
<1>4. CASE n > next
  <2>1. owner[n] = 0 /\ n # next /\ ~(n <= next)
    BY <1>0, <1>4 DEF OwnersSoFar
  <2>2. QED
    BY <1>2, <2>1
<1>5. CASE n < next
  <2>0. n <= next /\ n # next
    BY <1>0, <1>5
  <2>1. owner[n] = MeantBefore(n, next)
    BY <1>5 DEF OwnersSoFar
  <2>2. MeantBefore(n, GroupEnd) =
          IF /\ Kind(n) = "sub" /\ Kind(next) = "sub"
             /\ block[next].id = block[n].id /\ KeyBefore(next) = KeyBefore(n)
          THEN 0 ELSE MeantBefore(n, next)
    BY <1>0, <1>5, MeantAfterGroup DEF Parsing
  <2>3. CASE Kind(n) = "sub"
    <3>1. MeantBefore(n, next) = 0 \/ MeantBefore(n, next) = KeyBefore(n)
      BY <2>3 DEF MeantBefore
    <3>2. IsKey(n)
      BY <2>3 DEF IsKey
    <3>3. Adopt(LastKey)[n] = IF owner[n] = LastKey /\ block[n].id = block[next].id THEN 0 ELSE owner[n]
      BY <1>2, <2>0, <3>2
    <3>4. QED
      BY <1>1, <2>0, <2>1, <2>2, <2>3, <3>1, <3>3
  <2>4. CASE Kind(n) = "primary"
    <3>1. MeantBefore(n, next) = 0
      BY <2>4 DEF MeantBefore
    <3>2. MeantBefore(n, GroupEnd) = MeantBefore(n, next) /\ Adopt(LastKey)[n] = owner[n]
      BY <1>1, <1>2, <2>0, <2>1, <2>2, <2>4, <3>1
    <3>3. QED
      BY <2>0, <2>1, <3>2
  <2>5. CASE Kind(n) \notin {"primary", "sub"}
    <3>1. ~IsKey(n)
      BY <2>5 DEF IsKey
    <3>2. MeantBefore(n, GroupEnd) = MeantBefore(n, next) /\ Adopt(LastKey)[n] = owner[n]
      BY <1>2, <2>0, <2>2, <2>5, <3>1
    <3>3. QED
      BY <2>0, <2>1, <3>2
  <2>6. QED
    BY <2>3, <2>4, <2>5
<1>6. QED
  BY <1>0, <1>3, <1>4, <1>5

\* Every step keeps what the invariant says of regular blocks.
LEMMA StepKeepsRegular ==
  ASSUME TypeOK, RegularInv, Regular, [Next]_vars
  PROVE  (OneGrouper /\ KeysFiled /\ OwnersSoFar)'
<1>0. OneGrouper /\ KeysFiled /\ OwnersSoFar
  BY DEF RegularInv
<1>1. Parsing => /\ next \in Places /\ GroupEnd \in next + 1 .. Len(block) + 1
                 /\ Places = 1 .. Len(block) /\ Len(block) \in Nat /\ Kind(next) # "other"
  BY PlaceFacts, GroupFacts DEF Parsing, Regular
<1>2. ASSUME UNCHANGED block
      PROVE  /\ Places' = Places /\ IsSig(1)' = IsSig(1)
             /\ \A n : KeyBefore(n)' = KeyBefore(n) /\ \A k : MeantBefore(n, k)' = MeantBefore(n, k)
  BY <1>2, SameBlock
<1>3. ASSUME UNCHANGED <<block, next, fresh, keys, owner>>,
             status' = "done" => next = Len(block) + 1
      PROVE  (OneGrouper /\ KeysFiled /\ OwnersSoFar)'
  <2>1. OneGrouper'
    BY <1>0, <1>2, <1>3 DEF OneGrouper
  <2>2. KeysFiled'
    <3>1. KeyBefore(next)' = KeyBefore(next)
      BY <1>2, <1>3
    <3>2. QED
      BY <1>0, <1>3, <3>1 DEF KeysFiled, LastKey, Kind
  <2>3. OwnersSoFar'
    <3>1. \A n \in Places : MeantBefore(n, next)' = MeantBefore(n, next)
      BY <1>2, <1>3
    <3>2. QED
      BY <1>0, <1>2, <1>3, <3>1 DEF OwnersSoFar
  <2>4. QED
    BY <2>1, <2>2, <2>3
<1>4. ASSUME NEW e \in {"AttributeError", "StopIteration", "TypeError"}, Raise(e)
      PROVE  (OneGrouper /\ KeysFiled /\ OwnersSoFar)'
  BY <1>3, <1>4 DEF Raise
<1>5. CASE Finish
  <2>1. next > Len(block) /\ next <= Len(block) + 1 /\ next \in Nat /\ Len(block) \in Nat
    BY <1>0, <1>5 DEF Finish, OneGrouper, TypeOK
  <2>2. QED
    BY <1>3, <1>5, <2>1 DEF Finish
<1>6. CASE UNCHANGED vars
  BY <1>0, <1>3, <1>6 DEF vars, OneGrouper
<1>7. CASE SkipOpaque
  <2>1. /\ Parsing /\ Kind(next) = "opaque" /\ ~IsSig(next) /\ next' = GroupEnd /\ fresh' = FALSE
        /\ UNCHANGED <<block, self, keys, owner, orphaned, status>>
    BY <1>7 DEF SkipOpaque, IsSig
  <2>2. OneGrouper' /\ KeysFiled'
    BY <1>0, <2>1, ReadGroup, KeysStayFiled
  <2>3. ASSUME NEW n \in Places
        PROVE  owner[n] = IF n < GroupEnd THEN MeantBefore(n, GroupEnd) ELSE 0
    <3>1. CASE n <= next
      <4>1. owner[n] = MeantBefore(n, GroupEnd) /\ n < GroupEnd
        BY <1>0, <1>1, <2>1, <3>1, OthersStay
      <4>2. QED
        BY <4>1
    <3>2. CASE n > next
      <4>1. owner[n] = 0
        BY <1>0, <1>1, <2>1, <3>2, OthersStay
      <4>2. n < GroupEnd => MeantBefore(n, GroupEnd) = 0
        BY <1>1, <2>1, <3>2, MeantAfterGroup DEF Parsing
      <4>3. QED
        BY <4>1, <4>2
    <3>3. QED
      BY <1>1, <2>1, <3>1, <3>2
  <2>4. OwnersSoFar'
    <3>1. \A n \in Places : MeantBefore(n, next)' = MeantBefore(n, GroupEnd)
      BY <1>2, <2>1
    <3>2. QED
      BY <1>2, <2>1, <2>3, <3>1 DEF OwnersSoFar
  <2>5. QED
    BY <2>2, <2>4
<1>8. CASE ParsePrimary
  <2>1. /\ Parsing /\ Kind(next) = "primary" /\ ~IsSig(next) /\ Advance(owner)
        /\ next' = GroupEnd /\ fresh' = FALSE /\ UNCHANGED <<block, status>>
    BY <1>8 DEF ParsePrimary, Advance, IsSig
  <2>2. OneGrouper' /\ KeysFiled'
    BY <1>0, <1>8, <2>1, ReadGroup, KeyIsFiledLast
  <2>3. \A n \in Places : owner[n] = IF n <= next THEN MeantBefore(n, GroupEnd) ELSE 0
    BY <1>0, <1>1, <2>1, OthersStay
  <2>4. OwnersSoFar'
    BY <2>1, <2>3, AdvanceSettles
  <2>5. QED
    BY <2>2, <2>4
<1>9. CASE ParseSub
  <2>1. /\ Parsing /\ Kind(next) = "sub" /\ ~IsSig(next) /\ keys # <<>> /\ Advance(Adopt(LastKey))
        /\ next' = GroupEnd /\ fresh' = FALSE /\ UNCHANGED <<block, keys, status>>
    BY <1>9 DEF ParseSub, Advance, IsSig
  <2>2. OneGrouper' /\ KeysFiled'
    BY <1>0, <2>1, ReadGroup, KeysStayFiled
  <2>3. \A n \in Places : Adopt(LastKey)[n] = IF n <= next THEN MeantBefore(n, GroupEnd) ELSE 0
    BY <1>0, <2>1, AdoptSettles
  <2> DEFINE own == Adopt(LastKey)
  <2>4. OwnersSoFar'
    <3> HIDE DEF own
    <3>1. \A n \in Places : own[n] = IF n <= next THEN MeantBefore(n, GroupEnd) ELSE 0
      BY <2>3 DEF own
    <3>2. Advance(own) /\ Kind(next) # "opaque"
      BY <2>1 DEF own
    <3>3. QED
      BY <2>1, <3>1, <3>2, AdvanceSettles
  <2>5. QED
    BY <2>2, <2>4
<1>10. CASE ParseUser
  <2> DEFINE own == [owner EXCEPT ![next] = LastKey]
  <2>1. /\ Parsing /\ Kind(next) = "uid" /\ ~IsSig(next) /\ keys # <<>> /\ Advance(own)
        /\ next' = GroupEnd /\ fresh' = FALSE /\ UNCHANGED <<block, keys, status>>
    BY <1>10 DEF ParseUser, Advance, IsSig
  <2>2. OneGrouper' /\ KeysFiled'
    BY <1>0, <2>1, ReadGroup, KeysStayFiled
  <2>3. ASSUME NEW n \in Places
        PROVE  own[n] = IF n <= next THEN MeantBefore(n, GroupEnd) ELSE 0
    <3>1. own[n] = IF n = next THEN LastKey ELSE owner[n]
      BY DEF TypeOK
    <3>2. LastKey = KeyBefore(next)
      BY <1>0, <2>1 DEF KeysFiled
    <3>3. QED
      BY <1>0, <1>1, <2>1, <3>1, <3>2, OthersStay
  <2>4. OwnersSoFar'
    <3> HIDE DEF own
    <3>1. Kind(next) # "opaque"
      BY <2>1
    <3>2. QED
      BY <2>1, <2>3, <3>1, AdvanceSettles
  <2>5. QED
    BY <2>2, <2>4
<1>11. QED
  BY <1>1, <1>4, <1>5, <1>6, <1>7, <1>8, <1>9, <1>10
     DEF Next, LeadingSignature, NoKeyForIt, WrongHalf, Orphan

\* What AcceptsKeyBlocks asks of a block.
WellFormed ==
  LET known(n) == Kind(n) # "opaque" /\ (IsSig(n) => Kind(Subject(n)) # "opaque")
  IN  /\ Regular
      /\ \A n \in Places : IsSig(n) => Subject(n) # 0
      /\ \A n \in Places : known(n) /\ Kind(n) # "primary" => KeyBefore(n) # 0
      /\ \A n \in Places : known(n) /\ Kind(n) = "sub" => block[KeyBefore(n)].half = block[n].half

\* AcceptsKeyBlocks, with that name.
LEMMA WellFormedFacts ==
  /\ AcceptsKeyBlocks <=> (WellFormed => status \in {"parsing", "done"})
  /\ UNCHANGED block => (WellFormed' <=> WellFormed)
<1>1. AcceptsKeyBlocks <=> (WellFormed => status \in {"parsing", "done"})
  BY DEF AcceptsKeyBlocks, WellFormed
<1>2. ASSUME UNCHANGED block
      PROVE  WellFormed' <=> WellFormed
  <2>1. /\ Places' = Places /\ Regular' = Regular
        /\ \A n : Kind(n)' = Kind(n) /\ IsSig(n)' = IsSig(n)
        /\ \A n : KeyBefore(n)' = KeyBefore(n) /\ Subject(n)' = Subject(n)
    BY <1>2, SameBlock
  <2>2. QED
    BY <1>2, <2>1 DEF WellFormed
<1>3. QED
  BY <1>1, <1>2

\* No step raises on a well-formed block.
LEMMA StepAccepts ==
  ASSUME TypeOK, RegularInv, AcceptsKeyBlocks, [Next]_vars
  PROVE  AcceptsKeyBlocks'
<1>1. UNCHANGED block
  BY DEF Next, vars, LeadingSignature, Raise, SkipOpaque, ParsePrimary, ParseSub, ParseUser,
         NoKeyForIt, WrongHalf, Orphan, Finish, Advance
<1>2. SUFFICES ASSUME WellFormed
               PROVE  status' \in {"parsing", "done"}
  <2>1. AcceptsKeyBlocks' <=> (WellFormed' => status' \in {"parsing", "done"})
    BY DEF AcceptsKeyBlocks, WellFormed
  <2>2. WellFormed' <=> WellFormed
    BY <1>1, WellFormedFacts
  <2>3. QED
    BY <2>1, <2>2
<1>3. /\ status \in {"parsing", "done"} /\ Regular
      /\ \A n \in Places : IsSig(n) => Subject(n) # 0
      /\ \A n \in Places : ~IsSig(n) /\ Kind(n) \notin {"opaque", "primary"} => KeyBefore(n) # 0
      /\ \A n \in Places : ~IsSig(n) /\ Kind(n) = "sub" => block[KeyBefore(n)].half = block[n].half
  BY <1>2, WellFormedFacts DEF WellFormed
<1>4. OneGrouper /\ KeysFiled
  BY <1>3 DEF RegularInv
<1>5. Parsing => next \in Places
  BY GroupFacts DEF Parsing
<1>6. ~LeadingSignature
  <2> SUFFICES ASSUME LeadingSignature PROVE FALSE
    OBVIOUS
  <2>1. next = 1 /\ 1 \in Places /\ IsSig(1)
    BY <1>4, <1>5 DEF LeadingSignature, OneGrouper
  <2> DEFINE S == {m \in Places : ~IsSig(m)}
  <2>2. S \in SUBSET (Nat \ {0})
    BY PlaceFacts
  <2>3. Subject(1) = LastBefore(1, S)
    BY DEF Subject
  <2> HIDE DEF S
  <2>4. LastBefore(1, S) = 0
    BY <2>2, LastBeforeFacts
  <2>5. QED
    BY <1>3, <2>1, <2>3, <2>4
<1>7. ~NoKeyForIt
  <2> SUFFICES ASSUME NoKeyForIt PROVE FALSE
    OBVIOUS
  <2>1. next \in Places /\ Kind(next) \in {"uid", "sub"} /\ keys = <<>> /\ ~IsSig(next)
    BY <1>5 DEF NoKeyForIt, IsSig
  <2>2. KeyBefore(next) = 0
    BY <1>4, <2>1 DEF KeysFiled
  <2>3. QED
    BY <1>3, <2>1, <2>2
<1>8. ~WrongHalf
  <2> SUFFICES ASSUME WrongHalf PROVE FALSE
    OBVIOUS
  <2>1. /\ next \in Places /\ Kind(next) = "sub" /\ keys # <<>> /\ ~IsSig(next)
        /\ block[LastKey].half # block[next].half
    BY <1>5 DEF WrongHalf, IsSig
  <2>2. KeyBefore(next) = LastKey
    BY <1>4, <2>1 DEF KeysFiled
  <2>3. QED
    BY <1>3, <2>1, <2>2
<1>9. status' \in {status, "done"}
  BY <1>6, <1>7, <1>8
     DEF Next, vars, SkipOpaque, ParsePrimary, ParseSub, ParseUser, Orphan, Finish, Advance
<1>10. QED
  BY <1>3, <1>9

-----------------------------------------------------------------------------
\* The parser of a new block: nothing is given to anything.
LEMMA InitKeeps == Init => KeyParseInv
<1> SUFFICES ASSUME Init
             PROVE  KeyParseInv
  OBVIOUS
<1>1. TypeOK
  BY InitHasType
<1>2. /\ next = 1 /\ fresh = TRUE /\ keys = <<>> /\ status = "parsing"
      /\ owner = [n \in Places |-> 0]
  BY DEF Init
<1>3. Places = 1 .. Len(block) /\ Len(block) \in Nat
  BY <1>1, PlaceFacts
<1>4. OneGrouper
  BY <1>2, <1>3 DEF OneGrouper
<1>5. KeysFiled
  <2> DEFINE S == {m \in Places : Kind(m) = "primary"}
  <2>1. S \in SUBSET (Nat \ {0})
    BY <1>3
  <2>2. KeyBefore(1) = LastBefore(1, S)
    BY DEF KeyBefore
  <2> HIDE DEF S
  <2>3. LastBefore(1, S) = 0
    BY <2>1, LastBeforeFacts
  <2>4. QED
    BY <1>2, <2>2, <2>3 DEF KeysFiled
<1>6. OwnersSoFar
  BY <1>2, <1>3 DEF OwnersSoFar
<1>7. AcceptsKeyBlocks
  BY <1>2, WellFormedFacts
<1>8. QED
  BY <1>1, <1>4, <1>5, <1>6, <1>7 DEF KeyParseInv, RegularInv

\* The inductive invariant holds throughout.
THEOREM PacketsInPlace == Spec => []KeyParseInv
<1>1. KeyParseInv /\ [Next]_vars => KeyParseInv'
  <2> SUFFICES ASSUME KeyParseInv, [Next]_vars
               PROVE  KeyParseInv'
    OBVIOUS
  <2>1. TypeOK /\ RegularInv /\ AcceptsKeyBlocks
    BY DEF KeyParseInv
  <2>2. TypeOK' /\ AcceptsKeyBlocks'
    BY <2>1, StepKeepsType, StepAccepts
  <2>3. UNCHANGED block
    BY DEF Next, vars, LeadingSignature, Raise, SkipOpaque, ParsePrimary, ParseSub, ParseUser,
           NoKeyForIt, WrongHalf, Orphan, Finish, Advance
  <2>4. Regular' = Regular
    BY <2>3, SameBlock
  <2>5. RegularInv'
    BY <2>1, <2>4, StepKeepsRegular DEF RegularInv
  <2>6. QED
    BY <2>2, <2>5 DEF KeyParseInv
<1>2. QED
  BY <1>1, InitKeeps, PTL DEF Spec

\* When a block has been read to its end, every packet of it is attached to what its
\* place in the block means, if no primary key comes twice or unknown.
THEOREM FiledAsMeantAlways == Spec => []FiledAsMeant
<1>1. ASSUME KeyParseInv, status = "done", Regular, NEW n \in Places
      PROVE  owner[n] = Meant(n)
  <2>1. Places = 1 .. Len(block) /\ Len(block) \in Nat
    BY <1>1, PlaceFacts DEF KeyParseInv
  <2>2. next = Len(block) + 1 /\ OwnersSoFar
    BY <1>1 DEF KeyParseInv, RegularInv, OneGrouper
  <2>3. owner[n] = MeantBefore(n, next)
    BY <2>1, <2>2 DEF OwnersSoFar
  <2>4. SupersededBefore(n, next) <=> Superseded(n)
    BY <2>1, <2>2 DEF SupersededBefore, Superseded
  <2>5. MeantBefore(n, next) = Meant(n)
    BY <2>4 DEF MeantBefore, Meant
  <2>6. QED
    BY <2>3, <2>5
<1>2. KeyParseInv => FiledAsMeant
  BY <1>1 DEF FiledAsMeant
<1>3. QED
  BY <1>2, PacketsInPlace, PTL

\* The loop raises on no regular block whose first known packet is a primary key and
\* whose subkeys are of the half of their keys.
THEOREM AcceptsAlways == Spec => []AcceptsKeyBlocks
<1>1. KeyParseInv => AcceptsKeyBlocks
  BY DEF KeyParseInv
<1>2. QED
  BY <1>1, PacketsInPlace, PTL

-----------------------------------------------------------------------------
(***************************************************************************)
(* Why the loop ends.  ParseEnds needs the fairness of FairSpec; what is   *)
(* proved here is all of it that is not about fairness: there is always a  *)
(* step to take, each brings the loop closer to the end of the block, and  *)
(* none is taken after it.                                                 *)
(***************************************************************************)
\* Only a new grouper meets a signature first.
SignaturesLedBy == Parsing /\ IsSig(next) => fresh

\* The conditions under which some step of the loop is taken.
SomeStep ==
  \/ Parsing /\ fresh /\ IsSig(next)
  \/ Parsing /\ Kind(next) \in {"opaque", "primary", "other"}
  \/ Parsing /\ Kind(next) \in {"uid", "sub"} /\ keys = <<>>
  \/ Parsing /\ Kind(next) = "uid" /\ keys # <<>>
  \/ Parsing /\ Kind(next) = "sub" /\ keys # <<>> /\ block[LastKey].half = block[next].half
  \/ Parsing /\ Kind(next) = "sub" /\ keys # <<>> /\ block[LastKey].half # block[next].half
  \/ status = "parsing" /\ next > Len(block)

\* A step either takes at least one packet or stops, and the packets left are finitely many.
StepCloser ==
  /\ status = "parsing"
  /\ block' = block
  /\ status' = "parsing" => next' \in next + 1 .. Len(block) + 2

\* A group is read to where another begins, unless the grouper is new again.
LEMMA StepKeepsLed == TypeOK /\ SignaturesLedBy /\ [Next]_vars => SignaturesLedBy'
<1> SUFFICES ASSUME TypeOK, SignaturesLedBy, [Next]_vars, Parsing', IsSig(next)'
             PROVE  fresh'
  BY DEF SignaturesLedBy
<1>1. UNCHANGED block
  BY DEF Next, vars, LeadingSignature, Raise, SkipOpaque, ParsePrimary, ParseSub, ParseUser,
         NoKeyForIt, WrongHalf, Orphan, Finish, Advance
<1>2. next' <= Len(block) /\ status' = "parsing"
  BY <1>1 DEF Parsing
<1>3. IsSig(next)' <=> IsSig(next')
  BY <1>1 DEF IsSig, Kind
<1>4. ASSUME Parsing, next' = GroupEnd
      PROVE  FALSE
  <2>1. GroupEnd <= Len(block) => ~IsSig(GroupEnd)
    BY <1>4, GroupFacts DEF Parsing
  <2>2. QED
    BY <1>2, <1>3, <1>4, <2>1
<1>5. CASE UNCHANGED vars
  BY <1>5, <1>1, <1>3 DEF vars, SignaturesLedBy, Parsing
<1>6. CASE Next
  BY <1>2, <1>4, <1>6 DEF Next, LeadingSignature, Raise, SkipOpaque, ParsePrimary, ParseSub,
     ParseUser, NoKeyForIt, WrongHalf, Orphan, Finish, Advance
<1>7. QED
  BY <1>5, <1>6

\* Until the parser has stopped one of the conditions holds: every packet, in every state
\* of the grouper, is taken, skipped, put away or raised about.
THEOREM AlwaysSomeStep == Spec => [](status = "parsing" => SomeStep)
<1>1. TypeOK /\ SignaturesLedBy /\ status = "parsing" => SomeStep
  <2> SUFFICES ASSUME TypeOK, SignaturesLedBy, status = "parsing"
               PROVE  SomeStep
    OBVIOUS
  <2>1. next \in Nat /\ Len(block) \in Nat
    BY PlaceFacts DEF TypeOK
  <2>2. CASE next <= Len(block)
    <3>1. next \in Places /\ block[next] \in KeyPacket \cup Plain
      BY <2>2, PlaceFacts, GroupFacts
    <3>2. Kind(next) \in {"primary", "sub", "uid", "sig", "opaquesig", "opaque", "other"}
      BY <3>1 DEF Kind, KeyPacket, Plain
    <3>3. QED
      BY <2>2, <3>2 DEF SomeStep, SignaturesLedBy, Parsing, IsSig
  <2>3. CASE next > Len(block)
    BY <2>3 DEF SomeStep
  <2>4. QED
    BY <2>1, <2>2, <2>3
<1>2. Init => SignaturesLedBy
  BY DEF Init, SignaturesLedBy
<1>3. QED
  BY <1>1, <1>2, TypeCorrect, StepKeepsLed, PTL DEF Spec

\* Every step reads on or stops, and the packets left are finitely many: a block of any
\* length takes at most two steps more than it has packets (parse's two loops).
THEOREM EveryStepCloser == Spec => [][StepCloser]_vars
<1>1. TypeOK /\ TypeOK' /\ [Next]_vars => [StepCloser]_vars
  <2> SUFFICES ASSUME TypeOK, TypeOK', Next
               PROVE  StepCloser
    OBVIOUS
  <2>1. UNCHANGED block
    BY DEF Next, LeadingSignature, Raise, SkipOpaque, ParsePrimary, ParseSub, ParseUser,
           NoKeyForIt, WrongHalf, Orphan, Finish, Advance
  <2>2. status = "parsing"
    BY DEF Next, LeadingSignature, SkipOpaque, ParsePrimary, ParseSub, ParseUser,
           NoKeyForIt, WrongHalf, Orphan, Finish, Parsing
  <2>3. next' \in 1 .. Len(block) + 2
    BY <2>1 DEF TypeOK
  <2>4. ASSUME Parsing, next' = GroupEnd \/ next' = GroupEnd + 1
        PROVE  next' \in next + 1 .. Len(block) + 2
    <3>1. GroupEnd \in next + 1 .. Len(block) + 1 /\ next \in Nat /\ Len(block) \in Nat
      BY <2>4, GroupFacts, PlaceFacts DEF Parsing, TypeOK
    <3>2. QED
      BY <2>4, <3>1
  <2>5. ASSUME status' = "parsing"
        PROVE  Parsing /\ (next' = GroupEnd \/ next' = GroupEnd + 1)
    BY <2>5 DEF Next, LeadingSignature, Raise, SkipOpaque, ParsePrimary, ParseSub, ParseUser,
       NoKeyForIt, WrongHalf, Orphan, Finish, Advance
  <2>6. QED
    BY <2>1, <2>2, <2>4, <2>5 DEF StepCloser
<1>2. QED
  BY <1>1, TypeCorrect, PTL DEF Spec

-----------------------------------------------------------------------------
(***************************************************************************)
(* Headers.  What __bytearray__ and encode_length write, parse and         *)
(* length_bin read.                                                        *)
(***************************************************************************)
\* The lengths that four octets hold.
Lengths == {n \in Nat : n < 4294967296}

OctetValues == Seq(0 .. 255)

\* A number and its last octet.
LEMMA LastDigit ==
  ASSUME NEW i \in Nat
  PROVE  /\ i = 256 * (i \div 256) + (i % 256)
         /\ i \div 256 \in Nat /\ i % 256 \in 0 .. 255
BY SMTT(30)

\* The number with these four octets, the last one first.
Weighted(a, b, c, d) == a + 256 * b + 65536 * c + 16777216 * d

\* A length is the sum of its digits.
LEMMA DigitSum ==
  ASSUME NEW i \in Lengths
  PROVE  i = Weighted(Digit(i, 0), Digit(i, 1), Digit(i, 2), Digit(i, 3))
<1>0. i \in Nat /\ i < 4294967296
  BY DEF Lengths
<1>1. i \div 65536 = (i \div 256) \div 256 /\ i \div 16777216 = (i \div 65536) \div 256
  BY <1>0
<1>2. i \div 16777216 \in 0 .. 255
  BY <1>0
<1> DEFINE a == i \div 256
           b == i \div 65536
           c == i \div 16777216
<1>3. i = 256 * a + (i % 256) /\ a \in Nat /\ i % 256 \in 0 .. 255
  BY <1>0, LastDigit
<1>4. a = 256 * b + (a % 256) /\ b \in Nat /\ a % 256 \in 0 .. 255
  BY <1>1, <1>3, LastDigit
<1>5. b = 256 * c + (b % 256) /\ c \in Nat /\ b % 256 \in 0 .. 255
  BY <1>1, <1>4, LastDigit
<1>6. c % 256 = c
  BY <1>2
<1>7. Digit(i, 0) = i % 256 /\ Digit(i, 1) = a % 256 /\ Digit(i, 2) = b % 256 /\ Digit(i, 3) = c
  BY <1>6 DEF Digit
<1> HIDE DEF a, b, c
<1>8. i = (i % 256) + 256 * (a % 256) + 65536 * (b % 256) + 16777216 * c
  BY <1>3, <1>4, <1>5
<1>9. i = Weighted(i % 256, a % 256, b % 256, c)
  BY <1>8 DEF Weighted
<1>10. QED
  BY <1>7, <1>9

\* Digits are octets, and there are IntByteLen of them.
LEMMA DigitFacts ==
  ASSUME NEW i \in Lengths
  PROVE  /\ \A k \in 0 .. 3 : Digit(i, k) \in 0 .. 255
         /\ \A k \in 0 .. 3 : k >= IntByteLen(i) => Digit(i, k) = 0
         /\ IntByteLen(i) \in 1 .. 4
<1>0. i \in Nat /\ i < 4294967296
  BY DEF Lengths
<1>1. Digit(i, 0) \in 0 .. 255 /\ Digit(i, 1) \in 0 .. 255
  BY <1>0 DEF Digit
<1>2. Digit(i, 2) \in 0 .. 255 /\ Digit(i, 3) \in 0 .. 255
  BY <1>0 DEF Digit
<1>3. i < 256 => Digit(i, 1) = 0
  BY <1>0 DEF Digit
<1>4. i < 65536 => Digit(i, 2) = 0
  BY <1>0 DEF Digit
<1>5. i < 16777216 => Digit(i, 3) = 0
  BY <1>0 DEF Digit
<1>6. \A k \in 0 .. 3 : k = 0 \/ k = 1 \/ k = 2 \/ k = 3
  OBVIOUS
<1>7. IntByteLen(i) \in 1 .. 4
  BY DEF IntByteLen
<1>8. \A k \in 0 .. 3 : Digit(i, k) \in 0 .. 255
  BY <1>1, <1>2, <1>6
<1>9. \A k \in 0 .. 3 : k >= IntByteLen(i) => Digit(i, k) = 0
  BY <1>0, <1>3, <1>4, <1>5, <1>6 DEF IntByteLen
<1>10. QED
  BY <1>7, <1>8, <1>9

\* What is known of a sequence of octets.
LEMMA OctetFacts ==
  ASSUME NEW o \in OctetValues
  PROVE  /\ Len(o) \in Nat /\ o = [i \in 1 .. Len(o) |-> o[i]]
         /\ \A i \in 1 .. Len(o) : o[i] \in 0 .. 255 /\ o[i] # Unknown
         /\ o \in Seq(Int)
<1> DEFINE S == 0 .. 255
<1>1. o \in Seq(S)
  BY DEF OctetValues
<1>2. \A x \in S : x \in Int /\ x # Unknown
  BY DEF Unknown
<1> HIDE DEF S
<1>3. Len(o) \in Nat /\ o \in [1 .. Len(o) -> S]
  BY <1>1
<1>4. \A i \in 1 .. Len(o) : o[i] \in S /\ o[i] # Unknown /\ o[i] \in Int
  BY <1>2, <1>3
<1>5. o = [i \in 1 .. Len(o) |-> o[i]]
  BY <1>3
<1>6. o \in Seq(Int)
  BY <1>3, <1>4
<1>7. QED
  BY <1>3, <1>4, <1>5, <1>6 DEF S

\* A big-endian number, by its four last octets.
Place(o, k) == IF k < Len(o) THEN o[Len(o) - k] ELSE 0

LEMMA BigEndianSum ==
  ASSUME NEW o \in OctetValues
  PROVE  BigEndian(o) = Weighted(Place(o, 0), Place(o, 1), Place(o, 2), Place(o, 3))
<1>1. \A i \in 1 .. Len(o) : o[i] # Unknown
  BY OctetFacts
<1>2. QED
  BY <1>1 DEF BigEndian, Place, Weighted

\* int_to_bytes writes as many octets as asked for or needed, bytes_to_int reads them.
LEMMA OctetsReadBack ==
  ASSUME NEW i \in Lengths, NEW min \in 1 .. 4
  PROVE  /\ ToOctets(i, min) \in OctetValues
         /\ Len(ToOctets(i, min)) = IF min > IntByteLen(i) THEN min ELSE IntByteLen(i)
         /\ \A k \in 1 .. Len(ToOctets(i, min)) :
              ToOctets(i, min)[k] = Digit(i, Len(ToOctets(i, min)) - k)
         /\ BigEndian(ToOctets(i, min)) = i
<1> DEFINE n == IF min > IntByteLen(i) THEN min ELSE IntByteLen(i)
           o == ToOctets(i, min)
<1>1. n \in 1 .. 4 /\ n >= IntByteLen(i) /\ IntByteLen(i) \in 1 .. 4
  BY DigitFacts
<1>2. o = [k \in 1 .. n |-> Digit(i, n - k)]
  BY DEF ToOctets
<1> HIDE DEF n, o
<1>3. \A k \in 1 .. n : n - k \in 0 .. 3
  BY <1>1
<1>4. o \in [1 .. n -> 0 .. 255]
  BY <1>2, <1>3, DigitFacts
<1>5. o \in OctetValues /\ Len(o) = n
  BY <1>1, <1>4 DEF OctetValues
<1>6. ASSUME NEW k \in 0 .. 3
      PROVE  Place(o, k) = Digit(i, k)
  <2>1. CASE k < n
    <3>1. n - k \in 1 .. n /\ n - (n - k) = k
      BY <1>1, <2>1
    <3>2. QED
      BY <1>2, <1>5, <2>1, <3>1 DEF Place
  <2>2. CASE ~(k < n)
    <3>1. k >= IntByteLen(i)
      BY <1>1, <2>2
    <3>2. QED
      BY <1>5, <2>2, <3>1, DigitFacts DEF Place
  <2>3. QED
    BY <2>1, <2>2
<1>7. BigEndian(o) = i
  <2>1. /\ Place(o, 0) = Digit(i, 0) /\ Place(o, 1) = Digit(i, 1)
        /\ Place(o, 2) = Digit(i, 2) /\ Place(o, 3) = Digit(i, 3)
    BY <1>6
  <2>2. QED
    BY <1>5, <2>1, BigEndianSum, DigitSum
<1>8. QED
  BY <1>2, <1>5, <1>7 DEF n, o

\* The stream t has o in front.
Begins(t, o) == t \in Seq(Int) /\ Len(o) <= Len(t) /\ \A i \in 1 .. Len(o) : t[i] = o[i]

LEMMA ConcatBegins ==
  ASSUME NEW o \in OctetValues, NEW s \in Seq(Int)
  PROVE  Begins(o \o s, o)
<1>1. o \in Seq(Int) /\ Len(o) \in Nat /\ Len(s) \in Nat
  BY OctetFacts
<1>2. o \o s \in Seq(Int) /\ Len(o \o s) = Len(o) + Len(s)
  BY <1>1
<1>3. \A i \in 1 .. Len(o) : (o \o s)[i] = o[i]
  BY <1>1
<1>4. QED
  BY <1>1, <1>2, <1>3 DEF Begins

\* What is cut off the front of a stream.
LEMMA ClippedFront ==
  ASSUME NEW o \in OctetValues, NEW t, Begins(t, o)
  PROVE  Clipped(t, Len(o)) = o
<1>1. /\ Len(o) \in Nat /\ o = [i \in 1 .. Len(o) |-> o[i]]
      /\ t \in Seq(Int) /\ Len(t) \in Nat /\ Len(o) <= Len(t)
  BY OctetFacts DEF Begins
<1>2. Clipped(t, Len(o)) = SubSeq(t, 1, Len(o))
  BY <1>1 DEF Clipped
<1>3. SubSeq(t, 1, Len(o)) = [i \in 1 .. Len(o) |-> t[i]]
  BY <1>1
<1>4. QED
  BY <1>1, <1>2, <1>3 DEF Begins

\* The first octet decides how a length is read.
LEMMA FirstOfStream ==
  ASSUME NEW o \in OctetValues, Len(o) > 0, NEW t, Begins(t, o)
  PROVE  BigEndian(Clipped(t, 1)) = o[1]
<1> DEFINE p == <<o[1]>>
<1>1. Len(o) \in Nat /\ 1 \in 1 .. Len(o) /\ o[1] \in 0 .. 255
  <2>1. Len(o) \in Nat
    BY OctetFacts
  <2>2. 1 \in 1 .. Len(o)
    BY <2>1
  <2>3. QED
    BY <2>1, <2>2, OctetFacts
<1>2. p \in OctetValues /\ Len(p) = 1 /\ p[1] = o[1]
  BY <1>1 DEF OctetValues
<1> HIDE DEF p
<1>3. Begins(t, p)
  BY <1>1, <1>2 DEF Begins
<1>4. Clipped(t, 1) = p
  BY <1>2, <1>3, ClippedFront
<1>5. Place(p, 0) = o[1] /\ Place(p, 1) = 0 /\ Place(p, 2) = 0 /\ Place(p, 3) = 0
  BY <1>2 DEF Place
<1>6. BigEndian(p) = o[1]
  <2>1. BigEndian(p) = Weighted(o[1], 0, 0, 0)
    BY <1>2, <1>5, BigEndianSum
  <2>2. \A x \in 0 .. 255 : Weighted(x, 0, 0, 0) = x
    BY DEF Weighted
  <2>3. QED
    BY <1>1, <2>1, <2>2, Zenon
<1>7. QED
  BY <1>4, <1>6

\* Behind the first octet.
LEMMA BeginsTail ==
  ASSUME NEW x \in 0 .. 255, NEW p \in OctetValues, NEW t, Begins(t, <<x>> \o p)
  PROVE  (<<x>> \o p)[1] = x /\ Begins(Tail(t), p)
<1>1. /\ Len(p) \in Nat /\ p \in Seq(Int) /\ x \in Int
      /\ t \in Seq(Int) /\ Len(t) \in Nat
  <2>1. Len(p) \in Nat /\ p \in Seq(Int)
    BY OctetFacts
  <2>2. t \in Seq(Int)
    BY DEF Begins
  <2>3. QED
    BY <2>1, <2>2
<1>2. /\ Len(<<x>> \o p) = 1 + Len(p) /\ (<<x>> \o p)[1] = x
      /\ \A i \in 1 .. Len(p) : (<<x>> \o p)[i + 1] = p[i]
  BY <1>1
<1>3. Len(t) >= 1 + Len(p) /\ \A i \in 1 .. Len(p) : t[i + 1] = p[i]
  <2>1. \A i \in 1 .. Len(p) : i + 1 \in 1 .. 1 + Len(p)
    BY <1>1
  <2>2. QED
    BY <1>1, <1>2, <2>1 DEF Begins
<1>4. t # <<>>
  BY <1>1, <1>3
<1>5. Tail(t) \in Seq(Int) /\ Len(Tail(t)) = Len(t) - 1
  BY <1>1, <1>4
<1>6. \A i \in 1 .. Len(p) : Tail(t)[i] = t[i + 1]
  BY <1>1, <1>3, <1>4
<1>7. QED
  BY <1>1, <1>2, <1>3, <1>5, <1>6 DEF Begins

\* A length in four octets.
LEMMA FourOctets ==
  ASSUME NEW len \in Lengths
  PROVE  ToOctets(len, 4) \in OctetValues /\ Len(ToOctets(len, 4)) = 4
<1>1. 4 \in 1 .. 4 /\ IntByteLen(len) \in 1 .. 4
  BY DigitFacts
<1>2. /\ ToOctets(len, 4) \in OctetValues
      /\ Len(ToOctets(len, 4)) = IF 4 > IntByteLen(len) THEN 4 ELSE IntByteLen(len)
  BY <1>1, OctetsReadBack
<1>3. (IF 4 > IntByteLen(len) THEN 4 ELSE IntByteLen(len)) = 4
  BY <1>1
<1>4. QED
  BY <1>2, <1>3, Zenon

\* A stream with a two-octet length in front: the length is one from 192 to 8383.
LEMMA TwoOctets ==
  ASSUME NEW len \in Nat, len >= 192, len < 8384
  PROVE  /\ len + 49152 - 192 \in Lengths /\ IntByteLen(len + 49152 - 192) = 2
         /\ Digit(len + 49152 - 192, 1) \in 192 .. 223
<1> DEFINE v == len + 49152 - 192
<1>1. v \in Nat /\ 49152 <= v /\ v < 57344
  OBVIOUS
<1> HIDE DEF v
<1>2. (v \div 256) % 256 \in 192 .. 223
  BY <1>1
<1>3. Digit(v, 1) = (v \div 256) % 256
  BY DEF Digit
<1>4. IntByteLen(v) = 2 /\ v \in Lengths
  BY <1>1 DEF IntByteLen, Lengths
<1>5. QED
  BY <1>2, <1>3, <1>4 DEF v

\* The length field of a new header has the octets that llen says.
LEMMA EncodeNewFacts ==
  ASSUME NEW len \in Lengths
  PROVE  EncodeNew(len) \in OctetValues /\ Len(EncodeNew(len)) = NewLlen(len)
<1>0. len \in Nat
  BY DEF Lengths
<1>1. CASE len < 192
  BY <1>0, <1>1, OctetsReadBack DEF EncodeNew, NewLlen, IntByteLen
<1>2. CASE len >= 192 /\ len < 8384
  BY <1>0, <1>2, TwoOctets, OctetsReadBack DEF EncodeNew, NewLlen
<1>3. CASE len >= 8384
  <2> DEFINE o == ToOctets(len, 4)
  <2>1. o \in OctetValues /\ Len(o) = 4
    BY FourOctets
  <2>2. EncodeNew(len) = <<255>> \o o /\ NewLlen(len) = 5
    BY <1>0, <1>3 DEF EncodeNew, NewLlen
  <2> HIDE DEF o
  <2>3. <<255>> \o o \in OctetValues /\ Len(<<255>> \o o) = 5
    <3> DEFINE S == 0 .. 255
    <3>1. 255 \in S /\ o \in Seq(S)
      BY <2>1 DEF OctetValues
    <3> HIDE DEF S
    <3>2. <<255>> \o o \in Seq(S) /\ Len(<<255>> \o o) = 1 + Len(o)
      BY <3>1
    <3>3. QED
      BY <2>1, <3>2 DEF S, OctetValues
  <2>4. QED
    BY <2>2, <2>3
<1>4. QED
  BY <1>0, <1>1, <1>2, <1>3

\* The forms of a length, by the first octet.
Forms(first, r, a, b, c, d) ==
  /\ first < 192 => r = a
  /\ first >= 192 /\ first < 224 => r = b
  /\ first >= 224 /\ first < 255 => r = c
  /\ first = 255 => r = d

LEMMA FormsOf ==
  ASSUME NEW first \in 0 .. 255, NEW a, NEW b, NEW c, NEW d
  PROVE  Forms(first, IF first < 192 THEN a ELSE IF first < 224 THEN b
                      ELSE IF first < 255 THEN c ELSE d, a, b, c, d)
BY DEF Forms

LEMMA ParseNewForms ==
  ASSUME NEW t, BigEndian(Clipped(t, 1)) \in 0 .. 255
  PROVE  Forms(BigEndian(Clipped(t, 1)), ParseNew(t),
               LengthField(BigEndian(Clipped(t, 1)), 1, FALSE),
               LengthField(TwoOctetLength(t), 2, FALSE),
               LengthField(ChunkLength(BigEndian(Clipped(t, 1))), 1, TRUE),
               LengthField(FiveOctetLength(t), 5, FALSE))
BY FormsOf DEF ParseNew

\* What is read of a stream that begins with a length.
LEMMA ParseWritten ==
  ASSUME NEW len \in Lengths, NEW t, Begins(t, EncodeNew(len))
  PROVE  ParseNew(t) = LengthField(len, NewLlen(len), FALSE)
<1> DEFINE o == EncodeNew(len)
           r == LengthField(len, NewLlen(len), FALSE)
<1>0. len \in Nat
  BY DEF Lengths
<1>1. o \in OctetValues /\ Len(o) = NewLlen(len) /\ Begins(t, o)
  BY EncodeNewFacts
<1>2. o = EncodeNew(len)
  OBVIOUS
<1> HIDE DEF o, r
<1>3. NewLlen(len) > 0
  BY DEF NewLlen
<1>4. BigEndian(Clipped(t, 1)) = o[1]
  BY <1>1, <1>3, FirstOfStream
<1>5. ASSUME len < 192
      PROVE  ParseNew(t) = r
  <2>1. o = ToOctets(len, 1) /\ NewLlen(len) = 1
    BY <1>2, <1>5 DEF EncodeNew, NewLlen
  <2>2. BigEndian(o) = len
    BY <2>1, OctetsReadBack
  <2>3. Clipped(t, 1) = o
    BY <1>1, <2>1, ClippedFront
  <2>4. len = BigEndian(Clipped(t, 1)) /\ len \in 0 .. 255
    BY <1>0, <1>5, <2>2, <2>3
  <2>5. ParseNew(t) = LengthField(len, 1, FALSE)
    BY <1>5, <2>4, ParseNewForms DEF Forms
  <2>6. QED
    BY <2>1, <2>5 DEF r
<1>6. ASSUME len >= 192, len < 8384
      PROVE  ParseNew(t) = r
  <2> DEFINE v == len + 49152 - 192
  <2>1. v \in Lengths /\ IntByteLen(v) = 2 /\ Digit(v, 1) \in 192 .. 223
    BY <1>0, <1>6, TwoOctets
  <2>2. v - 49152 + 192 = len
    BY <1>0
  <2>3. o = ToOctets(v, 2) /\ NewLlen(len) = 2
    BY <1>0, <1>2, <1>6 DEF EncodeNew, NewLlen
  <2> HIDE DEF v
  <2>4. BigEndian(o) = v /\ o[1] = Digit(v, 1)
    <3>1. 2 \in 1 .. 4 /\ 1 \in 1 .. 2 /\ 2 - 1 = 1
      OBVIOUS
    <3>2. BigEndian(o) = v /\ Len(o) = 2
      BY <1>1, <2>1, <2>3, <3>1, OctetsReadBack
    <3>3. \A k \in 1 .. Len(o) : o[k] = Digit(v, Len(o) - k)
      BY <2>1, <2>3, <3>1, OctetsReadBack
    <3>4. QED
      BY <3>1, <3>2, <3>3, Zenon
  <2>5. BigEndian(Clipped(t, 2)) = v
    BY <1>1, <2>3, <2>4, ClippedFront
  <2>6. o[1] \in 0 .. 255 /\ o[1] >= 192 /\ o[1] < 224
    BY <2>1, <2>4
  <2>7. o[1] = BigEndian(Clipped(t, 1))
    BY <1>4
  <2>8. ParseNew(t) = LengthField(TwoOctetLength(t), 2, FALSE)
    BY <2>6, <2>7, ParseNewForms DEF Forms
  <2>9. TwoOctetLength(t) = len
    BY <2>2, <2>5 DEF TwoOctetLength
  <2>10. QED
    BY <2>3, <2>8, <2>9 DEF r
<1>7. ASSUME len >= 8384
      PROVE  ParseNew(t) = r
  <2> DEFINE p == ToOctets(len, 4)
  <2>1. p \in OctetValues /\ Len(p) = 4
    BY FourOctets
  <2>2. BigEndian(p) = len
    BY OctetsReadBack
  <2>3. o = <<255>> \o p /\ NewLlen(len) = 5
    BY <1>0, <1>2, <1>7 DEF EncodeNew, NewLlen
  <2> HIDE DEF p
  <2>4. Begins(t, <<255>> \o p)
    BY <1>1, <2>3
  <2>5. 255 \in 0 .. 255
    OBVIOUS
  <2>6. (<<255>> \o p)[1] = 255 /\ Begins(Tail(t), p)
    BY <2>1, <2>4, <2>5, BeginsTail
  <2>7. BigEndian(Clipped(Tail(t), 4)) = len
    BY <2>1, <2>2, <2>6, ClippedFront
  <2>8. BigEndian(Clipped(t, 1)) = 255
    BY <1>4, <2>3, <2>6, Zenon
  <2>9. ParseNew(t) = LengthField(FiveOctetLength(t), 5, FALSE)
    BY <2>5, <2>8, ParseNewForms DEF Forms
  <2>10. QED
    BY <2>3, <2>7, <2>9 DEF FiveOctetLength, r
<1>8. ParseNew(t) = r
  BY <1>0, <1>5, <1>6, <1>7
<1>9. QED
  BY <1>8 DEF r

\* What encode_length writes of a length in the new format _parse_len reads, whatever comes
\* after it in the stream: the two agree at the boundaries of all three forms, no length
\* written looks like that of a chunk, and llen is the size of what is written.
THEOREM LengthsReadBack ==
  ASSUME NEW len \in Lengths, NEW s \in Seq(Int)
  PROVE  /\ ParseNew(EncodeNew(len) \o s)
              = [len |-> len, size |-> NewLlen(len), partial |-> FALSE]
         /\ Len(EncodeNew(len)) = NewLlen(len)
<1>1. EncodeNew(len) \in OctetValues /\ Len(EncodeNew(len)) = NewLlen(len)
  BY EncodeNewFacts
<1>2. ParseNew(EncodeNew(len) \o s) = LengthField(len, NewLlen(len), FALSE)
  BY <1>1, ConcatBegins, ParseWritten
<1>3. QED
  BY <1>1, <1>2 DEF LengthField

\* The octets of a number are its digits.
AnOctet == 0 .. 255

LEMMA WeightedDigits ==
  ASSUME NEW a \in AnOctet, NEW b \in AnOctet, NEW c \in AnOctet, NEW d \in AnOctet
  PROVE  /\ Weighted(a, b, c, d) \in Lengths
         /\ Digit(Weighted(a, b, c, d), 0) = a /\ Digit(Weighted(a, b, c, d), 1) = b
         /\ Digit(Weighted(a, b, c, d), 2) = c /\ Digit(Weighted(a, b, c, d), 3) = d
<1> USE DEF AnOctet
<1> DEFINE w == a + 256 * b + 65536 * c + 16777216 * d
<1>1. w \in Nat /\ w < 4294967296
  OBVIOUS
<1>2. w \div 256 = b + 256 * c + 65536 * d
  OBVIOUS
<1>3. w \div 65536 = c + 256 * d
  OBVIOUS
<1>4. w \div 16777216 = d
  OBVIOUS
<1>5. /\ w % 256 = a /\ (b + 256 * c + 65536 * d) % 256 = b
      /\ (c + 256 * d) % 256 = c /\ d % 256 = d
  OBVIOUS
<1>6. w = Weighted(a, b, c, d)
  BY DEF Weighted
<1> HIDE DEF w
<1>7. w \in Lengths
  BY <1>1 DEF Lengths
<1>8. Digit(w, 0) = a /\ Digit(w, 1) = b /\ Digit(w, 2) = c /\ Digit(w, 3) = d
  BY <1>2, <1>3, <1>4, <1>5 DEF Digit
<1>9. QED
  BY <1>6, <1>7, <1>8

\* A number of few digits has its others zero.
LEMMA FewDigits ==
  ASSUME NEW i \in Lengths, NEW n \in 1 .. 4,
         \A k \in 0 .. 3 : k >= n => Digit(i, k) = 0
  PROVE  IntByteLen(i) <= n
<1> DEFINE a == Digit(i, 0)
           b == Digit(i, 1)
           c == Digit(i, 2)
           d == Digit(i, 3)
<1>1. a \in 0 .. 255 /\ b \in 0 .. 255 /\ c \in 0 .. 255 /\ d \in 0 .. 255
  BY DigitFacts
<1>2. i = Weighted(a, b, c, d)
  BY DigitSum
<1>3. (n = 1 => b = 0) /\ (n <= 2 => c = 0) /\ (n <= 3 => d = 0)
  OBVIOUS
<1> HIDE DEF a, b, c, d
<1>4. i = a + 256 * b + 65536 * c + 16777216 * d
  BY <1>2 DEF Weighted
<1>5. QED
  BY <1>1, <1>3, <1>4 DEF IntByteLen

\* bytes_to_int and back again.
LEMMA OctetsRewritten ==
  ASSUME NEW q \in OctetValues, NEW n \in 1 .. 4, Len(q) = n
  PROVE  BigEndian(q) \in Lengths /\ ToOctets(BigEndian(q), n) = q
<1> DEFINE w == BigEndian(q)
<1>1. \A k \in 0 .. 3 : Place(q, k) \in 0 .. 255
  <2>1. ASSUME NEW k \in 0 .. 3
        PROVE  Place(q, k) \in 0 .. 255
    <3>1. \A i \in 1 .. Len(q) : q[i] \in 0 .. 255
      BY OctetFacts
    <3>2. k < n => n - k \in 1 .. Len(q)
      OBVIOUS
    <3>3. 0 \in 0 .. 255
      OBVIOUS
    <3>4. k < Len(q) => q[Len(q) - k] \in 0 .. 255
      BY <3>1, <3>2
    <3>5. QED
      BY <3>3, <3>4 DEF Place
  <2>2. QED
    BY <2>1
<1>2. /\ w \in Lengths
      /\ Digit(w, 0) = Place(q, 0) /\ Digit(w, 1) = Place(q, 1)
      /\ Digit(w, 2) = Place(q, 2) /\ Digit(w, 3) = Place(q, 3)
  <2> DEFINE a == Place(q, 0)
             b == Place(q, 1)
             c == Place(q, 2)
             d == Place(q, 3)
  <2>1. a \in AnOctet /\ b \in AnOctet /\ c \in AnOctet /\ d \in AnOctet
    BY <1>1 DEF AnOctet
  <2>2. w = Weighted(a, b, c, d)
    BY BigEndianSum
  <2> HIDE DEF a, b, c, d, w
  <2>3. /\ Weighted(a, b, c, d) \in Lengths
        /\ Digit(Weighted(a, b, c, d), 0) = a /\ Digit(Weighted(a, b, c, d), 1) = b
        /\ Digit(Weighted(a, b, c, d), 2) = c /\ Digit(Weighted(a, b, c, d), 3) = d
    BY <2>1, WeightedDigits
  <2>4. QED
    BY <2>2, <2>3 DEF a, b, c, d
<1> HIDE DEF w
<1>3. \A k \in 0 .. 3 : Digit(w, k) = Place(q, k)
  <2>1. \A k \in 0 .. 3 : k = 0 \/ k = 1 \/ k = 2 \/ k = 3
    OBVIOUS
  <2>2. QED
    BY <1>2, <2>1
<1>4. \A k \in 0 .. 3 : k >= n => Digit(w, k) = 0
  BY <1>3 DEF Place
<1>5. IntByteLen(w) <= n
  BY <1>2, <1>4, FewDigits
<1>6. ToOctets(w, n) = [k \in 1 .. n |-> Digit(w, n - k)]
  BY <1>2, <1>5, DigitFacts DEF ToOctets
<1>7. \A k \in 1 .. n : Digit(w, n - k) = q[k]
  <2>1. ASSUME NEW k \in 1 .. n
        PROVE  Digit(w, n - k) = q[k]
    <3>1. n - k \in 0 .. 3 /\ n - k < n /\ n - (n - k) = k
      OBVIOUS
    <3>2. QED
      BY <1>3, <3>1 DEF Place
  <2>2. QED
    BY <2>1
<1>8. q = [k \in 1 .. n |-> q[k]]
  BY OctetFacts
<1>9. QED
  BY <1>2, <1>6, <1>7, <1>8 DEF w

\* What is cut off octets is octets.
LEMMA ClippedFacts ==
  ASSUME NEW t \in OctetValues, NEW n \in 1 .. 5, n <= Len(t)
  PROVE  /\ Clipped(t, n) \in OctetValues /\ Len(Clipped(t, n)) = n
         /\ \A i \in 1 .. n : Clipped(t, n)[i] = t[i]
<1> DEFINE S == 0 .. 255
           c == Clipped(t, n)
<1>1. t \in Seq(S)
  BY DEF OctetValues
<1> HIDE DEF S
<1>2. Len(t) \in Nat /\ \A i \in 1 .. Len(t) : t[i] \in S
  BY <1>1
<1>3. c = SubSeq(t, 1, n)
  BY <1>2 DEF Clipped
<1>4. c = [i \in 1 .. n |-> t[i]]
  BY <1>1, <1>3
<1>5. \A i \in 1 .. n : i \in 1 .. Len(t)
  BY <1>2
<1>6. c \in Seq(S) /\ Len(c) = n /\ \A i \in 1 .. n : c[i] = t[i]
  <2> HIDE DEF c
  <2>1. c \in [1 .. n -> S]
    BY <1>2, <1>4, <1>5
  <2>2. QED
    BY <1>4, <2>1
<1>7. QED
  BY <1>6 DEF OctetValues, S

\* And so is what is left.
LEMMA TailFacts ==
  ASSUME NEW t \in OctetValues, Len(t) > 0
  PROVE  Tail(t) \in OctetValues /\ Len(Tail(t)) = Len(t) - 1 /\ t = <<t[1]>> \o Tail(t)
<1> DEFINE S == 0 .. 255
<1>1. t \in Seq(S)
  BY DEF OctetValues
<1> HIDE DEF S
<1>2. t # <<>>
  OBVIOUS
<1>3. Tail(t) \in Seq(S) /\ Len(Tail(t)) = Len(t) - 1
  BY <1>1, <1>2
<1>4. t = <<t[1]>> \o Tail(t)
  BY <1>1, <1>2
<1>5. QED
  BY <1>3, <1>4 DEF OctetValues, S

\* A stream's first octet is the first of what is cut off.
LEMMA FirstRead ==
  ASSUME NEW t \in OctetValues, Len(t) > 0
  PROVE  BigEndian(Clipped(t, 1)) = t[1] /\ t[1] \in 0 .. 255
<1>1. t \in Seq(Int) /\ Len(t) \in Nat /\ \A i \in 1 .. Len(t) : t[i] \in 0 .. 255
  BY OctetFacts
<1>2. Begins(t, t)
  BY <1>1 DEF Begins
<1>3. 1 \in 1 .. Len(t)
  BY <1>1
<1>4. QED
  BY <1>1, <1>2, <1>3, FirstOfStream

\* Five octets are one and four.
LEMMA OneAndFour ==
  ASSUME NEW x \in Int, NEW q \in Seq(Int), NEW c \in Seq(Int), Len(q) = 4, Len(c) = 5,
         c[1] = x, \A i \in 1 .. 4 : c[i + 1] = q[i]
  PROVE  c = <<x>> \o q
<1> DEFINE S == Int
           h == <<x>>
           m == h \o q
<1>1. h \in Seq(S) /\ Len(h) = 1 /\ h[1] = x
  OBVIOUS
<1>2. q \in Seq(S) /\ c \in Seq(S)
  OBVIOUS
<1> HIDE DEF S, h
<1>3. /\ m \in Seq(S) /\ Len(m) = Len(h) + Len(q)
      /\ \A i \in 1 .. Len(h) + Len(q) : m[i] = IF i <= Len(h) THEN h[i] ELSE q[i - Len(h)]
  BY <1>1, <1>2, ConcatProperties, Zenon
<1> HIDE DEF m
<1>4. Len(m) = 5 /\ \A i \in 1 .. 5 : m[i] = IF i <= 1 THEN x ELSE q[i - 1]
  <2>1. Len(h) + Len(q) = 5
    BY <1>1
  <2>2. \A i \in 1 .. 5 : i <= 1 => i = 1
    OBVIOUS
  <2>3. QED
    BY <1>1, <1>3, <2>1, <2>2
<1>5. \A i \in 1 .. 5 : c[i] = m[i]
  <2>1. \A i \in 1 .. 5 : i = 1 \/ (i - 1 \in 1 .. 4 /\ (i - 1) + 1 = i /\ ~(i <= 1))
    OBVIOUS
  <2>2. ASSUME NEW i \in 1 .. 5
        PROVE  c[i] = m[i]
    <3>1. CASE i = 1
      BY <1>4, <3>1
    <3>2. CASE i # 1
      <4>1. i - 1 \in 1 .. 4 /\ (i - 1) + 1 = i /\ ~(i <= 1)
        BY <2>1, <3>2
      <4>2. m[i] = q[i - 1]
        BY <1>4, <4>1
      <4>3. c[(i - 1) + 1] = q[i - 1]
        BY <4>1
      <4>4. QED
        BY <4>1, <4>2, <4>3
    <3>3. QED
      BY <3>1, <3>2
  <2>3. QED
    BY <2>2
<1>6. c = m
  BY <1>2, <1>3, <1>4, <1>5, SeqEqual
<1>7. QED
  BY <1>6 DEF m, h

LEMMA ClippedTail ==
  ASSUME NEW t \in OctetValues, Len(t) >= 5
  PROVE  Clipped(t, 5) = <<t[1]>> \o Clipped(Tail(t), 4)
<1> DEFINE u == Tail(t)
           q == Clipped(u, 4)
           c == Clipped(t, 5)
<1>1. /\ 1 \in 1 .. 5 /\ 4 \in 1 .. 5 /\ 5 \in 1 .. 5
      /\ \A i \in 1 .. 4 : i \in 1 .. 5 /\ i + 1 \in 1 .. 5
  OBVIOUS
<1>2. Len(t) \in Nat
  BY OctetFacts
<1>3. Len(t) > 0
  BY <1>2
<1>4. u \in OctetValues /\ Len(u) = Len(t) - 1
  BY <1>3, TailFacts
<1>5. 4 <= Len(u)
  BY <1>2, <1>4
<1>6. t \in Seq(Int)
  BY OctetFacts
<1>7. \A i \in 1 .. 4 : u[i] = t[i + 1]
  BY <1>2, <1>6
<1> HIDE DEF u
<1>8. q \in OctetValues /\ Len(q) = 4 /\ \A i \in 1 .. 4 : q[i] = u[i]
  BY <1>1, <1>4, <1>5, ClippedFacts
<1>9. c \in OctetValues /\ Len(c) = 5 /\ \A i \in 1 .. 5 : c[i] = t[i]
  BY <1>1, ClippedFacts
<1> HIDE DEF q, c
<1>10. q \in Seq(Int) /\ c \in Seq(Int)
  BY <1>8, <1>9, OctetFacts
<1>11. t[1] \in Int
  <2>1. t[1] \in 0 .. 255
    BY <1>3, FirstRead
  <2>2. \A x \in 0 .. 255 : x \in Int
    OBVIOUS
  <2>3. QED
    BY <2>1, <2>2, Zenon
<1>12. c[1] = t[1] /\ \A i \in 1 .. 4 : c[i + 1] = q[i]
  BY <1>1, <1>7, <1>8, <1>9
<1>13. c = <<t[1]>> \o q
  BY <1>8, <1>9, <1>10, <1>11, <1>12, OneAndFour
<1>14. QED
  BY <1>13 DEF q, c, u

\* The two octets of a length from 192 to 8383.
LEMMA TwoDigits ==
  ASSUME NEW a \in AnOctet, NEW b \in AnOctet, 192 <= b, b < 224
  PROVE  /\ Weighted(a, b, 0, 0) - 49152 + 192 \in Lengths
         /\ 192 <= Weighted(a, b, 0, 0) - 49152 + 192
         /\ Weighted(a, b, 0, 0) - 49152 + 192 < 8384
         /\ Weighted(a, b, 0, 0) - 49152 + 192 + 49152 - 192 = Weighted(a, b, 0, 0)
<1> DEFINE w == a + 256 * b
<1>1. a \in 0 .. 255 /\ b \in 0 .. 255
  BY DEF AnOctet
<1>2. w = Weighted(a, b, 0, 0)
  BY <1>1 DEF Weighted
<1>3. /\ w - 49152 + 192 \in Nat /\ 192 <= w - 49152 + 192 /\ w - 49152 + 192 < 8384
      /\ w - 49152 + 192 + 49152 - 192 = w
  BY <1>1
<1> HIDE DEF w
<1>4. w - 49152 + 192 \in Lengths
  BY <1>3 DEF Lengths
<1>5. QED
  BY <1>2, <1>3, <1>4

\* How a length of that many octets is written.
LEMMA WrittenInTwo ==
  ASSUME NEW len \in Lengths, 192 <= len, len < 8384
  PROVE  EncodeNew(len) = ToOctets(len + 49152 - 192, 2) /\ NewLlen(len) = 2
BY DEF EncodeNew, NewLlen, Lengths

\* A length that _parse_len reads, not as a chunk, comes out of encode_length as it was
\* if and only if it is not in more octets than it needs: reading a packet and writing it
\* changes its header when another program wrote a short length in five octets, and in no
\* other case (signatures over packets hash what PGPy writes).
THEOREM LengthsRewritten ==
  ASSUME NEW t \in OctetValues, Len(t) > 0,
         ParseNew(t).partial = FALSE, ParseNew(t).size <= Len(t)
  PROVE  /\ ParseNew(t).len \in Lengths
         /\ EncodeNew(ParseNew(t).len) = Clipped(t, ParseNew(t).size)
              <=> ParseNew(t).size = NewLlen(ParseNew(t).len)
<1> DEFINE p == ParseNew(t)
           Fits(len, size) ==
             len \in Lengths /\ (EncodeNew(len) = Clipped(t, size) <=> size = NewLlen(len))
<1>1. BigEndian(Clipped(t, 1)) = t[1] /\ t[1] \in 0 .. 255
  BY FirstRead
<1> DEFINE first == t[1]
<1>2. first \in 0 .. 255 /\ BigEndian(Clipped(t, 1)) = first
  BY <1>1
<1> HIDE DEF first, p, Fits
<1>3. Forms(first, p, LengthField(first, 1, FALSE), LengthField(TwoOctetLength(t), 2, FALSE),
            LengthField(ChunkLength(first), 1, TRUE), LengthField(FiveOctetLength(t), 5, FALSE))
  BY <1>2, ParseNewForms DEF p
<1>4. ASSUME first < 192
      PROVE  p = LengthField(first, 1, FALSE) /\ Fits(first, 1)
  <2>1. p = LengthField(first, 1, FALSE)
    BY <1>3, <1>4 DEF Forms, p
  <2>2. Clipped(t, 1) \in OctetValues /\ Len(Clipped(t, 1)) = 1
    BY ClippedFacts, OctetFacts
  <2>3. first \in Lengths /\ ToOctets(first, 1) = Clipped(t, 1)
    BY <1>2, <2>2, OctetsRewritten
  <2>4. EncodeNew(first) = ToOctets(first, 1) /\ NewLlen(first) = 1
    BY <1>4 DEF EncodeNew, NewLlen
  <2>5. QED
    BY <2>1, <2>3, <2>4 DEF Fits
<1>5. ASSUME first >= 192, first < 224, Len(t) >= 2
      PROVE  p = LengthField(TwoOctetLength(t), 2, FALSE) /\ Fits(TwoOctetLength(t), 2)
  <2> DEFINE q == Clipped(t, 2)
             len == TwoOctetLength(t)
  <2>1. p = LengthField(TwoOctetLength(t), 2, FALSE)
    BY <1>2, <1>3, <1>5 DEF Forms
  <2>2. q \in OctetValues /\ Len(q) = 2 /\ q[1] = first /\ q[2] \in 0 .. 255
    <3>1. 1 \in 1 .. 2 /\ 2 \in 1 .. 2 /\ 2 \in 1 .. 5
      OBVIOUS
    <3>2. q \in OctetValues /\ Len(q) = 2 /\ \A i \in 1 .. 2 : q[i] = t[i]
      BY <1>5, <3>1, ClippedFacts
    <3>3. q[2] \in 0 .. 255
      BY <3>1, <3>2, OctetFacts
    <3>4. QED
      BY <3>1, <3>2, <3>3 DEF first
  <2> HIDE DEF q
  <2>3. BigEndian(q) = Weighted(q[2], first, 0, 0)
    <3>1. Place(q, 0) = q[2] /\ Place(q, 1) = first /\ Place(q, 2) = 0 /\ Place(q, 3) = 0
      BY <2>2 DEF Place
    <3>2. QED
      BY <2>2, <3>1, BigEndianSum
  <2>4. len = BigEndian(q) - 49152 + 192
    BY DEF TwoOctetLength, q
  <2> HIDE DEF len
  <2>5. len \in Lengths /\ 192 <= len /\ len < 8384 /\ len + 49152 - 192 = BigEndian(q)
    <3>1. first \in AnOctet /\ q[2] \in AnOctet
      BY <1>2, <2>2 DEF AnOctet
    <3>2. QED
      BY <1>5, <2>3, <2>4, <3>1, TwoDigits
  <2>6. ToOctets(BigEndian(q), 2) = q
    <3>1. 2 \in 1 .. 4
      OBVIOUS
    <3>2. QED
      BY <2>2, <3>1, OctetsRewritten
  <2>7. EncodeNew(len) = q /\ NewLlen(len) = 2
    BY <2>5, <2>6, WrittenInTwo
  <2>8. QED
    BY <2>1, <2>5, <2>7 DEF q, len, Fits
<1>6. ASSUME first = 255, Len(t) >= 5
      PROVE  p = LengthField(FiveOctetLength(t), 5, FALSE) /\ Fits(FiveOctetLength(t), 5)
  <2> DEFINE q == Clipped(Tail(t), 4)
             len == FiveOctetLength(t)
  <2>1. p = LengthField(FiveOctetLength(t), 5, FALSE)
    BY <1>3, <1>6 DEF Forms
  <2>2. q \in OctetValues /\ Len(q) = 4
    <3>1. Len(t) \in Nat /\ 4 \in 1 .. 5
      BY OctetFacts
    <3>2. Tail(t) \in OctetValues /\ Len(Tail(t)) = Len(t) - 1
      BY TailFacts
    <3>3. 4 <= Len(Tail(t))
      BY <1>6, <3>1, <3>2
    <3>4. QED
      BY <3>1, <3>2, <3>3, ClippedFacts
  <2>3. BigEndian(q) = len
    BY DEF FiveOctetLength
  <2>4. Clipped(t, 5) = <<255>> \o q
    BY <1>6, ClippedTail DEF first
  <2> HIDE DEF q, len
  <2>5. len \in Lengths /\ ToOctets(len, 4) = q
    BY <2>2, <2>3, OctetsRewritten
  <2>6. len \in Nat
    BY <2>5 DEF Lengths
  <2> DEFINE short == len < 8384
  <2>7. CASE short
    <3>1. NewLlen(len) # 5
      BY <2>6, <2>7 DEF NewLlen
    <3>2. Len(EncodeNew(len)) # 5
      BY <2>5, <3>1, EncodeNewFacts
    <3>3. Len(Clipped(t, 5)) = 5
      BY <1>6, ClippedFacts
    <3>4. QED
      BY <2>1, <2>5, <3>1, <3>2, <3>3 DEF len, Fits
  <2>8. CASE ~short
    <3>1. EncodeNew(len) = <<255>> \o q /\ NewLlen(len) = 5
      BY <2>5, <2>6, <2>8 DEF EncodeNew, NewLlen
    <3>2. QED
      BY <2>1, <2>4, <2>5, <3>1 DEF len, Fits
  <2> HIDE DEF short
  <2>9. QED
    BY <2>7, <2>8
<1>8. p.partial = FALSE /\ p.size <= Len(t)
  BY DEF p
<1>9. Fits(p.len, p.size)
  <2> DEFINE two == TwoOctetLength(t)
             five == FiveOctetLength(t)
             chunk == ChunkLength(first)
  <2> HIDE DEF two, five, chunk
  <2> DEFINE a == LengthField(first, 1, FALSE)
             b == LengthField(two, 2, FALSE)
             c == LengthField(chunk, 1, TRUE)
             d == LengthField(five, 5, FALSE)
  <2>1. /\ first < 192 => p.len = first /\ p.size = 1
        /\ first >= 192 /\ first < 224 => p.len = two /\ p.size = 2
        /\ ~(first >= 224 /\ first < 255)
        /\ first = 255 => p.len = five /\ p.size = 5
    <3>1. Forms(first, p, a, b, c, d)
      BY <1>3 DEF two, five, chunk
    <3>2. /\ a.len = first /\ a.size = 1
          /\ b.len = two /\ b.size = 2
          /\ c.partial = TRUE
          /\ d.len = five /\ d.size = 5
      <4>1. a.len = first /\ a.size = 1
        BY DEF LengthField
      <4>2. b.len = two /\ b.size = 2
        BY DEF LengthField
      <4>3. c.partial = TRUE
        BY DEF LengthField
      <4>4. d.len = five /\ d.size = 5
        BY DEF LengthField
      <4>5. QED
        BY <4>1, <4>2, <4>3, <4>4
    <3> HIDE DEF a, b, c, d
    <3>3. p # c
      BY <1>8, <3>2
    <3>4. QED
      BY <3>1, <3>2, <3>3 DEF Forms
  <2>2. first < 192 => Fits(first, 1)
    BY <1>4
  <2>3. Len(t) \in Nat
    BY OctetFacts
  <2>4. first >= 192 /\ first < 224 => Fits(two, 2)
    BY <1>5, <1>8, <2>1, <2>3 DEF two
  <2>5. first = 255 => Fits(five, 5)
    BY <1>6, <1>8, <2>1, <2>3 DEF five
  <2>6. first < 192 \/ (first >= 192 /\ first < 224) \/ (first >= 224 /\ first < 255) \/ first = 255
    BY <1>2
  <2>7. QED
    BY <2>1, <2>2, <2>4, <2>5, <2>6
<1>10. QED
  BY <1>9 DEF Fits, p

\* The first octet of a new-format packet says its tag.
LEMMA NewFirst ==
  ASSUME NEW tag \in 0 .. 63
  PROVE  /\ 192 + tag \in 0 .. 255
         /\ ParseFirst(192 + tag) = [fmt |-> "new", tag |-> tag, llen |-> 1]
<1> DEFINE f == 192 + tag
<1>1. f \in 0 .. 255 /\ f \div 64 = 3 /\ f % 64 = tag
  OBVIOUS
<1>2. (f \div 64) % 2 # 0
  BY <1>1
<1> HIDE DEF f
<1>3. ParseFirst(f) = [fmt |-> "new", tag |-> tag, llen |-> 1]
  BY <1>1, <1>2 DEF ParseFirst
<1>4. QED
  BY <1>1, <1>3 DEF f

\* The first octet of an old-format packet says its tag and the size of its length.
LEMMA OldFirst ==
  ASSUME NEW tag \in 0 .. 15, NEW llen \in {1, 2, 4}
  PROVE  /\ 128 + 4 * tag + LenType(llen) \in 0 .. 255
         /\ ParseFirst(128 + 4 * tag + LenType(llen)) = [fmt |-> "old", tag |-> tag, llen |-> llen]
<1> DEFINE k == LenType(llen)
           f == 128 + 4 * tag + k
<1>1. k \in 0 .. 2 /\ <<1, 2, 4, 0>>[k + 1] = llen
  <2>1. CASE llen = 1
    BY <2>1 DEF LenType
  <2>2. CASE llen = 2
    BY <2>2 DEF LenType
  <2>3. CASE llen = 4
    BY <2>3 DEF LenType
  <2>4. QED
    BY <2>1, <2>2, <2>3
<1> HIDE DEF k
<1>2. f \in 0 .. 255 /\ f \div 64 = 2 /\ f \div 4 = 32 + tag /\ f % 4 = k
  BY <1>1
<1> HIDE DEF f
<1>3. (f \div 64) % 2 = 0 /\ (f \div 4) % 16 = tag
  <2>1. (32 + tag) % 16 = tag /\ 2 % 2 = 0
    OBVIOUS
  <2>2. QED
    BY <1>2, <2>1
<1>4. ParseFirst(f) = [fmt |-> "old", tag |-> tag, llen |-> llen]
  BY <1>1, <1>2, <1>3 DEF ParseFirst
<1>5. QED
  BY <1>2, <1>4 DEF f, k

\* An old-format length: it is read back when it fits its field, and only then is the
\* field of the size that llen says.
LEMMA OldLengths ==
  ASSUME NEW len \in Lengths, NEW llen \in {1, 2, 4}
  PROVE  /\ EncodeOld(len, llen) \in OctetValues
         /\ Len(EncodeOld(len, llen)) = llen <=> IntByteLen(len) <= llen
         /\ IntByteLen(len) <= llen =>
              \A t : Begins(t, EncodeOld(len, llen)) =>
                 ParseOld(t, llen) = LengthField(len, llen, FALSE)
<1> DEFINE o == EncodeOld(len, llen)
           n == IntByteLen(len)
<1>1. llen \in 1 .. 4 /\ llen > 0 /\ n \in 1 .. 4
  BY DigitFacts
<1>2. o = ToOctets(len, llen)
  BY <1>1 DEF EncodeOld
<1>3. o \in OctetValues /\ Len(o) = (IF llen > n THEN llen ELSE n) /\ BigEndian(o) = len
  BY <1>1, <1>2, OctetsReadBack
<1> HIDE DEF o, n
<1>4. Len(o) = llen <=> n <= llen
  BY <1>1, <1>3
<1>5. ASSUME n <= llen, NEW t, Begins(t, o)
      PROVE  ParseOld(t, llen) = LengthField(len, llen, FALSE)
  <2>1. Clipped(t, llen) = o
    <3>1. Clipped(t, Len(o)) = o
      BY <1>3, <1>5, ClippedFront
    <3>2. QED
      BY <1>4, <1>5, <3>1
  <2>2. QED
    BY <1>3, <2>1 DEF ParseOld
<1>6. QED
  BY <1>3, <1>4, <1>5 DEF o, n

\* The header's octets: a stream that begins with x and then o.
LEMMA HeaderFront ==
  ASSUME NEW x \in 0 .. 255, NEW o \in OctetValues, NEW s \in Seq(Int)
  PROVE  LET t == (<<x>> \o o) \o s
         IN  t[1] = x /\ Begins(Tail(t), o) /\ Len(<<x>> \o o) = 1 + Len(o)
<1> DEFINE S == 0 .. 255
           p == <<x>> \o o
           t == p \o s
<1>1. x \in S /\ o \in Seq(S)
  BY DEF OctetValues
<1> HIDE DEF S
<1>2. p \in Seq(S) /\ Len(p) = 1 + Len(o) /\ Len(o) \in Nat
  BY <1>1
<1>3. p \in OctetValues
  BY <1>2 DEF S, OctetValues
<1>4. Begins(t, p)
  <2> HIDE DEF p
  <2>1. QED
    BY <1>3, ConcatBegins
<1>5. p[1] = x /\ Begins(Tail(t), o)
  <2> HIDE DEF t
  <2>1. QED
    BY <1>4, BeginsTail
<1>6. t[1] = p[1]
  <2> HIDE DEF t, p
  <2>1. 1 \in 1 .. Len(p)
    BY <1>2
  <2>2. QED
    BY <1>4, <2>1 DEF Begins
<1>7. QED
  BY <1>2, <1>5, <1>6

\* Header.__bytearray__ and Header.parse, new format: every tag and every length that
\* fits four octets are read back from what is written, and len(header), from which
\* the length of the whole packet is computed, is the number of octets written.
THEOREM NewHeadersReadBack ==
  ASSUME NEW h, h.fmt = "new", h.tag \in 0 .. 63, h.len \in Lengths, NEW s \in Seq(Int)
  PROVE  LET t == HeaderOctets(h) \o s
         IN  /\ ParseFirst(t[1]).fmt = "new" /\ ParseFirst(t[1]).tag = h.tag
             /\ ParseNew(Tail(t)) = LengthField(h.len, HeaderLen(h) - 1, FALSE)
             /\ Len(HeaderOctets(h)) = HeaderLen(h)
<1> DEFINE x == 192 + h.tag
           len == h.len
           o == EncodeNew(len)
           t == (<<x>> \o o) \o s
<1>1. x \in 0 .. 255 /\ ParseFirst(x) = [fmt |-> "new", tag |-> h.tag, llen |-> 1]
  BY NewFirst
<1>2. o \in OctetValues /\ Len(o) = NewLlen(len)
  BY EncodeNewFacts
<1>3. HeaderOctets(h) = <<x>> \o o /\ HeaderLen(h) = 1 + NewLlen(len)
  BY DEF HeaderOctets, HeaderLen, FirstOctet
<1>4. NewLlen(len) \in Nat
  BY DEF NewLlen
<1> HIDE DEF x, o
<1>5. t[1] = x /\ Begins(Tail(t), o) /\ Len(<<x>> \o o) = 1 + Len(o)
  BY <1>1, <1>2, HeaderFront
<1> HIDE DEF t
<1>6. ParseNew(Tail(t)) = LengthField(len, NewLlen(len), FALSE)
  BY <1>5, ParseWritten DEF o
<1>7. HeaderLen(h) - 1 = NewLlen(len)
  BY <1>3, <1>4
<1>8. HeaderOctets(h) \o s = t
  BY <1>3 DEF t
<1>9. ParseFirst(t[1]).fmt = "new" /\ ParseFirst(t[1]).tag = h.tag
  BY <1>1, <1>5
<1>10. QED
  BY <1>2, <1>3, <1>5, <1>6, <1>7, <1>8, <1>9

\* The same in the old format, as long as the length fits the llen octets the header has
\* for it; and len(header) is the number of octets written exactly then: update_hlen
\* keeps the llen a header was read with, while encode_length writes as many octets as
\* a body that has grown needs.
THEOREM OldHeadersReadBack ==
  ASSUME NEW h, h.fmt = "old", h.tag \in 0 .. 15, h.llen \in {1, 2, 4}, h.len \in Lengths,
         NEW s \in Seq(Int)
  PROVE  LET t == HeaderOctets(h) \o s
         IN  /\ ParseFirst(t[1]).fmt = "old" /\ ParseFirst(t[1]).tag = h.tag
             /\ ParseFirst(t[1]).llen = h.llen
             /\ IntByteLen(h.len) <= h.llen =>
                  ParseOld(Tail(t), h.llen) = LengthField(h.len, HeaderLen(h) - 1, FALSE)
             /\ Len(HeaderOctets(h)) = HeaderLen(h) <=> IntByteLen(h.len) <= h.llen
<1> DEFINE x == 128 + 4 * h.tag + LenType(h.llen)
           len == h.len
           llen == h.llen
           o == EncodeOld(len, llen)
           t == (<<x>> \o o) \o s
           n == IntByteLen(len)
<1>1. x \in 0 .. 255 /\ ParseFirst(x) = [fmt |-> "old", tag |-> h.tag, llen |-> llen]
  <2> DEFINE tag == h.tag
  <2>1. tag \in 0 .. 15 /\ llen \in {1, 2, 4} /\ x = 128 + 4 * tag + LenType(llen)
    OBVIOUS
  <2> HIDE DEF x, tag, llen
  <2>2. x \in 0 .. 255 /\ ParseFirst(x) = [fmt |-> "old", tag |-> tag, llen |-> llen]
    BY <2>1, OldFirst
  <2>3. QED
    BY <2>2 DEF tag
<1>2. /\ o \in OctetValues /\ Len(o) \in Nat
      /\ Len(o) = llen <=> n <= llen
      /\ n <= llen => \A u : Begins(u, o) => ParseOld(u, llen) = LengthField(len, llen, FALSE)
  BY OldLengths, OctetFacts
<1>3. HeaderOctets(h) = <<x>> \o o /\ HeaderLen(h) = 1 + llen
  BY DEF HeaderOctets, HeaderLen, FirstOctet
<1>4. llen \in Nat
  OBVIOUS
<1> HIDE DEF x, o, n
<1>5. t[1] = x /\ Begins(Tail(t), o) /\ Len(<<x>> \o o) = 1 + Len(o)
  BY <1>1, <1>2, HeaderFront
<1> HIDE DEF t
<1>6. n <= llen => ParseOld(Tail(t), llen) = LengthField(len, llen, FALSE)
  BY <1>2, <1>5
<1>7. HeaderLen(h) - 1 = llen
  BY <1>3, <1>4
<1>8. HeaderOctets(h) \o s = t
  BY <1>3 DEF t
<1>9. /\ ParseFirst(t[1]).fmt = "old" /\ ParseFirst(t[1]).tag = h.tag
      /\ ParseFirst(t[1]).llen = llen
  BY <1>1, <1>5
<1>10. Len(HeaderOctets(h)) = HeaderLen(h) <=> n <= llen
  BY <1>2, <1>3, <1>4, <1>5
<1>11. QED
  BY <1>6, <1>7, <1>8, <1>9, <1>10 DEF n
=============================================================================
