------------------------------ MODULE KeyParse ------------------------------
(***************************************************************************)
(* PGPKey.parse: the packets of a key block, grouped into items (a key, a  *)
(* User ID or Attribute, with the signatures that follow it), and the      *)
(* items filed under the keys.                                             *)
(*                                                                         *)
(* A packet is known by its place in the block.  An object is known by the *)
(* packet it was made from, and owner[n] is the place of the object that   *)
(* packet n was attached to (0: to none).                                  *)
(***************************************************************************)
EXTENDS Naturals, Sequences, SequencesExt, FiniteSetsExt

CONSTANTS
  KeyId,    \* key ids of primary keys and subkeys
  Half,     \* "pub", "priv"
  Length    \* bound on the packets of a block

ASSUME KeyParseAssumption == Length \in Nat

\* "opaque": a packet of an unknown tag or version; "opaquesig": a signature of an
\* unknown version; "other": a packet that has no place in a key block.
\* Trust packets, which getpkt filters out, are left out.
KeyPacket == [kind : {"primary", "sub"}, id : KeyId, half : Half]
Plain == [kind : {"uid", "sig", "opaquesig", "opaque", "other"}]
Block == BoundedSeq(KeyPacket \cup Plain, Length)

VARIABLES
  block,     \* the packets of the block
  next,      \* the place of the next packet the grouper will see
  fresh,     \* the grouper is new: it has seen no packet that is not a signature
  self,      \* the packet that became self._key (0: none yet)
  keys,      \* the OrderedDict of parsed primary keys: <<id, half, object>>
  owner,     \* see above
  orphaned,  \* packets put into the list of that name
  status     \* "parsing", "done", or the exception raised

vars == <<block, next, fresh, self, keys, owner, orphaned, status>>

-----------------------------------------------------------------------------
Places == DOMAIN block
Kind(n) == block[n].kind
IsSig(n) == Kind(n) \in {"sig", "opaquesig"}
IsKey(n) == Kind(n) \in {"primary", "sub"}

Init ==
  /\ block \in Block
  /\ next = 1
  /\ fresh = TRUE
  /\ self = 0
  /\ keys = <<>>
  /\ owner = [n \in Places |-> 0]
  /\ orphaned = {}
  /\ status = "parsing"

Parsing == status = "parsing" /\ next <= Len(block)

\* The packets of the group that starts at next, and the place after it.
GroupEnd == CHOOSE e \in next + 1 .. Len(block) + 1 :
              /\ e = Len(block) + 1 \/ ~IsSig(e)
              /\ \A n \in next + 1 .. e - 1 : IsSig(n)
GroupSigs == {n \in next + 1 .. GroupEnd - 1 : Kind(n) = "sig"}

Raise(exception) ==
  /\ status' = exception
  /\ UNCHANGED <<block, next, fresh, self, keys, owner, orphaned>>

\* _.endswith('Opaque') when the grouper's last is still None
LeadingSignature ==
  /\ Parsing /\ fresh /\ IsSig(next)
  /\ Raise("AttributeError")

\* A group is done with; the signatures of it go to the packet at next.
Advance(own) ==
  /\ owner' = [n \in Places |-> IF n \in GroupSigs THEN next ELSE own[n]]
  /\ next' = GroupEnd
  /\ fresh' = FALSE
  /\ UNCHANGED <<block, orphaned, status>>

\* Mutant of SkipOpaque: the packet is dropped before the grouper sees it.
SkipOpaqueAlone ==
  /\ Parsing /\ Kind(next) = "opaque"
  /\ next' = next + 1
  /\ UNCHANGED <<block, fresh, self, keys, owner, orphaned, status>>

\* The filter on the groups leaves it out.
SkipOpaque ==
  /\ Parsing /\ Kind(next) = "opaque"
  /\ next' = GroupEnd
  /\ fresh' = FALSE
  /\ UNCHANGED <<block, self, keys, owner, orphaned, status>>

Takes == IF self = 0 /\ IsKey(next) THEN next ELSE self

\* keys[(id, half)] = the object of n, in place if the pair is there
Filed(id, half, n) ==
  IF \E i \in DOMAIN keys : <<keys[i][1], keys[i][2]>> = <<id, half>>
  THEN [i \in DOMAIN keys |->
          IF <<keys[i][1], keys[i][2]>> = <<id, half>> THEN <<id, half, n>> ELSE keys[i]]
  ELSE Append(keys, <<id, half, n>>)

ParsePrimary ==
  /\ Parsing /\ Kind(next) = "primary"
  /\ self' = Takes
  /\ keys' = Filed(block[next].id, block[next].half, next)
  /\ Advance(owner)

LastKey == Last(keys)[3]

\* _children is a dict: a subkey of the same id and key takes the place of the first.
Adopt(parent) ==
  [n \in Places |->
     IF n = next THEN parent
     ELSE IF IsKey(n) /\ owner[n] = parent /\ block[n].id = block[next].id THEN 0
     ELSE owner[n]]

ParseSub ==
  /\ Parsing /\ Kind(next) = "sub"
  /\ keys # <<>> /\ block[LastKey].half = block[next].half
  /\ self' = Takes
  /\ Advance(Adopt(LastKey))
  /\ UNCHANGED keys

\* Mutant of ParseUser: the User ID goes to the key parsed first.
ParseUserFirst ==
  /\ Parsing /\ Kind(next) = "uid"
  /\ keys # <<>>
  /\ Advance([owner EXCEPT ![next] = self])
  /\ UNCHANGED <<self, keys>>

ParseUser ==
  /\ Parsing /\ Kind(next) = "uid"
  /\ keys # <<>>
  /\ Advance([owner EXCEPT ![next] = LastKey])
  /\ UNCHANGED <<self, keys>>

\* next(reversed(keys)) of an empty dict; |= of a subkey of the other half
NoKeyForIt ==
  /\ Parsing /\ Kind(next) \in {"uid", "sub"}
  /\ keys = <<>>
  /\ Raise("StopIteration")

WrongHalf ==
  /\ Parsing /\ Kind(next) = "sub"
  /\ keys # <<>> /\ block[LastKey].half # block[next].half
  /\ Raise("TypeError")

\* Mutant of Orphan: one more packet is lost.
OrphanSkipsTwo ==
  /\ Parsing /\ Kind(next) = "other"
  /\ orphaned' = orphaned \cup (next .. GroupEnd - 1)
  /\ next' = GroupEnd + 2
  /\ fresh' = TRUE
  /\ UNCHANGED <<block, self, keys, owner, status>>

\* Mutant of Orphan: the new groupby sees the packets of the orphan again.
OrphanAgain ==
  /\ Parsing /\ Kind(next) = "other"
  /\ orphaned' = orphaned \cup (next .. GroupEnd - 1)
  /\ fresh' = TRUE
  /\ UNCHANGED <<block, next, self, keys, owner, status>>

\* The inner loop breaks: the group is put away, and a new groupby is made over the
\* packets left.  Exhausting the group made the old one take the next packet.
Orphan ==
  /\ Parsing /\ Kind(next) = "other"
  /\ orphaned' = orphaned \cup (next .. GroupEnd - 1)
  /\ next' = GroupEnd + 1
  /\ fresh' = TRUE
  /\ UNCHANGED <<block, self, keys, owner, status>>

Finish ==
  /\ status = "parsing" /\ next > Len(block)
  /\ status' = "done"
  /\ UNCHANGED <<block, next, fresh, self, keys, owner, orphaned>>

Next ==
  \/ LeadingSignature
  \/ SkipOpaque
  \/ ParsePrimary
  \/ ParseSub
  \/ ParseUser
  \/ NoKeyForIt
  \/ WrongHalf
  \/ Orphan
  \/ Finish

Spec == Init /\ [][Next]_vars

\* Nothing stops the loop between two packets.
FairSpec == Spec /\ WF_vars(Next)

-----------------------------------------------------------------------------
TypeOK ==
  /\ block \in Seq(KeyPacket \cup Plain)
  /\ next \in 1 .. Len(block) + 2
  /\ fresh \in BOOLEAN
  /\ self \in 0 .. Len(block)
  /\ keys \in Seq(KeyId \X Half \X Places)
  /\ owner \in [Places -> 0 .. Len(block)]
  /\ orphaned \subseteq Places
  /\ status \in {"parsing", "done", "AttributeError", "StopIteration", "TypeError"}

(***************************************************************************)
(* What the packets of a block mean by their order alone.                  *)
(***************************************************************************)
LastBefore(n, S) == Max({0} \cup {m \in S : m < n})

Subject(n) == LastBefore(n, {m \in Places : ~IsSig(m)})
KeyBefore(n) == LastBefore(n, {m \in Places : Kind(m) = "primary"})

Superseded(n) ==
  \E m \in Places : /\ n < m /\ Kind(m) = "sub" /\ block[m].id = block[n].id
                    /\ KeyBefore(m) = KeyBefore(n)

Meant(n) ==
  CASE Kind(n) = "sig" -> IF Kind(Subject(n)) = "opaque" THEN 0 ELSE Subject(n)
    [] Kind(n) = "uid" -> KeyBefore(n)
    [] Kind(n) = "sub" -> IF Superseded(n) THEN 0 ELSE KeyBefore(n)
    [] OTHER -> 0

\* Nothing in the block has to be put away, and no primary key comes twice.
Regular ==
  /\ \A n \in Places : Kind(n) # "other"
  /\ \A m, n \in Places : m # n /\ Kind(m) = "primary" => block[m] # block[n]

\* A regular block that parses gives every signature to the item before it, and every
\* User ID and subkey to the primary key before it, and leaves none out but those of
\* unknown versions and subkeys that came twice (the grouping and filing of parse).
FiledAsMeant ==
  status = "done" /\ Regular => \A n \in Places : owner[n] = Meant(n)

\* A regular block parses if its first packet known to PGPy is a primary key and its
\* subkeys are of the half of their keys: unknown packets in front, between and after
\* the items, with their own signatures, do no harm.
AcceptsKeyBlocks ==
  LET known == {n \in Places : Kind(n) # "opaque" /\ (IsSig(n) => Kind(Subject(n)) # "opaque")}
  IN  /\ Regular
      /\ \A n \in Places : IsSig(n) => Subject(n) # 0
      /\ \A n \in known : Kind(n) # "primary" => KeyBefore(n) # 0
      /\ \A n \in known : Kind(n) = "sub" => block[KeyBefore(n)].half = block[n].half
      => status \in {"parsing", "done"}

\* The loop of parse ends, whatever it is restarted on: with the block read, or with
\* an exception (the while and for loops of PGPKey.parse).
ParseEnds == <>(status # "parsing")
=============================================================================
