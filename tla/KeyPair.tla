------------------------------- MODULE KeyPair -------------------------------
(***************************************************************************)
(* The private and the public half of a key: two PGPKey objects that know  *)
(* each other through weak references (PGPKey._sibling) and that |= keeps  *)
(* in step, while add_subkey, del_uid and uid |= signature change one half *)
(* only.                                                                   *)
(*                                                                         *)
(* Signatures, User IDs and certifications are numbered as they are made.  *)
(* The halves are Python objects: one that nobody holds any more is gone,  *)
(* its weak references are dead, and its name may be given to a new one.   *)
(* A dead reference and None come to the same in every operation.  Objects *)
(* in a circle are gone when the collector has found them: until then the  *)
(* program is taken to hold them.                                          *)
(***************************************************************************)
EXTENDS Integers, Sequences

CONSTANTS Private, Public,   \* the objects there may be
          KeyOf,             \* the fingerprint of each
          Loaded,            \* the objects that were read from files
          NoHalf,
          MaxDepth,          \* how deep Python lets the pubkey getter recur
          MaxItem,           \* bound on what is made
          MaxSteps           \* bound on the operations

Half == Private \cup Public

ASSUME HalvesAssumption ==
    /\ Private \cap Public = {} /\ NoHalf \notin Half
    /\ DOMAIN KeyOf = Half
    /\ Loaded \subseteq Half
    /\ MaxDepth \in Nat \ {0} /\ MaxItem \in Nat /\ MaxSteps \in Nat

VARIABLES held,     \* the objects the program holds on to
          sib,      \* _sibling: the weak reference to the other half
          subkey,   \* whether an object is a subkey (its packet is Sub)
          subs,     \* _children
          sigs,     \* _signatures
          uids,     \* _uids
          certs,    \* the certifications of each User ID
          items,    \* how many items have been made
          apart,    \* what was done to one half only (for the properties)
          raised,   \* whether the last operation raised an exception
          steps     \* how many operations there were
vars == <<held, sib, subkey, subs, sigs, uids, certs, items, apart, raised, steps>>

Item == 0..MaxItem
Reason == {"set", "older half", "subkey", "deleted", "certified"}

-----------------------------------------------------------------------------
(* The sets of these objects and of children that hold all children of each *)
(* of theirs.                                                               *)
Closed(objects, children) ==
    LET owned == UNION {children[h] : h \in Half}
    IN  {S \in {objects \cup more : more \in SUBSET (owned \ objects)} :
            \A h \in S : children[h] \subseteq S}

(* Children are held by their parents, siblings by nobody. *)
Reached(objects, children) ==
    LET closed == Closed(objects, children) IN {h \in Half : \A S \in closed : h \in S}
Alive == Reached(held, subs)
Gone  == Half \ Alive

Init ==
    /\ held = Loaded
    /\ sib = [h \in Half |-> NoHalf]
    /\ subkey = [h \in Half |-> FALSE]
    /\ subs = [h \in Half |-> {}]
    /\ sigs = [h \in Half |-> {}]
    /\ uids = [h \in Half |-> IF h \in Loaded THEN {0} ELSE {}]
    /\ certs = [h \in Half |-> {}]
    /\ items = 0
    /\ apart = [h \in Half |-> {}]
    /\ raised = FALSE
    /\ steps = 0

Made == items < MaxItem /\ items' = items + 1

(* Mutant of Both: a public half keeps what is composed with it to itself. *)
BothFromPrivate(h) == {h} \cup (IF h \in Public THEN {} ELSE {sib[h]} \cap Alive)

(* An object and the sibling that what is composed with it is copied to. *)
Both(h) == {h} \cup ({sib[h]} \cap Alive)

Composed(content, h) ==
    LET both == Both(h)
    IN  [x \in Half |-> IF x \in both THEN content[x] \cup {items'} ELSE content[x]]

(* Composing with a half that its sibling has left for a newer one: the     *)
(* sibling gets the item, the newer half does not.                          *)
Behind(h) == IF sib[h] \in Alive /\ sib[sib[h]] # h THEN {sib[h]} ELSE {}

(* References die with what they refer to. *)
Remembered(objects, children) ==
    LET alive == Reached(objects, children)
    IN  [x \in Half |-> IF sib[x] \in alive THEN sib[x] ELSE NoHalf]

Marked(objects, reason) ==
    [h \in Half |-> IF h \in objects THEN apart[h] \cup {reason} ELSE apart[h]]

-----------------------------------------------------------------------------
(* The calls that h.pubkey makes: the getter calls itself for every child,  *)
(* so there is one for each path from h along the children.                 *)
Tree(h) == Reached({h}, subs)
End(path) == path[Len(path)]
Calls(h) ==
    LET tree == Tree(h)
    IN  {path \in UNION {[1..n -> tree] : n \in 1..MaxDepth} :
            path[1] = h /\ \A i \in 2..Len(path) : path[i] \in subs[path[i - 1]]}

(* Whether the recursion ends; it does not when a key is among its own      *)
(* descendants.                                                             *)
Ends(h) == \A path \in Calls(h) : subs[End(path)] = {} \/ Len(path) < MaxDepth

(* The objects that the calls make. *)
Fresh(h) ==
    LET calls == Calls(h)
    IN  {f \in [calls -> Public \cap Gone] :
            \A c \in calls : KeyOf[f[c]] = KeyOf[End(c)] /\ \A d \in calls : f[c] = f[d] => c = d}

Copies(f) == {f[c] : c \in DOMAIN f}

(* The object that x is made from, and the call that made x. *)
Maker(f, x) == CHOOSE c \in DOMAIN f : f[c] = x
Origin(f, x) == End(Maker(f, x))

Copied(content, f) ==
    [x \in Half |-> IF x \in Copies(f) THEN content[Origin(f, x)] ELSE content[x]]

(* What is made takes its place: of the copies of one key the last one is   *)
(* its sibling.                                                             *)
MakePublic(h, f, last) ==
    /\ \A s \in Tree(h) : End(last[s]) = s
    /\ held' = held \cup {f[<<h>>]}
    /\ sib' = [x \in Half |-> IF x \in Tree(h) THEN f[last[x]]
                              ELSE IF x \in Copies(f) THEN Origin(f, x)
                              ELSE sib[x]]
    /\ subs' = [x \in Half |-> IF x \in Copies(f)
                               THEN {f[Append(Maker(f, x), s)] : s \in subs[Origin(f, x)]}
                               ELSE subs[x]]
    /\ subkey' = Copied(subkey, f)
    /\ sigs' = Copied(sigs, f)
    /\ uids' = Copied(uids, f)
    /\ certs' = Copied(certs, f)
    /\ apart' = [x \in Half |-> IF x \in Tree(h) \cup Copies(f) THEN {} ELSE apart[x]]

(* pubkey (the getter): whatever h's sibling is, a new public half is made, *)
(* and new ones for its subkeys and theirs.                                 *)
Pubkey(h) ==
    /\ h \in Private /\ Ends(h)
    /\ \E f \in Fresh(h), last \in [Tree(h) -> Calls(h)] : MakePublic(h, f, last)
    /\ raised' = FALSE
    /\ UNCHANGED items

(* The recursion is too deep: RecursionError.  A call that had returned has *)
(* given its key a sibling, which is gone with the rest of what was made.   *)
PubkeyFails(h) ==
    /\ h \in Private /\ ~Ends(h)
    /\ \E returned \in SUBSET {s \in Tree(h) : Ends(s)} :
          /\ \A s \in returned : subs[s] \subseteq returned
          /\ sib' = [x \in Half |-> IF x \in returned THEN NoHalf ELSE sib[x]]
    /\ raised' = TRUE
    /\ UNCHANGED <<held, subkey, subs, sigs, uids, certs, items, apart>>

(* Mutant of Settable: any public key will do. *)
SettableAny(h, p) == h \in Private /\ p \in Public /\ sib[h] \notin Alive

(* What the setter checks; it raises otherwise, and changes nothing. *)
Settable(h, p) ==
    h \in Private /\ p \in Public /\ KeyOf[p] = KeyOf[h] /\ sib[h] \notin Alive

(* h.pubkey = p: the halves are connected as they are. *)
SetPubkey(h, p) ==
    /\ IF Settable(h, p)
       THEN /\ sib' = [sib EXCEPT ![h] = p, ![p] = h]
            /\ apart' = Marked({h}, "set")
       ELSE UNCHANGED <<sib, apart>>
    /\ raised' = ~Settable(h, p)
    /\ UNCHANGED <<held, subkey, subs, sigs, uids, certs, items>>

-----------------------------------------------------------------------------
(* h |= signature, h |= uid: the sibling gets a copy. *)
AddSignature(h) ==
    /\ Made
    /\ sigs' = Composed(sigs, h)
    /\ apart' = Marked(Behind(h), "older half")
    /\ raised' = FALSE
    /\ UNCHANGED <<held, sib, subkey, subs, uids, certs>>

AddUid(h) ==
    /\ Made
    /\ uids' = Composed(uids, h)
    /\ apart' = Marked(Behind(h), "older half")
    /\ raised' = FALSE
    /\ UNCHANGED <<held, sib, subkey, subs, sigs, certs>>

(* The children of a key are a dict by key id. *)
Adopt(h, s) == {x \in subs[h] : KeyOf[x] # KeyOf[s]} \cup {s}

(* Mutant of Fits: the other half of a subkey fits as well. *)
FitsAny(h, s) == subkey[s]

(* What |= takes for a subkey: one of the same half. *)
Fits(h, s) == subkey[s] /\ (s \in Private <=> h \in Private)

(* h |= s, whether h is a subkey or not, and s = h too: a subkey that fits  *)
(* h does not fit the sibling, which is of the other half: it raises        *)
(* TypeError, when h has already changed.  A key that does not fit is       *)
(* refused at once.                                                         *)
AddHalf(h, s) ==
    /\ IF Fits(h, s)
       THEN /\ subs' = [subs EXCEPT ![h] = Adopt(h, s)]
            /\ apart' = Marked({h}, "subkey")
            /\ raised' = (sib[h] \in Alive)
       ELSE raised' = TRUE /\ UNCHANGED <<subs, apart>>
    /\ sib' = Remembered(held, subs')
    /\ UNCHANGED <<held, subkey, sigs, uids, certs, items>>

(* add_subkey, of a subkey or of a primary key that has no children (calls  *)
(* refused at once change nothing): s is made a subkey and put among the    *)
(* children; then the binding signature is made and composed with s.  When  *)
(* h is no primary key bind raises, and other conditions may make it raise. *)
AddSubkey(h, s) ==
    /\ h \in Private /\ s \in Private
    /\ subkey[s] \/ subs[s] = {}
    /\ subs' = [subs EXCEPT ![h] = Adopt(h, s)]
    /\ subkey' = [subkey EXCEPT ![s] = TRUE]
    /\ \/ /\ ~subkey'[h] /\ Made
          /\ sigs' = Composed(sigs, s)
          /\ raised' = FALSE
       \/ raised' = TRUE /\ UNCHANGED <<sigs, items>>
    /\ apart' = Marked({h, s}, "subkey")
    /\ sib' = Remembered(held, subs')
    /\ UNCHANGED <<held, uids, certs>>

(* uid |= signature, of a User ID of h. *)
CertifyUid(h) ==
    /\ Made
    /\ \E u \in uids[h] : certs' = [certs EXCEPT ![h] = @ \cup {<<u, items'>>}]
    /\ apart' = Marked({h}, "certified")
    /\ raised' = FALSE
    /\ UNCHANGED <<held, sib, subkey, subs, sigs, uids>>

(* A subkey looks among the User IDs of its parent, and then fails to find  *)
(* what it has found among its own.                                         *)
DelUid(h) ==
    /\ IF subkey[h]
       THEN UNCHANGED <<uids, certs, apart>>
       ELSE /\ \E u \in uids[h] :
                  /\ uids' = [uids EXCEPT ![h] = @ \ {u}]
                  /\ certs' = [certs EXCEPT ![h] = {c \in @ : c[1] # u}]
            /\ apart' = Marked({h}, "deleted")
    /\ raised' = subkey[h]
    /\ UNCHANGED <<held, sib, subkey, subs, sigs, items>>

(* The program takes a subkey out of its parent's. *)
Hold(h) ==
    /\ held' = held \cup {h}
    /\ raised' = FALSE
    /\ UNCHANGED <<sib, subkey, subs, sigs, uids, certs, items, apart>>

(* The program forgets an object: what only it held is gone with it. *)
Forget(h) ==
    /\ h \in held
    /\ held' = held \ {h}
    /\ sib' = Remembered(held', subs)
    /\ raised' = FALSE
    /\ UNCHANGED <<subkey, subs, sigs, uids, certs, items, apart>>

(* What is called, and what is passed to it, is alive. *)
Next ==
    /\ steps < MaxSteps /\ steps' = steps + 1
    /\ LET alive == Alive IN \E h \in alive :
           \/ Pubkey(h) \/ PubkeyFails(h)
           \/ AddSignature(h)
           \/ AddUid(h)
           \/ CertifyUid(h)
           \/ DelUid(h)
           \/ Hold(h) \/ Forget(h)
           \/ \E s \in alive : SetPubkey(h, s) \/ AddHalf(h, s) \/ AddSubkey(h, s)

Spec == Init /\ [][Next]_vars

-----------------------------------------------------------------------------
(* The children of a key are subkeys of its own half. *)
ChildrenFit == \A h \in Alive : \A s \in subs[h] : subkey[s] /\ (s \in Private <=> h \in Private)

TypeOK ==
    /\ ChildrenFit
    /\ held \subseteq Half
    /\ sib \in [Half -> Half \cup {NoHalf}]
    /\ subkey \in [Half -> BOOLEAN]
    /\ subs \in [Half -> SUBSET Half]
    /\ sigs \in [Half -> SUBSET Item]
    /\ uids \in [Half -> SUBSET Item]
    /\ certs \in [Half -> SUBSET (Item \X Item)]
    /\ items \in Item
    /\ apart \in [Half -> SUBSET Reason]
    /\ raised \in BOOLEAN
    /\ steps \in 0..MaxSteps

(* Whatever is loaded, connected, made and forgotten: a sibling is an object *)
(* that lives, of the same key and of the other half (the checks of the      *)
(* setter, and weak references that die with their objects).                 *)
SiblingsMatch ==
    LET alive == Alive
    IN  \A h \in Half : sib[h] # NoHalf =>
        /\ sib[h] \in alive
        /\ KeyOf[sib[h]] = KeyOf[h]
        /\ h \in Private <=> sib[h] \in Public

(* Two halves are linked while each is the other's sibling. *)
Linked(h, p) == sib[h] = p /\ sib[p] = h

(* Something was done that may have set them apart. *)
Apart(h, p, reasons) == (apart[h] \cup apart[p]) \cap ({"set"} \cup reasons) # {}

Agree(h, p) ==
    /\ sigs[h] = sigs[p] \/ Apart(h, p, {"older half"})
    /\ uids[h] = uids[p] \/ Apart(h, p, {"older half", "deleted"})
    /\ certs[h] = certs[p] \/ Apart(h, p, {"older half", "deleted", "certified"})
    /\ subkey[h] = subkey[p] \/ Apart(h, p, {"subkey"})
    /\ {KeyOf[s] : s \in subs[h]} = {KeyOf[s] : s \in subs[p]} \/ Apart(h, p, {"subkey"})

(* Linked halves hold the same, by copies made when the public one was taken *)
(* and by every |= since then, but for what was done to one half by an       *)
(* operation that nobody forwards, or through a half handed out before.      *)
HalvesAgree == \A h \in Private, p \in Public : Linked(h, p) => Agree(h, p)
=============================================================================
