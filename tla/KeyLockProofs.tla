--------------------------- MODULE KeyLockProofs ---------------------------
(***************************************************************************)
(* Theorems about KeyLock, for every set of subkeys, set of passphrases    *)
(* and bound on the blocks.                                                *)
(***************************************************************************)
EXTENDS KeyLock, SequenceLemmas

\* What appending a subkey does to the set of attached subkeys.
LEMMA AppendAttached ==
  ASSUME NEW s \in Sub, NEW q \in Seq(Sub)
  PROVE  /\ Append(q, s) \in Seq(Sub)
         /\ ToSet(Append(q, s)) = ToSet(q) \cup {s}
<1>1. Append(q, s) \in Seq(Sub) /\ DOMAIN Append(q, s) = 1..(Len(q) + 1)
  OBVIOUS
<1>2. DOMAIN q = 1..Len(q) /\ Len(q) \in Nat
  OBVIOUS
<1>3. /\ \A i \in 1..Len(q) : Append(q, s)[i] = q[i]
      /\ Append(q, s)[Len(q) + 1] = s
  OBVIOUS
<1>4. ToSet(Append(q, s)) \subseteq ToSet(q) \cup {s}
  <2>1. SUFFICES ASSUME NEW i \in 1..(Len(q) + 1)
                 PROVE  Append(q, s)[i] \in ToSet(q) \cup {s}
    BY <1>1 DEF ToSet
  <2>2. CASE i = Len(q) + 1
    BY <1>3, <2>2
  <2>3. CASE i # Len(q) + 1
    <3>1. i \in 1..Len(q)
      BY <1>2, <2>3
    <3>2. QED
      BY <1>2, <1>3, <3>1 DEF ToSet
  <2>4. QED
    BY <2>2, <2>3
<1>5. ToSet(q) \cup {s} \subseteq ToSet(Append(q, s))
  <2>1. ASSUME NEW i \in 1..Len(q)
        PROVE  q[i] \in ToSet(Append(q, s))
    <3>1. i \in 1..(Len(q) + 1)
      BY <1>2
    <3>2. QED
      BY <1>1, <1>3, <3>1 DEF ToSet
  <2>2. s \in ToSet(Append(q, s))
    <3>1. Len(q) + 1 \in 1..(Len(q) + 1)
      BY <1>2
    <3>2. QED
      BY <1>1, <1>3, <3>1 DEF ToSet
  <2>3. QED
    BY <1>2, <2>1, <2>2 DEF ToSet
<1>6. QED
  BY <1>1, <1>4, <1>5

\* The attached subkeys are subkeys; adding one adds exactly that one.
LEMMA AttachedFacts ==
  ASSUME subkeys \in Seq(Sub)
  PROVE  /\ Attached \subseteq Sub
         /\ \A o \in Key : Covered(o) \subseteq Key
         /\ \A s \in Sub, usage \in Usage, crosssign \in BOOLEAN :
              AddSubkey(s, usage, crosssign) =>
                /\ subkeys' \in Seq(Sub)
                /\ Attached' = Attached \cup {s}
<1>1. Attached \subseteq Sub
  BY DEF Attached, ToSet
<1>2. \A o \in Key : Covered(o) \subseteq Key
  BY <1>1 DEF Covered, Key
<1>3. ASSUME NEW s \in Sub, NEW usage \in Usage, NEW crosssign \in BOOLEAN,
             AddSubkey(s, usage, crosssign)
      PROVE  subkeys' \in Seq(Sub) /\ Attached' = Attached \cup {s}
  <2>1. CASE s \in Attached
    BY <1>3, <2>1 DEF AddSubkey, Attached
  <2>2. CASE s \notin Attached
    BY <1>3, <2>2, AppendAttached DEF AddSubkey, Attached
  <2>3. QED
    BY <2>1, <2>2
<1>4. QED
  BY <1>1, <1>2, <1>3

\* Every variable stays within its type: in particular no block is closed twice.
THEOREM TypeCorrect == Spec => []TypeOK
<1>1. Init => TypeOK
  <2> SUFFICES ASSUME Init PROVE TypeOK
    OBVIOUS
  <2>1. blob \in [Key -> Blob]
    BY DEF Init, Blob, NoBlob
  <2>2. subkeys \in Seq(Sub)
    BY DEF Init
  <2>3. QED
    BY <2>1, <2>2, KeyLockAssumption DEF Init, TypeOK, Flags
<1>2. TypeOK /\ [Next]_vars => TypeOK'
  <2> SUFFICES ASSUME TypeOK, [Next]_vars PROVE TypeOK'
    OBVIOUS
  <2> USE DEF TypeOK
  <2>1. ASSUME NEW o \in Key, NEW p \in Passphrase, Protect(o, p)
        PROVE  TypeOK'
    <3>1. blob' \in [Key -> Blob]
      BY <2>1 DEF Protect, Blob
    <3>2. QED
      BY <2>1, <3>1 DEF Protect, Cleared
  <2>2. ASSUME NEW o \in Key, NEW p \in Passphrase, UnlockEnter(o, p)
        PROVE  TypeOK'
    <3>1. plain' \in [Key -> BOOLEAN]
      BY <2>2 DEF UnlockEnter, Blob
    <3>2. blocks' \in [Key -> 0..MaxBlocks]
      BY <2>2, KeyLockAssumption DEF UnlockEnter
    <3>3. QED
      BY <2>2, <3>1, <3>2 DEF UnlockEnter
  <2>3. ASSUME NEW o \in Key, NEW p \in Passphrase, UnlockFail(o, p)
        PROVE  TypeOK'
    BY <2>3 DEF UnlockFail, Cleared
  <2>4. ASSUME NEW o \in Key, ProtectRejected(o)
        PROVE  TypeOK'
    <3>1. blob' \in [Key -> Blob]
      BY <2>4 DEF ProtectRejected, Blob, NoBlob
    <3>2. QED
      BY <2>4, <3>1 DEF ProtectRejected
  <2>5. ASSUME NEW o \in Key, UnlockExit(o)
        PROVE  TypeOK'
    <3>1. blocks' \in [Key -> 0..MaxBlocks]
      BY <2>5, KeyLockAssumption DEF UnlockExit
    <3>2. QED
      BY <2>5, <3>1 DEF UnlockExit, Cleared
  <2>6. ASSUME NEW s \in Sub, NEW usage \in Usage, NEW crosssign \in BOOLEAN,
               AddSubkey(s, usage, crosssign)
        PROVE  TypeOK'
    <3>1. subkeys' \in Seq(Sub)
      BY <2>6, AttachedFacts
    <3>2. flags' \in [Sub -> Flags]
      BY <2>6 DEF AddSubkey, Flags
    <3>3. QED
      BY <2>6, <3>1, <3>2 DEF AddSubkey
  <2>7. CASE SaveAndReload
    BY <2>7, KeyLockAssumption DEF SaveAndReload
  <2>8. CASE UNCHANGED vars
    BY <2>8 DEF vars
  <2>9. QED
    BY <2>1, <2>2, <2>3, <2>4, <2>5, <2>6, <2>7, <2>8 DEF Next
<1>3. QED
  BY <1>1, <1>2, PTL DEF Spec

-----------------------------------------------------------------------------
\* Outside unlock blocks an encrypted key is locked, whatever the caller does.
\* LockedOutsideBlocks is inductive relative to TypeOK: a step either clears what
\* it un-covers, or leaves the covering block open.
THEOREM AlwaysLockedOutsideBlocks == Spec => []LockedOutsideBlocks
<1>1. Init => LockedOutsideBlocks
  BY DEF Init, LockedOutsideBlocks
<1>2. TypeOK /\ LockedOutsideBlocks /\ [Next]_vars => LockedOutsideBlocks'
  <2> SUFFICES ASSUME TypeOK, LockedOutsideBlocks, [Next]_vars,
                      NEW k \in Key,
                      prot'[k], blob'[k] # NoBlob, plain'[k]
               PROVE  \E o \in Key : blocks'[o] > 0 /\ k \in Covered(o)'
    BY DEF LockedOutsideBlocks
  <2> USE DEF TypeOK
  <2>0. \A o \in Key : k \in Covered(o) => o = k \/ o = Primary
    BY DEF Covered
  <2>1. ASSUME NEW o \in Key, NEW p \in Passphrase, Protect(o, p)
        PROVE  \E c \in Key : blocks'[c] > 0 /\ k \in Covered(c)'
    <3>1. k \notin Covered(o) /\ plain[k]
      BY <2>1 DEF Protect, Cleared
    <3>2. prot[k] /\ blob[k] # NoBlob
      BY <2>1, <3>1 DEF Protect
    <3>3. UNCHANGED <<blocks, subkeys>>
      BY <2>1 DEF Protect
    <3>4. QED
      BY <3>1, <3>2, <3>3 DEF LockedOutsideBlocks, Covered, Attached
  <2>2. ASSUME NEW o \in Key, NEW p \in Passphrase, UnlockEnter(o, p)
        PROVE  \E c \in Key : blocks'[c] > 0 /\ k \in Covered(c)'
    <3>1. /\ UNCHANGED <<prot, blob, subkeys>>
          /\ \A c \in Key : Covered(c)' = Covered(c)
      BY <2>2 DEF UnlockEnter, Covered, Attached
    <3>2. blocks'[o] > 0 /\ \A c \in Key : blocks[c] > 0 => blocks'[c] > 0
      BY <2>2, KeyLockAssumption DEF UnlockEnter
    <3>3. CASE k \in Covered(o)
      BY <3>1, <3>2, <3>3
    <3>4. CASE k \notin Covered(o)
      <4>1. plain[k]
        BY <2>2, <3>4 DEF UnlockEnter
      <4>2. PICK c \in Key : blocks[c] > 0 /\ k \in Covered(c)
        BY <3>1, <4>1 DEF LockedOutsideBlocks
      <4>3. QED
        BY <3>1, <3>2, <4>2
    <3>5. QED
      BY <3>3, <3>4
  <2>3. ASSUME NEW o \in Key, NEW p \in Passphrase, UnlockFail(o, p)
        PROVE  \E c \in Key : blocks'[c] > 0 /\ k \in Covered(c)'
    BY <2>3 DEF UnlockFail, Cleared, LockedOutsideBlocks, Covered, Attached
  <2>4. ASSUME NEW o \in Key, ProtectRejected(o)
        PROVE  \E c \in Key : blocks'[c] > 0 /\ k \in Covered(c)'
    <3>1. k # o
      BY <2>4 DEF ProtectRejected
    <3>2. prot[k] /\ blob[k] # NoBlob /\ plain[k]
      BY <2>4, <3>1 DEF ProtectRejected
    <3>3. UNCHANGED <<blocks, subkeys>>
      BY <2>4 DEF ProtectRejected
    <3>4. QED
      BY <3>2, <3>3 DEF LockedOutsideBlocks, Covered, Attached
  <2>5. ASSUME NEW o \in Key, UnlockExit(o)
        PROVE  \E c \in Key : blocks'[c] > 0 /\ k \in Covered(c)'
    <3>1. k \notin Covered(o) /\ plain[k] /\ UNCHANGED <<prot, blob, subkeys>>
      BY <2>5 DEF UnlockExit, Cleared
    <3>2. PICK c \in Key : blocks[c] > 0 /\ k \in Covered(c)
      BY <3>1 DEF LockedOutsideBlocks
    <3>3. blocks'[c] = blocks[c]
      BY <2>5, <3>1, <3>2 DEF UnlockExit
    <3>4. QED
      BY <3>1, <3>2, <3>3 DEF Covered, Attached
  <2>6. ASSUME NEW s \in Sub, NEW usage \in Usage, NEW crosssign \in BOOLEAN,
               AddSubkey(s, usage, crosssign)
        PROVE  \E c \in Key : blocks'[c] > 0 /\ k \in Covered(c)'
    <3>1. UNCHANGED <<prot, plain, blob, blocks>>
      BY <2>6 DEF AddSubkey
    <3>2. PICK c \in Key : blocks[c] > 0 /\ k \in Covered(c)
      BY <3>1 DEF LockedOutsideBlocks
    <3>3. Covered(c) \subseteq Covered(c)'
      BY <2>6, AttachedFacts DEF Covered
    <3>4. QED
      BY <3>1, <3>2, <3>3
  <2>7. CASE SaveAndReload
    <3>1. k \notin Covered(Primary) /\ plain[k] /\ UNCHANGED <<prot, blob, subkeys>>
      BY <2>7 DEF SaveAndReload
    <3>2. PICK c \in Key : blocks[c] > 0 /\ k \in Covered(c)
      BY <3>1 DEF LockedOutsideBlocks
    <3>3. c = k /\ c \notin Covered(Primary)
      BY <2>0, <3>1, <3>2
    <3>4. blocks'[c] = blocks[c]
      BY <2>7, <3>3 DEF SaveAndReload
    <3>5. QED
      BY <3>1, <3>2, <3>4 DEF Covered, Attached
  <2>8. CASE UNCHANGED vars
    BY <2>8 DEF vars, LockedOutsideBlocks, Covered, Attached
  <2>9. QED
    BY <2>1, <2>2, <2>3, <2>4, <2>5, <2>6, <2>7, <2>8 DEF Next
<1>3. QED
  BY <1>1, <1>2, TypeCorrect, PTL DEF Spec

-----------------------------------------------------------------------------
\* The numbers an unlock block put in the clear are those the blob still holds.
BlobHoldsClear ==
  \A k \in Key : prot[k] /\ blob[k] # NoBlob /\ plain[k] => blob[k].holds

\* BlobHoldsClear is inductive: only unlock makes an encrypted key clear, and it
\* does so from the blob (pgp.py unlock, fields.py decrypt_keyblob).
LEMMA ClearIsInBlob == Spec => []BlobHoldsClear
<1>1. Init => BlobHoldsClear
  BY DEF Init, BlobHoldsClear
<1>2. TypeOK /\ BlobHoldsClear /\ [Next]_vars => BlobHoldsClear'
  <2> SUFFICES ASSUME TypeOK, BlobHoldsClear, [Next]_vars,
                      NEW k \in Key, prot'[k], blob'[k] # NoBlob, plain'[k]
               PROVE  blob'[k].holds
    BY DEF BlobHoldsClear
  <2> USE DEF TypeOK, BlobHoldsClear
  <2>1. ASSUME NEW o \in Key, NEW p \in Passphrase, Protect(o, p)
        PROVE  blob'[k].holds
    <3>1. k \notin Covered(o) /\ plain[k]
      BY <2>1 DEF Protect, Cleared
    <3>2. QED
      BY <2>1, <3>1 DEF Protect
  <2>2. ASSUME NEW o \in Key, NEW p \in Passphrase, UnlockEnter(o, p)
        PROVE  blob'[k].holds
    BY <2>2 DEF UnlockEnter
  <2>3. ASSUME NEW o \in Key, NEW p \in Passphrase, UnlockFail(o, p)
        PROVE  blob'[k].holds
    BY <2>3 DEF UnlockFail, Cleared
  <2>4. ASSUME NEW o \in Key, ProtectRejected(o)
        PROVE  blob'[k].holds
    BY <2>4 DEF ProtectRejected
  <2>5. ASSUME NEW o \in Key, UnlockExit(o)
        PROVE  blob'[k].holds
    BY <2>5 DEF UnlockExit, Cleared
  <2>6. ASSUME NEW s \in Sub, NEW usage \in Usage, NEW crosssign \in BOOLEAN,
               AddSubkey(s, usage, crosssign)
        PROVE  blob'[k].holds
    BY <2>6 DEF AddSubkey
  <2>7. CASE SaveAndReload
    BY <2>7 DEF SaveAndReload
  <2>8. CASE UNCHANGED vars
    BY <2>8 DEF vars
  <2>9. QED
    BY <2>1, <2>2, <2>3, <2>4, <2>5, <2>6, <2>7, <2>8 DEF Next
<1>3. QED
  BY <1>1, <1>2, TypeCorrect, PTL DEF Spec

\* Only an unprotected key, a half-protected key, or a locked key that is encrypted
\* again can lose its secret in a step.
THEOREM LossNeedsMisuse == Spec => LossOnlyByMisuse
<1> DEFINE Step == \A k \in Key :
                     Recoverable(k) /\ ~Recoverable(k)'
                       => ~prot[k] \/ blob[k] = NoBlob \/ (~plain[k] /\ blob'[k] # blob[k])
<1>1. TypeOK /\ BlobHoldsClear /\ [Next]_vars => [Step]_vars
  <2> SUFFICES ASSUME TypeOK, BlobHoldsClear, [Next]_vars,
                      NEW k \in Key, ~Recoverable(k)',
                      prot[k], blob[k] # NoBlob, blob[k].holds
               PROVE  ~plain[k] /\ blob'[k] # blob[k]
    BY DEF Recoverable, BlobHoldsClear
  <2> USE DEF TypeOK, Recoverable
  <2>1. ASSUME NEW o \in Key, NEW p \in Passphrase, Protect(o, p)
        PROVE  ~plain[k] /\ blob'[k] # blob[k]
    BY <2>1 DEF Protect
  <2>2. ASSUME NEW o \in Key, ProtectRejected(o)
        PROVE  ~plain[k] /\ blob'[k] # blob[k]
    <3>1. plain'[k] = plain[k]
      BY <2>2 DEF ProtectRejected
    <3>2. blob'[k] # blob[k]
      BY <3>1, <2>2 DEF ProtectRejected
    <3>3. QED
      BY <3>1, <3>2
  <2>3. ASSUME UNCHANGED blob
        PROVE  FALSE
    BY <2>3
  <2>4. CASE UNCHANGED vars
    BY <2>3, <2>4 DEF vars
  <2>5. QED
    BY <2>1, <2>2, <2>3, <2>4
       DEF Next, UnlockEnter, UnlockFail, UnlockExit, AddSubkey, SaveAndReload
<1>2. QED
  BY <1>1, TypeCorrect, ClearIsInBlob, PTL DEF Spec, LossOnlyByMisuse

-----------------------------------------------------------------------------
\* A block is only ever opened on a protected key, and protection is never taken off.
BlocksInv == \A k \in Key : blocks[k] > 0 => prot[k]

\* BlocksInv is inductive.
LEMMA BlocksOnProtected == Spec => []BlocksInv
<1>1. Init => BlocksInv
  BY DEF Init, BlocksInv
<1>2. TypeOK /\ BlocksInv /\ [Next]_vars => BlocksInv'
  <2> SUFFICES ASSUME TypeOK, BlocksInv, [Next]_vars, NEW k \in Key, blocks'[k] > 0
               PROVE  prot'[k]
    BY DEF BlocksInv
  <2> USE KeyLockAssumption DEF TypeOK, BlocksInv
  <2>1. ASSUME NEW o \in Key, NEW p \in Passphrase, Protect(o, p)
        PROVE  prot'[k]
    BY <2>1 DEF Protect
  <2>2. ASSUME NEW o \in Key, NEW p \in Passphrase, UnlockEnter(o, p)
        PROVE  prot'[k]
    BY <2>2 DEF UnlockEnter
  <2>3. ASSUME NEW o \in Key, NEW p \in Passphrase, UnlockFail(o, p)
        PROVE  prot'[k]
    BY <2>3 DEF UnlockFail
  <2>4. ASSUME NEW o \in Key, ProtectRejected(o)
        PROVE  prot'[k]
    BY <2>4 DEF ProtectRejected
  <2>5. ASSUME NEW o \in Key, UnlockExit(o)
        PROVE  prot'[k]
    BY <2>5 DEF UnlockExit
  <2>6. ASSUME NEW s \in Sub, NEW usage \in Usage, NEW crosssign \in BOOLEAN,
               AddSubkey(s, usage, crosssign)
        PROVE  prot'[k]
    BY <2>6 DEF AddSubkey
  <2>7. CASE SaveAndReload
    BY <2>7 DEF SaveAndReload
  <2>8. CASE UNCHANGED vars
    BY <2>8 DEF vars
  <2>9. QED
    BY <2>1, <2>2, <2>3, <2>4, <2>5, <2>6, <2>7, <2>8 DEF Next
<1>3. QED
  BY <1>1, <1>2, TypeCorrect, PTL DEF Spec

-----------------------------------------------------------------------------
\* A protected key's blob holds its secret and an unprotected key is in the clear.
KeptInv == \A k \in Key : IF prot[k] THEN blob[k].holds ELSE plain[k]

\* KeptInv is inductive for a careful caller, whose protect encrypts only keys whose
\* numbers are in the clear, and whose blocks and unlocks clear only encrypted keys.
LEMMA CarefulKeeps == Careful => (Spec => []KeptInv)
<1> SUFFICES ASSUME Careful PROVE Spec => []KeptInv
  OBVIOUS
<1>1. Init => KeptInv
  <2> SUFFICES ASSUME Init, NEW k \in Key
               PROVE  IF prot[k] THEN blob[k].holds ELSE plain[k]
    BY DEF KeptInv
  <2>1. CASE prot[k]
    <3>1. PICK pass \in [Key -> Passphrase] :
            blob = [c \in Key |-> IF prot[c] THEN [pass |-> pass[c], holds |-> TRUE]
                                              ELSE NoBlob]
      BY DEF Init
    <3>2. blob[k] = [pass |-> pass[k], holds |-> TRUE]
      BY <2>1, <3>1
    <3>3. QED
      BY <2>1, <3>2
  <2>2. CASE ~prot[k]
    BY <2>2 DEF Init
  <2>3. QED
    BY <2>1, <2>2
<1>2. TypeOK /\ BlocksInv /\ KeptInv /\ [Next]_vars => KeptInv'
  <2> SUFFICES ASSUME TypeOK, BlocksInv, KeptInv, [Next]_vars, NEW k \in Key
               PROVE  IF prot'[k] THEN blob'[k].holds ELSE plain'[k]
    BY DEF KeptInv
  <2> DEFINE Kept == IF prot'[k] THEN blob'[k].holds ELSE plain'[k]
  <2> USE DEF TypeOK, KeptInv
  <2>1. \A o \in Key : prot[o] /\ Sealed(o) => \A c \in Covered(o) : prot[c]
    BY DEF Sealed, Opens
  <2>2. ASSUME NEW o \in Key, NEW p \in Passphrase, MayProtect(o), Protect(o, p)
        PROVE  Kept
    <3>1. CASE k \in Covered(o)
      BY <2>2, <3>1 DEF Protect, MayProtect, IsUnlocked
    <3>2. CASE k \notin Covered(o)
      BY <2>2, <3>2 DEF Protect, Cleared
    <3>3. QED
      BY <3>1, <3>2
  <2>3. ASSUME NEW o \in Key, NEW p \in Passphrase, Sealed(o), UnlockEnter(o, p)
        PROVE  Kept
    BY <2>1, <2>3 DEF UnlockEnter
  <2>4. ASSUME NEW o \in Key, NEW p \in Passphrase, Sealed(o), UnlockFail(o, p)
        PROVE  Kept
    BY <2>1, <2>4 DEF UnlockFail, Cleared
  <2>5. ASSUME NEW o \in Key, Sealed(o), UnlockExit(o)
        PROVE  Kept
    BY <2>1, <2>5 DEF UnlockExit, Cleared, BlocksInv
  <2>6. ASSUME NEW s \in Sub, NEW usage \in Usage, NEW crosssign \in BOOLEAN,
               AddSubkey(s, usage, crosssign)
        PROVE  Kept
    BY <2>6 DEF AddSubkey
  <2>7. CASE SaveAndReload
    BY <2>7 DEF SaveAndReload
  <2>8. CASE UNCHANGED vars
    BY <2>8 DEF vars
  <2>9. QED
    BY <2>2, <2>3, <2>4, <2>5, <2>6, <2>7, <2>8 DEF Next
<1>3. QED
  BY <1>1, <1>2, TypeCorrect, BlocksOnProtected, PTL DEF Spec

\* No secret is ever lost by a careful caller.
THEOREM CarefulNeverLoses == Careful => (Spec => []NoSecretLost)
<1>1. KeptInv => NoSecretLost
  BY DEF KeptInv, NoSecretLost, Recoverable
<1>2. QED
  BY <1>1, CarefulKeeps, PTL

-----------------------------------------------------------------------------
\* A careful caller's protected key opens with one passphrase outside its blocks.
\* Adding a subkey is what could spoil it: LockedOutsideBlocks shows that the primary
\* key, unlocked as a careful caller has it, then has a block open.
THEOREM CarefulOnePassphrase == Careful => (Spec => []OnePassphrase)
<1> SUFFICES ASSUME Careful PROVE Spec => []OnePassphrase
  OBVIOUS
<1>1. Init => OnePassphrase
  <2> SUFFICES ASSUME Init, prot[Primary] PROVE \E p \in Passphrase : Opens(Primary, p)
    BY DEF OnePassphrase
  <2>1. Attached = {} /\ Primary \in Key
    BY DEF Init, Attached, ToSet, Key
  <2>2. PICK pass \in [Key -> Passphrase] :
          blob = [k \in Key |-> IF prot[k] THEN [pass |-> pass[k], holds |-> TRUE]
                                            ELSE NoBlob]
    BY DEF Init
  <2>3. Opens(Primary, pass[Primary]) /\ pass[Primary] \in Passphrase
    BY <2>1, <2>2 DEF Opens, Covered
  <2>4. QED
    BY <2>3
<1>2. TypeOK /\ LockedOutsideBlocks /\ OnePassphrase /\ [Next]_vars => OnePassphrase'
  <2> SUFFICES ASSUME TypeOK, LockedOutsideBlocks, OnePassphrase, [Next]_vars,
                      blocks'[Primary] = 0, prot'[Primary]
               PROVE  \E q \in Passphrase : Opens(Primary, q)'
    BY DEF OnePassphrase
  <2> DEFINE Opened == \E q \in Passphrase : Opens(Primary, q)'
  <2> USE DEF TypeOK
  <2>0. Primary \in Key
    BY DEF Key
  <2>a. ASSUME blocks[Primary] = 0, UNCHANGED <<prot, blob, subkeys>>
        PROVE  Opened
    BY <2>a DEF OnePassphrase, Opens, Covered, Attached
  <2>b. ASSUME Sealed(Primary), UNCHANGED <<prot, blob, subkeys>>
        PROVE  Opened
    BY <2>b DEF Sealed, Opens, Covered, Attached
  <2>1. ASSUME NEW o \in Key, NEW p \in Passphrase, MayProtect(o), Protect(o, p)
        PROVE  Opened
    <3>1. UNCHANGED <<subkeys, blocks>>
      BY <2>1 DEF Protect
    <3>2. Covered(Primary) \subseteq Key /\ Covered(Primary)' = Covered(Primary)
      BY <3>1, <2>0, AttachedFacts DEF Covered, Attached
    <3>3. CASE o = Primary
      BY <2>1, <3>2, <3>3 DEF Protect, Opens
    <3>4. CASE o # Primary
      <4>1. o \notin Covered(Primary) /\ Covered(o) = {o}
        BY <2>1, <3>4 DEF MayProtect, Covered
      <4>2. \A k \in Covered(Primary) : prot'[k] = prot[k] /\ blob'[k] = blob[k]
        BY <2>1, <3>2, <4>1 DEF Protect
      <4>3. PICK q \in Passphrase : Opens(Primary, q)
        BY <2>1, <3>1, <4>2 DEF OnePassphrase, Covered
      <4>4. QED
        BY <3>2, <4>2, <4>3 DEF Opens
    <3>5. QED
      BY <3>3, <3>4
  <2>2. ASSUME NEW o \in Key, NEW p \in Passphrase, UnlockEnter(o, p)
        PROVE  Opened
    <3>1. blocks[Primary] = 0
      BY <2>0, <2>2, KeyLockAssumption DEF UnlockEnter
    <3>2. QED
      BY <2>2, <2>a, <3>1 DEF UnlockEnter
  <2>3. ASSUME NEW o \in Key, NEW p \in Passphrase, UnlockFail(o, p)
        PROVE  Opened
    BY <2>3, <2>a DEF UnlockFail
  <2>4. ASSUME NEW o \in Key, Sealed(o), UnlockExit(o)
        PROVE  Opened
    <3>1. CASE o = Primary
      BY <2>4, <2>b, <3>1 DEF UnlockExit
    <3>2. CASE o # Primary
      <4>1. blocks[Primary] = 0
        BY <2>0, <2>4, <3>2 DEF UnlockExit
      <4>2. QED
        BY <2>4, <2>a, <4>1 DEF UnlockExit
    <3>3. QED
      BY <3>1, <3>2
  <2>5. ASSUME NEW s \in Sub, NEW usage \in Usage, NEW crosssign \in BOOLEAN,
               MayAdd(s, usage, crosssign), AddSubkey(s, usage, crosssign)
        PROVE  Opened
    <3>1. UNCHANGED <<prot, plain, blob, blocks>>
      BY <2>5 DEF AddSubkey
    <3>2. PICK q \in Passphrase : Opens(Primary, q)
      BY <3>1 DEF OnePassphrase
    <3>3. blob[Primary] # NoBlob
      BY <3>2, KeyLockAssumption DEF Opens, Covered, NoBlob
    <3>4. plain[Primary]
      BY <2>5, <3>1 DEF MayAdd, IsUnlocked
    <3>5. PICK o \in Key : blocks[o] > 0 /\ Primary \in Covered(o)
      BY <2>0, <3>1, <3>3, <3>4 DEF LockedOutsideBlocks
    <3>6. o = Primary
      BY <3>5 DEF Covered
    <3>7. QED
      BY <3>1, <3>5, <3>6
  <2>6. CASE Sealed(Primary) /\ SaveAndReload
    BY <2>6, <2>b DEF SaveAndReload
  <2>7. CASE UNCHANGED vars
    BY <2>7, <2>a DEF vars
  <2>8. QED
    BY <2>1, <2>2, <2>3, <2>4, <2>5, <2>6, <2>7 DEF Next
<1>3. QED
  BY <1>1, <1>2, TypeCorrect, AlwaysLockedOutsideBlocks, PTL DEF Spec

-----------------------------------------------------------------------------
\* A careful caller leaves no subkey without a binding.
BoundInv == \A s \in Attached : flags[s] # "unbound"

\* BoundInv is inductive for a careful caller: the checks and signatures of bind all
\* succeed when the keys are unlocked and, by KeptInv, hold their numbers.
LEMMA CarefulBinds == Careful => (Spec => []BoundInv)
<1> SUFFICES ASSUME Careful PROVE Spec => []BoundInv
  OBVIOUS
<1>1. Init => BoundInv
  BY DEF Init, BoundInv, Attached, ToSet
<1>2. TypeOK /\ KeptInv /\ BoundInv /\ [Next]_vars => BoundInv'
  <2> SUFFICES ASSUME TypeOK, KeptInv, BoundInv, [Next]_vars
               PROVE  BoundInv'
    OBVIOUS
  <2>1. ASSUME NEW s \in Sub, NEW usage \in Usage, NEW crosssign \in BOOLEAN,
               MayAdd(s, usage, crosssign), AddSubkey(s, usage, crosssign)
        PROVE  BoundInv'
    <3>1. /\ subkeys \in Seq(Sub) /\ flags \in [Sub -> Flags] /\ Attached \subseteq Sub
          /\ Attached' = Attached \cup {s}
      BY <2>1, AttachedFacts DEF TypeOK
    <3>2. IsUnlocked(Primary) /\ IsUnlocked(s) /\ plain[s] = TRUE
      BY <2>1 DEF MayAdd, IsUnlocked, KeptInv, TypeOK, Key
    <3>3. BindOutcomes(s, usage, crosssign) = {TRUE}
      <4>1. CASE s \in CanSign /\ crosssign
        BY <3>2, <4>1 DEF BindOutcomes
      <4>2. CASE ~(s \in CanSign /\ crosssign)
        <5>1. usage = "other"
          BY <2>1, <4>2 DEF MayAdd
        <5>2. QED
          BY <3>2, <4>2, <5>1 DEF BindOutcomes
      <4>3. QED
        BY <4>1, <4>2
    <3>4. flags' = [flags EXCEPT ![s] = IF usage = "sign" THEN "sign" ELSE "other"]
      BY <2>1, <3>3 DEF AddSubkey
    <3>5. QED
      BY <3>1, <3>4 DEF BoundInv
  <2>2. ASSUME UNCHANGED <<subkeys, flags>>
        PROVE  BoundInv'
    BY <2>2 DEF BoundInv, Attached
  <2>3. QED
    BY <2>1, <2>2
       DEF Next, vars, Protect, UnlockEnter, UnlockFail, ProtectRejected, UnlockExit, SaveAndReload
<1>3. QED
  BY <1>1, <1>2, TypeCorrect, CarefulKeeps, PTL DEF Spec

\* What a careful caller certifies and decrypts with holds its secret, the search for the
\* signing subkey meets none whose flags cannot be read, and what it finds is without its
\* secret only if it is locked itself.
THEOREM CarefulUseFindsSecret == Careful => (Spec => []UseFindsSecret)
<1>1. TypeOK /\ KeptInv /\ BoundInv => UseFindsSecret
  <2> SUFFICES ASSUME TypeOK, KeptInv, BoundInv
               PROVE  UseFindsSecret
    OBVIOUS
  <2>1. \A k \in Key : IsUnlocked(k) => Used(k) = "done"
    BY DEF KeptInv, IsUnlocked, Used
  <2>2. Primary \in Key /\ Attached \subseteq Key
    BY AttachedFacts DEF TypeOK, Key
  <2>3. CertifyResult # "zero_material" /\ CertifyResult # "RuntimeError"
    BY <2>1, <2>2 DEF CertifyResult
  <2>4. \A s \in Attached : DecryptResult(s) # "zero_material"
    BY <2>1, <2>2 DEF DecryptResult
  <2>5. ASSUME Stops # {}
        PROVE  SigningSubkey \in Attached /\ flags[SigningSubkey] # "unbound"
    <3> DEFINE first == CHOOSE i \in Stops : \A j \in Stops : i <= j
    <3>1. Stops \in SUBSET Nat
      BY DEF Stops, TypeOK
    <3>2. \E i \in Stops : \A j \in Stops : i <= j
      BY <2>5, <3>1, LeastNatural
    <3>3. first \in Stops /\ SigningSubkey = subkeys[first]
      BY <3>2 DEF SigningSubkey
    <3> HIDE DEF first
    <3>4. SigningSubkey \in Attached
      BY <3>3 DEF Stops, Attached, ToSet
    <3>5. QED
      BY <3>4 DEF BoundInv
  <2>6. SignResult # "RuntimeError"
    <3>1. Used(SigningSubkey) # "RuntimeError"
      BY DEF Used
    <3>2. QED
      BY <2>3, <2>5, <3>1 DEF SignResult
  <2>7. ASSUME SignResult = "zero_material"
        PROVE  ~PrimarySigns /\ IsUnlocked(Primary) /\ ~IsUnlocked(SigningSubkey)
    <3>1. ~PrimarySigns /\ Stops # {} /\ IsUnlocked(Primary)
      BY <2>3, <2>7 DEF SignResult
    <3>2. SigningSubkey \in Key
      BY <2>2, <2>5, <3>1
    <3>3. Used(SigningSubkey) # "done"
      BY <2>7, <3>1 DEF SignResult
    <3>4. QED
      BY <2>1, <3>1, <3>2, <3>3
  <2>8. QED
    BY <2>3, <2>4, <2>6, <2>7 DEF UseFindsSecret
<1>2. QED
  BY <1>1, TypeCorrect, CarefulKeeps, CarefulBinds, PTL

-----------------------------------------------------------------------------
(***************************************************************************)
(* The refinement.                                                         *)
(***************************************************************************)
Open == {k \in Key : plain[k]}

\* The parts of a step that KeySafe sees: what the step makes of each, given how the
\* variables change.
LEMMA SafeParts ==
  ASSUME TypeOK
  PROVE  /\ \A k \in Key : k \in Open <=> plain[k]
         /\ \A k \in Key : Lock[k] = NoPass \/ Lock[k] \in Passphrase
         /\ \A k \in Key : prot[k] => Lock[k] = blob[k].pass
         /\ \A k \in Key : ~prot[k] => Lock[k] = NoPass
         /\ \A o \in Key : Covered(o) \subseteq Key /\ o \in Covered(o)
         /\ \A o \in Key : Safe!Unit(o) = Covered(o)
         /\ Safe!Key = Key
<1>1. Attached \subseteq Sub
  BY DEF TypeOK, Attached, ToSet
<1>2. \A o \in Key : Covered(o) \subseteq Key /\ o \in Covered(o)
  BY <1>1 DEF Covered, Key
<1>3. \A k \in Key : blob[k].pass \in Passphrase \cup {NoPass}
  BY DEF TypeOK, Blob
<1>4. QED
  BY <1>2, <1>3 DEF Open, Lock, Safe!Unit, Safe!Key, Covered, Key

\* A key that opens has its lock on each key it covers.
LEMMA OpensIsLock ==
  ASSUME TypeOK, NEW o \in Key, NEW p \in Passphrase, Opens(o, p)
  PROVE  \A k \in Safe!Unit(o) : Lock[k] = p
BY SafeParts DEF Opens

\* At first there are no subkeys, and what has no lock is open.
LEMMA SafeInit == Init => Safe!Init
<1> SUFFICES ASSUME Init
             PROVE  Safe!Init
  OBVIOUS
<1>1. PICK pass \in [Key -> Passphrase] :
        blob = [k \in Key |-> IF prot[k] THEN [pass |-> pass[k], holds |-> TRUE] ELSE NoBlob]
  BY DEF Init
<1>2. plain = [k \in Key |-> ~prot[k]] /\ Attached = {}
  BY DEF Init, Attached, ToSet
<1>3. \A k \in Key : prot[k] => Lock[k] = pass[k] /\ Lock[k] # NoPass /\ Lock[k] \in Passphrase
  BY <1>1, KeyLockAssumption DEF Lock
<1>4. \A k \in Key : ~prot[k] => Lock[k] = NoPass
  BY DEF Lock
<1>5. Lock \in [Key -> Passphrase \cup {NoPass}]
  BY <1>3, <1>4 DEF Lock
<1>6. {k \in Key : plain[k]} = {k \in Key : Lock[k] = NoPass}
  BY <1>2, <1>3, <1>4
<1>7. QED
  BY <1>2, <1>5, <1>6 DEF Safe!Init, Safe!Key, Key

\* A careful caller's protected key has a passphrase that opens it.
PassInv == \A k \in Key : prot[k] => blob[k].pass \in Passphrase

\* Only a refused cipher leaves a protected key that no passphrase opens, and a careful
\* caller does not ask for one (protect).
LEMMA CarefulHasPass == Careful => (Spec => []PassInv)
<1> SUFFICES ASSUME Careful PROVE Spec => []PassInv
  OBVIOUS
<1>1. Init => PassInv
  BY DEF Init, PassInv
<1>2. PassInv /\ [Next]_vars => PassInv'
  <2> SUFFICES ASSUME PassInv, [Next]_vars
               PROVE  PassInv'
    OBVIOUS
  <2>1. ASSUME NEW o \in Key, NEW p \in Passphrase, Protect(o, p)
        PROVE  PassInv'
    BY <2>1 DEF PassInv, Protect
  <2>2. ASSUME UNCHANGED <<prot, blob>>
        PROVE  PassInv'
    BY <2>2 DEF PassInv
  <2>3. QED
    BY <2>1, <2>2 DEF Next, vars, UnlockEnter, UnlockFail, UnlockExit, AddSubkey, SaveAndReload
<1>3. QED
  BY <1>1, <1>2, PTL DEF Spec

\* Each call of a careful caller is the operation of that name on the safe.
LEMMA SafeStep ==
  ASSUME Careful, TypeOK, TypeOK', BlocksInv, KeptInv, PassInv, [Next]_vars
  PROVE  [Safe!Next]_(Safe!vars)
<1>1. \A k \in Key : prot[k] \/ plain[k]
  BY DEF KeptInv, TypeOK
<1>2. \A o \in Key : Covered(o) \subseteq Key
  BY SafeParts
<1>3. ASSUME NEW o \in Key, NEW p \in Passphrase, MayProtect(o), Protect(o, p)
      PROVE  Safe!Protect(o, p)
  <2>1. Safe!Unit(o) \subseteq {k \in Key : plain[k]}
    BY <1>1, <1>2, <1>3, SafeParts DEF MayProtect, IsUnlocked
  <2>2. Lock' = [k \in Key |-> IF k \in Covered(o) THEN p ELSE Lock[k]]
    BY <1>2, <1>3 DEF Protect, Lock, TypeOK
  <2>3. {k \in Key : plain[k]}' = {k \in Key : plain[k]} \ Covered(o)
    BY <1>3 DEF Protect, Cleared
  <2>4. Attached' = Attached
    BY <1>3 DEF Protect, Attached
  <2>5. QED
    BY <2>1, <2>2, <2>3, <2>4, SafeParts DEF Safe!Protect
<1>4. ASSUME NEW o \in Key, NEW p \in Passphrase, Sealed(o), UnlockEnter(o, p)
      PROVE  Safe!Unlock(o, p)
  <2>1. \A k \in Safe!Unit(o) : Lock[k] = p
    BY <1>4, OpensIsLock DEF UnlockEnter
  <2>2. \A k \in Covered(o) : blob[k].holds
    BY <1>2, <1>4 DEF UnlockEnter, Opens, KeptInv
  <2>3. {k \in Key : plain[k]}' = {k \in Key : plain[k]} \cup Covered(o)
    BY <1>2, <1>4, <2>2 DEF UnlockEnter
  <2>4. Attached' = Attached /\ Lock' = Lock
    BY <1>4 DEF UnlockEnter, Attached, Lock
  <2>5. QED
    BY <2>1, <2>3, <2>4, SafeParts DEF Safe!Unlock
<1>5. ASSUME NEW o \in Key, prot[o], Sealed(o), plain' = Cleared(o),
             UNCHANGED <<prot, blob, subkeys>>
      PROVE  Safe!Relock(o)
  <2>1. PICK p \in Passphrase : Opens(o, p)
    BY <1>5 DEF Sealed
  <2>2. \A k \in Safe!Unit(o) : Lock[k] = p
    BY <2>1, OpensIsLock
  <2>3. {k \in Key : plain[k]}' = {k \in Key : plain[k]} \ Covered(o)
    BY <1>5 DEF Cleared
  <2>4. Attached' = Attached /\ Lock' = Lock
    BY <1>5 DEF Attached, Lock
  <2>5. QED
    BY <2>2, <2>3, <2>4, SafeParts DEF Safe!Relock
<1>6. ASSUME NEW s \in Sub, NEW usage \in Usage, NEW crosssign \in BOOLEAN,
             MayAdd(s, usage, crosssign), AddSubkey(s, usage, crosssign)
      PROVE  Safe!AddSubkey(s)
  <2>1. Primary \in Key /\ s \in Key
    BY DEF Key
  <2>2. {Primary, s} \subseteq {k \in Key : plain[k]}
    BY <1>1, <1>6, <2>1 DEF MayAdd, IsUnlocked
  <2>3. Attached' = Attached \cup {s}
    BY <1>6, AttachedFacts DEF TypeOK
  <2>4. Lock' = Lock /\ {k \in Key : plain[k]}' = {k \in Key : plain[k]}
    BY <1>6 DEF AddSubkey, Lock
  <2>5. QED
    BY <2>2, <2>3, <2>4 DEF Safe!AddSubkey
<1>7. ASSUME SaveAndReload
      PROVE  Safe!SaveAndReload
  <2>1. Primary \in Key
    BY DEF Key
  <2>2. \A k \in Key : prot[k] <=> Lock[k] # NoPass
    BY SafeParts, KeyLockAssumption DEF PassInv
  <2>3. Attached' = Attached /\ Lock' = Lock
    BY <1>7 DEF SaveAndReload, Attached, Lock
  <2>4. Safe!Unit(Primary) = Covered(Primary)
    BY <2>1, SafeParts
  <2>5. {k \in Key : plain[k]}'
          = {k \in Key : plain[k]} \ {k \in Covered(Primary) : Lock[k] # NoPass}
    BY <1>7, <2>2 DEF SaveAndReload
  <2>6. QED
    BY <2>3, <2>4, <2>5 DEF Safe!SaveAndReload
<1>8. CASE UNCHANGED vars
  BY <1>8 DEF vars, Safe!vars, Attached, Lock
<1>9. ASSUME NEW o \in Key, NEW p \in Passphrase, Sealed(o), UnlockFail(o, p)
      PROVE  Safe!Relock(o)
  BY <1>5, <1>9 DEF UnlockFail
<1>10. ASSUME NEW o \in Key, Sealed(o), UnlockExit(o)
       PROVE  Safe!Relock(o)
  BY <1>5, <1>10 DEF UnlockExit, BlocksInv
<1>11. Safe!Key = Key
  BY SafeParts
<1>12. QED
  BY <1>3, <1>4, <1>6, <1>7, <1>8, <1>9, <1>10, <1>11 DEF Next, Safe!Next

\* A careful caller finds a safe: for every set of subkeys, passphrases and open blocks
\* KeyLock implements KeySafe (PGPKey.protect, unlock, add_subkey, parse).
THEOREM CarefulImplementsSafe == Careful => (Spec => ImplementsSafe)
<1> SUFFICES ASSUME Careful PROVE Spec => ImplementsSafe
  OBVIOUS
<1>1. QED
  BY SafeInit, SafeStep, TypeCorrect, BlocksOnProtected, CarefulKeeps,
     CarefulHasPass, PTL DEF Spec, ImplementsSafe, Safe!Spec

=============================================================================
