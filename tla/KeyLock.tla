------------------------------ MODULE KeyLock ------------------------------
(***************************************************************************)
(* The life of the secret half of one transferable key of PGPy: a private  *)
(* primary key and the private keys that are, or may become, its subkeys.  *)
(* Passphrase protection (PGPKey.protect), unlock blocks (PGPKey.unlock),  *)
(* add_subkey/bind, saving and re-reading the key, and which key a         *)
(* decorated operation (decorators.KeyAction) ends up using.               *)
(*                                                                         *)
(* Secret numbers are abstracted to "non-zero or zero" and the encrypted   *)
(* blob to the passphrase that opens it and whether non-zero numbers were  *)
(* encrypted; the primary key carries a self-signed User ID throughout.    *)
(***************************************************************************)
EXTENDS Naturals, Sequences, SequencesExt

CONSTANTS
  Primary,        \* the primary key
  Sub,            \* private keys that can be added as its subkeys
  CanSign,        \* those whose algorithm can sign (key_algorithm.can_sign)
  PrimarySigns,   \* does the User ID's self-signature give Primary the Sign flag
  Passphrase,
  NoPass,         \* no passphrase opens this blob
  MaxBlocks,      \* bound on the unlock blocks open on one key object
  Careful         \* does the caller keep the obligations of Discipline below

Key == {Primary} \cup Sub

ASSUME KeyLockAssumption ==
  /\ Primary \notin Sub
  /\ CanSign \subseteq Sub
  /\ PrimarySigns \in BOOLEAN
  /\ NoPass \notin Passphrase
  /\ MaxBlocks \in Nat
  /\ Careful \in BOOLEAN

VARIABLES
  prot,      \* prot[k]: keymaterial.s2k.usage is 254 or 255
  plain,     \* plain[k]: the private fields of k hold their numbers, not MPI(0)
  blob,      \* blob[k]: what keymaterial.encbytes decrypts to
  subkeys,   \* Primary._children, in insertion order
  flags,     \* flags[s]: key flags of the binding signature of s
  blocks     \* blocks[k]: unlock blocks open on the object k that will clean up

vars == <<prot, plain, blob, subkeys, flags, blocks>>

Blob == [pass : Passphrase \cup {NoPass}, holds : BOOLEAN]
NoBlob == [pass |-> NoPass, holds |-> FALSE]

Usage == {"sign", "other", "unset"}          \* the usage given to add_subkey
Flags == {"sign", "other", "unbound"}        \* "unbound": no valid binding

\* A key as generated, imported or parsed: unprotected, or protected and locked.
Init ==
  /\ prot \in [Key -> BOOLEAN]
  /\ plain = [k \in Key |-> ~prot[k]]
  /\ \E pass \in [Key -> Passphrase] :
       blob = [k \in Key |-> IF prot[k] THEN [pass |-> pass[k], holds |-> TRUE]
                                        ELSE NoBlob]
  /\ subkeys = <<>>
  /\ flags = [s \in Sub |-> "unbound"]
  /\ blocks = [k \in Key |-> 0]

-----------------------------------------------------------------------------
Attached == ToSet(subkeys)

\* itertools.chain([self], self.subkeys.values())
Covered(o) == {o} \cup (IF o = Primary THEN Attached ELSE {})

\* Mutant of IsUnlocked: the zeroed private fields are not looked at.
IsUnlockedAlways(k) == k \in Key

IsUnlocked(k) == prot[k] => plain[k]

\* Mutant of Cleared: only the object's own key material is cleared.
ClearedSelfOnly(o) == [plain EXCEPT ![o] = FALSE]

\* keymaterial.clear() on every key the object covers
Cleared(o) == [k \in Key |-> plain[k] /\ k \notin Covered(o)]

\* Mutant of Protect: clear() before the private fields are encrypted.
ProtectClearsFirst(o, p) ==
  /\ IsUnlocked(o)
  /\ prot' = [k \in Key |-> prot[k] \/ k \in Covered(o)]
  /\ blob' = [k \in Key |-> IF k \in Covered(o) THEN [pass |-> p, holds |-> FALSE]
                                                ELSE blob[k]]
  /\ plain' = Cleared(o)
  /\ UNCHANGED <<subkeys, flags, blocks>>

\* Mutant of Protect: the loop forgets the subkeys.
ProtectSelfOnly(o, p) ==
  /\ IsUnlocked(o)
  /\ prot' = [prot EXCEPT ![o] = TRUE]
  /\ blob' = [blob EXCEPT ![o] = [pass |-> p, holds |-> plain[o]]]
  /\ plain' = [plain EXCEPT ![o] = FALSE]
  /\ UNCHANGED <<subkeys, flags, blocks>>

\* protect: each covered key encrypts what its private fields hold now.
Protect(o, p) ==
  /\ IsUnlocked(o)
  /\ prot' = [k \in Key |-> prot[k] \/ k \in Covered(o)]
  /\ blob' = [k \in Key |-> IF k \in Covered(o) THEN [pass |-> p, holds |-> plain[k]]
                                                ELSE blob[k]]
  /\ plain' = Cleared(o)
  /\ UNCHANGED <<subkeys, flags, blocks>>

\* protect with a cipher that _encrypt refuses: the s2k of the first key has
\* been rewritten by then, its old encbytes (if any) no longer decrypt.
ProtectRejected(o) ==
  /\ IsUnlocked(o)
  /\ prot' = [prot EXCEPT ![o] = TRUE]
  /\ blob' = [blob EXCEPT ![o] = NoBlob]
  /\ UNCHANGED <<plain, subkeys, flags, blocks>>

\* unprotect succeeds on every covered key (an unprotected one makes it raise).
Opens(o, p) == \A k \in Covered(o) : prot[k] /\ blob[k].pass = p

\* unlock, up to the yield.  On an unprotected key it yields and does nothing.
UnlockEnter(o, p) ==
  /\ prot[o]
  /\ Opens(o, p)
  /\ blocks[o] < MaxBlocks
  /\ plain' = [k \in Key |-> IF k \in Covered(o) THEN blob[k].holds ELSE plain[k]]
  /\ blocks' = [blocks EXCEPT ![o] = @ + 1]
  /\ UNCHANGED <<prot, blob, subkeys, flags>>

\* unlock raising from the loop: the finally clause runs all the same.
UnlockFail(o, p) ==
  /\ prot[o]
  /\ ~Opens(o, p)
  /\ plain' = Cleared(o)
  /\ UNCHANGED <<prot, blob, subkeys, flags, blocks>>

\* Mutant of UnlockExit: the cleanup runs for a block that was never entered.
UnlockExitTwice(o) ==
  /\ plain' = Cleared(o)
  /\ blocks' = [blocks EXCEPT ![o] = @ - 1]
  /\ UNCHANGED <<prot, blob, subkeys, flags>>

\* Leaving an unlock block, normally or by an exception.
UnlockExit(o) ==
  /\ blocks[o] > 0
  /\ plain' = Cleared(o)
  /\ blocks' = [blocks EXCEPT ![o] = @ - 1]
  /\ UNCHANGED <<prot, blob, subkeys, flags>>

\* bind(key): the outcomes of the checks and of the two signatures made.  An
\* unprotected subkey whose numbers were zeroed may or may not raise when it
\* cross-signs (an EdDSA seed of zeros does not).
BindOutcomes(s, usage, crosssign) ==
  IF ~IsUnlocked(Primary) THEN {FALSE}
  ELSE IF s \in CanSign /\ crosssign
       THEN IF ~IsUnlocked(s) THEN {FALSE} ELSE IF plain[s] THEN {TRUE} ELSE BOOLEAN
       ELSE {usage = "other"}

\* add_subkey: the child is inserted before bind is tried, and stays if it fails.
\* A subkey whose binding failed may be added again.
AddSubkey(s, usage, crosssign) ==
  /\ flags[s] = "unbound"
  /\ subkeys' = IF s \in Attached THEN subkeys ELSE Append(subkeys, s)
  /\ \E bound \in BindOutcomes(s, usage, crosssign) :
       flags' = [flags EXCEPT ![s] = IF ~bound THEN "unbound"
                                     ELSE IF usage = "sign" THEN "sign" ELSE "other"]
  /\ UNCHANGED <<prot, plain, blob, blocks>>

\* bytes(key) written out and parsed back in place of the key object: a protected
\* key material is written as encbytes, an unprotected one as its numbers.
\* Blocks open on the old objects no longer matter.
SaveAndReload ==
  /\ plain' = [k \in Key |-> plain[k] /\ ~(prot[k] /\ k \in Covered(Primary))]
  /\ blocks' = [k \in Key |-> IF k \in Covered(Primary) THEN 0 ELSE blocks[k]]
  /\ UNCHANGED <<prot, blob, subkeys, flags>>

-----------------------------------------------------------------------------
(***************************************************************************)
(* What a caller has to do for PGPy to keep its keys.  No line of the code  *)
(* enforces these: they are assumptions on the caller, switched by Careful. *)
(***************************************************************************)
\* The key and its subkeys are all protected under one passphrase (or none is).
Sealed(o) == prot[o] => \E p \in Passphrase : Opens(o, p)

MayProtect(o) == /\ o \notin Attached
                 /\ \A k \in Covered(o) : IsUnlocked(k)
MayAdd(s, usage, crosssign) ==
  /\ IsUnlocked(Primary) /\ IsUnlocked(s)
  /\ usage = "other" \/ (s \in CanSign /\ crosssign)

Next ==
  \/ \E o \in Key, p \in Passphrase :
       \/ (Careful => MayProtect(o)) /\ Protect(o, p)
       \/ (Careful => Sealed(o)) /\ UnlockEnter(o, p)
       \/ (Careful => Sealed(o)) /\ UnlockFail(o, p)
  \/ \E o \in Key : ~Careful /\ ProtectRejected(o)
  \/ \E o \in Key : (Careful => Sealed(o)) /\ UnlockExit(o)
  \/ \E s \in Sub, usage \in Usage, crosssign \in BOOLEAN :
       (Careful => MayAdd(s, usage, crosssign)) /\ AddSubkey(s, usage, crosssign)
  \/ (Careful => Sealed(Primary)) /\ SaveAndReload

Spec == Init /\ [][Next]_vars

-----------------------------------------------------------------------------
(***************************************************************************)
(* Which key an operation called on the primary key uses, and what it      *)
(* finds there (KeyAction.usage, KeyAction.check_attributes).              *)
(***************************************************************************)
\* What using key k yields once every check has passed.
Used(k) == IF plain[k] THEN "done" ELSE "zero_material"

\* certify, revoke, bind: the primary key always has the Certify flag.
CertifyResult == IF IsUnlocked(Primary) THEN Used(Primary) ELSE "PGPError"

\* decrypt of a message encrypted to subkey s goes through s's own decrypt.
DecryptResult(s) ==
  IF IsUnlocked(Primary) /\ IsUnlocked(s) THEN Used(s) ELSE "PGPError"

\* The search for a signing subkey stops at the first one that has the Sign flag, or
\* whose flags cannot be read because it is unbound.
Stops == {i \in DOMAIN subkeys : flags[subkeys[i]] # "other"}
SigningSubkey == subkeys[CHOOSE i \in Stops : \A j \in Stops : i <= j]

\* sign: the first key with the Sign flag; only the primary's lock is checked.
SignResult ==
  IF PrimarySigns THEN CertifyResult
  ELSE IF Stops = {} THEN "PGPError"
  ELSE IF flags[SigningSubkey] = "unbound" THEN "RuntimeError"
  ELSE IF IsUnlocked(Primary) THEN Used(SigningSubkey) ELSE "PGPError"

-----------------------------------------------------------------------------
TypeOK ==
  /\ prot \in [Key -> BOOLEAN]
  /\ plain \in [Key -> BOOLEAN]
  /\ blob \in [Key -> Blob]
  /\ subkeys \in Seq(Sub)
  /\ flags \in [Sub -> Flags]
  /\ blocks \in [Key -> 0..MaxBlocks]

\* The secret of k can still be had: from memory or from the encrypted blob.
Recoverable(k) == plain[k] \/ blob[k].holds

\* Whatever the caller does, an encrypted key is in the clear only while an unlock
\* block that covers it is open: no sequence of nested blocks, re-protection,
\* failed unlocks and added subkeys leaves secrets behind (pgp.py unlock).
LockedOutsideBlocks ==
  \A k \in Key :
    prot[k] /\ blob[k] # NoBlob /\ plain[k]
      => \E o \in Key : blocks[o] > 0 /\ k \in Covered(o)

\* Whatever the caller does, a step loses the secret of a key only if the key was
\* unprotected, was left half-protected by a refused cipher, or is encrypted
\* again while locked (protect, unlock and its cleanup, saving).
LossOnlyByMisuse ==
  [][\A k \in Key :
       Recoverable(k) /\ ~Recoverable(k)'
         => ~prot[k] \/ blob[k] = NoBlob \/ (~plain[k] /\ blob'[k] # blob[k])]_vars

\* A careful caller never loses a secret, through any sequence of protection,
\* passphrase changes, unlock blocks, added subkeys, saves and reloads.
NoSecretLost == \A k \in Key : Recoverable(k)

\* A careful caller's protected key opens, with all its subkeys, by one passphrase
\* whenever no unlock block is open on it (what unlock's loop needs to succeed).
OnePassphrase ==
  blocks[Primary] = 0 /\ prot[Primary] => \E p \in Passphrase : Opens(Primary, p)

\* A careful caller's certifying and decrypting never compute with zeroed numbers, and
\* the search for a signing subkey meets no unbound one.  Signing computes with zeros in
\* one case only, where sign's documentation promises PGPError: the subkey that KeyAction
\* has chosen is itself locked, while the primary key, whose lock it looks at, is not.
UseFindsSecret ==
  /\ CertifyResult # "zero_material"
  /\ \A s \in Attached : DecryptResult(s) # "zero_material"
  /\ SignResult # "RuntimeError"
  /\ SignResult = "zero_material"
       => ~PrimarySigns /\ IsUnlocked(Primary) /\ ~IsUnlocked(SigningSubkey)

-----------------------------------------------------------------------------
\* The lock of each key, as KeySafe has it.
Lock == [k \in Key |-> IF prot[k] THEN blob[k].pass ELSE NoPass]

Safe == INSTANCE KeySafe WITH
          members <- Attached,
          lock <- Lock,
          open <- {k \in Key : plain[k]}

\* To a careful caller a key is a safe: nested and overlapping blocks, failed unlocks,
\* changes of passphrase, subkeys added inside blocks and reloads open and close it and
\* never show that secrets are zeroed and decrypted again, one key object after the
\* other (protect, unlock and its cleanup, add_subkey, parsing).
ImplementsSafe == Safe!Spec

-----------------------------------------------------------------------------
(***************************************************************************)
(* A statement of the documentation that the code does not keep.           *)
(***************************************************************************)
\* unlock's comment: cleaning up deletes "the previously decrypted secret key
\* material".  Key material that was never encrypted is not to be deleted by it.
CleanupDeletesOnlyDecrypted ==
  [][\A k \in Key : plain[k] /\ ~prot[k] => plain'[k] \/ prot'[k]]_vars
=============================================================================
