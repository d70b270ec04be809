------------------------------ MODULE KeySafe ------------------------------
(***************************************************************************)
(* What the secret half of a key promises to a careful caller: each key    *)
(* object has a lock, which one passphrase opens or which is missing, and  *)
(* is open or closed; its secret is there whenever it is open and comes    *)
(* back whenever it is opened.  A primary key and its subkeys are locked,  *)
(* opened and closed together.  There is no encryption here that could     *)
(* take in zeros, and no count of blocks.  KeyLock implements this.        *)
(***************************************************************************)
CONSTANTS
  Primary,
  Sub,          \* keys that can become its subkeys
  Passphrase,
  NoPass        \* the lock is missing

VARIABLES
  members,   \* the subkeys of Primary
  lock,      \* lock[k]: the passphrase of k, or NoPass
  open       \* the keys whose secret is in the clear

vars == <<members, lock, open>>

Key == {Primary} \cup Sub

Unit(o) == {o} \cup (IF o = Primary THEN members ELSE {})

Init ==
  /\ members = {}
  /\ lock \in [Key -> Passphrase \cup {NoPass}]
  /\ open = {k \in Key : lock[k] = NoPass}

\* What gets a new lock is open, all of it, and is closed then.
Protect(o, p) ==
  /\ Unit(o) \subseteq open
  /\ lock' = [k \in Key |-> IF k \in Unit(o) THEN p ELSE lock[k]]
  /\ open' = open \ Unit(o)
  /\ UNCHANGED members

Unlock(o, p) ==
  /\ \A k \in Unit(o) : lock[k] = p
  /\ open' = open \cup Unit(o)
  /\ UNCHANGED <<members, lock>>

\* The end of a block, or the failure to begin one, closes what one passphrase locks.
Relock(o) ==
  /\ \E p \in Passphrase : \A k \in Unit(o) : lock[k] = p
  /\ open' = open \ Unit(o)
  /\ UNCHANGED <<members, lock>>

AddSubkey(s) ==
  /\ {Primary, s} \subseteq open
  /\ members' = members \cup {s}
  /\ UNCHANGED <<lock, open>>

\* What has a lock is closed by it, the rest stays open.
SaveAndReload ==
  /\ open' = open \ {k \in Unit(Primary) : lock[k] # NoPass}
  /\ UNCHANGED <<members, lock>>

Next ==
  \/ \E o \in Key : Relock(o) \/ \E p \in Passphrase : Protect(o, p) \/ Unlock(o, p)
  \/ \E s \in Sub : AddSubkey(s)
  \/ SaveAndReload

Spec == Init /\ [][Next]_vars
=============================================================================
