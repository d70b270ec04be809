----------------------------- MODULE KeyringAbs -----------------------------
(***************************************************************************)
(* What a keyring promises: it is a set of keys and the relation between   *)
(* them and all their aliases.  Loading a key adds it with its subkeys and *)
(* forgets nothing.  Keyring implements this when it is only loaded, each  *)
(* alias has at most two keys and no alias is another one with spaces.     *)
(***************************************************************************)
CONSTANTS
  Keys,
  Members,    \* Members[k]: k and its subkeys
  AliasesOf   \* AliasesOf[k]: the aliases of k

VARIABLES
  loaded,
  index,      \* pairs <<alias, key>>
  reported    \* what load returned

vars == <<loaded, index, reported>>

Init == loaded = {} /\ index = {} /\ reported = {}

Load(k) ==
  /\ loaded' = loaded \cup Members[k]
  /\ index' = index \cup UNION {{<<a, m>> : a \in AliasesOf[m]} : m \in Members[k]}
  /\ reported' = Members[k]

Next == \E k \in Keys : Load(k)

Spec == Init /\ [][Next]_vars
=============================================================================
