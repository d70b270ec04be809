----------------------------- MODULE MCMessage -----------------------------
(***************************************************************************)
(* Message with a key that encrypts to itself and a key with two           *)
(* encryption subkeys, and signatures two of which were made in the same   *)
(* second.  The subkeys, the passphrases, the secrets and those two        *)
(* signatures may be exchanged.                                            *)
(***************************************************************************)
EXTENDS Message

CONSTANTS own,            \* a primary key that can encrypt
          owner, e1, e2,  \* a primary key that cannot, and its subkeys
          p, q,           \* passphrases
          x, y,           \* secrets
          s1, s2, s3      \* signatures

MCKey == {own, e1, e2}
MCOwnerOf == [k \in Key |-> IF k = own THEN own ELSE owner]
MCPassphrase == {p, q}
MCSecret == {x, y}
MCSig == {s1, s2, s3}
MCTime == [s \in Sig |-> IF s = s3 THEN 2 ELSE 1]

Exchange ==
  Permutations({e1, e2}) \cup Permutations(MCPassphrase) \cup Permutations(MCSecret)
    \cup Permutations({s1, s2})
=============================================================================
