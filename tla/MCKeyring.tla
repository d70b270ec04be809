----------------------------- MODULE MCKeyring -----------------------------
(***************************************************************************)
(* Keyring with the two halves of two keys A and B, the older being A, and *)
(* the two halves of a subkey S of A.  A and B share an e-mail address     *)
(* "e"; the name "nA" of A has a space, is the comment of B, and is its    *)
(* name "nB" without the space.                                            *)
(***************************************************************************)
EXTENDS Keyring

CONSTANTS Apriv, Apub, Bpriv, Bpub, Spriv, Spub, \* key objects
          fA, fS, nA, nB, e                        \* aliases

MCKeys == {Apriv, Apub, Bpriv, Bpub, Spriv, Spub}
FewKeys == {Apriv, Apub, Bpriv, Spriv}
MCAlias == {fA, fS, nA, nB, e}
MCPublic == {Apub, Bpub, Spub} \cap Keys

\* A subkey may well be as old as its primary key.
MCCreated ==
  [k \in Keys |-> IF k \in {Apriv, Apub} THEN 1 ELSE IF k \in {Bpriv, Bpub} THEN 2 ELSE 1]

MCAliases ==
  [k \in Keys |-> IF k \in {Apriv, Apub} THEN <<fA, nA, e>>
                    ELSE IF k \in {Bpriv, Bpub} THEN <<nB, nA, e>>
                    ELSE <<fS>>]

\* The same keys with nothing shared but by the two halves of a key.
MCAliasesApart ==
  [k \in Keys |-> IF k \in {Apriv, Apub} THEN <<fA, nA, e>>
                    ELSE IF k \in {Bpriv, Bpub} THEN <<nB>>
                    ELSE <<fS>>]

MCSqueeze == [a \in MCAlias |-> IF a = nA THEN nB ELSE a]
MCNoSpaces == [a \in MCAlias |-> a]

NoSubkeys == [k \in Keys |-> <<>>]
WithSubkeys ==
  [k \in Keys |-> IF k = Apriv THEN <<Spriv>> ELSE IF k = Apub THEN <<Spub>> ELSE <<>>]
MCLate == {<<Apriv, Spriv>>}
=============================================================================
