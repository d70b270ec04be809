----------------------------- MODULE MCSigning -----------------------------
(***************************************************************************)
(* Signing with a key A that signs with its subkey S, and a short key B,   *)
(* new and without a User ID, that signs itself.  Both may get the subkey  *)
(* and any User ID.                                                        *)
(***************************************************************************)
EXTENDS Signing, TLC

CONSTANTS A, B, S, uA, uB, doc, other

MCPrimary == {A, B}
MCSub == {S}
MCUid == {uA, uB}
MCDoc == {doc, other}
MCFirstUid == [k \in Primary |-> IF k = A THEN uA ELSE None]
MCFlagSign == {B}
MCShort == {B}

Exchange == Permutations(MCDoc)
=============================================================================
