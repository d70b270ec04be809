----------------------------- MODULE MCKeyLock -----------------------------
(***************************************************************************)
(* KeyLock with a primary key, a subkey that can sign and one that cannot. *)
(***************************************************************************)
EXTENDS KeyLock

CONSTANTS P, Ssign, Senc

MCSub == {Ssign, Senc}
MCCanSign == {Ssign}
=============================================================================
