----------------------------- MODULE MCKeyParse -----------------------------
(***************************************************************************)
(* Every block of up to Length packets over two key ids and both halves.   *)
(***************************************************************************)
EXTENDS KeyParse
=============================================================================
