----------------------------- MODULE MCKeyPair -----------------------------
(***************************************************************************)
(* KeyPair with a key A that was loaded twice and a key B that may become  *)
(* a subkey of it.                                                         *)
(***************************************************************************)
EXTENDS KeyPair, TLC

CONSTANTS A1, A2, B1,     \* private halves
          Pa1, Pa2, Pb1, Pb2   \* public halves

MCKeyOf == [h \in Half |-> IF h \in {B1, Pb1, Pb2} THEN "B" ELSE "A"]

SymmetricHalves == Permutations({A1, A2}) \cup Permutations({Pa1, Pa2}) \cup Permutations({Pb1, Pb2})
=============================================================================
