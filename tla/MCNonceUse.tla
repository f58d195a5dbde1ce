----------------------------- MODULE MCNonceUse -----------------------------
(***************************************************************************)
(* NonceUse for TLC: the attempts at a mint are interchangeable.           *)
(***************************************************************************)
EXTENDS NonceUse

Symmetry == Permutations(Mints)
=============================================================================
