------------------------------ MODULE MCTokens ------------------------------
(* Tokens on a small instance.                                             *)
EXTENDS Tokens, TLC

SameForAll == Permutations(Readers)
=============================================================================
