------------------------------ MODULE MCRouting ------------------------------
(***************************************************************************)
(* Routing with interchangeable tokens, for the safety run.                *)
(***************************************************************************)
EXTENDS Routing, TLC

TokenSymmetry == Permutations(Tokens)
=============================================================================
