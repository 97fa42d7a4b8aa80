------------------------------- MODULE MCSwqos -------------------------------
(***************************************************************************)
(* Symmetry sets for the model checking of Swqos.                          *)
(***************************************************************************)
EXTENDS Swqos, TLC

AllSymmetry == Permutations(Calls) \cup Permutations(Providers)
=============================================================================
