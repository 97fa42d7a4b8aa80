------------------------------- MODULE MCVault -------------------------------
(***************************************************************************)
(* Requests for the model checking of Vault.                               *)
(***************************************************************************)
EXTENDS Vault, TLC

CONSTANTS r1, r2, r3, s1, s2, k1, k2

SetSetDelete == (r1 :> s1 @@ r2 :> s2 @@ r3 :> s1)

SetSetDeleteBodies == (r1 :> k1 @@ r2 :> k2 @@ r3 :> "DELETE")

Garbled == (r1 :> k1 @@ r2 :> "garbled" @@ r3 :> "empty")
=============================================================================
