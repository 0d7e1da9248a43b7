------------------------------ MODULE MCOAuth ------------------------------
(* Model-checking instance of OAuth. *)
EXTENDS OAuth, TLC
Symmetry == Permutations(Handlers)
=============================================================================
