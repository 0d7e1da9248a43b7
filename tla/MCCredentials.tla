--------------------------- MODULE MCCredentials ---------------------------
(* Model-checking instance of Credentials. *)
EXTENDS Credentials, TLC
Symmetry == Permutations(Handlers)
=============================================================================
