---------------------------- MODULE MCAccounts ----------------------------
(* Model-checking instance of Accounts. *)
EXTENDS Accounts, TLC
Symmetry ==
    Permutations(Handlers) \cup Permutations(Minted) \cup Permutations(Codes)
    \cup Permutations(Handles \ Reserved) \cup Permutations(Emails)
===========================================================================
