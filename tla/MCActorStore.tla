---------------------------- MODULE MCActorStore ----------------------------
(* Model-checking instances of ActorStore. *)
EXTENDS ActorStore, TLC

Symmetry == Permutations(Handlers) \cup Permutations(Uris) \cup Permutations(Cids)
=============================================================================
