------------------------------ MODULE MCBlobs ------------------------------
(* Model-checking instances of Blobs. *)
EXTENDS Blobs, TLC

Symmetry == Permutations(Actors) \cup Permutations(Uris) \cup Permutations(Cids)
=============================================================================
