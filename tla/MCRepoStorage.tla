---------------------------- MODULE MCRepoStorage ----------------------------
(* Instance of RepoStorage for TLC: two writers, three blocks, three commits
   after the first, pages of one row, a cache that is warmed with one.        *)
EXTENDS RepoStorage, TLC

CONSTANTS w1, w2

MCWriters == {w1, w2}
MCCids == 1..3
Symmetry == Permutations(MCWriters)
==============================================================================
