------------------------- MODULE MCDirectoryListing -------------------------
(* Instances of DirectoryListing for TLC. *)
EXTENDS DirectoryListing, TLC

CONSTANTS d1, d2, w1, w2

Symmetry == Permutations(Walks) \union Permutations(Dirs)
=============================================================================
