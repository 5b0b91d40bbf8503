--------------------------- MODULE GormAdapterMC ---------------------------
(* Instances of GormAdapter for TLC.                                        *)
EXTENDS GormAdapter

Symmetry == Permutations(Goroutines) \cup Permutations(Scopes)
=============================================================================
