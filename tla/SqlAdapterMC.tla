---------------------------- MODULE SqlAdapterMC ----------------------------
(* Instances of SqlAdapter for TLC.                                         *)
EXTENDS SqlAdapter

Symmetry == Permutations(Goroutines) \cup Permutations(Scopes)
=============================================================================
