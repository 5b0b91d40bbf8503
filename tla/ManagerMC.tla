------------------------------ MODULE ManagerMC ------------------------------
(* Instances of Manager for TLC.                                            *)
EXTENDS Manager

Symmetry == Permutations(Goroutines) \cup Permutations(Scopes)
=============================================================================
