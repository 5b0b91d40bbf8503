---------------------------- MODULE UnitOfWorkMC ----------------------------
(* Instances of UnitOfWork for TLC.                                        *)
EXTENDS UnitOfWork

Symmetry == Permutations(Goroutines) \cup Permutations(Scopes)
=============================================================================
