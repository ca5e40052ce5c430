--------------------------- MODULE MCSqliteLease ---------------------------
(* Instances of SqliteLease for TLC: the repositories are interchangeable. *)
EXTENDS SqliteLease, TLC

Symmetry == Permutations(Repos)
=============================================================================
