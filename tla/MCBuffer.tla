------------------------------ MODULE MCBuffer ------------------------------
(* Instances of Buffer for TLC. *)
EXTENDS Buffer, TLC

Symmetry == Permutations(Objects) \cup Permutations(Blocks) \cup Permutations(Data)
=============================================================================
