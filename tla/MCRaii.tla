------------------------------ MODULE MCRaii ------------------------------
(* Instances of Raii for TLC. *)
EXTENDS Raii, TLC

CopyableOnly == {c \in AllClasses : c.copies}

Symmetry == Permutations(Objects) \cup Permutations(Handles)
=============================================================================
