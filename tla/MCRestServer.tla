---------------------------- MODULE MCRestServer ----------------------------
(* Instances of RestServer for TLC. *)
EXTENDS RestServer, TLC

Symmetry ==
  Permutations(Threads) \cup Permutations(Requests) \cup Permutations(Jobs)
=============================================================================
