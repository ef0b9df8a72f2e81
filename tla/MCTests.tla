------------------------------ MODULE MCTests ------------------------------
(***************************************************************************)
(* Tests for TLC.                                                          *)
(***************************************************************************)
EXTENDS Tests
=============================================================================
