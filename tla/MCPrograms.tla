----------------------------- MODULE MCPrograms -----------------------------
(***************************************************************************)
(* Programs for TLC.                                                       *)
(***************************************************************************)
EXTENDS Programs

\* No bytes, and another command
MCOddBodies == {<<>>, <<0, 0, 0, 0, 0, 0, 1, 0>>}

\* The clock passes from negative to positive.
MCStart == -1

\* Text, none, some, more than there is, and a number that is no int
MCHeaders == {Text, -1, 0, 1, 2, 3, 4}
=============================================================================
