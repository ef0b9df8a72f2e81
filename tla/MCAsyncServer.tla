--------------------------- MODULE MCAsyncServer ---------------------------
(* Instances of AsyncServer for TLC. *)
EXTENDS AsyncServer

\* A negative delay: of both signs, the one whose conversion matters
MCDelays == {-3}
=============================================================================
