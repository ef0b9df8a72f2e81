---------------------------- MODULE MCRoundtrip ----------------------------
(***************************************************************************)
(* Roundtrip for TLC: a behaviour uses options or messages.                *)
(***************************************************************************)
EXTENDS Roundtrip, TLC

VARIABLE using  \* "options" or "messages"

\* One byte, and an integer of each width that does not read the same
\* backwards.
MCFields ==
  {[w |-> 1, v |-> 1], [w |-> 2, v |-> 1], [w |-> 4, v |-> 14],
   [w |-> 8, v |-> 254]}

MCMaxBytes == <<9, 4>>

MCInit ==
  /\ using \in {"options", "messages"}
  /\ M!Init
  /\ Init
  /\ using = "messages" =>
       /\ used = {CHOOSE o \in AllOptions : TRUE}
       /\ kind = CHOOSE k \in Kinds \ {"socket"} : TRUE

MCNext ==
  /\ \/ using = "options" /\ Next /\ UNCHANGED messages
     \/ using = "messages" /\ M!Next /\ UNCHANGED vars
  /\ UNCHANGED using

MCSpec == MCInit /\ [][MCNext]_<<using, vars, messages>>

Symmetry == Permutations(Msgs) \cup Permutations(Messages)
=============================================================================
