--------------------------- MODULE BufferValues ---------------------------
(***************************************************************************)
(* What nng::buffer promises: each buffer is a value of its own.  Copying  *)
(* one makes an equal value, moving one takes the value away, writing into *)
(* one changes no other, and a copy that fails may only empty its target.  *)
(***************************************************************************)
CONSTANTS
  Objects,   \* the places where the program keeps buffers
  Contents,  \* the values a buffer can have
  Blank,     \* the value of an empty buffer
  NoObject   \* content of a place with no buffer in it

VARIABLES
  call,  \* the last call and the buffers it was given
  val    \* the value of the buffer in each place

Is(o) == val[o] # NoObject

Init ==
  /\ call = <<"none">>
  /\ val = [o \in Objects |-> NoObject]

\* Constructed with some contents, received, or written into.
Obtain(o) ==
  /\ call' = <<"obtain", o>>
  /\ \E v \in Contents : val' = [val EXCEPT ![o] = v]

Copy(o, rhs) ==
  /\ Is(rhs)
  /\ call' = <<"copy", o, rhs>>
  /\ val' = [val EXCEPT ![o] = val[rhs]]

Move(o, rhs) ==
  /\ o # rhs
  /\ Is(rhs)
  /\ call' = <<"move", o, rhs>>
  /\ val' = [val EXCEPT ![o] = val[rhs], ![rhs] = Blank]

\* Made empty: by default construction, release, send, or a failed copy.
Empty(o) ==
  /\ call' = <<"empty", o>>
  /\ val' = [val EXCEPT ![o] = Blank]

Destroy(o) ==
  /\ Is(o)
  /\ call' = <<"destroy", o>>
  /\ val' = [val EXCEPT ![o] = NoObject]

\* A call that fails, or that has nothing to do, changes no value.
Nothing ==
  /\ call' = <<"nothing">>
  /\ UNCHANGED val

Next ==
  \/ \E o \in Objects :
       \/ Obtain(o) \/ Empty(o) \/ Destroy(o)
       \/ \E rhs \in Objects : Copy(o, rhs) \/ Move(o, rhs)
  \/ Nothing

Spec == Init /\ [][Next]_<<call, val>>
=============================================================================
