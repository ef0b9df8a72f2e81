----------------------------- MODULE Roundtrip -----------------------------
(***************************************************************************)
(* Options and Msg side by side: what a program gets back from the library *)
(* is what it put in, be it the value of an option or the contents of a    *)
(* message.  The two do not interact, and are specifications of their own  *)
(* (Spec and M!Spec).                                                      *)
(***************************************************************************)
EXTENDS Options, BigEndian

CONSTANTS
  Msgs,                            \* variables of class msg
  Messages,                        \* addresses of messages
  Pipes, Fields, Sizes, MaxBytes   \* of Msg

VARIABLES m, heap, fields, call    \* of Msg

messages == <<m, heap, fields, call>>

M == INSTANCE Msg WITH Objects <- Msgs, Handles <- Messages

ASSUME MsgAssumption == M!Assumption

-----------------------------------------------------------------------------
\* Every message is held by one object of class msg, none is leaked or freed
\* while it is held; and what was put into it is what is in it, part by part,
\* whatever was done to others (msg_body.h, msg_header.h, and msg's copies and
\* moves).
ContentsAsWritten == M!TypeOK /\ M!ContentsAsWritten

\* Integers come back, by trim and by chop, as they were put in.
IntegersReadBack == M!IntegersReadBack
=============================================================================
