-------------------------------- MODULE Msg --------------------------------
(***************************************************************************)
(* The contents of messages: the objects of class msg over the library's   *)
(* messages, each with a header, a body and a pipe, and the operations of  *)
(* msg_view, msg_header and msg_body on them.                              *)
(*                                                                         *)
(* The library (external) keeps two byte strings per message. Next to them *)
(* the model keeps what the program believes: the fields that it put into  *)
(* each part of each of its objects, in order. When it cuts a field in two *)
(* or has bytes that it did not put there, it believes nothing (Null) until*)
(* it clears the part.                                                     *)
(***************************************************************************)
EXTENDS BigEndian, SequencesExt

CONSTANTS
  Objects,   \* variables of class msg
  Handles,   \* addresses of messages
  Pipes,     \* pipes that a message may come from
  Fields,    \* what the program puts into messages
  Sizes,     \* the sizes it gives to constructor, realloc, trim and chop
  MaxBytes,  \* bound: the library has memory for MaxBytes[k] bytes in k messages
  Null       \* nullptr; no belief; no pipe

\* sizeof of uint16_t, uint32_t and uint64_t
Widths == {2, 4, 8}

\* What the module assumes of its constants
Assumption ==
  /\ Null \notin Handles \cup Pipes
  /\ \A f \in Fields : f.w \in Widths \cup {1} /\ f.v \in Uint(f.w)
  /\ Sizes \subseteq Nat

VARIABLES
  m,       \* the handle in each object
  heap,    \* the library: the messages by handle
  fields,  \* what the program believes to be in each object
  call     \* how the last operation ended

vars == <<m, heap, fields, call>>

Live == DOMAIN heap
Message == [header : Seq(Byte), body : Seq(Byte), pipe : Pipes \cup {Null}]

\* There is memory for n bytes more, in k more messages.
Room(n, k) ==
  n + MapThenSumSet(LAMBDA h : Len(heap[h].header) + Len(heap[h].body), Live)
    <= MaxBytes[Cardinality(Live) + k]

Done == call' = "done"

\* An integer operation returns got where the program put expected.
Returns(got, expected) ==
  call' = IF got = expected THEN "done" ELSE "misread"

Throws ==
  /\ call' = "threw"
  /\ UNCHANGED <<m, heap, fields>>

-----------------------------------------------------------------------------
(* One operation of a part p, at its front or at its back: what it means   *)
(* to the program, and the function that it calls in the library, which is *)
(* one for part lp and end le.                                             *)

\* append (at the back) and insert (at the front); no memory: it throws.
Put(o, p, end, f, lp, le) ==
  LET At(e, s, t) == IF e = "front" THEN s \o t ELSE t \o s
      s == heap[m[o]][lp]
      fs == fields[o][p]
  IN  \/ /\ Room(f.w, 0)
         /\ heap' = [heap EXCEPT ![m[o]][lp] = At(le, Encode(f.w, f.v), s)]
         /\ fields' = [fields EXCEPT
              ![o][p] = IF fs = Null THEN Null ELSE At(end, <<f>>, fs)]
         /\ Done
         /\ UNCHANGED m
      \/ Throws

\* trim (at the front) and chop (at the back) of n bytes, which the integer
\* operations return as a number; fewer bytes than that: it throws inval.
Take(o, p, end, n, lp, le) ==
  LET s == heap[m[o]][lp]
      fs == fields[o][p]
      known == fs # Null /\ fs # <<>>
      field == IF end = "front" THEN Head(fs) ELSE Last(fs)
      whole == known /\ field.w = n
      cut == IF le = "front" THEN SubSeq(s, 1, n)
                             ELSE SubSeq(s, Len(s) - n + 1, Len(s))
  IN  IF Len(s) < n
        THEN Throws
        ELSE /\ heap' = [heap EXCEPT ![m[o]][lp] =
                  IF le = "front" THEN SubSeq(s, n + 1, Len(s))
                                  ELSE SubSeq(s, 1, Len(s) - n)]
             /\ fields' = [fields EXCEPT ![o][p] =
                  CASE n = 0 -> fs
                    [] n # 0 /\ whole -> IF end = "front" THEN Tail(fs)
                                                          ELSE Front(fs)
                    [] OTHER -> Null]
             /\ Returns(Decode(cut), IF whole THEN field.v ELSE Decode(cut))
             /\ UNCHANGED m

Clear(o, p, lp) ==
  /\ heap' = [heap EXCEPT ![m[o]][lp] = <<>>]
  /\ fields' = [fields EXCEPT ![o][p] = <<>>]
  /\ Done
  /\ UNCHANGED m

-----------------------------------------------------------------------------
(* msg_body and msg_header: the views' operations, and the integers'.      *)

BodyClear(o) == Clear(o, "body", "body")

BodyPutView(o, end, f) == f.w = 1 /\ Put(o, "body", end, f, "body", end)

BodyTakeView(o, end, n) == Take(o, "body", end, n, "body", end)

BodyPutInteger(o, end, f) ==
  f.w \in Widths /\ Put(o, "body", end, f, "body", end)

BodyTakeInteger(o, end, w) == w \in Widths /\ Take(o, "body", end, w, "body", end)

HeaderClear(o) == Clear(o, "header", "header")

HeaderPutView(o, end, f) == f.w = 1 /\ Put(o, "header", end, f, "header", end)

HeaderTakeView(o, end, n) == Take(o, "header", end, n, "header", end)

HeaderPutInteger(o, end, f) ==
  f.w \in Widths /\ Put(o, "header", end, f, "header", end)

\* Mutation of HeaderTakeInteger: it calls the function of the body.
HeaderTakeIntegerOfBody(o, end, w) ==
  w \in Widths /\ Take(o, "header", end, w, "body", end)

HeaderTakeInteger(o, end, w) ==
  w \in Widths /\ Take(o, "header", end, w, "header", end)

-----------------------------------------------------------------------------
(* msg_view and msg                                                        *)

\* The body keeps its first bytes; what it grows by is not initialised.
Realloc(o, n) ==
  LET s == heap[m[o]].body
  IN  \/ /\ n <= Len(s) \/ Room(n - Len(s), 0)
         /\ \E t \in [1 .. n -> Byte] :
              /\ \A i \in 1 .. n : i <= Len(s) => t[i] = s[i]
              /\ heap' = [heap EXCEPT ![m[o]].body = t]
         /\ fields' = IF n = Len(s) THEN fields
                      ELSE [fields EXCEPT ![o].body = IF n = 0 THEN <<>> ELSE Null]
         /\ Done
         /\ UNCHANGED m
      \/ Throws

SetPipe(o, p) ==
  /\ heap' = [heap EXCEPT ![m[o]].pipe = p]
  /\ fields' = [fields EXCEPT ![o].pipe = p]
  /\ Done
  /\ UNCHANGED m

\* nng_msg_alloc and nng_msg_dup: a message of its own
Holding(h, msg) == [x \in Live \cup {h} |-> IF x = h THEN msg ELSE heap[x]]
Freed(h) == [x \in Live \ {h} |-> heap[x]]

Make(o, n) ==
  /\ m[o] = Null
  /\ \/ \E h \in Handles \ Live, t \in [1 .. n -> Byte] :
          /\ Room(n, 1)
          /\ m' = [m EXCEPT ![o] = h]
          /\ heap' = Holding(h, [header |-> <<>>, body |-> t, pipe |-> Null])
          /\ fields' = [fields EXCEPT ![o] =
               [header |-> <<>>, body |-> IF n = 0 THEN <<>> ELSE Null,
                pipe |-> Null]]
          /\ Done
     \/ Throws

\* Mutation of Copy: the handle is copied, not the message.
CopyHandle(o, q) ==
  /\ m[o] = Null
  /\ m' = [m EXCEPT ![o] = m[q]]
  /\ fields' = [fields EXCEPT ![o] = fields[q]]
  /\ Done
  /\ UNCHANGED heap

\* The copy constructor
Copy(o, q) ==
  /\ m[o] = Null
  /\ \/ \E h \in Handles \ Live :
          /\ Room(Len(heap[m[q]].header) + Len(heap[m[q]].body), 1)
          /\ m' = [m EXCEPT ![o] = h]
          /\ heap' = Holding(h, heap[m[q]])
          /\ fields' = [fields EXCEPT ![o] = fields[q]]
          /\ Done
     \/ Throws

\* Mutation of Move: the message that o held is not freed.
MoveLeaks(o, q) ==
  /\ o # q
  /\ m' = [m EXCEPT ![o] = m[q], ![q] = Null]
  /\ fields' = [fields EXCEPT ![o] = fields[q], ![q] = Null]
  /\ Done
  /\ UNCHANGED heap

\* Move assignment, and the move constructor when o is empty
Move(o, q) ==
  /\ o # q
  /\ m' = [m EXCEPT ![o] = m[q], ![q] = Null]
  /\ heap' = IF m[o] = Null THEN heap ELSE Freed(m[o])
  /\ fields' = [fields EXCEPT ![o] = fields[q], ![q] = Null]
  /\ Done

Destroy(o) ==
  /\ m' = [m EXCEPT ![o] = Null]
  /\ heap' = Freed(m[o])
  /\ fields' = [fields EXCEPT ![o] = Null]
  /\ Done

-----------------------------------------------------------------------------
Init ==
  /\ m = [o \in Objects |-> Null]
  /\ heap = <<>>
  /\ fields = [o \in Objects |-> Null]
  /\ call = "done"

PartOperation(o) ==
  \/ BodyClear(o)
  \/ HeaderClear(o)
  \/ \E end \in {"front", "back"} :
       \/ \E f \in Fields :
            \/ BodyPutView(o, end, f) \/ BodyPutInteger(o, end, f)
            \/ HeaderPutView(o, end, f) \/ HeaderPutInteger(o, end, f)
       \/ \E n \in Sizes : BodyTakeView(o, end, n) \/ HeaderTakeView(o, end, n)
       \/ \E w \in Widths :
            BodyTakeInteger(o, end, w) \/ HeaderTakeInteger(o, end, w)

Next ==
  \E o \in Objects :
    \/ \E n \in Sizes : Make(o, n)
    \/ \E q \in Objects : m[q] # Null /\ (Copy(o, q) \/ Move(o, q))
    \/ /\ m[o] # Null
       /\ \/ PartOperation(o)
          \/ \E n \in Sizes : Realloc(o, n)
          \/ \E p \in Pipes : SetPipe(o, p)
          \/ Destroy(o)

Spec == Init /\ [][Next]_vars

-----------------------------------------------------------------------------
(* Properties.                                                             *)

\* Every variable keeps its type, and the messages are those of the objects.
TypeOK ==
  /\ m \in [Objects -> Handles \cup {Null}]
  /\ Live = {m[o] : o \in Objects} \ {Null}
  /\ \A h \in Live : heap[h] \in Message
  /\ DOMAIN fields = Objects
  /\ call \in {"done", "threw", "misread"}

\* What the program put into an object is what it finds there, part by part
\* and in order, with the bytes of each integer as they go over the wire:
\* every operation of msg_body and msg_header works on its own part and end,
\* and what is done to one object never shows in another.
ContentsAsWritten ==
  \A o \in Objects :
    m[o] # Null =>
      /\ m[o] \in Live
      /\ heap[m[o]].pipe = fields[o].pipe
      /\ \A p \in {"header", "body"} :
           fields[o][p] # Null =>
             heap[m[o]][p] =
               FlattenSeq([i \in DOMAIN fields[o][p] |->
                             Encode(fields[o][p][i].w, fields[o][p][i].v)])

\* An integer that was put into a message comes back, by trim or by chop of
\* its width, with its value, whatever was put and taken around it.
IntegersReadBack == call # "misread"
=============================================================================
