------------------------------ MODULE Buffer ------------------------------
(***************************************************************************)
(* nng::buffer: an owning pointer and size.  Unlike the other RAII classes *)
(* it has to hand the size back to nng_free, so that the pair must stay    *)
(* together through copies, moves, failed allocations and release().       *)
(*                                                                         *)
(* nng_alloc, nng_free, nng_send and nng_recv are external.  The bytes of  *)
(* a block are one opaque token: memcpy copies it.                         *)
(***************************************************************************)
EXTENDS Naturals, FiniteSets

CONSTANTS
  Objects,   \* the places where the program keeps buffers
  Blocks,    \* the addresses that nng_alloc can return
  Sizes,     \* the sizes that are asked for
  Data,      \* what the bytes of a block can be
  Null,      \* nullptr
  NoObject   \* content of a place with no buffer in it

ASSUME BlocksAssumption == Null \notin Blocks /\ NoObject \notin Blocks
ASSUME SizesAssumption == Sizes \subseteq Nat /\ 0 \in Sizes
ASSUME DataAssumption == Data # {}
ASSUME NoObjectAssumption ==
  /\ NoObject \notin [d : Blocks \cup {Null}, s : Nat]
  /\ NoObject \notin [len : Nat, x : Data \cup {Null}]

VARIABLES
  buf,    \* the d and s members of the buffer in each place
  size,   \* how each block was allocated
  bytes,  \* what each block contains
  live,   \* blocks that are allocated
  raw,    \* of them, the ones the program holds as a bare pointer
  call,   \* what the last call did, and to which buffers
  fault   \* did a call free or read memory that it must not?

memory == <<size, bytes, live, fault>>
vars == <<buf, memory, raw, call>>

Is(o) == buf[o] # NoObject
Owns(o) == Is(o) /\ buf[o].d # Null

-----------------------------------------------------------------------------
(* The allocator.                                                          *)

\* nng_alloc( n ) returns b, whose bytes are what copied says, or anything.
Alloc(b, n, freed, x) ==
  /\ b \notin live \ freed
  /\ live' = (live \ freed) \cup {b}
  /\ size' = [size EXCEPT ![b] = n]
  /\ bytes' = [bytes EXCEPT ![b] = x]

\* Is nng_free( d, s ) right for what o holds?
MayFree(o) == buf[o].d \in live /\ size[buf[o].d] = buf[o].s

\* May buf[rhs].s bytes be read at buf[rhs].d?
MayRead(rhs) ==
  buf[rhs].s > 0 => buf[rhs].d \in live /\ buf[rhs].s <= size[buf[rhs].d]

Check(ok) == fault' = (fault \/ ~ok)

\* What memcpy finds at rhs; an empty buffer has no bytes.
Copied(rhs) == IF buf[rhs].d = Null THEN Data ELSE {bytes[buf[rhs].d]}

\* if( d != nullptr ) nng_free( d, s ): the blocks that go.
Freed(o) == IF Owns(o) THEN {buf[o].d} ELSE {}

-----------------------------------------------------------------------------
(* Constructors.                                                           *)

DefaultCtor(o) ==
  /\ ~Is(o)
  /\ buf' = [buf EXCEPT ![o] = [d |-> Null, s |-> 0]]
  /\ call' = <<"empty", o>>
  /\ UNCHANGED <<memory, raw>>

\* buffer( d, s ), of a block that the program owns and whose size it knows
RawCtor(o, b) ==
  /\ ~Is(o)
  /\ b \in raw
  /\ buf' = [buf EXCEPT ![o] = [d |-> b, s |-> size[b]]]
  /\ raw' = raw \ {b}
  /\ call' = <<"obtain", o>>
  /\ UNCHANGED memory

\* buffer( sz ); also what socket_view::recv() and get_opt_string() return
SizeCtor(o, n, b) ==
  /\ ~Is(o)
  /\ \E x \in Data : Alloc(b, n, {}, x)
  /\ buf' = [buf EXCEPT ![o] = [d |-> b, s |-> n]]
  /\ call' = <<"obtain", o>>
  /\ UNCHANGED <<raw, fault>>

\* The allocation fails in a constructor: there is no object.
CtorThrows(o) ==
  /\ ~Is(o)
  /\ call' = <<"nothing">>
  /\ UNCHANGED <<buf, memory, raw>>

CopyCtor(o, rhs, b) ==
  /\ ~Is(o)
  /\ Is(rhs)
  /\ \E x \in Copied(rhs) : Alloc(b, buf[rhs].s, {}, x)
  /\ buf' = [buf EXCEPT ![o] = [d |-> b, s |-> buf[rhs].s]]
  /\ Check(MayRead(rhs))
  /\ call' = <<"copy", o, rhs>>
  /\ UNCHANGED raw

MoveCtor(o, rhs) ==
  /\ ~Is(o)
  /\ Is(rhs)
  /\ buf' = [buf EXCEPT ![o] = buf[rhs], ![rhs] = [d |-> Null, s |-> 0]]
  /\ call' = <<"move", o, rhs>>
  /\ UNCHANGED <<memory, raw>>

-----------------------------------------------------------------------------
(* Assignments.                                                            *)

SelfAssign(o) ==
  /\ Is(o)
  /\ call' = <<"nothing">>
  /\ UNCHANGED <<buf, memory, raw>>

\* Mutation of CopyAssignSame: equal sizes are taken for equal contents.
CopyAssignSameSkips(o, rhs) ==
  /\ o # rhs
  /\ Is(o)
  /\ Is(rhs)
  /\ buf[o].s = buf[rhs].s
  /\ call' = <<"copy", o, rhs>>
  /\ UNCHANGED <<buf, memory, raw>>

\* Copy assignment, s == rhs.s: the block is kept and overwritten.
CopyAssignSame(o, rhs) ==
  /\ o # rhs
  /\ Is(o)
  /\ Is(rhs)
  /\ buf[o].s = buf[rhs].s
  /\ IF buf[o].s > 0
       THEN \E x \in Copied(rhs) : bytes' = [bytes EXCEPT ![buf[o].d] = x]
       ELSE UNCHANGED bytes
  /\ Check(MayRead(o) /\ MayRead(rhs))
  /\ call' = <<"copy", o, rhs>>
  /\ UNCHANGED <<buf, size, live, raw>>

\* Copy assignment, s != rhs.s: free, allocate (the same address perhaps), copy.
CopyAssign(o, rhs, b) ==
  /\ o # rhs
  /\ Is(o)
  /\ Is(rhs)
  /\ buf[o].s # buf[rhs].s
  /\ \E x \in Copied(rhs) : Alloc(b, buf[rhs].s, Freed(o), x)
  /\ buf' = [buf EXCEPT ![o] = [d |-> b, s |-> buf[rhs].s]]
  /\ Check((Owns(o) => MayFree(o)) /\ MayRead(rhs))
  /\ call' = <<"copy", o, rhs>>
  /\ UNCHANGED raw

\* Mutation of CopyAssignThrows: the size of rhs is kept (no s = 0).
CopyAssignThrowsKeepsSize(o, rhs) ==
  /\ o # rhs
  /\ Is(o)
  /\ Is(rhs)
  /\ buf[o].s # buf[rhs].s
  /\ live' = live \ Freed(o)
  /\ buf' = [buf EXCEPT ![o] = [d |-> Null, s |-> buf[rhs].s]]
  /\ Check(Owns(o) => MayFree(o))
  /\ call' = <<"empty", o>>
  /\ UNCHANGED <<size, bytes, raw>>

\* The allocation fails after the free: the target is left empty.
CopyAssignThrows(o, rhs) ==
  /\ o # rhs
  /\ Is(o)
  /\ Is(rhs)
  /\ buf[o].s # buf[rhs].s
  /\ live' = live \ Freed(o)
  /\ buf' = [buf EXCEPT ![o] = [d |-> Null, s |-> 0]]
  /\ Check(Owns(o) => MayFree(o))
  /\ call' = <<"empty", o>>
  /\ UNCHANGED <<size, bytes, raw>>

\* Mutation of MoveAssign: the old block is not freed.
MoveAssignLeaks(o, rhs) ==
  /\ o # rhs
  /\ Is(o)
  /\ Is(rhs)
  /\ buf' = [buf EXCEPT ![o] = buf[rhs], ![rhs] = [d |-> Null, s |-> 0]]
  /\ call' = <<"move", o, rhs>>
  /\ UNCHANGED <<memory, raw>>

MoveAssign(o, rhs) ==
  /\ o # rhs
  /\ Is(o)
  /\ Is(rhs)
  /\ live' = live \ Freed(o)
  /\ buf' = [buf EXCEPT ![o] = buf[rhs], ![rhs] = [d |-> Null, s |-> 0]]
  /\ Check(Owns(o) => MayFree(o))
  /\ call' = <<"move", o, rhs>>
  /\ UNCHANGED <<size, bytes, raw>>

-----------------------------------------------------------------------------
(* Destruction, detachment, use.                                           *)

Dtor(o) ==
  /\ Is(o)
  /\ live' = live \ Freed(o)
  /\ buf' = [buf EXCEPT ![o] = NoObject]
  /\ Check(Owns(o) => MayFree(o))
  /\ call' = <<"destroy", o>>
  /\ UNCHANGED <<size, bytes, raw>>

\* Mutation of Release: the pointer is handed out and kept.
ReleaseKeeps(o) ==
  /\ Is(o)
  /\ raw' = raw \cup Freed(o)
  /\ call' = <<"nothing">>
  /\ UNCHANGED <<buf, memory>>

\* release(): the pointer goes to the program
Release(o) ==
  /\ Is(o)
  /\ raw' = raw \cup Freed(o)
  /\ buf' = [buf EXCEPT ![o] = [d |-> Null, s |-> 0]]
  /\ call' = <<"empty", o>>
  /\ UNCHANGED memory

\* socket_view::send( buffer&& ): nng frees the block, then release() ...
Send(o) ==
  /\ Is(o)
  /\ live' = live \ Freed(o)
  /\ buf' = [buf EXCEPT ![o] = [d |-> Null, s |-> 0]]
  /\ Check(Owns(o) => MayFree(o))
  /\ call' = <<"empty", o>>
  /\ UNCHANGED <<size, bytes, raw>>

\* ... and when nng_send fails the buffer keeps it.
SendThrows(o) ==
  /\ Is(o)
  /\ call' = <<"nothing">>
  /\ UNCHANGED <<buf, memory, raw>>

\* The program writes through data().
Write(o, x) ==
  /\ Owns(o)
  /\ buf[o].s > 0
  /\ bytes' = [bytes EXCEPT ![buf[o].d] = x]
  /\ Check(MayRead(o))
  /\ call' = <<"obtain", o>>
  /\ UNCHANGED <<buf, size, live, raw>>

\* The program frees a pointer it got from release().
FreeRaw(b) ==
  /\ b \in raw
  /\ raw' = raw \ {b}
  /\ live' = live \ {b}
  /\ call' = <<"nothing">>
  /\ UNCHANGED <<buf, size, bytes, fault>>

-----------------------------------------------------------------------------
Init ==
  /\ buf = [o \in Objects |-> NoObject]
  /\ size = [b \in Blocks |-> 0]
  /\ bytes \in [Blocks -> Data]
  /\ live = {}
  /\ raw = {}
  /\ call = <<"none">>
  /\ fault = FALSE

Next ==
  \/ \E o \in Objects :
       \/ DefaultCtor(o) \/ CtorThrows(o) \/ SelfAssign(o)
       \/ Dtor(o) \/ Release(o) \/ Send(o) \/ SendThrows(o)
       \/ \E x \in Data : Write(o, x)
       \/ \E b \in Blocks : RawCtor(o, b) \/ \E n \in Sizes : SizeCtor(o, n, b)
       \/ \E rhs \in Objects :
            \/ MoveCtor(o, rhs) \/ CopyAssignSame(o, rhs)
            \/ CopyAssignThrows(o, rhs) \/ MoveAssign(o, rhs)
            \/ \E b \in Blocks : CopyCtor(o, rhs, b) \/ CopyAssign(o, rhs, b)
  \/ \E b \in Blocks : FreeRaw(b)

Spec == Init /\ [][Next]_vars

-----------------------------------------------------------------------------
(* Properties.                                                             *)

Calls ==
  {<<"none">>, <<"nothing">>} \cup {"obtain", "empty", "destroy"} \X Objects
    \cup {"copy", "move"} \X Objects \X Objects

\* Every variable keeps its type; an empty buffer has size 0 whether or not
\* nng_alloc( 0 ) gave it an address.
TypeOK ==
  /\ buf \in [Objects -> [d : Blocks \cup {Null}, s : Sizes] \cup {NoObject}]
  /\ size \in [Blocks -> Sizes]
  /\ bytes \in [Blocks -> Data]
  /\ live \in SUBSET Blocks
  /\ raw \in SUBSET live
  /\ call \in Calls
  /\ fault \in BOOLEAN

\* Every allocated block has one owner, a buffer or the program, every owner's
\* block is allocated, and the size a buffer would give to nng_free is the one
\* that nng_alloc was given, after failed copies too.
BlockHasOneOwner ==
  /\ \A o \in Objects :
       Is(o) => IF buf[o].d = Null
                  THEN buf[o].s = 0
                  ELSE buf[o].d \in live \ raw /\ buf[o].s = size[buf[o].d]
  /\ \A o1, o2 \in Objects :
       Owns(o1) /\ Owns(o2) /\ buf[o1].d = buf[o2].d => o1 = o2
  /\ \A b \in live \ raw : \E o \in Objects : Owns(o) /\ buf[o].d = b

\* No call frees a block that is gone or with another size, and no memcpy
\* reads or writes past the end of a block.
NoFault == ~fault

\* The value of a buffer: its bytes, as view::operator== compares them.
Value(o) ==
  IF ~Is(o) THEN NoObject
  ELSE [len |-> buf[o].s,
        x |-> IF buf[o].s = 0 THEN Null ELSE bytes[buf[o].d]]

Values == INSTANCE BufferValues WITH
  Contents <- [len : Sizes, x : Data \cup {Null}],
  Blank <- [len |-> 0, x |-> Null],
  val <- [o \in Objects |-> Value(o)]

\* Buffers behave as independent values: a copy equals its original and shares
\* nothing with it, a move empties its source, a failed copy only its target.
ImplementsBufferValues == Values!Spec
=============================================================================
