---------------------------- MODULE BufferProofs ----------------------------
(***************************************************************************)
(* Memory safety and value semantics of nng::buffer, proved for any number *)
(* of buffers, blocks and sizes.                                           *)
(***************************************************************************)
EXTENDS Buffer, TLAPS

\* The inductive invariant.  That the owner of a block knows its size makes
\* every later nng_free and memcpy right; that owners do not share makes a
\* free leave the other buffers' blocks alone.
IInv == TypeOK /\ BlockHasOneOwner /\ NoFault

-----------------------------------------------------------------------------
(* The type invariant.                                                     *)

\* Every member function keeps the types of the variables.
LEMMA TypeStep ==
  ASSUME IInv, [Next]_vars
  PROVE  TypeOK'
<1> USE SizesAssumption, BlocksAssumption DEF IInv, TypeOK, Calls
<1>1. ASSUME NEW o \in Objects, DefaultCtor(o)
      PROVE  TypeOK'
  BY <1>1 DEF DefaultCtor, memory
<1>2. ASSUME NEW o \in Objects, CtorThrows(o)
      PROVE  TypeOK'
  BY <1>2 DEF CtorThrows, memory
<1>3. ASSUME NEW o \in Objects, SelfAssign(o)
      PROVE  TypeOK'
  BY <1>3 DEF SelfAssign, memory
<1>4. ASSUME NEW o \in Objects, Dtor(o)
      PROVE  TypeOK'
  BY <1>4 DEF Dtor, Check, MayFree, Freed, Is, Owns, BlockHasOneOwner
<1>5. ASSUME NEW o \in Objects, Release(o)
      PROVE  TypeOK'
  BY <1>5 DEF Release, Freed, memory, Is, Owns, BlockHasOneOwner
<1>6. ASSUME NEW o \in Objects, Send(o)
      PROVE  TypeOK'
  BY <1>6 DEF Send, Check, MayFree, Freed, Is, Owns, BlockHasOneOwner
<1>7. ASSUME NEW o \in Objects, SendThrows(o)
      PROVE  TypeOK'
  BY <1>7 DEF SendThrows, memory
<1>8. ASSUME NEW o \in Objects, NEW x \in Data, Write(o, x)
      PROVE  TypeOK'
  BY <1>8 DEF Write, Check, MayRead
<1>9. ASSUME NEW o \in Objects, NEW b \in Blocks, RawCtor(o, b)
      PROVE  TypeOK'
  BY <1>9 DEF RawCtor, memory, Is
<1>10. ASSUME NEW o \in Objects, NEW n \in Sizes, NEW b \in Blocks,
              SizeCtor(o, n, b)
       PROVE  TypeOK'
  BY <1>10 DEF SizeCtor, Alloc
<1>11. ASSUME NEW o \in Objects, NEW rhs \in Objects, MoveCtor(o, rhs)
       PROVE  TypeOK'
  BY <1>11 DEF MoveCtor, memory, Is
<1>12. ASSUME NEW o \in Objects, NEW rhs \in Objects, CopyAssignSame(o, rhs)
       PROVE  TypeOK'
  BY <1>12 DEF CopyAssignSame, Check, Copied, MayRead, Is
<1>13. ASSUME NEW o \in Objects, NEW rhs \in Objects, CopyAssignThrows(o, rhs)
       PROVE  TypeOK'
  BY <1>13 DEF CopyAssignThrows, Check, MayFree, Freed, Is, Owns,
     BlockHasOneOwner
<1>14. ASSUME NEW o \in Objects, NEW rhs \in Objects, MoveAssign(o, rhs)
       PROVE  TypeOK'
  BY <1>14 DEF MoveAssign, Check, MayFree, Freed, Is, Owns, BlockHasOneOwner
<1>15. ASSUME NEW o \in Objects, NEW rhs \in Objects, NEW b \in Blocks,
              CopyCtor(o, rhs, b)
       PROVE  TypeOK'
  BY <1>15 DEF CopyCtor, Alloc, Check, Copied, MayRead, Is
<1>16. ASSUME NEW o \in Objects, NEW rhs \in Objects, NEW b \in Blocks,
              CopyAssign(o, rhs, b)
       PROVE  TypeOK'
  BY <1>16 DEF CopyAssign, Alloc, Check, Copied, MayRead, MayFree, Freed, Is,
     Owns, BlockHasOneOwner
<1>17. ASSUME NEW b \in Blocks, FreeRaw(b)
       PROVE  TypeOK'
  BY <1>17 DEF FreeRaw, Is, Owns, BlockHasOneOwner
<1>18. CASE UNCHANGED vars
  BY <1>18 DEF vars, memory
<1> QED
  BY <1>1, <1>2, <1>3, <1>4, <1>5, <1>6, <1>7, <1>8, <1>9, <1>10, <1>11, <1>12,
     <1>13, <1>14, <1>15, <1>16, <1>17, <1>18 DEF Next

-----------------------------------------------------------------------------
(* Ownership.                                                              *)

\* Buffer o becomes the owner of block b, in place of what it owned.
LEMMA OwnerGains ==
  ASSUME TypeOK, TypeOK', BlockHasOneOwner,
         NEW o \in Objects, NEW b \in Blocks,
         buf' = [buf EXCEPT ![o] = [d |-> b, s |-> size'[b]]],
         b \notin (live \ raw) \ Freed(o),
         live' \ raw' = ((live \ raw) \ Freed(o)) \cup {b},
         \A c \in Blocks \ {b} : size'[c] = size[c]
  PROVE  BlockHasOneOwner'
<1> USE BlocksAssumption DEF Is, Owns, Freed
<1>1. /\ buf'[o] = [d |-> b, s |-> size'[b]]
      /\ \A p \in Objects \ {o} : buf'[p] = buf[p]
  BY DEF TypeOK
<1>2. buf'[o] # NoObject
  <2>1. size'[b] \in Nat
    BY SizesAssumption DEF TypeOK
  <2>2. buf'[o] \in [d : Blocks \cup {Null}, s : Nat]
    BY <1>1, <2>1
  <2> QED
    BY <2>2, NoObjectAssumption
<1>3. ASSUME NEW p \in Objects, p # o, Owns(p)
      PROVE  buf[p].d \in (live \ raw) \ Freed(o) /\ buf[p].d # b
  BY <1>3 DEF BlockHasOneOwner
<1>4. ASSUME NEW p \in Objects, Is(p)'
      PROVE  IF buf'[p].d = Null
               THEN buf'[p].s = 0
               ELSE buf'[p].d \in live' \ raw' /\ buf'[p].s = size'[buf'[p].d]
  <2>1. CASE p = o
    BY <1>1, <2>1
  <2>2. CASE p # o
    BY <1>1, <1>3, <1>4, <2>2 DEF BlockHasOneOwner, TypeOK
  <2> QED
    BY <2>1, <2>2
<1>5. ASSUME NEW p \in Objects, NEW q \in Objects,
             Owns(p)', Owns(q)', buf'[p].d = buf'[q].d
      PROVE  p = q
  <2>1. \A r \in Objects \ {o} : Owns(r)' => buf'[r].d # b /\ Owns(r)
    BY <1>1, <1>3
  <2>2. buf'[o].d = b
    BY <1>1
  <2>3. CASE p # o /\ q # o
    BY <1>1, <1>5, <2>1, <2>3 DEF BlockHasOneOwner
  <2> QED
    BY <1>5, <2>1, <2>2, <2>3
<1>6. ASSUME NEW c \in live' \ raw'
      PROVE  \E p \in Objects : Owns(p)' /\ buf'[p].d = c
  <2>1. CASE c = b
    BY <1>1, <1>2, <2>1
  <2>2. CASE c # b
    <3>1. c \in live \ raw /\ c \notin Freed(o)
      BY <1>6, <2>2
    <3>2. PICK p \in Objects : Owns(p) /\ buf[p].d = c
      BY <3>1 DEF BlockHasOneOwner
    <3>3. p # o
      BY <3>1, <3>2
    <3> QED
      BY <1>1, <3>2, <3>3
  <2> QED
    BY <2>1, <2>2
<1> QED
  BY <1>4, <1>5, <1>6 DEF BlockHasOneOwner

\* A step that changes no pointer keeps the owners.
LEMMA OwnerKeeps ==
  ASSUME BlockHasOneOwner, UNCHANGED <<buf, size, live, raw>>
  PROVE  BlockHasOneOwner'
BY DEF BlockHasOneOwner, Is, Owns

\* What a buffer owns may be freed with the size it knows, and its bytes read.
LEMMA OwnerMay ==
  ASSUME TypeOK, BlockHasOneOwner, NEW o \in Objects, Is(o)
  PROVE  (Owns(o) => MayFree(o)) /\ MayRead(o)
<1>1. Owns(o) => buf[o].d \in live /\ buf[o].s = size[buf[o].d]
  BY DEF BlockHasOneOwner, Owns
<1>2. ~Owns(o) => buf[o].s = 0
  BY DEF BlockHasOneOwner, Owns
<1>3. Owns(o) => buf[o].s \in Nat
  BY <1>1, SizesAssumption DEF TypeOK
<1> QED
  BY <1>1, <1>2, <1>3 DEF MayFree, MayRead

\* The block that o frees is no bare pointer of the program's.
LEMMA OwnerApart ==
  ASSUME TypeOK, BlockHasOneOwner, NEW o \in Objects
  PROVE  Freed(o) \subseteq live \ raw
BY DEF BlockHasOneOwner, Freed, Owns, Is

\* Every member function keeps every block with one owner.
LEMMA OwnerStep ==
  ASSUME TypeOK, TypeOK', BlockHasOneOwner, [Next]_vars
  PROVE  BlockHasOneOwner'
<1>1. ASSUME NEW o \in Objects, DefaultCtor(o)
      PROVE  BlockHasOneOwner'
  BY <1>1, BlocksAssumption, NoObjectAssumption, SizesAssumption DEF
     DefaultCtor, memory, Is, Owns, TypeOK, BlockHasOneOwner
<1>2. ASSUME NEW o \in Objects, CtorThrows(o)
      PROVE  BlockHasOneOwner'
  BY <1>2, OwnerKeeps DEF CtorThrows, memory
<1>3. ASSUME NEW o \in Objects, SelfAssign(o)
      PROVE  BlockHasOneOwner'
  BY <1>3, OwnerKeeps DEF SelfAssign, memory
<1>4. ASSUME NEW o \in Objects, Dtor(o)
      PROVE  BlockHasOneOwner'
  BY <1>4, BlocksAssumption, NoObjectAssumption, SizesAssumption DEF Dtor,
     Freed, Is, Owns, TypeOK, BlockHasOneOwner
<1>5. ASSUME NEW o \in Objects, Release(o)
      PROVE  BlockHasOneOwner'
  BY <1>5, BlocksAssumption, NoObjectAssumption, SizesAssumption DEF Release,
     Freed, memory, Is, Owns, TypeOK, BlockHasOneOwner
<1>6. ASSUME NEW o \in Objects, Send(o)
      PROVE  BlockHasOneOwner'
  BY <1>6, BlocksAssumption, NoObjectAssumption, SizesAssumption DEF Send,
     Freed, Is, Owns, TypeOK, BlockHasOneOwner
<1>7. ASSUME NEW o \in Objects, SendThrows(o)
      PROVE  BlockHasOneOwner'
  BY <1>7, OwnerKeeps DEF SendThrows, memory
<1>8. ASSUME NEW o \in Objects, NEW x \in Data, Write(o, x)
      PROVE  BlockHasOneOwner'
  BY <1>8, OwnerKeeps DEF Write
<1>9. ASSUME NEW o \in Objects, NEW b \in Blocks, RawCtor(o, b)
      PROVE  BlockHasOneOwner'
  <2>1. /\ buf' = [buf EXCEPT ![o] = [d |-> b, s |-> size'[b]]]
        /\ \A c \in Blocks \ {b} : size'[c] = size[c]
    BY <1>9 DEF RawCtor, memory, TypeOK
  <2>2. /\ b \notin (live \ raw) \ Freed(o)
        /\ live' \ raw' = ((live \ raw) \ Freed(o)) \cup {b}
    BY <1>9 DEF RawCtor, memory, TypeOK, Freed, Owns
  <2> QED
    BY <2>1, <2>2, OwnerGains
<1>10. ASSUME NEW o \in Objects, NEW n \in Sizes, NEW b \in Blocks,
              SizeCtor(o, n, b)
       PROVE  BlockHasOneOwner'
  <2>1. /\ buf' = [buf EXCEPT ![o] = [d |-> b, s |-> size'[b]]]
        /\ \A c \in Blocks \ {b} : size'[c] = size[c]
    BY <1>10 DEF SizeCtor, Alloc, TypeOK
  <2>2. /\ b \notin (live \ raw) \ Freed(o)
        /\ live' \ raw' = ((live \ raw) \ Freed(o)) \cup {b}
    BY <1>10 DEF SizeCtor, Alloc, TypeOK, Freed, Owns
  <2> QED
    BY <2>1, <2>2, OwnerGains
<1>11. ASSUME NEW o \in Objects, NEW rhs \in Objects, MoveCtor(o, rhs)
       PROVE  BlockHasOneOwner'
  BY <1>11, BlocksAssumption, NoObjectAssumption, SizesAssumption DEF MoveCtor,
     memory, Is, Owns, TypeOK, BlockHasOneOwner
<1>12. ASSUME NEW o \in Objects, NEW rhs \in Objects, CopyAssignSame(o, rhs)
       PROVE  BlockHasOneOwner'
  BY <1>12, OwnerKeeps DEF CopyAssignSame
<1>13. ASSUME NEW o \in Objects, NEW rhs \in Objects, CopyAssignThrows(o, rhs)
       PROVE  BlockHasOneOwner'
  BY <1>13, BlocksAssumption, NoObjectAssumption, SizesAssumption DEF
     CopyAssignThrows, Freed, Is, Owns, TypeOK, BlockHasOneOwner
<1>14. ASSUME NEW o \in Objects, NEW rhs \in Objects, MoveAssign(o, rhs)
       PROVE  BlockHasOneOwner'
  BY <1>14, BlocksAssumption, NoObjectAssumption, SizesAssumption DEF
     MoveAssign, Freed, Is, Owns, TypeOK, BlockHasOneOwner
<1>15. ASSUME NEW o \in Objects, NEW rhs \in Objects, NEW b \in Blocks,
              CopyCtor(o, rhs, b)
       PROVE  BlockHasOneOwner'
  <2>1. /\ buf' = [buf EXCEPT ![o] = [d |-> b, s |-> size'[b]]]
        /\ \A c \in Blocks \ {b} : size'[c] = size[c]
    BY <1>15 DEF CopyCtor, Alloc, TypeOK
  <2>2. /\ b \notin (live \ raw) \ Freed(o)
        /\ live' \ raw' = ((live \ raw) \ Freed(o)) \cup {b}
    BY <1>15 DEF CopyCtor, Alloc, TypeOK, Freed, Owns
  <2> QED
    BY <2>1, <2>2, OwnerGains
<1>16. ASSUME NEW o \in Objects, NEW rhs \in Objects, NEW b \in Blocks,
              CopyAssign(o, rhs, b)
       PROVE  BlockHasOneOwner'
  <2>1. /\ buf' = [buf EXCEPT ![o] = [d |-> b, s |-> size'[b]]]
        /\ \A c \in Blocks \ {b} : size'[c] = size[c]
    BY <1>16 DEF CopyAssign, Alloc, TypeOK
  <2>2. /\ b \notin (live \ raw) \ Freed(o)
        /\ live' \ raw' = ((live \ raw) \ Freed(o)) \cup {b}
    BY <1>16, OwnerApart DEF CopyAssign, Alloc, TypeOK
  <2> QED
    BY <2>1, <2>2, OwnerGains
<1>17. ASSUME NEW b \in Blocks, FreeRaw(b)
       PROVE  BlockHasOneOwner'
  BY <1>17, BlocksAssumption, NoObjectAssumption, SizesAssumption DEF FreeRaw,
     Is, Owns, TypeOK, BlockHasOneOwner
<1>18. CASE UNCHANGED vars
  BY <1>18, OwnerKeeps DEF vars, memory
<1> QED
  BY <1>1, <1>2, <1>3, <1>4, <1>5, <1>6, <1>7, <1>8, <1>9, <1>10, <1>11, <1>12,
     <1>13, <1>14, <1>15, <1>16, <1>17, <1>18 DEF Next

\* No member function gives nng_free or memcpy a wrong pointer or size.
LEMMA FaultStep ==
  ASSUME TypeOK, BlockHasOneOwner, NoFault, [Next]_vars
  PROVE  NoFault'
<1> USE DEF NoFault
<1>1. ASSUME NEW o \in Objects, DefaultCtor(o)
      PROVE  NoFault'
  BY <1>1 DEF DefaultCtor, memory
<1>2. ASSUME NEW o \in Objects, CtorThrows(o)
      PROVE  NoFault'
  BY <1>2 DEF CtorThrows, memory
<1>3. ASSUME NEW o \in Objects, SelfAssign(o)
      PROVE  NoFault'
  BY <1>3 DEF SelfAssign, memory
<1>4. ASSUME NEW o \in Objects, Dtor(o)
      PROVE  NoFault'
  BY <1>4, OwnerMay DEF Dtor, Check
<1>5. ASSUME NEW o \in Objects, Release(o)
      PROVE  NoFault'
  BY <1>5 DEF Release, memory
<1>6. ASSUME NEW o \in Objects, Send(o)
      PROVE  NoFault'
  BY <1>6, OwnerMay DEF Send, Check
<1>7. ASSUME NEW o \in Objects, SendThrows(o)
      PROVE  NoFault'
  BY <1>7 DEF SendThrows, memory
<1>8. ASSUME NEW o \in Objects, NEW x \in Data, Write(o, x)
      PROVE  NoFault'
  BY <1>8, OwnerMay DEF Write, Check, Owns
<1>9. ASSUME NEW o \in Objects, NEW b \in Blocks, RawCtor(o, b)
      PROVE  NoFault'
  BY <1>9 DEF RawCtor, memory
<1>10. ASSUME NEW o \in Objects, NEW n \in Sizes, NEW b \in Blocks,
              SizeCtor(o, n, b)
       PROVE  NoFault'
  BY <1>10 DEF SizeCtor
<1>11. ASSUME NEW o \in Objects, NEW rhs \in Objects, MoveCtor(o, rhs)
       PROVE  NoFault'
  BY <1>11 DEF MoveCtor, memory
<1>12. ASSUME NEW o \in Objects, NEW rhs \in Objects, CopyAssignSame(o, rhs)
       PROVE  NoFault'
  BY <1>12, OwnerMay DEF CopyAssignSame, Check
<1>13. ASSUME NEW o \in Objects, NEW rhs \in Objects, CopyAssignThrows(o, rhs)
       PROVE  NoFault'
  BY <1>13, OwnerMay DEF CopyAssignThrows, Check
<1>14. ASSUME NEW o \in Objects, NEW rhs \in Objects, MoveAssign(o, rhs)
       PROVE  NoFault'
  BY <1>14, OwnerMay DEF MoveAssign, Check
<1>15. ASSUME NEW o \in Objects, NEW rhs \in Objects, NEW b \in Blocks,
              CopyCtor(o, rhs, b)
       PROVE  NoFault'
  BY <1>15, OwnerMay DEF CopyCtor, Check
<1>16. ASSUME NEW o \in Objects, NEW rhs \in Objects, NEW b \in Blocks,
              CopyAssign(o, rhs, b)
       PROVE  NoFault'
  BY <1>16, OwnerMay DEF CopyAssign, Check
<1>17. ASSUME NEW b \in Blocks, FreeRaw(b)
       PROVE  NoFault'
  BY <1>17 DEF FreeRaw
<1>18. CASE UNCHANGED vars
  BY <1>18 DEF vars, memory
<1> QED
  BY <1>1, <1>2, <1>3, <1>4, <1>5, <1>6, <1>7, <1>8, <1>9, <1>10, <1>11, <1>12,
     <1>13, <1>14, <1>15, <1>16, <1>17, <1>18 DEF Next

-----------------------------------------------------------------------------
(* The theorems.                                                           *)

\* Before the first constructor there is no block and no owner.
LEMMA InitInv ==
  ASSUME Init
  PROVE  IInv
BY SizesAssumption
   DEF Init, IInv, TypeOK, Calls, BlockHasOneOwner, NoFault, Is, Owns

\* The inductive invariant holds in every reachable state.
THEOREM Invariant == Spec => []IInv
<1>1. Init => IInv
  BY InitInv
<1>2. IInv /\ [Next]_vars => IInv'
  BY TypeStep, OwnerStep, FaultStep DEF IInv
<1> QED
  BY <1>1, <1>2, PTL DEF Spec

\* A buffer's members always are a block or null and a size, and the program
\* never holds a bare pointer to a block that is gone.
THEOREM TypeCorrect == Spec => []TypeOK
<1>1. IInv => TypeOK
  BY DEF IInv
<1> QED
  BY <1>1, Invariant, PTL

\* Copies, moves, release() and failed allocations leave every block with one
\* owner, which knows the size that nng_free needs.
THEOREM OneOwner == Spec => []BlockHasOneOwner
<1>1. IInv => BlockHasOneOwner
  BY DEF IInv
<1> QED
  BY <1>1, Invariant, PTL

\* No destructor, assignment or send frees a block twice or with another size,
\* and no memcpy leaves its block.
THEOREM Safe == Spec => []NoFault
<1>1. IInv => NoFault
  BY DEF IInv
<1> QED
  BY <1>1, Invariant, PTL

-----------------------------------------------------------------------------
(* Refinement of BufferValues.                                             *)

\* The refinement mapping.
Val == [o \in Objects |-> Value(o)]

Blank == [len |-> 0, x |-> Null]

ValuesTyped ==
  \A o \in Objects : Is(o) => Value(o) \in [len : Sizes, x : Data \cup {Null}]

\* Nothing that p's value depends on changes.
Kept(p) == buf'[p] = buf[p] /\ (Owns(p) => bytes'[buf[p].d] = bytes[buf[p].d])

\* A buffer whose members and block do not change keeps its value.
LEMMA ValueKept ==
  ASSUME BlockHasOneOwner, NEW p \in Objects, Kept(p)
  PROVE  Value(p)' = Value(p)
<1>1. Is(p)' <=> Is(p)
  BY DEF Kept, Is
<1>2. CASE ~Is(p)
  BY <1>1, <1>2 DEF Value
<1>3. CASE Is(p) /\ buf[p].s = 0
  BY <1>1, <1>3 DEF Value, Kept
<1>4. CASE Is(p) /\ buf[p].s # 0
  <2>1. Owns(p)
    BY <1>4 DEF BlockHasOneOwner, Owns
  <2> QED
    BY <1>1, <1>4, <2>1 DEF Value, Kept
<1> QED
  BY <1>2, <1>3, <1>4

\* If only o may change, the values change at o only.
LEMMA ValChanges ==
  ASSUME BlockHasOneOwner, NEW o \in Objects,
         \A p \in Objects \ {o} : Kept(p)
  PROVE  Val' = [Val EXCEPT ![o] = Value(o)']
<1>1. \A p \in Objects \ {o} : Value(p)' = Value(p)
  BY ValueKept
<1> QED
  BY <1>1 DEF Val

\* Other owners have other blocks.
LEMMA OthersApart ==
  ASSUME BlockHasOneOwner, NEW o \in Objects, NEW p \in Objects, p # o, Owns(p)
  PROVE  buf[p].d \in live /\ buf[p].d \notin Freed(o) /\ buf[p].d \notin raw
BY DEF BlockHasOneOwner, Owns, Freed

\* The values that the buffers can have.
LEMMA ValueType == TypeOK /\ BlockHasOneOwner => ValuesTyped
<1> SUFFICES ASSUME TypeOK, BlockHasOneOwner, NEW o \in Objects, Is(o)
             PROVE  Value(o) \in [len : Sizes, x : Data \cup {Null}]
  BY DEF ValuesTyped
<1>1. CASE buf[o].s = 0
  <2>1. Value(o) = [len |-> 0, x |-> Null]
    BY <1>1 DEF Value
  <2> QED
    BY <2>1, SizesAssumption
<1>2. CASE buf[o].s # 0
  <2>1. Owns(o)
    BY <1>2 DEF BlockHasOneOwner, Owns
  <2>2. buf[o].d \in Blocks /\ buf[o].s = size[buf[o].d]
    BY <2>1 DEF BlockHasOneOwner, Owns, TypeOK
  <2>3. bytes[buf[o].d] \in Data /\ buf[o].s \in Sizes
    BY <2>2 DEF TypeOK
  <2>4. Value(o) = [len |-> buf[o].s, x |-> bytes[buf[o].d]]
    BY <1>2 DEF Value
  <2> QED
    BY <2>3, <2>4
<1> QED
  BY <1>1, <1>2

\* A buffer that is emptied gets the value Blank.
LEMMA BlankMembers ==
  ASSUME NEW o \in Objects, buf'[o] = [d |-> Null, s |-> 0]
  PROVE  Value(o)' = Blank
<1>1. buf'[o] \in [d : Blocks \cup {Null}, s : Nat]
  OBVIOUS
<1>2. Is(o)'
  BY <1>1, NoObjectAssumption DEF Is
<1> QED
  BY <1>2 DEF Value, Blank

\* A buffer that exists has a value.
LEMMA ValueIs ==
  ASSUME TypeOK, BlockHasOneOwner, NEW o \in Objects, Is(o)
  PROVE  Val[o] # NoObject
<1>1. Value(o) \in [len : Sizes, x : Data \cup {Null}]
  BY ValueType DEF ValuesTyped
<1>2. Value(o) \in [len : Nat, x : Data \cup {Null}]
  BY <1>1, SizesAssumption
<1> QED
  BY <1>2, NoObjectAssumption DEF Val

\* If o gets contents and nothing else changes, that is an Obtain.
LEMMA MapsToObtain ==
  ASSUME TypeOK', BlockHasOneOwner, BlockHasOneOwner', NEW o \in Objects,
         Is(o)', call' = <<"obtain", o>>, \A p \in Objects \ {o} : Kept(p)
  PROVE  Values!Next
<1>1. Val' = [Val EXCEPT ![o] = Value(o)']
  BY ValChanges
<1>2. Value(o)' \in [len : Sizes, x : Data \cup {Null}]
  <2>1. ValuesTyped'
    BY ValueType, PTL
  <2> QED
    BY <2>1 DEF ValuesTyped
<1>3. Values!Obtain(o)
  BY <1>1, <1>2 DEF Values!Obtain, Val
<1> QED
  BY <1>3 DEF Values!Next

\* A buffer that loses its members becomes empty.
LEMMA MapsToEmpty ==
  ASSUME BlockHasOneOwner, NEW o \in Objects,
         buf'[o] = [d |-> Null, s |-> 0],
         call' = <<"empty", o>>, \A p \in Objects \ {o} : Kept(p)
  PROVE  Values!Next
<1>1. Val' = [Val EXCEPT ![o] = Value(o)']
  BY ValChanges
<1>2. Value(o)' = Blank
  BY BlankMembers
<1>3. Values!Empty(o)
  BY <1>1, <1>2 DEF Values!Empty, Val, Blank
<1> QED
  BY <1>3 DEF Values!Next

\* A call that leaves members and bytes alone changes no value.
LEMMA MapsToNothing ==
  ASSUME BlockHasOneOwner, call' = <<"nothing">>, \A p \in Objects : Kept(p)
  PROVE  Values!Next
<1>1. \A p \in Objects : Value(p)' = Value(p)
  BY ValueKept
<1>2. Values!Nothing
  BY <1>1 DEF Values!Nothing
<1> QED
  BY <1>2 DEF Values!Next

\* A buffer that goes away leaves the other values alone.
LEMMA MapsToDestroy ==
  ASSUME TypeOK, BlockHasOneOwner, NEW o \in Objects, Is(o), ~Is(o)',
         call' = <<"destroy", o>>, \A p \in Objects \ {o} : Kept(p)
  PROVE  Values!Next
<1>1. Val' = [Val EXCEPT ![o] = Value(o)']
  BY ValChanges
<1>2. Value(o)' = NoObject
  BY DEF Value
<1>3. Val[o] # NoObject
  BY ValueIs
<1>4. Values!Destroy(o)
  BY <1>1, <1>2, <1>3 DEF Values!Destroy, Values!Is, Val
<1> QED
  BY <1>4 DEF Values!Next

\* A buffer that gets the value of rhs is a copy of it.
LEMMA MapsToCopy ==
  ASSUME TypeOK, BlockHasOneOwner, NEW o \in Objects, NEW rhs \in Objects,
         Is(rhs), Value(o)' = Value(rhs),
         call' = <<"copy", o, rhs>>, \A p \in Objects \ {o} : Kept(p)
  PROVE  Values!Next
<1>1. Val' = [Val EXCEPT ![o] = Value(o)']
  BY ValChanges
<1>2. Val[rhs] # NoObject /\ Val[rhs] = Value(rhs)
  BY ValueIs DEF Val
<1>3. Values!Copy(o, rhs)
  BY <1>1, <1>2 DEF Values!Copy, Values!Is, Val
<1> QED
  BY <1>3 DEF Values!Next

\* Members that change hands take their value with them.
LEMMA MapsToMove ==
  ASSUME TypeOK, BlockHasOneOwner, NEW o \in Objects, NEW rhs \in Objects,
         o # rhs, Is(rhs), bytes' = bytes,
         buf' = [buf EXCEPT ![o] = buf[rhs], ![rhs] = [d |-> Null, s |-> 0]],
         call' = <<"move", o, rhs>>
  PROVE  Values!Next
<1>1. /\ buf'[o] = buf[rhs]
      /\ buf'[rhs] = [d |-> Null, s |-> 0]
      /\ \A p \in Objects \ {o, rhs} : buf'[p] = buf[p]
  BY DEF TypeOK
<1>2. \A p \in Objects \ {o, rhs} : Value(p)' = Value(p)
  BY <1>1, ValueKept DEF Kept
<1>3. Value(rhs)' = Blank
  BY <1>1, BlankMembers
<1>4. Value(o)' = Value(rhs)
  BY <1>1 DEF Value, Is
<1>5. Val[rhs] # NoObject /\ Val[rhs] = Value(rhs)
  BY ValueIs DEF Val
<1>6. Val' = [Val EXCEPT ![o] = Val[rhs], ![rhs] = Blank]
  BY <1>2, <1>3, <1>4, <1>5 DEF Val
<1>7. Values!Move(o, rhs)
  BY <1>5, <1>6 DEF Values!Move, Values!Is, Val, Blank
<1> QED
  BY <1>7 DEF Values!Next

\* A buffer that is given a block exists.
LEMMA HasBlock ==
  ASSUME NEW o \in Objects, NEW b \in Blocks, NEW n \in Sizes,
         buf'[o] = [d |-> b, s |-> n]
  PROVE  Is(o)'
<1>1. buf'[o] \in [d : Blocks \cup {Null}, s : Nat]
  BY SizesAssumption
<1> QED
  BY <1>1, NoObjectAssumption DEF Is

\* A fresh block with the bytes of rhs makes the value of rhs.
LEMMA CopiedValue ==
  ASSUME TypeOK, BlockHasOneOwner, NEW o \in Objects, NEW rhs \in Objects,
         NEW b \in Blocks, Is(rhs), Is(o)',
         buf'[o] = [d |-> b, s |-> buf[rhs].s],
         bytes'[b] \in Copied(rhs)
  PROVE  Value(o)' = Value(rhs)
<1>1. CASE buf[rhs].s = 0
  BY <1>1 DEF Value
<1>2. CASE buf[rhs].s # 0
  <2>1. buf[rhs].d # Null
    BY <1>2 DEF BlockHasOneOwner
  <2>2. bytes'[b] = bytes[buf[rhs].d]
    BY <2>1 DEF Copied
  <2> QED
    BY <1>2, <2>2 DEF Value
<1> QED
  BY <1>1, <1>2

\* Allocation hands out no block of a buffer that stays.
LEMMA AllocKeeps ==
  ASSUME TypeOK, BlockHasOneOwner, NEW o \in Objects, NEW b \in Blocks,
         NEW n, NEW x, Alloc(b, n, Freed(o), x),
         \A p \in Objects \ {o} : buf'[p] = buf[p]
  PROVE  \A p \in Objects \ {o} : Kept(p)
<1> SUFFICES ASSUME NEW p \in Objects \ {o}, Owns(p)
             PROVE  bytes'[buf[p].d] = bytes[buf[p].d]
  BY DEF Kept
<1>1. buf[p].d \in live \ Freed(o)
  BY OthersApart
<1> QED
  BY <1>1 DEF Alloc, TypeOK

\* Every step of a buffer is the operation on values that call names.
LEMMA ValuesStep ==
  ASSUME IInv, IInv', Next
  PROVE  Values!Next
<1> USE DEF IInv
<1>1. ASSUME NEW o \in Objects, DefaultCtor(o)
      PROVE  Values!Next
  <2>1. buf'[o] = [d |-> Null, s |-> 0] /\ \A p \in Objects \ {o} : Kept(p)
    BY <1>1 DEF DefaultCtor, Kept, TypeOK, memory
  <2> QED
    BY <1>1, <2>1, MapsToEmpty DEF DefaultCtor
<1>2. ASSUME NEW o \in Objects, CtorThrows(o)
      PROVE  Values!Next
  BY <1>2, MapsToNothing DEF CtorThrows, Kept, memory
<1>3. ASSUME NEW o \in Objects, SelfAssign(o)
      PROVE  Values!Next
  BY <1>3, MapsToNothing DEF SelfAssign, Kept, memory
<1>4. ASSUME NEW o \in Objects, Dtor(o)
      PROVE  Values!Next
  <2>1. ~Is(o)' /\ \A p \in Objects \ {o} : Kept(p)
    BY <1>4 DEF Dtor, Kept, TypeOK, Is
  <2> QED
    BY <1>4, <2>1, MapsToDestroy DEF Dtor
<1>5. ASSUME NEW o \in Objects, Release(o)
      PROVE  Values!Next
  <2>1. buf'[o] = [d |-> Null, s |-> 0] /\ \A p \in Objects \ {o} : Kept(p)
    BY <1>5 DEF Release, Kept, TypeOK, memory
  <2> QED
    BY <1>5, <2>1, MapsToEmpty DEF Release
<1>6. ASSUME NEW o \in Objects, Send(o)
      PROVE  Values!Next
  <2>1. buf'[o] = [d |-> Null, s |-> 0] /\ \A p \in Objects \ {o} : Kept(p)
    BY <1>6 DEF Send, Kept, TypeOK
  <2> QED
    BY <1>6, <2>1, MapsToEmpty DEF Send
<1>7. ASSUME NEW o \in Objects, SendThrows(o)
      PROVE  Values!Next
  BY <1>7, MapsToNothing DEF SendThrows, Kept, memory
<1>8. ASSUME NEW o \in Objects, NEW x \in Data, Write(o, x)
      PROVE  Values!Next
  <2>1. \A p \in Objects \ {o} : Owns(p) => buf[p].d # buf[o].d
    BY <1>8 DEF Write, BlockHasOneOwner
  <2>2. \A p \in Objects \ {o} : Kept(p)
    BY <1>8, <2>1 DEF Write, Kept, TypeOK
  <2>3. Is(o)'
    BY <1>8 DEF Write, Owns, Is
  <2> QED
    BY <1>8, <2>2, <2>3, MapsToObtain DEF Write
<1>9. ASSUME NEW o \in Objects, NEW b \in Blocks, RawCtor(o, b)
      PROVE  Values!Next
  <2>1. buf'[o] = [d |-> b, s |-> size[b]] /\ \A p \in Objects \ {o} : Kept(p)
    BY <1>9 DEF RawCtor, Kept, TypeOK, memory
  <2>2. Is(o)'
    BY <2>1, HasBlock DEF TypeOK
  <2> QED
    BY <1>9, <2>1, <2>2, MapsToObtain DEF RawCtor
<1>10. ASSUME NEW o \in Objects, NEW n \in Sizes, NEW b \in Blocks,
              SizeCtor(o, n, b)
       PROVE  Values!Next
  <2>1. /\ buf'[o] = [d |-> b, s |-> n]
        /\ \A p \in Objects \ {o} : buf'[p] = buf[p]
    BY <1>10 DEF SizeCtor, TypeOK
  <2>2. PICK x \in Data : Alloc(b, n, Freed(o), x)
    BY <1>10 DEF SizeCtor, Freed, Owns
  <2>3. \A p \in Objects \ {o} : Kept(p)
    BY <2>1, <2>2, AllocKeeps
  <2>4. Is(o)'
    BY <1>10, <2>1, HasBlock DEF SizeCtor, Is, TypeOK
  <2> QED
    BY <1>10, <2>3, <2>4, MapsToObtain DEF SizeCtor
<1>11. ASSUME NEW o \in Objects, NEW rhs \in Objects, MoveCtor(o, rhs)
       PROVE  Values!Next
  BY <1>11, MapsToMove DEF MoveCtor, memory
<1>12. ASSUME NEW o \in Objects, NEW rhs \in Objects, CopyAssignSame(o, rhs)
       PROVE  Values!Next
  <2>1. CASE buf[o].s = 0
    <3>1. \A p \in Objects : Kept(p)
      BY <1>12, <2>1 DEF CopyAssignSame, Kept
    <3>2. Value(o)' = Value(o) /\ Value(o) = Value(rhs)
      BY <1>12, <2>1, <3>1, ValueKept DEF CopyAssignSame, Value
    <3> QED
      BY <1>12, <3>1, <3>2, MapsToCopy DEF CopyAssignSame
  <2>2. CASE buf[o].s # 0
    <3>1. Owns(o) /\ Owns(rhs) /\ buf[o].s > 0 /\ buf[o].d \in Blocks
      <4>1. Owns(o) /\ Owns(rhs)
        BY <1>12, <2>2 DEF CopyAssignSame, BlockHasOneOwner, Owns
      <4>2. buf[o].d \in live /\ buf[o].s = size[buf[o].d]
        BY <4>1 DEF BlockHasOneOwner, Owns
      <4>3. buf[o].d \in Blocks /\ buf[o].s \in Nat
        BY <4>2, SizesAssumption DEF TypeOK
      <4> QED
        BY <2>2, <4>1, <4>3
    <3>2. bytes' = [bytes EXCEPT ![buf[o].d] = bytes[buf[rhs].d]]
      BY <1>12, <3>1 DEF CopyAssignSame, Copied, Owns
    <3>3. \A p \in Objects \ {o} : Kept(p)
      BY <1>12, <3>1, <3>2 DEF CopyAssignSame, Kept, BlockHasOneOwner, TypeOK
    <3>4. bytes'[buf[o].d] = bytes[buf[rhs].d]
      BY <3>1, <3>2 DEF TypeOK
    <3>5. Value(o)' = Value(rhs)
      BY <1>12, <2>2, <3>4 DEF CopyAssignSame, Value, Is
    <3> QED
      BY <1>12, <3>3, <3>5, MapsToCopy DEF CopyAssignSame
  <2> QED
    BY <2>1, <2>2
<1>13. ASSUME NEW o \in Objects, NEW rhs \in Objects, CopyAssignThrows(o, rhs)
       PROVE  Values!Next
  <2>1. buf'[o] = [d |-> Null, s |-> 0] /\ \A p \in Objects \ {o} : Kept(p)
    BY <1>13 DEF CopyAssignThrows, Kept, TypeOK
  <2> QED
    BY <1>13, <2>1, MapsToEmpty DEF CopyAssignThrows
<1>14. ASSUME NEW o \in Objects, NEW rhs \in Objects, MoveAssign(o, rhs)
       PROVE  Values!Next
  BY <1>14, MapsToMove DEF MoveAssign
<1>15. ASSUME NEW o \in Objects, NEW rhs \in Objects, NEW b \in Blocks,
              CopyCtor(o, rhs, b)
       PROVE  Values!Next
  <2>1. /\ buf'[o] = [d |-> b, s |-> buf[rhs].s]
        /\ \A p \in Objects \ {o} : buf'[p] = buf[p]
    BY <1>15 DEF CopyCtor, TypeOK
  <2>2. PICK x \in Copied(rhs) : Alloc(b, buf[rhs].s, Freed(o), x)
    BY <1>15 DEF CopyCtor, Freed, Owns
  <2>3. \A p \in Objects \ {o} : Kept(p)
    BY <2>1, <2>2, AllocKeeps
  <2>4. Is(o)'
    BY <1>15, <2>1, HasBlock DEF CopyCtor, Is, TypeOK
  <2>5. Value(o)' = Value(rhs)
    <3>1. bytes'[b] = x
      BY <2>2 DEF Alloc, TypeOK
    <3> QED
      BY <1>15, <2>1, <2>2, <2>4, <3>1, CopiedValue DEF CopyCtor
  <2> QED
    BY <1>15, <2>3, <2>5, MapsToCopy DEF CopyCtor
<1>16. ASSUME NEW o \in Objects, NEW rhs \in Objects, NEW b \in Blocks,
              CopyAssign(o, rhs, b)
       PROVE  Values!Next
  <2>1. /\ buf'[o] = [d |-> b, s |-> buf[rhs].s]
        /\ \A p \in Objects \ {o} : buf'[p] = buf[p]
    BY <1>16 DEF CopyAssign, TypeOK
  <2>2. PICK x \in Copied(rhs) : Alloc(b, buf[rhs].s, Freed(o), x)
    BY <1>16 DEF CopyAssign
  <2>3. \A p \in Objects \ {o} : Kept(p)
    BY <2>1, <2>2, AllocKeeps
  <2>4. Is(o)'
    BY <1>16, <2>1, HasBlock DEF CopyAssign, Is, TypeOK
  <2>5. Value(o)' = Value(rhs)
    <3>1. bytes'[b] = x
      BY <2>2 DEF Alloc, TypeOK
    <3> QED
      BY <1>16, <2>1, <2>2, <2>4, <3>1, CopiedValue DEF CopyAssign
  <2> QED
    BY <1>16, <2>3, <2>5, MapsToCopy DEF CopyAssign
<1>17. ASSUME NEW b \in Blocks, FreeRaw(b)
       PROVE  Values!Next
  BY <1>17, MapsToNothing DEF FreeRaw, Kept
<1> QED
  BY <1>1, <1>2, <1>3, <1>4, <1>5, <1>6, <1>7, <1>8, <1>9, <1>10, <1>11, <1>12,
     <1>13, <1>14, <1>15, <1>16, <1>17 DEF Next

\* Buffers behave as independent values, whatever blocks nng_alloc returns and
\* whenever it fails: the refinement that ImplementsBufferValues states.
THEOREM Refinement == Spec => ImplementsBufferValues
<1>1. Init => Values!Init
  BY DEF Init, Values!Init, Value, Is
<1>2. IInv /\ IInv' /\ [Next]_vars => [Values!Next]_<<call, Val>>
  <2>1. ASSUME UNCHANGED vars
        PROVE  UNCHANGED <<call, Val>>
    BY <2>1 DEF vars, memory, Val, Value, Is
  <2> QED
    BY <2>1, ValuesStep
<1>3. IInv /\ IInv' /\ [Next]_vars
        => [Values!Next]_<<call, [o \in Objects |-> Value(o)]>>
  BY <1>2 DEF Val
<1> QED
  BY <1>1, <1>3, Invariant, PTL DEF Spec, Values!Spec, ImplementsBufferValues
=============================================================================
