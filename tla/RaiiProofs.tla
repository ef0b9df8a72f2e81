----------------------------- MODULE RaiiProofs -----------------------------
(***************************************************************************)
(* The ownership rules of the RAII classes, proved for any number of       *)
(* objects and handles and for any class that the traits can describe.     *)
(***************************************************************************)
EXTENDS Raii, FiniteSetTheorems, TLAPS

Contents == Handles \cup {Null, NoObject}

\* Without reference counting there is at most one reference to a resource.
Exclusive == ~cls.shared => \A h \in Handles : refs[h] <= 1

\* RefsHaveOneOwner and NoFault while no copy assignment has left an object
\* with a freed handle.
Accounts == \A h \in Handles : refs[h] = Held(obj, h) + Elsewhere(h)
NoneDead == fault = "none"

\* What holds until then.
Owned == Accounts /\ NoneDead /\ Exclusive

\* The inductive invariant.  Accounts makes NoneDead inductive: who
\* frees a resource held a reference to it.  Exclusive makes the count of
\* abandoned resources right: nobody else holds what a destructor abandons.
IInv == TypeOK /\ (dangling = 0 => Owned)

One(x, h) == IF x = h THEN 1 ELSE 0

\* g is f but for the content of object o.
Replaces(f, g, o) ==
  /\ f \in [Objects -> Contents]
  /\ g \in [Objects -> Contents]
  /\ \A p \in Objects \ {o} : g[p] = f[p]

\* The number of holders changes by what o held and by what it holds now.
Balanced(f, g, o, h) == Held(g, h) + One(f[o], h) = Held(f, h) + One(g[o], h)

\* m is f after the content of rhs moved to o.
Moves(f, m, o, rhs) ==
  /\ f \in [Objects -> Contents]
  /\ m \in [Objects -> Contents]
  /\ m = [f EXCEPT ![o] = f[rhs], ![rhs] = Null]
BalancedMove(f, m, o, h) == Held(m, h) + One(f[o], h) = Held(f, h)

-----------------------------------------------------------------------------
(* Counting the objects that hold a handle.                                *)

\* The objects that hold a given handle are finitely many.
LEMMA HoldersFinite ==
  ASSUME NEW f, NEW h
  PROVE  /\ IsFiniteSet(Holders(f, h))
         /\ Held(f, h) \in Nat
<1>1. Holders(f, h) \subseteq Objects
  BY DEF Holders
<1>2. IsFiniteSet(Holders(f, h))
  BY <1>1, ObjectsAssumption, FS_Subset
<1> QED
  BY <1>2, FS_CardinalityType DEF Held

\* What replacing the content of one object does to the number of holders.
LEMMA HoldersUpdate ==
  ASSUME NEW f, NEW g, NEW o \in Objects, Replaces(f, g, o), NEW h \in Handles
  PROVE  Balanced(f, g, o, h)
<1>0. /\ IsFiniteSet(Holders(f, h))
      /\ Held(f, h) \in Nat
      /\ IsFiniteSet(Holders(g, h))
      /\ Held(g, h) \in Nat
  BY HoldersFinite
<1>1. CASE f[o] = h /\ g[o] = h
  <2>1. Holders(g, h) = Holders(f, h)
    BY <1>1 DEF Holders, Replaces
  <2> QED
    BY <1>0, <1>1, <2>1 DEF One, Held, Balanced
<1>2. CASE f[o] # h /\ g[o] # h
  <2>1. Holders(g, h) = Holders(f, h)
    BY <1>2 DEF Holders, Replaces
  <2> QED
    BY <1>0, <1>2, <2>1 DEF One, Held, Balanced
<1>3. CASE f[o] = h /\ g[o] # h
  <2>1. Holders(g, h) = Holders(f, h) \ {o} /\ o \in Holders(f, h)
    BY <1>3 DEF Holders, Replaces
  <2>2. Held(g, h) = Held(f, h) - 1
    BY <1>0, <2>1, FS_RemoveElement DEF Held
  <2> QED
    BY <1>0, <1>3, <2>2 DEF One, Held, Balanced
<1>4. CASE f[o] # h /\ g[o] = h
  <2>1. Holders(g, h) = Holders(f, h) \cup {o} /\ o \notin Holders(f, h)
    BY <1>4 DEF Holders, Replaces
  <2>2. Held(g, h) = Held(f, h) + 1
    BY <1>0, <2>1, FS_AddElement DEF Held
  <2> QED
    BY <1>0, <1>4, <2>2 DEF One, Held, Balanced
<1> QED
  BY <1>1, <1>2, <1>3, <1>4

\* A move takes the place of what the target held, and nothing else changes.
LEMMA HoldersMove ==
  ASSUME NEW f, NEW m, NEW o \in Objects, NEW rhs \in Objects, o # rhs,
         Moves(f, m, o, rhs), NEW h \in Handles
  PROVE  BalancedMove(f, m, o, h)
<1>1. PICK g \in [Objects -> Contents] : g = [f EXCEPT ![o] = f[rhs]]
  BY DEF Moves
<1>2. /\ Replaces(f, g, o)
      /\ Replaces(g, m, rhs)
      /\ g[o] = f[rhs]
      /\ g[rhs] = f[rhs]
      /\ m[rhs] = Null
  BY <1>1 DEF Replaces, Moves
<1>3. Balanced(f, g, o, h)
  BY <1>2, HoldersUpdate
<1>4. Balanced(g, m, rhs, h)
  BY <1>2, HoldersUpdate
<1>5. /\ Held(f, h) \in Nat
      /\ Held(g, h) \in Nat
      /\ Held(m, h) \in Nat
  BY HoldersFinite
<1>6. One(m[rhs], h) = 0 /\ One(g[rhs], h) = One(g[o], h)
      /\ One(g[o], h) \in Nat /\ One(f[o], h) \in Nat
  BY <1>2, NullAssumption DEF One, Held, Balanced
<1> QED
  BY <1>3, <1>4, <1>5, <1>6 DEF Balanced, BalancedMove

\* The number of references outside the objects is a natural number.
LEMMA ElsewhereType ==
  ASSUME TypeOK, NEW h \in Handles
  PROVE  Elsewhere(h) \in Nat
BY DEF TypeOK, Elsewhere

\* An object that holds a handle accounts for one of its references.
LEMMA HolderHasRef ==
  ASSUME TypeOK, Accounts, NEW o \in Objects, Holding(o)
  PROVE  refs[obj[o]] >= 1
<1>1. PICK h \in Handles : h = obj[o]
  BY DEF Holding
<1>2. IsFiniteSet(Holders(obj, h)) /\ Held(obj, h) \in Nat
  BY HoldersFinite
<1>3. Held(obj, h) # 0
  <2>1. o \in Holders(obj, h)
    BY <1>1 DEF Holders
  <2> QED
    BY <1>2, <2>1, FS_EmptySet DEF Held
<1>4. Elsewhere(h) \in Nat
  BY ElsewhereType
<1>5. refs[h] = Held(obj, h) + Elsewhere(h)
  BY DEF Accounts
<1> QED
  BY <1>1, <1>2, <1>3, <1>4, <1>5

\* A step that replaces the content of one object keeps the accounts right if
\* the references change by what that object lost and gained and by what
\* moved between the objects and the rest of the world.
LEMMA AccountUpdate ==
  ASSUME TypeOK, TypeOK', Accounts,
         NEW o \in Objects, Replaces(obj, obj', o),
         \A h \in Handles :
           refs'[h] + One(obj[o], h) + Elsewhere(h)
             = refs[h] + One(obj'[o], h) + Elsewhere(h)'
  PROVE  Accounts'
<1> SUFFICES ASSUME NEW h \in Handles
             PROVE  refs'[h] = Held(obj', h) + Elsewhere(h)'
  BY DEF Accounts
<1>1. Balanced(obj, obj', o, h)
  BY HoldersUpdate
<1>2. Held(obj, h) \in Nat /\ Held(obj', h) \in Nat
  BY HoldersFinite DEF Held
<1>3. refs[h] \in Nat /\ refs'[h] \in Nat
  BY DEF TypeOK
<1>4. One(obj[o], h) \in Nat /\ One(obj'[o], h) \in Nat
  BY DEF One
<1>5. Elsewhere(h) \in Nat /\ Elsewhere(h)' \in Nat
  BY DEF TypeOK, Elsewhere
<1>6. refs[h] = Held(obj, h) + Elsewhere(h)
  BY DEF Accounts
<1>7. refs'[h] + One(obj[o], h) + Elsewhere(h)
        = refs[h] + One(obj'[o], h) + Elsewhere(h)'
  OBVIOUS
<1> QED
  BY <1>1, <1>2, <1>3, <1>4, <1>5, <1>6, <1>7 DEF Balanced

\* The same for a move assignment, which changes two objects.
LEMMA AccountMove ==
  ASSUME TypeOK, TypeOK', Accounts,
         NEW o \in Objects, NEW rhs \in Objects, o # rhs,
         obj' = [obj EXCEPT ![o] = obj[rhs], ![rhs] = Null],
         \A h \in Handles : refs'[h] + One(obj[o], h) = refs[h],
         UNCHANGED <<raw, lib, abandoned>>
  PROVE  Accounts'
<1> SUFFICES ASSUME NEW h \in Handles
             PROVE  refs'[h] = Held(obj', h) + Elsewhere(h)'
  BY DEF Accounts
<1>1. Moves(obj, obj', o, rhs)
  BY DEF TypeOK, Contents, Moves
<1>2. BalancedMove(obj, obj', o, h)
  BY <1>1, HoldersMove
<1>3. Held(obj, h) \in Nat /\ Held(obj', h) \in Nat
  BY HoldersFinite DEF Held
<1>4. refs[h] \in Nat /\ refs'[h] \in Nat
  BY DEF TypeOK
<1>5. One(obj[o], h) \in Nat /\ Elsewhere(h) \in Nat
  BY ElsewhereType DEF One
<1>6. Elsewhere(h)' = Elsewhere(h)
  BY DEF Elsewhere
<1>7. refs[h] = Held(obj, h) + Elsewhere(h)
  BY DEF Accounts
<1>8. refs'[h] + One(obj[o], h) = refs[h]
  OBVIOUS
<1> QED
  BY <1>2, <1>3, <1>4, <1>5, <1>6, <1>7, <1>8 DEF BalancedMove

\* The same for a step that changes no object.
LEMMA AccountSame ==
  ASSUME TypeOK, TypeOK', Accounts, obj' = obj,
         \A h \in Handles :
           refs'[h] + Elsewhere(h) = refs[h] + Elsewhere(h)'
  PROVE  Accounts'
<1> SUFFICES ASSUME NEW h \in Handles
             PROVE  refs'[h] = Held(obj', h) + Elsewhere(h)'
  BY DEF Accounts
<1>1. Held(obj', h) = Held(obj, h) /\ Held(obj, h) \in Nat
  BY HoldersFinite DEF Held
<1>2. refs[h] \in Nat /\ refs'[h] \in Nat
  BY DEF TypeOK
<1>3. Elsewhere(h) \in Nat /\ Elsewhere(h)' \in Nat
  BY DEF TypeOK, Elsewhere
<1>4. refs[h] = Held(obj, h) + Elsewhere(h)
  BY DEF Accounts
<1>5. refs'[h] + Elsewhere(h) = refs[h] + Elsewhere(h)'
  OBVIOUS
<1> QED
  BY <1>1, <1>2, <1>3, <1>4, <1>5

-----------------------------------------------------------------------------
(* The type invariant.                                                     *)

\* One more reference.
LEMMA PlusFacts ==
  ASSUME NEW f \in [Handles -> Nat], NEW h \in Handles
  PROVE  /\ Plus(f, h) \in [Handles -> Nat]
         /\ \A x \in Handles : Plus(f, h)[x] = f[x] + One(h, x)
BY DEF Plus, One

\* One reference less.
LEMMA MinusFacts ==
  ASSUME NEW f \in [Handles -> Nat], NEW h \in Handles, f[h] # 0
  PROVE  /\ Minus(f, h) \in [Handles -> Nat]
         /\ \A x \in Handles : Minus(f, h)[x] + One(h, x) = f[x]
BY DEF Minus, One

\* A free keeps the types of what it changes.
LEMMA FreeType ==
  ASSUME TypeOK, NEW h \in Handles, Free(h)
  PROVE  /\ refs' \in [Handles -> Nat]
         /\ closed' \in SUBSET Handles
         /\ fault' \in {"none", "dead"}
<1>1. RefsWithout(h) \in [Handles -> Nat]
  BY MinusFacts DEF TypeOK, RefsWithout, Fresh
<1> QED
  BY <1>1 DEF TypeOK, Free

\* Every action keeps the types of the variables.
LEMMA TypeStep ==
  ASSUME TypeOK, [Next]_vars
  PROVE  TypeOK'
<1> USE DEF TypeOK, library
<1>1. ASSUME NEW o \in Objects, DefaultCtor(o)
      PROVE  TypeOK'
  BY <1>1 DEF DefaultCtor
<1>2. ASSUME NEW o \in Objects, AcquireCtorThrows(o)
      PROVE  TypeOK'
  BY <1>2 DEF AcquireCtorThrows
<1>3. ASSUME NEW o \in Objects, SelfAssign(o)
      PROVE  TypeOK'
  BY <1>3 DEF SelfAssign
<1>4. ASSUME NEW o \in Objects, Dtor(o)
      PROVE  TypeOK'
  BY <1>4, FreeType DEF Dtor, Holding
<1>5. ASSUME NEW o \in Objects, Release(o)
      PROVE  TypeOK'
  BY <1>5, PlusFacts DEF Release, Holding
<1>6. ASSUME NEW o \in Objects, Give(o)
      PROVE  TypeOK'
  BY <1>6, PlusFacts DEF Give, Holding
<1>7. ASSUME NEW o \in Objects, GiveThrows(o)
      PROVE  TypeOK'
  BY <1>7 DEF GiveThrows
<1>8. ASSUME NEW o \in Objects, NEW h \in Handles, HandleCtor(o, h)
      PROVE  TypeOK'
  <2>1. raw \in [Handles -> Nat] /\ raw[h] # 0
    BY <1>8 DEF HandleCtor
  <2>2. Minus(raw, h) \in [Handles -> Nat]
    BY <2>1, MinusFacts
  <2> QED
    BY <1>8, <2>2 DEF HandleCtor
<1>9. ASSUME NEW o \in Objects, NEW h \in Handles, AcquireCtor(o, h)
      PROVE  TypeOK'
  BY <1>9, PlusFacts DEF AcquireCtor
<1>10. ASSUME NEW o \in Objects, NEW h \in Handles, HoldCtor(o, h)
       PROVE  TypeOK'
  BY <1>10, PlusFacts DEF HoldCtor
<1>11. ASSUME NEW o \in Objects, NEW h \in Handles, TakeBack(o, h)
       PROVE  TypeOK'
  <2>1. lib \in [Handles -> Nat] /\ lib[h] # 0
    BY <1>11 DEF TakeBack
  <2>2. Minus(lib, h) \in [Handles -> Nat]
    BY <2>1, MinusFacts
  <2> QED
    BY <1>11, <2>2 DEF TakeBack
<1>12. ASSUME NEW o \in Objects, NEW rhs \in Objects, MoveCtor(o, rhs)
       PROVE  TypeOK'
  BY <1>12 DEF MoveCtor
<1>13. ASSUME NEW o \in Objects, NEW rhs \in Objects, CopyCtorThrows(o, rhs)
       PROVE  TypeOK'
  BY <1>13 DEF CopyCtorThrows
<1>14. ASSUME NEW o \in Objects, NEW rhs \in Objects, MoveAssign(o, rhs)
       PROVE  TypeOK'
  BY <1>14, FreeType DEF MoveAssign, Holding
<1>15. ASSUME NEW o \in Objects, NEW rhs \in Objects, MoveAssignThrows(o, rhs)
       PROVE  TypeOK'
  BY <1>15 DEF MoveAssignThrows
<1>16. ASSUME NEW o \in Objects, NEW rhs \in Objects, NEW h \in Handles, CopyCtor(o, rhs, h)
       PROVE  TypeOK'
  BY <1>16, PlusFacts DEF CopyCtor
<1>17. ASSUME NEW o \in Objects, NEW rhs \in Objects, NEW h \in Handles, CopyAssign(o, rhs, h)
       PROVE  TypeOK'
  BY <1>17, PlusFacts, MinusFacts DEF CopyAssign, RefsWithout, Fresh, Holding
<1>18. ASSUME NEW h \in Handles, HandedOut(h)
       PROVE  TypeOK'
  BY <1>18, PlusFacts DEF HandedOut
<1>19. ASSUME NEW h \in Handles, FreeRaw(h)
       PROVE  TypeOK'
  <2>1. raw \in [Handles -> Nat] /\ raw[h] # 0
    BY <1>19 DEF FreeRaw
  <2>2. Minus(raw, h) \in [Handles -> Nat]
    BY <2>1, MinusFacts
  <2> QED
    BY <1>19, <2>2, FreeType DEF FreeRaw
<1>20. ASSUME NEW h \in Handles, LibraryFrees(h)
       PROVE  TypeOK'
  <2>1. lib \in [Handles -> Nat] /\ lib[h] # 0
    BY <1>20 DEF LibraryFrees
  <2>2. Minus(lib, h) \in [Handles -> Nat]
    BY <2>1, MinusFacts
  <2> QED
    BY <1>20, <2>2, FreeType DEF LibraryFrees
<1>21. ASSUME NEW h \in Handles, ClosedElsewhere(h)
       PROVE  TypeOK'
  BY <1>21 DEF ClosedElsewhere
<1>22. ASSUME NEW o \in Objects, NEW rhs \in Objects, CopyAssignThrows(o, rhs)
       PROVE  TypeOK'
  BY <1>22, FreeType DEF CopyAssignThrows, Holding
<1>23. CASE UNCHANGED vars
  BY <1>23 DEF vars
<1> QED
  BY <1>1, <1>2, <1>3, <1>4, <1>5, <1>6, <1>7, <1>8, <1>9, <1>10, <1>11,
     <1>12, <1>13, <1>14, <1>15, <1>16, <1>17, <1>18, <1>19, <1>20, <1>21,
     <1>22, <1>23
     DEF Next

\* Initially there is no object and no resource.
LEMMA TypeInit ==
  ASSUME Init
  PROVE  TypeOK
BY DEF Init, TypeOK

\* Every object of every class always holds a handle, holds null, or is gone,
\* and no operation lets a reference count leave the natural numbers.
THEOREM TypeCorrect == Spec => []TypeOK
<1>1. Init => TypeOK
  BY TypeInit
<1>2. TypeOK /\ [Next]_vars => TypeOK'
  BY TypeStep
<1> QED
  BY <1>1, <1>2, PTL DEF Spec

-----------------------------------------------------------------------------
(* Ownership.                                                              *)

\* A free by somebody who has a reference is no fault.
LEMMA FreeFacts ==
  ASSUME TypeOK, NoneDead, NEW h \in Handles, refs[h] # 0, Free(h)
  PROVE  /\ NoneDead'
         /\ \A x \in Handles : refs'[x] + One(h, x) = refs[x]
<1>1. refs \in [Handles -> Nat] /\ ~Fresh(h)
  BY DEF TypeOK, Fresh
<1>2. refs' = Minus(refs, h) /\ fault' = fault
  BY <1>1 DEF Free, RefsWithout
<1> QED
  BY <1>1, <1>2, MinusFacts DEF NoneDead

\* Exclusive survives when no reference is added.
LEMMA ExclusiveShrinks ==
  ASSUME TypeOK, TypeOK', Exclusive, cls' = cls,
         \A h \in Handles : refs'[h] <= refs[h]
  PROVE  Exclusive'
<1>1. \A h \in Handles : refs[h] \in Nat /\ refs'[h] \in Nat
  BY DEF TypeOK
<1> QED
  BY <1>1 DEF Exclusive

\* Nothing that the invariant mentions changes.
LEMMA QuietStep ==
  ASSUME Owned, UNCHANGED <<cls, obj, raw, lib, refs, abandoned, fault>>
  PROVE  Owned'
BY DEF Owned, Accounts, Held, Holders, Elsewhere, NoneDead, Exclusive

\* T()
LEMMA DefaultCtorStep ==
  ASSUME TypeOK, TypeOK', Owned, NEW o \in Objects, DefaultCtor(o)
  PROVE  Owned'
<1>1. Replaces(obj, obj', o) /\ obj[o] = NoObject /\ obj'[o] = Null
  BY DEF DefaultCtor, Replaces, Contents, TypeOK, Alive
<1>2. UNCHANGED <<cls, raw, lib, refs, abandoned, fault>>
  BY DEF DefaultCtor, library
<1>3. Accounts'
  <2>1. ASSUME NEW x \in Handles
        PROVE  refs'[x] + One(obj[o], x) + Elsewhere(x)
                 = refs[x] + One(obj'[o], x) + Elsewhere(x)'
    <3>1. One(obj[o], x) = 0 /\ One(obj'[o], x) = 0
      BY <1>1, NullAssumption, NoObjectAssumption DEF One
    <3> QED
      BY <1>2, <3>1 DEF Elsewhere
  <2> QED
    BY <1>1, <2>1, AccountUpdate DEF Owned
<1> QED
  BY <1>2, <1>3 DEF Owned, NoneDead, Exclusive

\* A new reference goes to a new object.
LEMMA NewReference ==
  ASSUME TypeOK, TypeOK', Owned, NEW o \in Objects, NEW h \in Handles,
         obj[o] \notin Handles, obj' = [obj EXCEPT ![o] = h],
         refs' = Plus(refs, h), Fresh(h) \/ cls.shared,
         UNCHANGED <<cls, raw, lib, abandoned, fault>>
  PROVE  Owned'
<1>1. Replaces(obj, obj', o) /\ obj'[o] = h
  BY DEF Replaces, Contents, TypeOK
<1>2. refs \in [Handles -> Nat]
  BY DEF TypeOK
<1>3. \A x \in Handles : refs'[x] = refs[x] + One(h, x)
  BY <1>2, PlusFacts
<1>4. Accounts'
  <2>1. ASSUME NEW x \in Handles
        PROVE  refs'[x] + One(obj[o], x) + Elsewhere(x)
                 = refs[x] + One(obj'[o], x) + Elsewhere(x)'
    <3>1. One(obj[o], x) = 0 /\ One(obj'[o], x) = One(h, x)
      BY <1>1 DEF One
    <3>2. Elsewhere(x)' = Elsewhere(x) /\ Elsewhere(x) \in Nat
      BY ElsewhereType DEF Elsewhere
    <3>3. refs[x] \in Nat /\ One(h, x) \in Nat
      BY <1>2 DEF One
    <3>4. refs'[x] = refs[x] + One(h, x)
      BY <1>3
    <3> QED
      BY <3>1, <3>2, <3>3, <3>4
  <2> QED
    BY <1>1, <2>1, AccountUpdate DEF Owned
<1>5. Exclusive'
  <2>1. CASE cls.shared
    BY <2>1 DEF Exclusive
  <2>2. CASE ~cls.shared
    <3>1. Fresh(h)
      BY <2>2
    <3>2. ASSUME NEW x \in Handles
          PROVE  refs'[x] <= 1
      BY <1>2, <1>3, <2>2, <3>1 DEF Fresh, One, Owned, Exclusive
    <3> QED
      BY <3>2 DEF Exclusive
  <2> QED
    BY <2>1, <2>2
<1> QED
  BY <1>4, <1>5 DEF Owned, NoneDead

\* A reference changes hands between an object and the rest of the world.
LEMMA Transfer ==
  ASSUME TypeOK, TypeOK', Owned, NEW o \in Objects, Replaces(obj, obj', o),
         \A x \in Handles :
           One(obj[o], x) + Elsewhere(x) = One(obj'[o], x) + Elsewhere(x)',
         UNCHANGED <<cls, refs, fault>>
  PROVE  Owned'
<1>1. ASSUME NEW x \in Handles
      PROVE  refs'[x] + One(obj[o], x) + Elsewhere(x)
               = refs[x] + One(obj'[o], x) + Elsewhere(x)'
  <2>1. /\ refs[x] \in Nat
        /\ One(obj[o], x) \in Nat
        /\ One(obj'[o], x) \in Nat
        /\ Elsewhere(x) \in Nat
        /\ Elsewhere(x)' \in Nat
    BY DEF TypeOK, Elsewhere, One
  <2>2. One(obj[o], x) + Elsewhere(x) = One(obj'[o], x) + Elsewhere(x)'
    OBVIOUS
  <2> QED
    BY <2>1, <2>2
<1>2. Accounts'
  BY <1>1, AccountUpdate DEF Owned
<1> QED
  BY <1>2 DEF Owned, NoneDead, Exclusive

\* explicit T( handle )
LEMMA HandleCtorStep ==
  ASSUME TypeOK, TypeOK', Owned, NEW o \in Objects, NEW h \in Handles,
         HandleCtor(o, h)
  PROVE  Owned'
<1>1. /\ Replaces(obj, obj', o)
      /\ obj[o] = NoObject
      /\ obj'[o] = h
      /\ UNCHANGED <<cls, lib, refs, abandoned, fault>>
  BY DEF HandleCtor, Replaces, Contents, TypeOK, Alive, library
<1>2. raw \in [Handles -> Nat] /\ raw[h] # 0 /\ raw' = Minus(raw, h)
  BY DEF HandleCtor, TypeOK
<1>3. ASSUME NEW x \in Handles
      PROVE  One(obj[o], x) + Elsewhere(x) = One(obj'[o], x) + Elsewhere(x)'
  <2>1. One(obj[o], x) = 0 /\ One(obj'[o], x) = One(h, x)
    BY <1>1, NoObjectAssumption DEF One
  <2>2. raw'[x] + One(h, x) = raw[x]
    BY <1>2, MinusFacts
  <2>3. raw[x] \in Nat /\ raw'[x] \in Nat /\ lib[x] \in Nat /\ One(h, x) \in Nat
    BY DEF TypeOK, One
  <2> QED
    BY <1>1, <2>1, <2>2, <2>3 DEF Elsewhere
<1> QED
  BY <1>1, <1>3, Transfer

\* remove_handler( view )
LEMMA TakeBackStep ==
  ASSUME TypeOK, TypeOK', Owned, NEW o \in Objects, NEW h \in Handles,
         TakeBack(o, h)
  PROVE  Owned'
<1>1. /\ Replaces(obj, obj', o)
      /\ obj[o] = NoObject
      /\ obj'[o] = h
      /\ UNCHANGED <<cls, raw, refs, abandoned, fault>>
  BY DEF TakeBack, Replaces, Contents, TypeOK, Alive
<1>2. lib \in [Handles -> Nat] /\ lib[h] # 0 /\ lib' = Minus(lib, h)
  BY DEF TakeBack, TypeOK
<1>3. ASSUME NEW x \in Handles
      PROVE  One(obj[o], x) + Elsewhere(x) = One(obj'[o], x) + Elsewhere(x)'
  <2>1. One(obj[o], x) = 0 /\ One(obj'[o], x) = One(h, x)
    BY <1>1, NoObjectAssumption DEF One
  <2>2. lib'[x] + One(h, x) = lib[x]
    BY <1>2, MinusFacts
  <2>3. lib[x] \in Nat /\ lib'[x] \in Nat /\ raw[x] \in Nat /\ One(h, x) \in Nat
    BY DEF TypeOK, One
  <2> QED
    BY <1>1, <2>1, <2>2, <2>3 DEF Elsewhere
<1> QED
  BY <1>1, <1>3, Transfer

\* release()
LEMMA ReleaseStep ==
  ASSUME TypeOK, TypeOK', Owned, NEW o \in Objects, Release(o)
  PROVE  Owned'
<1>1. /\ Replaces(obj, obj', o)
      /\ obj[o] \in Handles \/ obj[o] = Null
      /\ obj'[o] = Null
      /\ UNCHANGED <<cls, lib, refs, abandoned, fault>>
  BY DEF Release, Replaces, Contents, TypeOK, Alive, library
<1>2. ASSUME NEW x \in Handles
      PROVE  One(obj[o], x) + Elsewhere(x) = One(obj'[o], x) + Elsewhere(x)'
  <2>1. One(obj'[o], x) = 0
    BY <1>1, NullAssumption DEF One
  <2>2. raw'[x] = raw[x] + One(obj[o], x)
    <3>1. raw \in [Handles -> Nat]
      BY DEF TypeOK
    <3>2. CASE Holding(o)
      <4>1. raw' = Plus(raw, obj[o]) /\ obj[o] \in Handles
        BY <3>2 DEF Release, Holding
      <4> QED
        BY <3>1, <4>1, PlusFacts
    <3>3. CASE ~Holding(o)
      <4>1. raw' = raw /\ One(obj[o], x) = 0
        BY <3>3 DEF Release, Holding, One
      <4> QED
        BY <3>1, <4>1
    <3> QED
      BY <3>2, <3>3
  <2>3. /\ raw[x] \in Nat
        /\ raw'[x] \in Nat
        /\ lib[x] \in Nat
        /\ One(obj[o], x) \in Nat
    BY DEF TypeOK, One
  <2> QED
    BY <1>1, <2>1, <2>2, <2>3 DEF Elsewhere
<1> QED
  BY <1>1, <1>2, Transfer

\* send( msg&& ), add_handler( handler&& )
LEMMA GiveStep ==
  ASSUME TypeOK, TypeOK', Owned, NEW o \in Objects, Give(o)
  PROVE  Owned'
<1>1. /\ Replaces(obj, obj', o)
      /\ obj[o] \in Handles
      /\ obj'[o] = Null
      /\ UNCHANGED <<cls, raw, refs, abandoned, fault>>
  BY DEF Give, Replaces, Contents, TypeOK, Holding
<1>2. ASSUME NEW x \in Handles
      PROVE  One(obj[o], x) + Elsewhere(x) = One(obj'[o], x) + Elsewhere(x)'
  <2>1. One(obj'[o], x) = 0
    BY <1>1, NullAssumption DEF One
  <2>2. lib'[x] = lib[x] + One(obj[o], x)
    <3>1. lib \in [Handles -> Nat] /\ lib' = Plus(lib, obj[o])
      BY DEF TypeOK, Give
    <3> QED
      BY <1>1, <3>1, PlusFacts
  <2>3. /\ lib[x] \in Nat
        /\ lib'[x] \in Nat
        /\ raw[x] \in Nat
        /\ One(obj[o], x) \in Nat
    BY DEF TypeOK, One
  <2> QED
    BY <1>1, <2>1, <2>2, <2>3 DEF Elsewhere
<1> QED
  BY <1>1, <1>2, Transfer

\* T( T&& rhs )
LEMMA MoveCtorStep ==
  ASSUME TypeOK, TypeOK', Owned, NEW o \in Objects, NEW rhs \in Objects,
         MoveCtor(o, rhs)
  PROVE  Owned'
<1>1. /\ o # rhs
      /\ obj[o] = NoObject
      /\ obj' = [obj EXCEPT ![o] = obj[rhs], ![rhs] = Null]
      /\ UNCHANGED <<cls, raw, lib, refs, abandoned, fault>>
  BY DEF MoveCtor, Alive, library
<1>2. ASSUME NEW x \in Handles
      PROVE  refs'[x] + One(obj[o], x) = refs[x]
  <2>1. One(obj[o], x) = 0 /\ refs[x] \in Nat
    BY <1>1, NoObjectAssumption DEF One, TypeOK
  <2> QED
    BY <1>1, <2>1
<1>3. Accounts'
  BY <1>1, <1>2, AccountMove DEF Owned
<1> QED
  BY <1>1, <1>3 DEF Owned, NoneDead, Exclusive

\* operator=( T&& rhs )
LEMMA MoveAssignStep ==
  ASSUME TypeOK, TypeOK', Owned, NEW o \in Objects, NEW rhs \in Objects,
         MoveAssign(o, rhs)
  PROVE  Owned'
<1>1. /\ o # rhs
      /\ obj' = [obj EXCEPT ![o] = obj[rhs], ![rhs] = Null]
      /\ UNCHANGED <<cls, raw, lib, abandoned>>
  BY DEF MoveAssign
<1>2. NoneDead' /\ \A x \in Handles : refs'[x] + One(obj[o], x) = refs[x]
  <2>1. CASE Holding(o)
    <3>1. Free(obj[o]) /\ obj[o] \in Handles
      BY <2>1 DEF MoveAssign, Holding
    <3>2. refs[obj[o]] # 0
      BY <2>1, HolderHasRef DEF Owned
    <3> QED
      BY <3>1, <3>2, FreeFacts DEF Owned
  <2>2. CASE ~Holding(o)
    <3>1. UNCHANGED <<refs, fault>>
      BY <2>2 DEF MoveAssign
    <3>2. ASSUME NEW x \in Handles
          PROVE  refs'[x] + One(obj[o], x) = refs[x]
      <4>1. One(obj[o], x) = 0 /\ refs[x] \in Nat
        BY <2>2 DEF One, Holding, TypeOK
      <4> QED
        BY <3>1, <4>1
    <3> QED
      BY <3>1, <3>2 DEF Owned, NoneDead
  <2> QED
    BY <2>1, <2>2
<1>3. Accounts'
  BY <1>1, <1>2, AccountMove DEF Owned
<1>4. ASSUME NEW x \in Handles
      PROVE  refs'[x] <= refs[x]
  <2>1. refs[x] \in Nat /\ refs'[x] \in Nat /\ One(obj[o], x) \in Nat
    BY DEF TypeOK, One
  <2> QED
    BY <1>2, <2>1
<1>5. Exclusive'
  BY <1>1, <1>4, ExclusiveShrinks DEF Owned
<1> QED
  BY <1>2, <1>3, <1>5 DEF Owned

\* T( const T& rhs )
LEMMA CopyCtorStep ==
  ASSUME TypeOK, TypeOK', Owned, NEW o \in Objects, NEW rhs \in Objects,
         NEW h \in Handles, CopyCtor(o, rhs, h)
  PROVE  Owned'
<1>1. refs[obj[rhs]] # 0
  BY HolderHasRef DEF CopyCtor, Owned
<1>2. /\ obj[o] \notin Handles
      /\ obj' = [obj EXCEPT ![o] = h]
      /\ refs' = Plus(refs, h)
      /\ Fresh(h)
      /\ UNCHANGED <<cls, raw, lib, abandoned, fault>>
  BY <1>1, NoObjectAssumption DEF CopyCtor, Alive, Fresh
<1> QED
  BY <1>2, NewReference

\* T( const T& rhs ) when the duplication fails
LEMMA CopyCtorThrowsStep ==
  ASSUME TypeOK, Owned, NEW o \in Objects, NEW rhs \in Objects,
         CopyCtorThrows(o, rhs)
  PROVE  Owned'
<1>1. refs[obj[rhs]] # 0
  BY HolderHasRef DEF CopyCtorThrows, Owned
<1>2. UNCHANGED <<cls, obj, raw, lib, refs, abandoned, fault>>
  BY <1>1 DEF CopyCtorThrows, Fresh
<1> QED
  BY <1>2, QuietStep

\* ~T()
LEMMA DtorStep ==
  ASSUME TypeOK, TypeOK', Owned, NEW o \in Objects, Dtor(o)
  PROVE  Owned'
<1>1. /\ Replaces(obj, obj', o)
      /\ obj'[o] = NoObject
      /\ UNCHANGED <<cls, raw, lib>>
  BY DEF Dtor, Replaces, Contents, TypeOK
<1>2. ASSUME NEW x \in Handles
      PROVE  One(obj'[o], x) = 0
  BY <1>1, NoObjectAssumption DEF One
<1>3. CASE ~Holding(o)
  <2>1. UNCHANGED <<refs, fault, abandoned>>
    BY <1>3 DEF Dtor
  <2>2. ASSUME NEW x \in Handles
        PROVE  One(obj[o], x) + Elsewhere(x) = One(obj'[o], x) + Elsewhere(x)'
    <3>1. One(obj[o], x) = 0
      BY <1>3 DEF One, Holding
    <3> QED
      BY <1>1, <1>2, <2>1, <3>1 DEF Elsewhere
  <2> QED
    BY <1>1, <2>1, <2>2, Transfer
<1>4. CASE Holding(o) /\ Free(obj[o]) /\ UNCHANGED abandoned
  <2>1. refs[obj[o]] # 0 /\ obj[o] \in Handles
    BY <1>4, HolderHasRef DEF Owned, Holding
  <2>2. NoneDead' /\ \A x \in Handles : refs'[x] + One(obj[o], x) = refs[x]
    BY <1>4, <2>1, FreeFacts DEF Owned
  <2>3. ASSUME NEW x \in Handles
        PROVE  /\ refs'[x] + One(obj[o], x) + Elsewhere(x)
                    = refs[x] + One(obj'[o], x) + Elsewhere(x)'
               /\ refs'[x] <= refs[x]
    <3>1. /\ refs[x] \in Nat
          /\ refs'[x] \in Nat
          /\ One(obj[o], x) \in Nat
          /\ Elsewhere(x) \in Nat
          /\ Elsewhere(x)' = Elsewhere(x)
      BY <1>1, <1>4, ElsewhereType DEF TypeOK, One, Elsewhere
    <3>2. refs'[x] + One(obj[o], x) = refs[x]
      BY <2>2
    <3> QED
      BY <1>2, <3>1, <3>2
  <2>4. Accounts'
    BY <1>1, <2>3, AccountUpdate DEF Owned
  <2>5. Exclusive'
    BY <1>1, <2>3, ExclusiveShrinks DEF Owned
  <2> QED
    BY <2>2, <2>4, <2>5 DEF Owned
<1>5. CASE /\ Holding(o)
           /\ "other" \in CloseResults(obj[o])
           /\ abandoned' = abandoned \cup {obj[o]}
           /\ UNCHANGED <<refs, closed, fault>>
  <2>1. ~cls.shared
    BY <1>5, ClassesAssumption DEF CloseResults, TypeOK, ClassTraits
  <2>2. obj[o] \notin abandoned
    <3>1. PICK h \in Handles : h = obj[o]
      BY <1>5 DEF Holding
    <3>2. refs[h] <= 1 /\ refs[h] = Held(obj, h) + Elsewhere(h)
      BY <2>1 DEF Owned, Exclusive, Accounts
    <3>3. Held(obj, h) \in Nat /\ Held(obj, h) # 0
      <4>1. o \in Holders(obj, h)
        BY <3>1 DEF Holders
      <4> QED
        BY <4>1, HoldersFinite, FS_EmptySet DEF Held
    <3>4. h \in abandoned => Elsewhere(h) >= 1
      BY DEF Elsewhere, TypeOK
    <3> QED
      BY <3>1, <3>2, <3>3, <3>4, ElsewhereType
  <2>3. ASSUME NEW x \in Handles
        PROVE  One(obj[o], x) + Elsewhere(x) = One(obj'[o], x) + Elsewhere(x)'
    <3>1. raw[x] \in Nat /\ lib[x] \in Nat
      BY DEF TypeOK
    <3> QED
      BY <1>1, <1>2, <1>5, <2>2, <3>1 DEF Elsewhere, One
  <2> QED
    BY <1>1, <1>5, <2>3, Transfer
<1> QED
  BY <1>3, <1>4, <1>5 DEF Dtor

\* The program frees a raw handle.
LEMMA FreeRawStep ==
  ASSUME TypeOK, TypeOK', Owned, NEW h \in Handles, FreeRaw(h)
  PROVE  Owned'
<1>1. /\ raw \in [Handles -> Nat]
      /\ raw[h] # 0
      /\ raw' = Minus(raw, h)
      /\ Free(h)
      /\ UNCHANGED <<cls, obj, lib, abandoned>>
  BY DEF FreeRaw, TypeOK
<1>2. refs[h] # 0
  <2>1. refs[h] = Held(obj, h) + Elsewhere(h) /\ Held(obj, h) \in Nat
    BY HoldersFinite DEF Owned, Accounts, Held
  <2>2. Elsewhere(h) \in Nat /\ Elsewhere(h) # 0
    BY <1>1 DEF Elsewhere, TypeOK
  <2> QED
    BY <2>1, <2>2
<1>3. NoneDead' /\ \A x \in Handles : refs'[x] + One(h, x) = refs[x]
  BY <1>1, <1>2, FreeFacts DEF Owned
<1>4. ASSUME NEW x \in Handles
      PROVE  /\ refs'[x] + Elsewhere(x) = refs[x] + Elsewhere(x)'
             /\ refs'[x] <= refs[x]
  <2>1. refs[x] \in Nat /\ refs'[x] \in Nat /\ One(h, x) \in Nat
    BY DEF TypeOK, One
  <2>2. raw[x] \in Nat /\ raw'[x] \in Nat /\ lib[x] \in Nat
    BY DEF TypeOK
  <2>3. raw'[x] + One(h, x) = raw[x] /\ refs'[x] + One(h, x) = refs[x]
    BY <1>1, <1>3, MinusFacts
  <2>4. Elsewhere(x) = Elsewhere(x)' + One(h, x) /\ Elsewhere(x)' \in Nat
    BY <1>1, <2>1, <2>2, <2>3 DEF Elsewhere
  <2> QED
    BY <2>1, <2>3, <2>4
<1>5. Accounts'
  BY <1>1, <1>4, AccountSame DEF Owned
<1>6. Exclusive'
  BY <1>1, <1>4, ExclusiveShrinks DEF Owned
<1> QED
  BY <1>3, <1>5, <1>6 DEF Owned

\* The library frees what it was given.
LEMMA LibraryFreesStep ==
  ASSUME TypeOK, TypeOK', Owned, NEW h \in Handles, LibraryFrees(h)
  PROVE  Owned'
<1>1. /\ lib \in [Handles -> Nat]
      /\ lib[h] # 0
      /\ lib' = Minus(lib, h)
      /\ Free(h)
      /\ UNCHANGED <<cls, obj, raw, abandoned>>
  BY DEF LibraryFrees, TypeOK
<1>2. refs[h] # 0
  <2>1. refs[h] = Held(obj, h) + Elsewhere(h) /\ Held(obj, h) \in Nat
    BY HoldersFinite DEF Owned, Accounts, Held
  <2>2. Elsewhere(h) \in Nat /\ Elsewhere(h) # 0
    BY <1>1 DEF Elsewhere, TypeOK
  <2> QED
    BY <2>1, <2>2
<1>3. NoneDead' /\ \A x \in Handles : refs'[x] + One(h, x) = refs[x]
  BY <1>1, <1>2, FreeFacts DEF Owned
<1>4. ASSUME NEW x \in Handles
      PROVE  /\ refs'[x] + Elsewhere(x) = refs[x] + Elsewhere(x)'
             /\ refs'[x] <= refs[x]
  <2>1. refs[x] \in Nat /\ refs'[x] \in Nat /\ One(h, x) \in Nat
    BY DEF TypeOK, One
  <2>2. lib[x] \in Nat /\ lib'[x] \in Nat /\ raw[x] \in Nat
    BY DEF TypeOK
  <2>3. lib'[x] + One(h, x) = lib[x] /\ refs'[x] + One(h, x) = refs[x]
    BY <1>1, <1>3, MinusFacts
  <2>4. Elsewhere(x) = Elsewhere(x)' + One(h, x) /\ Elsewhere(x)' \in Nat
    BY <1>1, <2>1, <2>2, <2>3 DEF Elsewhere
  <2> QED
    BY <2>1, <2>3, <2>4
<1>5. Accounts'
  BY <1>1, <1>4, AccountSame DEF Owned
<1>6. Exclusive'
  BY <1>1, <1>4, ExclusiveShrinks DEF Owned
<1> QED
  BY <1>3, <1>5, <1>6 DEF Owned

\* The library hands a new handle out.
LEMMA HandedOutStep ==
  ASSUME TypeOK, TypeOK', Owned, NEW h \in Handles, HandedOut(h)
  PROVE  Owned'
<1>1. /\ refs \in [Handles -> Nat] /\ refs' = Plus(refs, h) /\ refs[h] = 0
      /\ raw \in [Handles -> Nat] /\ raw' = Plus(raw, h)
      /\ UNCHANGED <<cls, obj, lib, abandoned, fault>>
  BY DEF HandedOut, TypeOK, Fresh
<1>2. ASSUME NEW x \in Handles
      PROVE  refs'[x] = refs[x] + One(h, x) /\ raw'[x] = raw[x] + One(h, x)
  BY <1>1, PlusFacts
<1>3. ASSUME NEW x \in Handles
      PROVE  refs'[x] + Elsewhere(x) = refs[x] + Elsewhere(x)'
  <2>1. /\ refs[x] \in Nat /\ raw[x] \in Nat /\ lib[x] \in Nat
        /\ One(h, x) \in Nat
    BY DEF TypeOK, One
  <2>2. Elsewhere(x)' = Elsewhere(x) + One(h, x) /\ Elsewhere(x) \in Nat
    BY <1>1, <1>2, <2>1 DEF Elsewhere
  <2> QED
    BY <1>2, <2>1, <2>2
<1>4. Accounts'
  BY <1>1, <1>3, AccountSame DEF Owned
<1>5. Exclusive'
  BY <1>1, <1>2 DEF Owned, Exclusive, One
<1> QED
  BY <1>1, <1>4, <1>5 DEF Owned, NoneDead

\* operator=( const T& rhs ): rhs is alive after the free even if both
\* objects held the same handle.
LEMMA CopyAssignStep ==
  ASSUME TypeOK, TypeOK', Owned, NEW o \in Objects, NEW rhs \in Objects,
         NEW h \in Handles, CopyAssign(o, rhs, h)
  PROVE  Owned'
<1>1. PICK left : left = IF Holding(o) THEN RefsWithout(obj[o]) ELSE refs
  OBVIOUS
<1>2. /\ o # rhs
      /\ obj[rhs] \in Handles
      /\ left[h] = 0
      /\ refs' = Plus(left, h)
      /\ fault' = IF left[obj[rhs]] = 0 \/ (Holding(o) /\ Fresh(obj[o]))
                    THEN "dead" ELSE fault
      /\ obj' = [obj EXCEPT ![o] = h]
      /\ UNCHANGED <<cls, raw, lib, abandoned>>
  BY <1>1 DEF CopyAssign, Holding
<1>3. refs \in [Handles -> Nat] /\ obj \in [Objects -> Contents]
  BY DEF TypeOK, Contents
<1>4. Holding(o) => ~Fresh(obj[o])
  BY HolderHasRef DEF Owned, Fresh
<1>5. /\ left \in [Handles -> Nat]
      /\ \A x \in Handles : left[x] + One(obj[o], x) = refs[x]
  <2>1. CASE Holding(o)
    <3>1. left = Minus(refs, obj[o]) /\ obj[o] \in Handles /\ refs[obj[o]] # 0
      BY <1>1, <1>4, <2>1 DEF RefsWithout, Holding, Fresh
    <3> QED
      BY <1>3, <3>1, MinusFacts
  <2>2. CASE ~Holding(o)
    <3>1. left = refs
      BY <1>1, <2>2
    <3>2. ASSUME NEW x \in Handles
          PROVE  left[x] + One(obj[o], x) = refs[x]
      BY <1>3, <2>2, <3>1 DEF One, Holding
    <3> QED
      BY <1>3, <3>1, <3>2
  <2> QED
    BY <2>1, <2>2
<1>6. left[obj[rhs]] # 0
  <2>1. PICK y \in Handles : y = obj[rhs]
    BY <1>2
  <2>2. PICK g : g = [obj EXCEPT ![o] = Null]
    OBVIOUS
  <2>3. Replaces(obj, g, o) /\ g[o] = Null /\ g[rhs] = y
    BY <1>2, <1>3, <2>1, <2>2 DEF Replaces, Contents
  <2>4. Balanced(obj, g, o, y)
    BY <2>3, HoldersUpdate
  <2>5. Held(g, y) \in Nat /\ Held(g, y) # 0 /\ Held(obj, y) \in Nat
    <3>1. rhs \in Holders(g, y)
      BY <2>3 DEF Holders
    <3> QED
      BY <3>1, HoldersFinite, FS_EmptySet DEF Held
  <2>6. One(g[o], y) = 0 /\ One(obj[o], y) \in Nat
    BY <2>3, NullAssumption DEF One
  <2>7. refs[y] = Held(obj, y) + Elsewhere(y) /\ Elsewhere(y) \in Nat
    BY ElsewhereType DEF Owned, Accounts
  <2>8. left[y] \in Nat /\ left[y] + One(obj[o], y) = refs[y]
    BY <1>5
  <2>9. left[y] # 0
    <3>1. Held(g, y) + One(obj[o], y) = Held(obj, y)
      BY <2>4, <2>5, <2>6 DEF Balanced
    <3>2. left[y] + One(obj[o], y) = Held(obj, y) + Elsewhere(y)
      BY <2>7, <2>8
    <3>3. \A i, j, k, l, m \in Nat :
            i + j = k /\ l + j = k + m /\ i # 0 => l # 0
      OBVIOUS
    <3> QED
      BY <2>5, <2>6, <2>7, <2>8, <3>1, <3>2, <3>3, Zenon
  <2> QED
    BY <2>1, <2>9
<1>7. NoneDead'
  BY <1>2, <1>4, <1>6 DEF Owned, NoneDead
<1>8. ASSUME NEW x \in Handles
      PROVE  refs'[x] = left[x] + One(h, x)
  BY <1>2, <1>5, PlusFacts
<1>9. Accounts'
  <2>1. Replaces(obj, obj', o) /\ obj'[o] = h
    BY <1>2, <1>3 DEF Replaces, Contents
  <2>2. ASSUME NEW x \in Handles
        PROVE  refs'[x] + One(obj[o], x) + Elsewhere(x)
                 = refs[x] + One(obj'[o], x) + Elsewhere(x)'
    <3>1. left[x] \in Nat /\ left[x] + One(obj[o], x) = refs[x]
      BY <1>5
    <3>2. One(obj[o], x) \in Nat /\ One(obj'[o], x) = One(h, x)
            /\ One(h, x) \in Nat
      BY <2>1 DEF One
    <3>3. Elsewhere(x)' = Elsewhere(x) /\ Elsewhere(x) \in Nat
      BY <1>2, ElsewhereType DEF Elsewhere
    <3> QED
      BY <1>8, <3>1, <3>2, <3>3
  <2> QED
    BY <2>1, <2>2, AccountUpdate DEF Owned
<1>10. Exclusive'
  <2>1. ASSUME NEW x \in Handles, ~cls.shared
        PROVE  refs'[x] <= 1
    <3>1. refs[x] <= 1 /\ refs[x] \in Nat
      BY <1>3, <2>1 DEF Owned, Exclusive
    <3>2. left[x] \in Nat /\ left[x] + One(obj[o], x) = refs[x]
      BY <1>5
    <3> QED
      BY <1>2, <1>8, <3>1, <3>2 DEF One
  <2> QED
    BY <1>2, <2>1 DEF Exclusive
<1> QED
  BY <1>7, <1>9, <1>10 DEF Owned

\* Every step keeps the ownership rules.
LEMMA OwnedStep ==
  ASSUME TypeOK, TypeOK', Owned, [Next]_vars, dangling' = 0
  PROVE  Owned'
<1>1. ASSUME NEW o \in Objects, DefaultCtor(o)
      PROVE  Owned'
  BY <1>1, DefaultCtorStep
<1>2. ASSUME NEW o \in Objects, AcquireCtorThrows(o)
      PROVE  Owned'
  BY <1>2, QuietStep DEF AcquireCtorThrows, library
<1>3. ASSUME NEW o \in Objects, SelfAssign(o)
      PROVE  Owned'
  BY <1>3, QuietStep DEF SelfAssign, library
<1>4. ASSUME NEW o \in Objects, Dtor(o)
      PROVE  Owned'
  BY <1>4, DtorStep
<1>5. ASSUME NEW o \in Objects, Release(o)
      PROVE  Owned'
  BY <1>5, ReleaseStep
<1>6. ASSUME NEW o \in Objects, Give(o)
      PROVE  Owned'
  BY <1>6, GiveStep
<1>7. ASSUME NEW o \in Objects, GiveThrows(o)
      PROVE  Owned'
  BY <1>7, QuietStep DEF GiveThrows, library
<1>8. ASSUME NEW o \in Objects, NEW h \in Handles, HandleCtor(o, h)
      PROVE  Owned'
  BY <1>8, HandleCtorStep
<1>9. ASSUME NEW o \in Objects, NEW h \in Handles, AcquireCtor(o, h)
      PROVE  Owned'
  BY <1>9, NewReference, NoObjectAssumption DEF AcquireCtor, Alive
<1>10. ASSUME NEW o \in Objects, NEW h \in Handles, HoldCtor(o, h)
       PROVE  Owned'
  BY <1>10, NewReference, NoObjectAssumption DEF HoldCtor, Alive
<1>11. ASSUME NEW o \in Objects, NEW h \in Handles, TakeBack(o, h)
       PROVE  Owned'
  BY <1>11, TakeBackStep
<1>12. ASSUME NEW o \in Objects, NEW rhs \in Objects, MoveCtor(o, rhs)
       PROVE  Owned'
  BY <1>12, MoveCtorStep
<1>13. ASSUME NEW o \in Objects, NEW rhs \in Objects, CopyCtorThrows(o, rhs)
       PROVE  Owned'
  BY <1>13, CopyCtorThrowsStep
<1>14. ASSUME NEW o \in Objects, NEW rhs \in Objects, MoveAssign(o, rhs)
       PROVE  Owned'
  BY <1>14, MoveAssignStep
<1>15. ASSUME NEW o \in Objects, NEW rhs \in Objects, MoveAssignThrows(o, rhs)
       PROVE  Owned'
  BY <1>15, QuietStep DEF MoveAssignThrows, library
<1>16. ASSUME NEW o \in Objects, NEW rhs \in Objects, NEW h \in Handles, CopyCtor(o, rhs, h)
       PROVE  Owned'
  BY <1>16, CopyCtorStep
<1>17. ASSUME NEW o \in Objects, NEW rhs \in Objects, NEW h \in Handles, CopyAssign(o, rhs, h)
       PROVE  Owned'
  BY <1>17, CopyAssignStep
<1>18. ASSUME NEW h \in Handles, HandedOut(h)
       PROVE  Owned'
  BY <1>18, HandedOutStep
<1>19. ASSUME NEW h \in Handles, FreeRaw(h)
       PROVE  Owned'
  BY <1>19, FreeRawStep
<1>20. ASSUME NEW h \in Handles, LibraryFrees(h)
       PROVE  Owned'
  BY <1>20, LibraryFreesStep
<1>21. ASSUME NEW h \in Handles, ClosedElsewhere(h)
       PROVE  Owned'
  BY <1>21, QuietStep DEF ClosedElsewhere, library
<1>22. ASSUME NEW o \in Objects, NEW rhs \in Objects, CopyAssignThrows(o, rhs)
       PROVE  Owned'
  <2>1. ~Holding(o)
    BY <1>22 DEF CopyAssignThrows, TypeOK
  <2> QED
    BY <1>22, <2>1, QuietStep DEF CopyAssignThrows
<1>23. CASE UNCHANGED vars
  BY <1>23, QuietStep DEF vars, library
<1> QED
  BY <1>1, <1>2, <1>3, <1>4, <1>5, <1>6, <1>7, <1>8, <1>9, <1>10, <1>11,
     <1>12, <1>13, <1>14, <1>15, <1>16, <1>17, <1>18, <1>19, <1>20, <1>21,
     <1>22, <1>23
     DEF Next

\* A freed handle that an object holds is never forgotten.
LEMMA DanglingStep ==
  ASSUME TypeOK, [Next]_vars, dangling' = 0
  PROVE  dangling = 0
<1>1. ASSUME NEW o \in Objects, NEW rhs \in Objects, CopyAssignThrows(o, rhs)
      PROVE  dangling = 0
  BY <1>1 DEF CopyAssignThrows, TypeOK
<1> QED
  BY <1>1 DEF Next, vars, library, DefaultCtor, AcquireCtorThrows, SelfAssign,
     Dtor, Release, Give, GiveThrows, HandleCtor, AcquireCtor, HoldCtor,
     TakeBack, MoveCtor, CopyCtorThrows, MoveAssign, MoveAssignThrows,
     CopyCtor, CopyAssign, HandedOut, FreeRaw, LibraryFrees, ClosedElsewhere

\* Initially nothing is owned, and nothing exists.
LEMMA OwnedInit ==
  ASSUME Init
  PROVE  Owned
<1>1. ASSUME NEW h \in Handles
      PROVE  refs[h] = Held(obj, h) + Elsewhere(h)
  <2>1. Holders(obj, h) = {}
    BY NoObjectAssumption DEF Init, Holders
  <2>2. Held(obj, h) = 0
    BY <2>1, FS_EmptySet DEF Held
  <2> QED
    BY <2>2 DEF Init, Elsewhere
<1> QED
  BY <1>1 DEF Owned, Init, Accounts, NoneDead, Exclusive

\* The inductive invariant holds in every reachable state.
THEOREM Invariant == Spec => []IInv
<1>1. Init => IInv
  BY TypeInit, OwnedInit DEF IInv
<1>2. IInv /\ [Next]_vars => IInv'
  BY TypeStep, DanglingStep, OwnedStep DEF IInv
<1> QED
  BY <1>1, <1>2, PTL DEF Spec

\* Every reference has exactly one owner, for every class and every program:
\* destructors, moves, copies and hand-overs neither leak nor share, until a
\* copy assignment of msg or url fails with the old handle freed.
THEOREM OneOwner == Spec => []RefsHaveOneOwner
<1>1. IInv => RefsHaveOneOwner
  BY DEF IInv, Owned, Accounts, RefsHaveOneOwner
<1> QED
  BY <1>1, Invariant, PTL

\* No object frees, closes or duplicates a resource that is gone, unless a
\* copy assignment of msg or url failed before.
THEOREM Safe == Spec => []NoFault
<1>1. IInv => NoFault
  BY DEF IInv, Owned, NoneDead, NoFault
<1> QED
  BY <1>1, Invariant, PTL

\* Two holders of a handle account for two references.
LEMMA InvImpliesUnique ==
  ASSUME IInv
  PROVE  UniqueOwner
<1> SUFFICES ASSUME ~cls.shared, dangling = 0, NEW o1 \in Objects, NEW o2 \in Objects,
                    Holding(o1), obj[o1] = obj[o2], o1 # o2
             PROVE  FALSE
  BY DEF UniqueOwner
<1>1. PICK h \in Handles : h = obj[o1]
  BY DEF Holding
<1>2. refs[h] <= 1 /\ refs[h] = Held(obj, h) + Elsewhere(h)
        /\ Elsewhere(h) \in Nat
  BY ElsewhereType DEF IInv, Owned, Exclusive, Accounts
<1>3. PICK g : g = [obj EXCEPT ![o1] = Null]
  OBVIOUS
<1>4. Replaces(obj, g, o1) /\ g[o1] = Null /\ g[o2] = h
  BY <1>1, <1>3 DEF Replaces, Contents, IInv, TypeOK
<1>5. Balanced(obj, g, o1, h)
  BY <1>4, HoldersUpdate
<1>6. Held(g, h) \in Nat /\ Held(g, h) # 0 /\ Held(obj, h) \in Nat
  <2>1. o2 \in Holders(g, h)
    BY <1>4 DEF Holders
  <2> QED
    BY <2>1, HoldersFinite, FS_EmptySet DEF Held
<1>7. One(g[o1], h) = 0 /\ One(obj[o1], h) = 1
  BY <1>1, <1>4, NullAssumption DEF One
<1> QED
  BY <1>2, <1>5, <1>6, <1>7 DEF Balanced

\* Objects of a class without reference counting do not share a handle, with
\* the same exception.
THEOREM Unique == Spec => []UniqueOwner
<1>1. IInv => UniqueOwner
  BY InvImpliesUnique
<1> QED
  BY <1>1, Invariant, PTL

\* An operation that throws leaves every object and every resource as it was,
\* but for the copy assignment of msg and url, which has freed what its
\* object still holds.
THEOREM StrongGuarantee == Spec => ThrowChangesNothing
<1> DEFINE Same == /\ UNCHANGED <<obj, raw, lib, abandoned>>
                   /\ \/ UNCHANGED <<refs, closed, dangling>>
                      \/ \E o, rhs \in Objects :
                           Holding(o) /\ CopyAssignThrows(o, rhs)
<1>1. ASSUME Next, thrown'
      PROVE  Same
  <2>1. ASSUME NEW o \in Objects,
               AcquireCtorThrows(o) \/ GiveThrows(o)
        PROVE  Same
    BY <2>1 DEF AcquireCtorThrows, GiveThrows, library
  <2>2. ASSUME NEW o \in Objects, NEW rhs \in Objects,
               MoveAssignThrows(o, rhs) \/ CopyCtorThrows(o, rhs)
        PROVE  Same
    BY <2>2 DEF MoveAssignThrows, CopyCtorThrows, library
  <2>3. ASSUME NEW o \in Objects, NEW rhs \in Objects,
               CopyAssignThrows(o, rhs)
        PROVE  Same
    <3>1. CASE Holding(o)
      <4>1. UNCHANGED <<obj, raw, lib, abandoned>>
        BY <2>3 DEF CopyAssignThrows
      <4> QED
        BY <2>3, <3>1, <4>1
    <3>2. CASE ~Holding(o)
      BY <2>3, <3>2 DEF CopyAssignThrows
    <3> QED
      BY <3>1, <3>2
  <2> QED
    BY <1>1, <2>1, <2>2, <2>3
       DEF Next, DefaultCtor, SelfAssign, Dtor, Release, Give, HandleCtor,
           AcquireCtor, HoldCtor, TakeBack, MoveCtor, MoveAssign, CopyCtor,
           CopyAssign, HandedOut, FreeRaw, LibraryFrees, ClosedElsewhere
<1>2. [Next]_vars => [thrown' => Same]_vars
  BY <1>1
<1> QED
  BY <1>2, PTL DEF Spec, ThrowChangesNothing

=============================================================================
