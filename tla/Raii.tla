------------------------------- MODULE Raii -------------------------------
(***************************************************************************)
(* The life of the objects of one nngpp RAII class, whatever the program   *)
(* does with them, next to the resources that the nng library keeps behind *)
(* their handles.  An object owns the reference it holds; a reference may  *)
(* also be with the program as a raw handle (after release()) or with the  *)
(* library (a message that was sent, a handler that was added).            *)
(*                                                                         *)
(* The functions of nng (alloc, free, close, dup, hold) are external: they *)
(* are modelled from what the wrappers do with their results.              *)
(***************************************************************************)
EXTENDS RaiiClasses, Naturals, FiniteSets

CONSTANTS
  Objects,          \* the places where the program keeps objects of the class
  Handles,          \* the handle values the library can return
  Classes,          \* the classes to consider: a set of trait records
  Null,             \* nullptr, or the id 0
  NoObject,         \* content of a place with no object in it
  MaxRefs,          \* bound: references the program takes on one resource
  MaxDangling       \* bound: copy assignments that leave a freed handle

ASSUME ObjectsAssumption == IsFiniteSet(Objects)
ASSUME ClassesAssumption ==
  /\ Classes \subseteq ClassTraits
  /\ \A c \in Classes : ~(c.shared /\ c.fallible)
ASSUME NullAssumption == Null \notin Handles
ASSUME NoObjectAssumption == NoObject \notin Handles \cup {Null}
ASSUME MaxRefsAssumption == MaxRefs \in Nat \ {0}
ASSUME MaxDanglingAssumption == MaxDangling \in Nat

VARIABLES
  cls,        \* the class of the objects
  obj,        \* what the object in each place holds
  raw,        \* references the program holds as raw handles
  lib,        \* references the library owns
  refs,       \* references that exist on the resource behind a handle
  closed,     \* resources that were closed while somebody still owns them
  abandoned,  \* resources that a destructor failed to close
  thrown,     \* did the last operation end with an exception?
  dangling,   \* copy assignments that threw and left an object a freed handle
  fault       \* "dead" once a dead resource was freed, closed or read

library == <<lib, refs, closed, dangling, fault>>
vars == <<cls, obj, raw, abandoned, thrown, library>>

-----------------------------------------------------------------------------
(* The nng library.                                                        *)

Plus(f, h) == [f EXCEPT ![h] = @ + 1]
Minus(f, h) == [f EXCEPT ![h] = @ - 1]

Fresh(h) == refs[h] = 0
RefsWithout(h) == IF Fresh(h) THEN refs ELSE Minus(refs, h)

\* A free, or a close that takes effect, of one reference.
Free(h) ==
  /\ fault' = IF Fresh(h) THEN "dead" ELSE fault
  /\ refs' = RefsWithout(h)
  /\ closed' = closed \ {h}

\* What the call that ends resource h can return.
CloseResults(h) ==
  IF ~cls.fallible THEN {"success"}
  ELSE IF h \in closed THEN {"closed"} ELSE {"success", "other"}

Alive(o) == obj[o] # NoObject
Holding(o) == obj[o] \in Handles

-----------------------------------------------------------------------------
(* Constructors.                                                           *)

\* T()
DefaultCtor(o) ==
  /\ ~Alive(o)
  /\ obj' = [obj EXCEPT ![o] = Null]
  /\ thrown' = FALSE
  /\ UNCHANGED <<cls, raw, abandoned, library>>

\* explicit T( handle ), of a handle that the program owns
HandleCtor(o, h) ==
  /\ ~Alive(o)
  /\ raw[h] > 0
  /\ obj' = [obj EXCEPT ![o] = h]
  /\ raw' = Minus(raw, h)
  /\ thrown' = FALSE
  /\ UNCHANGED <<cls, abandoned, library>>

\* The acquiring constructors and make functions: a new resource ...
AcquireCtor(o, h) ==
  /\ cls.acquires
  /\ ~Alive(o)
  /\ Fresh(h)
  /\ obj' = [obj EXCEPT ![o] = h]
  /\ refs' = Plus(refs, h)
  /\ thrown' = FALSE
  /\ UNCHANGED <<cls, raw, lib, closed, abandoned, dangling, fault>>

\* ... or an exception, and then there is no object.
AcquireCtorThrows(o) ==
  /\ cls.acquires
  /\ ~Alive(o)
  /\ thrown' = TRUE
  /\ UNCHANGED <<cls, obj, raw, abandoned, library>>

\* A handle that only the library hands out (a connected stream, a pipe).
HandedOut(h) ==
  /\ ~cls.acquires
  /\ Fresh(h)
  /\ refs' = Plus(refs, h)
  /\ raw' = Plus(raw, h)
  /\ thrown' = FALSE
  /\ UNCHANGED <<cls, obj, lib, closed, abandoned, dangling, fault>>

\* One more reference to a resource that exists: tls::config_view::hold(),
\* http::server( url ) for a url that has a server already.
HoldCtor(o, h) ==
  /\ cls.shared
  /\ ~Alive(o)
  /\ refs[h] \in 1 .. MaxRefs - 1
  /\ obj' = [obj EXCEPT ![o] = h]
  /\ refs' = Plus(refs, h)
  /\ thrown' = FALSE
  /\ UNCHANGED <<cls, raw, lib, closed, abandoned, dangling, fault>>

\* Mutation of MoveCtor: rhs keeps its handle.
MoveCtorKeepsRhs(o, rhs) ==
  /\ ~Alive(o)
  /\ Alive(rhs)
  /\ obj' = [obj EXCEPT ![o] = obj[rhs]]
  /\ thrown' = FALSE
  /\ UNCHANGED <<cls, raw, abandoned, library>>

\* T( T&& rhs )
MoveCtor(o, rhs) ==
  /\ ~Alive(o)
  /\ Alive(rhs)
  /\ obj' = [obj EXCEPT ![o] = obj[rhs], ![rhs] = Null]
  /\ thrown' = FALSE
  /\ UNCHANGED <<cls, raw, abandoned, library>>

\* Mutation of CopyCtor: the handle is copied, not the resource.
CopyCtorShallow(o, rhs, h) ==
  /\ cls.copies
  /\ ~Alive(o)
  /\ Holding(rhs)
  /\ h = obj[rhs]
  /\ obj' = [obj EXCEPT ![o] = h]
  /\ refs' = Plus(refs, h)
  /\ thrown' = FALSE
  /\ UNCHANGED <<cls, raw, lib, closed, abandoned, dangling, fault>>

\* T( const T& rhs ); the duplicate of a null handle is not asked for.
CopyCtor(o, rhs, h) ==
  /\ cls.copies
  /\ ~Alive(o)
  /\ Holding(rhs)
  /\ Fresh(h)
  /\ obj' = [obj EXCEPT ![o] = h]
  /\ refs' = Plus(refs, h)
  /\ fault' = IF Fresh(obj[rhs]) THEN "dead" ELSE fault
  /\ thrown' = FALSE
  /\ UNCHANGED <<cls, raw, lib, closed, abandoned, dangling>>

CopyCtorThrows(o, rhs) ==
  /\ cls.copies
  /\ ~Alive(o)
  /\ Holding(rhs)
  /\ fault' = IF Fresh(obj[rhs]) THEN "dead" ELSE fault
  /\ thrown' = TRUE
  /\ UNCHANGED <<cls, obj, raw, lib, refs, closed, abandoned, dangling>>

-----------------------------------------------------------------------------
(* Assignments.                                                            *)

\* Either assignment, of an object to itself: nothing, by this != &rhs.
SelfAssign(o) ==
  /\ Alive(o)
  /\ thrown' = FALSE
  /\ UNCHANGED <<cls, obj, raw, abandoned, library>>

\* Mutation of MoveAssign: what was held is not ended.
MoveAssignLeaks(o, rhs) ==
  /\ o # rhs
  /\ Alive(o)
  /\ Alive(rhs)
  /\ obj' = [obj EXCEPT ![o] = obj[rhs], ![rhs] = Null]
  /\ thrown' = FALSE
  /\ UNCHANGED <<cls, raw, lib, refs, closed, abandoned, dangling, fault>>

\* operator=( T&& rhs ): what is held is ended first; the handle moves only
\* when that went well.
MoveAssign(o, rhs) ==
  /\ o # rhs
  /\ Alive(o)
  /\ Alive(rhs)
  /\ IF Holding(o)
       THEN /\ \E r \in CloseResults(obj[o]) :
                 r = "success" \/ (r = "closed" /\ cls.tolerant)
            /\ Free(obj[o])
       ELSE UNCHANGED <<refs, closed, fault>>
  /\ obj' = [obj EXCEPT ![o] = obj[rhs], ![rhs] = Null]
  /\ thrown' = FALSE
  /\ UNCHANGED <<cls, raw, lib, abandoned, dangling>>

\* Mutation of MoveAssignThrows: rhs is emptied before the close is checked.
MoveAssignThrowsLate(o, rhs) ==
  /\ o # rhs
  /\ Holding(o)
  /\ Alive(rhs)
  /\ \E r \in CloseResults(obj[o]) :
       r # "success" /\ ~(r = "closed" /\ cls.tolerant)
  /\ obj' = [obj EXCEPT ![rhs] = Null]
  /\ thrown' = TRUE
  /\ UNCHANGED <<cls, raw, abandoned, library>>

MoveAssignThrows(o, rhs) ==
  /\ o # rhs
  /\ Holding(o)
  /\ Alive(rhs)
  /\ \E r \in CloseResults(obj[o]) :
       r # "success" /\ ~(r = "closed" /\ cls.tolerant)
  /\ thrown' = TRUE
  /\ UNCHANGED <<cls, obj, raw, abandoned, library>>

\* operator=( const T& rhs ): what is held is freed, then rhs is duplicated.
\* The allocator may hand the address that was just freed out again.
CopyAssign(o, rhs, h) ==
  /\ cls.copies
  /\ o # rhs
  /\ Alive(o)
  /\ Holding(rhs)
  /\ LET left == IF Holding(o) THEN RefsWithout(obj[o]) ELSE refs
     IN  /\ left[h] = 0
         /\ refs' = Plus(left, h)
         /\ fault' = IF left[obj[rhs]] = 0 \/ (Holding(o) /\ Fresh(obj[o]))
                       THEN "dead" ELSE fault
  /\ closed' = closed \ {obj[o]}
  /\ obj' = [obj EXCEPT ![o] = h]
  /\ thrown' = FALSE
  /\ UNCHANGED <<cls, raw, lib, abandoned, dangling>>

\* The duplication fails after the free: the object keeps the dead handle.
CopyAssignThrows(o, rhs) ==
  /\ cls.copies
  /\ o # rhs
  /\ Alive(o)
  /\ Holding(rhs)
  /\ IF Holding(o) THEN Free(obj[o]) ELSE UNCHANGED <<refs, closed, fault>>
  /\ Holding(o) => dangling < MaxDangling
  /\ dangling' = IF Holding(o) THEN dangling + 1 ELSE dangling
  /\ thrown' = TRUE
  /\ UNCHANGED <<cls, obj, raw, lib, abandoned>>

-----------------------------------------------------------------------------
(* Destruction and detachment.                                             *)

\* ~T(): an error of the close is not reported.
Dtor(o) ==
  /\ Alive(o)
  /\ IF Holding(o)
       THEN \E r \in CloseResults(obj[o]) :
              IF r = "other"
                THEN /\ abandoned' = abandoned \cup {obj[o]}
                     /\ UNCHANGED <<refs, closed, fault>>
                ELSE /\ Free(obj[o])
                     /\ UNCHANGED abandoned
       ELSE UNCHANGED <<refs, closed, fault, abandoned>>
  /\ obj' = [obj EXCEPT ![o] = NoObject]
  /\ thrown' = FALSE
  /\ UNCHANGED <<cls, raw, lib, dangling>>

\* release()
Release(o) ==
  /\ Alive(o)
  /\ raw' = IF Holding(o) THEN Plus(raw, obj[o]) ELSE raw
  /\ obj' = [obj EXCEPT ![o] = Null]
  /\ thrown' = FALSE
  /\ UNCHANGED <<cls, abandoned, library>>

\* send( msg&& ), add_handler( handler&& ): on success the library owns it ...
Give(o) ==
  /\ cls.given
  /\ Holding(o)
  /\ lib' = Plus(lib, obj[o])
  /\ obj' = [obj EXCEPT ![o] = Null]
  /\ thrown' = FALSE
  /\ UNCHANGED <<cls, raw, refs, closed, abandoned, dangling, fault>>

\* ... and on failure the object still does.
GiveThrows(o) ==
  /\ cls.given
  /\ Alive(o)
  /\ thrown' = TRUE
  /\ UNCHANGED <<cls, obj, raw, abandoned, library>>

\* Mutation of TakeBack: the result of nng_http_server_del_handler is ignored.
TakeBackUnchecked(o, h) ==
  /\ cls.given
  /\ ~Alive(o)
  /\ lib' = Minus(lib, h)
  /\ obj' = [obj EXCEPT ![o] = h]
  /\ thrown' = FALSE
  /\ UNCHANGED <<cls, raw, refs, closed, abandoned, dangling, fault>>

\* remove_handler( view ): the library's reference comes back as an object.
TakeBack(o, h) ==
  /\ cls.given
  /\ ~Alive(o)
  /\ lib[h] > 0
  /\ lib' = Minus(lib, h)
  /\ obj' = [obj EXCEPT ![o] = h]
  /\ thrown' = FALSE
  /\ UNCHANGED <<cls, raw, refs, closed, abandoned, dangling, fault>>

-----------------------------------------------------------------------------
(* The rest of the world.                                                  *)

\* The program ends a raw handle through the C interface.
FreeRaw(h) ==
  /\ raw[h] > 0
  /\ Free(h)
  /\ raw' = Minus(raw, h)
  /\ thrown' = FALSE
  /\ UNCHANGED <<cls, obj, lib, abandoned, dangling>>

\* The library is done with what it was given (the message went out).
LibraryFrees(h) ==
  /\ lib[h] > 0
  /\ Free(h)
  /\ lib' = Minus(lib, h)
  /\ thrown' = FALSE
  /\ UNCHANGED <<cls, obj, raw, abandoned, dangling>>

\* A peer goes away, or the socket a dialer, listener, pipe or ctx belongs to
\* is closed: the owner's close will find the resource closed.
ClosedElsewhere(h) ==
  /\ cls.fallible
  /\ refs[h] > 0
  /\ closed' = closed \cup {h}
  /\ thrown' = FALSE
  /\ UNCHANGED <<cls, obj, raw, lib, refs, abandoned, dangling, fault>>

-----------------------------------------------------------------------------
Init ==
  /\ cls \in Classes
  /\ obj = [o \in Objects |-> NoObject]
  /\ raw = [h \in Handles |-> 0]
  /\ lib = [h \in Handles |-> 0]
  /\ refs = [h \in Handles |-> 0]
  /\ closed = {}
  /\ abandoned = {}
  /\ thrown = FALSE
  /\ dangling = 0
  /\ fault = "none"

Next ==
  \/ \E o \in Objects :
       \/ DefaultCtor(o)
       \/ AcquireCtorThrows(o)
       \/ SelfAssign(o)
       \/ Dtor(o)
       \/ Release(o)
       \/ Give(o)
       \/ GiveThrows(o)
       \/ \E h \in Handles :
            \/ HandleCtor(o, h)
            \/ AcquireCtor(o, h)
            \/ HoldCtor(o, h)
            \/ TakeBack(o, h)
       \/ \E rhs \in Objects :
            \/ MoveCtor(o, rhs)
            \/ CopyCtorThrows(o, rhs)
            \/ CopyAssignThrows(o, rhs)
            \/ MoveAssign(o, rhs)
            \/ MoveAssignThrows(o, rhs)
            \/ \E h \in Handles : CopyCtor(o, rhs, h) \/ CopyAssign(o, rhs, h)
  \/ \E h \in Handles :
       HandedOut(h) \/ FreeRaw(h) \/ LibraryFrees(h) \/ ClosedElsewhere(h)

Spec == Init /\ [][Next]_vars

-----------------------------------------------------------------------------
(* Properties.                                                             *)

\* Every variable keeps its type; no count of references becomes negative.
TypeOK ==
  /\ cls \in Classes
  /\ obj \in [Objects -> Handles \cup {Null, NoObject}]
  /\ raw \in [Handles -> Nat]
  /\ lib \in [Handles -> Nat]
  /\ refs \in [Handles -> Nat]
  /\ closed \in SUBSET Handles
  /\ abandoned \in SUBSET Handles
  /\ thrown \in BOOLEAN
  /\ dangling \in Nat
  /\ fault \in {"none", "dead"}

Holders(f, h) == {o \in Objects : f[o] = h}
Held(f, h) == Cardinality(Holders(f, h))

\* The references to h that are with the program, the library, or nobody
\* because a destructor could not close.
Elsewhere(h) == raw[h] + lib[h] + (IF h \in abandoned THEN 1 ELSE 0)

\* Every reference has exactly one owner, and every owner has a reference:
\* nothing that a constructor acquired is ever lost (a leak) or ended twice,
\* through any sequence of moves, copies, hand-overs and exceptions.  The one
\* way out is the exception of msg's and url's copy assignment, whose object
\* still holds the handle it has just freed.
RefsHaveOneOwner ==
  dangling = 0 => \A h \in Handles : refs[h] = Held(obj, h) + Elsewhere(h)

\* No operation frees, closes or duplicates a resource that is gone
\* (the `if( m != nullptr ) nng_msg_free(m)` of destructors and assignments),
\* unless a failed copy assignment has left an object with a freed handle.
NoFault == dangling = 0 => fault = "none"

\* The same without the exception: what an owning wrapper promises.
NothingFreedTwice == fault = "none"

\* Two objects own the same handle only if the library counts references.
\* (The address of a freed handle that an object still holds can come back.)
UniqueOwner ==
  ~cls.shared /\ dangling = 0 =>
    \A o1, o2 \in Objects :
      Holding(o1) /\ obj[o1] = obj[o2] => o1 = o2

\* An operation that throws leaves every object and every resource as it was:
\* a move assignment whose close fails changes neither side.  The exception
\* is the copy assignment of an object that holds something: it has freed
\* that, and nothing else, and its object does not show it.
ThrowChangesNothing ==
  [][thrown' =>
       /\ UNCHANGED <<obj, raw, lib, abandoned>>
       /\ \/ UNCHANGED <<refs, closed, dangling>>
          \/ \E o, rhs \in Objects :
               Holding(o) /\ CopyAssignThrows(o, rhs)]_vars

=============================================================================
