------------------------------ MODULE Options ------------------------------
(***************************************************************************)
(* The options of a socket and of one object that belongs to it (a ctx,    *)
(* dialer, listener or pipe), or of one object of nngpp/stream: set and    *)
(* read through the dedicated functions of nngpp, which take their names   *)
(* from to_name, and through the typed member functions of the views, with *)
(* a name that the program writes itself.                                  *)
(*                                                                         *)
(* The library (external) keeps one value per object and name, rejects an  *)
(* access of the wrong type with badtype, and gives a new dialer, listener *)
(* or ctx the values of its socket; a pipe or stream has those of its      *)
(* connection, and a stream dialer or listener has the defaults.           *)
(*                                                                         *)
(* Options interfere in pairs, if at all, so that a behaviour uses two of  *)
(* them: every pair is an initial state.                                   *)
(***************************************************************************)
EXTENDS OptionTables, FiniteSets, Sequences

CONSTANTS
  Values,   \* the values an option can have
  Default,  \* the one of them it has at first
  Null,     \* no object, no value
  Tried     \* bound: the types that the program tries on any name

ASSUME DefaultAssumption == Default \in Values /\ Null \notin Values
ASSUME TriedAssumption == Tried \subseteq option_type

VARIABLES
  used,    \* the two options that are used
  kind,    \* what the second object is
  val,     \* the library: the value of each name, for each object
  stored,  \* what was stored last through the option, for each object
  last     \* how the last call ended

vars == <<used, kind, val, stored, last>>

Owned == {"ctx", "dialer", "listener"}  \* made from a socket
Connections == {"pipe", "stream"}       \* made by the library
Endpoints == {"stream_dialer", "stream_listener"}

Kinds == {"socket"} \cup Owned \cup Connections \cup Endpoints

\* The objects: the second one, and a socket for all but the streams.
Objects == DOMAIN val

\* An option is its namespace and its enumerator.
AllOptions ==
  UNION {{<<ns, Enum[ns][i]>> : i \in DOMAIN Enum[ns]} : ns \in DOMAIN Enum}

Index(s, x) == CHOOSE i \in DOMAIN s : s[i] = x

to_name(o) == Names[o[1]][Index(Enum[o[1]], o[2])]

\* Of a core option only.
to_type(o) == option_types[Index(nng_option, o[2])]

Has(table, k, o) ==
  k \in DOMAIN table[o[1]] /\ o[2] \in DOMAIN table[o[1]][k]

\* The name and the type in the library of what nngpp calls o.
NameInLibrary ==
  [o \in AllOptions |->
     CHOOSE n \in DOMAIN Library[o[1]] : Library[o[1]][n][1] = o[2]]
LibType(ns, n) == Library[ns][n][2]

\* The names in play: the library's, and the ones that nngpp takes for them.
Touched ==
  {NameInLibrary[o] : o \in used} \cup {to_name(o) : o \in used}

Exists(k) == val[k] # Null

-----------------------------------------------------------------------------
\* Object k comes into being with the values f.
New(k, f) ==
  /\ val' = [val EXCEPT ![k] = f]
  /\ stored' = [stored EXCEPT ![k] = [o \in used |-> f[NameInLibrary[o]]]]

\* The constructor of a dialer, listener or ctx, from the socket
Make ==
  /\ kind \in Owned
  /\ ~Exists(kind)
  /\ val' = [val EXCEPT ![kind] = val["socket"]]
  /\ stored' = [stored EXCEPT ![kind] = stored["socket"]]
  /\ last' = "ok"
  /\ UNCHANGED <<used, kind>>

\* A connection is made: a pipe, or the stream that dial or accept gives.
Connect ==
  /\ kind \in Connections
  /\ ~Exists(kind)
  /\ \E f \in [Touched -> Values] : New(kind, f)
  /\ last' = "ok"
  /\ UNCHANGED <<used, kind>>

\* The constructor of a stream dialer or listener, from a URL
MakeEndpoint ==
  /\ kind \in Endpoints
  /\ ~Exists(kind)
  /\ New(kind, [n \in Touched |-> Default])
  /\ last' = "ok"
  /\ UNCHANGED <<used, kind>>

\* nng_<object>_set_<type>, of option o by the name n: it throws badtype, or
\* stores.
Store(k, o, n, t, v, badtype) ==
  IF t = LibType(o[1], n)
    THEN /\ val' = [val EXCEPT ![k][n] = v]
         /\ stored' = [stored EXCEPT ![k][o] = v]
         /\ last' = "ok"
    ELSE /\ last' = badtype
         /\ UNCHANGED <<val, stored>>

\* nng_<object>_get_<type>: it throws badtype, or reads what it should or not.
Read(k, o, n, t, badtype) ==
  /\ last' = IF t # LibType(o[1], n) THEN badtype
             ELSE IF val[k][n] = stored[k][o] THEN "ok" ELSE "misread"
  /\ UNCHANGED <<val, stored>>

\* The view's set_opt_<type>( name, v ), or set_<type> of nngpp/stream, as the
\* program chooses type and name
SetMember(k, o, t, v) ==
  /\ Exists(k)
  /\ t \in Members[k].set
  /\ Store(k, o, NameInLibrary[o], t, v, "misused")
  /\ UNCHANGED <<used, kind>>

\* The view's get_opt_<type>( name ), or get_<type> of nngpp/stream
GetMember(k, o, t) ==
  /\ Exists(k)
  /\ t \in Members[k].get
  /\ Read(k, o, NameInLibrary[o], t, "misused")
  /\ UNCHANGED <<used, kind>>

\* set_opt_<option>( object, v )
Set(k, o, v) ==
  /\ Exists(k)
  /\ Has(Setters, k, o)
  /\ Store(k, o, to_name(o), Setters[o[1]][k][o[2]], v, "set_badtype")
  /\ UNCHANGED <<used, kind>>

\* The view's set_opt_<type>( to_name( o ), v ), of the type to_type( o )
SetTyped(k, o, v) ==
  /\ Exists(k)
  /\ o[1] = "nng"
  /\ to_type(o) \in Members[k].set
  /\ Store(k, o, to_name(o), to_type(o), v, "set_badtype")
  /\ UNCHANGED <<used, kind>>

\* get_opt_<option>( object )
Get(k, o) ==
  /\ Exists(k)
  /\ Has(Getters, k, o)
  /\ Read(k, o, to_name(o), Getters[o[1]][k][o[2]], "get_badtype")
  /\ UNCHANGED <<used, kind>>

Init ==
  /\ used \in {{o1, o2} : o1, o2 \in AllOptions}
  /\ kind \in Kinds \ {"socket"}
  /\ LET objects == {kind} \cup IF kind \in Endpoints \cup {"stream"}
                                THEN {} ELSE {"socket"}
     IN  /\ val = [k \in objects |->
                     IF k = "socket"
                       THEN [n \in Touched |-> Default]
                       ELSE Null]
         /\ stored = [k \in objects |->
                        IF k = "socket" THEN [o \in used |-> Default] ELSE Null]
  /\ last = "ok"

Next ==
  \/ Make \/ Connect \/ MakeEndpoint
  \/ \E k \in Objects, o \in used :
       \/ Get(k, o)
       \/ \E t \in Tried : GetMember(k, o, t)
       \/ \E v \in Values :
            \/ Set(k, o, v)
            \/ SetTyped(k, o, v)
            \/ \E t \in Tried : SetMember(k, o, t, v)

Spec == Init /\ [][Next]_vars

-----------------------------------------------------------------------------
(* Properties.                                                             *)

\* In the library, an object's option has the value that was stored last for
\* that option, on this object or on its socket before it was made, whatever
\* was stored through other options and objects; and every read gives it,
\* whether it goes by nngpp's option or by the library's name.  For that,
\* each array of names must go with its enum, place by place (to_name).
GetReturnsWhatWasSet ==
  /\ last # "misread"
  /\ \A k \in Objects : \A o \in used :
       Exists(k) => val[k][NameInLibrary[o]] = stored[k][o]

\* The dedicated setters are of the correct type (readme.md:196), and so is
\* the member function that to_type chooses.
SettersHaveTheRightType == last # "set_badtype"

\* The dedicated getters are of the correct type (readme.md:196).
GettersHaveTheRightType == last # "get_badtype"
=============================================================================
