-------------------------- MODULE RoundtripProofs --------------------------
(***************************************************************************)
(* Proofs that options and messages give back what was put into them: the  *)
(* theorems of Options, and those of Msg.                                  *)
(***************************************************************************)
EXTENDS Roundtrip, BigEndianProofs, SequencesExt, SequenceTheorems,
        FiniteSetTheorems, WellFoundedInduction, TLAPS

-----------------------------------------------------------------------------
(* The tables of options.                                                  *)

\* There are ten namespaces, and every enum is as long as its array of names.
LEMMA TableDomains ==
  /\ DOMAIN Enum = {"nng", "tcp", "tls", "ipc", "ws", "zt", "req", "sub",
                    "survey", "pair"}
  /\ DOMAIN Names = DOMAIN Enum
  /\ \A ns \in DOMAIN Enum : DOMAIN Names[ns] = DOMAIN Enum[ns]
BY DEF Enum, nng_option, tcp_option, tls_option, ipc_option, ws_option,
       zt_option, req_option, sub_option, survey_option, pair_option,
       Names, nng_names, tcp_names, tls_names, ipc_names, ws_names,
       zt_names, req_names, sub_names, survey_names, pair_names

\* No enum has an enumerator twice.
LEMMA EnumDistinct ==
  ASSUME NEW ns \in DOMAIN Enum, NEW i \in DOMAIN Enum[ns],
         NEW j \in DOMAIN Enum[ns], Enum[ns][i] = Enum[ns][j]
  PROVE  i = j
BY DEF Enum, nng_option, tcp_option, tls_option, ipc_option, ws_option,
       zt_option, req_option, sub_option, survey_option, pair_option

\* No name stands twice, in one array or in two.
LEMMA NamesDistinct ==
  ASSUME NEW ns \in DOMAIN Enum, NEW other \in DOMAIN Enum,
         NEW i \in DOMAIN Enum[ns], NEW j \in DOMAIN Enum[other],
         Names[ns][i] = Names[other][j]
  PROVE  ns = other /\ i = j
<1> USE DEF Names, nng_names, tcp_names, tls_names, ipc_names, ws_names,
       zt_names, req_names, sub_names, survey_names, pair_names
<1>0. i \in DOMAIN Names[ns] /\ j \in DOMAIN Names[other]
  BY TableDomains
<1>1. CASE ns = "nng"
  BY <1>1, <1>0, TableDomains
<1>2. CASE ns = "tcp"
  BY <1>2, <1>0, TableDomains
<1>3. CASE ns = "tls"
  BY <1>3, <1>0, TableDomains
<1>4. CASE ns = "ipc"
  BY <1>4, <1>0, TableDomains
<1>5. CASE ns = "ws"
  BY <1>5, <1>0, TableDomains
<1>6. CASE ns = "zt"
  BY <1>6, <1>0, TableDomains
<1>7. CASE ns = "req"
  BY <1>7, <1>0, TableDomains
<1>8. CASE ns = "sub"
  BY <1>8, <1>0, TableDomains
<1>9. CASE ns = "survey"
  BY <1>9, <1>0, TableDomains
<1>10. CASE ns = "pair"
  BY <1>10, <1>0, TableDomains
<1> QED BY TableDomains, <1>1, <1>2, <1>3, <1>4, <1>5, <1>6,
          <1>7, <1>8, <1>9, <1>10

\* The types of the options, place by place.
Types ==
  [nng |-> option_types,
   tcp |-> <<"bool", "bool", "int">>,
   tls |-> <<"ptr", "int", "string", "string", "string", "bool">>,
   ipc |-> <<"uint64", "uint64", "uint64", "uint64", "ptr", "int">>,
   ws |-> <<"string", "string", "string", "string", "string", "size", "size",
            "string", "bool", "bool">>,
   zt |-> <<"size", "uint64", "uint64", "string", "int", "string", "ms", "int",
            "ms", "int", "uint64", "uint64">>,
   req |-> <<"ms">>,
   sub |-> <<"opaque", "opaque", "bool">>,
   survey |-> <<"ms">>,
   pair |-> <<"bool">>]

\* The i-th name of an array stands, in the library, for the i-th enumerator,
\* and has the i-th type.
LEMMA LibraryRows ==
  ASSUME NEW ns \in DOMAIN Enum, NEW i \in DOMAIN Enum[ns]
  PROVE  /\ Names[ns][i] \in DOMAIN Library[ns]
         /\ Library[ns][Names[ns][i]] = <<Enum[ns][i], Types[ns][i]>>
<1> USE DEF Library, Types, option_types,
            Enum, nng_option, tcp_option, tls_option, ipc_option, ws_option,
            zt_option, req_option, sub_option, survey_option, pair_option,
            Names, nng_names, tcp_names, tls_names, ipc_names, ws_names,
            zt_names, req_names, sub_names, survey_names, pair_names
<1>1. CASE ns = "nng"
  <2>1. i \in 1 .. 19
    BY <1>1
  <2>2. Names[ns][i] \in DOMAIN Library[ns]
    BY <1>1, <2>1
  <2>3. CASE i \in 1 .. 6
    BY <1>1, <2>3, SMTT(30)
  <2>4. CASE i \in 7 .. 12
    BY <1>1, <2>4, SMTT(30)
  <2>5. CASE i \in 13 .. 19
    BY <1>1, <2>5, SMTT(30)
  <2>6. i \in 1 .. 6 \/ i \in 7 .. 12 \/ i \in 13 .. 19
    BY <2>1
  <2> QED BY <2>2, <2>3, <2>4, <2>5, <2>6, Zenon
<1>2. CASE ns = "tcp"
  BY <1>2
<1>3. CASE ns = "tls"
  BY <1>3
<1>4. CASE ns = "ipc"
  BY <1>4
<1>5. CASE ns = "ws"
  BY <1>5
<1>6. CASE ns = "zt"
  BY <1>6
<1>7. CASE ns = "req"
  BY <1>7
<1>8. CASE ns = "sub"
  BY <1>8
<1>9. CASE ns = "survey"
  BY <1>9
<1>10. CASE ns = "pair"
  BY <1>10
<1> QED BY TableDomains, <1>1, <1>2, <1>3, <1>4, <1>5, <1>6,
          <1>7, <1>8, <1>9, <1>10

\* The library has no other names.
LEMMA LibraryNames ==
  ASSUME NEW ns \in DOMAIN Enum, NEW n \in DOMAIN Library[ns]
  PROVE  \E i \in DOMAIN Enum[ns] : n = Names[ns][i]
<1> USE DEF Library,
            Enum, nng_option, tcp_option, tls_option, ipc_option, ws_option,
            zt_option, req_option, sub_option, survey_option, pair_option,
            Names, nng_names, tcp_names, tls_names, ipc_names, ws_names,
            zt_names, req_names, sub_names, survey_names, pair_names
<1>1. CASE ns = "nng"
  BY <1>1
<1>2. CASE ns = "tcp"
  BY <1>2
<1>3. CASE ns = "tls"
  BY <1>3
<1>4. CASE ns = "ipc"
  BY <1>4
<1>5. CASE ns = "ws"
  BY <1>5
<1>6. CASE ns = "zt"
  BY <1>6
<1>7. CASE ns = "req"
  BY <1>7
<1>8. CASE ns = "sub"
  BY <1>8
<1>9. CASE ns = "survey"
  BY <1>9
<1>10. CASE ns = "pair"
  BY <1>10
<1> QED BY TableDomains, <1>1, <1>2, <1>3, <1>4, <1>5, <1>6,
          <1>7, <1>8, <1>9, <1>10

\* Every dedicated setter calls the member function of the type that the
\* library gives the option.
LEMMA SetterTypes ==
  ASSUME NEW ns \in DOMAIN Enum, NEW i \in DOMAIN Enum[ns],
         NEW k \in DOMAIN Setters[ns], Enum[ns][i] \in DOMAIN Setters[ns][k]
  PROVE  Setters[ns][k][Enum[ns][i]] = Types[ns][i]
<1> USE DEF Setters, socket_setters, ctx_accessors, dialer_setters,
            listener_setters, tcp_setters, tcp_flags, tls_setters,
            tls_endpoint_setters, ipc_setters, ws_setters, zt_dialer_setters,
            zt_listener_setters, req_accessors, sub_setters,
            survey_accessors, Types, option_types,
            Enum, nng_option, tcp_option, tls_option, ipc_option, ws_option,
       zt_option, req_option, sub_option, survey_option, pair_option
<1>1. CASE ns = "nng"
  BY <1>1
<1>2. CASE ns = "tcp"
  BY <1>2
<1>3. CASE ns = "tls"
  BY <1>3
<1>4. CASE ns = "ipc"
  BY <1>4
<1>5. CASE ns = "ws"
  BY <1>5
<1>6. CASE ns = "zt"
  BY <1>6
<1>7. CASE ns = "req"
  BY <1>7
<1>8. CASE ns = "sub"
  BY <1>8
<1>9. CASE ns = "survey"
  BY <1>9
<1>10. CASE ns = "pair"
  BY <1>10
<1> QED BY TableDomains, <1>1, <1>2, <1>3, <1>4, <1>5, <1>6,
          <1>7, <1>8, <1>9, <1>10

\* So does every dedicated getter, except the one of recv_size_max of a socket.
LEMMA GetterTypes ==
  ASSUME NEW ns \in DOMAIN Enum, NEW i \in DOMAIN Enum[ns],
         NEW k \in DOMAIN Getters[ns], Enum[ns][i] \in DOMAIN Getters[ns][k],
         Getters[ns][k][Enum[ns][i]] # Types[ns][i]
  PROVE  k = "socket" /\ ns = "nng" /\ Enum[ns][i] = "recv_size_max"
<1> USE DEF Getters, socket_getters, ctx_accessors, dialer_getters,
            listener_getters, pipe_getters, tcp_getters, tcp_flags,
            tcp_flags_and_port, tls_getters, ipc_getters, ws_getters,
            zt_pipe_getters, zt_dialer_getters, zt_listener_getters,
            req_accessors, sub_getters, survey_accessors, pair_getters,
            Types, option_types,
            Enum, nng_option, tcp_option, tls_option, ipc_option, ws_option,
       zt_option, req_option, sub_option, survey_option, pair_option
<1>1. CASE ns = "nng"
  BY <1>1
<1>2. CASE ns = "tcp"
  BY <1>2
<1>3. CASE ns = "tls"
  BY <1>3
<1>4. CASE ns = "ipc"
  BY <1>4
<1>5. CASE ns = "ws"
  BY <1>5
<1>6. CASE ns = "zt"
  BY <1>6
<1>7. CASE ns = "req"
  BY <1>7
<1>8. CASE ns = "sub"
  BY <1>8
<1>9. CASE ns = "survey"
  BY <1>9
<1>10. CASE ns = "pair"
  BY <1>10
<1> QED BY TableDomains, <1>1, <1>2, <1>3, <1>4, <1>5, <1>6,
          <1>7, <1>8, <1>9, <1>10

\* An option is the i-th of its namespace in the enum, in the array of names
\* and among the types; and the name is the library's for it.
LEMMA OptionIndex ==
  ASSUME NEW o \in AllOptions
  PROVE  \E i \in DOMAIN Enum[o[1]] :
           /\ o[1] \in DOMAIN Enum /\ o = <<o[1], o[2]>>
           /\ o[2] = Enum[o[1]][i]
           /\ to_name(o) = Names[o[1]][i]
           /\ NameInLibrary[o] = to_name(o)
           /\ LibType(o[1], to_name(o)) = Types[o[1]][i]
<1>0. PICK ns \in DOMAIN Enum : o \in {<<ns, Enum[ns][i]>> : i \in DOMAIN Enum[ns]}
  BY DEF AllOptions
<1>1. PICK i \in DOMAIN Enum[ns] : o = <<ns, Enum[ns][i]>>
  BY <1>0
<1>2. o[1] = ns /\ o[2] = Enum[ns][i]
  BY <1>1
<1>3. \A j \in DOMAIN Enum[ns] : Enum[ns][j] = o[2] => j = i
  BY <1>2, EnumDistinct
<1>4. Index(Enum[ns], o[2]) = i
  BY <1>2, <1>3 DEF Index
<1>5. to_name(o) = Names[ns][i]
  BY <1>2, <1>4 DEF to_name
<1>6. LibType(ns, to_name(o)) = Types[ns][i]
  BY <1>5, LibraryRows DEF LibType
<1>7. PICK n : n = NameInLibrary[o]
  OBVIOUS
<1>8. n = CHOOSE x \in DOMAIN Library[ns] : Library[ns][x][1] = o[2]
  BY <1>2, <1>7 DEF NameInLibrary
<1>9. Names[ns][i] \in DOMAIN Library[ns] /\ Library[ns][Names[ns][i]][1] = o[2]
  BY <1>2, LibraryRows
<1>10. n \in DOMAIN Library[ns] /\ Library[ns][n][1] = o[2]
  BY <1>8, <1>9
<1>11. n = Names[ns][i]
  <2>1. PICK j \in DOMAIN Enum[ns] : n = Names[ns][j]
    BY <1>10, LibraryNames
  <2>2. Enum[ns][j] = o[2]
    BY <1>10, <2>1, LibraryRows
  <2> QED BY <1>3, <2>1, <2>2
<1> QED BY <1>1, <1>2, <1>5, <1>6, <1>7, <1>11

\* to_name is the library's name.
LEMMA NameIsRight ==
  ASSUME NEW o \in AllOptions
  PROVE  NameInLibrary[o] = to_name(o)
BY OptionIndex

\* The type that to_type gives a core option is the library's.
LEMMA TypeIsRight ==
  ASSUME NEW o \in AllOptions, o[1] = "nng"
  PROVE  LibType(o[1], to_name(o)) = to_type(o)
<1>1. PICK i \in DOMAIN Enum[o[1]] :
        /\ o[2] = Enum[o[1]][i]
        /\ LibType(o[1], to_name(o)) = Types[o[1]][i]
  BY OptionIndex
<1>2. Enum["nng"] = nng_option /\ Types["nng"] = option_types
  BY DEF Enum, Types
<1>3. \A j \in DOMAIN Enum["nng"] : Enum["nng"][j] = o[2] => j = i
  BY <1>1, EnumDistinct, TableDomains
<1>4. Index(nng_option, o[2]) = i
  BY <1>1, <1>2, <1>3 DEF Index
<1> QED BY <1>1, <1>2, <1>4 DEF to_type

\* to_name gives two options two names.
LEMMA NameOfOneOption ==
  ASSUME NEW o \in AllOptions, NEW p \in AllOptions, to_name(o) = to_name(p)
  PROVE  o = p
<1>1. PICK i \in DOMAIN Enum[o[1]] :
        /\ o[1] \in DOMAIN Enum /\ o = <<o[1], o[2]>>
        /\ o[2] = Enum[o[1]][i] /\ to_name(o) = Names[o[1]][i]
  BY OptionIndex
<1>2. PICK j \in DOMAIN Enum[p[1]] :
        /\ p[1] \in DOMAIN Enum /\ p = <<p[1], p[2]>>
        /\ p[2] = Enum[p[1]][j] /\ to_name(p) = Names[p[1]][j]
  BY OptionIndex
<1>3. PICK ns \in DOMAIN Enum, other \in DOMAIN Enum : ns = o[1] /\ other = p[1]
  BY <1>1, <1>2
<1>4. /\ i \in DOMAIN Enum[ns] /\ j \in DOMAIN Enum[other]
      /\ Names[ns][i] = Names[other][j]
  BY <1>1, <1>2, <1>3
<1>5. ns = other /\ i = j
  BY <1>4, NamesDistinct
<1> QED BY <1>1, <1>2, <1>3, <1>5

-----------------------------------------------------------------------------
(* Options.                                                                *)

\* The two objects, and what they have in common: an object that exists has
\* a value of each used option, by its name in the library and by the option
\* itself in the program's memory, and the two agree.
Alike(k) ==
  /\ DOMAIN val[k] = Touched
  /\ DOMAIN stored[k] = used
  /\ \A o \in used : val[k][NameInLibrary[o]] = stored[k][o]

OptionsInv ==
  /\ used \subseteq AllOptions
  /\ kind \in Kinds \ {"socket"}
  /\ kind \in Objects /\ DOMAIN stored = Objects
  /\ kind \in Owned => "socket" \in Objects
  /\ \A k \in Objects : Exists(k) => Alike(k)

\* Initially there is no object but a socket, with the defaults.
LEMMA OptionsInitial == Init => OptionsInv
<1> SUFFICES ASSUME Init PROVE OptionsInv
  OBVIOUS
<1>1. used \subseteq AllOptions
  BY DEF Init
<1>2. /\ kind \in Kinds \ {"socket"}
      /\ kind \in Objects /\ DOMAIN stored = Objects
      /\ kind \in Owned => "socket" \in Objects
  BY DEF Init, Objects, Owned, Endpoints
<1>3. ASSUME NEW k \in Objects, Exists(k)
      PROVE  Alike(k)
  <2>1. k = "socket"
    BY <1>3 DEF Init, Objects, Exists
  <2>2. /\ val[k] = [n \in Touched |-> Default]
        /\ stored[k] = [o \in used |-> Default]
    BY <1>3, <2>1 DEF Init, Objects
  <2> QED BY <2>2 DEF Alike, Touched
<1> QED BY <1>1, <1>2, <1>3 DEF OptionsInv

\* An object that comes into being has one value by name and by option.
LEMMA NewKeeps ==
  ASSUME OptionsInv, NEW f, DOMAIN f = Touched,
         New(kind, f), UNCHANGED <<used, kind>>
  PROVE  OptionsInv'
<1> USE DEF OptionsInv
<1>1. Objects' = Objects /\ DOMAIN stored' = Objects
  BY DEF New, Objects
<1>2. ASSUME NEW k \in Objects, Exists(k)'
      PROVE  Alike(k)'
  <2>1. CASE k = kind
    <3>1. val'[k] = f /\ stored'[k] = [o \in used |-> f[NameInLibrary[o]]]
      BY <2>1 DEF New, Objects
    <3> QED BY <3>1 DEF Alike, Touched
  <2>2. CASE k # kind
    <3>1. val'[k] = val[k] /\ stored'[k] = stored[k]
      BY <2>2 DEF New, Objects
    <3>2. Alike(k)
      BY <1>2, <3>1 DEF Exists
    <3> QED BY <3>1, <3>2 DEF Alike, Touched
  <2> QED BY <2>1, <2>2
<1> QED BY <1>1, <1>2

\* A getter, or a setter that throws, changes no option.
LEMMA SameOptions ==
  ASSUME OptionsInv, UNCHANGED <<used, kind, val, stored>>
  PROVE  OptionsInv'
BY DEF OptionsInv, Objects, Exists, Alike, Touched

\* What is stored through an option is stored under a name that no other
\* option has.
LEMMA StoreKeeps ==
  ASSUME OptionsInv, NEW k \in Objects, Exists(k), NEW o \in used, NEW n,
         n = NameInLibrary[o], NEW t, NEW v, NEW badtype,
         Store(k, o, n, t, v, badtype), UNCHANGED <<used, kind>>
  PROVE  OptionsInv'
<1> USE DEF OptionsInv
<1>1. CASE t = LibType(o[1], n)
  <2>1. /\ val' = [val EXCEPT ![k][n] = v]
        /\ stored' = [stored EXCEPT ![k][o] = v]
    BY <1>1 DEF Store
  <2>2. Objects' = Objects /\ DOMAIN stored' = Objects
    BY <2>1 DEF Objects
  <2>3. ASSUME NEW j \in Objects, Exists(j)'
        PROVE  Alike(j)'
    <3>1. CASE j = k
      <4>1. Alike(k)
        OBVIOUS
      <4>2. /\ val'[j] = [val[k] EXCEPT ![n] = v]
            /\ stored'[j] = [stored[k] EXCEPT ![o] = v]
        BY <2>1, <3>1 DEF Objects
      <4>3. /\ DOMAIN val'[j] = Touched'
            /\ DOMAIN stored'[j] = used
        BY <4>1, <4>2 DEF Alike, Touched
      <4>4. ASSUME NEW p \in used
            PROVE  val'[j][NameInLibrary[p]] = stored'[j][p]
        <5>1. CASE p = o
          BY <4>1, <4>2, <5>1 DEF Alike, Touched
        <5>2. CASE p # o
          <6>1. NameInLibrary[p] # NameInLibrary[o]
            BY <5>2, NameOfOneOption, NameIsRight
          <6> QED BY <4>1, <4>2, <5>2, <6>1 DEF Alike, Touched
        <5> QED BY <5>1, <5>2
      <4> QED BY <4>3, <4>4 DEF Alike
    <3>2. CASE j # k
      <4>1. val'[j] = val[j] /\ stored'[j] = stored[j]
        BY <2>1, <3>2 DEF Objects
      <4>2. Alike(j)
        BY <2>3, <4>1 DEF Exists
      <4> QED BY <4>1, <4>2 DEF Alike, Touched
    <3> QED BY <3>1, <3>2
  <2> QED BY <2>2, <2>3
<1>2. CASE t # LibType(o[1], n)
  <2>1. UNCHANGED <<used, kind, val, stored>>
    BY <1>2 DEF Store
  <2> QED BY <2>1, SameOptions
<1> QED BY <1>1, <1>2

\* No step makes what is stored and what was stored differ.
LEMMA OptionsStep == OptionsInv /\ [Next]_vars => OptionsInv'
<1> SUFFICES ASSUME OptionsInv, [Next]_vars PROVE OptionsInv'
  OBVIOUS
<1>1. CASE Make
  <2>1. /\ kind \in Objects /\ "socket" \in Objects /\ DOMAIN stored = Objects
        /\ val' = [val EXCEPT ![kind] = val["socket"]]
        /\ stored' = [stored EXCEPT ![kind] = stored["socket"]]
        /\ UNCHANGED <<used, kind>>
    BY <1>1 DEF Make, OptionsInv
  <2>2. Objects' = Objects /\ DOMAIN stored' = Objects
    BY <2>1 DEF Objects
  <2>3. ASSUME NEW k \in Objects, Exists(k)'
        PROVE  Alike(k)'
    <3>1. PICK j \in Objects : val'[k] = val[j] /\ stored'[k] = stored[j]
      BY <2>1 DEF Objects
    <3>2. Alike(j)
      BY <2>3, <3>1 DEF Exists, OptionsInv
    <3> QED BY <2>1, <3>1, <3>2 DEF Alike, Touched
  <2> QED BY <2>1, <2>2, <2>3 DEF OptionsInv
<1>2. CASE Connect
  <2>1. PICK f \in [Touched -> Values] : New(kind, f)
    BY <1>2 DEF Connect
  <2> QED BY <1>2, <2>1, NewKeeps DEF Connect
<1>3. CASE MakeEndpoint
  <2>1. PICK f : f = [n \in Touched |-> Default]
    OBVIOUS
  <2>2. New(kind, f) /\ UNCHANGED <<used, kind>>
    BY <1>3, <2>1 DEF MakeEndpoint
  <2> QED BY <2>1, <2>2, NewKeeps
<1>4. CASE \E k \in Objects, o \in used : Get(k, o)
  <2>1. UNCHANGED <<used, kind, val, stored>>
    BY <1>4 DEF Get, Read
  <2> QED BY <2>1, SameOptions
<1>5. CASE \E k \in Objects, o \in used : \E t \in Tried : GetMember(k, o, t)
  <2>1. UNCHANGED <<used, kind, val, stored>>
    BY <1>5 DEF GetMember, Read
  <2> QED BY <2>1, SameOptions
<1>6. CASE \E k \in Objects, o \in used : \E v \in Values : Set(k, o, v)
  BY <1>6, StoreKeeps, NameIsRight DEF Set, OptionsInv
<1>7. CASE \E k \in Objects, o \in used : \E v \in Values :
             \E t \in Tried : SetMember(k, o, t, v)
  BY <1>7, StoreKeeps DEF SetMember
<1>8. CASE \E k \in Objects, o \in used : \E v \in Values : SetTyped(k, o, v)
  BY <1>8, StoreKeeps, NameIsRight DEF SetTyped, OptionsInv
<1>9. CASE UNCHANGED vars
  BY <1>9, SameOptions DEF vars
<1> QED BY <1>1, <1>2, <1>3, <1>4, <1>5, <1>6, <1>7, <1>8, <1>9 DEF Next

\* OptionsInv holds in every state.
THEOREM OptionsAlways == Spec => []OptionsInv
BY OptionsInitial, OptionsStep, PTL DEF Spec

\* No read has given anything but what was stored.
NoMisread == last # "misread"

\* A read gives what was stored, by whichever of the two names.
LEMMA ReadsRight ==
  ASSUME OptionsInv, NEW k \in Objects, Exists(k), NEW o \in used, NEW n,
         n = NameInLibrary[o], NEW t, NEW badtype, badtype # "misread",
         Read(k, o, n, t, badtype)
  PROVE  NoMisread'
<1>1. val[k][n] = stored[k][o]
  BY DEF OptionsInv, Alike
<1> QED BY <1>1 DEF Read, NoMisread

\* The library's value of every option of every object is the one that the
\* program stored for it last, and that every read gives: whatever it stores
\* through the other options, of whichever namespace, and on the other object
\* (to_name and the arrays of names, place by place).
THEOREM OptionsReadBack == Spec => []GetReturnsWhatWasSet
<1>1. OptionsInv /\ NoMisread => GetReturnsWhatWasSet
  BY DEF OptionsInv, GetReturnsWhatWasSet, Alike, NoMisread
<1>2. Init => NoMisread
  BY DEF Init, NoMisread
<1>3. ASSUME NoMisread, OptionsInv, [Next]_vars
      PROVE  NoMisread'
  <2>1. CASE Make \/ Connect \/ MakeEndpoint
    BY <2>1 DEF Make, Connect, MakeEndpoint, NoMisread
  <2>2. ASSUME NEW k \in Objects, NEW o \in used, Get(k, o)
        PROVE  NoMisread'
    <3>1. NameInLibrary[o] = to_name(o)
      BY <1>3, NameIsRight DEF OptionsInv
    <3> QED BY <1>3, <2>2, <3>1, ReadsRight DEF Get
  <2>3. ASSUME NEW k \in Objects, NEW o \in used, NEW t \in Tried,
               GetMember(k, o, t)
        PROVE  NoMisread'
    BY <1>3, <2>3, ReadsRight DEF GetMember
  <2>4. CASE \E k \in Objects, o \in used : \E v \in Values :
               \/ Set(k, o, v) \/ SetTyped(k, o, v)
               \/ \E t \in Tried : SetMember(k, o, t, v)
    BY <2>4 DEF Set, SetTyped, SetMember, Store, NoMisread
  <2>5. CASE UNCHANGED vars
    BY <1>3, <2>5 DEF vars, NoMisread
  <2> QED BY <1>3, <2>1, <2>2, <2>3, <2>4, <2>5 DEF Next
<1> QED BY <1>1, <1>2, <1>3, OptionsAlways, PTL DEF Spec

\* A dedicated setter never ends in badtype.
LEMMA SetOfRightType ==
  ASSUME OptionsInv, NEW k \in Objects, NEW o \in used, NEW v, Set(k, o, v)
  PROVE  last' = "ok"
<1>1. PICK i \in DOMAIN Enum[o[1]] :
        /\ o[1] \in DOMAIN Enum /\ o[2] = Enum[o[1]][i]
        /\ LibType(o[1], to_name(o)) = Types[o[1]][i]
  BY OptionIndex DEF OptionsInv
<1>2. k \in DOMAIN Setters[o[1]] /\ Enum[o[1]][i] \in DOMAIN Setters[o[1]][k]
  BY <1>1 DEF Set, Has
<1>3. Setters[o[1]][k][o[2]] = Types[o[1]][i]
  BY <1>1, <1>2, SetterTypes
<1> QED BY <1>1, <1>3 DEF Set, Store

\* Nor does the setter of the type that to_type gives.
LEMMA SetOfToType ==
  ASSUME OptionsInv, NEW k \in Objects, NEW o \in used, NEW v,
         SetTyped(k, o, v)
  PROVE  last' = "ok"
<1>1. o[1] = "nng" /\ o \in AllOptions
  BY DEF SetTyped, OptionsInv
<1> QED BY <1>1, TypeIsRight DEF SetTyped, Store

\* All the dedicated setters, of the core options and of every transport and
\* protocol, are of the type that the library gives the option; and so is the
\* setter that to_type chooses.
THEOREM SettersRight == Spec => []SettersHaveTheRightType
<1>1. Init => SettersHaveTheRightType
  BY DEF Init, SettersHaveTheRightType
<1>2. ASSUME SettersHaveTheRightType, OptionsInv, [Next]_vars
      PROVE  SettersHaveTheRightType'
  <2>1. CASE Make \/ Connect \/ MakeEndpoint
    BY <2>1 DEF Make, Connect, MakeEndpoint, SettersHaveTheRightType
  <2>2. CASE \E k \in Objects, o \in used : Get(k, o)
    BY <2>2 DEF Get, Read, SettersHaveTheRightType
  <2>3. CASE \E k \in Objects, o \in used : \E t \in Tried : GetMember(k, o, t)
    BY <2>3 DEF GetMember, Read, SettersHaveTheRightType
  <2>4. CASE \E k \in Objects, o \in used : \E v \in Values : Set(k, o, v)
    BY <1>2, <2>4, SetOfRightType DEF SettersHaveTheRightType
  <2>5. CASE \E k \in Objects, o \in used : \E v \in Values :
               \E t \in Tried : SetMember(k, o, t, v)
    BY <2>5 DEF SetMember, Store, SettersHaveTheRightType
  <2>6. CASE \E k \in Objects, o \in used : \E v \in Values : SetTyped(k, o, v)
    BY <1>2, <2>6, SetOfToType DEF SettersHaveTheRightType
  <2>7. CASE UNCHANGED vars
    BY <1>2, <2>7 DEF vars, SettersHaveTheRightType
  <2> QED BY <1>2, <2>1, <2>2, <2>3, <2>4, <2>5, <2>6, <2>7 DEF Next
<1> QED BY <1>1, <1>2, OptionsAlways, PTL DEF Spec

\* The one dedicated getter that can end in badtype is get_opt_recv_size_max
\* of a socket, which reads a size as a string.
OnlyOneWrongGetter ==
  [][last' = "get_badtype" => Get("socket", <<"nng", "recv_size_max">>)]_vars

\* All the other dedicated getters are of the type that the library gives the
\* option.
THEOREM OneGetterWrong == Spec => OnlyOneWrongGetter
<1> DEFINE Step ==
      last' = "get_badtype" => Get("socket", <<"nng", "recv_size_max">>)
<1>1. ASSUME OptionsInv, [Next]_vars
      PROVE  [Step]_vars
  <2> SUFFICES ASSUME Next, last' = "get_badtype"
               PROVE  Get("socket", <<"nng", "recv_size_max">>)
    BY <1>1
  <2>1. CASE Make \/ Connect \/ MakeEndpoint
    BY <2>1 DEF Make, Connect, MakeEndpoint
  <2>2. ASSUME NEW k \in Objects, NEW o \in used, Get(k, o)
        PROVE  Get("socket", <<"nng", "recv_size_max">>)
    <3>1. PICK i \in DOMAIN Enum[o[1]] :
            /\ o[1] \in DOMAIN Enum /\ o = <<o[1], o[2]>>
            /\ o[2] = Enum[o[1]][i]
            /\ LibType(o[1], to_name(o)) = Types[o[1]][i]
      BY <1>1, OptionIndex DEF OptionsInv
    <3>2. /\ k \in DOMAIN Getters[o[1]]
          /\ Enum[o[1]][i] \in DOMAIN Getters[o[1]][k]
          /\ Getters[o[1]][k][Enum[o[1]][i]] # Types[o[1]][i]
      BY <2>2, <3>1 DEF Get, Has, Read
    <3>3. k = "socket" /\ o[1] = "nng" /\ o[2] = "recv_size_max"
      BY <3>1, <3>2, GetterTypes
    <3>4. o = <<"nng", "recv_size_max">>
      BY <3>1, <3>3
    <3> QED BY <2>2, <3>3, <3>4
  <2>3. CASE \E k \in Objects, o \in used : \E t \in Tried : GetMember(k, o, t)
    BY <2>3 DEF GetMember, Read
  <2>4. CASE \E k \in Objects, o \in used : \E v \in Values :
               \/ Set(k, o, v) \/ SetTyped(k, o, v)
               \/ \E t \in Tried : SetMember(k, o, t, v)
    BY <2>4 DEF Set, SetTyped, SetMember, Store
  <2> QED BY <2>1, <2>2, <2>3, <2>4 DEF Next
<1> QED BY <1>1, OptionsAlways, PTL DEF Spec, OnlyOneWrongGetter

-----------------------------------------------------------------------------
(* Sequences, and sequences of sequences.                                  *)

\* Two sequences put together are a sequence.
LEMMA ConcatSeq ==
  ASSUME NEW S, NEW s \in Seq(S), NEW t \in Seq(S)
  PROVE  s \o t \in Seq(S)
BY ConcatProperties

\* g[i] is the first i of the sequences ss, one after the other.
Joins(g, ss, n) ==
  g[0] = <<>> /\ \A i \in 1 .. n : g[i] = g[i - 1] \o ss[i]

\* It does not matter in which order three are put together.
LEMMA ConcatThree ==
  ASSUME NEW S
  PROVE  \A s, t, u \in Seq(S) : s \o (t \o u) = (s \o t) \o u
<1> TAKE s, t, u \in Seq(S)
<1>1. (s \o t) \o u = s \o (t \o u)
  BY ConcatAssociative
<1> QED BY <1>1, Zenon

\* There is such a g.
LEMMA JoinsExists ==
  ASSUME NEW S, NEW ss \in Seq(Seq(S))
  PROVE  \E g \in [0 .. Len(ss) -> Seq(S)] : Joins(g, ss, Len(ss))
<1> DEFINE T == {n \in Nat : n <= Len(ss) =>
                   \E g \in [0 .. n -> Seq(S)] : Joins(g, ss, n)}
<1>1. 0 \in T
  <2>1. PICK g : g = [i \in 0 .. 0 |-> <<>>]
    OBVIOUS
  <2>2. <<>> \in Seq(S)
    BY EmptySeq
  <2>3. g \in [0 .. 0 -> Seq(S)] /\ Joins(g, ss, 0)
    BY <2>1, <2>2 DEF Joins
  <2> QED BY <2>3
<1>2. ASSUME NEW n \in Nat, n \in T, n + 1 <= Len(ss)
      PROVE  \E g \in [0 .. n + 1 -> Seq(S)] : Joins(g, ss, n + 1)
  <2>1. PICK g \in [0 .. n -> Seq(S)] : Joins(g, ss, n)
    BY <1>2
  <2>2. PICK h : h = [i \in 0 .. n + 1 |-> IF i = n + 1 THEN g[n] \o ss[n + 1]
                                                        ELSE g[i]]
    OBVIOUS
  <2>3. ss[n + 1] \in Seq(S) /\ g[n] \in Seq(S)
    BY <1>2
  <2>4. g[n] \o ss[n + 1] \in Seq(S)
    BY <2>3, ConcatSeq
  <2>5. h \in [0 .. n + 1 -> Seq(S)]
    BY <2>2, <2>4
  <2>6. h[0] = <<>>
    BY <2>1, <2>2 DEF Joins
  <2>7. ASSUME NEW i \in 1 .. n + 1
        PROVE  h[i] = h[i - 1] \o ss[i]
    <3>1. CASE i = n + 1
      <4>1. h[i] = g[n] \o ss[i] /\ h[i - 1] = g[n]
        BY <2>2, <3>1
      <4> QED BY <4>1
    <3>2. CASE i # n + 1
      <4>1. i \in 1 .. n /\ h[i] = g[i] /\ h[i - 1] = g[i - 1]
        BY <2>2, <3>2
      <4>2. g[i] = g[i - 1] \o ss[i]
        BY <2>1, <4>1 DEF Joins
      <4> QED BY <4>1, <4>2
    <3> QED BY <3>1, <3>2
  <2>8. Joins(h, ss, n + 1)
    BY <2>6, <2>7 DEF Joins
  <2> QED BY <2>5, <2>8
<1>3. ASSUME NEW n \in Nat, n \in T
      PROVE  n + 1 \in T
  <2>1. n + 1 \in Nat
    OBVIOUS
  <2> QED BY <1>2, <1>3, <2>1
<1> HIDE DEF T
<1>4. Nat \subseteq T
  BY <1>1, <1>3, Induction
<1>5. Len(ss) \in T
  BY <1>4, LenProperties
<1> QED BY <1>5 DEF T

\* FlattenSeq is what such a g ends in.
LEMMA JoinsFlatten ==
  ASSUME NEW S, NEW ss \in Seq(Seq(S)), NEW g \in [0 .. Len(ss) -> Seq(S)],
         Joins(g, ss, Len(ss))
  PROVE  FlattenSeq(ss) = g[Len(ss)]
<1>1. CASE Len(ss) = 0
  <2>1. ss = <<>>
    BY <1>1, EmptySeq
  <2> QED BY <1>1, <2>1 DEF FlattenSeq, Joins
<1>2. CASE Len(ss) # 0
  <2> DEFINE Flattens(h) == h = [i \in 1 .. Len(ss) |->
                       IF i = 1 THEN ss[i] ELSE h[i - 1] \o ss[i]]
  <2>1. PICK n \in Nat \ {0} : n = Len(ss)
    BY <1>2, LenProperties
  <2>2. ASSUME NEW i \in 1 .. n
        PROVE  /\ ss[i] \in Seq(S)
               /\ i = 1 => g[i] = ss[i]
               /\ i # 1 => i - 1 \in 1 .. n /\ g[i] = g[i - 1] \o ss[i]
    <3>1. ss[i] \in Seq(S)
      BY <2>1, ElementOfSeq
    <3>2. g[i] = g[i - 1] \o ss[i] /\ g[0] = <<>>
      BY <2>1 DEF Joins
    <3>3. <<>> \o ss[i] = ss[i]
      BY <3>1, ConcatEmptySeq
    <3>4. i = 1 => i - 1 = 0
      OBVIOUS
    <3>5. i = 1 => g[i] = ss[i]
      BY <3>2, <3>3, <3>4
    <3>6. i # 1 => i - 1 \in 1 .. n
      OBVIOUS
    <3> QED BY <3>1, <3>2, <3>5, <3>6, Zenon
  <2>3. PICK k : k = [i \in 1 .. n |-> g[i]]
    OBVIOUS
  <2>4. Flattens(k)
    <3>1. ASSUME NEW i \in 1 .. n
          PROVE  k[i] = IF i = 1 THEN ss[i] ELSE k[i - 1] \o ss[i]
      BY <2>2, <2>3
    <3>2. k = [i \in 1 .. n |-> k[i]]
      BY <2>3
    <3> QED BY <2>1, <3>1, <3>2
  <2>5. PICK h : Flattens(h) /\ FlattenSeq(ss) = h[n]
    <3>1. \E h : Flattens(h)
      BY <2>4
    <3>2. FlattenSeq(ss) = (CHOOSE h : Flattens(h))[n]
      BY <1>2, <2>1 DEF FlattenSeq
    <3> HIDE DEF Flattens
    <3> QED BY <3>1, <3>2
  <2>6. ASSUME NEW i \in 1 .. n
        PROVE  /\ i = 1 => h[i] = ss[i]
               /\ i # 1 => h[i] = h[i - 1] \o ss[i]
    BY <2>1, <2>5
  <2> HIDE DEF Flattens
  <2> DEFINE T == {i \in Nat : i + 1 <= n => h[i + 1] = g[i + 1]}
  <2>7. 0 \in T
    <3>1. PICK i \in 1 .. n : i = 0 + 1 /\ i = 1
      BY <2>1
    <3>2. h[i] = g[i]
      BY <2>2, <2>6, <3>1, Zenon
    <3> QED BY <3>1, <3>2
  <2>8. ASSUME NEW i \in Nat, i \in T
        PROVE  i + 1 \in T
    <3>1. SUFFICES ASSUME (i + 1) + 1 <= n
                   PROVE  h[(i + 1) + 1] = g[(i + 1) + 1]
      OBVIOUS
    <3>2. PICK j \in 1 .. n : j = (i + 1) + 1 /\ j # 1 /\ j - 1 = i + 1
      BY <2>1, <3>1
    <3>3. h[j - 1] = g[j - 1]
      BY <2>1, <2>8, <3>2
    <3>4. h[j] = h[j - 1] \o ss[j] /\ g[j] = g[j - 1] \o ss[j]
      BY <2>2, <2>6, <3>2
    <3> QED BY <3>2, <3>3, <3>4
  <2> HIDE DEF T
  <2>9. Nat \subseteq T
    BY <2>7, <2>8, Induction
  <2>10. n - 1 \in T /\ (n - 1) + 1 = n
    BY <2>1, <2>9
  <2>11. h[n] = g[n]
    BY <2>1, <2>10 DEF T
  <2> QED BY <2>1, <2>5, <2>11
<1> QED BY <1>1, <1>2

\* A flattened sequence of sequences is a sequence.
LEMMA FlattenType ==
  ASSUME NEW S, NEW ss \in Seq(Seq(S))
  PROVE  FlattenSeq(ss) \in Seq(S)
<1>1. PICK g \in [0 .. Len(ss) -> Seq(S)] : Joins(g, ss, Len(ss))
  BY JoinsExists
<1>2. Len(ss) \in 0 .. Len(ss)
  BY LenProperties
<1> QED BY <1>1, <1>2, JoinsFlatten

\* What is appended to the parts is appended to the whole.
LEMMA FlattenBack ==
  ASSUME NEW S, NEW ss \in Seq(Seq(S)), NEW s \in Seq(S)
  PROVE  FlattenSeq(ss \o <<s>>) = FlattenSeq(ss) \o s
<1>1. PICK g \in [0 .. Len(ss) -> Seq(S)] : Joins(g, ss, Len(ss))
  BY JoinsExists
<1>2. PICK n \in Nat : n = Len(ss)
  BY LenProperties
<1>3. PICK tt \in Seq(Seq(S)) : tt = ss \o <<s>>
  <2>1. <<s>> \in Seq(Seq(S))
    OBVIOUS
  <2> QED BY <2>1, ConcatSeq, Zenon
<1>4. /\ Len(tt) = n + 1 /\ tt[n + 1] = s
      /\ \A i \in 1 .. n : tt[i] = ss[i]
  BY <1>2, <1>3
<1>5. g[n] \in Seq(S) /\ g[n] \o s \in Seq(S)
  BY <1>1, <1>2, ConcatSeq
<1>6. PICK h : h = [i \in 0 .. n + 1 |-> IF i = n + 1 THEN g[n] \o s ELSE g[i]]
  OBVIOUS
<1>7. h \in [0 .. n + 1 -> Seq(S)]
  BY <1>1, <1>2, <1>5, <1>6
<1>8. Joins(h, tt, n + 1)
  <2>1. h[0] = <<>>
    BY <1>1, <1>2, <1>6 DEF Joins
  <2>2. ASSUME NEW i \in 1 .. n + 1
        PROVE  h[i] = h[i - 1] \o tt[i]
    <3>1. CASE i = n + 1
      <4>1. h[i] = g[n] \o s /\ h[i - 1] = g[n] /\ tt[i] = s
        BY <1>4, <1>6, <3>1
      <4> QED BY <4>1
    <3>2. CASE i # n + 1
      <4>1. i \in 1 .. n /\ h[i] = g[i] /\ h[i - 1] = g[i - 1] /\ tt[i] = ss[i]
        BY <1>4, <1>6, <3>2
      <4>2. g[i] = g[i - 1] \o ss[i]
        BY <1>1, <1>2, <4>1 DEF Joins
      <4> QED BY <4>1, <4>2
    <3> QED BY <3>1, <3>2
  <2> QED BY <2>1, <2>2 DEF Joins
<1>9. FlattenSeq(tt) = h[n + 1]
  BY <1>4, <1>7, <1>8, JoinsFlatten
<1>10. FlattenSeq(ss) = g[n]
  BY <1>1, <1>2, JoinsFlatten
<1>11. h[n + 1] = g[n] \o s
  BY <1>6
<1> QED BY <1>3, <1>9, <1>10, <1>11

\* What is put before the parts is put before the whole.
LEMMA FlattenFront ==
  ASSUME NEW S, NEW ss \in Seq(Seq(S)), NEW s \in Seq(S)
  PROVE  FlattenSeq(<<s>> \o ss) = s \o FlattenSeq(ss)
<1>0. \A t, u \in Seq(S) : s \o (t \o u) = (s \o t) \o u
  BY ConcatThree
<1>1. PICK g \in [0 .. Len(ss) -> Seq(S)] : Joins(g, ss, Len(ss))
  BY JoinsExists
<1>2. PICK n \in Nat : n = Len(ss)
  BY LenProperties
<1>3. PICK tt \in Seq(Seq(S)) : tt = <<s>> \o ss
  <2>1. <<s>> \in Seq(Seq(S))
    OBVIOUS
  <2> QED BY <2>1, ConcatSeq, Zenon
<1>4. /\ Len(tt) = n + 1 /\ tt[1] = s
      /\ \A i \in 1 .. n : tt[i + 1] = ss[i]
  BY <1>2, <1>3
<1>5. \A i \in 0 .. n : g[i] \in Seq(S) /\ s \o g[i] \in Seq(S)
  BY <1>1, <1>2, ConcatSeq
<1>6. PICK h : h = [i \in 0 .. n + 1 |-> IF i = 0 THEN <<>> ELSE s \o g[i - 1]]
  OBVIOUS
<1>7. h \in [0 .. n + 1 -> Seq(S)]
  <2>1. <<>> \in Seq(S)
    BY EmptySeq
  <2> QED BY <1>5, <1>6, <2>1
<1>8. Joins(h, tt, n + 1)
  <2>1. h[0] = <<>>
    BY <1>6
  <2>2. ASSUME NEW i \in 1 .. n + 1
        PROVE  h[i] = h[i - 1] \o tt[i]
    <3>1. CASE i = 1
      <4>1. s \o <<>> = s /\ <<>> \o s = s
        BY ConcatEmptySeq
      <4> QED BY <1>1, <1>4, <1>6, <3>1, <4>1 DEF Joins
    <3>2. CASE i # 1
      <4>1. PICK j \in 1 .. n : i = j + 1
        BY <3>2
      <4>2. /\ i \in 0 .. n + 1 /\ i # 0 /\ i - 1 = j
            /\ j \in 0 .. n + 1 /\ j # 0
        BY <4>1
      <4>6. h[i] = s \o g[j] /\ h[i - 1] = s \o g[j - 1]
        BY <1>6, <4>2
      <4>7. tt[i] = ss[j]
        BY <1>4, <4>1
      <4>3. g[j] = g[j - 1] \o ss[j]
        BY <1>1, <1>2 DEF Joins
      <4>4. g[j - 1] \in Seq(S) /\ ss[j] \in Seq(S)
        BY <1>2, <1>5, ElementOfSeq
      <4>5. s \o (g[j - 1] \o ss[j]) = (s \o g[j - 1]) \o ss[j]
        BY <1>0, <4>4, Zenon
      <4> QED BY <4>3, <4>5, <4>6, <4>7
    <3> QED BY <3>1, <3>2
  <2> QED BY <2>1, <2>2 DEF Joins
<1>9. FlattenSeq(tt) = h[n + 1]
  BY <1>4, <1>7, <1>8, JoinsFlatten
<1>10. FlattenSeq(ss) = g[n]
  BY <1>1, <1>2, JoinsFlatten
<1>11. h[n + 1] = s \o g[n]
  <2>1. n + 1 \in 0 .. n + 1 /\ n + 1 # 0 /\ (n + 1) - 1 = n
    OBVIOUS
  <2> QED BY <1>6, <2>1
<1> QED BY <1>3, <1>9, <1>10, <1>11

\* The n elements of s and the k of t are those of u.
Halves(u, s, t, n, k) ==
  /\ n = Len(s) /\ k = Len(t) /\ Len(u) = n + k
  /\ \A i \in 1 .. n + k : u[i] = IF i <= n THEN s[i] ELSE t[i - n]

\* A sequence of n + k elements is cut into the first n and the last k.
LEMMA Cut ==
  ASSUME NEW S, NEW s \in Seq(S), NEW t \in Seq(S), NEW u \in Seq(S),
         NEW n \in Nat, NEW k \in Nat, Halves(u, s, t, n, k)
  PROVE  SubSeq(u, 1, n) = s /\ SubSeq(u, n + 1, n + k) = t
<1>1. n = Len(s) /\ k = Len(t) /\ Len(u) = n + k
  BY DEF Halves
<1>2. \A i \in 1 .. n : u[i] = s[i]
  BY DEF Halves
<1>3. ASSUME NEW i \in 1 .. k
      PROVE  u[n + i] = t[i]
  <2>1. PICK j \in 1 .. n + k : j = n + i
    OBVIOUS
  <2>2. ~(j <= n) /\ j - n = i
    BY <2>1
  <2>3. u[j] = t[j - n]
    BY <2>2 DEF Halves
  <2> QED BY <2>1, <2>2, <2>3
<1>4. \A i \in 1 .. n + k : u[i] \in S
  BY <1>1, ElementOfSeq
<1>5. SubSeq(u, 1, n) = s
  <2>1. \A i \in 1 .. n : u[i] \in S
    BY <1>4
  <2>2. PICK c : c = SubSeq(u, 1, n)
    OBVIOUS
  <2>3. /\ c \in Seq(S) /\ Len(c) = IF 1 <= n THEN n - 1 + 1 ELSE 0
        /\ \A i \in 1 .. n - 1 + 1 : c[i] = u[1 + i - 1]
    BY <2>1, <2>2, SubSeqProperties
  <2>4. Len(c) = n /\ \A i \in 1 .. n : c[i] = s[i]
    BY <1>2, <2>3
  <2> QED BY <1>1, <2>2, <2>3, <2>4, SeqEqual
<1>6. SubSeq(u, n + 1, n + k) = t
  <2>1. PICK a \in Int, b \in Int : a = n + 1 /\ b = n + k
    OBVIOUS
  <2>2. \A i \in a .. b : u[i] \in S
    BY <1>4, <2>1
  <2>3. PICK c : c = SubSeq(u, a, b)
    OBVIOUS
  <2>4. /\ SubSeq(u, a, b) \in Seq(S)
        /\ Len(SubSeq(u, a, b)) = IF a <= b THEN b - a + 1 ELSE 0
        /\ \A i \in 1 .. b - a + 1 : SubSeq(u, a, b)[i] = u[a + i - 1]
    <3>1. SubSeq(u, a, b) \in Seq(S)
      BY <2>2, SubSeqProperties
    <3>2. Len(SubSeq(u, a, b)) = IF a <= b THEN b - a + 1 ELSE 0
      BY <2>2, SubSeqProperties
    <3>3. \A i \in 1 .. b - a + 1 : SubSeq(u, a, b)[i] = u[a + i - 1]
      BY <2>2, SubSeqProperties
    <3> QED BY <3>1, <3>2, <3>3
  <2>5. c \in Seq(S) /\ Len(c) = k
    BY <2>1, <2>3, <2>4
  <2>6. ASSUME NEW i \in 1 .. k
        PROVE  c[i] = t[i]
    <3>1. i \in 1 .. b - a + 1
      BY <2>1
    <3>2. c[i] = u[a + i - 1]
      BY <2>3, <2>4, <3>1
    <3>3. a + i - 1 = n + i
      BY <2>1
    <3> QED BY <1>3, <3>2, <3>3
  <2> QED BY <1>1, <2>1, <2>3, <2>5, <2>6, SeqEqual
<1> QED BY <1>5, <1>6

\* A concatenation can be cut again.
LEMMA ConcatHalves ==
  ASSUME NEW S, NEW s \in Seq(S), NEW t \in Seq(S),
         NEW n \in Nat, n = Len(s), NEW k \in Nat, k = Len(t)
  PROVE  s \o t \in Seq(S) /\ Halves(s \o t, s, t, n, k)
BY ConcatProperties DEF Halves

-----------------------------------------------------------------------------
(* The bytes of fields.                                                    *)

\* The instance of Msg has the operators of BigEndian and SequencesExt.
LEMMA SameOperators ==
  /\ M!Byte = Byte
  /\ \A w : M!Uint(w) = Uint(w)
  /\ \A w, v : M!Encode(w, v) = Encode(w, v)
  /\ \A s : M!Decode(s) = Decode(s)
  /\ \A s : M!FlattenSeq(s) = FlattenSeq(s)
  /\ \A s : M!Last(s) = Last(s) /\ M!Front(s) = Front(s)
<1>1. M!Byte = Byte
  BY DEF M!Byte, Byte
<1>2. \A w : M!Uint(w) = Uint(w)
  BY DEF M!Uint, Uint
<1>3. \A w, v : M!Encode(w, v) = Encode(w, v)
  BY DEF M!Encode, Encode
<1>4. \A s : M!Decode(s) = Decode(s)
  BY DEF M!Decode, Decode, M!MapThenSumSet, MapThenSumSet, M!MapThenFoldSet,
         MapThenFoldSet
<1>5. \A s : M!FlattenSeq(s) = FlattenSeq(s)
  BY DEF M!FlattenSeq, FlattenSeq
<1>6. \A s : M!Last(s) = Last(s) /\ M!Front(s) = Front(s)
  BY DEF M!Last, Last, M!Front, Front
<1> QED BY <1>1, <1>2, <1>3, <1>4, <1>5, <1>6

\* A field is an integer of one to eight bytes, as many as it is encoded in.
LEMMA FieldBytes ==
  ASSUME NEW f \in Fields
  PROVE  /\ f.w \in 1 .. 8 /\ f.v \in Uint(f.w)
         /\ Encode(f.w, f.v) \in Seq(Byte)
         /\ Len(Encode(f.w, f.v)) = f.w
<1>1. f.w \in 1 .. 8 /\ f.v \in Uint(f.w)
  BY MsgAssumption, SameOperators DEF M!Assumption, M!Widths
<1>2. PICK w \in 1 .. 8 : w = f.w
  BY <1>1
<1>9. PICK v \in Uint(w) : v = f.v
  BY <1>1, <1>2
<1>3. v \in Int
  BY Powers DEF Uint
<1>4. ASSUME NEW i \in 1 .. w
      PROVE  Encode(w, v)[i] \in Byte
  <2>1. PICK k \in 0 .. 7 : k = w - i
    OBVIOUS
  <2>2. Encode(w, v)[i] = Digit(v, k)
    BY <2>1 DEF Encode, Digit
  <2> QED BY <1>3, <2>2, OneDigit
<1>5. PICK s : s = Encode(w, v)
  OBVIOUS
<1>6. s = [i \in 1 .. w |-> s[i]]
  BY <1>5 DEF Encode
<1>7. s \in [1 .. w -> Byte]
  BY <1>4, <1>5, <1>6
<1>8. s \in Seq(Byte) /\ Len(s) = w
  BY <1>7
<1> QED BY <1>1, <1>2, <1>9, <1>5, <1>8

\* The bytes of a field, of each of the fields fs, and of all of them
Code(f) == Encode(f.w, f.v)
Codes(fs) == [i \in DOMAIN fs |-> Code(fs[i])]
Bytes(fs) == FlattenSeq(Codes(fs))

\* A field of width w is w bytes.
LEMMA CodeType ==
  ASSUME NEW f \in Fields
  PROVE  Code(f) \in Seq(Byte) /\ Len(Code(f)) = f.w
BY FieldBytes DEF Code

\* Fields are as many byte strings.
LEMMA CodesType ==
  ASSUME NEW fs \in Seq(Fields)
  PROVE  /\ Codes(fs) \in Seq(Seq(Byte))
         /\ Len(Codes(fs)) = Len(fs)
         /\ \A i \in 1 .. Len(fs) : Codes(fs)[i] = Code(fs[i])
<1>1. PICK n \in Nat : n = Len(fs) /\ DOMAIN fs = 1 .. n
  BY LenProperties
<1>2. \A i \in 1 .. n : Code(fs[i]) \in Seq(Byte)
  BY <1>1, ElementOfSeq, CodeType
<1>3. PICK c : c = Codes(fs)
  OBVIOUS
<1>4. c = [i \in 1 .. n |-> Code(fs[i])]
  BY <1>1, <1>3 DEF Codes
<1>5. c \in [1 .. n -> Seq(Byte)]
  BY <1>2, <1>4
<1>6. c \in Seq(Seq(Byte)) /\ Len(c) = n
  BY <1>5
<1> QED BY <1>1, <1>3, <1>4, <1>6

\* No fields, no bytes.
LEMMA BytesEmpty == Bytes(<<>>) = <<>>
<1>1. <<>> \in Seq(Fields) /\ Len(<<>>) = 0
  BY EmptySeq
<1>2. PICK ss \in Seq(Seq(Byte)) : ss = Codes(<<>>) /\ Len(ss) = 0
  BY <1>1, CodesType
<1>3. ss = <<>>
  BY <1>2, EmptySeq
<1> QED BY <1>2, <1>3 DEF Bytes, FlattenSeq

\* The bytes of fields are a sequence of bytes.
LEMMA BytesType ==
  ASSUME NEW fs \in Seq(Fields)
  PROVE  Bytes(fs) \in Seq(Byte)
BY CodesType, FlattenType DEF Bytes

\* A field more at the back is its bytes more at the back,
LEMMA BytesBack ==
  ASSUME NEW fs \in Seq(Fields), NEW f \in Fields
  PROVE  fs \o <<f>> \in Seq(Fields) /\ Bytes(fs \o <<f>>) = Bytes(fs) \o Code(f)
<1>1. PICK n \in Nat : n = Len(fs)
  BY LenProperties
<1>2. PICK gs \in Seq(Fields) : gs = fs \o <<f>>
  <2>1. <<f>> \in Seq(Fields)
    OBVIOUS
  <2> QED BY <2>1, ConcatSeq, Zenon
<1>3. /\ Len(gs) = n + 1 /\ gs[n + 1] = f
      /\ \A i \in 1 .. n : gs[i] = fs[i]
  BY <1>1, <1>2
<1>4. PICK ss \in Seq(Seq(Byte)), c \in Seq(Byte) :
        /\ ss = Codes(fs) /\ c = Code(f) /\ Len(ss) = n
        /\ \A i \in 1 .. n : ss[i] = Code(fs[i])
  BY <1>1, CodesType, CodeType
<1>5. PICK tt \in Seq(Seq(Byte)) :
        /\ tt = Codes(gs) /\ Len(tt) = n + 1
        /\ \A i \in 1 .. n + 1 : tt[i] = Code(gs[i])
  BY <1>3, CodesType
<1>6. tt = ss \o <<c>>
  <2>1. PICK uu \in Seq(Seq(Byte)) : uu = ss \o <<c>>
    <3>1. <<c>> \in Seq(Seq(Byte))
      OBVIOUS
    <3> QED BY <3>1, ConcatSeq, Zenon
  <2>2. /\ Len(uu) = n + 1 /\ uu[n + 1] = c
        /\ \A i \in 1 .. n : uu[i] = ss[i]
    <3>1. uu = Append(ss, c)
      BY <2>1, AppendIsConcat
    <3> QED BY <1>4, <3>1, AppendProperties
  <2>3. \A i \in 1 .. n : tt[i] = uu[i]
    BY <1>3, <1>4, <1>5, <2>2
  <2>4. tt[n + 1] = uu[n + 1]
    BY <1>3, <1>4, <1>5, <2>2
  <2>5. \A i \in 1 .. Len(tt) : tt[i] = uu[i]
    BY <1>5, <2>3, <2>4
  <2>6. tt = uu
    BY <1>5, <2>2, <2>5, SeqEqual
  <2> QED BY <2>1, <2>6
<1>7. FlattenSeq(tt) = FlattenSeq(ss) \o c
  BY <1>6, FlattenBack
<1> QED BY <1>2, <1>4, <1>5, <1>7 DEF Bytes

\* and a field more at the front is its bytes more at the front.
LEMMA BytesFront ==
  ASSUME NEW fs \in Seq(Fields), NEW f \in Fields
  PROVE  <<f>> \o fs \in Seq(Fields) /\ Bytes(<<f>> \o fs) = Code(f) \o Bytes(fs)
<1>1. PICK n \in Nat : n = Len(fs)
  BY LenProperties
<1>2. PICK gs \in Seq(Fields) : gs = <<f>> \o fs
  <2>1. <<f>> \in Seq(Fields)
    OBVIOUS
  <2> QED BY <2>1, ConcatSeq, Zenon
<1>3. /\ Len(gs) = n + 1 /\ gs[1] = f
      /\ \A i \in 1 .. n : gs[i + 1] = fs[i]
  BY <1>1, <1>2
<1>4. PICK ss \in Seq(Seq(Byte)), c \in Seq(Byte) :
        /\ ss = Codes(fs) /\ c = Code(f) /\ Len(ss) = n
        /\ \A i \in 1 .. n : ss[i] = Code(fs[i])
  BY <1>1, CodesType, CodeType
<1>5. PICK tt \in Seq(Seq(Byte)) :
        /\ tt = Codes(gs) /\ Len(tt) = n + 1
        /\ \A i \in 1 .. n + 1 : tt[i] = Code(gs[i])
  BY <1>3, CodesType
<1>6. tt = <<c>> \o ss
  <2>1. PICK uu \in Seq(Seq(Byte)) : uu = <<c>> \o ss
    <3>1. <<c>> \in Seq(Seq(Byte))
      OBVIOUS
    <3> QED BY <3>1, ConcatSeq, Zenon
  <2>2. /\ Len(uu) = n + 1 /\ uu[1] = c
        /\ \A i \in 1 .. n : uu[i + 1] = ss[i]
    BY <1>4, <2>1
  <2>3. ASSUME NEW i \in 1 .. n + 1
        PROVE  tt[i] = uu[i]
    <3>1. CASE i = 1
      BY <1>3, <1>4, <1>5, <2>2, <3>1
    <3>2. CASE i # 1
      <4>1. PICK j \in 1 .. n : i = j + 1
        BY <3>2
      <4>2. tt[i] = Code(gs[i]) /\ gs[i] = fs[j]
        BY <1>3, <1>5, <4>1
      <4>3. uu[i] = ss[j] /\ ss[j] = Code(fs[j])
        BY <1>4, <2>2, <4>1
      <4> QED BY <4>2, <4>3
    <3> QED BY <3>1, <3>2
  <2>4. tt = uu
    BY <1>5, <2>2, <2>3, SeqEqual
  <2> QED BY <2>1, <2>4
<1>7. FlattenSeq(tt) = c \o FlattenSeq(ss)
  BY <1>6, FlattenFront
<1> QED BY <1>2, <1>4, <1>5, <1>7 DEF Bytes

\* The first field is at the front.
LEMMA BytesHead ==
  ASSUME NEW fs \in Seq(Fields), fs # <<>>
  PROVE  /\ Head(fs) \in Fields /\ Tail(fs) \in Seq(Fields)
         /\ Bytes(fs) = Code(Head(fs)) \o Bytes(Tail(fs))
<1>1. PICK f \in Fields, gs \in Seq(Fields) : f = Head(fs) /\ gs = Tail(fs)
  BY HeadTailProperties
<1>2. fs = <<f>> \o gs
  BY <1>1
<1> QED BY <1>1, <1>2, BytesFront

\* The last field is at the back.
LEMMA BytesLast ==
  ASSUME NEW fs \in Seq(Fields), fs # <<>>
  PROVE  /\ Last(fs) \in Fields /\ Front(fs) \in Seq(Fields)
         /\ Bytes(fs) = Bytes(Front(fs)) \o Code(Last(fs))
<1>1. PICK n \in Nat \ {0} : n = Len(fs)
  BY EmptySeq
<1>2. PICK gs \in Seq(Fields), f \in Fields : fs = Append(gs, f)
  BY SequenceEmptyOrAppend
<1>3. f = Last(fs) /\ gs = Front(fs)
  BY <1>1, <1>2 DEF Last, Front
<1>4. fs = gs \o <<f>>
  BY <1>2, AppendIsConcat
<1> QED BY <1>3, <1>4, BytesBack

-----------------------------------------------------------------------------
(* The messages.                                                           *)

\* What the program may believe to be in a part, and in a message
Known == Seq(Fields) \cup {Null}
Belief == [header : Known, body : Known, pipe : Pipes \cup {Null}]
Parts == {"header", "body"}

\* The bytes s of a part are those of the fields fs, if there is a belief.
Agrees(s, fs) == s \in Seq(Byte) /\ fs \in Known /\ (fs # Null => s = Bytes(fs))

\* A message is what the program believes it to be.
Faithful(msg, b) ==
  /\ msg \in [header : Seq(Byte), body : Seq(Byte), pipe : Pipes \cup {Null}]
  /\ b \in Belief
  /\ msg.pipe = b.pipe
  /\ \A p \in Parts : Agrees(msg[p], b[p])

\* Every message has one object, which is right about it.
MsgInv ==
  /\ m \in [Msgs -> Messages \cup {Null}]
  /\ DOMAIN heap = {m[o] : o \in Msgs} \ {Null}
  /\ fields \in [Msgs -> Belief \cup {Null}]
  /\ \A o, q \in Msgs : m[o] = m[q] /\ m[o] # Null => o = q
  /\ \A o \in Msgs : m[o] # Null => Faithful(heap[m[o]], fields[o])
  /\ call \in {"done", "threw"}

\* An address is not null.
LEMMA NoNull == Null \notin Messages
BY MsgAssumption DEF M!Assumption

\* One part of a message and of the belief in it changes.
LEMMA FaithfulPart ==
  ASSUME NEW msg, NEW b, Faithful(msg, b), NEW p \in Parts, NEW s, NEW fs,
         Agrees(s, fs)
  PROVE  Faithful([msg EXCEPT ![p] = s], [b EXCEPT ![p] = fs])
<1>1. s \in Seq(Byte) /\ fs \in Known
  BY DEF Agrees
<1>2. msg \in [header : Seq(Byte), body : Seq(Byte), pipe : Pipes \cup {Null}]
  BY DEF Faithful
<1>3. b \in [header : Known, body : Known, pipe : Pipes \cup {Null}]
  BY DEF Faithful, Belief
<1>4. PICK msg2 : msg2 = [msg EXCEPT ![p] = s]
  OBVIOUS
<1>5. PICK b2 : b2 = [b EXCEPT ![p] = fs]
  OBVIOUS
<1>6. msg2 \in [header : Seq(Byte), body : Seq(Byte), pipe : Pipes \cup {Null}]
  BY <1>1, <1>2, <1>4 DEF Parts
<1>7. b2 \in [header : Known, body : Known, pipe : Pipes \cup {Null}]
  BY <1>1, <1>3, <1>5 DEF Parts
<1>8. msg2.pipe = msg.pipe /\ b2.pipe = b.pipe
  BY <1>2, <1>3, <1>4, <1>5 DEF Parts
<1>9. ASSUME NEW r \in Parts
      PROVE  Agrees(msg2[r], b2[r])
  <2>1. CASE r = p
    <3>1. msg2[r] = s /\ b2[r] = fs
      BY <1>2, <1>3, <1>4, <1>5, <2>1 DEF Parts
    <3> QED BY <3>1
  <2>2. CASE r # p
    <3>1. msg2[r] = msg[r] /\ b2[r] = b[r]
      BY <1>2, <1>3, <1>4, <1>5, <2>2 DEF Parts
    <3>2. Agrees(msg[r], b[r])
      BY DEF Faithful
    <3> QED BY <3>1, <3>2
  <2> QED BY <2>1, <2>2
<1>10. msg.pipe = b.pipe
  BY DEF Faithful
<1>11. Faithful(msg2, b2)
  BY <1>6, <1>7, <1>8, <1>9, <1>10 DEF Faithful, Belief
<1> QED BY <1>4, <1>5, <1>11

\* The message of one object changes in place, and so does its belief.
Changes(o, msg, b) ==
  /\ heap' = [heap EXCEPT ![m[o]] = msg]
  /\ fields' = [fields EXCEPT ![o] = b]
  /\ m' = m
  /\ call' = "done"

\* The invariant still holds, for this object and for the others.
LEMMA ChangeKeeps ==
  ASSUME MsgInv, NEW o \in Msgs, m[o] # Null, NEW msg, NEW b,
         Faithful(msg, b), Changes(o, msg, b)
  PROVE  MsgInv'
<1>1. /\ heap' = [heap EXCEPT ![m[o]] = msg]
      /\ fields' = [fields EXCEPT ![o] = b]
      /\ m' = m
      /\ call' = "done"
  BY DEF Changes
<1>2. m' \in [Msgs -> Messages \cup {Null}]
  BY <1>1 DEF MsgInv
<1>3. DOMAIN heap' = {m'[q] : q \in Msgs} \ {Null}
  BY <1>1 DEF MsgInv
<1>4. fields' \in [Msgs -> Belief \cup {Null}]
  <2>1. b \in Belief
    BY DEF Faithful
  <2> QED BY <1>1, <2>1 DEF MsgInv
<1>5. \A q, r \in Msgs : m'[q] = m'[r] /\ m'[q] # Null => q = r
  BY <1>1 DEF MsgInv
<1>6. ASSUME NEW q \in Msgs, m'[q] # Null
      PROVE  Faithful(heap'[m'[q]], fields'[q])
  <2>1. m[q] \in DOMAIN heap /\ m[q] = m'[q]
    BY <1>1, <1>6 DEF MsgInv
  <2>2. CASE q = o
    <3>1. heap'[m'[q]] = msg
      BY <1>1, <2>1, <2>2
    <3>2. fields'[q] = b
      BY <1>1, <2>2 DEF MsgInv
    <3> QED BY <3>1, <3>2
  <2>3. CASE q # o
    <3>1. m[q] # m[o]
      BY <1>6, <2>1, <2>3 DEF MsgInv
    <3>2. heap'[m'[q]] = heap[m[q]]
      BY <1>1, <2>1, <3>1
    <3>3. fields'[q] = fields[q]
      BY <1>1, <2>3 DEF MsgInv
    <3>4. Faithful(heap[m[q]], fields[q])
      BY <1>6, <2>1 DEF MsgInv
    <3> QED BY <3>2, <3>3, <3>4
  <2> QED BY <2>2, <2>3
<1> QED BY <1>1, <1>2, <1>3, <1>4, <1>5, <1>6 DEF MsgInv

\* One of its parts does.
LEMMA ReplaceKeeps ==
  ASSUME MsgInv, NEW o \in Msgs, m[o] # Null, NEW p \in Parts, NEW s, NEW fs,
         Agrees(s, fs),
         heap' = [heap EXCEPT ![m[o]][p] = s],
         fields' = [fields EXCEPT ![o][p] = fs],
         m' = m, call' = "done"
  PROVE  MsgInv'
<1>1. PICK msg : msg = [heap[m[o]] EXCEPT ![p] = s]
  OBVIOUS
<1>2. PICK b : b = [fields[o] EXCEPT ![p] = fs]
  OBVIOUS
<1>3. Faithful(heap[m[o]], fields[o])
  BY DEF MsgInv
<1>4. Faithful(msg, b)
  BY <1>1, <1>2, <1>3, FaithfulPart
<1>5. Changes(o, msg, b)
  BY <1>1, <1>2 DEF Changes
<1> QED BY <1>4, <1>5, ChangeKeeps

\* A call that throws has changed nothing.
LEMMA ThrowKeeps ==
  ASSUME MsgInv, M!Throws
  PROVE  MsgInv'
<1>1. m' = m /\ heap' = heap /\ fields' = fields /\ call' = "threw"
  BY DEF M!Throws
<1> QED BY <1>1 DEF MsgInv

\* An object's message is what the object believes.
LEMMA PartAgrees ==
  ASSUME MsgInv, NEW o \in Msgs, m[o] # Null, NEW p \in Parts
  PROVE  Agrees(heap[m[o]][p], fields[o][p])
<1>1. Faithful(heap[m[o]], fields[o])
  BY DEF MsgInv
<1> QED BY <1>1 DEF Faithful

-----------------------------------------------------------------------------
(* The operations of the parts.                                            *)

\* A part with a field more, at the front or at the back
PutAt(end, s, t) == IF end = "front" THEN s \o t ELSE t \o s

\* The bytes and the belief with the field are still in agreement.
LEMMA PutAgrees ==
  ASSUME NEW s, NEW fs, Agrees(s, fs), NEW f \in Fields, NEW end
  PROVE  Agrees(PutAt(end, Code(f), s),
                IF fs = Null THEN Null ELSE PutAt(end, <<f>>, fs))
<1>1. s \in Seq(Byte) /\ Code(f) \in Seq(Byte)
  BY CodeType DEF Agrees
<1>2. PICK t : t = PutAt(end, Code(f), s)
  OBVIOUS
<1>3. t \in Seq(Byte)
  BY <1>1, <1>2, ConcatSeq DEF PutAt
<1>4. CASE fs = Null
  BY <1>2, <1>3, <1>4 DEF Agrees, Known
<1>5. CASE fs # Null
  <2>1. fs \in Seq(Fields) /\ s = Bytes(fs)
    BY <1>5 DEF Agrees, Known
  <2>2. PICK gs : gs = PutAt(end, <<f>>, fs)
    OBVIOUS
  <2>3. CASE end = "front"
    <3>1. gs = <<f>> \o fs /\ t = Code(f) \o s
      BY <1>2, <2>2, <2>3 DEF PutAt
    <3>2. gs \in Seq(Fields) /\ Bytes(gs) = t
      BY <2>1, <3>1, BytesFront
    <3> QED BY <1>2, <1>3, <1>5, <2>2, <3>2 DEF Agrees, Known
  <2>4. CASE end # "front"
    <3>1. gs = fs \o <<f>> /\ t = s \o Code(f)
      BY <1>2, <2>2, <2>4 DEF PutAt
    <3>2. gs \in Seq(Fields) /\ Bytes(gs) = t
      BY <2>1, <3>1, BytesBack
    <3> QED BY <1>2, <1>3, <1>5, <2>2, <3>2 DEF Agrees, Known
  <2> QED BY <2>3, <2>4
<1> QED BY <1>4, <1>5

\* append and insert of a view or an integer (Put) keep the invariant.
LEMMA PutKeeps ==
  ASSUME MsgInv, NEW o \in Msgs, m[o] # Null, NEW p \in Parts, NEW end,
         NEW f \in Fields, M!Put(o, p, end, f, p, end)
  PROVE  MsgInv'
<1>1. CASE M!Throws
  BY <1>1, ThrowKeeps
<1>2. CASE ~M!Throws
  <2>1. PICK s, fs : s = heap[m[o]][p] /\ fs = fields[o][p]
    OBVIOUS
  <2>2. /\ heap' = [heap EXCEPT ![m[o]][p] = PutAt(end, Code(f), s)]
        /\ fields' = [fields EXCEPT ![o][p] =
             IF fs = Null THEN Null ELSE PutAt(end, <<f>>, fs)]
        /\ m' = m /\ call' = "done"
    BY <1>2, <2>1, SameOperators DEF M!Put, M!Done, PutAt, Code
  <2>3. Agrees(PutAt(end, Code(f), s),
               IF fs = Null THEN Null ELSE PutAt(end, <<f>>, fs))
    BY <2>1, PartAgrees, PutAgrees
  <2> QED BY <2>2, <2>3, ReplaceKeeps
<1> QED BY <1>1, <1>2

\* What is left of the bytes s when n of them are taken at the front or at
\* the back, and what is taken
Left(end, n, s) == IF end = "front" THEN SubSeq(s, n + 1, Len(s))
                                    ELSE SubSeq(s, 1, Len(s) - n)
Taken(end, n, s) == IF end = "front" THEN SubSeq(s, 1, n)
                                     ELSE SubSeq(s, Len(s) - n + 1, Len(s))

\* The field at that end, whether it is what is taken, and what is left
FieldAt(end, fs) == IF end = "front" THEN Head(fs) ELSE Last(fs)
Whole(end, n, fs) == fs # Null /\ fs # <<>> /\ FieldAt(end, fs).w = n
FieldsLeft(end, n, fs) ==
  CASE n = 0 -> fs
    [] n # 0 /\ Whole(end, n, fs) -> IF end = "front" THEN Tail(fs)
                                                      ELSE Front(fs)
    [] OTHER -> Null

\* The bytes left are a sequence of bytes.
LEMMA LeftType ==
  ASSUME NEW s \in Seq(Byte), NEW n \in Nat, n <= Len(s), NEW end
  PROVE  Left(end, n, s) \in Seq(Byte)
<1>1. PICK l \in Nat : l = Len(s)
  BY LenProperties
<1>2. \A i \in 1 .. l : s[i] \in Byte
  BY <1>1, ElementOfSeq
<1>3. CASE end = "front"
  <2>1. PICK a \in Int : a = n + 1
    OBVIOUS
  <2>2. \A i \in a .. l : s[i] \in Byte
    BY <1>2, <2>1
  <2>3. SubSeq(s, a, l) \in Seq(Byte)
    BY <2>2, SubSeqProperties
  <2> QED BY <1>1, <1>3, <2>1, <2>3 DEF Left
<1>4. CASE end # "front"
  <2>1. PICK a \in Int, b \in Int : a = 1 /\ b = l - n
    OBVIOUS
  <2>2. \A i \in a .. b : s[i] \in Byte
    BY <1>2, <2>1
  <2>3. SubSeq(s, a, b) \in Seq(Byte)
    BY <2>2, SubSeqProperties
  <2> QED BY <1>1, <1>4, <2>1, <2>3 DEF Left
<1> QED BY <1>3, <1>4

\* Nothing is taken.
LEMMA LeftAll ==
  ASSUME NEW s \in Seq(Byte), NEW end
  PROVE  Left(end, 0, s) = s
<1>1. PICK l \in Nat : l = Len(s)
  BY LenProperties
<1>2. SubSeq(s, 1, l) = s
  BY <1>1, SubSeqFull
<1>3. 0 + 1 = 1 /\ l - 0 = l
  OBVIOUS
<1> QED BY <1>1, <1>2, <1>3 DEF Left

\* The field at the end is taken: its bytes go, and those of the others stay.
LEMMA TakeWhole ==
  ASSUME NEW fs \in Seq(Fields), NEW s \in Seq(Byte), s = Bytes(fs),
         NEW end, NEW n \in Nat, Whole(end, n, fs)
  PROVE  /\ FieldsLeft(end, n, fs) \in Seq(Fields)
         /\ Left(end, n, s) = Bytes(FieldsLeft(end, n, fs))
         /\ Taken(end, n, s) = Code(FieldAt(end, fs))
         /\ FieldAt(end, fs) \in Fields
<1>1. fs # <<>>
  BY DEF Whole
<1>2. CASE end = "front"
  <2>1. PICK f \in Fields, gs \in Seq(Fields) :
          f = Head(fs) /\ gs = Tail(fs) /\ s = Code(f) \o Bytes(gs)
    BY <1>1, BytesHead
  <2>2. f = FieldAt(end, fs) /\ n = f.w
    BY <1>2, <2>1 DEF Whole, FieldAt
  <2>3. PICK c \in Seq(Byte), t \in Seq(Byte) : c = Code(f) /\ t = Bytes(gs)
    BY CodeType, BytesType
  <2>4. PICK k \in Nat : k = Len(t)
    BY LenProperties
  <2>5. n = Len(c) /\ n # 0
    <3>1. Len(Code(f)) = f.w
      BY CodeType, Zenon
    <3>2. f.w \in 1 .. 8
      BY FieldBytes, Zenon
    <3> QED BY <2>2, <2>3, <3>1, <3>2
  <2>6. s = c \o t
    BY <2>1, <2>3
  <2>7. Halves(s, c, t, n, k)
    BY <2>4, <2>5, <2>6, ConcatHalves
  <2>8. Len(s) = n + k
    BY <2>7 DEF Halves
  <2>9. SubSeq(s, 1, n) = c /\ SubSeq(s, n + 1, n + k) = t
    BY <2>7, Cut
  <2>10. Left(end, n, s) = t /\ Taken(end, n, s) = c
    BY <1>2, <2>8, <2>9 DEF Left, Taken
  <2>11. FieldsLeft(end, n, fs) = gs
    BY <1>2, <2>1, <2>5 DEF FieldsLeft
  <2> QED BY <2>1, <2>2, <2>3, <2>10, <2>11
<1>3. CASE end # "front"
  <2>1. PICK f \in Fields, gs \in Seq(Fields) :
          f = Last(fs) /\ gs = Front(fs) /\ s = Bytes(gs) \o Code(f)
    BY <1>1, BytesLast
  <2>2. f = FieldAt(end, fs) /\ n = f.w
    BY <1>3, <2>1 DEF Whole, FieldAt
  <2>3. PICK c \in Seq(Byte), t \in Seq(Byte) : c = Code(f) /\ t = Bytes(gs)
    BY CodeType, BytesType
  <2>4. PICK k \in Nat : k = Len(t)
    BY LenProperties
  <2>5. n = Len(c) /\ n # 0
    <3>1. Len(Code(f)) = f.w
      BY CodeType, Zenon
    <3>2. f.w \in 1 .. 8
      BY FieldBytes, Zenon
    <3> QED BY <2>2, <2>3, <3>1, <3>2
  <2>6. s = t \o c
    BY <2>1, <2>3
  <2>7. Halves(s, t, c, k, n)
    BY <2>4, <2>5, <2>6, ConcatHalves
  <2>8. Len(s) = k + n
    BY <2>7 DEF Halves
  <2>9. SubSeq(s, 1, k) = t /\ SubSeq(s, k + 1, k + n) = c
    BY <2>7, Cut
  <2>10. k + n - n = k /\ k + n - n + 1 = k + 1
    OBVIOUS
  <2>11. Left(end, n, s) = t /\ Taken(end, n, s) = c
    BY <1>3, <2>8, <2>9, <2>10 DEF Left, Taken
  <2>12. FieldsLeft(end, n, fs) = gs
    BY <1>3, <2>1, <2>5 DEF FieldsLeft
  <2> QED BY <2>1, <2>2, <2>3, <2>11, <2>12
<1> QED BY <1>2, <1>3

\* What is left is what the program believes, and an integer that it takes
\* is the one that it put there.
LEMMA TakeAgrees ==
  ASSUME NEW s, NEW fs, Agrees(s, fs), NEW n \in Nat, n <= Len(s), NEW end
  PROVE  /\ Agrees(Left(end, n, s), FieldsLeft(end, n, fs))
         /\ Whole(end, n, fs) => Decode(Taken(end, n, s)) = FieldAt(end, fs).v
<1>1. s \in Seq(Byte) /\ fs \in Known /\ (fs # Null => s = Bytes(fs))
  BY DEF Agrees
<1>2. Left(end, n, s) \in Seq(Byte)
  BY <1>1, LeftType
<1>3. CASE Whole(end, n, fs)
  <2>1. fs \in Seq(Fields) /\ s = Bytes(fs)
    BY <1>1, <1>3 DEF Whole, Known
  <2>2. PICK f \in Fields : f = FieldAt(end, fs) /\ Taken(end, n, s) = Code(f)
    BY <1>1, <1>3, <2>1, TakeWhole
  <2>3. f.w \in 1 .. 8 /\ f.v \in Uint(f.w)
    BY FieldBytes
  <2>4. Decode(Code(f)) = f.v
    BY <2>3, DecodeEncode DEF Code
  <2>5. /\ FieldsLeft(end, n, fs) \in Seq(Fields)
        /\ Left(end, n, s) = Bytes(FieldsLeft(end, n, fs))
    BY <1>1, <1>3, <2>1, TakeWhole
  <2> QED BY <1>2, <2>2, <2>4, <2>5 DEF Agrees, Known
<1>4. CASE ~Whole(end, n, fs) /\ n # 0
  <2>1. FieldsLeft(end, n, fs) = Null
    BY <1>4 DEF FieldsLeft
  <2> QED BY <1>2, <1>4, <2>1 DEF Agrees, Known
<1>5. CASE ~Whole(end, n, fs) /\ n = 0
  <2>1. FieldsLeft(end, n, fs) = fs
    BY <1>5 DEF FieldsLeft
  <2>2. Left(end, n, s) = s
    BY <1>1, <1>5, LeftAll
  <2> QED BY <1>5, <2>1, <2>2
<1> QED BY <1>3, <1>4, <1>5

\* trim and chop of a view or an integer (Take) keep the invariant.
LEMMA TakeKeeps ==
  ASSUME MsgInv, NEW o \in Msgs, m[o] # Null, NEW p \in Parts, NEW end,
         NEW n \in Nat, M!Take(o, p, end, n, p, end)
  PROVE  MsgInv'
<1>1. PICK s, fs : s = heap[m[o]][p] /\ fs = fields[o][p]
  OBVIOUS
<1>2. Agrees(s, fs)
  BY <1>1, PartAgrees
<1>3. CASE Len(s) < n
  <2>1. M!Throws
    BY <1>1, <1>3 DEF M!Take
  <2> QED BY <2>1, ThrowKeeps
<1>4. CASE ~(Len(s) < n)
  <2>1. n <= Len(s)
    BY <1>2, <1>4, LenProperties DEF Agrees
  <2>2. /\ Agrees(Left(end, n, s), FieldsLeft(end, n, fs))
        /\ Whole(end, n, fs) => Decode(Taken(end, n, s)) = FieldAt(end, fs).v
    BY <1>2, <2>1, TakeAgrees
  <2>3. heap' = [heap EXCEPT ![m[o]][p] = Left(end, n, s)]
    BY <1>1, <1>4 DEF M!Take, Left
  <2>4. fields' = [fields EXCEPT ![o][p] = FieldsLeft(end, n, fs)]
    BY <1>1, <1>4, SameOperators DEF M!Take, FieldsLeft, Whole, FieldAt
  <2>5. m' = m
    BY <1>1, <1>4 DEF M!Take
  <2>6. M!Returns(Decode(Taken(end, n, s)),
          IF Whole(end, n, fs) THEN FieldAt(end, fs).v
                               ELSE Decode(Taken(end, n, s)))
    BY <1>1, <1>4, SameOperators DEF M!Take, Whole, FieldAt, Taken
  <2>7. call' = "done"
    BY <2>2, <2>6 DEF M!Returns
  <2> QED BY <2>2, <2>3, <2>4, <2>5, <2>7, ReplaceKeeps
<1> QED BY <1>3, <1>4

\* clear keeps the invariant.
LEMMA ClearKeeps ==
  ASSUME MsgInv, NEW o \in Msgs, m[o] # Null, NEW p \in Parts,
         M!Clear(o, p, p)
  PROVE  MsgInv'
<1>1. Agrees(<<>>, <<>>)
  BY BytesEmpty, EmptySeq DEF Agrees, Known
<1>2. /\ heap' = [heap EXCEPT ![m[o]][p] = <<>>]
      /\ fields' = [fields EXCEPT ![o][p] = <<>>]
      /\ m' = m /\ call' = "done"
  BY DEF M!Clear, M!Done
<1> QED BY <1>1, <1>2, ReplaceKeeps

\* Every operation of msg_body and msg_header keeps the invariant.
LEMMA PartOperationKeeps ==
  ASSUME MsgInv, NEW o \in Msgs, m[o] # Null, M!PartOperation(o)
  PROVE  MsgInv'
<1>1. "header" \in Parts /\ "body" \in Parts
  BY DEF Parts
<1>2. Sizes \subseteq Nat /\ M!Widths \subseteq Nat
  BY MsgAssumption DEF M!Assumption, M!Widths
<1>3. CASE M!BodyClear(o) \/ M!HeaderClear(o)
  BY <1>1, <1>3, ClearKeeps DEF M!BodyClear, M!HeaderClear
<1>4. ASSUME NEW end \in {"front", "back"}, NEW f \in Fields,
             \/ M!BodyPutView(o, end, f) \/ M!BodyPutInteger(o, end, f)
             \/ M!HeaderPutView(o, end, f) \/ M!HeaderPutInteger(o, end, f)
      PROVE  MsgInv'
  <2>1. PICK p \in Parts : M!Put(o, p, end, f, p, end)
    BY <1>1, <1>4 DEF M!BodyPutView, M!BodyPutInteger, M!HeaderPutView,
                      M!HeaderPutInteger
  <2> QED BY <2>1, PutKeeps
<1>5. ASSUME NEW end \in {"front", "back"}, NEW n \in Sizes,
             M!BodyTakeView(o, end, n) \/ M!HeaderTakeView(o, end, n)
      PROVE  MsgInv'
  <2>1. PICK p \in Parts : M!Take(o, p, end, n, p, end)
    BY <1>1, <1>5 DEF M!BodyTakeView, M!HeaderTakeView
  <2>2. n \in Nat
    BY <1>2
  <2> QED BY <2>1, <2>2, TakeKeeps
<1>6. ASSUME NEW end \in {"front", "back"}, NEW w \in M!Widths,
             M!BodyTakeInteger(o, end, w) \/ M!HeaderTakeInteger(o, end, w)
      PROVE  MsgInv'
  <2>1. PICK p \in Parts : M!Take(o, p, end, w, p, end)
    BY <1>1, <1>6 DEF M!BodyTakeInteger, M!HeaderTakeInteger
  <2>2. w \in Nat
    BY <1>2
  <2> QED BY <2>1, <2>2, TakeKeeps
<1> QED BY <1>3, <1>4, <1>5, <1>6 DEF M!PartOperation

-----------------------------------------------------------------------------
(* The operations of the messages.                                         *)

\* realloc keeps the invariant: the bytes that it adds are not believed.
LEMMA ReallocKeeps ==
  ASSUME MsgInv, NEW o \in Msgs, m[o] # Null, NEW n \in Nat, M!Realloc(o, n)
  PROVE  MsgInv'
<1>1. CASE M!Throws
  BY <1>1, ThrowKeeps
<1>2. CASE ~M!Throws
  <2>1. PICK s, fs : s = heap[m[o]].body /\ fs = fields[o].body
    OBVIOUS
  <2>2. Agrees(s, fs)
    BY <2>1, PartAgrees DEF Parts
  <2>3. PICK t \in [1 .. n -> Byte] :
          /\ \A i \in 1 .. n : i <= Len(s) => t[i] = s[i]
          /\ heap' = [heap EXCEPT ![m[o]].body = t]
    BY <1>2, <2>1, SameOperators DEF M!Realloc
  <2>4. fields' = IF n = Len(s) THEN fields
                  ELSE [fields EXCEPT ![o].body = IF n = 0 THEN <<>> ELSE Null]
    BY <1>2, <2>1 DEF M!Realloc
  <2>5. m' = m /\ call' = "done"
    BY <1>2 DEF M!Realloc, M!Done
  <2>6. t \in Seq(Byte) /\ Len(t) = n
    OBVIOUS
  <2>7. CASE n = Len(s)
    <3>1. s \in Seq(Byte)
      BY <2>2 DEF Agrees
    <3>2. \A i \in 1 .. Len(t) : t[i] = s[i]
      BY <2>3, <2>6, <2>7
    <3>3. t = s
      BY <2>6, <2>7, <3>1, <3>2, SeqEqual
    <3>4. [fields EXCEPT ![o].body = fs] = fields
      <4>1. PICK b \in Belief : b = fields[o]
        BY DEF MsgInv, Faithful
      <4>2. [b EXCEPT !.body = fs] = b
        BY <2>1, <4>1 DEF Belief
      <4>3. [fields EXCEPT ![o] = b] = fields
        BY <4>1 DEF MsgInv
      <4> QED BY <4>1, <4>2, <4>3
    <3>5. fields' = [fields EXCEPT ![o].body = fs]
      BY <2>4, <2>7, <3>4
    <3>6. heap' = [heap EXCEPT ![m[o]].body = s]
      BY <2>3, <3>3
    <3> QED BY <2>2, <2>5, <3>5, <3>6, ReplaceKeeps DEF Parts
  <2>8. CASE n # Len(s)
    <3>1. PICK gs : gs = IF n = 0 THEN <<>> ELSE Null
      OBVIOUS
    <3>2. Agrees(t, gs)
      <4>1. CASE n = 0
        <5>1. t = <<>>
          BY <2>6, <4>1, EmptySeq
        <5> QED BY <3>1, <4>1, <5>1, BytesEmpty, EmptySeq DEF Agrees, Known
      <4>2. CASE n # 0
        BY <2>6, <3>1, <4>2 DEF Agrees, Known
      <4> QED BY <4>1, <4>2
    <3>3. fields' = [fields EXCEPT ![o].body = gs]
      BY <2>4, <2>8, <3>1
    <3> QED BY <2>3, <2>5, <3>2, <3>3, ReplaceKeeps DEF Parts
  <2> QED BY <2>7, <2>8
<1> QED BY <1>1, <1>2

\* set_pipe keeps the invariant.
LEMMA SetPipeKeeps ==
  ASSUME MsgInv, NEW o \in Msgs, m[o] # Null, NEW p \in Pipes, M!SetPipe(o, p)
  PROVE  MsgInv'
<1>1. PICK msg, b : msg = heap[m[o]] /\ b = fields[o]
  OBVIOUS
<1>2. Faithful(msg, b)
  BY <1>1 DEF MsgInv
<1>3. PICK msg2, b2 : msg2 = [msg EXCEPT !.pipe = p] /\ b2 = [b EXCEPT !.pipe = p]
  OBVIOUS
<1>4. /\ msg2 \in [header : Seq(Byte), body : Seq(Byte), pipe : Pipes \cup {Null}]
      /\ msg2.pipe = p
      /\ msg2["header"] = msg["header"] /\ msg2["body"] = msg["body"]
  BY <1>2, <1>3 DEF Faithful
<1>5. /\ b2 \in Belief
      /\ b2.pipe = p
      /\ b2["header"] = b["header"] /\ b2["body"] = b["body"]
  BY <1>2, <1>3 DEF Faithful, Belief
<1>6. \A r \in Parts : Agrees(msg[r], b[r])
  BY <1>2 DEF Faithful
<1>7. \A r \in Parts : Agrees(msg2[r], b2[r])
  BY <1>4, <1>5, <1>6 DEF Parts
<1>8. Faithful(msg2, b2)
  BY <1>4, <1>5, <1>7 DEF Faithful
<1>9. Changes(o, msg2, b2)
  BY <1>1, <1>3 DEF M!SetPipe, M!Done, Changes
<1> QED BY <1>8, <1>9, ChangeKeeps

\* An empty object gets a message of its own.
Gets(o, h, msg, b) ==
  /\ m' = [m EXCEPT ![o] = h]
  /\ heap' = [x \in DOMAIN heap \cup {h} |-> IF x = h THEN msg ELSE heap[x]]
  /\ fields' = [fields EXCEPT ![o] = b]
  /\ call' = "done"

\* The invariant still holds, for this object and for the others.
LEMMA GetKeeps ==
  ASSUME MsgInv, NEW o \in Msgs, m[o] = Null, NEW h \in Messages \ DOMAIN heap,
         NEW msg, NEW b, Faithful(msg, b), Gets(o, h, msg, b)
  PROVE  MsgInv'
<1>1. /\ m' = [m EXCEPT ![o] = h]
      /\ heap' = [x \in DOMAIN heap \cup {h} |-> IF x = h THEN msg ELSE heap[x]]
      /\ fields' = [fields EXCEPT ![o] = b]
      /\ call' = "done"
  BY DEF Gets
<1>2. m \in [Msgs -> Messages \cup {Null}] /\ fields \in [Msgs -> Belief \cup {Null}]
  BY DEF MsgInv
<1>3. \A q \in Msgs : m[q] # Null => m[q] \in DOMAIN heap /\ m[q] # h
  BY DEF MsgInv
<1>4. /\ m'[o] = h /\ h # Null
      /\ \A q \in Msgs : q # o => m'[q] = m[q]
  BY <1>1, <1>2, NoNull
<1>5. m' \in [Msgs -> Messages \cup {Null}]
  BY <1>1, <1>2
<1>6. DOMAIN heap' = {m'[q] : q \in Msgs} \ {Null}
  <2>1. DOMAIN heap' = DOMAIN heap \cup {h}
    BY <1>1
  <2>2. DOMAIN heap = {m[q] : q \in Msgs} \ {Null}
    BY DEF MsgInv
  <2>3. \A x \in DOMAIN heap' : x \in {m'[q] : q \in Msgs} \ {Null}
    BY <1>4, <2>1, <2>2
  <2>4. \A x \in {m'[q] : q \in Msgs} \ {Null} : x \in DOMAIN heap'
    BY <1>4, <2>1, <2>2
  <2> QED BY <2>3, <2>4
<1>7. fields' \in [Msgs -> Belief \cup {Null}]
  <2>1. b \in Belief
    BY DEF Faithful
  <2> QED BY <1>1, <1>2, <2>1
<1>8. \A q, r \in Msgs : m'[q] = m'[r] /\ m'[q] # Null => q = r
  BY <1>3, <1>4 DEF MsgInv
<1>9. ASSUME NEW q \in Msgs, m'[q] # Null
      PROVE  Faithful(heap'[m'[q]], fields'[q])
  <2>1. CASE q = o
    <3>1. heap'[m'[q]] = msg /\ fields'[q] = b
      BY <1>1, <1>2, <1>4, <2>1
    <3> QED BY <3>1
  <2>2. CASE q # o
    <3>1. m'[q] = m[q] /\ m[q] \in DOMAIN heap /\ m[q] # h
      BY <1>3, <1>4, <1>9, <2>2
    <3>2. heap'[m'[q]] = heap[m[q]] /\ fields'[q] = fields[q]
      BY <1>1, <1>2, <2>2, <3>1
    <3>3. Faithful(heap[m[q]], fields[q])
      BY <1>9, <3>1 DEF MsgInv
    <3> QED BY <3>2, <3>3
  <2> QED BY <2>1, <2>2
<1> QED BY <1>1, <1>5, <1>6, <1>7, <1>8, <1>9 DEF MsgInv

\* The constructors of msg (make_msg) keep the invariant,
LEMMA MakeKeeps ==
  ASSUME MsgInv, NEW o \in Msgs, NEW n \in Nat, M!Make(o, n)
  PROVE  MsgInv'
<1>1. CASE M!Throws
  BY <1>1, ThrowKeeps
<1>2. CASE ~M!Throws
  <2>1. PICK h \in Messages \ DOMAIN heap, t \in [1 .. n -> Byte] :
          /\ m' = [m EXCEPT ![o] = h]
          /\ heap' = M!Holding(h, [header |-> <<>>, body |-> t, pipe |-> Null])
          /\ fields' = [fields EXCEPT ![o] =
               [header |-> <<>>, body |-> IF n = 0 THEN <<>> ELSE Null,
                pipe |-> Null]]
          /\ call' = "done"
    BY <1>2, SameOperators DEF M!Make, M!Done, M!Live
  <2>2. PICK gs : gs = IF n = 0 THEN <<>> ELSE Null
    OBVIOUS
  <2>3. PICK msg, b : /\ msg = [header |-> <<>>, body |-> t, pipe |-> Null]
                      /\ b = [header |-> <<>>, body |-> gs, pipe |-> Null]
    OBVIOUS
  <2>4. Agrees(<<>>, <<>>)
    BY BytesEmpty, EmptySeq DEF Agrees, Known
  <2>5. t \in Seq(Byte) /\ Len(t) = n
    OBVIOUS
  <2>6. Agrees(t, gs)
    <3>1. CASE n = 0
      <4>1. t = <<>>
        BY <2>5, <3>1, EmptySeq
      <4> QED BY <2>2, <2>4, <3>1, <4>1
    <3>2. CASE n # 0
      BY <2>2, <2>5, <3>2 DEF Agrees, Known
    <3> QED BY <3>1, <3>2
  <2>7. Faithful(msg, b)
    <3>1. <<>> \in Seq(Byte) /\ <<>> \in Known /\ gs \in Known
      BY <2>4, <2>6 DEF Agrees
    <3>2. msg \in [header : Seq(Byte), body : Seq(Byte), pipe : Pipes \cup {Null}]
      BY <2>3, <2>5, <3>1
    <3>3. b \in Belief
      BY <2>3, <3>1 DEF Belief
    <3>4. msg.pipe = b.pipe
      BY <2>3
    <3>5. \A p \in Parts : Agrees(msg[p], b[p])
      <4>1. /\ msg["header"] = <<>> /\ b["header"] = <<>>
            /\ msg["body"] = t /\ b["body"] = gs
        BY <2>3
      <4> QED BY <2>4, <2>6, <4>1 DEF Parts
    <3> QED BY <3>2, <3>3, <3>4, <3>5 DEF Faithful
  <2>8. Gets(o, h, msg, b)
    BY <2>1, <2>2, <2>3 DEF Gets, M!Holding, M!Live
  <2>9. m[o] = Null
    BY DEF M!Make
  <2> QED BY <2>7, <2>8, <2>9, GetKeeps
<1> QED BY <1>1, <1>2

\* and so does the copy constructor,
LEMMA CopyKeeps ==
  ASSUME MsgInv, NEW o \in Msgs, NEW q \in Msgs, m[q] # Null, M!Copy(o, q)
  PROVE  MsgInv'
<1>1. CASE M!Throws
  BY <1>1, ThrowKeeps
<1>2. CASE ~M!Throws
  <2>1. PICK h \in Messages \ DOMAIN heap :
          /\ m' = [m EXCEPT ![o] = h]
          /\ heap' = M!Holding(h, heap[m[q]])
          /\ fields' = [fields EXCEPT ![o] = fields[q]]
          /\ call' = "done"
    BY <1>2 DEF M!Copy, M!Done, M!Live
  <2>2. PICK msg, b : msg = heap[m[q]] /\ b = fields[q]
    OBVIOUS
  <2>3. Faithful(msg, b)
    BY <2>2 DEF MsgInv
  <2>4. Gets(o, h, msg, b)
    BY <2>1, <2>2 DEF Gets, M!Holding, M!Live
  <2>5. m[o] = Null
    BY DEF M!Copy
  <2> QED BY <2>3, <2>4, <2>5, GetKeeps
<1> QED BY <1>1, <1>2

\* the destructor,
LEMMA DestroyKeeps ==
  ASSUME MsgInv, NEW o \in Msgs, m[o] # Null, M!Destroy(o)
  PROVE  MsgInv'
<1>1. /\ m' = [m EXCEPT ![o] = Null]
      /\ heap' = [x \in DOMAIN heap \ {m[o]} |-> heap[x]]
      /\ fields' = [fields EXCEPT ![o] = Null]
      /\ call' = "done"
  BY DEF M!Destroy, M!Done, M!Freed, M!Live
<1>2. m \in [Msgs -> Messages \cup {Null}] /\ fields \in [Msgs -> Belief \cup {Null}]
  BY DEF MsgInv
<1>3. m'[o] = Null /\ \A q \in Msgs : q # o => m'[q] = m[q]
  BY <1>1, <1>2
<1>4. m' \in [Msgs -> Messages \cup {Null}] /\ fields' \in [Msgs -> Belief \cup {Null}]
  BY <1>1, <1>2
<1>5. \A q \in Msgs : q # o => m[q] # m[o]
  BY DEF MsgInv
<1>6. DOMAIN heap' = {m'[q] : q \in Msgs} \ {Null}
  <2>1. DOMAIN heap' = DOMAIN heap \ {m[o]}
    BY <1>1
  <2>2. DOMAIN heap = {m[q] : q \in Msgs} \ {Null}
    BY DEF MsgInv
  <2>3. \A x \in DOMAIN heap' : x \in {m'[q] : q \in Msgs} \ {Null}
    BY <1>3, <2>1, <2>2
  <2>4. \A x \in {m'[q] : q \in Msgs} \ {Null} : x \in DOMAIN heap'
    BY <1>3, <1>5, <2>1, <2>2
  <2> QED BY <2>3, <2>4
<1>7. \A q, r \in Msgs : m'[q] = m'[r] /\ m'[q] # Null => q = r
  BY <1>3 DEF MsgInv
<1>8. ASSUME NEW q \in Msgs, m'[q] # Null
      PROVE  Faithful(heap'[m'[q]], fields'[q])
  <2>1. q # o /\ m'[q] = m[q]
    BY <1>3, <1>8
  <2>2. m[q] \in DOMAIN heap' /\ fields'[q] = fields[q]
    BY <1>1, <1>2, <1>6, <1>8, <2>1
  <2>3. heap'[m[q]] = heap[m[q]]
    BY <1>1, <2>2
  <2>4. Faithful(heap[m[q]], fields[q])
    BY <1>8, <2>1 DEF MsgInv
  <2> QED BY <2>1, <2>2, <2>3, <2>4
<1> QED BY <1>1, <1>4, <1>6, <1>7, <1>8 DEF MsgInv

\* and move construction and assignment.
LEMMA MoveKeeps ==
  ASSUME MsgInv, NEW o \in Msgs, NEW q \in Msgs, m[q] # Null, M!Move(o, q)
  PROVE  MsgInv'
<1>1. /\ o # q
      /\ m' = [m EXCEPT ![o] = m[q], ![q] = Null]
      /\ heap' = IF m[o] = Null THEN heap
                 ELSE [x \in DOMAIN heap \ {m[o]} |-> heap[x]]
      /\ fields' = [fields EXCEPT ![o] = fields[q], ![q] = Null]
      /\ call' = "done"
  BY DEF M!Move, M!Done, M!Freed, M!Live
<1>2. m \in [Msgs -> Messages \cup {Null}] /\ fields \in [Msgs -> Belief \cup {Null}]
  BY DEF MsgInv
<1>3. /\ m'[o] = m[q] /\ m'[q] = Null
      /\ \A r \in Msgs : r # o /\ r # q => m'[r] = m[r]
  BY <1>1, <1>2
<1>4. /\ fields'[o] = fields[q]
      /\ \A r \in Msgs : r # o /\ r # q => fields'[r] = fields[r]
  BY <1>1, <1>2
<1>5. m' \in [Msgs -> Messages \cup {Null}] /\ fields' \in [Msgs -> Belief \cup {Null}]
  BY <1>1, <1>2
<1>6. \A r \in Msgs : r # o /\ m[r] # Null => m[r] # m[o]
  BY DEF MsgInv
<1>7. DOMAIN heap = {m[r] : r \in Msgs} \ {Null}
  BY DEF MsgInv
<1>8. DOMAIN heap' = DOMAIN heap \ {m[o]}
  BY <1>1, <1>7
<1>9. DOMAIN heap' = {m'[r] : r \in Msgs} \ {Null}
  <2>1. ASSUME NEW x \in DOMAIN heap'
        PROVE  x \in {m'[r] : r \in Msgs} \ {Null}
    <3>1. PICK r \in Msgs : x = m[r] /\ x # Null /\ r # o
      BY <1>7, <1>8
    <3>2. CASE r = q
      BY <1>3, <3>1, <3>2
    <3>3. CASE r # q
      BY <1>3, <3>1, <3>3
    <3> QED BY <3>2, <3>3
  <2>2. ASSUME NEW x \in {m'[r] : r \in Msgs} \ {Null}
        PROVE  x \in DOMAIN heap'
    <3>1. PICK r \in Msgs : x = m'[r] /\ x # Null
      OBVIOUS
    <3>2. PICK k \in Msgs : x = m[k] /\ k # o
      BY <1>1, <1>3, <3>1
    <3> QED BY <1>6, <1>7, <1>8, <3>1, <3>2
  <2> QED BY <2>1, <2>2
<1>10. \A x \in DOMAIN heap' : heap'[x] = heap[x]
  BY <1>1, <1>8
<1>11. ASSUME NEW r \in Msgs, NEW k \in Msgs, m'[r] = m'[k], m'[r] # Null
       PROVE  r = k
  <2>1. r # q /\ k # q
    BY <1>3, <1>11
  <2>2. \A i, j \in Msgs : m[i] = m[j] /\ m[i] # Null => i = j
    BY DEF MsgInv
  <2> QED BY <1>3, <1>11, <2>1, <2>2
<1>12. ASSUME NEW r \in Msgs, m'[r] # Null
       PROVE  Faithful(heap'[m'[r]], fields'[r])
  <2>1. PICK k \in Msgs : m'[r] = m[k] /\ fields'[r] = fields[k]
    BY <1>3, <1>4, <1>12
  <2>2. m'[r] \in DOMAIN heap'
    BY <1>9, <1>12
  <2>3. heap'[m'[r]] = heap[m[k]]
    BY <1>10, <2>1, <2>2
  <2>4. Faithful(heap[m[k]], fields[k])
    BY <1>12, <2>1 DEF MsgInv
  <2> QED BY <2>1, <2>3, <2>4
<1> QED BY <1>1, <1>5, <1>9, <1>11, <1>12 DEF MsgInv

-----------------------------------------------------------------------------
(* The theorems about messages.                                            *)

\* Whatever a program does with the operations of msg, msg_header and
\* msg_body, every message has one object, which is right about it.
THEOREM MessagesAlways == M!Spec => []MsgInv
<1>1. M!Init => MsgInv
  BY DEF M!Init, MsgInv
<1>2. MsgInv /\ [M!Next]_(M!vars) => MsgInv'
  <2> SUFFICES ASSUME MsgInv, [M!Next]_(M!vars)
               PROVE  MsgInv'
    OBVIOUS
  <2>1. Sizes \subseteq Nat
    BY MsgAssumption DEF M!Assumption
  <2>2. ASSUME NEW o \in Msgs, NEW n \in Sizes, M!Make(o, n)
        PROVE  MsgInv'
    BY <2>1, <2>2, MakeKeeps
  <2>3. ASSUME NEW o \in Msgs, NEW q \in Msgs, m[q] # Null, M!Copy(o, q)
        PROVE  MsgInv'
    BY <2>3, CopyKeeps
  <2>4. ASSUME NEW o \in Msgs, NEW q \in Msgs, m[q] # Null, M!Move(o, q)
        PROVE  MsgInv'
    BY <2>4, MoveKeeps
  <2>5. ASSUME NEW o \in Msgs, m[o] # Null, M!PartOperation(o)
        PROVE  MsgInv'
    BY <2>5, PartOperationKeeps
  <2>6. ASSUME NEW o \in Msgs, m[o] # Null, NEW n \in Sizes, M!Realloc(o, n)
        PROVE  MsgInv'
    BY <2>1, <2>6, ReallocKeeps
  <2>7. ASSUME NEW o \in Msgs, m[o] # Null, NEW p \in Pipes, M!SetPipe(o, p)
        PROVE  MsgInv'
    BY <2>7, SetPipeKeeps
  <2>8. ASSUME NEW o \in Msgs, m[o] # Null, M!Destroy(o)
        PROVE  MsgInv'
    BY <2>8, DestroyKeeps
  <2>9. CASE UNCHANGED M!vars
    BY <2>9 DEF M!vars, MsgInv
  <2> QED BY <2>2, <2>3, <2>4, <2>5, <2>6, <2>7, <2>8, <2>9 DEF M!Next
<1> QED BY <1>1, <1>2, PTL DEF M!Spec

\* No operation leaks or shares a message, and what was put into each part of
\* each message is what is in it, byte by byte (ContentsAsWritten).
THEOREM MessagesAsWritten == M!Spec => []ContentsAsWritten
<1>1. MsgInv => ContentsAsWritten
  <2> SUFFICES ASSUME MsgInv
               PROVE  ContentsAsWritten
    OBVIOUS
  <2>1. \A h \in DOMAIN heap : heap[h] \in M!Message
    <3> SUFFICES ASSUME NEW h \in DOMAIN heap
                 PROVE  heap[h] \in M!Message
      OBVIOUS
    <3>1. PICK o \in Msgs : m[o] = h /\ m[o] # Null
      BY DEF MsgInv
    <3>2. Faithful(heap[h], fields[o])
      BY <3>1 DEF MsgInv
    <3> QED BY <3>2, SameOperators DEF Faithful, M!Message
  <2>2. M!TypeOK
    BY <2>1 DEF MsgInv, M!TypeOK, M!Live
  <2>3. ASSUME NEW o \in Msgs, m[o] # Null
        PROVE  /\ m[o] \in M!Live
               /\ heap[m[o]].pipe = fields[o].pipe
               /\ \A p \in {"header", "body"} :
                    fields[o][p] # Null =>
                      heap[m[o]][p] =
                        M!FlattenSeq([i \in DOMAIN fields[o][p] |->
                          M!Encode(fields[o][p][i].w, fields[o][p][i].v)])
    <3>1. m[o] \in DOMAIN heap
      BY <2>3 DEF MsgInv
    <3>2. Faithful(heap[m[o]], fields[o])
      BY <2>3 DEF MsgInv
    <3>3. heap[m[o]].pipe = fields[o].pipe
      BY <3>2 DEF Faithful
    <3>4. ASSUME NEW p \in {"header", "body"}, fields[o][p] # Null
          PROVE  heap[m[o]][p] =
                   M!FlattenSeq([i \in DOMAIN fields[o][p] |->
                     M!Encode(fields[o][p][i].w, fields[o][p][i].v)])
      <4>1. PICK fs : fs = fields[o][p]
        OBVIOUS
      <4>2. heap[m[o]][p] = Bytes(fs)
        BY <3>2, <3>4, <4>1 DEF Faithful, Parts, Agrees
      <4>3. [i \in DOMAIN fs |-> M!Encode(fs[i].w, fs[i].v)] = Codes(fs)
        BY SameOperators DEF Codes, Code
      <4>4. Bytes(fs) =
              M!FlattenSeq([i \in DOMAIN fs |-> M!Encode(fs[i].w, fs[i].v)])
        BY <4>3, SameOperators DEF Bytes
      <4> QED BY <4>1, <4>2, <4>4
    <3> QED BY <3>1, <3>3, <3>4 DEF M!Live
  <2>4. M!ContentsAsWritten
    BY <2>3 DEF M!ContentsAsWritten
  <2> QED BY <2>2, <2>4 DEF ContentsAsWritten
<1> QED BY <1>1, MessagesAlways, PTL

\* Every integer that trim or chop takes off a message is the one that was
\* put there (IntegersReadBack), whatever the base, the widths and the values.
THEOREM IntegersComeBack == M!Spec => []IntegersReadBack
<1>1. MsgInv => IntegersReadBack
  BY DEF MsgInv, IntegersReadBack, M!IntegersReadBack
<1> QED BY <1>1, MessagesAlways, PTL
=============================================================================
