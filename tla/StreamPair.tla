----------------------------- MODULE StreamPair -----------------------------
(***************************************************************************)
(* test/tcpsupp.cpp and test/ipcsupp.cpp: a stream dialer and a stream     *)
(* listener make two streams, and one sends a buffer to the other. The two *)
(* programs differ in the order in which they wait and look at results.    *)
(*                                                                         *)
(* A stream that an operation made is an output of its aio, and belongs to *)
(* nobody until an object is made of it. A failed REQUIRE destroys the     *)
(* objects, the last one first; freeing an aio ends its operation.         *)
(*                                                                         *)
(* The library (external): an accept completes when somebody has dialed; a *)
(* transfer moves any part of the buffer that is not empty; a send that    *)
(* fails breaks the connection.                                            *)
(***************************************************************************)
EXTENDS Naturals, Sequences

CONSTANT Size  \* bytes of the buffers, 5 in the programs

\* What the module assumes of its constants
Assumption == Size \in Nat \ {0}

VARIABLES
  program,  \* "tcp" or "ipc"
  pc,       \* the next step of it; 0: it has ended, or is being unwound
  locals,   \* its objects, in the order of their construction
  op,       \* per aio: what it is armed with; "none" before and after
  result,   \* how its last operation ended
  count,    \* the bytes that one transferred
  streams,  \* streams that exist
  failed    \* did a step throw, or a REQUIRE fail?

aios == <<op, result, count>>
vars == <<program, pc, locals, aios, streams, failed>>

Aios == {"daio", "laio", "aio1", "aio2"}

\* The operation that each aio is for, the objects this uses, and the stream
\* that it makes
Armed == [daio |-> "dial", laio |-> "accept", aio1 |-> "send", aio2 |-> "recv"]
Uses == [daio |-> {"d"}, laio |-> {"l"}, aio1 |-> {"c1"}, aio2 |-> {"c2"}]
Output == [daio |-> "c1", laio |-> "c2"]

-----------------------------------------------------------------------------
(* The programs, as steps <<what, object>>                                 *)

aios_made == <<<<"make", "daio">>, <<"make", "laio">>>>

streams_made ==
  <<<<"own", "c1">>, <<"own", "c2">>, <<"make", "aio1">>, <<"make", "aio2">>>>

\* Mutation of exchange: the second transfer is not waited for.
exchange_unwaited ==
  <<<<"arm", "aio1">>, <<"arm", "aio2">>, <<"wait", "aio1">>,
    <<"check", "aio1">>, <<"check", "aio2">>, <<"get_addr", "c2">>>>

\* "They exchange messages", "Socket name matches"
exchange ==
  <<<<"arm", "aio1">>, <<"arm", "aio2">>, <<"wait", "aio1">>, <<"wait", "aio2">>,
    <<"check", "aio1">>, <<"check", "aio2">>, <<"get_addr", "c2">>>>

\* "Listener listens (wildcard)": the address to dial is known afterwards.
tcp_setup ==
  <<<<"make", "l">>, <<"listen", "l">>, <<"get_addr", "l">>>> \o aios_made \o
  <<<<"make", "d">>, <<"arm", "daio">>, <<"arm", "laio">>>>

tcp_exchange ==
  streams_made \o
  <<<<"set_bool", "c1">>, <<"set_bool", "c2">>, <<"set_bool", "c1">>>> \o
  exchange \o <<<<"get_addr", "c1">>>>

\* Mutation of tcp: both waits come before both checks.
tcp_waits_first ==
  tcp_setup \o
  <<<<"wait", "daio">>, <<"wait", "laio">>,
    <<"check", "daio">>, <<"check", "laio">>>> \o tcp_exchange

\* "Supplemental TCP"
tcp ==
  tcp_setup \o
  <<<<"wait", "daio">>, <<"check", "daio">>,
    <<"wait", "laio">>, <<"check", "laio">>>> \o tcp_exchange

\* Mutation of ipc: the listener is declared after the aios, and each result
\* is looked at after its wait.
ipc_listener_last ==
  <<<<"make", "d">>>> \o aios_made \o
  <<<<"make", "l">>, <<"listen", "l">>, <<"arm", "daio">>, <<"arm", "laio">>,
    <<"wait", "daio">>, <<"check", "daio">>,
    <<"wait", "laio">>, <<"check", "laio">>>> \o streams_made \o exchange

\* Mutation of ipc: the result of accept is not looked at.
ipc_unchecked ==
  <<<<"make", "d">>, <<"make", "l">>, <<"listen", "l">>>> \o aios_made \o
  <<<<"arm", "daio">>, <<"arm", "laio">>,
    <<"wait", "daio">>, <<"wait", "laio">>,
    <<"check", "daio">>>> \o streams_made \o exchange

\* "Supplemental IPC"
ipc ==
  <<<<"make", "d">>, <<"make", "l">>, <<"listen", "l">>>> \o aios_made \o
  <<<<"arm", "daio">>, <<"arm", "laio">>,
    <<"wait", "daio">>, <<"wait", "laio">>,
    <<"check", "daio">>, <<"check", "laio">>>> \o streams_made \o exchange

Program == IF program = "tcp" THEN tcp ELSE ipc

Calls == {"listen", "get_addr", "set_bool"}

Locals == {locals[i] : i \in DOMAIN locals}
At(what, x) == pc \in DOMAIN Program /\ Program[pc] = <<what, x>>
GoOn == pc' = IF pc = Len(Program) THEN 0 ELSE pc + 1

-----------------------------------------------------------------------------
(* Steps of the programs                                                   *)

\* A constructor, followed by REQUIRE( x )
make(x) ==
  /\ At("make", x)
  /\ locals' = Append(locals, x)
  /\ GoOn
  /\ UNCHANGED <<program, aios, streams, failed>>

\* Calls that only the library knows the effect of
call ==
  /\ \E what \in Calls, x \in {"l", "c1", "c2"} : At(what, x)
  /\ GoOn
  /\ UNCHANGED <<program, locals, aios, streams, failed>>

Throw ==
  /\ pc \in DOMAIN Program
  /\ Program[pc][1] \in {"make"} \cup Calls
  /\ pc' = 0
  /\ failed' = TRUE
  /\ UNCHANGED <<program, locals, aios, streams>>

\* d.dial, l.accept, c1.send and c2.recv
arm(a) ==
  /\ At("arm", a)
  /\ op' = [op EXCEPT ![a] = Armed[a]]
  /\ GoOn
  /\ UNCHANGED <<program, locals, result, count, streams, failed>>

wait(a) ==
  /\ At("wait", a)
  /\ op[a] = "none"
  /\ GoOn
  /\ UNCHANGED <<program, locals, aios, streams, failed>>

\* Mutation of check: the count is not looked at.
check_result(a) ==
  /\ At("check", a)
  /\ IF result[a] = "success" THEN GoOn /\ failed' = failed
                             ELSE pc' = 0 /\ failed' = TRUE
  /\ UNCHANGED <<program, locals, aios, streams>>

\* REQUIRE of the result and, of a transfer, of the count
check(a) ==
  /\ At("check", a)
  /\ IF result[a] = "success" /\ (a \in {"aio1", "aio2"} => count[a] = Size)
     THEN GoOn /\ failed' = failed
     ELSE pc' = 0 /\ failed' = TRUE
  /\ UNCHANGED <<program, locals, aios, streams>>

\* stream c( aio.get_output( 0 ) )
own(c) ==
  /\ At("own", c)
  /\ locals' = Append(locals, c)
  /\ GoOn
  /\ UNCHANGED <<program, aios, streams, failed>>

\* The last of the objects is destroyed.
destroy ==
  /\ pc = 0
  /\ locals # <<>>
  /\ LET x == locals[Len(locals)]
     IN  /\ locals' = SubSeq(locals, 1, Len(locals) - 1)
         /\ op' = [a \in Aios |-> IF a = x THEN "none" ELSE op[a]]
         /\ streams' = streams \ {x}
  /\ UNCHANGED <<program, pc, result, count, failed>>

-----------------------------------------------------------------------------
(* The library                                                             *)

\* An operation can succeed when its peer has done its part.
Ready(a) ==
  CASE op[a] = "accept" -> "c1" \in streams
    [] op[a] = "recv"   -> count["aio1"] > 0
    [] OTHER            -> op[a] # "none"

Succeed(a) ==
  /\ Ready(a)
  /\ op' = [op EXCEPT ![a] = "none"]
  /\ result' = [result EXCEPT ![a] = "success"]
  /\ \E n \in CASE a = "aio1" -> 1 .. Size
                [] a = "aio2" -> 1 .. count["aio1"]
                [] OTHER      -> {0} :
       count' = [count EXCEPT ![a] = n]
  /\ streams' = IF a \in DOMAIN Output THEN streams \cup {Output[a]} ELSE streams
  /\ UNCHANGED <<program, pc, locals, failed>>

Broken(a) == op[a] = "recv" /\ result["aio1"] = "error"

Fail(a) ==
  /\ op[a] # "none"
  /\ op' = [op EXCEPT ![a] = "none"]
  /\ result' = [result EXCEPT ![a] = "error"]
  /\ UNCHANGED <<program, pc, locals, count, streams, failed>>

Init ==
  /\ program \in {"tcp", "ipc"}
  /\ pc = 1
  /\ locals = <<>>
  /\ op = [a \in Aios |-> "none"]
  /\ result = [a \in Aios |-> "success"]
  /\ count = [a \in Aios |-> 0]
  /\ streams = {}
  /\ failed = FALSE

Main ==
  \/ \E x \in {"d", "l"} \cup Aios : make(x)
  \/ \E a \in Aios : arm(a) \/ wait(a) \/ check(a)
  \/ \E c \in {"c1", "c2"} : own(c)
  \/ call \/ Throw \/ destroy

Next == Main \/ \E a \in Aios : Succeed(a) \/ Fail(a)

\* The program runs on, and an operation completes when its peer has done its
\* part or is gone. An accept that nobody dials is not assumed to fail.
Spec ==
  /\ Init /\ [][Next]_vars
  /\ WF_vars(Main)
  /\ \A a \in Aios : WF_vars((Ready(a) \/ Broken(a)) /\ (Succeed(a) \/ Fail(a)))

-----------------------------------------------------------------------------
(* Properties.                                                             *)

\* Every variable keeps its type, and a result that is looked at belongs to
\* the last operation of the aio, never to one that is under way.
TypeOK ==
  /\ pc \in 0 .. Len(Program)
  /\ Locals \subseteq {"d", "l", "c1", "c2"} \cup Aios
  /\ \A a \in Aios : op[a] \in {"none", Armed[a]}
  /\ result \in [Aios -> {"success", "error"}]
  /\ count \in [Aios -> 0 .. Size]
  /\ streams \subseteq {"c1", "c2"}
  /\ \A a \in Aios : At("check", a) => op[a] = "none"

\* The library never works on an object that is destroyed: where an operation
\* is still under way when a REQUIRE fails (the accept, when the dial failed),
\* its aio, declared later, goes first.
ObjectsOutliveOperations ==
  \A a \in Aios : op[a] # "none" => Uses[a] \subseteq Locals

\* An object that is made of an output owns a stream that exists.
OwnedStreamsExist == {"c1", "c2"} \cap Locals \subseteq streams

\* A test that passes has sent and received every byte, and leaves no stream.
PassMeansTransferred ==
  pc = 0 /\ ~failed /\ locals = <<>> =>
    count["aio1"] = Size /\ count["aio2"] = Size /\ streams = {}

\* The program has ended, or it is the one that waits for both operations
\* before it looks at the dial, the dial failed, and it waits for the accept.
Finished ==
  \/ pc = 0 /\ locals = <<>>
  \/ program = "ipc" /\ result["daio"] = "error" /\ At("wait", "laio")
=============================================================================
