----------------------------- MODULE HttpClient -----------------------------
(***************************************************************************)
(* demo/http_client/http_client.cpp: one aio carries one operation after   *)
(* the other (connect, write the request, read the response, read the      *)
(* body); main waits for each and looks at its result.                     *)
(*                                                                         *)
(* An operation uses objects of main until it completes. Completion and    *)
(* the server are external: the server answers with any status and header, *)
(* sends as much of a body as it likes, or breaks off; freeing an aio ends *)
(* its operation.                                                          *)
(***************************************************************************)
EXTENDS Integers, Sequences

CONSTANTS
  Headers,  \* values of a Content-Length header: numbers, and Text
  Text,     \* one that does not begin with a number
  IntMax,   \* the largest int
  MaxBody,  \* bound: bytes that a server sends
  Null      \* no header, nothing

VARIABLES
  served,   \* what the server answers: a header, and how much it sends
  pc,       \* main's next step; 0 after the last
  locals,   \* main's objects, in the order of their construction
  op,       \* the operation of the aio that is under way, or Null
  result,   \* how the last one ended
  conn,     \* does the connection exist that connect gave to the aio?
  len,      \* the size of the buffer
  filled,   \* the bytes in it that were received
  printed,  \* the bytes written to stdout, and those of them received
  failed,   \* did an operation fail?
  code      \* what main returns

buffer == <<len, filled, printed>>
aio == <<op, result>>
vars == <<served, pc, locals, aio, conn, buffer, failed, code>>

-----------------------------------------------------------------------------
\* Mutation of main: the last operation is not waited for.
main_unwaited ==
  <<"url", "client", "aio",
    "connect", "wait", "check",
    "req", "write", "wait", "check",
    "res", "read", "wait", "check",
    "length", "data", "read_all", "check", "print">>

\* Mutation of main: the result of the last operation is not looked at.
main_unchecked ==
  <<"url", "client", "aio",
    "connect", "wait", "check",
    "req", "write", "wait", "check",
    "res", "read", "wait", "check",
    "length", "data", "read_all", "wait", "print">>

main ==
  <<"url", "client", "aio",
    "connect", "wait", "check",
    "req", "write", "wait", "check",
    "res", "read", "wait", "check",
    "length", "data", "read_all", "wait", "check", "print">>

\* The objects an operation uses.
Uses == [connect |-> {"client"}, write |-> {"req"}, read |-> {"res"},
         read_all |-> {"data"}]

\* What the module assumes of its constants: a null pointer is no number, no
\* operation and nothing that was printed.
Assumption ==
  /\ Headers \subseteq Int \cup {Text}
  /\ IntMax \in Nat /\ MaxBody \in Nat
  /\ Text \notin Int \cup {Null}
  /\ Null \notin Int \cup DOMAIN Uses \cup [size : Int, received : Int]

Locals == {locals[i] : i \in DOMAIN locals}
At(c) == pc \in DOMAIN main /\ main[pc] = c
GoOn == pc' = pc + 1

\* main returns, or its handler does after the exception.
Leave(c) == pc' = 0 /\ code' = c

-----------------------------------------------------------------------------
(* main                                                                    *)

\* A constructor, of all objects but the buffer
Construct(x) ==
  /\ At(x)
  /\ locals' = Append(locals, x)
  /\ GoOn
  /\ UNCHANGED <<served, aio, conn, buffer, failed, code>>

ConstructThrows(x) ==
  /\ At(x)
  /\ Leave(1)
  /\ UNCHANGED <<served, locals, aio, conn, buffer, failed>>

\* client.connect, conn.write, conn.read and conn.read_all
Arm(o) ==
  /\ At(o)
  /\ op' = o
  /\ GoOn
  /\ UNCHANGED <<served, locals, result, conn, buffer, failed, code>>

\* aio.wait()
wait ==
  /\ At("wait")
  /\ op = Null
  /\ GoOn
  /\ UNCHANGED <<served, locals, aio, conn, buffer, failed, code>>

\* Mutation of check: the operation is tried again.
check_retries ==
  /\ At("check")
  /\ pc' = IF result = "success" THEN pc + 1 ELSE pc - 2
  /\ UNCHANGED <<served, locals, aio, conn, buffer, failed, code>>

\* if( result != success ) throw; a result is there even too early.
check ==
  /\ At("check")
  /\ IF result = "success" THEN GoOn /\ code' = code ELSE Leave(1)
  /\ UNCHANGED <<served, locals, aio, conn, buffer, failed>>

int == -IntMax - 1 .. IntMax

\* What atoi makes of a header: text is 0, and a number that is no int is
\* undefined, so that any int can come of it.
atoi(h) == IF h = Text THEN {0} ELSE IF h \in int THEN {h} ELSE int

\* Mutation of length: a missing header is taken for a length of 0.
length_default ==
  /\ At("length")
  /\ len' \in IF served.header = Null THEN {0} ELSE atoi(served.header)
  /\ IF len' = 0 THEN Leave(0) ELSE GoOn /\ code' = code
  /\ UNCHANGED <<served, locals, aio, conn, filled, printed, failed>>

\* get_header("Content-Length") and atoi: no header is an error, a length of
\* 0 the end.
length ==
  /\ At("length")
  /\ IF served.header = Null THEN Leave(1) /\ UNCHANGED len
     ELSE /\ len' \in atoi(served.header)
          /\ IF len' = 0 THEN Leave(0) ELSE GoOn /\ code' = code
  /\ UNCHANGED <<served, locals, aio, conn, filled, printed, failed>>

\* buffer data( len ) and set_iov: a negative len is a size that cannot be
\* allocated.
Data ==
  /\ At("data")
  /\ len > 0
  /\ locals' = Append(locals, "data")
  /\ GoOn
  /\ UNCHANGED <<served, aio, conn, buffer, failed, code>>

\* fwrite of the whole buffer, and the end of main
print ==
  /\ At("print")
  /\ printed' = [size |-> len, received |-> filled]
  /\ Leave(0)
  /\ UNCHANGED <<served, locals, aio, conn, len, filled, failed>>

\* The objects are destroyed, the last one first. The connection is not one
\* of them: conn is a view.
Destroy ==
  /\ pc = 0
  /\ locals # <<>>
  /\ locals' = SubSeq(locals, 1, Len(locals) - 1)
  /\ op' = IF locals[Len(locals)] = "aio" THEN Null ELSE op
  /\ UNCHANGED <<served, pc, result, conn, buffer, failed, code>>

-----------------------------------------------------------------------------
(* The library                                                             *)

\* What has come of the body when read_all completes
Received == IF served.body >= len THEN len ELSE served.body

Succeed ==
  /\ op # Null
  /\ op = "read_all" => served.body >= len
  /\ op' = Null
  /\ result' = "success"
  /\ conn' = (conn \/ op = "connect")
  /\ filled' = IF op = "read_all" THEN len ELSE filled
  /\ UNCHANGED <<served, pc, locals, len, printed, failed, code>>

Fail ==
  /\ op # Null
  /\ op' = Null
  /\ result' = "error"
  /\ filled' \in IF op = "read_all" THEN 0 .. Received ELSE {filled}
  /\ failed' = TRUE
  /\ UNCHANGED <<served, pc, locals, conn, len, printed, code>>

Init ==
  /\ served \in [header : Headers \cup {Null}, body : 0 .. MaxBody]
  /\ pc = 1
  /\ locals = <<>>
  /\ op = Null
  /\ result = "success"
  /\ conn = FALSE
  /\ len = 0
  /\ filled = 0
  /\ printed = Null
  /\ failed = FALSE
  /\ code = Null

Main ==
  \/ \E x \in {"url", "client", "aio", "req", "res"} : Construct(x)
  \/ \E o \in {"connect", "write", "read", "read_all"} : Arm(o)
  \/ wait \/ check \/ length \/ Data \/ print \/ Destroy

Throws ==
  \E x \in {"url", "client", "aio", "req", "res", "data"} : ConstructThrows(x)

Complete == Succeed \/ Fail

Next == Main \/ Throws \/ Complete

\* main runs on; a server does not keep a client waiting forever, since this
\* program sets no timeout.
Spec == Init /\ [][Next]_vars /\ WF_vars(Main \/ Throws) /\ WF_vars(Complete)

-----------------------------------------------------------------------------
(* Properties.                                                             *)

\* Every variable keeps its type. An operation is under way only between its
\* call and the wait for it, so that a result belongs to the last operation.
TypeOK ==
  /\ pc \in 0 .. Len(main)
  /\ Locals \subseteq {main[i] : i \in DOMAIN main}
  /\ op \in DOMAIN Uses \cup {Null}
  /\ result \in {"success", "error"}
  /\ filled \in 0 .. MaxBody
  /\ code \in {0, 1, Null}
  /\ op # Null => At("wait")

\* The library never uses an object of main that is gone: the buffer is
\* declared after the aio and destroyed before it, so every path out of main
\* has to wait first.
ObjectsOutliveOperations == op # Null => Uses[op] \subseteq Locals

\* What is printed was received, all of it.
PrintsWhatCame ==
  printed # Null => printed.received = printed.size /\ printed.size <= served.body

\* main returns 0 only when nothing failed, the server sent a header, and as
\* many bytes were printed as atoi read: the announced ones, if the header is
\* a number and an int.  Text counts as 0, and then 0 is returned with the
\* body, if there is one, neither read nor printed.
ZeroMeansDone ==
  code = 0 =>
    /\ ~failed
    /\ served.header # Null
    /\ len \in atoi(served.header)
    /\ IF len = 0 THEN printed = Null
                  ELSE printed # Null /\ printed.size = len

\* The program has ended, and its objects are destroyed.
Finished == pc = 0 /\ locals = <<>>
=============================================================================
