---------------------------- MODULE Scalability ----------------------------
(***************************************************************************)
(* test/scalability.cpp: a thread serves a REP socket until main takes the *)
(* socket away from it. stop assigns an empty socket to the member rep,    *)
(* which closes the old one and then stores 0, while the thread goes on    *)
(* reading rep for its next call: a data race, without a lock, of one      *)
(* aligned word, so that the thread finds the old handle or 0.             *)
(*                                                                         *)
(* nng (external): a call on a closed socket, or on handle 0, fails;       *)
(* nng_close waits for the calls that are under way; dial is refused       *)
(* before the server listens; a client gives up after its timeout.         *)
(***************************************************************************)
EXTENDS Naturals, Sequences, FiniteSets

CONSTANT NClients  \* 200 in the program

\* What the module assumes of its constants
Assumption == NClients \in Nat \ {0}

VARIABLES
  rep,      \* the id in the member rep of sv; 0: empty
  open,     \* is socket 1 open?
  server,   \* where the thread is
  handle,   \* the id that its call was given
  msg,      \* the request in its hand, by its client; 0: none
  queue,    \* requests that wait at the socket
  main,     \* where the test case is
  next,     \* the client main is at
  answered, \* clients with a reply
  failed,   \* did a REQUIRE fail?
  broken    \* did a call fail on the open socket?

thread == <<server, handle, msg>>
test == <<main, next, failed>>
vars == <<rep, open, thread, queue, test, answered, broken>>

clients == 1 .. NClients

\* The thread is inside a call on the open socket.
Calling == server \in {"receiving", "sending"}
Works == open /\ handle = 1

\* terminate: an exception left run, and nothing catches it.
Running == server # "terminated"

-----------------------------------------------------------------------------
(* server::run                                                             *)

\* Two options and listen
listen ==
  /\ server = "start"
  /\ server' = "loop"
  /\ UNCHANGED <<rep, open, handle, msg, queue, test, answered, broken>>

ListenThrows ==
  /\ server = "start"
  /\ server' = "terminated"
  /\ broken' = TRUE
  /\ UNCHANGED <<rep, open, handle, msg, queue, test, answered>>

\* rep.recv_msg() and rep.send: rep is read again for each call.
Call(from, to) ==
  /\ server = from
  /\ server' = to
  /\ handle' = rep
  /\ UNCHANGED <<rep, open, msg, queue, test, answered, broken>>

CallRecv == Call("loop", "receiving")
CallSend == Call("loaded", "sending")

Received ==
  /\ server = "receiving"
  /\ Works
  /\ queue # <<>>
  /\ msg' = Head(queue)
  /\ queue' = Tail(queue)
  /\ server' = "loaded"
  /\ UNCHANGED <<rep, open, handle, test, answered, broken>>

\* Mutation of Sent: the loop ends after one reply.
SentOnce ==
  /\ server = "sending"
  /\ Works
  /\ answered' = answered \cup {msg}
  /\ msg' = 0
  /\ server' = "ended"
  /\ UNCHANGED <<rep, open, handle, queue, test, broken>>

Sent ==
  /\ server = "sending"
  /\ Works
  /\ answered' = answered \cup {msg}
  /\ msg' = 0
  /\ server' = "loop"
  /\ UNCHANGED <<rep, open, handle, queue, test, broken>>

\* Mutation of Fails: catch without break
FailsGoesOn ==
  /\ Running
  /\ Calling
  /\ msg' = 0
  /\ broken' = (broken \/ Works)
  /\ server' = "loop"
  /\ UNCHANGED <<rep, open, handle, queue, test, answered>>

\* The call throws, the message is freed, and the loop breaks.
Fails ==
  /\ Running
  /\ Calling
  /\ msg' = 0
  /\ broken' = (broken \/ Works)
  /\ server' = "ended"
  /\ UNCHANGED <<rep, open, handle, queue, test, answered>>

-----------------------------------------------------------------------------
(* The test case                                                           *)

At(pc) == Running /\ main = pc

\* open_clients and transact take one client after the other.
Advance(pc) ==
  IF next < NClients THEN next' = next + 1 /\ main' = main
                     ELSE next' = 1 /\ main' = pc

\* A failed REQUIRE unwinds the test case: stop is not called.
Require ==
  /\ failed' = TRUE
  /\ main' = "unwind"
  /\ UNCHANGED <<rep, open, thread, queue, next, answered, broken>>

dial ==
  /\ At("open_clients")
  /\ server # "start"
  /\ Advance("send")
  /\ UNCHANGED <<rep, open, thread, queue, answered, failed, broken>>

\* A dial is refused, at the latest when the server does not listen.
DialThrows == At("open_clients") /\ Require

send ==
  /\ At("send")
  /\ queue' = Append(queue, next)
  /\ main' = "recv"
  /\ UNCHANGED <<rep, open, thread, next, answered, failed, broken>>

\* The reply is there.
recv ==
  /\ At("recv")
  /\ next \in answered
  /\ IF next < NClients THEN next' = next + 1 /\ main' = "send"
                        ELSE next' = next /\ main' = "stop"
  /\ UNCHANGED <<rep, open, thread, queue, answered, failed, broken>>

\* A send or a receive of a client times out.
TimesOut ==
  /\ At("send") \/ (At("recv") /\ next \notin answered)
  /\ Require

\* Mutation of close: release() in place of the assignment
close_releases ==
  /\ At("stop")
  /\ main' = "store"
  /\ UNCHANGED <<rep, open, thread, queue, next, answered, failed, broken>>

\* stop, first half of the assignment: nng_close
close ==
  /\ At("stop")
  /\ open' = FALSE
  /\ main' = "store"
  /\ UNCHANGED <<rep, thread, queue, next, answered, failed, broken>>

\* Second half, when nng_close has returned
store ==
  /\ At("store")
  /\ ~(Calling /\ handle = 1)
  /\ rep' = 0
  /\ main' = "unwind"
  /\ UNCHANGED <<open, thread, queue, next, answered, failed, broken>>

\* The clients are destroyed, and with them their requests.
destroy_clients ==
  /\ At("unwind")
  /\ queue' = <<>>
  /\ main' = "join"
  /\ UNCHANGED <<rep, open, thread, next, answered, failed, broken>>

\* ~thread waits for the thread's function to return.
join ==
  /\ At("join")
  /\ server = "ended"
  /\ main' = "destroy"
  /\ UNCHANGED <<rep, open, thread, queue, next, answered, failed, broken>>

\* sv is destroyed; its socket is closed when stop did not do it.
destroy ==
  /\ At("destroy")
  /\ open' = (open /\ rep = 0)
  /\ main' = "end"
  /\ UNCHANGED <<rep, thread, queue, next, answered, failed, broken>>

Init ==
  /\ rep = 1
  /\ open = TRUE
  /\ server = "start"
  /\ handle = 0
  /\ msg = 0
  /\ queue = <<>>
  /\ main = "open_clients"
  /\ next = 1
  /\ answered = {}
  /\ failed = FALSE
  /\ broken = FALSE

Thread == listen \/ CallRecv \/ CallSend \/ Received \/ Sent
Main == dial \/ send \/ recv \/ close \/ store \/ destroy_clients \/ join \/ destroy
Error == ListenThrows \/ Fails \/ DialThrows \/ TimesOut

Next == Thread \/ Main \/ Error

\* Thread and test case run on, a timeout comes in the end, and a call on a
\* closed socket returns; on an open one no error is assumed to happen.
Spec ==
  /\ Init /\ [][Next]_vars
  /\ WF_vars(Thread) /\ WF_vars(Main)
  /\ WF_vars(TimesOut) /\ WF_vars(Fails /\ ~Works)

-----------------------------------------------------------------------------
(* Properties.                                                             *)

\* Every variable keeps its type, and sv outlives the thread that works on it.
TypeOK ==
  /\ rep \in {0, 1} /\ handle \in {0, 1}
  /\ open \in BOOLEAN /\ failed \in BOOLEAN /\ broken \in BOOLEAN
  /\ server \in {"start", "loop", "receiving", "loaded", "sending", "ended",
                 "terminated"}
  /\ msg \in clients \cup {0}
  /\ queue \in Seq(clients)
  /\ main \in {"open_clients", "send", "recv", "stop", "store", "unwind", "join",
               "destroy", "end"}
  /\ next \in clients
  /\ answered \subseteq clients
  /\ main \in {"destroy", "end"} => server = "ended"

\* The server does not leave a client that waits: unless a call of its own
\* failed on the open socket, it ends only when stop was called, and then
\* every client has its reply.
ServesUntilStopped ==
  server = "ended" /\ ~broken => ~open /\ answered = clients

\* Whatever the thread is doing when the socket is taken away, and whichever
\* handle it reads then, it ends.
StopEndsThread == ~open ~> server = "ended"

\* The test has ended, or a REQUIRE failed, so that nobody calls stop, and the
\* destructor of the thread waits for a server that still serves.
Finished ==
  \/ main = "end"
  \/ server = "terminated"
  \/ failed /\ main = "join" /\ open
=============================================================================
