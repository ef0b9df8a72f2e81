------------------------------ MODULE ReqRep -------------------------------
(***************************************************************************)
(* demo/reqrep/reqrep.cpp: a server that answers a command of eight bytes  *)
(* with the date, written over the command in the same buffer, and the     *)
(* client that asks for it.                                                *)
(*                                                                         *)
(* The sockets (external): REQ sends a request again when it may have been *)
(* lost, so that the server can receive it twice, and takes the first      *)
(* reply; REP remembers the client of the last request, until that client  *)
(* is gone. A client that ended may be started again, and so may a server. *)
(***************************************************************************)
EXTENDS BigEndian

CONSTANTS
  Clients,    \* client processes
  OddBodies,  \* what clients other than the demo's send
  Start,      \* what time() returns at first
  MaxTicks,   \* bound: how often the clock ticks
  MaxCopies,  \* bound: copies of a request on their way
  Null

VARIABLES
  now,      \* the clock
  server,   \* where the server is: "start", "recv", "handle" or "failed"
  buf,      \* its buffer
  arrived,  \* clients whose request is in its socket
  route,    \* the client that its socket will reply to
  client,   \* where each client is
  body,     \* its request
  copies,   \* how many copies of that are on their way
  reply,    \* its reply: on its way, and then in its buffer
  asked,    \* when it sent the request
  date      \* the date it showed

serverVars == <<server, buf, arrived, route>>
clientVars == <<client, body, copies, reply, asked, date>>
vars == <<now, serverVars, clientVars>>

DATECMD == 1
SizeofU64 == 8

\* The macros: eight bytes at ptr, of which there may be more
PUT64(ptr, u) ==
  [i \in DOMAIN ptr |->
     IF i <= 8 THEN (u \div Base^(8 - i)) % Base ELSE ptr[i]]
GET64(ptr) ==
  ptr[1] * Base^7 + ptr[2] * Base^6 + ptr[3] * Base^5 + ptr[4] * Base^4
    + ptr[5] * Base^3 + ptr[6] * Base^2 + ptr[7] * Base + ptr[8]

Command == PUT64([i \in 1 .. SizeofU64 |-> 0], DATECMD)

\* What the module assumes of its constants: the clock fits into time_t, which
\* has eight bytes and a sign, and a null pointer is no number.
Assumption ==
  /\ Start \in Int /\ MaxTicks \in Nat /\ MaxCopies \in Nat \ {0}
  /\ -Base^8 <= 2 * Start /\ 2 * (Start + MaxTicks) < Base^8
  /\ Null \notin Int
  /\ OddBodies \subseteq Seq(Byte) \ {Command}

-----------------------------------------------------------------------------
(* server                                                                  *)

Listen ==
  /\ server = "start"
  /\ server' = "recv"
  /\ UNCHANGED <<now, buf, arrived, route, clientVars>>

Recv(c) ==
  /\ server = "recv"
  /\ c \in arrived
  /\ arrived' = arrived \ {c}
  /\ buf' = body[c]
  /\ route' = c
  /\ server' = "handle"
  /\ UNCHANGED <<now, clientVars>>

\* The guard of line 49
IsDateRequest == Len(buf) = SizeofU64 /\ GET64(buf) = DATECMD

\* What send( buf ) delivers: to nobody when the client is gone, and to a
\* client that has a reply already, nothing.
Deliver(b) ==
  reply' = IF route # Null /\ client[route] = "recv" /\ reply[route] = Null
             THEN [reply EXCEPT ![route] = b]
             ELSE reply

\* Mutation of Answer: only the size of the request is looked at.
AnswerAny ==
  /\ server = "handle"
  /\ Len(buf) = SizeofU64
  /\ Deliver(PUT64(buf, ToUnsigned(8, now)))
  /\ buf' = Null
  /\ route' = Null
  /\ server' = "recv"
  /\ UNCHANGED <<now, arrived, client, body, copies, asked, date>>

\* Mutation of Answer: the buffer is sent as it came.
AnswerUnwritten ==
  /\ server = "handle"
  /\ IsDateRequest
  /\ Deliver(buf)
  /\ buf' = Null
  /\ route' = Null
  /\ server' = "recv"
  /\ UNCHANGED <<now, arrived, client, body, copies, asked, date>>

\* Mutation of Answer: the buffer is not sent.
AnswerUnsent ==
  /\ server = "handle"
  /\ IsDateRequest
  /\ buf' = Null
  /\ route' = Null
  /\ server' = "recv"
  /\ UNCHANGED <<now, arrived, clientVars>>

Answer ==
  /\ server = "handle"
  /\ IsDateRequest
  /\ Deliver(PUT64(buf, ToUnsigned(8, now)))
  /\ buf' = Null
  /\ route' = Null
  /\ server' = "recv"
  /\ UNCHANGED <<now, arrived, client, body, copies, asked, date>>

\* Anything else: the loop goes on without an answer.
Ignore ==
  /\ server = "handle"
  /\ ~IsDateRequest
  /\ buf' = Null
  /\ server' = "recv"
  /\ UNCHANGED <<now, arrived, route, clientVars>>

\* open, listen, recv or send throws, and main returns 1.
ServerThrows ==
  /\ server # "failed"
  /\ server' = "failed"
  /\ buf' = Null
  /\ arrived' = {}
  /\ route' = Null
  /\ UNCHANGED <<now, clientVars>>

-----------------------------------------------------------------------------
(* client                                                                  *)

\* dial and send: the demo's client, or another one with a body of its own
Send(c) ==
  /\ client[c] = "start"
  /\ client' = [client EXCEPT ![c] = "recv"]
  /\ \E b \in {Command} \cup OddBodies : body' = [body EXCEPT ![c] = b]
  /\ copies' = [copies EXCEPT ![c] = 1]
  /\ asked' = [asked EXCEPT ![c] = now]
  /\ UNCHANGED <<now, serverVars, reply, date>>

\* recv returns; a reply of the wrong size shows no date.
Receive(c) ==
  /\ client[c] = "recv"
  /\ reply[c] # Null
  /\ client' = [client EXCEPT ![c] = "done"]
  /\ date' = [date EXCEPT ![c] =
       IF Len(reply[c]) = SizeofU64 THEN ToSigned(8, GET64(reply[c])) ELSE Null]
  /\ UNCHANGED <<now, serverVars, body, copies, reply, asked>>

\* Its process ends, also by an exception or because it was told to; whatever
\* is on its way from and to it is lost. Then it may run again.
End(c) ==
  /\ client[c] # "start"
  /\ client' = [client EXCEPT ![c] = "start"]
  /\ body' = [body EXCEPT ![c] = Null]
  /\ copies' = [copies EXCEPT ![c] = 0]
  /\ reply' = [reply EXCEPT ![c] = Null]
  /\ asked' = [asked EXCEPT ![c] = Null]
  /\ date' = [date EXCEPT ![c] = Null]
  /\ arrived' = arrived \ {c}
  /\ route' = IF route = c THEN Null ELSE route
  /\ UNCHANGED <<now, server, buf>>

-----------------------------------------------------------------------------
(* The sockets, the clock and the operator (external)                      *)

Arrive(c) ==
  /\ copies[c] > 0
  /\ server \in {"recv", "handle"}
  /\ copies' = [copies EXCEPT ![c] = @ - 1]
  /\ arrived' = arrived \cup {c}
  /\ UNCHANGED <<now, server, buf, route, client, body, reply, asked, date>>

Lose(c) ==
  /\ copies[c] > 0
  /\ copies' = [copies EXCEPT ![c] = @ - 1]
  /\ UNCHANGED <<now, serverVars, client, body, reply, asked, date>>

Resend(c) ==
  /\ client[c] = "recv"
  /\ reply[c] = Null
  /\ copies[c] < MaxCopies
  /\ copies' = [copies EXCEPT ![c] = @ + 1]
  /\ UNCHANGED <<now, serverVars, client, body, reply, asked, date>>

Tick ==
  /\ now < Start + MaxTicks
  /\ now' = now + 1
  /\ UNCHANGED <<serverVars, clientVars>>

RestartServer ==
  /\ server = "failed"
  /\ server' = "start"
  /\ UNCHANGED <<now, buf, arrived, route, clientVars>>

-----------------------------------------------------------------------------
Init ==
  /\ now = Start
  /\ server = "start"
  /\ buf = Null
  /\ arrived = {}
  /\ route = Null
  /\ client = [c \in Clients |-> "start"]
  /\ body = [c \in Clients |-> Null]
  /\ copies = [c \in Clients |-> 0]
  /\ reply = [c \in Clients |-> Null]
  /\ asked = [c \in Clients |-> Null]
  /\ date = [c \in Clients |-> Null]

Next ==
  \/ Listen \/ Answer \/ Ignore \/ ServerThrows \/ RestartServer
  \/ Tick
  \/ \E c \in Clients :
       \/ Recv(c)
       \/ Send(c) \/ Receive(c) \/ End(c)
       \/ Arrive(c) \/ Lose(c) \/ Resend(c)

\* The server's loop goes on; REQ sends again until it has a reply, and a
\* request that is sent again and again arrives; the socket hands requests out
\* in turn.
Fairness ==
  /\ WF_vars(Listen)
  /\ WF_vars(Answer \/ Ignore)
  /\ \A c \in Clients :
       /\ WF_vars(Resend(c)) /\ WF_vars(Receive(c))
       /\ SF_vars(Arrive(c)) /\ SF_vars(Recv(c))

Spec == Init /\ [][Next]_vars /\ Fairness

-----------------------------------------------------------------------------
(* Properties.                                                             *)

\* Every variable keeps its type; a client that is gone has nothing on its way.
TypeOK ==
  /\ now \in Start .. Start + MaxTicks
  /\ server \in {"start", "recv", "handle", "failed"}
  /\ IF server = "handle" THEN buf \in Seq(Byte) ELSE buf = Null
  /\ route \in Clients \cup {Null}
  /\ arrived \subseteq Clients
  /\ copies \in [Clients -> 0 .. MaxCopies]
  /\ \A c \in Clients :
       /\ client[c] \in {"start", "recv", "done"}
       /\ client[c] = "start" =>
            body[c] = Null /\ copies[c] = 0 /\ c \notin arrived
       /\ client[c] # "start" => body[c] \in Seq(Byte) /\ asked[c] \in Int
       /\ {reply[c]} \subseteq Seq(Byte) \cup {Null}

\* A client shows the date of a moment between its request and now: what the
\* server writes over the command in the reused buffer is, byte by byte, what
\* the client reads, and the answer is not an earlier one.
DateIsFresh ==
  \A c \in Clients :
    client[c] = "done" => date[c] # Null /\ asked[c] <= date[c] /\ date[c] <= now

\* Only who asked for the date gets one, however often the server received,
\* ignored or answered other requests in between.
OnlyDateRequestsAnswered ==
  \A c \in Clients : reply[c] # Null => body[c] = Command

\* Whoever asks for the date gets it, though requests are lost, and though
\* others send what the server ignores; unless the client ends before, or the
\* server fails.
EveryDateRequestAnswered ==
  \A c \in Clients :
    client[c] = "recv" /\ body[c] = Command
      ~> client[c] # "recv" \/ server = "failed"
=============================================================================
