---------------------------- MODULE AsyncServer ----------------------------
(***************************************************************************)
(* demo/async/server.cpp and demo/raw/raw.cpp: a REP server of PARALLEL    *)
(* work items, each a state machine that its own aio's callback drives:    *)
(* receive a request, sleep as long as it asks, send it back.              *)
(*                                                                         *)
(* The two differ in how a reply finds its way: the async server gives     *)
(* each work item a context, which remembers who sent the last request;    *)
(* the raw server uses the bare socket, and the message itself carries     *)
(* the route.                                                              *)
(*                                                                         *)
(* A callback looks at the completed operation and moves the message, then *)
(* assigns the state, then makes the call that arms the aio: from that     *)
(* moment on the next callback may come.                                   *)
(***************************************************************************)
EXTENDS BigEndian, FiniteSets

CONSTANTS
  PARALLEL,  \* number of work items
  Clients,   \* REQ clients, each with one request at a time
  Delays,    \* the milliseconds that they ask for, of type int
  Null       \* nullptr

ASSUME ParallelAssumption == PARALLEL \in Nat \ {0}

\* sizeof of uint32_t, int and nng_duration
U32 == 4

\* The numbers of an int, and of an nng_duration
IsInt32(x) == x \in Int /\ -Base^U32 <= 2 * x /\ 2 * x < Base^U32

ASSUME DelaysAssumption == \A d \in Delays : IsInt32(d)

VARIABLES
  mode,      \* "ctx" (async server) or "raw"
  started,   \* work items that main has started
  todo,      \* what the callback of each has still to do: the state that it
             \* assigns, the operation that it arms the aio with
  state,     \* the state member of each work item
  aio,       \* the operation its aio is armed with
  result,    \* the result of the last one
  duration,  \* how long the aio sleeps, or is going to (when)
  aio_msg,   \* the message in its aio
  msg,       \* its msg member
  peer,      \* the client its context will reply to
  client,    \* each client: idle, asked, held (by a work item), ignored, answered
  delay,     \* what it asked for; Null: it sent less than four bytes
  reply,     \* the reply it got
  exited     \* was exit(1) called?

work == <<todo, state, aio, result, duration, aio_msg, msg, peer>>
world == <<client, delay, reply>>
vars == <<mode, started, work, world, exited>>

Works == 1 .. PARALLEL

\* The body of a request: msec as a uint32_t, or less than four bytes
BodyOf(msec) ==
  IF msec = Null THEN <<0>> ELSE Encode(U32, ToUnsigned(U32, msec))

\* A message that is under way, before or after trim_u32
Message ==
  [from : Clients, body : {<<>>} \cup {BodyOf(d) : d \in Delays \cup {Null}}]

ASSUME NullAssumption == Null \notin Message

\* The callback of w goes on to do rest.
Then(w, rest) ==
  /\ todo' = [todo EXCEPT ![w] = @ \o rest]
  /\ aio' = [aio EXCEPT ![w] = "idle"]

-----------------------------------------------------------------------------
(* server_cb                                                               *)

States == {"RECV", "WAIT", "SEND"}
Operations == {"recv", "sleep", "send"}

\* work->state = ...
SetState(w) ==
  /\ ~exited
  /\ todo[w] # <<>> /\ Head(todo[w]) \in States
  /\ state' = [state EXCEPT ![w] = Head(todo[w])]
  /\ todo' = [todo EXCEPT ![w] = Tail(@)]
  /\ UNCHANGED <<mode, started, aio, result, duration, aio_msg, msg, peer, world,
                 exited>>

\* recv, sleep or send with work->aio; main's own call of server_cb is over.
Arm(w) ==
  /\ ~exited
  /\ todo[w] # <<>> /\ Head(todo[w]) \in Operations
  /\ aio' = [aio EXCEPT ![w] = Head(todo[w])]
  /\ todo' = [todo EXCEPT ![w] = Tail(@)]
  /\ started' = IF w > started THEN w ELSE started
  /\ UNCHANGED <<mode, state, result, duration, aio_msg, msg, peer, world, exited>>

\* case INIT, called by main's loop for one work item after the other
CbInit(w) ==
  /\ ~exited
  /\ started = w - 1
  /\ state[w] = "INIT" /\ todo[w] = <<>>
  /\ Then(w, <<"RECV", "recv">>)
  /\ UNCHANGED <<mode, started, state, result, duration, aio_msg, msg, peer, world,
                 exited>>

\* The aio of w completed and its callback finds state s.
Called(w, s) == ~exited /\ aio[w] = "done" /\ state[w] = s

\* What trim_u32 leaves of a body
Trimmed(mm) == [mm EXCEPT !.body = SubSeq(@, U32 + 1, Len(@))]

\* The number that trim_u32 reads from the first four bytes
trim_u32(body) ==
  body[1] * Base^3 + body[2] * Base^2 + body[3] * Base + body[4]

\* Mutation of When: the number stays unsigned.
WhenUnsigned(mm) == trim_u32(mm.body)

\* The same, converted from uint32_t to nng_duration
When(mm) == ToSigned(U32, trim_u32(mm.body))

\* Mutation of CbRecv: the four bytes stay in the message.
CbRecvUntrimmed(w) ==
  /\ Called(w, "RECV")
  /\ result[w] = "success"
  /\ Len(aio_msg[w].body) >= U32
  /\ msg' = [msg EXCEPT ![w] = aio_msg[w]]
  /\ duration' = [duration EXCEPT ![w] = When(aio_msg[w])]
  /\ aio_msg' = [aio_msg EXCEPT ![w] = Null]
  /\ Then(w, <<"WAIT", "sleep">>)
  /\ UNCHANGED <<mode, started, state, result, peer, world, exited>>

\* case RECV: a message that trim_u32 accepts is kept while the aio sleeps.
CbRecv(w) ==
  /\ Called(w, "RECV")
  /\ result[w] = "success"
  /\ Len(aio_msg[w].body) >= U32
  /\ msg' = [msg EXCEPT ![w] = Trimmed(aio_msg[w])]
  /\ duration' = [duration EXCEPT ![w] = When(aio_msg[w])]
  /\ aio_msg' = [aio_msg EXCEPT ![w] = Null]
  /\ Then(w, <<"WAIT", "sleep">>)
  /\ UNCHANGED <<mode, started, state, result, peer, world, exited>>

\* Mutation of CbIgnore: no return, so that the aio sleeps for whatever is in
\* the variable that trim_u32 did not set.
CbIgnoreGoesOn(w) ==
  /\ Called(w, "RECV")
  /\ result[w] = "success"
  /\ Len(aio_msg[w].body) < U32
  /\ msg' = [msg EXCEPT ![w] = aio_msg[w]]
  /\ aio_msg' = [aio_msg EXCEPT ![w] = Null]
  /\ Then(w, <<"WAIT", "sleep">>)
  /\ UNCHANGED <<mode, started, state, result, duration, peer, world, exited>>

\* "bad message, just ignore it": it is freed, and the aio receives again.
CbIgnore(w) ==
  /\ Called(w, "RECV")
  /\ result[w] = "success"
  /\ Len(aio_msg[w].body) < U32
  /\ client' = [client EXCEPT ![aio_msg[w].from] = "ignored"]
  /\ aio_msg' = [aio_msg EXCEPT ![w] = Null]
  /\ Then(w, <<"recv">>)
  /\ UNCHANGED <<mode, started, state, result, duration, msg, peer, delay, reply,
                 exited>>

\* case WAIT: whatever the sleep returned, the message goes back.
CbWait(w) ==
  /\ Called(w, "WAIT")
  /\ aio_msg' = [aio_msg EXCEPT ![w] = msg[w]]
  /\ msg' = [msg EXCEPT ![w] = Null]
  /\ Then(w, <<"SEND", "send">>)
  /\ UNCHANGED <<mode, started, state, result, duration, peer, world, exited>>

\* Mutation of CbSend: the next receive is not started.
CbSendNoRecv(w) ==
  /\ Called(w, "SEND")
  /\ result[w] = "success"
  /\ Then(w, <<"RECV">>)
  /\ UNCHANGED <<mode, started, state, result, duration, aio_msg, msg, peer, world,
                 exited>>

\* Mutation of CbSend: the receive is started before the state says RECV.
CbSendArmsFirst(w) ==
  /\ Called(w, "SEND")
  /\ result[w] = "success"
  /\ Then(w, <<"recv", "RECV">>)
  /\ UNCHANGED <<mode, started, state, result, duration, aio_msg, msg, peer, world,
                 exited>>

\* case SEND: the next request
CbSend(w) ==
  /\ Called(w, "SEND")
  /\ result[w] = "success"
  /\ Then(w, <<"RECV", "recv">>)
  /\ UNCHANGED <<mode, started, state, result, duration, aio_msg, msg, peer, world,
                 exited>>

\* cases RECV and SEND: an error is thrown, and ends the process.
CbThrows(w) ==
  /\ Called(w, "RECV") \/ Called(w, "SEND")
  /\ result[w] = "error"
  /\ exited' = TRUE
  /\ UNCHANGED <<mode, started, work, world>>

-----------------------------------------------------------------------------
(* nng (external) and the clients                                          *)

\* The demo client: msec goes into the body, as a uint32_t.
Ask(c, msec) ==
  /\ ~exited
  /\ client[c] = "idle"
  /\ client' = [client EXCEPT ![c] = "asked"]
  /\ delay' = [delay EXCEPT ![c] = msec]
  /\ UNCHANGED <<mode, started, work, reply, exited>>

\* Another client, which sends less than four bytes
AskShort(c) ==
  /\ ~exited
  /\ client[c] = "idle"
  /\ client' = [client EXCEPT ![c] = "asked"]
  /\ UNCHANGED <<mode, started, work, delay, reply, exited>>

\* The client is done with its reply, or gives up waiting for one.
Forget(c) ==
  /\ ~exited
  /\ client[c] \in {"answered", "ignored"}
  /\ client' = [client EXCEPT ![c] = "idle"]
  /\ delay' = [delay EXCEPT ![c] = Null]
  /\ reply' = [reply EXCEPT ![c] = Null]
  /\ UNCHANGED <<mode, started, work, exited>>

Done(w, r) ==
  /\ aio' = [aio EXCEPT ![w] = "done"]
  /\ result' = [result EXCEPT ![w] = r]

RecvDone(w, c) ==
  /\ ~exited
  /\ aio[w] = "recv"
  /\ client[c] = "asked"
  /\ aio_msg' = [aio_msg EXCEPT ![w] = [from |-> c, body |-> BodyOf(delay[c])]]
  /\ peer' = [peer EXCEPT ![w] = c]
  /\ client' = [client EXCEPT ![c] = "held"]
  /\ Done(w, "success")
  /\ UNCHANGED <<mode, started, todo, state, duration, msg, delay, reply, exited>>

\* The sleep ends, by itself or because the aio is cancelled.
SleepDone(w) ==
  /\ ~exited
  /\ aio[w] = "sleep"
  /\ \E r \in {"success", "error"} : Done(w, r)
  /\ duration' = [duration EXCEPT ![w] = Null]
  /\ UNCHANGED <<mode, started, todo, state, aio_msg, msg, peer, world, exited>>

SendDone(w) ==
  /\ ~exited
  /\ aio[w] = "send"
  /\ LET to == IF mode = "raw" THEN aio_msg[w].from ELSE peer[w]
     IN  /\ client' = [client EXCEPT ![to] = "answered"]
         /\ reply' = [reply EXCEPT ![to] = aio_msg[w]]
  /\ aio_msg' = [aio_msg EXCEPT ![w] = Null]
  /\ peer' = [peer EXCEPT ![w] = Null]
  /\ Done(w, "success")
  /\ UNCHANGED <<mode, started, todo, state, duration, msg, delay, exited>>

OpFails(w) ==
  /\ ~exited
  /\ aio[w] \in {"recv", "send"}
  /\ Done(w, "error")
  /\ UNCHANGED <<mode, started, todo, state, duration, aio_msg, msg, peer, world,
                 exited>>

-----------------------------------------------------------------------------
Init ==
  /\ mode \in {"ctx", "raw"}
  /\ started = 0
  /\ todo = [w \in Works |-> <<>>]
  /\ state = [w \in Works |-> "INIT"]
  /\ aio = [w \in Works |-> "idle"]
  /\ result = [w \in Works |-> "success"]
  /\ duration = [w \in Works |-> Null]
  /\ aio_msg = [w \in Works |-> Null]
  /\ msg = [w \in Works |-> Null]
  /\ peer = [w \in Works |-> Null]
  /\ client = [c \in Clients |-> "idle"]
  /\ delay = [c \in Clients |-> Null]
  /\ reply = [c \in Clients |-> Null]
  /\ exited = FALSE

server_cb(w) ==
  \/ CbRecv(w) \/ CbIgnore(w) \/ CbWait(w) \/ CbSend(w) \/ CbThrows(w)
  \/ SetState(w) \/ Arm(w)

Terminated == exited /\ UNCHANGED vars

Next ==
  \/ \E w \in Works :
       \/ CbInit(w)
       \/ server_cb(w)
       \/ \E c \in Clients : RecvDone(w, c)
       \/ SleepDone(w)
       \/ SendDone(w)
       \/ OpFails(w)
  \/ \E c \in Clients : Forget(c) \/ AskShort(c) \/ \E d \in Delays : Ask(c, d)
  \/ Terminated

\* main starts all work items; nng runs the callbacks, ends sleeps and sends,
\* and hands the requests out in turn.
Fairness ==
  /\ \A w \in Works :
       /\ WF_vars(CbInit(w))
       /\ WF_vars(server_cb(w))
       /\ WF_vars(SleepDone(w))
       /\ WF_vars(SendDone(w))
  /\ \A c \in Clients : SF_vars(\E w \in Works : RecvDone(w, c))

Spec == Init /\ [][Next]_vars /\ Fairness

-----------------------------------------------------------------------------
(* Properties.                                                             *)

\* Every variable keeps its type; an aio that sleeps has a duration, and it fits
\* into an nng_duration.
TypeOK ==
  /\ mode \in {"ctx", "raw"}
  /\ started \in 0 .. PARALLEL
  /\ \A w \in Works : Len(todo[w]) <= 2
  /\ state \in [Works -> {"INIT"} \cup States]
  /\ aio \in [Works -> {"idle", "done"} \cup Operations]
  /\ result \in [Works -> {"success", "error"}]
  /\ \A w \in Works : \/ duration[w] = Null /\ aio[w] # "sleep"
                      \/ duration[w] # Null /\ IsInt32(duration[w])
  /\ \A w \in Works : {aio_msg[w], msg[w]} \subseteq Message \cup {Null}
  /\ peer \in [Works -> Clients \cup {Null}]
  /\ client \in [Clients -> {"idle", "asked", "held", "ignored", "answered"}]
  /\ delay \in [Clients -> Delays \cup {Null}]
  /\ reply \in [Clients -> Message \cup {Null}]
  /\ exited \in BOOLEAN

\* The places where the request of client c is.
Places(c) ==
  {w \in Works : aio_msg[w] # Null /\ aio_msg[w].from = c}
    \cup {w + PARALLEL : w \in {v \in Works : msg[v] # Null /\ msg[v].from = c}}

\* The server holds exactly one message for a client whose request it took
\* and none for any other: as the message goes from the aio to the work item
\* and back, server_cb never loses, duplicates or keeps it.
MessageHasOneOwner ==
  \A c \in Clients :
    Cardinality(Places(c)) = IF client[c] = "held" THEN 1 ELSE 0

\* A client gets its own request back, without the four bytes, whichever work
\* items and requests ran in between, with contexts and with the raw socket.
OwnReply ==
  \A c \in Clients :
    client[c] = "answered" =>
      delay[c] # Null /\ reply[c] = [from |-> c, body |-> <<>>]

\* A work item sleeps exactly as long as the client of its message asked:
\* from the client's int to uint32_t, over the wire and to nng_duration, which
\* is signed, the number survives, negative ones included.
SleepsAsAsked ==
  \A w \in Works :
    aio[w] = "sleep" => msg[w] # Null /\ duration[w] = delay[msg[w].from]

\* A well-formed request is answered in the end, unless the process exits.
EveryRequestServed ==
  \A c \in Clients :
    client[c] = "asked" /\ delay[c] # Null ~> client[c] = "answered" \/ exited

=============================================================================
