-------------------------------- MODULE Perf -------------------------------
(***************************************************************************)
(* The programs of perf/: a server and a client that measure the latency   *)
(* or the throughput of a PAIR connection, as two processes (local_ and    *)
(* remote_) or as a thread and the main of one process (inproc_).          *)
(*                                                                         *)
(* A message is its size. The sockets (external): one FIFO queue in each   *)
(* direction, send waits while it is full; dial throws when nobody         *)
(* listens; a socket that closes may lose what it has not yet sent.        *)
(*                                                                         *)
(* The programs sleep where they hope that something has happened (that    *)
(* the server listens, that the last message has left). timely says that   *)
(* this is so; when it is FALSE, a sleep means nothing.                    *)
(***************************************************************************)
EXTENDS Naturals, Sequences

CONSTANTS
  Sizes,     \* message sizes
  MaxCount,  \* bound: trips or messages
  Cap        \* messages that a queue holds (128 in each direction)

\* What the module assumes of its constants
Assumption ==
  /\ Sizes \subseteq Nat
  /\ MaxCount \in Nat
  /\ Cap \in Nat \ {0}

VARIABLES
  test,    \* "latency" or "throughput"
  deploy,  \* "inproc" or "processes"
  timely,  \* are the sleeps long enough?
  arg,     \* msgsize and count of server and client
  server,  \* where the server is
  got,     \* how often its loop received
  client,  \* where the client is
  sent,    \* how often its loop sent
  up,      \* messages to the server
  down,    \* messages to the client
  main     \* of inproc_lat and inproc_thr: "run" or "returned"

inputs == <<test, deploy, timely, arg>>
vars == <<inputs, server, got, client, sent, up, down, main>>

\* A program ended: it returned, it threw (and its main returned 1, or, in the
\* thread of do_inproc, the process was terminated), or it called die.
Ended == {"closed", "failed", "died"}

\* die and terminate end the process, and with it the other program.
Gone == deploy = "inproc" /\ (server \in {"failed", "died"} \/ main = "returned")

-----------------------------------------------------------------------------
(* latency_server and throughput_server                                    *)

ServerAt(pc) == server = pc /\ ~Gone

Listen ==
  /\ ServerAt("start")
  /\ server' = IF test = "throughput" THEN "sync" ELSE "loop"
  /\ UNCHANGED <<inputs, got, client, sent, up, down, main>>

\* Mutation of ServerSync: the first message is left for the loop.
ServerNoSync ==
  /\ ServerAt("sync")
  /\ server' = "loop"
  /\ UNCHANGED <<inputs, got, client, sent, up, down, main>>

\* "Receive first synchronization message", of any size
ServerSync ==
  /\ ServerAt("sync")
  /\ up # <<>>
  /\ up' = Tail(up)
  /\ server' = "loop"
  /\ UNCHANGED <<inputs, got, client, sent, down, main>>

\* The loop receives one message and looks at its size.
ServerRecv ==
  /\ ServerAt("loop")
  /\ got < arg.server.count
  /\ up # <<>>
  /\ up' = Tail(up)
  /\ IF Head(up) # arg.server.msgsize
       THEN server' = "died" /\ UNCHANGED got
       ELSE /\ got' = got + 1
            /\ server' = IF test = "latency" THEN "reply" ELSE "loop"
  /\ UNCHANGED <<inputs, client, sent, down, main>>

\* Mutation of ServerReply: a new message is sent, and the old one too.
ServerReplyTwice ==
  /\ ServerAt("reply")
  /\ Len(down) + 1 < Cap
  /\ down' = down \o <<arg.server.msgsize, arg.server.msgsize>>
  /\ server' = "loop"
  /\ UNCHANGED <<inputs, got, client, sent, up, main>>

\* Mutation of ServerReply: the message is dropped.
ServerReplyDropped ==
  /\ ServerAt("reply")
  /\ server' = "loop"
  /\ UNCHANGED <<inputs, got, client, sent, up, down, main>>

\* latency: the same message goes back.
ServerReply ==
  /\ ServerAt("reply")
  /\ Len(down) < Cap
  /\ down' = Append(down, arg.server.msgsize)
  /\ server' = "loop"
  /\ UNCHANGED <<inputs, got, client, sent, up, main>>

\* After the loop; throughput sends an empty message.
ServerComplete ==
  /\ ServerAt("loop")
  /\ got = arg.server.count
  /\ IF test = "throughput" THEN Len(down) < Cap /\ down' = Append(down, 0)
                            ELSE UNCHANGED down
  /\ server' = "drain"
  /\ UNCHANGED <<inputs, got, client, sent, up, main>>

\* What a socket that closes leaves of its queue
Left(q) == IF timely THEN {q} ELSE {q, <<>>}

\* "100ms ought to be enough"; then the socket is closed.
ServerClose ==
  /\ ServerAt("drain")
  /\ server' = "closed"
  /\ down' \in Left(down)
  /\ UNCHANGED <<inputs, got, client, sent, up, main>>

ServerThrows ==
  /\ server \notin Ended
  /\ ~Gone
  /\ server' = "failed"
  /\ down' \in {down, <<>>}
  /\ UNCHANGED <<inputs, got, client, sent, up, main>>

-----------------------------------------------------------------------------
(* latency_client and throughput_client                                    *)

ClientAt(pc) == client = pc /\ ~Gone

Listening == server \notin Ended \cup {"start"}

\* inproc: after "Sleep a bit"
Dial ==
  /\ ClientAt("start")
  /\ deploy = "inproc" /\ timely => server # "start"
  /\ client' = IF ~Listening THEN "failed"
               ELSE IF test = "throughput" THEN "sync" ELSE "loop"
  /\ UNCHANGED <<inputs, server, got, sent, up, down, main>>

\* "We send one extra zero length message to start the timer."
ClientSync ==
  /\ ClientAt("sync")
  /\ Len(up) < Cap
  /\ up' = Append(up, 0)
  /\ client' = "loop"
  /\ UNCHANGED <<inputs, server, got, sent, down, main>>

ClientSend ==
  /\ ClientAt("loop")
  /\ sent < arg.client.count
  /\ Len(up) < Cap
  /\ up' = Append(up, arg.client.msgsize)
  /\ sent' = sent + 1
  /\ client' = IF test = "latency" THEN "reply" ELSE "loop"
  /\ UNCHANGED <<inputs, server, got, down, main>>

\* latency: msg = recv_msg() before the next trip
ClientRecv ==
  /\ ClientAt("reply")
  /\ down # <<>>
  /\ down' = Tail(down)
  /\ client' = "loop"
  /\ UNCHANGED <<inputs, server, got, sent, up, main>>

\* The loop is over: latency closes, throughput waits for the completion.
ClientLoopEnds ==
  /\ ClientAt("loop")
  /\ sent = arg.client.count
  /\ client' = IF test = "latency" THEN "closed" ELSE "completion"
  /\ UNCHANGED <<inputs, server, got, sent, up, down, main>>

ClientCompletion ==
  /\ ClientAt("completion")
  /\ down # <<>>
  /\ down' = Tail(down)
  /\ client' = "closed"
  /\ up' \in Left(up)
  /\ UNCHANGED <<inputs, server, got, sent, main>>

\* Mutation of ClientTimeout: the timeout is not set.
ClientNoTimeout == FALSE /\ UNCHANGED vars

\* The receive timeout of five seconds, which throughput_client sets: timely
\* servers that still have messages do not let it pass.
ClientTimeout ==
  /\ ClientAt("completion")
  /\ down = <<>>
  /\ \/ ~timely
     \/ server \in Ended
     \/ up = <<>> /\ server \in {"sync", "loop"} /\ got < arg.server.count
  /\ client' = "failed"
  /\ up' \in {up, <<>>}
  /\ UNCHANGED <<inputs, server, got, sent, down, main>>

ClientThrows ==
  /\ client \notin Ended
  /\ ~Gone
  /\ client' = "failed"
  /\ up' \in {up, <<>>}
  /\ UNCHANGED <<inputs, server, got, sent, down, main>>

-----------------------------------------------------------------------------
(* main of inproc_lat and inproc_thr                                       *)

\* After the client, or on the way of its exception, ~thread joins the server;
\* then main's frame, with the arguments of the thread, is gone.
Return ==
  /\ deploy = "inproc"
  /\ main = "run"
  /\ client \in Ended
  /\ server = "closed"
  /\ main' = "returned"
  /\ UNCHANGED <<inputs, server, got, client, sent, up, down>>

-----------------------------------------------------------------------------
Arguments == [msgsize : Sizes, count : 0 .. MaxCount]

\* inproc gives both the same arguments, by inproc_args and by parameters.
Init ==
  /\ test \in {"latency", "throughput"}
  /\ deploy \in {"inproc", "processes"}
  /\ timely \in BOOLEAN
  /\ arg \in [server : Arguments, client : Arguments]
  /\ deploy = "inproc" => arg.server = arg.client
  /\ server = "start"
  /\ got = 0
  /\ client = "start"
  /\ sent = 0
  /\ up = <<>>
  /\ down = <<>>
  /\ main = "run"

ServerStep ==
  \/ Listen \/ ServerSync \/ ServerRecv \/ ServerReply \/ ServerComplete
  \/ ServerClose
ClientStep ==
  \/ Dial \/ ClientSync \/ ClientSend \/ ClientRecv \/ ClientLoopEnds
  \/ ClientCompletion \/ ClientTimeout

Next == ServerStep \/ ServerThrows \/ ClientStep \/ ClientThrows \/ Return

\* The programs run on; that a call throws is never assumed.
Fairness == WF_vars(ServerStep) /\ WF_vars(ClientStep) /\ WF_vars(Return)

Spec == Init /\ [][Next]_vars /\ Fairness

-----------------------------------------------------------------------------
(* Properties.                                                             *)

\* Every variable keeps its type, and the loops stay within their bounds.
TypeOK ==
  /\ arg \in [server : Arguments, client : Arguments]
  /\ server \in Ended \cup {"start", "sync", "loop", "reply", "drain"}
  /\ client \in Ended \cup {"start", "sync", "loop", "reply", "completion"}
  /\ got \in 0 .. arg.server.count
  /\ sent \in 0 .. arg.client.count
  /\ \A q \in {up, down} : q \in Seq(Sizes \cup {0}) /\ Len(q) <= Cap
  /\ main \in {"run", "returned"}

\* When the sleeps are long enough, a latency test has one message, which
\* client, server and queues pass on: each trip ends before the next begins.
OneMessage ==
  timely /\ test = "latency" /\ client \in {"loop", "reply"} /\ server \notin Ended =>
    (IF client = "loop" THEN 1 ELSE 0) + Len(up)
      + (IF server = "reply" THEN 1 ELSE 0) + Len(down) = 1

\* A server that has measured all messages measured those of the loop of the
\* client, the synchronization message not among them.
MeasuresTheLoop ==
  server \in {"drain", "closed"} => got = arg.server.count /\ got <= sent

\* Both programs have ended, or a call threw.
BothEnded ==
  \/ client = "closed" /\ server = "closed"
       /\ (deploy = "inproc" => main = "returned")
  \/ "failed" \in {client, server}

\* Somebody waits for a message that nobody is left to send: the server thread
\* for a client that threw (it dialed before the server listened, or a call
\* failed), and ~thread for the server; or the latency client, which sets no
\* timeout, for a last reply that the closing socket lost.
Stranded ==
  \/ client \in Ended /\ server \in {"sync", "loop"} /\ up = <<>>
  \/ client = "reply" /\ server = "closed" /\ down = <<>>

\* In the end an inproc program has ended, or it hangs in one of these two ways
\* and in no other, however short its sleeps are.
EndsOrStranded == deploy = "inproc" => Gone \/ Stranded

\* Throughput's client always ends, whatever its server does and however long
\* the sleeps are: once all messages are sent it waits no longer than the
\* timeout for the completion.
CompletionWaitEnds == client = "completion" ~> client \in Ended \/ Gone
=============================================================================
