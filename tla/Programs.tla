------------------------------ MODULE Programs ------------------------------
(***************************************************************************)
(* The programs of demo/ and perf/ that one machine may run: the user      *)
(* starts one of them, with its peer; the others stay where they are.      *)
(***************************************************************************)
EXTENDS BigEndian

CONSTANTS
  Clients, OddBodies, Start, MaxTicks, MaxCopies,  \* of ReqRep
  MsgSizes, MaxCount, Cap,                         \* of Perf
  BodySizes, Limit,                                \* of RestMain
  Headers, Text, IntMax, MaxBody,                  \* of HttpClient
  Null

VARIABLES
  running,  \* the program, with its peer
  now, rep_server, buf, arrived, route, req_client, body, copies, reply, asked,
  date,
  test, deploy, timely, arg, server, got, client, sent, up, down, perf_main,
  want, main, threw, inproc, req_sock, refs, started, handler, method, collect,
  handled, fault, exited,
  served, pc, locals, op, result, conn, len, filled, printed, failed, code

\* The variables of ReqRep, Perf, RestMain and HttpClient
reqrep == <<now, rep_server, buf, arrived, route, req_client, body, copies, reply,
            asked, date>>
perf == <<test, deploy, timely, arg, server, got, client, sent, up, down, perf_main>>
rest == <<want, main, threw, inproc, req_sock, refs, started, handler, method,
          collect, handled, fault, exited>>
http_client == <<served, pc, locals, op, result, conn, len, filled, printed, failed,
                 code>>
vars == <<running, reqrep, perf, rest, http_client>>

Q == INSTANCE ReqRep WITH server <- rep_server, client <- req_client
P == INSTANCE Perf WITH Sizes <- MsgSizes, main <- perf_main
R == INSTANCE RestMain WITH Sizes <- BodySizes
H == INSTANCE HttpClient

ASSUME ReqRepAssumption == Q!Assumption
ASSUME PerfAssumption == P!Assumption
ASSUME RestMainAssumption == R!Assumption
ASSUME HttpClientAssumption == H!Assumption

Init ==
  /\ running \in {"reqrep", "perf", "rest", "http_client"}
  /\ Q!Init
  /\ P!Init
  /\ running # "perf" =>
       /\ test = "latency" /\ deploy = "inproc" /\ timely
       /\ arg.server = [msgsize |-> 0, count |-> 1]
  /\ R!Init
  /\ running # "rest" => want = "post"
  /\ H!Init
  /\ running # "http_client" => served = [header |-> 0, body |-> 0]

Next ==
  /\ \/ running = "reqrep" /\ Q!Next /\ UNCHANGED <<perf, rest, http_client>>
     \/ running = "perf" /\ P!Next /\ UNCHANGED <<reqrep, rest, http_client>>
     \/ running = "rest" /\ R!Next /\ UNCHANGED <<reqrep, perf, http_client>>
     \/ running = "http_client" /\ H!Next /\ UNCHANGED <<reqrep, perf, rest>>
  /\ UNCHANGED running

\* The fairness of each module, for the program that runs
Fairness ==
  /\ WF_reqrep(running = "reqrep" /\ Q!Listen)
  /\ WF_reqrep(running = "reqrep" /\ (Q!Answer \/ Q!Ignore))
  /\ \A c \in Clients :
       /\ WF_reqrep(running = "reqrep" /\ Q!Resend(c))
       /\ WF_reqrep(running = "reqrep" /\ Q!Receive(c))
       /\ SF_reqrep(running = "reqrep" /\ Q!Arrive(c))
       /\ SF_reqrep(running = "reqrep" /\ Q!Recv(c))
  /\ WF_perf(running = "perf" /\ P!ServerStep)
  /\ WF_perf(running = "perf" /\ P!ClientStep)
  /\ WF_perf(running = "perf" /\ P!Return)
  /\ WF_rest(running = "rest" /\ R!Main)
  /\ WF_rest(running = "rest" /\ R!Inproc)
  /\ WF_rest(running = "rest" /\ R!Connected)
  /\ WF_http_client(running = "http_client" /\ (H!Main \/ H!Throws))
  /\ WF_http_client(running = "http_client" /\ H!Complete)

Spec == Init /\ [][Next]_vars /\ Fairness

-----------------------------------------------------------------------------
(* Properties.                                                             *)

\* Every variable keeps its type, with what the modules say of them.
TypeOK == Q!TypeOK /\ P!TypeOK /\ R!TypeOK /\ H!TypeOK

\* reqrep: the server answers date requests and nothing else, and the date that
\* a client shows is of after its request, however often that was sent.
FreshDatesOnRequest == Q!OnlyDateRequestsAnswered /\ Q!DateIsFresh

\* reqrep: whoever asks for the date gets it, unless one of the two ends before.
EveryDateRequestAnswered == Q!EveryDateRequestAnswered

\* perf: a latency test passes one message to and fro; a throughput server
\* measures the messages of the client's loop, neither more nor fewer.
MessagesInStep == P!OneMessage /\ P!MeasuresTheLoop

\* Nobody waits for a message that is not sent.  With the same arguments on
\* both sides and sleeps that are long enough, both programs of a measurement
\* end, unless a call throws; the throughput client does not wait for a
\* completion that was lost; an inproc program hangs only when its client is
\* gone before the last message, or the last reply is lost; the HTTP client
\* ends, whatever the server answers.
ProgramsEnd ==
  /\ (running = "perf" /\ timely /\ arg.server = arg.client) ~> P!BothEnded
  /\ P!CompletionWaitEnds
  /\ <>[](running = "perf" => P!EndsOrStranded)
  /\ <>(running = "http_client" => H!Finished)

\* REST demo: rest_start does not depend on which thread is first; when it
\* fails, it leaves neither server nor handler; and a request that enters
\* rest_handle is of the kind that it asked for.
StartIsSafe ==
  R!StartsInAnyOrder /\ R!FailedStartCleansUp /\ R!HandlesAsConfigured

\* REST demo: the server gets ready, unless a call of the library fails, and
\* once started accepts requests until the process exits.
ServesUntilExit == R!ServesUntilExit /\ <>(running = "rest" => R!Ready)

\* HTTP client: an operation does not outlive the objects that it uses.
ObjectsOutliveOperations == H!ObjectsOutliveOperations

\* HTTP client: it prints what it received and nothing else, and returns 0
\* only when it printed as much as atoi read, be that nothing.
PrintsWhatCame == H!PrintsWhatCame /\ H!ZeroMeansDone
=============================================================================
