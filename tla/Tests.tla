------------------------------- MODULE Tests -------------------------------
(***************************************************************************)
(* The test cases of test/ that have threads or callbacks. They belong to  *)
(* one executable, which is asked to run one of them; the others stay      *)
(* where they are.                                                         *)
(***************************************************************************)
EXTENDS Naturals, Sequences

CONSTANTS
  Workers, MainThread,  \* of Synch
  MaxConns,             \* of PipeNotify
  NClients,             \* of Scalability
  Size,                 \* of StreamPair
  Null

VARIABLES
  running,  \* the test case
  synch_test, workers, synch_pc, owner, waiting, returned, did, alive,
  synch_failed, synch_misused,
  test, pc, assigned, members, n, p, started, conns, pipe, closed, reaper,
  misread, misused,
  rep, open, server, handle, msg, queue, main, next, answered, failed, broken,
  program, stream_pc, locals, op, result, count, streams, stream_failed

\* The variables of Synch, PipeNotify, Scalability and StreamPair
synch == <<synch_test, workers, synch_pc, owner, waiting, returned, did, alive,
           synch_failed, synch_misused>>
pipes == <<test, pc, assigned, members, n, p, started, conns, pipe, closed, reaper,
           misread, misused>>
scalability == <<rep, open, server, handle, msg, queue, main, next, answered,
                 failed, broken>>
stream_pair == <<program, stream_pc, locals, op, result, count, streams,
                 stream_failed>>
vars == <<running, synch, pipes, scalability, stream_pair>>

S == INSTANCE Synch WITH
       test <- synch_test, pc <- synch_pc, failed <- synch_failed,
       misused <- synch_misused
N == INSTANCE PipeNotify
C == INSTANCE Scalability
P == INSTANCE StreamPair WITH pc <- stream_pc, failed <- stream_failed

ASSUME SynchAssumption == S!Assumption
ASSUME PipeNotifyAssumption == N!Assumption
ASSUME ScalabilityAssumption == C!Assumption
ASSUME StreamPairAssumption == P!Assumption

Init ==
  /\ running \in {"synch", "pipes", "scalability", "stream_pair"}
  /\ S!Init
  /\ running # "synch" =>
       synch_test = "blocks" /\ workers = {CHOOSE w \in Workers : TRUE}
  /\ N!Init
  /\ running # "pipes" => test = "dialing"
  /\ C!Init
  /\ P!Init
  /\ running # "stream_pair" => program = "tcp"

Next ==
  /\ \/ running = "synch" /\ S!Next /\ UNCHANGED <<pipes, scalability, stream_pair>>
     \/ running = "pipes" /\ N!Next /\ UNCHANGED <<synch, scalability, stream_pair>>
     \/ running = "scalability" /\ C!Next /\ UNCHANGED <<synch, pipes, stream_pair>>
     \/ running = "stream_pair" /\ P!Next /\ UNCHANGED <<synch, pipes, scalability>>
  /\ UNCHANGED running

\* The fairness of each module, for the test case that runs
Fairness ==
  /\ \A t \in Workers \cup {MainThread} : SF_synch(running = "synch" /\ S!Step(t))
  /\ WF_pipes(running = "pipes" /\ N!Main)
  /\ WF_pipes(running = "pipes" /\ N!Reap)
  /\ WF_pipes(running = "pipes" /\ N!Connect)
  /\ \A s \in N!Sides, i \in N!Conns : WF_pipes(running = "pipes" /\ N!Pipe(s, i))
  /\ WF_scalability(running = "scalability" /\ C!Thread)
  /\ WF_scalability(running = "scalability" /\ C!Main)
  /\ WF_scalability(running = "scalability" /\ C!TimesOut)
  /\ WF_scalability(running = "scalability" /\ C!Fails /\ ~C!Works)
  /\ WF_stream_pair(running = "stream_pair" /\ P!Main)
  /\ \A a \in P!Aios :
       WF_stream_pair(running = "stream_pair" /\ (P!Ready(a) \/ P!Broken(a))
                        /\ (P!Succeed(a) \/ P!Fail(a)))

Spec == Init /\ [][Next]_vars /\ Fairness

-----------------------------------------------------------------------------
(* Properties.                                                             *)

\* Every variable keeps its type, with what the modules say of them.
TypeOK == S!TypeOK /\ N!TypeOK /\ C!TypeOK /\ P!TypeOK

\* What the tests claim holds in every schedule: the REQUIREs of synch.cpp, but
\* for the one of "Timeout works" (synch.cpp:81); the callbacks of pipe.cpp
\* meet only pipes of dialers and listeners that the testcase knows; the server
\* of scalability.cpp leaves no client that waits; a stream test that passes has
\* moved every byte and leaves no stream.
ClaimsHold ==
  /\ S!RequiresHold
  /\ N!NoErrors
  /\ C!ServesUntilStopped
  /\ P!PassMeansTransferred

\* What is used exists: the mutex and the condition variable of synch.cpp, while
\* its threads run; those of pipe.cpp, while callbacks run, also when an
\* expect fails and main unwinds with a connection half made; the objects of an
\* operation on a stream, until it completes; the stream that an object made of
\* the output of an aio owns.
UsedObjectsExist ==
  /\ S!NoMisuse
  /\ N!NoMisuse
  /\ P!ObjectsOutliveOperations
  /\ P!OwnedStreamsExist

\* synch.cpp: no wake-up is lost and nobody joins a thread that waits for its
\* mutex.
NoLostWakeup == <>(running = "synch" => S!Finished)

\* pipe.cpp: the pipe of the last event is the one that carries the messages.
LastPipeIsInUse == N!LastPipeIsInUse

\* scalability.cpp: whatever the server's thread does when its socket is taken
\* away, it ends.
StopEndsThread == C!StopEndsThread

\* The other tests end: the events that pipe.cpp waits for come, in exactly this
\* number; scalability.cpp ends unless a REQUIRE fails, for then nobody calls
\* stop; the stream tests do, except that ipcsupp.cpp waits forever for an accept
\* when its dial failed.
TestsEnd ==
  /\ <>(running = "pipes" => N!Finished)
  /\ <>(running = "scalability" => C!Finished)
  /\ <>(running = "stream_pair" => P!Finished)
=============================================================================
