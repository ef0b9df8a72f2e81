---------------------------- MODULE TestsProofs ----------------------------
(***************************************************************************)
(* Theorems about the test cases with threads and callbacks, for any       *)
(* number of workers, clients, connections and bytes.                      *)
(***************************************************************************)
EXTENDS Tests, FiniteSetTheorems, SequenceTheorems, TLAPS

-----------------------------------------------------------------------------
(* test/scalability.cpp: the thread, its socket and the clients.           *)

\* The socket is there until stop takes it away, and a handle 0 that the thread
\* has read says that this has happened.
SocketUntilStop ==
  /\ main \in {"open_clients", "send", "recv", "stop"} => open /\ rep = 1
  /\ rep = 0 \/ main = "store" => ~open
  /\ C!Calling /\ handle = 0 => ~open

\* main has the replies of the clients that it has passed.
RepliesSoFar ==
  /\ main \in {"send", "recv"} => 1 .. next - 1 \subseteq answered
  /\ main = "stop" => answered = C!clients
  /\ ~open /\ ~broken => answered = C!clients

\* A reply is to a request.
RequestInHand == server \in {"loaded", "sending"} => msg \in C!clients

ScalInv ==
  /\ C!TypeOK /\ SocketUntilStop /\ RepliesSoFar /\ RequestInHand
  /\ C!ServesUntilStopped

-----------------------------------------------------------------------------
LEMMA ScalInit == C!Init => ScalInv
<1> SUFFICES ASSUME C!Init PROVE ScalInv
  OBVIOUS
<1>1. NClients \in Nat /\ NClients > 0 /\ 1 \in C!clients
  BY ScalabilityAssumption DEF C!Assumption, C!clients
<1>2. C!TypeOK
  BY <1>1, EmptySeq DEF C!Init, C!TypeOK
<1> QED BY <1>2 DEF C!Init, ScalInv, SocketUntilStop, RepliesSoFar, RequestInHand,
              C!ServesUntilStopped, C!Calling

\* A step of the thread
LEMMA ScalThread ==
  ASSUME ScalInv, C!Thread \/ C!ListenThrows \/ C!Fails
  PROVE  ScalInv'
<1> USE DEF ScalInv, C!test, C!thread
<1>1. CASE C!listen \/ C!ListenThrows
  <2>1. C!TypeOK'
    BY <1>1 DEF C!listen, C!ListenThrows, C!TypeOK, C!clients
  <2> QED BY <1>1, <2>1 DEF C!listen, C!ListenThrows, C!TypeOK, SocketUntilStop,
        RepliesSoFar, RequestInHand, C!ServesUntilStopped, C!Calling, C!clients
<1>2. CASE C!CallRecv \/ C!CallSend
  <2>1. C!TypeOK'
    BY <1>2 DEF C!CallRecv, C!CallSend, C!Call, C!TypeOK, C!clients
  <2> QED BY <1>2, <2>1 DEF C!CallRecv, C!CallSend, C!Call, C!TypeOK,
        SocketUntilStop, RepliesSoFar, RequestInHand, C!ServesUntilStopped, C!Calling,
        C!clients
<1>3. CASE C!Received
  <2>1. Head(queue) \in C!clients /\ Tail(queue) \in Seq(C!clients)
    BY <1>3, HeadTailProperties DEF C!Received, C!TypeOK
  <2>2. C!TypeOK'
    BY <1>3, <2>1 DEF C!Received, C!TypeOK, C!clients
  <2> QED BY <1>3, <2>1, <2>2 DEF C!Received, C!TypeOK, SocketUntilStop,
        RepliesSoFar, RequestInHand, C!ServesUntilStopped, C!Calling, C!clients
<1>4. CASE C!Sent
  <2>1. msg \in C!clients
    BY <1>4 DEF C!Sent, RequestInHand
  <2>2. C!TypeOK'
    BY <1>4, <2>1 DEF C!Sent, C!TypeOK, C!clients
  <2> QED BY <1>4, <2>1, <2>2 DEF C!Sent, C!TypeOK, SocketUntilStop,
        RepliesSoFar, RequestInHand, C!ServesUntilStopped, C!Calling, C!clients
<1>5. CASE C!Fails
  <2>1. C!TypeOK'
    BY <1>5 DEF C!Fails, C!TypeOK, C!clients, C!Works
  <2>2. broken' \/ (~open /\ answered = C!clients)
    BY <1>5 DEF C!Fails, C!Works, C!TypeOK, SocketUntilStop, RepliesSoFar
  <2> QED BY <1>5, <2>1, <2>2 DEF C!Fails, C!TypeOK, SocketUntilStop,
        RepliesSoFar, RequestInHand, C!ServesUntilStopped, C!Calling, C!clients
<1> QED BY <1>1, <1>2, <1>3, <1>4, <1>5 DEF C!Thread

\* A step of main that passes a client
LEMMA ScalClients ==
  ASSUME ScalInv, C!dial \/ C!send \/ C!recv \/ C!DialThrows \/ C!TimesOut
  PROVE  ScalInv'
<1> USE DEF ScalInv, C!test, C!thread
<1>1. NClients \in Nat /\ NClients > 0 /\ next \in 1 .. NClients
      /\ C!clients = 1 .. NClients
  BY ScalabilityAssumption DEF C!Assumption, C!clients, C!TypeOK
<1>2. CASE C!dial
  <2>1. C!TypeOK'
    BY <1>1, <1>2 DEF C!dial, C!At, C!Advance, C!TypeOK
  <2>2. main = "open_clients"
        /\ (main' = "open_clients" \/ (main' = "send" /\ next' = 1))
    BY <1>2 DEF C!dial, C!At, C!Advance
  <2>3. 1 .. 1 - 1 = {}
    OBVIOUS
  <2>4. UNCHANGED <<rep, open, server, handle, msg, queue, answered, broken>>
    BY <1>2 DEF C!dial
  <2>5. RepliesSoFar'
    BY <2>2, <2>3, <2>4, <1>1 DEF RepliesSoFar, C!clients
  <2> QED BY <2>1, <2>2, <2>4, <2>5 DEF SocketUntilStop, RequestInHand,
        C!ServesUntilStopped, C!Calling, C!clients
<1>3. CASE C!send
  <2>1. Append(queue, next) \in Seq(C!clients)
    BY <1>1, AppendProperties DEF C!TypeOK
  <2>2. C!TypeOK'
    BY <1>1, <1>3, <2>1 DEF C!send, C!At, C!TypeOK
  <2> QED BY <1>1, <1>3, <2>2 DEF C!send, C!At, C!TypeOK,
        SocketUntilStop, RepliesSoFar, RequestInHand, C!ServesUntilStopped, C!Calling
<1>4. CASE C!recv
  <2>1. C!TypeOK'
    BY <1>1, <1>4 DEF C!recv, C!At, C!TypeOK
  <2>2. 1 .. next \subseteq answered
    BY <1>1, <1>4 DEF C!recv, C!At, RepliesSoFar
  <2>3. main' = "stop" => answered' = C!clients
    <3>1. main' = "stop" => ~(next < NClients) /\ answered' = answered
      BY <1>4 DEF C!recv
    <3>2. ~(next < NClients) => next = NClients
      BY <1>1
    <3> QED BY <1>1, <2>2, <3>1, <3>2 DEF C!TypeOK
  <2>4. main' = "send" => 1 .. next' - 1 \subseteq answered'
    BY <1>1, <1>4, <2>2 DEF C!recv
  <2>5. main' \in {"send", "stop"}
    BY <1>4 DEF C!recv
  <2> QED BY <1>1, <1>4, <2>1, <2>3, <2>4, <2>5 DEF C!recv, C!At, C!TypeOK,
        SocketUntilStop, RepliesSoFar, RequestInHand, C!ServesUntilStopped, C!Calling
<1>5. CASE C!DialThrows \/ C!TimesOut
  <2>1. C!TypeOK'
    BY <1>1, <1>5 DEF C!DialThrows, C!TimesOut, C!Require, C!At, C!TypeOK
  <2> QED BY <1>1, <1>5, <2>1 DEF C!DialThrows, C!TimesOut, C!Require, C!At, C!TypeOK,
        SocketUntilStop, RepliesSoFar, RequestInHand, C!ServesUntilStopped, C!Calling
<1> QED BY <1>2, <1>3, <1>4, <1>5

\* stop and what follows it
LEMMA ScalEnd ==
  ASSUME ScalInv,
         C!close \/ C!store \/ C!destroy_clients \/ C!join \/ C!destroy
  PROVE  ScalInv'
<1> USE DEF ScalInv, C!test, C!thread
<1>1. CASE C!close \/ C!store
  <2>1. C!TypeOK'
    BY <1>1 DEF C!close, C!store, C!At, C!TypeOK, C!clients
  <2>2. C!store => ~open
    <3> SUFFICES ASSUME C!store PROVE ~open
      OBVIOUS
    <3> QED BY DEF C!store, C!At, SocketUntilStop
  <2> QED BY <1>1, <2>1, <2>2 DEF C!close, C!store, C!At, C!TypeOK, SocketUntilStop,
        RepliesSoFar, RequestInHand, C!ServesUntilStopped, C!Calling, C!clients
<1>2. CASE C!destroy_clients \/ C!join
  <2>1. C!TypeOK'
    BY <1>2, EmptySeq DEF C!destroy_clients, C!join, C!At, C!TypeOK, C!clients
  <2> QED BY <1>2, <2>1 DEF C!destroy_clients, C!join, C!At, C!TypeOK, SocketUntilStop,
        RepliesSoFar, RequestInHand, C!ServesUntilStopped, C!Calling, C!clients
<1>3. CASE C!destroy
  <2>1. C!TypeOK'
    BY <1>3 DEF C!destroy, C!At, C!TypeOK, C!clients
  <2>2. server = "ended" /\ (open' => rep = 0 /\ open)
    BY <1>3 DEF C!destroy, C!At, C!TypeOK
  <2> QED BY <1>3, <2>1, <2>2 DEF C!destroy, C!At, C!TypeOK, SocketUntilStop,
        RepliesSoFar, RequestInHand, C!ServesUntilStopped, C!Calling, C!clients
<1> QED BY <1>1, <1>2, <1>3

LEMMA ScalNext == ScalInv /\ [C!Next]_(C!vars) => ScalInv'
<1> SUFFICES ASSUME ScalInv, [C!Next]_(C!vars) PROVE ScalInv'
  OBVIOUS
<1>1. CASE UNCHANGED C!vars
  <2>1. UNCHANGED <<rep, open, server, handle, msg, queue, main, next, answered, failed,
                    broken>>
    BY <1>1 DEF C!vars, C!thread, C!test
  <2> QED BY <2>1 DEF ScalInv, C!TypeOK, SocketUntilStop, RepliesSoFar, RequestInHand,
        C!ServesUntilStopped, C!Calling, C!clients
<1> QED BY <1>1, ScalThread, ScalClients, ScalEnd DEF C!Next, C!Main, C!Error, C!Thread

-----------------------------------------------------------------------------
(* test/synch.cpp: who holds the mutex, who waits, and who has notified.   *)

\* For each test case: where main is between lock and unlock, where it waits,
\* and the calls that start the threads, join them and destroy what is shared
Holding == [blocks |-> {2, 3, 4, 6, 7, 8}, notification |-> {3, 4},
            timeout |-> {3, 4, 5}, expect |-> {3, 4}]
Waits == [blocks |-> 6, notification |-> 3, timeout |-> 3, expect |-> 3]
Creates == [blocks |-> 2, notification |-> 1, timeout |-> 1, expect |-> 1]
Joins == [blocks |-> 9, notification |-> 5, timeout |-> 6, expect |-> 5]
Destroys == [blocks |-> 10, notification |-> 7, timeout |-> 7, expect |-> 6]

\* Where main is
mpc == synch_pc[MainThread]

SynchTypes ==
  /\ synch_test \in {"blocks", "notification", "timeout", "expect"}
  /\ workers \subseteq Workers
  /\ synch_pc \in [S!Threads -> Nat]
  /\ mpc \in 1 .. Destroys[synch_test] + 1
  /\ \A w \in Workers : synch_pc[w] \in 0 .. 5
  /\ owner \in S!Threads \cup {Null}
  /\ waiting \subseteq {MainThread}
  /\ returned \in {"woken", "timedout", Null}
  /\ alive \in BOOLEAN

\* A worker holds the mutex between lock and unlock.
WorkersLock == \A w \in Workers : owner = w <=> synch_pc[w] \in 2 .. 4

\* So does main, except that a wait gives it up: main waits, or has waited and
\* wants the mutex again. The wait of the first test case has no deadline.
MainLocks ==
  /\ owner = MainThread => mpc \in Holding[synch_test]
  /\ mpc \in Holding[synch_test] \ {Waits[synch_test]} => owner = MainThread
  /\ mpc # Waits[synch_test] => waiting = {} /\ returned = Null
  /\ MainThread \in waiting => returned = Null /\ owner # MainThread
  /\ mpc = Waits[synch_test] /\ waiting = {} /\ returned = Null =>
       owner = MainThread
  /\ synch_test = "blocks" => returned # "timedout"

\* The threads run between their creation and their join.
WorkersRun ==
  /\ \A w \in Workers \ workers : synch_pc[w] = 0
  /\ \A w \in workers :
       /\ mpc <= Creates[synch_test] <=> synch_pc[w] = 0
       /\ mpc > Joins[synch_test] => synch_pc[w] = 5

\* did counts the workers that have notified. In the first test case nobody has
\* while main holds the mutex for the first time, and all have after its wait.
Notifiers == {w \in workers : synch_pc[w] > 2}
CountsNotifiers ==
  /\ did = Cardinality(Notifiers)
  /\ synch_test = "blocks" /\ mpc <= 4 => \A w \in workers : synch_pc[w] <= 1
  /\ synch_test = "blocks" /\ mpc > 6 => Notifiers = workers

\* What is shared exists until the last call.
SharedAlive == alive <=> mpc <= Destroys[synch_test]

SynchInv ==
  /\ SynchTypes /\ WorkersLock /\ MainLocks /\ WorkersRun /\ CountsNotifiers
  /\ SharedAlive
  /\ S!RequiresHold /\ S!NoMisuse

-----------------------------------------------------------------------------
\* Where the calls are in main, and that main does not wait when it calls
LEMMA MainCall ==
  ASSUME SynchTypes, NEW c, S!At(MainThread, c)
  PROVE  /\ waiting = {} /\ mpc \in 1 .. Destroys[synch_test]
         /\ c = "lock" => IF synch_test = "blocks" THEN mpc \in {1, 5} ELSE mpc = 2
         /\ c = "unlock" => \/ synch_test = "blocks" /\ mpc \in {4, 8}
                            \/ synch_test = "timeout" /\ mpc = 5
                            \/ synch_test \notin {"blocks", "timeout"} /\ mpc = 4
         /\ c = "create" => mpc = Creates[synch_test]
         /\ c \in S!wait_calls => mpc = Waits[synch_test]
         /\ c = "require_none" => \/ synch_test = "blocks" /\ mpc = 3
                                  \/ synch_test = "timeout" /\ mpc = 4
         /\ c = "require_all" => \/ synch_test = "blocks" /\ mpc = 7
                                 \/ synch_test = "notification" /\ mpc = 6
         /\ c = "join" => mpc = Joins[synch_test]
         /\ c = "destroy" => mpc = Destroys[synch_test]
         /\ c \notin {"notify", "wake_all"}
         /\ c \in S!loop_calls => synch_test \in {"blocks", "expect"}
<1>1. waiting = {} /\ mpc \in DOMAIN S!Program(MainThread)
      /\ S!Program(MainThread)[mpc] = c
  BY DEF S!At, SynchTypes, mpc
<1>2. CASE synch_test = "blocks"
  <2>1. S!Program(MainThread) = S!blocks
    BY <1>2 DEF S!Program
  <2> QED BY <1>1, <1>2, <2>1 DEF S!blocks, S!wait_calls, S!loop_calls, Creates,
        Waits, Joins, Destroys
<1>3. CASE synch_test = "notification"
  <2>1. S!Program(MainThread) = S!notification
    BY <1>3 DEF S!Program
  <2> QED BY <1>1, <1>3, <2>1 DEF S!notification, S!wait_calls, S!loop_calls, Creates,
        Waits, Joins, Destroys
<1>4. CASE synch_test = "timeout"
  <2>1. S!Program(MainThread) = S!timeout
    BY <1>4 DEF S!Program
  <2> QED BY <1>1, <1>4, <2>1 DEF S!timeout, S!wait_calls, S!loop_calls, Creates,
        Waits, Joins, Destroys
<1>5. CASE synch_test = "expect"
  <2>1. S!Program(MainThread) = S!expect
    BY <1>5 DEF S!Program
  <2> QED BY <1>1, <1>5, <2>1 DEF S!expect, S!wait_calls, S!loop_calls, Creates,
        Waits, Joins, Destroys
<1> QED BY <1>2, <1>3, <1>4, <1>5 DEF SynchTypes

\* Where the calls of notifyafter are
LEMMA WorkerCall ==
  ASSUME NEW w \in Workers, NEW c, S!At(w, c)
  PROVE  \/ c = "lock" /\ synch_pc[w] = 1
         \/ c = "notify" /\ synch_pc[w] = 2
         \/ c = "wake_all" /\ synch_pc[w] = 3
         \/ c = "unlock" /\ synch_pc[w] = 4
<1>1. S!Program(w) = S!notifyafter
  BY SynchAssumption DEF S!Assumption, S!Program
<1> QED BY <1>1 DEF S!At, S!notifyafter

\* A worker has ended at its fifth position.
LEMMA WorkerEnded ==
  ASSUME NEW w \in Workers, synch_pc[w] \in 0 .. 5
  PROVE  S!Ended(w) <=> synch_pc[w] = 5
<1>1. S!Program(w) = S!notifyafter
  BY SynchAssumption DEF S!Assumption, S!Program
<1> QED BY <1>1 DEF S!Ended, S!notifyafter

\* Finite sets in Synch are those of FiniteSets.
LEMMA SameSets ==
  ASSUME NEW Z
  PROVE  /\ S!IsFiniteSet(Z) <=> IsFiniteSet(Z)
         /\ S!Cardinality(Z) = Cardinality(Z)
<1>1. S!IsFiniteSet(Z) <=> IsFiniteSet(Z)
  BY DEF S!IsFiniteSet, IsFiniteSet
<1>2. S!Cardinality(Z) = Cardinality(Z)
  BY DEF S!Cardinality, Cardinality
<1> QED BY <1>1, <1>2

\* Two sets of workers, one in the other and equally large
LEMMA AllNotified ==
  ASSUME SynchTypes, CountsNotifiers
  PROVE  /\ IsFiniteSet(workers) /\ IsFiniteSet(Notifiers)
         /\ did \in 0 .. Cardinality(workers)
         /\ S!Notified <=> Notifiers = workers
<1>1. IsFiniteSet(workers)
  <2>1. IsFiniteSet(Workers) /\ workers \in SUBSET Workers
    BY SynchAssumption, SameSets DEF S!Assumption, SynchTypes
  <2> QED BY <2>1, FS_Subset
<1>2. Notifiers \subseteq workers
  BY DEF Notifiers
<1>3. IsFiniteSet(Notifiers) /\ Cardinality(Notifiers) <= Cardinality(workers)
      /\ (Cardinality(Notifiers) = Cardinality(workers) => Notifiers = workers)
  BY <1>1, <1>2, FS_Subset
<1>4. Cardinality(Notifiers) \in Nat /\ Cardinality(workers) \in Nat
  BY <1>1, <1>3, FS_CardinalityType
<1>5. did = Cardinality(Notifiers)
  BY DEF CountsNotifiers
<1>6. S!Notified <=> Cardinality(Notifiers) = Cardinality(workers)
  BY <1>5, SameSets DEF S!Notified
<1>7. did \in 0 .. Cardinality(workers)
  BY <1>3, <1>4, <1>5
<1> QED BY <1>1, <1>3, <1>6, <1>7

\* Where a worker runs, main has started it and not joined it.
LEMMA WorkerRuns ==
  ASSUME SynchInv, NEW w \in Workers, synch_pc[w] \in 1 .. 4
  PROVE  /\ w \in workers /\ alive
         /\ mpc > Creates[synch_test] /\ mpc <= Joins[synch_test]
<1>1. w \in workers
  BY DEF SynchInv, WorkersRun
<1>2. mpc > Creates[synch_test] /\ mpc <= Joins[synch_test]
  BY <1>1 DEF SynchInv, SynchTypes, WorkersRun, Creates, Joins
<1> QED BY <1>1, <1>2 DEF SynchInv, SynchTypes, SharedAlive, Joins, Destroys

-----------------------------------------------------------------------------
\* Main is at Main's next step, and the workers are where they were.
MainMoves ==
  /\ synch_pc' \in [S!Threads -> Nat]
  /\ mpc' = mpc + 1
  /\ \A w \in Workers : synch_pc'[w] = synch_pc[w]

LEMMA MainReturns ==
  ASSUME SynchInv, S!Return(MainThread)
  PROVE  MainMoves
<1>1. MainThread \in S!Threads /\ MainThread \notin Workers /\ Workers \subseteq S!Threads
  BY SynchAssumption DEF S!Assumption, S!Threads
<1> QED BY <1>1 DEF SynchInv, SynchTypes, S!Return, S!Goto, MainMoves, mpc

\* What does not depend on main's position stays, and what does is to be shown.
LEMMA MainStep ==
  ASSUME SynchInv, MainMoves, mpc \in 1 .. Destroys[synch_test],
         UNCHANGED <<synch_test, workers, did>>,
         owner' \in {owner, MainThread, Null},
         owner' # owner => owner \in {MainThread, Null},
         waiting' \subseteq {MainThread}, returned' \in {"woken", "timedout", Null},
         alive' \in BOOLEAN,
         mpc # Creates[synch_test],
         mpc = Joins[synch_test] => \A w \in workers : synch_pc[w] = 5,
         synch_test = "blocks" /\ mpc = 4 => did' = did,
         synch_test = "blocks" /\ mpc = 6 => Notifiers = workers
  PROVE  /\ SynchTypes' /\ WorkersLock' /\ WorkersRun' /\ CountsNotifiers'
<1>1. MainThread \in S!Threads /\ MainThread \notin Workers /\ Null \notin S!Threads
  BY SynchAssumption DEF S!Assumption, S!Threads
<1>2. SynchTypes'
  BY <1>1 DEF SynchInv, SynchTypes, MainMoves, S!Threads, Destroys
<1>3. WorkersLock'
  BY <1>1 DEF SynchInv, WorkersLock, MainMoves, S!Threads
<1>4. WorkersRun'
  BY DEF SynchInv, SynchTypes, WorkersRun, MainMoves, Creates, Joins, Destroys
<1>5. Notifiers' = Notifiers
  BY DEF Notifiers, MainMoves, SynchInv, SynchTypes
<1>6. CountsNotifiers'
  BY <1>5 DEF SynchInv, SynchTypes, CountsNotifiers, MainMoves
<1> QED BY <1>2, <1>3, <1>4, <1>6

\* main locks and unlocks.
LEMMA MainLock ==
  ASSUME SynchInv, S!lock(MainThread) \/ S!unlock(MainThread)
  PROVE  SynchInv'
<1>1. MainThread \in S!Threads /\ Null # MainThread
      /\ Null \notin {"woken", "timedout"}
  BY SynchAssumption DEF S!Assumption, S!Threads
<1>2. MainMoves
  BY MainReturns DEF S!lock, S!unlock
<1>3. UNCHANGED <<synch_test, workers, waiting, returned, did, alive, synch_failed>>
  BY DEF S!lock, S!unlock
<1>4. CASE S!lock(MainThread)
  <2>1. waiting = {} /\ mpc \in 1 .. Destroys[synch_test]
        /\ IF synch_test = "blocks" THEN mpc \in {1, 5} ELSE mpc = 2
    BY <1>4, MainCall DEF S!lock, SynchInv
  <2>2. owner = Null /\ owner' = MainThread
    BY <1>4 DEF S!lock
  <2>3. SynchTypes' /\ WorkersLock' /\ WorkersRun' /\ CountsNotifiers'
    BY <1>1, <1>2, <1>3, <2>1, <2>2, MainStep
       DEF SynchInv, SynchTypes, Creates, Joins
  <2>4. MainLocks'
    BY <1>1, <1>2, <1>3, <2>1, <2>2
       DEF SynchInv, SynchTypes, MainLocks, MainMoves, Holding, Waits
  <2>5. SharedAlive' /\ alive
    BY <1>2, <1>3, <2>1 DEF SynchInv, SynchTypes, SharedAlive, MainMoves, Destroys
  <2>6. ~synch_misused'
    BY <1>4, <2>5 DEF S!lock, S!Use, SynchInv, S!NoMisuse
  <2> QED BY <1>3, <2>3, <2>4, <2>5, <2>6 DEF SynchInv, S!RequiresHold, S!NoMisuse
<1>5. CASE S!unlock(MainThread)
  <2>1. waiting = {} /\ mpc \in 1 .. Destroys[synch_test]
        /\ \/ synch_test = "blocks" /\ mpc \in {4, 8}
           \/ synch_test = "timeout" /\ mpc = 5
           \/ synch_test \notin {"blocks", "timeout"} /\ mpc = 4
    BY <1>5, MainCall DEF S!unlock, SynchInv
  <2>2. owner = MainThread /\ owner' = Null
    BY <1>5, <2>1 DEF S!unlock, SynchInv, SynchTypes, MainLocks, Holding, Waits
  <2>3. SynchTypes' /\ WorkersLock' /\ WorkersRun' /\ CountsNotifiers'
    BY <1>1, <1>2, <1>3, <2>1, <2>2, MainStep
       DEF SynchInv, SynchTypes, Creates, Joins
  <2>4. MainLocks'
    BY <1>1, <1>2, <1>3, <2>1, <2>2
       DEF SynchInv, SynchTypes, MainLocks, MainMoves, Holding, Waits
  <2>5. SharedAlive' /\ alive
    BY <1>2, <1>3, <2>1 DEF SynchInv, SynchTypes, SharedAlive, MainMoves, Destroys
  <2>6. ~synch_misused'
    BY <1>5, <2>2, <2>5 DEF S!unlock, S!Use, SynchInv, S!NoMisuse
  <2> QED BY <1>3, <2>3, <2>4, <2>5, <2>6 DEF SynchInv, S!RequiresHold, S!NoMisuse
<1> QED BY <1>4, <1>5

\* main goes on after its wait.
LEMMA MainPasses ==
  ASSUME SynchInv, S!Pass(MainThread)
  PROVE  SynchInv'
<1>1. MainThread \in S!Threads /\ Null # MainThread
      /\ Null \notin {"woken", "timedout"}
  BY SynchAssumption DEF S!Assumption, S!Threads
<1>2. MainMoves
  BY MainReturns DEF S!Pass
<1>3. UNCHANGED <<synch_test, workers, owner, waiting, did, alive, synch_failed,
                  synch_misused>>
      /\ owner = MainThread /\ returned' = Null
  BY DEF S!Pass
<1>4. PICK c \in S!wait_calls : S!At(MainThread, c)
  BY DEF S!Pass
<1>5. waiting = {} /\ mpc \in 1 .. Destroys[synch_test] /\ mpc = Waits[synch_test]
  BY <1>4, MainCall DEF SynchInv
<1>6. synch_test = "blocks" => Notifiers = workers
  <2> SUFFICES ASSUME synch_test = "blocks" PROVE S!Notified
    BY AllNotified DEF SynchInv
  <2>1. S!At(MainThread, "wait_while")
    <3>1. mpc = 6 /\ S!Program(MainThread) = S!blocks
      BY <1>5 DEF Waits, S!Program
    <3> QED BY <3>1, <1>5 DEF S!At, S!blocks, mpc
  <2>2. returned # "timedout"
    BY DEF SynchInv, MainLocks
  <2> QED BY <2>1, <2>2 DEF S!Pass, S!loop_calls
<1>7. SynchTypes' /\ WorkersLock' /\ WorkersRun' /\ CountsNotifiers'
  BY <1>1, <1>2, <1>3, <1>5, <1>6, MainStep
     DEF SynchInv, SynchTypes, Creates, Joins, Waits
<1>8. MainLocks' /\ SharedAlive'
  BY <1>1, <1>2, <1>3, <1>5
     DEF SynchInv, SynchTypes, MainLocks, MainMoves, Holding, Waits, SharedAlive,
         Destroys
<1> QED BY <1>3, <1>7, <1>8 DEF SynchInv, S!RequiresHold, S!NoMisuse

\* main waits, its wait ends, and it takes the mutex again.
LEMMA MainWaits ==
  ASSUME SynchInv, S!wait(MainThread) \/ S!WaitEnds(MainThread) \/ S!Relock(MainThread)
  PROVE  SynchInv'
<1>1. MainThread \in S!Threads /\ Null # MainThread /\ MainThread \notin Workers
      /\ Null \notin {"woken", "timedout"} /\ Null \notin Workers
  BY SynchAssumption DEF S!Assumption, S!Threads
<1>2. UNCHANGED <<synch_test, workers, synch_pc, did, alive, synch_failed>>
  BY DEF S!wait, S!WaitEnds, S!Relock
<1>3. mpc = Waits[synch_test] /\ alive
  <2>1. mpc = Waits[synch_test]
    <3>1. CASE \E c \in S!wait_calls : S!At(MainThread, c)
      BY <3>1, MainCall DEF SynchInv
    <3>2. CASE S!WaitEnds(MainThread)
      BY <3>2 DEF S!WaitEnds, SynchInv, MainLocks
    <3> QED BY <3>1, <3>2 DEF S!wait, S!Relock
  <2> QED BY <2>1 DEF SynchInv, SynchTypes, SharedAlive, Waits, Destroys
<1>4. /\ owner' \in {MainThread, Null} \/ owner' = owner
      /\ owner' # owner => owner \in {MainThread, Null}
      /\ waiting' \subseteq {MainThread}
      /\ returned' \in {"woken", "timedout", Null}
  BY DEF S!wait, S!WaitEnds, S!Relock, SynchInv, SynchTypes
<1>5. mpc' = mpc /\ SharedAlive' /\ WorkersRun'
  BY <1>2 DEF mpc, SynchInv, SharedAlive, WorkersRun
<1>6. CountsNotifiers'
  BY <1>2, <1>5 DEF SynchInv, CountsNotifiers, Notifiers
<1>7. SynchTypes' /\ WorkersLock'
  BY <1>1, <1>2, <1>4, <1>5 DEF SynchInv, SynchTypes, WorkersLock, S!Threads
<1>8. MainLocks'
  <2>1. CASE S!wait(MainThread)
    BY <1>1, <1>2, <1>3, <1>5, <2>1 DEF S!wait, SynchInv, SynchTypes, MainLocks
  <2>2. CASE S!WaitEnds(MainThread)
    <3>1. synch_test = "blocks" => returned' = "woken"
      <4> SUFFICES ASSUME synch_test = "blocks"
                   PROVE  S!Program(MainThread)[mpc] \notin S!until_calls
        BY <2>2 DEF S!WaitEnds, mpc
      <4>1. mpc = 6 /\ S!Program(MainThread) = S!blocks
        BY <1>3 DEF Waits, S!Program
      <4> QED BY <4>1 DEF S!blocks, S!until_calls
    <3>2. waiting' = {} /\ returned' \in {"woken", "timedout"} /\ owner' = owner
      BY <2>2 DEF S!WaitEnds, SynchInv, SynchTypes
    <3> QED BY <1>1, <1>2, <1>3, <1>5, <3>1, <3>2 DEF SynchInv, MainLocks
  <2>3. CASE S!Relock(MainThread)
    <3>1. waiting = {}
      BY <2>3, MainCall DEF S!Relock, SynchInv
    <3>2. mpc \in Holding[synch_test]
      BY <1>3 DEF SynchInv, SynchTypes, Holding, Waits
    <3> QED BY <1>1, <1>2, <1>3, <1>5, <2>3, <3>1, <3>2
            DEF S!Relock, SynchInv, MainLocks
  <2> QED BY <2>1, <2>2, <2>3
<1>9. ~synch_misused'
  BY <1>3 DEF S!wait, S!WaitEnds, S!Relock, S!Use, SynchInv, S!NoMisuse
<1> QED BY <1>2, <1>5, <1>6, <1>7, <1>8, <1>9 DEF SynchInv, S!RequiresHold, S!NoMisuse

\* main starts the threads.
LEMMA MainCreates ==
  ASSUME SynchInv, S!create(MainThread)
  PROVE  SynchInv'
<1>1. MainThread \in S!Threads /\ Null # MainThread /\ MainThread \notin Workers
      /\ Workers \subseteq S!Threads /\ Null \notin Workers
  BY SynchAssumption DEF S!Assumption, S!Threads
<1>2. UNCHANGED <<synch_test, workers, owner, waiting, returned, did, alive,
                  synch_failed, synch_misused>>
  BY DEF S!create
<1>3. waiting = {} /\ mpc = Creates[synch_test]
  BY MainCall DEF S!create, SynchInv
<1>4. /\ synch_pc' \in [S!Threads -> Nat]
      /\ mpc' = mpc + 1
      /\ \A w \in Workers \ workers : synch_pc'[w] = synch_pc[w]
  BY <1>1 DEF S!create, SynchInv, SynchTypes, mpc
<1>5. \A w \in workers : synch_pc'[w] = 1 /\ synch_pc[w] = 0
  <2>1. \A w \in workers : synch_pc[w] = 0
    <3>1. mpc <= Creates[synch_test]
      BY <1>3 DEF SynchInv, SynchTypes
    <3> QED BY <3>1 DEF SynchInv, WorkersRun
  <2>2. \A w \in workers : synch_pc'[w] = 1
    BY <1>1 DEF S!create, SynchInv, SynchTypes
  <2> QED BY <2>1, <2>2
<1>6. SynchTypes' /\ WorkersLock'
  BY <1>1, <1>2, <1>3, <1>4, <1>5
     DEF SynchInv, SynchTypes, WorkersLock, Creates, Destroys, S!Threads
<1>7. WorkersRun'
  BY <1>2, <1>3, <1>4, <1>5 DEF SynchInv, SynchTypes, WorkersRun, Creates, Joins
<1>8. Notifiers' = {} /\ Notifiers = {}
  BY <1>2, <1>5 DEF Notifiers
<1>9. CountsNotifiers'
  <2>1. mpc' <= 3
    BY <1>3, <1>4 DEF SynchInv, SynchTypes, Creates
  <2> QED BY <1>2, <1>4, <1>5, <1>8, <2>1, <1>3
          DEF SynchInv, SynchTypes, CountsNotifiers, Creates
<1>10. MainLocks' /\ SharedAlive'
  BY <1>1, <1>2, <1>3, <1>4
     DEF SynchInv, SynchTypes, MainLocks, SharedAlive, Creates, Holding, Waits, Destroys
<1> QED BY <1>2, <1>6, <1>7, <1>9, <1>10 DEF SynchInv, S!RequiresHold, S!NoMisuse

\* main joins the threads, looks at the count, and destroys what was shared.
LEMMA MainEnds ==
  ASSUME SynchInv, S!join(MainThread) \/ S!require(MainThread) \/ S!destroy(MainThread)
  PROVE  SynchInv'
<1>1. MainThread \in S!Threads /\ Null # MainThread
  BY SynchAssumption DEF S!Assumption, S!Threads
<1>2. MainMoves
  BY MainReturns DEF S!join, S!require, S!destroy
<1>3. UNCHANGED <<synch_test, workers, owner, waiting, returned, did>>
  BY DEF S!join, S!require, S!destroy
<1>4. waiting = {} /\ mpc \in 1 .. Destroys[synch_test]
  BY MainCall DEF S!join, S!require, S!destroy, SynchInv
<1>5. CASE S!join(MainThread)
  <2>1. mpc = Joins[synch_test] /\ UNCHANGED <<alive, synch_failed, synch_misused>>
    BY <1>5, MainCall DEF S!join, SynchInv
  <2>2. \A w \in workers : synch_pc[w] = 5
    BY <1>5, WorkerEnded DEF S!join, SynchInv, SynchTypes
  <2>3. SynchTypes' /\ WorkersLock' /\ WorkersRun' /\ CountsNotifiers'
    BY <1>1, <1>2, <1>3, <1>4, <2>1, <2>2, MainStep
       DEF SynchInv, SynchTypes, Creates, Joins
  <2>4. MainLocks' /\ SharedAlive'
    BY <1>1, <1>2, <1>3, <1>4, <2>1
       DEF SynchInv, SynchTypes, MainLocks, MainMoves, Holding, Waits, SharedAlive,
           Destroys, Joins
  <2> QED BY <1>3, <2>1, <2>3, <2>4 DEF SynchInv, S!RequiresHold, S!NoMisuse
<1>6. CASE S!require(MainThread)
  <2>1. \/ synch_test = "blocks" /\ mpc \in {3, 7}
        \/ synch_test = "timeout" /\ mpc = 4
        \/ synch_test = "notification" /\ mpc = 6
    BY <1>6, MainCall DEF S!require, SynchInv
  <2>2. UNCHANGED <<alive, synch_misused>>
    BY <1>6 DEF S!require
  <2>3. SynchTypes' /\ WorkersLock' /\ WorkersRun' /\ CountsNotifiers'
    BY <1>1, <1>2, <1>3, <1>4, <2>1, <2>2, MainStep
       DEF SynchInv, SynchTypes, Creates, Joins
  <2>4. MainLocks' /\ SharedAlive'
    BY <1>1, <1>2, <1>3, <1>4, <2>1, <2>2
       DEF SynchInv, SynchTypes, MainLocks, MainMoves, Holding, Waits, SharedAlive,
           Destroys
  <2>5. ASSUME S!At(MainThread, "require_none"), synch_test # "timeout" PROVE did = 0
    <3>1. synch_test = "blocks" /\ mpc = 3
      BY <2>5, MainCall DEF SynchInv
    <3>2. \A w \in workers : synch_pc[w] <= 1 /\ synch_pc[w] \in 0 .. 5
      <4>1. \A w \in workers : synch_pc[w] <= 1
        BY <3>1 DEF SynchInv, CountsNotifiers
      <4>2. \A w \in workers : synch_pc[w] \in 0 .. 5
        BY DEF SynchInv, SynchTypes
      <4> QED BY <4>1, <4>2
    <3>3. Notifiers = {}
      BY <3>2 DEF Notifiers
    <3> QED BY <3>3, FS_EmptySet DEF SynchInv, CountsNotifiers
  <2>6. ASSUME S!At(MainThread, "require_all") PROVE S!Notified
    <3>1. \/ synch_test = "blocks" /\ mpc = 7
          \/ synch_test = "notification" /\ mpc = 6
      BY <2>6, MainCall DEF SynchInv
    <3>2. Notifiers = workers
      <4>1. CASE synch_test = "blocks"
        BY <3>1, <4>1 DEF SynchInv, CountsNotifiers
      <4>2. CASE synch_test = "notification"
        <5>1. \A w \in workers : synch_pc[w] = 5
          <6>1. mpc > Joins[synch_test]
            BY <3>1, <4>2 DEF Joins
          <6> QED BY <6>1 DEF SynchInv, WorkersRun
        <5> QED BY <5>1 DEF Notifiers
      <4> QED BY <3>1, <4>1, <4>2
    <3> QED BY <3>2, AllNotified DEF SynchInv
  <2>7. S!RequiresHold'
    BY <1>3, <1>6, <2>5, <2>6 DEF S!require, SynchInv, S!RequiresHold
  <2> QED BY <2>2, <2>3, <2>4, <2>7 DEF SynchInv, S!NoMisuse
<1>7. CASE S!destroy(MainThread)
  <2>1. mpc = Destroys[synch_test] /\ alive' = FALSE /\ UNCHANGED synch_failed
    BY <1>7, MainCall DEF S!destroy, SynchInv
  <2>2. SynchTypes' /\ WorkersLock' /\ WorkersRun' /\ CountsNotifiers'
    <3>1. /\ mpc # Creates[synch_test] /\ mpc # Joins[synch_test]
          /\ synch_test = "blocks" => mpc = 10
      BY <2>1 DEF SynchInv, SynchTypes, Creates, Joins, Destroys
    <3>2. waiting' \subseteq {MainThread} /\ returned' \in {"woken", "timedout", Null}
      BY <1>3 DEF SynchInv, SynchTypes
    <3>3. alive' \in BOOLEAN /\ owner' = owner /\ UNCHANGED <<synch_test, workers, did>>
      BY <1>3, <2>1
    <3> QED BY <1>2, <1>4, <3>1, <3>2, <3>3, MainStep
  <2>3. MainLocks' /\ SharedAlive'
    BY <1>1, <1>2, <1>3, <1>4, <2>1
       DEF SynchInv, SynchTypes, MainLocks, MainMoves, Holding, Waits, SharedAlive,
           Destroys
  <2>4. alive
    BY <2>1 DEF SynchInv, SynchTypes, SharedAlive, Destroys
  <2>5. owner = Null
    <3>1. owner # MainThread
      BY <2>1 DEF SynchInv, SynchTypes, MainLocks, Holding, Destroys
    <3>2. \A w \in Workers : synch_pc[w] \notin 2 .. 4
      BY <2>1 DEF SynchInv, SynchTypes, WorkersRun, Joins, Destroys
    <3> QED BY <3>1, <3>2 DEF SynchInv, SynchTypes, WorkersLock, S!Threads
  <2>6. ~synch_misused'
    BY <1>4, <1>7, <2>4, <2>5 DEF S!destroy, S!Use, SynchInv, S!NoMisuse
  <2> QED BY <1>3, <2>1, <2>2, <2>3, <2>6 DEF SynchInv, S!RequiresHold, S!NoMisuse
<1> QED BY <1>5, <1>6, <1>7


-----------------------------------------------------------------------------
\* A worker is at its next step, and everybody else where they were.
WorkerMoves(w) ==
  /\ synch_pc' \in [S!Threads -> Nat]
  /\ mpc' = mpc
  /\ synch_pc'[w] = synch_pc[w] + 1
  /\ \A v \in Workers \ {w} : synch_pc'[v] = synch_pc[v]

LEMMA WorkerReturns ==
  ASSUME SynchInv, NEW w \in Workers, S!Return(w)
  PROVE  WorkerMoves(w)
<1>1. MainThread \in S!Threads /\ MainThread \notin Workers /\ Workers \subseteq S!Threads
  BY SynchAssumption DEF S!Assumption, S!Threads
<1> QED BY <1>1 DEF SynchInv, SynchTypes, S!Return, S!Goto, WorkerMoves, mpc

\* What a worker's step leaves to be shown: the mutex, and the count
LEMMA WorkerStep ==
  ASSUME SynchInv, NEW w \in Workers, synch_pc[w] \in 1 .. 4, WorkerMoves(w),
         UNCHANGED <<synch_test, workers, alive, synch_failed>>,
         owner' \in S!Threads \cup {Null}, waiting' \subseteq {MainThread},
         returned' \in {"woken", "timedout", Null},
         WorkersLock', MainLocks', CountsNotifiers', ~synch_misused'
  PROVE  SynchInv'
<1>1. w \in workers /\ mpc > Creates[synch_test] /\ mpc <= Joins[synch_test]
  BY WorkerRuns
<1>2. SynchTypes'
  BY DEF SynchInv, SynchTypes, WorkerMoves, S!Threads
<1>3. WorkersRun'
  BY <1>1 DEF SynchInv, SynchTypes, WorkersRun, WorkerMoves, Creates, Joins
<1>4. SharedAlive'
  BY DEF SynchInv, SharedAlive, WorkerMoves
<1> QED BY <1>2, <1>3, <1>4 DEF SynchInv, S!RequiresHold, S!NoMisuse

\* A step that notifies nobody
LEMMA SameCount ==
  ASSUME SynchInv, NEW w \in Workers, synch_pc[w] \in {1, 3, 4}, WorkerMoves(w),
         UNCHANGED <<synch_test, workers, did>>,
         synch_test = "blocks" /\ mpc <= 4 => synch_pc[w] # 1
  PROVE  CountsNotifiers'
<1>1. Notifiers' = Notifiers
  BY DEF SynchInv, SynchTypes, Notifiers, WorkerMoves
<1>2. synch_test = "blocks" /\ mpc <= 4 => \A v \in workers : synch_pc'[v] <= 1
  <2> SUFFICES ASSUME synch_test = "blocks", mpc <= 4, NEW v \in workers
               PROVE  synch_pc'[v] <= 1
    OBVIOUS
  <2>1. w \in workers
    BY WorkerRuns
  <2>2. synch_pc[w] <= 1
    BY <2>1 DEF SynchInv, CountsNotifiers
  <2>3. FALSE
    BY <2>2
  <2> QED BY <2>3
<1> QED BY <1>1, <1>2 DEF SynchInv, CountsNotifiers, WorkerMoves

LEMMA WorkerLocks ==
  ASSUME SynchInv, NEW w \in Workers, S!lock(w)
  PROVE  SynchInv'
<1>1. MainThread \notin Workers /\ Null \notin Workers /\ w \in S!Threads
      /\ Null # MainThread
  BY SynchAssumption DEF S!Assumption, S!Threads
<1>2. synch_pc[w] = 1 /\ WorkerMoves(w)
  BY WorkerCall, WorkerReturns DEF S!lock
<1>3. /\ owner = Null /\ owner' = w
      /\ UNCHANGED <<synch_test, workers, waiting, returned, did, alive, synch_failed>>
  BY DEF S!lock
<1>4. mpc > Creates[synch_test] /\ alive
  BY <1>2, WorkerRuns
<1>5. ~(synch_test = "blocks" /\ mpc <= 4)
  BY <1>1, <1>3, <1>4
     DEF SynchInv, SynchTypes, MainLocks, Creates, Holding, Waits
<1>6. CountsNotifiers'
  BY <1>2, <1>3, <1>5, SameCount
<1>7. WorkersLock'
  BY <1>1, <1>2, <1>3 DEF SynchInv, SynchTypes, WorkersLock, WorkerMoves
<1>8. MainLocks'
  BY <1>1, <1>2, <1>3 DEF SynchInv, SynchTypes, MainLocks, WorkerMoves
<1>9. ~synch_misused'
  BY <1>4 DEF S!lock, S!Use, SynchInv, S!NoMisuse
<1> QED BY <1>1, <1>2, <1>3, <1>6, <1>7, <1>8, <1>9, WorkerStep
        DEF SynchInv, SynchTypes

LEMMA WorkerUnlocks ==
  ASSUME SynchInv, NEW w \in Workers, S!unlock(w)
  PROVE  SynchInv'
<1>1. MainThread \notin Workers /\ Null \notin Workers /\ Null # MainThread
  BY SynchAssumption DEF S!Assumption
<1>2. synch_pc[w] = 4 /\ WorkerMoves(w)
  BY WorkerCall, WorkerReturns DEF S!unlock
<1>3. /\ owner' = Null
      /\ UNCHANGED <<synch_test, workers, waiting, returned, did, alive, synch_failed>>
  BY DEF S!unlock
<1>4. alive /\ owner = w
  BY <1>2, WorkerRuns DEF SynchInv, WorkersLock
<1>5. CountsNotifiers'
  BY <1>2, <1>3, SameCount
<1>6. WorkersLock'
  BY <1>1, <1>2, <1>3, <1>4 DEF SynchInv, SynchTypes, WorkersLock, WorkerMoves
<1>7. MainLocks'
  BY <1>1, <1>2, <1>3, <1>4 DEF SynchInv, SynchTypes, MainLocks, WorkerMoves
<1>8. ~synch_misused'
  BY <1>4 DEF S!unlock, S!Use, SynchInv, S!NoMisuse
<1> QED BY <1>1, <1>2, <1>3, <1>5, <1>6, <1>7, <1>8, WorkerStep
        DEF SynchInv, SynchTypes

LEMMA WorkerWakes ==
  ASSUME SynchInv, NEW w \in Workers, S!wake_all(w)
  PROVE  SynchInv'
<1>1. MainThread \notin Workers /\ Null \notin {"woken", "timedout"}
  BY SynchAssumption DEF S!Assumption
<1>2. synch_pc[w] = 3 /\ WorkerMoves(w)
  BY WorkerCall, WorkerReturns DEF S!wake_all
<1>3. /\ waiting' = {} /\ returned' = IF waiting = {} THEN returned ELSE "woken"
      /\ UNCHANGED <<synch_test, workers, owner, did, alive, synch_failed>>
  BY DEF S!wake_all
<1>4. alive /\ owner = w
  BY <1>2, WorkerRuns DEF SynchInv, WorkersLock
<1>5. CountsNotifiers'
  BY <1>2, <1>3, SameCount
<1>6. WorkersLock'
  BY <1>1, <1>2, <1>3, <1>4 DEF SynchInv, SynchTypes, WorkersLock, WorkerMoves
<1>7. MainLocks'
  <2>1. CASE waiting = {}
    BY <1>2, <1>3, <2>1 DEF SynchInv, MainLocks, WorkerMoves
  <2>2. CASE waiting # {}
    <3>1. mpc = Waits[synch_test] /\ returned' = "woken"
      BY <1>3, <2>2 DEF SynchInv, MainLocks
    <3> QED BY <1>1, <1>2, <1>3, <1>4, <3>1 DEF SynchInv, MainLocks, WorkerMoves
  <2> QED BY <2>1, <2>2
<1>8. ~synch_misused'
  BY <1>4 DEF S!wake_all, S!Use, SynchInv, S!NoMisuse
<1>9. returned' \in {"woken", "timedout", Null}
  BY <1>3 DEF SynchInv, SynchTypes
<1> QED BY <1>1, <1>2, <1>3, <1>5, <1>6, <1>7, <1>8, <1>9, WorkerStep
        DEF SynchInv, SynchTypes

LEMMA WorkerNotifies ==
  ASSUME SynchInv, NEW w \in Workers, S!notify(w)
  PROVE  SynchInv'
<1>1. MainThread \notin Workers
  BY SynchAssumption DEF S!Assumption
<1>2. synch_pc[w] = 2 /\ WorkerMoves(w)
  BY WorkerCall, WorkerReturns DEF S!notify
<1>3. /\ did' = did + 1
      /\ UNCHANGED <<synch_test, workers, owner, waiting, returned, alive, synch_failed,
                     synch_misused>>
  BY DEF S!notify
<1>4. w \in workers
  BY <1>2, WorkerRuns
<1>5. Notifiers' = Notifiers \cup {w} /\ w \notin Notifiers
  BY <1>2, <1>3, <1>4 DEF SynchInv, SynchTypes, Notifiers, WorkerMoves
<1>6. Cardinality(Notifiers') = Cardinality(Notifiers) + 1
  BY <1>5, AllNotified, FS_AddElement DEF SynchInv
<1>7. ~(synch_test = "blocks" /\ mpc <= 4)
  BY <1>2, <1>4 DEF SynchInv, CountsNotifiers
<1>8. ~(synch_test = "blocks" /\ mpc > 6)
  BY <1>4, <1>5 DEF SynchInv, CountsNotifiers
<1>9. CountsNotifiers'
  BY <1>2, <1>3, <1>6, <1>7, <1>8 DEF SynchInv, CountsNotifiers, WorkerMoves
<1>10. WorkersLock' /\ MainLocks'
  BY <1>1, <1>2, <1>3 DEF SynchInv, SynchTypes, WorkersLock, MainLocks, WorkerMoves
<1> QED BY <1>2, <1>3, <1>9, <1>10, WorkerStep DEF SynchInv, SynchTypes, S!NoMisuse

-----------------------------------------------------------------------------
LEMMA SynchInit == S!Init => SynchInv
<1> SUFFICES ASSUME S!Init PROVE SynchInv
  OBVIOUS
<1>1. MainThread \in S!Threads /\ MainThread \notin Workers /\ Workers \subseteq S!Threads
      /\ Null \notin S!Threads /\ Null \notin {"woken", "timedout"}
  BY SynchAssumption DEF S!Assumption, S!Threads
<1>2. workers \subseteq Workers /\ mpc = 1 /\ \A w \in Workers : synch_pc[w] = 0
  BY <1>1 DEF S!Init, mpc
<1>3. SynchTypes
  BY <1>1, <1>2 DEF S!Init, SynchTypes, Destroys
<1>4. WorkersLock /\ MainLocks
  BY <1>1, <1>2 DEF S!Init, WorkersLock, MainLocks, Holding, Waits, S!Threads
<1>5. WorkersRun /\ SharedAlive
  BY <1>2 DEF S!Init, WorkersRun, SharedAlive, Creates, Joins, Destroys
<1>6. Notifiers = {}
  BY <1>2 DEF Notifiers
<1>7. CountsNotifiers
  BY <1>2, <1>6, FS_EmptySet DEF S!Init, CountsNotifiers
<1> QED BY <1>3, <1>4, <1>5, <1>7 DEF SynchInv, S!Init, S!RequiresHold, S!NoMisuse

LEMMA SynchNext == SynchInv /\ [S!Next]_(S!vars) => SynchInv'
<1> SUFFICES ASSUME SynchInv, [S!Next]_(S!vars) PROVE SynchInv'
  OBVIOUS
<1>1. CASE UNCHANGED S!vars
  <2>1. UNCHANGED <<synch_test, workers, synch_pc, owner, waiting, returned, did, alive,
                    synch_failed, synch_misused>>
    BY <1>1 DEF S!vars
  <2>2. mpc' = mpc /\ Notifiers' = Notifiers
    BY <2>1 DEF mpc, Notifiers
  <2> QED BY <2>1, <2>2 DEF SynchInv, SynchTypes, WorkersLock, MainLocks, WorkersRun,
        CountsNotifiers, SharedAlive, S!RequiresHold, S!NoMisuse
<1>2. ASSUME NEW w \in Workers, S!Step(w) \/ S!WaitEnds(w) PROVE SynchInv'
  <2>1. MainThread \notin Workers
    BY SynchAssumption DEF S!Assumption
  <2>2. ~S!WaitEnds(w)
    BY <2>1 DEF S!WaitEnds, SynchInv, SynchTypes
  <2>3. \A c : S!At(w, c) => c \in {"lock", "notify", "wake_all", "unlock"}
    BY WorkerCall
  <2>4. /\ ~\E c \in S!wait_calls : S!At(w, c)
        /\ ~S!At(w, "create") /\ ~S!At(w, "join") /\ ~S!At(w, "destroy")
        /\ ~S!At(w, "require_none") /\ ~S!At(w, "require_all")
    BY <2>3 DEF S!wait_calls
  <2>5. S!lock(w) \/ S!unlock(w) \/ S!wake_all(w) \/ S!notify(w)
    BY <1>2, <2>2, <2>4 DEF S!Step, S!Pass, S!wait, S!Relock, S!create, S!join,
          S!require, S!destroy
  <2> QED BY <2>5, WorkerLocks, WorkerUnlocks, WorkerWakes, WorkerNotifies
<1>3. ASSUME S!Step(MainThread) \/ S!WaitEnds(MainThread) PROVE SynchInv'
  <2>1. ~S!notify(MainThread) /\ ~S!wake_all(MainThread)
    BY MainCall DEF S!notify, S!wake_all, SynchInv
  <2> QED BY <1>3, <2>1, MainLock, MainPasses, MainWaits, MainCreates, MainEnds DEF S!Step
<1> QED BY <1>1, <1>2, <1>3 DEF S!Next, S!Threads

\* The parts of the properties that are about Synch
LEMMA SynchTypeOK == SynchInv => S!TypeOK
<1> SUFFICES ASSUME SynchInv PROVE S!TypeOK
  OBVIOUS
<1>1. MainThread \in S!Threads /\ S!Threads = Workers \cup {MainThread}
  BY DEF S!Threads
<1>2. synch_pc \in [S!Threads -> 0 .. 11]
  <2>1. mpc \in 0 .. 11
    BY DEF SynchInv, SynchTypes, Destroys
  <2>2. \A t \in S!Threads : synch_pc[t] \in 0 .. 11
    BY <1>1, <2>1 DEF SynchInv, SynchTypes, mpc
  <2> QED BY <2>2 DEF SynchInv, SynchTypes
<1>3. did \in 0 .. S!Cardinality(workers)
  BY AllNotified, SameSets DEF SynchInv
<1>4. ASSUME NEW t \in S!Threads, S!At(t, "notify") \/ S!At(t, "wake_all")
      PROVE  owner = t
  <2>1. t # MainThread
    BY <1>4, MainCall DEF SynchInv
  <2>2. t \in Workers /\ synch_pc[t] \in 2 .. 4
    BY <1>1, <1>4, <2>1, WorkerCall
  <2> QED BY <2>2 DEF SynchInv, WorkersLock
<1> QED BY <1>2, <1>3, <1>4 DEF SynchInv, SynchTypes, MainLocks, S!TypeOK

-----------------------------------------------------------------------------
(* test/tcpsupp.cpp and test/ipcsupp.cpp: objects, operations and streams. *)

\* For each program, the steps that make each object, and those that arm, wait
\* for and check each aio
MadeAt ==
  [tcp |-> [l |-> 1, daio |-> 4, laio |-> 5, d |-> 6,
            c1 |-> 13, c2 |-> 14, aio1 |-> 15, aio2 |-> 16],
   ipc |-> [d |-> 1, l |-> 2, daio |-> 4, laio |-> 5,
            c1 |-> 12, c2 |-> 13, aio1 |-> 14, aio2 |-> 15]]
ArmedAt == [tcp |-> [daio |-> 7, laio |-> 8, aio1 |-> 20, aio2 |-> 21],
            ipc |-> [daio |-> 6, laio |-> 7, aio1 |-> 16, aio2 |-> 17]]
WaitedAt == [tcp |-> [daio |-> 9, laio |-> 11, aio1 |-> 22, aio2 |-> 23],
             ipc |-> [daio |-> 8, laio |-> 9, aio1 |-> 18, aio2 |-> 19]]
CheckedAt == [tcp |-> [daio |-> 10, laio |-> 12, aio1 |-> 24, aio2 |-> 25],
              ipc |-> [daio |-> 10, laio |-> 11, aio1 |-> 20, aio2 |-> 21]]

Objects == {"d", "l", "c1", "c2"} \cup P!Aios

StreamTypes ==
  /\ program \in {"tcp", "ipc"}
  /\ stream_pc \in 0 .. Len(P!Program)
  /\ locals \in Seq(Objects)
  /\ DOMAIN op = P!Aios /\ \A a \in P!Aios : op[a] \in {"none", P!Armed[a]}
  /\ result \in [P!Aios -> {"success", "error"}]
  /\ count \in [P!Aios -> 0 .. Size]
  /\ streams \subseteq {"c1", "c2"}
  /\ stream_failed \in BOOLEAN

\* The objects are those made so far, in the order of their construction; those
\* that are left while main unwinds were made before the others.
LocalsInOrder ==
  /\ \A i, j \in DOMAIN locals :
       i < j => MadeAt[program][locals[i]] < MadeAt[program][locals[j]]
  /\ stream_pc > 0 =>
       \A x \in Objects : x \in P!Locals <=> MadeAt[program][x] < stream_pc
  /\ \A x, y \in Objects :
       x \in P!Locals /\ MadeAt[program][y] < MadeAt[program][x] => y \in P!Locals

\* An operation is under way until main has waited for it; when main unwinds, the
\* accept alone can be.
UnderWay ==
  \A a \in P!Aios : op[a] # "none" =>
    IF stream_pc > 0
    THEN ArmedAt[program][a] < stream_pc /\ stream_pc <= WaitedAt[program][a]
    ELSE a = "laio" /\ a \in P!Locals

\* What main has checked is so.
StreamsMade ==
  \A a \in {"daio", "laio"} : stream_pc > 0 =>
    /\ stream_pc > ArmedAt[program][a] /\ op[a] = "none" /\ result[a] = "success" =>
         P!Output[a] \in streams
    /\ stream_pc > CheckedAt[program][a] => P!Output[a] \in streams

Transferred ==
  /\ \A a \in {"aio1", "aio2"} :
       stream_pc > CheckedAt[program][a] => count[a] = Size
  /\ stream_pc > 0 => ~stream_failed
  /\ stream_pc = 0 /\ ~stream_failed =>
       /\ \A a \in P!Aios : op[a] = "none"
       /\ count["aio1"] = Size /\ count["aio2"] = Size
       /\ streams \subseteq P!Locals

StreamInv ==
  /\ StreamTypes /\ LocalsInOrder /\ UnderWay /\ StreamsMade /\ Transferred
  /\ P!OwnedStreamsExist

-----------------------------------------------------------------------------
\* The text of the two programs
LEMMA TcpText ==
  /\ DOMAIN P!tcp = 1 .. 27 /\ Len(P!tcp) = 27
  /\ P!tcp[1] = <<"make", "l">> /\ P!tcp[2] = <<"listen", "l">>
  /\ P!tcp[3] = <<"get_addr", "l">> /\ P!tcp[4] = <<"make", "daio">>
  /\ P!tcp[5] = <<"make", "laio">> /\ P!tcp[6] = <<"make", "d">>
  /\ P!tcp[7] = <<"arm", "daio">> /\ P!tcp[8] = <<"arm", "laio">>
  /\ P!tcp[9] = <<"wait", "daio">> /\ P!tcp[10] = <<"check", "daio">>
  /\ P!tcp[11] = <<"wait", "laio">> /\ P!tcp[12] = <<"check", "laio">>
  /\ P!tcp[13] = <<"own", "c1">> /\ P!tcp[14] = <<"own", "c2">>
  /\ P!tcp[15] = <<"make", "aio1">> /\ P!tcp[16] = <<"make", "aio2">>
  /\ P!tcp[17] = <<"set_bool", "c1">> /\ P!tcp[18] = <<"set_bool", "c2">>
  /\ P!tcp[19] = <<"set_bool", "c1">> /\ P!tcp[20] = <<"arm", "aio1">>
  /\ P!tcp[21] = <<"arm", "aio2">> /\ P!tcp[22] = <<"wait", "aio1">>
  /\ P!tcp[23] = <<"wait", "aio2">> /\ P!tcp[24] = <<"check", "aio1">>
  /\ P!tcp[25] = <<"check", "aio2">> /\ P!tcp[26] = <<"get_addr", "c2">>
  /\ P!tcp[27] = <<"get_addr", "c1">>
  BY DEF P!tcp, P!tcp_setup, P!aios_made, P!tcp_exchange, P!streams_made, P!exchange

LEMMA IpcText ==
  /\ DOMAIN P!ipc = 1 .. 22 /\ Len(P!ipc) = 22
  /\ P!ipc[1] = <<"make", "d">> /\ P!ipc[2] = <<"make", "l">>
  /\ P!ipc[3] = <<"listen", "l">> /\ P!ipc[4] = <<"make", "daio">>
  /\ P!ipc[5] = <<"make", "laio">> /\ P!ipc[6] = <<"arm", "daio">>
  /\ P!ipc[7] = <<"arm", "laio">> /\ P!ipc[8] = <<"wait", "daio">>
  /\ P!ipc[9] = <<"wait", "laio">> /\ P!ipc[10] = <<"check", "daio">>
  /\ P!ipc[11] = <<"check", "laio">> /\ P!ipc[12] = <<"own", "c1">>
  /\ P!ipc[13] = <<"own", "c2">> /\ P!ipc[14] = <<"make", "aio1">>
  /\ P!ipc[15] = <<"make", "aio2">> /\ P!ipc[16] = <<"arm", "aio1">>
  /\ P!ipc[17] = <<"arm", "aio2">> /\ P!ipc[18] = <<"wait", "aio1">>
  /\ P!ipc[19] = <<"wait", "aio2">> /\ P!ipc[20] = <<"check", "aio1">>
  /\ P!ipc[21] = <<"check", "aio2">> /\ P!ipc[22] = <<"get_addr", "c2">>
  BY DEF P!ipc, P!aios_made, P!streams_made, P!exchange

\* Where the steps are: the tables say where each object is made and where each
\* aio is armed, waited for and checked.
LEMMA StreamAt ==
  ASSUME StreamTypes, NEW what, NEW x, P!At(what, x)
  PROVE  /\ stream_pc \in 1 .. Len(P!Program)
         /\ \A y \in Objects :
              MadeAt[program][y] = stream_pc <=> what \in {"make", "own"} /\ y = x
         /\ \A a \in P!Aios :
              /\ ArmedAt[program][a] = stream_pc <=> what = "arm" /\ a = x
              /\ WaitedAt[program][a] = stream_pc <=> what = "wait" /\ a = x
              /\ CheckedAt[program][a] = stream_pc <=> what = "check" /\ a = x
         /\ what # "get_addr" => stream_pc < Len(P!Program)
<1>1. stream_pc \in DOMAIN P!Program /\ P!Program[stream_pc] = <<what, x>>
  BY DEF P!At
<1>2. CASE program = "tcp"
  <2>1. P!Program = P!tcp
    BY <1>2 DEF P!Program
  <2>2. stream_pc \in 1 .. 27 /\ P!tcp[stream_pc] = <<what, x>>
    BY <1>1, <2>1, TcpText
  <2>3. \A y \in Objects :
          MadeAt[program][y] = stream_pc <=> what \in {"make", "own"} /\ y = x
    BY <1>2, <2>2, TcpText DEF MadeAt, Objects, P!Aios
  <2>4. \A a \in P!Aios :
          ArmedAt[program][a] = stream_pc <=> what = "arm" /\ a = x
    BY <1>2, <2>2, TcpText DEF ArmedAt, P!Aios
  <2>5. \A a \in P!Aios :
          WaitedAt[program][a] = stream_pc <=> what = "wait" /\ a = x
    BY <1>2, <2>2, TcpText DEF WaitedAt, P!Aios
  <2>6. \A a \in P!Aios :
          CheckedAt[program][a] = stream_pc <=> what = "check" /\ a = x
    BY <1>2, <2>2, TcpText DEF CheckedAt, P!Aios
  <2>7. what # "get_addr" => stream_pc < 27
    BY <2>2, TcpText
  <2> QED BY <2>1, <2>2, <2>3, <2>4, <2>5, <2>6, <2>7, TcpText
<1>3. CASE program = "ipc"
  <2>1. P!Program = P!ipc
    BY <1>3 DEF P!Program
  <2>2. stream_pc \in 1 .. 22 /\ P!ipc[stream_pc] = <<what, x>>
    BY <1>1, <2>1, IpcText
  <2>3. \A y \in Objects :
          MadeAt[program][y] = stream_pc <=> what \in {"make", "own"} /\ y = x
    BY <1>3, <2>2, IpcText DEF MadeAt, Objects, P!Aios
  <2>4. \A a \in P!Aios :
          ArmedAt[program][a] = stream_pc <=> what = "arm" /\ a = x
    BY <1>3, <2>2, IpcText DEF ArmedAt, P!Aios
  <2>5. \A a \in P!Aios :
          WaitedAt[program][a] = stream_pc <=> what = "wait" /\ a = x
    BY <1>3, <2>2, IpcText DEF WaitedAt, P!Aios
  <2>6. \A a \in P!Aios :
          CheckedAt[program][a] = stream_pc <=> what = "check" /\ a = x
    BY <1>3, <2>2, IpcText DEF CheckedAt, P!Aios
  <2>7. what # "get_addr" => stream_pc < 22
    BY <2>2, IpcText
  <2> QED BY <2>1, <2>2, <2>3, <2>4, <2>5, <2>6, <2>7, IpcText
<1> QED BY <1>2, <1>3 DEF StreamTypes

\* Where main can throw, it has waited for every operation but the accept.
LEMMA StreamThrows ==
  ASSUME StreamTypes, NEW what \in {"make", "check"} \cup P!Calls, NEW x,
         P!At(what, x), NEW a \in P!Aios,
         ArmedAt[program][a] < stream_pc, stream_pc <= WaitedAt[program][a]
  PROVE  a = "laio" /\ MadeAt[program]["laio"] < stream_pc
<1>1. stream_pc \in DOMAIN P!Program /\ P!Program[stream_pc] = <<what, x>>
  BY DEF P!At
<1>2. CASE program = "tcp"
  <2>1. stream_pc \in 1 .. 27 /\ P!tcp[stream_pc] = <<what, x>>
    BY <1>1, <1>2, TcpText DEF P!Program
  <2> QED BY <1>2, <2>1, TcpText DEF ArmedAt, WaitedAt, MadeAt, P!Aios, P!Calls
<1>3. CASE program = "ipc"
  <2>1. stream_pc \in 1 .. 22 /\ P!ipc[stream_pc] = <<what, x>>
    BY <1>1, <1>3, IpcText DEF P!Program
  <2> QED BY <1>3, <2>1, IpcText DEF ArmedAt, WaitedAt, MadeAt, P!Aios, P!Calls
<1> QED BY <1>2, <1>3 DEF StreamTypes

\* The order of the steps
LEMMA StreamTables ==
  ASSUME StreamTypes
  PROVE  /\ Len(P!Program) \in Nat
         /\ \A x \in Objects :
              MadeAt[program][x] \in Nat /\ MadeAt[program][x] < Len(P!Program)
         /\ \A x, y \in Objects : MadeAt[program][x] = MadeAt[program][y] => x = y
         /\ \A a \in P!Aios :
              /\ ArmedAt[program][a] \in Nat /\ WaitedAt[program][a] \in Nat
              /\ CheckedAt[program][a] \in Nat
              /\ ArmedAt[program][a] < WaitedAt[program][a]
              /\ WaitedAt[program][a] < CheckedAt[program][a]
              /\ CheckedAt[program][a] < Len(P!Program)
              /\ MadeAt[program][a] < ArmedAt[program][a]
         /\ CheckedAt[program]["daio"] < MadeAt[program]["c1"]
         /\ CheckedAt[program]["laio"] < MadeAt[program]["c2"]
         /\ MadeAt[program]["d"] < ArmedAt[program]["daio"]
         /\ MadeAt[program]["l"] < MadeAt[program]["laio"]
         /\ MadeAt[program]["c1"] < ArmedAt[program]["aio1"]
         /\ MadeAt[program]["c2"] < ArmedAt[program]["aio2"]
<1>1. CASE program = "tcp"
  <2>1. Len(P!Program) = 27
    BY <1>1, TcpText DEF P!Program
  <2>2. \A x, y \in Objects : MadeAt[program][x] = MadeAt[program][y] => x = y
    BY <1>1 DEF MadeAt, Objects, P!Aios
  <2> QED BY <1>1, <2>1, <2>2 DEF MadeAt, ArmedAt, WaitedAt, CheckedAt, Objects, P!Aios
<1>2. CASE program = "ipc"
  <2>1. Len(P!Program) = 22
    BY <1>2, IpcText DEF P!Program
  <2>2. \A x, y \in Objects : MadeAt[program][x] = MadeAt[program][y] => x = y
    BY <1>2 DEF MadeAt, Objects, P!Aios
  <2> QED BY <1>2, <2>1, <2>2 DEF MadeAt, ArmedAt, WaitedAt, CheckedAt, Objects, P!Aios
<1> QED BY <1>1, <1>2 DEF StreamTypes

\* main goes on to the next step and constructs nothing.
LEMMA StreamAdvance ==
  ASSUME StreamInv, stream_pc \in 1 .. Len(P!Program) - 1, stream_pc' = stream_pc + 1,
         UNCHANGED <<program, locals, result, count, streams, stream_failed>>,
         DOMAIN op' = P!Aios, \A a \in P!Aios : op'[a] \in {"none", P!Armed[a]},
         \A x \in Objects : MadeAt[program][x] # stream_pc,
         \A a \in P!Aios :
           /\ \/ op'[a] = "none"
              \/ op[a] # "none" /\ stream_pc # WaitedAt[program][a]
              \/ stream_pc = ArmedAt[program][a]
           /\ op'[a] = "none" => op[a] = "none" /\ stream_pc # ArmedAt[program][a],
         \A a \in {"daio", "laio"} :
           stream_pc = CheckedAt[program][a] => P!Output[a] \in streams,
         \A a \in {"aio1", "aio2"} :
           stream_pc = CheckedAt[program][a] => count[a] = Size
  PROVE  StreamInv'
<1> USE DEF StreamInv
<1>1. P!Locals' = P!Locals /\ P!Program' = P!Program
  BY DEF P!Locals, P!Program
<1>2. StreamTypes'
  BY <1>1, StreamTables DEF StreamTypes
<1>3. LocalsInOrder'
  <2>1. \A x \in Objects : MadeAt[program][x] < stream_pc <=> MadeAt[program][x] < stream_pc + 1
    BY StreamTables DEF StreamTypes
  <2> QED BY <1>1, <2>1 DEF LocalsInOrder
<1>4. UnderWay'
  <2> SUFFICES ASSUME NEW a \in P!Aios, op'[a] # "none"
               PROVE  /\ ArmedAt[program][a] < stream_pc + 1
                      /\ stream_pc + 1 <= WaitedAt[program][a]
    BY DEF UnderWay
  <2> QED BY StreamTables DEF UnderWay
<1>5. StreamsMade'
  <2> SUFFICES ASSUME NEW a \in {"daio", "laio"}
               PROVE  /\ /\ stream_pc + 1 > ArmedAt[program][a] /\ op'[a] = "none"
                         /\ result[a] = "success"
                         => P!Output[a] \in streams
                      /\ stream_pc + 1 > CheckedAt[program][a] => P!Output[a] \in streams
    BY DEF StreamsMade
  <2>1. a \in P!Aios
    BY DEF P!Aios
  <2>2. /\ ArmedAt[program][a] \in Nat /\ CheckedAt[program][a] \in Nat
        /\ stream_pc \in Nat /\ stream_pc > 0
    BY <2>1, StreamTables
  <2>3. op'[a] = "none" => op[a] = "none" /\ stream_pc # ArmedAt[program][a]
    BY <2>1
  <2> QED BY <2>2, <2>3 DEF StreamsMade
<1>6. Transferred'
  <2>1. stream_pc \in Nat /\ stream_pc > 0 /\ stream_pc' > 0
    BY StreamTables
  <2>2. ASSUME NEW a \in {"aio1", "aio2"}, stream_pc' > CheckedAt[program][a]
        PROVE  count[a] = Size
    <3>1. CheckedAt[program][a] \in Nat
      BY StreamTables DEF P!Aios
    <3> QED BY <2>1, <2>2, <3>1 DEF Transferred
  <2>3. ~stream_failed
    BY <2>1 DEF Transferred
  <2> QED BY <2>1, <2>2, <2>3 DEF Transferred
<1>7. P!OwnedStreamsExist'
  BY <1>1 DEF P!OwnedStreamsExist
<1> QED BY <1>2, <1>3, <1>4, <1>5, <1>6, <1>7

\* A step of main that throws or fails
LEMMA StreamUnwinds ==
  ASSUME StreamInv, stream_pc \in 1 .. Len(P!Program), stream_pc' = 0, stream_failed' = TRUE,
         UNCHANGED <<program, locals, op, result, count, streams>>,
         NEW what \in {"make", "check"} \cup P!Calls, NEW x, P!At(what, x)
  PROVE  StreamInv'
<1> USE DEF StreamInv
<1>1. P!Locals' = P!Locals /\ P!Program' = P!Program
  BY DEF P!Locals, P!Program
<1>2. StreamTypes'
  BY <1>1, StreamTables DEF StreamTypes
<1>3. LocalsInOrder'
  BY <1>1 DEF LocalsInOrder
<1>4. UnderWay'
  <2> SUFFICES ASSUME NEW a \in P!Aios, op[a] # "none"
               PROVE  a = "laio" /\ a \in P!Locals
    BY <1>1 DEF UnderWay
  <2>1. ArmedAt[program][a] < stream_pc /\ stream_pc <= WaitedAt[program][a]
    BY DEF UnderWay
  <2>2. a = "laio" /\ MadeAt[program]["laio"] < stream_pc
    BY <2>1, StreamThrows
  <2> QED BY <2>2 DEF LocalsInOrder, Objects, P!Aios
<1>5. StreamsMade' /\ Transferred'
  <2>1. \A a \in {"aio1", "aio2"} : ~(0 > CheckedAt[program][a])
    BY StreamTables DEF P!Aios
  <2> QED BY <2>1 DEF StreamsMade, Transferred
<1>6. P!OwnedStreamsExist'
  BY <1>1 DEF P!OwnedStreamsExist
<1> QED BY <1>2, <1>3, <1>4, <1>5, <1>6

\* The last step: the program passes.
LEMMA StreamPasses ==
  ASSUME StreamInv, stream_pc = Len(P!Program), stream_pc' = 0,
         UNCHANGED <<program, locals, op, result, count, streams, stream_failed>>
  PROVE  StreamInv'
<1> USE DEF StreamInv
<1>1. P!Locals' = P!Locals /\ P!Program' = P!Program
  BY DEF P!Locals, P!Program
<1>2. stream_pc > 0 /\ Len(P!Program) \in Nat
  BY StreamTables DEF P!Aios
<1>3. \A x \in Objects : x \in P!Locals
  BY <1>2, StreamTables DEF LocalsInOrder
<1>4. \A a \in P!Aios : op[a] = "none"
  <2> SUFFICES ASSUME NEW a \in P!Aios, op[a] # "none" PROVE FALSE
    OBVIOUS
  <2>1. stream_pc <= WaitedAt[program][a]
    BY <1>2 DEF UnderWay
  <2> QED BY <1>2, <2>1, StreamTables
<1>5. count["aio1"] = Size /\ count["aio2"] = Size
  BY StreamTables DEF Transferred, P!Aios
<1>6. StreamTypes' /\ LocalsInOrder' /\ UnderWay' /\ StreamsMade'
  BY <1>1, <1>2, <1>4 DEF StreamTypes, LocalsInOrder, UnderWay, StreamsMade
<1>7. Transferred'
  <2>1. streams \subseteq P!Locals
    BY <1>3 DEF StreamTypes, Objects
  <2>2. \A a \in {"aio1", "aio2"} : ~(0 > CheckedAt[program][a])
    BY StreamTables DEF P!Aios
  <2> QED BY <1>1, <1>2, <1>4, <1>5, <2>1, <2>2 DEF Transferred
<1>8. P!OwnedStreamsExist'
  BY <1>1 DEF P!OwnedStreamsExist
<1> QED BY <1>6, <1>7, <1>8

-----------------------------------------------------------------------------
\* An object is made, of the output of an aio in the second case.
LEMMA StreamMakes ==
  ASSUME StreamInv, NEW x \in Objects,
         \/ P!make(x) /\ x \notin {"c1", "c2"}
         \/ P!own(x)
  PROVE  StreamInv'
<1> USE DEF StreamInv
<1>1. PICK what \in {"make", "own"} : P!At(what, x) /\ (what = "make" => x \notin {"c1", "c2"})
  BY DEF P!make, P!own
<1>2. /\ stream_pc \in 1 .. Len(P!Program) - 1
      /\ \A y \in Objects : MadeAt[program][y] = stream_pc <=> y = x
      /\ \A a \in P!Aios : /\ ArmedAt[program][a] # stream_pc
                           /\ WaitedAt[program][a] # stream_pc
                           /\ CheckedAt[program][a] # stream_pc
  BY <1>1, StreamAt, StreamTables
<1>3. /\ stream_pc' = stream_pc + 1 /\ locals' = Append(locals, x)
      /\ UNCHANGED <<program, op, result, count, streams, stream_failed>>
  BY <1>2, StreamTables DEF P!make, P!own, P!GoOn, P!aios
<1>4. /\ locals \in Seq(Objects) /\ locals' \in Seq(Objects)
      /\ Len(locals') = Len(locals) + 1
      /\ \A i \in 1 .. Len(locals) : locals'[i] = locals[i]
      /\ locals'[Len(locals) + 1] = x
      /\ DOMAIN locals = 1 .. Len(locals) /\ DOMAIN locals' = 1 .. Len(locals) + 1
      /\ Len(locals) \in Nat
  BY <1>3, AppendProperties, LenProperties DEF StreamTypes
<1>5. P!Locals' = P!Locals \cup {x}
  BY <1>4 DEF P!Locals
<1>6. P!Program' = P!Program
  BY <1>3 DEF P!Program
<1>7. StreamTypes'
  BY <1>2, <1>3, <1>4, <1>6, StreamTables DEF StreamTypes
<1>8. LocalsInOrder'
  <2>1. ASSUME NEW i \in 1 .. Len(locals) + 1, NEW j \in 1 .. Len(locals) + 1, i < j
        PROVE  MadeAt[program][locals'[i]] < MadeAt[program][locals'[j]]
    <3>1. i \in 1 .. Len(locals) /\ locals'[i] = locals[i]
      BY <1>4, <2>1
    <3>2. CASE j \in 1 .. Len(locals)
      BY <1>4, <2>1, <3>1, <3>2 DEF LocalsInOrder
    <3>3. CASE j = Len(locals) + 1
      <4>1. locals[i] \in P!Locals /\ locals[i] \in Objects
        BY <1>4, <3>1, ElementOfSeq DEF P!Locals
      <4>2. MadeAt[program][locals[i]] < stream_pc
        BY <1>2, <4>1 DEF LocalsInOrder
      <4> QED BY <1>2, <1>4, <3>1, <3>3, <4>2
    <3> QED BY <1>4, <3>2, <3>3
  <2>2. ASSUME NEW y \in Objects
        PROVE  y \in P!Locals \cup {x} <=> MadeAt[program][y] < stream_pc + 1
    <3>1. y \in P!Locals <=> MadeAt[program][y] < stream_pc
      BY <1>2 DEF LocalsInOrder
    <3>2. MadeAt[program][y] \in Nat
      BY StreamTables
    <3> QED BY <1>2, <3>1, <3>2
  <2>3. ASSUME NEW y \in Objects, NEW z \in Objects, y \in P!Locals \cup {x},
               MadeAt[program][z] < MadeAt[program][y]
        PROVE  z \in P!Locals \cup {x}
    <3>1. MadeAt[program][y] \in Nat /\ MadeAt[program][z] \in Nat
      BY StreamTables
    <3> QED BY <1>2, <2>2, <2>3, <3>1
  <2> QED BY <1>2, <1>3, <1>4, <1>5, <2>1, <2>2, <2>3 DEF LocalsInOrder
<1>9. UnderWay'
  BY <1>2, <1>3, StreamTables DEF UnderWay
<1>10. StreamsMade' /\ Transferred'
  <2>1. \A a \in P!Aios :
          /\ stream_pc + 1 > ArmedAt[program][a] <=> stream_pc > ArmedAt[program][a]
          /\ stream_pc + 1 > CheckedAt[program][a] <=> stream_pc > CheckedAt[program][a]
    BY <1>2, StreamTables
  <2>2. {"daio", "laio", "aio1", "aio2"} \subseteq P!Aios
    BY DEF P!Aios
  <2>3. stream_pc > 0 /\ stream_pc' > 0 /\ stream_pc' # 0
    BY <1>2, <1>3, StreamTables
  <2>4. StreamsMade'
    BY <1>3, <2>1, <2>2, <2>3 DEF StreamsMade
  <2> QED BY <1>3, <2>1, <2>2, <2>3, <2>4 DEF Transferred
<1>11. P!OwnedStreamsExist'
  <2>1. x \in {"c1", "c2"} => x \in streams
    <3>1. x = "c1" => P!Output["daio"] \in streams
      BY <1>2, StreamTables DEF StreamsMade, P!Aios
    <3>2. x = "c2" => P!Output["laio"] \in streams
      BY <1>2, StreamTables DEF StreamsMade, P!Aios
    <3> QED BY <3>1, <3>2 DEF P!Output
  <2> QED BY <1>3, <1>5, <2>1 DEF P!OwnedStreamsExist
<1> QED BY <1>7, <1>8, <1>9, <1>10, <1>11

\* A call of the library, the arming of an aio, and a wait
LEMMA StreamSteps1 ==
  ASSUME StreamInv, P!call \/ P!Throw \/ \E a \in P!Aios : P!arm(a) \/ P!wait(a)
  PROVE  StreamInv'
<1> USE DEF StreamInv
<1>1. CASE P!call
  <2>1. PICK what \in P!Calls, x \in {"l", "c1", "c2"} : P!At(what, x)
    BY <1>1 DEF P!call
  <2>2. /\ stream_pc \in 1 .. Len(P!Program)
        /\ \A y \in Objects : MadeAt[program][y] # stream_pc
        /\ \A a \in P!Aios : /\ ArmedAt[program][a] # stream_pc
                             /\ WaitedAt[program][a] # stream_pc
                             /\ CheckedAt[program][a] # stream_pc
    BY <2>1, StreamAt DEF P!Calls
  <2>3. UNCHANGED <<program, locals, op, result, count, streams, stream_failed>>
    BY <1>1 DEF P!call, P!aios
  <2>4. CASE stream_pc = Len(P!Program)
    BY <1>1, <2>3, <2>4, StreamPasses DEF P!call, P!GoOn
  <2>5. CASE stream_pc # Len(P!Program)
    <3>1. stream_pc' = stream_pc + 1 /\ stream_pc \in 1 .. Len(P!Program) - 1
      BY <1>1, <2>2, <2>5, StreamTables DEF P!call, P!GoOn
    <3>2. DOMAIN op' = P!Aios /\ \A a \in P!Aios : op'[a] \in {"none", P!Armed[a]}
      BY <2>3 DEF StreamTypes
    <3>3. \A a \in {"daio", "laio", "aio1", "aio2"} : stream_pc # CheckedAt[program][a]
      BY <2>2 DEF P!Aios
    <3>4. op' = op
      BY <2>3
    <3> QED BY <2>2, <2>3, <3>1, <3>2, <3>3, <3>4, StreamAdvance
  <2> QED BY <2>4, <2>5
<1>2. CASE P!Throw
  <2>1. stream_pc \in DOMAIN P!Program /\ P!Program[stream_pc][1] \in {"make"} \cup P!Calls
    BY <1>2 DEF P!Throw
  <2> DEFINE what == P!Program[stream_pc][1]
             x == P!Program[stream_pc][2]
  <2>2. P!Program[stream_pc] = <<what, x>>
    <3>1. CASE program = "tcp"
      <4>1. P!Program = P!tcp /\ stream_pc \in 1 .. 27
        BY <2>1, <3>1, TcpText DEF P!Program
      <4>2. \A i \in 1 .. 27 : P!tcp[i] = <<P!tcp[i][1], P!tcp[i][2]>>
        BY TcpText
      <4> QED BY <4>1, <4>2
    <3>2. CASE program = "ipc"
      <4>1. P!Program = P!ipc /\ stream_pc \in 1 .. 22
        BY <2>1, <3>2, IpcText DEF P!Program
      <4>2. \A i \in 1 .. 22 : P!ipc[i] = <<P!ipc[i][1], P!ipc[i][2]>>
        BY IpcText
      <4> QED BY <4>1, <4>2
    <3> QED BY <3>1, <3>2 DEF StreamTypes
  <2>3. P!At(what, x) /\ what \in {"make", "check"} \cup P!Calls
    BY <2>1, <2>2 DEF P!At
  <2> HIDE DEF what, x
  <2>4. stream_pc \in 1 .. Len(P!Program)
    BY <2>3, StreamAt
  <2> QED BY <1>2, <2>3, <2>4, StreamUnwinds DEF P!Throw, P!aios
<1>3. ASSUME NEW a \in P!Aios, P!arm(a) \/ P!wait(a) PROVE StreamInv'
  <2>1. PICK what \in {"arm", "wait"} : P!At(what, a) /\ (what = "arm" => P!arm(a))
                                        /\ (what = "wait" => P!wait(a))
    BY <1>3 DEF P!arm, P!wait
  <2>2. /\ stream_pc \in 1 .. Len(P!Program) - 1
        /\ \A y \in Objects : MadeAt[program][y] # stream_pc
        /\ \A b \in P!Aios : /\ ArmedAt[program][b] = stream_pc <=> what = "arm" /\ b = a
                             /\ WaitedAt[program][b] = stream_pc <=> what = "wait" /\ b = a
                             /\ CheckedAt[program][b] # stream_pc
    BY <2>1, StreamAt, StreamTables
  <2>3. /\ stream_pc' = stream_pc + 1
        /\ UNCHANGED <<program, locals, result, count, streams, stream_failed>>
    BY <1>3, <2>2, StreamTables DEF P!arm, P!wait, P!GoOn, P!aios
  <2>4. /\ DOMAIN op' = P!Aios
        /\ \A b \in P!Aios : op'[b] = IF what = "arm" /\ b = a THEN P!Armed[a] ELSE op[b]
        /\ what = "wait" => op[a] = "none"
    BY <2>1 DEF P!arm, P!wait, P!aios, StreamTypes
  <2>5. \A b \in P!Aios : P!Armed[b] # "none"
    BY DEF P!Armed, P!Aios
  <2>6. \A b \in P!Aios : op'[b] \in {"none", P!Armed[b]}
    BY <2>4 DEF StreamTypes
  <2>7. \A b \in {"daio", "laio", "aio1", "aio2"} : stream_pc # CheckedAt[program][b]
    BY <2>2 DEF P!Aios
  <2>8. \A b \in P!Aios :
           /\ \/ op'[b] = "none"
              \/ op[b] # "none" /\ stream_pc # WaitedAt[program][b]
              \/ stream_pc = ArmedAt[program][b]
           /\ op'[b] = "none" => op[b] = "none" /\ stream_pc # ArmedAt[program][b]
    BY <2>1, <2>2, <2>4, <2>5
  <2> QED BY <2>2, <2>3, <2>4, <2>6, <2>7, <2>8, StreamAdvance
<1> QED BY <1>1, <1>2, <1>3

\* The result of an operation is looked at.
LEMMA StreamChecks ==
  ASSUME StreamInv, NEW a \in P!Aios, P!check(a)
  PROVE  StreamInv'
<1> USE DEF StreamInv
<1>1. /\ stream_pc \in 1 .. Len(P!Program) - 1
      /\ \A y \in Objects : MadeAt[program][y] # stream_pc
      /\ \A b \in P!Aios : /\ ArmedAt[program][b] # stream_pc
                           /\ WaitedAt[program][b] # stream_pc
                           /\ CheckedAt[program][b] = stream_pc <=> b = a
  BY StreamAt, StreamTables DEF P!check
<1>2. UNCHANGED <<program, locals, op, result, count, streams>>
  BY DEF P!check, P!aios
<1>3. CASE result[a] = "success" /\ (a \in {"aio1", "aio2"} => count[a] = Size)
  <2>1. stream_pc' = stream_pc + 1 /\ UNCHANGED stream_failed
    BY <1>1, <1>3, StreamTables DEF P!check, P!GoOn
  <2>2. DOMAIN op' = P!Aios /\ \A b \in P!Aios : op'[b] \in {"none", P!Armed[b]}
    BY <1>2 DEF StreamTypes
  <2>3. op[a] = "none" /\ stream_pc > ArmedAt[program][a]
    BY <1>1, StreamTables DEF UnderWay
  <2>4. \A b \in {"daio", "laio"} :
           stream_pc = CheckedAt[program][b] => P!Output[b] \in streams
    BY <1>1, <1>3, <2>3 DEF StreamsMade, P!Aios
  <2>5. \A b \in {"aio1", "aio2"} :
           stream_pc = CheckedAt[program][b] => count[b] = Size
    BY <1>1, <1>3 DEF P!Aios
  <2>6. op' = op
    BY <1>2
  <2> QED BY <1>1, <1>2, <2>1, <2>2, <2>4, <2>5, <2>6, StreamAdvance
<1>4. CASE ~(result[a] = "success" /\ (a \in {"aio1", "aio2"} => count[a] = Size))
  <2>1. stream_pc' = 0 /\ stream_failed' = TRUE /\ P!At("check", a)
    BY <1>4 DEF P!check
  <2>2. stream_pc \in 1 .. Len(P!Program)
    BY <1>1, StreamTables
  <2> QED BY <1>2, <2>1, <2>2, StreamUnwinds
<1> QED BY <1>3, <1>4


\* The last object is destroyed.
LEMMA StreamDestroys ==
  ASSUME StreamInv, P!destroy
  PROVE  StreamInv'
<1> USE DEF StreamInv
<1>1. /\ stream_pc = 0 /\ locals # <<>>
      /\ UNCHANGED <<program, stream_pc, result, count, stream_failed>>
  BY DEF P!destroy
<1>2. Len(locals) \in Nat /\ Len(locals) > 0 /\ DOMAIN locals = 1 .. Len(locals)
      /\ locals \in Seq(Objects)
  BY <1>1, EmptySeq, LenProperties DEF StreamTypes
<1>3. PICK k \in Nat : Len(locals) = k + 1
  <2>1. Len(locals) - 1 \in Nat /\ Len(locals) = (Len(locals) - 1) + 1
    BY <1>2
  <2> QED BY <2>1
<1>4. PICK x \in Objects : x = locals[k + 1]
  BY <1>2, <1>3, ElementOfSeq
<1>5. /\ locals' = SubSeq(locals, 1, k)
      /\ op' = [a \in P!Aios |-> IF a = x THEN "none" ELSE op[a]]
      /\ streams' = streams \ {x}
  BY <1>3, <1>4 DEF P!destroy
<1>6. /\ locals' \in Seq(Objects) /\ Len(locals') = k /\ DOMAIN locals' = 1 .. k
      /\ \A i \in 1 .. k : locals'[i] = locals[i]
  BY <1>2, <1>3, <1>5, SubSeqProperties, LenProperties
<1>7. \A i \in 1 .. k : MadeAt[program][locals[i]] < MadeAt[program][x]
  BY <1>2, <1>3, <1>4 DEF LocalsInOrder
<1>8. P!Locals = {locals[i] : i \in 1 .. k} \cup {x}
  BY <1>2, <1>3, <1>4 DEF P!Locals
<1>9. P!Locals' = {locals[i] : i \in 1 .. k}
  BY <1>6 DEF P!Locals
<1>10. x \notin P!Locals' /\ P!Locals = P!Locals' \cup {x}
  BY <1>4, <1>7, <1>8, <1>9, StreamTables
<1>11. P!Program' = P!Program
  BY <1>1 DEF P!Program
<1>12. StreamTypes'
  BY <1>1, <1>5, <1>6, <1>11 DEF StreamTypes
<1>13. LocalsInOrder'
  <2>1. \A i, j \in 1 .. k :
          i < j => MadeAt[program][locals[i]] < MadeAt[program][locals[j]]
    BY <1>2, <1>3 DEF LocalsInOrder
  <2>2. ASSUME NEW y \in Objects, NEW z \in Objects, y \in P!Locals',
               MadeAt[program][z] < MadeAt[program][y]
        PROVE  z \in P!Locals'
    <3>1. z \in P!Locals
      BY <1>10, <2>2 DEF LocalsInOrder
    <3>2. MadeAt[program][y] < MadeAt[program][x]
      BY <1>7, <1>9, <2>2
    <3>3. z # x
      BY <2>2, <3>2, StreamTables
    <3> QED BY <1>10, <3>1, <3>3
  <2> QED BY <1>1, <1>6, <2>1, <2>2 DEF LocalsInOrder
<1>14. UnderWay'
  BY <1>1, <1>5, <1>10 DEF UnderWay
<1>15. StreamsMade' /\ Transferred'
  <2>1. StreamsMade'
    BY <1>1 DEF StreamsMade
  <2>2. \A a \in {"aio1", "aio2"} : ~(0 > CheckedAt[program][a])
    BY StreamTables DEF P!Aios
  <2> QED BY <1>1, <1>5, <1>10, <2>1, <2>2 DEF Transferred
<1>16. P!OwnedStreamsExist'
  BY <1>5, <1>10 DEF P!OwnedStreamsExist
<1> QED BY <1>12, <1>13, <1>14, <1>15, <1>16

\* An operation completes.
LEMMA StreamCompletes ==
  ASSUME StreamInv, NEW a \in P!Aios, P!Succeed(a) \/ P!Fail(a)
  PROVE  StreamInv'
<1> USE DEF StreamInv
<1>1. UNCHANGED <<program, stream_pc, locals, stream_failed>>
  BY DEF P!Succeed, P!Fail
<1>2. op[a] # "none"
  BY DEF P!Succeed, P!Fail, P!Ready
<1>3. P!Locals' = P!Locals /\ P!Program' = P!Program
  BY <1>1 DEF P!Locals, P!Program
<1>4. DOMAIN op' = P!Aios /\ \A b \in P!Aios : op'[b] = IF b = a THEN "none" ELSE op[b]
  BY DEF P!Succeed, P!Fail, StreamTypes
<1>5. result' \in [P!Aios -> {"success", "error"}]
      /\ \A b \in P!Aios \ {a} : result'[b] = result[b]
  BY DEF P!Succeed, P!Fail, StreamTypes
<1>6. count' \in [P!Aios -> 0 .. Size]
      /\ \A b \in P!Aios \ {a} : count'[b] = count[b]
  <2>1. Size \in Nat /\ count["aio1"] \in 0 .. Size
    BY StreamPairAssumption DEF P!Assumption, StreamTypes, P!Aios
  <2>2. CASE P!Fail(a)
    BY <2>2 DEF P!Fail, StreamTypes
  <2>3. CASE P!Succeed(a)
    <3>1. PICK k \in CASE a = "aio1" -> 1 .. Size
                       [] a = "aio2" -> 1 .. count["aio1"]
                       [] OTHER      -> {0} :
            count' = [count EXCEPT ![a] = k]
      BY <2>3 DEF P!Succeed
    <3>2. k \in 0 .. Size
      <4>1. CASE a = "aio1"
        BY <2>1, <3>1, <4>1
      <4>2. CASE a = "aio2"
        BY <2>1, <3>1, <4>2
      <4>3. CASE a \notin {"aio1", "aio2"}
        BY <2>1, <3>1, <4>3
      <4> QED BY <4>1, <4>2, <4>3
    <3> QED BY <3>1, <3>2 DEF StreamTypes
  <2> QED BY <2>2, <2>3
<1>7. /\ streams \subseteq streams' /\ streams' \subseteq {"c1", "c2"}
      /\ a \in {"daio", "laio"} /\ result'[a] = "success" => P!Output[a] \in streams'
      /\ P!OwnedStreamsExist'
  <2>1. DOMAIN P!Output = {"daio", "laio"} /\ P!Output["daio"] = "c1"
        /\ P!Output["laio"] = "c2"
    BY DEF P!Output
  <2>2. CASE P!Fail(a)
    BY <1>3, <2>2 DEF P!Fail, StreamTypes, P!OwnedStreamsExist
  <2>3. CASE P!Succeed(a)
    BY <1>3, <2>1, <2>3 DEF P!Succeed, StreamTypes, P!OwnedStreamsExist
  <2> QED BY <2>2, <2>3
<1>8. StreamTypes'
  BY <1>1, <1>3, <1>4, <1>5, <1>6, <1>7 DEF StreamTypes
<1>9. LocalsInOrder' /\ UnderWay'
  BY <1>1, <1>3, <1>4 DEF LocalsInOrder, UnderWay
<1>10. StreamsMade'
  <2> SUFFICES ASSUME NEW b \in {"daio", "laio"}, stream_pc > 0
               PROVE  /\ /\ stream_pc > ArmedAt[program][b] /\ op'[b] = "none"
                         /\ result'[b] = "success"
                         => P!Output[b] \in streams'
                      /\ stream_pc > CheckedAt[program][b] => P!Output[b] \in streams'
    BY <1>1 DEF StreamsMade
  <2>1. b \in P!Aios
    BY DEF P!Aios
  <2>2. CASE b = a
    <3>1. ~(stream_pc > CheckedAt[program][b])
      BY <1>2, <2>1, <2>2, StreamTables DEF UnderWay, StreamTypes
    <3> QED BY <1>7, <2>2, <3>1
  <2>3. CASE b # a
    BY <1>4, <1>5, <1>7, <2>1, <2>3 DEF StreamsMade
  <2> QED BY <2>2, <2>3
<1>11. Transferred'
  <2>1. ASSUME NEW b \in {"aio1", "aio2"}, stream_pc > CheckedAt[program][b]
        PROVE  count'[b] = Size
    <3>1. b \in P!Aios /\ count[b] = Size
      BY <2>1 DEF Transferred, P!Aios
    <3>2. b # a
      <4>1. CASE stream_pc > 0
        BY <1>2, <2>1, <3>1, <4>1, StreamTables DEF UnderWay, StreamTypes
      <4>2. CASE stream_pc = 0
        BY <2>1, <3>1, <4>2, StreamTables
      <4> QED BY <4>1, <4>2, StreamTables DEF StreamTypes
    <3> QED BY <1>6, <3>1, <3>2
  <2>2. ~(stream_pc = 0 /\ ~stream_failed)
    BY <1>2 DEF Transferred
  <2> QED BY <1>1, <2>1, <2>2 DEF Transferred
<1> QED BY <1>7, <1>8, <1>9, <1>10, <1>11

-----------------------------------------------------------------------------
LEMMA StreamInit == P!Init => StreamInv
<1> SUFFICES ASSUME P!Init PROVE StreamInv
  OBVIOUS
<1>1. Size \in Nat /\ P!Locals = {}
  BY StreamPairAssumption DEF P!Assumption, P!Init, P!Locals
<1>2. Len(P!Program) \in {22, 27}
  BY TcpText, IpcText DEF P!Init, P!Program
<1>3. StreamTypes
  <2>1. locals \in Seq(Objects)
    BY EmptySeq DEF P!Init
  <2>2. DOMAIN op = P!Aios /\ \A a \in P!Aios : op[a] \in {"none", P!Armed[a]}
    BY DEF P!Init
  <2>3. result \in [P!Aios -> {"success", "error"}] /\ count \in [P!Aios -> 0 .. Size]
    BY <1>1 DEF P!Init
  <2>4. stream_pc \in 0 .. Len(P!Program) /\ program \in {"tcp", "ipc"}
    <3>1. PICK k \in {22, 27} : k = Len(P!Program)
      BY <1>2
    <3>2. 1 \in 0 .. k
      OBVIOUS
    <3> QED BY <3>1, <3>2 DEF P!Init
  <2>5. streams \subseteq {"c1", "c2"} /\ stream_failed \in BOOLEAN
    BY DEF P!Init
  <2> QED BY <2>1, <2>2, <2>3, <2>4, <2>5 DEF StreamTypes
<1>4. \A x \in Objects : ~(MadeAt[program][x] < 1)
  BY DEF P!Init, MadeAt, Objects, P!Aios
<1>5. LocalsInOrder
  BY <1>1, <1>4 DEF P!Init, LocalsInOrder
<1>6. UnderWay /\ P!OwnedStreamsExist
  BY <1>1 DEF P!Init, UnderWay, P!OwnedStreamsExist
<1>7. \A a \in P!Aios : ~(1 > ArmedAt[program][a]) /\ ~(1 > CheckedAt[program][a])
  BY DEF P!Init, ArmedAt, CheckedAt, P!Aios
<1>8. StreamsMade /\ Transferred
  BY <1>7 DEF P!Init, StreamsMade, Transferred, P!Aios
<1> QED BY <1>3, <1>5, <1>6, <1>8 DEF StreamInv

LEMMA StreamNext == StreamInv /\ [P!Next]_(P!vars) => StreamInv'
<1> SUFFICES ASSUME StreamInv, [P!Next]_(P!vars) PROVE StreamInv'
  OBVIOUS
<1>1. CASE UNCHANGED P!vars
  <2>1. UNCHANGED <<program, stream_pc, locals, op, result, count, streams, stream_failed>>
    BY <1>1 DEF P!vars, P!aios
  <2>2. P!Locals' = P!Locals /\ P!Program' = P!Program
    BY <2>1 DEF P!Locals, P!Program
  <2> QED BY <2>1, <2>2 DEF StreamInv, StreamTypes, LocalsInOrder, UnderWay, StreamsMade,
        Transferred, P!OwnedStreamsExist
<1>2. CASE P!Main
  <2>1. ASSUME NEW x \in {"d", "l"} \cup P!Aios, P!make(x) PROVE StreamInv'
    BY <2>1, StreamMakes DEF Objects, P!Aios
  <2>2. ASSUME NEW x \in {"c1", "c2"}, P!own(x) PROVE StreamInv'
    BY <2>2, StreamMakes DEF Objects
  <2> QED BY <1>2, <2>1, <2>2, StreamSteps1, StreamChecks, StreamDestroys DEF P!Main
<1> QED BY <1>1, <1>2, StreamCompletes DEF P!Next

\* The parts of the properties that are about StreamPair
LEMMA StreamProperties ==
  StreamInv => P!TypeOK /\ P!ObjectsOutliveOperations /\ P!PassMeansTransferred
<1> SUFFICES ASSUME StreamInv
             PROVE  P!TypeOK /\ P!ObjectsOutliveOperations /\ P!PassMeansTransferred
  OBVIOUS
<1> USE DEF StreamInv
<1>1. P!TypeOK
  <2>1. P!Locals \subseteq {"d", "l", "c1", "c2"} \cup P!Aios
    BY ElementOfSeq, LenProperties DEF P!Locals, StreamTypes, Objects
  <2>2. ASSUME NEW a \in P!Aios, P!At("check", a) PROVE op[a] = "none"
    <3>1. CheckedAt[program][a] = stream_pc /\ stream_pc \in 1 .. Len(P!Program)
      BY <2>2, StreamAt
    <3> QED BY <3>1, StreamTables DEF UnderWay
  <2> QED BY <2>1, <2>2 DEF StreamTypes, P!TypeOK
<1>2. P!ObjectsOutliveOperations
  <2> SUFFICES ASSUME NEW a \in P!Aios, op[a] # "none" PROVE P!Uses[a] \subseteq P!Locals
    BY DEF P!ObjectsOutliveOperations
  <2>1. CASE stream_pc > 0
    <3>1. ArmedAt[program][a] < stream_pc
      BY <2>1 DEF UnderWay
    <3>2. \A x \in P!Uses[a] : x \in Objects /\ MadeAt[program][x] < ArmedAt[program][a]
      <4>1. CASE a = "daio"
        BY <4>1 DEF P!Uses, Objects, MadeAt, ArmedAt, StreamTypes
      <4>2. CASE a = "laio"
        BY <4>2 DEF P!Uses, Objects, MadeAt, ArmedAt, StreamTypes
      <4>3. CASE a = "aio1"
        BY <4>3 DEF P!Uses, Objects, MadeAt, ArmedAt, StreamTypes
      <4>4. CASE a = "aio2"
        BY <4>4 DEF P!Uses, Objects, MadeAt, ArmedAt, StreamTypes
      <4> QED BY <4>1, <4>2, <4>3, <4>4 DEF P!Aios
    <3>3. \A x \in P!Uses[a] : MadeAt[program][x] < stream_pc
      BY <3>1, <3>2, StreamTables DEF StreamTypes
    <3> QED BY <2>1, <3>2, <3>3 DEF LocalsInOrder
  <2>2. CASE ~(stream_pc > 0)
    <3>1. a = "laio" /\ "laio" \in P!Locals
      BY <2>2 DEF UnderWay
    <3>2. "l" \in P!Locals
      BY <3>1, StreamTables DEF LocalsInOrder, Objects, P!Aios
    <3> QED BY <3>1, <3>2 DEF P!Uses
  <2> QED BY <2>1, <2>2
<1>3. P!PassMeansTransferred
  <2>1. locals = <<>> => P!Locals = {}
    BY DEF P!Locals
  <2> QED BY <2>1 DEF Transferred, P!PassMeansTransferred
<1> QED BY <1>1, <1>2, <1>3

-----------------------------------------------------------------------------
(* test/pipe.cpp: connections, events and what is left of the testcases.   *)

PipeStates == {"none", "pre", "notified", "post", "up", "dead", "gone"}
AfterAddPre == {"notified", "post", "up", "dead", "gone"}
Endpoint(s) == N!Has(s, "endpoint")
End == Len(N!Program)

\* The members of a testcase as it is destroyed
Remains == {<<>>, <<"lk">>, <<"lk", "cv">>, <<"lk", "cv", "s">>, N!testcase}

PipeTypes ==
  /\ test \in {"dialing", "reconnection", "reject"}
  /\ pc \in 1 .. End + 1
  /\ assigned \in [N!Sides -> BOOLEAN]
  /\ members \in [N!Sides -> Remains]
  /\ n \in [N!Sides -> [add_pre : Nat, add_post : Nat, rem : Nat, err : Nat,
                        rej : {0, 1}]]
  /\ p \in [N!Sides -> 1 .. conns \cup {Null}]
  /\ started \in [N!Sides -> BOOLEAN]
  /\ conns \in 0 .. 2 /\ conns <= MaxConns
  /\ pipe \in [N!Sides -> [N!Conns -> PipeStates]]
  /\ closed \subseteq N!Sides \X (1 .. conns)
  /\ reaper \in Seq(N!Sides \X Nat)
  /\ \A k \in DOMAIN reaper : reaper[k] \in closed

\* What main has made and destroyed. Testcase pull is destroyed first.
MainAt ==
  /\ pc \in 2 .. End - 2 => assigned["pull"]
  /\ pc \in 3 .. End - 2 => assigned["push"]
  /\ pc \in 6 .. End - 2 => n["pull"].add_pre > 0
  /\ pc < End - 1 => members["pull"] = N!testcase
  /\ pc < End => members["push"] = N!testcase
  /\ pc >= End => members["pull"] = <<>>

\* A testcase has its dialer or listener when pipes come, and its socket until
\* they are gone.
Prepared ==
  /\ \A s \in N!Sides :
       /\ started[s] => Endpoint(s) /\ assigned[s]
       /\ conns > 0 => assigned[s]
       /\ ~N!Has(s, "s") =>
            \A i \in N!Conns : pipe[s][i] \in {"none", "gone"}

\* A pipe's state, and whether it was closed. Only testcase pull rejects.
PipesInPlace ==
  \A s \in N!Sides, i \in N!Conns :
    /\ pipe[s][i] = "none" <=> i > conns
    /\ pipe[s][i] \in {"dead", "gone"} => <<s, i>> \in closed
    /\ pipe[s][i] = "notified" => s = "pull" /\ test = "reject"

\* How many of the two pipes of a side are in a state
Is(s, i, Z) == IF i <= conns /\ pipe[s][i] \in Z THEN 1 ELSE 0
HowMany(s, Z) == Is(s, 1, Z) + Is(s, 2, Z)

\* Each event was counted once, and none was missed before the destruction.
EventsCounted ==
  \A s \in N!Sides :
    /\ n[s].add_pre <= HowMany(s, AfterAddPre)
    /\ Endpoint(s) => n[s].add_pre = HowMany(s, AfterAddPre)
    /\ n[s].add_post <= HowMany(s, {"up", "gone"})
    /\ n[s].rem <= HowMany(s, {"gone"})
    /\ Endpoint(s) => n[s].err = 0

\* It is pull's pipe that is closed first, and removed first.
PullFirst ==
  /\ \A i \in N!Conns : <<"push", i>> \in closed => <<"pull", i>> \in closed
  /\ \A a, b \in DOMAIN reaper : a < b =>
       \A i \in N!Conns : ~(reaper[a] = <<"push", i>> /\ reaper[b] = <<"pull", i>>)

\* Until the destruction begins: a closed pipe is gone or waits for the reaper;
\* pull's pipe is gone before push's is, and with it all but the newest
\* connection; one connection at most is closed, by main or by the callback; and
\* pull's last event was of the newest connection.
BeforeDestruction ==
  Endpoint("pull") =>
    /\ \A s \in N!Sides, i \in 1 .. conns : <<s, i>> \in closed =>
         pipe[s][i] = "gone" \/ \E k \in DOMAIN reaper : reaper[k] = <<s, i>>
    /\ \A i \in 1 .. conns : pipe["push"][i] = "gone" => pipe["pull"][i] = "gone"
    /\ \A i \in 1 .. conns : i < conns => pipe["push"][i] = "gone"
    /\ \A i \in 1 .. conns : <<"pull", i>> \in closed =>
         /\ i = 1
         /\ \/ test = "reconnection" /\ pc > 13
            \/ test = "reject" /\ n["pull"].rej = 1
    /\ conns > 0 /\ pipe["pull"][conns] \in AfterAddPre \ {"gone"} =>
         p["pull"] = conns
    /\ n["pull"].add_pre > 0 => p["pull"] # Null

PipeInv ==
  /\ PipeTypes /\ MainAt /\ Prepared /\ PipesInPlace /\ EventsCounted /\ PullFirst
  /\ BeforeDestruction
  /\ N!LastPipeIsInUse /\ N!NoMisuse

-----------------------------------------------------------------------------
\* The text of the three programs
LEMMA SetupText ==
  ASSUME PipeTypes
  PROVE  /\ End \in {14, 15, 24} /\ DOMAIN N!Program = 1 .. End
         /\ N!Program[1] = <<"make", "pull">> /\ N!Program[2] = <<"make", "push">>
         /\ N!Program[3] = <<"start", "pull">> /\ N!Program[4] = <<"start", "push">>
         /\ \E v \in {1, 2} : N!Program[5] = <<"expect", "pull", "add_pre", v>>
         /\ N!Program[End - 1] = <<"destroy", "pull">>
         /\ N!Program[End] = <<"destroy", "push">>
         /\ \A i \in 5 .. End - 2 :
              /\ N!Program[i][1] \in {"expect", "close", "recv"}
              /\ N!Program[i][1] = "close" => test = "reconnection" /\ i = 13
              /\ N!Program[i][1] = "recv" => i = End - 2
<1>1. CASE test = "dialing"
  <2>1. N!Program = N!dialing
    BY <1>1 DEF N!Program
  <2>2. /\ Len(N!dialing) = 15 /\ DOMAIN N!dialing = 1 .. 15
        /\ N!dialing[1] = <<"make", "pull">> /\ N!dialing[2] = <<"make", "push">>
        /\ N!dialing[3] = <<"start", "pull">> /\ N!dialing[4] = <<"start", "push">>
        /\ N!dialing[5] = <<"expect", "pull", "add_pre", 1>>
        /\ N!dialing[6][1] = "expect" /\ N!dialing[7][1] = "expect"
        /\ N!dialing[8][1] = "expect" /\ N!dialing[9][1] = "expect"
        /\ N!dialing[10][1] = "expect" /\ N!dialing[11][1] = "expect"
        /\ N!dialing[12][1] = "expect" /\ N!dialing[13][1] = "recv"
        /\ N!dialing[14] = <<"destroy", "pull">>
        /\ N!dialing[15] = <<"destroy", "push">>
    BY DEF N!dialing, N!setup, N!Expect
  <2> QED BY <1>1, <2>1, <2>2 DEF End
<1>2. CASE test = "reconnection"
  <2>1. N!Program = N!reconnection
    BY <1>2 DEF N!Program
  <2>2. /\ Len(N!reconnection) = 24 /\ DOMAIN N!reconnection = 1 .. 24
        /\ N!reconnection[1] = <<"make", "pull">>
        /\ N!reconnection[2] = <<"make", "push">>
        /\ N!reconnection[3] = <<"start", "pull">>
        /\ N!reconnection[4] = <<"start", "push">>
        /\ N!reconnection[5] = <<"expect", "pull", "add_pre", 1>>
        /\ N!reconnection[23] = <<"destroy", "pull">>
        /\ N!reconnection[24] = <<"destroy", "push">>
    BY DEF N!reconnection, N!setup, N!Expect
  <2>3. /\ N!reconnection[6][1] = "expect" /\ N!reconnection[7][1] = "expect"
        /\ N!reconnection[8][1] = "expect" /\ N!reconnection[9][1] = "expect"
        /\ N!reconnection[10][1] = "expect" /\ N!reconnection[11][1] = "expect"
        /\ N!reconnection[12][1] = "expect" /\ N!reconnection[13][1] = "close"
        /\ N!reconnection[14][1] = "expect" /\ N!reconnection[15][1] = "expect"
        /\ N!reconnection[16][1] = "expect" /\ N!reconnection[17][1] = "expect"
        /\ N!reconnection[18][1] = "expect" /\ N!reconnection[19][1] = "expect"
        /\ N!reconnection[20][1] = "expect" /\ N!reconnection[21][1] = "expect"
        /\ N!reconnection[22][1] = "recv"
    BY DEF N!reconnection, N!setup, N!Expect
  <2> QED BY <1>2, <2>1, <2>2, <2>3 DEF End
<1>3. CASE test = "reject"
  <2>1. N!Program = N!rejecting
    BY <1>3 DEF N!Program
  <2>2. /\ Len(N!rejecting) = 14 /\ DOMAIN N!rejecting = 1 .. 14
        /\ N!rejecting[1] = <<"make", "pull">> /\ N!rejecting[2] = <<"make", "push">>
        /\ N!rejecting[3] = <<"start", "pull">> /\ N!rejecting[4] = <<"start", "push">>
        /\ N!rejecting[5] = <<"expect", "pull", "add_pre", 2>>
        /\ N!rejecting[6][1] = "expect" /\ N!rejecting[7][1] = "expect"
        /\ N!rejecting[8][1] = "expect" /\ N!rejecting[9][1] = "expect"
        /\ N!rejecting[10][1] = "expect" /\ N!rejecting[11][1] = "expect"
        /\ N!rejecting[12][1] = "expect"
        /\ N!rejecting[13] = <<"destroy", "pull">>
        /\ N!rejecting[14] = <<"destroy", "push">>
    BY DEF N!rejecting, N!setup, N!Expect
  <2> QED BY <1>3, <2>1, <2>2 DEF End
<1> QED BY <1>1, <1>2, <1>3 DEF PipeTypes

\* Where main is when it takes a step of each kind
LEMMA PipeAt ==
  ASSUME PipeTypes
  PROVE  /\ End \in Nat /\ End >= 14 /\ pc \in Nat
         /\ N!At("make") => \/ pc = 1 /\ N!Side = "pull"
                            \/ pc = 2 /\ N!Side = "push"
         /\ N!At("start") => \/ pc = 3 /\ N!Side = "pull"
                             \/ pc = 4 /\ N!Side = "push"
         /\ N!At("expect") => /\ pc \in 5 .. End - 2
                              /\ pc = 5 => /\ N!Side = "pull"
                                           /\ N!Program[pc][3] = "add_pre"
                                           /\ N!Program[pc][4] \in {1, 2}
         /\ N!At("close") => pc = 13 /\ test = "reconnection" /\ pc <= End - 2
         /\ N!At("recv") => pc = End - 2
         /\ N!At("destroy") => \/ pc = End - 1 /\ N!Side = "pull"
                               \/ pc = End /\ N!Side = "push"
<1>1. PICK e \in {14, 15, 24} : e = End
  BY SetupText
<1>2. PICK v \in {1, 2} : N!Program[5] = <<"expect", "pull", "add_pre", v>>
  BY SetupText
<1>3. pc \in 1 .. e + 1 /\ DOMAIN N!Program = 1 .. e
  BY <1>1, SetupText DEF PipeTypes
<1>4. \A i \in 5 .. e - 2 :
        /\ N!Program[i][1] \in {"expect", "close", "recv"}
        /\ N!Program[i][1] = "close" => test = "reconnection" /\ i = 13
        /\ N!Program[i][1] = "recv" => i = e - 2
  BY <1>1, SetupText
<1>5. /\ N!Program[1] = <<"make", "pull">> /\ N!Program[2] = <<"make", "push">>
      /\ N!Program[3] = <<"start", "pull">> /\ N!Program[4] = <<"start", "push">>
      /\ N!Program[e - 1] = <<"destroy", "pull">> /\ N!Program[e] = <<"destroy", "push">>
  BY <1>1, SetupText
<1>6. \A i \in 1 .. e :
        i = 1 \/ i = 2 \/ i = 3 \/ i = 4 \/ i \in 5 .. e - 2 \/ i = e - 1 \/ i = e
  BY <1>1
<1>7. /\ \A i \in 1 .. e : N!Program[i][1] = "make" => i = 1 \/ i = 2
      /\ \A i \in 1 .. e : N!Program[i][1] = "start" => i = 3 \/ i = 4
      /\ \A i \in 1 .. e : N!Program[i][1] \in {"expect", "close", "recv"} => i \in 5 .. e - 2
      /\ \A i \in 1 .. e : N!Program[i][1] = "destroy" => i = e - 1 \/ i = e
  BY <1>4, <1>5, <1>6
<1>8. \A x : N!At(x) => pc \in 1 .. e /\ N!Program[pc][1] = x
  BY <1>3 DEF N!At
<1>9. N!Side = N!Program[pc][2]
  BY DEF N!Side
<1>10. N!At("expect") => /\ pc \in 5 .. End - 2
                         /\ pc = 5 => /\ N!Side = "pull"
                                      /\ N!Program[pc][3] = "add_pre"
                                      /\ N!Program[pc][4] \in {1, 2}
  BY <1>1, <1>2, <1>7, <1>8, <1>9
<1>11. /\ N!At("make") => (pc = 1 /\ N!Side = "pull") \/ (pc = 2 /\ N!Side = "push")
       /\ N!At("start") => (pc = 3 /\ N!Side = "pull") \/ (pc = 4 /\ N!Side = "push")
  BY <1>5, <1>7, <1>8, <1>9
<1>12. /\ N!At("close") => pc = 13 /\ test = "reconnection" /\ pc <= End - 2
       /\ N!At("recv") => pc = End - 2
  BY <1>1, <1>4, <1>7, <1>8
<1>13. N!At("destroy") => \/ pc = End - 1 /\ N!Side = "pull"
                          \/ pc = End /\ N!Side = "push"
  BY <1>1, <1>5, <1>7, <1>8, <1>9
<1> QED BY <1>1, <1>3, <1>10, <1>11, <1>12, <1>13

\* What is left of a testcase
LEMMA RemainsHave ==
  ASSUME PipeTypes, NEW s \in N!Sides
  PROVE  /\ Endpoint(s) <=> members[s] = N!testcase
         /\ N!Has(s, "s") => N!Has(s, "lk") /\ N!Has(s, "cv")
         /\ Endpoint(s) => N!Has(s, "s")
         /\ members[s] = <<"lk", "cv", "s">> => N!Has(s, "s") /\ ~Endpoint(s)
         /\ members[s] = <<>> => ~N!Has(s, "s")
<1>1. members[s] \in Remains
  BY DEF PipeTypes
<1>2. CASE members[s] = <<>>
  BY <1>2 DEF N!Has, Endpoint, N!testcase
<1>3. CASE members[s] = <<"lk">>
  BY <1>3 DEF N!Has, Endpoint, N!testcase
<1>4. CASE members[s] = <<"lk", "cv">>
  BY <1>4 DEF N!Has, Endpoint, N!testcase
<1>5. CASE members[s] = <<"lk", "cv", "s">>
  BY <1>5 DEF N!Has, Endpoint, N!testcase
<1>6. CASE members[s] = N!testcase
  BY <1>6 DEF N!Has, Endpoint, N!testcase
<1> QED BY <1>1, <1>2, <1>3, <1>4, <1>5, <1>6 DEF Remains

\* A pipe that is there belongs to a connection that was made, and its testcase
\* has its socket.
LEMMA PipeHasSocket ==
  ASSUME PipeInv, NEW s \in N!Sides, NEW i \in N!Conns, pipe[s][i] # "none"
  PROVE  /\ i \in 1 .. conns /\ i \in Nat /\ assigned[s]
         /\ pipe[s][i] # "gone" => N!Has(s, "s")
<1>1. i \in Nat /\ i >= 1 /\ conns \in Nat
  BY PipeNotifyAssumption DEF N!Assumption, N!Conns, PipeInv, PipeTypes
<1>2. ~(i > conns)
  BY DEF PipeInv, PipesInPlace
<1> QED BY <1>1, <1>2 DEF PipeInv, Prepared

\* One pipe of a side gets another state.
LEMMA HowManyStep ==
  ASSUME PipeTypes, UNCHANGED conns,
         NEW s \in N!Sides, NEW i \in 1 .. conns, NEW v \in PipeStates,
         pipe' = [pipe EXCEPT ![s][i] = v],
         NEW Z
  PROVE  /\ \A t \in N!Sides : t # s => HowMany(t, Z)' = HowMany(t, Z)
         /\ (v \in Z <=> pipe[s][i] \in Z) => HowMany(s, Z)' = HowMany(s, Z)
         /\ v \in Z /\ pipe[s][i] \notin Z => HowMany(s, Z)' = HowMany(s, Z) + 1
<1>1. \A t \in N!Sides : t # s => pipe'[t] = pipe[t]
  BY DEF PipeTypes
<1>2. \A j \in N!Conns : pipe'[s][j] = IF j = i THEN v ELSE pipe[s][j]
  BY DEF PipeTypes
<1>3. \A j \in 1 .. conns : j \in N!Conns
  BY PipeNotifyAssumption DEF PipeTypes, N!Conns, N!Assumption
<1>4. conns \in 0 .. 2 /\ i \in {1, 2} /\ i <= conns
  BY DEF PipeTypes
<1>5. \A t \in N!Sides : t # s => HowMany(t, Z)' = HowMany(t, Z)
  BY <1>1 DEF HowMany, Is
<1>6. \A j \in {1, 2} : j # i => Is(s, j, Z)' = Is(s, j, Z)
  BY <1>2, <1>3, <1>4 DEF Is
<1>7. /\ (v \in Z <=> pipe[s][i] \in Z) => Is(s, i, Z)' = Is(s, i, Z)
      /\ v \in Z /\ pipe[s][i] \notin Z => Is(s, i, Z)' = 1 /\ Is(s, i, Z) = 0
  BY <1>2, <1>3, <1>4 DEF Is
<1>8. \A j \in {1, 2} : Is(s, j, Z) \in {0, 1}
  BY DEF Is
<1> QED BY <1>4, <1>5, <1>6, <1>7, <1>8 DEF HowMany

\* A larger set of states has more pipes, and a side has two at most.
LEMMA HowManyBounds ==
  ASSUME PipeTypes, NEW s, NEW Z, NEW Y, Z \subseteq Y
  PROVE  /\ HowMany(s, Z) \in Nat /\ HowMany(s, Y) \in Nat
         /\ HowMany(s, Z) <= HowMany(s, Y) /\ HowMany(s, Y) <= conns
<1>1. conns \in 0 .. 2
  BY DEF PipeTypes
<1>2. /\ Is(s, 1, Z) \in {0, 1} /\ Is(s, 1, Y) \in {0, 1} /\ Is(s, 1, Z) <= Is(s, 1, Y)
      /\ Is(s, 2, Z) \in {0, 1} /\ Is(s, 2, Y) \in {0, 1} /\ Is(s, 2, Z) <= Is(s, 2, Y)
      /\ conns < 1 => Is(s, 1, Y) = 0
      /\ conns < 2 => Is(s, 2, Y) = 0
  BY <1>1 DEF Is
<1> QED BY <1>1, <1>2 DEF HowMany

\* An event of a pipe whose testcase has its socket
LEMMA Notified ==
  ASSUME PipeTypes, NEW s \in N!Sides, NEW i \in 1 .. conns,
         N!Has(s, "s"), NEW ev \in {"add_pre", "add_post", "rem"},
         N!notify(s, i, ev), UNCHANGED conns
  PROVE  /\ ~misused => ~misused'
         /\ p' \in [N!Sides -> 1 .. conns \cup {Null}]
         /\ n' \in [N!Sides -> [add_pre : Nat, add_post : Nat, rem : Nat, err : Nat,
                               rej : {0, 1}]]
         /\ \A t \in N!Sides : t # s => n'[t] = n[t] /\ p'[t] = p[t]
         /\ p'[s] = p[s] \/ p'[s] = i
         /\ n'[s].rej = n[s].rej
         /\ \A f \in {"add_pre", "add_post", "rem"} :
              IF f = ev THEN n'[s][f] = n[s][f] \/ n'[s][f] = n[s][f] + 1
                        ELSE n'[s][f] = n[s][f]
         /\ Endpoint(s) /\ assigned[s] /\ n[s].add_post <= n[s].add_pre =>
              /\ n'[s][ev] = n[s][ev] + 1
              /\ n'[s].err = n[s].err /\ p'[s] = i
<1> DEFINE C0 == [add_pre : Nat, add_post : Nat, rem : Nat, err : Nat, rej : {0, 1}]
<1>1. ~misused => ~misused'
  <2>1. misused' = (misused \/ ~N!Has(s, "lk") \/ ~N!Has(s, "cv"))
    BY DEF N!notify
  <2> QED BY <2>1, RemainsHave, Zenon
<1>2. n[s] \in C0 /\ n \in [N!Sides -> C0] /\ p \in [N!Sides -> 1 .. conns \cup {Null}]
  BY DEF PipeTypes
<1>3. PICK same : /\ Endpoint(s) => same = assigned[s]
                  /\ IF same
                     THEN /\ n' = [n EXCEPT ![s] = N!Counted(
                                     IF n[s].add_post > n[s].add_pre
                                     THEN [n[s] EXCEPT !.err = @ + 1] ELSE n[s], ev)]
                          /\ p' = [p EXCEPT ![s] = i]
                     ELSE n' = [n EXCEPT ![s].err = @ + 1] /\ p' = p
  BY DEF N!notify, Endpoint
<1>4. CASE ~same
  <2>1. n' = [n EXCEPT ![s] = [n[s] EXCEPT !.err = n[s].err + 1]] /\ p' = p
    BY <1>2, <1>3, <1>4
  <2>2. n[s].err \in Nat
    BY <1>2
  <2>3. [n[s] EXCEPT !.err = n[s].err + 1] \in C0
    BY <1>2, <2>2
  <2>4. n'[s] = [n[s] EXCEPT !.err = n[s].err + 1]
    BY <1>2, <2>1
  <2>5. n' \in [N!Sides -> C0]
    BY <1>2, <2>1, <2>3
  <2>6. n'[s].rej = n[s].rej /\ \A f \in {"add_pre", "add_post", "rem"} : n'[s][f] = n[s][f]
    BY <1>2, <2>4
  <2> QED BY <1>1, <1>2, <1>3, <1>4, <2>1, <2>5, <2>6
<1>5. CASE same
  <2> DEFINE c == IF n[s].add_post > n[s].add_pre
                  THEN [n[s] EXCEPT !.err = n[s].err + 1] ELSE n[s]
  <2>1. n' = [n EXCEPT ![s] = [c EXCEPT ![ev] = c[ev] + 1]] /\ p' = [p EXCEPT ![s] = i]
    BY <1>2, <1>3, <1>5 DEF N!Counted
  <2>2. /\ c \in C0 /\ c.rej = n[s].rej
        /\ \A f \in {"add_pre", "add_post", "rem"} : c[f] = n[s][f]
        /\ n[s].add_post <= n[s].add_pre => c.err = n[s].err
    <3>1. n[s].err \in Nat /\ n[s].add_post \in Nat /\ n[s].add_pre \in Nat
      BY <1>2
    <3>2. [n[s] EXCEPT !.err = n[s].err + 1] \in C0
      BY <1>2, <3>1
    <3> QED BY <1>2, <3>1, <3>2
  <2> HIDE DEF c
  <2>3. DOMAIN c = {"add_pre", "add_post", "rem", "err", "rej"}
        /\ c.add_pre \in Nat /\ c.add_post \in Nat /\ c.rem \in Nat
    BY <2>2
  <2>4. /\ [c EXCEPT ![ev] = c[ev] + 1] \in C0
        /\ [c EXCEPT ![ev] = c[ev] + 1].rej = c.rej
        /\ [c EXCEPT ![ev] = c[ev] + 1].err = c.err
        /\ \A f \in {"add_pre", "add_post", "rem"} :
             [c EXCEPT ![ev] = c[ev] + 1][f] = IF f = ev THEN c[f] + 1 ELSE c[f]
    <3>1. CASE ev = "add_pre"
      BY <2>2, <2>3, <3>1
    <3>2. CASE ev = "add_post"
      BY <2>2, <2>3, <3>2
    <3>3. CASE ev = "rem"
      BY <2>2, <2>3, <3>3
    <3> QED BY <3>1, <3>2, <3>3
  <2>5. n'[s] = [c EXCEPT ![ev] = c[ev] + 1]
    BY <1>2, <2>1
  <2>6. n' \in [N!Sides -> C0]
    BY <1>2, <2>1, <2>4
  <2>7. p'[s] = i /\ p' \in [N!Sides -> 1 .. conns \cup {Null}]
    BY <1>2, <2>1
  <2>8. \A t \in N!Sides : t # s => n'[t] = n[t] /\ p'[t] = p[t]
    BY <1>2, <2>1
  <2>9. \A f \in {"add_pre", "add_post", "rem"} :
          n'[s][f] = IF f = ev THEN n[s][f] + 1 ELSE n[s][f]
    BY <2>2, <2>4, <2>5
  <2>10. n'[s].rej = n[s].rej /\ (n[s].add_post <= n[s].add_pre => n'[s].err = n[s].err)
    BY <2>2, <2>4, <2>5
  <2> QED BY <1>1, <2>6, <2>7, <2>8, <2>9, <2>10
<1> QED BY <1>4, <1>5

\* Pipes are closed: those that were not closed are at the end of the reaper's
\* list. 
LEMMA Closes ==
  ASSUME PipeTypes, NEW Z, Z \subseteq N!Sides \X (1 .. conns), N!Close(Z)
  PROVE  /\ closed' = closed \cup Z
         /\ reaper' \in Seq(N!Sides \X Nat)
         /\ Len(reaper') >= Len(reaper)
         /\ \A k \in DOMAIN reaper : k \in DOMAIN reaper' /\ reaper'[k] = reaper[k]
         /\ \A k \in DOMAIN reaper' :
              k \notin DOMAIN reaper => k > Len(reaper) /\ reaper'[k] \in Z \ closed
         /\ \A x : Z = {x} /\ x \notin closed =>
              \E k \in DOMAIN reaper' : reaper'[k] = x
<1> DEFINE Y == Z \ closed
<1>1. IsFiniteSet(Y)
  <2>1. IsFiniteSet(N!Sides \X (1 .. conns))
    <3>1. IsFiniteSet({"push"} \cup {"pull"})
      BY FS_Singleton, FS_Union
    <3>2. N!Sides = {"push"} \cup {"pull"}
      BY DEF N!Sides
    <3>3. IsFiniteSet(1 .. conns)
      BY FS_Interval DEF PipeTypes
    <3> QED BY <3>1, <3>2, <3>3, FS_Product
  <2> QED BY <2>1, FS_Subset
<1>2. PICK k \in Nat : k = Cardinality(Y)
  BY <1>1, FS_CardinalityType
<1>3. N!Cardinality(Y) = k
  BY <1>2 DEF N!Cardinality, Cardinality, N!IsFiniteSet, IsFiniteSet
<1>4. PICK order \in [1 .. k -> Y] : reaper' = reaper \o order /\ closed' = closed \cup Z
  BY <1>3 DEF N!Close, N!SetToSeqs
<1>5. Y \subseteq N!Sides \X Nat /\ Y \subseteq Z \ closed
  OBVIOUS
<1> HIDE DEF Y
<1>6. order \in Seq(Y) /\ Len(order) = k /\ DOMAIN order = 1 .. k
  BY <1>4, LenProperties
<1>7. order \in Seq(N!Sides \X Nat)
  BY <1>4, <1>5
<1>8. reaper \in Seq(N!Sides \X Nat) /\ Len(reaper) \in Nat /\ DOMAIN reaper = 1 .. Len(reaper)
  BY LenProperties DEF PipeTypes
<1>9. /\ reaper' \in Seq(N!Sides \X Nat) /\ Len(reaper') = Len(reaper) + k
      /\ \A j \in 1 .. Len(reaper) + k :
           reaper'[j] = IF j <= Len(reaper) THEN reaper[j] ELSE order[j - Len(reaper)]
  BY <1>4, <1>6, <1>7, <1>8, ConcatProperties
<1>10. DOMAIN reaper' = 1 .. Len(reaper) + k
  BY <1>9, LenProperties
<1>11. \A j \in DOMAIN reaper' :
         j \notin DOMAIN reaper => j > Len(reaper) /\ reaper'[j] \in Y
  BY <1>4, <1>8, <1>9, <1>10
<1>12. ASSUME NEW x, Z = {x}, x \notin closed
       PROVE  \E j \in DOMAIN reaper' : reaper'[j] = x
  <2>1. Y = {x}
    BY <1>12 DEF Y
  <2>2. k = 1
    BY <1>2, <2>1, FS_Singleton
  <2>3. Len(reaper) + 1 \in DOMAIN reaper' /\ Len(reaper) + 1 \notin DOMAIN reaper
    BY <1>8, <1>10, <2>2
  <2> QED BY <1>11, <2>1, <2>3
<1>13. \A j \in DOMAIN reaper : j \in DOMAIN reaper' /\ reaper'[j] = reaper[j]
  BY <1>8, <1>9, <1>10
<1>14. Len(reaper') >= Len(reaper)
  BY <1>8, <1>9
<1>15. \A j \in DOMAIN reaper' :
         j \notin DOMAIN reaper => j > Len(reaper) /\ reaper'[j] \in Z \ closed
  BY <1>5, <1>11
<1> QED BY <1>4, <1>9, <1>12, <1>13, <1>14, <1>15, Zenon

\* The order of the closings stays when a pipe of push is closed whose peer was,
\* or pipes of pull are.
LEMMA ClosesInOrder ==
  ASSUME PipeInv, NEW Z, Z \subseteq N!Sides \X (1 .. conns), N!Close(Z),
         \A i \in N!Conns : <<"push", i>> \in Z => <<"pull", i>> \in closed,
         \A x \in Z, y \in Z : x[1] = y[1]
  PROVE  PullFirst' /\ \A k \in DOMAIN reaper' : reaper'[k] \in closed'
<1>1. /\ closed' = closed \cup Z
      /\ \A k \in DOMAIN reaper : k \in DOMAIN reaper' /\ reaper'[k] = reaper[k]
      /\ \A k \in DOMAIN reaper' :
           k \notin DOMAIN reaper => k > Len(reaper) /\ reaper'[k] \in Z \ closed
  BY Closes DEF PipeInv
<1>2. \A k \in DOMAIN reaper : reaper[k] \in closed
  BY DEF PipeInv, PipeTypes
<1>3. \A k \in DOMAIN reaper' : reaper'[k] \in closed'
  BY <1>1, <1>2
<1>4. DOMAIN reaper = 1 .. Len(reaper) /\ Len(reaper) \in Nat
  BY LenProperties DEF PipeInv, PipeTypes
<1>5. ASSUME NEW i \in N!Conns, <<"push", i>> \in closed' PROVE <<"pull", i>> \in closed'
  BY <1>1, <1>5 DEF PipeInv, PullFirst
<1>6. DOMAIN reaper' = 1 .. Len(reaper') /\ Len(reaper') \in Nat
  BY Closes, LenProperties DEF PipeInv
<1>7. ASSUME NEW a \in DOMAIN reaper', NEW b \in DOMAIN reaper', a < b, NEW i \in N!Conns,
             reaper'[a] = <<"push", i>>, reaper'[b] = <<"pull", i>>
      PROVE  FALSE
  <2>1. CASE b \in DOMAIN reaper
    <3>1. a \in DOMAIN reaper
      BY <1>4, <1>6, <1>7, <2>1
    <3> QED BY <1>1, <1>7, <2>1, <3>1 DEF PipeInv, PullFirst
  <2>2. CASE b \notin DOMAIN reaper
    <3>1. <<"pull", i>> \in Z \ closed
      BY <1>1, <1>7, <2>2
    <3>2. CASE a \in DOMAIN reaper
      BY <1>1, <1>2, <1>7, <3>1, <3>2 DEF PipeInv, PullFirst
    <3>3. CASE a \notin DOMAIN reaper
      <4>1. <<"push", i>> \in Z
        BY <1>1, <1>7, <3>3
      <4>2. <<"push", i>>[1] = <<"pull", i>>[1]
        BY <3>1, <4>1
      <4> QED BY <4>2
    <3> QED BY <3>2, <3>3
  <2> QED BY <2>1, <2>2
<1>8. \A a, b \in DOMAIN reaper' : a < b =>
        \A i \in N!Conns : ~(reaper'[a] = <<"push", i>> /\ reaper'[b] = <<"pull", i>>)
  BY <1>7
<1>9. N!Conns' = N!Conns
  BY DEF N!Conns
<1> QED BY <1>3, <1>5, <1>8, <1>9 DEF PullFirst

\* What the invariant's operators depend on
LEMMA PipeFrames ==
  /\ N!Sides' = N!Sides /\ N!Conns' = N!Conns /\ N!testcase' = N!testcase
  /\ Remains' = Remains
  /\ UNCHANGED test => End' = End
  /\ UNCHANGED members =>
       \A s \in N!Sides : (Endpoint(s)' <=> Endpoint(s))
                          /\ (N!Has(s, "s")' <=> N!Has(s, "s"))
  /\ UNCHANGED <<pipe, conns>> => \A s, Z : HowMany(s, Z)' = HowMany(s, Z)
<1>1. N!Sides' = N!Sides /\ N!Conns' = N!Conns /\ N!testcase' = N!testcase
      /\ Remains' = Remains
  BY DEF N!Sides, N!Conns, N!testcase, Remains
<1>2. UNCHANGED test => End' = End
  BY DEF End, N!Program
<1>3. UNCHANGED members =>
        \A s \in N!Sides : (Endpoint(s)' <=> Endpoint(s))
                           /\ (N!Has(s, "s")' <=> N!Has(s, "s"))
  BY DEF Endpoint, N!Has
<1>4. UNCHANGED <<pipe, conns>> => \A s, Z : HowMany(s, Z)' = HowMany(s, Z)
  BY DEF HowMany, Is
<1> QED BY <1>1, <1>2, <1>3, <1>4

\* main takes a step that the pipes do not see.
LEMMA PipeMoves ==
  ASSUME PipeInv,
         UNCHANGED <<test, members, n, p, conns, pipe, closed, reaper, misused>>,
         pc' \in 1 .. End + 1, pc' >= pc,
         assigned' \in [N!Sides -> BOOLEAN], started' \in [N!Sides -> BOOLEAN],
         \A s \in N!Sides : assigned[s] => assigned'[s],
         \A s \in N!Sides : started'[s] => Endpoint(s) /\ assigned'[s],
         MainAt', ~misread'
  PROVE  PipeInv'
<1> USE DEF PipeInv
<1>1. PipeTypes'
  BY PipeFrames DEF PipeTypes
<1>2. Prepared'
  BY PipeFrames DEF Prepared
<1>3. PipesInPlace'
  BY PipeFrames DEF PipesInPlace
<1>4. EventsCounted'
  BY PipeFrames DEF EventsCounted
<1>5. PullFirst'
  BY PipeFrames DEF PullFirst
<1>6. pc > 13 => pc' > 13
  BY DEF PipeTypes
<1>7. BeforeDestruction'
  BY <1>6, PipeFrames DEF BeforeDestruction, N!Sides
<1> QED BY <1>1, <1>2, <1>3, <1>4, <1>5, <1>7 DEF N!LastPipeIsInUse, N!NoMisuse

LEMMA PipeMakes == PipeInv /\ N!make => PipeInv'
<1> SUFFICES ASSUME PipeInv, N!make PROVE PipeInv'
  OBVIOUS
<1>1. PipeTypes /\ MainAt /\ Prepared
  BY DEF PipeInv
<1>2. /\ assigned' = [assigned EXCEPT ![N!Side] = TRUE] /\ pc' = pc + 1
      /\ UNCHANGED <<test, members, n, p, conns, pipe, closed, reaper, misused, started,
                     misread>>
  BY DEF N!make, N!counters, N!library
<1>3. (pc = 1 /\ N!Side = "pull") \/ (pc = 2 /\ N!Side = "push")
  BY <1>1, PipeAt DEF N!make
<1>4. End \in Nat /\ End >= 14
  BY <1>1, PipeAt
<1>5. assigned' \in [N!Sides -> BOOLEAN] /\ \A s \in N!Sides : assigned[s] => assigned'[s]
  BY <1>1, <1>2, <1>3 DEF PipeTypes, N!Sides
<1>6. assigned'["pull"] /\ (pc' >= 3 => assigned'["push"])
  BY <1>1, <1>2, <1>3, <1>4 DEF PipeTypes, N!Sides, MainAt
<1>7. MainAt'
  BY <1>1, <1>2, <1>3, <1>4, <1>6, PipeFrames DEF MainAt
<1>8. ~misread'
  BY <1>2 DEF PipeInv, N!LastPipeIsInUse
<1>9. started' \in [N!Sides -> BOOLEAN]
  BY <1>1, <1>2 DEF PipeTypes
<1>10. \A s \in N!Sides : started'[s] => Endpoint(s) /\ assigned'[s]
  BY <1>1, <1>2, <1>5 DEF Prepared
<1>11. pc' \in 1 .. End + 1 /\ pc' >= pc
  BY <1>2, <1>3, <1>4
<1> QED BY <1>2, <1>5, <1>7, <1>8, <1>9, <1>10, <1>11, PipeMoves

LEMMA PipeStarts == PipeInv /\ N!start => PipeInv'
<1> SUFFICES ASSUME PipeInv, N!start PROVE PipeInv'
  OBVIOUS
<1>1. PipeTypes /\ MainAt /\ Prepared
  BY DEF PipeInv
<1>2. /\ started' = [started EXCEPT ![N!Side] = TRUE] /\ pc' = pc + 1
      /\ UNCHANGED <<test, members, n, p, conns, pipe, closed, reaper, misused, assigned,
                     misread>>
  BY DEF N!start, N!counters
<1>3. (pc = 3 /\ N!Side = "pull") \/ (pc = 4 /\ N!Side = "push")
  BY <1>1, PipeAt DEF N!start
<1>4. End \in Nat /\ End >= 14
  BY <1>1, PipeAt
<1>5. started' \in [N!Sides -> BOOLEAN] /\ assigned' \in [N!Sides -> BOOLEAN]
  BY <1>1, <1>2, <1>3 DEF PipeTypes, N!Sides
<1>6. \A s \in N!Sides : assigned[s] /\ members[s] = N!testcase
  BY <1>1, <1>3, <1>4 DEF MainAt, N!Sides
<1>7. \A s \in N!Sides : started'[s] => Endpoint(s) /\ assigned'[s]
  BY <1>1, <1>2, <1>6, RemainsHave
<1>8. MainAt'
  BY <1>1, <1>2, <1>3, <1>4, PipeFrames DEF MainAt
<1>9. ~misread'
  BY <1>2 DEF PipeInv, N!LastPipeIsInUse
<1>10. pc' \in 1 .. End + 1 /\ pc' >= pc
  BY <1>2, <1>3, <1>4
<1> QED BY <1>2, <1>5, <1>7, <1>8, <1>9, <1>10, PipeMoves

LEMMA PipeThrows == PipeInv /\ N!Throw => PipeInv'
<1> SUFFICES ASSUME PipeInv, N!Throw PROVE PipeInv'
  OBVIOUS
<1>1. PipeTypes /\ MainAt /\ Prepared
  BY DEF PipeInv
<1>2. /\ pc' = End - 1
      /\ UNCHANGED <<test, members, n, p, conns, pipe, closed, reaper, misused, assigned,
                     started, misread>>
  BY DEF N!Throw, N!counters, N!library, End
<1>3. pc \in {1, 2, 3, 4} \/ pc \in 5 .. End - 2
  BY <1>1, PipeAt DEF N!Throw
<1>4. End \in Nat /\ End >= 14
  BY <1>1, PipeAt
<1>5. MainAt'
  BY <1>1, <1>2, <1>3, <1>4, PipeFrames DEF MainAt
<1>6. ~misread'
  BY <1>2 DEF PipeInv, N!LastPipeIsInUse
<1>7. pc' \in 1 .. End + 1 /\ pc' >= pc
  BY <1>2, <1>3, <1>4
<1>8. /\ assigned' \in [N!Sides -> BOOLEAN] /\ started' \in [N!Sides -> BOOLEAN]
      /\ \A s \in N!Sides : assigned[s] => assigned'[s]
      /\ \A s \in N!Sides : started'[s] => Endpoint(s) /\ assigned'[s]
  BY <1>1, <1>2 DEF PipeTypes, Prepared
<1> QED BY <1>2, <1>5, <1>6, <1>7, <1>8, PipeMoves

LEMMA PipeExpects == PipeInv /\ N!expect => PipeInv'
<1> SUFFICES ASSUME PipeInv, N!expect PROVE PipeInv'
  OBVIOUS
<1>1. PipeTypes /\ MainAt /\ Prepared
  BY DEF PipeInv
<1>2. /\ pc' = pc + 1 /\ n[N!Side][N!Program[pc][3]] = N!Program[pc][4]
      /\ UNCHANGED <<test, members, n, p, conns, pipe, closed, reaper, misused, assigned,
                     started, misread>>
  BY DEF N!expect, N!counters, N!library
<1>3. /\ pc \in 5 .. End - 2
      /\ pc = 5 => /\ N!Side = "pull" /\ N!Program[pc][3] = "add_pre"
                   /\ N!Program[pc][4] \in {1, 2}
  BY <1>1, PipeAt DEF N!expect
<1>4. End \in Nat /\ End >= 14
  BY <1>1, PipeAt
<1>5. n["pull"].add_pre > 0
  <2>1. CASE pc = 5
    BY <1>2, <1>3, <2>1
  <2>2. CASE pc # 5
    BY <1>1, <1>3, <1>4, <2>2 DEF MainAt
  <2> QED BY <2>1, <2>2
<1>6. MainAt'
  BY <1>1, <1>2, <1>3, <1>4, <1>5, PipeFrames DEF MainAt
<1>7. ~misread'
  BY <1>2 DEF PipeInv, N!LastPipeIsInUse
<1>8. pc' \in 1 .. End + 1 /\ pc' >= pc
  BY <1>2, <1>3, <1>4
<1>9. /\ assigned' \in [N!Sides -> BOOLEAN] /\ started' \in [N!Sides -> BOOLEAN]
      /\ \A s \in N!Sides : assigned[s] => assigned'[s]
      /\ \A s \in N!Sides : started'[s] => Endpoint(s) /\ assigned'[s]
  BY <1>1, <1>2 DEF PipeTypes, Prepared
<1> QED BY <1>2, <1>6, <1>7, <1>8, <1>9, PipeMoves

\* A frame came over the newest connection: an event of pull's pipe of it was the
\* last one of pull.
LEMMA PipeReceives == PipeInv /\ N!recv => PipeInv'
<1> SUFFICES ASSUME PipeInv, N!recv PROVE PipeInv'
  OBVIOUS
<1>1. PipeTypes /\ MainAt /\ Prepared /\ EventsCounted /\ BeforeDestruction
  BY DEF PipeInv
<1>2. /\ pc' = pc + 1 /\ misread' = (misread \/ p["pull"] # conns)
      /\ pipe["pull"][conns] = "up"
      /\ UNCHANGED <<test, members, n, p, conns, pipe, closed, reaper, misused, assigned,
                     started>>
  BY DEF N!recv, N!counters, N!library
<1>3. pc = End - 2 /\ End \in Nat /\ End >= 14
  BY <1>1, PipeAt DEF N!recv
<1>4. Endpoint("pull") /\ n["pull"].add_pre > 0
  <2>1. members["pull"] = N!testcase /\ n["pull"].add_pre > 0
    BY <1>1, <1>3 DEF MainAt
  <2> QED BY <1>1, <2>1, RemainsHave DEF N!Sides
<1>5. conns > 0
  <2>1. n["pull"].add_pre <= HowMany("pull", AfterAddPre)
    BY <1>1 DEF EventsCounted, N!Sides
  <2>2. HowMany("pull", AfterAddPre) \in Nat /\ HowMany("pull", AfterAddPre) <= conns
    BY <1>1, HowManyBounds
  <2>3. n["pull"].add_pre \in Nat /\ conns \in Nat
    BY <1>1 DEF PipeTypes, N!Sides
  <2> QED BY <1>4, <2>1, <2>2, <2>3
<1>6. p["pull"] = conns
  BY <1>1, <1>2, <1>4, <1>5 DEF BeforeDestruction, AfterAddPre
<1>7. ~misread'
  BY <1>2, <1>6 DEF PipeInv, N!LastPipeIsInUse
<1>8. MainAt'
  BY <1>1, <1>2, <1>3, PipeFrames DEF MainAt
<1>9. pc' \in 1 .. End + 1 /\ pc' >= pc
  BY <1>2, <1>3
<1>10. /\ assigned' \in [N!Sides -> BOOLEAN] /\ started' \in [N!Sides -> BOOLEAN]
       /\ \A s \in N!Sides : assigned[s] => assigned'[s]
       /\ \A s \in N!Sides : started'[s] => Endpoint(s) /\ assigned'[s]
  BY <1>1, <1>2 DEF PipeTypes, Prepared
<1> QED BY <1>2, <1>7, <1>8, <1>9, <1>10, PipeMoves

\* Until the destruction begins, every connection but the newest is gone.
LEMMA OldConnections ==
  ASSUME PipeInv, Endpoint("pull"), NEW i \in 1 .. conns, i # conns
  PROVE  /\ pipe["push"][i] = "gone" /\ pipe["pull"][i] = "gone"
         /\ <<"pull", i>> \in closed
<1>1. i < conns /\ i \in N!Conns
  BY PipeNotifyAssumption DEF PipeInv, PipeTypes, N!Conns, N!Assumption
<1>2. pipe["push"][i] = "gone" /\ pipe["pull"][i] = "gone"
  BY <1>1 DEF PipeInv, BeforeDestruction
<1> QED BY <1>1, <1>2 DEF PipeInv, PipesInPlace, N!Sides

\* A callback counts an event of a pipe, and the pipe goes on: all of the
\* invariant but the reaper's list.
LEMMA CallbackRuns ==
  ASSUME PipeInv, NEW s \in N!Sides, NEW i \in N!Conns,
         NEW ev \in {"add_pre", "add_post", "rem"}, NEW v \in PipeStates,
         N!notify(s, i, ev), pipe' = [pipe EXCEPT ![s][i] = v],
         UNCHANGED <<test, pc, assigned, members, started, conns, closed, misread>>,
         \/ ev = "add_pre" /\ pipe[s][i] = "pre" /\ v \in {"notified", "post", "dead"}
         \/ ev = "add_post" /\ pipe[s][i] = "post" /\ v = "up"
         \/ ev = "rem" /\ pipe[s][i] \in {"up", "dead"} /\ v = "gone",
         v \in {"dead", "gone"} => <<s, i>> \in closed,
         v = "notified" => s = "pull" /\ test = "reject",
         s = "push" /\ v = "gone" /\ Endpoint("pull") => pipe["pull"][i] = "gone",
         reaper' \in Seq(N!Sides \X Nat), \A k \in DOMAIN reaper' : reaper'[k] \in closed,
         PullFirst',
         Endpoint("pull") =>
           \A t \in N!Sides, j \in 1 .. conns : <<t, j>> \in closed =>
             pipe'[t][j] = "gone" \/ \E k \in DOMAIN reaper' : reaper'[k] = <<t, j>>
  PROVE  PipeInv'
<1> USE DEF PipeInv
<1>1. i \in 1 .. conns /\ i \in Nat /\ assigned[s] /\ N!Has(s, "s")
  BY PipeHasSocket
<1> DEFINE C0 == [add_pre : Nat, add_post : Nat, rem : Nat, err : Nat, rej : {0, 1}]
<1>2. /\ ~misused => ~misused'
      /\ p' \in [N!Sides -> 1 .. conns \cup {Null}]
      /\ n' \in [N!Sides -> C0]
      /\ \A t \in N!Sides : t # s => n'[t] = n[t] /\ p'[t] = p[t]
      /\ p'[s] = p[s] \/ p'[s] = i
      /\ n'[s].rej = n[s].rej
      /\ \A f \in {"add_pre", "add_post", "rem"} :
           IF f = ev THEN n'[s][f] = n[s][f] \/ n'[s][f] = n[s][f] + 1
                     ELSE n'[s][f] = n[s][f]
      /\ Endpoint(s) /\ assigned[s] /\ n[s].add_post <= n[s].add_pre =>
           /\ n'[s][ev] = n[s][ev] + 1
           /\ n'[s].err = n[s].err /\ p'[s] = i
  BY <1>1, Notified
<1>3. \A t \in N!Sides : n[t] \in C0
  BY DEF PipeTypes
<1>4. \A t \in N!Sides, j \in N!Conns :
        pipe'[t][j] = IF t = s /\ j = i THEN v ELSE pipe[t][j]
  BY DEF PipeTypes
<1>5. PipeTypes'
  <2>1. pipe' \in [N!Sides -> [N!Conns -> PipeStates]]
    BY DEF PipeTypes
  <2> QED BY <1>2, <2>1, PipeFrames DEF PipeTypes, PipeStates
<1>6. ASSUME NEW t \in N!Sides PROVE n[t].add_pre <= n'[t].add_pre
  <2>1. n[t].add_pre \in Nat
    BY <1>3
  <2>2. n'[t].add_pre = n[t].add_pre \/ n'[t].add_pre = n[t].add_pre + 1
    BY <1>2
  <2> QED BY <2>1, <2>2
<1>7. MainAt'
  <2>1. "pull" \in N!Sides
    BY DEF N!Sides
  <2>2. n["pull"].add_pre > 0 => n'["pull"].add_pre > 0
    BY <1>2, <1>3, <1>6, <2>1
  <2> QED BY <2>2, PipeFrames DEF MainAt
<1>8. Prepared'
  <2>1. ASSUME NEW t \in N!Sides, ~N!Has(t, "s")
        PROVE  \A j \in N!Conns : pipe'[t][j] \in {"none", "gone"}
    BY <1>1, <1>4, <2>1 DEF Prepared
  <2> QED BY <2>1, PipeFrames DEF Prepared
<1>9. PipesInPlace'
  <2>1. ~(i > conns) /\ v # "none"
    BY <1>1 DEF PipeTypes
  <2> SUFFICES ASSUME NEW t \in N!Sides, NEW j \in N!Conns
               PROVE  /\ pipe'[t][j] = "none" <=> j > conns'
                      /\ pipe'[t][j] \in {"dead", "gone"} => <<t, j>> \in closed'
                      /\ pipe'[t][j] = "notified" => t = "pull" /\ test' = "reject"
    BY PipeFrames DEF PipesInPlace
  <2>2. CASE t = s /\ j = i
    BY <1>4, <2>1, <2>2
  <2>3. CASE ~(t = s /\ j = i)
    BY <1>4, <2>3 DEF PipesInPlace
  <2> QED BY <2>2, <2>3
<1>10. /\ \A t \in N!Sides : t # s =>
            /\ HowMany(t, AfterAddPre)' = HowMany(t, AfterAddPre)
            /\ HowMany(t, {"up", "gone"})' = HowMany(t, {"up", "gone"})
            /\ HowMany(t, {"gone"})' = HowMany(t, {"gone"})
       /\ HowMany(s, AfterAddPre)' =
            HowMany(s, AfterAddPre) + (IF ev = "add_pre" THEN 1 ELSE 0)
       /\ HowMany(s, {"up", "gone"})' =
            HowMany(s, {"up", "gone"})
              + (IF v = "up" \/ (v = "gone" /\ pipe[s][i] = "dead") THEN 1 ELSE 0)
       /\ HowMany(s, {"gone"})' = HowMany(s, {"gone"}) + (IF ev = "rem" THEN 1 ELSE 0)
  <2>1. /\ v \in AfterAddPre /\ (pipe[s][i] \in AfterAddPre <=> ev # "add_pre")
        /\ v \in {"gone"} <=> ev = "rem"
        /\ pipe[s][i] # "gone"
        /\ v \in {"up", "gone"} <=> ev \in {"add_post", "rem"}
        /\ pipe[s][i] \in {"up", "gone"} <=> ev = "rem" /\ pipe[s][i] # "dead"
        /\ v = "up" <=> ev = "add_post"
    BY DEF AfterAddPre
  <2>2. \A t \in N!Sides :
          /\ HowMany(t, AfterAddPre) \in Nat /\ HowMany(t, {"up", "gone"}) \in Nat
          /\ HowMany(t, {"gone"}) \in Nat
    BY HowManyBounds
  <2>3. ASSUME NEW Z
        PROVE  /\ \A t \in N!Sides : t # s => HowMany(t, Z)' = HowMany(t, Z)
               /\ (v \in Z <=> pipe[s][i] \in Z) => HowMany(s, Z)' = HowMany(s, Z)
               /\ v \in Z /\ pipe[s][i] \notin Z => HowMany(s, Z)' = HowMany(s, Z) + 1
    BY <1>1, HowManyStep
  <2>4. HowMany(s, AfterAddPre)' =
          HowMany(s, AfterAddPre) + (IF ev = "add_pre" THEN 1 ELSE 0)
    BY <2>1, <2>2, <2>3
  <2>5. HowMany(s, {"gone"})' = HowMany(s, {"gone"}) + (IF ev = "rem" THEN 1 ELSE 0)
    BY <2>1, <2>2, <2>3
  <2>6. HowMany(s, {"up", "gone"})' =
          HowMany(s, {"up", "gone"})
            + (IF v = "up" \/ (v = "gone" /\ pipe[s][i] = "dead") THEN 1 ELSE 0)
    BY <2>1, <2>2, <2>3
  <2> QED BY <2>3, <2>4, <2>5, <2>6
<1>11. /\ HowMany(s, AfterAddPre) \in Nat /\ HowMany(s, {"up", "gone"}) \in Nat
       /\ HowMany(s, {"gone"}) \in Nat /\ HowMany(s, {"up", "gone"}) <= HowMany(s, AfterAddPre)
  BY HowManyBounds DEF AfterAddPre
<1>12. Endpoint(s) => n[s].add_post <= n[s].add_pre
  BY <1>3, <1>11 DEF EventsCounted
<1>13. EventsCounted'
  <2>1. ASSUME NEW t \in N!Sides, t # s
        PROVE  /\ n'[t].add_pre <= HowMany(t, AfterAddPre)'
               /\ Endpoint(t) => n'[t].add_pre = HowMany(t, AfterAddPre)'
               /\ n'[t].add_post <= HowMany(t, {"up", "gone"})'
               /\ n'[t].rem <= HowMany(t, {"gone"})'
               /\ Endpoint(t) => n'[t].err = 0
    BY <1>2, <1>10, <2>1 DEF EventsCounted
  <2>2. n'[s].add_pre <= HowMany(s, AfterAddPre)'
    <3>1. n[s].add_pre \in Nat /\ HowMany(s, AfterAddPre) \in Nat
      BY <1>3, <1>11
    <3>2. n[s].add_pre <= HowMany(s, AfterAddPre)
      BY DEF EventsCounted
    <3>3. IF ev = "add_pre" THEN n'[s].add_pre = n[s].add_pre \/ n'[s].add_pre = n[s].add_pre + 1
                       ELSE n'[s].add_pre = n[s].add_pre
      BY <1>2
    <3>4. \/ HowMany(s, AfterAddPre)' = HowMany(s, AfterAddPre) + 1
          \/ ev # "add_pre" /\ HowMany(s, AfterAddPre)' = HowMany(s, AfterAddPre)
      BY <1>10, <1>11
    <3> QED BY <3>1, <3>2, <3>3, <3>4
  <2>3. Endpoint(s) => n'[s].add_pre = HowMany(s, AfterAddPre)' /\ n'[s].err = 0
    BY <1>1, <1>2, <1>3, <1>10, <1>11, <1>12 DEF EventsCounted
  <2>4. n'[s].add_post <= HowMany(s, {"up", "gone"})'
    <3>1. n[s].add_post \in Nat /\ HowMany(s, {"up", "gone"}) \in Nat
      BY <1>3, <1>11
    <3>2. n[s].add_post <= HowMany(s, {"up", "gone"})
      BY DEF EventsCounted
    <3>3. IF ev = "add_post" THEN n'[s].add_post = n[s].add_post \/ n'[s].add_post = n[s].add_post + 1
                       ELSE n'[s].add_post = n[s].add_post
      BY <1>2
    <3>4. \/ HowMany(s, {"up", "gone"})' = HowMany(s, {"up", "gone"}) + 1
          \/ ev # "add_post" /\ HowMany(s, {"up", "gone"})' = HowMany(s, {"up", "gone"})
      BY <1>10, <1>11
    <3> QED BY <3>1, <3>2, <3>3, <3>4
  <2>5. n'[s].rem <= HowMany(s, {"gone"})'
    <3>1. n[s].rem \in Nat /\ HowMany(s, {"gone"}) \in Nat
      BY <1>3, <1>11
    <3>2. n[s].rem <= HowMany(s, {"gone"})
      BY DEF EventsCounted
    <3>3. IF ev = "rem" THEN n'[s].rem = n[s].rem \/ n'[s].rem = n[s].rem + 1
                       ELSE n'[s].rem = n[s].rem
      BY <1>2
    <3>4. \/ HowMany(s, {"gone"})' = HowMany(s, {"gone"}) + 1
          \/ ev # "rem" /\ HowMany(s, {"gone"})' = HowMany(s, {"gone"})
      BY <1>10, <1>11
    <3> QED BY <3>1, <3>2, <3>3, <3>4
  <2> QED BY <2>1, <2>2, <2>3, <2>4, <2>5, PipeFrames DEF EventsCounted
<1>14. BeforeDestruction'
  <2> SUFFICES ASSUME Endpoint("pull") PROVE BeforeDestruction'
    BY PipeFrames DEF BeforeDestruction, N!Sides
  <2>1. \A j \in 1 .. conns : j \in N!Conns
    BY PipeNotifyAssumption DEF N!Assumption, N!Conns, PipeTypes
  <2>2. \A j \in 1 .. conns : pipe'["push"][j] = "gone" => pipe'["pull"][j] = "gone"
    BY <1>4, <2>1 DEF BeforeDestruction, N!Sides
  <2>3. \A j \in 1 .. conns : j < conns => pipe'["push"][j] = "gone"
    BY <1>4, <2>1 DEF BeforeDestruction, N!Sides
  <2>4. \A j \in 1 .. conns : <<"pull", j>> \in closed =>
          /\ j = 1
          /\ (test = "reconnection" /\ pc > 13) \/ (test = "reject" /\ n'["pull"].rej = 1)
    BY <1>2 DEF BeforeDestruction, N!Sides
  <2>5. s = "pull" => i = conns /\ p'["pull"] = conns
    BY <1>1, <1>2, <1>12, OldConnections
  <2>6. conns > 0 /\ pipe'["pull"][conns] \in AfterAddPre \ {"gone"} => p'["pull"] = conns
    BY <1>2, <1>4, <2>1, <2>5 DEF BeforeDestruction, N!Sides, PipeTypes
  <2>7. n'["pull"].add_pre > 0 => p'["pull"] # Null
    BY <1>1, <1>2, <2>5, PipeNotifyAssumption DEF N!Assumption, BeforeDestruction, N!Sides
  <2> QED BY <2>2, <2>3, <2>4, <2>6, <2>7, PipeFrames DEF BeforeDestruction, AfterAddPre
<1> QED BY <1>2, <1>5, <1>7, <1>8, <1>9, <1>13, <1>14 DEF N!LastPipeIsInUse, N!NoMisuse

LEMMA PipeAddsPre ==
  ASSUME PipeInv, NEW s \in N!Sides, NEW i \in N!Conns, N!AddPre(s, i)
  PROVE  PipeInv'
<1>1. /\ pipe[s][i] = "pre" /\ N!notify(s, i, "add_pre")
      /\ UNCHANGED <<test, pc, assigned, members, started, conns, closed, reaper, misread>>
  BY DEF N!AddPre
<1>2. PICK v \in {"notified", "post", "dead"} :
        /\ pipe' = [pipe EXCEPT ![s][i] = v]
        /\ v = "dead" => <<s, i>> \in closed
        /\ v = "notified" => s = "pull" /\ test = "reject"
  BY DEF N!AddPre, N!AfterPre
<1>3. reaper' \in Seq(N!Sides \X Nat) /\ \A k \in DOMAIN reaper' : reaper'[k] \in closed
  BY <1>1 DEF PipeInv, PipeTypes
<1>4. PullFirst'
  BY <1>1, PipeFrames DEF PipeInv, PullFirst
<1>5. ASSUME Endpoint("pull"), NEW t \in N!Sides, NEW j \in 1 .. conns, <<t, j>> \in closed
      PROVE  pipe'[t][j] = "gone" \/ \E k \in DOMAIN reaper' : reaper'[k] = <<t, j>>
  <2>1. pipe[t][j] = "gone" \/ \E k \in DOMAIN reaper : reaper[k] = <<t, j>>
    BY <1>5 DEF PipeInv, BeforeDestruction
  <2>2. pipe[t][j] = "gone" => pipe'[t][j] = "gone"
    BY <1>1, <1>2 DEF PipeInv, PipeTypes
  <2> QED BY <1>1, <2>1, <2>2
<1>6. v \in PipeStates /\ v # "gone"
  BY DEF PipeStates
<1> QED BY <1>1, <1>2, <1>3, <1>4, <1>5, <1>6, CallbackRuns

LEMMA PipeAddsPost ==
  ASSUME PipeInv, NEW s \in N!Sides, NEW i \in N!Conns, N!AddPost(s, i)
  PROVE  PipeInv'
<1>1. /\ pipe[s][i] = "post" /\ N!notify(s, i, "add_post")
      /\ pipe' = [pipe EXCEPT ![s][i] = "up"]
      /\ UNCHANGED <<test, pc, assigned, members, started, conns, closed, reaper, misread>>
  BY DEF N!AddPost
<1>3. reaper' \in Seq(N!Sides \X Nat) /\ \A k \in DOMAIN reaper' : reaper'[k] \in closed
  BY <1>1 DEF PipeInv, PipeTypes
<1>4. PullFirst'
  BY <1>1, PipeFrames DEF PipeInv, PullFirst
<1>5. ASSUME Endpoint("pull"), NEW t \in N!Sides, NEW j \in 1 .. conns, <<t, j>> \in closed
      PROVE  pipe'[t][j] = "gone" \/ \E k \in DOMAIN reaper' : reaper'[k] = <<t, j>>
  <2>1. pipe[t][j] = "gone" \/ \E k \in DOMAIN reaper : reaper[k] = <<t, j>>
    BY <1>5 DEF PipeInv, BeforeDestruction
  <2>2. pipe[t][j] = "gone" => pipe'[t][j] = "gone"
    BY <1>1 DEF PipeInv, PipeTypes
  <2> QED BY <1>1, <2>1, <2>2
<1>6. "up" \in PipeStates
  BY DEF PipeStates
<1> QED BY <1>1, <1>3, <1>4, <1>5, <1>6, CallbackRuns

\* The reaper removes a pipe: if it is push's, then pull's pipe of the connection
\* went before.
LEMMA PipeReaps == PipeInv /\ N!Reap => PipeInv'
<1> SUFFICES ASSUME PipeInv, N!Reap PROVE PipeInv'
  OBVIOUS
<1>1. /\ reaper # <<>> /\ reaper' = Tail(reaper)
      /\ UNCHANGED <<test, pc, assigned, members, started, conns, closed, misread>>
  BY DEF N!Reap
<1>2. reaper \in Seq(N!Sides \X Nat) /\ Len(reaper) \in Nat
      /\ DOMAIN reaper = 1 .. Len(reaper) /\ Len(reaper) >= 1
  BY <1>1, LenProperties, EmptySeq DEF PipeInv, PipeTypes
<1>3. Head(reaper) = reaper[1] /\ reaper[1] \in closed /\ 1 \in DOMAIN reaper
  <2>1. Head(reaper) = reaper[1]
    BY <1>2
  <2>2. 1 \in DOMAIN reaper
    BY <1>2
  <2> QED BY <2>1, <2>2 DEF PipeInv, PipeTypes
<1>4. PICK s \in N!Sides, i \in 1 .. conns : reaper[1] = <<s, i>>
  BY <1>3 DEF PipeInv, PipeTypes
<1>5. i \in N!Conns
  BY PipeNotifyAssumption DEF PipeInv, PipeTypes, N!Assumption, N!Conns
<1>6. /\ pipe[s][i] \in {"up", "dead"} /\ N!notify(s, i, "rem")
      /\ pipe' = [pipe EXCEPT ![s][i] = "gone"]
  <2>1. Head(reaper)[1] = s /\ Head(reaper)[2] = i
    BY <1>3, <1>4
  <2>2. /\ pipe[Head(reaper)[1]][Head(reaper)[2]] \in {"up", "dead"}
        /\ N!notify(Head(reaper)[1], Head(reaper)[2], "rem")
        /\ pipe' = [pipe EXCEPT ![Head(reaper)[1]][Head(reaper)[2]] = "gone"]
    BY DEF N!Reap
  <2> QED BY <2>1, <2>2
<1>7. /\ reaper' \in Seq(N!Sides \X Nat) /\ Len(reaper') = Len(reaper) - 1
      /\ \A k \in 1 .. Len(reaper) - 1 : reaper'[k] = reaper[k + 1]
  BY <1>1, <1>2, HeadTailProperties
<1>8. DOMAIN reaper' = 1 .. Len(reaper) - 1
  BY <1>2, <1>7, LenProperties
<1>9. \A k \in DOMAIN reaper' : k + 1 \in DOMAIN reaper /\ reaper'[k] = reaper[k + 1]
  <2> SUFFICES ASSUME NEW k \in DOMAIN reaper'
               PROVE  k + 1 \in DOMAIN reaper /\ reaper'[k] = reaper[k + 1]
    OBVIOUS
  <2>1. k \in 1 .. Len(reaper) - 1
    BY <1>8
  <2>2. k + 1 \in 1 .. Len(reaper)
    BY <1>2, <2>1
  <2> QED BY <1>2, <1>7, <2>1, <2>2
<1>10. \A k \in DOMAIN reaper' : reaper'[k] \in closed
  BY <1>9 DEF PipeInv, PipeTypes
<1>11. PullFirst'
  <2>1. ASSUME NEW a \in DOMAIN reaper', NEW b \in DOMAIN reaper', a < b, NEW j \in N!Conns
        PROVE  ~(reaper'[a] = <<"push", j>> /\ reaper'[b] = <<"pull", j>>)
    <3>1. a + 1 < b + 1
      BY <1>2, <1>8, <2>1
    <3> QED BY <1>9, <2>1, <3>1 DEF PipeInv, PullFirst
  <2> QED BY <1>1, <2>1, PipeFrames DEF PipeInv, PullFirst
<1>12. ASSUME s = "push", Endpoint("pull") PROVE pipe["pull"][i] = "gone"
  <2>1. <<"pull", i>> \in closed
    BY <1>3, <1>4, <1>5, <1>12 DEF PipeInv, PullFirst
  <2>2. ASSUME NEW k \in DOMAIN reaper, reaper[k] = <<"pull", i>> PROVE FALSE
    <3>1. reaper[1] # reaper[k]
      BY <1>4, <1>12, <2>2
    <3>2. 1 < k
      BY <1>2, <2>2, <3>1
    <3> QED BY <1>3, <1>4, <1>5, <1>12, <2>2, <3>2 DEF PipeInv, PullFirst
  <2> QED BY <1>12, <2>1, <2>2 DEF PipeInv, BeforeDestruction, N!Sides
<1>13. ASSUME Endpoint("pull"), NEW t \in N!Sides, NEW j \in 1 .. conns, <<t, j>> \in closed
       PROVE  pipe'[t][j] = "gone" \/ \E k \in DOMAIN reaper' : reaper'[k] = <<t, j>>
  <2>1. j \in N!Conns
    BY PipeNotifyAssumption DEF PipeInv, PipeTypes, N!Assumption, N!Conns
  <2>2. pipe'[t][j] = IF t = s /\ j = i THEN "gone" ELSE pipe[t][j]
    BY <1>5, <1>6, <2>1 DEF PipeInv, PipeTypes
  <2>3. CASE pipe[t][j] = "gone" \/ (t = s /\ j = i)
    BY <2>2, <2>3
  <2>4. CASE ~(pipe[t][j] = "gone" \/ (t = s /\ j = i))
    <3>1. PICK k \in DOMAIN reaper : reaper[k] = <<t, j>>
      BY <1>13, <2>4 DEF PipeInv, BeforeDestruction
    <3>2. k # 1
      BY <1>4, <2>4, <3>1
    <3>3. k - 1 \in DOMAIN reaper' /\ (k - 1) + 1 = k
      BY <1>2, <1>8, <3>2
    <3> QED BY <1>9, <3>1, <3>3
  <2> QED BY <2>3, <2>4
<1>14. <<s, i>> \in closed /\ "gone" \in PipeStates
  BY <1>3, <1>4 DEF PipeStates
<1> QED BY <1>1, <1>5, <1>6, <1>7, <1>10, <1>11, <1>12, <1>13, <1>14, CallbackRuns

\* The counters stay, and with them the numbers of pipes.
LEMMA CountsStay ==
  ASSUME EventsCounted, UNCHANGED members,
         \A t \in N!Sides :
           /\ n'[t].add_pre = n[t].add_pre /\ n'[t].add_post = n[t].add_post
           /\ n'[t].rem = n[t].rem /\ n'[t].err = n[t].err,
         \A t \in N!Sides :
           /\ HowMany(t, AfterAddPre)' = HowMany(t, AfterAddPre)
           /\ HowMany(t, {"up", "gone"})' = HowMany(t, {"up", "gone"})
           /\ HowMany(t, {"gone"})' = HowMany(t, {"gone"})
  PROVE  EventsCounted'
<1>1. ASSUME NEW t \in N!Sides
      PROVE  /\ n'[t].add_pre <= HowMany(t, AfterAddPre)'
             /\ Endpoint(t) => n'[t].add_pre = HowMany(t, AfterAddPre)'
             /\ n'[t].add_post <= HowMany(t, {"up", "gone"})'
             /\ n'[t].rem <= HowMany(t, {"gone"})'
             /\ Endpoint(t) => n'[t].err = 0
  BY DEF EventsCounted
<1> QED BY <1>1, PipeFrames DEF EventsCounted

\* Pipes are closed, or a callback goes on after it has rejected a pipe or not.
LEMMA PipesClosed ==
  ASSUME PipeInv, UNCHANGED <<test, assigned, members, p, started, conns, misread>>,
         ~misused', MainAt', pc' \in 1 .. End + 1, pc' >= pc,
         n' \in [N!Sides -> [add_pre : Nat, add_post : Nat, rem : Nat, err : Nat,
                             rej : {0, 1}]],
         \A t \in N!Sides :
           /\ n'[t].add_pre = n[t].add_pre /\ n'[t].add_post = n[t].add_post
           /\ n'[t].rem = n[t].rem /\ n'[t].err = n[t].err
           /\ n[t].rej = 1 => n'[t].rej = 1,
         pipe' \in [N!Sides -> [N!Conns -> PipeStates]],
         \A t \in N!Sides, j \in N!Conns :
           \/ pipe'[t][j] = pipe[t][j]
           \/ /\ pipe[t][j] = "notified" /\ pipe'[t][j] \in {"dead", "post"}
              /\ pipe'[t][j] = "dead" => <<t, j>> \in closed',
         closed \subseteq closed', closed' \subseteq N!Sides \X (1 .. conns),
         reaper' \in Seq(N!Sides \X Nat), \A k \in DOMAIN reaper' : reaper'[k] \in closed',
         PullFirst',
         \A k \in DOMAIN reaper : k \in DOMAIN reaper' /\ reaper'[k] = reaper[k],
         \A x \in closed' : x \in closed \/ \E k \in DOMAIN reaper' : reaper'[k] = x,
         Endpoint("pull") =>
           \A j \in 1 .. conns : <<"pull", j>> \in closed' /\ <<"pull", j>> \notin closed =>
             /\ j = 1
             /\ \/ test = "reconnection" /\ pc' > 13
                \/ test = "reject" /\ n'["pull"].rej = 1
  PROVE  PipeInv'
<1> USE DEF PipeInv
<1>1. PipeTypes'
  BY PipeFrames DEF PipeTypes, PipeStates
<1>2. \A t \in N!Sides, j \in N!Conns :
        /\ pipe'[t][j] = "none" <=> pipe[t][j] = "none"
        /\ pipe'[t][j] = "gone" <=> pipe[t][j] = "gone"
        /\ pipe'[t][j] \in {"up", "gone"} <=> pipe[t][j] \in {"up", "gone"}
        /\ pipe'[t][j] \in AfterAddPre <=> pipe[t][j] \in AfterAddPre
  BY DEF AfterAddPre
<1>3. Prepared'
  <2>1. ASSUME NEW t \in N!Sides
        PROVE  /\ started[t] => Endpoint(t) /\ assigned[t]
               /\ conns > 0 => assigned[t]
               /\ ~N!Has(t, "s") => \A j \in N!Conns : pipe'[t][j] \in {"none", "gone"}
    <3>1. /\ started[t] => Endpoint(t) /\ assigned[t]
          /\ conns > 0 => assigned[t]
          /\ ~N!Has(t, "s") => \A j \in N!Conns : pipe[t][j] \in {"none", "gone"}
      BY DEF Prepared
    <3> QED BY <1>2, <3>1
  <2> QED BY <2>1, PipeFrames DEF Prepared
<1>4. PipesInPlace'
  <2> SUFFICES ASSUME NEW t \in N!Sides, NEW j \in N!Conns
               PROVE  /\ pipe'[t][j] = "none" <=> j > conns'
                      /\ pipe'[t][j] \in {"dead", "gone"} => <<t, j>> \in closed'
                      /\ pipe'[t][j] = "notified" => t = "pull" /\ test' = "reject"
    BY PipeFrames DEF PipesInPlace
  <2>1. CASE pipe'[t][j] = pipe[t][j]
    BY <2>1 DEF PipesInPlace
  <2>2. CASE pipe'[t][j] # pipe[t][j]
    BY <1>2, <2>2 DEF PipesInPlace
  <2> QED BY <2>1, <2>2
<1>5. \A j \in 1 .. conns : j \in N!Conns
  BY PipeNotifyAssumption DEF N!Assumption, N!Conns, PipeTypes
<1>6. ASSUME NEW t \in N!Sides
      PROVE  /\ HowMany(t, AfterAddPre)' = HowMany(t, AfterAddPre)
             /\ HowMany(t, {"up", "gone"})' = HowMany(t, {"up", "gone"})
             /\ HowMany(t, {"gone"})' = HowMany(t, {"gone"})
  <2>1. \A j \in {1, 2} : j <= conns => j \in N!Conns
    BY <1>5 DEF PipeTypes
  <2>2. \A j \in {1, 2} : /\ Is(t, j, AfterAddPre)' = Is(t, j, AfterAddPre)
                          /\ Is(t, j, {"up", "gone"})' = Is(t, j, {"up", "gone"})
                          /\ Is(t, j, {"gone"})' = Is(t, j, {"gone"})
    <3>1. AfterAddPre' = AfterAddPre
      BY DEF AfterAddPre
    <3>2. \A j \in {1, 2} : Is(t, j, AfterAddPre)' = Is(t, j, AfterAddPre)
      BY <1>2, <2>1, <3>1 DEF Is
    <3>3. \A j \in {1, 2} : Is(t, j, {"up", "gone"})' = Is(t, j, {"up", "gone"})
      BY <1>2, <2>1 DEF Is
    <3>4. \A j \in {1, 2} : Is(t, j, {"gone"})' = Is(t, j, {"gone"})
      BY <1>2, <2>1 DEF Is
    <3> QED BY <3>2, <3>3, <3>4
  <2> QED BY <2>2 DEF HowMany
<1>7. EventsCounted'
  BY <1>6, PipeFrames, CountsStay
<1>8. BeforeDestruction'
  <2> SUFFICES ASSUME Endpoint("pull") PROVE BeforeDestruction'
    BY PipeFrames DEF BeforeDestruction, N!Sides
  <2>1. ASSUME NEW t \in N!Sides, NEW j \in 1 .. conns, <<t, j>> \in closed'
        PROVE  pipe'[t][j] = "gone" \/ \E k \in DOMAIN reaper' : reaper'[k] = <<t, j>>
    <3>1. CASE <<t, j>> \in closed
      BY <1>2, <1>5, <3>1 DEF BeforeDestruction
    <3>2. CASE <<t, j>> \notin closed
      BY <2>1, <3>2
    <3> QED BY <3>1, <3>2
  <2>2. /\ \A j \in 1 .. conns : pipe'["push"][j] = "gone" => pipe'["pull"][j] = "gone"
        /\ \A j \in 1 .. conns : j < conns => pipe'["push"][j] = "gone"
    BY <1>2, <1>5 DEF BeforeDestruction, N!Sides
  <2>3. ASSUME NEW j \in 1 .. conns, <<"pull", j>> \in closed'
        PROVE  /\ j = 1
               /\ (test = "reconnection" /\ pc' > 13) \/ (test = "reject" /\ n'["pull"].rej = 1)
    <3>1. CASE <<"pull", j>> \in closed
      <4>1. pc > 13 => pc' > 13
        BY DEF PipeTypes
      <4> QED BY <3>1, <4>1 DEF BeforeDestruction, N!Sides
    <3>2. CASE <<"pull", j>> \notin closed
      BY <2>3, <3>2
    <3> QED BY <3>1, <3>2
  <2>4. conns > 0 /\ pipe'["pull"][conns] \in AfterAddPre \ {"gone"} => p["pull"] = conns
    <3>1. conns > 0 => conns \in N!Conns
      BY <1>5 DEF PipeTypes
    <3> QED BY <1>2, <3>1 DEF BeforeDestruction, N!Sides
  <2>5. n'["pull"].add_pre > 0 => p["pull"] # Null
    BY DEF BeforeDestruction, N!Sides
  <2> QED BY <2>1, <2>2, <2>3, <2>4, <2>5, PipeFrames DEF BeforeDestruction, AfterAddPre
<1> QED BY <1>1, <1>3, <1>4, <1>7, <1>8 DEF N!LastPipeIsInUse, N!NoMisuse

\* One pipe is closed.
LEMMA OneCloses ==
  ASSUME PipeInv, NEW s \in N!Sides, NEW i \in 1 .. conns, N!Close({<<s, i>>}),
         s = "push" => <<"pull", i>> \in closed
  PROVE  /\ closed' = closed \cup {<<s, i>>} /\ closed' \subseteq N!Sides \X (1 .. conns)
         /\ reaper' \in Seq(N!Sides \X Nat)
         /\ \A k \in DOMAIN reaper' : reaper'[k] \in closed'
         /\ PullFirst'
         /\ \A k \in DOMAIN reaper : k \in DOMAIN reaper' /\ reaper'[k] = reaper[k]
         /\ \A x \in closed' : x \in closed \/ \E k \in DOMAIN reaper' : reaper'[k] = x
<1> DEFINE Z == {<<s, i>>}
<1>1. Z \subseteq N!Sides \X (1 .. conns) /\ PipeTypes /\ N!Close(Z)
  BY DEF PipeInv
<1>2. /\ \A j \in N!Conns : <<"push", j>> \in Z => <<"pull", j>> \in closed
      /\ \A x \in Z, y \in Z : x[1] = y[1]
  OBVIOUS
<1> HIDE DEF Z
<1>3. PullFirst' /\ \A k \in DOMAIN reaper' : reaper'[k] \in closed'
  BY <1>1, <1>2, ClosesInOrder
<1>4. /\ closed' = closed \cup Z /\ reaper' \in Seq(N!Sides \X Nat)
      /\ \A k \in DOMAIN reaper : k \in DOMAIN reaper' /\ reaper'[k] = reaper[k]
      /\ \A x : Z = {x} /\ x \notin closed => \E k \in DOMAIN reaper' : reaper'[k] = x
  BY <1>1, Closes
<1>5. Z = {<<s, i>>}
  BY DEF Z
<1>6. closed' \subseteq N!Sides \X (1 .. conns)
  BY <1>1, <1>4 DEF PipeTypes
<1>7. \A x \in closed' : x \in closed \/ \E k \in DOMAIN reaper' : reaper'[k] = x
  BY <1>4, <1>5
<1> QED BY <1>3, <1>4, <1>5, <1>6, <1>7

\* main closes the first connection: there is no second one yet.
LEMMA PipeClosedByMain == PipeInv /\ N!close => PipeInv'
<1> SUFFICES ASSUME PipeInv, N!close PROVE PipeInv'
  OBVIOUS
<1>1. PipeTypes /\ MainAt /\ BeforeDestruction /\ ~misused
  BY DEF PipeInv, N!NoMisuse
<1>2. /\ N!Close({<<"pull", p["pull"]>>}) /\ pc' = pc + 1
      /\ UNCHANGED <<test, assigned, members, n, p, started, conns, pipe, misread, misused>>
  BY DEF N!close, N!counters
<1>3. /\ pc = 13 /\ test = "reconnection" /\ pc <= End - 2
      /\ End \in Nat /\ End >= 14
  BY <1>1, PipeAt DEF N!close
<1>4. "pull" \in N!Sides /\ "push" \in N!Sides
  BY DEF N!Sides
<1>5. Endpoint("pull") /\ n["pull"].add_pre > 0
  <2>1. members["pull"] = N!testcase /\ n["pull"].add_pre > 0
    BY <1>1, <1>3 DEF MainAt
  <2> QED BY <1>1, <1>4, <2>1, RemainsHave
<1>6. p["pull"] \in 1 .. conns
  BY <1>1, <1>4, <1>5 DEF BeforeDestruction, PipeTypes
<1>7. p["pull"] = 1
  <2>1. conns \in {1, 2}
    BY <1>1, <1>6 DEF PipeTypes
  <2>2. conns # 2
    <3>1. conns = 2 => <<"pull", 1>> \in closed
      BY <1>5, OldConnections
    <3> QED BY <1>1, <1>3, <1>5, <3>1 DEF BeforeDestruction
  <2> QED BY <1>6, <2>1, <2>2
<1>8. /\ closed' = closed \cup {<<"pull", 1>>} /\ closed' \subseteq N!Sides \X (1 .. conns)
      /\ reaper' \in Seq(N!Sides \X Nat)
      /\ \A k \in DOMAIN reaper' : reaper'[k] \in closed'
      /\ PullFirst'
      /\ \A k \in DOMAIN reaper : k \in DOMAIN reaper' /\ reaper'[k] = reaper[k]
      /\ \A x \in closed' : x \in closed \/ \E k \in DOMAIN reaper' : reaper'[k] = x
  BY <1>2, <1>4, <1>6, <1>7, OneCloses
<1>9. MainAt'
  BY <1>1, <1>2, <1>3, <1>5, PipeFrames DEF MainAt
<1>10. \A j \in 1 .. conns : <<"pull", j>> \in closed' /\ <<"pull", j>> \notin closed =>
         j = 1 /\ test = "reconnection" /\ pc' > 13
  BY <1>2, <1>3, <1>8
<1>11. pc' \in 1 .. End + 1 /\ pc' >= pc
  BY <1>2, <1>3
<1>12. /\ n' \in [N!Sides -> [add_pre : Nat, add_post : Nat, rem : Nat, err : Nat,
                              rej : {0, 1}]]
       /\ pipe' \in [N!Sides -> [N!Conns -> PipeStates]]
  BY <1>1, <1>2 DEF PipeTypes
<1> QED BY <1>1, <1>2, <1>8, <1>9, <1>10, <1>11, <1>12, PipesClosed

\* push closes its pipe because pull did.
LEMMA PipePeerCloses ==
  ASSUME PipeInv, NEW s \in N!Sides, NEW i \in N!Conns, N!PeerClosed(s, i)
  PROVE  PipeInv'
<1>1. PipeTypes /\ MainAt /\ PullFirst /\ ~misused
  BY DEF PipeInv, N!NoMisuse
<1>2. /\ <<N!Other(s), i>> \in closed /\ <<s, i>> \notin closed
      /\ pipe[s][i] \in {"post", "up"} /\ N!Close({<<s, i>>})
      /\ UNCHANGED <<test, pc, assigned, members, n, p, started, conns, pipe, misread, misused>>
  BY DEF N!PeerClosed, N!counters
<1>3. s = "push" /\ <<"pull", i>> \in closed
  BY <1>1, <1>2 DEF PullFirst, N!Other, N!Sides
<1>4. i \in 1 .. conns
  BY <1>2, PipeHasSocket
<1>5. /\ closed' = closed \cup {<<s, i>>} /\ closed' \subseteq N!Sides \X (1 .. conns)
      /\ reaper' \in Seq(N!Sides \X Nat)
      /\ \A k \in DOMAIN reaper' : reaper'[k] \in closed'
      /\ PullFirst'
      /\ \A k \in DOMAIN reaper : k \in DOMAIN reaper' /\ reaper'[k] = reaper[k]
      /\ \A x \in closed' : x \in closed \/ \E k \in DOMAIN reaper' : reaper'[k] = x
  BY <1>2, <1>3, <1>4, OneCloses
<1>6. MainAt'
  BY <1>1, <1>2, PipeFrames DEF MainAt
<1>7. \A j \in 1 .. conns : <<"pull", j>> \in closed' => <<"pull", j>> \in closed
  BY <1>3, <1>5
<1>8. pc' \in 1 .. End + 1 /\ pc' >= pc
  BY <1>1, <1>2 DEF PipeTypes
<1>9. /\ n' \in [N!Sides -> [add_pre : Nat, add_post : Nat, rem : Nat, err : Nat,
                             rej : {0, 1}]]
      /\ pipe' \in [N!Sides -> [N!Conns -> PipeStates]]
  BY <1>1, <1>2 DEF PipeTypes
<1> QED BY <1>1, <1>2, <1>5, <1>6, <1>7, <1>8, <1>9, PipesClosed

\* The callback of pull rejects the first connection, or lets one pass.
LEMMA PipeRejects ==
  ASSUME PipeInv, NEW s \in N!Sides, NEW i \in N!Conns, N!reject(s, i)
  PROVE  PipeInv'
<1> DEFINE C0 == [add_pre : Nat, add_post : Nat, rem : Nat, err : Nat, rej : {0, 1}]
<1>1. PipeTypes /\ MainAt /\ PipesInPlace /\ PullFirst /\ BeforeDestruction /\ ~misused
  BY DEF PipeInv, N!NoMisuse
<1>2. /\ pipe[s][i] = "notified" /\ N!AfterPre(s, i, closed')
      /\ misused' = (misused \/ ~N!Has(s, "lk"))
      /\ UNCHANGED <<test, pc, assigned, members, p, started, conns, misread>>
  BY DEF N!reject
<1>3. s = "pull" /\ test = "reject" /\ i \in 1 .. conns /\ N!Has(s, "s")
  BY <1>1, <1>2, PipeHasSocket DEF PipesInPlace
<1>4. ~misused'
  BY <1>1, <1>2, <1>3, RemainsHave
<1>5. PICK v \in {"dead", "post"} : /\ pipe' = [pipe EXCEPT ![s][i] = v]
                                    /\ v = "dead" => <<s, i>> \in closed'
  BY <1>2 DEF N!AfterPre
<1>6. pipe' \in [N!Sides -> [N!Conns -> PipeStates]]
  BY <1>1, <1>5 DEF PipeTypes, PipeStates
<1>7. \A t \in N!Sides, j \in N!Conns :
        \/ pipe'[t][j] = pipe[t][j]
        \/ /\ pipe[t][j] = "notified" /\ pipe'[t][j] \in {"dead", "post"}
           /\ pipe'[t][j] = "dead" => <<t, j>> \in closed'
  BY <1>1, <1>2, <1>5 DEF PipeTypes
<1>8. pc' \in 1 .. End + 1 /\ pc' >= pc
  BY <1>1, <1>2 DEF PipeTypes
<1>9. n \in [N!Sides -> C0]
  BY <1>1 DEF PipeTypes
<1>10. CASE n[s].rej = 0
  <2>1. N!Close({<<s, i>>}) /\ n' = [n EXCEPT ![s].rej = 1]
    BY <1>10 DEF N!reject
  <2>2. n' = [n EXCEPT ![s] = [n[s] EXCEPT !.rej = 1]]
    BY <1>9, <2>1
  <2>3. n[s] \in C0 /\ [n[s] EXCEPT !.rej = 1] \in C0
    BY <1>9
  <2>4. n' \in [N!Sides -> C0] /\ n'[s] = [n[s] EXCEPT !.rej = 1]
    BY <1>9, <2>2, <2>3
  <2>5. /\ n'[s].add_pre = n[s].add_pre /\ n'[s].add_post = n[s].add_post
        /\ n'[s].rem = n[s].rem /\ n'[s].err = n[s].err /\ n'[s].rej = 1
    BY <2>3, <2>4
  <2>6. \A t \in N!Sides : t # s => n'[t] = n[t]
    BY <1>9, <2>2
  <2>7. \A t \in N!Sides :
          /\ n'[t].add_pre = n[t].add_pre /\ n'[t].add_post = n[t].add_post
          /\ n'[t].rem = n[t].rem /\ n'[t].err = n[t].err
          /\ n[t].rej = 1 => n'[t].rej = 1
    BY <2>5, <2>6
  <2>8. /\ closed' = closed \cup {<<s, i>>} /\ closed' \subseteq N!Sides \X (1 .. conns)
        /\ reaper' \in Seq(N!Sides \X Nat)
        /\ \A k \in DOMAIN reaper' : reaper'[k] \in closed'
        /\ PullFirst'
        /\ \A k \in DOMAIN reaper : k \in DOMAIN reaper' /\ reaper'[k] = reaper[k]
        /\ \A x \in closed' : x \in closed \/ \E k \in DOMAIN reaper' : reaper'[k] = x
    BY <1>3, <2>1, OneCloses
  <2>9. Endpoint("pull") => i = 1
    <3>1. conns \in {1, 2}
      BY <1>1, <1>3 DEF PipeTypes
    <3>2. Endpoint("pull") => conns # 2
      <4>1. Endpoint("pull") /\ conns = 2 => <<"pull", 1>> \in closed
        BY OldConnections
      <4> QED BY <1>1, <1>3, <1>10, <3>1, <4>1 DEF BeforeDestruction
    <3> QED BY <1>3, <3>1, <3>2
  <2>10. Endpoint("pull") =>
           \A j \in 1 .. conns : <<"pull", j>> \in closed' /\ <<"pull", j>> \notin closed =>
             j = 1 /\ test = "reject" /\ n'["pull"].rej = 1
    BY <1>3, <2>5, <2>8, <2>9
  <2>11. MainAt'
    BY <1>1, <1>2, <1>3, <2>5, PipeFrames DEF MainAt
  <2> QED BY <1>2, <1>4, <1>6, <1>7, <1>8, <2>4, <2>7, <2>8, <2>10, <2>11, PipesClosed
<1>11. CASE n[s].rej # 0
  <2>1. UNCHANGED <<closed, reaper, n>>
    BY <1>11 DEF N!reject
  <2>2. /\ closed' \subseteq N!Sides \X (1 .. conns) /\ reaper' \in Seq(N!Sides \X Nat)
        /\ \A k \in DOMAIN reaper' : reaper'[k] \in closed'
    BY <1>1, <2>1 DEF PipeTypes
  <2>3. PullFirst'
    BY <1>1, <2>1, PipeFrames DEF PullFirst
  <2>4. MainAt'
    BY <1>1, <1>2, <2>1, PipeFrames DEF MainAt
  <2>5. n' \in [N!Sides -> C0]
    BY <1>9, <2>1
  <2> QED BY <1>2, <1>4, <1>6, <1>7, <1>8, <2>1, <2>2, <2>3, <2>4, <2>5, PipesClosed
<1> QED BY <1>10, <1>11

\* A connection is made: the last one is gone, and was the first.
LEMMA PipeConnects == PipeInv /\ N!Connect => PipeInv'
<1> SUFFICES ASSUME PipeInv, N!Connect PROVE PipeInv'
  OBVIOUS
<1> USE DEF PipeInv
<1>1. /\ started = [s \in N!Sides |-> TRUE] /\ conns < MaxConns
      /\ conns > 0 => pipe["push"][conns] = "gone"
      /\ conns' = conns + 1
      /\ pipe' = [s \in N!Sides |-> [pipe[s] EXCEPT ![conns + 1] = "pre"]]
      /\ UNCHANGED <<test, pc, assigned, members, n, p, started, closed, reaper, misread,
                     misused>>
  BY DEF N!Connect, N!counters
<1>2. /\ conns \in 0 .. 2 /\ MaxConns \in Nat /\ conns + 1 \in N!Conns
      /\ \A j \in 1 .. conns : j \in N!Conns
  BY <1>1, PipeNotifyAssumption DEF PipeTypes, N!Conns, N!Assumption
<1>3. \A s \in N!Sides : Endpoint(s) /\ assigned[s] /\ N!Has(s, "s")
  BY <1>1, RemainsHave DEF Prepared
<1>4. "pull" \in N!Sides /\ "push" \in N!Sides
  BY DEF N!Sides
<1>5. conns \in {0, 1}
  <2> SUFFICES ASSUME conns = 2 PROVE FALSE
    BY <1>2
  <2>1. pipe["pull"][2] = "gone"
    BY <1>1, <1>3, <1>4 DEF BeforeDestruction
  <2>2. <<"pull", 2>> \in closed
    BY <1>2, <1>4, <2>1 DEF PipesInPlace
  <2> QED BY <1>3, <1>4, <2>2 DEF BeforeDestruction
<1>6. \A s \in N!Sides, j \in N!Conns :
        pipe'[s][j] = IF j = conns + 1 THEN "pre" ELSE pipe[s][j]
  BY <1>1, <1>2 DEF PipeTypes
<1>7. pipe' \in [N!Sides -> [N!Conns -> PipeStates]]
  BY <1>1, <1>2 DEF PipeTypes, PipeStates
<1>8. 1 .. conns \subseteq 1 .. conns'
  BY <1>1, <1>5
<1>9. PipeTypes'
  <2>1. p' \in [N!Sides -> 1 .. conns' \cup {Null}]
    BY <1>1, <1>8 DEF PipeTypes
  <2>2. closed' \subseteq N!Sides \X (1 .. conns')
    BY <1>1, <1>8 DEF PipeTypes
  <2>3. conns' \in 0 .. 2 /\ conns' <= MaxConns
    BY <1>1, <1>2, <1>5
  <2> QED BY <1>1, <1>7, <2>1, <2>2, <2>3, PipeFrames DEF PipeTypes, PipeStates
<1>10. MainAt'
  BY <1>1, PipeFrames DEF MainAt
<1>11. Prepared'
  BY <1>1, <1>3, PipeFrames DEF Prepared
<1>12. PipesInPlace'
  <2> SUFFICES ASSUME NEW t \in N!Sides, NEW j \in N!Conns
               PROVE  /\ pipe'[t][j] = "none" <=> j > conns'
                      /\ pipe'[t][j] \in {"dead", "gone"} => <<t, j>> \in closed'
                      /\ pipe'[t][j] = "notified" => t = "pull" /\ test' = "reject"
    BY PipeFrames DEF PipesInPlace
  <2>1. j \in Nat
    BY <1>2 DEF N!Conns
  <2>2. CASE j = conns + 1
    BY <1>1, <1>5, <1>6, <2>2
  <2>3. CASE j # conns + 1
    <3>1. j > conns <=> j > conns'
      BY <1>1, <1>5, <2>1, <2>3
    <3> QED BY <1>1, <1>6, <2>3, <3>1 DEF PipesInPlace
  <2> QED BY <2>2, <2>3
<1>13. ASSUME NEW s \in N!Sides, NEW Z, "pre" \notin Z
       PROVE  HowMany(s, Z)' = HowMany(s, Z)
  <2>1. CASE conns = 0
    <3>1. /\ Is(s, 1, Z) = 0 /\ Is(s, 2, Z) = 0 /\ Is(s, 2, Z)' = 0
      BY <1>1, <2>1 DEF Is
    <3>2. Is(s, 1, Z)' = 0
      BY <1>2, <1>6, <1>13, <2>1 DEF Is
    <3> QED BY <3>1, <3>2 DEF HowMany
  <2>2. CASE conns = 1
    <3>1. Is(s, 2, Z) = 0 /\ Is(s, 2, Z)' = 0
      BY <1>1, <1>2, <1>6, <1>13, <2>2 DEF Is
    <3>2. Is(s, 1, Z)' = Is(s, 1, Z)
      BY <1>1, <1>2, <1>6, <2>2 DEF Is
    <3> QED BY <3>1, <3>2 DEF HowMany
  <2> QED BY <1>5, <2>1, <2>2
<1>14. EventsCounted'
  <2>1. "pre" \notin AfterAddPre /\ AfterAddPre' = AfterAddPre
    BY DEF AfterAddPre
  <2>2. ASSUME NEW t \in N!Sides
        PROVE  /\ n'[t].add_pre <= HowMany(t, AfterAddPre)'
               /\ Endpoint(t) => n'[t].add_pre = HowMany(t, AfterAddPre)'
               /\ n'[t].add_post <= HowMany(t, {"up", "gone"})'
               /\ n'[t].rem <= HowMany(t, {"gone"})'
               /\ Endpoint(t) => n'[t].err = 0
    BY <1>1, <1>13, <2>1 DEF EventsCounted
  <2> QED BY <1>1, <2>1, <2>2, PipeFrames DEF EventsCounted
<1>15. PullFirst'
  BY <1>1, PipeFrames DEF PullFirst
<1>16. BeforeDestruction'
  <2>1. \A s \in N!Sides, j \in 1 .. conns : pipe'[s][j] = pipe[s][j]
    BY <1>2, <1>5, <1>6
  <2>2. \A s \in N!Sides, j \in 1 .. conns' : <<s, j>> \in closed => j \in 1 .. conns
    BY DEF PipeTypes
  <2>3. \A j \in 1 .. conns' : j = conns + 1 \/ j \in 1 .. conns
    BY <1>1, <1>5
  <2>4. \A s \in N!Sides : pipe'[s][conns + 1] = "pre"
    BY <1>2, <1>6
  <2>5. \A s \in N!Sides, j \in 1 .. conns' : <<s, j>> \in closed =>
          pipe'[s][j] = "gone" \/ \E k \in DOMAIN reaper' : reaper'[k] = <<s, j>>
    BY <1>1, <1>3, <1>4, <2>1, <2>2 DEF BeforeDestruction
  <2>6. \A j \in 1 .. conns' : pipe'["push"][j] = "gone" => pipe'["pull"][j] = "gone"
    BY <1>3, <1>4, <2>1, <2>3, <2>4 DEF BeforeDestruction
  <2>7. \A j \in 1 .. conns' : j < conns' => pipe'["push"][j] = "gone"
    BY <1>1, <1>4, <1>5, <2>1
  <2>8. \A j \in 1 .. conns' : <<"pull", j>> \in closed =>
          /\ j = 1
          /\ (test = "reconnection" /\ pc > 13) \/ (test = "reject" /\ n["pull"].rej = 1)
    BY <1>3, <1>4, <2>2 DEF BeforeDestruction
  <2>9. pipe'["pull"][conns'] \notin AfterAddPre
    BY <1>1, <1>4, <2>4 DEF AfterAddPre
  <2>10. n["pull"].add_pre > 0 => p["pull"] # Null
    BY <1>3, <1>4 DEF BeforeDestruction
  <2> QED BY <1>1, <2>5, <2>6, <2>7, <2>8, <2>9, <2>10, PipeFrames
      DEF BeforeDestruction, AfterAddPre
<1> QED BY <1>1, <1>9, <1>10, <1>11, <1>12, <1>14, <1>15, <1>16 DEF N!LastPipeIsInUse, N!NoMisuse

\* What is left of a testcase without its last member
LEMMA Fronts ==
  /\ N!Front(N!testcase) = <<"lk", "cv", "s">> /\ N!Last(N!testcase) = "endpoint"
  /\ N!Front(<<"lk", "cv", "s">>) = <<"lk", "cv">> /\ N!Last(<<"lk", "cv", "s">>) = "s"
  /\ N!Front(<<"lk", "cv">>) = <<"lk">> /\ N!Last(<<"lk", "cv">>) = "cv"
  /\ N!Front(<<"lk">>) = <<>> /\ N!Last(<<"lk">>) = "lk"
<1> DEFINE M == {"lk", "cv", "s", "endpoint"}
<1>1. ASSUME NEW u \in Seq(M), NEW v \in Seq(M), NEW k \in Nat, Len(v) = k,
             Len(u) = k + 1, \A i \in 1 .. k : u[i] = v[i]
      PROVE  N!Front(u) = v /\ N!Last(u) = u[k + 1]
  <2>1. Len(u) - 1 = k
    BY <1>1
  <2>2. /\ SubSeq(u, 1, k) \in Seq(M) /\ Len(SubSeq(u, 1, k)) = k
        /\ \A i \in 1 .. k : SubSeq(u, 1, k)[i] = u[i]
    BY <1>1, <2>1, SubSeqProperties
  <2>3. SubSeq(u, 1, k) = v
    BY <1>1, <2>2, SeqEqual
  <2> QED BY <1>1, <2>1, <2>3 DEF N!Front, N!Last
<1>2. /\ N!testcase \in Seq(M) /\ <<"lk", "cv", "s">> \in Seq(M)
      /\ <<"lk", "cv">> \in Seq(M) /\ <<"lk">> \in Seq(M) /\ <<>> \in Seq(M)
  BY DEF N!testcase
<1>4. N!Front(N!testcase) = <<"lk", "cv", "s">> /\ N!Last(N!testcase) = "endpoint"
  <2> DEFINE u == N!testcase
             v == <<"lk", "cv", "s">>
  <2>1. Len(v) = 3 /\ Len(u) = 3 + 1 /\ u[3 + 1] = "endpoint"
        /\ \A i \in 1 .. 3 : u[i] = v[i]
    BY DEF N!testcase
  <2>2. u \in Seq(M) /\ v \in Seq(M)
    BY <1>2
  <2> HIDE DEF u, v, M
  <2>3. N!Front(u) = v /\ N!Last(u) = "endpoint"
    BY <1>1, <2>1, <2>2
  <2> QED BY <2>3 DEF u, v
<1>5. N!Front(<<"lk", "cv", "s">>) = <<"lk", "cv">> /\ N!Last(<<"lk", "cv", "s">>) = "s"
  <2> DEFINE u == <<"lk", "cv", "s">>
             v == <<"lk", "cv">>
  <2>1. Len(v) = 2 /\ Len(u) = 2 + 1 /\ u[2 + 1] = "s"
        /\ \A i \in 1 .. 2 : u[i] = v[i]
    BY DEF N!testcase
  <2>2. u \in Seq(M) /\ v \in Seq(M)
    BY <1>2
  <2> HIDE DEF u, v, M
  <2>3. N!Front(u) = v /\ N!Last(u) = "s"
    BY <1>1, <2>1, <2>2
  <2> QED BY <2>3 DEF u, v
<1>6. N!Front(<<"lk", "cv">>) = <<"lk">> /\ N!Last(<<"lk", "cv">>) = "cv"
  <2> DEFINE u == <<"lk", "cv">>
             v == <<"lk">>
  <2>1. Len(v) = 1 /\ Len(u) = 1 + 1 /\ u[1 + 1] = "cv"
        /\ \A i \in 1 .. 1 : u[i] = v[i]
    BY DEF N!testcase
  <2>2. u \in Seq(M) /\ v \in Seq(M)
    BY <1>2
  <2> HIDE DEF u, v, M
  <2>3. N!Front(u) = v /\ N!Last(u) = "cv"
    BY <1>1, <2>1, <2>2
  <2> QED BY <2>3 DEF u, v
<1>7. N!Front(<<"lk">>) = <<>> /\ N!Last(<<"lk">>) = "lk"
  <2>1. Len(<<"lk">>) = 1 /\ <<"lk">>[1] = "lk"
    OBVIOUS
  <2>2. SubSeq(<<"lk">>, 1, 0) \in Seq(M) /\ Len(SubSeq(<<"lk">>, 1, 0)) = 0
    BY <1>2, <2>1, SubSeqProperties
  <2>3. SubSeq(<<"lk">>, 1, 0) = <<>>
    BY <2>2, EmptySeq
  <2> QED BY <2>1, <2>3 DEF N!Front, N!Last
<1> QED BY <1>4, <1>5, <1>6, <1>7

\* A testcase is destroyed, its last member first.
LEMMA PipeDestroys == PipeInv /\ N!destroy => PipeInv'
<1> SUFFICES ASSUME PipeInv, N!destroy PROVE PipeInv'
  OBVIOUS
<1> USE DEF PipeInv
<1>0. PICK s : s = N!Side
  OBVIOUS
<1> DEFINE mine == {x \in {s} \X N!Conns : pipe[s][x[2]] \notin {"none", "gone"}}
<1>1. UNCHANGED <<test, assigned, n, p, conns, pipe, misread, misused>>
  BY DEF N!destroy, N!counters
<1>2. /\ End \in Nat /\ End >= 14
      /\ (pc = End - 1 /\ s = "pull") \/ (pc = End /\ s = "push")
  BY <1>0, PipeAt DEF N!destroy
<1>3. s \in N!Sides /\ "pull" \in N!Sides /\ "push" \in N!Sides
  BY <1>2 DEF N!Sides
<1>4. CASE members[s] = <<>>
  <2>1. pc' = pc + 1 /\ UNCHANGED <<members, started, closed, reaper>>
    BY <1>0, <1>4 DEF N!destroy
  <2>2. MainAt'
    BY <1>1, <1>2, <1>4, <2>1, PipeFrames DEF MainAt
  <2>3. pc' \in 1 .. End + 1 /\ pc' >= pc
    BY <1>2, <2>1
  <2>4. /\ assigned' \in [N!Sides -> BOOLEAN] /\ started' \in [N!Sides -> BOOLEAN]
        /\ \A t \in N!Sides : assigned[t] => assigned'[t]
        /\ \A t \in N!Sides : started'[t] => Endpoint(t) /\ assigned'[t]
    BY <1>1, <2>1 DEF PipeTypes, Prepared
  <2>5. ~misread'
    BY <1>1 DEF N!LastPipeIsInUse
  <2> QED BY <1>1, <2>1, <2>2, <2>3, <2>4, <2>5, PipeMoves
<1>5. CASE members[s] # <<>>
  <2>1. /\ N!Last(members[s]) = "s" => mine = {}
        /\ IF N!Last(members[s]) = "endpoint"
             THEN N!Close(mine) /\ started' = [started EXCEPT ![s] = FALSE]
             ELSE UNCHANGED <<started, closed, reaper>>
        /\ members' = [members EXCEPT ![s] = N!Front(@)]
        /\ pc' = pc
    BY <1>0, <1>5 DEF N!destroy
  <2>2. members \in [N!Sides -> Remains] /\ members[s] \in Remains
    BY <1>3 DEF PipeTypes
  <2>3. \/ members[s] = N!testcase /\ N!Last(members[s]) = "endpoint"
           /\ N!Front(members[s]) = <<"lk", "cv", "s">>
        \/ members[s] = <<"lk", "cv", "s">> /\ N!Last(members[s]) = "s"
           /\ N!Front(members[s]) = <<"lk", "cv">>
        \/ members[s] = <<"lk", "cv">> /\ N!Last(members[s]) = "cv"
           /\ N!Front(members[s]) = <<"lk">>
        \/ members[s] = <<"lk">> /\ N!Last(members[s]) = "lk"
           /\ N!Front(members[s]) = <<>>
    BY <1>5, <2>2, Fronts DEF Remains
  <2>4. /\ members'[s] \in Remains /\ members'[s] = N!Front(members[s])
        /\ members' \in [N!Sides -> Remains]
        /\ \A t \in N!Sides : t # s => members'[t] = members[t]
    BY <1>3, <2>1, <2>2, <2>3 DEF Remains
  <2>5. \A t \in N!Sides : t # s =>
          (Endpoint(t)' <=> Endpoint(t)) /\ (N!Has(t, "s")' <=> N!Has(t, "s"))
    BY <2>4 DEF Endpoint, N!Has
  <2>6. ~Endpoint(s)' /\ (N!Has(s, "s")' <=> members[s] = N!testcase)
    <3>1. members'[s] = <<"lk", "cv", "s">> => ~Endpoint(s)' /\ N!Has(s, "s")'
      BY DEF Endpoint, N!Has
    <3>2. members'[s] = <<"lk", "cv">> => ~Endpoint(s)' /\ ~N!Has(s, "s")'
      BY DEF Endpoint, N!Has
    <3>3. members'[s] = <<"lk">> => ~Endpoint(s)' /\ ~N!Has(s, "s")'
      BY DEF Endpoint, N!Has
    <3>4. members'[s] = <<>> => ~Endpoint(s)' /\ ~N!Has(s, "s")'
      BY DEF Endpoint, N!Has
    <3>5. /\ <<"lk", "cv", "s">> # N!testcase /\ <<"lk", "cv">> # N!testcase
          /\ <<"lk">> # N!testcase
      BY DEF N!testcase
    <3> QED BY <2>3, <2>4, <3>1, <3>2, <3>3, <3>4, <3>5
  <2>7. MainAt'
    BY <1>1, <1>2, <1>3, <2>1, <2>4, PipeFrames DEF MainAt
  <2>8. /\ started' \in [N!Sides -> BOOLEAN] /\ ~started'[s]
        /\ \A t \in N!Sides : t # s => started'[t] = started[t]
    <3>1. CASE members[s] = N!testcase
      <4>1. started' = [started EXCEPT ![s] = FALSE]
        BY <2>1, <3>1, Fronts
      <4> QED BY <1>3, <4>1 DEF PipeTypes
    <3>2. CASE members[s] # N!testcase
      <4>1. UNCHANGED started
        BY <2>1, <2>3, <3>2
      <4> QED BY <1>3, <3>2, <4>1, RemainsHave DEF Prepared, PipeTypes
    <3> QED BY <3>1, <3>2
  <2>9. ASSUME N!Has(s, "s"), ~N!Has(s, "s")', NEW j \in N!Conns
        PROVE  pipe[s][j] \in {"none", "gone"}
    <3>1. members[s] = <<"lk", "cv", "s">> \/ members[s] = <<"lk", "cv">>
          \/ members[s] = <<"lk">>
      BY <2>3, <2>6, <2>9
    <3>2. members[s] # <<"lk", "cv">> /\ members[s] # <<"lk">>
      BY <2>9 DEF N!Has
    <3>3. mine = {}
      BY <2>1, <3>1, <3>2, Fronts
    <3>4. <<s, j>> \in {s} \X N!Conns /\ <<s, j>>[2] = j
      BY <2>9
    <3> QED BY <3>3, <3>4
  <2>10. Prepared'
    <3>1. ASSUME NEW t \in N!Sides
          PROVE  /\ started'[t] => Endpoint(t)' /\ assigned'[t]
                 /\ conns' > 0 => assigned'[t]
                 /\ ~N!Has(t, "s")' => \A j \in N!Conns : pipe'[t][j] \in {"none", "gone"}
      <4>1. CASE t = s
        BY <1>1, <2>8, <2>9, <4>1 DEF Prepared
      <4>2. CASE t # s
        BY <1>1, <2>5, <2>8, <4>2 DEF Prepared
      <4> QED BY <4>1, <4>2
    <3> QED BY <3>1, PipeFrames DEF Prepared
  <2>11. mine \subseteq N!Sides \X (1 .. conns)
    <3>1. ASSUME NEW j \in N!Conns, pipe[s][j] # "none" PROVE j \in 1 .. conns
      BY <1>3, <3>1, PipeHasSocket
    <3> QED BY <1>3, <3>1
  <2>12. /\ closed \subseteq closed' /\ closed' \subseteq N!Sides \X (1 .. conns)
         /\ reaper' \in Seq(N!Sides \X Nat)
         /\ \A k \in DOMAIN reaper' : reaper'[k] \in closed'
         /\ PullFirst'
    <3>1. CASE members[s] = N!testcase
      <4>1. N!Close(mine)
        BY <2>1, <2>3, <3>1 DEF N!testcase
      <4>2. closed' = closed \cup mine /\ reaper' \in Seq(N!Sides \X Nat)
        BY <2>11, <4>1, Closes
      <4>3. \A x \in mine, y \in mine : x[1] = y[1]
        OBVIOUS
      <4>4. ASSUME NEW j \in N!Conns, <<"push", j>> \in mine PROVE <<"pull", j>> \in closed
        <5>1. s = "push" /\ pc = End /\ pipe[s][j] # "none"
          BY <1>2, <4>4
        <5>2. members["pull"] = <<>>
          BY <1>2, <5>1 DEF MainAt
        <5>3. pipe["pull"][j] \in {"none", "gone"}
          BY <1>3, <5>2, RemainsHave DEF Prepared
        <5>4. ~(j > conns)
          BY <1>3, <5>1 DEF PipesInPlace
        <5> QED BY <1>3, <5>3, <5>4 DEF PipesInPlace
      <4>5. PullFirst' /\ \A k \in DOMAIN reaper' : reaper'[k] \in closed'
        <5> HIDE DEF mine
        <5> QED BY <2>11, <4>1, <4>3, <4>4, ClosesInOrder
      <4> QED BY <2>11, <4>2, <4>5 DEF PipeTypes
    <3>2. CASE members[s] # N!testcase
      <4>1. UNCHANGED <<closed, reaper>>
        BY <2>1, <2>3, <3>2
      <4> QED BY <4>1, PipeFrames DEF PipeTypes, PullFirst
    <3> QED BY <3>1, <3>2
  <2>13. PipeTypes'
    BY <1>1, <2>1, <2>4, <2>8, <2>12, PipeFrames DEF PipeTypes, PipeStates
  <2>14. PipesInPlace'
    BY <1>1, <2>12, PipeFrames DEF PipesInPlace
  <2>15. EventsCounted'
    <3>1. \A t \in N!Sides : Endpoint(t)' => Endpoint(t)
      BY <2>5, <2>6
    <3>2. UNCHANGED <<pipe, conns>> /\ AfterAddPre' = AfterAddPre
      BY <1>1 DEF AfterAddPre
    <3> QED BY <1>1, <3>1, <3>2, PipeFrames DEF EventsCounted
  <2>16. ~Endpoint("pull")'
    <3>1. CASE s = "pull"
      BY <2>6, <3>1
    <3>2. CASE s = "push"
      <4>1. members["pull"] = <<>>
        BY <1>2, <3>2 DEF MainAt
      <4>2. ~Endpoint("pull")
        BY <1>3, <4>1, RemainsHave DEF N!testcase
      <4> QED BY <1>3, <2>5, <3>2, <4>2
    <3> QED BY <1>2, <3>1, <3>2
  <2>17. BeforeDestruction'
    BY <2>16 DEF BeforeDestruction
  <2> QED BY <1>1, <2>7, <2>10, <2>12, <2>13, <2>14, <2>15, <2>17
      DEF N!LastPipeIsInUse, N!NoMisuse
<1> QED BY <1>4, <1>5

-----------------------------------------------------------------------------
LEMMA PipeInit == N!Init => PipeInv
<1> SUFFICES ASSUME N!Init PROVE PipeInv
  OBVIOUS
<1> USE DEF N!Init
<1>1. "pull" \in N!Sides /\ "push" \in N!Sides
  BY DEF N!Sides
<1>2. End \in {14, 15, 24}
  <2>1. Len(N!dialing) = 15
    BY DEF N!dialing, N!setup, N!Expect
  <2>2. Len(N!reconnection) = 24
    BY DEF N!reconnection, N!setup, N!Expect
  <2>3. Len(N!rejecting) = 14
    BY DEF N!rejecting, N!setup, N!Expect
  <2> QED BY <2>1, <2>2, <2>3 DEF End, N!Program
<1>3. MaxConns \in Nat /\ conns \in 0 .. 2 /\ conns <= MaxConns
  BY PipeNotifyAssumption DEF N!Assumption
<1>4. PipeTypes
  <2>1. pc \in 1 .. End + 1
    BY <1>2
  <2>2. n \in [N!Sides -> [add_pre : Nat, add_post : Nat, rem : Nat, err : Nat,
                           rej : {0, 1}]]
    OBVIOUS
  <2>3. reaper \in Seq(N!Sides \X Nat) /\ \A k \in DOMAIN reaper : reaper[k] \in closed
    BY EmptySeq
  <2>4. members \in [N!Sides -> Remains]
    BY DEF Remains
  <2>5. /\ assigned \in [N!Sides -> BOOLEAN] /\ started \in [N!Sides -> BOOLEAN]
        /\ p \in [N!Sides -> 1 .. conns \cup {Null}]
        /\ pipe \in [N!Sides -> [N!Conns -> PipeStates]]
        /\ closed \subseteq N!Sides \X (1 .. conns)
    BY DEF PipeStates
  <2> QED BY <1>3, <2>1, <2>2, <2>3, <2>4, <2>5 DEF PipeTypes
<1>5. MainAt
  BY <1>1, <1>2 DEF MainAt
<1>6. \A s \in N!Sides : Endpoint(s) /\ N!Has(s, "s")
  BY <1>4, RemainsHave
<1>7. Prepared
  BY <1>6 DEF Prepared
<1>8. PipesInPlace
  BY <1>3 DEF PipesInPlace, N!Conns
<1>9. \A s, Z : HowMany(s, Z) = 0
  BY DEF HowMany, Is
<1>10. EventsCounted
  BY <1>9 DEF EventsCounted
<1>11. PullFirst /\ BeforeDestruction
  BY <1>1 DEF PullFirst, BeforeDestruction
<1> QED BY <1>4, <1>5, <1>7, <1>8, <1>10, <1>11 DEF PipeInv, N!LastPipeIsInUse, N!NoMisuse

LEMMA PipeNext == PipeInv /\ [N!Next]_(N!vars) => PipeInv'
<1> SUFFICES ASSUME PipeInv, [N!Next]_(N!vars) PROVE PipeInv'
  OBVIOUS
<1>1. CASE UNCHANGED N!vars
  <2>1. UNCHANGED <<test, pc, assigned, members, n, p, started, conns, pipe, closed, reaper,
                    misread, misused>>
    BY <1>1 DEF N!vars, N!counters, N!library
  <2>2. MainAt'
    BY <2>1, PipeFrames DEF PipeInv, MainAt
  <2>3. pc' \in 1 .. End + 1 /\ pc' >= pc
    BY <2>1 DEF PipeInv, PipeTypes
  <2>4. /\ assigned' \in [N!Sides -> BOOLEAN] /\ started' \in [N!Sides -> BOOLEAN]
        /\ \A t \in N!Sides : started'[t] => Endpoint(t) /\ assigned'[t]
    BY <2>1 DEF PipeInv, PipeTypes, Prepared
  <2>5. ~misread'
    BY <2>1 DEF PipeInv, N!LastPipeIsInUse
  <2> QED BY <2>1, <2>2, <2>3, <2>4, <2>5, PipeMoves
<1>2. CASE N!Main
  BY <1>2, PipeMakes, PipeStarts, PipeExpects, PipeClosedByMain, PipeReceives,
     PipeDestroys DEF N!Main
<1>3. CASE \E s \in N!Sides, i \in N!Conns : N!Pipe(s, i)
  BY <1>3, PipeAddsPre, PipeRejects, PipeAddsPost, PipePeerCloses DEF N!Pipe
<1> QED BY <1>1, <1>2, <1>3, PipeThrows, PipeReaps, PipeConnects DEF N!Next

\* The parts of the properties that are about PipeNotify
LEMMA PipeProperties == PipeInv => N!TypeOK /\ N!NoErrors
<1> SUFFICES ASSUME PipeInv PROVE N!TypeOK /\ N!NoErrors
  OBVIOUS
<1> USE DEF PipeInv
<1>1. ASSUME NEW s \in N!Sides
      PROVE  /\ {n[s].add_pre, n[s].add_post, n[s].rem} \subseteq 0 .. conns
             /\ n[s].rej \in 0 .. 1
  <2>1. /\ n[s].add_pre \in Nat /\ n[s].add_post \in Nat /\ n[s].rem \in Nat
        /\ n[s].rej \in {0, 1} /\ conns \in Nat
    BY DEF PipeTypes
  <2>2. /\ HowMany(s, AfterAddPre) \in 0 .. conns /\ HowMany(s, {"up", "gone"}) \in 0 .. conns
        /\ HowMany(s, {"gone"}) \in 0 .. conns
    BY <2>1, HowManyBounds
  <2>3. /\ n[s].add_pre <= HowMany(s, AfterAddPre)
        /\ n[s].add_post <= HowMany(s, {"up", "gone"}) /\ n[s].rem <= HowMany(s, {"gone"})
    BY DEF EventsCounted
  <2> QED BY <2>1, <2>2, <2>3
<1>2. p \in [N!Sides -> N!Conns \cup {Null}]
  <2>1. 1 .. conns \subseteq N!Conns
    BY PipeNotifyAssumption DEF PipeTypes, N!Conns, N!Assumption
  <2> QED BY <2>1 DEF PipeTypes
<1>3. N!Range(reaper) \subseteq closed
  BY DEF PipeTypes, N!Range
<1>4. pc \in 1 .. Len(N!Program) + 1 /\ conns \in 0 .. 2
  BY DEF PipeTypes, End
<1>5. N!TypeOK
  BY <1>1, <1>2, <1>3, <1>4 DEF N!TypeOK
<1>6. N!NoErrors
  BY DEF N!NoErrors, EventsCounted, Endpoint
<1> QED BY <1>5, <1>6

-----------------------------------------------------------------------------
(* The executable: one test case runs, the others stay where they are.     *)

LEMMA SynchSteps == [Next]_vars => [S!Next]_(S!vars)
<1>1. CASE UNCHANGED synch
  BY <1>1 DEF synch, S!vars
<1>2. CASE UNCHANGED vars
  BY <1>1, <1>2 DEF vars
<1> QED BY <1>1, <1>2 DEF Next

LEMMA PipeSteps == [Next]_vars => [N!Next]_(N!vars)
<1>1. CASE UNCHANGED pipes
  BY <1>1 DEF pipes, N!vars, N!counters, N!library
<1>2. CASE UNCHANGED vars
  BY <1>1, <1>2 DEF vars
<1> QED BY <1>1, <1>2 DEF Next

LEMMA ScalSteps == [Next]_vars => [C!Next]_(C!vars)
<1>1. CASE UNCHANGED scalability
  BY <1>1 DEF scalability, C!vars, C!thread, C!test
<1>2. CASE UNCHANGED vars
  BY <1>1, <1>2 DEF vars
<1> QED BY <1>1, <1>2 DEF Next

LEMMA StreamSteps == [Next]_vars => [P!Next]_(P!vars)
<1>1. CASE UNCHANGED stream_pair
  BY <1>1 DEF stream_pair, P!vars, P!aios
<1>2. CASE UNCHANGED vars
  BY <1>1, <1>2 DEF vars
<1> QED BY <1>1, <1>2 DEF Next

\* The invariant of synch.cpp, for any finite set of workers
THEOREM SynchAlways == Spec => []SynchInv
<1>1. Init => SynchInv
  <2>1. Init => S!Init
    BY DEF Init
  <2> QED BY <2>1, SynchInit
<1>2. SynchInv /\ [Next]_vars => SynchInv'
  BY SynchSteps, SynchNext
<1> QED BY <1>1, <1>2, PTL DEF Spec

\* The invariant of pipe.cpp, for any bound on the connections: there are two at
\* most, as the tests close one, and pull's pipe of it goes before push's.
THEOREM PipeAlways == Spec => []PipeInv
<1>1. Init => PipeInv
  <2>1. Init => N!Init
    BY DEF Init
  <2> QED BY <2>1, PipeInit
<1>2. PipeInv /\ [Next]_vars => PipeInv'
  BY PipeSteps, PipeNext
<1> QED BY <1>1, <1>2, PTL DEF Spec

\* The invariant of scalability.cpp, for any number of clients
THEOREM ScalAlways == Spec => []ScalInv
<1>1. Init => ScalInv
  <2>1. Init => C!Init
    BY DEF Init
  <2> QED BY <2>1, ScalInit
<1>2. ScalInv /\ [Next]_vars => ScalInv'
  BY ScalSteps, ScalNext
<1> QED BY <1>1, <1>2, PTL DEF Spec

\* The invariant of tcpsupp.cpp and ipcsupp.cpp, for any number of bytes, moved in
\* parts of any size
THEOREM StreamAlways == Spec => []StreamInv
<1>1. Init => StreamInv
  <2>1. Init => P!Init
    BY DEF Init
  <2> QED BY <2>1, StreamInit
<1>2. StreamInv /\ [Next]_vars => StreamInv'
  BY StreamSteps, StreamNext
<1> QED BY <1>1, <1>2, PTL DEF Spec

\* Every variable of the test cases keeps its type.
THEOREM TypeCorrect == Spec => []TypeOK
<1>1. SynchInv /\ PipeInv /\ ScalInv /\ StreamInv => TypeOK
  BY SynchTypeOK, PipeProperties, StreamProperties DEF ScalInv, TypeOK
<1> QED BY <1>1, SynchAlways, PipeAlways, ScalAlways, StreamAlways, PTL

\* The claims of the tests hold in every schedule: the REQUIREs of synch.cpp, that
\* of "Timeout works" excepted; no callback of pipe.cpp meets a pipe that its
\* testcase does not know; the server of scalability.cpp answers until it is
\* stopped; a stream test that passes has moved every byte.
THEOREM TestsClaims == Spec => []ClaimsHold
<1>1. SynchInv /\ PipeInv /\ ScalInv /\ StreamInv => ClaimsHold
  BY PipeProperties, StreamProperties DEF SynchInv, ScalInv, ClaimsHold
<1> QED BY <1>1, SynchAlways, PipeAlways, ScalAlways, StreamAlways, PTL

\* No thread, callback or operation of the tests uses a mutex, condition variable,
\* stream or other object that was destroyed, also while a test unwinds: in pipe.cpp
\* from any expect and with any callbacks still to come.
THEOREM TestsObjects == Spec => []UsedObjectsExist
<1>1. SynchInv /\ PipeInv /\ StreamInv => UsedObjectsExist
  BY StreamProperties DEF SynchInv, PipeInv, StreamInv, UsedObjectsExist
<1> QED BY <1>1, SynchAlways, PipeAlways, StreamAlways, PTL

\* pipe.cpp: the pipe that pull remembers is the one that the messages come over,
\* in "Dialing works" and after a reconnection ("Reject works" sends none).
THEOREM TestsLastPipe == Spec => []LastPipeIsInUse
<1>1. PipeInv => LastPipeIsInUse
  BY DEF PipeInv, LastPipeIsInUse
<1> QED BY <1>1, PipeAlways, PTL
=============================================================================
