------------------------- MODULE AsyncServerProofs -------------------------
(***************************************************************************)
(* Theorems about AsyncServer, for any number of work items and clients    *)
(* and any set of delays: no message is lost or doubled, and a client gets *)
(* its own reply, with contexts and with the raw socket.                   *)
(***************************************************************************)
EXTENDS AsyncServer, BigEndianProofs, FiniteSetTheorems, TLAPS

-----------------------------------------------------------------------------
(* The inductive invariant: where a work item is in its cycle decides      *)
(* whether it has a message, whose, and where it keeps it.                 *)

\* What c gets back: its request without the number
Reply(c) == [from |-> c, body |-> <<>>]

\* The callback of w has still to assign the state st, or has still to arm the aio
\* with op, or w is in state st and its aio armed.
Goes(w, st, op) ==
  \/ todo[w] = <<st, op>> /\ aio[w] = "idle"
  \/ todo[w] = <<op>> /\ aio[w] = "idle" /\ state[w] = st
  \/ todo[w] = <<>> /\ aio[w] = op /\ state[w] = st

\* The aio of w is done with the operation of state st, and no callback runs.
IsDone(w, st) == todo[w] = <<>> /\ aio[w] = "done" /\ state[w] = st

\* The situations of a work item without a message
Unstarted(w) == todo[w] = <<>> /\ state[w] = "INIT" /\ aio[w] = "idle"
Receiving(w) == Goes(w, "RECV", "recv")
RecvFailed(w) == IsDone(w, "RECV") /\ result[w] = "error"
SendSucceeded(w) == IsDone(w, "SEND") /\ result[w] = "success"

\* w has no message.
Free(w) ==
  /\ Unstarted(w) \/ Receiving(w) \/ RecvFailed(w) \/ SendSucceeded(w)
  /\ aio_msg[w] = Null
  /\ msg[w] = Null

\* The request of c has arrived, and no callback has looked at it.
Received(w, c) ==
  /\ IsDone(w, "RECV") /\ result[w] = "success"
  /\ aio_msg[w] = [from |-> c, body |-> BodyOf(delay[c])]
  /\ msg[w] = Null

\* w sleeps for c, or has slept.
Sleeping(w, c) ==
  /\ Goes(w, "WAIT", "sleep") \/ IsDone(w, "WAIT")
  /\ delay[c] # Null
  /\ aio_msg[w] = Null
  /\ msg[w] = Reply(c)

\* w sends the reply of c, or could not send it.
Sending(w, c) ==
  /\ Goes(w, "SEND", "send") \/ (IsDone(w, "SEND") /\ result[w] = "error")
  /\ delay[c] # Null
  /\ aio_msg[w] = Reply(c)
  /\ msg[w] = Null

\* w has the request of c.
Serving(w, c) ==
  /\ Received(w, c) \/ Sleeping(w, c) \/ Sending(w, c)
  /\ client[c] = "held"
  /\ peer[w] = c

\* The types that the proof needs: all but that of the number in a message
Types ==
  /\ mode \in {"ctx", "raw"}
  /\ started \in Nat
  /\ DOMAIN todo = Works
  /\ state \in [Works -> {"INIT"} \cup States]
  /\ aio \in [Works -> {"idle", "done"} \cup Operations]
  /\ result \in [Works -> {"success", "error"}]
  /\ aio_msg \in [Works -> Message \cup {Null}]
  /\ msg \in [Works -> Message \cup {Null}]
  /\ peer \in [Works -> Clients \cup {Null}]
  /\ client \in [Clients -> {"idle", "asked", "held", "ignored", "answered"}]
  /\ delay \in [Clients -> Delays \cup {Null}]
  /\ reply \in [Clients -> Message \cup {Null}]

\* Each work item is free or has one client's request.
EveryWorkInPhase == \A w \in Works : Free(w) \/ \E c \in Clients : Serving(w, c)

\* No request that was taken is lost.
HeldIsServed ==
  \A c \in Clients : client[c] = "held" => \E w \in Works : Serving(w, c)

\* No request is with two work items.
OneServes ==
  \A c \in Clients : \A v, w \in Works : Serving(v, c) /\ Serving(w, c) => v = w

\* OwnReply, with the reply named
AnsweredWithOwn ==
  \A c \in Clients : client[c] = "answered" => delay[c] # Null /\ reply[c] = Reply(c)

\* main starts the work items in order; it may be about to arm the next one.
StartedInOrder ==
  \A w \in Works : w > started =>
    \/ Unstarted(w)
    \/ w = started + 1 /\ todo[w] # <<>> /\ Receiving(w)

\* What every step preserves
IInv ==
  /\ Types /\ StartedInOrder
  /\ EveryWorkInPhase /\ HeldIsServed /\ OneServes /\ AnsweredWithOwn

-----------------------------------------------------------------------------
(* Messages.                                                               *)

\* A message on its way is a message, and not null.
LEMMA Messages ==
  ASSUME NEW c \in Clients, NEW d \in Delays \cup {Null}
  PROVE  /\ Reply(c) \in Message /\ Reply(c) # Null /\ Reply(c).from = c
         /\ [from |-> c, body |-> BodyOf(d)] \in Message
         /\ [from |-> c, body |-> BodyOf(d)] # Null
  BY NullAssumption DEF Reply, Message

\* Only a request with a number is as long as trim_u32 wants it, and trim_u32
\* leaves nothing of it.
LEMMA TrimLeavesReply ==
  ASSUME NEW c \in Clients, NEW d,
         Len(BodyOf(d)) >= U32
  PROVE  /\ d # Null
         /\ Trimmed([from |-> c, body |-> BodyOf(d)]) = Reply(c)
<1>1. d # Null
  BY DEF BodyOf, U32
<1> DEFINE digit(i) == (ToUnsigned(U32, d) \div Base^(U32 - i)) % Base
           e == [i \in 1 .. 4 |-> digit(i)]
<1>2. BodyOf(d) = e
  BY <1>1 DEF BodyOf, Encode, U32
<1> HIDE DEF digit
<1>3. Len(e) = 4 /\ SubSeq(e, 5, 4) = <<>>
  OBVIOUS
<1>4. SubSeq(BodyOf(d), U32 + 1, Len(BodyOf(d))) = <<>>
  BY <1>2, <1>3 DEF U32
<1> DEFINE mm == [from |-> c, body |-> BodyOf(d)]
<1>5. Trimmed(mm) = [mm EXCEPT !.body = <<>>]
  <2>1. mm.body = BodyOf(d)
    OBVIOUS
  <2> HIDE DEF mm
  <2> QED BY <2>1, <1>4 DEF Trimmed
<1>6. [mm EXCEPT !.body = <<>>] = Reply(c)
  BY DEF Reply
<1> QED
  BY <1>1, <1>5, <1>6

-----------------------------------------------------------------------------
(* Work items.                                                             *)

\* The two last steps of a callback
LEMMA LastSteps ==
  ASSUME NEW st \in States, NEW op \in Operations
  PROVE  /\ <<st, op>> # <<>> /\ Head(<<st, op>>) = st /\ Tail(<<st, op>>) = <<op>>
         /\ <<op>> # <<>> /\ Head(<<op>>) = op /\ Tail(<<op>>) = <<>>
         /\ <<>> \o <<st, op>> = <<st, op>> /\ <<>> \o <<op>> = <<op>>
         /\ Len(<<st, op>>) = 2 /\ Len(<<op>>) = 1
         /\ st \notin Operations /\ op \notin States
         /\ st \notin {"idle", "done"} /\ op \notin {"idle", "done"}
<1>1. /\ <<st, op>> # <<>> /\ Head(<<st, op>>) = st
      /\ <<op>> # <<>> /\ Head(<<op>>) = op
  OBVIOUS
<1>2. Tail(<<st, op>>) = <<op>> /\ Tail(<<op>>) = <<>>
  OBVIOUS
<1>3. <<>> \o <<st, op>> = <<st, op>> /\ <<>> \o <<op>> = <<op>>
  OBVIOUS
<1>4. Len(<<st, op>>) = 2 /\ Len(<<op>>) = 1
  OBVIOUS
<1>5. /\ st \notin Operations /\ op \notin States
      /\ st \notin {"idle", "done"} /\ op \notin {"idle", "done"}
  BY DEF States, Operations
<1> QED BY <1>1, <1>2, <1>3, <1>4, <1>5

\* The states and operations by name
LEMMA Named ==
  /\ "RECV" \in States /\ "WAIT" \in States /\ "SEND" \in States
  /\ "recv" \in Operations /\ "sleep" \in Operations /\ "send" \in Operations
  BY DEF States, Operations

\* What the aio and the state say of a work item that goes on
LEMMA GoesFacts ==
  ASSUME NEW w, NEW st \in States, NEW op \in Operations, Goes(w, st, op)
  PROVE  /\ aio[w] \in {"idle", op} /\ aio[w] # "done"
         /\ aio[w] # "idle" => aio[w] = op /\ todo[w] = <<>> /\ state[w] = st
         /\ todo[w] = <<>> => aio[w] = op /\ state[w] = st
         /\ Len(todo[w]) <= 2
<1>1. Len(<<>>) = 0
  OBVIOUS
<1>2. /\ <<st, op>> # <<>> /\ <<op>> # <<>> /\ op \notin {"idle", "done"}
      /\ Len(<<st, op>>) = 2 /\ Len(<<op>>) = 1
  BY LastSteps
<1>3. CASE todo[w] = <<st, op>> /\ aio[w] = "idle"
  BY <1>2, <1>3
<1>4. CASE todo[w] = <<op>> /\ aio[w] = "idle" /\ state[w] = st
  BY <1>2, <1>4
<1>5. CASE todo[w] = <<>> /\ aio[w] = op /\ state[w] = st
  BY <1>1, <1>2, <1>5
<1> QED BY <1>3, <1>4, <1>5 DEF Goes

\* A work item with t to do, aio a and state s goes to one operation.
LEMMA OneGoal ==
  ASSUME NEW t, NEW a, NEW s, NEW st \in States, NEW op \in Operations,
         NEW st2 \in States, NEW op2 \in Operations,
         \/ t = <<st, op>> /\ a = "idle"
         \/ t = <<op>> /\ a = "idle" /\ s = st
         \/ t = <<>> /\ a = op /\ s = st,
         \/ t = <<st2, op2>> /\ a = "idle"
         \/ t = <<op2>> /\ a = "idle" /\ s = st2
         \/ t = <<>> /\ a = op2 /\ s = st2
  PROVE  op2 = op
<1>1. /\ Len(<<st, op>>) = 2 /\ Len(<<op>>) = 1 /\ Len(<<>>) = 0
      /\ Len(<<st2, op2>>) = 2 /\ Len(<<op2>>) = 1
  OBVIOUS
<1>2. CASE t = <<st, op>>
  <2>1. t = <<st2, op2>>
    BY <1>1, <1>2
  <2>2. <<st, op>>[2] = op /\ <<st2, op2>>[2] = op2
    OBVIOUS
  <2> QED BY <1>2, <2>1, <2>2
<1>3. CASE t = <<op>>
  <2>1. t = <<op2>>
    BY <1>1, <1>3
  <2>2. <<op>>[1] = op /\ <<op2>>[1] = op2
    OBVIOUS
  <2> QED BY <1>3, <2>1, <2>2
<1>4. CASE t = <<>> /\ a = op
  <2>1. t # <<st2, op2>> /\ t # <<op2>>
    BY <1>1, <1>4
  <2> QED BY <1>4, <2>1
<1> QED BY <1>2, <1>3, <1>4

\* A work item goes to one operation, and one that is not started to none.
LEMMA Disjoint ==
  ASSUME NEW w, NEW st \in States, NEW op \in Operations, Goes(w, st, op)
  PROVE  /\ ~(todo[w] = <<>> /\ aio[w] = "idle")
         /\ \A st2 \in States, op2 \in Operations :
              Goes(w, st2, op2) => op2 = op
<1>1. ~(todo[w] = <<>> /\ aio[w] = "idle")
  <2>1. op # "idle"
    BY DEF Operations
  <2>2. todo[w] = <<>> => aio[w] = op
    BY GoesFacts
  <2> QED BY <2>1, <2>2
<1>2. \A st2 \in States, op2 \in Operations : Goes(w, st2, op2) => op2 = op
  BY OneGoal DEF Goes
<1> QED BY <1>1, <1>2

\* The assignment of the state and the arming leave a work item where it goes.
LEMMA GoesOn ==
  ASSUME Types, NEW w \in Works, NEW st \in States, NEW op \in Operations,
         Goes(w, st, op), SetState(w) \/ Arm(w)
  PROVE  Goes(w, st, op)'
<1>1. \/ todo[w] = <<st, op>> /\ aio[w] = "idle"
      \/ todo[w] = <<op>> /\ aio[w] = "idle" /\ state[w] = st
  BY DEF Goes, SetState, Arm
<1>2. CASE todo[w] = <<st, op>> /\ aio[w] = "idle"
  <2>1. Head(todo[w]) = st /\ Tail(todo[w]) = <<op>>
    BY <1>2, LastSteps
  <2>2. ~Arm(w)
    BY <2>1, LastSteps DEF Arm
  <2>3. todo'[w] = <<op>> /\ state'[w] = st /\ aio'[w] = "idle"
    BY <1>2, <2>1, <2>2 DEF SetState, Types
  <2> QED BY <2>3 DEF Goes
<1>3. CASE todo[w] = <<op>> /\ aio[w] = "idle" /\ state[w] = st
  <2>1. Head(todo[w]) = op /\ Tail(todo[w]) = <<>>
    BY <1>3, LastSteps
  <2>2. ~SetState(w)
    BY <2>1, LastSteps DEF SetState
  <2>3. todo'[w] = <<>> /\ state'[w] = st /\ aio'[w] = op
    BY <1>3, <2>1, <2>2 DEF Arm, Types
  <2> QED BY <2>3 DEF Goes
<1> QED BY <1>1, <1>2, <1>3

\* A callback that was called goes on to what it does last.
LEMMA CallbackGoes ==
  ASSUME Types, NEW w \in Works, todo[w] = <<>>,
         NEW st \in States, NEW op \in Operations,
         \/ Then(w, <<st, op>>)
         \/ Then(w, <<op>>) /\ state'[w] = st
  PROVE  Goes(w, st, op)'
<1>1. \/ todo'[w] = <<>> \o <<st, op>> /\ aio'[w] = "idle"
      \/ todo'[w] = <<>> \o <<op>> /\ aio'[w] = "idle" /\ state'[w] = st
  BY DEF Then, Types
<1> QED BY <1>1, LastSteps DEF Goes

\* A work item is free, or has one client's request.
LEMMA Phases ==
  ASSUME Types, NEW w \in Works, NEW c \in Clients, Serving(w, c)
  PROVE  /\ ~Free(w)
         /\ \A d \in Clients : Serving(w, d) => d = c
<1>1. \A d \in Clients : Serving(w, d) => d = c
  BY DEF Serving
<1>2. ~Free(w)
  BY NullAssumption
     DEF Serving, Free, Received, Sleeping, Sending, Reply, Message, Types
<1> QED BY <1>1, <1>2

\* Nothing about work item v changes.
Same(v) ==
  /\ todo'[v] = todo[v]
  /\ state'[v] = state[v] /\ aio'[v] = aio[v] /\ result'[v] = result[v]
  /\ aio_msg'[v] = aio_msg[v] /\ msg'[v] = msg[v] /\ peer'[v] = peer[v]

\* A work item that does not change keeps its phase, if its client does.
LEMMA SamePhase ==
  ASSUME NEW v \in Works, Same(v)
  PROVE  /\ Free(v)' <=> Free(v)
         /\ \A c \in Clients :
              delay'[c] = delay[c] /\ (client'[c] = "held" <=> client[c] = "held")
                => (Serving(v, c)' <=> Serving(v, c))
  BY DEF Same, Free, Unstarted, Receiving, RecvFailed, SendSucceeded,
         Serving, Received, Sleeping, Sending, Reply, Goes, IsDone

Phased == EveryWorkInPhase /\ HeldIsServed /\ OneServes /\ AnsweredWithOwn

\* A step of one work item that keeps its request, or stays without one
LEMMA Keeps ==
  ASSUME IInv, Types', NEW w \in Works, UNCHANGED world,
         \A v \in Works \ {w} : Same(v),
         Free(w) => Free(w)',
         \A c \in Clients : Serving(w, c) => Serving(w, c)'
  PROVE  Phased'
<1> USE DEF IInv
<1>1. UNCHANGED <<client, delay, reply>>
  BY DEF world
<1>2. \A v \in Works \ {w} : Free(v)' <=> Free(v)
  BY SamePhase
<1>3. \A v \in Works \ {w}, c \in Clients : Serving(v, c)' <=> Serving(v, c)
  BY <1>1, SamePhase
<1>4. ASSUME NEW c \in Clients PROVE Serving(w, c)' <=> Serving(w, c)
  <2>1. CASE Free(w)
    <3>1. ~Serving(w, c)'
      BY <2>1, NullAssumption
         DEF Serving, Free, Received, Sleeping, Sending, Reply, Message, Types
    <3>2. ~Serving(w, c)
      BY <2>1, Phases
    <3> QED BY <3>1, <3>2
  <2>2. ASSUME NEW d \in Clients, Serving(w, d)
        PROVE  Serving(w, c)' <=> Serving(w, c)
    BY <2>2 DEF Serving
  <2> QED BY <2>1, <2>2 DEF EveryWorkInPhase
<1>5. EveryWorkInPhase'
  BY <1>2, <1>3, <1>4 DEF EveryWorkInPhase
<1>6. HeldIsServed'
  BY <1>1, <1>3, <1>4 DEF HeldIsServed
<1>7. OneServes'
  BY <1>3, <1>4 DEF OneServes
<1>8. AnsweredWithOwn'
  BY <1>1 DEF AnsweredWithOwn, Reply
<1> QED BY <1>5, <1>6, <1>7, <1>8 DEF Phased

\* Nothing about any client but c changes.
Others(c) ==
  \A d \in Clients \ {c} :
    client'[d] = client[d] /\ delay'[d] = delay[d] /\ reply'[d] = reply[d]

\* A work item that does not change serves the same client, unless this one's
\* request goes elsewhere.
LEMMA OthersServe ==
  ASSUME IInv, Types', NEW c \in Clients, Others(c),
         NEW v \in Works, Same(v), ~Serving(v, c)
  PROVE  /\ Free(v)' <=> Free(v)
         /\ \A d \in Clients : Serving(v, d)' <=> Serving(v, d)
<1>1. Free(v)' <=> Free(v)
  BY SamePhase
<1>2. ASSUME NEW d \in Clients, d # c PROVE Serving(v, d)' <=> Serving(v, d)
  BY <1>2, SamePhase DEF Others
<1>3. ~Serving(v, c)'
  <2>1. CASE Free(v)
    BY <2>1, <1>1, NullAssumption
       DEF Serving, Free, Received, Sleeping, Sending, Reply, Message, Types
  <2>2. ASSUME NEW d \in Clients, Serving(v, d) PROVE ~Serving(v, c)'
    BY <2>2 DEF Serving, Same
  <2> QED BY <2>1, <2>2 DEF IInv, EveryWorkInPhase
<1> QED BY <1>1, <1>2, <1>3

\* A free work item gets the request of c.
LEMMA Gains ==
  ASSUME IInv, Types', NEW w \in Works, NEW c \in Clients, Others(c),
         \A v \in Works \ {w} : Same(v),
         client[c] # "held", client'[c] = "held",
         Free(w), Serving(w, c)'
  PROVE  Phased'
<1> USE DEF IInv
<1>1. \A v \in Works : ~Serving(v, c)
  BY DEF Serving
<1>2. \A v \in Works \ {w} : /\ Free(v)' <=> Free(v)
                            /\ \A d \in Clients : Serving(v, d)' <=> Serving(v, d)
  BY <1>1, OthersServe
<1>3. \A d \in Clients : ~Serving(w, d) /\ (Serving(w, d)' => d = c)
  BY Phases DEF Serving
<1>4. EveryWorkInPhase'
  BY <1>2 DEF EveryWorkInPhase
<1>5. HeldIsServed'
  BY <1>2, <1>3 DEF HeldIsServed, Others
<1>6. OneServes'
  BY <1>1, <1>2, <1>3 DEF OneServes
<1>7. AnsweredWithOwn'
  BY DEF AnsweredWithOwn, Others, Reply
<1> QED BY <1>4, <1>5, <1>6, <1>7 DEF Phased

\* A work item ends with the request of c.
LEMMA Loses ==
  ASSUME IInv, Types', NEW w \in Works, NEW c \in Clients, Others(c),
         \A v \in Works \ {w} : Same(v),
         Serving(w, c), client'[c] # "held", Free(w)',
         client'[c] = "answered" => delay'[c] # Null /\ reply'[c] = Reply(c)
  PROVE  Phased'
<1> USE DEF IInv
<1>1. \A v \in Works \ {w} : ~Serving(v, c)
  BY DEF OneServes
<1>2. \A v \in Works \ {w} : /\ Free(v)' <=> Free(v)
                            /\ \A d \in Clients : Serving(v, d)' <=> Serving(v, d)
  BY <1>1, OthersServe
<1>3. \A d \in Clients : Serving(w, d) => d = c
  BY Phases
<1>4. \A d \in Clients : ~Serving(w, d)'
  BY NullAssumption
     DEF Serving, Free, Received, Sleeping, Sending, Reply, Message, Types
<1>5. EveryWorkInPhase'
  BY <1>2 DEF EveryWorkInPhase
<1>6. HeldIsServed'
  BY <1>2, <1>3 DEF HeldIsServed, Others
<1>7. OneServes'
  BY <1>2, <1>4 DEF OneServes
<1>8. AnsweredWithOwn'
  BY DEF AnsweredWithOwn, Others, Reply
<1> QED BY <1>5, <1>6, <1>7, <1>8 DEF Phased

\* A client whose request is not with the server does something.
LEMMA ClientMoves ==
  ASSUME IInv, Types', UNCHANGED work, NEW c \in Clients, Others(c),
         client[c] # "held", client'[c] \notin {"held", "answered"}
  PROVE  Phased'
<1> USE DEF IInv
<1>1. \A v \in Works : Same(v) /\ ~Serving(v, c)
  BY DEF work, Same, Serving
<1>2. \A v \in Works : /\ Free(v)' <=> Free(v)
                      /\ \A d \in Clients : Serving(v, d)' <=> Serving(v, d)
  BY <1>1, OthersServe
<1>3. EveryWorkInPhase'
  BY <1>2 DEF EveryWorkInPhase
<1>4. HeldIsServed'
  BY <1>2 DEF HeldIsServed, Others
<1>5. OneServes'
  BY <1>2 DEF OneServes
<1>6. AnsweredWithOwn'
  BY DEF AnsweredWithOwn, Others, Reply
<1> QED BY <1>3, <1>4, <1>5, <1>6 DEF Phased

-----------------------------------------------------------------------------
(* The invariant is inductive.                                             *)

\* main: no work item has been started, no client has asked.
LEMMA InitIInv ==
  ASSUME Init
  PROVE  IInv
<1>1. Types
  BY DEF Init, Types
<1>2. \A w \in Works : Free(w) /\ Unstarted(w)
  BY DEF Init, Free, Unstarted
<1>3. \A c \in Clients : client[c] = "idle"
  BY DEF Init
<1>4. \A w \in Works, c \in Clients : ~Serving(w, c)
  BY <1>3 DEF Serving
<1> QED
  BY <1>1, <1>2, <1>3, <1>4
     DEF IInv, StartedInOrder, EveryWorkInPhase, HeldIsServed, OneServes,
         AnsweredWithOwn

\* What a work item is doing says which phase it is in.
LEMMA PhaseOf ==
  ASSUME IInv, NEW w \in Works
  PROVE  /\ aio[w] = "recv" => Free(w) /\ todo[w] = <<>> /\ state[w] = "RECV"
         /\ aio[w] = "done" => todo[w] = <<>>
         /\ Called(w, "RECV") /\ result[w] = "success" =>
              \E c \in Clients : Serving(w, c) /\ Received(w, c)
         /\ aio[w] = "sleep" \/ Called(w, "WAIT") =>
              \E c \in Clients : Serving(w, c) /\ Sleeping(w, c)
         /\ aio[w] = "send" =>
              \E c \in Clients : Serving(w, c) /\ Sending(w, c)
         /\ Called(w, "SEND") /\ result[w] = "success" => Free(w)
<1>1. "RECV" \in States /\ "WAIT" \in States /\ "SEND" \in States
      /\ "recv" \in Operations /\ "sleep" \in Operations /\ "send" \in Operations
  BY DEF States, Operations
<1>2. CASE Free(w)
  <2>1. /\ aio[w] \in {"idle", "recv", "done"}
        /\ aio[w] # "idle" => todo[w] = <<>>
        /\ aio[w] = "recv" => state[w] = "RECV"
        /\ aio[w] = "done" /\ state[w] = "RECV" => result[w] # "success"
        /\ aio[w] = "done" => state[w] # "WAIT"
    BY <1>1, <1>2, GoesFacts
       DEF Free, Unstarted, Receiving, RecvFailed, SendSucceeded, IsDone
  <2> QED BY <1>2, <2>1 DEF Called
<1>3. ASSUME NEW c \in Clients, Serving(w, c)
      PROVE  /\ aio[w] # "recv"
             /\ aio[w] = "done" => todo[w] = <<>>
             /\ Called(w, "RECV") => Received(w, c)
             /\ aio[w] = "sleep" \/ Called(w, "WAIT") => Sleeping(w, c)
             /\ aio[w] = "send" => Sending(w, c)
             /\ ~(Called(w, "SEND") /\ result[w] = "success")
  <2>1. CASE Received(w, c)
    BY <2>1 DEF Received, IsDone, Called
  <2>2. CASE Sleeping(w, c)
    <3>1. Goes(w, "WAIT", "sleep") => aio[w] \in {"idle", "sleep"}
      BY <1>1, GoesFacts
    <3> QED BY <2>2, <3>1 DEF Sleeping, IsDone, Called
  <2>3. CASE Sending(w, c)
    <3>1. Goes(w, "SEND", "send") => aio[w] \in {"idle", "send"}
      BY <1>1, GoesFacts
    <3> QED BY <2>3, <3>1 DEF Sending, IsDone, Called
  <2> QED BY <1>3, <2>1, <2>2, <2>3 DEF Serving
<1> QED BY <1>2, <1>3 DEF IInv, EveryWorkInPhase

\* Work items that main has not come to yet do nothing.
LEMMA StartedStays ==
  ASSUME IInv, NEW w \in Works, aio[w] # "idle", UNCHANGED started,
         \A v \in Works \ {w} : Same(v)
  PROVE  StartedInOrder'
<1>1. ~(w > started)
  <2>1. "RECV" \in States /\ "recv" \in Operations
    BY DEF States, Operations
  <2>2. Receiving(w) => todo[w] = <<>>
    BY <2>1, GoesFacts DEF Receiving
  <2> QED BY <2>2 DEF IInv, StartedInOrder, Unstarted
<1> QED BY <1>1 DEF IInv, StartedInOrder, Unstarted, Receiving, Goes, Same

\* The aio of a work item that main starts is idle.
LEMMA InitIsIdle ==
  ASSUME IInv, NEW w \in Works, CbInit(w)
  PROVE  Unstarted(w)
  BY DEF CbInit, IInv, StartedInOrder, Unstarted, Works, Types

\* main starts a work item.
LEMMA InitStep ==
  ASSUME IInv, NEW w \in Works, CbInit(w)
  PROVE  IInv'
<1>1. Unstarted(w)
  BY InitIsIdle
<1>2. Free(w)
  <2>1. "WAIT" \in States /\ "SEND" \in States
        /\ "sleep" \in Operations /\ "send" \in Operations
    BY DEF States, Operations
  <2>2. ASSUME NEW c \in Clients PROVE ~Serving(w, c)
    BY <1>1, <2>1, GoesFacts
       DEF Unstarted, Serving, Received, Sleeping, Sending, IsDone, Operations
  <2> QED BY <2>2 DEF IInv, EveryWorkInPhase
<1>3. Types'
  BY DEF CbInit, Then, IInv, Types, world, Works
<1>4. \A v \in Works \ {w} : Same(v)
  BY DEF CbInit, Then, Same, IInv, Types
<1>5. Receiving(w)' /\ todo'[w] # <<>> /\ started' = started /\ started = w - 1
  <2>1. "RECV" \in States /\ "recv" \in Operations
    BY DEF States, Operations
  <2>2. Receiving(w)'
    BY <1>1, <2>1, CallbackGoes DEF CbInit, IInv, Receiving, Unstarted
  <2>3. todo'[w] = <<>> \o <<"RECV", "recv">>
    BY <1>1 DEF CbInit, Then, Unstarted, IInv, Types
  <2> QED BY <2>1, <2>2, <2>3, LastSteps DEF CbInit
<1>6. StartedInOrder'
  <2>1. w \in Nat /\ started \in Nat /\ w = started + 1
    BY <1>5, ParallelAssumption DEF Works, IInv, Types
  <2>2. \A v \in Works \ {w} : v > started => Unstarted(v)
    BY <2>1 DEF IInv, StartedInOrder
  <2>3. \A v \in Works \ {w} : v > started => Unstarted(v)'
    BY <1>4, <2>2 DEF Same, Unstarted
  <2> QED BY <1>5, <2>1, <2>3 DEF StartedInOrder
<1>7. Free(w)' /\ UNCHANGED world
  BY <1>2, <1>5 DEF CbInit, Free
<1>8. \A c \in Clients : ~Serving(w, c)
  BY <1>2, Phases DEF IInv
<1>9. Phased'
  BY <1>3, <1>4, <1>7, <1>8, Keeps
<1> QED BY <1>3, <1>6, <1>9 DEF IInv, Phased

\* A callback assigns the state, or arms the aio.
LEMMA GoOnStep ==
  ASSUME IInv, NEW w \in Works, SetState(w) \/ Arm(w)
  PROVE  IInv'
<1>1. "RECV" \in States /\ "WAIT" \in States /\ "SEND" \in States
      /\ "recv" \in Operations /\ "sleep" \in Operations /\ "send" \in Operations
  BY DEF States, Operations
<1>2. todo[w] # <<>> /\ UNCHANGED <<mode, result, aio_msg, msg, peer, world>>
  BY DEF SetState, Arm
<1>3. Types'
  <2>1. /\ DOMAIN todo' = Works
        /\ state' \in [Works -> {"INIT"} \cup States]
        /\ aio' \in [Works -> {"idle", "done"} \cup Operations]
    <3>1. CASE SetState(w)
      BY <3>1 DEF SetState, IInv, Types
    <3>2. CASE Arm(w)
      BY <3>2 DEF Arm, IInv, Types
    <3> QED BY <3>1, <3>2
  <2>2. started' \in Nat
    BY ParallelAssumption DEF SetState, Arm, IInv, Types, Works
  <2> QED BY <1>2, <2>1, <2>2 DEF IInv, Types, world
<1>4. \A v \in Works \ {w} : Same(v)
  BY DEF SetState, Arm, Same, IInv, Types
<1>5. ASSUME Free(w) PROVE Free(w)' /\ Receiving(w)'
  <2>1. Receiving(w)
    BY <1>2, <1>5 DEF Free, Unstarted, RecvFailed, SendSucceeded, IsDone
  <2>2. Receiving(w)'
    BY <1>1, <2>1, GoesOn DEF Receiving, IInv
  <2> QED BY <1>2, <1>5, <2>2 DEF Free
<1>6. ASSUME NEW c \in Clients, Serving(w, c) PROVE Serving(w, c)'
  <2>1. CASE Sleeping(w, c)
    <3>1. Goes(w, "WAIT", "sleep")'
      BY <1>1, <1>2, <2>1, GoesOn DEF Sleeping, IsDone, IInv
    <3> QED BY <1>2, <1>6, <2>1, <3>1 DEF Sleeping, Serving, Reply, world
  <2>2. CASE Sending(w, c)
    <3>1. Goes(w, "SEND", "send")'
      BY <1>1, <1>2, <2>2, GoesOn DEF Sending, IsDone, IInv
    <3> QED BY <1>2, <1>6, <2>2, <3>1 DEF Sending, Serving, Reply, world
  <2> QED BY <1>2, <1>6, <2>1, <2>2 DEF Serving, Received, IsDone
<1>7. Phased'
  BY <1>2, <1>3, <1>4, <1>5, <1>6, Keeps
<1>8. StartedInOrder'
  <2>1. w \in Nat /\ started \in Nat /\ started' \in Nat
    BY <1>3, ParallelAssumption DEF Works, IInv, Types
  <2>2. CASE SetState(w)
    <3>1. started' = started /\ todo'[w] = Tail(todo[w]) /\ Head(todo[w]) \in States
      BY <2>2 DEF SetState, IInv, Types
    <3>2. \A v \in Works \ {w} : v > started' =>
            \/ Unstarted(v)'
            \/ v = started' + 1 /\ todo'[v] # <<>> /\ Receiving(v)'
      BY <1>4, <3>1 DEF IInv, StartedInOrder, Unstarted, Receiving, Goes, Same
    <3>3. w > started => w = started + 1 /\ Receiving(w)
      BY <1>2 DEF IInv, StartedInOrder, Unstarted
    <3>4. Receiving(w) => todo[w] = <<"RECV", "recv">>
      BY <1>1, <1>2, <3>1, LastSteps DEF Receiving, Goes
    <3>5. Receiving(w) => todo'[w] # <<>>
      <4>1. Tail(<<"RECV", "recv">>) = <<"recv">> /\ <<"recv">> # <<>>
        BY <1>1, LastSteps
      <4> QED BY <3>1, <3>4, <4>1
    <3>6. Receiving(w) => Receiving(w)'
      BY <1>1, GoesOn DEF Receiving, IInv
    <3> QED BY <3>1, <3>2, <3>3, <3>5, <3>6 DEF StartedInOrder
  <2>3. CASE Arm(w)
    <3>1. started' = IF w > started THEN w ELSE started
      BY <2>3 DEF Arm
    <3>2. w > started => w = started + 1
      BY <1>2 DEF IInv, StartedInOrder, Unstarted
    <3>3. ASSUME NEW v \in Works, v > started' PROVE Unstarted(v)' \/
            (v = started' + 1 /\ todo'[v] # <<>> /\ Receiving(v)')
      <4>1. v # w /\ v > started /\ v \in Nat
        BY <2>1, <3>1, <3>3, ParallelAssumption DEF Works
      <4>2. Same(v)
        BY <1>4, <4>1
      <4>3. \/ Unstarted(v)
            \/ v = started + 1 /\ todo[v] # <<>> /\ Receiving(v)
        BY <4>1 DEF IInv, StartedInOrder
      <4>4. CASE w > started
        <5>1. Unstarted(v)
          BY <2>1, <3>2, <4>1, <4>3, <4>4
        <5> QED BY <4>2, <5>1 DEF Unstarted, Same
      <4>5. CASE ~(w > started)
        BY <3>1, <4>2, <4>3, <4>5 DEF Unstarted, Receiving, Goes, Same
      <4> QED BY <4>4, <4>5
    <3> QED BY <3>3 DEF StartedInOrder
  <2> QED BY <2>2, <2>3
<1> QED BY <1>3, <1>7, <1>8 DEF IInv, Phased

\* A request that trim_u32 accepts
LEMMA RecvStep ==
  ASSUME IInv, NEW w \in Works, CbRecv(w)
  PROVE  IInv'
<1>1. PICK c \in Clients : Serving(w, c) /\ Received(w, c)
  BY PhaseOf DEF CbRecv
<1>2. delay[c] \in Delays \cup {Null}
  BY DEF IInv, Types
<1>3. delay[c] # Null /\ Trimmed(aio_msg[w]) = Reply(c)
  BY <1>1, TrimLeavesReply DEF CbRecv, Received
<1>4. Types'
  BY <1>2, <1>3, Messages DEF CbRecv, Then, IInv, Types, world
<1>5. \A v \in Works \ {w} : Same(v)
  BY DEF CbRecv, Then, Same, IInv, Types
<1>9. StartedInOrder'
  BY <1>5, StartedStays DEF CbRecv, Called, IInv, Types
<1>6. Serving(w, c)' /\ UNCHANGED world
  <2>1. Goes(w, "WAIT", "sleep")'
    BY <1>1, Named, CallbackGoes DEF CbRecv, Received, IsDone, IInv
  <2>2. /\ UNCHANGED <<world, client, delay, peer>>
        /\ aio_msg'[w] = Null /\ msg'[w] = Reply(c)
    BY <1>3 DEF CbRecv, IInv, Types, world
  <2> QED BY <1>1, <1>3, <2>1, <2>2 DEF Serving, Sleeping, Reply
<1>7. ~Free(w) /\ \A d \in Clients : Serving(w, d) => d = c
  BY <1>1, Phases DEF IInv
<1>8. Phased'
  BY <1>4, <1>5, <1>6, <1>7, Keeps
<1> QED BY <1>4, <1>8, <1>9 DEF IInv, Phased

\* A bad message is dropped, and its client will not get a reply.
LEMMA IgnoreStep ==
  ASSUME IInv, NEW w \in Works, CbIgnore(w)
  PROVE  IInv'
<1>1. PICK c \in Clients : Serving(w, c) /\ Received(w, c)
  BY PhaseOf DEF CbIgnore
<1>2. aio_msg[w].from = c
  BY <1>1 DEF Received
<1>3. Types'
  BY <1>2 DEF CbIgnore, Then, IInv, Types
<1>4. \A v \in Works \ {w} : Same(v)
  BY DEF CbIgnore, Then, Same, IInv, Types
<1>9. StartedInOrder'
  BY <1>4, StartedStays DEF CbIgnore, Called, IInv, Types
<1>5. Free(w)'
  <2>1. Goes(w, "RECV", "recv")'
    BY <1>1, Named, CallbackGoes DEF CbIgnore, Received, IsDone, IInv
  <2>2. aio_msg'[w] = Null /\ msg'[w] = Null
    BY <1>1 DEF CbIgnore, Received, IInv, Types
  <2> QED BY <2>1, <2>2 DEF Free, Receiving
<1>6. Others(c) /\ client'[c] = "ignored"
  BY <1>2 DEF CbIgnore, Others, IInv, Types
<1>7. Phased'
  BY <1>1, <1>3, <1>4, <1>5, <1>6, Loses
<1> QED BY <1>3, <1>7, <1>9 DEF IInv, Phased

\* The sleep is over.
LEMMA WaitStep ==
  ASSUME IInv, NEW w \in Works, CbWait(w)
  PROVE  IInv'
<1>1. PICK c \in Clients : Serving(w, c) /\ Sleeping(w, c)
  BY PhaseOf DEF CbWait
<1>2. Types'
  BY DEF CbWait, Then, IInv, Types, world
<1>3. \A v \in Works \ {w} : Same(v)
  BY DEF CbWait, Then, Same, IInv, Types
<1>9. StartedInOrder'
  BY <1>3, StartedStays DEF CbWait, Called, IInv, Types
<1>4. Serving(w, c)' /\ UNCHANGED world
  <2>1. todo[w] = <<>>
    BY PhaseOf DEF CbWait, Called
  <2>2. Goes(w, "SEND", "send")'
    BY <2>1, Named, CallbackGoes DEF CbWait, IInv
  <2>3. /\ UNCHANGED <<world, client, delay, peer>>
        /\ aio_msg'[w] = Reply(c) /\ msg'[w] = Null
    BY <1>1 DEF CbWait, Sleeping, IInv, Types, world
  <2> QED BY <1>1, <2>2, <2>3 DEF Serving, Sleeping, Sending, Reply
<1>5. ~Free(w) /\ \A d \in Clients : Serving(w, d) => d = c
  BY <1>1, Phases DEF IInv
<1>6. Phased'
  BY <1>2, <1>3, <1>4, <1>5, Keeps
<1> QED BY <1>2, <1>6, <1>9 DEF IInv, Phased

\* The reply is sent.
LEMMA SendStep ==
  ASSUME IInv, NEW w \in Works, CbSend(w)
  PROVE  IInv'
<1>1. Free(w)
  BY PhaseOf DEF CbSend
<1>2. Types'
  BY DEF CbSend, Then, IInv, Types, world
<1>3. \A v \in Works \ {w} : Same(v)
  BY DEF CbSend, Then, Same, IInv, Types
<1>9. StartedInOrder'
  BY <1>3, StartedStays DEF CbSend, Called, IInv, Types
<1>4. Free(w)' /\ UNCHANGED world
  <2>1. todo[w] = <<>>
    BY PhaseOf DEF CbSend, Called
  <2>2. Receiving(w)'
    BY <2>1, Named, CallbackGoes DEF CbSend, Receiving, IInv
  <2> QED BY <1>1, <2>2 DEF CbSend, Free
<1>5. \A c \in Clients : ~Serving(w, c)
  BY <1>1, Phases DEF IInv
<1>6. Phased'
  BY <1>2, <1>3, <1>4, <1>5, Keeps
<1> QED BY <1>2, <1>6, <1>9 DEF IInv, Phased

\* A request arrives.
LEMMA RecvDoneStep ==
  ASSUME IInv, NEW w \in Works, NEW c \in Clients, RecvDone(w, c)
  PROVE  IInv'
<1>1. Free(w)
  BY PhaseOf DEF RecvDone
<1>2. Types'
  BY Messages DEF RecvDone, Done, IInv, Types
<1>3. \A v \in Works \ {w} : Same(v)
  BY DEF RecvDone, Done, Same, IInv, Types
<1>4. StartedInOrder'
  BY <1>3, StartedStays DEF RecvDone
<1>5. Others(c) /\ client[c] = "asked" /\ client'[c] = "held"
  BY DEF RecvDone, Others, IInv, Types
<1>6. Serving(w, c)'
  <2>1. todo[w] = <<>> /\ state[w] = "RECV"
    BY PhaseOf DEF RecvDone
  <2>2. IsDone(w, "RECV")' /\ result'[w] = "success"
    BY <2>1 DEF RecvDone, Done, IsDone, IInv, Types
  <2> QED BY <1>1, <1>5, <2>2 DEF RecvDone, Free, Serving, Received, IInv, Types
<1>7. Phased'
  BY <1>1, <1>2, <1>3, <1>5, <1>6, Gains
<1> QED BY <1>2, <1>4, <1>7 DEF IInv, Phased

\* A sleep ends, one way or the other.
LEMMA SleepDoneStep ==
  ASSUME IInv, NEW w \in Works, SleepDone(w)
  PROVE  IInv'
<1>1. PICK c \in Clients : Serving(w, c) /\ Sleeping(w, c)
  BY PhaseOf DEF SleepDone
<1>2. Types'
  BY DEF SleepDone, Done, IInv, Types, world
<1>3. \A v \in Works \ {w} : Same(v)
  BY DEF SleepDone, Done, Same, IInv, Types
<1>4. StartedInOrder'
  BY <1>3, StartedStays DEF SleepDone
<1>5. Serving(w, c)' /\ UNCHANGED world
  <2>1. todo[w] = <<>> /\ state[w] = "WAIT"
    BY <1>1, Named, GoesFacts DEF SleepDone, Sleeping, IsDone
  <2>2. IsDone(w, "WAIT")'
    BY <2>1 DEF SleepDone, Done, IsDone, IInv, Types
  <2> QED BY <1>1, <2>2 DEF SleepDone, Serving, Sleeping, Reply, world
<1>6. ~Free(w) /\ \A d \in Clients : Serving(w, d) => d = c
  BY <1>1, Phases DEF IInv
<1>7. Phased'
  BY <1>2, <1>3, <1>5, <1>6, Keeps
<1> QED BY <1>2, <1>4, <1>7 DEF IInv, Phased

\* A reply reaches its client: the context's peer and the sender that the
\* message names are the same.
LEMMA SendDoneStep ==
  ASSUME IInv, NEW w \in Works, SendDone(w)
  PROVE  IInv'
<1>1. PICK c \in Clients : Serving(w, c) /\ Sending(w, c)
  BY PhaseOf DEF SendDone
<1>2. aio_msg[w] = Reply(c) /\ aio_msg[w].from = c /\ peer[w] = c
  BY <1>1 DEF Serving, Sending, Reply
<1>3. /\ client' = [client EXCEPT ![c] = "answered"]
      /\ reply' = [reply EXCEPT ![c] = Reply(c)]
  BY <1>2 DEF SendDone
<1>4. Types'
  <2>1. Reply(c) \in Message
    BY Messages
  <2>2. /\ client' \in [Clients -> {"idle", "asked", "held", "ignored", "answered"}]
        /\ reply' \in [Clients -> Message \cup {Null}]
    BY <1>3, <2>1 DEF IInv, Types
  <2> QED BY <2>2 DEF SendDone, Done, IInv, Types
<1>5. \A v \in Works \ {w} : Same(v)
  BY DEF SendDone, Done, Same, IInv, Types
<1>6. StartedInOrder'
  BY <1>5, StartedStays DEF SendDone
<1>7. Others(c) /\ client'[c] = "answered" /\ reply'[c] = Reply(c)
  BY <1>3 DEF SendDone, Others, IInv, Types
<1>8. delay'[c] # Null
  BY <1>1 DEF SendDone, Sending
<1>9. Free(w)'
  <2>1. todo[w] = <<>> /\ state[w] = "SEND"
    BY <1>1, Named, GoesFacts DEF SendDone, Sending, IsDone
  <2>2. SendSucceeded(w)'
    BY <2>1 DEF SendDone, Done, SendSucceeded, IsDone, IInv, Types
  <2> QED BY <1>1, <2>2 DEF SendDone, Sending, Free, IInv, Types
<1>10. Phased'
  BY <1>1, <1>4, <1>5, <1>7, <1>8, <1>9, Loses
<1> QED BY <1>4, <1>6, <1>10 DEF IInv, Phased

\* A receive or a send fails; a message that was to be sent stays in the aio.
LEMMA OpFailsStep ==
  ASSUME IInv, NEW w \in Works, OpFails(w)
  PROVE  IInv'
<1>1. Types'
  BY DEF OpFails, Done, IInv, Types, world
<1>2. \A v \in Works \ {w} : Same(v)
  BY DEF OpFails, Done, Same, IInv, Types
<1>3. StartedInOrder'
  BY <1>2, StartedStays DEF OpFails
<1>4. ASSUME Free(w) PROVE Free(w)'
  <2>1. Receiving(w) /\ aio[w] # "idle"
    BY <1>4 DEF OpFails, Free, Unstarted, RecvFailed, SendSucceeded, IsDone
  <2>2. todo[w] = <<>> /\ state[w] = "RECV"
    BY <2>1, Named, GoesFacts DEF Receiving
  <2>3. RecvFailed(w)'
    BY <2>2 DEF OpFails, Done, RecvFailed, IsDone, IInv, Types
  <2> QED BY <1>4, <2>3 DEF OpFails, Free
<1>5. ASSUME NEW c \in Clients, Serving(w, c) PROVE Serving(w, c)'
  <2>1. aio[w] = "send" /\ Sending(w, c)
    <3>1. ~Free(w)
      BY <1>5, Phases DEF IInv
    <3>2. aio[w] = "send"
      BY <3>1, PhaseOf DEF OpFails
    <3>3. PICK d \in Clients : Serving(w, d) /\ Sending(w, d)
      BY <3>2, PhaseOf
    <3> QED BY <1>5, <3>2, <3>3, Phases DEF IInv
  <2>2. todo[w] = <<>> /\ state[w] = "SEND"
    BY <2>1, Named, GoesFacts DEF Sending, IsDone
  <2>3. IsDone(w, "SEND")' /\ result'[w] = "error"
    BY <2>2 DEF OpFails, Done, IsDone, IInv, Types
  <2> QED BY <1>5, <2>1, <2>3 DEF OpFails, Serving, Sending, Reply, world
<1>6. Phased'
  BY <1>1, <1>2, <1>4, <1>5, Keeps DEF OpFails
<1> QED BY <1>1, <1>3, <1>6 DEF IInv, Phased

\* A client asks, or is done with its request.
LEMMA ClientStep ==
  ASSUME IInv, NEW c \in Clients,
         Forget(c) \/ AskShort(c) \/ \E d \in Delays : Ask(c, d)
  PROVE  IInv'
<1> USE DEF Forget, AskShort, Ask
<1>1. Types'
  BY DEF IInv, Types, work
<1>2. StartedInOrder'
  BY DEF IInv, StartedInOrder, Unstarted, Receiving, Goes, work
<1>3. /\ Others(c) /\ UNCHANGED work
      /\ client[c] # "held" /\ client'[c] \notin {"held", "answered"}
  BY DEF Others, IInv, Types
<1>4. Phased'
  BY <1>1, <1>3, ClientMoves
<1> QED BY <1>1, <1>2, <1>4 DEF IInv, Phased

\* Only whether the process has ended changes, or nothing does.
LEMMA StutterStep ==
  ASSUME IInv, UNCHANGED <<mode, started, work, world>>
  PROVE  IInv'
<1>1. \A v \in Works : Same(v)
  BY DEF work, Same
<1>2. UNCHANGED <<client, delay, reply>>
  BY DEF world
<1>3. \A v \in Works : /\ Free(v)' <=> Free(v)
                      /\ \A c \in Clients : Serving(v, c)' <=> Serving(v, c)
  BY <1>1, <1>2, SamePhase
<1>4. Types'
  BY <1>2 DEF IInv, Types, work
<1>5. StartedInOrder'
  BY DEF IInv, StartedInOrder, Unstarted, Receiving, Goes, work
<1>6. Phased'
  BY <1>2, <1>3
     DEF IInv, Phased, EveryWorkInPhase, HeldIsServed, OneServes, AnsweredWithOwn, Reply
<1> QED BY <1>4, <1>5, <1>6 DEF IInv, Phased

\* Every callback, completion and step of a client keeps the invariant.
LEMMA NextIInv ==
  ASSUME IInv, [Next]_vars
  PROVE  IInv'
<1>1. ASSUME NEW w \in Works, server_cb(w)
      PROVE  IInv'
  BY <1>1, RecvStep, IgnoreStep, WaitStep, SendStep, GoOnStep, StutterStep
     DEF server_cb, CbThrows
<1>2. ASSUME NEW w \in Works,
             \/ CbInit(w) \/ SleepDone(w) \/ SendDone(w) \/ OpFails(w)
             \/ \E c \in Clients : RecvDone(w, c)
      PROVE  IInv'
  BY <1>2, InitStep, SleepDoneStep, SendDoneStep, OpFailsStep, RecvDoneStep
<1>3. CASE UNCHANGED vars
  BY <1>3, StutterStep DEF vars
<1> QED BY <1>1, <1>2, <1>3, ClientStep DEF Next, Terminated

\* The invariant holds in every behaviour, whatever is fair.
LEMMA Inductive == Spec => []IInv
<1> QED BY InitIInv, NextIInv, PTL DEF Spec

-----------------------------------------------------------------------------
(* The theorems.                                                           *)

\* The message of the client that w serves is in one place, as seen from w.
LEMMA PlacesOfServed ==
  ASSUME IInv, NEW c \in Clients, NEW w \in Works, Serving(w, c)
  PROVE  Places(c) = {w} \/ Places(c) = {w + PARALLEL}
<1>1. ASSUME NEW v \in Works,
             \/ aio_msg[v] # Null /\ aio_msg[v].from = c
             \/ msg[v] # Null /\ msg[v].from = c
      PROVE  v = w
  <2>1. PICK d \in Clients : Serving(v, d)
    BY <1>1 DEF IInv, EveryWorkInPhase, Free
  <2>2. d = c
    BY <1>1, <2>1 DEF Serving, Received, Sleeping, Sending, Reply
  <2> QED BY <2>1, <2>2 DEF IInv, OneServes
<1> delay[c] \in Delays \cup {Null}
  BY DEF IInv, Types
<1>2. CASE Sleeping(w, c)
  <2>1. aio_msg[w] = Null /\ msg[w] # Null /\ msg[w].from = c
    BY <1>2, Messages DEF Sleeping, IInv, Types
  <2> QED BY <1>1, <2>1 DEF Places
<1>3. CASE Received(w, c)
  <2>1. msg[w] = Null /\ aio_msg[w] # Null /\ aio_msg[w].from = c
    BY <1>3, Messages DEF Received
  <2> QED BY <1>1, <2>1 DEF Places
<1>4. CASE Sending(w, c)
  <2>1. msg[w] = Null /\ aio_msg[w] # Null /\ aio_msg[w].from = c
    BY <1>4, Messages DEF Sending
  <2> QED BY <1>1, <2>1 DEF Places
<1> QED BY <1>2, <1>3, <1>4 DEF Serving

\* The server holds exactly one message for each client whose request it took
\* and none for any other (server_cb, whichever callbacks run in between).
THEOREM OneMessage == Spec => []MessageHasOneOwner
<1>1. ASSUME IInv, NEW c \in Clients
      PROVE  Cardinality(Places(c)) = IF client[c] = "held" THEN 1 ELSE 0
  <2>1. CASE client[c] = "held"
    <3>1. PICK w \in Works : Serving(w, c)
      BY <1>1, <2>1 DEF IInv, HeldIsServed
    <3>2. \E x : Places(c) = {x}
      BY <1>1, <3>1, PlacesOfServed
    <3> QED BY <2>1, <3>2, FS_Singleton
  <2>2. CASE client[c] # "held"
    <3>1. ASSUME NEW v \in Works
          PROVE  /\ aio_msg[v] = Null \/ aio_msg[v].from # c
                 /\ msg[v] = Null \/ msg[v].from # c
      <4>1. CASE Free(v)
        BY <4>1 DEF Free
      <4>2. ASSUME NEW d \in Clients, Serving(v, d)
            PROVE  <3>1!2
        BY <2>2, <4>2 DEF Serving, Received, Sleeping, Sending, Reply
      <4> QED BY <1>1, <4>1, <4>2 DEF IInv, EveryWorkInPhase
    <3>2. Places(c) = {}
      BY <3>1 DEF Places
    <3> QED BY <2>2, <3>2, FS_EmptySet
  <2> QED BY <2>1, <2>2
<1>2. IInv => MessageHasOneOwner
  BY <1>1 DEF MessageHasOneOwner
<1> QED BY <1>2, Inductive, PTL

\* A client that is answered has the reply to its own request, for any number
\* of work items and clients, with contexts and with the raw socket.
THEOREM RepliesAreOwn == Spec => []OwnReply
<1>1. IInv => OwnReply
  BY DEF IInv, AnsweredWithOwn, OwnReply, Reply
<1> QED BY <1>1, Inductive, PTL

-----------------------------------------------------------------------------
(* How long a work item sleeps.                                            *)

\* w sleeps, or its callback is about to arm the sleep.
Asleep(w) == Goes(w, "WAIT", "sleep")

\* The duration is set from then on: it is the one asked for.
DurationOf(w) ==
  IF Asleep(w) THEN duration[w] = delay[msg[w].from] ELSE duration[w] = Null

\* IInv with the durations, which no other part of it depends on
DInv ==
  /\ IInv
  /\ started \in 0 .. PARALLEL /\ exited \in BOOLEAN
  /\ DOMAIN duration = Works /\ \A w \in Works : DurationOf(w)

\* From int to uint32_t, to four bytes, and back to nng_duration
LEMMA DelaySurvives ==
  ASSUME NEW c \in Clients, NEW d \in Delays, d # Null
  PROVE  When([from |-> c, body |-> BodyOf(d)]) = d
<1>1. d \in Int /\ -Base^4 <= 2 * d /\ 2 * d < Base^4
  BY DelaysAssumption DEF IsInt32, U32
<1>2. ToUnsigned(4, d) \in 0 .. Base^4 - 1 /\ ToSigned(4, ToUnsigned(4, d)) = d
  BY <1>1, SignedBack
<1>3. PICK u \in 0 .. Base^4 - 1 : u = ToUnsigned(4, d)
  BY <1>2
<1> DEFINE e == [i \in 1 .. 4 |-> Digit(u, 4 - i)]
<1>4. BodyOf(d) = e
  BY <1>3 DEF BodyOf, Encode, U32, Digit
<1>5. e[1] = Digit(u, 3) /\ e[2] = Digit(u, 2) /\ e[3] = Digit(u, 1) /\ e[4] = Digit(u, 0)
  OBVIOUS
<1> HIDE DEF e
<1>6. trim_u32(e) = Digit(u, 3) * Base^3 + Digit(u, 2) * Base^2 + Digit(u, 1) * Base
                      + Digit(u, 0)
  BY <1>5 DEF trim_u32
<1>7. trim_u32(e) = u
  BY <1>6, FourBytes
<1>8. When([from |-> c, body |-> e]) = ToSigned(4, trim_u32(e))
  BY DEF When, U32
<1> QED BY <1>2, <1>3, <1>4, <1>7, <1>8

\* A work item that is asleep serves a client, and has its message.
LEMMA AsleepServes ==
  ASSUME DInv, NEW w \in Works, Asleep(w)
  PROVE  \E c \in Clients : Serving(w, c) /\ Sleeping(w, c)
<1>1. aio[w] # "done"
  BY Named, GoesFacts DEF Asleep
<1>2. ~Goes(w, "RECV", "recv") /\ ~Goes(w, "SEND", "send") /\ ~Unstarted(w)
  BY Disjoint, Named DEF Asleep, Unstarted
<1>3. ~Free(w)
  BY <1>1, <1>2 DEF Free, Receiving, RecvFailed, SendSucceeded, IsDone
<1>4. PICK c \in Clients : Serving(w, c)
  BY <1>3 DEF DInv, IInv, EveryWorkInPhase
<1>5. Sleeping(w, c)
  BY <1>1, <1>2, <1>4 DEF Serving, Received, Sending, IsDone
<1> QED BY <1>4, <1>5

\* An aio that sleeps was armed in state WAIT.
LEMMA SleepsIsAsleep ==
  ASSUME DInv, NEW w \in Works, aio[w] = "sleep"
  PROVE  Asleep(w)
<1>1. PICK c \in Clients : Serving(w, c) /\ Sleeping(w, c)
  BY PhaseOf DEF DInv
<1> QED BY <1>1 DEF Sleeping, IsDone, Asleep

\* Whether a work item sleeps does not change.
SleepsAlike(v) ==
  (Asleep(v)' <=> Asleep(v)) /\ duration'[v] = duration[v] /\ msg'[v] = msg[v]

\* A work item that goes on sleeping, or being awake, keeps its duration: the
\* request that it serves is held, and its client does not touch it.
LEMMA SleepsOn ==
  ASSUME DInv, NEW v \in Works, SleepsAlike(v),
         \A c \in Clients : client[c] = "held" => delay'[c] = delay[c]
  PROVE  DurationOf(v)'
<1>1. CASE ~Asleep(v)
  BY <1>1 DEF DInv, DurationOf, SleepsAlike
<1>2. CASE Asleep(v)
  <2>1. PICK c \in Clients : Serving(v, c) /\ Sleeping(v, c)
    BY <1>2, AsleepServes
  <2>2. msg[v].from = c /\ client[c] = "held"
    BY <2>1 DEF Serving, Sleeping, Reply
  <2>3. duration[v] = delay[c] /\ delay'[c] = delay[c]
    BY <1>2, <2>2 DEF DInv, DurationOf
  <2> QED BY <1>2, <2>2, <2>3 DEF DurationOf, SleepsAlike
<1> QED BY <1>1, <1>2

\* A work item that no step touches
LEMMA Untouched ==
  ASSUME NEW v \in Works, todo'[v] = todo[v], state'[v] = state[v], aio'[v] = aio[v],
         duration'[v] = duration[v], msg'[v] = msg[v]
  PROVE  SleepsAlike(v)
  BY DEF SleepsAlike, Asleep, Goes

\* What goes to another operation is not asleep after the step.
LEMMA DisjointNext ==
  ASSUME NEW w \in Works, NEW st \in States, NEW op \in Operations, op # "sleep",
         Goes(w, st, op)'
  PROVE  ~Asleep(w)'
<1> SUFFICES ASSUME Goes(w, "WAIT", "sleep")' PROVE FALSE
  BY DEF Asleep
<1>1. PICK t, a, s : t = todo'[w] /\ a = aio'[w] /\ s = state'[w]
  OBVIOUS
<1>2. /\ \/ t = <<st, op>> /\ a = "idle"
         \/ t = <<op>> /\ a = "idle" /\ s = st
         \/ t = <<>> /\ a = op /\ s = st
      /\ \/ t = <<"WAIT", "sleep">> /\ a = "idle"
         \/ t = <<"sleep">> /\ a = "idle" /\ s = "WAIT"
         \/ t = <<>> /\ a = "sleep" /\ s = "WAIT"
  BY <1>1 DEF Goes
<1>3. "sleep" = op
  BY <1>2, Named, OneGoal
<1> QED BY <1>3

\* A step of one work item that does not put its aio to sleep
LEMMA WakeStep ==
  ASSUME DInv, IInv', NEW w \in Works, UNCHANGED <<delay, started>>,
         \A v \in Works \ {w} :
           /\ todo'[v] = todo[v] /\ state'[v] = state[v] /\ aio'[v] = aio[v]
           /\ duration'[v] = duration[v] /\ msg'[v] = msg[v],
         DOMAIN duration' = Works, ~Asleep(w)', duration'[w] = Null,
         exited' \in BOOLEAN
  PROVE  DInv'
<1>1. \A v \in Works \ {w} : DurationOf(v)'
  BY Untouched, SleepsOn
<1>2. DurationOf(w)'
  BY DEF DurationOf
<1> QED BY <1>1, <1>2 DEF DInv

\* case RECV: the aio sleeps as long as the message says.
LEMMA SleepStep ==
  ASSUME DInv, IInv', NEW w \in Works, CbRecv(w)
  PROVE  DInv'
<1>1. /\ UNCHANGED <<started, state, delay, exited>>
      /\ Len(aio_msg[w].body) >= U32
      /\ msg' = [msg EXCEPT ![w] = Trimmed(aio_msg[w])]
      /\ duration' = [duration EXCEPT ![w] = When(aio_msg[w])]
      /\ Then(w, <<"WAIT", "sleep">>)
  BY DEF CbRecv, world
<1>2. PICK c \in Clients : Serving(w, c) /\ Received(w, c)
  BY PhaseOf DEF CbRecv, DInv
<1>3. aio_msg[w] = [from |-> c, body |-> BodyOf(delay[c])] /\ todo[w] = <<>>
  BY <1>2 DEF Received, IsDone
<1>4. Len(BodyOf(delay[c])) >= U32
  BY <1>1, <1>3
<1>5. delay[c] # Null /\ Trimmed(aio_msg[w]) = Reply(c)
  BY <1>3, <1>4, TrimLeavesReply
<1>6. delay[c] \in Delays
  BY <1>5 DEF DInv, IInv, Types
<1>7. When(aio_msg[w]) = delay[c]
  BY <1>3, <1>5, <1>6, DelaySurvives
<1>8. /\ DOMAIN duration' = Works /\ duration'[w] = delay[c]
      /\ msg'[w] = Reply(c)
      /\ \A v \in Works \ {w} :
           /\ todo'[v] = todo[v] /\ aio'[v] = aio[v]
           /\ duration'[v] = duration[v] /\ msg'[v] = msg[v]
  BY <1>1, <1>5, <1>7 DEF Then, DInv, IInv, Types
<1>9. DurationOf(w)'
  <2>1. Asleep(w)'
    BY <1>1, <1>3, Named, CallbackGoes DEF Asleep, DInv, IInv
  <2> QED BY <1>1, <1>8, <2>1 DEF DurationOf, Reply
<1>10. \A v \in Works \ {w} : DurationOf(v)'
  BY <1>1, <1>8, Untouched, SleepsOn
<1> QED BY <1>1, <1>8, <1>9, <1>10 DEF DInv

\* A callback assigns the state, or arms the aio: a sleep goes on, and none begins.
LEMMA GoOnDuration ==
  ASSUME DInv, IInv', NEW w \in Works, SetState(w) \/ Arm(w)
  PROVE  DInv'
<1>1. /\ todo[w] # <<>> /\ UNCHANGED <<duration, msg, delay, exited>>
      /\ started' \in 0 .. PARALLEL
  BY ParallelAssumption DEF SetState, Arm, DInv, world, Works
<1>2. \A v \in Works \ {w} :
        todo'[v] = todo[v] /\ state'[v] = state[v] /\ aio'[v] = aio[v]
  BY DEF SetState, Arm, DInv, IInv, Types
<1>3. Asleep(w) => Asleep(w)'
  BY Named, GoesOn DEF Asleep, DInv, IInv
<1>4. ASSUME ~Asleep(w) PROVE ~Asleep(w)'
  <2>1. PICK st \in States, op \in Operations : Goes(w, st, op) /\ op # "sleep"
    <3>1. CASE Free(w)
      <4>1. Goes(w, "RECV", "recv")
        BY <1>1, <3>1
           DEF Free, Unstarted, Receiving, RecvFailed, SendSucceeded, IsDone
      <4> QED BY <4>1, Named
    <3>2. ASSUME NEW c \in Clients, Serving(w, c)
          PROVE  Goes(w, "SEND", "send")
      BY <1>1, <1>4, <3>2 DEF Serving, Received, Sleeping, Sending, IsDone, Asleep
    <3> QED BY <3>1, <3>2, Named DEF DInv, IInv, EveryWorkInPhase
  <2>2. Goes(w, st, op)'
    BY <2>1, GoesOn DEF DInv, IInv
  <2> QED BY <2>1, <2>2, Named, DisjointNext DEF Asleep
<1>5. SleepsAlike(w)
  BY <1>1, <1>3, <1>4 DEF SleepsAlike
<1>6. \A v \in Works : DurationOf(v)'
  BY <1>1, <1>2, <1>5, Untouched, SleepsOn
<1> QED BY <1>1, <1>6 DEF DInv

\* A step of a client, or none, leaves the work items alone, and what is held.
LEMMA ClientsDelay ==
  ASSUME DInv, IInv', UNCHANGED <<started, work, exited>>,
         \A c \in Clients : client[c] = "held" => delay'[c] = delay[c]
  PROVE  DInv'
<1>1. UNCHANGED <<todo, state, aio, duration, msg>>
  BY DEF work
<1>2. \A v \in Works : DurationOf(v)'
  BY <1>1, Untouched, SleepsOn
<1> QED BY <1>1, <1>2 DEF DInv

\* DInv is inductive, given that IInv is.
LEMMA NextDInv == DInv /\ [Next]_vars => DInv'
<1> SUFFICES ASSUME DInv, [Next]_vars PROVE DInv'
  OBVIOUS
<1>1. IInv'
  BY NextIInv DEF DInv
<1>2. /\ DOMAIN aio = Works /\ DOMAIN msg = Works /\ DOMAIN duration = Works
      /\ DOMAIN todo = Works /\ DOMAIN state = Works
  BY DEF DInv, IInv, Types
<1>3. ASSUME NEW w \in Works,
             CbInit(w) \/ CbIgnore(w) \/ CbWait(w) \/ CbSend(w)
      PROVE  DInv'
  <2>1. todo[w] = <<>> /\ aio[w] # "sleep"
    BY <1>3, PhaseOf, InitIsIdle
       DEF CbIgnore, CbWait, CbSend, Called, Unstarted, DInv
  <2>2. ~Asleep(w)
    BY <2>1, Named, GoesFacts DEF Asleep
  <2>3. duration[w] = Null
    BY <2>2 DEF DInv, DurationOf
  <2>4. \E st \in States, op \in Operations : op # "sleep" /\ Goes(w, st, op)'
    <3>1. CASE CbIgnore(w)
      <4>1. Goes(w, "RECV", "recv")'
        BY <2>1, <3>1, Named, CallbackGoes DEF CbIgnore, Called, DInv, IInv
      <4> QED BY <4>1, Named
    <3>2. CASE CbWait(w)
      <4>1. Goes(w, "SEND", "send")'
        BY <2>1, <3>2, Named, CallbackGoes DEF CbWait, DInv, IInv
      <4> QED BY <4>1, Named
    <3>3. CASE CbInit(w) \/ CbSend(w)
      <4>1. Goes(w, "RECV", "recv")'
        BY <2>1, <3>3, Named, CallbackGoes DEF CbInit, CbSend, DInv, IInv
      <4> QED BY <4>1, Named
    <3> QED BY <1>3, <3>1, <3>2, <3>3
  <2>5. ~Asleep(w)'
    BY <2>4, Named, DisjointNext DEF Asleep
  <2>6. /\ UNCHANGED <<delay, started, duration, state, exited>>
        /\ \A v \in Works \ {w} :
             todo'[v] = todo[v] /\ aio'[v] = aio[v] /\ msg'[v] = msg[v]
    BY <1>2, <1>3 DEF CbInit, CbIgnore, CbWait, CbSend, Then, world
  <2> QED BY <1>1, <1>2, <2>3, <2>5, <2>6, WakeStep DEF DInv
<1>5. ASSUME NEW w \in Works, CbThrows(w) PROVE DInv'
  <2>1. /\ UNCHANGED <<started, todo, state, aio, duration, msg, delay>>
        /\ exited' = TRUE
    BY <1>5 DEF CbThrows, work, world
  <2>2. \A v \in Works : DurationOf(v)'
    BY <2>1, Untouched, SleepsOn
  <2> QED BY <1>1, <2>1, <2>2 DEF DInv
<1>6. ASSUME NEW w \in Works,
             \/ SleepDone(w) \/ SendDone(w) \/ OpFails(w)
             \/ \E c \in Clients : RecvDone(w, c)
      PROVE  DInv'
  <2>1. aio'[w] = "done"
    BY <1>2, <1>6 DEF RecvDone, SleepDone, SendDone, OpFails, Done
  <2>2. ~Asleep(w)'
    BY <2>1 DEF Asleep, Goes
  <2>3. duration'[w] = Null
    <3>1. CASE SleepDone(w)
      BY <1>2, <3>1 DEF SleepDone
    <3>2. CASE ~SleepDone(w)
      <4>1. duration' = duration /\ aio[w] \in {"recv", "send"}
        BY <1>6, <3>2 DEF RecvDone, SendDone, OpFails
      <4>2. ~Asleep(w)
        BY <4>1 DEF Asleep, Goes
      <4> QED BY <4>1, <4>2 DEF DInv, DurationOf
    <3> QED BY <3>1, <3>2
  <2>4. /\ UNCHANGED <<delay, started, todo, state, msg, exited>>
        /\ DOMAIN duration' = Works
        /\ \A v \in Works \ {w} : aio'[v] = aio[v] /\ duration'[v] = duration[v]
    BY <1>2, <1>6 DEF RecvDone, SleepDone, SendDone, OpFails, Done, world
  <2> QED BY <1>1, <2>2, <2>3, <2>4, WakeStep DEF DInv
<1>9. ASSUME NEW c \in Clients,
             Forget(c) \/ AskShort(c) \/ \E d \in Delays : Ask(c, d)
      PROVE  DInv'
  <2>1. UNCHANGED <<started, work, exited>> /\ client[c] # "held"
    BY <1>9 DEF Forget, AskShort, Ask
  <2>2. \A e \in Clients \ {c} : delay'[e] = delay[e]
    BY <1>9 DEF Forget, AskShort, Ask, DInv, IInv, Types
  <2> QED BY <1>1, <2>1, <2>2, ClientsDelay
<1>10. CASE UNCHANGED vars
  BY <1>1, <1>10, ClientsDelay DEF vars, world
<1> QED BY <1>1, <1>3, <1>5, <1>6, <1>9, <1>10, SleepStep, GoOnDuration
        DEF Next, server_cb, Terminated

\* DInv always holds.
LEMMA InductiveDurations == Spec => []DInv
<1>1. Init => DInv
  <2> SUFFICES ASSUME Init PROVE DInv
    OBVIOUS
  <2>1. IInv
    BY InitIInv
  <2>2. started \in 0 .. PARALLEL /\ exited \in BOOLEAN
    <3>1. started = 0 /\ exited = FALSE
      BY DEF Init
    <3>2. 0 \in 0 .. PARALLEL
      BY ParallelAssumption
    <3> QED BY <3>1, <3>2
  <2>3. DOMAIN duration = Works /\ \A w \in Works : DurationOf(w)
    <3>1. ASSUME NEW w \in Works PROVE ~Asleep(w)
      <4>1. todo[w] = <<>> /\ aio[w] = "idle"
        BY DEF Init
      <4> QED BY <4>1, Named, Disjoint DEF Asleep
    <3> QED BY <3>1 DEF Init, DurationOf
  <2> QED BY <2>1, <2>2, <2>3 DEF DInv
<1> QED BY <1>1, NextDInv, PTL DEF Spec

\* A work item is about to do two things at most.
LEMMA TodoBound ==
  ASSUME IInv, NEW w \in Works
  PROVE  Len(todo[w]) <= 2
<1>1. Len(<<>>) <= 2
  OBVIOUS
<1>2. CASE Free(w)
  BY <1>1, <1>2, Named, GoesFacts
     DEF Free, Unstarted, Receiving, RecvFailed, SendSucceeded, IsDone
<1>3. ASSUME NEW c \in Clients, Serving(w, c) PROVE Len(todo[w]) <= 2
  BY <1>1, <1>3, Named, GoesFacts DEF Serving, Received, Sleeping, Sending, IsDone
<1> QED BY <1>2, <1>3 DEF IInv, EveryWorkInPhase

\* Every variable keeps its type; an aio that sleeps has a duration, and it fits
\* into an nng_duration (the conversion of trim_u32's number in server_cb).
THEOREM TypeCorrect == Spec => []TypeOK
<1>1. DInv => TypeOK
  <2> SUFFICES ASSUME DInv PROVE TypeOK
    OBVIOUS
  <2>1. ASSUME NEW w \in Works, Asleep(w)
        PROVE  duration[w] # Null /\ IsInt32(duration[w])
    <3>1. PICK c \in Clients : Serving(w, c) /\ Sleeping(w, c)
      BY <2>1, AsleepServes
    <3>2. msg[w].from = c /\ delay[c] # Null
      BY <3>1 DEF Sleeping, Reply
    <3>3. delay[c] \in Delays /\ duration[w] = delay[c]
      BY <2>1, <3>2 DEF DInv, IInv, Types, DurationOf
    <3> QED BY <3>2, <3>3, DelaysAssumption
  <2>2. ASSUME NEW w \in Works
        PROVE  \/ duration[w] = Null /\ aio[w] # "sleep"
               \/ duration[w] # Null /\ IsInt32(duration[w])
    <3>1. CASE Asleep(w)
      BY <2>1, <3>1
    <3>2. CASE ~Asleep(w)
      BY <3>2, SleepsIsAsleep DEF DInv, DurationOf
    <3> QED BY <3>1, <3>2
  <2>3. \A w \in Works : {aio_msg[w], msg[w]} \subseteq Message \cup {Null}
    BY DEF DInv, IInv, Types
  <2>4. \A w \in Works : Len(todo[w]) <= 2
    BY TodoBound DEF DInv
  <2> QED BY <2>2, <2>3, <2>4 DEF DInv, IInv, Types, TypeOK
<1> QED BY <1>1, InductiveDurations, PTL

\* A work item sleeps exactly as long as its client asked, for every int,
\* negative ones included, and whatever the other work items and clients do
\* meanwhile.
THEOREM SleepsExactly == Spec => []SleepsAsAsked
<1>1. DInv => SleepsAsAsked
  <2> SUFFICES ASSUME DInv, NEW w \in Works, aio[w] = "sleep"
               PROVE  msg[w] # Null /\ duration[w] = delay[msg[w].from]
    BY DEF SleepsAsAsked
  <2>1. Asleep(w)
    BY SleepsIsAsleep
  <2>2. PICK c \in Clients : Serving(w, c) /\ Sleeping(w, c)
    BY <2>1, AsleepServes
  <2>3. msg[w] # Null
    BY <2>2, Messages DEF Sleeping
  <2> QED BY <2>1, <2>3 DEF DInv, DurationOf
<1> QED BY <1>1, InductiveDurations, PTL
=============================================================================
