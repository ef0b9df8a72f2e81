------------------------------- MODULE Synch -------------------------------
(***************************************************************************)
(* Mutex, condition variable and thread (nngpp/platform), used as in       *)
(* test/synch.cpp and, for the loop with a deadline, test/pipe.cpp: main   *)
(* starts threads that notify, waits for them, and destroys what they      *)
(* share.                                                                  *)
(*                                                                         *)
(* A program is a sequence of calls. Of the library (external): a wait     *)
(* gives the mutex up and takes it again, and may end without a signal;    *)
(* the destructor of a thread waits for its end.                           *)
(***************************************************************************)
EXTENDS Naturals, Sequences, FiniteSets

CONSTANTS
  Workers,     \* threads that notify
  MainThread,  \* the main thread
  Null

\* What the module assumes of its constants
Assumption ==
  /\ IsFiniteSet(Workers) /\ Workers # {}
  /\ MainThread \notin Workers
  /\ Null \notin Workers \cup {MainThread, "woken", "timedout"}

VARIABLES
  test,      \* the program of main
  workers,   \* the threads that it starts
  pc,        \* the position of each thread in its program; 0: not started
  owner,     \* who holds mx
  waiting,   \* who waits for cv
  returned,  \* what wait_until returned to main
  did,       \* how many threads have notified
  alive,     \* do mx and cv exist?
  failed,    \* did a REQUIRE fail?
  misused    \* was a destroyed mx or cv used, or one not held unlocked?

vars == <<test, workers, pc, owner, waiting, returned, did, alive, failed, misused>>

Threads == Workers \cup {MainThread}

-----------------------------------------------------------------------------
(* The programs.                                                           *)

blocks ==
  <<"lock", "create", "require_none", "unlock",
    "lock", "wait_while", "require_all", "unlock", "join", "destroy">>

\* Mutation of notification: the lock is declared before the thread, so that
\* the thread is joined first.
notification_joins_locked ==
  <<"lock", "create", "wait_if", "join", "unlock", "require_all", "destroy">>

notification ==
  <<"create", "lock", "wait_if", "unlock", "join", "require_all", "destroy">>

\* A REQUIRE that fails leaves by the same destructors.
timeout ==
  <<"create", "lock", "until_if", "require_none", "unlock", "join", "destroy">>

expect == <<"create", "lock", "until_loop", "unlock", "join", "destroy">>

\* Mutation of notifyafter: without the lock.
notifyafter_unlocked == <<"notify", "wake_all">>

notifyafter == <<"lock", "notify", "wake_all", "unlock">>

Program(t) ==
  IF t # MainThread THEN notifyafter
  ELSE CASE test = "blocks" -> blocks
         [] test = "notification" -> notification
         [] test = "timeout" -> timeout
         [] test = "expect" -> expect

Ended(t) == pc[t] > Len(Program(t))

\* Thread t is at call c.
At(t, c) == /\ pc[t] \in DOMAIN Program(t)
            /\ Program(t)[pc[t]] = c
            /\ t \notin waiting

Goto(t, i) == pc' = [pc EXCEPT ![t] = i]
Return(t) == Goto(t, pc[t] + 1)

\* mx or cv is used.
Use(ok) == misused' = (misused \/ ~alive \/ ~ok)

-----------------------------------------------------------------------------
(* mtx_view, cv_view and thread                                            *)

lock(t) ==
  /\ At(t, "lock")
  /\ owner = Null
  /\ owner' = t
  /\ Return(t)
  /\ Use(TRUE)
  /\ UNCHANGED <<test, workers, waiting, returned, did, alive, failed>>

unlock(t) ==
  /\ At(t, "unlock")
  /\ owner' = Null
  /\ Return(t)
  /\ Use(owner = t)
  /\ UNCHANGED <<test, workers, waiting, returned, did, alive, failed>>

Notified == did = Cardinality(workers)

\* Calls of wait and wait_until: if( !did ), while( !did ), and the loop that
\* ends when wait_until returns false
wait_calls == {"wait_if", "wait_while", "until_if", "until_loop"}
until_calls == {"until_if", "until_loop"}
loop_calls == {"wait_while", "until_loop"}

\* The condition is true at once, or again.
Pass(t) ==
  /\ \E c \in wait_calls : At(t, c)
  /\ owner = t
  /\ \/ Notified
     \/ returned = "woken" /\ \A c \in loop_calls : ~At(t, c)
     \/ returned = "timedout"
  /\ returned' = Null
  /\ Return(t)
  /\ UNCHANGED <<test, workers, owner, waiting, did, alive, failed, misused>>

wait(t) ==
  /\ \E c \in wait_calls : At(t, c)
  /\ owner = t
  /\ ~Notified
  /\ \/ returned = Null
     \/ returned = "woken" /\ \E c \in loop_calls : At(t, c)
  /\ waiting' = waiting \cup {t}
  /\ owner' = Null
  /\ returned' = Null
  /\ Use(TRUE)
  /\ UNCHANGED <<test, workers, pc, did, alive, failed>>

\* A wait ends by itself, or at its deadline.
WaitEnds(t) ==
  /\ t \in waiting
  /\ waiting' = waiting \ {t}
  /\ \/ returned' = "woken"
     \/ Program(t)[pc[t]] \in until_calls /\ returned' = "timedout"
  /\ UNCHANGED <<test, workers, pc, owner, did, alive, failed, misused>>

\* Its end has to wait for the mutex.
Relock(t) ==
  /\ \E c \in wait_calls : At(t, c)
  /\ returned # Null
  /\ owner = Null
  /\ owner' = t
  /\ UNCHANGED <<test, workers, pc, waiting, returned, did, alive, failed, misused>>

wake_all(t) ==
  /\ At(t, "wake_all")
  /\ waiting' = {}
  /\ returned' = IF waiting = {} THEN returned ELSE "woken"
  /\ Return(t)
  /\ Use(TRUE)
  /\ UNCHANGED <<test, workers, owner, did, alive, failed>>

\* thread( notifyafter, &arg )
create(t) ==
  /\ At(t, "create")
  /\ pc' = [x \in Threads |-> CASE x = t -> pc[t] + 1
                                [] x \in workers -> 1
                                [] OTHER -> pc[x]]
  /\ UNCHANGED <<test, workers, owner, waiting, returned, did, alive, failed, misused>>

\* Mutation of join: nng_thread_destroy is not called.
join_none(t) ==
  /\ At(t, "join")
  /\ Return(t)
  /\ UNCHANGED <<test, workers, owner, waiting, returned, did, alive, failed, misused>>

\* ~thread
join(t) ==
  /\ At(t, "join")
  /\ \A w \in workers : Ended(w)
  /\ Return(t)
  /\ UNCHANGED <<test, workers, owner, waiting, returned, did, alive, failed, misused>>

-----------------------------------------------------------------------------
(* The rest of the programs                                                *)

notify(t) ==
  /\ At(t, "notify")
  /\ did' = did + 1
  /\ Return(t)
  /\ UNCHANGED <<test, workers, owner, waiting, returned, alive, failed, misused>>

require(t) ==
  /\ At(t, "require_none") \/ At(t, "require_all")
  /\ failed' = \/ failed
               \/ At(t, "require_none") /\ did # 0
               \/ At(t, "require_all") /\ ~Notified
  /\ Return(t)
  /\ UNCHANGED <<test, workers, owner, waiting, returned, did, alive, misused>>

\* ~notifyarg: the condition variable and the mutex
destroy(t) ==
  /\ At(t, "destroy")
  /\ alive' = FALSE
  /\ Return(t)
  /\ Use(owner = Null /\ waiting = {})
  /\ UNCHANGED <<test, workers, owner, waiting, returned, did, failed>>

Init ==
  /\ test \in {"blocks", "notification", "timeout", "expect"}
  /\ workers \in IF test = "expect" THEN SUBSET Workers \ {{}}
                 ELSE {{w} : w \in Workers}
  /\ pc = [t \in Threads |-> IF t = MainThread THEN 1 ELSE 0]
  /\ owner = Null
  /\ waiting = {}
  /\ returned = Null
  /\ did = 0
  /\ alive = TRUE
  /\ failed = FALSE
  /\ misused = FALSE

Step(t) ==
  \/ lock(t) \/ unlock(t) \/ Pass(t) \/ wait(t) \/ Relock(t) \/ wake_all(t)
  \/ create(t) \/ join(t) \/ notify(t) \/ require(t) \/ destroy(t)

Next == \E t \in Threads : Step(t) \/ WaitEnds(t)

\* Threads run on, and the mutex is given to all that want it. That a wait
\* ends by itself or at a deadline is not assumed.
Spec ==
  Init /\ [][Next]_vars /\ \A t \in Threads : SF_vars(Step(t))

-----------------------------------------------------------------------------
(* Properties.                                                             *)

\* Every variable keeps its type. Who waits does not hold the mutex, and the
\* count of notifications is changed by its holder only.
TypeOK ==
  /\ pc \in [Threads -> 0 .. 11]
  /\ owner \in Threads \cup {Null}
  /\ waiting \subseteq {MainThread} /\ owner \notin waiting
  /\ returned \in {"woken", "timedout", Null}
  /\ did \in 0 .. Cardinality(workers)
  /\ \A t \in Threads : At(t, "notify") \/ At(t, "wake_all") => owner = t

\* The REQUIREs of test/synch.cpp hold in every schedule, except the one of
\* "Timeout works": the thread cannot notify while main holds the mutex, a wait
\* in a loop ends with the notification, and one without a loop too, once the
\* thread is joined. "Timeout works" relies on main being faster than the 200 ms
\* that the thread sleeps.
RequiresHold == failed => test = "timeout"

\* The mutex and the condition variable are used while they exist, and
\* unlocked by their holder: what the threads share is destroyed after the
\* threads are joined.
NoMisuse == ~misused

\* All threads have ended.
Finished == \A t \in Threads : pc[t] = 0 \/ Ended(t)
=============================================================================
