----------------------------- MODULE PipeNotify -----------------------------
(***************************************************************************)
(* Sockets, a dialer and a listener with callbacks for the events of their *)
(* pipes (test/pipe.cpp): main waits for what the callbacks count, closes  *)
(* a pipe or lets a callback reject one, and at last destroys everything   *)
(* while callbacks may still run.                                          *)
(*                                                                         *)
(* The library (external): the dialer connects while both are started and  *)
(* its last pipe is gone; each end of a connection runs ADD_PRE, then,     *)
(* unless it was closed there, ADD_POST; a side notices that the other has *)
(* closed after its own ADD_PRE; one reaper runs REM_POST for closed pipes *)
(* in the order of their closing; nng_close waits for it.                  *)
(*                                                                         *)
(* The body of a callback runs under the mutex of its testcase, and so is  *)
(* one step.                                                               *)
(***************************************************************************)
EXTENDS Naturals, Sequences, SequencesExt

CONSTANTS
  MaxConns,  \* bound: connections
  Null       \* no pipe

\* What the module assumes of its constants
Assumption == MaxConns \in Nat /\ Null \notin Nat

VARIABLES
  test,      \* the section of the test case
  pc,        \* main's next step
  assigned,  \* does the testcase hold its dialer or listener?
  members,   \* what is left of each testcase: its members in order
  n,         \* its counters add_pre, add_post, rem, err and rej
  p,         \* the pipe of its last event
  started,   \* is its dialer or listener started?
  conns,     \* the number of connections so far; they are numbered
  pipe,      \* each side's pipes
  closed,    \* those that were closed
  reaper,    \* the pipes that the reaper has to remove
  misread,   \* did main find that the last pipe is not the one in use?
  misused    \* did a callback use a mutex that was destroyed?

counters == <<n, p>>
library == <<started, conns, pipe, closed, reaper>>
vars == <<test, pc, assigned, members, counters, library, misread, misused>>

Sides == {"push", "pull"}
Other(s) == IF s = "push" THEN "pull" ELSE "push"
Conns == 1 .. MaxConns

-----------------------------------------------------------------------------
(* The test case.                                                          *)

\* Mutation of setup: the dialer is started before it is assigned.
setup_started_early ==
  << <<"make", "pull">>, <<"start", "pull">>, <<"start", "push">>,
     <<"make", "push">> >>

setup ==
  << <<"make", "pull">>, <<"make", "push">>,
     <<"start", "pull">>, <<"start", "push">> >>

\* No counter passes the value that is expected of it, so that the order of
\* the four does not matter.
Expect(s, pre, post, rem) ==
  << <<"expect", s, "add_pre", pre>>, <<"expect", s, "add_post", post>>,
     <<"expect", s, "rem", rem>>, <<"expect", s, "err", 0>> >>

dialing ==
  setup \o Expect("pull", 1, 1, 0) \o Expect("push", 1, 1, 0)
    \o << <<"recv">>, <<"destroy", "pull">>, <<"destroy", "push">> >>

reconnection ==
  setup \o Expect("pull", 1, 1, 0) \o Expect("push", 1, 1, 0)
    \o << <<"close">> >>
    \o Expect("pull", 2, 2, 1) \o Expect("push", 2, 2, 1)
    \o << <<"recv">>, <<"destroy", "pull">>, <<"destroy", "push">> >>

rejecting ==
  setup \o Expect("pull", 2, 1, 1) \o Expect("push", 2, 2, 1)
    \o << <<"destroy", "pull">>, <<"destroy", "push">> >>

Program ==
  CASE test = "dialing" -> dialing
    [] test = "reconnection" -> reconnection
    [] test = "reject" -> rejecting

\* Mutation of testcase: the socket is declared, and so destroyed, elsewhere.
testcase_socket_first == <<"s", "lk", "cv", "endpoint">>

testcase == <<"lk", "cv", "s", "endpoint">>

At(op) == pc \in DOMAIN Program /\ Program[pc][1] = op
Side == Program[pc][2]
Has(s, m) == \E i \in DOMAIN members[s] : members[s][i] = m

-----------------------------------------------------------------------------
(* The callbacks.                                                          *)

\* Mutation of Counted: a break is missing.
Counted_falls_through(c, ev) ==
  CASE ev = "add_pre" -> [c EXCEPT !.add_pre = @ + 1, !.add_post = @ + 1]
    [] ev = "add_post" -> [c EXCEPT !.add_post = @ + 1]
    [] ev = "rem" -> [c EXCEPT !.rem = @ + 1]

Counted(c, ev) == [c EXCEPT ![ev] = @ + 1]

\* Mutation of notify: only the first pipe is remembered.
notify_first_pipe(s, i, ev) ==
  /\ n' = [n EXCEPT ![s] = Counted(@, ev)]
  /\ p' = [p EXCEPT ![s] = IF @ = Null THEN i ELSE @]
  /\ misused' = (misused \/ ~Has(s, "lk") \/ ~Has(s, "cv"))

\* An event of pipe i comes to the testcase of side s. It compares the pipe's
\* dialer and listener with those that the testcase holds, which are
\* indeterminate once they are destroyed.
notify(s, i, ev) ==
  /\ \E same \in IF Has(s, "endpoint") THEN {assigned[s]} ELSE BOOLEAN :
       IF same
         THEN /\ LET c == IF n[s].add_post > n[s].add_pre
                          THEN [n[s] EXCEPT !.err = @ + 1]
                          ELSE n[s]
                 IN  n' = [n EXCEPT ![s] = Counted(c, ev)]
              /\ p' = [p EXCEPT ![s] = i]
         ELSE n' = [n EXCEPT ![s].err = @ + 1] /\ p' = p
  /\ misused' = (misused \/ ~Has(s, "lk") \/ ~Has(s, "cv"))

\* The pipes in S are closed and handed to the reaper, in any order.
Close(S) ==
  /\ closed' = closed \cup S
  /\ \E order \in SetToSeqs(S \ closed) : reaper' = reaper \o order

\* What follows ADD_PRE for pipe i of side s
AfterPre(s, i, nowClosed) ==
  pipe' = [pipe EXCEPT
             ![s][i] = IF <<s, i>> \in nowClosed THEN "dead" ELSE "post"]

AddPre(s, i) ==
  /\ pipe[s][i] = "pre"
  /\ notify(s, i, "add_pre")
  /\ IF test = "reject" /\ s = "pull"
       THEN pipe' = [pipe EXCEPT ![s][i] = "notified"]
       ELSE AfterPre(s, i, closed)
  /\ UNCHANGED <<test, pc, assigned, members, started, conns, closed, reaper,
                  misread>>

\* The rest of reject: an object that owns the pipe is made and destroyed.
reject(s, i) ==
  /\ pipe[s][i] = "notified"
  /\ IF n[s].rej = 0
       THEN /\ Close({<<s, i>>})
            /\ n' = [n EXCEPT ![s].rej = 1]
       ELSE UNCHANGED <<closed, reaper, n>>
  /\ AfterPre(s, i, closed')
  /\ misused' = (misused \/ ~Has(s, "lk"))
  /\ UNCHANGED <<test, pc, assigned, members, p, started, conns, misread>>

AddPost(s, i) ==
  /\ pipe[s][i] = "post"
  /\ notify(s, i, "add_post")
  /\ pipe' = [pipe EXCEPT ![s][i] = "up"]
  /\ UNCHANGED <<test, pc, assigned, members, started, conns, closed, reaper,
                  misread>>

\* REM_POST
Reap ==
  /\ reaper # <<>>
  /\ LET s == Head(reaper)[1]
         i == Head(reaper)[2]
     IN  /\ pipe[s][i] \in {"up", "dead"}
         /\ notify(s, i, "rem")
         /\ pipe' = [pipe EXCEPT ![s][i] = "gone"]
  /\ reaper' = Tail(reaper)
  /\ UNCHANGED <<test, pc, assigned, members, started, conns, closed, misread>>

-----------------------------------------------------------------------------
(* The library.                                                            *)

Connect ==
  /\ started = [s \in Sides |-> TRUE]
  /\ conns < MaxConns
  /\ conns > 0 => pipe["push"][conns] = "gone"
  /\ conns' = conns + 1
  /\ pipe' = [s \in Sides |-> [pipe[s] EXCEPT ![conns + 1] = "pre"]]
  /\ UNCHANGED <<test, pc, assigned, members, counters, started, closed, reaper,
                  misread, misused>>

PeerClosed(s, i) ==
  /\ <<Other(s), i>> \in closed
  /\ <<s, i>> \notin closed
  /\ pipe[s][i] \in {"post", "up"}
  /\ Close({<<s, i>>})
  /\ UNCHANGED <<test, pc, assigned, members, counters, started, conns, pipe,
                  misread, misused>>

-----------------------------------------------------------------------------
(* main.                                                                   *)

\* listener( pull.s, addr ) or dialer( push.s, addr ), assigned to the testcase
make ==
  /\ At("make")
  /\ assigned' = [assigned EXCEPT ![Side] = TRUE]
  /\ pc' = pc + 1
  /\ UNCHANGED <<test, members, counters, library, misread, misused>>

start ==
  /\ At("start")
  /\ started' = [started EXCEPT ![Side] = TRUE]
  /\ pc' = pc + 1
  /\ UNCHANGED <<test, assigned, members, counters, conns, pipe, closed, reaper,
                  misread, misused>>

\* make, start, send or recv throws, or the five seconds of an expect are over
\* before the counter has the value, and its REQUIRE fails: main unwinds, with
\* whatever connections and callbacks there are.
Throw ==
  /\ \/ At("make") \/ At("start") \/ At("recv")
     \/ At("expect") /\ n[Side][Program[pc][3]] # Program[pc][4]
  /\ pc' = Len(Program) - 1
  /\ UNCHANGED <<test, assigned, members, counters, library, misread, misused>>

\* expect waits until the counter has the value, and not a moment longer, unless
\* its deadline comes first (Throw).
expect ==
  /\ At("expect")
  /\ n[Side][Program[pc][3]] = Program[pc][4]
  /\ pc' = pc + 1
  /\ UNCHANGED <<test, assigned, members, counters, library, misread, misused>>

\* nng_pipe_close( pull.p.get() )
close ==
  /\ At("close")
  /\ Close({<<"pull", p["pull"]>>})
  /\ pc' = pc + 1
  /\ UNCHANGED <<test, assigned, members, counters, started, conns, pipe,
                  misread, misused>>

\* A frame goes over the newest connection, and its pipe is compared.
recv ==
  /\ At("recv")
  /\ pipe["push"][conns] = "up" /\ pipe["pull"][conns] = "up"
  /\ misread' = (misread \/ p["pull"] # conns)
  /\ pc' = pc + 1
  /\ UNCHANGED <<test, assigned, members, counters, library, misused>>

\* ~testcase: the last member is destroyed.
destroy ==
  /\ At("destroy")
  /\ IF members[Side] = <<>>
       THEN pc' = pc + 1 /\ UNCHANGED <<members, started, closed, reaper>>
       ELSE LET m == Last(members[Side])
                mine == {x \in {Side} \X Conns :
                           pipe[Side][x[2]] \notin {"none", "gone"}}
            IN  /\ m = "s" => mine = {}
                /\ IF m = "endpoint"
                     THEN /\ Close(mine)
                          /\ started' = [started EXCEPT ![Side] = FALSE]
                     ELSE UNCHANGED <<started, closed, reaper>>
                /\ members' = [members EXCEPT ![Side] = Front(@)]
                /\ pc' = pc
  /\ UNCHANGED <<test, assigned, counters, conns, pipe, misread, misused>>

Init ==
  /\ test \in {"dialing", "reconnection", "reject"}
  /\ pc = 1
  /\ assigned = [s \in Sides |-> FALSE]
  /\ members = [s \in Sides |-> testcase]
  /\ n = [s \in Sides |-> [add_pre |-> 0, add_post |-> 0, rem |-> 0,
                           err |-> 0, rej |-> 0]]
  /\ p = [s \in Sides |-> Null]
  /\ started = [s \in Sides |-> FALSE]
  /\ conns = 0
  /\ pipe = [s \in Sides |-> [i \in Conns |-> "none"]]
  /\ closed = {}
  /\ reaper = <<>>
  /\ misread = FALSE
  /\ misused = FALSE

Main == make \/ start \/ expect \/ close \/ recv \/ destroy

Pipe(s, i) == AddPre(s, i) \/ reject(s, i) \/ AddPost(s, i) \/ PeerClosed(s, i)

Next ==
  \/ Main \/ Throw \/ Reap \/ Connect
  \/ \E s \in Sides, i \in Conns : Pipe(s, i)

\* main and the library's threads run on.
Spec ==
  /\ Init /\ [][Next]_vars
  /\ WF_vars(Main) /\ WF_vars(Reap) /\ WF_vars(Connect)
  /\ \A s \in Sides, i \in Conns : WF_vars(Pipe(s, i))

-----------------------------------------------------------------------------
(* Properties.                                                             *)

\* Every variable keeps its type. There are no more than two connections: the
\* test closes one.
TypeOK ==
  /\ pc \in 1 .. Len(Program) + 1
  /\ p \in [Sides -> Conns \cup {Null}]
  /\ conns \in 0 .. 2
  /\ \A s \in Sides :
       /\ {n[s].add_pre, n[s].add_post, n[s].rem} \subseteq 0 .. conns
       /\ n[s].rej \in 0 .. 1
  /\ Range(reaper) \subseteq closed

\* No callback meets a pipe of an unknown dialer or listener, nor more ADD_POST
\* than ADD_PRE events, until its testcase is being destroyed: the members
\* are assigned before the events can come.
NoErrors ==
  \A s \in Sides : Has(s, "endpoint") => n[s].err = 0

\* The pipe of the last event is the one that carries the messages, after a
\* reconnection too, when there were events of two connections. The test sends
\* nothing after a rejection.
LastPipeIsInUse == ~misread

\* The callbacks that run while a testcase is destroyed find its mutex and its
\* condition variable.
NoMisuse == ~misused

\* The test has ended.
Finished == pc = Len(Program) + 1
=============================================================================
