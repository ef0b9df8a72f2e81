---------------------------- MODULE RestService ----------------------------
(***************************************************************************)
(* What the REST demo promises to its HTTP clients: a request that reached *)
(* the handler is answered once, with the rotated body of that very        *)
(* request or with a failure, unless the process exits first.              *)
(***************************************************************************)
CONSTANTS
  Requests,  \* HTTP requests that can be outstanding at the same time
  Failed,    \* the answer that reports an error
  Null       \* no answer yet

VARIABLES
  http,    \* where each request is
  answer,  \* the answer of each request
  exited   \* has the process exited?

vars == <<http, answer, exited>>

Rotated(r) == [req |-> r, rot |-> TRUE]

Init ==
  /\ http = [r \in Requests |-> "idle"]
  /\ answer = [r \in Requests |-> Null]
  /\ exited = FALSE

Accept(r) ==
  /\ ~exited
  /\ http[r] = "idle"
  /\ http' = [http EXCEPT ![r] = "pending"]
  /\ UNCHANGED <<answer, exited>>

Reply(r) ==
  /\ ~exited
  /\ http[r] = "pending"
  /\ http' = [http EXCEPT ![r] = "answered"]
  /\ \E a \in {Failed, Rotated(r)} : answer' = [answer EXCEPT ![r] = a]
  /\ UNCHANGED exited

Collect(r) ==
  /\ ~exited
  /\ http[r] = "answered"
  /\ http' = [http EXCEPT ![r] = "idle"]
  /\ answer' = [answer EXCEPT ![r] = Null]
  /\ UNCHANGED exited

Exit ==
  /\ exited' = TRUE
  /\ UNCHANGED <<http, answer>>

Next == (\E r \in Requests : Accept(r) \/ Reply(r) \/ Collect(r)) \/ Exit

\* A pending request is answered in the end, or the process exits, which
\* disables Reply.
Fairness == \A r \in Requests : WF_vars(Reply(r))

SafeSpec == Init /\ [][Next]_vars
Spec == SafeSpec /\ Fairness
=============================================================================
