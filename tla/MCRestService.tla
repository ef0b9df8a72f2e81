---------------------------- MODULE MCRestService ----------------------------
(***************************************************************************)
(* An instance of RestServer for TLC, for the refinement: either a second  *)
(* thread runs callbacks, or a second request is outstanding.              *)
(***************************************************************************)
EXTENDS RestServer

CONSTANTS t1, r1

VARIABLE second  \* what there are two of

Active == IF second = "thread" THEN Threads ELSE {t1}

MCInit == Init /\ second \in {"thread", "request"}

MCNext ==
  /\ Next
  /\ \A t \in Threads \ Active : pc'[t] = "idle"
  /\ second = "thread" => \A r \in Requests \ {r1} : http'[r] = "idle"
  /\ UNCHANGED second

\* The fairness of RestServer, with callbacks on the threads there are
MCFairness ==
  /\ \A t \in Threads : WF_vars(Run(t)) /\ SF_vars(Lock(t))
  /\ \A j \in Jobs :
       /\ WF_vars(Complete(j))
       /\ SF_vars(InprocRecv(j))
       /\ SF_vars(\E t \in Active : rest_job_cb(t, j))
  /\ WF_vars(InprocSend)

MCSpec == MCInit /\ [][MCNext]_<<vars, second>> /\ MCFairness
=============================================================================
