----------------------------- MODULE RestServer -----------------------------
(***************************************************************************)
(* demo/rest/server.cpp: an HTTP handler that forwards the body of each    *)
(* request over a REQ context to a REP server in the same process, and     *)
(* answers the HTTP request from the callback that gets the reply.         *)
(*                                                                         *)
(* The threads are the ones on which nng runs its callbacks: an idle one   *)
(* enters rest_handle for a new HTTP request, or rest_job_cb for a job     *)
(* whose aio completed.  A job travels with its owner: a unique_ptr of     *)
(* some thread, the aio that was armed with it, or the freelist.           *)
(*                                                                         *)
(* A step ends where another thread can see its effect: at the job lock,   *)
(* at the arming of an aio, at the end of an HTTP request.                 *)
(***************************************************************************)
EXTENDS Naturals, FiniteSets

CONSTANTS
  Threads,   \* threads that run the callbacks of nng
  Requests,  \* HTTP requests that can be outstanding at the same time
  Jobs,      \* bound: the rest_job objects there is memory for
  Failed,    \* an HTTP answer that reports an error
  Empty,     \* an HTTP response object without data
  Null       \* nullptr

VARIABLES
  http,          \* each request: idle, pending (in the handler's hands), answered
  answer,        \* the output of its HTTP aio, once that is finished
  job,           \* the rest_job objects
  job_freelist,  \* head of the list of free jobs
  job_lock,      \* the thread that holds the mutex
  fn, pc,        \* each thread: the callback it runs, and where it is in it
  own, arg,      \* its unique_ptr to a job; the HTTP request it has to answer
  inproc,        \* the message the REP server is working on
  exited         \* was exit(1) called?

shared == <<job_freelist, job_lock>>
thread == <<fn, pc, own, arg>>
vars == <<http, answer, job, shared, thread, inproc, exited>>

Data == [req : Requests, rot : BOOLEAN]

\* A null pointer is none of the things that there can be a pointer to.
ASSUME NullAssumption == Null \notin Jobs \cup Threads \cup Requests \cup Data

\* One rest_job, with the parts of its aio and ctx members that matter here.
JobType ==
  [memory   : {"none", "live", "deleted"},
   http_aio : Requests \cup {Null},
   http_res : Data \cup {Null, Empty},
   state    : {"SEND_REQ", "RECV_REP"},
   msg      : Data \cup {Null},
   next     : Jobs \cup {Null},
   ctx      : {"null", "open", "asked", "replied"},
   wire     : Data \cup {Null},
   aio      : {"idle", "send", "recv", "done"},
   result   : {"success", "error"},
   aio_msg  : Data \cup {Null}]

NewJob ==
  [memory |-> "live", http_aio |-> Null, http_res |-> Null,
   state |-> "SEND_REQ", msg |-> Null, next |-> Null, ctx |-> "null",
   wire |-> Null, aio |-> "idle", result |-> "success", aio_msg |-> Null]

\* Thread t goes on inside the function it runs, or returns from it.
ToPc(t, to) == pc' = [pc EXCEPT ![t] = to] /\ fn' = fn
Return(t) == pc' = [pc EXCEPT ![t] = "idle"] /\ fn' = [fn EXCEPT ![t] = "none"]
Job(t) == job[own[t]]

\* exit(1), after the exception destroyed the unique_ptr of the function.
Exit(t) ==
  /\ exited' = TRUE
  /\ Return(t)
  /\ own' = [own EXCEPT ![t] = Null]

\* http_aio.set_output(0, ...); http_aio.finish()
Finish(r, a) ==
  /\ http' = [http EXCEPT ![r] = "answered"]
  /\ answer' = [answer EXCEPT ![r] = a]

-----------------------------------------------------------------------------
(* rest_get_job                                                            *)

\* nng runs the handler for a request: rest_handle begins.
rest_handle(t, r) ==
  /\ ~exited
  /\ pc[t] = "idle"
  /\ http[r] = "idle"
  /\ http' = [http EXCEPT ![r] = "pending"]
  /\ arg' = [arg EXCEPT ![t] = r]
  /\ pc' = [pc EXCEPT ![t] = "get_lock"]
  /\ fn' = [fn EXCEPT ![t] = "rest_handle"]
  /\ UNCHANGED <<answer, job, shared, own, inproc, exited>>

\* job_lock.lock(); job = std::move(job_freelist)
GetLock(t) ==
  /\ ~exited
  /\ pc[t] = "get_lock"
  /\ job_lock = Null
  /\ job_lock' = t
  /\ own' = [own EXCEPT ![t] = job_freelist]
  /\ job_freelist' = Null
  /\ ToPc(t, "get_pop")
  /\ UNCHANGED <<http, answer, job, arg, inproc, exited>>

\* job_freelist = std::move(job->next), when there is a job; unlock.
GetPop(t) ==
  /\ ~exited
  /\ pc[t] = "get_pop"
  /\ job_lock' = Null
  /\ IF own[t] = Null
       THEN /\ ToPc(t, "get_new")
            /\ UNCHANGED <<job_freelist, job>>
       ELSE /\ job_freelist' = Job(t).next
            /\ job' = [job EXCEPT ![own[t]].next = Null]
            /\ ToPc(t, "setup")
  /\ UNCHANGED <<http, answer, own, arg, inproc, exited>>

\* std::make_unique<rest_job>()
GetNew(t) ==
  /\ ~exited
  /\ pc[t] = "get_new"
  /\ \E j \in Jobs :
       /\ job[j].memory = "none"
       /\ job' = [job EXCEPT ![j] = NewJob]
       /\ own' = [own EXCEPT ![t] = j]
  /\ ToPc(t, "setup")
  /\ UNCHANGED <<http, answer, shared, arg, inproc, exited>>

\* Neither new nor the aio of the job report failure by a null pointer: both
\* throw, and rest_handle has no handler for that but the last one.
GetNewThrows(t) ==
  /\ ~exited
  /\ pc[t] = "get_new"
  /\ Exit(t)
  /\ UNCHANGED <<http, answer, job, shared, arg, inproc>>

-----------------------------------------------------------------------------
(* The rest of rest_handle.                                                *)

\* make_res() and ctx( req_sock )
Setup(t) ==
  /\ ~exited
  /\ pc[t] = "setup"
  /\ job' = [job EXCEPT ![own[t]].http_res = Empty,
                        ![own[t]].ctx = "open",
                        ![own[t]].http_aio = arg[t]]
  /\ ToPc(t, "send")
  /\ UNCHANGED <<http, answer, shared, own, arg, inproc, exited>>

\* One of them throws: the job is recycled, then the request is failed.
SetupFails(t) ==
  /\ ~exited
  /\ pc[t] = "setup"
  /\ \E res \in {Null, Empty} : job' = [job EXCEPT ![own[t]].http_res = res]
  /\ ToPc(t, "recycle")
  /\ UNCHANGED <<http, answer, shared, own, arg, inproc, exited>>

\* aio.finish( e.get_error() ), after rest_recycle_job
FinishError(t) ==
  /\ ~exited
  /\ pc[t] = "finish_error"
  /\ Finish(arg[t], Failed)
  /\ arg' = [arg EXCEPT ![t] = Null]
  /\ Return(t)
  /\ UNCHANGED <<job, shared, own, inproc, exited>>

\* The message is made, filled, left to the job's aio, and the aio is armed.
Send(t) ==
  /\ ~exited
  /\ pc[t] = "send"
  /\ job' = [job EXCEPT
       ![own[t]].aio_msg = [req |-> arg[t], rot |-> FALSE],
       ![own[t]].msg = Null,
       ![own[t]].state = "SEND_REQ",
       ![own[t]].aio = "send"]
  /\ arg' = [arg EXCEPT ![t] = Null]
  /\ ToPc(t, "disown")
  /\ UNCHANGED <<http, answer, shared, own, inproc, exited>>

\* Mutation of SendNoMemory: the return after rest_http_fatal is missing, and
\* the request is finished again when the job has been recycled.
SendNoMemoryGoesOn(t) ==
  /\ ~exited
  /\ pc[t] = "send"
  /\ ToPc(t, "fatal")
  /\ UNCHANGED <<http, answer, job, shared, own, arg, inproc, exited>>

\* nng::msg( size ) throws: rest_http_fatal
SendNoMemory(t) ==
  /\ ~exited
  /\ pc[t] = "send"
  /\ arg' = [arg EXCEPT ![t] = Null]
  /\ ToPc(t, "fatal")
  /\ UNCHANGED <<http, answer, job, shared, own, inproc, exited>>

\* job.release(), the last thing rest_handle and rest_job_cb do after arming
Disown(t) ==
  /\ ~exited
  /\ pc[t] = "disown"
  /\ own' = [own EXCEPT ![t] = Null]
  /\ Return(t)
  /\ UNCHANGED <<http, answer, job, shared, arg, inproc, exited>>

-----------------------------------------------------------------------------
(* rest_job_cb                                                             *)

\* The aio of job j completed: its callback begins on some thread.
rest_job_cb(t, j) ==
  /\ ~exited
  /\ pc[t] = "idle"
  /\ job[j].aio = "done"
  /\ job' = [job EXCEPT ![j].aio = "idle"]
  /\ own' = [own EXCEPT ![t] = j]
  /\ pc' = [pc EXCEPT ![t] = "callback"]
  /\ fn' = [fn EXCEPT ![t] = "rest_job_cb"]
  /\ UNCHANGED <<http, answer, shared, arg, inproc, exited>>

\* Mutation of CbSent: the state is not changed before the receive.
CbSentKeepsState(t) ==
  /\ ~exited
  /\ pc[t] = "callback"
  /\ Job(t).state = "SEND_REQ"
  /\ Job(t).result = "success"
  /\ job' = [job EXCEPT ![own[t]].aio_msg = Null, ![own[t]].aio = "recv"]
  /\ ToPc(t, "disown")
  /\ UNCHANGED <<http, answer, shared, own, arg, inproc, exited>>

\* case SEND_REQ, result is success: wait for the reply.
CbSent(t) ==
  /\ ~exited
  /\ pc[t] = "callback"
  /\ Job(t).state = "SEND_REQ"
  /\ Job(t).result = "success"
  /\ job' = [job EXCEPT ![own[t]].aio_msg = Null,
                        ![own[t]].state = "RECV_REP",
                        ![own[t]].aio = "recv"]
  /\ ToPc(t, "disown")
  /\ UNCHANGED <<http, answer, shared, own, arg, inproc, exited>>

\* Either case, result is an error.
CbFailed(t) ==
  /\ ~exited
  /\ pc[t] = "callback"
  /\ Job(t).result = "error"
  /\ ToPc(t, "fatal")
  /\ UNCHANGED <<http, answer, job, shared, own, arg, inproc, exited>>

\* Mutation of CbReplied: the response is left to the HTTP aio without data.
CbRepliedEmpty(t) ==
  /\ ~exited
  /\ pc[t] = "callback"
  /\ Job(t).state = "RECV_REP"
  /\ Job(t).result = "success"
  /\ job' = [job EXCEPT ![own[t]].msg = Job(t).aio_msg,
                        ![own[t]].aio_msg = Null,
                        ![own[t]].http_res = Null,
                        ![own[t]].http_aio = Null]
  /\ Finish(Job(t).http_aio, Job(t).http_res)
  /\ ToPc(t, "recycle")
  /\ UNCHANGED <<shared, own, arg, inproc, exited>>

\* case RECV_REP, result is success: take the message out of the aio, copy it
\* into the response, leave the response to the HTTP aio and finish that.
CbReplied(t) ==
  /\ ~exited
  /\ pc[t] = "callback"
  /\ Job(t).state = "RECV_REP"
  /\ Job(t).result = "success"
  /\ job' = [job EXCEPT ![own[t]].msg = Job(t).aio_msg,
                        ![own[t]].aio_msg = Null,
                        ![own[t]].http_res = Null,
                        ![own[t]].http_aio = Null]
  /\ Finish(Job(t).http_aio, Job(t).aio_msg)
  /\ ToPc(t, "recycle")
  /\ UNCHANGED <<shared, own, arg, inproc, exited>>

\* copy_data throws: rest_http_fatal
CbCopyFails(t) ==
  /\ ~exited
  /\ pc[t] = "callback"
  /\ Job(t).state = "RECV_REP"
  /\ Job(t).result = "success"
  /\ job' = [job EXCEPT ![own[t]].msg = Job(t).aio_msg,
                        ![own[t]].aio_msg = Null]
  /\ ToPc(t, "fatal")
  /\ UNCHANGED <<http, answer, shared, own, arg, inproc, exited>>

-----------------------------------------------------------------------------
(* rest_http_fatal and rest_recycle_job                                    *)

rest_http_fatal(t) ==
  /\ ~exited
  /\ pc[t] = "fatal"
  /\ job' = [job EXCEPT ![own[t]].http_aio = Null,
                        ![own[t]].http_res = Null]
  /\ Finish(Job(t).http_aio, Failed)
  /\ ToPc(t, "recycle")
  /\ UNCHANGED <<shared, own, arg, inproc, exited>>

\* set_reason throws; the unwinding destroys the job.
FatalThrows(t) ==
  /\ ~exited
  /\ pc[t] = "fatal"
  /\ job' = [job EXCEPT ![own[t]].memory = "deleted"]
  /\ Exit(t)
  /\ UNCHANGED <<http, answer, shared, arg, inproc>>

\* Mutation of rest_recycle_job: the message is kept.
RecycleKeepsMsg(t) ==
  /\ ~exited
  /\ pc[t] = "recycle"
  /\ job' = [job EXCEPT ![own[t]].http_res = Null,
                        ![own[t]].ctx = "null",
                        ![own[t]].wire = Null]
  /\ inproc' = IF inproc.job = own[t] THEN [inproc EXCEPT !.job = Null]
                                      ELSE inproc
  /\ ToPc(t, "put_lock")
  /\ UNCHANGED <<http, answer, shared, own, arg, exited>>

\* The members are reset; closing the ctx forgets the request sent on it.
rest_recycle_job(t) ==
  /\ ~exited
  /\ pc[t] = "recycle"
  /\ job' = [job EXCEPT ![own[t]].http_res = Null,
                        ![own[t]].msg = Null,
                        ![own[t]].ctx = "null",
                        ![own[t]].wire = Null]
  /\ inproc' = IF inproc.job = own[t] THEN [inproc EXCEPT !.job = Null]
                                      ELSE inproc
  /\ ToPc(t, "put_lock")
  /\ UNCHANGED <<http, answer, shared, own, arg, exited>>

\* Assigning over the ctx throws when its close fails.
RecycleThrows(t) ==
  /\ ~exited
  /\ pc[t] = "recycle"
  /\ Job(t).ctx # "null"
  /\ job' = [job EXCEPT ![own[t]].memory = "deleted"]
  /\ Exit(t)
  /\ UNCHANGED <<http, answer, shared, arg, inproc>>

\* Mutation of PutLock: the freelist is used without the lock.
PutUnlocked(t) ==
  /\ ~exited
  /\ pc[t] = "put_lock"
  /\ job_lock' = t
  /\ job' = [job EXCEPT ![own[t]].next = job_freelist]
  /\ job_freelist' = Null
  /\ ToPc(t, "put_push")
  /\ UNCHANGED <<http, answer, own, arg, inproc, exited>>

\* lock; job->next = std::move(job_freelist)
PutLock(t) ==
  /\ ~exited
  /\ pc[t] = "put_lock"
  /\ job_lock = Null
  /\ job_lock' = t
  /\ job' = [job EXCEPT ![own[t]].next = job_freelist]
  /\ job_freelist' = Null
  /\ ToPc(t, "put_push")
  /\ UNCHANGED <<http, answer, own, arg, inproc, exited>>

\* job_freelist = std::move(job); unlock.  In rest_handle an error remains.
PutPush(t) ==
  /\ ~exited
  /\ pc[t] = "put_push"
  /\ job_freelist' = own[t]
  /\ own' = [own EXCEPT ![t] = Null]
  /\ job_lock' = Null
  /\ IF arg[t] = Null THEN Return(t) ELSE ToPc(t, "finish_error")
  /\ UNCHANGED <<http, answer, job, arg, inproc, exited>>

-----------------------------------------------------------------------------
(* nng (external): the aio operations of a job, and the HTTP client.       *)

SendDone(j) ==
  /\ ~exited
  /\ job[j].aio = "send"
  /\ job' = [job EXCEPT ![j].aio = "done", ![j].result = "success",
                        ![j].ctx = "asked", ![j].wire = job[j].aio_msg]
  /\ UNCHANGED <<http, answer, shared, thread, inproc, exited>>

\* The message of a send that failed stays in the aio.
SendFails(j) ==
  /\ ~exited
  /\ job[j].aio = "send"
  /\ job' = [job EXCEPT ![j].aio = "done", ![j].result = "error"]
  /\ UNCHANGED <<http, answer, shared, thread, inproc, exited>>

RecvDone(j) ==
  /\ ~exited
  /\ job[j].aio = "recv"
  /\ job[j].ctx = "replied"
  /\ job' = [job EXCEPT ![j].aio = "done", ![j].result = "success",
                        ![j].ctx = "open", ![j].wire = Null,
                        ![j].aio_msg = job[j].wire]
  /\ UNCHANGED <<http, answer, shared, thread, inproc, exited>>

RecvFails(j) ==
  /\ ~exited
  /\ job[j].aio = "recv"
  /\ job' = [job EXCEPT ![j].aio = "done", ![j].result = "error"]
  /\ UNCHANGED <<http, answer, shared, thread, inproc, exited>>

\* The response went out; the connection carries the next request.
Collect(r) ==
  /\ ~exited
  /\ http[r] = "answered"
  /\ http' = [http EXCEPT ![r] = "idle"]
  /\ answer' = [answer EXCEPT ![r] = Null]
  /\ UNCHANGED <<job, shared, thread, inproc, exited>>

-----------------------------------------------------------------------------
(* inproc_server: receive, rotate, send, one message after the other.      *)

Rot13(d) == [d EXCEPT !.rot = ~@]

\* sock.recv_msg(): a request that some context has outstanding
InprocRecv(j) ==
  /\ ~exited
  /\ inproc.data = Null
  /\ job[j].ctx = "asked"
  /\ job[j].wire # Null
  /\ inproc' = [job |-> j, data |-> job[j].wire]
  /\ job' = [job EXCEPT ![j].wire = Null]
  /\ UNCHANGED <<http, answer, shared, thread, exited>>

\* sock.send(): the reply reaches the context that asked, if still open.
InprocSend ==
  /\ ~exited
  /\ inproc.data # Null
  /\ job' = IF inproc.job = Null THEN job
            ELSE [job EXCEPT ![inproc.job].ctx = "replied",
                             ![inproc.job].wire = Rot13(inproc.data)]
  /\ inproc' = [job |-> Null, data |-> Null]
  /\ UNCHANGED <<http, answer, shared, thread, exited>>

\* Either of them throws.
InprocThrows ==
  /\ ~exited
  /\ exited' = TRUE
  /\ UNCHANGED <<http, answer, job, shared, thread, inproc>>

-----------------------------------------------------------------------------
Init ==
  /\ http = [r \in Requests |-> "idle"]
  /\ answer = [r \in Requests |-> Null]
  /\ job = [j \in Jobs |-> [NewJob EXCEPT !.memory = "none"]]
  /\ job_freelist = Null
  /\ job_lock = Null
  /\ fn = [t \in Threads |-> "none"]
  /\ pc = [t \in Threads |-> "idle"]
  /\ own = [t \in Threads |-> Null]
  /\ arg = [t \in Threads |-> Null]
  /\ inproc = [job |-> Null, data |-> Null]
  /\ exited = FALSE

Lock(t) == GetLock(t) \/ PutLock(t)

\* The steps of a thread that is inside a callback and needs no lock.
Run(t) ==
  \/ GetPop(t) \/ GetNew(t) \/ GetNewThrows(t)
  \/ Setup(t) \/ SetupFails(t) \/ FinishError(t)
  \/ Send(t) \/ SendNoMemory(t) \/ Disown(t)
  \/ CbSent(t) \/ CbFailed(t) \/ CbReplied(t) \/ CbCopyFails(t)
  \/ rest_http_fatal(t) \/ FatalThrows(t)
  \/ rest_recycle_job(t) \/ RecycleThrows(t) \/ PutPush(t)

Complete(j) == SendDone(j) \/ SendFails(j) \/ RecvDone(j)

\* After exit(1) nothing happens any more.
Terminated == exited /\ UNCHANGED vars

Next ==
  \/ \E t \in Threads :
       \/ Lock(t)
       \/ Run(t)
       \/ \E r \in Requests : rest_handle(t, r)
       \/ \E j \in Jobs : rest_job_cb(t, j)
  \/ \E j \in Jobs : Complete(j) \/ RecvFails(j) \/ InprocRecv(j)
  \/ \E r \in Requests : Collect(r)
  \/ InprocSend
  \/ InprocThrows
  \/ Terminated

\* Threads run; the mutex, the queue of completed aios and the REP socket
\* starve nobody; a send completes, and so does a receive once the reply came.
Fairness ==
  /\ \A t \in Threads : WF_vars(Run(t)) /\ SF_vars(Lock(t))
  /\ \A j \in Jobs :
       /\ WF_vars(Complete(j))
       /\ SF_vars(InprocRecv(j))
       /\ SF_vars(\E t \in Threads : rest_job_cb(t, j))
  /\ WF_vars(InprocSend)

Spec == Init /\ [][Next]_vars /\ Fairness

-----------------------------------------------------------------------------
(* Properties.                                                             *)

\* Every variable keeps its type; an answer is data or a failure, never the
\* bare response object.
TypeOK ==
  /\ http \in [Requests -> {"idle", "pending", "answered"}]
  /\ answer \in [Requests -> Data \cup {Failed, Null}]
  /\ job \in [Jobs -> JobType]
  /\ job_freelist \in Jobs \cup {Null}
  /\ job_lock \in Threads \cup {Null}
  /\ fn \in [Threads -> {"none", "rest_handle", "rest_job_cb"}]
  /\ pc \in [Threads -> {"idle", "get_lock", "get_pop", "get_new", "setup",
                         "send", "disown", "callback", "fatal", "recycle",
                         "put_lock", "put_push", "finish_error"}]
  /\ own \in [Threads -> Jobs \cup {Null}]
  /\ arg \in [Threads -> Requests \cup {Null}]
  /\ inproc \in [job : Jobs \cup {Null}, data : Data \cup {Null}]
  /\ exited \in BOOLEAN

Count(S) == Cardinality(S)
OnFreelist(j) == job_freelist = j \/ \E k \in Jobs : job[k].next = j

\* A job has exactly one owner: one link of the freelist, one unique_ptr of a
\* thread that may still use it, or its armed aio.  So no two threads ever
\* work on one job, none is on the freelist twice or while in use, and none
\* is forgotten, although threads drop their unique_ptr only after arming.
JobHasOneOwner ==
  \A j \in Jobs :
    job[j].memory = "live" =>
      Count({k \in Jobs : job[k].next = j})
        + Count({x \in {job_freelist} : x = j})
        + Count({t \in Threads : own[t] = j /\ pc[t] # "disown"})
        + Count({x \in {job[j].aio} : x # "idle"}) = 1

\* What rest_get_job finds on the freelist carries nothing of its last
\* request: no HTTP aio to finish, no response, no message, no context.  The
\* exception is what rest_recycle_job does not look at, the message inside the
\* aio, and it is kept in one case only: the send has failed (server.cpp:113).
FreeJobsAreClean ==
  \A j \in Jobs :
    OnFreelist(j) =>
      /\ job[j].memory = "live"
      /\ job[j].http_aio = Null
      /\ job[j].http_res = Null
      /\ job[j].msg = Null
      /\ job[j].ctx = "null"
      /\ job[j].aio_msg # Null =>
           job[j].state = "SEND_REQ" /\ job[j].result = "error"

Service == INSTANCE RestService

\* The server answers as RestService promises: every request once, with its
\* own body rotated or with a failure, whatever interleaving of handlers,
\* callbacks and recycled jobs led there.
AnswersOnce == Service!SafeSpec

\* As AnswersOnce, and a request that rest_handle accepted is answered in the
\* end, unless the process exits.
ImplementsRestService == Service!Spec

\* server.cpp:53: jobs are never deallocated from the callback.
NeverDeletedInCallback ==
  [][\A t \in Threads :
       fn[t] = "rest_job_cb" /\ own[t] # Null =>
         job'[own[t]].memory = "live"]_vars

\* No message is lost: one that the job's aio owns is not overwritten by the
\* message of the next request (aio.set_msg does not free the old one).
NoMessageOverwritten ==
  [][\A j \in Jobs :
       job[j].aio_msg # Null /\ job'[j].aio_msg # Null =>
         job'[j].aio_msg = job[j].aio_msg]_vars

=============================================================================
