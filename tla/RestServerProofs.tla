-------------------------- MODULE RestServerProofs --------------------------
(***************************************************************************)
(* Theorems about RestServer, for any number of threads, requests and      *)
(* jobs: types, ownership of the jobs, clean jobs on the freelist, and     *)
(* that the server implements the safety part of RestService.              *)
(***************************************************************************)
EXTENDS RestServer, FiniteSetTheorems, TLAPS

-----------------------------------------------------------------------------
(* Who owns a job.                                                         *)

Live(j) == job[j].memory = "live"
Linked(k, j) == job[k].next = j
Holds(t, j) == own[t] = j /\ pc[t] # "disown"
Armed(j) == job[j].aio # "idle"

\* Somebody owns j.
Owned(j) ==
  \/ job_freelist = j
  \/ \E k \in Jobs : Linked(k, j)
  \/ \E t \in Threads : Holds(t, j)
  \/ Armed(j)

\* No two own j.
NotTwice(j) ==
  /\ job_freelist = j =>
       /\ \A k \in Jobs : ~Linked(k, j)
       /\ \A t \in Threads : ~Holds(t, j)
       /\ ~Armed(j)
  /\ \A k \in Jobs : Linked(k, j) =>
       /\ \A l \in Jobs : Linked(l, j) => l = k
       /\ \A t \in Threads : ~Holds(t, j)
       /\ ~Armed(j)
  /\ \A t \in Threads : Holds(t, j) =>
       /\ \A u \in Threads : Holds(u, j) => u = t
       /\ ~Armed(j)

\* The jobs that exist are those that are owned, by one owner each.
Ownership == \A j \in Jobs : (Live(j) <=> Owned(j)) /\ NotTwice(j)

-----------------------------------------------------------------------------
(* Where a thread is says whether it has a job and a request.              *)

HasJob ==
  {"setup", "send", "disown", "callback", "fatal", "recycle", "put_lock",
   "put_push"}
HasNoJob == {"idle", "get_lock", "get_new", "finish_error"}
HasRequest == {"get_lock", "get_pop", "get_new", "setup", "send", "finish_error"}
HasNoRequest == {"idle", "disown", "callback", "fatal"}
Locked == {"get_pop", "put_push"}

ThreadsInPlace ==
  \A t \in Threads :
    /\ pc[t] \in HasJob => own[t] # Null
    /\ pc[t] \in HasNoJob => own[t] = Null
    /\ pc[t] \in HasRequest => arg[t] # Null
    /\ pc[t] \in HasNoRequest => arg[t] = Null

\* Who is between the two halves of a change of the freelist has the lock, and
\* has emptied the list.
LockIsHeld ==
  /\ \A t \in Threads : pc[t] \in Locked <=> job_lock = t
  /\ job_lock # Null => job_freelist = Null

\* Only the lock's holder has a job that is linked to others.
Unlinked(t) ==
  pc[t] \notin Locked \cup {"disown"} /\ own[t] # Null => Job(t).next = Null

LinksInPlace ==
  /\ \A t \in Threads : Unlinked(t)
  /\ \A j \in Jobs : ~Live(j) \/ Armed(j) => job[j].next = Null

-----------------------------------------------------------------------------
(* Where a job is says what is in it.                                      *)

Sent(r) == [req |-> r, rot |-> FALSE]
Replied(r) == [req |-> r, rot |-> TRUE]

Clean(j) ==
  /\ job[j].http_aio = Null
  /\ job[j].http_res = Null
  /\ job[j].msg = Null
  /\ job[j].ctx = "null"

\* The operation of j's aio has ended: what the callback will find.
Completed(j) ==
  /\ job[j].http_aio # Null
  /\ job[j].state = "RECV_REP" /\ job[j].result = "success" =>
       job[j].aio_msg = Replied(job[j].http_aio)

\* The job of thread t is as far as the thread is.
InHand(t) ==
  /\ pc[t] \in {"get_pop", "setup", "put_lock", "put_push"} /\ own[t] # Null =>
       Clean(own[t])
  /\ pc[t] = "recycle" => Job(t).http_aio = Null
  /\ pc[t] = "send" => Job(t).http_aio = arg[t] /\ Job(t).ctx = "open"
  /\ pc[t] = "fatal" => Job(t).http_aio # Null
  /\ pc[t] = "callback" => Completed(own[t])

HeldJobs == \A t \in Threads : InHand(t)

\* Job j is as far as nng is with it; it is clean if it was never made.
WithNng(j) ==
  /\ ~Live(j) => Clean(j)
  /\ job[j].aio = "send" =>
       /\ job[j].http_aio # Null
       /\ job[j].state = "SEND_REQ"
       /\ job[j].ctx = "open"
       /\ job[j].aio_msg = Sent(job[j].http_aio)
  /\ job[j].aio = "recv" =>
       job[j].http_aio # Null /\ job[j].state = "RECV_REP"
  /\ job[j].aio = "done" => Completed(j)

ArmedJobs == \A j \in Jobs : WithNng(j)

\* The conversation of j's context with the REP server is about the request
\* that j has to answer.
Conversations ==
  \A j \in Jobs :
    /\ inproc.job = j =>
         /\ job[j].ctx = "asked" /\ job[j].wire = Null
         /\ inproc.data # Null
         /\ job[j].http_aio # Null => inproc.data = Sent(job[j].http_aio)
    /\ job[j].http_aio # Null =>
         /\ job[j].ctx = "asked" /\ job[j].wire # Null =>
              job[j].wire = Sent(job[j].http_aio)
         /\ job[j].ctx = "replied" => job[j].wire = Replied(job[j].http_aio)

-----------------------------------------------------------------------------
(* A request that is pending is to be answered by one thread or one job.   *)

RequestsInHands ==
  /\ \A t \in Threads : arg[t] # Null =>
       /\ http[arg[t]] = "pending"
       /\ \A u \in Threads : arg[u] = arg[t] => u = t
       /\ \A j \in Jobs : job[j].http_aio = arg[t] => own[t] = j /\ pc[t] = "send"
  /\ \A j \in Jobs : job[j].http_aio # Null =>
       /\ http[job[j].http_aio] = "pending"
       /\ \A k \in Jobs : job[k].http_aio = job[j].http_aio => k = j

\* What holds until the process exits
Working ==
  /\ ThreadsInPlace /\ LockIsHeld /\ LinksInPlace
  /\ HeldJobs /\ ArmedJobs /\ Conversations /\ RequestsInHands

\* What rest_recycle_job has reset in a job on the freelist
FreeJobsReset ==
  \A j \in Jobs :
    OnFreelist(j) =>
      /\ job[j].memory = "live"
      /\ job[j].http_aio = Null
      /\ job[j].http_res = Null
      /\ job[j].msg = Null
      /\ job[j].ctx = "null"

\* What every step preserves
IInv == TypeOK /\ Ownership /\ FreeJobsReset /\ (~exited => Working)

-----------------------------------------------------------------------------
(* Frames: what most steps have in common.                                 *)

OtherThreads(t) ==
  \A u \in Threads \ {t} : pc'[u] = pc[u] /\ own'[u] = own[u] /\ arg'[u] = arg[u]
OtherJobs(j) == \A k \in Jobs \ {j} : job'[k] = job[k]

\* Nothing that Ownership is about changes in job j.
KeepsOwner(j) ==
  /\ job'[j].memory = job[j].memory
  /\ job'[j].next = job[j].next
  /\ job'[j].aio = job[j].aio

\* A thread that is using a job is its only owner.
LEMMA HolderIsOwner ==
  ASSUME IInv, ~exited, NEW t \in Threads, pc[t] \in HasJob \ {"disown"}
  PROVE  /\ own[t] \in Jobs /\ job[own[t]] \in JobType
         /\ Live(own[t]) /\ ~Armed(own[t])
         /\ job_freelist # own[t]
         /\ \A k \in Jobs : ~Linked(k, own[t])
         /\ \A u \in Threads : Holds(u, own[t]) => u = t
<1>1. own[t] \in Jobs /\ Holds(t, own[t])
  BY DEF IInv, Working, ThreadsInPlace, TypeOK, Holds
<1>2. job[own[t]] \in JobType
  BY <1>1 DEF IInv, TypeOK
<1>3. NotTwice(own[t]) /\ Live(own[t])
  BY <1>1 DEF IInv, Ownership, Owned
<1> QED BY <1>1, <1>2, <1>3 DEF NotTwice

\* A thread that changes what is in its job, and goes on with it, leaves
\* owners, freelist and the jobs of nng alone.
LEMMA ThreadWorks ==
  ASSUME IInv, ~exited, NEW t \in Threads, OtherThreads(t), OtherJobs(own[t]),
         UNCHANGED <<shared, own>>,
         {pc[t], pc'[t]} \subseteq HasJob \ {"disown", "put_push"},
         KeepsOwner(own[t])
  PROVE  /\ Ownership' /\ FreeJobsReset'
         /\ LockIsHeld' /\ LinksInPlace' /\ ArmedJobs'
         /\ InHand(t)' => HeldJobs'
<1> USE NullAssumption DEF HasJob
<1> DEFINE j == own[t]
<1>1. /\ j \in Jobs /\ Live(j) /\ ~Armed(j) /\ job_freelist # j
      /\ \A k \in Jobs : ~Linked(k, j)
      /\ \A u \in Threads : Holds(u, j) => u = t
  BY HolderIsOwner
<1>2. \A k \in Jobs : KeepsOwner(k)
  BY DEF OtherJobs, KeepsOwner
<1>3. \A u \in Threads, k \in Jobs : Holds(u, k)' <=> Holds(u, k)
  BY DEF OtherThreads, Holds
<1>4. Ownership'
  BY <1>2, <1>3 DEF IInv, Ownership, Owned, NotTwice, Live, Linked, Armed,
                    KeepsOwner, shared
<1>5. FreeJobsReset'
  BY <1>1, <1>2 DEF IInv, FreeJobsReset, OnFreelist, Linked, KeepsOwner,
                    OtherJobs, shared
<1>6. LockIsHeld'
  BY DEF IInv, Working, LockIsHeld, Locked, OtherThreads, shared
<1>7. LinksInPlace'
  <2>1. \A u \in Threads : own'[u] = own[u] /\ own[u] \in Jobs \cup {Null}
    BY DEF IInv, TypeOK
  <2>2. \A u \in Threads : pc[u] \notin Locked \cup {"disown"} <=> pc'[u] \notin Locked \cup {"disown"}
    BY DEF Locked, OtherThreads
  <2> QED BY <2>1, <2>2, <1>2 DEF IInv, Working, LinksInPlace, Unlinked, Job, Live, Armed, KeepsOwner
<1>8. ArmedJobs'
  BY <1>1, <1>2 DEF IInv, Working, ArmedJobs, WithNng, Clean, Completed, OtherJobs,
                    KeepsOwner, Live, Armed
<1>9. ASSUME NEW u \in Threads \ {t} PROVE InHand(u)'
  <2>1. own[u] # j \/ pc[u] = "disown"
    BY <1>1 DEF Holds
  <2>2. pc'[u] = pc[u] /\ own'[u] = own[u] /\ arg'[u] = arg[u]
    BY DEF OtherThreads
  <2>3. CASE own[u] \in Jobs \ {j}
    BY <2>2, <2>3 DEF IInv, Working, HeldJobs, InHand, Clean, Completed, Job,
                      OtherJobs
  <2>4. CASE own[u] = Null \/ pc[u] = "disown"
    BY <2>2, <2>4 DEF IInv, Working, ThreadsInPlace, InHand
  <2> QED BY <2>1, <2>3, <2>4 DEF IInv, TypeOK
<1> QED BY <1>4, <1>5, <1>6, <1>7, <1>8, <1>9 DEF HeldJobs

-----------------------------------------------------------------------------
(* rest_handle, as long as its thread keeps the job.                       *)

\* rest_handle fills a clean job with its request, and no other job has it.
LEMMA SetupStep ==
  ASSUME IInv, NEW t \in Threads, Setup(t)
  PROVE  IInv'
<1> USE NullAssumption
<1> DEFINE j == own[t]
<1>1. ~exited /\ Working /\ pc[t] = "setup"
  BY DEF IInv, Setup
<1>2. j \in Jobs /\ job[j] \in JobType /\ arg[t] \in Requests /\ Clean(j)
  BY <1>1, HolderIsOwner
     DEF IInv, Working, ThreadsInPlace, HasJob, HasRequest, HeldJobs, InHand, TypeOK
<1>3. /\ UNCHANGED <<http, answer, shared, own, arg, inproc, exited>>
      /\ pc' = [pc EXCEPT ![t] = "send"] /\ fn' = fn
      /\ job' = [job EXCEPT ![j] =
           [@ EXCEPT !.http_res = Empty, !.ctx = "open", !.http_aio = arg[t]]]
  BY DEF Setup, ToPc
<1>4. /\ pc'[t] = "send" /\ OtherThreads(t)
      /\ OtherJobs(j)
      /\ job'[j] = [job[j] EXCEPT !.http_res = Empty, !.ctx = "open", !.http_aio = arg[t]]
  BY <1>2, <1>3 DEF IInv, TypeOK, OtherThreads, OtherJobs
<1>5. /\ KeepsOwner(j)
      /\ job'[j].wire = job[j].wire
      /\ job'[j].ctx = "open" /\ job'[j].http_aio = arg[t]
      /\ job'[j] \in JobType
  BY <1>2, <1>4 DEF JobType, KeepsOwner
<1>6. TypeOK'
  BY <1>2, <1>3, <1>5 DEF IInv, TypeOK, shared
<1>7. ThreadsInPlace'
  BY <1>1, <1>3, <1>4 DEF Working, ThreadsInPlace, OtherThreads,
                          HasJob, HasNoJob, HasRequest, HasNoRequest
<1>8. InHand(t)'
  BY <1>3, <1>4, <1>5 DEF InHand, Job
<1>9. Conversations'
  BY <1>1, <1>2, <1>3, <1>4, <1>5 DEF Working, Conversations, Clean, OtherJobs
<1>10. RequestsInHands'
  BY <1>1, <1>2, <1>3, <1>4, <1>5 DEF Working, RequestsInHands, OtherJobs, OtherThreads
<1> QED
  BY <1>1, <1>3, <1>4, <1>5, <1>6, <1>7, <1>8, <1>9, <1>10, ThreadWorks
     DEF IInv, Working, HasJob

\* make_res or the ctx throws: the thread keeps job and request until the job
\* is recycled.
LEMMA SetupFailsStep ==
  ASSUME IInv, NEW t \in Threads, SetupFails(t)
  PROVE  IInv'
<1> USE NullAssumption
<1> DEFINE j == own[t]
<1>1. ~exited /\ Working /\ pc[t] = "setup"
  BY DEF IInv, SetupFails
<1>2. j \in Jobs /\ job[j] \in JobType /\ arg[t] \in Requests /\ Clean(j)
  BY <1>1, HolderIsOwner
     DEF IInv, Working, ThreadsInPlace, HasJob, HasRequest, HeldJobs, InHand, TypeOK
<1>3. PICK res \in {Null, Empty} :
        /\ UNCHANGED <<http, answer, shared, own, arg, inproc, exited>>
        /\ pc' = [pc EXCEPT ![t] = "recycle"] /\ fn' = fn
        /\ job' = [job EXCEPT ![j] = [@ EXCEPT !.http_res = res]]
  BY DEF SetupFails, ToPc
<1>4. /\ pc'[t] = "recycle" /\ OtherThreads(t) /\ OtherJobs(j)
      /\ job'[j] = [job[j] EXCEPT !.http_res = res]
  BY <1>2, <1>3 DEF IInv, TypeOK, OtherThreads, OtherJobs
<1>5. /\ KeepsOwner(j) /\ job'[j] \in JobType
      /\ job'[j].wire = job[j].wire /\ job'[j].ctx = job[j].ctx
      /\ job'[j].http_aio = job[j].http_aio
  BY <1>2, <1>4 DEF JobType, KeepsOwner
<1>6. TypeOK'
  BY <1>2, <1>3, <1>5 DEF IInv, TypeOK, shared
<1>7. ThreadsInPlace'
  BY <1>1, <1>3, <1>4 DEF Working, ThreadsInPlace, OtherThreads,
                          HasJob, HasNoJob, HasRequest, HasNoRequest
<1>8. InHand(t)'
  BY <1>2, <1>3, <1>4, <1>5 DEF InHand, Job, Clean
<1>9. Conversations'
  BY <1>1, <1>2, <1>3, <1>4, <1>5 DEF Working, Conversations, OtherJobs
<1>10. RequestsInHands'
  BY <1>1, <1>2, <1>3, <1>4, <1>5
     DEF Working, RequestsInHands, OtherJobs, OtherThreads, Clean
<1> QED
  BY <1>1, <1>3, <1>4, <1>5, <1>6, <1>7, <1>8, <1>9, <1>10, ThreadWorks
     DEF IInv, Working, HasJob

\* nng::msg throws: the job alone has the request from here on.
LEMMA SendNoMemoryStep ==
  ASSUME IInv, NEW t \in Threads, SendNoMemory(t)
  PROVE  IInv'
<1> USE NullAssumption
<1> DEFINE j == own[t]
<1>1. ~exited /\ Working /\ pc[t] = "send"
  BY DEF IInv, SendNoMemory
<1>2. /\ j \in Jobs /\ arg[t] \in Requests /\ job[j].http_aio = arg[t]
  BY <1>1, HolderIsOwner
     DEF IInv, Working, ThreadsInPlace, HasJob, HasRequest, HeldJobs, InHand, Job,
         TypeOK
<1>3. /\ UNCHANGED <<http, answer, job, shared, own, inproc, exited>>
      /\ pc' = [pc EXCEPT ![t] = "fatal"] /\ fn' = fn
      /\ arg' = [arg EXCEPT ![t] = Null]
  BY DEF SendNoMemory, ToPc
<1>4. /\ pc'[t] = "fatal" /\ arg'[t] = Null /\ OtherThreads(t) /\ OtherJobs(j)
      /\ KeepsOwner(j)
  BY <1>2, <1>3 DEF IInv, TypeOK, OtherThreads, OtherJobs, KeepsOwner
<1>6. TypeOK'
  BY <1>2, <1>3 DEF IInv, TypeOK, shared
<1>7. ThreadsInPlace'
  BY <1>1, <1>3, <1>4 DEF Working, ThreadsInPlace, OtherThreads,
                          HasJob, HasNoJob, HasRequest, HasNoRequest
<1>8. InHand(t)'
  BY <1>2, <1>3, <1>4 DEF InHand, Job
<1>9. Conversations'
  BY <1>1, <1>3 DEF Working, Conversations
<1>10. RequestsInHands'
  BY <1>1, <1>2, <1>3, <1>4 DEF Working, RequestsInHands, OtherThreads
<1> QED
  BY <1>1, <1>3, <1>4, <1>6, <1>7, <1>8, <1>9, <1>10, ThreadWorks
     DEF IInv, Working, HasJob

-----------------------------------------------------------------------------
(* rest_job_cb, rest_http_fatal and rest_recycle_job                       *)

\* An operation that failed leaves the request to rest_http_fatal.
LEMMA CbFailedStep ==
  ASSUME IInv, NEW t \in Threads, CbFailed(t)
  PROVE  IInv'
<1> USE NullAssumption
<1> DEFINE j == own[t]
<1>1. ~exited /\ Working /\ pc[t] = "callback"
  BY DEF IInv, CbFailed
<1>2. j \in Jobs /\ arg[t] = Null /\ Completed(j)
  BY <1>1, HolderIsOwner
     DEF IInv, Working, ThreadsInPlace, HasJob, HasNoRequest, HeldJobs, InHand
<1>3. /\ UNCHANGED <<http, answer, job, shared, own, arg, inproc, exited>>
      /\ pc' = [pc EXCEPT ![t] = "fatal"] /\ fn' = fn
  BY DEF CbFailed, ToPc
<1>4. pc'[t] = "fatal" /\ OtherThreads(t) /\ OtherJobs(j) /\ KeepsOwner(j)
  BY <1>2, <1>3 DEF IInv, TypeOK, OtherThreads, OtherJobs, KeepsOwner
<1>6. TypeOK'
  BY <1>2, <1>3 DEF IInv, TypeOK, shared
<1>7. ThreadsInPlace'
  BY <1>1, <1>2, <1>3, <1>4 DEF Working, ThreadsInPlace, OtherThreads,
                          HasJob, HasNoJob, HasRequest, HasNoRequest
<1>8. InHand(t)'
  BY <1>2, <1>3, <1>4 DEF InHand, Job, Completed
<1>9. Conversations'
  BY <1>1, <1>3 DEF Working, Conversations
<1>10. RequestsInHands'
  BY <1>1, <1>2, <1>3, <1>4 DEF Working, RequestsInHands, OtherThreads
<1> QED
  BY <1>1, <1>3, <1>4, <1>6, <1>7, <1>8, <1>9, <1>10, ThreadWorks
     DEF IInv, Working, HasJob

\* copy_data throws: the request is still the job's when rest_http_fatal runs.
LEMMA CbCopyFailsStep ==
  ASSUME IInv, NEW t \in Threads, CbCopyFails(t)
  PROVE  IInv'
<1> USE NullAssumption
<1> DEFINE j == own[t]
<1>1. ~exited /\ Working /\ pc[t] = "callback"
  BY DEF IInv, CbCopyFails
<1>2. j \in Jobs /\ job[j] \in JobType /\ arg[t] = Null /\ Completed(j)
  BY <1>1, HolderIsOwner
     DEF IInv, Working, ThreadsInPlace, HasJob, HasNoRequest, HeldJobs, InHand
<1>3. /\ UNCHANGED <<http, answer, shared, own, arg, inproc, exited>>
      /\ pc' = [pc EXCEPT ![t] = "fatal"] /\ fn' = fn
      /\ job' = [job EXCEPT ![j] =
                   [@ EXCEPT !.msg = job[j].aio_msg, !.aio_msg = Null]]
  BY DEF CbCopyFails, ToPc, Job
<1>4. /\ pc'[t] = "fatal" /\ OtherThreads(t) /\ OtherJobs(j)
      /\ job'[j] = [job[j] EXCEPT !.msg = job[j].aio_msg, !.aio_msg = Null]
  BY <1>2, <1>3 DEF IInv, TypeOK, OtherThreads, OtherJobs
<1>5. /\ KeepsOwner(j) /\ job'[j] \in JobType
      /\ job'[j].wire = job[j].wire /\ job'[j].ctx = job[j].ctx
      /\ job'[j].http_aio = job[j].http_aio
  BY <1>2, <1>4 DEF JobType, KeepsOwner
<1>6. TypeOK'
  BY <1>2, <1>3, <1>5 DEF IInv, TypeOK, shared
<1>7. ThreadsInPlace'
  BY <1>1, <1>2, <1>3, <1>4 DEF Working, ThreadsInPlace, OtherThreads,
                          HasJob, HasNoJob, HasRequest, HasNoRequest
<1>8. InHand(t)'
  BY <1>2, <1>3, <1>4, <1>5 DEF InHand, Job, Completed
<1>9. Conversations'
  BY <1>1, <1>2, <1>3, <1>4, <1>5 DEF Working, Conversations, OtherJobs
<1>10. RequestsInHands'
  BY <1>1, <1>2, <1>3, <1>4, <1>5
     DEF Working, RequestsInHands, OtherJobs, OtherThreads
<1> QED
  BY <1>1, <1>3, <1>4, <1>5, <1>6, <1>7, <1>8, <1>9, <1>10, ThreadWorks
     DEF IInv, Working, HasJob

\* A thread that answers the request of its job: nobody else has to.
LEMMA Answers ==
  ASSUME IInv, ~exited, NEW t \in Threads, pc[t] \in {"callback", "fatal"},
         Job(t).http_aio # Null,
         http' = [http EXCEPT ![Job(t).http_aio] = "answered"],
         UNCHANGED arg, OtherThreads(t), OtherJobs(own[t]),
         job'[own[t]].http_aio = Null
  PROVE  RequestsInHands'
<1> USE NullAssumption
<1> DEFINE j == own[t]
           r == job[j].http_aio
<1>1. /\ j \in Jobs /\ Working /\ job[j] \in JobType
      /\ \A u \in Threads : Holds(u, j) => u = t
  BY HolderIsOwner DEF IInv, HasJob
<1>2. r \in Requests
  BY <1>1 DEF JobType, Job
<1>3. \A u \in Threads : arg[u] # r
  BY <1>1, <1>2 DEF Working, RequestsInHands, Holds
<1>4. \A k \in Jobs \ {j} : job[k].http_aio # r
  BY <1>1, <1>2 DEF Working, RequestsInHands
<1>5. \A q \in Requests \ {r} : http'[q] = http[q]
  BY <1>2 DEF IInv, TypeOK, Job
<1>6. \A u \in Threads : arg[u] \in Requests \cup {Null}
  BY DEF IInv, TypeOK
<1>7. \A k \in Jobs : job[k].http_aio \in Requests \cup {Null}
  BY DEF IInv, TypeOK, JobType
<1>8. ASSUME NEW u \in Threads, arg'[u] # Null
      PROVE  /\ http'[arg'[u]] = "pending"
             /\ \A v \in Threads : arg'[v] = arg'[u] => v = u
             /\ \A k \in Jobs : job'[k].http_aio = arg'[u] =>
                                  own'[u] = k /\ pc'[u] = "send"
  <2>1. arg[u] \in Requests \ {r} /\ arg'[u] = arg[u] /\ u # t
    BY <1>1, <1>3, <1>6, <1>8 DEF Working, ThreadsInPlace, HasNoRequest
  <2> QED BY <2>1, <1>1, <1>5 DEF Working, RequestsInHands, OtherJobs, OtherThreads
<1>9. ASSUME NEW k \in Jobs, job'[k].http_aio # Null
      PROVE  /\ http'[job'[k].http_aio] = "pending"
             /\ \A l \in Jobs : job'[l].http_aio = job'[k].http_aio => l = k
  BY <1>1, <1>4, <1>5, <1>7, <1>9 DEF Working, RequestsInHands, OtherJobs
<1> QED BY <1>8, <1>9 DEF RequestsInHands

\* The callback answers with what the aio holds, and lets go of the request.
LEMMA CbRepliedStep ==
  ASSUME IInv, NEW t \in Threads, CbReplied(t)
  PROVE  IInv'
<1> USE NullAssumption
<1> DEFINE j == own[t]
           r == job[j].http_aio
<1>1. ~exited /\ Working /\ pc[t] = "callback"
  BY DEF IInv, CbReplied
<1>2. j \in Jobs /\ job[j] \in JobType /\ arg[t] = Null /\ Completed(j)
  BY <1>1, HolderIsOwner
     DEF IInv, Working, ThreadsInPlace, HasJob, HasNoRequest, HeldJobs, InHand
<1>3. /\ UNCHANGED <<shared, own, arg, inproc, exited>>
      /\ pc' = [pc EXCEPT ![t] = "recycle"] /\ fn' = fn
      /\ job' = [job EXCEPT ![j] =
                   [@ EXCEPT !.msg = job[j].aio_msg, !.aio_msg = Null,
                             !.http_res = Null, !.http_aio = Null]]
      /\ http' = [http EXCEPT ![r] = "answered"]
      /\ answer' = [answer EXCEPT ![r] = job[j].aio_msg]
  BY DEF CbReplied, ToPc, Job, Finish
<1>4. /\ pc'[t] = "recycle" /\ OtherThreads(t) /\ OtherJobs(j)
      /\ job'[j] = [job[j] EXCEPT !.msg = job[j].aio_msg, !.aio_msg = Null,
                                  !.http_res = Null, !.http_aio = Null]
  BY <1>2, <1>3 DEF IInv, TypeOK, OtherThreads, OtherJobs
<1>5. /\ KeepsOwner(j) /\ job'[j] \in JobType
      /\ job'[j].wire = job[j].wire /\ job'[j].ctx = job[j].ctx
      /\ job'[j].http_aio = Null
  BY <1>2, <1>4 DEF JobType, KeepsOwner
<1>6. TypeOK'
  <2>1. job[j].aio_msg \in Data \cup {Null} /\ r \in Requests
    BY <1>2 DEF JobType, Completed
  <2> QED BY <2>1, <1>2, <1>3, <1>5 DEF IInv, TypeOK, shared
<1>7. ThreadsInPlace'
  BY <1>1, <1>2, <1>3, <1>4 DEF Working, ThreadsInPlace, OtherThreads,
                          HasJob, HasNoJob, HasRequest, HasNoRequest
<1>8. InHand(t)'
  BY <1>2, <1>3, <1>4, <1>5 DEF InHand, Job
<1>9. Conversations'
  BY <1>1, <1>2, <1>3, <1>4, <1>5 DEF Working, Conversations, OtherJobs
<1>10. RequestsInHands'
  BY <1>1, <1>2, <1>3, <1>4, <1>5, Answers DEF Completed, Job
<1> QED
  BY <1>1, <1>3, <1>4, <1>5, <1>6, <1>7, <1>8, <1>9, <1>10, ThreadWorks
     DEF IInv, Working, HasJob

\* rest_http_fatal answers with a failure, and lets go of the request.
LEMMA FatalStep ==
  ASSUME IInv, NEW t \in Threads, rest_http_fatal(t)
  PROVE  IInv'
<1> USE NullAssumption
<1> DEFINE j == own[t]
           r == job[j].http_aio
<1>1. ~exited /\ Working /\ pc[t] = "fatal"
  BY DEF IInv, rest_http_fatal
<1>2. j \in Jobs /\ job[j] \in JobType /\ arg[t] = Null /\ r # Null
  BY <1>1, HolderIsOwner
     DEF IInv, Working, ThreadsInPlace, HasJob, HasNoRequest, HeldJobs, InHand, Job
<1>3. /\ UNCHANGED <<shared, own, arg, inproc, exited>>
      /\ pc' = [pc EXCEPT ![t] = "recycle"] /\ fn' = fn
      /\ job' = [job EXCEPT ![j] = [@ EXCEPT !.http_aio = Null, !.http_res = Null]]
      /\ http' = [http EXCEPT ![r] = "answered"]
      /\ answer' = [answer EXCEPT ![r] = Failed]
  BY DEF rest_http_fatal, ToPc, Job, Finish
<1>4. /\ pc'[t] = "recycle" /\ OtherThreads(t) /\ OtherJobs(j)
      /\ job'[j] = [job[j] EXCEPT !.http_aio = Null, !.http_res = Null]
  BY <1>2, <1>3 DEF IInv, TypeOK, OtherThreads, OtherJobs
<1>5. /\ KeepsOwner(j) /\ job'[j] \in JobType
      /\ job'[j].wire = job[j].wire /\ job'[j].ctx = job[j].ctx
      /\ job'[j].http_aio = Null
  BY <1>2, <1>4 DEF JobType, KeepsOwner
<1>6. TypeOK'
  <2>1. r \in Requests
    BY <1>2 DEF JobType
  <2> QED BY <2>1, <1>2, <1>3, <1>5 DEF IInv, TypeOK, shared
<1>7. ThreadsInPlace'
  BY <1>1, <1>2, <1>3, <1>4 DEF Working, ThreadsInPlace, OtherThreads,
                          HasJob, HasNoJob, HasRequest, HasNoRequest
<1>8. InHand(t)'
  BY <1>2, <1>3, <1>4, <1>5 DEF InHand, Job
<1>9. Conversations'
  BY <1>1, <1>2, <1>3, <1>4, <1>5 DEF Working, Conversations, OtherJobs
<1>10. RequestsInHands'
  BY <1>1, <1>2, <1>3, <1>4, <1>5, Answers DEF Job
<1> QED
  BY <1>1, <1>3, <1>4, <1>5, <1>6, <1>7, <1>8, <1>9, <1>10, ThreadWorks
     DEF IInv, Working, HasJob

\* rest_recycle_job cleans the job and ends its conversation, also one that
\* inproc_server is still working on.
LEMMA RecycleStep ==
  ASSUME IInv, NEW t \in Threads, rest_recycle_job(t)
  PROVE  IInv'
<1> USE NullAssumption
<1> DEFINE j == own[t]
<1>1. ~exited /\ Working /\ pc[t] = "recycle"
  BY DEF IInv, rest_recycle_job
<1>2. j \in Jobs /\ job[j] \in JobType /\ job[j].http_aio = Null
  BY <1>1, HolderIsOwner
     DEF IInv, Working, ThreadsInPlace, HasJob, HeldJobs, InHand, Job
<1>3. /\ UNCHANGED <<http, answer, shared, own, arg, exited>>
      /\ pc' = [pc EXCEPT ![t] = "put_lock"] /\ fn' = fn
      /\ job' = [job EXCEPT ![j] = [@ EXCEPT !.http_res = Null, !.msg = Null,
                                             !.ctx = "null", !.wire = Null]]
      /\ inproc' = IF inproc.job = j THEN [inproc EXCEPT !.job = Null] ELSE inproc
  BY DEF rest_recycle_job, ToPc
<1>4. /\ pc'[t] = "put_lock" /\ OtherThreads(t) /\ OtherJobs(j)
      /\ job'[j] = [job[j] EXCEPT !.http_res = Null, !.msg = Null,
                                  !.ctx = "null", !.wire = Null]
  BY <1>2, <1>3 DEF IInv, TypeOK, OtherThreads, OtherJobs
<1>5. /\ KeepsOwner(j) /\ job'[j] \in JobType
      /\ job'[j].ctx = "null" /\ job'[j].http_aio = Null
      /\ job'[j].http_res = Null /\ job'[j].msg = Null
  BY <1>2, <1>4 DEF JobType, KeepsOwner
<1>6. /\ inproc'.job # j /\ inproc'.data = inproc.data
      /\ inproc'.job # Null => inproc'.job = inproc.job
      /\ inproc' \in [job : Jobs \cup {Null}, data : Data \cup {Null}]
  BY <1>2, <1>3 DEF IInv, TypeOK
<1>7. TypeOK'
  BY <1>2, <1>3, <1>5, <1>6 DEF IInv, TypeOK, shared
<1>8. ThreadsInPlace'
  BY <1>1, <1>2, <1>3, <1>4 DEF Working, ThreadsInPlace, OtherThreads,
                          HasJob, HasNoJob, HasRequest, HasNoRequest
<1>9. InHand(t)'
  BY <1>2, <1>3, <1>4, <1>5 DEF InHand, Clean
<1>10. Conversations'
  <2>1. ASSUME NEW k \in Jobs \ {j}
        PROVE  job'[k] = job[k] /\ (inproc'.job = k => inproc.job = k)
    BY <1>4, <1>6 DEF OtherJobs
  <2> QED BY <2>1, <1>1, <1>5, <1>6 DEF Working, Conversations
<1>11. RequestsInHands'
  BY <1>1, <1>2, <1>3, <1>4, <1>5
     DEF Working, RequestsInHands, OtherJobs, OtherThreads
<1> QED
  BY <1>1, <1>3, <1>4, <1>5, <1>7, <1>8, <1>9, <1>10, <1>11, ThreadWorks
     DEF IInv, Working, HasJob

-----------------------------------------------------------------------------
(* nng: the operations of a job's aio and the conversation of its context. *)

\* nng changes what is in a job that it has armed, or that has asked and is not
\* told of it yet: owners, threads and requests stay as they are.
LEMMA NngWorks ==
  ASSUME IInv, ~exited, NEW j \in Jobs, OtherJobs(j),
         UNCHANGED <<http, shared, thread>>,
         job'[j].memory = job[j].memory, job'[j].next = job[j].next,
         job'[j].http_aio = job[j].http_aio, Armed(j)' <=> Armed(j),
         \/ Armed(j)
         \/ /\ job[j].ctx = "asked"
            /\ job'[j].state = job[j].state /\ job'[j].result = job[j].result
            /\ job'[j].aio_msg = job[j].aio_msg
  PROVE  /\ Ownership' /\ FreeJobsReset'
         /\ ThreadsInPlace' /\ LockIsHeld' /\ LinksInPlace'
         /\ HeldJobs' /\ RequestsInHands'
         /\ Live(j)' /\ (WithNng(j)' => ArmedJobs')
<1> USE NullAssumption DEF thread, shared
<1>1. \A k \in Jobs : /\ job'[k].memory = job[k].memory
                      /\ job'[k].next = job[k].next
                      /\ job'[k].http_aio = job[k].http_aio
                      /\ Armed(k)' <=> Armed(k)
  BY DEF OtherJobs, Armed
<1>2. Ownership'
  BY <1>1 DEF IInv, Ownership, Owned, NotTwice, Live, Linked, Holds
<1>3. FreeJobsReset'
  <2>1. ~OnFreelist(j)
    BY DEF IInv, Ownership, NotTwice, OnFreelist, Linked, FreeJobsReset
  <2> QED BY <2>1, <1>1 DEF IInv, FreeJobsReset, OnFreelist, OtherJobs
<1>4. ThreadsInPlace' /\ LockIsHeld'
  BY DEF IInv, Working, ThreadsInPlace, LockIsHeld
<1>5. LinksInPlace'
  <2>1. \A t \in Threads : own[t] \in Jobs \cup {Null}
    BY DEF IInv, TypeOK
  <2> QED BY <2>1, <1>1 DEF IInv, Working, LinksInPlace, Unlinked, Job, Live
<1>6. ASSUME NEW t \in Threads PROVE InHand(t)'
  <2>1. CASE own[t] = j /\ pc[t] # "disown"
    <3>1. ~Armed(j)
      BY <2>1 DEF IInv, Ownership, NotTwice, Holds
    <3> QED BY <2>1, <3>1, <1>1 DEF IInv, Working, HeldJobs, InHand, Clean,
                                    Completed, Job
  <2>2. CASE own[t] \in Jobs \ {j}
    BY <2>2 DEF IInv, Working, HeldJobs, InHand, Clean, Completed, Job, OtherJobs
  <2>3. CASE own[t] = Null \/ pc[t] = "disown"
    BY <2>3 DEF IInv, Working, ThreadsInPlace, InHand, HasJob
  <2> QED BY <2>1, <2>2, <2>3 DEF IInv, TypeOK
<1>7. RequestsInHands'
  BY <1>1 DEF IInv, Working, RequestsInHands
<1>8. Live(j)'
  BY <1>1 DEF IInv, Ownership, Owned, Live, Working, ArmedJobs, WithNng, Clean
<1>9. WithNng(j)' => ArmedJobs'
  BY DEF IInv, Working, ArmedJobs, WithNng, Live, Clean, Completed, OtherJobs
<1> QED BY <1>2, <1>3, <1>4, <1>5, <1>6, <1>7, <1>8, <1>9 DEF HeldJobs

\* The message of a job is on its way: it is about the job's own request.
LEMMA SendDoneStep ==
  ASSUME IInv, NEW j \in Jobs, SendDone(j)
  PROVE  IInv'
<1> USE NullAssumption
<1>1. ~exited /\ Working /\ job[j].aio = "send" /\ job[j] \in JobType
  BY DEF IInv, SendDone, TypeOK
<1>2. /\ UNCHANGED <<http, answer, shared, thread, inproc, exited>>
      /\ job' = [job EXCEPT ![j] = [@ EXCEPT !.aio = "done", !.result = "success",
                                    !.ctx = "asked", !.wire = job[j].aio_msg]]
  BY DEF SendDone
<1>3. /\ OtherJobs(j)
      /\ job'[j] = [job[j] EXCEPT !.aio = "done", !.result = "success",
                                  !.ctx = "asked", !.wire = job[j].aio_msg]
  BY <1>2 DEF IInv, TypeOK, OtherJobs
<1>4. /\ job'[j] \in JobType
      /\ job'[j].memory = job[j].memory /\ job'[j].next = job[j].next
      /\ job'[j].http_aio = job[j].http_aio /\ job'[j].state = job[j].state
      /\ job'[j].aio = "done" /\ job'[j].ctx = "asked"
      /\ job'[j].wire = job[j].aio_msg
  <2>1. job'[j] \in JobType
    BY <1>1, <1>3 DEF JobType
  <2> QED BY <1>1, <1>3, <2>1 DEF JobType
<1>5. TypeOK'
  BY <1>2, <1>4 DEF IInv, TypeOK, shared, thread
<1>6. job[j].http_aio # Null /\ job[j].state = "SEND_REQ"
      /\ job[j].ctx = "open" /\ job[j].aio_msg = Sent(job[j].http_aio)
  BY <1>1 DEF Working, ArmedJobs, WithNng
<1>7. Live(j)' => WithNng(j)'
  BY <1>4, <1>6 DEF WithNng, Completed
<1>8. Conversations'
  <2>1. inproc.job # j
    BY <1>1, <1>6 DEF Working, Conversations
  <2> QED BY <2>1, <1>1, <1>2, <1>3, <1>4, <1>6 DEF Working, Conversations, OtherJobs
<1> QED
  BY <1>1, <1>2, <1>3, <1>4, <1>5, <1>7, <1>8, NngWorks DEF IInv, Working, Armed

\* Send and receive fail alike.
LEMMA OperationFails ==
  ASSUME IInv, NEW j \in Jobs, SendFails(j) \/ RecvFails(j)
  PROVE  IInv'
<1> USE NullAssumption
<1>1. ~exited /\ Working /\ (job[j].aio = "send" \/ job[j].aio = "recv")
  BY DEF IInv, SendFails, RecvFails
<1>0. job[j] \in JobType
  BY DEF IInv, TypeOK
<1>2. /\ UNCHANGED <<http, answer, shared, thread, inproc, exited>>
      /\ job' = [job EXCEPT ![j] = [@ EXCEPT !.aio = "done", !.result = "error"]]
  BY DEF SendFails, RecvFails
<1>3. /\ OtherJobs(j)
      /\ job'[j] = [job[j] EXCEPT !.aio = "done", !.result = "error"]
  BY <1>2 DEF IInv, TypeOK, OtherJobs
<1>4. /\ job'[j].memory = job[j].memory /\ job'[j].next = job[j].next
      /\ job'[j].http_aio = job[j].http_aio /\ job'[j].result = "error"
      /\ job'[j].aio = "done" /\ job'[j].ctx = job[j].ctx
      /\ job'[j].wire = job[j].wire
  BY <1>0, <1>3 DEF JobType
<1>9. job'[j] \in JobType
  <2> DEFINE d == [job[j] EXCEPT !.aio = "done"]
  <2>1. d \in JobType
    BY <1>0 DEF JobType
  <2> HIDE DEF d
  <2>2. [d EXCEPT !.result = "error"] \in JobType
    BY <2>1 DEF JobType
  <2> QED BY <1>3, <2>2 DEF d
<1>5. TypeOK'
  BY <1>2, <1>9 DEF IInv, TypeOK, shared, thread
<1>6. Live(j)' => WithNng(j)'
  BY <1>1, <1>4 DEF Working, ArmedJobs, WithNng, Completed
<1>7. Conversations'
  BY <1>1, <1>2, <1>3, <1>4 DEF Working, Conversations, OtherJobs
<1> QED
  BY <1>1, <1>2, <1>3, <1>4, <1>5, <1>6, <1>7, NngWorks DEF IInv, Working, Armed

\* The reply that reaches the aio is the rotated body of the job's request.
LEMMA RecvDoneStep ==
  ASSUME IInv, NEW j \in Jobs, RecvDone(j)
  PROVE  IInv'
<1> USE NullAssumption
<1>1. /\ ~exited /\ Working /\ job[j].aio = "recv" /\ job[j].ctx = "replied"
      /\ job[j] \in JobType
  BY DEF IInv, RecvDone, TypeOK
<1>2. /\ UNCHANGED <<http, answer, shared, thread, inproc, exited>>
      /\ job' = [job EXCEPT ![j] = [@ EXCEPT !.aio = "done", !.result = "success",
                   !.ctx = "open", !.wire = Null, !.aio_msg = job[j].wire]]
  BY DEF RecvDone
<1>3. /\ OtherJobs(j)
      /\ job'[j] = [job[j] EXCEPT !.aio = "done", !.result = "success",
                      !.ctx = "open", !.wire = Null, !.aio_msg = job[j].wire]
  BY <1>2 DEF IInv, TypeOK, OtherJobs
<1>4. /\ job'[j] \in JobType
      /\ job'[j].memory = job[j].memory /\ job'[j].next = job[j].next
      /\ job'[j].http_aio = job[j].http_aio
      /\ job'[j].aio = "done" /\ job'[j].ctx = "open"
      /\ job'[j].wire = Null /\ job'[j].aio_msg = job[j].wire
  BY <1>1, <1>3 DEF JobType
<1>5. TypeOK'
  BY <1>2, <1>4 DEF IInv, TypeOK, shared, thread
<1>6. job[j].http_aio # Null /\ job[j].wire = Replied(job[j].http_aio)
  BY <1>1 DEF Working, ArmedJobs, WithNng, Conversations
<1>7. Live(j)' => WithNng(j)'
  BY <1>4, <1>6 DEF WithNng, Completed
<1>8. Conversations'
  BY <1>1, <1>2, <1>3, <1>4 DEF Working, Conversations, OtherJobs
<1> QED
  BY <1>1, <1>2, <1>3, <1>4, <1>5, <1>7, <1>8, NngWorks DEF IInv, Working, Armed

\* inproc_server takes the message of one context.
LEMMA InprocRecvStep ==
  ASSUME IInv, NEW j \in Jobs, InprocRecv(j)
  PROVE  IInv'
<1> USE NullAssumption
<1>1. /\ ~exited /\ Working /\ inproc.data = Null /\ job[j] \in JobType
      /\ job[j].ctx = "asked" /\ job[j].wire \in Data
  BY DEF IInv, InprocRecv, TypeOK, JobType
<1>2. /\ UNCHANGED <<http, answer, shared, thread, exited>>
      /\ inproc' = [job |-> j, data |-> job[j].wire]
      /\ job' = [job EXCEPT ![j] = [@ EXCEPT !.wire = Null]]
  BY DEF InprocRecv
<1>3. OtherJobs(j) /\ job'[j] = [job[j] EXCEPT !.wire = Null]
  BY <1>2 DEF IInv, TypeOK, OtherJobs
<1>4. /\ job'[j] \in JobType
      /\ job'[j].memory = job[j].memory /\ job'[j].next = job[j].next
      /\ job'[j].http_aio = job[j].http_aio
      /\ job'[j].http_res = job[j].http_res /\ job'[j].msg = job[j].msg
      /\ job'[j].state = job[j].state /\ job'[j].result = job[j].result
      /\ job'[j].aio = job[j].aio /\ job'[j].ctx = job[j].ctx
      /\ job'[j].wire = Null /\ job'[j].aio_msg = job[j].aio_msg
  BY <1>1, <1>3 DEF JobType
<1>5. TypeOK'
  BY <1>1, <1>2, <1>4 DEF IInv, TypeOK, shared, thread
<1>6. Live(j)' => WithNng(j)'
  BY <1>1, <1>4 DEF Working, ArmedJobs, WithNng, Completed
<1>7. Conversations'
  <2>1. /\ inproc'.job = j /\ inproc'.data = job[j].wire /\ inproc'.data # Null
        /\ \A k \in Jobs \ {j} : inproc'.job # k
    BY <1>1, <1>2
  <2>2. job[j].http_aio # Null => job[j].wire = Sent(job[j].http_aio)
    BY <1>1 DEF Working, Conversations
  <2>3. \A k \in Jobs \ {j} : job'[k] = job[k]
    BY <1>3 DEF OtherJobs
  <2> QED BY <2>1, <2>2, <2>3, <1>1, <1>4 DEF Working, Conversations
<1> QED
  BY <1>1, <1>2, <1>3, <1>4, <1>5, <1>6, <1>7, NngWorks DEF IInv, Working, Armed

\* inproc_server rotates what it received.
LEMMA Rotates ==
  ASSUME NEW r \in Requests
  PROVE  Rot13(Sent(r)) = Replied(r)
<1> DEFINE d == [req |-> r, rot |-> FALSE]
           e == [d EXCEPT !.rot = ~@]
<1>1. d.req = r /\ d.rot = FALSE /\ DOMAIN d = {"req", "rot"}
  OBVIOUS
<1>2. DOMAIN e = {"req", "rot"} /\ e.req = d.req /\ e.rot = ~d.rot
  BY <1>1
<1>3. e = [x \in {"req", "rot"} |-> e[x]]
  BY <1>2
<1> HIDE DEF d, e
<1>4. e = [req |-> r, rot |-> TRUE]
  BY <1>1, <1>2, <1>3
<1> QED BY <1>4 DEF Rot13, Sent, Replied, d, e

\* The reply reaches the context that asked, or nobody when it was closed.
LEMMA InprocSendStep ==
  ASSUME IInv, InprocSend
  PROVE  IInv'
<1> USE NullAssumption
<1>1. ~exited /\ Working /\ inproc.data \in Data /\ inproc.job \in Jobs \cup {Null}
  BY DEF IInv, InprocSend, TypeOK
<1>2. /\ UNCHANGED <<http, answer, shared, thread, exited>>
      /\ inproc' = [job |-> Null, data |-> Null]
  BY DEF InprocSend
<1>3. Rot13(inproc.data) \in Data
  BY <1>1 DEF Rot13, Data
<1>4. CASE inproc.job = Null
  <2>1. job' = job
    BY <1>4 DEF InprocSend
  <2>2. TypeOK' /\ Ownership' /\ FreeJobsReset'
    BY <2>1, <1>2 DEF IInv, TypeOK, Ownership, Owned, NotTwice, Live, Linked,
                      Holds, Armed, FreeJobsReset, OnFreelist, shared, thread
  <2>3. /\ ThreadsInPlace' /\ LockIsHeld' /\ LinksInPlace'
        /\ ArmedJobs' /\ RequestsInHands'
    BY <2>1, <1>1, <1>2 DEF Working, ThreadsInPlace, LockIsHeld, LinksInPlace,
         Unlinked, Job, Live, Armed, ArmedJobs, WithNng, Clean, Completed, RequestsInHands,
         shared, thread
  <2>4. HeldJobs'
    BY <2>1, <1>1, <1>2 DEF Working, HeldJobs, InHand, Clean, Completed, Job, thread
  <2>5. Conversations'
    BY <2>1, <1>1, <1>2 DEF Working, Conversations
  <2> QED BY <2>2, <2>3, <2>4, <2>5 DEF IInv, Working
<1>5. CASE inproc.job \in Jobs
  <2>0. PICK j \in Jobs : inproc.job = j
    BY <1>5
  <2>1. /\ job[j] \in JobType /\ job[j].ctx = "asked"
        /\ job[j].http_aio # Null => inproc.data = Sent(job[j].http_aio)
    BY <1>1, <2>0 DEF IInv, TypeOK, Working, Conversations
  <2>2. job' = [job EXCEPT ![j] =
                  [@ EXCEPT !.ctx = "replied", !.wire = Rot13(inproc.data)]]
    BY <2>0 DEF InprocSend
  <2>3. /\ OtherJobs(j)
        /\ job'[j] = [job[j] EXCEPT !.ctx = "replied", !.wire = Rot13(inproc.data)]
    BY <2>2, <2>0 DEF IInv, TypeOK, OtherJobs
  <2>4. /\ job'[j] \in JobType
        /\ job'[j].memory = job[j].memory /\ job'[j].next = job[j].next
        /\ job'[j].http_aio = job[j].http_aio
        /\ job'[j].state = job[j].state /\ job'[j].result = job[j].result
        /\ job'[j].aio = job[j].aio /\ job'[j].ctx = "replied"
        /\ job'[j].wire = Rot13(inproc.data) /\ job'[j].aio_msg = job[j].aio_msg
    BY <2>1, <2>3, <1>3 DEF JobType
  <2>5. TypeOK'
    BY <2>2, <2>4, <1>2, <2>0 DEF IInv, TypeOK, shared, thread
  <2>6. Live(j)' => WithNng(j)'
    <3>1. WithNng(j)
      BY <1>1, <2>0 DEF Working, ArmedJobs
    <3> QED BY <3>1, <2>1, <2>4 DEF WithNng, Completed
  <2>7. Conversations'
    <3>1. \A k \in Jobs : inproc'.job # k
      BY <1>2
    <3>2. job[j].http_aio # Null => job'[j].wire = Replied(job[j].http_aio)
      BY <2>1, <2>4, Rotates DEF JobType
    <3>3. \A k \in Jobs \ {j} : job'[k] = job[k]
      BY <2>3 DEF OtherJobs
    <3> QED BY <3>1, <3>2, <3>3, <2>4, <1>1, <2>0 DEF Working, Conversations
  <2>8. /\ Ownership' /\ FreeJobsReset'
        /\ ThreadsInPlace' /\ LockIsHeld' /\ LinksInPlace'
        /\ HeldJobs' /\ RequestsInHands'
        /\ Live(j)' /\ (WithNng(j)' => ArmedJobs')
    <3>1. Armed(j)' <=> Armed(j)
      BY <2>4 DEF Armed
    <3>2. UNCHANGED <<http, shared, thread>> /\ ~exited
      BY <1>1, <1>2
    <3> QED BY <2>1, <2>3, <2>4, <3>1, <3>2, NngWorks
  <2> QED BY <2>5, <2>6, <2>7, <2>8 DEF IInv, Working
<1> QED BY <1>1, <1>4, <1>5

-----------------------------------------------------------------------------
(* The steps that move a job from one owner to another.                    *)

\* The owner of job l is who it was.
SameOwner(l) ==
  /\ (job_freelist = l)' <=> (job_freelist = l)
  /\ \A k \in Jobs : Linked(k, l)' <=> Linked(k, l)
  /\ \A t \in Threads : Holds(t, l)' <=> Holds(t, l)
  /\ Armed(l)' <=> Armed(l)
  /\ Live(l)' <=> Live(l)

\* A step that moves one job leaves the jobs with one owner each if that job
\* has one afterwards.
LEMMA OneJobMoves ==
  ASSUME Ownership, NEW j \in Jobs, \A l \in Jobs \ {j} : SameOwner(l),
         Live(j)' <=> Owned(j)', NotTwice(j)'
  PROVE  Ownership'
<1>1. ASSUME NEW l \in Jobs \ {j}
      PROVE  (Live(l)' <=> Owned(l)') /\ NotTwice(l)'
  <2>1. SameOwner(l) /\ (Live(l) <=> Owned(l)) /\ NotTwice(l)
    BY DEF Ownership
  <2> QED BY <2>1 DEF SameOwner, Owned, NotTwice
<1> QED BY <1>1 DEF Ownership

\* Threads other than t see no difference in what they hold.
LEMMA OtherHands ==
  ASSUME IInv, ~exited, NEW t \in Threads, OtherThreads(t),
         \A u \in Threads \ {t}, k \in Jobs : Holds(u, k) => job'[k] = job[k]
  PROVE  \A u \in Threads \ {t} : InHand(u)' /\ Unlinked(u)'
<1> USE NullAssumption
<1> SUFFICES ASSUME NEW u \in Threads \ {t}
             PROVE  InHand(u)' /\ Unlinked(u)'
  OBVIOUS
<1>1. pc'[u] = pc[u] /\ own'[u] = own[u] /\ arg'[u] = arg[u]
  BY DEF OtherThreads
<1>2. CASE own[u] \in Jobs /\ pc[u] # "disown"
  <2>1. job'[own[u]] = job[own[u]]
    BY <1>2 DEF Holds
  <2> QED BY <1>1, <2>1 DEF IInv, Working, HeldJobs, LinksInPlace, Unlinked,
                            InHand, Clean, Completed, Job
<1>3. CASE own[u] = Null \/ pc[u] = "disown"
  BY <1>1, <1>3 DEF IInv, Working, ThreadsInPlace, InHand, Unlinked, HasJob
<1> QED BY <1>2, <1>3 DEF IInv, TypeOK

\* A thread without a job, or done with it, changes no owner.
LEMMA ThreadAlone ==
  ASSUME IInv, ~exited, NEW t \in Threads, OtherThreads(t),
         UNCHANGED <<job, shared>>, own'[t] = Null,
         pc[t] \in HasNoJob \cup {"disown"}, pc'[t] \in HasNoJob
  PROVE  /\ Ownership' /\ FreeJobsReset' /\ LockIsHeld' /\ LinksInPlace'
         /\ HeldJobs' /\ ArmedJobs'
<1> USE NullAssumption DEF shared
<1>1. \A u \in Threads, k \in Jobs : Holds(u, k)' <=> Holds(u, k)
  BY DEF OtherThreads, Holds, IInv, Working, ThreadsInPlace
<1>2. Ownership' /\ FreeJobsReset'
  BY <1>1 DEF IInv, Ownership, Owned, NotTwice, Live, Linked, Armed,
              FreeJobsReset, OnFreelist
<1>3. LockIsHeld'
  BY DEF IInv, Working, LockIsHeld, Locked, HasNoJob, OtherThreads
<1>4. InHand(t)' /\ Unlinked(t)'
  BY DEF InHand, Unlinked, HasNoJob
<1>5. \A u \in Threads \ {t} : InHand(u)' /\ Unlinked(u)'
  BY OtherHands
<1>6. LinksInPlace' /\ HeldJobs'
  BY <1>4, <1>5 DEF IInv, Working, LinksInPlace, HeldJobs, Live, Armed
<1>7. ArmedJobs'
  BY DEF IInv, Working, ArmedJobs, WithNng, Live, Clean, Completed
<1> QED BY <1>2, <1>3, <1>6, <1>7

\* A request that nng hands to rest_handle is in nobody else's hands.
LEMMA HandleStep ==
  ASSUME IInv, NEW t \in Threads, NEW r \in Requests, rest_handle(t, r)
  PROVE  IInv'
<1> USE NullAssumption
<1>1. ~exited /\ Working /\ pc[t] = "idle" /\ http[r] = "idle" /\ own[t] = Null
  BY DEF IInv, rest_handle, Working, ThreadsInPlace, HasNoJob
<1>2. /\ UNCHANGED <<answer, job, shared, own, inproc, exited>>
      /\ http' = [http EXCEPT ![r] = "pending"]
      /\ arg' = [arg EXCEPT ![t] = r]
      /\ pc' = [pc EXCEPT ![t] = "get_lock"]
      /\ fn' = [fn EXCEPT ![t] = "rest_handle"]
  BY DEF rest_handle
<1>3. /\ pc'[t] = "get_lock" /\ own'[t] = Null /\ arg'[t] = r /\ OtherThreads(t)
      /\ http'[r] = "pending" /\ \A q \in Requests \ {r} : http'[q] = http[q]
  BY <1>1, <1>2 DEF IInv, TypeOK, OtherThreads
<1>4. TypeOK'
  BY <1>2 DEF IInv, TypeOK, shared
<1>5. ThreadsInPlace'
  BY <1>1, <1>3 DEF Working, ThreadsInPlace, OtherThreads,
                    HasJob, HasNoJob, HasRequest, HasNoRequest
<1>6. Conversations'
  BY <1>1, <1>2 DEF Working, Conversations
<1>7. RequestsInHands'
  <2>1. /\ \A u \in Threads : arg[u] \in Requests \cup {Null} /\ arg[u] # r
        /\ \A k \in Jobs : job[k].http_aio \in Requests \cup {Null}
        /\ \A k \in Jobs : job[k].http_aio # r
    BY <1>1 DEF IInv, TypeOK, JobType, Working, RequestsInHands
  <2> QED BY <2>1, <1>1, <1>2, <1>3 DEF Working, RequestsInHands, OtherThreads
<1> QED
  BY <1>1, <1>2, <1>3, <1>4, <1>5, <1>6, <1>7, ThreadAlone
     DEF IInv, Working, HasNoJob

\* The request that failed is finished after its job went to the freelist.
LEMMA FinishErrorStep ==
  ASSUME IInv, NEW t \in Threads, FinishError(t)
  PROVE  IInv'
<1> USE NullAssumption
<1>1. /\ ~exited /\ Working /\ pc[t] = "finish_error" /\ own[t] = Null
      /\ arg[t] \in Requests
  BY DEF IInv, FinishError, Working, ThreadsInPlace, HasNoJob, HasRequest, TypeOK
<1> DEFINE r == arg[t]
<1>2. /\ UNCHANGED <<job, shared, own, inproc, exited>>
      /\ http' = [http EXCEPT ![r] = "answered"]
      /\ answer' = [answer EXCEPT ![r] = Failed]
      /\ arg' = [arg EXCEPT ![t] = Null]
      /\ pc' = [pc EXCEPT ![t] = "idle"]
      /\ fn' = [fn EXCEPT ![t] = "none"]
  BY DEF FinishError, Finish, Return
<1>3. /\ pc'[t] = "idle" /\ own'[t] = Null /\ arg'[t] = Null /\ OtherThreads(t)
      /\ \A q \in Requests \ {r} : http'[q] = http[q]
  BY <1>1, <1>2 DEF IInv, TypeOK, OtherThreads
<1>4. TypeOK'
  BY <1>1, <1>2 DEF IInv, TypeOK, shared
<1>5. ThreadsInPlace'
  BY <1>1, <1>3 DEF Working, ThreadsInPlace, OtherThreads,
                    HasJob, HasNoJob, HasRequest, HasNoRequest
<1>6. Conversations'
  BY <1>1, <1>2 DEF Working, Conversations
<1>7. RequestsInHands'
  <2>1. /\ \A u \in Threads \ {t} : arg[u] \in Requests \cup {Null} /\ arg[u] # r
        /\ \A k \in Jobs : job[k].http_aio \in Requests \cup {Null}
        /\ \A k \in Jobs : job[k].http_aio # r
    BY <1>1 DEF IInv, TypeOK, JobType, Working, RequestsInHands
  <2> QED BY <2>1, <1>1, <1>2, <1>3 DEF Working, RequestsInHands, OtherThreads
<1> QED
  BY <1>1, <1>2, <1>3, <1>4, <1>5, <1>6, <1>7, ThreadAlone
     DEF IInv, Working, HasNoJob

\* job.release(): the thread gave the job away when it armed the aio.
LEMMA DisownStep ==
  ASSUME IInv, NEW t \in Threads, Disown(t)
  PROVE  IInv'
<1> USE NullAssumption
<1>1. ~exited /\ Working /\ pc[t] = "disown" /\ arg[t] = Null
  BY DEF IInv, Disown, Working, ThreadsInPlace, HasNoRequest
<1>2. /\ UNCHANGED <<http, answer, job, shared, arg, inproc, exited>>
      /\ own' = [own EXCEPT ![t] = Null]
      /\ pc' = [pc EXCEPT ![t] = "idle"]
      /\ fn' = [fn EXCEPT ![t] = "none"]
  BY DEF Disown, Return
<1>3. pc'[t] = "idle" /\ own'[t] = Null /\ OtherThreads(t)
  BY <1>2 DEF IInv, TypeOK, OtherThreads
<1>4. TypeOK'
  BY <1>2 DEF IInv, TypeOK, shared
<1>5. ThreadsInPlace'
  BY <1>1, <1>2, <1>3 DEF Working, ThreadsInPlace, OtherThreads,
                          HasJob, HasNoJob, HasRequest, HasNoRequest
<1>6. Conversations'
  BY <1>1, <1>2 DEF Working, Conversations
<1>7. RequestsInHands'
  BY <1>1, <1>2, <1>3 DEF Working, RequestsInHands, OtherThreads
<1> QED
  BY <1>1, <1>2, <1>3, <1>4, <1>5, <1>6, <1>7, ThreadAlone
     DEF IInv, Working, HasNoJob

\* The head of the freelist moves into the unique_ptr of the lock's holder.
LEMMA GetLockStep ==
  ASSUME IInv, NEW t \in Threads, GetLock(t)
  PROVE  IInv'
<1> USE NullAssumption
<1>1. /\ ~exited /\ Working /\ pc[t] = "get_lock" /\ job_lock = Null
      /\ own[t] = Null /\ job_freelist \in Jobs \cup {Null}
  BY DEF IInv, GetLock, Working, ThreadsInPlace, HasNoJob, TypeOK
<1>2. /\ UNCHANGED <<http, answer, job, arg, inproc, exited, fn>>
      /\ job_lock' = t /\ job_freelist' = Null
      /\ own' = [own EXCEPT ![t] = job_freelist]
      /\ pc' = [pc EXCEPT ![t] = "get_pop"]
  BY DEF GetLock, ToPc
<1>3. pc'[t] = "get_pop" /\ own'[t] = job_freelist /\ OtherThreads(t)
  BY <1>2 DEF IInv, TypeOK, OtherThreads
<1>4. TypeOK'
  BY <1>1, <1>2 DEF IInv, TypeOK
<1>5. ThreadsInPlace'
  BY <1>1, <1>2, <1>3 DEF Working, ThreadsInPlace, OtherThreads,
                          HasJob, HasNoJob, HasRequest, HasNoRequest
<1>6. \A u \in Threads \ {t} : InHand(u)' /\ Unlinked(u)'
  BY <1>1, <1>2, <1>3, OtherHands
<1>7. /\ \A k \in Jobs \ {job_freelist} : SameOwner(k)
      /\ \A k \in Jobs : \A l \in Jobs : Linked(k, l)' <=> Linked(k, l)
      /\ \A k \in Jobs : (Armed(k)' <=> Armed(k)) /\ (Live(k)' <=> Live(k))
  BY <1>1, <1>2, <1>3 DEF SameOwner, Linked, Holds, Armed, Live, OtherThreads
<1>8. Ownership'
  <2>1. CASE job_freelist = Null
    BY <2>1, <1>7 DEF IInv, Ownership, Owned, NotTwice, SameOwner
  <2>2. CASE job_freelist \in Jobs
    <3>1. /\ Live(job_freelist) /\ NotTwice(job_freelist)
          /\ \A u \in Threads : Holds(u, job_freelist) <=> FALSE
      BY <2>2 DEF IInv, Ownership, Owned, NotTwice
    <3> DEFINE f == job_freelist
    <3>2. PICK j \in Jobs : j = f
      BY <2>2
    <3>3. /\ Holds(t, j)' /\ \A u \in Threads \ {t} : ~Holds(u, j)'
          /\ (job_freelist # j)'
      BY <3>1, <3>2, <1>2, <1>3 DEF Holds, OtherThreads
    <3>4. (Live(j)' <=> Owned(j)') /\ NotTwice(j)'
      BY <3>1, <3>2, <3>3, <1>7 DEF Owned, NotTwice
    <3> QED BY <3>2, <3>4, <1>7, OneJobMoves DEF IInv
  <2> QED BY <1>1, <2>1, <2>2
<1>9. FreeJobsReset'
  BY <1>2 DEF IInv, FreeJobsReset, OnFreelist
<1>10. LockIsHeld'
  BY <1>1, <1>2, <1>3 DEF Working, LockIsHeld, Locked, OtherThreads
<1>11. InHand(t)' /\ Unlinked(t)'
  BY <1>1, <1>2, <1>3 DEF IInv, FreeJobsReset, OnFreelist, InHand, Unlinked,
                          Clean, Locked
<1>12. LinksInPlace' /\ HeldJobs' /\ ArmedJobs'
  BY <1>1, <1>2, <1>6, <1>11
     DEF Working, LinksInPlace, HeldJobs, ArmedJobs, WithNng, Live, Armed, Clean,
         Completed
<1>13. Conversations' /\ RequestsInHands'
  BY <1>1, <1>2, <1>3 DEF Working, Conversations, RequestsInHands, OtherThreads
<1> QED
  BY <1>1, <1>2, <1>4, <1>5, <1>8, <1>9, <1>10, <1>12, <1>13 DEF IInv, Working

\* The freelist was empty: a job is to be made.
LEMMA GetPopEmptyStep ==
  ASSUME IInv, NEW t \in Threads, GetPop(t), own[t] = Null
  PROVE  IInv'
<1> USE NullAssumption
<1>1. ~exited /\ Working /\ pc[t] = "get_pop"
  BY DEF IInv, GetPop
<1>2. /\ UNCHANGED <<http, answer, job, job_freelist, own, arg, inproc, exited, fn>>
      /\ job_lock' = Null
      /\ pc' = [pc EXCEPT ![t] = "get_new"]
  BY DEF GetPop, ToPc
<1>3. pc'[t] = "get_new" /\ own'[t] = Null /\ OtherThreads(t)
  BY <1>2 DEF IInv, TypeOK, OtherThreads
<1>4. TypeOK'
  BY <1>2 DEF IInv, TypeOK
<1>5. ThreadsInPlace'
  BY <1>1, <1>2, <1>3 DEF Working, ThreadsInPlace, OtherThreads,
                          HasJob, HasNoJob, HasRequest, HasNoRequest
<1>6. \A u \in Threads \ {t} : InHand(u)' /\ Unlinked(u)'
  BY <1>1, <1>2, <1>3, OtherHands
<1>7. \A u \in Threads, k \in Jobs : Holds(u, k)' <=> Holds(u, k)
  BY <1>2, <1>3 DEF OtherThreads, Holds
<1>8. Ownership' /\ FreeJobsReset'
  BY <1>2, <1>7 DEF IInv, Ownership, Owned, NotTwice, Live, Linked, Armed,
                    FreeJobsReset, OnFreelist
<1>9. LockIsHeld'
  BY <1>1, <1>2, <1>3 DEF Working, LockIsHeld, Locked, OtherThreads
<1>10. InHand(t)' /\ Unlinked(t)'
  BY <1>3 DEF InHand, Unlinked
<1>11. LinksInPlace' /\ HeldJobs' /\ ArmedJobs'
  BY <1>1, <1>2, <1>6, <1>10
     DEF Working, LinksInPlace, HeldJobs, ArmedJobs, WithNng, Live, Armed, Clean,
         Completed
<1>12. Conversations' /\ RequestsInHands'
  BY <1>1, <1>2, <1>3 DEF Working, Conversations, RequestsInHands, OtherThreads
<1> QED
  BY <1>1, <1>2, <1>4, <1>5, <1>8, <1>9, <1>11, <1>12 DEF IInv, Working

\* The rest of the list moves from the first job back to the freelist.
LEMMA GetPopJobStep ==
  ASSUME IInv, NEW t \in Threads, GetPop(t), NEW j \in Jobs, own[t] = j
  PROVE  IInv'
<1> USE NullAssumption
<1>1. ~exited /\ Working /\ pc[t] = "get_pop" /\ job_lock = t /\ job_freelist = Null
  BY DEF IInv, GetPop, Working, LockIsHeld, Locked
<1>2. /\ Live(j) /\ ~Armed(j) /\ Holds(t, j) /\ NotTwice(j) /\ Clean(j)
      /\ \A u \in Threads : Holds(u, j) => u = t
      /\ \A k \in Jobs : ~Linked(k, j)
  BY <1>1 DEF IInv, Ownership, Owned, NotTwice, Holds, Working, HeldJobs, InHand
<1>3. job[j] \in JobType
  BY DEF IInv, TypeOK
<1>4. PICK f \in Jobs \cup {Null} : f = job[j].next
  BY <1>3 DEF JobType
<1>5. /\ UNCHANGED <<http, answer, own, arg, inproc, exited, fn>>
      /\ job_lock' = Null /\ job_freelist' = f
      /\ job' = [job EXCEPT ![j] = [@ EXCEPT !.next = Null]]
      /\ pc' = [pc EXCEPT ![t] = "setup"]
  BY <1>4 DEF GetPop, ToPc, Job
<1>6. /\ pc'[t] = "setup" /\ own'[t] = j /\ OtherThreads(t) /\ OtherJobs(j)
      /\ job'[j] = [job[j] EXCEPT !.next = Null]
  BY <1>5 DEF IInv, TypeOK, OtherThreads, OtherJobs
<1>7. /\ job'[j] \in JobType /\ job'[j].next = Null
      /\ job'[j].memory = job[j].memory /\ job'[j].aio = job[j].aio
      /\ job'[j].http_aio = job[j].http_aio /\ job'[j].http_res = job[j].http_res
      /\ job'[j].msg = job[j].msg
      /\ job'[j].ctx = job[j].ctx /\ job'[j].wire = job[j].wire
  BY <1>3, <1>6 DEF JobType
<1>8. TypeOK'
  BY <1>4, <1>5, <1>7 DEF IInv, TypeOK
<1>9. ThreadsInPlace'
  BY <1>1, <1>5, <1>6 DEF Working, ThreadsInPlace, OtherThreads,
                          HasJob, HasNoJob, HasRequest, HasNoRequest
<1>10. \A u \in Threads \ {t} : InHand(u)' /\ Unlinked(u)'
  BY <1>1, <1>2, <1>6, OtherHands DEF OtherJobs
<1>11. /\ \A u \in Threads, l \in Jobs : Holds(u, l)' <=> Holds(u, l)
       /\ \A l \in Jobs : (Armed(l)' <=> Armed(l)) /\ (Live(l)' <=> Live(l))
       /\ \A k \in Jobs \ {j}, l \in Jobs : Linked(k, l)' <=> Linked(k, l)
       /\ \A l \in Jobs : ~Linked(j, l)'
       /\ \A l \in Jobs \ {f} : ~Linked(j, l)
       /\ \A l \in Jobs : (job_freelist = l)' <=> l = f
  BY <1>1, <1>4, <1>5, <1>6, <1>7
     DEF Holds, Armed, Live, Linked, OtherJobs, OtherThreads
<1>12. \A l \in Jobs \ {f} : SameOwner(l)
  BY <1>1, <1>11 DEF SameOwner
<1>13. Ownership'
  <2>1. CASE f = Null
    BY <2>1, <1>12 DEF IInv, Ownership, Owned, NotTwice, SameOwner
  <2>2. CASE f \in Jobs
    <3>1. Linked(j, f) /\ NotTwice(f) /\ Live(f)
      BY <2>2, <1>4 DEF IInv, Ownership, Owned, Linked
    <3>2. Live(f)' /\ (job_freelist = f)' /\ ~Armed(f)'
      BY <2>2, <3>1, <1>11 DEF NotTwice
    <3>3. /\ \A k \in Jobs : ~Linked(k, f)'
          /\ \A u \in Threads : ~Holds(u, f)'
      BY <2>2, <3>1, <1>11 DEF NotTwice
    <3>4. (Live(f)' <=> Owned(f)') /\ NotTwice(f)'
      BY <3>2, <3>3 DEF Owned, NotTwice
    <3> QED BY <2>2, <3>4, <1>12, OneJobMoves DEF IInv
  <2> QED BY <2>1, <2>2
<1>14. FreeJobsReset'
  <2>1. ASSUME NEW l \in Jobs, OnFreelist(l)' PROVE l # j /\ OnFreelist(l)
    BY <2>1, <1>2, <1>4, <1>5, <1>6, <1>7 DEF OnFreelist, OtherJobs, Linked
  <2> QED BY <2>1, <1>6 DEF IInv, FreeJobsReset, OtherJobs
<1>15. LockIsHeld'
  BY <1>1, <1>5, <1>6 DEF Working, LockIsHeld, Locked, OtherThreads
<1>16. InHand(t)' /\ Unlinked(t)'
  BY <1>2, <1>6, <1>7 DEF InHand, Unlinked, Clean, Job
<1>17. LinksInPlace' /\ HeldJobs'
  <2>1. \A l \in Jobs \ {j} : job'[l] = job[l]
    BY <1>6 DEF OtherJobs
  <2>2. \A l \in Jobs : (~Live(l) \/ Armed(l) => job[l].next = Null)'
    BY <2>1, <1>1, <1>7 DEF Working, LinksInPlace, Live, Armed
  <2> QED BY <2>2, <1>10, <1>16 DEF LinksInPlace, HeldJobs
<1>18. ArmedJobs'
  <2>1. \A l \in Jobs \ {j} : WithNng(l)'
    BY <1>1, <1>6 DEF Working, ArmedJobs, WithNng, Live, Clean, Completed, OtherJobs
  <2>2. WithNng(j)'
    BY <1>2, <1>7 DEF WithNng, Live, Armed
  <2> QED BY <2>1, <2>2 DEF ArmedJobs
<1>19. Conversations' /\ RequestsInHands'
  BY <1>1, <1>5, <1>6, <1>7
     DEF Working, Conversations, RequestsInHands, OtherThreads, OtherJobs
<1> QED
  BY <1>1, <1>5, <1>8, <1>9, <1>13, <1>14, <1>15, <1>17, <1>18, <1>19
     DEF IInv, Working

\* A job that is made is nobody's but its maker's.
LEMMA GetNewStep ==
  ASSUME IInv, NEW t \in Threads, GetNew(t)
  PROVE  IInv'
<1> USE NullAssumption
<1>1. ~exited /\ Working /\ pc[t] = "get_new" /\ own[t] = Null
  BY DEF IInv, GetNew, Working, ThreadsInPlace, HasNoJob
<1>2. PICK j \in Jobs :
        /\ job[j].memory = "none"
        /\ UNCHANGED <<http, answer, shared, arg, inproc, exited, fn>>
        /\ job' = [job EXCEPT ![j] = NewJob]
        /\ own' = [own EXCEPT ![t] = j]
        /\ pc' = [pc EXCEPT ![t] = "setup"]
  BY DEF GetNew, ToPc
<1>3. /\ pc'[t] = "setup" /\ own'[t] = j /\ OtherThreads(t) /\ OtherJobs(j)
      /\ job'[j] = NewJob
  BY <1>2 DEF IInv, TypeOK, OtherThreads, OtherJobs
<1>4. NewJob \in JobType
  BY DEF NewJob, JobType
<1>5. /\ ~Live(j) /\ ~Owned(j) /\ Clean(j) /\ job[j].next = Null
  BY <1>1, <1>2 DEF IInv, Ownership, Live, Working, ArmedJobs, WithNng, LinksInPlace
<1>6. /\ Live(j)' /\ ~Armed(j)' /\ Clean(j)' /\ job'[j].next = Null
      /\ job'[j].aio = "idle" /\ job'[j].http_aio = Null /\ job'[j].ctx = "null"
  BY <1>3 DEF NewJob, Live, Armed, Clean
<1>7. TypeOK'
  BY <1>2, <1>4 DEF IInv, TypeOK, shared
<1>8. ThreadsInPlace'
  BY <1>1, <1>2, <1>3 DEF Working, ThreadsInPlace, OtherThreads,
                          HasJob, HasNoJob, HasRequest, HasNoRequest
<1>9. \A u \in Threads \ {t} : InHand(u)' /\ Unlinked(u)'
  BY <1>1, <1>3, <1>5, OtherHands DEF OtherJobs, Owned
<1>10. /\ \A k, l \in Jobs : Linked(k, l)' <=> Linked(k, l)
       /\ \A u \in Threads \ {t}, l \in Jobs : Holds(u, l)' <=> Holds(u, l)
       /\ \A l \in Jobs \ {j} : ~Holds(t, l)' /\ ~Holds(t, l)
       /\ Holds(t, j)'
  BY <1>1, <1>3, <1>5, <1>6 DEF Linked, Holds, OtherThreads, OtherJobs
<1>11. Ownership'
  <2>1. \A l \in Jobs \ {j} : SameOwner(l)
    BY <1>2, <1>3, <1>10 DEF SameOwner, Armed, Live, OtherJobs, shared
  <2>2. (job_freelist # j)' /\ \A k \in Jobs : ~Linked(k, j)'
    BY <1>2, <1>5, <1>10 DEF Owned, shared
  <2>3. \A u \in Threads \ {t} : ~Holds(u, j)'
    BY <1>5, <1>10 DEF Owned
  <2>4. (Live(j)' <=> Owned(j)') /\ NotTwice(j)'
    BY <2>2, <2>3, <1>6, <1>10 DEF Owned, NotTwice
  <2> QED BY <2>1, <2>4, OneJobMoves DEF IInv
<1>12. FreeJobsReset'
  <2>1. ASSUME NEW l \in Jobs, OnFreelist(l)' PROVE l # j /\ OnFreelist(l)
    BY <2>1, <1>2, <1>3, <1>5, <1>6 DEF OnFreelist, OtherJobs, Linked, Owned, shared
  <2> QED BY <2>1, <1>3 DEF IInv, FreeJobsReset, OtherJobs
<1>13. LockIsHeld'
  BY <1>1, <1>2, <1>3 DEF Working, LockIsHeld, Locked, OtherThreads, shared
<1>14. InHand(t)' /\ Unlinked(t)'
  BY <1>3, <1>6 DEF InHand, Unlinked, Job
<1>15. LinksInPlace' /\ HeldJobs'
  BY <1>1, <1>3, <1>6, <1>9, <1>14
     DEF Working, LinksInPlace, HeldJobs, Live, Armed, OtherJobs
<1>16. ArmedJobs'
  BY <1>1, <1>3, <1>6
     DEF Working, ArmedJobs, WithNng, Live, Armed, Clean, Completed, OtherJobs
<1>17. Conversations'
  BY <1>1, <1>2, <1>3, <1>5, <1>6 DEF Working, Conversations, Clean, OtherJobs
<1>18. RequestsInHands'
  BY <1>1, <1>2, <1>3, <1>6 DEF Working, RequestsInHands, OtherThreads, OtherJobs
<1> QED
  BY <1>1, <1>2, <1>7, <1>8, <1>11, <1>12, <1>13, <1>15, <1>16, <1>17, <1>18
     DEF IInv, Working

\* A thread arms its job for a send or a receive: the job is nng's from then on.
LEMMA ThreadArms ==
  ASSUME IInv, ~exited, NEW t \in Threads, NEW j \in Jobs, own[t] = j,
         pc[t] \in {"send", "callback"}, pc'[t] = "disown", own' = own,
         OtherThreads(t), OtherJobs(j), UNCHANGED shared,
         job'[j].memory = job[j].memory, job'[j].next = job[j].next,
         Armed(j)', WithNng(j)'
  PROVE  /\ Ownership' /\ FreeJobsReset' /\ LockIsHeld' /\ LinksInPlace'
         /\ HeldJobs' /\ ArmedJobs'
<1> USE NullAssumption DEF shared
<1>1. /\ Working /\ Live(j) /\ ~Armed(j) /\ job_freelist # j
      /\ \A k \in Jobs : ~Linked(k, j)
      /\ \A u \in Threads : Holds(u, j) => u = t
      /\ job[j].next = Null
  BY HolderIsOwner DEF IInv, HasJob, Working, LinksInPlace, Unlinked, Locked, Job
<1>2. /\ \A u \in Threads \ {t}, l \in Jobs : Holds(u, l)' <=> Holds(u, l)
      /\ \A l \in Jobs : ~Holds(t, l)'
      /\ \A l \in Jobs \ {j} : ~Holds(t, l)
      /\ \A k, l \in Jobs : Linked(k, l)' <=> Linked(k, l)
      /\ \A l \in Jobs : Live(l)' <=> Live(l)
  BY <1>1 DEF Holds, OtherThreads, Linked, OtherJobs, Live
<1>3. Ownership'
  <2>1. \A l \in Jobs \ {j} : SameOwner(l)
    BY <1>2 DEF SameOwner, Armed, OtherJobs
  <2>2. (Live(j)' <=> Owned(j)') /\ NotTwice(j)'
    BY <1>1, <1>2 DEF Owned, NotTwice
  <2> QED BY <2>1, <2>2, OneJobMoves DEF IInv
<1>4. FreeJobsReset'
  <2>1. \A l \in Jobs : OnFreelist(l)' => l # j /\ OnFreelist(l)
    BY <1>1, <1>2 DEF OnFreelist, Linked
  <2> QED BY <2>1 DEF IInv, FreeJobsReset, OtherJobs
<1>5. LockIsHeld'
  BY <1>1 DEF Working, LockIsHeld, Locked, OtherThreads
<1>6. \A u \in Threads \ {t} : InHand(u)' /\ Unlinked(u)'
  BY <1>1, OtherHands DEF OtherJobs
<1>7. InHand(t)' /\ Unlinked(t)'
  BY DEF InHand, Unlinked
<1>8. LinksInPlace' /\ HeldJobs'
  <2>1. \A l \in Jobs : (~Live(l) \/ Armed(l) => job[l].next = Null)'
    BY <1>1 DEF Working, LinksInPlace, Live, Armed, OtherJobs
  <2> QED BY <2>1, <1>6, <1>7 DEF LinksInPlace, HeldJobs
<1>9. ArmedJobs'
  BY <1>1 DEF Working, ArmedJobs, WithNng, Live, Clean, Completed, OtherJobs
<1> QED BY <1>3, <1>4, <1>5, <1>8, <1>9

\* rest_handle arms its job to send.
LEMMA SendStep ==
  ASSUME IInv, NEW t \in Threads, Send(t)
  PROVE  IInv'
<1> USE NullAssumption
<1>1. ~exited /\ Working /\ pc[t] = "send"
  BY DEF IInv, Send
<1>2. PICK j \in Jobs : own[t] = j /\ job[j] \in JobType /\ Live(j)
  BY <1>1, HolderIsOwner DEF HasJob
<1>3. PICK r \in Requests :
        arg[t] = r /\ job[j].http_aio = r /\ job[j].ctx = "open"
  BY <1>1, <1>2 DEF IInv, TypeOK, Working, ThreadsInPlace, HasRequest, HeldJobs,
                    InHand, Job
<1>4. /\ UNCHANGED <<http, answer, shared, own, inproc, exited, fn>>
      /\ job' = [job EXCEPT ![j] = [@ EXCEPT !.aio_msg = Sent(r), !.msg = Null,
                                      !.state = "SEND_REQ", !.aio = "send"]]
      /\ arg' = [arg EXCEPT ![t] = Null]
      /\ pc' = [pc EXCEPT ![t] = "disown"]
  BY <1>2, <1>3 DEF Send, ToPc, Sent
<1>5. /\ pc'[t] = "disown" /\ arg'[t] = Null /\ OtherThreads(t) /\ OtherJobs(j)
      /\ job'[j] = [job[j] EXCEPT !.aio_msg = Sent(r), !.msg = Null,
                                  !.state = "SEND_REQ", !.aio = "send"]
  BY <1>4 DEF IInv, TypeOK, OtherThreads, OtherJobs
<1>6. Sent(r) \in Data
  BY DEF Sent, Data
<1>7. /\ job'[j] \in JobType
      /\ job'[j].memory = job[j].memory /\ job'[j].next = job[j].next
      /\ job'[j].http_aio = job[j].http_aio /\ job'[j].state = "SEND_REQ"
      /\ job'[j].aio = "send" /\ job'[j].aio_msg = Sent(r)
      /\ job'[j].ctx = job[j].ctx /\ job'[j].wire = job[j].wire
  <2>1. PICK m \in Data : m = Sent(r)
    BY <1>6
  <2>2. job'[j] = [job[j] EXCEPT !.aio_msg = m, !.msg = Null,
                                 !.state = "SEND_REQ", !.aio = "send"]
    BY <1>5, <2>1
  <2>3. job'[j] \in JobType
    BY <1>2, <2>2, ZenonT(30) DEF JobType
  <2> QED BY <1>2, <2>1, <2>2, <2>3 DEF JobType
<1>8. TypeOK'
  BY <1>4, <1>7 DEF IInv, TypeOK, shared
<1>9. ThreadsInPlace'
  BY <1>1, <1>2, <1>4, <1>5 DEF Working, ThreadsInPlace, OtherThreads,
                          HasJob, HasNoJob, HasRequest, HasNoRequest
<1>10. Armed(j)' /\ WithNng(j)'
  BY <1>2, <1>3, <1>7 DEF WithNng, Armed, Live
<1>11. Conversations'
  BY <1>1, <1>4, <1>5, <1>7 DEF Working, Conversations, OtherJobs
<1>12. RequestsInHands'
  BY <1>1, <1>2, <1>3, <1>4, <1>5, <1>7
     DEF Working, RequestsInHands, OtherJobs, OtherThreads
<1> QED
  BY <1>1, <1>2, <1>4, <1>5, <1>7, <1>8, <1>9, <1>10, <1>11, <1>12, ThreadArms
     DEF IInv, Working

\* rest_job_cb arms its job to receive.
LEMMA CbSentStep ==
  ASSUME IInv, NEW t \in Threads, CbSent(t)
  PROVE  IInv'
<1> USE NullAssumption
<1>1. ~exited /\ Working /\ pc[t] = "callback"
  BY DEF IInv, CbSent
<1>2. PICK j \in Jobs : own[t] = j /\ job[j] \in JobType /\ Live(j)
  BY <1>1, HolderIsOwner DEF HasJob
<1>3. arg[t] = Null /\ job[j].http_aio # Null
  BY <1>1, <1>2 DEF Working, ThreadsInPlace, HasNoRequest, HeldJobs, InHand,
                    Completed
<1>4. /\ UNCHANGED <<http, answer, shared, own, arg, inproc, exited, fn>>
      /\ job' = [job EXCEPT ![j] = [@ EXCEPT !.aio_msg = Null,
                                      !.state = "RECV_REP", !.aio = "recv"]]
      /\ pc' = [pc EXCEPT ![t] = "disown"]
  BY <1>2 DEF CbSent, ToPc
<1>5. /\ pc'[t] = "disown" /\ OtherThreads(t) /\ OtherJobs(j)
      /\ job'[j] = [job[j] EXCEPT !.aio_msg = Null,
                                  !.state = "RECV_REP", !.aio = "recv"]
  BY <1>4 DEF IInv, TypeOK, OtherThreads, OtherJobs
<1>7. /\ job'[j] \in JobType
      /\ job'[j].memory = job[j].memory /\ job'[j].next = job[j].next
      /\ job'[j].http_aio = job[j].http_aio /\ job'[j].state = "RECV_REP"
      /\ job'[j].aio = "recv"
      /\ job'[j].ctx = job[j].ctx /\ job'[j].wire = job[j].wire
  <2>1. job'[j] \in JobType
    BY <1>2, <1>5, ZenonT(30) DEF JobType
  <2> QED BY <1>2, <1>5, <2>1 DEF JobType
<1>8. TypeOK'
  BY <1>4, <1>7 DEF IInv, TypeOK, shared
<1>9. ThreadsInPlace'
  BY <1>1, <1>2, <1>3, <1>4, <1>5 DEF Working, ThreadsInPlace, OtherThreads,
                          HasJob, HasNoJob, HasRequest, HasNoRequest
<1>10. Armed(j)' /\ WithNng(j)'
  BY <1>2, <1>3, <1>7 DEF WithNng, Armed, Live
<1>11. Conversations'
  BY <1>1, <1>4, <1>5, <1>7 DEF Working, Conversations, OtherJobs
<1>12. RequestsInHands'
  BY <1>1, <1>2, <1>3, <1>4, <1>5, <1>7
     DEF Working, RequestsInHands, OtherJobs, OtherThreads
<1> QED
  BY <1>1, <1>2, <1>4, <1>5, <1>7, <1>8, <1>9, <1>10, <1>11, <1>12, ThreadArms
     DEF IInv, Working

\* The callback of a completed aio takes the job back from nng.
LEMMA CallbackStep ==
  ASSUME IInv, NEW t \in Threads, NEW j \in Jobs, rest_job_cb(t, j)
  PROVE  IInv'
<1> USE NullAssumption
<1>1. /\ ~exited /\ Working /\ pc[t] = "idle" /\ own[t] = Null /\ arg[t] = Null
      /\ job[j].aio = "done" /\ Armed(j)
  BY DEF IInv, rest_job_cb, Working, ThreadsInPlace, HasNoJob, HasNoRequest, Armed
<1>2. /\ Live(j) /\ job_freelist # j
      /\ \A k \in Jobs : ~Linked(k, j)
      /\ \A u \in Threads : ~Holds(u, j)
      /\ Completed(j) /\ job[j].next = Null
  BY <1>1 DEF IInv, Ownership, Owned, NotTwice, Working, ArmedJobs, WithNng,
              LinksInPlace
<1>3. job[j] \in JobType
  BY DEF IInv, TypeOK
<1>4. /\ UNCHANGED <<http, answer, shared, arg, inproc, exited>>
      /\ job' = [job EXCEPT ![j] = [@ EXCEPT !.aio = "idle"]]
      /\ own' = [own EXCEPT ![t] = j]
      /\ pc' = [pc EXCEPT ![t] = "callback"]
      /\ fn' = [fn EXCEPT ![t] = "rest_job_cb"]
  BY DEF rest_job_cb
<1>5. /\ pc'[t] = "callback" /\ own'[t] = j /\ OtherThreads(t) /\ OtherJobs(j)
      /\ job'[j] = [job[j] EXCEPT !.aio = "idle"]
  BY <1>4 DEF IInv, TypeOK, OtherThreads, OtherJobs
<1>6. /\ job'[j] \in JobType
      /\ job'[j].memory = job[j].memory /\ job'[j].next = job[j].next
      /\ job'[j].http_aio = job[j].http_aio /\ job'[j].state = job[j].state
      /\ job'[j].result = job[j].result /\ job'[j].aio_msg = job[j].aio_msg
      /\ job'[j].aio = "idle"
      /\ job'[j].ctx = job[j].ctx /\ job'[j].wire = job[j].wire
  BY <1>3, <1>5 DEF JobType
<1>7. TypeOK'
  BY <1>4, <1>6 DEF IInv, TypeOK, shared
<1>8. ThreadsInPlace'
  BY <1>1, <1>4, <1>5 DEF Working, ThreadsInPlace, OtherThreads,
                          HasJob, HasNoJob, HasRequest, HasNoRequest
<1>9. /\ \A u \in Threads \ {t}, l \in Jobs : Holds(u, l)' <=> Holds(u, l)
      /\ \A l \in Jobs \ {j} : ~Holds(t, l)' /\ ~Holds(t, l)
      /\ Holds(t, j)'
      /\ \A k, l \in Jobs : Linked(k, l)' <=> Linked(k, l)
      /\ \A l \in Jobs : Live(l)' <=> Live(l)
  <2>1. /\ \A l \in Jobs \ {j} : job'[l] = job[l]
        /\ \A u \in Threads \ {t} : own'[u] = own[u] /\ pc'[u] = pc[u]
    BY <1>5 DEF OtherThreads, OtherJobs
  <2>2. \A l \in Jobs : job'[l].next = job[l].next /\ job'[l].memory = job[l].memory
    BY <2>1, <1>6
  <2>3. \A l \in Jobs \ {j} : ~Holds(t, l)' /\ ~Holds(t, l)
    BY <1>1, <1>5 DEF Holds
  <2>4. Holds(t, j)'
    BY <1>5 DEF Holds
  <2> QED BY <2>1, <2>2, <2>3, <2>4 DEF Holds, Linked, Live
<1>10. Ownership'
  <2>1. \A l \in Jobs \ {j} : SameOwner(l)
    BY <1>4, <1>5, <1>9 DEF SameOwner, Armed, OtherJobs, shared
  <2>2. (job_freelist # j)' /\ ~Armed(j)' /\ \A u \in Threads \ {t} : ~Holds(u, j)'
    BY <1>2, <1>4, <1>6, <1>9 DEF Armed, shared
  <2>3. (Live(j)' <=> Owned(j)') /\ NotTwice(j)'
    BY <2>2, <1>2, <1>9 DEF Owned, NotTwice
  <2> QED BY <2>1, <2>3, OneJobMoves DEF IInv
<1>11. FreeJobsReset'
  <2>1. \A l \in Jobs : OnFreelist(l)' => l # j /\ OnFreelist(l)
    BY <1>2, <1>4, <1>9 DEF OnFreelist, Linked, shared
  <2> QED BY <2>1, <1>5 DEF IInv, FreeJobsReset, OtherJobs
<1>12. LockIsHeld'
  BY <1>1, <1>4, <1>5 DEF Working, LockIsHeld, Locked, OtherThreads, shared
<1>13. \A u \in Threads \ {t} : InHand(u)' /\ Unlinked(u)'
  BY <1>1, <1>2, <1>5, OtherHands DEF OtherJobs
<1>14. InHand(t)' /\ Unlinked(t)'
  BY <1>2, <1>5, <1>6 DEF InHand, Unlinked, Completed, Job
<1>15. LinksInPlace' /\ HeldJobs'
  <2>1. \A l \in Jobs : (~Live(l) \/ Armed(l) => job[l].next = Null)'
    <3>1. \A l \in Jobs \ {j} : job'[l] = job[l]
      BY <1>5 DEF OtherJobs
    <3> QED BY <3>1, <1>1, <1>2, <1>6 DEF Working, LinksInPlace, Live, Armed
  <2> QED BY <2>1, <1>13, <1>14 DEF LinksInPlace, HeldJobs
<1>16. ArmedJobs'
  <2>1. \A l \in Jobs \ {j} : WithNng(l)'
    BY <1>1, <1>5 DEF Working, ArmedJobs, WithNng, Live, Clean, Completed, OtherJobs
  <2>2. WithNng(j)'
    BY <1>2, <1>6 DEF WithNng, Live
  <2> QED BY <2>1, <2>2 DEF ArmedJobs
<1>17. Conversations'
  BY <1>1, <1>4, <1>5, <1>6 DEF Working, Conversations, OtherJobs
<1>18. RequestsInHands'
  BY <1>1, <1>4, <1>5, <1>6 DEF Working, RequestsInHands, OtherJobs, OtherThreads
<1> QED
  BY <1>1, <1>4, <1>7, <1>8, <1>10, <1>11, <1>12, <1>15, <1>16, <1>17, <1>18
     DEF IInv, Working

\* The freelist moves into the next pointer of the job that is put back.
LEMMA PutLockStep ==
  ASSUME IInv, NEW t \in Threads, PutLock(t)
  PROVE  IInv'
<1> USE NullAssumption
<1>1. ~exited /\ Working /\ pc[t] = "put_lock" /\ job_lock = Null
  BY DEF IInv, PutLock
<1>2. PICK j \in Jobs :
        /\ own[t] = j /\ job[j] \in JobType /\ Live(j) /\ ~Armed(j)
        /\ job_freelist # j /\ Clean(j) /\ job[j].next = Null
        /\ \A k \in Jobs : ~Linked(k, j)
        /\ \A u \in Threads : Holds(u, j) => u = t
  BY <1>1, HolderIsOwner DEF HasJob, Working, HeldJobs, InHand, LinksInPlace,
                             Unlinked, Locked, Job
<1>3. PICK f \in Jobs \cup {Null} : f = job_freelist
  BY DEF IInv, TypeOK
<1>4. /\ UNCHANGED <<http, answer, own, arg, inproc, exited, fn>>
      /\ job_lock' = t /\ job_freelist' = Null
      /\ job' = [job EXCEPT ![j] = [@ EXCEPT !.next = f]]
      /\ pc' = [pc EXCEPT ![t] = "put_push"]
  BY <1>2, <1>3 DEF PutLock, ToPc
<1>5. /\ pc'[t] = "put_push" /\ own'[t] = j /\ OtherThreads(t) /\ OtherJobs(j)
      /\ job'[j] = [job[j] EXCEPT !.next = f]
  BY <1>2, <1>4 DEF IInv, TypeOK, OtherThreads, OtherJobs
<1>6. /\ job'[j] \in JobType /\ job'[j].next = f
      /\ job'[j].memory = job[j].memory /\ job'[j].aio = job[j].aio
      /\ job'[j].http_aio = job[j].http_aio /\ job'[j].http_res = job[j].http_res
      /\ job'[j].msg = job[j].msg
      /\ job'[j].ctx = job[j].ctx /\ job'[j].wire = job[j].wire
  BY <1>2, <1>5 DEF JobType
<1>7. TypeOK'
  BY <1>4, <1>6 DEF IInv, TypeOK
<1>8. ThreadsInPlace'
  BY <1>1, <1>2, <1>4, <1>5 DEF Working, ThreadsInPlace, OtherThreads,
                          HasJob, HasNoJob, HasRequest, HasNoRequest
<1>9. /\ \A u \in Threads, l \in Jobs : Holds(u, l)' <=> Holds(u, l)
      /\ \A l \in Jobs : (Armed(l)' <=> Armed(l)) /\ (Live(l)' <=> Live(l))
      /\ \A k \in Jobs \ {j}, l \in Jobs : Linked(k, l)' <=> Linked(k, l)
      /\ \A l \in Jobs : Linked(j, l)' <=> l = f
      /\ \A l \in Jobs : ~Linked(j, l)
      /\ \A l \in Jobs : (job_freelist # l)'
  BY <1>1, <1>2, <1>4, <1>5, <1>6
     DEF Holds, Armed, Live, Linked, OtherJobs, OtherThreads
<1>10. \A l \in Jobs \ {f} : SameOwner(l)
  BY <1>3, <1>9 DEF SameOwner
<1>11. Ownership'
  <2>1. CASE f = Null
    BY <2>1, <1>10 DEF IInv, Ownership, Owned, NotTwice, SameOwner
  <2>2. CASE f \in Jobs
    <3>1. Live(f) /\ NotTwice(f)
      BY <2>2, <1>3 DEF IInv, Ownership, Owned
    <3>2. /\ Live(f)' /\ ~Armed(f)' /\ Linked(j, f)'
          /\ \A k \in Jobs \ {j} : ~Linked(k, f)'
          /\ \A u \in Threads : ~Holds(u, f)'
      BY <2>2, <3>1, <1>3, <1>9 DEF NotTwice
    <3>3. (Live(f)' <=> Owned(f)') /\ NotTwice(f)'
      BY <2>2, <3>2, <1>9 DEF Owned, NotTwice
    <3> QED BY <2>2, <3>3, <1>10, OneJobMoves DEF IInv
  <2> QED BY <2>1, <2>2
<1>12. FreeJobsReset'
  <2>1. \A l \in Jobs : OnFreelist(l)' => l # j /\ OnFreelist(l)
    BY <1>2, <1>3, <1>9 DEF OnFreelist, Linked
  <2> QED BY <2>1, <1>5 DEF IInv, FreeJobsReset, OtherJobs
<1>13. LockIsHeld'
  BY <1>1, <1>4, <1>5 DEF Working, LockIsHeld, Locked, OtherThreads
<1>14. \A u \in Threads \ {t} : InHand(u)' /\ Unlinked(u)'
  BY <1>1, <1>2, <1>5, OtherHands DEF OtherJobs
<1>15. InHand(t)' /\ Unlinked(t)'
  BY <1>2, <1>5, <1>6 DEF InHand, Unlinked, Locked, Clean
<1>16. LinksInPlace' /\ HeldJobs'
  <2>1. \A l \in Jobs \ {j} : (~Live(l) \/ Armed(l) => job[l].next = Null)'
    BY <1>1, <1>5 DEF Working, LinksInPlace, Live, Armed, OtherJobs
  <2>2. Live(j)' /\ ~Armed(j)'
    BY <1>2, <1>9
  <2> QED BY <2>1, <2>2, <1>14, <1>15 DEF LinksInPlace, HeldJobs
<1>17. ArmedJobs'
  <2>1. \A l \in Jobs \ {j} : WithNng(l)'
    BY <1>1, <1>5 DEF Working, ArmedJobs, WithNng, Live, Clean, Completed, OtherJobs
  <2>2. WithNng(j)'
    BY <1>2, <1>6 DEF WithNng, Live, Armed
  <2> QED BY <2>1, <2>2 DEF ArmedJobs
<1>18. Conversations' /\ RequestsInHands'
  BY <1>1, <1>4, <1>5, <1>6
     DEF Working, Conversations, RequestsInHands, OtherThreads, OtherJobs
<1> QED
  BY <1>1, <1>4, <1>7, <1>8, <1>11, <1>12, <1>13, <1>16, <1>17, <1>18
     DEF IInv, Working

\* The job that is put back becomes the head of the freelist.
LEMMA PutPushStep ==
  ASSUME IInv, NEW t \in Threads, PutPush(t)
  PROVE  IInv'
<1> USE NullAssumption
<1>1. ~exited /\ Working /\ pc[t] = "put_push" /\ job_lock = t /\ job_freelist = Null
  BY DEF IInv, PutPush, Working, LockIsHeld, Locked
<1>2. PICK j \in Jobs :
        /\ own[t] = j /\ Live(j) /\ ~Armed(j) /\ Clean(j)
        /\ \A k \in Jobs : ~Linked(k, j)
        /\ \A u \in Threads : Holds(u, j) => u = t
  BY <1>1, HolderIsOwner DEF HasJob, Working, HeldJobs, InHand
<1>3. PICK to \in {"idle", "finish_error"} :
        /\ UNCHANGED <<http, answer, job, arg, inproc, exited>>
        /\ job_lock' = Null /\ job_freelist' = j
        /\ own' = [own EXCEPT ![t] = Null]
        /\ pc' = [pc EXCEPT ![t] = to]
        /\ fn' = fn \/ fn' = [fn EXCEPT ![t] = "none"]
        /\ to = "idle" <=> arg[t] = Null
  BY <1>2 DEF PutPush, Return, ToPc
<1>4. pc'[t] = to /\ own'[t] = Null /\ OtherThreads(t)
  BY <1>3 DEF IInv, TypeOK, OtherThreads
<1>5. TypeOK'
  BY <1>3 DEF IInv, TypeOK
<1>6. ThreadsInPlace'
  BY <1>1, <1>3, <1>4 DEF Working, ThreadsInPlace, OtherThreads,
                          HasJob, HasNoJob, HasRequest, HasNoRequest
<1>7. /\ \A u \in Threads \ {t}, l \in Jobs : Holds(u, l)' <=> Holds(u, l)
      /\ \A l \in Jobs : ~Holds(t, l)'
      /\ \A l \in Jobs \ {j} : ~Holds(t, l)
      /\ \A k, l \in Jobs : Linked(k, l)' <=> Linked(k, l)
      /\ \A l \in Jobs : (Armed(l)' <=> Armed(l)) /\ (Live(l)' <=> Live(l))
      /\ \A l \in Jobs : (job_freelist = l)' <=> l = j
  BY <1>2, <1>3, <1>4 DEF Holds, OtherThreads, Linked, Armed, Live
<1>8. Ownership'
  <2>1. \A l \in Jobs \ {j} : SameOwner(l)
    BY <1>1, <1>7 DEF SameOwner
  <2>2. (Live(j)' <=> Owned(j)') /\ NotTwice(j)'
    BY <1>2, <1>7 DEF Owned, NotTwice
  <2> QED BY <2>1, <2>2, OneJobMoves DEF IInv
<1>9. FreeJobsReset'
  <2>1. \A l \in Jobs : OnFreelist(l)' => l = j \/ OnFreelist(l)
    BY <1>3 DEF OnFreelist
  <2> QED BY <2>1, <1>2, <1>3 DEF IInv, FreeJobsReset, Clean, Live
<1>10. LockIsHeld'
  BY <1>1, <1>3, <1>4 DEF Working, LockIsHeld, Locked, OtherThreads
<1>11. \A u \in Threads \ {t} : InHand(u)' /\ Unlinked(u)'
  BY <1>1, <1>3, <1>4, OtherHands
<1>12. InHand(t)' /\ Unlinked(t)'
  BY <1>3, <1>4 DEF InHand, Unlinked
<1>13. LinksInPlace' /\ HeldJobs' /\ ArmedJobs'
  BY <1>1, <1>3, <1>11, <1>12
     DEF Working, LinksInPlace, HeldJobs, ArmedJobs, WithNng, Live, Armed, Clean,
         Completed
<1>14. Conversations' /\ RequestsInHands'
  BY <1>1, <1>3, <1>4 DEF Working, Conversations, RequestsInHands, OtherThreads
<1> QED
  BY <1>1, <1>3, <1>5, <1>6, <1>8, <1>9, <1>10, <1>13, <1>14 DEF IInv, Working

-----------------------------------------------------------------------------
(* The HTTP client, and the ends of the process.                           *)

\* A collected response leaves every request in the hands it was in.
LEMMA CollectStep ==
  ASSUME IInv, NEW r \in Requests, Collect(r)
  PROVE  IInv'
<1> USE NullAssumption
<1>1. ~exited /\ Working /\ http[r] = "answered"
  BY DEF IInv, Collect
<1>2. /\ UNCHANGED <<job, shared, thread, inproc, exited>>
      /\ http' = [http EXCEPT ![r] = "idle"]
      /\ answer' = [answer EXCEPT ![r] = Null]
  BY DEF Collect
<1>3. TypeOK'
  BY <1>2 DEF IInv, TypeOK, shared, thread
<1>4. Ownership' /\ FreeJobsReset'
  BY <1>2 DEF IInv, Ownership, Owned, NotTwice, Live, Linked, Holds, Armed,
              FreeJobsReset, OnFreelist, shared, thread
<1>5. ThreadsInPlace' /\ LockIsHeld' /\ LinksInPlace' /\ ArmedJobs' /\ Conversations'
  BY <1>1, <1>2 DEF Working, ThreadsInPlace, LockIsHeld, LinksInPlace, Unlinked,
       Job, Live, Armed, ArmedJobs, WithNng, Clean, Completed, Conversations,
       shared, thread
<1>6. HeldJobs'
  BY <1>1, <1>2 DEF Working, HeldJobs, InHand, Clean, Completed, Job, thread
<1>7. RequestsInHands'
  <2>1. /\ \A u \in Threads : arg[u] \in Requests \cup {Null} /\ arg[u] # r
        /\ \A k \in Jobs : job[k].http_aio \in Requests \cup {Null}
        /\ \A k \in Jobs : job[k].http_aio # r
        /\ \A q \in Requests \ {r} : http'[q] = http[q]
    BY <1>1, <1>2 DEF IInv, TypeOK, JobType, Working, RequestsInHands
  <2> QED BY <2>1, <1>1, <1>2 DEF Working, RequestsInHands, thread
<1> QED BY <1>1, <1>3, <1>4, <1>5, <1>6, <1>7 DEF IInv, Working

\* exit(1) in a thread that has no job yet
LEMMA GetNewThrowsStep ==
  ASSUME IInv, NEW t \in Threads, GetNewThrows(t)
  PROVE  IInv'
<1> USE NullAssumption
<1>1. ~exited /\ pc[t] = "get_new"
  BY DEF GetNewThrows
<1>2. /\ UNCHANGED <<http, answer, job, shared, arg, inproc>>
      /\ exited' = TRUE
      /\ own' = [own EXCEPT ![t] = Null]
      /\ pc' = [pc EXCEPT ![t] = "idle"]
      /\ fn' = [fn EXCEPT ![t] = "none"]
  BY DEF GetNewThrows, Exit, Return
<1>3. pc'[t] = "idle" /\ own'[t] = Null /\ OtherThreads(t)
  BY <1>2 DEF IInv, TypeOK, OtherThreads
<1>4. TypeOK'
  BY <1>2 DEF IInv, TypeOK, shared
<1> QED BY <1>1, <1>2, <1>3, <1>4, ThreadAlone DEF IInv, HasNoJob

\* exit(1) in a thread whose job is destroyed by the unwinding: nobody owns the
\* job that is gone.
LEMMA DeleteStep ==
  ASSUME IInv, NEW t \in Threads, FatalThrows(t) \/ RecycleThrows(t)
  PROVE  IInv'
<1> USE NullAssumption
<1>1. ~exited /\ (pc[t] = "fatal" \/ pc[t] = "recycle")
  BY DEF FatalThrows, RecycleThrows
<1>2. PICK j \in Jobs :
        /\ own[t] = j /\ job[j] \in JobType /\ ~Armed(j) /\ job_freelist # j
        /\ \A k \in Jobs : ~Linked(k, j)
        /\ \A u \in Threads : Holds(u, j) => u = t
  BY <1>1, HolderIsOwner DEF HasJob
<1>3. /\ UNCHANGED <<http, answer, shared, arg, inproc>>
      /\ exited' = TRUE
      /\ own' = [own EXCEPT ![t] = Null]
      /\ pc' = [pc EXCEPT ![t] = "idle"]
      /\ fn' = [fn EXCEPT ![t] = "none"]
      /\ job' = [job EXCEPT ![j] = [@ EXCEPT !.memory = "deleted"]]
  BY <1>2 DEF FatalThrows, RecycleThrows, Exit, Return
<1>4. /\ own'[t] = Null /\ OtherThreads(t) /\ OtherJobs(j)
      /\ job'[j] = [job[j] EXCEPT !.memory = "deleted"]
  BY <1>3 DEF IInv, TypeOK, OtherThreads, OtherJobs
<1>5. /\ job'[j] \in JobType /\ job'[j].memory = "deleted"
      /\ job'[j].next = job[j].next /\ job'[j].aio = job[j].aio
  BY <1>2, <1>4 DEF JobType
<1>6. TypeOK'
  BY <1>3, <1>5 DEF IInv, TypeOK, shared
<1>7. /\ \A u \in Threads \ {t}, l \in Jobs : Holds(u, l)' <=> Holds(u, l)
      /\ \A l \in Jobs : ~Holds(t, l)'
      /\ \A l \in Jobs \ {j} : ~Holds(t, l)
      /\ \A k, l \in Jobs : Linked(k, l)' <=> Linked(k, l)
      /\ \A l \in Jobs : Armed(l)' <=> Armed(l)
      /\ \A l \in Jobs : (job_freelist = l)' <=> job_freelist = l
  <2>1. \A l \in Jobs \ {j} : job'[l] = job[l]
    BY <1>4 DEF OtherJobs
  <2> QED BY <2>1, <1>2, <1>3, <1>4, <1>5
             DEF Holds, OtherThreads, Linked, Armed, shared
<1>8. Ownership'
  <2>1. \A l \in Jobs \ {j} : SameOwner(l)
    BY <1>4, <1>7 DEF SameOwner, Live, OtherJobs
  <2>2. ~Live(j)' /\ ~Owned(j)'
    BY <1>2, <1>5, <1>7 DEF Owned, Live
  <2>3. NotTwice(j)'
    BY <2>2 DEF Owned, NotTwice
  <2> QED BY <2>1, <2>2, <2>3, OneJobMoves DEF IInv
<1>9. FreeJobsReset'
  <2>1. \A l \in Jobs : OnFreelist(l)' => l # j /\ OnFreelist(l)
    BY <1>2, <1>7 DEF OnFreelist, Linked
  <2> QED BY <2>1, <1>4 DEF IInv, FreeJobsReset, OtherJobs
<1> QED BY <1>3, <1>6, <1>8, <1>9 DEF IInv

\* exit(1) elsewhere, and no step at all
LEMMA NothingMoves ==
  ASSUME IInv, UNCHANGED <<http, answer, job, shared, thread, inproc>>,
         exited' = TRUE \/ exited' = exited
  PROVE  IInv'
<1>1. TypeOK'
  BY DEF IInv, TypeOK, shared, thread
<1>2. Ownership' /\ FreeJobsReset'
  BY DEF IInv, Ownership, Owned, NotTwice, Live, Linked, Holds, Armed,
         FreeJobsReset, OnFreelist, shared, thread
<1>3. ASSUME Working PROVE Working'
  <2>1. ThreadsInPlace' /\ LockIsHeld' /\ LinksInPlace' /\ ArmedJobs'
        /\ Conversations' /\ RequestsInHands'
    BY <1>3 DEF Working, ThreadsInPlace, LockIsHeld, LinksInPlace, Unlinked, Job,
         Live, Armed, ArmedJobs, WithNng, Clean, Completed, Conversations,
         RequestsInHands, shared, thread
  <2>2. HeldJobs'
    BY <1>3 DEF Working, HeldJobs, InHand, Clean, Completed, Job, thread
  <2> QED BY <2>1, <2>2 DEF Working
<1> QED BY <1>1, <1>2, <1>3 DEF IInv

-----------------------------------------------------------------------------
(* The invariant is inductive.                                             *)

\* Before main creates the server there is no job and no request.
LEMMA InitIInv == Init => IInv
<1> USE NullAssumption
<1> SUFFICES ASSUME Init PROVE IInv
  OBVIOUS
<1>1. NewJob \in JobType
  BY DEF NewJob, JobType
<1> DEFINE n == [NewJob EXCEPT !.memory = "none"]
<1>2. /\ n \in JobType /\ n.memory = "none" /\ n.http_aio = Null /\ n.next = Null
      /\ n.http_res = Null /\ n.msg = Null /\ n.ctx = "null" /\ n.aio = "idle"
  BY <1>1 DEF NewJob, JobType
<1>3. /\ job = [j \in Jobs |-> n]
      /\ http = [r \in Requests |-> "idle"] /\ answer = [r \in Requests |-> Null]
      /\ job_freelist = Null /\ job_lock = Null
      /\ fn = [t \in Threads |-> "none"] /\ pc = [t \in Threads |-> "idle"]
      /\ own = [t \in Threads |-> Null] /\ arg = [t \in Threads |-> Null]
      /\ inproc = [job |-> Null, data |-> Null]
      /\ exited = FALSE
  BY DEF Init
<1> HIDE DEF n
<1>4. TypeOK
  BY <1>2, <1>3 DEF TypeOK
<1>5. Ownership
  BY <1>2, <1>3 DEF Ownership, Owned, NotTwice, Live, Linked, Holds, Armed
<1>6. FreeJobsReset
  BY <1>2, <1>3 DEF FreeJobsReset, OnFreelist
<1>7. ThreadsInPlace /\ LockIsHeld
  BY <1>3 DEF ThreadsInPlace, LockIsHeld, HasJob, HasNoJob, HasRequest,
              HasNoRequest, Locked
<1>8. LinksInPlace /\ ArmedJobs /\ Conversations /\ RequestsInHands
  BY <1>2, <1>3 DEF LinksInPlace, Unlinked, Job, Live, Armed, ArmedJobs, WithNng,
                    Clean, Completed, Conversations, RequestsInHands
<1>9. HeldJobs
  BY <1>3 DEF HeldJobs, InHand
<1> QED BY <1>4, <1>5, <1>6, <1>7, <1>8, <1>9 DEF IInv, Working

\* Every step of every thread, of nng and of the inproc server preserves IInv.
LEMMA NextIInv == IInv /\ [Next]_vars => IInv'
<1> SUFFICES ASSUME IInv, [Next]_vars PROVE IInv'
  OBVIOUS
<1>1. ASSUME NEW t \in Threads, Lock(t) PROVE IInv'
  BY <1>1, GetLockStep, PutLockStep DEF Lock
<1>2. ASSUME NEW t \in Threads, Run(t) PROVE IInv'
  <2>1. CASE GetPop(t)
    <3>1. own[t] = Null \/ own[t] \in Jobs
      BY DEF IInv, TypeOK
    <3> QED BY <2>1, <3>1, GetPopEmptyStep, GetPopJobStep
  <2>2. CASE GetNew(t) \/ GetNewThrows(t)
    BY <2>2, GetNewStep, GetNewThrowsStep
  <2>3. CASE Setup(t) \/ SetupFails(t) \/ FinishError(t)
    BY <2>3, SetupStep, SetupFailsStep, FinishErrorStep
  <2>4. CASE Send(t) \/ SendNoMemory(t) \/ Disown(t)
    BY <2>4, SendStep, SendNoMemoryStep, DisownStep
  <2>5. CASE CbSent(t) \/ CbFailed(t) \/ CbReplied(t) \/ CbCopyFails(t)
    BY <2>5, CbSentStep, CbFailedStep, CbRepliedStep, CbCopyFailsStep
  <2>6. CASE rest_http_fatal(t) \/ FatalThrows(t)
    BY <2>6, FatalStep, DeleteStep
  <2>7. CASE rest_recycle_job(t) \/ RecycleThrows(t) \/ PutPush(t)
    BY <2>7, RecycleStep, DeleteStep, PutPushStep
  <2> QED BY <1>2, <2>1, <2>2, <2>3, <2>4, <2>5, <2>6, <2>7 DEF Run
<1>3. ASSUME NEW t \in Threads, NEW r \in Requests, rest_handle(t, r) PROVE IInv'
  BY <1>3, HandleStep
<1>4. ASSUME NEW t \in Threads, NEW j \in Jobs, rest_job_cb(t, j) PROVE IInv'
  BY <1>4, CallbackStep
<1>5. ASSUME NEW j \in Jobs, Complete(j) \/ RecvFails(j) \/ InprocRecv(j) PROVE IInv'
  BY <1>5, SendDoneStep, OperationFails, RecvDoneStep, InprocRecvStep DEF Complete
<1>6. ASSUME NEW r \in Requests, Collect(r) PROVE IInv'
  BY <1>6, CollectStep
<1>7. CASE InprocSend
  BY <1>7, InprocSendStep
<1>8. CASE InprocThrows
  BY <1>8, NothingMoves DEF InprocThrows
<1>9. CASE UNCHANGED vars
  BY <1>9, NothingMoves DEF vars
<1> QED
  BY <1>1, <1>2, <1>3, <1>4, <1>5, <1>6, <1>7, <1>8, <1>9 DEF Next, Terminated

\* The invariant holds in every state that the server reaches.
LEMMA Invariance == Spec => []IInv
  BY InitIInv, NextIInv, PTL DEF Spec

-----------------------------------------------------------------------------
(* The theorems.                                                           *)

\* In every state of server.cpp, with any number of callback threads, HTTP
\* requests and jobs, each variable has its type: no answer is ever the bare
\* response object, and inproc_server works on a request of this program.
THEOREM TypeCorrect == Spec => []TypeOK
  BY Invariance, PTL DEF IInv

\* A job that exists is owned once: by one link of the freelist, one thread's
\* unique_ptr or one armed aio, although rest_handle and rest_job_cb arm the
\* aio before they release their pointer, and the lock is dropped between
\* rest_get_job and rest_recycle_job.
THEOREM OneOwner == Spec => []JobHasOneOwner
<1>1. IInv => JobHasOneOwner
  <2> SUFFICES ASSUME IInv, NEW j \in Jobs, job[j].memory = "live"
               PROVE  Count({k \in Jobs : job[k].next = j})
                        + Count({x \in {job_freelist} : x = j})
                        + Count({t \in Threads : own[t] = j /\ pc[t] # "disown"})
                        + Count({x \in {job[j].aio} : x # "idle"}) = 1
    BY DEF JobHasOneOwner
  <2> DEFINE L == {k \in Jobs : job[k].next = j}
             F == {x \in {job_freelist} : x = j}
             H == {t \in Threads : own[t] = j /\ pc[t] # "disown"}
             A == {x \in {job[j].aio} : x # "idle"}
  <2>1. Owned(j) /\ NotTwice(j)
    BY DEF IInv, Ownership, Live
  <2>2. /\ \A x : Cardinality({x}) = 1
        /\ Cardinality({}) = 0
    BY FS_Singleton, FS_EmptySet
  <2>3. CASE job_freelist = j
    <3>1. L = {} /\ F = {j} /\ H = {} /\ A = {}
      BY <2>1, <2>3 DEF NotTwice, Linked, Holds, Armed
    <3> HIDE DEF L, F, H, A
    <3>2. Count(L) = 0 /\ Count(F) = 1 /\ Count(H) = 0 /\ Count(A) = 0
      BY <2>2, <3>1 DEF Count
    <3> QED BY <3>2 DEF L, F, H, A
  <2>4. CASE \E k \in Jobs : Linked(k, j)
    <3>0. PICK k \in Jobs : Linked(k, j)
      BY <2>4
    <3>1. L = {k} /\ F = {} /\ H = {} /\ A = {}
      BY <2>1, <3>0 DEF NotTwice, Linked, Holds, Armed
    <3> HIDE DEF L, F, H, A
    <3>2. Count(L) = 1 /\ Count(F) = 0 /\ Count(H) = 0 /\ Count(A) = 0
      BY <2>2, <3>1 DEF Count
    <3> QED BY <3>2 DEF L, F, H, A
  <2>5. CASE \E t \in Threads : Holds(t, j)
    <3>0. PICK t \in Threads : Holds(t, j)
      BY <2>5
    <3>1. L = {} /\ F = {} /\ H = {t} /\ A = {}
      BY <2>1, <3>0 DEF NotTwice, Linked, Holds, Armed
    <3> HIDE DEF L, F, H, A
    <3>2. Count(L) = 0 /\ Count(F) = 0 /\ Count(H) = 1 /\ Count(A) = 0
      BY <2>2, <3>1 DEF Count
    <3> QED BY <3>2 DEF L, F, H, A
  <2>6. CASE Armed(j)
    <3>1. L = {} /\ F = {} /\ H = {} /\ A = {job[j].aio}
      BY <2>1, <2>6 DEF NotTwice, Linked, Holds, Armed
    <3> HIDE DEF L, F, H, A
    <3>2. Count(L) = 0 /\ Count(F) = 0 /\ Count(H) = 0 /\ Count(A) = 1
      BY <2>2, <3>1 DEF Count
    <3> QED BY <3>2 DEF L, F, H, A
  <2> QED BY <2>1, <2>3, <2>4, <2>5, <2>6 DEF Owned
<1> QED BY <1>1, Invariance, PTL

\* The message in the aio of job j: none while the aio receives or after a
\* receive that failed; outside the aio's operations and its callback, only
\* one whose send has failed.
InCallback(j) == \E t \in Threads : pc[t] = "callback" /\ own[t] = j
Kept(j) ==
  job[j].aio_msg # Null => job[j].state = "SEND_REQ" /\ job[j].result = "error"
AioMessage(j) ==
  /\ job[j].aio = "recv" => job[j].aio_msg = Null
  /\ job[j].state = "RECV_REP" /\ job[j].result = "error" =>
       job[j].aio_msg = Null
  /\ job[j].aio = "idle" /\ ~InCallback(j) => Kept(j)
AioMessages == \A j \in Jobs : AioMessage(j)

\* A step leaves job j's aio, and what AioMessage says of it, alone.
SameAio(j) ==
  /\ job'[j].aio = job[j].aio
  /\ job'[j].aio_msg = job[j].aio_msg
  /\ job'[j].state = job[j].state
  /\ job'[j].result = job[j].result

\* Who is not in a callback, or not of j, does not end a callback of j.
CallbacksGoOn(j) ==
  \A t \in Threads :
    pc[t] = "callback" /\ own[t] = j => pc'[t] = "callback" /\ own'[t] = j

\* Such a step keeps AioMessage.
LEMMA AioFrame ==
  ASSUME AioMessages, NEW j \in Jobs, SameAio(j), CallbacksGoOn(j)
  PROVE  AioMessage(j)'
<1>1. InCallback(j) => InCallback(j)'
  BY DEF InCallback, CallbacksGoOn
<1> QED BY <1>1 DEF AioMessages, AioMessage, SameAio, Kept

\* A thread outside of callbacks ends none.
LEMMA OutsideCallbacks ==
  ASSUME TypeOK, NEW t \in Threads, pc[t] # "callback", NEW a, NEW b,
         pc' = [pc EXCEPT ![t] = a], own' = [own EXCEPT ![t] = b]
  PROVE  \A j \in Jobs : CallbacksGoOn(j)
BY DEF TypeOK, CallbacksGoOn

\* A thread that leaves the callback of a job ends that one only.
LEMMA CallbackEnds ==
  ASSUME TypeOK, NEW t \in Threads, NEW a,
         pc' = [pc EXCEPT ![t] = a], own' = own
  PROVE  \A j \in Jobs \ {own[t]} : CallbacksGoOn(j)
BY DEF TypeOK, CallbacksGoOn

\* The messages in the aios of the jobs, over the steps of a thread that is in
\* rest_handle, or past the decision of its callback.
LEMMA AioMessagesOutside ==
  ASSUME TypeOK, AioMessages, NEW t \in Threads, pc[t] # "callback",
         Lock(t) \/ Run(t)
  PROVE  AioMessages'
<1> SUFFICES ASSUME NEW j \in Jobs PROVE AioMessage(j)'
  BY DEF AioMessages
<1>1. job[j] \in JobType /\ job \in [Jobs -> JobType]
  BY DEF TypeOK
<1>2. CallbacksGoOn(j)
  <2>1. \E a : pc' = [pc EXCEPT ![t] = a]
    BY DEF Lock, Run, GetLock, PutLock, GetPop, GetNew, GetNewThrows, Setup,
       SetupFails, FinishError, Send, SendNoMemory, Disown, CbSent, CbFailed,
       CbReplied, CbCopyFails, rest_http_fatal, FatalThrows, rest_recycle_job,
       RecycleThrows, PutPush, ToPc, Return, Exit
  <2>2. own[t] = own[t] /\ own = [own EXCEPT ![t] = own[t]]
    BY DEF TypeOK
  <2>3. \E b : own' = [own EXCEPT ![t] = b]
    BY <2>2 DEF Lock, Run, GetLock, PutLock, GetPop, GetNew, GetNewThrows, Setup,
       SetupFails, FinishError, Send, SendNoMemory, Disown, CbSent, CbFailed,
       CbReplied, CbCopyFails, rest_http_fatal, FatalThrows, rest_recycle_job,
       RecycleThrows, PutPush, ToPc, Return, Exit
  <2> QED BY <2>1, <2>3, OutsideCallbacks
<1>3. CASE Send(t)
  <2>1. CASE j = own[t]
    <3>1. job'[j].aio = "send" /\ job'[j].state = "SEND_REQ"
      BY <1>1, <1>3, <2>1 DEF Send, JobType
    <3> QED BY <3>1 DEF AioMessage
  <2>2. CASE j # own[t]
    <3>1. SameAio(j)
      BY <1>1, <1>3, <2>2 DEF Send, SameAio
    <3> QED BY <1>2, <3>1, AioFrame
  <2> QED BY <2>1, <2>2
<1>4. CASE GetNew(t)
  <2>1. PICK k \in Jobs : job' = [job EXCEPT ![k] = NewJob]
    BY <1>4 DEF GetNew
  <2>2. CASE j = k
    <3>1. job'[j] = NewJob
      BY <1>1, <2>1, <2>2
    <3>2. job'[j].aio = "idle" /\ job'[j].aio_msg = Null
      BY <3>1 DEF NewJob
    <3> QED BY <3>2 DEF AioMessage, Kept
  <2>3. CASE j # k
    <3>1. SameAio(j)
      BY <1>1, <2>1, <2>3 DEF SameAio
    <3> QED BY <1>2, <3>1, AioFrame
  <2> QED BY <2>2, <2>3
<1>5. CASE \/ GetLock(t) \/ FinishError(t) \/ SendNoMemory(t) \/ Disown(t)
           \/ GetNewThrows(t) \/ PutPush(t)
  <2>1. job' = job
    BY <1>5 DEF GetLock, FinishError, SendNoMemory, Disown, GetNewThrows,
                PutPush
  <2> QED BY <1>2, <2>1, AioFrame DEF SameAio
<1>6. CASE \/ PutLock(t) \/ GetPop(t) \/ Setup(t) \/ SetupFails(t)
           \/ rest_http_fatal(t) \/ FatalThrows(t)
           \/ rest_recycle_job(t) \/ RecycleThrows(t)
  <2>1. SameAio(j)
    BY <1>1, <1>6 DEF PutLock, GetPop, Setup, SetupFails, rest_http_fatal,
                      FatalThrows, rest_recycle_job, RecycleThrows, SameAio,
                      JobType
  <2> QED BY <1>2, <2>1, AioFrame
<1> QED BY <1>3, <1>4, <1>5, <1>6
        DEF Lock, Run, CbSent, CbFailed, CbReplied, CbCopyFails

\* A callback that begins: the job's aio is idle, but for a while the message
\* may be that of a successful operation.
LEMMA AioMessagesBegin ==
  ASSUME TypeOK, AioMessages, NEW t \in Threads, NEW k \in Jobs,
         rest_job_cb(t, k)
  PROVE  AioMessages'
<1> SUFFICES ASSUME NEW j \in Jobs PROVE AioMessage(j)'
  BY DEF AioMessages
<1>1. job[j] \in JobType /\ job \in [Jobs -> JobType]
  BY DEF TypeOK
<1>2. CASE j = k
  <2>1. /\ job'[j].aio = "idle" /\ job'[j].aio_msg = job[j].aio_msg
        /\ job'[j].state = job[j].state /\ job'[j].result = job[j].result
    BY <1>1, <1>2 DEF rest_job_cb, JobType
  <2>2. InCallback(j)'
    BY <1>2 DEF rest_job_cb, InCallback, TypeOK
  <2> QED BY <2>1, <2>2 DEF AioMessages, AioMessage
<1>3. CASE j # k
  <2>1. SameAio(j)
    BY <1>1, <1>3 DEF rest_job_cb, SameAio
  <2>2. CallbacksGoOn(j)
    BY OutsideCallbacks DEF rest_job_cb
  <2> QED BY <2>1, <2>2, AioFrame
<1> QED BY <1>2, <1>3

\* A callback decides: the message has been sent, has been taken out, or is
\* that of a failed operation.
LEMMA AioMessagesCallback ==
  ASSUME TypeOK, AioMessages, NEW t \in Threads,
         CbSent(t) \/ CbFailed(t) \/ CbReplied(t) \/ CbCopyFails(t)
  PROVE  AioMessages'
<1> SUFFICES ASSUME NEW j \in Jobs PROVE AioMessage(j)'
  BY DEF AioMessages
<1>1. job[j] \in JobType /\ job \in [Jobs -> JobType]
  BY DEF TypeOK
<1>2. own' = own /\ \E a : pc' = [pc EXCEPT ![t] = a]
  BY DEF CbSent, CbFailed, CbReplied, CbCopyFails, ToPc
<1>3. CASE j = own[t]
  <2>1. CASE CbSent(t)
    <3>1. /\ job'[j].aio = "recv" /\ job'[j].aio_msg = Null
      BY <1>1, <1>3, <2>1 DEF CbSent, JobType
    <3> QED BY <3>1 DEF AioMessage
  <2>2. CASE CbFailed(t)
    <3>1. job' = job /\ job[j].result = "error"
      BY <1>3, <2>2 DEF CbFailed, Job
    <3>2. job[j].state \in {"SEND_REQ", "RECV_REP"}
      BY <1>1 DEF JobType
    <3> QED BY <3>1, <3>2 DEF AioMessages, AioMessage, Kept
  <2>3. CASE CbReplied(t) \/ CbCopyFails(t)
    <3>1. job'[j].aio_msg = Null
      BY <1>1, <1>3, <2>3 DEF CbReplied, CbCopyFails, JobType
    <3> QED BY <3>1 DEF AioMessage, Kept
  <2> QED BY <2>1, <2>2, <2>3
<1>4. CASE j # own[t]
  <2>1. SameAio(j)
    BY <1>1, <1>4 DEF CbSent, CbFailed, CbReplied, CbCopyFails, SameAio
  <2>2. CallbacksGoOn(j)
    BY <1>2, <1>4, CallbackEnds
  <2> QED BY <2>1, <2>2, AioFrame
<1> QED BY <1>3, <1>4

\* nng completes an operation of a job's aio, or carries its messages.
LEMMA AioMessagesNng ==
  ASSUME TypeOK, AioMessages, Working, NEW k \in Jobs,
         Complete(k) \/ RecvFails(k) \/ InprocRecv(k)
  PROVE  AioMessages'
<1> SUFFICES ASSUME NEW j \in Jobs PROVE AioMessage(j)'
  BY DEF AioMessages
<1>1. job[j] \in JobType /\ job \in [Jobs -> JobType]
  BY DEF TypeOK
<1>2. CallbacksGoOn(j)
  BY DEF CallbacksGoOn, Complete, SendDone, SendFails, RecvDone, RecvFails,
         InprocRecv, thread
<1>3. CASE j # k \/ InprocRecv(k)
  <2>1. SameAio(j)
    BY <1>1, <1>3 DEF SameAio, Complete, SendDone, SendFails, RecvDone,
                      RecvFails, InprocRecv, JobType
  <2> QED BY <1>2, <2>1, AioFrame
<1>4. CASE j = k /\ (SendDone(k) \/ RecvDone(k))
  <2>1. job'[j].aio = "done" /\ job'[j].result = "success"
    BY <1>1, <1>4 DEF SendDone, RecvDone, JobType
  <2> QED BY <2>1 DEF AioMessage
<1>5. CASE j = k /\ SendFails(k)
  <2>1. job'[j].aio = "done" /\ job'[j].state = job[j].state /\ job[j].aio = "send"
    BY <1>1, <1>5 DEF SendFails, JobType
  <2>2. job[j].state = "SEND_REQ"
    BY <2>1 DEF Working, ArmedJobs, WithNng
  <2> QED BY <2>1, <2>2 DEF AioMessage
<1>6. CASE j = k /\ RecvFails(k)
  <2>1. /\ job'[j].aio = "done" /\ job[j].aio = "recv"
        /\ job'[j].aio_msg = job[j].aio_msg
    BY <1>1, <1>6 DEF RecvFails, JobType
  <2> QED BY <2>1 DEF AioMessages, AioMessage
<1> QED BY <1>3, <1>4, <1>5, <1>6 DEF Complete

\* The steps that leave the threads alone and the aios of the jobs.
LEMMA AioMessagesElsewhere ==
  ASSUME TypeOK, AioMessages, UNCHANGED <<pc, own>>,
         \A j \in Jobs : SameAio(j)
  PROVE  AioMessages'
BY AioFrame DEF AioMessages, CallbacksGoOn

\* Every step keeps AioMessages.
LEMMA AioMessagesStep == IInv /\ AioMessages /\ [Next]_vars => AioMessages'
<1> SUFFICES ASSUME IInv, AioMessages, [Next]_vars PROVE AioMessages'
  OBVIOUS
<1>0. TypeOK /\ job \in [Jobs -> JobType]
  BY DEF IInv, TypeOK
<1>1. ASSUME NEW t \in Threads, Lock(t) \/ Run(t) PROVE AioMessages'
  <2>1. CASE pc[t] # "callback"
    BY <1>0, <1>1, <2>1, AioMessagesOutside
  <2>2. CASE pc[t] = "callback"
    <3>1. CbSent(t) \/ CbFailed(t) \/ CbReplied(t) \/ CbCopyFails(t)
      BY <1>1, <2>2 DEF Lock, Run, GetLock, PutLock, GetPop, GetNew,
         GetNewThrows, Setup, SetupFails, FinishError, Send, SendNoMemory,
         Disown, rest_http_fatal, FatalThrows, rest_recycle_job,
         RecycleThrows, PutPush
    <3> QED BY <1>0, <3>1, AioMessagesCallback
  <2> QED BY <2>1, <2>2
<1>2. ASSUME NEW t \in Threads, NEW j \in Jobs, rest_job_cb(t, j)
      PROVE  AioMessages'
  BY <1>0, <1>2, AioMessagesBegin
<1>3. ASSUME NEW j \in Jobs, Complete(j) \/ RecvFails(j) \/ InprocRecv(j)
      PROVE  AioMessages'
  <2>1. ~exited
    BY <1>3 DEF Complete, SendDone, SendFails, RecvDone, RecvFails, InprocRecv
  <2> QED BY <1>0, <1>3, <2>1, AioMessagesNng DEF IInv
<1>4. ASSUME NEW t \in Threads, NEW r \in Requests, rest_handle(t, r)
      PROVE  AioMessages'
  <2>1. \A j \in Jobs : SameAio(j)
    BY <1>4 DEF rest_handle, SameAio
  <2>2. \A j \in Jobs : CallbacksGoOn(j)
    BY <1>0, <1>4 DEF rest_handle, CallbacksGoOn, TypeOK
  <2> QED BY <2>1, <2>2, AioFrame DEF AioMessages
<1>5. CASE InprocSend
  <2>1. \A j \in Jobs : SameAio(j)
    BY <1>0, <1>5 DEF InprocSend, SameAio, JobType
  <2> QED BY <1>0, <1>5, <2>1, AioMessagesElsewhere DEF InprocSend, thread
<1>6. CASE (\E r \in Requests : Collect(r)) \/ InprocThrows \/ UNCHANGED vars
  <2>1. UNCHANGED <<pc, own, job>>
    BY <1>6 DEF Collect, InprocThrows, vars, thread
  <2> QED BY <1>0, <2>1, AioMessagesElsewhere DEF SameAio
<1> QED BY <1>1, <1>2, <1>3, <1>4, <1>5, <1>6 DEF Next, Terminated

\* Initially the jobs' aios have no message.
LEMMA AioMessagesInit == Init => AioMessages
<1> SUFFICES ASSUME Init, NEW j \in Jobs PROVE AioMessage(j)
  BY DEF AioMessages
<1>1. job[j] = [NewJob EXCEPT !.memory = "none"]
  BY DEF Init
<1>2. job[j].aio_msg = Null
  BY <1>1 DEF NewJob
<1> QED BY <1>2 DEF AioMessage, Kept

\* What rest_get_job takes from the freelist carries nothing of the request
\* that the job served before, on whichever path it was recycled, but for the
\* message of a send that failed.
THEOREM CleanFreelist == Spec => []FreeJobsAreClean
<1>1. IInv /\ AioMessages => FreeJobsAreClean
  <2> SUFFICES ASSUME IInv, AioMessages, NEW j \in Jobs, OnFreelist(j)
               PROVE  Kept(j)
    BY DEF IInv, FreeJobsReset, FreeJobsAreClean, Kept
  <2>1. ~Armed(j) /\ \A t \in Threads : ~Holds(t, j)
    BY DEF IInv, Ownership, NotTwice, OnFreelist, Linked
  <2> QED BY <2>1 DEF Armed, Holds, AioMessages, AioMessage, InCallback
<1> QED BY <1>1, AioMessagesInit, AioMessagesStep, Invariance, PTL DEF Spec

\* What a step of the server is to the client: nothing, or the acceptance, the
\* answer or the collection of one request, or the end of the process.
LEMMA StepSimulation == IInv /\ [Next]_vars => [Service!Next]_Service!vars
<1> USE NullAssumption
<1> SUFFICES ASSUME IInv, [Next]_vars,
                    ~UNCHANGED <<http, answer, exited>>
             PROVE  Service!Next
  BY DEF Service!vars
<1>1. ASSUME NEW t \in Threads, Lock(t) PROVE FALSE
  BY <1>1 DEF Lock, GetLock, PutLock
<1>2. ASSUME NEW t \in Threads, Run(t) PROVE Service!Next
  <2>1. CASE FinishError(t)
    <3>1. ~exited /\ arg[t] \in Requests /\ http[arg[t]] = "pending"
      BY <2>1 DEF FinishError, IInv, TypeOK, Working, ThreadsInPlace, HasRequest,
                  RequestsInHands
    <3>2. Service!Reply(arg[t])
      BY <2>1, <3>1 DEF FinishError, Finish, Service!Reply
    <3> QED BY <3>1, <3>2 DEF Service!Next
  <2>2. CASE CbReplied(t)
    <3>1. /\ ~exited /\ Working /\ own[t] \in Jobs /\ Completed(own[t])
          /\ Job(t).state = "RECV_REP" /\ Job(t).result = "success"
      BY <2>2 DEF CbReplied, IInv, TypeOK, Working, ThreadsInPlace, HasJob,
                  HeldJobs, InHand
    <3>2. PICK r \in Requests : Job(t).http_aio = r /\ Job(t).aio_msg = Replied(r)
      BY <3>1 DEF Completed, Job, IInv, TypeOK, JobType
    <3>3. http[r] = "pending"
      BY <3>1, <3>2 DEF Working, RequestsInHands, Job
    <3>4. Service!Reply(r)
      BY <2>2, <3>1, <3>2, <3>3
         DEF CbReplied, Finish, Service!Reply, Service!Rotated, Replied
    <3> QED BY <3>4 DEF Service!Next
  <2>3. CASE rest_http_fatal(t)
    <3>1. /\ ~exited /\ Working /\ own[t] \in Jobs /\ Job(t).http_aio # Null
      BY <2>3 DEF rest_http_fatal, IInv, TypeOK, Working, ThreadsInPlace, HasJob,
                  HeldJobs, InHand
    <3>2. PICK r \in Requests : Job(t).http_aio = r
      BY <3>1 DEF Job, IInv, TypeOK, JobType
    <3>3. http[r] = "pending"
      BY <3>1, <3>2 DEF Working, RequestsInHands, Job
    <3>4. Service!Reply(r)
      BY <2>3, <3>1, <3>2, <3>3 DEF rest_http_fatal, Finish, Service!Reply
    <3> QED BY <3>4 DEF Service!Next
  <2>4. CASE GetNewThrows(t) \/ FatalThrows(t) \/ RecycleThrows(t)
    BY <2>4 DEF GetNewThrows, FatalThrows, RecycleThrows, Exit, Service!Next,
                Service!Exit
  <2>5. CASE GetPop(t) \/ GetNew(t) \/ Setup(t) \/ SetupFails(t) \/ Send(t)
             \/ SendNoMemory(t) \/ Disown(t)
    BY <2>5 DEF GetPop, GetNew, Setup, SetupFails, Send, SendNoMemory, Disown
  <2>6. CASE CbSent(t) \/ CbFailed(t) \/ CbCopyFails(t) \/ rest_recycle_job(t)
             \/ PutPush(t)
    BY <2>6 DEF CbSent, CbFailed, CbCopyFails, rest_recycle_job, PutPush
  <2> QED BY <1>2, <2>1, <2>2, <2>3, <2>4, <2>5, <2>6 DEF Run
<1>3. ASSUME NEW t \in Threads, NEW r \in Requests, rest_handle(t, r)
      PROVE  Service!Next
  BY <1>3 DEF rest_handle, Service!Accept, Service!Next
<1>4. ASSUME NEW t \in Threads, NEW j \in Jobs, rest_job_cb(t, j) PROVE FALSE
  BY <1>4 DEF rest_job_cb
<1>5. ASSUME NEW j \in Jobs, Complete(j) \/ RecvFails(j) \/ InprocRecv(j)
      PROVE  FALSE
  BY <1>5 DEF Complete, SendDone, SendFails, RecvDone, RecvFails, InprocRecv
<1>6. ASSUME NEW r \in Requests, Collect(r) PROVE Service!Next
  BY <1>6 DEF Collect, Service!Collect, Service!Next
<1>7. CASE InprocSend
  BY <1>7 DEF InprocSend
<1>8. CASE InprocThrows
  BY <1>8 DEF InprocThrows, Service!Exit, Service!Next
<1>9. CASE UNCHANGED vars
  BY <1>9 DEF vars
<1> QED
  BY <1>1, <1>2, <1>3, <1>4, <1>5, <1>6, <1>7, <1>8, <1>9 DEF Next, Terminated

\* The server implements the safety part of RestService: a request is accepted
\* when idle, answered once while pending, with its own body rotated or with a
\* failure, and never by a job that was recycled for another request.
THEOREM ServesRequests == Spec => AnswersOnce
<1>1. Init => Service!Init
  BY DEF Init, Service!Init
<1> QED
  BY <1>1, StepSimulation, Invariance, PTL DEF Spec, AnswersOnce, Service!SafeSpec
=============================================================================
