# Verification of nngpp

nngpp is a header-only C++ wrapper of the messaging library nng: views and
owning classes over nng's handles, typed options, exceptions instead of error
codes, and demo programs that use it from callbacks on several threads. This
directory models its ownership rules, its buffers, messages and options, its demo
and measurement programs and those of its tests that use threads or callbacks in
TLA+, checks them with TLC, and proves with TLAPS the ownership rules, that
messages and options give back what was put into them, that the callback servers
answer each client once and with its own reply, and the safety of the demo and
measurement programs and of those tests.

## 1. Inventory

| Part (under `src/`) | State | Operations | What makes it correct |
|---|---|---|---|
| RAII classes, `include/nngpp/{socket,ctx,dialer,listener,pipe,msg,url,aio,stat}.h`, `platform/`, `stream/`, `http/`, `transport/tls/config.h` | one handle each; behind it a resource of nng, for some with a reference count | construct, adopt, acquire, move, copy, assign, destroy, `release()`, give to the library, take back | each reference has one owner; nothing dead is freed; a throwing operation changes nothing (but see finding 1) |
| `buffer.h`, `view.h` | pointer and size | the same, and the size goes back to `nng_free` | size and pointer stay together; copies are independent values |
| options, `option.h`, `*_view.h`, `stream/*_view.h`, `transport/*.h`, `protocol/*.h` | kept by nng, per object and name | 134 dedicated getters and setters, typed members | an option reads as it was set; the accessors have the right type |
| messages, `msg_body.h`, `msg_header.h` | two byte sequences | append, insert, trim, chop, integers of 16, 32, 64 bits | a double-ended queue; header and body independent |
| `aio_view.h` | operation, result, message, inputs and outputs | arm, cancel, wait, finish, set and take the message | callbacks one at a time; the message has one owner |
| sockets with their dialers, listeners, pipes, contexts | a tree in nng | dial, listen, start, close, `pipe_notify`, `device` | children close with the socket; notifications in order |
| `platform/{mtx,cv,thread}` | lock, waiters | lock, wait, wake, join | mutual exclusion; no lost wake-up |
| HTTP server and handlers | handlers, run count | add, remove, start, stop | a handler is owned by program or server |
| `demo/rest/server.cpp` | freelist of jobs, a lock, one job per request, a REP server | handler, callback, recycling | each request answered once, with its own reply |
| `demo/async/server.cpp`, `demo/raw/raw.cpp` | work items of a state machine | one callback per completion | each client gets its own reply; no message lost |
| `demo/async/client.cpp` | none | one request with a delay | the delay reaches the server as it was meant |
| `demo/reqrep` | the server's one buffer | receive, answer, ask | a date shown is a fresh one; bad requests stop nobody |
| `demo/http_client` | one aio, five objects with destructors | connect, write, read, read the body | no operation outlives its objects; 0 means that as much was printed as `atoi` read |
| `perf/` | counters | latency and throughput, as processes or threads | one message per trip; both sides end |
| `test/synch.cpp` | a flag, lock, waiters | notify, wait with and without a deadline | the claims hold in every schedule |
| `test/pipe.cpp` | counters per socket, the last pipe | pipe callbacks; close, reject, reconnect | the callbacks find what they look for, until the end |
| `test/scalability.cpp` | a socket that two threads use | serve, transact, stop | stop ends the server thread |
| `test/{tcpsupp,ipcsupp}.cpp` | four aios, two streams | dial, accept, send, receive | results are looked at when there are any |

Interaction: a view calls nng and turns error codes into exceptions; an owning
class ends what it holds in its destructor and its assignments; `send( msg&& )`
and `add_handler( handler&& )` pass ownership to nng when they succeed; nng
calls back on its own threads, once per completed aio.

The hard parts are failure in the middle of an operation (a close or a
duplication that fails inside an assignment), ownership that travels through
callbacks (a job is at times owned by the aio armed with it), races between the
thread that arms an aio and the callback it causes, and reuse of recycled
objects. `PROJECT.json` lists the hazards with their lines.

## 2. Modules

| Module | Models | Used by |
|---|---|---|
| `RaiiClasses` | the 22 classes, each as a record of what distinguishes it | `Raii` |
| `Raii` | the life of the objects of one class and of the resources behind them | `MCRaii`, `RaiiProofs` |
| `RaiiProofs` | theorems about `Raii` | |
| `BufferValues` | abstract: a buffer is a value | `Buffer` |
| `Buffer` | `nng::buffer` over an allocator | `MCBuffer`, `BufferProofs` |
| `BufferProofs` | theorems about `Buffer`, among them the refinement of `BufferValues` | |
| `OptionTables` | enums, arrays of names and types, dedicated accessors; the library's own names and types | `Options` |
| `Options` | options of a socket and of one object made from it | `Roundtrip`, `MCOptions` |
| `RestService` | abstract: what the REST demo promises to its clients | `RestServer` |
| `RestServer` | `demo/rest/server.cpp` | `MCRestServer`, `MCRestService`, `RestServerProofs` |
| `RestServerProofs` | theorems about `RestServer`, among them the refinement of the safety part of `RestService` | |
| `RestMain` | the start and the end of that program's process | `Programs` |
| `AsyncServer` | `demo/async/{server,client}.cpp` and `demo/raw/raw.cpp` | `MCAsyncServer`, `AsyncServerProofs` |
| `AsyncServerProofs` | theorems about `AsyncServer` | |
| `BigEndian` | integers as bytes, and the conversions between int and unsigned int | `Msg`, `AsyncServer`, `ReqRep` |
| `BigEndianProofs` | theorems about these conversions | `AsyncServerProofs`, `ProgramsProofs`, `RoundtripProofs` |
| `Msg` | header and body of messages | `Roundtrip` |
| `Roundtrip` | `Options` and `Msg` side by side | `MCRoundtrip`, `RoundtripProofs` |
| `RoundtripProofs` | theorems about `Options` and `Msg` | |
| `ReqRep` | `demo/reqrep/reqrep.cpp` | `Programs` |
| `HttpClient` | `demo/http_client/http_client.cpp` | `Programs` |
| `Perf` | `perf/` | `Programs` |
| `Programs` | the four programs of which one runs: `ReqRep`, `Perf`, `RestMain` or `HttpClient` | `MCPrograms`, `ProgramsProofs` |
| `ProgramsProofs` | theorems about the four programs | |
| `Synch` | mutex, condition variable and thread, in `test/synch.cpp` | `Tests` |
| `PipeNotify` | dialers, listeners and pipe callbacks, in `test/pipe.cpp` | `Tests` |
| `Scalability` | a socket replaced under another thread, in `test/scalability.cpp` | `Tests` |
| `StreamPair` | stream operations, in `test/tcpsupp.cpp` and `test/ipcsupp.cpp` | `Tests` |
| `Tests` | the executable of the tests, of which one case runs | `MCTests`, `TestsProofs` |
| `TestsProofs` | theorems about these test cases | |

An operator whose comment says "Mutation of X" is a plausible wrong version of
the definition that follows it; nothing of the specifications uses it. It shows
that the property it is listed with (`PROJECT.json`, "mutants") can fail.

### Raii

`obj` is the handle in each object, `refs` the references that exist on each
resource, `raw` and `lib` those that the program holds as bare handles and that
nng owns; `closed` are resources that were closed from elsewhere, `abandoned`
those that a destructor could not close. `thrown` and `fault` record how the
last operation ended and whether anything dead was used. Each constructor,
assignment and other member is one action; where it can throw, a second action
(`...Throws`) is the exit by exception. The class is a variable that never
changes, so that one run covers all 22; classes with equal traits share their
states. `CopyAssignThrows` is the first finding: it leaves an object with a freed
handle, and from then on nothing can be promised, since the library may give the
same address to something new. `dangling` counts these objects (`MaxDangling`
bounds them); the safety invariants are about behaviours without one, and
`ThrowChangesNothing` names this operation as its exception and says exactly what
it changes. `NothingFreedTwice` makes no exception, and is violated.

What nng does (free, close, duplicate, hold) is external. A close returns
success, closed (when the resource was closed elsewhere), or another error,
after which it has had no effect. A failed duplication leaves its output alone.
Copies of an empty `msg` or `url` are left out: the C functions take no null.

### Buffer

`buf` has the members `d` and `s` of each buffer, `live`, `size` and `bytes`
the allocator's blocks. The bytes of a block are one token, which is enough to
tell a copy from another value; a fresh block contains any token. `nng_alloc`
may fail at any time, also for size 0. `call` is the last operation and its
operands, for the refinement: `ImplementsBufferValues` maps the buffer to its
value and shows that every step is the value operation of the same name.

### Options

A behaviour uses two options and two objects, the socket and one other; all
1953 choices of one or two of the 62 options and all kinds of object are
initial states; the streams with their dialers and listeners are among the
kinds. Interference between options, if there is any, shows with two
of them. `stored` is what the program believes, per option of nngpp; `val` is what
the library has, per name. `Library` says, apart from nngpp's arrays, which name
means what and has which type; the dedicated functions go through nngpp's arrays
(`to_name`, and `to_type` for `SetTyped`), so that an entry that is swapped,
shifted or repeated stores to, or reads from, another option.

### RestServer

A thread is idle or inside `rest_handle` or `rest_job_cb`. A step ends where
another thread can observe it: at the job lock, when an aio is armed, when an
HTTP aio is finished. Within the lock two steps are distinguished, since the
list is broken between them. A job's fields are those of `rest_job`, with the
parts of its aio (`aio`, `result`, `aio_msg`) and ctx (`ctx`, `wire`) that
matter. The unique_ptr of a thread is `own`; after arming, a thread still has
it until `Disown`. Exceptions that reach the function's last handler end the
process: `exited`. The exit is modelled as taking effect at once, also when the
unwinding frees an aio inside its own callback. A message body is the request
it came from and whether it was rotated: `Rot13` is an involution that
inverts the flag.

### RestMain

Main and the thread of the REP server, each a position in its function. A
request may come at any moment after `start`; it is checked against what the
handler was configured with. Any call of the library may fail: `Throw` unwinds
`rest_start`, and `Unwind` says what becomes of handler and server. Then main
joins `inproc_thr`, which does not end: a process whose start failed hangs, and
one whose start succeeded serves. `ServesUntilExit` says the second. The first is
what the code does and what no property promises or excludes: `FailedStartCleansUp`
only says what the unwinding leaves behind. What the handler does with a request is
`RestServer`.

### AsyncServer

A callback looks at the result and moves the message in one step, and then assigns
the state (`SetState`) and arms the aio (`Arm`) in two more: `todo` is what it has
still to do, in the order of the code. From the arming on the next callback of the
work item may come, so that a state assigned afterwards is seen too late.
`mode` chooses how a reply is routed: by the context (`peer`) or by the message
itself. A request carries the client's number, an int that travels as a `uint32_t`
and becomes an `nng_duration`; or it is too short for `trim_u32`.

### BigEndian and Msg

A byte is a number below `Base`, 256 in the program and 2 for TLC, whose integers
have 32 bits. `Encode` and `Decode` are what the library does with integers of
any width. `Msg` keeps, next to the two byte strings of each message, what the
program believes to have put into each object; one action per kind of operation
and part stands for the functions that differ in width and end (`msg_body.h` and
`msg_header.h` have 24 each). Copies, moves and `realloc` are in it, and a
memory limit at which appending throws.

### ReqRep

Bytes again: the command and the date share the server's buffer, and `PUT64`
shifts a signed number. Clients end, send other things, and are started again;
a request is lost or repeated (`copies`), and the server is restarted. The
socket remembers the client of its last request.

### HttpClient and StreamPair

A program is a sequence of steps, so that the order of calls, waits, tests and
constructions is data; `locals` are the objects alive, and an exception destroys
them, the last one first. An operation that is under way uses objects
(`Uses`), which is what a wrong order would violate. Any step may throw, any
operation may fail or move less than it was asked to. The Content-Length of the
HTTP client's server is a number or text, and `atoi` makes of it what it does: 0 of
text, any int of a number that is none.

### Perf

Both measurements in both deployments, with any arguments on either side. The
programs sleep where they hope for something; `timely` says whether that hope is
justified. `OneMessage` and the end of both are promised when it is, the other
properties whatever the sleeps do. When it is not, or when a call throws, an inproc
program may hang; `Stranded` names the two ways in which it does, and
`EndsOrStranded` says that there is no other.

### Synch and PipeNotify

As above, a program is a sequence of calls. In `Synch` each of two workers
notifies as `notifyafter` does, and main runs any of the test cases. A wait gives
the mutex up, may end without a signal, and takes the mutex again. In
`PipeNotify` the sections of the test case share one model of connections: each
side's pipe runs its callbacks in order, and one reaper runs the last ones.
`members` is what is left of a testcase while it is destroyed. `Throw` is every way
out but the regular one: a constructor, a start, a send or a receive that throws, and
an `expect` whose five seconds are over before the counter has the value, so that the
destruction may begin with a connection half made and callbacks still to come.

### Scalability

The member `rep` is read by the thread and assigned by main without a lock. That
is a data race; of an aligned word, the thread reads the old value or the new
one, and the model lets it read either while the assignment is under way.

### What is assumed of nng

`nng_close` waits for the calls and callbacks that are under way; freeing an aio
ends its operation; one reaper removes pipes in the order of their closing; the
callback of `ADD_POST` runs after that of `ADD_PRE`; a dialer that does not block
tries again; a send that fails breaks the connection of a stream; a context or a
REP socket answers the sender of the last request it received.

## 3. Runs

| Run | Bounds | Checks |
|---|---|---|
| `raii_classes` | 3 objects, 4 handles, at most 3 references on a shared resource, one failed copy assignment | the four invariants and `ThrowChangesNothing` for all classes |
| `raii_copy_assign_fails` | the same, the copyable classes | finds `NothingFreedTwice` violated |
| `buffer_values` | 3 buffers, 3 blocks, sizes 0 to 2, 2 contents | ownership, memory safety, refinement of `BufferValues` |
| `roundtrip`, options | 2 values, two types tried on any name | `GetReturnsWhatWasSet`, `SettersHaveTheRightType` |
| `roundtrip`, messages | 2 objects; 9 bytes in one message, or 4 in two; all widths | `ContentsAsWritten`, `IntegersReadBack` |
| `options_getter_type` | as in `roundtrip` | finds `GettersHaveTheRightType` violated |
| `rest_safety` | 3 threads, 2 requests, 2 jobs | ownership of jobs, clean freelist, `AnswersOnce` |
| `rest_service` | 2 threads and 1 request, or 1 thread and 2 requests; 2 jobs | refinement of `RestService` with its fairness |
| `rest_delete_in_callback`, `rest_message_leak` | 2 threads, 2 requests, 2 jobs | find their properties violated |
| `async` | 2 work items, 3 clients, a negative delay, and requests without one | ownership of messages, `OwnReply`, `SleepsAsAsked`, `EveryRequestServed` |
| `programs`, reqrep | 2 clients, 2 copies of a request, a tick of the clock, 2 other requests | `FreshDatesOnRequest` (`DateIsFresh`, `OnlyDateRequestsAnswered`), `EveryDateRequestAnswered` |
| `programs`, perf | up to 3 messages, queues of 2, sizes 0 and 5 | `MessagesInStep` (`OneMessage`, `MeasuresTheLoop`), its part of `ProgramsEnd` (`BothEnded`, `CompletionWaitEnds`, `EndsOrStranded`) |
| `programs`, rest | sizes below, at and above the limit | `StartIsSafe` (`HandlesAsConfigured`, `StartsInAnyOrder`, `FailedStartCleansUp`), `ServesUntilExit`, which includes that the server gets ready |
| `programs`, http_client | bodies of 0 to 3 bytes, a header with a number from -1 to 4 or with text, or none; ints up to 3 | `ObjectsOutliveOperations`, `PrintsWhatCame` (with `ZeroMeansDone`), its part of `ProgramsEnd` |
| `tests`, synch | 2 workers, all test cases | `RequiresHold` (in `ClaimsHold`), `NoMisuse` (in `UsedObjectsExist`), `NoLostWakeup` |
| `tests`, pipe | 3 connections (2 are ever made), all sections | `NoErrors` (in `ClaimsHold`), `NoMisuse` (in `UsedObjectsExist`), `LastPipeIsInUse`, its part of `TestsEnd` |
| `tests`, scalability | 4 clients | `ServesUntilStopped` (in `ClaimsHold`), `StopEndsThread`, its part of `TestsEnd` |
| `tests`, streams | buffers of 3 bytes, both programs | `PassMeansTransferred` (in `ClaimsHold`), `ObjectsOutliveOperations` and `OwnedStreamsExist` (in `UsedObjectsExist`), its part of `TestsEnd` |

The runs `programs` and `tests` each hold the models of four programs, which do
not interact: at the start one is chosen (`running`), its steps are those of its
module, and the other three stay in one initial state. So the states of a run
are those of the four modules added, not multiplied, and each module's fairness
is assumed for the program that runs. A property of such a run that several
modules have a part in is the conjunction of theirs; each part has a mutant. In
`roundtrip` a behaviour either uses options or edits messages, in the same way.
Each module with a run that passes also has its `TypeOK` checked (that of `Msg`
in `ContentsAsWritten`), except `Options`.

Why the bounds are enough. Raii: an operation involves two objects and three
handles; the third object and the fourth handle are there to be disturbed, and
the proofs remove the bound. Buffer: likewise, with sizes that differ, agree and
are 0. RestServer: a request can be in the hands of one thread while another
recycles the job and a third takes it from the freelist; more jobs than two only
make the list longer. The refinement with fairness is checked on two smaller
instances in one run (`second` says of what there are two), since the instance
with two threads and two requests has over a million states. AsyncServer: more
clients than work items, so that requests wait; one delay is enough, since a
delay is only copied, and a negative one, since the conversion of the others is the
identity (`SleepsExactly` is for all of them). Msg: nine bytes hold an integer
of 8 with another byte before or behind it, or one of 4 among others; four bytes
are enough to see whether two messages share anything; with `Base = 2` all bytes
of a number are told apart. ReqRep: a request can be repeated while the other
client's is handled. Perf: more messages than a queue holds. PipeNotify: the
test closes one connection, so that there are two. Scalability: clients with a
reply, one that is being served and one that waits; the program has 200. The
remaining modules have the size of their programs. In the servers, requests,
jobs and objects are reused, so that behaviours do not end.

Symmetry is used in safety runs only, over sets of model values that the
specifications treat alike. Deadlock is checked for the servers and the classes;
after `exit(1)` the demo servers stutter explicitly (`Terminated`). It is not
checked in `programs` and `tests`, whose programs end: there `ProgramsEnd`,
`ServesUntilExit`, `NoLostWakeup`, `StopEndsThread` and `TestsEnd` say where a program
may stop.

Fairness. Threads inside a callback go on (weak fairness of `Run`, `server_cb`);
nng completes a send, a sleep, and a receive whose reply is there (weak
fairness of the completions; the receive of an answer that never comes is not
assumed to complete). The job lock, the queue of completed aios and the REP
socket serve everybody in turn (strong fairness of `Lock`, `rest_job_cb`,
`InprocRecv`, `RecvDone`): a waiting thread or message is not passed over
forever. New requests, failures and exceptions are never assumed to happen.
In the other modules a program's threads run on (weak fairness of `Main`,
`Inproc`, `Thread`, `ServerStep` and so on), and nng does what is due: it completes
an operation that can be completed, connects, runs the callbacks of pipes and the
reaper, hands requests out in turn (strong fairness of `Recv`). In particular:

* `ReqRep`: a REQ socket sends again until it has a reply, and a request that is
  sent again and again arrives in the end (strong fairness of `Arrive`).
* `Synch`: a thread that wants the mutex again and again gets it (strong fairness
  of `Step`). A deadline or a spurious wake-up is not assumed to come.
* `Scalability`: a receive timeout passes, and a call on a closed socket fails;
  a call on an open one is not assumed to.
* `StreamPair`: an operation completes when the other side has done its part or
  is gone, and not before.
* `HttpClient`: a server answers or breaks off; the program sets no timeout.
* `Perf`: that a sleep is long enough is the variable `timely` and no fairness.

## 4. Theorems

`RaiiProofs` proves, for every set of objects and handles and every set of
classes in which no reference-counted class has a fallible close:

* `TypeCorrect`: `Spec => []TypeOK`
* `OneOwner`: `Spec => []RefsHaveOneOwner`
* `Safe`: `Spec => []NoFault`
* `Unique`: `Spec => []UniqueOwner`
* `StrongGuarantee`: `Spec => ThrowChangesNothing`

All but the first name the failed copy assignment as their exception.

Assumptions on the constants: the set of objects is finite, null and "no
object" are not handles, classes are trait records, no class is both shared
and fallible (true of all 22; TLC checks it), and the bounds are natural numbers.

The inductive invariant is `IInv == TypeOK /\ (dangling = 0 => Owned)`, where
`Owned` is `Accounts /\ NoneDead /\ Exclusive`: `RefsHaveOneOwner` and `NoFault` of
behaviours in which no copy assignment has failed. That nothing dead is used is not
inductive alone: a state in which an object holds
a handle without a reference has no fault yet and gets one at the next
destructor. `Accounts` excludes that, since whoever frees held a
reference. It is not inductive either: `abandoned` is a set, so that a second
reference to an abandoned resource would break the count. `Exclusive` (a class
that is not reference-counted has at most one reference per resource) excludes
it, together with the assumption that only unshared classes have a close that
fails. The lemmas `HoldersUpdate` and `HoldersMove` say how the number of
objects that hold a handle changes when one object changes and when two do;
`AccountUpdate`, `AccountMove` and `AccountSame` turn them into the balance of
references, and each action has a lemma that uses one of these.

`BufferProofs` proves, for every set of buffers, blocks, sizes and contents:

* `TypeCorrect`: `Spec => []TypeOK`
* `OneOwner`: `Spec => []BlockHasOneOwner`
* `Safe`: `Spec => []NoFault`
* `Refinement`: `Spec => ImplementsBufferValues`

Assumptions: null and "no object" are not blocks, "no object" is neither a pair
of members nor a value, and sizes are naturals with 0 among them.

Here the invariant is `IInv == TypeOK /\ BlockHasOneOwner /\ NoFault`. That an
owner knows the size of its block makes the next `nng_free` and `memcpy` right
(`OwnerMay`); that owners do not share makes a free or an overwrite leave the
other buffers alone (`OthersApart`). `OwnerGains` covers the four operations
that give a buffer a block, the one that may get back the address it has just
freed included. For the refinement, `Kept(p)` says that nothing `p`'s value
depends on changes; one `MapsTo` lemma per abstract operation turns it into a
step of `BufferValues`, and `ValuesStep` shows which one each member function is.

`AsyncServerProofs` proves, for any number of work items and clients and any set
of delays:

* `OneMessage`: `Spec => []MessageHasOneOwner`
* `RepliesAreOwn`: `Spec => []OwnReply`

Assumptions: there is a work item, null is not a message, and a delay fits into an
int of four bytes. The set of clients need not be finite.

`OwnReply` is far from inductive, since a reply is decided when the request
arrives and sent two callbacks later. `IInv` says where each work item is in its
cycle: it is `Free`, or it is `Serving` one client, whose request it has
`Received`, for which it is `Sleeping`, or to which it is `Sending`. Each of these
fixes the state, what the aio is doing, where the message is and what is in it, and
holds from the step that moves the message on: the callback then has still to assign
the state, or to arm the aio, or has done both (`Goes`);
and the context's `peer` is the client named in the message, so that both ways
of routing agree (`SendDoneStep`). `HeldIsServed` and `OneServes` say that the
clients whose request was taken and the work items that serve match one to one,
which gives `MessageHasOneOwner`: a client's message is in one of the two places
of one work item (`PlacesOfServed`). `StartedInOrder` is needed for the start by main alone.
The lemmas `Keeps`, `Gains`, `Loses` and `ClientMoves` cover the four ways in which
a step changes who is served; each action has a lemma that uses one of these.

* `TypeCorrect`: `Spec => []TypeOK`
* `SleepsExactly`: `Spec => []SleepsAsAsked`

`TypeOK` says of the duration of a sleep that it fits into an `nng_duration`, which
is a conclusion and no type of a variable. These two need what the delay goes
through, from `int` to `uint32_t`, to four bytes, and back to `nng_duration`. `DInv`
adds to `IInv` that a work item has a duration only while it sleeps or is about to,
and that it is the one asked for. `DelaySurvives` is the
journey of the number, from the lemmas of `BigEndianProofs`.

`BigEndianProofs` shows for every `Base` above 1 that what is read from the one to
eight bytes of a number is the number (`DecodeEncode`; for sums that are written out,
`FourBytes` and `EightBytes`), and that a signed number survives the way through an
unsigned one of the same width (`SignedBack`). The provers know nothing of powers: `PowersAssumption` states the
recursion of `^` up to the eighth power, which TLC evaluates. Quotients and
remainders are handled through their defining equation (`Division`,
`DivisionUnique`). `Decode` is a fold over a set, whose definition takes the
positions in an order that `CHOOSE` leaves open. `SumExists` and `SumUnique` show that
the recursion of the fold has one solution, and `SumAnyOrder` that it is the sum,
whatever the order. This is induction over data, done with sets: were there a number
without the property, there would be a least one (`LeastNumber`, from the library's
`WFMin`), so that a set with 0 and with the successor of each of its members has all
numbers (`Induction`).

`RoundtripProofs` proves, for any set of values:

* `OptionsReadBack`: `Spec => []GetReturnsWhatWasSet`
* `SettersRight`: `Spec => []SettersHaveTheRightType`
* `OneGetterWrong`: `Spec => OnlyOneWrongGetter`, an action property

and for any sets of message objects, addresses, pipes, fields and sizes, and any
limit of memory:

* `MessagesAsWritten`: `M!Spec => []ContentsAsWritten`
* `IntegersComeBack`: `M!Spec => []IntegersReadBack`

Assumptions: null is no value, address or pipe; a field has one, two, four or eight
bytes and a value that fits into them; sizes are natural numbers.

The tables of options are finite, so the facts about them are shown by going through
them, one namespace at a time: the i-th name of an array is the library's name of the
i-th enumerator, and has the i-th type (`LibraryRows`), there are no other names
(`LibraryNames`), no name stands twice (`NamesDistinct`), every
dedicated setter has the type of its option
(`SetterTypes`), and so has every getter but one (`GetterTypes`). It follows that
`to_name` and `to_type` say what the library says (`NameIsRight`, `TypeIsRight`).
`OptionsInv` says that an object that exists has, for each used option, a value in the
library, under the name that the library knows it by, and that it is the one the
program stored. It holds for every pair of
options because two options never have the same name (`NameOfOneOption`).
`OneGetterWrong` says more than finding 2: the getter found there is the only one.

`MsgInv` says that each message has exactly one object, which is right about it:
where the program has a belief of a part, the part is the concatenation of the bytes
of its fields (`Agrees`). Which object has which message has to be part of the
invariant, since an operation writes through the address, and would otherwise
change what another object believes. Each operation of a part is then a fact about
sequences: a field put at one end is its bytes at that end (`BytesFront`,
`BytesBack`), and n bytes taken where a field of width n is leave the bytes of the
other fields, and are its own (`TakeWhole`), from which `DecodeEncode` gives its value.
`FlattenSeq` is recursive; `JoinsExists` and `JoinsFlatten` show by the same induction
that it is the concatenation.

`RestServerProofs` proves, for any sets of threads, jobs and requests:

* `TypeCorrect`: `Spec => []TypeOK`
* `OneOwner`: `Spec => []JobHasOneOwner`
* `CleanFreelist`: `Spec => []FreeJobsAreClean`
* `ServesRequests`: `Spec => AnswersOnce`, the safety part of `RestService`

Assumption: null is neither a job, a thread, a request nor the data of a message.

`IInv == TypeOK /\ Ownership /\ FreeJobsReset /\ (~exited => Working)`.
`Ownership` is `JobHasOneOwner` in first-order terms, without counting: a job
exists when somebody owns it, and no two own it. `Working` says what is true at
each place of a thread's code, and is needed for all of these:

* a thread between the two halves of a change of the freelist has the lock and has
  emptied the list (`LockIsHeld`), so that no other thread meets the broken list;
* the job in a thread's hand is linked to others under the lock only
  (`LinksInPlace`), and is as far as the thread is (`HeldJobs`); one that nng works
  on is as far as its aio is (`ArmedJobs`);
* the conversation of a job's context with the REP server is about the request that
  the job has to answer (`Conversations`), also when the job was recycled while the
  answer to an earlier request was on its way;
* a pending request is in the hands of one thread or one job (`RequestsInHands`).

`FreeJobsReset` is what `rest_recycle_job` resets. `FreeJobsAreClean` adds that the aio
has no message either, with one exception, the message of a failed send (finding 4).

After `exit(1)` only ownership and the freelist are claimed, since the exit may
come at any place. The refinement maps nothing but the visible state: every step is
an acceptance, an answer, an exit or a stutter of the abstract service
(`StepSimulation`), and `RequestsInHands` with `Completed` says that the answer
is given once and is the right one.

`ProgramsProofs` proves, for any clients, bodies, sizes, counts and lengths:

* `TypeCorrect`: `Spec => []TypeOK`
* `ReqFresh`: `Spec => []FreshDatesOnRequest`
* `PerfMessages`: `Spec => []MessagesInStep`
* `RestStart`: `Spec => []StartIsSafe`
* `RestServesUntilExit`: `Spec => R!ServesUntilExit`, the safety half of the run
  property `ServesUntilExit`
* `HttpObjectsAlive`: `Spec => []ObjectsOutliveOperations`
* `HttpPrints`: `Spec => []PrintsWhatCame`

Assumptions: those of the four modules. That of `ReqRep` says that the clock fits
into a `time_t` of eight bytes; in all of them null is none of the values it stands
beside.

There is one invariant per program, and the steps of the others leave it alone.

* `ReqInv`: the date that a client shows is decided by the server, sent as eight
  bytes and read again, so that the invariant follows the bytes. A reply is the
  `Stamp` of a moment after the request (`ReplyIsFresh`); the request that the server
  looks at is that of the client it will reply to (`RequestAtHand`); a client that
  is not running has nothing on its way (`NothingOnItsWay`), which a client that
  is started again needs.
* `PerfInv`: `OneMessage` needs to know that nothing is on its way before the client
  has dialed (`LatencySteps`). `MeasuresTheLoop` needs a balance of what was sent,
  what is queued and what was received, the synchronization message included
  (`NoMoreThanSent`).
* `RestInv`: the handler is configured step by step and goes from `rest_start` to
  the server (`HandlerInPlace`), `refs` says who holds the server (`RefsInPlace`), and
  the thread that main joins does not end (`InprocServes`).
* `HttpInv`: an operation is under way only at the step that waits for it
  (`OneOperation`), what it uses was constructed before (`Constructed`), and a failure
  is seen before anything is printed (`FailureIsSeen`). The buffer has the size that
  `atoi` read, and is full when the read succeeded (`BufferFills`); 0 without output
  is what the program returns when there is no header or `atoi` read 0.

`TestsProofs` proves, for any finite set of workers and any numbers of clients,
connections and bytes:

* `TypeCorrect`: `Spec => []TypeOK`
* `TestsClaims`: `Spec => []ClaimsHold`
* `TestsObjects`: `Spec => []UsedObjectsExist`
* `TestsLastPipe`: `Spec => []LastPipeIsInUse`

Assumptions: those of the four modules. There is a client and a byte to send, the
workers of `Synch` are a finite set that is not empty, and main and null are
neither of them.

`ClaimsHold` leaves one REQUIRE out, that of `synch.cpp:81`, which no order of steps
but only the time makes true (section 5). `UsedObjectsExist` is about every way out of a test
case. `LastPipeIsInUse` is about the frames that `pipe.cpp` exchanges, after the
connection and after the reconnection; after a rejection it exchanges none.

There is one invariant per test program.

* `SynchInv`: who has the mutex follows from where each thread is (`WorkersLock`,
  `MainLocks`), and `did` is the number of workers that have passed their
  notification (`CountsNotifiers`), so that main, when it is woken in the first test
  case, finds all of them done.
* `PipeInv`: the pipe of pull's last event is the one in use because, until the
  destruction begins, every connection but the newest is gone on both sides
  (`OldConnections`). This needs that pull's pipe is closed first, and, since the
  reaper keeps the order of the closings, removed first (`PullFirst`), and that one
  connection at most is closed, by main or by the callback (`BeforeDestruction`);
  it follows that there are two connections at most, whatever `MaxConns`.
  `EventsCounted` relates the counters to the states of the pipes: no callback
  counts an error, as no pipe gets ahead of its `ADD_PRE`. The destruction removes
  a socket only when its pipes are gone (`Prepared`), so that callbacks find the
  mutex. `CallbackRuns` and `PipesClosed` cover the two ways in which the library
  disturbs all this, `PipeMoves` the steps of main that the pipes do not see.
* `ScalInv`: the socket is open, and its id where it belongs, until stop takes it
  (`SocketUntilStop`), and main has the replies of the clients it has passed
  (`RepliesSoFar`).
* `StreamInv`: tables say where each of the two programs makes each object and arms,
  waits for and checks each aio. The objects are those made so far, in this order
  (`LocalsInOrder`), so that those that are left while the program unwinds were made
  before what is gone; an operation is under way between its arming and its wait,
  and afterwards only the accept can be (`UnderWay`); and what was checked is so
  (`StreamsMade`, `Transferred`).

Each inductive invariant was also checked by TLC on the bounds of its run.

Only model-checked:

* all liveness: `ImplementsRestService`, `EveryRequestServed`,
  `EveryDateRequestAnswered`, `ProgramsEnd`, the second half of `ServesUntilExit`,
  `NoLostWakeup`, `StopEndsThread`, `TestsEnd`.

Every other property of the runs that pass is stated by a theorem. Liveness under
fairness is beyond the prover, and the bounds of section 3 apply to it.

## 5. Findings

1. `msg` and `url` copy assignment (`msg.h:33`, `url.h:33`): the old resource is
   freed before the duplication, and when that fails the object keeps the freed
   handle, which its destructor frees again (`raii_copy_assign_fails`).
2. `get_opt_recv_size_max( socket_view )` (`socket_view.h:345`) reads a size as a
   string (`options_getter_type`); the readme promises the correct type.
3. REST demo: an exception on the failure path deallocates a job inside its own
   callback (`rest_delete_in_callback`), which the freelist was made to avoid.
4. REST demo: the message of a failed send stays in the aio of the recycled job
   and is lost when the next one is set (`rest_message_leak`).

Seen while modelling, and allowed by the properties, or named in them, as what the
code does:

* REST demo: when `rest_start` fails, main waits in the join of `inproc_thr`, and
  the program hangs instead of ending with a message (`RestMain`; no property
  excludes it).
* `perf`: an inproc program hangs in the join when the client ends before the server
  has what it waits for, or when the server closes before its last reply has left
  (`Stranded`).
* `test/synch.cpp`: the test case "Timeout works" requires that the thread has not
  notified yet (line 81). That holds when main has waited 10 ms before the thread has
  slept 200; nothing else orders the two, and when main is delayed the test fails,
  although timeout and notification both work (`RequiresHold` makes this exception).
* HTTP client: a Content-Length that is text reads as 0, and the program returns 0
  without printing the body (`ZeroMeansDone`).
* `test/scalability.cpp`: a failed REQUIRE skips `stop`, and the test hangs in the
  destructor of the thread (`TestsEnd`).
* `test/ipcsupp.cpp`: it waits for the accept before it looks at the dial, and hangs
  when that failed; `tcpsupp.cpp` does not (`TestsEnd`).
* The socket of `perf`'s throughput server may close before its completion has
  left; only the client's receive timeout ends its wait (`CompletionWaitEnds`).
* HTTP client demo: the connection is taken into a view (`http_client.cpp:30`) and
  never closed.

## 6. Not modelled, and the plan

Not modelled, since each is a call of the library without state on this side:
`platform.h`, the accessors of HTTP requests and responses, the setters of
`tls::config_view`, the traversal of statistics, transport registration. Not
modelled, since no program here uses it and what it means is nng's: cancel, abort
and stop of an aio and the provider's side (`begin`, `defer`, `finish`),
`device`, `wake_one`, `server_view::stop`, handlers for files and directories,
`transact`, `close` of a stream that is not freed. The untyped `set_opt` and
`get_opt` on a typed option are left out too. The sequential tests (`message.cpp`,
`bus.cpp`, `tls.cpp` and others) and the build files have no behaviour of their own.
`device.cpp` has a thread, but blocks in the library.

Left to the model checker alone: liveness (section 4). What a further step could
add is a model of nng's side of an aio (cancel, abort and stop), against which the
remaining members of `aio_view` would mean something.
