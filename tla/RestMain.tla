------------------------------ MODULE RestMain ------------------------------
(***************************************************************************)
(* The life of the REST demo's process (demo/rest/server.cpp): main starts *)
(* the thread of the REP server, then rest_start makes the REQ socket and  *)
(* the HTTP server with its handler.  What the handler does with a request *)
(* is RestServer; here a request is only accepted, and where it runs into. *)
(*                                                                         *)
(* Of the library (external): a server lives as long as it is held, and    *)
(* owns the handlers that were added to it; a socket that dials without    *)
(* blocking connects once its peer listens.                                *)
(***************************************************************************)
EXTENDS Naturals, Sequences

CONSTANTS
  Sizes,  \* sizes of request bodies
  Limit   \* 128 KB, what rest_start collects at most

\* What the module assumes of its constants
Assumption == Sizes \subseteq Nat /\ Limit \in Nat

VARIABLES
  want,       \* the verb that rest_start asks for: post, or any other
  main,       \* where main is, in rest_start for the most part
  threw,      \* is it unwinding?
  inproc,     \* where the REP server's thread is
  req_sock,   \* is the REQ socket null, open, dialing or connected?
  refs,       \* who holds the HTTP server
  started,    \* does it accept requests?
  handler,    \* the handler: none, with rest_start, with the server, freed
  method,     \* the method it is for
  collect,    \* the size of the bodies that it collects
  handled,    \* the request that entered rest_handle last
  fault,      \* did a call of the library fail?
  exited      \* was exit(1) called?

server == <<refs, started, handler, method, collect>>
ended == <<fault, exited>>
vars == <<want, main, threw, inproc, req_sock, server, handled, ended>>

-----------------------------------------------------------------------------
(* http/misc.h                                                             *)

verb == <<"get", "head", "post", "put", "delete_", "trace", "options",
          "connect", "patch">>

\* Mutation of verb_name: two names are swapped.
verb_name_swapped ==
  <<"GET", "HEAD", "PUT", "POST", "DELETE", "TRACE", "OPTIONS", "CONNECT",
    "PATCH">>

verb_name == <<"GET", "HEAD", "POST", "PUT", "DELETE", "TRACE", "OPTIONS",
               "CONNECT", "PATCH">>

to_name(v) == verb_name[CHOOSE i \in DOMAIN verb : verb[i] = v]

\* What HTTP calls a verb.
Http == [get |-> "GET", head |-> "HEAD", post |-> "POST", put |-> "PUT",
         delete_ |-> "DELETE", trace |-> "TRACE", options |-> "OPTIONS",
         connect |-> "CONNECT", patch |-> "PATCH"]

-----------------------------------------------------------------------------
(* main and rest_start                                                     *)

Goto(from, to) == ~exited /\ main = from /\ ~threw /\ main' = to

\* thread inproc_thr( inproc_server, nullptr )
Thread ==
  /\ Goto("thread", "open")
  /\ inproc' = "open"
  /\ UNCHANGED <<want, threw, req_sock, server, handled, ended>>

Open ==
  /\ Goto("open", "dial")
  /\ req_sock' = "open"
  /\ UNCHANGED <<want, threw, inproc, server, handled, ended>>

\* Mutation of Dial: without flag::nonblock, the peer has to listen.
DialBlocking ==
  /\ Goto("dial", IF inproc = "serve" THEN "hold" ELSE "unwind")
  /\ threw' = (inproc # "serve")
  /\ req_sock' = IF inproc = "serve" THEN "connected" ELSE req_sock
  /\ UNCHANGED <<want, inproc, server, handled, ended>>

\* Mutation of Dial: it is left out.
DialNever ==
  /\ Goto("dial", "hold")
  /\ UNCHANGED <<want, threw, inproc, req_sock, server, handled, ended>>

Dial ==
  /\ Goto("dial", "hold")
  /\ req_sock' = "dialing"
  /\ UNCHANGED <<want, threw, inproc, server, handled, ended>>

Hold ==
  /\ Goto("hold", "alloc")
  /\ refs' = {"rest_start"}
  /\ UNCHANGED <<want, threw, inproc, req_sock, started, handler,
                  method, collect, handled, ended>>

\* The library's defaults are GET, and bodies of up to 1 MB.
Alloc ==
  /\ Goto("alloc", "method")
  /\ handler' = "rest_start"
  /\ method' = "GET"
  /\ UNCHANGED <<want, threw, inproc, req_sock, refs,
                  started, collect, handled, ended>>

set_method ==
  /\ Goto("method", "collect")
  /\ method' = to_name(want)
  /\ UNCHANGED <<want, threw, inproc, req_sock, refs, started,
                  handler, collect, handled, ended>>

collect_body ==
  /\ Goto("collect", "add")
  /\ collect' = Limit
  /\ UNCHANGED <<want, threw, inproc, req_sock, refs, started,
                  handler, method, handled, ended>>

add_handler ==
  /\ Goto("add", "start")
  /\ handler' = "server"
  /\ UNCHANGED <<want, threw, inproc, req_sock, refs, started,
                  method, collect, handled, ended>>

start ==
  /\ Goto("start", "return")
  /\ started' = TRUE
  /\ UNCHANGED <<want, threw, inproc, req_sock, refs, handler,
                  method, collect, handled, ended>>

\* return server: handler goes out of scope, and main's server gets the
\* reference.
ReturnServer ==
  /\ Goto("return", "join")
  /\ refs' = {"main"}
  /\ handler' = IF handler = "rest_start" THEN "freed" ELSE handler
  /\ UNCHANGED <<want, threw, inproc, req_sock, started,
                  method, collect, handled, ended>>

\* Each of these calls may fail, and then throws.
Throw ==
  /\ ~exited /\ ~threw
  /\ main \in {"thread", "open", "dial", "hold", "alloc", "method", "collect",
               "add", "start"}
  /\ threw' = TRUE
  /\ fault' = TRUE
  /\ main' = IF main = "thread" THEN "release" ELSE "unwind"
  /\ UNCHANGED <<want, inproc, req_sock, server, handled, exited>>

\* The end of the server, with the handlers that it owns
Fini(rest) ==
  /\ refs' = rest
  /\ started' = (started /\ rest # {})
  /\ handler' = CASE handler = "rest_start" -> "freed"
                  [] handler = "server" /\ rest = {} -> "freed"
                  [] OTHER -> handler

\* Mutation of Unwind: the reference is kept.
UnwindKeeps ==
  /\ ~exited
  /\ main = "unwind"
  /\ main' = "join"
  /\ Fini(refs)
  /\ UNCHANGED <<want, threw, inproc, req_sock, method, collect, handled,
                  ended>>

\* The locals of rest_start are destroyed: handler, then server.
Unwind ==
  /\ ~exited
  /\ main = "unwind"
  /\ main' = "join"
  /\ Fini(refs \ {"rest_start"})
  /\ UNCHANGED <<want, threw, inproc, req_sock, method,
                  collect, handled, ended>>

\* main returns or unwinds: ~inproc_thr, which waits for the thread's end if
\* there is a thread, and then ~server, which is declared before it.
Return ==
  /\ ~exited
  /\ main \in {"join", "release"}
  /\ main = "join" => inproc = "ended"
  /\ main' = "returned"
  /\ Fini(refs \ {"main"})
  /\ UNCHANGED <<want, threw, inproc, req_sock, method,
                  collect, handled, ended>>

-----------------------------------------------------------------------------
(* inproc_server                                                           *)

InprocOpen ==
  /\ ~exited
  /\ inproc = "open"
  /\ inproc' = "listen"
  /\ UNCHANGED <<want, main, threw, req_sock, server, handled, ended>>

InprocListen ==
  /\ ~exited
  /\ inproc = "listen"
  /\ inproc' = "serve"
  /\ UNCHANGED <<want, main, threw, req_sock, server, handled, ended>>

\* Mutation of InprocThrows: its thread ends, the process does not.
InprocThrowsReturns ==
  /\ ~exited
  /\ inproc \in {"open", "listen", "serve"}
  /\ inproc' = "ended"
  /\ fault' = TRUE
  /\ UNCHANGED <<want, main, threw, req_sock, server, handled, exited>>

InprocThrows ==
  /\ ~exited
  /\ inproc \in {"open", "listen", "serve"}
  /\ exited' = TRUE
  /\ fault' = TRUE
  /\ UNCHANGED <<want, main, threw, inproc, req_sock, server, handled>>

-----------------------------------------------------------------------------
(* The library                                                             *)

Connected ==
  /\ ~exited
  /\ req_sock = "dialing"
  /\ inproc = "serve"
  /\ req_sock' = "connected"
  /\ UNCHANGED <<want, main, threw, inproc, server, handled, ended>>

\* A request of a method and size that the handler takes enters rest_handle.
Request(m, size) ==
  /\ ~exited
  /\ started
  /\ handler = "server"
  /\ m = method
  /\ size <= collect
  /\ handled' = [method |-> m, size |-> size, req_sock |-> req_sock]
  /\ UNCHANGED <<want, main, threw, inproc, req_sock, server, ended>>

NotYet == [method |-> "none", size |-> 0, req_sock |-> "null"]

Init ==
  /\ want \in {verb[i] : i \in DOMAIN verb}
  /\ main = "thread"
  /\ threw = FALSE
  /\ inproc = "none"
  /\ req_sock = "null"
  /\ refs = {}
  /\ started = FALSE
  /\ handler = "none"
  /\ method = "none"
  /\ collect = 8 * Limit
  /\ handled = NotYet
  /\ fault = FALSE
  /\ exited = FALSE

Main == \/ Thread \/ Open \/ Dial \/ Hold \/ Alloc \/ set_method
        \/ collect_body \/ add_handler \/ start \/ ReturnServer \/ Unwind
        \/ Return

Inproc == InprocOpen \/ InprocListen

Next ==
  \/ Main \/ Inproc \/ Throw \/ InprocThrows \/ Connected
  \/ \E m \in {Http[v] : v \in DOMAIN Http}, size \in Sizes : Request(m, size)

\* The threads run on, and a dialer tries again until it is connected. That a
\* call fails, or that a request comes, is not assumed.
Spec ==
  /\ Init /\ [][Next]_vars
  /\ WF_vars(Main) /\ WF_vars(Inproc) /\ WF_vars(Connected)

-----------------------------------------------------------------------------
(* Properties.                                                             *)

\* Every variable keeps its type. The handler is with the server from the
\* start of the server on.
TypeOK ==
  /\ main \in {"thread", "open", "dial", "hold", "alloc", "method", "collect",
               "add", "start", "return", "unwind", "join", "release",
               "returned"}
  /\ inproc \in {"none", "open", "listen", "serve", "ended"}
  /\ req_sock \in {"null", "open", "dialing", "connected"}
  /\ refs \in {{}, {"rest_start"}, {"main"}}
  /\ handler \in {"none", "rest_start", "server", "freed"}
  /\ collect \in {Limit, 8 * Limit}
  /\ {threw, started, fault, exited} \subseteq BOOLEAN
  /\ started => handler = "server"

\* A request that enters rest_handle has the method asked for and a body of
\* at most 128 KB, and finds a socket that dials or is connected, however early
\* it comes: the handler is configured before it is added, and to_name turns
\* each verb into the method of that name.
HandlesAsConfigured ==
  handled # NotYet =>
    /\ handled.method = Http[want]
    /\ handled.size <= Limit
    /\ handled.req_sock \in {"dialing", "connected"}

\* rest_start does not depend on which of the two threads is first: it throws
\* only when a call of the library failed.
StartsInAnyOrder == threw => fault

\* A server that was started accepts requests until the process exits,
\* although main has nothing left to do: main's end joins inproc_thr, which
\* ends by exit only. This holds its reference to the server.
ServesUntilExit == [][started => started' \/ exited']_vars

\* The server is started and its socket connected, or something failed.
Ready == fault \/ (started /\ req_sock = "connected")

\* A failed start does not leave a server that is held, nor a handler that
\* nobody owns.
FailedStartCleansUp ==
  threw /\ main \in {"join", "release", "returned"} =>
    /\ refs = {}
    /\ ~started
    /\ handler \in {"none", "freed"}
=============================================================================
