--------------------------- MODULE RaiiClasses ---------------------------
(***************************************************************************)
(* The RAII classes of nngpp, each described by what distinguishes it from *)
(* the others.  All of them wrap one handle and follow the pattern that    *)
(* module Raii models: construct, adopt, move, destroy, release().         *)
(*                                                                         *)
(*   acquires  it has a constructor or a make function that acquires a     *)
(*             new handle, and that throws when the library refuses        *)
(*   fallible  the library call that ends the resource returns an error,   *)
(*             and the move assignment throws it                           *)
(*   tolerant  the move assignment does not count error::closed as one     *)
(*   copies    it has a copy constructor and a copy assignment             *)
(*   shared    the library counts references: a hold returns a handle      *)
(*             that other objects may own as well                          *)
(*   given     a member function of another object takes it by rvalue      *)
(*             reference and, on success, leaves its handle to the library *)
(***************************************************************************)

ClassTraits ==
  [acquires : BOOLEAN, fallible : BOOLEAN, tolerant : BOOLEAN,
   copies : BOOLEAN, shared : BOOLEAN, given : BOOLEAN]

\* A movable class over a pointer handle whose free function returns nothing.
Pointer == [acquires |-> TRUE, fallible |-> FALSE, tolerant |-> FALSE,
            copies |-> FALSE, shared |-> FALSE, given |-> FALSE]

\* A movable class over an id whose close function returns an error code.
Id == [Pointer EXCEPT !.fallible = TRUE, !.tolerant = TRUE]

aio             == Pointer
stat            == Pointer
mtx             == Pointer
cv              == Pointer
thread          == Pointer
stream_dialer   == Pointer
stream_listener == Pointer
http_client     == Pointer
http_req        == Pointer
http_res        == Pointer

\* Handed out by the library only (an aio's output): nothing acquires one.
stream    == [Pointer EXCEPT !.acquires = FALSE]
http_conn == [Pointer EXCEPT !.acquires = FALSE]

url          == [Pointer EXCEPT !.copies = TRUE]
msg          == [Pointer EXCEPT !.copies = TRUE, !.given = TRUE]
http_handler == [Pointer EXCEPT !.given = TRUE]
http_server  == [Pointer EXCEPT !.shared = TRUE]
tls_config   == [Pointer EXCEPT !.shared = TRUE]

socket   == Id
ctx      == Id
dialer   == Id
listener == Id

\* The one class whose move assignment throws error::closed too.
pipe == [Id EXCEPT !.acquires = FALSE, !.tolerant = FALSE]

AllClasses ==
  {aio, stat, mtx, cv, thread, stream, stream_dialer, stream_listener,
   http_client, http_conn, http_req, http_res, http_handler, http_server,
   tls_config, url, msg, socket, ctx, dialer, listener, pipe}

=============================================================================
