---------------------------- MODULE OptionTables ----------------------------
(***************************************************************************)
(* The options of nngpp, one namespace after the other: the enum, the      *)
(* arrays of NNG_OPT_ names and of types that to_name and to_type index    *)
(* with it, and the dedicated getters and setters with the type of the     *)
(* member function each of them calls; and, apart from these, the names    *)
(* as the library has them, each with its meaning and its type.            *)
(*                                                                         *)
(* The library's types are the ones that the comments of the enums give.   *)
(***************************************************************************)

-----------------------------------------------------------------------------
(* The enums, in order.                                                    *)

nng_option ==
  <<"socket_name", "raw", "protocol", "protocol_name", "peer", "peer_name",
    "recv_buffer", "send_buffer", "recv_fd", "send_fd", "recv_timeout",
    "send_timeout", "local_address", "remote_address", "url", "ttl_max",
    "recv_size_max", "reconnect_time_min", "reconnect_time_max">>
tcp_option == <<"no_delay", "keep_alive", "bound_port">>
tls_option ==
  <<"config", "auth_mode", "cert_key_file", "ca_file", "server_name",
    "verified">>
ipc_option ==
  <<"peer_uid", "peer_gid", "peer_pid", "peer_zoneid", "security_descriptor",
    "permissions">>
ws_option ==
  <<"request_headers", "response_headers", "request_header",
    "response_header", "request_uri", "send_frame_max", "recv_frame_max",
    "protocol", "send_text", "recv_text">>
zt_option ==
  <<"mtu", "nwid", "node", "home", "network_status", "network_name",
    "ping_time", "ping_tries", "conn_time", "conn_tries", "orbit", "deorbit">>
req_option == <<"resend_time">>
sub_option == <<"subscribe", "unsubscribe", "prefnew">>
survey_option == <<"survey_time">>
pair_option == <<"poly">>

Enum ==
  [nng |-> nng_option, tcp |-> tcp_option, tls |-> tls_option,
   ipc |-> ipc_option, ws |-> ws_option, zt |-> zt_option, req |-> req_option,
   sub |-> sub_option, survey |-> survey_option, pair |-> pair_option]

-----------------------------------------------------------------------------
(* The arrays of names.                                                    *)

\* Mutation of nng_names: two names are swapped.
nng_names_swapped ==
  <<"SOCKNAME", "RAW", "PROTO", "PROTONAME", "PEER", "PEERNAME", "RECVBUF",
    "SENDBUF", "RECVFD", "SENDFD", "SENDTIMEO", "RECVTIMEO", "LOCADDR",
    "REMADDR", "URL", "MAXTTL", "RECVMAXSZ", "RECONNMINT", "RECONNMAXT">>

nng_names ==
  <<"SOCKNAME", "RAW", "PROTO", "PROTONAME", "PEER", "PEERNAME", "RECVBUF",
    "SENDBUF", "RECVFD", "SENDFD", "RECVTIMEO", "SENDTIMEO", "LOCADDR",
    "REMADDR", "URL", "MAXTTL", "RECVMAXSZ", "RECONNMINT", "RECONNMAXT">>
tcp_names == <<"TCP_NODELAY", "TCP_KEEPALIVE", "TCP_BOUND_PORT">>
tls_names ==
  <<"TLS_CONFIG", "TLS_AUTH_MODE", "TLS_CERT_KEY_FILE", "TLS_CA_FILE",
    "TLS_SERVER_NAME", "TLS_VERIFIED">>
ipc_names ==
  <<"IPC_PEER_UID", "IPC_PEER_GID", "IPC_PEER_PID", "IPC_PEER_ZONEID",
    "IPC_SECURITY_DESCRIPTOR", "IPC_PERMISSIONS">>
ws_names ==
  <<"WS_REQUEST_HEADERS", "WS_RESPONSE_HEADERS", "WS_REQUEST_HEADER",
    "WS_RESPONSE_HEADER", "WS_REQUEST_URI", "WS_SENDMAXFRAME",
    "WS_RECVMAXFRAME", "WS_PROTOCOL", "WS_SEND_TEXT", "WS_RECV_TEXT">>
zt_names ==
  <<"ZT_MTU", "ZT_NWID", "ZT_NODE", "ZT_HOME", "ZT_NETWORK_STATUS",
    "ZT_NETWORK_NAME", "ZT_PING_TIME", "ZT_PING_TRIES", "ZT_CONN_TIME",
    "ZT_CONN_TRIES", "ZT_ORBIT", "ZT_DEORBIT">>
req_names == <<"REQ_RESENDTIME">>
sub_names == <<"SUB_SUBSCRIBE", "SUB_UNSUBSCRIBE", "SUB_PREFNEW">>
survey_names == <<"SURVEYOR_SURVEYTIME">>
pair_names == <<"PAIR1_POLY">>

Names ==
  [nng |-> nng_names, tcp |-> tcp_names, tls |-> tls_names, ipc |-> ipc_names,
   ws |-> ws_names, zt |-> zt_names, req |-> req_names, sub |-> sub_names,
   survey |-> survey_names, pair |-> pair_names]

-----------------------------------------------------------------------------
(* The types of the core options, and the library's names and types.       *)

option_type ==
  {"bool", "int", "ms", "size", "uint64", "ptr", "string", "addr", "opaque"}

option_types ==
  <<"string", "bool", "int", "string", "int", "string", "int", "int", "int",
    "int", "ms", "ms", "addr", "addr", "string", "int", "size", "ms", "ms">>

\* The library (external): what each name of a namespace stands for, and its
\* type.  The rows go by name and not by place: the arrays above have to agree
\* with them, and can be wrong.
Library ==
  [nng |->
     [SOCKNAME |-> <<"socket_name", "string">>, RAW |-> <<"raw", "bool">>,
      PROTO |-> <<"protocol", "int">>,
      PROTONAME |-> <<"protocol_name", "string">>,
      PEER |-> <<"peer", "int">>, PEERNAME |-> <<"peer_name", "string">>,
      RECVBUF |-> <<"recv_buffer", "int">>,
      SENDBUF |-> <<"send_buffer", "int">>, RECVFD |-> <<"recv_fd", "int">>,
      SENDFD |-> <<"send_fd", "int">>,
      RECVTIMEO |-> <<"recv_timeout", "ms">>,
      SENDTIMEO |-> <<"send_timeout", "ms">>,
      LOCADDR |-> <<"local_address", "addr">>,
      REMADDR |-> <<"remote_address", "addr">>, URL |-> <<"url", "string">>,
      MAXTTL |-> <<"ttl_max", "int">>,
      RECVMAXSZ |-> <<"recv_size_max", "size">>,
      RECONNMINT |-> <<"reconnect_time_min", "ms">>,
      RECONNMAXT |-> <<"reconnect_time_max", "ms">>],
   tcp |->
     [TCP_NODELAY |-> <<"no_delay", "bool">>,
      TCP_KEEPALIVE |-> <<"keep_alive", "bool">>,
      TCP_BOUND_PORT |-> <<"bound_port", "int">>],
   tls |->
     [TLS_CONFIG |-> <<"config", "ptr">>,
      TLS_AUTH_MODE |-> <<"auth_mode", "int">>,
      TLS_CERT_KEY_FILE |-> <<"cert_key_file", "string">>,
      TLS_CA_FILE |-> <<"ca_file", "string">>,
      TLS_SERVER_NAME |-> <<"server_name", "string">>,
      TLS_VERIFIED |-> <<"verified", "bool">>],
   ipc |->
     [IPC_PEER_UID |-> <<"peer_uid", "uint64">>,
      IPC_PEER_GID |-> <<"peer_gid", "uint64">>,
      IPC_PEER_PID |-> <<"peer_pid", "uint64">>,
      IPC_PEER_ZONEID |-> <<"peer_zoneid", "uint64">>,
      IPC_SECURITY_DESCRIPTOR |-> <<"security_descriptor", "ptr">>,
      IPC_PERMISSIONS |-> <<"permissions", "int">>],
   ws |->
     [WS_REQUEST_HEADERS |-> <<"request_headers", "string">>,
      WS_RESPONSE_HEADERS |-> <<"response_headers", "string">>,
      WS_REQUEST_HEADER |-> <<"request_header", "string">>,
      WS_RESPONSE_HEADER |-> <<"response_header", "string">>,
      WS_REQUEST_URI |-> <<"request_uri", "string">>,
      WS_SENDMAXFRAME |-> <<"send_frame_max", "size">>,
      WS_RECVMAXFRAME |-> <<"recv_frame_max", "size">>,
      WS_PROTOCOL |-> <<"protocol", "string">>,
      WS_SEND_TEXT |-> <<"send_text", "bool">>,
      WS_RECV_TEXT |-> <<"recv_text", "bool">>],
   zt |->
     [ZT_MTU |-> <<"mtu", "size">>, ZT_NWID |-> <<"nwid", "uint64">>,
      ZT_NODE |-> <<"node", "uint64">>, ZT_HOME |-> <<"home", "string">>,
      ZT_NETWORK_STATUS |-> <<"network_status", "int">>,
      ZT_NETWORK_NAME |-> <<"network_name", "string">>,
      ZT_PING_TIME |-> <<"ping_time", "ms">>,
      ZT_PING_TRIES |-> <<"ping_tries", "int">>,
      ZT_CONN_TIME |-> <<"conn_time", "ms">>,
      ZT_CONN_TRIES |-> <<"conn_tries", "int">>,
      ZT_ORBIT |-> <<"orbit", "uint64">>,
      ZT_DEORBIT |-> <<"deorbit", "uint64">>],
   req |->
     [REQ_RESENDTIME |-> <<"resend_time", "ms">>],
   sub |->
     [SUB_SUBSCRIBE |-> <<"subscribe", "opaque">>,
      SUB_UNSUBSCRIBE |-> <<"unsubscribe", "opaque">>,
      SUB_PREFNEW |-> <<"prefnew", "bool">>],
   survey |->
     [SURVEYOR_SURVEYTIME |-> <<"survey_time", "ms">>],
   pair |->
     [PAIR1_POLY |-> <<"poly", "bool">>]]

-----------------------------------------------------------------------------
(* The typed member functions set_opt_<type> and get_opt_<type> of each     *)
(* view; "opaque" stands for the untyped set_opt and get_opt.              *)

socket_members   == [set |-> option_type, get |-> option_type]
ctx_members      == [set |-> option_type, get |-> option_type]
dialer_members   == [set |-> option_type, get |-> option_type]
listener_members == [set |-> option_type, get |-> option_type]
pipe_members     == [set |-> {}, get |-> option_type]

\* nngpp/stream: set_<type> and get_<type>; a stream is not a socket's, and
\* has no dedicated getters and setters.
stream_members          == [set |-> option_type, get |-> option_type]
stream_dialer_members   == [set |-> option_type, get |-> option_type]
stream_listener_members == [set |-> option_type, get |-> option_type]

Members ==
  [socket |-> socket_members, ctx |-> ctx_members, dialer |-> dialer_members,
   listener |-> listener_members, pipe |-> pipe_members,
   stream |-> stream_members, stream_dialer |-> stream_dialer_members,
   stream_listener |-> stream_listener_members]

-----------------------------------------------------------------------------
(* The dedicated getters and setters of the core options.                  *)

socket_getters ==
  [socket_name |-> "string", raw |-> "bool", protocol |-> "int",
   protocol_name |-> "string", peer |-> "int", peer_name |-> "string",
   recv_buffer |-> "int", send_buffer |-> "int", recv_fd |-> "int",
   send_fd |-> "int", recv_timeout |-> "ms", send_timeout |-> "ms",
   ttl_max |-> "int", recv_size_max |-> "string",
   reconnect_time_min |-> "ms", reconnect_time_max |-> "ms"]
socket_setters ==
  [socket_name |-> "string", recv_buffer |-> "int", send_buffer |-> "int",
   recv_timeout |-> "ms", send_timeout |-> "ms", ttl_max |-> "int",
   reconnect_time_min |-> "ms", reconnect_time_max |-> "ms"]
\* Mutation of ctx_accessors: a timeout is accessed as an int.
ctx_accessors_int == [recv_timeout |-> "ms", send_timeout |-> "int"]

ctx_accessors == [recv_timeout |-> "ms", send_timeout |-> "ms"]
dialer_getters ==
  [url |-> "string", recv_size_max |-> "size", reconnect_time_min |-> "ms",
   reconnect_time_max |-> "ms"]
dialer_setters ==
  [recv_size_max |-> "size", reconnect_time_min |-> "ms",
   reconnect_time_max |-> "ms"]
listener_getters ==
  [local_address |-> "addr", url |-> "string", recv_size_max |-> "size"]
listener_setters == [recv_size_max |-> "size"]
pipe_getters == [local_address |-> "addr", remote_address |-> "addr"]

-----------------------------------------------------------------------------
(* ... of the transports and the protocols.                                *)

tcp_flags == [no_delay |-> "bool", keep_alive |-> "bool"]
tcp_flags_and_port ==
  [no_delay |-> "bool", keep_alive |-> "bool", bound_port |-> "int"]
tcp_getters ==
  [pipe |-> tcp_flags_and_port, dialer |-> tcp_flags,
   listener |-> tcp_flags_and_port, socket |-> tcp_flags]
tcp_setters ==
  [dialer |-> tcp_flags, listener |-> tcp_flags, socket |-> tcp_flags]

tls_getters ==
  [pipe |-> [verified |-> "bool"], dialer |-> [config |-> "ptr"],
   listener |-> [config |-> "ptr"]]
tls_endpoint_setters ==
  [config |-> "ptr", auth_mode |-> "int", cert_key_file |-> "string",
   ca_file |-> "string", server_name |-> "string"]
tls_setters ==
  [dialer |-> tls_endpoint_setters, listener |-> tls_endpoint_setters]

ipc_getters ==
  [pipe |-> [peer_uid |-> "uint64", peer_gid |-> "uint64",
             peer_pid |-> "uint64", peer_zoneid |-> "uint64"]]
ipc_setters ==
  [listener |-> [security_descriptor |-> "ptr", permissions |-> "int"]]

ws_getters ==
  [pipe |-> [request_headers |-> "string", response_headers |-> "string",
             request_header |-> "string", response_header |-> "string",
             request_uri |-> "string"]]
ws_setters ==
  [dialer |-> [request_headers |-> "string", request_header |-> "string",
               request_uri |-> "string"],
   listener |-> [response_headers |-> "string", response_header |-> "string"]]

zt_pipe_getters == [mtu |-> "size", nwid |-> "uint64", node |-> "uint64"]
zt_dialer_getters ==
  [home |-> "string", node |-> "uint64", nwid |-> "uint64",
   network_status |-> "int", network_name |-> "string", ping_time |-> "ms",
   ping_tries |-> "int", conn_time |-> "ms", conn_tries |-> "int",
   orbit |-> "uint64", deorbit |-> "uint64"]
zt_dialer_setters ==
  [home |-> "string", ping_time |-> "ms", ping_tries |-> "int",
   conn_time |-> "ms", conn_tries |-> "int", orbit |-> "uint64",
   deorbit |-> "uint64"]
zt_listener_getters ==
  [home |-> "string", node |-> "uint64", nwid |-> "uint64",
   network_status |-> "int", network_name |-> "string", ping_time |-> "ms",
   ping_tries |-> "int", orbit |-> "uint64", deorbit |-> "uint64"]
zt_listener_setters ==
  [home |-> "string", ping_time |-> "ms", ping_tries |-> "int",
   orbit |-> "uint64", deorbit |-> "uint64"]

req_accessors ==
  [socket |-> [resend_time |-> "ms"], ctx |-> [resend_time |-> "ms"]]
survey_accessors ==
  [socket |-> [survey_time |-> "ms"], ctx |-> [survey_time |-> "ms"]]
sub_getters == [socket |-> [prefnew |-> "bool"]]
sub_setters ==
  [socket |-> [subscribe |-> "opaque", unsubscribe |-> "opaque",
               prefnew |-> "bool"]]
pair_getters == [socket |-> [poly |-> "bool"]]

-----------------------------------------------------------------------------
Getters ==
  [nng |-> [socket |-> socket_getters, ctx |-> ctx_accessors,
            dialer |-> dialer_getters, listener |-> listener_getters,
            pipe |-> pipe_getters],
   tcp |-> tcp_getters, tls |-> tls_getters, ipc |-> ipc_getters,
   ws |-> ws_getters,
   zt |-> [pipe |-> zt_pipe_getters, dialer |-> zt_dialer_getters,
           listener |-> zt_listener_getters],
   req |-> req_accessors, sub |-> sub_getters, survey |-> survey_accessors,
   pair |-> pair_getters]

Setters ==
  [nng |-> [socket |-> socket_setters, ctx |-> ctx_accessors,
            dialer |-> dialer_setters, listener |-> listener_setters],
   tcp |-> tcp_setters, tls |-> tls_setters, ipc |-> ipc_setters,
   ws |-> ws_setters,
   zt |-> [dialer |-> zt_dialer_setters, listener |-> zt_listener_setters],
   req |-> req_accessors, sub |-> sub_setters, survey |-> survey_accessors,
   pair |-> <<>>]
=============================================================================
