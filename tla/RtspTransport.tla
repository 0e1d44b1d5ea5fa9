--------------------------- MODULE RtspTransport ---------------------------
(***************************************************************************)
(* The transport of an RTP session: the parameters rtp_transport_set and   *)
(* rtp_transport_get know, the Transport header of a SETUP request made of *)
(* them (set_transport_str), and what the header of the reply changes      *)
(* (get_transport_str). All are pure; MediaPath uses them.                 *)
(*                                                                         *)
(* A transport is a record with a field for every parameter that has one   *)
(* value, named as in the code. 0 is what calloc leaves.                   *)
(***************************************************************************)
EXTENDS Integers, Sequences

CONSTANTS
  NotSet,     \* RTP_TRANSPORT_NOTSET, and a parameter a header does not have
  BadAddr,    \* an address that cannot be converted
  Unspec      \* the address of family AF_UNSPEC

\* The parameters that have two values: those of RTP and of RTCP.
Pair == [MCSPORTS    |-> <<"MCSRTP", "MCSRTCP">>,   CLIPORTS |-> <<"CLIRTP", "CLIRTCP">>,
         SRVPORTS    |-> <<"SRVRTP", "SRVRTCP">>,
         INTERLEAVED |-> <<"ILVDRTP", "ILVDRTCP">>, STREAMS  |-> <<"STREAMRTP", "STREAMRTCP">>]

\* The parameters that are not set as long as they are 0; a pair is set if neither is.
NotSetIfZero ==
  {"LAYERS", "APPEND", "TTL", "MCSRTP", "MCSRTCP", "CLIRTP", "CLIRTCP", "SRVRTP", "SRVRTCP",
   "STREAMRTP", "STREAMRTCP", "SSRC"}

\* rtp_session_init: the peer of the control connection is the source, its local
\* end the destination.
NewTransport(delivery, peer, local, ssrc) ==
  [SOCKTYPE |-> "UDP", DELIVERY |-> delivery, SRCADDR |-> peer, DSTADDR |-> local,
   LAYERS |-> 0, MODE |-> "play", APPEND |-> 0, TTL |-> 0,
   MCSRTP |-> 0, MCSRTCP |-> 0, CLIRTP |-> 0, CLIRTCP |-> 0, SRVRTP |-> 0, SRVRTCP |-> 0,
   ILVDRTP |-> 0, ILVDRTCP |-> 0, STREAMRTP |-> 0, STREAMRTCP |-> 0, SSRC |-> ssrc]

\* The transport after rtp_transport_set. An address given as a string that cannot
\* be converted leaves an address of no family. (The union of the addresses and the
\* channels is left out: a session of one type does not use the other's.)
rtp_transport_set(t, par, value) ==
  CASE par \in DOMAIN Pair    -> [t EXCEPT ![Pair[par][1]] = value[1], ![Pair[par][2]] = value[2]]
    [] par = "SRCADDRSTR"     -> [t EXCEPT !.SRCADDR = IF value = BadAddr THEN Unspec ELSE value]
    [] par = "DSTADDRSTR"     -> [t EXCEPT !.DSTADDR = IF value = BadAddr THEN Unspec ELSE value]
    [] OTHER                  -> [t EXCEPT ![par] = value]

\* rtp_transport_get: the value, or NotSet.
rtp_transport_get(t, par) ==
  IF par \in DOMAIN Pair
  THEN IF \E i \in 1 .. 2 : Pair[par][i] \in NotSetIfZero /\ t[Pair[par][i]] = 0 THEN NotSet
       ELSE [i \in 1 .. 2 |-> t[Pair[par][i]]]
  ELSE IF par \in NotSetIfZero /\ t[par] = 0 THEN NotSet ELSE t[par]

-----------------------------------------------------------------------------
(***************************************************************************)
(* The header of a SETUP request.                                          *)
(***************************************************************************)
Header ==
  [type : {"UDP", "TCP"}, delivery : {"unicast", "multicast"},
   layers : Nat \cup {NotSet}, ttl : Nat \cup {NotSet}, port : (Nat \X Nat) \cup {NotSet},
   client_port : (Nat \X Nat) \cup {NotSet}, interleaved : (Nat \X Nat) \cup {NotSet},
   mode : {"play"}, append : Nat \cup {NotSet}, ssrc : Nat \cup {NotSet}]

set_transport_str(t) ==
  [type        |-> t.SOCKTYPE,
   delivery    |-> IF t.SOCKTYPE = "UDP" THEN t.DELIVERY ELSE "unicast",
   layers      |-> IF t.SOCKTYPE = "UDP" THEN rtp_transport_get(t, "LAYERS") ELSE NotSet,
   ttl         |-> IF t.SOCKTYPE = "UDP" THEN rtp_transport_get(t, "TTL") ELSE NotSet,
   port        |-> IF t.SOCKTYPE = "UDP" THEN rtp_transport_get(t, "MCSPORTS") ELSE NotSet,
   client_port |-> IF t.SOCKTYPE = "UDP" THEN rtp_transport_get(t, "CLIPORTS") ELSE NotSet,
   interleaved |-> IF t.SOCKTYPE = "TCP" THEN rtp_transport_get(t, "INTERLEAVED") ELSE NotSet,
   mode        |-> t.MODE,
   append      |-> rtp_transport_get(t, "APPEND"),
   ssrc        |-> rtp_transport_get(t, "SSRC")]

-----------------------------------------------------------------------------
(***************************************************************************)
(* The header of the reply: its type, and its parameters in their order,   *)
(* each a name and a value. A parameter that is refused ends the reading;  *)
(* handle_setup_response does not look at the result.                      *)
(***************************************************************************)

\* What one parameter does: the transport, and whether the reading goes on.
get_transport_str_udp(t, param) ==
  LET v == param[2]
  IN  CASE param[1] \in {"server_port", "port"} -> <<rtp_transport_set(t, "SRVPORTS", v), TRUE>>
        [] param[1] = "source"      -> <<rtp_transport_set(t, "SRCADDRSTR", v), v # BadAddr>>
        [] param[1] = "destination" -> <<rtp_transport_set(t, "DSTADDRSTR", v), v # BadAddr>>
        [] param[1] = "ssrc"        -> <<rtp_transport_set(t, "SSRC", v), TRUE>>
        [] param[1] = "ttl"         -> <<rtp_transport_set(t, "TTL", v), TRUE>>
        [] param[1] = "layers"      -> <<rtp_transport_set(t, "LAYERS", v), TRUE>>
        [] OTHER                    -> <<t, TRUE>>

\* A channel above 255 is refused; the one before it has been taken.
get_transport_str_tcp(t, param) ==
  LET v == param[2]
  IN  CASE param[1] = "interleaved" /\ v[1] > 255 -> <<t, FALSE>>
        [] param[1] = "interleaved" /\ v[1] <= 255 /\ v[2] > 255 ->
             <<rtp_transport_set(t, "ILVDRTP", v[1]), FALSE>>
        [] param[1] = "interleaved" /\ v[1] <= 255 /\ v[2] <= 255 ->
             <<rtp_transport_set(t, "INTERLEAVED", v), TRUE>>
        [] param[1] = "ssrc" -> <<rtp_transport_set(t, "SSRC", v), TRUE>>
        [] OTHER -> <<t, TRUE>>

\* The transport after the first i parameters, and whether the reading goes on.
Read(t, reply) ==
  LET read[i \in 0 .. Len(reply.params)] ==
        IF i = 0 THEN <<rtp_transport_set(t, "SOCKTYPE", reply.type), TRUE>>
        ELSE IF ~read[i - 1][2] THEN read[i - 1]
        ELSE IF reply.type = "UDP" THEN get_transport_str_udp(read[i - 1][1], reply.params[i])
        ELSE get_transport_str_tcp(read[i - 1][1], reply.params[i])
  IN  read

\* The type is that of the reply, whatever was asked; an unknown one changes nothing.
get_transport_str(t, reply) ==
  IF reply.type \in {"UDP", "TCP"} THEN Read(t, reply)[Len(reply.params)][1] ELSE t
=============================================================================
