----------------------------- MODULE MediaPath -----------------------------
(***************************************************************************)
(* The way of the media, from the SETUP of each medium to the frames the   *)
(* application gets: the ports or channels are agreed on (RtspTransport),  *)
(* packets come as datagrams or interleaved in the control connection,     *)
(* where a reply of the server may stand behind them, the RTSP thread cuts *)
(* the connection into messages and passes the packets on through          *)
(* socketpairs, the RTP thread takes them into a slot of the pool and the  *)
(* playout list of their session, and the application makes frames of them *)
(* (Depacketizers). Every stage waits for the next one when it is full.    *)
(*                                                                         *)
(* Sources, sequence numbers and the lists are PlayoutBuffer's subject: a  *)
(* session has one source, which is active, and its list is a queue.       *)
(***************************************************************************)
EXTENDS RtspTransport, Depacketizers, FiniteSets

CONSTANTS
  Scenes,       \* [proto, delivery, force, formats, commands]: what Init chooses from
  Stream,       \* for each format, the packets the server sends
  Frames,       \* and the frames they are made of
  PortMod,      \* 2^16 in the code
  RandomPorts,  \* ports rand() and the system may give
  Taken,        \* ports that other programs hold
  OtherWays,    \* whether the server may announce other channels than were asked for
  WireSize,     \* bound: what the control connection holds, in parts of messages
  SocketSize,   \* bound: packets a socket holds
  PoolSize,     \* bound: slots of a session's buffer pool (BP_MAX_SIZE)
  OneThread,    \* the application gives its commands from the thread that reads
  Peer, Local,  \* the ends of the control connection
  Group,        \* a multicast group
  Closed, Pair2 \* a descriptor that is not open, one of a socketpair

ASSUME PathAssumption ==
  /\ PortMod \in Nat /\ RandomPorts \subseteq 1 .. PortMod - 1 /\ Taken \subseteq 0 .. PortMod
  /\ \A port \in RandomPorts : port % 2 = 0
  /\ WireSize \in Nat /\ SocketSize \in Nat \ {0} /\ PoolSize \in Nat \ {0}
  /\ OtherWays \in BOOLEAN /\ OneThread \in BOOLEAN
  /\ \A sc \in Scenes : /\ sc.proto \in {"UDP", "TCP"} /\ sc.delivery \in {"unicast", "multicast"}
                        /\ sc.force \in 0 .. PortMod - 1 /\ sc.commands \in BOOLEAN
                        /\ sc.formats \in Seq(Formats) \ {<<>>}
  /\ Closed \notin Nat \cup {Pair2} /\ Pair2 \notin Nat
  /\ NotSet \notin Nat \cup Header /\ Group # BadAddr

VARIABLES
  scene,        \* what was chosen
  medium,       \* the medium being set up; past the last one when all are
  force_rtp_port,
  next_ilvd_ch,
  tr,           \* transport of each session
  fd,           \* the descriptors of each session's RTP and RTCP sockets
  open,         \* what each descriptor is bound to
  interleaved,  \* the table of channels, newest first
  asked,        \* the Transport header of a SETUP that waits for its reply
  way,          \* what the server was asked to send to, and announced: of each medium
  sent,         \* packets the server has sent of each medium
  wire,         \* parts of messages under way in the control connection
  in_buffer,    \* parts the RTSP thread has read
  sock,         \* datagrams waiting at each descriptor
  rtp,          \* sessions the RTP thread found readable and has not read
  po,           \* playout list of each session
  priv, frame,  \* what its parser keeps, and the application's frame
  reader,       \* the session the application is making a frame of, or 0
  out,          \* frames made of each medium
  command       \* the application's command: where its reply is

setup == <<medium, force_rtp_port, next_ilvd_ch, tr, fd, open, interleaved, asked, way>>
app   == <<priv, frame, reader, out>>
vars  == <<scene, setup, sent, wire, in_buffer, sock, rtp, po, app, command>>

Media   == DOMAIN scene.formats
Fds     == 1 .. 4 * Len(scene.formats)
Playing == medium > Len(scene.formats)

TypeOK ==
  /\ medium \in 1 .. Len(scene.formats) + 1
  /\ force_rtp_port \in 0 .. PortMod - 1 /\ next_ilvd_ch \in Nat
  /\ DOMAIN tr = Media /\ \A m \in Media : tr[m].SOCKTYPE \in {"UDP", "TCP"}
  /\ \A m \in Media : fd[m].rtp \in Fds \cup {Closed} /\ fd[m].rtcp \in Fds \cup {Closed}
  /\ DOMAIN open = Fds
  /\ Len(wire) <= WireSize
  /\ \A n \in Fds : Len(sock[n]) <= SocketSize
  /\ \A m \in Media : Len(po[m]) <= PoolSize
  /\ Range(rtp) \subseteq Media
  /\ reader \in Media \cup {0}
  /\ \A m \in Media : Len(out[m]) <= 2 * Len(Stream[scene.formats[m]])
  /\ command \in {"none", "asked", "replied", "done"}

Init ==
  /\ scene \in Scenes
  /\ medium = 1
  /\ force_rtp_port = scene.force /\ next_ilvd_ch = 0
  /\ tr = [m \in Media |-> NewTransport(scene.delivery, Peer, Local, m)]
  /\ fd = [m \in Media |-> [rtp |-> Closed, rtcp |-> Closed]]
  /\ open = [n \in Fds |-> Closed]
  /\ interleaved = <<>>
  /\ asked = NotSet
  /\ way = [m \in Media |-> NotSet]
  /\ sent = [m \in Media |-> 0]
  /\ wire = <<>> /\ in_buffer = <<>>
  /\ sock = [n \in Fds |-> <<>>]
  /\ rtp = <<>>
  /\ po = [m \in Media |-> <<>>]
  /\ priv = [m \in Media |-> NoPriv] /\ frame = [m \in Media |-> NoFrame]
  /\ reader = 0
  /\ out = [m \in Media |-> <<>>]
  /\ command = "none"

-----------------------------------------------------------------------------
(***************************************************************************)
(* SETUP of one medium after the other.                                    *)
(***************************************************************************)

\* The system gives the lowest free descriptor.
Lowest(o) == CHOOSE n \in DOMAIN o : o[n] = Closed /\ \A k \in 1 .. n - 1 : o[k] # Closed

\* sock_bind: when the port is taken the socket is closed, and the caller keeps the
\* number of its descriptor. Sockets of one program may share a port.
sock_bind(o, port) ==
  [fd |-> Lowest(o), open |-> IF port \in Taken THEN o ELSE [o EXCEPT ![Lowest(o)] = port]]

\* getsockname: of a descriptor that is not open it says nothing, and what is read
\* is what the memory held.
LocalPorts(o, n) == IF o[n] = Closed THEN {0} \cup RandomPorts ELSE {o[n]}

\* The port a medium starts from: even.
Even == IF force_rtp_port % 2 = 1 THEN (force_rtp_port + 1) % PortMod ELSE force_rtp_port

FirstPorts == IF force_rtp_port = 0 THEN RandomPorts ELSE {Even}

\* Port 0 is any port.
Asked(port) == IF port = 0 THEN RandomPorts ELSE {port}

\* Mutant: the next medium starts from the ports of this one.
NextForcedSame == Even

NextForced == IF Even = 0 \/ force_rtp_port = 0 THEN 0 ELSE (Even + 2) % PortMod

SetupUdp ==
  /\ scene.proto = "UDP" /\ ~Playing /\ asked = NotSet
  /\ \E rnd \in FirstPorts : \E p \in Asked(rnd), q \in Asked(rnd + 1) :
       LET a == sock_bind(open, p)
           b == sock_bind(a.open, q)
       IN  \E local \in LocalPorts(b.open, a.fd) \X LocalPorts(b.open, b.fd) :
             LET t == rtp_transport_set(tr[medium], "CLIPORTS", local)
             IN  /\ open' = b.open
                 /\ fd' = [fd EXCEPT ![medium] = [rtp |-> a.fd, rtcp |-> b.fd]]
                 /\ tr' = [tr EXCEPT ![medium] = t]
                 /\ asked' = set_transport_str(t)
  /\ force_rtp_port' = NextForced
  /\ UNCHANGED <<scene, medium, next_ilvd_ch, interleaved, way, sent, wire, in_buffer, sock,
                 rtp, po, app, command>>

\* The channels are the next two numbers, and each gets a socketpair, whose other
\* end the table holds.
SetupTcp ==
  /\ scene.proto = "TCP" /\ ~Playing /\ asked = NotSet
  /\ LET t == rtp_transport_set(rtp_transport_set(tr[medium], "SOCKTYPE", "TCP"), "INTERLEAVED",
                                <<next_ilvd_ch, next_ilvd_ch + 1>>)
         o == [open EXCEPT ![Lowest(open)] = Pair2]
     IN  /\ tr' = [tr EXCEPT ![medium] = t]
         /\ fd' = [fd EXCEPT ![medium] = [rtp |-> Lowest(open), rtcp |-> Lowest(o)]]
         /\ open' = [o EXCEPT ![Lowest(o)] = Pair2]
         /\ interleaved' = <<[rtp_ch |-> next_ilvd_ch, rtcp_ch |-> next_ilvd_ch + 1,
                              rtp_fd |-> Lowest(open), rtcp_fd |-> Lowest(o)]>> \o interleaved
         /\ asked' = set_transport_str(t)
  /\ next_ilvd_ch' = next_ilvd_ch + 2
  /\ UNCHANGED <<scene, medium, force_rtp_port, way, sent, wire, in_buffer, sock, rtp, po, app, command>>

\* Replies a server may give. It sends to the client's ports, to a group, or on the
\* channels it announces.
Replies ==
  IF asked.type = "TCP"
  THEN {[type |-> "TCP", params |-> <<<<"unicast", NotSet>>, <<"interleaved", w>>, <<"ssrc", 7>>>>, to |-> w] :
          w \in {asked.interleaved} \cup
                IF OtherWays THEN {<<asked.interleaved[1] + 1, asked.interleaved[1] + 2>>} ELSE {}}
  ELSE IF asked.delivery = "multicast"
  THEN {[type |-> "UDP", params |-> <<<<"destination", Group>>, <<"port", w>>, <<"ttl", 1>>>>, to |-> w] :
          w \in {<<p, p + 1>> : p \in RandomPorts}}
  ELSE {[type |-> "UDP", params |-> ps, to |-> asked.client_port] :
          ps \in {<<<<"source", Peer>>, <<"server_port", <<6, 7>>>>>>, <<<<"source", BadAddr>>>>}}

\* handle_setup_response. A multicast session binds its socket again, to the port
\* of the group. After the last medium the presentation is ready and its threads run.
handle_setup_response ==
  /\ asked # NotSet
  /\ \E r \in Replies :
       LET t == get_transport_str(tr[medium], r)
           b == sock_bind([open EXCEPT ![fd[medium].rtp] = Closed], t.SRVRTP)
       IN  /\ tr' = [tr EXCEPT ![medium] = t]
           /\ IF t.DELIVERY = "multicast"
              THEN /\ open' = b.open
                   /\ fd' = [fd EXCEPT ![medium].rtp = b.fd]
              ELSE UNCHANGED <<open, fd>>
           /\ way' = [way EXCEPT ![medium] = r.to]
  /\ medium' = medium + 1
  /\ asked' = NotSet
  /\ UNCHANGED <<scene, force_rtp_port, next_ilvd_ch, interleaved, sent, wire, in_buffer, sock,
                 rtp, po, app, command>>

-----------------------------------------------------------------------------
(***************************************************************************)
(* The server and the network. A message of the control connection has a   *)
(* first part, which does not tell its length or not its end, and the rest.*)
(***************************************************************************)
Parts(msg) == <<[part |-> "head", msg |-> msg], [part |-> "rest", msg |-> msg]>>

Sends(m) ==
  /\ Playing /\ way[m] # NotSet
  /\ sent[m] < Len(Stream[scene.formats[m]])
  /\ sent' = [sent EXCEPT ![m] = @ + 1]

NextOf(m) == Stream[scene.formats[m]][sent[m] + 1]

\* The newest socket bound to a port gets its datagrams.
Owner(port) == IF \E n \in Fds : open[n] = port
               THEN CHOOSE n \in Fds : open[n] = port /\ \A k \in Fds : open[k] = port => k <= n
               ELSE Closed

\* A datagram arrives, or is lost: in the network, or because nobody listens, or
\* because the socket is full.
SendUdp(m) ==
  /\ scene.proto = "UDP" /\ Sends(m)
  /\ \/ UNCHANGED sock
     \/ LET n == Owner(way[m][1])
        IN  /\ n # Closed /\ Len(sock[n]) < SocketSize
            /\ sock' = [sock EXCEPT ![n] = Append(@, [of |-> m, pkt |-> NextOf(m)])]
  /\ UNCHANGED <<scene, setup, wire, in_buffer, rtp, po, app, command>>

SendTcp(m) ==
  /\ scene.proto = "TCP" /\ Sends(m)
  /\ Len(wire) + 2 <= WireSize
  /\ wire' = wire \o Parts([ch |-> way[m][1], of |-> m, pkt |-> NextOf(m)])
  /\ UNCHANGED <<scene, setup, in_buffer, sock, rtp, po, app, command>>

\* A report of the server, when it has sent all of the medium.
SendReport(m) ==
  /\ scene.proto = "TCP" /\ Playing /\ sent[m] = Len(Stream[scene.formats[m]])
  /\ sent' = [sent EXCEPT ![m] = @ + 1]
  /\ Len(wire) + 2 <= WireSize
  /\ wire' = wire \o Parts([ch |-> way[m][2], of |-> m, pkt |-> NotSet])
  /\ UNCHANGED <<scene, setup, in_buffer, sock, rtp, po, app, command>>

Command ==
  /\ scene.commands /\ Playing /\ command = "none"
  /\ command' = "asked"
  /\ UNCHANGED <<scene, setup, sent, wire, in_buffer, sock, rtp, po, app>>

Reply ==
  /\ command = "asked"
  /\ Len(wire) + 2 <= WireSize
  /\ wire' = wire \o Parts([ch |-> NotSet, of |-> 0, pkt |-> NotSet])
  /\ command' = "replied"
  /\ UNCHANGED <<scene, setup, sent, in_buffer, sock, rtp, po, app>>

-----------------------------------------------------------------------------
(***************************************************************************)
(* The RTSP thread. It reads when it has no whole message; a packet goes   *)
(* to the socketpair of its channel, and the thread waits for room in it.  *)
(***************************************************************************)

\* full_msg_rcvd: the first message is there to its end.
full_msg_rcvd == Len(in_buffer) >= 2

rtsp_recv ==
  /\ ~full_msg_rcvd /\ wire # <<>>
  /\ \E n \in 1 .. Len(wire) :
       /\ in_buffer' = in_buffer \o SubSeq(wire, 1, n)
       /\ wire' = SubSeq(wire, n + 1, Len(wire))
  /\ UNCHANGED <<scene, setup, sent, sock, rtp, po, app, command>>

remove_pkt == in_buffer' = SubSeq(in_buffer, 3, Len(in_buffer))

\* Mutant: the newest entry gets every packet.
RouteNewest(ch) == interleaved[1].rtp_fd

\* The socket of a channel: the first entry of the table that has it, as its RTCP
\* channel before its RTP channel.
Route(ch) ==
  LET n == SelectInSeq(interleaved, LAMBDA e : e.rtp_ch = ch \/ e.rtcp_ch = ch)
  IN  IF n = 0 THEN Closed
      ELSE IF interleaved[n].rtcp_ch = ch THEN interleaved[n].rtcp_fd ELSE interleaved[n].rtp_fd

handle_packet ==
  /\ full_msg_rcvd /\ Head(in_buffer).msg.ch # NotSet
  /\ LET msg == Head(in_buffer).msg
         n   == Route(msg.ch)
     IN  IF n = Closed THEN UNCHANGED sock
         ELSE /\ Len(sock[n]) < SocketSize
              /\ sock' = [sock EXCEPT ![n] = Append(@, [of |-> msg.of, pkt |-> msg.pkt])]
  /\ remove_pkt
  /\ UNCHANGED <<scene, setup, sent, wire, rtp, po, app, command>>

handle_reply ==
  /\ full_msg_rcvd /\ Head(in_buffer).msg.ch = NotSet
  /\ command' = "done"
  /\ remove_pkt
  /\ UNCHANGED <<scene, setup, sent, wire, sock, rtp, po, app>>

-----------------------------------------------------------------------------
(***************************************************************************)
(* The RTP thread: the sessions that select found readable, one after the  *)
(* other. rtp_recv takes a slot of the pool first, and waits for it.       *)
(***************************************************************************)
Select ==
  /\ Playing /\ rtp = <<>>
  /\ LET ready == SelectSeq([m \in 1 .. Len(scene.formats) |-> m],
                            LAMBDA m : fd[m].rtp # Closed /\ sock[fd[m].rtp] # <<>>)
     IN  ready # <<>> /\ rtp' = ready
  /\ UNCHANGED <<scene, setup, sent, wire, in_buffer, sock, po, app, command>>

\* A report that comes on the RTP channel is not of a payload type and is dropped.
rtp_recv ==
  /\ rtp # <<>>
  /\ LET m == Head(rtp)
         n == fd[m].rtp
     IN  /\ Len(po[m]) < PoolSize
         /\ sock[n] # <<>>
         /\ sock' = [sock EXCEPT ![n] = Tail(@)]
         /\ po' = IF Head(sock[n]).pkt = NotSet THEN po ELSE [po EXCEPT ![m] = Append(@, Head(sock[n]))]
  /\ rtp' = Tail(rtp)
  /\ UNCHANGED <<scene, setup, sent, wire, in_buffer, app, command>>

\* The RTCP thread takes what comes to its sockets.
rtcp_recv(m) ==
  /\ Playing /\ fd[m].rtcp # Closed /\ sock[fd[m].rtcp] # <<>>
  /\ sock' = [sock EXCEPT ![fd[m].rtcp] = Tail(@)]
  /\ UNCHANGED <<scene, setup, sent, wire, in_buffer, rtp, po, app, command>>

-----------------------------------------------------------------------------
(***************************************************************************)
(* The application: rtp_fill_buffer, which looks at the oldest packet for  *)
(* the frame's timestamp and calls the parser as long as it asks for it.   *)
(***************************************************************************)
Payloads(m) == [i \in DOMAIN po[m] |-> po[m][i].pkt]

Reads == ~(OneThread /\ command \in {"asked", "replied"})

rtp_fill_buffer(m) ==
  /\ reader = 0 /\ Reads
  /\ po[m] # <<>>
  /\ reader' = m
  /\ frame' = [frame EXCEPT ![m].ts = Head(po[m]).pkt.ts]
  /\ UNCHANGED <<scene, setup, sent, wire, in_buffer, sock, rtp, po, priv, out, command>>

\* Frames are recorded with the medium their pieces were sent of; the record is full
\* at twice the number of packets.
Recorded(m, r) ==
  IF r.err # "OK" \/ Len(out[m]) = 2 * Len(Stream[scene.formats[m]]) THEN out
  ELSE [out EXCEPT ![m] = Append(@, r.fr)]

Parse ==
  /\ reader # 0
  /\ LET r == Parser(scene.formats[reader], priv[reader], Payloads(reader), frame[reader])
         n == Len(po[reader]) - Len(r.q)
     IN  /\ priv' = [priv EXCEPT ![reader] = r.p]
         /\ po' = [po EXCEPT ![reader] = SubSeq(@, n + 1, Len(@))]
         /\ frame' = [frame EXCEPT ![reader] = r.fr]
         /\ out' = Recorded(reader, r)
         /\ reader' = IF r.err = "EAGAIN" THEN reader ELSE 0
  /\ UNCHANGED <<scene, setup, sent, wire, in_buffer, sock, rtp, command>>

-----------------------------------------------------------------------------
RtspThread == rtsp_recv \/ handle_packet \/ handle_reply
RtpThread  == Select \/ rtp_recv

Next ==
  \/ SetupUdp \/ SetupTcp \/ handle_setup_response
  \/ \E m \in Media : SendUdp(m) \/ SendTcp(m) \/ SendReport(m)
  \/ Command \/ Reply
  \/ RtspThread \/ RtpThread
  \/ \E m \in Media : rtcp_recv(m) \/ rtp_fill_buffer(m)
  \/ Parse

\* The threads run, the application reads every session that has packets in turn,
\* and the server answers; it need not send.
Fairness ==
  /\ WF_vars(RtspThread) /\ WF_vars(RtpThread) /\ WF_vars(Reply) /\ WF_vars(Parse)
  /\ \A m \in 1 .. 2 : WF_vars(m \in Media /\ rtcp_recv(m)) /\ SF_vars(m \in Media /\ rtp_fill_buffer(m))

Spec == Init /\ [][Next]_vars /\ Fairness

-----------------------------------------------------------------------------
(***************************************************************************)
(* Properties.                                                             *)
(***************************************************************************)

\* After its SETUP a medium listens where its server sends, and nothing else does:
\* RTP at an even port, RTCP at the next one, no port or channel shared by two media
\* (as long as no other program holds a port, the ports are given, and the server
\* keeps to the channels asked for).
Listening ==
  \A m \in Media : way[m] # NotSet =>
    /\ IF scene.proto = "TCP" THEN Route(way[m][1]) = fd[m].rtp /\ Route(way[m][2]) = fd[m].rtcp
       ELSE Owner(way[m][1]) = fd[m].rtp /\ (tr[m].DELIVERY = "unicast" => Owner(way[m][2]) = fd[m].rtcp)
    /\ way[m][2] = way[m][1] + 1 /\ way[m][1] % 2 = 0
    /\ \A k \in Media : k # m => fd[k].rtp # fd[m].rtp /\ fd[k].rtcp # fd[m].rtcp

\* What the server cut into packets comes out as the frames it was, in their order
\* and with their timestamps, however the connection is cut and whoever is behind.
WholeUnits ==
  scene.proto = "TCP" => \A m \in Media : IsPrefix(out[m], Frames[scene.formats[m]])

\* The pieces of all frames of a medium, one after the other.
Pieces(m) == FlattenSeq([i \in DOMAIN out[m] |-> out[m][i].data])

\* Formats whose parsers drop what is incomplete.
Careful == {"m4v", "h263", "mpv", "aac", "h264", "speex", "def"}

\* Whatever packets are lost, no piece is played twice or out of order, and none
\* that the server did not send.
NoPieceTwice ==
  \A m \in Media : scene.formats[m] \in Careful =>
    /\ Junk \notin Range(Pieces(m))
    /\ \A i, j \in DOMAIN Pieces(m) : i < j => Pieces(m)[i] < Pieces(m)[j]

\* The timestamp a piece was sent with.
SentAt(m, piece) ==
  LET s == Stream[scene.formats[m]]
  IN  s[CHOOSE i \in DOMAIN s : piece \in Range(s[i].data)].ts

\* A video frame of MPEG-4, H.263 or MPEG has pieces of one timestamp, its own.
OneTimestamp ==
  \A m \in Media : scene.formats[m] \in {"m4v", "h263", "mpv"} =>
    \A i \in DOMAIN out[m] : \A piece \in Range(out[m][i].data) :
      piece \notin Range(Conf) => SentAt(m, piece) = out[m][i].ts

\* A command gets its reply, however many packets stand before it.
CommandsEnd == (command = "asked") ~> (command = "done")

\* What comes through the control connection is all played in the end.
AllPlayed ==
  (scene.proto = "TCP" /\ \A m \in Media : sent[m] >= Len(Stream[scene.formats[m]]))
    ~> (\A m \in Media : out[m] = Frames[scene.formats[m]])

\* Of a stream with losses, what comes out is in order, once, and not mixed.
SoundFrames == NoPieceTwice /\ OneTimestamp

\* Not so: a frame of H.264 has pieces of one timestamp.
H264OneTimestamp ==
  \A m \in Media : scene.formats[m] = "h264" =>
    \A i \in DOMAIN out[m] : \A a, b \in Range(out[m][i].data) : SentAt(m, a) = SentAt(m, b)

\* Not so: no parser gives junk, or a piece twice.
NoJunk ==
  \A m \in Media : /\ Junk \notin Range(Pieces(m))
                   /\ \A i, j \in DOMAIN Pieces(m) : i # j => Pieces(m)[i] # Pieces(m)[j]
=============================================================================
