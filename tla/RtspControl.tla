----------------------------- MODULE RtspControl -----------------------------
(***************************************************************************)
(* One RTSP controller: the application threads that give it commands, the *)
(* RTSP thread that handles the replies, and the server.                   *)
(*                                                                         *)
(* A command runs under comm_mutex; it sets busy, checks the status, points*)
(* the cursor of get_curr_sess at the first session, records the reply it  *)
(* expects in wait_for and writes a request.  The RTSP thread takes the    *)
(* mutex only to clear busy, so its steps fall between any two steps of a  *)
(* command.  A step of the RTSP thread is the handling of one reply, or one*)
(* stretch of rtsp_reinit, rtsp_clean or the state handlers between two    *)
(* points where an application thread can tell the difference.             *)
(***************************************************************************)
EXTENDS Integers, Sequences

CONSTANTS
  Users,        \* threads that give a command and then call rtsp_wait
  Keepers,      \* threads that call rtsp_get_param to keep the session alive
  Description,  \* media in each session of the presentation, as described
  MaxOpens,     \* bound: connections made
  MaxCalls,     \* bound: commands given
  Events        \* what may happen: see May, Refused, Uninit, Codes, Hangup

ASSUME ControlAssumption ==
  /\ Users \cap Keepers = {} /\ "free" \notin Users \cup Keepers
  /\ Description \in Seq(Nat \ {0}) /\ Description # <<>>
  /\ MaxOpens \in Nat /\ MaxCalls \in Nat
  /\ Events \subseteq {"replay", "refuse", "error", "redirect", "bad_sdp",
                       "hangup", "read_error", "uninit"}

VARIABLES
  status,      \* state-machine status; RECORDING is never assigned
  busy,        \* a command waits for its reply
  comm_mutex,  \* the thread that holds comm_mutex, or Free
  cond_busy,   \* the threads blocked in pthread_cond_wait
  wait_for,    \* the reply expected: kind and CSeq
  response_id, \* last status code, 0 once reinitialized
  rtsp_queue,  \* the session queue: "none", "live", or "freed" and not reset
  CSeq,        \* the last CSeq used in each session
  cursor,      \* static_sess and static_med of get_curr_sess, or Null
  fd,          \* the connection of transport.sock.fd, or 0
  in_buffer,   \* replies received and not handled
  rtp_th,      \* the RTP structure: "idle", "running", or "freed"
  rtsp,        \* the RTSP thread; freed: in_buffer.data, urlname and
               \* server_port are freed and not yet reset
  app,         \* the application threads
  fault,       \* memory was used that is not there
  opened,      \* connections made
  fds,         \* connections whose descriptor is open in the client
  wire,        \* requests and replies in flight on each connection
  server,      \* what the server of each connection has set up and plays
  calls        \* commands given

control == <<status, busy, wait_for, response_id>>
session == <<rtsp_queue, CSeq, cursor, rtp_th>>
mutex   == <<comm_mutex, cond_busy>>
peer    == <<opened, fds, wire, server>>
vars    == <<control, session, mutex, peer, fd, in_buffer, rtsp, app, fault, calls>>

Threads  == Users \cup Keepers
Conns    == 1 .. MaxOpens
Sessions == 1 .. Len(Description)
AllMedia == UNION {{s} \X (1 .. Description[s]) : s \in Sessions}
Free     == "free"
Null     == <<0, 0>>
Nothing  == [res |-> "none", cseq |-> 0]
BadSdp   == 299   \* stands for 200 with a description that cannot be parsed
Commands == {"open", "play", "pause", "seek", "close"}

Init ==
  /\ status = "INIT" /\ busy = FALSE
  /\ comm_mutex = Free /\ cond_busy = {}
  /\ wait_for = Nothing /\ response_id = 0
  /\ rtsp_queue = "none" /\ CSeq = [s \in Sessions |-> 0] /\ cursor = Null
  /\ fd = 0 /\ in_buffer = <<>> /\ rtp_th = "idle"
  /\ rtsp = [pc |-> "select", ret |-> "select", saved |-> 0, dying |-> FALSE, freed |-> FALSE]
  /\ app = [t \in Threads |-> [pc |-> "idle", cmd |-> "none", got |-> 0]]
  /\ fault = FALSE
  /\ opened = 0 /\ fds = {}
  /\ wire = [c \in Conns |-> [req |-> <<>>, rep |-> <<>>, end |-> "up"]]
  /\ server = [c \in Conns |-> [setup |-> {}, playing |-> {}]]
  /\ calls = 0

-----------------------------------------------------------------------------
(***************************************************************************)
(* The cursor and the requests.                                            *)
(***************************************************************************)
First == <<1, 1>>                                                \* GCS_INIT

\* Mutant: the first session is taken for the only one.
NextSessNone(c) == Null

NextSess(c) == IF c # Null /\ c[1] < Len(Description) THEN <<c[1] + 1, 1>> ELSE Null

\* Mutant: one medium too many.
NextMedBeyond(c) == IF c # Null /\ c[2] <= Description[c[1]] THEN <<c[1], c[2] + 1>> ELSE NextSess(c)

NextMed(c) == IF c # Null /\ c[2] < Description[c[1]] THEN <<c[1], c[2] + 1>> ELSE NextSess(c)

\* nmst_write: a request reaches the server while the connection stands; a
\* failed write (-1) is taken for success.
Write(w, c, request) ==
  IF c # 0 /\ w[c].end = "up" THEN [w EXCEPT ![c].req = Append(@, request)] ELSE w

\* Mutant: wait_for keeps the CSeq of the request before.
RequestStale(kind, c) ==
  /\ CSeq' = [CSeq EXCEPT ![c[1]] = @ + 1]
  /\ wait_for' = [res |-> kind, cseq |-> CSeq[c[1]]]
  /\ wire' = Write(wire, fd, [kind |-> kind, cseq |-> CSeq[c[1]] + 1, about |-> c])

\* A request about the medium c of a live session: its CSeq is the next of the
\* session and wait_for has room for this one only.
Request(kind, c) ==
  /\ CSeq' = [CSeq EXCEPT ![c[1]] = @ + 1]
  /\ wait_for' = [res |-> kind, cseq |-> CSeq[c[1]] + 1]
  /\ wire' = Write(wire, fd, [kind |-> kind, cseq |-> CSeq[c[1]] + 1, about |-> c])

\* sock_connect makes connection c and send_get_request asks for its description.
Describe(c) ==
  /\ opened' = c /\ fd' = c /\ fds' = fds \cup {c}
  /\ wait_for' = [wait_for EXCEPT !.res = "GET"]
  /\ wire' = Write(wire, c, [kind |-> "GET", cseq |-> 1, about |-> Null])

-----------------------------------------------------------------------------
(***************************************************************************)
(* The application threads.                                                *)
(***************************************************************************)
Goes(t, pc) == app' = [app EXCEPT ![t].pc = pc]

\* The status in which a command is let through.
Permitted(cmd) ==
  CASE cmd = "open"  -> status = "INIT"
    [] cmd = "play"  -> status # "INIT"
    [] cmd = "close" -> status # "INIT"
    [] cmd \in {"pause", "seek"} -> status \notin {"INIT", "READY"}
    [] cmd = "get_param" -> status = "PLAYING"

\* Playing what plays already: rtsp_play lets it through, and playing_state
\* then rejects the reply.  Instances without the event "replay" assume an
\* application that does not do it.
Replays(cmd) == cmd = "play" /\ status = "PLAYING"

May(t, cmd) ==
  /\ ~fault /\ comm_mutex = Free /\ \A u \in Threads : app[u].pc # "joining"
  /\ \/ app[t].pc = "idle" /\ cmd \in (IF t \in Users THEN Commands ELSE {"get_param"})
     \/ app[t].pc = "resume" /\ cmd = "play"               \* rtsp_seek, line 667
  /\ app[t].pc = "idle" => calls < MaxCalls /\ (Replays(cmd) => "replay" \in Events)
  /\ calls' = IF app[t].pc = "idle" THEN calls + 1 ELSE calls

\* The command is refused: it clears busy, whoever set it, and signals no one.
Refuse(t, cmd) ==
  /\ May(t, cmd) /\ ~Permitted(cmd)
  /\ busy' = IF cmd = "get_param" THEN busy ELSE FALSE
  /\ Goes(t, "idle")
  /\ UNCHANGED <<status, wait_for, response_id, session, mutex, peer, fd, in_buffer, rtsp, fault>>

\* The command takes the mutex, sets busy and passes the check of the status.
Accept(t, cmd) ==
  /\ May(t, cmd) /\ Permitted(cmd)
  /\ cmd = "open" => opened < MaxOpens
  /\ comm_mutex' = t
  /\ busy' = IF cmd = "get_param" THEN busy ELSE TRUE
  /\ app' = [app EXCEPT ![t].pc = IF cmd = "open" THEN "connect" ELSE "locked", ![t].cmd = cmd]
  /\ UNCHANGED <<status, wait_for, response_id, session, cond_busy, peer, fd, in_buffer, rtsp, fault>>

\* A thread leaves a command that sent its request, and goes on to rtsp_wait.
Sent(t) ==
  /\ comm_mutex' = Free
  /\ Goes(t, IF t \in Users THEN "wait" ELSE "idle")
  /\ UNCHANGED busy

\* A thread leaves a command that failed.
Failed(t) ==
  /\ comm_mutex' = Free
  /\ Goes(t, "idle")
  /\ busy' = IF app[t].cmd = "get_param" THEN busy ELSE FALSE

Connect(t) ==
  /\ app[t].pc = "connect" /\ ~fault /\ opened < MaxOpens
  /\ Describe(opened + 1)
  /\ Sent(t)
  /\ UNCHANGED <<status, response_id, session, cond_busy, server, in_buffer, rtsp, fault, calls>>

Refused(t) ==
  /\ app[t].pc = "connect" /\ ~fault /\ "refuse" \in Events
  /\ fd' = 0
  /\ Failed(t)
  /\ UNCHANGED <<status, wait_for, response_id, session, cond_busy, peer, in_buffer, rtsp, fault, calls>>

\* get_curr_sess(GCS_INIT) reads the queue: there is none if the RTSP thread
\* reinitialized the controller since the check of the status.
Point(t) ==
  /\ app[t].pc = "locked" /\ ~fault
  /\ fault' = (rtsp_queue # "live")
  /\ cursor' = First
  /\ Goes(t, "pointed")
  /\ UNCHANGED <<control, rtsp_queue, CSeq, rtp_th, mutex, peer, fd, in_buffer, rtsp, calls>>

Kind(cmd) == CASE cmd = "play" -> "PLAY" [] cmd = "close" -> "CLOSE"
               [] cmd \in {"pause", "seek"} -> "PAUSE" [] OTHER -> "GET_PARAM"

Send(t) ==
  /\ app[t].pc = "pointed" /\ ~fault
  /\ cursor # Null /\ rtsp_queue = "live"
  /\ Request(Kind(app[t].cmd), cursor)
  /\ Sent(t)
  /\ UNCHANGED <<status, response_id, rtsp_queue, cursor, rtp_th, cond_busy, opened, fds, server, fd, in_buffer, rtsp, fault, calls>>

\* The RTSP thread cleared the cursor, or freed the session it points to, since
\* Point.  send_pause_request does not test the cursor.
SendLost(t) ==
  /\ app[t].pc = "pointed" /\ ~fault
  /\ cursor = Null \/ rtsp_queue # "live"
  /\ fault' = (cursor # Null \/ Kind(app[t].cmd) = "PAUSE")
  /\ Failed(t)
  /\ UNCHANGED <<status, wait_for, response_id, session, cond_busy, peer, fd, in_buffer, rtsp, calls>>

\* rtsp_wait: block while busy is set ...
Sleep(t) ==
  /\ app[t].pc = "wait" /\ comm_mutex = Free /\ ~fault
  /\ busy /\ t \notin cond_busy
  /\ cond_busy' = cond_busy \cup {t}
  /\ Goes(t, "asleep")
  /\ UNCHANGED <<control, session, comm_mutex, peer, fd, in_buffer, rtsp, fault, calls>>

Signalled(t) ==
  /\ app[t].pc = "asleep" /\ t \notin cond_busy /\ comm_mutex = Free /\ ~fault
  /\ Goes(t, "wait")
  /\ UNCHANGED <<control, session, mutex, peer, fd, in_buffer, rtsp, fault, calls>>

\* Mutant: rtsp_wait does not test busy.
UnlockedAtOnce(t) ==
  /\ app[t].pc = "wait" /\ comm_mutex = Free /\ ~fault
  /\ Goes(t, "answered")
  /\ UNCHANGED <<control, session, mutex, peer, fd, in_buffer, rtsp, fault, calls>>

Unlocked(t) ==
  /\ app[t].pc = "wait" /\ comm_mutex = Free /\ ~fault
  /\ ~busy
  /\ Goes(t, "answered")
  /\ UNCHANGED <<control, session, mutex, peer, fd, in_buffer, rtsp, fault, calls>>

\* ... and report response_id, read after the mutex is released.  rtsp_seek goes
\* on to play when its pause was answered 200.
Return(t) ==
  /\ app[t].pc = "answered" /\ ~fault
  /\ app' = [app EXCEPT ![t] = [cmd |-> @.cmd, got |-> response_id,
       pc |-> IF @.cmd = "seek" /\ response_id = 200 THEN "resume" ELSE "idle"]]
  /\ UNCHANGED <<control, session, mutex, peer, fd, in_buffer, rtsp, fault, calls>>

\* rtsp_uninit, when no other call is under way: cancel the RTSP thread, which
\* runs rtsp_clean, and wait for its end.
Uninit(t) ==
  /\ "uninit" \in Events /\ ~fault
  /\ t \in Users /\ \A u \in Threads : app[u].pc = "idle"
  /\ ~rtsp.dying
  /\ rtsp' = [rtsp EXCEPT !.pc = "clean", !.dying = TRUE]
  /\ Goes(t, "joining")
  /\ UNCHANGED <<control, session, mutex, peer, fd, in_buffer, fault, calls>>

-----------------------------------------------------------------------------
(***************************************************************************)
(* The RTSP thread: the main loop and the state machine.                   *)
(***************************************************************************)
Step(pc) == rtsp' = [rtsp EXCEPT !.pc = pc]

\* Mutant: a cancelled thread goes back to the main loop.
ReinitLoop == rtsp' = [rtsp EXCEPT !.pc = "reinit", !.ret = "select"]

\* rtsp_reinit, called by the main loop or, last, by rtsp_clean.
Reinit == rtsp' = [rtsp EXCEPT !.pc = "reinit", !.ret = IF rtsp.dying THEN "dead" ELSE "select"]

\* Back from handle_rtsp_pkt with what is left of in_buffer.
Handled(rest) ==
  IF rtsp.dying THEN Reinit ELSE Step(IF rest = <<>> THEN "select" ELSE "handle")

Replies == IF fd = 0 THEN <<>> ELSE wire[fd].rep

\* One read takes any number of the replies that have arrived.
Recv ==
  /\ rtsp.pc = "select" /\ ~fault
  /\ \E n \in 1 .. Len(Replies) :
       /\ in_buffer' = in_buffer \o SubSeq(Replies, 1, n)
       /\ wire' = [wire EXCEPT ![fd].rep = SubSeq(Replies, n + 1, Len(Replies))]
  /\ Step("handle")
  /\ UNCHANGED <<control, session, mutex, opened, fds, server, fd, app, fault, calls>>

\* Mutant: no data is taken for the end of the connection.
RecvEndEarly ==
  /\ rtsp.pc = "select" /\ ~fault
  /\ fd # 0 /\ wire[fd].rep = <<>>
  /\ Reinit
  /\ UNCHANGED <<control, session, mutex, peer, fd, in_buffer, app, fault, calls>>

\* The server closed the connection, or reading from it fails.
RecvEnd ==
  /\ rtsp.pc = "select" /\ ~fault
  /\ fd # 0 /\ wire[fd].rep = <<>> /\ wire[fd].end # "up"
  /\ IF wire[fd].end = "closed" THEN Reinit
     ELSE rtsp' = [rtsp EXCEPT !.pc = "clean", !.dying = TRUE]
  /\ UNCHANGED <<control, session, mutex, peer, fd, in_buffer, app, fault, calls>>

Handling == rtsp.pc = "handle" /\ in_buffer # <<>> /\ ~fault

\* check_response: the reply is the one wait_for describes.
Awaited(r) ==
  \/ wait_for.res = "GET" /\ r.cseq = 1
  \/ wait_for.res \notin {"GET", "none"} /\ r.cseq = wait_for.cseq

\* What the handler of the present status takes.
Takes(res) ==
  \/ status = "INIT" /\ res \in {"GET", "SETUP"}
  \/ status = "READY" /\ res \in {"PLAY", "CLOSE"}
  \/ status = "PLAYING" /\ res \in {"PAUSE", "CLOSE", "GET_PARAM"}

\* An unexpected packet, one the present status does not handle, or the answer
\* to a SETUP when there is no current medium.
Reject ==
  /\ Handling
  /\ ~(/\ Awaited(Head(in_buffer)) /\ Takes(wait_for.res)
       /\ wait_for.res = "SETUP" => cursor # Null)
  /\ Reinit
  /\ UNCHANGED <<control, session, mutex, peer, fd, in_buffer, app, fault, calls>>

Expects(kind) ==
  Handling /\ Awaited(Head(in_buffer)) /\ wait_for.res = kind /\ Takes(kind)

Checked(kind) == Expects(kind) /\ (kind = "SETUP" => cursor # Null)

\* check_status: not a success.
Unsuccessful ==
  /\ \E kind \in {"GET", "SETUP", "PLAY", "PAUSE", "CLOSE"} : Checked(kind)
  /\ LET code == Head(in_buffer).code
     IN  /\ code \notin {200, BadSdp}
         /\ response_id' = code
         /\ IF code = 302 THEN Step("redirect") ELSE Reinit
  /\ in_buffer' = Tail(in_buffer)
  /\ UNCHANGED <<status, busy, wait_for, session, mutex, peer, fd, app, fault, calls>>

\* rtsp_open called by check_status, on the RTSP thread: it opens the new
\* connection over the old one, and its caller reports an error all the same.
\* At the bound MaxOpens the new connection is refused.
Redirect ==
  /\ rtsp.pc = "redirect" /\ ~fault /\ comm_mutex = Free
  /\ \/ /\ status = "INIT" /\ opened < MaxOpens
        /\ Describe(opened + 1)
        /\ busy' = TRUE
     \/ /\ status = "INIT" /\ (opened = MaxOpens \/ "refuse" \in Events)
        /\ fd' = 0 /\ busy' = FALSE
        /\ UNCHANGED <<opened, fds, wait_for, wire>>
     \/ /\ status # "INIT"
        /\ busy' = FALSE
        /\ UNCHANGED <<opened, fds, wait_for, wire, fd>>
  /\ Reinit
  /\ UNCHANGED <<status, response_id, session, mutex, server, in_buffer, app, fault, calls>>

Success(kind) ==
  /\ Checked(kind)
  /\ Head(in_buffer).code = 200
  /\ response_id' = 200
  /\ in_buffer' = Tail(in_buffer)

\* DESCRIBE answered: build the sessions and set up the first medium.
Described ==
  /\ Success("GET")
  /\ rtsp_queue' = "live"
  /\ cursor' = First
  /\ CSeq' = [s \in Sessions |-> IF s = 1 THEN 2 ELSE 1]
  /\ wait_for' = [res |-> "SETUP", cseq |-> 2]
  /\ wire' = Write(wire, fd, [kind |-> "SETUP", cseq |-> 2, about |-> First])
  /\ Handled(in_buffer')
  /\ UNCHANGED <<status, busy, rtp_th, mutex, opened, fds, server, fd, app, fault, calls>>

\* The description cannot be parsed: the session built so far is left in the queue.
BadDescription ==
  /\ Checked("GET") /\ Head(in_buffer).code = BadSdp
  /\ response_id' = 200
  /\ rtsp_queue' = "live"
  /\ Reinit
  /\ UNCHANGED <<status, busy, wait_for, CSeq, cursor, rtp_th, mutex, peer, fd, in_buffer, app, fault, calls>>

SetUpNext ==
  /\ Success("SETUP") /\ NextMed(cursor) # Null
  /\ cursor' = NextMed(cursor)
  /\ Request("SETUP", NextMed(cursor))
  /\ Handled(in_buffer')
  /\ UNCHANGED <<status, busy, rtsp_queue, rtp_th, mutex, opened, fds, server, fd, app, fault, calls>>

\* Every medium is set up: start the RTP and RTCP threads on the RTP structure,
\* which the RTP thread of an earlier presentation freed when it ended.
SetUpDone ==
  /\ Success("SETUP") /\ NextMed(cursor) = Null
  /\ fault' = (rtp_th = "freed")
  /\ rtp_th' = "running"
  /\ status' = "READY"
  /\ wait_for' = Nothing /\ cursor' = Null
  /\ Step("uninit")
  /\ UNCHANGED <<busy, rtsp_queue, CSeq, mutex, peer, fd, app, calls>>

\* PLAY or PAUSE answered for one session: ask for the next one ...
NextSession(kind) ==
  /\ Success(kind) /\ NextSess(cursor) # Null
  /\ cursor' = NextSess(cursor)
  /\ Request(kind, NextSess(cursor))
  /\ Handled(in_buffer')
  /\ UNCHANGED <<status, busy, rtsp_queue, rtp_th, mutex, opened, fds, server, fd, app, fault, calls>>

\* ... or, for the last one, change the status.
LastSession(kind, new) ==
  /\ Success(kind) /\ NextSess(cursor) = Null
  /\ status' = new
  /\ wait_for' = Nothing /\ cursor' = Null
  /\ Step("uninit")
  /\ UNCHANGED <<busy, rtsp_queue, CSeq, rtp_th, mutex, peer, fd, app, fault, calls>>

\* TEARDOWN answered for the first session.
TornDown ==
  /\ Success("CLOSE")
  /\ status' = "INIT" /\ wait_for' = Nothing
  /\ rtsp' = [rtsp EXCEPT !.pc = "reinit", !.ret = "closed", !.saved = 200]
  /\ UNCHANGED <<busy, session, mutex, peer, fd, app, fault, calls>>

ParamAnswered ==
  /\ Expects("GET_PARAM")
  /\ in_buffer' = Tail(in_buffer) /\ wait_for' = Nothing
  /\ Handled(in_buffer')
  /\ UNCHANGED <<status, busy, response_id, session, mutex, peer, fd, app, fault, calls>>

\* get_curr_sess(GCS_UNINIT), once the status has changed.
ClearCursor ==
  /\ rtsp.pc = "uninit" /\ ~fault
  /\ cursor' = Null
  /\ Step("unbusy")
  /\ UNCHANGED <<control, rtsp_queue, CSeq, rtp_th, mutex, peer, fd, in_buffer, app, fault, calls>>

\* Mutant: no signal.
rtsp_unbusySilent ==
  /\ comm_mutex = Free /\ ~fault
  /\ busy' = FALSE
  /\ UNCHANGED <<status, wait_for, response_id, mutex, session, peer, fd, app, fault, calls>>

\* rtsp_unbusy: clear busy and wake one of the threads that wait.
rtsp_unbusy ==
  /\ comm_mutex = Free /\ ~fault
  /\ busy' = FALSE
  /\ IF cond_busy = {} THEN UNCHANGED cond_busy
     ELSE \E t \in cond_busy : cond_busy' = cond_busy \ {t}
  /\ UNCHANGED <<status, wait_for, response_id, comm_mutex, session, peer, fd, app, fault, calls>>

Unbusy ==
  /\ rtsp.pc = "unbusy"
  /\ rtsp_unbusy
  /\ Handled(in_buffer)
  /\ UNCHANGED in_buffer

-----------------------------------------------------------------------------
(***************************************************************************)
(* The RTSP thread: rtsp_reinit and rtsp_clean.                            *)
(***************************************************************************)
\* Mutant: the threads are not cancelled.
FreeSessionsOnly ==
  /\ rtsp.pc = "reinit" /\ ~fault
  /\ fault' = (rtsp_queue = "freed")
  /\ rtsp_queue' = IF rtsp_queue = "none" THEN "none" ELSE "freed"
  /\ Step("buffers")
  /\ UNCHANGED <<control, CSeq, cursor, rtp_th, mutex, peer, fd, in_buffer, app, calls>>

\* Cancel and join the RTCP and RTP threads (the RTP thread frees the RTP
\* structure as it ends), then free the sessions.
FreeSessions ==
  /\ rtsp.pc = "reinit" /\ ~fault
  /\ fault' = (rtsp_queue = "freed")
  /\ rtp_th' = IF rtsp_queue # "none" /\ rtp_th = "running" THEN "freed" ELSE rtp_th
  /\ rtsp_queue' = IF rtsp_queue = "none" THEN "none" ELSE "freed"
  /\ Step("buffers")
  /\ UNCHANGED <<control, CSeq, cursor, mutex, peer, fd, in_buffer, app, calls>>

\* clean_rtsp_th: free the buffers.  A thread cancelled before Wipe resets their
\* pointers frees them again in rtsp_clean.
FreeBuffers ==
  /\ rtsp.pc = "buffers" /\ ~fault
  /\ fault' = rtsp.freed
  /\ rtsp' = [rtsp EXCEPT !.pc = "close", !.freed = TRUE]
  /\ UNCHANGED <<control, session, mutex, peer, fd, in_buffer, app, calls>>

\* Mutant: the status is not reset.
CloseConnectionOnly ==
  /\ rtsp.pc = "close" /\ ~fault
  /\ fds' = fds \ {fd} /\ fd' = 0
  /\ Step("wipe")
  /\ UNCHANGED <<control, session, mutex, opened, wire, server, in_buffer, app, fault, calls>>

\* nmst_close, nmst_init and the status ...
CloseConnection ==
  /\ rtsp.pc = "close" /\ ~fault
  /\ fds' = fds \ {fd} /\ fd' = 0
  /\ status' = "INIT"
  /\ Step("wipe")
  /\ UNCHANGED <<busy, wait_for, response_id, session, mutex, opened, wire, server, in_buffer, app, fault, calls>>

\* ... and the rest.
Wipe ==
  /\ rtsp.pc = "wipe" /\ ~fault
  /\ wait_for' = Nothing /\ in_buffer' = <<>> /\ rtsp_queue' = "none"
  /\ rtsp' = [rtsp EXCEPT !.pc = "release", !.freed = FALSE]
  /\ UNCHANGED <<status, busy, response_id, CSeq, cursor, rtp_th, mutex, peer, fd, app, fault, calls>>

Release ==
  /\ rtsp.pc = "release"
  /\ rtsp_unbusy
  /\ Step("forget")
  /\ UNCHANGED in_buffer

\* Back to the caller of rtsp_reinit.
Forget ==
  /\ rtsp.pc = "forget" /\ ~fault
  /\ response_id' = IF response_id = 200 THEN 0 ELSE response_id
  /\ Step(IF rtsp.ret = "closed" THEN "restore" ELSE rtsp.ret)
  /\ UNCHANGED <<status, busy, wait_for, session, mutex, peer, fd, in_buffer, app, fault, calls>>

Restore ==
  /\ rtsp.pc = "restore" /\ ~fault
  /\ response_id' = rtsp.saved
  /\ Step("uninit")
  /\ UNCHANGED <<status, busy, wait_for, session, mutex, peer, fd, in_buffer, app, fault, calls>>

\* rtsp_clean: unlock comm_mutex, whoever holds it; then wait for the reply to
\* the last request, if there is one.
Clean ==
  /\ rtsp.pc = "clean" /\ ~fault
  /\ comm_mutex' = Free
  /\ IF wait_for.res # "none" /\ fd # 0 THEN Step("lastrecv") ELSE Reinit
  /\ UNCHANGED <<control, session, cond_busy, peer, fd, in_buffer, app, fault, calls>>

\* rtsp_recv enlarges the data it has.
LastReply ==
  /\ rtsp.pc = "lastrecv" /\ ~fault
  /\ fd # 0 /\ wire[fd].rep # <<>>
  /\ fault' = (rtsp.freed /\ in_buffer # <<>>)
  /\ in_buffer' = Append(in_buffer, Head(wire[fd].rep))
  /\ wire' = [wire EXCEPT ![fd].rep = Tail(@)]
  /\ Step("handle")
  /\ UNCHANGED <<control, session, mutex, opened, fds, server, fd, app, calls>>

NoLastReply ==
  /\ rtsp.pc = "lastrecv" /\ ~fault
  /\ fd = 0 \/ (wire[fd].rep = <<>> /\ wire[fd].end # "up")
  /\ Reinit
  /\ UNCHANGED <<control, session, mutex, peer, fd, in_buffer, app, fault, calls>>

-----------------------------------------------------------------------------
(***************************************************************************)
(* The server: it answers the requests of a connection in order.           *)
(***************************************************************************)
Codes(kind) ==
  {200} \cup (IF "error" \in Events THEN {404} ELSE {})
        \cup (IF "redirect" \in Events THEN {302} ELSE {})
        \cup (IF "bad_sdp" \in Events /\ kind = "GET" THEN {BadSdp} ELSE {})

Obey(sv, r) ==
  CASE r.kind = "SETUP" -> [sv EXCEPT !.setup = @ \cup {r.about}]
    [] r.kind = "PLAY"  -> [sv EXCEPT !.playing = @ \cup {r.about[1]}]
    [] r.kind = "PAUSE" -> [sv EXCEPT !.playing = @ \ {r.about[1]}]
    [] r.kind = "CLOSE" -> [setup   |-> {x \in sv.setup : x[1] # r.about[1]},
                            playing |-> sv.playing \ {r.about[1]}]
    [] OTHER -> sv

Answer(c, code) ==
  /\ c \in fds /\ wire[c].end = "up" /\ wire[c].req # <<>> /\ ~fault
  /\ LET r == Head(wire[c].req)
     IN  /\ code \in Codes(r.kind)
         /\ wire' = [wire EXCEPT ![c] = [req |-> Tail(@.req), end |-> "up",
                                         rep |-> Append(@.rep, [cseq |-> r.cseq, code |-> code])]]
         /\ server' = IF code = 200 THEN [server EXCEPT ![c] = Obey(@, r)] ELSE server
  /\ UNCHANGED <<control, session, mutex, opened, fds, fd, in_buffer, rtsp, app, fault, calls>>

\* The server closes a connection, or the connection breaks.
Hangup(c, end) ==
  /\ \/ end = "closed" /\ "hangup" \in Events
     \/ end = "broken" /\ "read_error" \in Events
  /\ c \in fds /\ wire[c].end = "up" /\ ~fault
  /\ wire' = [wire EXCEPT ![c] = [req |-> <<>>, rep |-> @.rep, end |-> end]]
  /\ UNCHANGED <<control, session, mutex, opened, fds, server, fd, in_buffer, rtsp, app, fault, calls>>

-----------------------------------------------------------------------------
Command(t) ==
  \/ \E cmd \in Commands \cup {"get_param"} : Refuse(t, cmd) \/ Accept(t, cmd)
  \/ Connect(t) \/ Refused(t) \/ Point(t) \/ Send(t) \/ SendLost(t)

Wait(t) == Sleep(t) \/ Signalled(t) \/ Unlocked(t) \/ Return(t)

StateMachine ==
  \/ Reject \/ Unsuccessful \/ Redirect \/ Described \/ BadDescription
  \/ SetUpNext \/ SetUpDone
  \/ NextSession("PLAY") \/ LastSession("PLAY", "PLAYING")
  \/ NextSession("PAUSE") \/ LastSession("PAUSE", "READY")
  \/ TornDown \/ ParamAnswered \/ ClearCursor \/ Unbusy

RtspThread ==
  \/ Recv \/ RecvEnd \/ StateMachine
  \/ FreeSessions \/ FreeBuffers \/ CloseConnection \/ Wipe \/ Release \/ Forget \/ Restore
  \/ Clean \/ LastReply \/ NoLastReply

Server(c) ==
  \/ \E code \in {200, BadSdp, 302, 404} : Answer(c, code)
  \/ \E end \in {"closed", "broken"} : Hangup(c, end)

Next ==
  \/ \E t \in Threads : Command(t) \/ Wait(t) \/ Uninit(t)
  \/ RtspThread
  \/ \E c \in Conns : Server(c)

Spec == Init /\ [][Next]_vars

\* The threads run, and the server answers a request or breaks the connection.
Progress(t) == Connect(t) \/ Refused(t) \/ Point(t) \/ Send(t) \/ SendLost(t) \/ Wait(t)

FairSpec ==
  /\ Spec
  /\ \A t \in Threads : WF_vars(Progress(t))
  /\ \A c \in Conns : WF_vars(\E code \in {200, BadSdp, 302, 404} : Answer(c, code))
  /\ WF_vars(RtspThread)

-----------------------------------------------------------------------------
InCommand(t) == app[t].pc \in {"connect", "locked", "pointed"}

Kinds  == {"GET", "SETUP", "PLAY", "PAUSE", "CLOSE", "GET_PARAM"}
Wanted == [kind : {"GET"}, cseq : Nat, about : {Null}]
            \cup [kind : Kinds \ {"GET"}, cseq : Nat, about : AllMedia]
Reply  == [cseq : Nat, code : {200, BadSdp, 302, 404}]

\* Every variable of the controller keeps its type.
TypeOK ==
  /\ status \in {"INIT", "READY", "PLAYING"} /\ busy \in BOOLEAN
  /\ comm_mutex \in Threads \cup {Free} /\ cond_busy \subseteq Threads
  /\ wait_for \in [res : Kinds \cup {"none"}, cseq : Nat]
  /\ response_id \in {0, 200, 302, 404}
  /\ rtsp_queue \in {"none", "live", "freed"} /\ CSeq \in [Sessions -> Nat]
  /\ cursor \in AllMedia \cup {Null}
  /\ fd \in Conns \cup {0} /\ fds \subseteq Conns /\ opened \in 0 .. MaxOpens
  /\ rtp_th \in {"idle", "running", "freed"}
  /\ rtsp \in [pc : {"select", "handle", "redirect", "uninit", "unbusy", "reinit",
                     "buffers", "close", "wipe", "release", "forget", "restore", "clean",
                     "lastrecv", "dead"},
               ret : {"select", "closed", "dead"}, saved : {0, 200}, dying : BOOLEAN,
               freed : BOOLEAN]
  /\ app \in [Threads -> [pc : {"idle", "connect", "locked", "pointed", "wait", "asleep",
                                "answered", "resume", "joining"},
                          cmd : Commands \cup {"get_param", "none"},
                          got : {0, 200, 302, 404}]]
  /\ in_buffer \in Seq(Reply)
  /\ wire \in [Conns -> [req : Seq(Wanted), rep : Seq(Reply), end : {"up", "closed", "broken"}]]
  /\ server \in [Conns -> [setup : SUBSET AllMedia, playing : SUBSET Sessions]]
  /\ fault \in BOOLEAN /\ calls \in 0 .. MaxCalls

\* As long as the status says that a presentation is open, its sessions are
\* allocated and its RTP thread runs; the queue may be gone only while
\* rtsp_reinit is between freeing it and resetting the status.  No order of
\* commands, replies, failures and cancellation may break this.
Connected ==
  status # "INIT" /\ rtsp.pc \notin {"buffers", "close"} => rtsp_queue = "live" /\ rtp_th = "running"

\* When nothing is under way, the server does what the status says: it has set
\* up every medium, and plays every session or none.
Agreed ==
  rtsp.pc = "select" /\ in_buffer = <<>> /\ fd # 0 /\ wire[fd] = [req |-> <<>>, rep |-> <<>>, end |-> "up"] =>
    /\ status = "READY"   => server[fd] = [setup |-> AllMedia, playing |-> {}]
    /\ status = "PLAYING" => server[fd] = [setup |-> AllMedia, playing |-> Sessions]

\* Every reply to a request of the client is one it awaits, and the handler of
\* the present status takes it: an answer never tears the presentation down as
\* an unexpected packet.  The one exception is the answer to rtsp_play when the
\* presentation plays already, which rtsp.c:617 lets through and
\* rtsp_state_machine.c:481 rejects.
EveryReplyAwaited ==
  Handling => /\ Awaited(Head(in_buffer))
              /\ Takes(wait_for.res) \/ (wait_for.res = "PLAY" /\ status = "PLAYING")

\* A connection on which the server still owes an answer is not closed.
NoRequestAbandoned ==
  rtsp.pc = "close" /\ fd # 0 /\ wire[fd].end = "up" => wire[fd].req = <<>> /\ wire[fd].rep = <<>>

\* No descriptor is lost: the only connection open is the one the controller
\* uses.
NoConnectionLost == fds \subseteq {fd}

\* Nothing that was freed, or was never there, is used.
NoFault == ~fault

\* Nothing is lost on the way of a command: no connection, no request whose answer
\* the server owes, and no memory that is still used.
NothingLost == NoConnectionLost /\ NoRequestAbandoned /\ NoFault

\* When TEARDOWN has been answered, the server has nothing of the presentation
\* set up: SETUP and TEARDOWN "have to be sent for each medium" (rtsp.h:68-70).
\* (Fails, ControlTeardown: one is sent, for the first session.)
AllTornDown ==
  rtsp.pc = "reinit" /\ rtsp.ret = "closed" /\ fd # 0 => server[fd].setup = {}

\* Once the RTSP thread is gone, nothing of the presentation is left behind.
NothingLeft ==
  rtsp.pc = "dead" => fds = {} /\ rtsp_queue = "none" /\ rtp_th # "running" /\ status = "INIT"

\* A presentation that is opened finds an RTP structure to run its threads on.
RtpThreadLinked == Handling /\ status = "INIT" => rtp_th # "freed"

\* When rtsp_wait reports 200, the command it waited for has been carried out.
\* The exception is a play of what plays already (Replays): it gets the answer
\* of the play before, or finds the presentation torn down (ControlReinit).
Answers(t) == app[t].pc = "answered" /\ app'[t].pc # "answered" /\ app'[t].got = 200
AnswersTheCommand ==
  [][\A t \in Users : Answers(t) =>
       /\ app[t].cmd \in {"open", "pause", "seek"} => status = "READY"
       /\ app[t].cmd = "play" => status = "PLAYING" \/ ("replay" \in Events /\ status = "INIT")
       /\ app[t].cmd = "close" => status = "INIT"]_vars

\* A wait that ends after the controller was reinitialized says so:
\* "RTSP_Reinitialized If the library has been reinitialized (connection error,
\* server went down, etc)" (rtsp.c:235).  (Fails, ControlReinit: the line that
\* set it is commented out, rtsp_state_machine.c:93.)
ReinitReported ==
  [][\A t \in Users : app[t].pc = "answered" /\ app'[t].pc # "answered" /\ fd = 0
       /\ app[t].cmd # "close" => app'[t].got \notin {0, 200}]_vars

\* A thread in rtsp_wait returns.
WaitEnds ==
  \A t \in Users : app[t].pc \in {"wait", "asleep"} ~> app[t].pc = "answered"

\* rtsp_uninit has cancelled the RTSP thread, and not in the middle of
\* rtsp_reinit, where sessions or buffers are freed and not yet reset: they
\* would be freed again (rtsp_state_machine.c:60).
Cancels(t) ==
  app[t].pc = "joining" /\ rtsp.pc = "clean" /\ rtsp_queue # "freed" /\ ~rtsp.freed

\* Then rtsp_uninit returns ("0 If Shutdown was done, 1 If it wasn't possible to
\* cancel the running main loop", rtsp.c:717).
UninitEnds ==
  \A t \in Users : Cancels(t) ~> rtsp.pc = "dead"

\* The same, but for a thread cancelled between reading a reply and handling
\* it: rtsp_clean then waits for that reply once more (ControlUninitRead).
UninitEndsIfUnread ==
  \A t \in Users :
    Cancels(t) ~> rtsp.pc = "dead" \/ (rtsp.pc = "lastrecv" /\ in_buffer # <<>>)
=============================================================================
