-------------------------- MODULE RtspControlProofs --------------------------
(***************************************************************************)
(* Proofs about RtspControl, for any threads, presentation and bounds.     *)
(***************************************************************************)
EXTENDS RtspControl, SequenceTheorems, TLAPS

Link     == [req : Seq(Wanted), rep : Seq(Reply), end : {"up", "closed", "broken"}]
WireType == [Conns -> Link]
Places   == {"idle", "connect", "locked", "pointed", "wait", "asleep", "answered", "resume",
             "joining"}
Caller   == [pc : Places, cmd : Commands \cup {"get_param", "none"}, got : {0, 200, 302, 404}]
AppType  == [Threads -> Caller]
RtspType == [pc : {"select", "handle", "redirect", "uninit", "unbusy", "reinit", "buffers",
                   "close", "wipe", "release", "forget", "restore", "clean", "lastrecv", "dead"},
             ret : {"select", "closed", "dead"}, saved : {0, 200}, dying : BOOLEAN,
             freed : BOOLEAN]

LEMMA DescriptionType ==
  /\ Sessions = 1 .. Len(Description) /\ Len(Description) \in Nat \ {0}
  /\ \A s \in Sessions : Description[s] \in Nat \ {0}
<1>1. Description \in Seq(Nat \ {0}) /\ Description # <<>>
  BY ControlAssumption DEF ControlAssumption
<1>2. Len(Description) \in Nat /\ Len(Description) # 0
  BY <1>1
<1>3. \A s \in 1 .. Len(Description) : Description[s] \in Nat \ {0}
  BY <1>1
<1>4. QED
  BY <1>2, <1>3 DEF Sessions

\* The media are the pairs of a session and one of its media.
LEMMA MediaPairs ==
  ASSUME NEW c
  PROVE  c \in AllMedia <=> \E s \in Sessions : \E m \in 1 .. Description[s] : c = <<s, m>>
BY DEF AllMedia

\* get_curr_sess stays inside the presentation.
LEMMA CursorStays ==
  ASSUME NEW c \in AllMedia \cup {Null}
  PROVE  /\ First \in AllMedia
         /\ NextSess(c) \in AllMedia \cup {Null}
         /\ NextMed(c) \in AllMedia \cup {Null}
<1>1. First \in AllMedia
  BY DescriptionType, MediaPairs DEF First
<1>2. NextSess(c) \in AllMedia \cup {Null}
  <2>1. CASE c # Null /\ c[1] < Len(Description)
    <3>1. PICK s \in Sessions : \E m \in 1 .. Description[s] : c = <<s, m>>
      BY <2>1, MediaPairs
    <3>2. s + 1 \in Sessions /\ 1 \in 1 .. Description[s + 1]
      BY <2>1, <3>1, DescriptionType
    <3>3. NextSess(c) = <<s + 1, 1>>
      BY <2>1, <3>1 DEF NextSess
    <3>4. QED
      BY <3>2, <3>3, MediaPairs
  <2>2. CASE ~(c # Null /\ c[1] < Len(Description))
    BY <2>2 DEF NextSess
  <2>3. QED
    BY <2>1, <2>2
<1>3. NextMed(c) \in AllMedia \cup {Null}
  <2>1. CASE c # Null /\ c[2] < Description[c[1]]
    <3>1. PICK s \in Sessions : \E m \in 1 .. Description[s] : c = <<s, m>>
      BY <2>1, MediaPairs
    <3>0. PICK m \in 1 .. Description[s] : c = <<s, m>>
      BY <3>1
    <3>2. m + 1 \in 1 .. Description[s]
      BY <2>1, <3>0, DescriptionType
    <3>3. NextMed(c) = <<s, m + 1>>
      BY <2>1, <3>0 DEF NextMed
    <3>4. QED
      BY <3>2, <3>3, MediaPairs
  <2>2. CASE ~(c # Null /\ c[2] < Description[c[1]])
    BY <1>2, <2>2 DEF NextMed
  <2>3. QED
    BY <2>1, <2>2
<1>4. QED
  BY <1>1, <1>2, <1>3

\* A medium of the cursor belongs to a session.
LEMMA CursorSession ==
  ASSUME NEW c \in AllMedia
  PROVE  c[1] \in Sessions
BY MediaPairs

LEMMA LinkType ==
  ASSUME NEW x \in Link, NEW q
  PROVE  /\ q \in Seq(Wanted) => [x EXCEPT !.req = q] \in Link
         /\ q \in Seq(Reply)  => [x EXCEPT !.rep = q] \in Link
BY DEF Link

\* Writing a request keeps the wire well formed.
LEMMA WriteType ==
  ASSUME NEW w \in WireType, NEW c \in Conns \cup {0}, NEW r \in Wanted
  PROVE  Write(w, c, r) \in WireType
<1>1. CASE c # 0 /\ w[c].end = "up"
  <2>1. c \in Conns /\ w[c].req \in Seq(Wanted)
    BY <1>1 DEF WireType, Link
  <2>2. Append(w[c].req, r) \in Seq(Wanted)
    BY <2>1
  <2>3. [w[c] EXCEPT !.req = Append(w[c].req, r)] \in Link
    BY <2>1, <2>2, LinkType DEF WireType
  <2>4. QED
    BY <1>1, <2>1, <2>3 DEF Write, WireType
<1>2. CASE ~(c # 0 /\ w[c].end = "up")
  BY <1>2 DEF Write
<1>3. QED
  BY <1>1, <1>2

LEMMA RequestType ==
  ASSUME TypeOK, NEW kind \in Kinds \ {"GET"}, NEW c \in AllMedia, Request(kind, c)
  PROVE  /\ CSeq' \in [Sessions -> Nat]
         /\ wait_for' \in [res : Kinds \cup {"none"}, cseq : Nat]
         /\ wire' \in WireType
<1>1. c[1] \in Sessions
  BY CursorSession
<1>2. CSeq[c[1]] + 1 \in Nat
  BY <1>1 DEF TypeOK
<1>3. [kind |-> kind, cseq |-> CSeq[c[1]] + 1, about |-> c] \in Wanted
  BY <1>2 DEF Wanted
<1>4. wire \in WireType /\ fd \in Conns \cup {0}
  BY DEF TypeOK, WireType, Link
<1>5. QED
  BY <1>1, <1>2, <1>3, <1>4, WriteType DEF Request, TypeOK

LEMMA DescribeType ==
  ASSUME TypeOK, opened < MaxOpens, Describe(opened + 1)
  PROVE  /\ opened' \in 0 .. MaxOpens /\ fd' \in Conns /\ fds' \subseteq Conns
         /\ wait_for' \in [res : Kinds \cup {"none"}, cseq : Nat]
         /\ wire' \in WireType
<1>1. opened + 1 \in Conns /\ opened + 1 \in 0 .. MaxOpens
  BY ControlAssumption DEF ControlAssumption, TypeOK, Conns
<1>2. [kind |-> "GET", cseq |-> 1, about |-> Null] \in Wanted
  BY DEF Wanted, Kinds
<1>3. wire \in WireType
  BY DEF TypeOK, WireType, Link
<1>4. wire' \in WireType
  BY <1>1, <1>2, <1>3, WriteType DEF Describe
<1>5. wait_for' \in [res : Kinds \cup {"none"}, cseq : Nat]
  <2>1. wait_for' = [wait_for EXCEPT !.res = "GET"] /\ "GET" \in Kinds
    BY DEF Describe, Kinds
  <2>2. wait_for \in [res : Kinds \cup {"none"}, cseq : Nat]
    BY DEF TypeOK
  <2>3. QED
    BY <2>1, <2>2
<1>6. QED
  BY <1>1, <1>4, <1>5 DEF Describe, TypeOK

\* The steps of a thread change app in one thread; those of the RTSP thread
\* change rtsp.
LEMMA GoesType ==
  ASSUME TypeOK, NEW t \in Threads, NEW pc \in Places, Goes(t, pc)
  PROVE  app' \in AppType
<1>1. app[t] \in Caller
  BY DEF TypeOK, Caller, Places
<1>2. [app[t] EXCEPT !.pc = pc] \in Caller
  BY <1>1 DEF Caller
<1>3. app' = [app EXCEPT ![t] = [app[t] EXCEPT !.pc = pc]]
  BY DEF Goes
<1>4. QED
  BY <1>2, <1>3 DEF TypeOK, AppType, Caller, Places

LEMMA RtspTyped ==
  ASSUME TypeOK
  PROVE  rtsp \in RtspType
BY DEF TypeOK, RtspType

\* Records of a type, one field changed.
LEMMA CallerAt ==
  ASSUME NEW c \in Caller, NEW pc \in Places
  PROVE  [c EXCEPT !.pc = pc] \in Caller
BY DEF Caller

LEMMA RtspGives ==
  ASSUME NEW r \in RtspType, NEW ret \in {"select", "closed", "dead"}, NEW saved \in {0, 200}
  PROVE  [[r EXCEPT !.ret = ret] EXCEPT !.saved = saved] \in RtspType
<1>1. PICK q \in RtspType : q = [r EXCEPT !.ret = ret]
  <2>1. [r EXCEPT !.ret = ret] \in RtspType
    BY DEF RtspType
  <2>2. QED
    BY <2>1
<1>2. [q EXCEPT !.saved = saved] \in RtspType
  BY DEF RtspType
<1>3. QED
  BY <1>1, <1>2

LEMMA RtspMoves ==
  ASSUME NEW r \in RtspType, NEW ret \in {"select", "dead"}, NEW freed \in BOOLEAN
  PROVE  /\ [[r EXCEPT !.pc = "reinit"] EXCEPT !.ret = ret] \in RtspType
         /\ [[r EXCEPT !.pc = "close"] EXCEPT !.freed = freed] \in RtspType
         /\ [[r EXCEPT !.pc = "release"] EXCEPT !.freed = freed] \in RtspType
<1>1. ASSUME NEW q \in RtspType
      PROVE  [q EXCEPT !.ret = ret] \in RtspType /\ [q EXCEPT !.freed = freed] \in RtspType
  BY DEF RtspType
<1>2. /\ [r EXCEPT !.pc = "reinit"] \in RtspType
      /\ [r EXCEPT !.pc = "close"] \in RtspType
      /\ [r EXCEPT !.pc = "release"] \in RtspType
  BY DEF RtspType
<1>3. QED
  BY <1>1, <1>2

LEMMA StepType ==
  ASSUME TypeOK, NEW pc, Step(pc),
         pc \in {"select", "handle", "redirect", "uninit", "unbusy", "reinit", "buffers", "close",
                 "wipe", "release", "forget", "restore", "clean", "lastrecv", "dead"}
  PROVE  rtsp' \in RtspType
BY RtspTyped DEF Step, RtspType

LEMMA ReinitType ==
  ASSUME TypeOK, Reinit
  PROVE  rtsp' \in RtspType
<1>1. PICK ret \in {"dead", "select"} : rtsp' = [rtsp EXCEPT !.pc = "reinit", !.ret = ret]
  BY DEF Reinit
<1>2. QED
  BY <1>1, RtspTyped, RtspMoves

LEMMA HandledType ==
  ASSUME TypeOK, NEW rest, Handled(rest)
  PROVE  rtsp' \in RtspType
<1>1. CASE rtsp.dying
  BY <1>1, ReinitType DEF Handled
<1>2. CASE ~rtsp.dying
  BY <1>2, StepType DEF Handled
<1>3. QED
  BY <1>1, <1>2

\* Replies are taken from the front of a queue and added to the back of another.
LEMMA ReplyTypes ==
  ASSUME TypeOK
  PROVE  /\ in_buffer # <<>> => Head(in_buffer) \in Reply /\ Tail(in_buffer) \in Seq(Reply)
         /\ Replies \in Seq(Reply)
<1>1. in_buffer \in Seq(Reply)
  BY DEF TypeOK
<1>2. in_buffer # <<>> => Head(in_buffer) \in Reply /\ Tail(in_buffer) \in Seq(Reply)
  BY <1>1, HeadTailProperties
<1>3. fd # 0 => wire[fd].rep \in Seq(Reply)
  BY DEF TypeOK
<1>4. QED
  BY <1>2, <1>3 DEF Replies

LEMMA RecvType ==
  ASSUME TypeOK, Recv
  PROVE  in_buffer' \in Seq(Reply) /\ wire' \in WireType
<1>1. PICK n \in 1 .. Len(Replies) :
        /\ in_buffer' = in_buffer \o SubSeq(Replies, 1, n)
        /\ wire' = [wire EXCEPT ![fd].rep = SubSeq(Replies, n + 1, Len(Replies))]
  BY DEF Recv
<1>2. Replies \in Seq(Reply)
  BY ReplyTypes
<1>3. /\ SubSeq(Replies, 1, n) \in Seq(Reply)
      /\ SubSeq(Replies, n + 1, Len(Replies)) \in Seq(Reply)
  BY <1>1, <1>2, SubSeqProperties
<1>4. in_buffer \o SubSeq(Replies, 1, n) \in Seq(Reply)
  BY <1>3, ConcatProperties DEF TypeOK
<1>5. fd # 0
  BY <1>1 DEF Replies
<1>6. [wire[fd] EXCEPT !.rep = SubSeq(Replies, n + 1, Len(Replies))] \in Link
  <2>1. PICK rest \in Seq(Reply) : rest = SubSeq(Replies, n + 1, Len(Replies))
    BY <1>3
  <2>2. wire[fd] \in Link
    <3>1. wire \in WireType /\ fd \in Conns \cup {0}
      BY DEF TypeOK, WireType, Link
    <3>2. QED
      BY <1>5, <3>1 DEF WireType
  <2>3. [wire[fd] EXCEPT !.rep = rest] \in Link
    BY <2>2 DEF Link
  <2>4. QED
    BY <2>1, <2>3
<1>7. wire' = [wire EXCEPT ![fd] = [wire[fd] EXCEPT !.rep = SubSeq(Replies, n + 1, Len(Replies))]]
  BY <1>1
<1>8. wire' \in WireType
  BY <1>6, <1>7 DEF WireType, Link, TypeOK
<1>9. QED
  BY <1>1, <1>4, <1>8

\* A reply or a request in flight is moved.
LEMMA AnswerType ==
  ASSUME TypeOK, NEW c \in Conns, NEW code \in {200, BadSdp, 302, 404}, Answer(c, code)
  PROVE  wire' \in WireType /\ server' \in [Conns -> [setup : SUBSET AllMedia, playing : SUBSET Sessions]]
<1> DEFINE r == Head(wire[c].req)
<1>1. wire[c] \in Link /\ wire[c].req \in Seq(Wanted) /\ wire[c].rep \in Seq(Reply)
  BY DEF TypeOK, Link
<1>2. r \in Wanted /\ Tail(wire[c].req) \in Seq(Wanted)
  BY <1>1, HeadTailProperties DEF Answer
<1>3. Append(wire[c].rep, [cseq |-> r.cseq, code |-> code]) \in Seq(Reply)
  BY <1>1, <1>2 DEF Wanted, Reply
<1>4. wire' = [wire EXCEPT ![c] = [req |-> Tail(wire[c].req), end |-> "up",
                rep |-> Append(wire[c].rep, [cseq |-> r.cseq, code |-> code])]]
  BY DEF Answer
<1>5. wire' \in WireType
  BY <1>2, <1>3, <1>4 DEF TypeOK, WireType, Link
<1>6. server' \in [Conns -> [setup : SUBSET AllMedia, playing : SUBSET Sessions]]
  <2> DEFINE SV == [setup : SUBSET AllMedia, playing : SUBSET Sessions]
  <2>1. server \in [Conns -> SV] /\ server[c] \in SV
    BY DEF TypeOK
  <2>2. Obey(server[c], r) \in SV
    <3>1. CASE r.kind = "SETUP"
      <4>1. r.about \in AllMedia
        BY <1>2, <3>1 DEF Wanted
      <4>2. Obey(server[c], r) = [server[c] EXCEPT !.setup = @ \cup {r.about}]
        BY <3>1 DEF Obey
      <4>3. QED
        BY <2>1, <4>1, <4>2
    <3>2. CASE r.kind = "PLAY"
      <4>1. r.about[1] \in Sessions
        BY <1>2, <3>2, CursorSession DEF Wanted
      <4>2. Obey(server[c], r) = [server[c] EXCEPT !.playing = @ \cup {r.about[1]}]
        BY <3>2 DEF Obey
      <4>3. QED
        BY <2>1, <4>1, <4>2
    <3>3. CASE r.kind = "PAUSE"
      <4>1. Obey(server[c], r) = [server[c] EXCEPT !.playing = @ \ {r.about[1]}]
        BY <3>3 DEF Obey
      <4>2. QED
        BY <2>1, <4>1
    <3>4. CASE r.kind = "CLOSE"
      <4>1. Obey(server[c], r) = [setup   |-> {x \in server[c].setup : x[1] # r.about[1]},
                                  playing |-> server[c].playing \ {r.about[1]}]
        BY <3>4 DEF Obey
      <4>2. QED
        BY <2>1, <4>1
    <3>5. CASE r.kind \notin {"SETUP", "PLAY", "PAUSE", "CLOSE"}
      BY <2>1, <3>5 DEF Obey
    <3>6. QED
      BY <3>1, <3>2, <3>3, <3>4, <3>5
  <2>3. server' = IF code = 200 THEN [server EXCEPT ![c] = Obey(server[c], r)] ELSE server
    BY DEF Answer
  <2>4. QED
    BY <2>1, <2>2, <2>3
<1>7. QED
  BY <1>5, <1>6

-----------------------------------------------------------------------------
\* The types, with the names used above.
Types ==
  /\ status \in {"INIT", "READY", "PLAYING"} /\ busy \in BOOLEAN
  /\ comm_mutex \in Threads \cup {Free} /\ cond_busy \subseteq Threads
  /\ wait_for \in [res : Kinds \cup {"none"}, cseq : Nat]
  /\ response_id \in {0, 200, 302, 404}
  /\ rtsp_queue \in {"none", "live", "freed"} /\ CSeq \in [Sessions -> Nat]
  /\ cursor \in AllMedia \cup {Null}
  /\ fd \in Conns \cup {0} /\ fds \subseteq Conns /\ opened \in 0 .. MaxOpens
  /\ rtp_th \in {"idle", "running", "freed"}
  /\ rtsp \in RtspType /\ app \in AppType /\ in_buffer \in Seq(Reply) /\ wire \in WireType
  /\ server \in [Conns -> [setup : SUBSET AllMedia, playing : SUBSET Sessions]]
  /\ fault \in BOOLEAN /\ calls \in 0 .. MaxCalls

LEMMA TypeParts == (TypeOK <=> Types) /\ (TypeOK' <=> Types')
BY DEF Types, TypeOK, RtspType, AppType, Caller, Places, WireType, Link

\* A command keeps every type.
LEMMA CommandType ==
  ASSUME TypeOK, NEW t \in Threads, Command(t)
  PROVE  TypeOK'
<1> SUFFICES Types'
  BY TypeParts
<1>0. Types /\ Threads = Users \cup Keepers
  BY TypeParts DEF Threads
<1> USE DEF Types, control, session, mutex, peer
<1>1. ASSUME NEW cmd \in Commands \cup {"get_param"}, Refuse(t, cmd) PROVE Types'
  <2>1. app' \in AppType
    BY <1>1, GoesType DEF Refuse, Places
  <2>2. calls' \in 0 .. MaxCalls
    BY <1>0, <1>1, ControlAssumption DEF Refuse, May, ControlAssumption
  <2>3. busy' \in BOOLEAN
    BY <1>0, <1>1 DEF Refuse
  <2>4. UNCHANGED <<status, wait_for, response_id, session, mutex, peer, fd, in_buffer, rtsp, fault>>
    BY <1>1 DEF Refuse
  <2>5. QED
    BY <1>0, <2>1, <2>2, <2>3, <2>4
<1>2. ASSUME NEW cmd \in Commands \cup {"get_param"}, Accept(t, cmd) PROVE Types'
  <2> DEFINE pc == IF cmd = "open" THEN "connect" ELSE "locked"
  <2>1. app' \in AppType
    <3>1. app \in AppType
      BY <1>0
    <3>2. app[t] \in Caller /\ pc \in Places
      BY <3>1 DEF AppType, Places
    <3>3. app' = [app EXCEPT ![t].pc = pc, ![t].cmd = cmd]
      BY <1>2 DEF Accept
    <3> HIDE DEF pc
    <3>4. PICK c \in Caller : c = [[app[t] EXCEPT !.pc = pc] EXCEPT !.cmd = cmd]
      <4>1. PICK b \in Caller : b = [app[t] EXCEPT !.pc = pc]
        BY <3>2, CallerAt
      <4>2. [b EXCEPT !.cmd = cmd] \in Caller
        BY <1>2 DEF Caller
      <4>3. QED
        BY <4>1, <4>2
    <3>5. app' = [app EXCEPT ![t] = c]
      BY <3>1, <3>3, <3>4 DEF AppType
    <3>6. QED
      BY <3>1, <3>5 DEF AppType
  <2>2. calls' \in 0 .. MaxCalls
    BY <1>0, <1>2, ControlAssumption DEF Accept, May, ControlAssumption
  <2>3. busy' \in BOOLEAN
    BY <1>0, <1>2 DEF Accept
  <2>4. /\ comm_mutex' = t
        /\ UNCHANGED <<status, wait_for, response_id, session, cond_busy, peer, fd, in_buffer,
                       rtsp, fault>>
    BY <1>2 DEF Accept
  <2>5. QED
    BY <1>0, <2>1, <2>2, <2>3, <2>4
<1>3. ASSUME Sent(t) PROVE app' \in AppType /\ busy' \in BOOLEAN /\ comm_mutex' = Free
  BY <1>0, <1>3, GoesType DEF Sent, Places
<1>4. ASSUME Failed(t) PROVE app' \in AppType /\ busy' \in BOOLEAN /\ comm_mutex' = Free
  BY <1>0, <1>4, GoesType DEF Failed, Places
<1>5. CASE Connect(t)
  <2>1. app' \in AppType /\ busy' \in BOOLEAN /\ comm_mutex' = Free
    BY <1>3, <1>5 DEF Connect
  <2>2. opened < MaxOpens
    BY <1>5 DEF Connect
  <2>3. /\ opened' \in 0 .. MaxOpens /\ fd' \in Conns /\ fds' \subseteq Conns
        /\ wait_for' \in [res : Kinds \cup {"none"}, cseq : Nat]
        /\ wire' \in WireType
    BY <1>5, <2>2, DescribeType DEF Connect
  <2>4. UNCHANGED <<status, response_id, session, cond_busy, server, in_buffer, rtsp, fault, calls>>
    BY <1>5 DEF Connect
  <2>5. QED
    BY <1>0, <2>1, <2>3, <2>4
<1>6. CASE Refused(t)
  <2>1. app' \in AppType /\ busy' \in BOOLEAN /\ comm_mutex' = Free
    BY <1>4, <1>6 DEF Refused
  <2>2. /\ fd' = 0
        /\ UNCHANGED <<status, wait_for, response_id, session, cond_busy, peer, in_buffer, rtsp,
                       fault, calls>>
    BY <1>6 DEF Refused
  <2>3. QED
    BY <1>0, <2>1, <2>2
<1>7. CASE Point(t)
  <2>1. app' \in AppType
    BY <1>7, GoesType DEF Point, Places
  <2>2. cursor' \in AllMedia
    BY <1>0, <1>7, CursorStays DEF Point
  <2>3. fault' \in BOOLEAN
    BY <1>7 DEF Point
  <2>4. UNCHANGED <<control, rtsp_queue, CSeq, rtp_th, mutex, peer, fd, in_buffer, rtsp, calls>>
    BY <1>7 DEF Point
  <2>5. QED
    BY <1>0, <2>1, <2>2, <2>3, <2>4
<1>8. CASE Send(t)
  <2>1. app' \in AppType /\ busy' \in BOOLEAN /\ comm_mutex' = Free
    BY <1>3, <1>8 DEF Send
  <2>2. /\ CSeq' \in [Sessions -> Nat]
        /\ wait_for' \in [res : Kinds \cup {"none"}, cseq : Nat]
        /\ wire' \in WireType
    <3>1. cursor \in AllMedia
      BY <1>0, <1>8 DEF Send
    <3>2. Kind(app[t].cmd) \in Kinds \ {"GET"}
      BY DEF Kind, Kinds
    <3>3. QED
      BY <1>8, <3>1, <3>2, RequestType DEF Send
  <2>3. UNCHANGED <<status, response_id, rtsp_queue, cursor, rtp_th, cond_busy, opened, fds, server,
                    fd, in_buffer, rtsp, fault, calls>>
    BY <1>8 DEF Send
  <2>4. QED
    BY <1>0, <2>1, <2>2, <2>3
<1>9. CASE SendLost(t)
  <2>1. app' \in AppType /\ busy' \in BOOLEAN /\ comm_mutex' = Free
    BY <1>4, <1>9 DEF SendLost
  <2>2. fault' \in BOOLEAN
    BY <1>9 DEF SendLost
  <2>3. UNCHANGED <<status, wait_for, response_id, session, cond_busy, peer, fd, in_buffer, rtsp,
                    calls>>
    BY <1>9 DEF SendLost
  <2>4. QED
    BY <1>0, <2>1, <2>2, <2>3
<1>10. QED
  BY <1>1, <1>2, <1>5, <1>6, <1>7, <1>8, <1>9 DEF Command

\* rtsp_wait and rtsp_uninit keep every type.
LEMMA WaitType ==
  ASSUME TypeOK, NEW t \in Threads, Wait(t) \/ Uninit(t)
  PROVE  TypeOK'
<1> SUFFICES Types'
  BY TypeParts
<1>0. Types
  BY TypeParts
<1> USE DEF Types, control, session, mutex, peer
<1>1. CASE Sleep(t)
  <2>1. app' \in AppType
    BY <1>1, GoesType DEF Sleep, Places
  <2>2. cond_busy' \subseteq Threads
    BY <1>0, <1>1 DEF Sleep
  <2>3. UNCHANGED <<control, session, comm_mutex, peer, fd, in_buffer, rtsp, fault, calls>>
    BY <1>1 DEF Sleep
  <2>4. QED
    BY <1>0, <2>1, <2>2, <2>3
<1>2. CASE Signalled(t)
  <2>1. app' \in AppType
    BY <1>2, GoesType DEF Signalled, Places
  <2>2. UNCHANGED <<control, session, mutex, peer, fd, in_buffer, rtsp, fault, calls>>
    BY <1>2 DEF Signalled
  <2>3. QED
    BY <1>0, <2>1, <2>2
<1>3. CASE Unlocked(t)
  <2>1. app' \in AppType
    BY <1>3, GoesType DEF Unlocked, Places
  <2>2. UNCHANGED <<control, session, mutex, peer, fd, in_buffer, rtsp, fault, calls>>
    BY <1>3 DEF Unlocked
  <2>3. QED
    BY <1>0, <2>1, <2>2
<1>4. CASE Return(t)
  <2> DEFINE pc == IF app[t].cmd = "seek" /\ response_id = 200 THEN "resume" ELSE "idle"
  <2>1. app' = [app EXCEPT ![t] = [cmd |-> app[t].cmd, got |-> response_id, pc |-> pc]]
    BY <1>4 DEF Return
  <2>2. app[t] \in Caller /\ pc \in Places /\ response_id \in {0, 200, 302, 404}
    BY <1>0 DEF AppType, Places
  <2> HIDE DEF pc
  <2>3. [cmd |-> app[t].cmd, got |-> response_id, pc |-> pc] \in Caller
    BY <2>2 DEF Caller
  <2>4. app' \in AppType
    BY <1>0, <2>1, <2>3 DEF AppType
  <2>5. UNCHANGED <<control, session, mutex, peer, fd, in_buffer, rtsp, fault, calls>>
    BY <1>4 DEF Return
  <2>6. QED
    BY <1>0, <2>4, <2>5
<1>5. CASE Uninit(t)
  <2>1. app' \in AppType
    BY <1>5, GoesType DEF Uninit, Places
  <2>2. rtsp' \in RtspType
    <3>1. rtsp' = [rtsp EXCEPT !.pc = "clean", !.dying = TRUE]
      BY <1>5 DEF Uninit
    <3>2. QED
      BY <3>1, RtspTyped DEF RtspType
  <2>3. UNCHANGED <<control, session, mutex, peer, fd, in_buffer, fault, calls>>
    BY <1>5 DEF Uninit
  <2>4. QED
    BY <1>0, <2>1, <2>2, <2>3
<1>6. QED
  BY <1>1, <1>2, <1>3, <1>4, <1>5 DEF Wait

LEMMA SuccessType ==
  ASSUME TypeOK, NEW kind, Success(kind)
  PROVE  /\ in_buffer' \in Seq(Reply) /\ response_id' = 200
         /\ kind = "SETUP" => cursor \in AllMedia
BY ReplyTypes DEF Success, Checked, Expects, Handling, TypeOK

\* The RTSP thread's handling of replies keeps every type.
LEMMA StateMachineType ==
  ASSUME TypeOK, StateMachine
  PROVE  TypeOK'
<1> SUFFICES Types'
  BY TypeParts
<1>0. Types
  BY TypeParts
<1> USE DEF Types, control, session, mutex, peer
<1>1. CASE Reject
  <2>1. rtsp' \in RtspType
    BY <1>1, ReinitType DEF Reject
  <2>2. UNCHANGED <<control, session, mutex, peer, fd, in_buffer, app, fault, calls>>
    BY <1>1 DEF Reject
  <2>3. QED
    BY <1>0, <2>1, <2>2
<1>2. CASE Unsuccessful
  <2>1. PICK kind : Checked(kind)
    BY <1>2 DEF Unsuccessful
  <2>2. Head(in_buffer).code \in {302, 404} /\ in_buffer' \in Seq(Reply)
    <3>1. in_buffer # <<>>
      BY <2>1 DEF Checked, Expects, Handling
    <3>2. Head(in_buffer).code \in {200, BadSdp, 302, 404}
      BY <3>1, ReplyTypes DEF Reply
    <3>3. QED
      BY <1>2, <3>1, <3>2, ReplyTypes DEF Unsuccessful
  <2>3. rtsp' \in RtspType
    BY <1>2, ReinitType, StepType DEF Unsuccessful
  <2>4. response_id' = Head(in_buffer).code
    BY <1>2 DEF Unsuccessful
  <2>5. UNCHANGED <<status, busy, wait_for, session, mutex, peer, fd, app, fault, calls>>
    BY <1>2 DEF Unsuccessful
  <2>6. QED
    BY <1>0, <2>2, <2>3, <2>4, <2>5
<1>3. CASE Redirect
  <2>1. rtsp' \in RtspType
    BY <1>3, ReinitType DEF Redirect
  <2>2. UNCHANGED <<status, response_id, session, mutex, server, in_buffer, app, fault, calls>>
    BY <1>3 DEF Redirect
  <2>3. CASE opened < MaxOpens /\ Describe(opened + 1) /\ busy' = TRUE
    <3>1. /\ opened' \in 0 .. MaxOpens /\ fd' \in Conns /\ fds' \subseteq Conns
          /\ wait_for' \in [res : Kinds \cup {"none"}, cseq : Nat]
          /\ wire' \in WireType
      BY <2>3, DescribeType
    <3>2. QED
      BY <1>0, <2>1, <2>2, <2>3, <3>1
  <2>4. CASE fd' \in {0, fd} /\ busy' = FALSE /\ UNCHANGED <<opened, fds, wait_for, wire>>
    <3>1. busy' \in BOOLEAN
      BY <2>4
    <3>0. fd' \in Conns \cup {0}
      <4>1. fd' \in {0, fd}
        BY <2>4
      <4>2. QED
        BY <1>0, <4>1
    <3>2. UNCHANGED <<opened, fds, wait_for, wire>>
      BY <2>4
    <3>3. QED
      BY <1>0, <2>1, <2>2, <3>0, <3>1, <3>2
  <2>5. QED
    BY <1>3, <2>3, <2>4 DEF Redirect
<1>4. CASE Described
  <2>1. rtsp' \in RtspType /\ in_buffer' \in Seq(Reply) /\ response_id' = 200
    BY <1>4, HandledType, SuccessType DEF Described
  <2>2. First \in AllMedia
    BY CursorStays
  <2>3. [kind |-> "SETUP", cseq |-> 2, about |-> First] \in Wanted
    BY <2>2 DEF Wanted, Kinds
  <2>4. wire' \in WireType
    BY <1>0, <1>4, <2>3, WriteType DEF Described
  <2>5. CSeq' \in [Sessions -> Nat] /\ cursor' = First /\ rtsp_queue' = "live"
    BY <1>4 DEF Described
  <2>6. wait_for' \in [res : Kinds \cup {"none"}, cseq : Nat]
    BY <1>4 DEF Described, Kinds
  <2>7. UNCHANGED <<status, busy, rtp_th, mutex, opened, fds, server, fd, app, fault, calls>>
    BY <1>4 DEF Described
  <2>8. QED
    BY <1>0, <2>1, <2>2, <2>4, <2>5, <2>6, <2>7
<1>5. CASE BadDescription
  <2>1. rtsp' \in RtspType
    BY <1>5, ReinitType DEF BadDescription
  <2>2. /\ response_id' = 200 /\ rtsp_queue' = "live"
        /\ UNCHANGED <<status, busy, wait_for, CSeq, cursor, rtp_th, mutex, peer, fd, in_buffer,
                       app, fault, calls>>
    BY <1>5 DEF BadDescription
  <2>3. QED
    BY <1>0, <2>1, <2>2
<1>6. CASE SetUpNext
  <2>1. rtsp' \in RtspType /\ in_buffer' \in Seq(Reply) /\ response_id' = 200
    BY <1>6, HandledType, SuccessType DEF SetUpNext
  <2>2. cursor' \in AllMedia /\ cursor' = NextMed(cursor)
    BY <1>0, <1>6, CursorStays DEF SetUpNext
  <2>3. /\ CSeq' \in [Sessions -> Nat]
        /\ wait_for' \in [res : Kinds \cup {"none"}, cseq : Nat]
        /\ wire' \in WireType
    BY <1>6, <2>2, RequestType DEF SetUpNext, Kinds
  <2>4. UNCHANGED <<status, busy, rtsp_queue, rtp_th, mutex, opened, fds, server, fd, app, fault,
                    calls>>
    BY <1>6 DEF SetUpNext
  <2>5. QED
    BY <1>0, <2>1, <2>2, <2>3, <2>4
<1>7. CASE SetUpDone
  <2>1. rtsp' \in RtspType /\ in_buffer' \in Seq(Reply) /\ response_id' = 200
    BY <1>7, StepType, SuccessType DEF SetUpDone
  <2>2. fault' \in BOOLEAN
    BY <1>7 DEF SetUpDone
  <2>3. /\ rtp_th' = "running" /\ status' = "READY" /\ cursor' = Null
        /\ wait_for' = Nothing
        /\ UNCHANGED <<busy, rtsp_queue, CSeq, mutex, peer, fd, app, calls>>
    BY <1>7 DEF SetUpDone
  <2>4. QED
    BY <1>0, <2>1, <2>2, <2>3 DEF Nothing
<1>8. ASSUME NEW kind \in {"PLAY", "PAUSE"}, NextSession(kind) PROVE Types'
  <2>1. rtsp' \in RtspType /\ in_buffer' \in Seq(Reply) /\ response_id' = 200
    BY <1>8, HandledType, SuccessType DEF NextSession
  <2>2. cursor' \in AllMedia /\ cursor' = NextSess(cursor)
    BY <1>0, <1>8, CursorStays DEF NextSession
  <2>3. /\ CSeq' \in [Sessions -> Nat]
        /\ wait_for' \in [res : Kinds \cup {"none"}, cseq : Nat]
        /\ wire' \in WireType
    BY <1>8, <2>2, RequestType DEF NextSession, Kinds
  <2>4. UNCHANGED <<status, busy, rtsp_queue, rtp_th, mutex, opened, fds, server, fd, app, fault,
                    calls>>
    BY <1>8 DEF NextSession
  <2>5. QED
    BY <1>0, <2>1, <2>2, <2>3, <2>4
<1>9. ASSUME NEW kind, NEW new \in {"READY", "PLAYING"}, LastSession(kind, new) PROVE Types'
  <2>1. rtsp' \in RtspType /\ in_buffer' \in Seq(Reply) /\ response_id' = 200
    BY <1>9, StepType, SuccessType DEF LastSession
  <2>2. /\ status' = new /\ cursor' = Null /\ wait_for' = Nothing
        /\ UNCHANGED <<busy, rtsp_queue, CSeq, rtp_th, mutex, peer, fd, app, fault, calls>>
    BY <1>9 DEF LastSession
  <2>3. QED
    BY <1>0, <2>1, <2>2 DEF Nothing
<1>10. CASE TornDown
  <2>1. in_buffer' \in Seq(Reply) /\ response_id' = 200
    BY <1>10, SuccessType DEF TornDown
  <2>2. rtsp' \in RtspType
    <3>1. PICK r : r = [rtsp EXCEPT !.pc = "reinit"]
      OBVIOUS
    <3>2. r \in RtspType
      BY <3>1, RtspTyped DEF RtspType
    <3>3. rtsp' = [[r EXCEPT !.ret = "closed"] EXCEPT !.saved = 200]
      BY <1>10, <3>1 DEF TornDown
    <3>4. QED
      BY <3>2, <3>3, RtspGives
  <2>3. /\ status' = "INIT" /\ wait_for' = Nothing
        /\ UNCHANGED <<busy, session, mutex, peer, fd, app, fault, calls>>
    BY <1>10 DEF TornDown
  <2>4. QED
    BY <1>0, <2>1, <2>2, <2>3 DEF Nothing
<1>11. CASE ParamAnswered
  <2>1. rtsp' \in RtspType
    BY <1>11, HandledType DEF ParamAnswered
  <2>2. in_buffer' \in Seq(Reply)
    BY <1>11, ReplyTypes DEF ParamAnswered, Expects, Handling
  <2>3. /\ wait_for' = Nothing
        /\ UNCHANGED <<status, busy, response_id, session, mutex, peer, fd, app, fault, calls>>
    BY <1>11 DEF ParamAnswered
  <2>4. QED
    BY <1>0, <2>1, <2>2, <2>3 DEF Nothing
<1>12. CASE ClearCursor
  <2>1. rtsp' \in RtspType
    BY <1>12, StepType DEF ClearCursor
  <2>2. /\ cursor' = Null
        /\ UNCHANGED <<control, rtsp_queue, CSeq, rtp_th, mutex, peer, fd, in_buffer, app, fault,
                       calls>>
    BY <1>12 DEF ClearCursor
  <2>3. QED
    BY <1>0, <2>1, <2>2
<1>13. CASE Unbusy
  <2>1. rtsp' \in RtspType
    BY <1>13, HandledType DEF Unbusy
  <2>2. cond_busy' \subseteq Threads
    BY <1>0, <1>13 DEF Unbusy, rtsp_unbusy
  <2>3. busy' \in BOOLEAN
    BY <1>13 DEF Unbusy, rtsp_unbusy
  <2>4. UNCHANGED <<status, wait_for, response_id, comm_mutex, session, peer, fd, app, fault,
                    calls, in_buffer>>
    BY <1>13 DEF Unbusy, rtsp_unbusy
  <2>5. QED
    BY <1>0, <2>1, <2>2, <2>3, <2>4
<1>14. QED
  BY <1>1, <1>2, <1>3, <1>4, <1>5, <1>6, <1>7, <1>8, <1>9, <1>10, <1>11, <1>12, <1>13
  DEF StateMachine

\* Reading from the connection and tearing the controller down keep every type.
LEMMA MainLoopType ==
  ASSUME TypeOK, RtspThread
  PROVE  TypeOK'
<1> SUFFICES Types'
  BY TypeParts
<1>0. Types
  BY TypeParts
<1> USE DEF Types, control, session, mutex, peer
<1>1. CASE Recv
  <2>1. rtsp' \in RtspType
    BY <1>1, StepType DEF Recv
  <2>2. in_buffer' \in Seq(Reply) /\ wire' \in WireType
    BY <1>1, RecvType
  <2>3. UNCHANGED <<control, session, mutex, opened, fds, server, fd, app, fault, calls>>
    BY <1>1 DEF Recv
  <2>4. QED
    BY <1>0, <2>1, <2>2, <2>3
<1>2. CASE RecvEnd
  <2>1. rtsp' \in RtspType
    <3>1. CASE Reinit
      BY <3>1, ReinitType
    <3>2. CASE rtsp' = [rtsp EXCEPT !.pc = "clean", !.dying = TRUE]
      BY <3>2, RtspTyped DEF RtspType
    <3>3. QED
      BY <1>2, <3>1, <3>2 DEF RecvEnd
  <2>2. UNCHANGED <<control, session, mutex, peer, fd, in_buffer, app, fault, calls>>
    BY <1>2 DEF RecvEnd
  <2>3. QED
    BY <1>0, <2>1, <2>2
<1>3. CASE StateMachine
  BY <1>3, StateMachineType, TypeParts
<1>4. CASE FreeSessions
  <2>1. rtsp' \in RtspType
    BY <1>4, StepType DEF FreeSessions
  <2>2. fault' \in BOOLEAN
    BY <1>4 DEF FreeSessions
  <2>3. rtp_th' \in {"idle", "running", "freed"} /\ rtsp_queue' \in {"none", "live", "freed"}
    BY <1>0, <1>4 DEF FreeSessions
  <2>4. UNCHANGED <<control, CSeq, cursor, mutex, peer, fd, in_buffer, app, calls>>
    BY <1>4 DEF FreeSessions
  <2>5. QED
    BY <1>0, <2>1, <2>2, <2>3, <2>4
<1>a. CASE FreeBuffers
  <2>1. rtsp' \in RtspType
    <3>1. rtsp' = [rtsp EXCEPT !.pc = "close", !.freed = TRUE]
      BY <1>a DEF FreeBuffers
    <3>2. QED
      BY <3>1, RtspTyped, RtspMoves
  <2>2. fault' \in BOOLEAN
    BY <1>0, <1>a DEF FreeBuffers, RtspType
  <2>3. UNCHANGED <<control, session, mutex, peer, fd, in_buffer, app, calls>>
    BY <1>a DEF FreeBuffers
  <2>4. QED
    BY <1>0, <2>1, <2>2, <2>3
<1>5. CASE CloseConnection
  <2>1. rtsp' \in RtspType
    BY <1>5, StepType DEF CloseConnection
  <2>2. fds' \subseteq Conns /\ fd' = 0 /\ status' = "INIT"
    BY <1>0, <1>5 DEF CloseConnection
  <2>3. UNCHANGED <<busy, wait_for, response_id, session, mutex, opened, wire, server, in_buffer,
                    app, fault, calls>>
    BY <1>5 DEF CloseConnection
  <2>4. QED
    BY <1>0, <2>1, <2>2, <2>3
<1>6. CASE Wipe
  <2>1. rtsp' \in RtspType
    <3>1. rtsp' = [rtsp EXCEPT !.pc = "release", !.freed = FALSE]
      BY <1>6 DEF Wipe
    <3>2. QED
      BY <3>1, RtspTyped, RtspMoves
  <2>2. in_buffer' \in Seq(Reply) /\ wait_for' = Nothing /\ rtsp_queue' = "none"
    BY <1>6 DEF Wipe
  <2>3. UNCHANGED <<status, busy, response_id, CSeq, cursor, rtp_th, mutex, peer, fd, app, fault,
                    calls>>
    BY <1>6 DEF Wipe
  <2>4. QED
    BY <1>0, <2>1, <2>2, <2>3 DEF Nothing
<1>7. CASE Release
  <2>1. rtsp' \in RtspType
    BY <1>7, StepType DEF Release
  <2>2. cond_busy' \subseteq Threads
    BY <1>0, <1>7 DEF Release, rtsp_unbusy
  <2>3. busy' \in BOOLEAN
    BY <1>7 DEF Release, rtsp_unbusy
  <2>4. UNCHANGED <<status, wait_for, response_id, comm_mutex, session, peer, fd, app, fault,
                    calls, in_buffer>>
    BY <1>7 DEF Release, rtsp_unbusy
  <2>5. QED
    BY <1>0, <2>1, <2>2, <2>3, <2>4
<1>8. CASE Forget
  <2>1. rtsp' \in RtspType
    BY <1>0, <1>8, StepType DEF Forget, RtspType
  <2>2. response_id' \in {0, 200, 302, 404}
    BY <1>0, <1>8 DEF Forget
  <2>3. UNCHANGED <<status, busy, wait_for, session, mutex, peer, fd, in_buffer, app, fault, calls>>
    BY <1>8 DEF Forget
  <2>4. QED
    BY <1>0, <2>1, <2>2, <2>3
<1>9. CASE Restore
  <2>1. rtsp' \in RtspType
    BY <1>9, StepType DEF Restore
  <2>2. response_id' \in {0, 200, 302, 404}
    BY <1>0, <1>9 DEF Restore, RtspType
  <2>3. UNCHANGED <<status, busy, wait_for, session, mutex, peer, fd, in_buffer, app, fault, calls>>
    BY <1>9 DEF Restore
  <2>4. QED
    BY <1>0, <2>1, <2>2, <2>3
<1>10. CASE Clean
  <2>1. rtsp' \in RtspType
    BY <1>10, ReinitType, StepType DEF Clean
  <2>2. /\ comm_mutex' = Free
        /\ UNCHANGED <<control, session, cond_busy, peer, fd, in_buffer, app, fault, calls>>
    BY <1>10 DEF Clean
  <2>3. QED
    BY <1>0, <2>1, <2>2
<1>11. CASE LastReply
  <2>1. rtsp' \in RtspType
    BY <1>11, StepType DEF LastReply
  <2>2. /\ fd \in Conns /\ wire[fd] \in Link /\ wire[fd].rep \in Seq(Reply)
        /\ wire[fd].rep # <<>>
    BY <1>0, <1>11 DEF LastReply, WireType, Link
  <2>3. Head(wire[fd].rep) \in Reply /\ Tail(wire[fd].rep) \in Seq(Reply)
    BY <2>2, HeadTailProperties
  <2>4. in_buffer' \in Seq(Reply)
    BY <1>0, <1>11, <2>3 DEF LastReply
  <2>5. wire' \in WireType
    <3>1. wire' = [wire EXCEPT ![fd] = [wire[fd] EXCEPT !.rep = Tail(wire[fd].rep)]]
      BY <1>11 DEF LastReply
    <3>2. [wire[fd] EXCEPT !.rep = Tail(wire[fd].rep)] \in Link
      BY <2>2, <2>3, LinkType
    <3>3. QED
      BY <1>0, <2>2, <3>1, <3>2 DEF WireType
  <2>6. UNCHANGED <<control, session, mutex, opened, fds, server, fd, app, calls>>
    BY <1>11 DEF LastReply
  <2>7. fault' \in BOOLEAN
    BY <1>0, <1>11 DEF LastReply
  <2>8. QED
    BY <1>0, <2>1, <2>4, <2>5, <2>6, <2>7
<1>12. CASE NoLastReply
  <2>1. rtsp' \in RtspType
    BY <1>12, ReinitType DEF NoLastReply
  <2>2. UNCHANGED <<control, session, mutex, peer, fd, in_buffer, app, fault, calls>>
    BY <1>12 DEF NoLastReply
  <2>3. QED
    BY <1>0, <2>1, <2>2
<1>13. QED
  BY <1>1, <1>2, <1>3, <1>4, <1>a, <1>5, <1>6, <1>7, <1>8, <1>9, <1>10, <1>11, <1>12 DEF RtspThread

\* What the server does keeps every type.
LEMMA ServerType ==
  ASSUME TypeOK, NEW c \in Conns, Server(c)
  PROVE  TypeOK'
<1> SUFFICES Types'
  BY TypeParts
<1>0. Types
  BY TypeParts
<1> USE DEF Types, control, session, mutex, peer
<1>1. ASSUME NEW code \in {200, BadSdp, 302, 404}, Answer(c, code) PROVE Types'
  <2>1. /\ wire' \in WireType
        /\ server' \in [Conns -> [setup : SUBSET AllMedia, playing : SUBSET Sessions]]
    BY <1>1, AnswerType
  <2>2. UNCHANGED <<control, session, mutex, opened, fds, fd, in_buffer, rtsp, app, fault, calls>>
    BY <1>1 DEF Answer
  <2>3. QED
    BY <1>0, <2>1, <2>2
<1>2. ASSUME NEW end \in {"closed", "broken"}, Hangup(c, end) PROVE Types'
  <2>1. wire' = [wire EXCEPT ![c] = [rep |-> wire[c].rep, end |-> end, req |-> <<>>]]
    BY <1>2 DEF Hangup
  <2>2. [rep |-> wire[c].rep, end |-> end, req |-> <<>>] \in Link
    BY <1>0 DEF WireType, Link
  <2>3. wire' \in WireType
    BY <1>0, <2>1, <2>2 DEF WireType
  <2>4. UNCHANGED <<control, session, mutex, opened, fds, server, fd, in_buffer, rtsp, app, fault,
                    calls>>
    BY <1>2 DEF Hangup
  <2>5. QED
    BY <1>0, <2>3, <2>4
<1>3. QED
  BY <1>1, <1>2 DEF Server

\* Every variable of the controller keeps its type in every behaviour, for any
\* number of threads and any presentation.
THEOREM TypeCorrect == Spec => []TypeOK
<1>1. Init => TypeOK
  <2> SUFFICES ASSUME Init PROVE Types
    BY TypeParts
  <2>1. MaxOpens \in Nat /\ MaxCalls \in Nat
    BY ControlAssumption DEF ControlAssumption
  <2> USE DEF Init
  <2>2. app \in AppType /\ rtsp \in RtspType
    BY DEF AppType, Caller, Places, RtspType
  <2>3. wire \in WireType /\ in_buffer \in Seq(Reply)
    BY DEF WireType, Link
  <2>4. server \in [Conns -> [setup : SUBSET AllMedia, playing : SUBSET Sessions]]
    OBVIOUS
  <2>5. CSeq \in [Sessions -> Nat] /\ wait_for \in [res : Kinds \cup {"none"}, cseq : Nat]
    BY DEF Nothing
  <2>6. busy \in BOOLEAN /\ fault \in BOOLEAN
    OBVIOUS
  <2>7. /\ status = "INIT" /\ comm_mutex = Free /\ cond_busy = {} /\ response_id = 0
        /\ rtsp_queue = "none" /\ cursor = Null /\ fd = 0 /\ fds = {} /\ opened = 0
        /\ rtp_th = "idle" /\ calls = 0
    OBVIOUS
  <2>8. QED
    BY <2>1, <2>2, <2>3, <2>4, <2>5, <2>6, <2>7 DEF Types
<1>2. TypeOK /\ [Next]_vars => TypeOK'
  <2> SUFFICES ASSUME TypeOK, [Next]_vars PROVE TypeOK'
    OBVIOUS
  <2>1. CASE UNCHANGED vars
    BY <2>1 DEF vars, control, session, mutex, peer, TypeOK
  <2>2. CASE Next
    BY <2>2, CommandType, WaitType, MainLoopType, ServerType DEF Next
  <2>3. QED
    BY <2>1, <2>2
<1>3. QED
  BY <1>1, <1>2, PTL DEF Spec

-----------------------------------------------------------------------------
\* Connected is not inductive alone: SETUP must still be answered for sessions
\* that exist, and rtsp_reinit must have reset the status before it lets go of
\* the queue.
ConnectedInv ==
  /\ Connected
  /\ wait_for.res = "SETUP" /\ rtsp.pc \notin {"buffers", "close", "wipe"} => rtsp_queue = "live"
  /\ rtsp.pc = "wipe" => status = "INIT"

\* Of the application's steps, none sets the status or touches the queue, and
\* none asks for a SETUP.
LEMMA AppKeeps ==
  ASSUME TypeOK, NEW t \in Threads, Command(t) \/ Wait(t)
  PROVE  /\ UNCHANGED <<status, rtsp_queue, rtp_th, rtsp>>
         /\ wait_for'.res = "SETUP" => wait_for.res = "SETUP"
<1> USE DEF control, session, mutex, peer
<1>1. ASSUME NEW cmd, Refuse(t, cmd) \/ Accept(t, cmd)
      PROVE  UNCHANGED <<status, rtsp_queue, rtp_th, rtsp, wait_for>>
  BY <1>1 DEF Refuse, Accept
<1>2. CASE Connect(t)
  BY <1>2 DEF Connect, Describe, TypeOK
<1>3. CASE Refused(t) \/ Point(t) \/ SendLost(t)
  BY <1>3 DEF Refused, Point, SendLost
<1>4. CASE Send(t)
  BY <1>4 DEF Send, Request, Kind
<1>5. CASE Wait(t)
  BY <1>5 DEF Wait, Sleep, Signalled, Unlocked, Return
<1>6. QED
  BY <1>1, <1>2, <1>3, <1>4, <1>5 DEF Command

LEMMA ServerKeeps ==
  ASSUME NEW c, Server(c)
  PROVE  UNCHANGED <<status, rtsp_queue, rtp_th, rtsp, wait_for>>
BY DEF Server, Answer, Hangup, control, session

LEMMA StepPc ==
  ASSUME TypeOK
  PROVE  /\ \A pc : Step(pc) => rtsp'.pc = pc
         /\ Reinit => rtsp'.pc = "reinit"
         /\ \A rest : Handled(rest) => rtsp'.pc \in {"reinit", "select", "handle"}
<1>0. rtsp \in RtspType
  BY DEF TypeOK, RtspType
<1>1. \A pc : Step(pc) => rtsp'.pc = pc
  BY <1>0 DEF RtspType, Step
<1>2. Reinit => rtsp'.pc = "reinit"
  BY <1>0 DEF RtspType, Reinit
<1>3. \A rest : Handled(rest) => rtsp'.pc \in {"reinit", "select", "handle"}
  BY <1>1, <1>2 DEF Handled
<1>4. QED
  BY <1>1, <1>2, <1>3

\* Handling a reply keeps the strengthened invariant.
LEMMA StateMachineConnected ==
  ASSUME TypeOK, ConnectedInv, StateMachine
  PROVE  ConnectedInv'
<1> USE DEF ConnectedInv, Connected, control, session, mutex, peer
<1>1. CASE Reject
  BY <1>1, StepPc DEF Reject, Handling
<1>2. CASE Unsuccessful
  <2>1. rtsp.pc = "handle" /\ rtsp'.pc \in {"redirect", "reinit"}
    BY <1>2, StepPc DEF Unsuccessful, Checked, Expects, Handling
  <2>2. UNCHANGED <<status, wait_for, rtsp_queue, rtp_th>>
    BY <1>2 DEF Unsuccessful
  <2>3. QED
    BY <2>1, <2>2
<1>3. CASE Redirect
  <2>1. rtsp.pc = "redirect" /\ rtsp'.pc = "reinit" /\ UNCHANGED <<status, rtsp_queue, rtp_th>>
    BY <1>3, StepPc DEF Redirect
  <2>2. wait_for'.res = "SETUP" => wait_for.res = "SETUP"
    BY <1>3 DEF Redirect, Describe, TypeOK
  <2>3. QED
    BY <2>1, <2>2
<1>4. CASE Described
  <2>1. /\ rtsp.pc = "handle" /\ rtsp'.pc \in {"reinit", "select", "handle"}
        /\ status = "INIT" /\ rtsp_queue' = "live" /\ UNCHANGED status
    BY <1>4, StepPc DEF Described, Success, Checked, Expects, Handling, Takes
  <2>2. QED
    BY <2>1
<1>5. CASE BadDescription
  <2>1. /\ rtsp.pc = "handle" /\ rtsp'.pc = "reinit" /\ rtsp_queue' = "live"
        /\ UNCHANGED <<status, rtp_th>>
    BY <1>5, StepPc DEF BadDescription, Checked, Expects, Handling
  <2>2. QED
    BY <2>1
<1>6. CASE SetUpNext
  <2>1. /\ rtsp.pc = "handle" /\ rtsp'.pc \in {"reinit", "select", "handle"}
        /\ wait_for.res = "SETUP" /\ UNCHANGED <<status, rtsp_queue, rtp_th>>
    BY <1>6, StepPc DEF SetUpNext, Success, Checked, Expects, Handling
  <2>2. QED
    BY <2>1
<1>7. CASE SetUpDone
  <2>1. /\ rtsp.pc = "handle" /\ rtsp'.pc = "uninit"
        /\ wait_for.res = "SETUP" /\ rtp_th' = "running" /\ UNCHANGED rtsp_queue
    BY <1>7, StepPc DEF SetUpDone, Success, Checked, Expects, Handling
  <2>2. QED
    BY <2>1
<1>8. ASSUME NEW kind \in {"PLAY", "PAUSE"}, NextSession(kind) PROVE ConnectedInv'
  <2>1. /\ rtsp.pc = "handle" /\ rtsp'.pc \in {"reinit", "select", "handle"}
        /\ wait_for'.res = kind /\ UNCHANGED <<status, rtsp_queue, rtp_th>>
    BY <1>8, StepPc DEF NextSession, Success, Checked, Expects, Handling, Request
  <2>2. QED
    BY <2>1
<1>9. ASSUME NEW kind \in {"PLAY", "PAUSE"}, NEW new, LastSession(kind, new) PROVE ConnectedInv'
  <2>1. /\ rtsp.pc = "handle" /\ rtsp'.pc = "uninit" /\ status # "INIT"
        /\ wait_for' = Nothing /\ UNCHANGED <<rtsp_queue, rtp_th>>
    BY <1>9, StepPc DEF LastSession, Success, Checked, Expects, Handling, Takes
  <2>2. QED
    BY <2>1 DEF Nothing
<1>10. CASE TornDown
  <2>1. rtsp'.pc = "reinit" /\ status' = "INIT" /\ wait_for' = Nothing
    BY <1>10 DEF TornDown, TypeOK
  <2>2. QED
    BY <2>1 DEF Nothing
<1>11. CASE ParamAnswered
  <2>1. /\ rtsp.pc = "handle" /\ rtsp'.pc \in {"reinit", "select", "handle"}
        /\ wait_for' = Nothing /\ UNCHANGED <<status, rtsp_queue, rtp_th>>
    BY <1>11, StepPc DEF ParamAnswered, Expects, Handling
  <2>2. QED
    BY <2>1 DEF Nothing
<1>12. CASE ClearCursor
  BY <1>12, StepPc DEF ClearCursor
<1>13. CASE Unbusy
  <2>1. /\ rtsp.pc = "unbusy" /\ rtsp'.pc \in {"reinit", "select", "handle"}
        /\ UNCHANGED <<status, rtsp_queue, rtp_th, wait_for>>
    BY <1>13, StepPc DEF Unbusy, rtsp_unbusy
  <2>2. QED
    BY <2>1
<1>14. QED
  BY <1>1, <1>2, <1>3, <1>4, <1>5, <1>6, <1>7, <1>8, <1>9, <1>10, <1>11, <1>12, <1>13
  DEF StateMachine

LEMMA MainLoopConnected ==
  ASSUME TypeOK, ConnectedInv, RtspThread
  PROVE  ConnectedInv'
<1> USE DEF ConnectedInv, Connected, control, session, mutex, peer
<1>1. CASE Recv
  <2>1. /\ rtsp.pc = "select" /\ rtsp'.pc = "handle"
        /\ UNCHANGED <<status, rtsp_queue, rtp_th, wait_for>>
    BY <1>1, StepPc DEF Recv
  <2>2. QED
    BY <2>1
<1>2. CASE RecvEnd
  <2>1. rtsp.pc = "select" /\ UNCHANGED <<status, rtsp_queue, rtp_th, wait_for>>
    BY <1>2 DEF RecvEnd
  <2>2. rtsp'.pc \in {"reinit", "clean"}
    <3>1. CASE Reinit
      BY <3>1, StepPc
    <3>2. CASE rtsp' = [rtsp EXCEPT !.pc = "clean", !.dying = TRUE]
      BY <3>2 DEF TypeOK
    <3>3. QED
      BY <1>2, <3>1, <3>2 DEF RecvEnd
  <2>3. QED
    BY <2>1, <2>2
<1>3. CASE StateMachine
  BY <1>3, StateMachineConnected
<1>4. CASE FreeSessions
  <2>1. rtsp.pc = "reinit" /\ rtsp'.pc = "buffers"
    BY <1>4, StepPc DEF FreeSessions
  <2>2. QED
    BY <2>1
<1>a. CASE FreeBuffers
  <2>1. rtsp'.pc = "close" /\ UNCHANGED <<status, rtsp_queue, rtp_th, wait_for>>
    BY <1>a, RtspTyped DEF FreeBuffers, RtspType
  <2>2. QED
    BY <2>1
<1>5. CASE CloseConnection
  <2>1. rtsp'.pc = "wipe" /\ status' = "INIT"
    BY <1>5, StepPc DEF CloseConnection
  <2>2. QED
    BY <2>1
<1>6. CASE Wipe
  <2>1. /\ rtsp.pc = "wipe" /\ rtsp'.pc = "release"
        /\ wait_for' = Nothing /\ UNCHANGED status
    BY <1>6, RtspTyped DEF Wipe, RtspType
  <2>2. QED
    BY <2>1 DEF Nothing
<1>7. CASE Release
  <2>1. /\ rtsp.pc = "release" /\ rtsp'.pc = "forget"
        /\ UNCHANGED <<status, rtsp_queue, rtp_th, wait_for>>
    BY <1>7, StepPc DEF Release, rtsp_unbusy
  <2>2. QED
    BY <2>1
<1>8. CASE Forget \/ Restore
  <2>1. /\ rtsp.pc \in {"forget", "restore"} /\ rtsp'.pc \in {"restore", "select", "dead", "uninit"}
        /\ UNCHANGED <<status, rtsp_queue, rtp_th, wait_for>>
    <3>1. rtsp.ret \in {"select", "closed", "dead"}
      BY DEF TypeOK
    <3>2. QED
      BY <1>8, <3>1, StepPc DEF Forget, Restore
  <2>2. QED
    BY <2>1
<1>9. CASE Clean \/ NoLastReply
  <2>1. /\ rtsp.pc \in {"clean", "lastrecv"} /\ rtsp'.pc \in {"lastrecv", "reinit"}
        /\ UNCHANGED <<status, rtsp_queue, rtp_th, wait_for>>
    BY <1>9, StepPc DEF Clean, NoLastReply
  <2>2. QED
    BY <2>1
<1>10. CASE LastReply
  <2>1. /\ rtsp.pc = "lastrecv" /\ rtsp'.pc = "handle"
        /\ UNCHANGED <<status, rtsp_queue, rtp_th, wait_for>>
    BY <1>10, StepPc DEF LastReply
  <2>2. QED
    BY <2>1
<1>11. QED
  BY <1>1, <1>2, <1>3, <1>4, <1>a, <1>5, <1>6, <1>7, <1>8, <1>9, <1>10 DEF RtspThread

\* In an application that does not call rtsp_uninit, whatever the server and
\* the network do, a status other than INIT means that the sessions are
\* allocated and the RTP thread runs, except inside rtsp_reinit.
THEOREM StaysConnected ==
  ASSUME "uninit" \notin Events
  PROVE  Spec => []Connected
<1>1. Init => ConnectedInv
  BY DEF Init, ConnectedInv, Connected, Nothing
<1>2. TypeOK /\ ConnectedInv /\ [Next]_vars => ConnectedInv'
  <2> SUFFICES ASSUME TypeOK, ConnectedInv, [Next]_vars PROVE ConnectedInv'
    OBVIOUS
  <2>1. ASSUME NEW t \in Threads, Command(t) \/ Wait(t) PROVE ConnectedInv'
    BY <2>1, AppKeeps DEF ConnectedInv, Connected
  <2>2. ASSUME NEW t \in Threads, Uninit(t) PROVE FALSE
    BY <2>2 DEF Uninit
  <2>3. ASSUME NEW c \in Conns, Server(c) PROVE ConnectedInv'
    BY <2>3, ServerKeeps DEF ConnectedInv, Connected
  <2>4. CASE UNCHANGED vars
    BY <2>4 DEF vars, control, session, ConnectedInv, Connected
  <2>5. QED
    BY <2>1, <2>2, <2>3, <2>4, MainLoopConnected DEF Next
<1>3. ConnectedInv => Connected
  BY DEF ConnectedInv
<1>4. QED
  BY <1>1, <1>2, <1>3, TypeCorrect, PTL DEF Spec

-----------------------------------------------------------------------------
(***************************************************************************)
(* One application thread, one presentation, and a server that may refuse  *)
(* a connection or a request but stays up: what is in flight, what the     *)
(* server has done and where the two threads are always fit together.      *)
(***************************************************************************)
Alone ==
  /\ Keepers = {} /\ \E u : Users = {u}
  /\ MaxOpens <= 1 /\ Events \subseteq {"refuse", "error", "replay"}

Me == CHOOSE u \in Users : TRUE

Place == app[Me].pc
Cmd   == app[Me].cmd

\* The media before the one at c.
Before(c) == {x \in AllMedia : x[1] < c[1] \/ (x[1] = c[1] /\ x[2] < c[2])}

ServerHas(m, p) == server[1] = [setup |-> m, playing |-> p]

Lives   == rtsp_queue = "live" /\ rtp_th = "running"
Waiting == Place \in {"wait", "asleep"} /\ busy

\* What the server has done, and the controller knows, when a request of a kind
\* is under way, before and after the server has carried it out.
Doing(kind, obeyed) ==
  \/ /\ kind = "GET" /\ status = "INIT" /\ Cmd = "open"
     /\ rtsp_queue = "none" /\ rtp_th = "idle" /\ ServerHas({}, {})
  \/ /\ kind = "SETUP" /\ status = "INIT" /\ Cmd = "open"
     /\ rtsp_queue = "live" /\ rtp_th = "idle" /\ cursor \in AllMedia
     /\ ServerHas(Before(cursor) \cup (IF obeyed THEN {cursor} ELSE {}), {})
  \/ /\ kind = "PLAY" /\ status = "READY" /\ Cmd = "play" /\ Lives
     /\ \E s \in Sessions : /\ cursor = <<s, 1>>
                            /\ ServerHas(AllMedia, 1 .. (IF obeyed THEN s ELSE s - 1))
  \/ /\ kind = "PLAY" /\ status = "PLAYING" /\ Cmd = "play" /\ "replay" \in Events /\ Lives
     /\ cursor = First /\ ServerHas(AllMedia, Sessions)
  \/ /\ kind = "PAUSE" /\ status = "PLAYING" /\ Cmd \in {"pause", "seek"} /\ Lives
     /\ \E s \in Sessions : /\ cursor = <<s, 1>>
                            /\ ServerHas(AllMedia, (IF obeyed THEN s + 1 ELSE s) .. Len(Description))
  \/ kind = "CLOSE" /\ status # "INIT" /\ Cmd = "close" /\ Lives

\* The answer to the request that wait_for describes.
Fits(cseq) == cseq = IF wait_for.res = "GET" THEN 1 ELSE wait_for.cseq

Linked == opened = 1 /\ fd = 1 /\ fds = {1} /\ wire[1].end = "up"
Silent == wire[1].req = <<>> /\ wire[1].rep = <<>> /\ in_buffer = <<>>

Asking ==
  /\ Linked /\ Waiting /\ rtsp.pc = "select"
  /\ wire[1].rep = <<>> /\ in_buffer = <<>>
  /\ \E r \in Wanted : /\ wire[1].req = <<r>> /\ r.kind = wait_for.res /\ Fits(r.cseq)
                       /\ r.kind # "GET" => r.about = cursor
  /\ Doing(wait_for.res, FALSE)

Answered(q) ==
  \E r \in Reply : /\ q = <<r>> /\ r.code \in {200, 404} /\ Fits(r.cseq)
                   /\ Doing(wait_for.res, r.code = 200)

Arriving ==
  /\ Linked /\ Waiting /\ rtsp.pc = "select"
  /\ wire[1].req = <<>> /\ in_buffer = <<>> /\ Answered(wire[1].rep)

Arrived ==
  /\ Linked /\ Waiting /\ rtsp.pc = "handle"
  /\ wire[1].req = <<>> /\ wire[1].rep = <<>> /\ Answered(in_buffer)

\* The server does what the status says.
Matched ==
  /\ Lives /\ wait_for = Nothing
  /\ \/ status = "READY" /\ ServerHas(AllMedia, {})
     \/ status = "PLAYING" /\ ServerHas(AllMedia, Sessions)

\* What rtsp_wait will report fits the status.
Reported ==
  response_id = 200 =>
    CASE Cmd \in {"open", "pause", "seek"} -> status = "READY"
      [] Cmd = "play"  -> status = "PLAYING"
      [] Cmd = "close" -> status = "INIT"

Settling ==
  /\ Linked /\ Silent /\ Waiting /\ Matched /\ Reported
  /\ rtsp.pc \in {"uninit", "unbusy"}

Settled ==
  /\ Linked /\ Silent /\ Matched /\ rtsp.pc = "select"
  /\ \/ Place \in {"wait", "asleep", "answered"} /\ Reported
     \/ Place = "idle"
     \/ Place = "resume" /\ status = "READY"
     \/ /\ Place \in {"locked", "pointed"} /\ busy
        /\ Place = "pointed" => cursor = First
        /\ \/ Cmd = "play" /\ (status = "PLAYING" => "replay" \in Events)
           \/ Cmd \in {"pause", "seek"} /\ status = "PLAYING"
           \/ Cmd = "close"

\* No success of the command is on record; that of a PLAY which is rejected
\* because the presentation plays already may be, of the PLAY before.
Unmet == response_id # 200 \/ (Cmd = "play" /\ "replay" \in Events)

Closing ==
  /\ Linked /\ Waiting /\ rtsp.pc \in {"reinit", "buffers", "close"}
  /\ wire[1].req = <<>> /\ wire[1].rep = <<>>
  /\ rtsp.pc = "reinit" => rtsp_queue # "freed"
  /\ (rtsp.ret = "closed" /\ Cmd = "close") \/ (rtsp.ret = "select" /\ Unmet)

Over ==
  /\ opened = 1 /\ fd = 0 /\ fds = {} /\ status = "INIT"
  /\ rtsp.pc # "wipe" => in_buffer = <<>>
  /\ rtsp.pc \in {"wipe", "release", "forget", "restore", "uninit", "unbusy", "select"}
  /\ Place \in {"wait", "asleep", "answered", "idle"} /\ rtsp.ret \in {"select", "closed"}
  /\ Cmd = "close" \/ (Unmet /\ rtsp.ret = "select" /\ rtsp.pc # "restore")

Fresh ==
  /\ opened = 0 /\ fd = 0 /\ fds = {} /\ status = "INIT" /\ in_buffer = <<>>
  /\ rtsp_queue = "none" /\ rtp_th = "idle" /\ rtsp.pc = "select"
  /\ Place \in {"idle", "connect"} /\ (Place = "connect" => Cmd = "open" /\ busy)
  /\ 1 \in Conns => wire[1] = [req |-> <<>>, rep |-> <<>>, end |-> "up"] /\ ServerHas({}, {})

Stages ==
  Fresh \/ Asking \/ Arriving \/ Arrived \/ Settling \/ Settled \/ Closing \/ Over

TalkInv == ~fault /\ rtsp.dying = FALSE /\ Stages

\* The buffers are freed, and their pointers not yet reset, in two stretches of
\* rtsp_reinit only.
FreedOnce == rtsp.freed => rtsp.pc \in {"close", "wipe"}

LEMMA AloneThreads ==
  ASSUME Alone
  PROVE  /\ Users = {Me} /\ Threads = {Me} /\ Me \in Threads
         /\ MaxOpens \in {0, 1}
         /\ \A e \in {"redirect", "bad_sdp", "hangup", "read_error", "uninit"} : e \notin Events
<1>1. PICK u : Users = {u}
  BY DEF Alone
<1>2. Me = u
  BY <1>1 DEF Me
<1>3. MaxOpens \in {0, 1}
  BY ControlAssumption DEF Alone, ControlAssumption
<1>4. QED
  BY <1>1, <1>2, <1>3 DEF Alone, Threads

\* Where the application thread is tells the stage.
LEMMA StageOfPlace ==
  ASSUME TalkInv
  PROVE  /\ Place = "connect" => Fresh
         /\ Place \in {"locked", "pointed", "resume"} => Settled
         /\ Place = "idle" => Fresh \/ Settled \/ Over
         /\ Place = "answered" => Settled \/ Over
         /\ Place = "wait" /\ ~busy => Settled \/ Over
         /\ Place # "joining"
BY DEF TalkInv, Stages, Fresh, Asking, Arriving, Arrived, Settling, Settled, Closing, Over, Waiting

\* And where the RTSP thread is.
LEMMA StageOfThread ==
  ASSUME TalkInv
  PROVE  /\ rtsp.pc = "handle" => Arrived
         /\ rtsp.pc \in {"uninit", "unbusy"} => Settling \/ Over
         /\ rtsp.pc \in {"reinit", "buffers", "close"} => Closing
         /\ rtsp.pc \in {"wipe", "release", "forget", "restore"} => Over
         /\ rtsp.pc \notin {"redirect", "clean", "lastrecv", "dead"}
         /\ rtsp.pc = "select" /\ fd # 0 => Asking \/ Arriving \/ Settled
BY DEF TalkInv, Stages, Fresh, Asking, Arriving, Arrived, Settling, Settled, Closing, Over

LEMMA PlaceAfter ==
  ASSUME Alone, TypeOK, NEW t \in Threads, NEW pc, Goes(t, pc)
  PROVE  t = Me /\ Place' = pc /\ Cmd' = Cmd
<1>1. t = Me /\ app[Me] \in Caller /\ app \in [Threads -> Caller]
  BY AloneThreads, TypeParts DEF Types, AppType
<1>2. app' = [app EXCEPT ![Me] = [app[Me] EXCEPT !.pc = pc]]
  BY <1>1 DEF Goes
<1>3. QED
  BY <1>1, <1>2 DEF Place, Cmd, Caller

LEMMA ThreadAfter ==
  ASSUME TypeOK, NEW pc, Step(pc)
  PROVE  rtsp'.pc = pc /\ rtsp'.ret = rtsp.ret /\ rtsp'.saved = rtsp.saved /\ rtsp'.dying = rtsp.dying
BY TypeParts DEF Types, Step, RtspType

LEMMA ReinitAfter ==
  ASSUME TypeOK, Reinit, ~rtsp.dying
  PROVE  rtsp'.pc = "reinit" /\ rtsp'.ret = "select" /\ rtsp'.dying = rtsp.dying
BY TypeParts DEF Types, Reinit, RtspType

\* The application thread's place does not matter to what is under way.
LEMMA DoingKept ==
  ASSUME NEW kind, NEW obeyed \in BOOLEAN, Doing(kind, obeyed), Cmd' = Cmd,
         UNCHANGED <<status, rtsp_queue, rtp_th, cursor, server>>
  PROVE  Doing(kind, obeyed)'
<1>1. \A m, p : ServerHas(m, p)' = ServerHas(m, p)
  BY DEF ServerHas
<1>2. Lives' = Lives /\ Before(cursor)' = Before(cursor)
  BY DEF Lives, Before
<1>3. QED
  BY <1>1, <1>2 DEF Doing

LEMMA AnsweredKept ==
  ASSUME NEW q, Answered(q), Cmd' = Cmd, UNCHANGED <<status, rtsp_queue, rtp_th, cursor, server, wait_for>>
  PROVE  Answered(q)'
<1>1. PICK r \in Reply : /\ q = <<r>> /\ r.code \in {200, 404} /\ Fits(r.cseq)
                         /\ Doing(wait_for.res, r.code = 200)
  BY DEF Answered
<1>2. PICK kind : kind = wait_for.res
  OBVIOUS
<1>3. PICK ok \in BOOLEAN : ok = (r.code = 200)
  OBVIOUS
<1>4. Doing(kind, ok)
  BY <1>1, <1>2, <1>3
<1>5. Doing(kind, ok)'
  BY <1>4, DoingKept
<1>6. kind = wait_for'.res
  BY <1>2
<1>7. Doing(wait_for.res, r.code = 200)'
  BY <1>3, <1>5, <1>6
<1>8. Fits(r.cseq)'
  BY <1>1 DEF Fits
<1>9. QED
  BY <1>1, <1>7, <1>8 DEF Answered

\* Falling asleep and waking up change nothing else.
LEMMA WaitKeeps ==
  ASSUME TalkInv, Place \in {"wait", "asleep"}, Place' \in {"wait", "asleep"}, Cmd' = Cmd,
         UNCHANGED <<control, session, peer, fd, in_buffer, rtsp, fault>>
  PROVE  TalkInv'
<1> USE DEF control, session, peer
<1>1. Waiting => Waiting'
  BY DEF Waiting
<1>2. Linked => Linked'
  BY DEF Linked
<1>3. Silent => Silent'
  BY DEF Silent
<1>4. Matched => Matched'
  BY DEF Matched, Lives, ServerHas
<1>5. Reported => Reported'
  BY DEF Reported
<1>6. CASE Fresh
  BY <1>6 DEF Fresh
<1>7. CASE Asking
  <2>1. PICK kind : kind = wait_for.res
    OBVIOUS
  <2>2. Doing(kind, FALSE)'
    BY <1>7, <2>1, DoingKept DEF Asking
  <2>3. Doing(wait_for.res, FALSE)'
    BY <2>1, <2>2
  <2>4. PICK r \in Wanted : /\ wire[1].req = <<r>> /\ r.kind = wait_for.res /\ Fits(r.cseq)
                            /\ r.kind # "GET" => r.about = cursor
    BY <1>7 DEF Asking
  <2>5. Fits(r.cseq)'
    BY <2>4 DEF Fits
  <2>6. Asking'
    BY <1>1, <1>2, <1>7, <2>3, <2>4, <2>5 DEF Asking
  <2>7. QED
    BY <2>6 DEF TalkInv, Stages
<1>8. CASE Arriving
  <2>1. PICK q : q = wire[1].rep
    OBVIOUS
  <2>2. Answered(q)'
    BY <1>8, <2>1, AnsweredKept DEF Arriving
  <2>3. Answered(wire[1].rep)'
    BY <2>1, <2>2
  <2>4. Arriving'
    BY <1>1, <1>2, <1>8, <2>3 DEF Arriving
  <2>5. QED
    BY <2>4 DEF TalkInv, Stages
<1>9. CASE Arrived
  <2>1. PICK q : q = in_buffer
    OBVIOUS
  <2>2. Answered(q)'
    BY <1>9, <2>1, AnsweredKept DEF Arrived
  <2>3. Answered(in_buffer)'
    BY <2>1, <2>2
  <2>4. Arrived'
    BY <1>1, <1>2, <1>9, <2>3 DEF Arrived
  <2>5. QED
    BY <2>4 DEF TalkInv, Stages
<1>10. CASE Settling
  <2>1. Settling'
    BY <1>1, <1>2, <1>3, <1>4, <1>5, <1>10 DEF Settling
  <2>2. QED
    BY <2>1 DEF TalkInv, Stages
<1>11. CASE Settled
  <2>1. Settled'
    BY <1>2, <1>3, <1>4, <1>5, <1>11 DEF Settled
  <2>2. QED
    BY <2>1 DEF TalkInv, Stages
<1>12. CASE Closing
  <2>1. Closing'
    BY <1>1, <1>2, <1>12 DEF Closing, Unmet
  <2>2. QED
    BY <2>1 DEF TalkInv, Stages
<1>13. CASE Over
  <2>1. Over'
    BY <1>13 DEF Over, Unmet
  <2>2. QED
    BY <2>1 DEF TalkInv, Stages
<1>14. QED
  BY <1>6, <1>7, <1>8, <1>9, <1>10, <1>11, <1>12, <1>13 DEF TalkInv, Stages

\* The thread that was in idle stays idle: its command was refused.
LEMMA RefuseTalk ==
  ASSUME Alone, TypeOK, TalkInv, NEW t \in Threads, NEW cmd \in Commands \cup {"get_param"},
         Refuse(t, cmd)
  PROVE  TalkInv'
<1>1. Place' = "idle" /\ Cmd' = Cmd /\ t = Me
  BY PlaceAfter DEF Refuse
<1>2. UNCHANGED <<status, wait_for, response_id, session, peer, fd, in_buffer, rtsp, fault>>
  BY DEF Refuse, mutex
<1> USE DEF session, peer
<1>3. Place = "idle"
  <2>1. Place = "idle" \/ (Place = "resume" /\ cmd = "play")
    BY <1>1 DEF Refuse, May, Place
  <2>2. CASE Place = "resume"
    <3>1. status = "READY"
      BY <2>2, StageOfPlace DEF Settled
    <3>2. ~Permitted("play")
      BY <2>1, <2>2 DEF Refuse
    <3>3. QED
      BY <3>1, <3>2 DEF Permitted
  <2>3. QED
    BY <2>1, <2>2
<1>4. CASE Fresh
  <2>1. Fresh'
    BY <1>1, <1>2, <1>4 DEF Fresh, ServerHas
  <2>2. QED
    BY <1>2, <2>1 DEF TalkInv, Stages
<1>5. CASE Settled
  <2>1. Matched' /\ Linked' /\ Silent'
    BY <1>2, <1>5 DEF Settled, Matched, Lives, ServerHas, Linked, Silent
  <2>2. Settled'
    BY <1>1, <1>2, <1>5, <2>1 DEF Settled
  <2>3. QED
    BY <1>2, <2>2 DEF TalkInv, Stages
<1>6. CASE Over
  <2>1. Over'
    BY <1>1, <1>2, <1>6 DEF Over, Unmet
  <2>2. QED
    BY <1>2, <2>1 DEF TalkInv, Stages
<1>7. QED
  BY <1>3, <1>4, <1>5, <1>6, StageOfPlace

LEMMA AcceptTalk ==
  ASSUME Alone, TypeOK, TalkInv, NEW t \in Threads, NEW cmd \in Commands \cup {"get_param"},
         Accept(t, cmd)
  PROVE  TalkInv'
<1>1. t = Me /\ cmd \in Commands
  BY AloneThreads DEF Accept, May, Commands
<1>2. /\ Place' = IF cmd = "open" THEN "connect" ELSE "locked"
      /\ Cmd' = cmd
  <2>1. app[Me] \in Caller /\ app \in [Threads -> Caller] /\ Me \in Threads
    BY AloneThreads, TypeParts DEF Types, AppType
  <2>2. app' = [app EXCEPT ![Me].pc = IF cmd = "open" THEN "connect" ELSE "locked", ![Me].cmd = cmd]
    BY <1>1 DEF Accept
  <2>3. QED
    BY <2>1, <2>2 DEF Place, Cmd, Caller
<1>3. /\ UNCHANGED <<status, wait_for, response_id, session, peer, fd, in_buffer, rtsp, fault>>
      /\ busy'
  BY <1>1 DEF Accept, Commands
<1> USE DEF session, peer
<1>4. /\ Place = "idle" \/ (Place = "resume" /\ cmd = "play")
      /\ Permitted(cmd) /\ (cmd = "open" => opened < MaxOpens)
      /\ Place = "idle" /\ Replays(cmd) => "replay" \in Events
  BY <1>1 DEF Accept, May, Place
<1>5. CASE Fresh
  <2>1. Place = "idle" /\ cmd = "open"
    BY <1>1, <1>4, <1>5 DEF Fresh, Permitted, Commands
  <2>2. Fresh'
    BY <1>2, <1>3, <1>5, <2>1 DEF Fresh, ServerHas
  <2>3. QED
    BY <1>3, <2>2 DEF TalkInv, Stages
<1>6. CASE Settled
  <2>1. Matched' /\ Linked' /\ Silent'
    BY <1>3, <1>6 DEF Settled, Matched, Lives, ServerHas, Linked, Silent
  <2>2. status \in {"READY", "PLAYING"}
    BY <1>6 DEF Settled, Matched
  <2>3. \/ cmd = "play" /\ (status = "PLAYING" => "replay" \in Events)
        \/ cmd \in {"pause", "seek"} /\ status = "PLAYING"
        \/ cmd = "close"
    <3>1. CASE cmd = "open"
      BY <1>4, <2>2, <3>1 DEF Permitted
    <3>2. CASE cmd = "play"
      <4>1. CASE Place = "resume"
        BY <1>6, <3>2, <4>1 DEF Settled
      <4>2. CASE Place = "idle"
        BY <1>4, <3>2, <4>2 DEF Replays
      <4>3. QED
        BY <1>4, <4>1, <4>2
    <3>3. CASE cmd \in {"pause", "seek"}
      BY <1>4, <2>2, <3>3 DEF Permitted
    <3>4. QED
      BY <1>1, <3>1, <3>2, <3>3 DEF Commands
  <2>4. Place' = "locked" /\ rtsp'.pc = "select"
    BY <1>2, <1>3, <1>6, <2>3 DEF Settled
  <2>5. Settled'
    BY <1>2, <1>3, <2>1, <2>3, <2>4 DEF Settled
  <2>6. QED
    BY <1>3, <2>5 DEF TalkInv, Stages
<1>7. CASE Over
  <2>1. cmd = "open"
    BY <1>1, <1>4, <1>7 DEF Over, Permitted, Commands
  <2>2. opened = 1 /\ opened < MaxOpens
    BY <1>4, <1>7, <2>1 DEF Over
  <2>3. MaxOpens \in {0, 1}
    BY AloneThreads
  <2>4. QED
    BY <2>2, <2>3
<1>8. QED
  BY <1>4, <1>5, <1>6, <1>7, StageOfPlace

\* A request that is written on a silent connection is the only one there, and with
\* what the server has done before it is carried out, it is what is under way.
Writes(kind, c, n) ==
  /\ wait_for' = [res |-> kind, cseq |-> n]
  /\ wire' = Write(wire, fd, [kind |-> kind, cseq |-> n, about |-> c])

LEMMA RequestWrites ==
  ASSUME TypeOK, NEW kind, NEW c \in AllMedia, Request(kind, c)
  PROVE  \E n \in Nat : Writes(kind, c, n)
<1>1. CSeq[c[1]] + 1 \in Nat
  BY CursorSession, TypeParts DEF Types
<1>2. QED
  BY <1>1 DEF Request, Writes

LEMMA WritesOne ==
  ASSUME TypeOK, NEW kind \in Kinds \ {"GET"}, NEW c \in AllMedia, NEW n \in Nat, Writes(kind, c, n),
         Linked, wire[1].req = <<>>, wire[1].rep = <<>>
  PROVE  /\ wait_for'.res = kind
         /\ wire'[1].rep = <<>> /\ wire'[1].end = "up"
         /\ \E r \in Wanted : /\ wire'[1].req = <<r>> /\ r.kind = kind /\ Fits(r.cseq)'
                              /\ r.about = c
<1>1. 1 \in Conns /\ wire \in WireType
  <2>1. wire \in WireType /\ opened \in 0 .. MaxOpens
    BY TypeParts DEF Types
  <2>2. QED
    BY <2>1, ControlAssumption DEF Linked, Conns, ControlAssumption
<1>2. PICK r : r = [kind |-> kind, cseq |-> n, about |-> c]
  OBVIOUS
<1>3. r \in Wanted /\ r.kind = kind /\ r.cseq = n /\ r.about = c
  BY <1>2 DEF Wanted
<1>4. wait_for' = [res |-> kind, cseq |-> n] /\ wire' = Write(wire, fd, r)
  BY <1>2 DEF Writes
<1>5. wire' = [wire EXCEPT ![1] = [wire[1] EXCEPT !.req = Append(wire[1].req, r)]]
  <2>1. fd = 1 /\ fd # 0 /\ wire[fd].end = "up"
    BY DEF Linked
  <2>2. wire' = [wire EXCEPT ![fd].req = Append(@, r)]
    BY <1>4, <2>1 DEF Write
  <2>3. [wire EXCEPT ![fd].req = Append(@, r)] = [wire EXCEPT ![1].req = Append(@, r)]
    BY <2>1
  <2>4. QED
    BY <2>2, <2>3, <1>1 DEF WireType, Link
<1>6. wire'[1] = [wire[1] EXCEPT !.req = <<r>>]
  BY <1>1, <1>5 DEF WireType
<1>7. wire'[1].req = <<r>> /\ wire'[1].rep = <<>> /\ wire'[1].end = "up"
  BY <1>1, <1>6 DEF WireType, Link, Linked
<1>8. wait_for'.res = kind /\ wait_for'.cseq = n /\ kind # "GET"
  BY <1>4
<1>9. Fits(r.cseq)'
  BY <1>3, <1>8 DEF Fits
<1>10. QED
  BY <1>3, <1>7, <1>8, <1>9

LEMMA Asks ==
  ASSUME TypeOK, NEW kind \in Kinds \ {"GET"}, NEW c \in AllMedia,
         \E n \in Nat : Writes(kind, c, n),
         Linked, wire[1].req = <<>>, wire[1].rep = <<>>,
         cursor' = c, Waiting', rtsp'.pc = "select", in_buffer' = <<>>,
         UNCHANGED <<opened, fd, fds>>, Doing(kind, FALSE)'
  PROVE  Asking'
<1>1. /\ wait_for'.res = kind
      /\ wire'[1].rep = <<>> /\ wire'[1].end = "up"
      /\ \E r \in Wanted : /\ wire'[1].req = <<r>> /\ r.kind = kind /\ Fits(r.cseq)'
                           /\ r.about = c
  BY WritesOne
<1>2. Doing(wait_for.res, FALSE)'
  BY <1>1
<1>3. Linked'
  BY <1>1 DEF Linked
<1>4. QED
  BY <1>1, <1>2, <1>3 DEF Asking

LEMMA BeforeFirst == Before(First) = {}
BY DescriptionType, MediaPairs DEF Before, First

LEMMA ConnectTalk ==
  ASSUME Alone, TypeOK, TalkInv, NEW t \in Threads, Connect(t)
  PROVE  TalkInv'
<1>1. Goes(t, "wait") /\ t = Me
  BY AloneThreads DEF Connect, Sent
<1>2. Place' = "wait" /\ Cmd' = Cmd
  BY <1>1, PlaceAfter
<1>3. Fresh /\ Place = "connect"
  BY <1>1, StageOfPlace DEF Connect, Place
<1>4. opened + 1 = 1 /\ 1 \in Conns
  BY <1>3, AloneThreads DEF Connect, Fresh, Conns
<1>5. PICK r : r = [kind |-> "GET", cseq |-> 1, about |-> Null]
  OBVIOUS
<1>6. r \in Wanted /\ r.kind = "GET" /\ r.cseq = 1
  BY <1>5 DEF Wanted
<1>7. /\ opened' = 1 /\ fd' = 1 /\ fds' = {1} /\ wait_for' = [wait_for EXCEPT !.res = "GET"]
      /\ wire' = Write(wire, 1, r)
  BY <1>3, <1>4, <1>5 DEF Connect, Describe, Fresh
<1>8. wire[1] = [req |-> <<>>, rep |-> <<>>, end |-> "up"] /\ ServerHas({}, {})
  BY <1>3, <1>4 DEF Fresh
<1>9. wire' = [wire EXCEPT ![1] = [wire[1] EXCEPT !.req = Append(wire[1].req, r)]]
  BY <1>7, <1>8 DEF Write
<1>10. wire'[1] = [wire[1] EXCEPT !.req = <<r>>]
  BY <1>4, <1>8, <1>9, TypeParts DEF Types, WireType
<1>11. wire'[1].req = <<r>> /\ wire'[1].rep = <<>> /\ wire'[1].end = "up"
  BY <1>8, <1>10
<1>12. wait_for'.res = "GET"
  BY <1>7, TypeParts DEF Types
<1>13. UNCHANGED <<status, rtsp_queue, rtp_th, server, in_buffer, rtsp, fault, busy>>
  BY DEF Connect, Sent, session
<1>14. Doing("GET", FALSE)'
  BY <1>2, <1>3, <1>8, <1>13 DEF Doing, Fresh, ServerHas
<1>15. Waiting' /\ Linked'
  BY <1>2, <1>3, <1>7, <1>11, <1>13 DEF Waiting, Linked, Fresh
<1>16. Fits(r.cseq)'
  BY <1>6, <1>12 DEF Fits
<1>17. Doing(wait_for.res, FALSE)'
  BY <1>12, <1>14
<1>18. rtsp'.pc = "select" /\ in_buffer' = <<>>
  BY <1>3, <1>13 DEF Fresh
<1>19. Asking'
  BY <1>6, <1>11, <1>12, <1>15, <1>16, <1>17, <1>18 DEF Asking
<1>20. QED
  BY <1>13, <1>19 DEF TalkInv, Stages

LEMMA RefusedTalk ==
  ASSUME Alone, TypeOK, TalkInv, NEW t \in Threads, Refused(t)
  PROVE  TalkInv'
<1>1. Goes(t, "idle") /\ t = Me
  BY AloneThreads DEF Refused, Failed
<1>2. Place' = "idle"
  BY <1>1, PlaceAfter
<1>3. Fresh
  BY <1>1, StageOfPlace DEF Refused, Place
<1>4. fd' = 0 /\ UNCHANGED <<status, session, peer, in_buffer, rtsp, fault>>
  BY DEF Refused
<1>5. Fresh'
  BY <1>2, <1>3, <1>4 DEF Fresh, session, peer, ServerHas
<1>6. QED
  BY <1>4, <1>5 DEF TalkInv, Stages

LEMMA PointTalk ==
  ASSUME Alone, TypeOK, TalkInv, NEW t \in Threads, Point(t)
  PROVE  TalkInv'
<1>1. Goes(t, "pointed") /\ t = Me
  BY AloneThreads DEF Point
<1>2. Place' = "pointed" /\ Cmd' = Cmd
  BY <1>1, PlaceAfter
<1>3. Settled /\ Place = "locked"
  BY <1>1, StageOfPlace DEF Point, Place
<1>4. /\ cursor' = First /\ fault' = FALSE
      /\ UNCHANGED <<control, rtsp_queue, rtp_th, peer, fd, in_buffer, rtsp>>
  BY <1>3 DEF Point, Settled, Matched, Lives
<1> USE DEF control, peer
<1>5. Matched' /\ Linked' /\ Silent'
  BY <1>3, <1>4 DEF Settled, Matched, Lives, ServerHas, Linked, Silent
<1>6. Settled'
  BY <1>2, <1>3, <1>4, <1>5 DEF Settled
<1>7. QED
  BY <1>4, <1>6 DEF TalkInv, Stages

LEMMA SendTalk ==
  ASSUME Alone, TypeOK, TalkInv, NEW t \in Threads, Send(t)
  PROVE  TalkInv'
<1>1. Goes(t, "wait") /\ t = Me
  BY AloneThreads DEF Send, Sent
<1>2. Place' = "wait" /\ Cmd' = Cmd
  BY <1>1, PlaceAfter
<1>3. Settled /\ Place = "pointed" /\ cursor = First
  <2>1. Place = "pointed"
    BY <1>1 DEF Send, Place
  <2>2. QED
    BY <2>1, StageOfPlace DEF Settled
<1>4. UNCHANGED <<status, rtsp_queue, cursor, rtp_th, opened, fds, server, fd, in_buffer, rtsp, fault, busy>>
  BY DEF Send, Sent
<1>5. First \in AllMedia /\ First = <<1, 1>> /\ 1 \in Sessions /\ Len(Description) \in Nat /\ Sessions = 1 .. Len(Description)
  BY CursorStays, DescriptionType DEF First
<1>6. Linked /\ Silent /\ Matched /\ busy
  BY <1>3 DEF Settled
<1>7. Waiting' /\ rtsp'.pc = "select" /\ in_buffer' = <<>>
  BY <1>2, <1>3, <1>4, <1>6 DEF Waiting, Silent, Settled
<1>8. Request(Kind(Cmd), First)
  BY <1>1, <1>3 DEF Send, Cmd
<1>9. Lives'
  BY <1>4, <1>6 DEF Matched, Lives
<1>10. CASE Cmd = "play" /\ status = "READY"
  <2>1. ServerHas(AllMedia, {})'
    BY <1>4, <1>6, <1>10 DEF Matched, ServerHas
  <2>2. 1 .. (1 - 1) = {}
    OBVIOUS
  <2>3. Doing("PLAY", FALSE)'
    BY <1>2, <1>3, <1>4, <1>5, <1>9, <1>10, <2>1, <2>2 DEF Doing
  <2>4. Request("PLAY", First)
    BY <1>8, <1>10 DEF Kind
  <2>7. \E n \in Nat : Writes("PLAY", First, n)
    BY <1>5, <2>4, RequestWrites
  <2>5. Asking'
    BY <1>3, <1>4, <1>5, <1>6, <1>7, <2>3, <2>7, Asks DEF Kinds, Silent
  <2>6. QED
    BY <1>4, <2>5 DEF TalkInv, Stages
<1>r. CASE Cmd = "play" /\ status = "PLAYING" /\ "replay" \in Events
  <2>1. ServerHas(AllMedia, Sessions)'
    BY <1>4, <1>6, <1>r DEF Matched, ServerHas
  <2>3. Doing("PLAY", FALSE)'
    BY <1>2, <1>3, <1>4, <1>9, <1>r, <2>1 DEF Doing
  <2>4. Request("PLAY", First)
    BY <1>8, <1>r DEF Kind
  <2>7. \E n \in Nat : Writes("PLAY", First, n)
    BY <1>5, <2>4, RequestWrites
  <2>5. Asking'
    BY <1>3, <1>4, <1>5, <1>6, <1>7, <2>3, <2>7, Asks DEF Kinds, Silent
  <2>6. QED
    BY <1>4, <2>5 DEF TalkInv, Stages
<1>11. CASE Cmd \in {"pause", "seek"} /\ status = "PLAYING"
  <2>1. ServerHas(AllMedia, Sessions)'
    BY <1>4, <1>6, <1>11 DEF Matched, ServerHas
  <2>3. Doing("PAUSE", FALSE)'
    BY <1>2, <1>3, <1>4, <1>5, <1>9, <1>11, <2>1 DEF Doing
  <2>4. Request("PAUSE", First)
    BY <1>8, <1>11 DEF Kind
  <2>7. \E n \in Nat : Writes("PAUSE", First, n)
    BY <1>5, <2>4, RequestWrites
  <2>5. Asking'
    BY <1>3, <1>4, <1>5, <1>6, <1>7, <2>3, <2>7, Asks DEF Kinds, Silent
  <2>6. QED
    BY <1>4, <2>5 DEF TalkInv, Stages
<1>12. CASE Cmd = "close"
  <2>3. Doing("CLOSE", FALSE)'
    BY <1>2, <1>4, <1>6, <1>9, <1>12 DEF Doing, Matched
  <2>4. Request("CLOSE", First)
    BY <1>8, <1>12 DEF Kind
  <2>7. \E n \in Nat : Writes("CLOSE", First, n)
    BY <1>5, <2>4, RequestWrites
  <2>5. Asking'
    BY <1>3, <1>4, <1>5, <1>6, <1>7, <2>3, <2>7, Asks DEF Kinds, Silent
  <2>6. QED
    BY <1>4, <2>5 DEF TalkInv, Stages
<1>13. QED
  BY <1>3, <1>6, <1>10, <1>r, <1>11, <1>12 DEF Settled, Matched

\* The cursor and the sessions a command pointed at are still there.
LEMMA SendLostTalk ==
  ASSUME Alone, TypeOK, TalkInv, NEW t \in Threads, SendLost(t)
  PROVE  FALSE
<1>1. t = Me
  BY AloneThreads
<1>2. Place = "pointed"
  BY <1>1 DEF SendLost, Place
<1>3. cursor = First /\ rtsp_queue = "live"
  BY <1>2, StageOfPlace DEF Settled, Matched, Lives
<1>4. First # Null
  BY DEF First, Null
<1>5. QED
  BY <1>3, <1>4 DEF SendLost

LEMMA WaitTalk ==
  ASSUME Alone, TypeOK, TalkInv, NEW t \in Threads, Wait(t)
  PROVE  TalkInv'
<1>0. t = Me /\ Me \in Threads
  BY AloneThreads
<1>1. CASE Sleep(t)
  <2>1. Place = "wait" /\ Goes(t, "asleep")
    BY <1>0, <1>1 DEF Sleep, Place
  <2>2. Place' = "asleep" /\ Cmd' = Cmd
    BY <2>1, PlaceAfter
  <2>3. UNCHANGED <<control, session, peer, fd, in_buffer, rtsp, fault>>
    BY <1>1 DEF Sleep
  <2>4. QED
    BY <2>1, <2>2, <2>3, WaitKeeps
<1>2. CASE Signalled(t)
  <2>1. Place = "asleep" /\ Goes(t, "wait")
    BY <1>0, <1>2 DEF Signalled, Place
  <2>2. Place' = "wait" /\ Cmd' = Cmd
    BY <2>1, PlaceAfter
  <2>3. UNCHANGED <<control, session, peer, fd, in_buffer, rtsp, fault>>
    BY <1>2 DEF Signalled
  <2>4. QED
    BY <2>1, <2>2, <2>3, WaitKeeps
<1>3. CASE Unlocked(t)
  <2>1. Place = "wait" /\ Goes(t, "answered") /\ ~busy
    BY <1>0, <1>3 DEF Unlocked, Place
  <2>2. Place' = "answered" /\ Cmd' = Cmd
    BY <2>1, PlaceAfter
  <2>3. UNCHANGED <<status, wait_for, response_id, session, peer, fd, in_buffer, rtsp, fault>>
    BY <1>3 DEF Unlocked, control
  <2> USE DEF session, peer
  <2>4. CASE Settled
    <3>1. Matched' /\ Linked' /\ Silent' /\ Reported'
      BY <2>1, <2>2, <2>3, <2>4 DEF Settled, Matched, Lives, ServerHas, Linked, Silent, Reported
    <3>2. Settled'
      BY <2>2, <2>3, <2>4, <3>1 DEF Settled
    <3>3. QED
      BY <2>3, <3>2 DEF TalkInv, Stages
  <2>5. CASE Over
    <3>1. Over'
      BY <2>2, <2>3, <2>5 DEF Over, Unmet
    <3>2. QED
      BY <2>3, <3>1 DEF TalkInv, Stages
  <2>6. QED
    BY <2>1, <2>4, <2>5, StageOfPlace
<1>4. CASE Return(t)
  <2>1. Place = "answered"
    BY <1>0, <1>4 DEF Return, Place
  <2>2. /\ Place' = IF Cmd = "seek" /\ response_id = 200 THEN "resume" ELSE "idle"
        /\ Cmd' = Cmd
    <3>1. app' = [app EXCEPT ![Me] = [cmd |-> app[Me].cmd, got |-> response_id,
             pc |-> IF app[Me].cmd = "seek" /\ response_id = 200 THEN "resume" ELSE "idle"]]
      BY <1>0, <1>4 DEF Return
    <3>2. app'[Me] = [cmd |-> Cmd, got |-> response_id,
             pc |-> IF Cmd = "seek" /\ response_id = 200 THEN "resume" ELSE "idle"]
      BY <1>0, <3>1, TypeParts DEF Types, AppType, Cmd
    <3>3. QED
      BY <3>2 DEF Place, Cmd
  <2>3. UNCHANGED <<status, wait_for, response_id, session, peer, fd, in_buffer, rtsp, fault>>
    BY <1>4 DEF Return, control
  <2> USE DEF session, peer
  <2>4. CASE Settled
    <3>1. Matched' /\ Linked' /\ Silent'
      BY <2>3, <2>4 DEF Settled, Matched, Lives, ServerHas, Linked, Silent
    <3>2. Place' = "resume" => status = "READY"
      BY <2>1, <2>2, <2>4 DEF Settled, Reported
    <3>3. Settled'
      BY <2>2, <2>3, <2>4, <3>1, <3>2 DEF Settled
    <3>4. QED
      BY <2>3, <3>3 DEF TalkInv, Stages
  <2>5. CASE Over
    <3>1. Place' = "idle"
      BY <2>2, <2>5 DEF Over, Unmet
    <3>2. Over'
      BY <2>2, <2>3, <2>5, <3>1 DEF Over, Unmet
    <3>3. QED
      BY <2>3, <3>2 DEF TalkInv, Stages
  <2>6. QED
    BY <2>1, <2>4, <2>5, StageOfPlace
<1>5. QED
  BY <1>1, <1>2, <1>3, <1>4 DEF Wait

-----------------------------------------------------------------------------
\* A reply that has come in is the one that is awaited, and the present status
\* takes it or the presentation was played again.
LEMMA Come ==
  ASSUME TypeOK, TalkInv, rtsp.pc = "handle"
  PROVE  /\ Arrived /\ rtsp.dying = FALSE /\ ~fault
         /\ in_buffer # <<>> /\ Tail(in_buffer) = <<>>
         /\ Awaited(Head(in_buffer))
         /\ \/ Takes(wait_for.res)
            \/ /\ wait_for.res = "PLAY" /\ status = "PLAYING"
               /\ Cmd = "play" /\ "replay" \in Events
         /\ wait_for.res = "SETUP" => cursor # Null
         /\ Head(in_buffer).code \in {200, 404}
         /\ wait_for.res \in {"GET", "SETUP", "PLAY", "PAUSE", "CLOSE"}
         /\ Head(in_buffer).code = 200 => Doing(wait_for.res, TRUE)
         /\ rtsp_queue # "freed"
<1>1. Arrived /\ rtsp.dying = FALSE /\ ~fault
  BY StageOfThread DEF TalkInv
<1>2. PICK r \in Reply : /\ in_buffer = <<r>> /\ r.code \in {200, 404} /\ Fits(r.cseq)
                         /\ Doing(wait_for.res, r.code = 200)
  BY <1>1 DEF Arrived, Answered
<1>3. in_buffer # <<>> /\ Tail(in_buffer) = <<>> /\ Head(in_buffer) = r
  BY <1>2
<1>4. PICK ok \in BOOLEAN : ok = (r.code = 200)
  OBVIOUS
<1>5. Doing(wait_for.res, ok)
  BY <1>2, <1>4
<1>6. /\ wait_for.res \in {"GET", "SETUP", "PLAY", "PAUSE", "CLOSE"}
      /\ rtsp_queue # "freed"
  BY <1>5 DEF Doing, Lives
<1>7. \/ Takes(wait_for.res)
      \/ /\ wait_for.res = "PLAY" /\ status = "PLAYING"
         /\ Cmd = "play" /\ "replay" \in Events
  BY <1>5, TypeParts DEF Doing, Takes, Types
<1>8. wait_for.res = "SETUP" => cursor # Null
  <2>1. Null \notin AllMedia
    BY MediaPairs, DescriptionType DEF Null
  <2>2. QED
    BY <1>5, <2>1 DEF Doing
<1>9. Awaited(Head(in_buffer))
  BY <1>2, <1>3, <1>6 DEF Fits, Awaited
<1>10. r.code = 200 => Doing(wait_for.res, TRUE)
  BY <1>4, <1>5
<1>11. /\ Head(in_buffer).code \in {200, 404}
       /\ Head(in_buffer).code = 200 => Doing(wait_for.res, TRUE)
  <2>1. Head(in_buffer).code = r.code
    BY <1>3
  <2>2. r.code \in {200, 404}
    BY <1>2, Zenon
  <2>3. (r.code = 200) => Doing(wait_for.res, TRUE)
    BY <1>10, Zenon
  <2>4. Head(in_buffer).code = 200 => Doing(wait_for.res, TRUE)
    <3>1. SUFFICES ASSUME Head(in_buffer).code = 200 PROVE Doing(wait_for.res, TRUE)
      OBVIOUS
    <3>2. r.code = 200
      BY <2>1, <3>1
    <3>3. QED
      BY <2>3, <3>2, Zenon
  <2>5. Head(in_buffer).code \in {200, 404}
    BY <2>1, <2>2
  <2>6. QED
    BY <2>4, <2>5, Zenon
<1>12. QED
  BY <1>1, <1>3, <1>6, <1>7, <1>8, <1>9, <1>11

LEMMA TakeOne ==
  ASSUME NEW r
  PROVE  SubSeq(<<r>>, 1, 1) = <<r>>
<1>1. <<r>> \in Seq({r}) /\ Len(<<r>>) = 1
  OBVIOUS
<1>2. PICK s : s = SubSeq(<<r>>, 1, 1)
  OBVIOUS
<1>3. s \in Seq({r}) /\ Len(s) = 1
  BY <1>1, <1>2, SubSeqProperties
<1>4. s[1] = r
  BY <1>3
<1>5. s = <<r>>
  BY <1>3, <1>4
<1>6. QED
  BY <1>2, <1>5

LEMMA RecvTalk ==
  ASSUME Alone, TypeOK, TalkInv, Recv
  PROVE  TalkInv'
<1>1. PICK n \in 1 .. Len(Replies) :
        /\ in_buffer' = in_buffer \o SubSeq(Replies, 1, n)
        /\ wire' = [wire EXCEPT ![fd].rep = SubSeq(Replies, n + 1, Len(Replies))]
  BY DEF Recv
<1>2. fd # 0 /\ Replies = wire[fd].rep
  BY <1>1 DEF Replies
<1>3. rtsp.pc = "select" /\ wire[fd].rep # <<>>
  BY <1>1, <1>2 DEF Recv
<1>4. Arriving
  BY <1>2, <1>3, StageOfThread DEF Asking, Settled, Linked, Silent
<1>5. PICK r \in Reply : wire[1].rep = <<r>>
  BY <1>4 DEF Arriving, Answered
<1>6. fd = 1 /\ Replies = <<r>> /\ in_buffer = <<>> /\ n = 1
  BY <1>1, <1>2, <1>4, <1>5 DEF Arriving, Linked
<1>7. in_buffer' = <<r>>
  <2>0. SubSeq(<<r>>, 1, 1) = <<r>>
    BY TakeOne
  <2>1. SubSeq(Replies, 1, n) = <<r>>
    BY <1>6, <2>0, Zenon
  <2>2. <<>> \o <<r>> = <<r>>
    OBVIOUS
  <2>3. QED
    BY <1>1, <1>6, <2>1, <2>2
<1>8. SubSeq(Replies, n + 1, Len(Replies)) = <<>>
  BY <1>6
<1>9. wire' = [wire EXCEPT ![1].rep = <<>>]
  BY <1>1, <1>6, <1>8
<1>10. 1 \in Conns
  BY <1>6, TypeParts DEF Types
<1>11. wire'[1].rep = <<>> /\ wire'[1].req = wire[1].req /\ wire'[1].end = wire[1].end
  BY <1>9, <1>10, TypeParts DEF Types, WireType, Link
<1>12. UNCHANGED <<status, busy, wait_for, rtsp_queue, rtp_th, cursor, server, opened, fd, fds, app, fault>>
  BY DEF Recv, control, session
<1>13. rtsp'.pc = "handle" /\ rtsp'.dying = rtsp.dying
  BY ThreadAfter DEF Recv
<1>14. Cmd' = Cmd /\ Waiting' /\ Linked'
  BY <1>4, <1>11, <1>12 DEF Arriving, Cmd, Waiting, Place, Linked
<1>15. Answered(<<r>>)
  BY <1>4, <1>5 DEF Arriving
<1>16. PICK q : q = <<r>>
  OBVIOUS
<1>17. Answered(q)'
  BY <1>12, <1>14, <1>15, <1>16, AnsweredKept
<1>18. Answered(in_buffer)'
  BY <1>7, <1>16, <1>17
<1>19. Arrived'
  BY <1>4, <1>11, <1>13, <1>14, <1>18 DEF Arrived, Arriving
<1>20. QED
  BY <1>12, <1>13, <1>19 DEF TalkInv, Stages

\* The connection is up as long as the RTSP thread reads from it.
LEMMA RecvEndTalk ==
  ASSUME TalkInv, RecvEnd
  PROVE  FALSE
BY StageOfThread DEF RecvEnd, Asking, Arriving, Settled, Linked

\* The answer to playing what plays already ends the presentation.
LEMMA RejectTalk ==
  ASSUME Alone, TypeOK, TalkInv, Reject
  PROVE  TalkInv'
<1>1. rtsp.pc = "handle"
  BY DEF Reject, Handling
<1>2. /\ Arrived /\ rtsp.dying = FALSE /\ ~fault /\ rtsp_queue # "freed"
      /\ Awaited(Head(in_buffer)) /\ (wait_for.res = "SETUP" => cursor # Null)
      /\ \/ Takes(wait_for.res)
         \/ Cmd = "play" /\ "replay" \in Events
  BY <1>1, Come
<1>3. Unmet
  BY <1>2 DEF Reject, Unmet
<1>4. /\ Reinit
      /\ UNCHANGED <<busy, response_id, rtsp_queue, opened, fd, fds, wire, app, fault>>
  BY DEF Reject, control, session, peer
<1>5. rtsp'.pc = "reinit" /\ rtsp'.ret = "select" /\ rtsp'.dying = rtsp.dying
  BY <1>2, <1>4, ReinitAfter
<1>6. Linked' /\ Waiting' /\ Unmet' /\ wire'[1].req = <<>> /\ wire'[1].rep = <<>>
  BY <1>2, <1>3, <1>4 DEF Arrived, Linked, Waiting, Place, Unmet, Cmd
<1>7. Closing'
  BY <1>2, <1>4, <1>5, <1>6 DEF Closing
<1>8. QED
  BY <1>2, <1>4, <1>5, <1>7 DEF TalkInv, Stages

\* No status is current in which a reply that was refused is not understood.
LEMMA UnsuccessfulTalk ==
  ASSUME Alone, TypeOK, TalkInv, Unsuccessful
  PROVE  TalkInv'
<1>1. rtsp.pc = "handle"
  BY DEF Unsuccessful, Checked, Expects, Handling
<1>2. /\ Arrived /\ rtsp.dying = FALSE /\ ~fault /\ Tail(in_buffer) = <<>>
      /\ Head(in_buffer).code \in {200, 404} /\ rtsp_queue # "freed"
  BY <1>1, Come
<1>3. response_id' = 404 /\ Reinit
  BY <1>2 DEF Unsuccessful
<1>4. /\ in_buffer' = <<>>
      /\ UNCHANGED <<status, busy, rtsp_queue, opened, fd, fds, wire, app, fault>>
  BY <1>2 DEF Unsuccessful, session, peer
<1>5. rtsp'.pc = "reinit" /\ rtsp'.ret = "select" /\ rtsp'.dying = rtsp.dying
  BY <1>2, <1>3, ReinitAfter
<1>6. Linked' /\ Waiting' /\ Unmet' /\ wire'[1].req = <<>> /\ wire'[1].rep = <<>>
  BY <1>2, <1>3, <1>4 DEF Arrived, Linked, Waiting, Place, Unmet
<1>7. Closing'
  BY <1>2, <1>3, <1>4, <1>5, <1>6 DEF Closing
<1>8. QED
  BY <1>2, <1>4, <1>5, <1>7 DEF TalkInv, Stages

\* A success leaves the connection silent, and the RTSP thread goes back to wait.
Succeeded(kind) ==
  /\ Doing(kind, TRUE) /\ Takes(kind) /\ Linked /\ Waiting
  /\ rtsp.dying = FALSE /\ ~fault
  /\ wire[1].req = <<>> /\ wire[1].rep = <<>>
  /\ in_buffer' = <<>> /\ response_id' = 200

LEMMA SuccessTalk ==
  ASSUME TypeOK, TalkInv, NEW kind, Success(kind)
  PROVE  Succeeded(kind)
<1>1. /\ rtsp.pc = "handle" /\ wait_for.res = kind /\ Head(in_buffer).code = 200
      /\ Takes(kind)
  BY DEF Success, Checked, Expects, Handling
<1>2. /\ Arrived /\ rtsp.dying = FALSE /\ ~fault /\ Tail(in_buffer) = <<>>
      /\ Doing(wait_for.res, TRUE)
  BY <1>1, Come
<1>3. QED
  BY <1>1, <1>2 DEF Succeeded, Success, Arrived

LEMMA HandledAfter ==
  ASSUME TypeOK, ~rtsp.dying, Handled(<<>>)
  PROVE  rtsp'.pc = "select" /\ rtsp'.ret = rtsp.ret /\ rtsp'.dying = rtsp.dying
BY ThreadAfter DEF Handled

\* get_curr_sess goes through all media in their order.
LEMMA BeforeNext ==
  ASSUME NEW c \in AllMedia
  PROVE  /\ NextMed(c) # Null => NextMed(c) \in AllMedia /\ Before(NextMed(c)) = Before(c) \cup {c}
         /\ NextMed(c) = Null => Before(c) \cup {c} = AllMedia
<1>1. PICK s \in Sessions : \E m \in 1 .. Description[s] : c = <<s, m>>
  BY MediaPairs
<1>2. PICK m \in 1 .. Description[s] : c = <<s, m>>
  BY <1>1
<1>3. s \in Nat /\ m \in Nat /\ s \in 1 .. Len(Description) /\ Len(Description) \in Nat
  BY <1>2, DescriptionType
<1>4. ASSUME NEW x \in AllMedia
      PROVE  \E p \in Sessions : \E q \in 1 .. Description[p] :
               x = <<p, q>> /\ p \in Int /\ q \in Int /\ p <= Len(Description) /\ 1 <= p
  BY <1>4, MediaPairs, DescriptionType
<1>5. c # Null
  BY <1>2, <1>3 DEF Null
<1>6. CASE m < Description[s]
  <2>1. NextMed(c) = <<s, m + 1>>
    BY <1>2, <1>5, <1>6 DEF NextMed
  <2>2. NextMed(c) \in AllMedia /\ NextMed(c) # Null
    <3>1. m + 1 \in 1 .. Description[s]
      BY <1>3, <1>6, DescriptionType
    <3>2. QED
      BY <2>1, <3>1, <1>3, MediaPairs DEF Null
  <2>3. ASSUME NEW x \in AllMedia
        PROVE  x \in Before(NextMed(c)) <=> x \in Before(c) \cup {c}
    <3>1. PICK p \in Sessions, q \in Int : x = <<p, q>> /\ p \in Int
      BY <1>4
    <3>2. x \in Before(NextMed(c)) <=> p < s \/ (p = s /\ q < m + 1)
      BY <2>1, <3>1 DEF Before
    <3>3. x \in Before(c) <=> p < s \/ (p = s /\ q < m)
      BY <1>2, <3>1 DEF Before
    <3>4. x = c <=> p = s /\ q = m
      BY <1>2, <3>1
    <3>5. QED
      BY <3>1, <3>2, <3>3, <3>4, <1>3
  <2>4. Before(NextMed(c)) = Before(c) \cup {c}
    <3>1. Before(NextMed(c)) \subseteq AllMedia /\ Before(c) \cup {c} \subseteq AllMedia
      BY DEF Before
    <3>2. QED
      BY <2>3, <3>1
  <2>5. QED
    BY <2>2, <2>4
<1>7. CASE m = Description[s] /\ s < Len(Description)
  <2>1. NextMed(c) = <<s + 1, 1>>
    BY <1>2, <1>5, <1>7, <1>3 DEF NextMed, NextSess
  <2>2. NextMed(c) \in AllMedia /\ NextMed(c) # Null
    <3>1. s + 1 \in Sessions
      BY <1>3, <1>7, DescriptionType
    <3>2. 1 \in 1 .. Description[s + 1]
      BY <3>1, DescriptionType
    <3>3. QED
      BY <2>1, <3>1, <3>2, <1>3, MediaPairs DEF Null
  <2>3. ASSUME NEW x \in AllMedia
        PROVE  x \in Before(NextMed(c)) <=> x \in Before(c) \cup {c}
    <3>1. PICK p \in Sessions : \E q \in 1 .. Description[p] : x = <<p, q>> /\ p \in Int /\ q \in Int
      BY <1>4
    <3>0. PICK q \in 1 .. Description[p] : x = <<p, q>> /\ p \in Int /\ q \in Int
      BY <3>1
    <3>2. x \in Before(NextMed(c)) <=> p < s + 1 \/ (p = s + 1 /\ q < 1)
      BY <2>1, <3>0 DEF Before
    <3>3. x \in Before(c) <=> p < s \/ (p = s /\ q < m)
      BY <1>2, <3>0 DEF Before
    <3>4. x = c <=> p = s /\ q = m
      BY <1>2, <3>0
    <3>5. Description[p] \in Nat /\ Description[s] \in Nat /\ q >= 1 /\ q <= Description[p] /\ (p = s => q <= m)
      BY <3>0, <1>7, DescriptionType
    <3>6. QED
      BY <3>0, <3>2, <3>3, <3>4, <3>5, <1>3
  <2>4. Before(NextMed(c)) = Before(c) \cup {c}
    <3>1. Before(NextMed(c)) \subseteq AllMedia /\ Before(c) \cup {c} \subseteq AllMedia
      BY DEF Before
    <3>2. QED
      BY <2>3, <3>1
  <2>5. QED
    BY <2>2, <2>4
<1>8. CASE m = Description[s] /\ s = Len(Description)
  <2>1. NextMed(c) = Null
    BY <1>2, <1>5, <1>8, <1>3 DEF NextMed, NextSess
  <2>2. ASSUME NEW x \in AllMedia
        PROVE  x \in Before(c) \cup {c}
    <3>1. PICK p \in Sessions : \E q \in 1 .. Description[p] : x = <<p, q>> /\ p \in Int /\ q \in Int
      BY <1>4
    <3>0. PICK q \in 1 .. Description[p] : x = <<p, q>> /\ p \in Int /\ q \in Int
      BY <3>1
    <3>2. p <= s /\ (p = s => q <= m)
      BY <3>0, <1>8, <1>3, DescriptionType
    <3>3. x \in Before(c) <=> p < s \/ (p = s /\ q < m)
      BY <1>2, <3>0 DEF Before
    <3>4. x = c <=> p = s /\ q = m
      BY <1>2, <3>0
    <3>5. QED
      BY <3>0, <3>2, <3>3, <3>4, <1>3
  <2>3. Before(c) \cup {c} \subseteq AllMedia
    BY DEF Before
  <2>4. QED
    BY <2>1, <2>2, <2>3
<1>9. QED
  BY <1>3, <1>6, <1>7, <1>8, DescriptionType

LEMMA NextOfSession ==
  ASSUME NEW s \in Sessions
  PROVE  /\ NextSess(<<s, 1>>) # Null =>
              s + 1 \in Sessions /\ NextSess(<<s, 1>>) = <<s + 1, 1>> /\ <<s + 1, 1>> \in AllMedia
         /\ NextSess(<<s, 1>>) = Null => s = Len(Description)
<1>1. s \in 1 .. Len(Description) /\ Len(Description) \in Nat
  BY DescriptionType
<1>2. <<s, 1>> # Null
  BY <1>1 DEF Null
<1>3. CASE s < Len(Description)
  <2>1. NextSess(<<s, 1>>) = <<s + 1, 1>>
    BY <1>2, <1>3 DEF NextSess
  <2>2. s + 1 \in Sessions
    BY <1>1, <1>3, DescriptionType
  <2>3. <<s + 1, 1>> # Null
    BY <1>1 DEF Null
  <2>4. <<s + 1, 1>> \in AllMedia
    BY <2>2, MediaPairs, DescriptionType
  <2>5. QED
    BY <2>1, <2>2, <2>3, <2>4
<1>4. CASE ~(s < Len(Description))
  BY <1>1, <1>4, <1>2 DEF NextSess
<1>5. QED
  BY <1>3, <1>4

LEMMA DescribedTalk ==
  ASSUME Alone, TypeOK, TalkInv, Described
  PROVE  TalkInv'
<1>1. /\ Doing("GET", TRUE) /\ Linked /\ Waiting /\ rtsp.dying = FALSE /\ ~fault
      /\ wire[1].req = <<>> /\ wire[1].rep = <<>> /\ in_buffer' = <<>>
  <2>1. Success("GET")
    BY DEF Described
  <2>2. Succeeded("GET")
    BY <2>1, SuccessTalk
  <2>3. QED
    BY <2>2 DEF Succeeded
<1>2. rtsp'.pc = "select" /\ rtsp'.dying = rtsp.dying
  BY <1>1, HandledAfter DEF Described
<1>3. First \in AllMedia
  BY CursorStays, DescriptionType DEF Null, AllMedia
<1>4. 2 \in Nat /\ Writes("SETUP", First, 2)
  BY DEF Described, Writes
<1>5. /\ rtsp_queue' = "live" /\ cursor' = First
      /\ UNCHANGED <<status, busy, rtp_th, opened, fds, server, fd, app, fault>>
  BY DEF Described
<1>6. Waiting' /\ Cmd' = Cmd
  BY <1>1, <1>5 DEF Waiting, Place, Cmd
<1>7. status = "INIT" /\ Cmd = "open" /\ rtp_th = "idle" /\ ServerHas({}, {})
  BY <1>1 DEF Doing
<1>8. Before(cursor)' \cup {} = {}
  BY <1>5, BeforeFirst DEF Before
<1>9. Doing("SETUP", FALSE)'
  BY <1>3, <1>5, <1>6, <1>7, <1>8 DEF Doing, ServerHas
<1>10. Asking'
  BY <1>1, <1>2, <1>3, <1>4, <1>5, <1>6, <1>9, Asks DEF Kinds
<1>11. QED
  BY <1>1, <1>2, <1>5, <1>10 DEF TalkInv, Stages

LEMMA SetUpNextTalk ==
  ASSUME Alone, TypeOK, TalkInv, SetUpNext
  PROVE  TalkInv'
<1>1. /\ Doing("SETUP", TRUE) /\ Linked /\ Waiting /\ rtsp.dying = FALSE /\ ~fault
      /\ wire[1].req = <<>> /\ wire[1].rep = <<>> /\ in_buffer' = <<>>
  <2>1. Success("SETUP")
    BY DEF SetUpNext
  <2>2. Succeeded("SETUP")
    BY <2>1, SuccessTalk
  <2>3. QED
    BY <2>2 DEF Succeeded
<1>2. rtsp'.pc = "select" /\ rtsp'.dying = rtsp.dying
  BY <1>1, HandledAfter DEF SetUpNext
<1>3. PICK c : c = NextMed(cursor)
  OBVIOUS
<1>4. /\ status = "INIT" /\ Cmd = "open" /\ rtsp_queue = "live" /\ rtp_th = "idle" /\ cursor \in AllMedia
      /\ ServerHas(Before(cursor) \cup {cursor}, {})
  BY <1>1 DEF Doing
<1>5. c \in AllMedia /\ Before(c) = Before(cursor) \cup {cursor}
  BY <1>3, <1>4, BeforeNext DEF SetUpNext
<1>6. \E n \in Nat : Writes("SETUP", c, n)
  BY <1>3, <1>5, RequestWrites DEF SetUpNext
<1>7. /\ cursor' = c
      /\ UNCHANGED <<status, busy, rtsp_queue, rtp_th, opened, fds, server, fd, app, fault>>
  BY <1>3 DEF SetUpNext
<1>8. Waiting' /\ Cmd' = Cmd
  BY <1>1, <1>7 DEF Waiting, Place, Cmd
<1>9. ServerHas(Before(c), {})'
  BY <1>4, <1>5, <1>7 DEF ServerHas, Before
<1>10. Doing("SETUP", FALSE)'
  BY <1>4, <1>5, <1>7, <1>8, <1>9 DEF Doing, ServerHas, Before
<1>11. Asking'
  BY <1>1, <1>2, <1>5, <1>6, <1>7, <1>8, <1>10, Asks DEF Kinds
<1>12. QED
  BY <1>1, <1>2, <1>7, <1>11 DEF TalkInv, Stages

LEMMA SetUpDoneTalk ==
  ASSUME Alone, TypeOK, TalkInv, SetUpDone
  PROVE  TalkInv'
<1>0. Success("SETUP")
  BY DEF SetUpDone
<1>1. /\ Doing("SETUP", TRUE) /\ Linked /\ Waiting /\ rtsp.dying = FALSE /\ ~fault
      /\ wire[1].req = <<>> /\ wire[1].rep = <<>> /\ in_buffer' = <<>> /\ response_id' = 200
  <2>1. Succeeded("SETUP")
    BY <1>0, SuccessTalk
  <2>2. QED
    BY <2>1 DEF Succeeded
<1>2. rtsp'.pc = "uninit" /\ rtsp'.dying = rtsp.dying
  BY <1>1, ThreadAfter DEF SetUpDone
<1>3. /\ Cmd = "open" /\ rtsp_queue = "live" /\ rtp_th = "idle" /\ cursor \in AllMedia
      /\ ServerHas(Before(cursor) \cup {cursor}, {})
  BY <1>1 DEF Doing
<1>4. Before(cursor) \cup {cursor} = AllMedia
  BY <1>3, BeforeNext DEF SetUpDone
<1>5. /\ fault' = FALSE /\ rtp_th' = "running" /\ status' = "READY" /\ wait_for' = Nothing
      /\ UNCHANGED <<busy, rtsp_queue, peer, fd, app>>
  BY <1>3 DEF SetUpDone
<1>6. Waiting' /\ Cmd' = Cmd /\ Linked' /\ Silent'
  BY <1>1, <1>5 DEF Waiting, Place, Cmd, Linked, Silent, peer
<1>7. Matched'
  BY <1>3, <1>4, <1>5 DEF Matched, Lives, ServerHas, peer
<1>8. Reported'
  BY <1>3, <1>5, <1>6 DEF Reported
<1>9. Settling'
  BY <1>2, <1>6, <1>7, <1>8 DEF Settling
<1>10. QED
  BY <1>1, <1>2, <1>5, <1>9 DEF TalkInv, Stages

LEMMA NextSessionTalk ==
  ASSUME Alone, TypeOK, TalkInv, NEW kind \in {"PLAY", "PAUSE"}, NextSession(kind)
  PROVE  TalkInv'
<1>1. /\ Doing(kind, TRUE) /\ Takes(kind) /\ Linked /\ Waiting /\ rtsp.dying = FALSE /\ ~fault
      /\ wire[1].req = <<>> /\ wire[1].rep = <<>> /\ in_buffer' = <<>>
  <2>1. Success(kind)
    BY DEF NextSession
  <2>2. Succeeded(kind)
    BY <2>1, SuccessTalk
  <2>3. QED
    BY <2>2 DEF Succeeded
<1>2. rtsp'.pc = "select" /\ rtsp'.dying = rtsp.dying
  BY <1>1, HandledAfter DEF NextSession
<1>3. UNCHANGED <<status, busy, rtsp_queue, rtp_th, opened, fds, server, fd, app, fault>>
  BY DEF NextSession
<1>4. Waiting' /\ Cmd' = Cmd /\ (Lives => Lives')
  BY <1>1, <1>3 DEF Waiting, Place, Cmd, Lives
<1>5. PICK s \in Sessions :
        /\ cursor = <<s, 1>> /\ Lives
        /\ \/ kind = "PLAY" /\ status = "READY" /\ Cmd = "play" /\ ServerHas(AllMedia, 1 .. s)
           \/ /\ kind = "PAUSE" /\ status = "PLAYING" /\ Cmd \in {"pause", "seek"}
              /\ ServerHas(AllMedia, (s + 1) .. Len(Description))
  BY <1>1 DEF Doing, Takes
<1>6. PICK c : c = <<s + 1, 1>>
  OBVIOUS
<1>7. NextSess(cursor) = c /\ c \in AllMedia /\ s + 1 \in Sessions /\ s \in Nat
  BY <1>5, <1>6, NextOfSession, DescriptionType DEF NextSession
<1>8. cursor' = c /\ \E n \in Nat : Writes(kind, c, n)
  BY <1>7, RequestWrites DEF NextSession
<1>9. Doing(kind, FALSE)'
  <2>1. CASE kind = "PLAY"
    <3>1. ServerHas(AllMedia, 1 .. ((s + 1) - 1))'
      BY <1>3, <1>5, <1>7, <2>1 DEF ServerHas
    <3>2. QED
      BY <1>3, <1>4, <1>5, <1>6, <1>7, <1>8, <2>1, <3>1 DEF Doing
  <2>2. CASE kind = "PAUSE"
    <3>1. ServerHas(AllMedia, (s + 1) .. Len(Description))'
      BY <1>3, <1>5, <2>2 DEF ServerHas
    <3>2. QED
      BY <1>3, <1>4, <1>5, <1>6, <1>7, <1>8, <2>2, <3>1 DEF Doing
  <2>3. QED
    BY <2>1, <2>2
<1>10. Asking'
  BY <1>1, <1>2, <1>3, <1>4, <1>7, <1>8, <1>9, Asks DEF Kinds
<1>11. QED
  BY <1>1, <1>2, <1>3, <1>10 DEF TalkInv, Stages

LEMMA LastSessionTalk ==
  ASSUME Alone, TypeOK, TalkInv, NEW kind, NEW new, LastSession(kind, new),
         <<kind, new>> \in {<<"PLAY", "PLAYING">>, <<"PAUSE", "READY">>}
  PROVE  TalkInv'
<1>1. /\ Doing(kind, TRUE) /\ Takes(kind) /\ Linked /\ Waiting /\ rtsp.dying = FALSE /\ ~fault
      /\ wire[1].req = <<>> /\ wire[1].rep = <<>> /\ in_buffer' = <<>> /\ response_id' = 200
  <2>1. Success(kind)
    BY DEF LastSession
  <2>2. Succeeded(kind)
    BY <2>1, SuccessTalk
  <2>3. QED
    BY <2>2 DEF Succeeded
<1>2. rtsp'.pc = "uninit" /\ rtsp'.dying = rtsp.dying
  BY <1>1, ThreadAfter DEF LastSession
<1>3. /\ status' = new /\ wait_for' = Nothing
      /\ UNCHANGED <<busy, rtsp_queue, rtp_th, peer, fd, app, fault>>
  BY DEF LastSession
<1>4. Waiting' /\ Cmd' = Cmd /\ (Lives => Lives') /\ Linked' /\ Silent'
  BY <1>1, <1>3 DEF Waiting, Place, Cmd, Lives, Linked, Silent, peer
<1>5. kind \in {"PLAY", "PAUSE"}
  OBVIOUS
<1>6. PICK s \in Sessions :
        /\ cursor = <<s, 1>> /\ Lives
        /\ \/ kind = "PLAY" /\ status = "READY" /\ Cmd = "play" /\ ServerHas(AllMedia, 1 .. s)
           \/ /\ kind = "PAUSE" /\ status = "PLAYING" /\ Cmd \in {"pause", "seek"}
              /\ ServerHas(AllMedia, (s + 1) .. Len(Description))
  BY <1>1, <1>5 DEF Doing, Takes
<1>7. s = Len(Description) /\ Len(Description) \in Nat /\ Sessions = 1 .. Len(Description)
  BY <1>6, NextOfSession, DescriptionType DEF LastSession
<1>8. Matched' /\ Reported'
  <2>1. CASE kind = "PLAY"
    <3>1. ServerHas(AllMedia, Sessions)'
      BY <1>3, <1>6, <1>7, <2>1 DEF ServerHas, peer
    <3>2. QED
      BY <1>3, <1>4, <1>6, <2>1, <3>1 DEF Matched, Reported
  <2>2. CASE kind = "PAUSE"
    <3>1. (s + 1) .. Len(Description) = {}
      BY <1>7
    <3>2. ServerHas(AllMedia, {})'
      BY <1>3, <1>6, <2>2, <3>1 DEF ServerHas, peer
    <3>3. QED
      BY <1>3, <1>4, <1>6, <2>2, <3>2 DEF Matched, Reported
  <2>3. QED
    BY <1>5, <2>1, <2>2
<1>9. Settling'
  BY <1>2, <1>4, <1>8 DEF Settling
<1>10. QED
  BY <1>1, <1>2, <1>3, <1>9 DEF TalkInv, Stages

LEMMA TornDownTalk ==
  ASSUME Alone, TypeOK, TalkInv, TornDown
  PROVE  TalkInv'
<1>1. /\ Doing("CLOSE", TRUE) /\ Linked /\ Waiting /\ rtsp.dying = FALSE /\ ~fault
      /\ wire[1].req = <<>> /\ wire[1].rep = <<>> /\ in_buffer' = <<>>
  <2>1. Success("CLOSE")
    BY DEF TornDown
  <2>2. Succeeded("CLOSE")
    BY <2>1, SuccessTalk
  <2>3. QED
    BY <2>2 DEF Succeeded
<1>2. rtsp'.pc = "reinit" /\ rtsp'.ret = "closed" /\ rtsp'.dying = rtsp.dying
  BY TypeParts DEF TornDown, Types, RtspType
<1>3. UNCHANGED <<busy, rtsp_queue, peer, fd, app, fault>>
  BY DEF TornDown, session
<1>4. /\ Waiting' /\ Cmd' = Cmd /\ Linked'
      /\ wire'[1].req = <<>> /\ wire'[1].rep = <<>>
  BY <1>1, <1>3 DEF Waiting, Place, Cmd, Linked, peer
<1>5. Cmd = "close" /\ rtsp_queue = "live"
  BY <1>1 DEF Doing, Lives
<1>6. Closing'
  BY <1>2, <1>3, <1>4, <1>5 DEF Closing
<1>7. QED
  BY <1>1, <1>2, <1>3, <1>6 DEF TalkInv, Stages

\* The end of a command, in a presentation that stands and in one that is over.
LEMMA ClearCursorTalk ==
  ASSUME Alone, TypeOK, TalkInv, ClearCursor
  PROVE  TalkInv'
<1>1. rtsp'.pc = "unbusy" /\ rtsp'.ret = rtsp.ret /\ rtsp'.dying = rtsp.dying
  BY ThreadAfter DEF ClearCursor
<1>2. UNCHANGED <<control, rtsp_queue, rtp_th, peer, fd, in_buffer, app, fault>>
  BY DEF ClearCursor
<1>0. rtsp.pc = "uninit"
  BY DEF ClearCursor
<1> USE DEF control, peer
<1>3. CASE Settling
  <2>1. Matched' /\ Linked' /\ Silent' /\ Waiting' /\ Reported'
    BY <1>2, <1>3 DEF Settling, Matched, Lives, ServerHas, Linked, Silent, Waiting, Reported, Place, Cmd
  <2>2. Settling'
    BY <1>1, <2>1 DEF Settling
  <2>3. QED
    BY <1>1, <1>2, <2>2 DEF TalkInv, Stages
<1>4. CASE Over
  <2>1. Over'
    BY <1>0, <1>1, <1>2, <1>4 DEF Over, Place, Cmd, Unmet
  <2>2. QED
    BY <1>1, <1>2, <2>1 DEF TalkInv, Stages
<1>5. QED
  BY <1>3, <1>4, StageOfThread DEF ClearCursor

LEMMA UnbusyTalk ==
  ASSUME Alone, TypeOK, TalkInv, Unbusy
  PROVE  TalkInv'
<1>1. UNCHANGED <<status, wait_for, response_id, session, peer, fd, in_buffer, app, fault>>
  BY DEF Unbusy, rtsp_unbusy
<1> USE DEF session, peer
<1>2. rtsp.dying = FALSE /\ (Settling \/ Over) /\ rtsp.pc = "unbusy"
  BY StageOfThread DEF Unbusy, TalkInv
<1>3. in_buffer = <<>>
  BY <1>2 DEF Settling, Over, Silent
<1>4. rtsp'.pc = "select" /\ rtsp'.ret = rtsp.ret /\ rtsp'.dying = rtsp.dying
  BY <1>2, <1>3, HandledAfter DEF Unbusy
<1>5. CASE Settling
  <2>1. Matched' /\ Linked' /\ Silent' /\ Reported' /\ Place' = Place
    BY <1>1, <1>5 DEF Settling, Matched, Lives, ServerHas, Linked, Silent, Reported, Place, Cmd
  <2>2. Settled'
    BY <1>4, <1>5, <2>1 DEF Settled, Settling, Waiting
  <2>3. QED
    BY <1>1, <1>4, <2>2 DEF TalkInv, Stages
<1>6. CASE Over
  <2>1. Over'
    BY <1>1, <1>2, <1>4, <1>6 DEF Over, Place, Cmd, Unmet
  <2>2. QED
    BY <1>1, <1>4, <2>1 DEF TalkInv, Stages
<1>7. QED
  BY <1>2, <1>5, <1>6

LEMMA StateMachineTalk ==
  ASSUME Alone, TypeOK, TalkInv, StateMachine
  PROVE  TalkInv'
<1>1. ~Redirect
  BY StageOfThread DEF Redirect
<1>2. ~BadDescription
  <2>1. SUFFICES ASSUME BadDescription PROVE FALSE
    OBVIOUS
  <2>2. rtsp.pc = "handle" /\ Head(in_buffer).code = BadSdp
    BY <2>1 DEF BadDescription, Checked, Expects, Handling
  <2>3. Head(in_buffer).code \in {200, 404}
    BY <2>2, Come
  <2>4. QED
    BY <2>2, <2>3 DEF BadSdp
<1>3. ~ParamAnswered
  BY Come DEF ParamAnswered, Expects, Handling
<1>5. CASE LastSession("PLAY", "PLAYING") \/ LastSession("PAUSE", "READY")
  BY <1>5, LastSessionTalk
<1>6. CASE NextSession("PLAY") \/ NextSession("PAUSE")
  BY <1>6, NextSessionTalk
<1>7. QED
  BY <1>1, <1>2, <1>3, <1>5, <1>6, RejectTalk, UnsuccessfulTalk, DescribedTalk, SetUpNextTalk,
     SetUpDoneTalk, TornDownTalk, ClearCursorTalk, UnbusyTalk DEF StateMachine

LEMMA FreeSessionsTalk ==
  ASSUME Alone, TypeOK, TalkInv, FreeSessions
  PROVE  TalkInv'
<1>1. rtsp'.pc = "buffers" /\ rtsp'.ret = rtsp.ret /\ rtsp'.dying = rtsp.dying
  BY ThreadAfter DEF FreeSessions
<1>2. Closing /\ rtsp.pc = "reinit"
  BY StageOfThread DEF FreeSessions
<1>3. fault' = FALSE /\ UNCHANGED <<control, peer, fd, in_buffer, app>>
  BY <1>2 DEF FreeSessions, Closing
<1>4. Linked' /\ Waiting' /\ Cmd' = Cmd
  BY <1>2, <1>3 DEF Closing, Linked, Waiting, Place, Cmd, control, peer
<1>5. Closing'
  BY <1>1, <1>2, <1>3, <1>4 DEF Closing, control, peer, Unmet
<1>6. QED
  BY <1>1, <1>3, <1>5 DEF TalkInv, Stages

LEMMA FreeBuffersTalk ==
  ASSUME Alone, TypeOK, FreedOnce, TalkInv, FreeBuffers
  PROVE  TalkInv'
<1>1. rtsp'.pc = "close" /\ rtsp'.ret = rtsp.ret /\ rtsp'.dying = rtsp.dying
  BY TypeParts DEF FreeBuffers, Types, RtspType
<1>2. Closing /\ rtsp.pc = "buffers"
  BY StageOfThread DEF FreeBuffers
<1>3. fault' = FALSE /\ UNCHANGED <<control, session, peer, fd, in_buffer, app>>
  BY <1>2, TypeParts DEF FreeBuffers, FreedOnce, Types, RtspType
<1>4. Linked' /\ Waiting' /\ Cmd' = Cmd
  BY <1>2, <1>3 DEF Closing, Linked, Waiting, Place, Cmd, control, peer
<1>5. Closing'
  BY <1>1, <1>2, <1>3, <1>4 DEF Closing, control, peer, Unmet
<1>6. QED
  BY <1>1, <1>3, <1>5 DEF TalkInv, Stages

LEMMA CloseConnectionTalk ==
  ASSUME Alone, TypeOK, TalkInv, CloseConnection
  PROVE  TalkInv'
<1>1. rtsp'.pc = "wipe" /\ rtsp'.ret = rtsp.ret /\ rtsp'.dying = rtsp.dying
  BY ThreadAfter DEF CloseConnection
<1>2. Closing
  BY StageOfThread DEF CloseConnection
<1>3. /\ fds' = fds \ {fd} /\ fd' = 0 /\ status' = "INIT"
      /\ UNCHANGED <<response_id, opened, in_buffer, app, fault>>
  BY DEF CloseConnection
<1>4. fds' = {} /\ opened' = 1 /\ Place' = Place /\ Cmd' = Cmd
  BY <1>2, <1>3 DEF Closing, Linked, Place, Cmd
<1>5. Over'
  BY <1>1, <1>2, <1>3, <1>4 DEF Over, Closing, Waiting, Unmet
<1>6. QED
  BY <1>1, <1>3, <1>5 DEF TalkInv, Stages

\* The rest of rtsp_reinit.
LEMMA OverTalk ==
  ASSUME Alone, TypeOK, TalkInv, Wipe \/ Release \/ Forget \/ Restore
  PROVE  TalkInv'
<1>1. Over
  BY StageOfThread DEF Wipe, Release, Forget, Restore
<1>2. CASE Wipe
  <2>1. rtsp'.pc = "release" /\ rtsp'.ret = rtsp.ret /\ rtsp'.dying = rtsp.dying
    BY <1>2, TypeParts DEF Wipe, Types, RtspType
  <2>2. in_buffer' = <<>> /\ UNCHANGED <<status, response_id, peer, fd, app, fault>>
    BY <1>2 DEF Wipe
  <2>3. Over'
    BY <1>1, <2>1, <2>2 DEF Over, Place, Cmd, peer, Unmet
  <2>4. QED
    BY <2>1, <2>2, <2>3 DEF TalkInv, Stages
<1>3. CASE Release
  <2>1. rtsp'.pc = "forget" /\ rtsp'.ret = rtsp.ret /\ rtsp'.dying = rtsp.dying
    BY <1>3, ThreadAfter DEF Release
  <2>2. UNCHANGED <<status, response_id, peer, fd, app, fault, in_buffer>> /\ rtsp.pc = "release"
    BY <1>3 DEF Release, rtsp_unbusy
  <2>3. Over'
    BY <1>1, <2>1, <2>2 DEF Over, Place, Cmd, peer, Unmet
  <2>4. QED
    BY <2>1, <2>2, <2>3 DEF TalkInv, Stages
<1>4. CASE Forget
  <2>1. /\ rtsp'.pc = IF rtsp.ret = "closed" THEN "restore" ELSE rtsp.ret
        /\ rtsp'.ret = rtsp.ret /\ rtsp'.dying = rtsp.dying
    BY <1>4, TypeParts DEF Forget, Step, Types, RtspType
  <2>2. /\ response_id' = IF response_id = 200 THEN 0 ELSE response_id
        /\ UNCHANGED <<status, peer, fd, app, fault, in_buffer>> /\ rtsp.pc = "forget"
    BY <1>4 DEF Forget
  <2>3. Over'
    BY <1>1, <2>1, <2>2 DEF Over, Place, Cmd, peer, Unmet
  <2>4. QED
    BY <2>1, <2>2, <2>3 DEF TalkInv, Stages
<1>5. CASE Restore
  <2>1. rtsp'.pc = "uninit" /\ rtsp'.ret = rtsp.ret /\ rtsp'.dying = rtsp.dying
    BY <1>5, ThreadAfter DEF Restore
  <2>2. UNCHANGED <<status, peer, fd, app, fault, in_buffer>> /\ rtsp.pc = "restore"
    BY <1>5 DEF Restore
  <2>3. Over'
    BY <1>1, <2>1, <2>2 DEF Over, Place, Cmd, peer, Unmet
  <2>4. QED
    BY <2>1, <2>2, <2>3 DEF TalkInv, Stages
<1>6. QED
  BY <1>2, <1>3, <1>4, <1>5

LEMMA ThreadTalk ==
  ASSUME Alone, TypeOK, FreedOnce, TalkInv, RtspThread
  PROVE  TalkInv'
<1>1. ~Clean /\ ~LastReply /\ ~NoLastReply
  BY StageOfThread DEF Clean, LastReply, NoLastReply
<1>2. ~RecvEnd
  BY RecvEndTalk
<1>3. QED
  BY <1>1, <1>2, RecvTalk, StateMachineTalk, FreeSessionsTalk, FreeBuffersTalk, CloseConnectionTalk,
     OverTalk DEF RtspThread

\* The server carries the request out, or refuses it, and its answer is on the way.
LEMMA ReplyMade ==
  ASSUME NEW n \in Nat, NEW code \in {200, 404}
  PROVE  \E a \in Reply : a = [cseq |-> n, code |-> code] /\ a.cseq = n /\ a.code = code
<1>0. code \in {200, BadSdp, 302, 404}
  OBVIOUS
<1>1. PICK a \in Reply : a = [cseq |-> n, code |-> code]
  <2>1. [cseq |-> n, code |-> code] \in Reply
    BY <1>0 DEF Reply
  <2>2. QED
    BY <2>1
<1>2. a.cseq = n /\ a.code = code
  BY <1>1
<1>3. QED
  BY <1>1, <1>2

LEMMA PlayingChanged ==
  ASSUME NEW m, NEW p, NEW q, NEW x, x = [setup |-> m, playing |-> p]
  PROVE  [x EXCEPT !.playing = q] = [setup |-> m, playing |-> q]
OBVIOUS

LEMMA AnswerTalk ==
  ASSUME Alone, TypeOK, TalkInv, NEW c \in Conns, NEW code \in {200, 404}, Answer(c, code)
  PROVE  TalkInv'
<1>1. c \in fds /\ wire[c].req # <<>>
  BY DEF Answer
<1>2. c = 1 /\ Asking
  <2>1. ~Fresh /\ ~Over
    BY <1>1 DEF Fresh, Over
  <2>2. Asking \/ Arriving \/ Arrived \/ Settling \/ Settled \/ Closing
    BY <2>1 DEF TalkInv, Stages
  <2>3. c = 1
    <3>1. Linked
      BY <2>2 DEF Asking, Arriving, Arrived, Settling, Settled, Closing
    <3>2. QED
      BY <1>1, <3>1 DEF Linked
  <2>4. ~Arriving /\ ~Arrived
    BY <1>1, <2>3 DEF Arriving, Arrived
  <2>5. ~Settling /\ ~Settled /\ ~Closing
    BY <1>1, <2>3 DEF Settling, Settled, Closing, Silent
  <2>6. QED
    BY <2>2, <2>3, <2>4, <2>5
<1>3. PICK r \in Wanted : /\ wire[1].req = <<r>> /\ r.kind = wait_for.res /\ Fits(r.cseq)
                          /\ r.kind # "GET" => r.about = cursor
  BY <1>2 DEF Asking
<1>4. Head(<<r>>) = r /\ Tail(<<r>>) = <<>> /\ Head(wire[c].req) = r /\ Tail(wire[c].req) = <<>>
  BY <1>2, <1>3
<1>5. PICK n \in Nat : n = r.cseq
  BY <1>3 DEF Wanted
<1>6. PICK a \in Reply : a = [cseq |-> n, code |-> code] /\ a.cseq = n /\ a.code = code
  BY ReplyMade
<1>7. a \in Reply /\ a.cseq = r.cseq /\ a.code = code
  BY <1>5, <1>6
<1>8. wire[1].rep = <<>> /\ wire[1].end = "up" /\ Append(<<>>, a) = <<a>>
  BY <1>2 DEF Asking, Linked
<1>9. wire' = [wire EXCEPT ![1] = [req |-> <<>>, end |-> "up", rep |-> <<a>>]]
  <2>1. wire' = [wire EXCEPT ![c] = [req |-> Tail(wire[c].req), end |-> "up",
                   rep |-> Append(wire[c].rep, [cseq |-> Head(wire[c].req).cseq, code |-> code])]]
    BY DEF Answer
  <2>2. [cseq |-> Head(wire[c].req).cseq, code |-> code] = a
    BY <1>4, <1>5, <1>6
  <2>3. QED
    BY <1>2, <1>4, <1>8, <2>1, <2>2
<1>10. wire'[1] = [req |-> <<>>, end |-> "up", rep |-> <<a>>]
  BY <1>2, <1>9, TypeParts DEF Types, WireType
<1>11. UNCHANGED <<control, session, opened, fds, fd, in_buffer, rtsp, app, fault>>
  BY DEF Answer
<1> USE DEF control, session
<1>12. Cmd' = Cmd /\ Waiting' /\ Linked' /\ wire'[1].req = <<>> /\ wire'[1].rep = <<a>>
  BY <1>2, <1>10, <1>11 DEF Asking, Cmd, Waiting, Place, Linked
<1>0. PICK kind : kind = r.kind
  <2> WITNESS r.kind
  <2> QED OBVIOUS
<1>13. Doing(kind, FALSE) /\ wait_for'.res = kind
  <2>1. wait_for.res = kind
    BY <1>0, <1>3
  <2>2. QED
    BY <1>2, <1>11, <2>1 DEF Asking
<1>14. server' = IF code = 200 THEN [server EXCEPT ![1] = Obey(server[1], r)] ELSE server
  BY <1>2, <1>4 DEF Answer
<1>15. CASE code = 404
  <2>1. UNCHANGED <<status, rtsp_queue, rtp_th, cursor, server>>
    BY <1>11, <1>14, <1>15
  <2>2. Doing(kind, FALSE)'
    <3>1. Cmd' = Cmd /\ Doing(kind, FALSE) /\ FALSE \in BOOLEAN
      BY <1>12, <1>13
    <3>2. QED
      BY <2>1, <3>1, DoingKept, Zenon
  <2>3. Answered(<<a>>)'
    <3>1. (a.code = 200) = FALSE
      BY <1>7, <1>15
    <3>2. Doing(kind, a.code = 200)'
      BY <2>2, <3>1
    <3>3. wait_for'.res = kind /\ Fits(a.cseq)'
      BY <1>3, <1>7, <1>11, <1>13 DEF Fits
    <3>4. Doing(wait_for.res, a.code = 200)'
      BY <3>2, <3>3
    <3>5. QED
      BY <1>7, <3>3, <3>4 DEF Answered
  <2>4. Arriving'
    BY <1>2, <1>11, <1>12, <2>3 DEF Arriving, Asking
  <2>5. QED
    BY <1>11, <2>4 DEF TalkInv, Stages
<1>16. CASE code = 200
  <2>1. server'[1] = Obey(server[1], r)
    BY <1>2, <1>14, <1>16, TypeParts DEF Types
  <2>2. Doing(kind, TRUE)'
    <3>1. CASE kind = "GET"
      <4>1. server'[1] = server[1]
        BY <1>0, <2>1, <3>1 DEF Obey
      <4>2. QED
        BY <1>11, <1>12, <1>13, <3>1, <4>1 DEF Doing, ServerHas
    <3>2. CASE kind = "SETUP"
      <4>1. /\ status = "INIT" /\ Cmd = "open" /\ rtsp_queue = "live" /\ rtp_th = "idle" /\ cursor \in AllMedia
            /\ server[1] = [setup |-> Before(cursor), playing |-> {}]
        BY <1>13, <3>2 DEF Doing, ServerHas
      <4>2. r.about = cursor
        BY <1>0, <1>3, <3>2
      <4>3. server'[1] = [setup |-> Before(cursor) \cup {cursor}, playing |-> {}]
        BY <1>0, <2>1, <3>2, <4>1, <4>2 DEF Obey
      <4>4. ServerHas(Before(cursor) \cup {cursor}, {})'
        BY <1>11, <4>3 DEF ServerHas, Before
      <4>5. QED
        BY <1>11, <1>12, <3>2, <4>1, <4>4 DEF Doing
    <3>7. CASE kind = "PLAY" /\ status = "PLAYING"
      <4>1. cursor = First /\ server[1] = [setup |-> AllMedia, playing |-> Sessions]
        BY <1>13, <3>7 DEF Doing, ServerHas
      <4>2. r.about[1] = 1 /\ 1 \in Sessions
        BY <1>0, <1>3, <3>7, <4>1, DescriptionType DEF First
      <4>3. Sessions \cup {r.about[1]} = Sessions
        BY <4>2
      <4>4. server'[1] = [setup |-> AllMedia, playing |-> Sessions]
        <5>1. server'[1] = [server[1] EXCEPT !.playing = @ \cup {r.about[1]}]
          BY <1>0, <2>1, <3>7 DEF Obey
        <5>2. server[1].playing \cup {r.about[1]} = Sessions
          BY <4>1, <4>3
        <5>3. PICK x : x = server[1]
          OBVIOUS
        <5>4. PICK q : q = Sessions
          OBVIOUS
        <5>5. server'[1] = [x EXCEPT !.playing = q]
          BY <5>1, <5>2, <5>3, <5>4
        <5>6. [x EXCEPT !.playing = q] = [setup |-> AllMedia, playing |-> q]
          BY <4>1, <5>3, PlayingChanged
        <5>7. QED
          BY <5>4, <5>5, <5>6
      <4>5. /\ Lives' /\ status' = "PLAYING" /\ Cmd' = "play" /\ cursor' = First
            /\ "replay" \in Events
        BY <1>11, <1>12, <1>13, <3>7, <4>1 DEF Doing, Lives
      <4>6. QED
        BY <3>7, <4>4, <4>5 DEF Doing, ServerHas
    <3>3. CASE kind = "PLAY" /\ status # "PLAYING"
      <4>1. PICK s \in Sessions : cursor = <<s, 1>> /\ server[1] = [setup |-> AllMedia, playing |-> 1 .. (s - 1)]
        BY <1>13, <3>3 DEF Doing, ServerHas
      <4>2. r.about[1] = s /\ s \in Nat /\ s >= 1
        BY <1>0, <1>3, <3>3, <4>1, DescriptionType
      <4>3. (1 .. (s - 1)) \cup {s} = 1 .. s
        BY <4>2
      <4>4. server'[1] = [setup |-> AllMedia, playing |-> 1 .. s]
        <5>1. server'[1] = [server[1] EXCEPT !.playing = @ \cup {r.about[1]}]
          BY <1>0, <2>1, <3>3 DEF Obey
        <5>2. server[1].playing \cup {r.about[1]} = 1 .. s
          BY <4>1, <4>2, <4>3
        <5>3. PICK x : x = server[1]
          OBVIOUS
        <5>4. PICK q : q = 1 .. s
          OBVIOUS
        <5>5. server'[1] = [x EXCEPT !.playing = q]
          BY <5>1, <5>2, <5>3, <5>4
        <5>6. [x EXCEPT !.playing = q] = [setup |-> AllMedia, playing |-> q]
          BY <4>1, <5>3, PlayingChanged
        <5>7. QED
          BY <5>4, <5>5, <5>6
      <4>5. Lives' /\ status' = "READY" /\ Cmd' = "play" /\ cursor' = <<s, 1>>
        BY <1>11, <1>12, <1>13, <3>3, <4>1 DEF Doing, Lives
      <4>6. QED
        BY <3>3, <4>4, <4>5 DEF Doing, ServerHas
    <3>4. CASE kind = "PAUSE"
      <4>1. PICK s \in Sessions : /\ cursor = <<s, 1>>
                                  /\ server[1] = [setup |-> AllMedia, playing |-> s .. Len(Description)]
        BY <1>13, <3>4 DEF Doing, ServerHas
      <4>2. r.about[1] = s /\ s \in Nat /\ s >= 1 /\ Len(Description) \in Nat
        BY <1>0, <1>3, <3>4, <4>1, DescriptionType
      <4>3. (s .. Len(Description)) \ {s} = (s + 1) .. Len(Description)
        BY <4>2
      <4>4. server'[1] = [setup |-> AllMedia, playing |-> (s + 1) .. Len(Description)]
        <5>1. server'[1] = [server[1] EXCEPT !.playing = @ \ {r.about[1]}]
          BY <1>0, <2>1, <3>4 DEF Obey
        <5>2. server[1].playing \ {r.about[1]} = (s + 1) .. Len(Description)
          BY <4>1, <4>2, <4>3
        <5>3. PICK x : x = server[1]
          OBVIOUS
        <5>4. PICK q : q = (s + 1) .. Len(Description)
          OBVIOUS
        <5>5. server'[1] = [x EXCEPT !.playing = q]
          BY <5>1, <5>2, <5>3, <5>4
        <5>6. [x EXCEPT !.playing = q] = [setup |-> AllMedia, playing |-> q]
          BY <4>1, <5>3, PlayingChanged
        <5>7. QED
          BY <5>4, <5>5, <5>6
      <4>5. Lives' /\ status' = "PLAYING" /\ Cmd' \in {"pause", "seek"} /\ cursor' = <<s, 1>>
        BY <1>11, <1>12, <1>13, <3>4, <4>1 DEF Doing, Lives
      <4>6. QED
        BY <3>4, <4>4, <4>5 DEF Doing, ServerHas
    <3>5. CASE kind = "CLOSE"
      BY <1>11, <1>12, <1>13, <3>5 DEF Doing, Lives
    <3>6. QED
      BY <1>13, <3>1, <3>2, <3>3, <3>4, <3>5, <3>7 DEF Doing
  <2>3. Answered(<<a>>)'
    <3>1. (a.code = 200) = TRUE
      BY <1>7, <1>16
    <3>2. Doing(kind, a.code = 200)'
      BY <2>2, <3>1
    <3>3. wait_for'.res = kind /\ Fits(a.cseq)'
      BY <1>3, <1>7, <1>11, <1>13 DEF Fits
    <3>4. Doing(wait_for.res, a.code = 200)'
      BY <3>2, <3>3
    <3>5. QED
      BY <1>7, <3>3, <3>4 DEF Answered
  <2>4. Arriving'
    BY <1>2, <1>11, <1>12, <2>3 DEF Arriving, Asking
  <2>5. QED
    BY <1>11, <2>4 DEF TalkInv, Stages
<1>17. QED
  BY <1>15, <1>16

\* Every step keeps the invariant, and a wait that is reported a success leaves the
\* controller in the status its command asked for.
LEMMA NextTalk ==
  ASSUME Alone, TypeOK, FreedOnce, TalkInv, Next
  PROVE  TalkInv'
<1>1. ASSUME NEW t \in Threads, Command(t) PROVE TalkInv'
  BY <1>1, RefuseTalk, AcceptTalk, ConnectTalk, RefusedTalk, PointTalk, SendTalk, SendLostTalk
     DEF Command
<1>2. ASSUME NEW t \in Threads, Wait(t) PROVE TalkInv'
  BY <1>2, WaitTalk
<1>3. ASSUME NEW t \in Threads, Uninit(t) PROVE TalkInv'
  BY <1>3, AloneThreads DEF Uninit
<1>4. ASSUME NEW c \in Conns, Server(c) PROVE TalkInv'
  <2>1. ASSUME NEW code \in {200, BadSdp, 302, 404}, Answer(c, code) PROVE TalkInv'
    <3>1. code \in {200, 404}
      BY <2>1, AloneThreads DEF Answer, Codes
    <3>2. QED
      BY <2>1, <3>1, AnswerTalk
  <2>2. \A end \in {"closed", "broken"} : ~Hangup(c, end)
    BY AloneThreads DEF Hangup
  <2>3. QED
    BY <1>4, <2>1, <2>2 DEF Server
<1>5. QED
  BY <1>1, <1>2, <1>3, <1>4, ThreadTalk DEF Next

\* Only the application's own steps move its threads.
LEMMA OthersKeepApp ==
  /\ RtspThread => app' = app
  /\ \A c \in Conns : Server(c) => app' = app
<1>1. StateMachine => app' = app
  BY DEF StateMachine, Reject, Unsuccessful, Redirect, Described, BadDescription, SetUpNext, SetUpDone,
         NextSession, LastSession, TornDown, ParamAnswered, ClearCursor, Unbusy, rtsp_unbusy
<1>2. RtspThread => app' = app
  BY <1>1 DEF RtspThread, Recv, RecvEnd, FreeSessions, FreeBuffers, CloseConnection, Wipe, Release,
              rtsp_unbusy,
              Forget, Restore, Clean, LastReply, NoLastReply
<1>3. \A c \in Conns : Server(c) => app' = app
  <2>1. ASSUME NEW c \in Conns, NEW code, Answer(c, code) PROVE app' = app
    BY <2>1 DEF Answer
  <2>2. ASSUME NEW c \in Conns, NEW end, Hangup(c, end) PROVE app' = app
    BY <2>2 DEF Hangup
  <2>3. QED
    BY <2>1, <2>2 DEF Server
<1>4. QED
  BY <1>2, <1>3

LEMMA StutterTalk ==
  ASSUME TalkInv, UNCHANGED vars
  PROVE  TalkInv'
<1> USE DEF vars, control, session, mutex, peer
<1>1. /\ UNCHANGED <<Fresh, Settling, Settled, Closing, Over>>
  BY DEF Fresh, Settling, Settled, Closing, Over, Linked, Silent, Waiting, Matched, Lives,
         Reported, Place, Cmd, ServerHas, Unmet
<1>2. ASSUME NEW kind, NEW ok \in BOOLEAN
      PROVE  Doing(kind, ok)' = Doing(kind, ok)
  BY DEF Doing, Lives, ServerHas, Before, Cmd
<1>3. UNCHANGED <<Linked, Waiting>>
  BY DEF Linked, Waiting, Place
<1>4. Asking => Asking'
  BY <1>3 DEF Asking, Fits, Doing, Lives, ServerHas, Before, Cmd
<1>0. Cmd' = Cmd /\ UNCHANGED <<status, rtsp_queue, rtp_th, cursor, server, wait_for>>
  BY DEF Cmd
<1>5. ASSUME Arriving PROVE Arriving'
  <2>1. PICK q : q = wire[1].rep
    OBVIOUS
  <2>2. Answered(q)'
    BY <1>0, <1>5, <2>1, AnsweredKept DEF Arriving
  <2>3. Answered(wire[1].rep)'
    BY <2>1, <2>2
  <2>4. QED
    BY <1>3, <1>5, <2>3 DEF Arriving
<1>6. ASSUME Arrived PROVE Arrived'
  <2>1. PICK q : q = in_buffer
    OBVIOUS
  <2>2. Answered(q)'
    BY <1>0, <1>6, <2>1, AnsweredKept DEF Arrived
  <2>3. Answered(in_buffer)'
    BY <2>1, <2>2
  <2>4. QED
    BY <1>3, <1>6, <2>3 DEF Arrived
<1>7. QED
  BY <1>1, <1>4, <1>5, <1>6 DEF TalkInv, Stages

LEMMA InitTalk ==
  ASSUME Alone, Init
  PROVE  TalkInv
<1>1. app = [t \in Threads |-> [pc |-> "idle", cmd |-> "none", got |-> 0]] /\ Me \in Threads
  BY AloneThreads DEF Init
<1>2. Place = "idle"
  BY <1>1 DEF Place
<1>3. 1 \in Conns => wire[1] = [req |-> <<>>, rep |-> <<>>, end |-> "up"] /\ ServerHas({}, {})
  BY DEF Init, ServerHas
<1>4. Fresh
  BY <1>2, <1>3 DEF Init, Fresh
<1>5. QED
  BY <1>4 DEF Init, TalkInv, Stages

\* Only FreeBuffers frees the buffers, CloseConnection and Wipe follow, and Wipe
\* resets their pointers: nothing else happens to a thread that is not cancelled.
LEMMA FreedKept ==
  ASSUME Alone, TypeOK, FreedOnce, [Next]_vars
  PROVE  FreedOnce'
<1> USE DEF FreedOnce
<1>0. rtsp \in RtspType
  BY TypeParts DEF Types
<1>1. ASSUME NEW pc, Step(pc), rtsp.pc \notin {"close", "wipe"} PROVE FreedOnce'
  BY <1>0, <1>1 DEF Step, RtspType
<1>2. ASSUME Reinit, rtsp.pc \notin {"close", "wipe"} PROVE FreedOnce'
  BY <1>0, <1>2 DEF Reinit, RtspType
<1>3. ASSUME NEW rest, Handled(rest), rtsp.pc \notin {"close", "wipe"} PROVE FreedOnce'
  BY <1>1, <1>2, <1>3 DEF Handled
<1>4. CASE StateMachine
  <2>1. CASE Reject \/ Unsuccessful \/ Redirect
    BY <1>1, <1>2, <2>1 DEF Reject, Unsuccessful, Redirect, Checked, Expects, Handling
  <2>2. CASE Described \/ BadDescription
    BY <1>2, <1>3, <2>2 DEF Described, BadDescription, Success, Checked, Expects, Handling
  <2>3. CASE SetUpNext \/ SetUpDone
    BY <1>1, <1>3, <2>3 DEF SetUpNext, SetUpDone, Success, Checked, Expects, Handling
  <2>4. ASSUME NEW kind, NEW new, NextSession(kind) \/ LastSession(kind, new) PROVE FreedOnce'
    BY <1>1, <1>3, <2>4 DEF NextSession, LastSession, Success, Checked, Expects, Handling
  <2>5. CASE TornDown
    <3>1. rtsp.pc = "handle"
      BY <2>5 DEF TornDown, Success, Checked, Expects, Handling
    <3>2. rtsp'.freed = rtsp.freed
      BY <1>0, <2>5 DEF TornDown, RtspType
    <3>3. QED
      BY <1>0, <3>1, <3>2 DEF RtspType
  <2>6. CASE ParamAnswered
    BY <1>3, <2>6 DEF ParamAnswered, Expects, Handling
  <2>7. CASE ClearCursor \/ Unbusy
    BY <1>1, <1>3, <2>7 DEF ClearCursor, Unbusy
  <2>8. QED
    BY <1>4, <2>1, <2>2, <2>3, <2>4, <2>5, <2>6, <2>7 DEF StateMachine
<1>5. CASE Recv \/ FreeSessions \/ Release \/ Forget \/ Restore \/ Clean \/ LastReply \/ NoLastReply
  BY <1>1, <1>2, <1>5 DEF Recv, FreeSessions, Release, Forget, Restore, Clean, LastReply, NoLastReply
<1>6. CASE RecvEnd
  <2>1. CASE Reinit
    BY <1>2, <1>6, <2>1 DEF RecvEnd
  <2>2. CASE rtsp' = [rtsp EXCEPT !.pc = "clean", !.dying = TRUE]
    <3>1. rtsp.pc = "select" /\ rtsp'.freed = rtsp.freed
      BY <1>0, <1>6, <2>2 DEF RecvEnd, RtspType
    <3>2. QED
      BY <1>0, <3>1 DEF RtspType
  <2>3. QED
    BY <1>6, <2>1, <2>2 DEF RecvEnd
<1>7. CASE FreeBuffers
  BY <1>0, <1>7 DEF FreeBuffers, RtspType
<1>8. CASE CloseConnection
  BY <1>0, <1>8 DEF CloseConnection, Step, RtspType
<1>9. CASE Wipe
  BY <1>0, <1>9 DEF Wipe, RtspType
<1>10. ASSUME NEW t \in Threads, Command(t) \/ Wait(t) PROVE FreedOnce'
  BY <1>10, AppKeeps
<1>11. ASSUME NEW t \in Threads, Uninit(t) PROVE FALSE
  BY <1>11, AloneThreads DEF Uninit
<1>12. ASSUME NEW c \in Conns, Server(c) PROVE FreedOnce'
  BY <1>12, ServerKeeps
<1>13. CASE UNCHANGED vars
  BY <1>13 DEF vars
<1>14. QED
  BY <1>4, <1>5, <1>6, <1>7, <1>8, <1>9, <1>10, <1>11, <1>12, <1>13 DEF Next, RtspThread

\* One application thread and a server that stays up understand each other, whatever
\* the server refuses: what the invariant says of every stage of their talk.
LEMMA Talks ==
  ASSUME Alone
  PROVE  Spec => []TalkInv
<1>1. Init => TalkInv
  BY InitTalk
<1>2. Init => FreedOnce
  BY DEF Init, FreedOnce
<1>3. TypeOK /\ FreedOnce /\ [Next]_vars => FreedOnce'
  BY FreedKept
<1>4. TypeOK /\ FreedOnce /\ TalkInv /\ [Next]_vars => TalkInv'
  BY NextTalk, StutterTalk
<1>5. QED
  BY <1>1, <1>2, <1>3, <1>4, TypeCorrect, PTL DEF Spec

\* When nothing is under way the server has set up every medium, and plays all
\* sessions or none, as the status of the state machine says: the cursor that goes
\* over the sessions misses none, and no request is sent twice.
THEOREM ServerAgrees ==
  ASSUME Alone
  PROVE  Spec => []Agreed
<1>1. ASSUME TalkInv PROVE Agreed
  <2>1. SUFFICES ASSUME rtsp.pc = "select", in_buffer = <<>>, fd # 0,
                        wire[fd] = [req |-> <<>>, rep |-> <<>>, end |-> "up"]
                 PROVE  /\ status = "READY"   => server[fd] = [setup |-> AllMedia, playing |-> {}]
                        /\ status = "PLAYING" => server[fd] = [setup |-> AllMedia, playing |-> Sessions]
    BY DEF Agreed
  <2>2. Asking \/ Arriving \/ Settled
    BY <1>1, <2>1, StageOfThread
  <2>3. fd = 1
    BY <2>2 DEF Asking, Arriving, Settled, Linked
  <2>4. ~Asking /\ ~Arriving
    <3>1. wire[1].req = <<>> /\ wire[1].rep = <<>>
      BY <2>1, <2>3
    <3>2. ~Asking
      BY <3>1 DEF Asking
    <3>3. ~Arriving
      BY <3>1 DEF Arriving, Answered
    <3>4. QED
      BY <3>2, <3>3
  <2>5. QED
    BY <2>2, <2>3, <2>4 DEF Settled, Matched, ServerHas
<1>2. QED
  BY <1>1, Talks, PTL

\* check_response finds every reply that comes to be the one awaited, and the handler
\* of the present status takes it, but for the answer to playing what plays already:
\* no other answer of the server is thrown away as unexpected.
THEOREM RepliesAwaited ==
  ASSUME Alone
  PROVE  Spec => []EveryReplyAwaited
<1>1. ASSUME TypeOK, TalkInv PROVE EveryReplyAwaited
  BY <1>1, Come DEF EveryReplyAwaited, Handling
<1>2. QED
  BY <1>1, Talks, TypeCorrect, PTL

\* No connection is left open behind the controller's back, none is closed that still
\* owes an answer, and no session, cursor or RTP structure is used after it was freed.
THEOREM KeepsEverything ==
  ASSUME Alone
  PROVE  Spec => []NothingLost
<1>1. ASSUME TalkInv PROVE NothingLost
  <2>1. NoConnectionLost
    BY <1>1 DEF TalkInv, Stages, Fresh, Asking, Arriving, Arrived, Settling, Settled, Closing, Over,
                Linked, NoConnectionLost
  <2>2. NoRequestAbandoned
    BY <1>1, StageOfThread DEF NoRequestAbandoned, Closing, Linked
  <2>3. QED
    BY <1>1, <2>1, <2>2 DEF TalkInv, NoFault, NothingLost
<1>2. QED
  BY <1>1, Talks, PTL

\* rtsp_wait reports 200 only when the command it waited for has been carried out, but
\* for a play of what plays already.
THEOREM ReportsTheTruth ==
  ASSUME Alone
  PROVE  Spec => AnswersTheCommand
<1> DEFINE A == \A t \in Users : Answers(t) =>
                  /\ app[t].cmd \in {"open", "pause", "seek"} => status = "READY"
                  /\ app[t].cmd = "play" => status = "PLAYING" \/ ("replay" \in Events /\ status = "INIT")
                  /\ app[t].cmd = "close" => status = "INIT"
<1>1. ASSUME Alone, TypeOK, TalkInv, [Next]_vars PROVE A
  <2>1. SUFFICES ASSUME NEW t \in Users, Answers(t)
                 PROVE  /\ app[t].cmd \in {"open", "pause", "seek"} => status = "READY"
                        /\ app[t].cmd = "play" => status = "PLAYING" \/ ("replay" \in Events /\ status = "INIT")
                        /\ app[t].cmd = "close" => status = "INIT"
    OBVIOUS
  <2>2. t = Me /\ Place = "answered" /\ Place' # "answered" /\ app'[t].got = 200
    BY <1>1, <2>1, AloneThreads DEF Answers, Place
  <2>3. ~UNCHANGED vars
    BY <2>2 DEF vars, Place
  <2>4. app' # app
    BY <2>2 DEF Place
  <2>5. ASSUME NEW u \in Threads, Command(u) \/ Wait(u) \/ Uninit(u) PROVE Return(u)
    <3>1. app[u].pc = "answered"
      BY <1>1, <2>2, <2>5, AloneThreads DEF Place
    <3>2. QED
      BY <1>1, <2>5, <3>1, AloneThreads
         DEF Command, Wait, Uninit, Refuse, Accept, May, Connect, Refused, Point, Send, SendLost,
             Sleep, Signalled, Unlocked
  <2>6. ~RtspThread /\ \A c \in Conns : ~Server(c)
    BY <2>4, OthersKeepApp
  <2>7. Return(Me)
    BY <1>1, <2>3, <2>5, <2>6, AloneThreads DEF Next
  <2>8. response_id = 200
    <3>1. app' = [app EXCEPT ![Me] = [cmd |-> app[Me].cmd, got |-> response_id,
             pc |-> IF app[Me].cmd = "seek" /\ response_id = 200 THEN "resume" ELSE "idle"]]
      BY <2>7 DEF Return
    <3>2. app'[Me].got = response_id
      BY <1>1, <3>1, AloneThreads, TypeParts DEF Types, AppType
    <3>3. QED
      BY <2>2, <3>2
  <2>9. Settled \/ Over
    BY <1>1, <2>2, StageOfPlace
  <2>10. CASE Settled
    <3>1. Reported
      BY <2>2, <2>10 DEF Settled
    <3>2. Cmd = app[t].cmd
      BY <2>2 DEF Cmd
    <3>3. QED
      BY <2>8, <3>1, <3>2 DEF Reported
  <2>11. CASE Over
    <3>1. status = "INIT" /\ (Cmd = "close" \/ (Cmd = "play" /\ "replay" \in Events))
      BY <2>8, <2>11 DEF Over, Unmet
    <3>2. Cmd = app[t].cmd
      BY <2>2 DEF Cmd
    <3>3. QED
      BY <3>1, <3>2
  <2>12. QED
    BY <2>9, <2>10, <2>11
<1>2. Spec => [][A]_vars
  BY <1>1, Talks, TypeCorrect, PTL DEF Spec
<1>3. QED
  BY <1>2 DEF AnswersTheCommand
-----------------------------------------------------------------------------
(***************************************************************************)
(* One connection, and no server that redirects: what is left when the     *)
(* RTSP thread ends, whoever calls, whatever fails and wherever it is      *)
(* cancelled.                                                              *)
(***************************************************************************)
OneConnection == MaxOpens <= 1 /\ "redirect" \notin Events

Joining == \E t \in Threads : app[t].pc = "joining"
Late    == {"wipe", "release", "forget", "dead"}
InReply == {"reinit", "select", "handle", "uninit", "unbusy"}

\* The RTP thread is started, or about to be, on sessions that are in the queue.
RunsOnSessions == rtp_th = "running" \/ wait_for.res = "SETUP" => rtsp_queue # "none"

\* What rtsp_reinit has undone, by the stretch it is in.
Emptied ==
  /\ rtsp.pc \in {"buffers", "close"} => rtp_th # "running"
  /\ rtsp.pc \in Late => fds = {} /\ status = "INIT" /\ rtp_th # "running"
  /\ rtsp.pc \in {"release", "forget", "dead"} => rtsp_queue = "none"

\* Until the connection is made the RTSP thread has nothing to read, and leaves
\* its main loop only when it is cancelled.
Unopened ==
  opened = 0 => /\ fd = 0 /\ fds = {} /\ status = "INIT" /\ in_buffer = <<>>
                /\ rtsp.pc = "select" \/ Joining

\* Only one thread makes the connection, and none while another is in rtsp_uninit.
OneConnects ==
  /\ Joining => \A t \in Threads : app[t].pc \in {"idle", "joining"}
  /\ \A t \in Threads : app[t].pc = "connect" => opened = 0
  /\ opened = 0 => \A t \in Threads : InCommand(t) => comm_mutex = t

\* No reply redirects.
Told    == [cseq : Nat, code : {200, BadSdp, 404}]
Replied == in_buffer \in Seq(Told) /\ \A c \in Conns : wire[c].rep \in Seq(Told)

LeftInv ==
  /\ fds \subseteq {fd} /\ rtsp.pc # "redirect"
  /\ RunsOnSessions /\ Emptied /\ Unopened /\ OneConnects /\ Replied

\* Writing a request touches no reply.
LEMMA WriteReplies ==
  ASSUME NEW w \in WireType, NEW c, NEW r, NEW d \in Conns
  PROVE  Write(w, c, r)[d].rep = w[d].rep
<1>1. CASE c # 0 /\ w[c].end = "up"
  <2>1. w[d] \in Link
    BY DEF WireType
  <2>2. CASE c = d
    <3>1. Write(w, c, r)[d] = [w[d] EXCEPT !.req = Append(w[d].req, r)]
      BY <1>1, <2>2 DEF Write, WireType
    <3>2. QED
      BY <2>1, <3>1 DEF Link
  <2>3. CASE c # d
    BY <1>1, <2>3 DEF Write, WireType
  <2>4. QED
    BY <2>2, <2>3
<1>2. CASE ~(c # 0 /\ w[c].end = "up")
  BY <1>2 DEF Write
<1>3. QED
  BY <1>1, <1>2

\* Taking replies from one connection touches those of no other.
LEMMA TakeReplies ==
  ASSUME NEW w \in WireType, NEW c, NEW q, NEW d \in Conns
  PROVE  [w EXCEPT ![c].rep = q][d].rep = IF c = d THEN q ELSE w[d].rep
<1>1. w[d] \in Link
  BY DEF WireType
<1>2. CASE c = d
  <2>1. [w EXCEPT ![c].rep = q][d] = [w[d] EXCEPT !.rep = q]
    BY <1>2 DEF WireType
  <2>2. QED
    BY <1>1, <1>2, <2>1 DEF Link
<1>3. CASE c # d
  BY <1>3 DEF WireType
<1>4. QED
  BY <1>2, <1>3

\* A step that writes at most a request, and drops at most a handled reply,
\* keeps every reply known.
LEMMA RepliedKept ==
  ASSUME TypeOK, Replied, \E c, r : wire' \in {wire, Write(wire, c, r)},
         in_buffer' \in {in_buffer, <<>>} \/ (in_buffer # <<>> /\ in_buffer' = Tail(in_buffer))
  PROVE  Replied'
<1>0. wire \in WireType
  BY TypeParts DEF Types
<1>1. in_buffer' \in Seq(Told)
  <2>1. in_buffer # <<>> => Tail(in_buffer) \in Seq(Told)
    BY HeadTailProperties DEF Replied
  <2>2. in_buffer \in Seq(Told) /\ <<>> \in Seq(Told)
    BY DEF Replied
  <2>3. QED
    BY <2>1, <2>2
<1>2. ASSUME NEW d \in Conns PROVE wire'[d].rep = wire[d].rep
  BY <1>0, WriteReplies
<1>3. QED
  BY <1>1, <1>2 DEF Replied

LEMMA RecvReplied ==
  ASSUME TypeOK, Replied, Recv
  PROVE  Replied'
<1>0. wire \in WireType /\ fd \in Conns \cup {0}
  BY TypeParts DEF Types
<1>1. PICK n \in 1 .. Len(Replies) :
        /\ in_buffer' = in_buffer \o SubSeq(Replies, 1, n)
        /\ wire' = [wire EXCEPT ![fd].rep = SubSeq(Replies, n + 1, Len(Replies))]
  BY DEF Recv
<1>2. fd \in Conns /\ Replies \in Seq(Told)
  BY <1>0, <1>1 DEF Replies, Replied
<1>3. /\ SubSeq(Replies, 1, n) \in Seq(Told)
      /\ SubSeq(Replies, n + 1, Len(Replies)) \in Seq(Told)
  BY <1>1, <1>2, SubSeqProperties
<1>4. in_buffer' \in Seq(Told)
  BY <1>1, <1>3, ConcatProperties DEF Replied
<1>5. \A d \in Conns : wire'[d].rep \in Seq(Told)
  BY <1>0, <1>1, <1>3, TakeReplies DEF Replied
<1>6. QED
  BY <1>4, <1>5 DEF Replied

LEMMA LastReplied ==
  ASSUME TypeOK, Replied, LastReply
  PROVE  Replied'
<1>0. wire \in WireType /\ fd \in Conns \cup {0}
  BY TypeParts DEF Types
<1>1. /\ fd \in Conns /\ wire[fd].rep # <<>>
      /\ in_buffer' = Append(in_buffer, Head(wire[fd].rep))
      /\ wire' = [wire EXCEPT ![fd].rep = Tail(wire[fd].rep)]
  BY <1>0 DEF LastReply
<1>2. Head(wire[fd].rep) \in Told /\ Tail(wire[fd].rep) \in Seq(Told)
  BY <1>1, HeadTailProperties DEF Replied
<1>3. in_buffer' \in Seq(Told)
  BY <1>1, <1>2, AppendProperties DEF Replied
<1>4. \A d \in Conns : wire'[d].rep \in Seq(Told)
  BY <1>0, <1>1, <1>2, TakeReplies DEF Replied
<1>5. QED
  BY <1>3, <1>4 DEF Replied

\* The server redirects no one.
LEMMA ServerReplied ==
  ASSUME OneConnection, TypeOK, Replied, NEW c \in Conns, Server(c)
  PROVE  Replied'
<1>0. wire \in WireType
  BY TypeParts DEF Types
<1>1. ASSUME NEW code \in {200, BadSdp, 302, 404}, Answer(c, code) PROVE Replied'
  <2>1. wire[c].req \in Seq(Wanted) /\ wire[c].req # <<>> /\ wire[c].rep \in Seq(Told)
    BY <1>0, <1>1 DEF Answer, WireType, Link, Replied
  <2>2. PICK r : r = Head(wire[c].req)
    OBVIOUS
  <2>3. r \in Wanted
    BY <2>1, <2>2, HeadTailProperties
  <2>4. code \in Codes(r.kind)
    BY <1>1, <2>2 DEF Answer
  <2>5. code \in {200, BadSdp, 404}
    BY <2>4 DEF Codes, OneConnection
  <2>6. Append(wire[c].rep, [cseq |-> r.cseq, code |-> code]) \in Seq(Told)
    <3>1. r.cseq \in Nat
      BY <2>3 DEF Wanted
    <3>2. [cseq |-> r.cseq, code |-> code] \in Told
      BY <2>5, <3>1 DEF Told
    <3>3. QED
      BY <2>1, <3>2, AppendProperties
  <2>7. wire' = [wire EXCEPT ![c] = [req |-> Tail(wire[c].req), end |-> "up",
                  rep |-> Append(wire[c].rep, [cseq |-> r.cseq, code |-> code])]]
    BY <1>1, <2>2 DEF Answer
  <2>8. \A d \in Conns : wire'[d].rep \in Seq(Told)
    BY <1>0, <2>6, <2>7 DEF WireType, Replied
  <2>9. in_buffer' = in_buffer
    BY <1>1 DEF Answer
  <2>10. QED
    BY <2>8, <2>9 DEF Replied
<1>2. ASSUME NEW end, Hangup(c, end) PROVE Replied'
  <2>1. wire' = [wire EXCEPT ![c] = [req |-> <<>>, rep |-> wire[c].rep, end |-> end]]
    BY <1>2 DEF Hangup
  <2>2. \A d \in Conns : wire'[d].rep = wire[d].rep
    BY <1>0, <2>1 DEF WireType
  <2>3. in_buffer' = in_buffer
    BY <1>2 DEF Hangup
  <2>4. QED
    BY <2>2, <2>3 DEF Replied
<1>3. QED
  BY <1>1, <1>2 DEF Server

\* A step of a command keeps the mutex with the thread inside.
LEMMA CommandMutex ==
  ASSUME TypeOK, \A u \in Threads : InCommand(u) => comm_mutex = u,
         NEW t \in Threads, Command(t) \/ Wait(t)
  PROVE  /\ \A u \in Threads : InCommand(u)' => comm_mutex' = u
         /\ UNCHANGED rtsp
<1>0. /\ \A u \in Threads : InCommand(u) => comm_mutex = u
      /\ app \in AppType /\ Free \notin Threads
  BY TypeParts, ControlAssumption DEF Types, ControlAssumption, Free, Threads
<1>a. UNCHANGED rtsp
  BY AppKeeps
<1>1. ASSUME NEW pc, Goes(t, pc) PROVE app'[t].pc = pc /\ \A u \in Threads : u # t => app'[u] = app[u]
  BY <1>0, <1>1 DEF Goes, AppType, Caller
<1>2. ASSUME NEW cmd, Refuse(t, cmd) PROVE \A u \in Threads : InCommand(u)' => comm_mutex' = u
  BY <1>0, <1>1, <1>2 DEF Refuse, InCommand, mutex
<1>3. ASSUME NEW cmd, Accept(t, cmd) PROVE \A u \in Threads : InCommand(u)' => comm_mutex' = u
  <2>1. comm_mutex = Free /\ comm_mutex' = t
    BY <1>3 DEF Accept, May
  <2>2. \A u \in Threads : u # t => app'[u] = app[u]
    BY <1>0, <1>3 DEF Accept, AppType
  <2>3. QED
    BY <1>0, <2>1, <2>2 DEF InCommand
<1>4. CASE Connect(t) \/ Refused(t) \/ Send(t) \/ SendLost(t)
  <2>1. InCommand(t)
    BY <1>4 DEF Connect, Refused, Send, SendLost, InCommand
  <2>2. \E pc \in {"wait", "idle"} : Goes(t, pc)
    BY <1>4 DEF Connect, Refused, Send, SendLost, Sent, Failed
  <2>3. \A u \in Threads : InCommand(u) => u = t
    BY <1>0, <2>1
  <2>4. app'[t].pc \in {"wait", "idle"} /\ \A u \in Threads : u # t => app'[u] = app[u]
    BY <1>1, <2>2
  <2>5. \A u \in Threads : ~InCommand(u)'
    <3>1. ~InCommand(t)'
      BY <2>4 DEF InCommand
    <3>2. ASSUME NEW u \in Threads, u # t PROVE ~InCommand(u)'
      <4>1. app'[u] = app[u] /\ ~InCommand(u)
        BY <2>3, <2>4, <3>2
      <4>2. QED
        BY <4>1 DEF InCommand
    <3>3. QED
      BY <3>1, <3>2
  <2>6. QED
    BY <1>a, <2>5
<1>5. CASE Point(t)
  BY <1>0, <1>1, <1>5 DEF Point, InCommand, mutex
<1>6. CASE Sleep(t) \/ Signalled(t) \/ Unlocked(t)
  BY <1>0, <1>1, <1>6 DEF Sleep, Signalled, Unlocked, InCommand, mutex
<1>7. CASE Return(t)
  <2>1. /\ app'[t].pc \in {"resume", "idle"} /\ \A u \in Threads : u # t => app'[u] = app[u]
        /\ UNCHANGED comm_mutex
    BY <1>0, <1>7 DEF Return, AppType, Caller, mutex
  <2>2. \A u \in Threads : InCommand(u)' => InCommand(u)
    <3>1. ~InCommand(t)'
      BY <2>1 DEF InCommand
    <3>2. ASSUME NEW u \in Threads, u # t, InCommand(u)' PROVE InCommand(u)
      <4>1. app'[u] = app[u]
        BY <2>1, <3>2
      <4>2. QED
        BY <3>2, <4>1 DEF InCommand
    <3>3. QED
      BY <3>1, <3>2
  <2>3. QED
    BY <1>0, <1>a, <2>1, <2>2
<1>9. QED
  BY <1>2, <1>3, <1>4, <1>5, <1>6, <1>7, <1>a DEF Command, Wait

\* What a command or a wait leaves as it was, and the one step that connects.
LEMMA AppLeaves ==
  ASSUME TypeOK, NEW t \in Threads, Command(t) \/ Wait(t)
  PROVE  /\ UNCHANGED <<status, rtsp_queue, rtp_th, rtsp, in_buffer>>
         /\ wait_for'.res = "SETUP" => wait_for.res = "SETUP"
         /\ \E c, r : wire' \in {wire, Write(wire, c, r)}
         /\ \/ UNCHANGED <<opened, fd, fds>>
            \/ app[t].pc = "connect" /\ fd' = 0 /\ UNCHANGED <<opened, fds>>
            \/ /\ Connect(t) /\ opened < MaxOpens
               /\ opened' = opened + 1 /\ fd' = opened + 1 /\ fds' = fds \cup {opened + 1}
<1> USE DEF peer
<1>0. UNCHANGED <<status, rtsp_queue, rtp_th, rtsp>> /\ (wait_for'.res = "SETUP" => wait_for.res = "SETUP")
  BY AppKeeps
<1>1. CASE Connect(t)
  <2>1. \E c, r : wire' \in {wire, Write(wire, c, r)}
    BY <1>1 DEF Connect, Describe
  <2>2. QED
    BY <1>0, <1>1, <2>1 DEF Connect, Describe
<1>2. CASE Refused(t)
  BY <1>0, <1>2 DEF Refused
<1>3. CASE Send(t)
  <2>1. \E c, r : wire' \in {wire, Write(wire, c, r)}
    BY <1>3 DEF Send, Request
  <2>2. QED
    BY <1>0, <1>3, <2>1 DEF Send
<1>4. ASSUME NEW cmd, Refuse(t, cmd) \/ Accept(t, cmd)
      PROVE  UNCHANGED <<opened, fd, fds, wire, in_buffer>>
  BY <1>4 DEF Refuse, Accept
<1>5. CASE Point(t) \/ SendLost(t) \/ Wait(t)
  <2>1. UNCHANGED <<opened, fd, fds, wire, in_buffer>>
    BY <1>5 DEF Point, SendLost, Wait, Sleep, Signalled, Unlocked, Return
  <2>2. QED
    BY <1>0, <2>1
<1>6. QED
  BY <1>0, <1>1, <1>2, <1>3, <1>4, <1>5 DEF Command

\* Where a thread is after its own step; the others stay where they were.
LEMMA AppPlaces ==
  ASSUME TypeOK, NEW t \in Threads, Command(t) \/ Wait(t)
  PROVE  /\ \A u \in Threads : u # t => app'[u] = app[u]
         /\ app'[t].pc # "joining"
         /\ app'[t].pc = "connect" => opened < MaxOpens /\ UNCHANGED opened
         /\ app[t].pc \in {"idle", "resume"} => \A u \in Threads : app[u].pc # "joining"
         /\ app[t].pc # "joining"
<1>0. app \in AppType
  BY TypeParts DEF Types
<1>1. ASSUME NEW pc, Goes(t, pc) PROVE app'[t].pc = pc /\ \A u \in Threads : u # t => app'[u] = app[u]
  BY <1>0, <1>1 DEF Goes, AppType, Caller
<1>2. ASSUME NEW cmd, Refuse(t, cmd)
      PROVE  /\ app[t].pc \in {"idle", "resume"} /\ app'[t].pc = "idle"
             /\ \A u \in Threads : u # t => app'[u] = app[u]
             /\ \A u \in Threads : app[u].pc # "joining"
  BY <1>1, <1>2 DEF Refuse, May
<1>3. ASSUME NEW cmd, Accept(t, cmd)
      PROVE  /\ app[t].pc \in {"idle", "resume"} /\ app'[t].pc \in {"connect", "locked"}
             /\ app'[t].pc = "connect" => opened < MaxOpens /\ UNCHANGED opened
             /\ \A u \in Threads : u # t => app'[u] = app[u]
             /\ \A u \in Threads : app[u].pc # "joining"
  <2>1. app'[t].pc = IF cmd = "open" THEN "connect" ELSE "locked"
    BY <1>0, <1>3 DEF Accept, AppType, Caller
  <2>2. \A u \in Threads : u # t => app'[u] = app[u]
    BY <1>0, <1>3 DEF Accept, AppType
  <2>3. app[t].pc \in {"idle", "resume"} /\ \A u \in Threads : app[u].pc # "joining"
    BY <1>3 DEF Accept, May
  <2>4. (cmd = "open" => opened < MaxOpens) /\ UNCHANGED opened
    BY <1>3 DEF Accept, peer
  <2>5. QED
    BY <2>1, <2>2, <2>3, <2>4
<1>4. CASE Connect(t) \/ Refused(t) \/ Send(t) \/ SendLost(t)
  <2>1. \E pc \in {"wait", "idle"} : Goes(t, pc)
    BY <1>4 DEF Connect, Refused, Send, SendLost, Sent, Failed
  <2>2. app[t].pc \in {"connect", "pointed"}
    BY <1>4 DEF Connect, Refused, Send, SendLost
  <2>3. QED
    BY <1>1, <2>1, <2>2
<1>5. CASE Point(t)
  BY <1>1, <1>5 DEF Point
<1>6. CASE Sleep(t) \/ Signalled(t) \/ Unlocked(t)
  BY <1>1, <1>6 DEF Sleep, Signalled, Unlocked
<1>7. CASE Return(t)
  <2>1. /\ app'[t].pc \in {"resume", "idle"} /\ \A u \in Threads : u # t => app'[u] = app[u]
    BY <1>0, <1>7 DEF Return, AppType, Caller
  <2>2. app[t].pc = "answered"
    BY <1>7 DEF Return
  <2>3. QED
    BY <2>1, <2>2
<1>8. QED
  BY <1>2, <1>3, <1>4, <1>5, <1>6, <1>7 DEF Command, Wait

\* The application's steps keep the invariant: the thread that connects is the
\* only one, and no one has connected before.
LEMMA AppLeft ==
  ASSUME OneConnection, TypeOK, LeftInv, NEW t \in Threads, Command(t) \/ Wait(t)
  PROVE  LeftInv'
<1> USE DEF LeftInv
<1>0. opened \in Nat /\ opened <= MaxOpens /\ MaxOpens \in Nat /\ MaxOpens <= 1
  BY ControlAssumption DEF ControlAssumption, TypeOK, OneConnection
<1>1. ~Joining
  BY AppPlaces DEF OneConnects, Joining
<1>2. ~Joining'
  <2>1. \A u \in Threads : app'[u].pc # "joining"
    BY <1>1, AppPlaces DEF Joining
  <2>2. QED
    BY <2>1 DEF Joining
<1>3. /\ UNCHANGED <<status, rtsp_queue, rtp_th, rtsp, in_buffer>>
      /\ wait_for'.res = "SETUP" => wait_for.res = "SETUP"
      /\ \E c, r : wire' \in {wire, Write(wire, c, r)}
  BY AppLeaves
<1>4. RunsOnSessions'
  BY <1>3 DEF RunsOnSessions
<1>5. Replied'
  BY <1>3, RepliedKept
<1>6. CASE UNCHANGED <<opened, fd, fds>>
  <2>1. \A u \in Threads : app'[u].pc = "connect" => opened = 0
    BY <1>0, AppPlaces DEF OneConnects
  <2>2. opened = 0 => \A u \in Threads : InCommand(u)' => comm_mutex' = u
    BY CommandMutex DEF OneConnects
  <2>3. OneConnects'
    BY <1>2, <1>6, <2>1, <2>2 DEF OneConnects
  <2>4. Unopened'
    BY <1>1, <1>3, <1>6 DEF Unopened
  <2>5. QED
    BY <1>3, <1>4, <1>5, <1>6, <2>3, <2>4 DEF Emptied
<1>7. CASE app[t].pc = "connect" /\ fd' = 0 /\ UNCHANGED <<opened, fds>>
  <2>1. opened = 0 /\ fds = {} /\ rtsp.pc = "select"
    BY <1>1, <1>7 DEF OneConnects, Unopened
  <2>2. \A u \in Threads : InCommand(u)' => comm_mutex' = u
    BY <2>1, CommandMutex DEF OneConnects
  <2>3. OneConnects'
    BY <1>2, <1>7, <2>1, <2>2 DEF OneConnects
  <2>4. Unopened'
    BY <1>1, <1>3, <1>7, <2>1 DEF Unopened
  <2>5. QED
    BY <1>3, <1>4, <1>5, <1>7, <2>1, <2>3, <2>4 DEF Emptied
<1>8. CASE /\ Connect(t) /\ opened < MaxOpens
           /\ opened' = opened + 1 /\ fd' = opened + 1 /\ fds' = fds \cup {opened + 1}
  <2>1. app[t].pc = "connect"
    BY <1>8 DEF Connect
  <2>2. opened = 0 /\ fds = {} /\ rtsp.pc = "select"
    BY <1>1, <2>1 DEF OneConnects, Unopened
  <2>3. \A u \in Threads : app'[u].pc # "connect"
    <3>1. app'[t].pc # "connect"
      BY <1>0, <1>8, AppPlaces
    <3>2. \A u \in Threads : app[u].pc = "connect" => u = t
      BY <2>1, <2>2 DEF OneConnects, InCommand
    <3>3. QED
      BY <3>1, <3>2, AppPlaces
  <2>4. opened' = 1 /\ fd' = 1 /\ fds' = {1}
    BY <1>8, <2>2
  <2>5. OneConnects'
    BY <1>2, <2>3, <2>4 DEF OneConnects
  <2>6. Unopened'
    BY <2>4 DEF Unopened
  <2>7. QED
    BY <1>3, <1>4, <1>5, <2>2, <2>4, <2>5, <2>6 DEF Emptied, Late
<1>9. QED
  BY <1>6, <1>7, <1>8, AppLeaves

LEMMA UninitLeft ==
  ASSUME OneConnection, TypeOK, LeftInv, NEW t \in Threads, Uninit(t)
  PROVE  LeftInv'
<1> USE DEF LeftInv, control, session, mutex, peer
<1>0. app \in AppType /\ rtsp \in RtspType
  BY TypeParts DEF Types
<1>1. /\ UNCHANGED <<status, wait_for, rtsp_queue, rtp_th, opened, fds, fd, wire, in_buffer>>
      /\ rtsp'.pc = "clean"
  BY <1>0 DEF Uninit, RtspType
<1>2. /\ \A u \in Threads : u # t => app'[u].pc = "idle"
      /\ app'[t].pc = "joining"
  BY <1>0 DEF Uninit, Goes, AppType, Caller
<1>3. OneConnects'
  BY <1>2 DEF OneConnects, InCommand
<1>4. Joining'
  BY <1>2 DEF Joining
<1>5. Unopened'
  BY <1>1, <1>4 DEF Unopened
<1>6. RunsOnSessions' /\ Emptied'
  BY <1>1 DEF RunsOnSessions, Emptied, Late
<1>7. Replied'
  BY <1>1 DEF Replied
<1>8. QED
  BY <1>1, <1>3, <1>5, <1>6, <1>7

\* The handling of a reply goes on to another stretch of the handling, or to
\* rtsp_reinit; it touches no connection and no thread.
LEMMA ReplyLeaves ==
  ASSUME TypeOK, LeftInv, StateMachine
  PROVE  /\ UNCHANGED <<app, opened, fd, fds, comm_mutex>>
         /\ rtsp'.pc \in InReply
         /\ \/ rtsp.pc = "handle" /\ in_buffer # <<>>
            \/ rtsp.pc \in {"uninit", "unbusy"} /\ UNCHANGED <<status, in_buffer>>
         /\ RunsOnSessions'
         /\ \E c, r : wire' \in {wire, Write(wire, c, r)}
         /\ in_buffer' \in {in_buffer, <<>>} \/ (in_buffer # <<>> /\ in_buffer' = Tail(in_buffer))
<1> DEFINE Goal ==
      /\ UNCHANGED <<app, opened, fd, fds, comm_mutex>>
      /\ rtsp'.pc \in InReply
      /\ \/ rtsp.pc = "handle" /\ in_buffer # <<>>
         \/ rtsp.pc \in {"uninit", "unbusy"} /\ UNCHANGED <<status, in_buffer>>
      /\ RunsOnSessions'
      /\ \E c, r : wire' \in {wire, Write(wire, c, r)}
      /\ in_buffer' \in {in_buffer, <<>>} \/ (in_buffer # <<>> /\ in_buffer' = Tail(in_buffer))
<1> SUFFICES Goal
  OBVIOUS
<1>0. rtsp.pc # "redirect" /\ RunsOnSessions
  BY DEF LeftInv
<1> USE DEF control, session, mutex, peer, RunsOnSessions, InReply
<1>1. CASE Reject
  BY <1>0, <1>1, StepPc DEF Reject, Handling
<1>2. CASE Unsuccessful
  <2>1. PICK kind : Checked(kind)
    BY <1>2 DEF Unsuccessful
  <2>2. rtsp.pc = "handle" /\ in_buffer # <<>>
    BY <2>1 DEF Checked, Expects, Handling
  <2>3. Head(in_buffer).code # 302
    <3>1. Head(in_buffer) \in Told
      BY <2>2, HeadTailProperties DEF LeftInv, Replied
    <3>2. QED
      BY <3>1 DEF Told, BadSdp
  <2>4. rtsp'.pc = "reinit"
    BY <1>2, <2>3, StepPc DEF Unsuccessful
  <2>5. /\ in_buffer' = Tail(in_buffer)
        /\ UNCHANGED <<wait_for, rtsp_queue, rtp_th, comm_mutex, opened, fds, wire, fd, app>>
    BY <1>2 DEF Unsuccessful
  <2>6. QED
    BY <1>0, <2>2, <2>4, <2>5
<1>3. CASE Redirect
  BY <1>0, <1>3 DEF Redirect
<1>4. CASE Described
  <2>1. /\ rtsp.pc = "handle" /\ in_buffer # <<>> /\ in_buffer' = Tail(in_buffer)
    BY <1>4 DEF Described, Success, Checked, Expects, Handling
  <2>2. rtsp'.pc \in InReply /\ rtsp_queue' = "live"
    BY <1>4, StepPc DEF Described
  <2>3. \E c, r : wire' \in {wire, Write(wire, c, r)}
    BY <1>4 DEF Described
  <2>4. UNCHANGED <<app, opened, fd, fds, comm_mutex>>
    BY <1>4 DEF Described
  <2>5. QED
    BY <2>1, <2>2, <2>3, <2>4
<1>5. CASE BadDescription
  <2>1. /\ rtsp.pc = "handle" /\ in_buffer # <<>> /\ rtsp'.pc = "reinit"
    BY <1>5, StepPc DEF BadDescription, Checked, Expects, Handling
  <2>2. rtsp_queue' = "live" /\ UNCHANGED <<in_buffer, wire, app, opened, fd, fds, comm_mutex>>
    BY <1>5 DEF BadDescription
  <2>3. QED
    BY <2>1, <2>2
<1>6. CASE SetUpNext
  <2>1. /\ rtsp.pc = "handle" /\ in_buffer # <<>> /\ in_buffer' = Tail(in_buffer)
        /\ wait_for.res = "SETUP"
    BY <1>6 DEF SetUpNext, Success, Checked, Expects, Handling
  <2>2. rtsp'.pc \in InReply /\ UNCHANGED rtsp_queue
    BY <1>6, StepPc DEF SetUpNext
  <2>3. \E c, r : wire' \in {wire, Write(wire, c, r)}
    BY <1>6 DEF SetUpNext, Request
  <2>4. UNCHANGED <<app, opened, fd, fds, comm_mutex>>
    BY <1>6 DEF SetUpNext
  <2>5. QED
    BY <1>0, <2>1, <2>2, <2>3, <2>4
<1>7. CASE SetUpDone
  <2>1. /\ rtsp.pc = "handle" /\ in_buffer # <<>> /\ in_buffer' = Tail(in_buffer)
        /\ wait_for.res = "SETUP"
    BY <1>7 DEF SetUpDone, Success, Checked, Expects, Handling
  <2>2. rtsp'.pc = "uninit" /\ UNCHANGED <<rtsp_queue, wire, app, opened, fd, fds, comm_mutex>>
    BY <1>7, StepPc DEF SetUpDone
  <2>3. QED
    BY <1>0, <2>1, <2>2
<1>8. ASSUME NEW kind \in {"PLAY", "PAUSE"}, NextSession(kind) PROVE Goal
  <2>1. /\ rtsp.pc = "handle" /\ in_buffer # <<>> /\ in_buffer' = Tail(in_buffer)
    BY <1>8 DEF NextSession, Success, Checked, Expects, Handling
  <2>2. rtsp'.pc \in InReply /\ UNCHANGED <<rtsp_queue, rtp_th>> /\ wait_for'.res = kind
    BY <1>8, StepPc DEF NextSession, Request
  <2>3. \E c, r : wire' \in {wire, Write(wire, c, r)}
    BY <1>8 DEF NextSession, Request
  <2>4. UNCHANGED <<app, opened, fd, fds, comm_mutex>>
    BY <1>8 DEF NextSession
  <2>5. QED
    BY <1>0, <2>1, <2>2, <2>3, <2>4
<1>9. ASSUME NEW kind, NEW new, LastSession(kind, new) PROVE Goal
  <2>1. /\ rtsp.pc = "handle" /\ in_buffer # <<>> /\ in_buffer' = Tail(in_buffer)
    BY <1>9 DEF LastSession, Success, Checked, Expects, Handling
  <2>2. /\ rtsp'.pc = "uninit" /\ wait_for' = Nothing
        /\ UNCHANGED <<rtsp_queue, rtp_th, wire, app, opened, fd, fds, comm_mutex>>
    BY <1>9, StepPc DEF LastSession
  <2>3. QED
    BY <1>0, <2>1, <2>2 DEF Nothing
<1>10. CASE TornDown
  <2>1. /\ rtsp.pc = "handle" /\ in_buffer # <<>> /\ in_buffer' = Tail(in_buffer)
    BY <1>10 DEF TornDown, Success, Checked, Expects, Handling
  <2>2. rtsp'.pc = "reinit"
    BY <1>10 DEF TornDown, TypeOK
  <2>3. /\ wait_for' = Nothing
        /\ UNCHANGED <<rtsp_queue, rtp_th, wire, app, opened, fd, fds, comm_mutex>>
    BY <1>10 DEF TornDown
  <2>4. QED
    BY <1>0, <2>1, <2>2, <2>3 DEF Nothing
<1>11. CASE ParamAnswered
  <2>1. /\ rtsp.pc = "handle" /\ in_buffer # <<>> /\ in_buffer' = Tail(in_buffer)
    BY <1>11 DEF ParamAnswered, Expects, Handling
  <2>2. /\ rtsp'.pc \in InReply /\ wait_for' = Nothing
        /\ UNCHANGED <<rtsp_queue, rtp_th, wire, app, opened, fd, fds, comm_mutex>>
    BY <1>11, StepPc DEF ParamAnswered
  <2>3. QED
    BY <1>0, <2>1, <2>2 DEF Nothing
<1>12. CASE ClearCursor
  BY <1>0, <1>12, StepPc DEF ClearCursor
<1>13. CASE Unbusy
  <2>1. /\ rtsp.pc = "unbusy" /\ rtsp'.pc \in InReply
        /\ UNCHANGED <<status, in_buffer, wait_for, rtsp_queue, rtp_th, wire, app, opened, fd, fds,
                       comm_mutex>>
    BY <1>13, StepPc DEF Unbusy, rtsp_unbusy
  <2>2. QED
    BY <1>0, <2>1
<1>14. QED
  BY <1>1, <1>2, <1>3, <1>4, <1>5, <1>6, <1>7, <1>8, <1>9, <1>10, <1>11, <1>12, <1>13
  DEF StateMachine

LEMMA StateMachineLeft ==
  ASSUME TypeOK, LeftInv, StateMachine
  PROVE  LeftInv'
<1> USE DEF LeftInv
<1>1. UNCHANGED <<app, opened, fd, fds, comm_mutex>> /\ rtsp'.pc \in InReply
  BY ReplyLeaves
<1>2. RunsOnSessions' /\ Replied'
  BY ReplyLeaves, RepliedKept
<1>3. OneConnects' /\ (Joining' <=> Joining)
  BY <1>1 DEF OneConnects, InCommand, Joining
<1>4. Unopened'
  <2> SUFFICES ASSUME opened = 0
               PROVE  fd = 0 /\ fds = {} /\ status' = "INIT" /\ in_buffer' = <<>> /\ Joining
    BY <1>1, <1>3 DEF Unopened
  <2>1. in_buffer = <<>> /\ fd = 0 /\ fds = {} /\ status = "INIT"
    BY DEF Unopened
  <2>2. rtsp.pc \in {"uninit", "unbusy"} /\ UNCHANGED <<status, in_buffer>>
    BY <2>1, ReplyLeaves
  <2>3. QED
    BY <2>1, <2>2 DEF Unopened
<1>5. Emptied' /\ rtsp'.pc # "redirect"
  BY <1>1 DEF Emptied, InReply, Late
<1>6. QED
  BY <1>1, <1>2, <1>3, <1>4, <1>5

\* The other steps of the RTSP thread.
LEMMA MainLoopLeft ==
  ASSUME TypeOK, LeftInv, RtspThread
  PROVE  LeftInv'
<1>0. /\ fds \subseteq {fd} /\ rtsp.pc # "redirect"
      /\ RunsOnSessions /\ Emptied /\ Unopened /\ OneConnects /\ Replied
  BY DEF LeftInv
<1>a. rtsp \in RtspType /\ wire \in WireType
  BY TypeParts DEF Types
<1> USE DEF control, session, mutex, peer
<1>b. ASSUME UNCHANGED <<app, opened, comm_mutex>>
      PROVE  OneConnects' /\ (Joining' <=> Joining)
  BY <1>0, <1>b DEF OneConnects, InCommand, Joining
<1>c. ASSUME UNCHANGED <<app, opened, status, fd, fds, in_buffer>>, rtsp.pc # "select"
      PROVE  Unopened'
  <2>1. Joining' <=> Joining
    BY <1>c DEF Joining
  <2>2. QED
    BY <1>0, <1>c, <2>1 DEF Unopened
<1>d. ASSUME UNCHANGED wire, in_buffer' \in {in_buffer, <<>>} PROVE Replied'
  BY <1>0, <1>d, RepliedKept
<1>1. CASE Recv
  <2>1. /\ rtsp.pc = "select" /\ rtsp'.pc = "handle"
        /\ UNCHANGED <<status, rtsp_queue, rtp_th, wait_for, app, opened, comm_mutex, fds, fd>>
    BY <1>1, StepPc DEF Recv
  <2>2. opened # 0
    <3>1. fd # 0
      BY <1>1 DEF Recv, Replies
    <3>2. QED
      BY <1>0, <3>1 DEF Unopened
  <2>3. QED
    BY <1>0, <1>1, <1>b, <2>1, <2>2, RecvReplied DEF LeftInv, Unopened, Emptied, Late, RunsOnSessions
<1>2. CASE RecvEnd
  <2>1. /\ rtsp.pc = "select" /\ fd # 0
        /\ UNCHANGED <<status, rtsp_queue, rtp_th, wait_for, app, opened, comm_mutex, fds, fd, wire,
                       in_buffer>>
    BY <1>2 DEF RecvEnd
  <2>2. rtsp'.pc \in {"reinit", "clean"}
    <3>1. CASE Reinit
      BY <3>1, StepPc
    <3>2. CASE rtsp' = [rtsp EXCEPT !.pc = "clean", !.dying = TRUE]
      BY <3>2, <1>a DEF RtspType
    <3>3. QED
      BY <1>2, <3>1, <3>2 DEF RecvEnd
  <2>3. opened # 0
    BY <1>0, <2>1 DEF Unopened
  <2>4. QED
    BY <1>0, <1>b, <1>d, <2>1, <2>2, <2>3 DEF LeftInv, Unopened, Emptied, Late, RunsOnSessions
<1>3. CASE StateMachine
  BY <1>3, StateMachineLeft
<1>4. CASE FreeSessions
  <2>1. /\ rtsp.pc = "reinit" /\ rtsp'.pc = "buffers"
        /\ UNCHANGED <<status, wait_for, app, opened, comm_mutex, fds, fd, wire, in_buffer>>
    BY <1>4, StepPc DEF FreeSessions
  <2>2. rtp_th' # "running" /\ (rtsp_queue # "none" => rtsp_queue' # "none")
    BY <1>0, <1>4 DEF FreeSessions, RunsOnSessions
  <2>3. QED
    BY <1>0, <1>b, <1>c, <1>d, <2>1, <2>2 DEF LeftInv, Emptied, Late, RunsOnSessions
<1>e. CASE FreeBuffers
  <2>1. /\ rtsp.pc = "buffers" /\ rtsp'.pc = "close"
        /\ UNCHANGED <<status, rtsp_queue, rtp_th, wait_for, app, opened, comm_mutex, fd, fds, wire,
                       in_buffer>>
    BY <1>a, <1>e DEF FreeBuffers, RtspType
  <2>2. QED
    BY <1>0, <1>b, <1>c, <1>d, <2>1 DEF LeftInv, Emptied, Late, RunsOnSessions
<1>5. CASE CloseConnection
  <2>1. /\ rtsp.pc = "close" /\ rtsp'.pc = "wipe" /\ status' = "INIT"
        /\ fds' = fds \ {fd} /\ fd' = 0
        /\ UNCHANGED <<wait_for, app, opened, comm_mutex, rtsp_queue, rtp_th, wire, in_buffer>>
    BY <1>5, StepPc DEF CloseConnection
  <2>2. fds' = {}
    BY <1>0, <2>1
  <2>3. Unopened'
    BY <1>0, <1>b, <2>1, <2>2 DEF Unopened
  <2>4. QED
    BY <1>0, <1>b, <1>d, <2>1, <2>2, <2>3 DEF LeftInv, Emptied, Late, RunsOnSessions
<1>6. CASE Wipe
  <2>1. /\ rtsp.pc = "wipe" /\ rtsp'.pc = "release" /\ wait_for'.res = "none"
        /\ in_buffer' = <<>> /\ rtsp_queue' = "none"
        /\ UNCHANGED <<status, app, opened, comm_mutex, rtp_th, fd, fds, wire>>
    BY <1>6, <1>a DEF Wipe, Nothing, RtspType
  <2>2. Unopened'
    BY <1>0, <1>b, <2>1 DEF Unopened
  <2>3. QED
    BY <1>0, <1>b, <1>d, <2>1, <2>2 DEF LeftInv, Emptied, Late, RunsOnSessions
<1>7. CASE Release
  <2>1. /\ rtsp.pc = "release" /\ rtsp'.pc = "forget"
        /\ UNCHANGED <<status, rtsp_queue, rtp_th, wait_for, app, opened, comm_mutex, fd, fds, wire,
                       in_buffer>>
    BY <1>7, StepPc DEF Release, rtsp_unbusy
  <2>2. QED
    BY <1>0, <1>b, <1>c, <1>d, <2>1 DEF LeftInv, Emptied, Late, RunsOnSessions
<1>8. CASE Forget \/ Restore
  <2>1. /\ rtsp.pc \in {"forget", "restore"}
        /\ rtsp'.pc \in {"restore", "select", "uninit"} \/ (rtsp.pc = "forget" /\ rtsp'.pc = "dead")
        /\ UNCHANGED <<status, rtsp_queue, rtp_th, wait_for, app, opened, comm_mutex, fd, fds, wire,
                       in_buffer>>
    <3>1. rtsp.ret \in {"select", "closed", "dead"}
      BY <1>a DEF RtspType
    <3>2. QED
      BY <1>8, <3>1, StepPc DEF Forget, Restore
  <2>2. QED
    BY <1>0, <1>b, <1>c, <1>d, <2>1 DEF LeftInv, Emptied, Late, RunsOnSessions
<1>9. CASE Clean
  <2>1. /\ rtsp.pc = "clean" /\ rtsp'.pc \in {"lastrecv", "reinit"}
        /\ UNCHANGED <<status, rtsp_queue, rtp_th, wait_for, app, opened, fd, fds, wire, in_buffer>>
    BY <1>9, StepPc DEF Clean
  <2>2. OneConnects'
    <3>1. opened = 0 => \A t \in Threads : app[t].pc \in {"idle", "joining"}
      BY <1>0, <2>1 DEF OneConnects, Unopened
    <3>2. QED
      BY <1>0, <2>1, <3>1 DEF OneConnects, InCommand, Joining
  <2>3. QED
    BY <1>0, <1>c, <1>d, <2>1, <2>2 DEF LeftInv, Emptied, Late, RunsOnSessions
<1>10. CASE LastReply
  <2>1. /\ rtsp.pc = "lastrecv" /\ rtsp'.pc = "handle" /\ fd # 0
        /\ UNCHANGED <<status, rtsp_queue, rtp_th, wait_for, app, opened, comm_mutex, fd, fds>>
    BY <1>10, StepPc DEF LastReply
  <2>2. opened # 0
    BY <1>0, <2>1 DEF Unopened
  <2>3. QED
    BY <1>0, <1>10, <1>b, <2>1, <2>2, LastReplied DEF LeftInv, Unopened, Emptied, Late, RunsOnSessions
<1>11. CASE NoLastReply
  <2>1. /\ rtsp.pc = "lastrecv" /\ rtsp'.pc = "reinit"
        /\ UNCHANGED <<status, rtsp_queue, rtp_th, wait_for, app, opened, comm_mutex, fd, fds, wire,
                       in_buffer>>
    BY <1>11, StepPc DEF NoLastReply
  <2>2. QED
    BY <1>0, <1>b, <1>c, <1>d, <2>1 DEF LeftInv, Emptied, Late, RunsOnSessions
<1>12. QED
  BY <1>1, <1>2, <1>3, <1>4, <1>e, <1>5, <1>6, <1>7, <1>8, <1>9, <1>10, <1>11 DEF RtspThread

LEMMA ServerLeft ==
  ASSUME OneConnection, TypeOK, LeftInv, NEW c \in Conns, Server(c)
  PROVE  LeftInv'
<1> USE DEF control, session, mutex
<1>1. UNCHANGED <<status, rtsp_queue, rtp_th, wait_for, app, opened, comm_mutex, fd, fds, rtsp, in_buffer>>
  BY DEF Server, Answer, Hangup
<1>2. Replied'
  BY ServerReplied DEF LeftInv
<1>3. QED
  BY <1>1, <1>2 DEF LeftInv, RunsOnSessions, Emptied, Unopened, OneConnects, InCommand, Joining

\* Whoever gives commands, whatever the server refuses or breaks and wherever
\* rtsp_uninit cancels the RTSP thread, its end leaves no connection open, no
\* session allocated and no RTP thread running, as long as one connection is
\* made and no reply redirects.
THEOREM LeavesNothing ==
  ASSUME OneConnection
  PROVE  Spec => []NothingLeft
<1>1. Init => LeftInv
  <2> SUFFICES ASSUME Init PROVE LeftInv
    OBVIOUS
  <2> USE DEF Init
  <2>1. Replied
    <3>1. in_buffer = <<>> /\ \A c \in Conns : wire[c].rep = <<>>
      OBVIOUS
    <3>2. <<>> \in Seq(Told)
      OBVIOUS
    <3>3. QED
      BY <3>1, <3>2 DEF Replied
  <2>2. RunsOnSessions /\ Emptied /\ Unopened
    BY DEF RunsOnSessions, Emptied, Unopened, Late, Nothing
  <2>3. OneConnects
    BY DEF OneConnects, InCommand
  <2>4. fds \subseteq {fd} /\ rtsp.pc # "redirect"
    OBVIOUS
  <2>5. QED
    BY <2>1, <2>2, <2>3, <2>4 DEF LeftInv
<1>2. TypeOK /\ LeftInv /\ [Next]_vars => LeftInv'
  <2> SUFFICES ASSUME TypeOK, LeftInv, [Next]_vars PROVE LeftInv'
    OBVIOUS
  <2>1. CASE UNCHANGED vars
    BY <2>1 DEF vars, control, session, mutex, peer, LeftInv, RunsOnSessions, Emptied, Unopened,
       OneConnects, InCommand, Joining, Replied
  <2>2. CASE Next
    BY <2>2, AppLeft, UninitLeft, MainLoopLeft, ServerLeft DEF Next
  <2>3. QED
    BY <2>1, <2>2
<1>3. LeftInv => NothingLeft
  BY DEF LeftInv, Emptied, Late, NothingLeft
<1>4. QED
  BY <1>1, <1>2, <1>3, TypeCorrect, PTL DEF Spec
=============================================================================
