----------------------------- MODULE SsrcQueue -----------------------------
(***************************************************************************)
(* The synchronization sources of one RTP session, and the threads that    *)
(* share them: the RTP thread and the RTCP thread look a source up without *)
(* the lock and make it under the lock when they miss, each counts what it *)
(* made, the RTP thread takes sources off probation and into the active    *)
(* queue, the RTCP thread shortens probation and ends the stream, and the  *)
(* application waits for the stream and walks the active queue.            *)
(*                                                                         *)
(* Sources are numbered in the order in which they are allocated; none is  *)
(* freed while the session lives. What a packet's sequence number does to  *)
(* the tracking is RtpSequence's subject: here a packet follows the last   *)
(* one, jumps, follows a jump, or is any other.                            *)
(***************************************************************************)
EXTENDS Integers, Sequences, FiniteSets

CONSTANTS
  Ssrcs,        \* identifiers that senders use
  OwnSsrcs,     \* values random32 gives the session for its own
  FirstSsrcs,   \* the value it gave at first: it may be a sender's
  Addrs,        \* transport addresses packets come from
  AnyAddr,      \* the wildcard address a socket may be bound to
  SockName,     \* what getsockname says of the session's sockets
  SrcAddr,      \* the address the server announced in its SETUP reply
  MaxSources,   \* allocations that succeed
  RtpPackets,   \* the <<ssrc, address>> pairs of the RTP packets that may come
  RtcpPackets,  \* those of the RTCP packets
  Compounds,    \* the sequences of packets an RTCP datagram may hold
  Loops,        \* whether the session's own reports come back to it
  Positions,    \* where a packet may stand in its source's numbering
  Null          \* no source

\* A source that is on probation lacks one packet in a row.
MIN_SEQUENTIAL == 2

ASSUME SourcesAssumption ==
  /\ MaxSources \in Nat \ {0}
  /\ Null \notin (1 .. MaxSources) \cup Addrs
  /\ Ssrcs \cap OwnSsrcs = {} /\ FirstSsrcs \subseteq Ssrcs \cup OwnSsrcs
  /\ AnyAddr \notin Addrs /\ SockName \in Addrs \cup {AnyAddr}
  /\ RtpPackets \subseteq Ssrcs \X Addrs /\ RtcpPackets \subseteq Ssrcs \X Addrs
  /\ Compounds \subseteq Seq({"SR", "RR", "SDES", "BYE"}) \ {<<>>}
  /\ Positions \subseteq {"next", "jump", "afterjump", "other"}
  /\ Loops \in BOOLEAN

Handles == 1 .. MaxSources
Threads == {"RTP", "RTCP"}
AllSsrcs == Ssrcs \cup OwnSsrcs

VARIABLES
  ssrc_queue,    \* all sources, newest first
  src,           \* the fields of each source
  active,        \* active_ssrc_queue: first active source or Null
  next_active,   \* next_active of each source
  local_ssrc,    \* the session's own identifier
  conf_queue,    \* addresses remembered as conflicting
  members,       \* sess_stats.members
  senders,       \* sess_stats.senders
  syn,           \* holder of the session's mutex, or "free"
  th,            \* where each receiving thread is, and its locals
  run,           \* rtp_thread.run: the stream has not ended
  ready,         \* the RTP thread has unlocked rtp_thread.syn
  app            \* the application: where it is, and the source it looks at

vars == <<ssrc_queue, src, active, next_active, local_ssrc, conf_queue,
          members, senders, syn, th, run, ready, app>>

shared == <<ssrc_queue, src, active, next_active, local_ssrc, conf_queue,
            members, senders, syn, run, ready>>

\* A source as calloc leaves it. `by` (who allocated it), `counted` (as a new
\* source rather than as a collision) and `tracked` (how often rtp_init_seq was
\* called, up to 2) record history.
Blank == [ssrc |-> Null, rtp_from |-> Null, rtcp_from |-> Null, rtcp_to |-> FALSE,
          po |-> FALSE, probation |-> 0, bad |-> FALSE,
          by |-> Null, counted |-> FALSE, tracked |-> 0]

\* A thread with nothing in hand.
Idle == [pc |-> "select", ssrc |-> Null, addr |-> Null, h |-> Null, res |-> "KNOWN",
         todo |-> <<>>, seen |-> Null, rest |-> <<>>]

Source ==
  [ssrc : AllSsrcs \cup {Null}, rtp_from : Addrs \cup {Null}, rtcp_from : Addrs \cup {Null},
   rtcp_to : BOOLEAN, po : BOOLEAN, probation : 0 .. MIN_SEQUENTIAL, bad : BOOLEAN,
   by : Threads \cup {Null}, counted : BOOLEAN, tracked : 0 .. 2]

Thread ==
  [pc : {"none", "select", "recv", "check", "lock", "look", "collide", "renew", "link", "fill", "poinit",
         "count", "counting", "track", "update", "add", "parse", "sdes"},
   ssrc : AllSsrcs \cup {Null}, addr : Addrs \cup {Null}, h : Handles \cup {Null},
   res : {"KNOWN", "NEW", "RTPNEW", "RTCPNEW", "COLLISION"},
   todo : Seq({"senders", "members"}), seen : Nat \cup {Null},
   rest : Seq({"SR", "RR", "SDES", "BYE"})]

TypeOK ==
  /\ ssrc_queue \in Seq(Handles)
  /\ src \in [Handles -> Source]
  /\ active \in Handles \cup {Null}
  /\ next_active \in [Handles -> Handles \cup {Null}]
  /\ local_ssrc \in AllSsrcs
  /\ conf_queue \subseteq Addrs \cup {AnyAddr}
  /\ members \in Nat /\ senders \in Nat
  /\ syn \in Threads \cup {"free"}
  /\ th \in [Threads -> Thread]
  /\ run \in BOOLEAN /\ ready \in BOOLEAN
  /\ app \in [pc : {"idle", "filling", "walking", "ended"}, at : Handles \cup {Null}]

\* rtp_session_init and rtp_thread_create up to the creation of the RTP thread.
Init ==
  /\ ssrc_queue = <<>>
  /\ src = [h \in Handles |-> Blank]
  /\ active = Null /\ next_active = [h \in Handles |-> Null]
  /\ local_ssrc \in FirstSsrcs
  /\ conf_queue = {}
  /\ members = 1 /\ senders = 0
  /\ syn = "free"
  /\ th = [t \in Threads |-> IF t = "RTP" THEN Idle ELSE [Idle EXCEPT !.pc = "none"]]
  /\ run = FALSE /\ ready = FALSE
  /\ app = [pc |-> "idle", at |-> Null]

Made == {ssrc_queue[i] : i \in DOMAIN ssrc_queue}
First == IF ssrc_queue = <<>> THEN Null ELSE Head(ssrc_queue)

\* Mutant: the comparison is the wrong way round.
FindOther(x) ==
  IF \E h \in Made : src[h].ssrc # x THEN CHOOSE h \in Made : src[h].ssrc # x ELSE Null

\* The unlocked walk of ssrc_queue: the newest source with this identifier.
Find(x) ==
  IF \E h \in Made : src[h].ssrc = x
  THEN CHOOSE h \in Made : src[h].ssrc = x /\ \A k \in Made : src[k].ssrc = x => k <= h
  ELSE Null

\* Identifiers random32 may give: it is taken to give one that nobody uses.
Unused == OwnSsrcs \ ({src[h].ssrc : h \in Made} \cup {th[u].ssrc : u \in Threads} \cup {local_ssrc})

-----------------------------------------------------------------------------
(***************************************************************************)
(* The presentation starts: run is set, then the RTCP thread is created;   *)
(* only then is the PLAY command over for the application.                 *)
(***************************************************************************)

Start ==
  /\ th["RTCP"].pc = "none"
  /\ run' = TRUE
  /\ th' = [th EXCEPT !["RTCP"].pc = "select"]
  /\ UNCHANGED <<ssrc_queue, src, active, next_active, local_ssrc, conf_queue,
                 members, senders, syn, ready, app>>

(***************************************************************************)
(* Packets arrive. The session's own reports come back to it when the      *)
(* network loops them; it sends reports only once it knows a source (the   *)
(* bound: they come back as long as there is another identifier to take).  *)
(***************************************************************************)
Arrive(t, x, a, c) ==
  /\ th[t].pc = "select"
  /\ th' = [th EXCEPT ![t] = [Idle EXCEPT !.pc = "recv", !.ssrc = x, !.addr = a, !.rest = c]]
  /\ UNCHANGED <<shared, app>>

RtpArrives == \E p \in RtpPackets : Arrive("RTP", p[1], p[2], <<>>)

RtcpArrives == \E p \in RtcpPackets, c \in Compounds : Arrive("RTCP", p[1], p[2], c)

LoopArrives ==
  /\ Loops /\ ssrc_queue # <<>> /\ Unused # {}
  /\ \E a \in Addrs \ {SrcAddr} : Arrive("RTCP", local_ssrc, a, <<"RR", "SDES">>)

\* The RTP thread unlocks the application before it reads its first packet.
Receive(t) ==
  /\ th[t].pc = "recv"
  /\ ready' = (ready \/ t = "RTP")
  /\ th' = [th EXCEPT ![t].pc = "check"]
  /\ UNCHANGED <<ssrc_queue, src, active, next_active, local_ssrc, conf_queue,
                 members, senders, syn, run, app>>

-----------------------------------------------------------------------------
(***************************************************************************)
(* rtp_ssrc_check, up to the point where a source has to be made. It locks *)
(* and unlocks the session's mutex first, then looks without it.           *)
(***************************************************************************)
From(t) == IF t = "RTP" THEN "rtp_from" ELSE "rtcp_from"

Announce(t) == IF t = "RTP" THEN "RTPNEW" ELSE "RTCPNEW"

\* Where a thread goes with what rtp_ssrc_check answers.
After(t, res) ==
  CASE res = "NEW" -> "count"
    [] t = "RTCP" /\ res # "NEW" -> "parse"
    [] t = "RTP" /\ res = "COLLISION" -> "select"
    [] OTHER -> "track"

\* The source is known: its first packet of this protocol gives it an address,
\* and a packet from another address is a collision.
Known(t, h) ==
  LET first == src[h][From(t)] = Null
      res   == IF first THEN Announce(t)
               ELSE IF src[h][From(t)] # th[t].addr THEN "COLLISION" ELSE "KNOWN"
  IN  /\ src' = [src EXCEPT ![h][From(t)] = IF first THEN th[t].addr ELSE @,
                            ![h].rtcp_to = @ \/ t = "RTCP"]
      /\ th' = [th EXCEPT ![t].h = h, ![t].res = res, ![t].pc = After(t, res)]

\* local_ssrc is read before the mutex is asked for.
Compare(t) ==
  /\ th[t].pc = "check"
  /\ th' = [th EXCEPT ![t].pc = "lock",
                      ![t].res = IF th[t].ssrc = local_ssrc THEN "COLLISION" ELSE "KNOWN"]
  /\ UNCHANGED <<shared, app>>

\* Mutant: the mutex is not waited for.
CheckAtOnce(t) ==
  /\ th[t].pc = "lock"
  /\ th' = IF th[t].res = "COLLISION"
           THEN [th EXCEPT ![t].pc = "collide", ![t].h = First]
           ELSE [th EXCEPT ![t].pc = "look"]
  /\ UNCHANGED <<shared, app>>

\* The mutex is locked and unlocked before the walk, which goes without it.
Check(t) ==
  /\ th[t].pc = "lock" /\ syn = "free"
  /\ th' = IF th[t].res = "COLLISION"
           THEN [th EXCEPT ![t].pc = "collide", ![t].h = First]
           ELSE [th EXCEPT ![t].pc = "look"]
  /\ UNCHANGED <<shared, app>>

Look(t) ==
  /\ th[t].pc = "look"
  /\ LET h == Find(th[t].ssrc)
     IN  IF h # Null THEN Known(t, h)
         ELSE /\ th' = [th EXCEPT ![t].pc = "link", ![t].res = "NEW"]
              /\ UNCHANGED src
  /\ UNCHANGED <<ssrc_queue, active, next_active, local_ssrc, conf_queue,
                 members, senders, syn, run, ready, app>>

\* A packet with the session's own identifier. It is a loop of the session's own
\* packets if it comes from the socket's own name; if not, and if its address is
\* not remembered as conflicting, the session takes another identifier.
Collide(t) ==
  /\ th[t].pc = "collide"
  /\ LET a == th[t].addr
         known == a = SockName \/ th[t].ssrc # local_ssrc \/ a \in conf_queue
     IN  th' = [th EXCEPT ![t].pc = IF known THEN After(t, "COLLISION") ELSE "renew"]
  /\ UNCHANGED <<shared, app>>

Renew(t) ==
  /\ th[t].pc = "renew"
  /\ local_ssrc' \in Unused
  /\ th' = [th EXCEPT ![t].pc = "link"]
  /\ UNCHANGED <<ssrc_queue, src, active, next_active, conf_queue,
                 members, senders, syn, run, ready, app>>

-----------------------------------------------------------------------------
(***************************************************************************)
(* rtp_ssrc_init and poinit, under the mutex. The other thread walks the   *)
(* queue without it: it may meet the source before its ssrc is set, and    *)
(* before its playout buffer is initialised.                               *)
(***************************************************************************)
Link(t) ==
  /\ th[t].pc = "link" /\ syn = "free"
  /\ Len(ssrc_queue) < MaxSources
  /\ LET h == Len(ssrc_queue) + 1
     IN  /\ ssrc_queue' = <<h>> \o ssrc_queue
         /\ src' = [src EXCEPT ![h].by = t, ![h].counted = th[t].res = "NEW"]
         /\ th' = [th EXCEPT ![t].h = h, ![t].pc = "fill"]
  /\ syn' = t
  /\ UNCHANGED <<active, next_active, local_ssrc, conf_queue, members, senders, run, ready, app>>

\* calloc fails: the packet is given up.
LinkFails(t) ==
  /\ th[t].pc = "link" /\ syn = "free"
  /\ Len(ssrc_queue) = MaxSources
  /\ th' = [th EXCEPT ![t] = Idle]
  /\ UNCHANGED <<shared, app>>

Fill(t) ==
  /\ th[t].pc = "fill"
  /\ src' = [src EXCEPT ![th[t].h] =
       [@ EXCEPT !.ssrc = th[t].ssrc, ![From(t)] = th[t].addr,
                 !.rtcp_to = th[t].addr = SrcAddr \/ t = "RTCP"]]
  /\ th' = [th EXCEPT ![t].pc = "poinit"]
  /\ UNCHANGED <<ssrc_queue, active, next_active, local_ssrc, conf_queue,
                 members, senders, syn, run, ready, app>>

\* Mutant: the caller's conflict is counted as a new source.
PoinitCounts(t) ==
  /\ th[t].pc = "poinit"
  /\ src' = [src EXCEPT ![th[t].h].po = TRUE]
  /\ syn' = "free"
  /\ th' = [th EXCEPT ![t].pc = "count", ![t].todo = <<"senders", "members">>]
  /\ UNCHANGED <<ssrc_queue, active, next_active, local_ssrc, conf_queue, members, senders,
                 run, ready, app>>

\* The counters a thread raises for a source it made.
Raises(t) == IF t = "RTP" \/ Head(th[t].rest) = "SR" THEN <<"senders", "members">> ELSE <<"members">>

Poinit(t) ==
  /\ th[t].pc = "poinit"
  /\ src' = [src EXCEPT ![th[t].h].po = TRUE]
  /\ syn' = "free"
  /\ th' = [th EXCEPT ![t].pc = After(t, th[t].res),
                      ![t].todo = IF th[t].res = "NEW" THEN Raises(t) ELSE @]
  /\ conf_queue' = IF th[t].res = "COLLISION" THEN conf_queue \cup {SockName} ELSE conf_queue
  /\ UNCHANGED <<ssrc_queue, active, next_active, local_ssrc, members, senders, run, ready, app>>

-----------------------------------------------------------------------------
(***************************************************************************)
(* sess_stats.senders++ and members++, by either thread and without a lock:*)
(* each is a read and a write.                                             *)
(***************************************************************************)
CountRead(t) ==
  /\ th[t].pc = "count"
  /\ th' = [th EXCEPT ![t].seen = IF Head(th[t].todo) = "senders" THEN senders ELSE members,
                      ![t].pc = "counting"]
  /\ UNCHANGED <<shared, app>>

CountWrite(t) ==
  /\ th[t].pc = "counting"
  /\ IF Head(th[t].todo) = "senders"
     THEN senders' = th[t].seen + 1 /\ UNCHANGED members
     ELSE members' = th[t].seen + 1 /\ UNCHANGED senders
  /\ th' = [th EXCEPT ![t].todo = Tail(@), ![t].seen = Null,
                      ![t].pc = IF Tail(th[t].todo) # <<>> THEN "count"
                                ELSE IF t = "RTP" THEN "track" ELSE "parse"]
  /\ UNCHANGED <<ssrc_queue, src, active, next_active, local_ssrc, conf_queue,
                 syn, run, ready, app>>

-----------------------------------------------------------------------------
(***************************************************************************)
(* The RTP thread: probation and the active queue (rtp_update_seq), then   *)
(* the packet is queued (poadd).                                           *)
(***************************************************************************)

\* Mutant: the rest of the queue is forgotten.
EnqueuesAlone(h, probation) ==
  /\ src' = [src EXCEPT ![h].probation = probation, ![h].bad = FALSE,
                        ![h].tracked = IF @ = 0 THEN 1 ELSE 2]
  /\ next_active' = next_active
  /\ active' = h

\* rtp_init_seq puts the source first in the active queue, also when it is there.
Enqueues(h, probation) ==
  /\ src' = [src EXCEPT ![h].probation = probation, ![h].bad = FALSE,
                        ![h].tracked = IF @ = 0 THEN 1 ELSE 2]
  /\ next_active' = [next_active EXCEPT ![h] = active]
  /\ active' = h

Stats(h, probation, bad) ==
  /\ src' = [src EXCEPT ![h].probation = probation, ![h].bad = bad]
  /\ UNCHANGED <<active, next_active>>

\* The first packet of a new source: probation starts, and max_seq is set so that the
\* packet follows it. SDES may end probation before rtp_update_seq looks at it.
StartProbation ==
  /\ th["RTP"].pc = "track" /\ th["RTP"].res \in {"NEW", "RTPNEW"}
  /\ LET h == th["RTP"].h IN Stats(h, MIN_SEQUENTIAL, src[h].bad)
  /\ th' = [th EXCEPT !["RTP"].pc = "update"]
  /\ UNCHANGED <<ssrc_queue, local_ssrc, conf_queue, members, senders, syn, run, ready, app>>

\* rtp_update_seq. A first packet follows, unless its number is 0: max_seq is then 65535,
\* and the code does not wrap its successor. On probation a packet that does not follow
\* leaves one to come.
Track ==
  /\ \/ th["RTP"].pc = "update"
     \/ th["RTP"].pc = "track" /\ th["RTP"].res = "KNOWN"
  /\ LET h == th["RTP"].h
         s == src[h]
     IN  \E pos \in IF th["RTP"].pc = "update" THEN {"next", "other"} ELSE Positions :
           /\ pos = "afterjump" => s.bad
           /\ \/ s.probation > 0 /\ pos # "next" /\ Stats(h, MIN_SEQUENTIAL - 1, s.bad)
              \/ s.probation > 1 /\ pos = "next" /\ Stats(h, MIN_SEQUENTIAL - 1, s.bad)
              \/ s.probation = 1 /\ pos = "next" /\ Enqueues(h, 0)
              \/ s.probation = 0 /\ pos \in {"next", "other"} /\ Stats(h, 0, s.bad)
              \/ s.probation = 0 /\ pos = "jump" /\ Stats(h, 0, TRUE)
              \/ s.probation = 0 /\ pos = "afterjump" /\ Enqueues(h, 0)
  /\ th' = [th EXCEPT !["RTP"].pc = "add"]
  /\ UNCHANGED <<ssrc_queue, local_ssrc, conf_queue, members, senders, syn, run, ready, app>>

Add ==
  /\ th["RTP"].pc = "add"
  /\ th' = [th EXCEPT !["RTP"] = Idle]
  /\ UNCHANGED <<shared, app>>

-----------------------------------------------------------------------------
(***************************************************************************)
(* The RTCP thread takes the packets of the datagram one by one, whatever  *)
(* rtp_ssrc_check answered. An SDES packet shortens the source's probation *)
(* with a read and a write; a BYE of any source ends the stream.           *)
(***************************************************************************)
NextPacket(rest) == IF rest = <<>> THEN Idle ELSE [th["RTCP"] EXCEPT !.rest = rest, !.pc = "parse"]

\* Mutant: a BYE is only logged.
ParseDeaf ==
  /\ th["RTCP"].pc = "parse" /\ th["RTCP"].h # Null
  /\ Head(th["RTCP"].rest) # "SDES"
  /\ th' = [th EXCEPT !["RTCP"] = NextPacket(Tail(th["RTCP"].rest))]
  /\ UNCHANGED <<shared, app>>

\* SR, RR and BYE.
Parse ==
  /\ th["RTCP"].pc = "parse" /\ th["RTCP"].h # Null
  /\ Head(th["RTCP"].rest) # "SDES"
  /\ run' = (run /\ Head(th["RTCP"].rest) # "BYE")
  /\ th' = [th EXCEPT !["RTCP"] = NextPacket(Tail(th["RTCP"].rest))]
  /\ UNCHANGED <<ssrc_queue, src, active, next_active, local_ssrc, conf_queue,
                 members, senders, syn, ready, app>>

SdesRead ==
  /\ th["RTCP"].pc = "parse" /\ th["RTCP"].h # Null
  /\ Head(th["RTCP"].rest) = "SDES"
  /\ th' = IF src[th["RTCP"].h].probation > 0 THEN [th EXCEPT !["RTCP"].pc = "sdes"]
           ELSE [th EXCEPT !["RTCP"] = NextPacket(Tail(th["RTCP"].rest))]
  /\ UNCHANGED <<shared, app>>

\* Mutant: the probation is shortened by one, not set.
SdesWriteLess ==
  /\ th["RTCP"].pc = "sdes"
  /\ src' = [src EXCEPT ![th["RTCP"].h].probation = @ - 1]
  /\ th' = [th EXCEPT !["RTCP"] = NextPacket(Tail(th["RTCP"].rest))]
  /\ UNCHANGED <<ssrc_queue, active, next_active, local_ssrc, conf_queue,
                 members, senders, syn, run, ready, app>>

SdesWrite ==
  /\ th["RTCP"].pc = "sdes"
  /\ src' = [src EXCEPT ![th["RTCP"].h].probation = 1]
  /\ th' = [th EXCEPT !["RTCP"] = NextPacket(Tail(th["RTCP"].rest))]
  /\ UNCHANGED <<ssrc_queue, active, next_active, local_ssrc, conf_queue,
                 members, senders, syn, run, ready, app>>

-----------------------------------------------------------------------------
(***************************************************************************)
(* The application: rtp_fill_buffers, then every active source in turn     *)
(* (rtp_active_ssrc_queue, rtp_next_active_ssrc), until the stream ends.   *)
(***************************************************************************)
FillBuffers ==
  /\ app.pc = "idle" /\ th["RTCP"].pc # "none"
  /\ app' = [app EXCEPT !.pc = "filling"]
  /\ UNCHANGED <<shared, th>>

Filled ==
  /\ app.pc = "filling" /\ ready
  /\ app' = IF ~run THEN [pc |-> "ended", at |-> Null]
            ELSE IF active = Null THEN [pc |-> "idle", at |-> Null]
            ELSE [pc |-> "walking", at |-> active]
  /\ UNCHANGED <<shared, th>>

Walk ==
  /\ app.pc = "walking"
  /\ app' = IF next_active[app.at] = Null THEN [pc |-> "idle", at |-> Null]
            ELSE [app EXCEPT !.at = next_active[app.at]]
  /\ UNCHANGED <<shared, th>>

Receiver(t) ==
  \/ Receive(t) \/ Compare(t) \/ Check(t) \/ Look(t) \/ Collide(t) \/ Renew(t)
  \/ Link(t) \/ LinkFails(t) \/ Fill(t) \/ Poinit(t) \/ CountRead(t) \/ CountWrite(t)

RtpThread == Receiver("RTP") \/ StartProbation \/ Track \/ Add
RtcpThread == Receiver("RTCP") \/ Parse \/ SdesRead \/ SdesWrite
Application == FillBuffers \/ Filled \/ Walk

Next ==
  \/ Start \/ RtpArrives \/ RtcpArrives \/ LoopArrives
  \/ RtpThread \/ RtcpThread \/ Application

\* The threads and the application run; nobody is bound to send anything.
Fairness == WF_vars(RtpThread) /\ WF_vars(RtcpThread) /\ WF_vars(Application)

Spec == Init /\ [][Next]_vars /\ Fairness

-----------------------------------------------------------------------------
(***************************************************************************)
(* Properties.                                                             *)
(***************************************************************************)

\* A thread never makes two sources for one SSRC: although a source is looked
\* for without the lock under which it is made, and although a collision makes
\* one without looking, an SSRC has at most two sources, one of each thread.
MadeOncePerThread ==
  \A h, k \in Made : (h # k /\ src[h].ssrc # Null /\ src[h].ssrc = src[k].ssrc) =>
                       src[h].by # src[k].by

NeverRestarted == \A h \in Handles : src[h].tracked < 2

\* What a walk from the head over next_active meets.
Active ==
  {h \in Handles : \A S \in SUBSET Handles :
      (active \in S \cup {Null} /\ \A k \in S : next_active[k] \in S \cup {Null}) => h \in S}

\* As long as no source has its tracking restarted, the active queue holds
\* exactly the sources that came off probation.
ActiveQueueSound == NeverRestarted => Active = {h \in Handles : src[h].tracked = 1}

\* A source is walked by the application only when the walk can use it: its
\* playout buffer is there and it has a sender's address.
WalksWholeSources ==
  app.at # Null => src[app.at].po /\ src[app.at].rtp_from # Null

\* The members are never more than the session and the sources that were made
\* for new senders, nor are the senders more than these sources; both may be
\* less (the threads count without a lock).
NotOvercounted ==
  LET new == Cardinality({h \in Made : src[h].counted})
  IN  members <= 1 + new /\ senders <= new

\* A thread that makes a source holds the mutex, and the other does not make one.
MakesUnderLock ==
  \A t \in Threads : th[t].pc \in {"fill", "poinit"} <=> syn = t

\* A BYE that was received ends the stream of an application that keeps asking.
ByeEnds == (th["RTCP"].rest # <<>> /\ Head(th["RTCP"].rest) = "BYE" /\ ready /\ NeverRestarted)
             ~> (app.pc = "ended" \/ ~NeverRestarted)

\* Not so: a BYE that was received ends the stream of an application that waits.
ByeAlwaysEnds ==
  (th["RTCP"].rest # <<>> /\ Head(th["RTCP"].rest) = "BYE" /\ app.pc = "filling") ~> app.pc = "ended"

\* Not so: a walk over the active sources always comes to an end.
WalkAlwaysEnds == (app.pc = "walking") ~> (app.pc # "walking")

\* Not so: an SSRC has one source.
OneSourceEach ==
  \A h, k \in Made : (h # k /\ src[h].ssrc # Null) => src[h].ssrc # src[k].ssrc

\* Not so: a source whose packets are queued is on probation or active.
QueuedIsPlayed ==
  th["RTP"].pc = "add" => LET s == src[th["RTP"].h] IN s.probation > 0 \/ s.tracked > 0
=============================================================================
