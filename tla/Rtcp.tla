-------------------------------- MODULE Rtcp --------------------------------
(***************************************************************************)
(* The RTCP thread of a presentation with several sessions: its queue of   *)
(* report events, the reports it builds from statistics that the RTP       *)
(* thread changes meanwhile, the datagrams it takes, and the totals it     *)
(* publishes. Neither thread takes a lock. A session has one source here;  *)
(* how sources are made and found is SsrcQueue's subject.                  *)
(*                                                                         *)
(* Time is counted in ticks from now: an event that is due, or overdue,    *)
(* has 0 ticks left.                                                       *)
(***************************************************************************)
EXTENDS RtcpPacket, Sequences, FiniteSets, Functions

CONSTANTS
  Sessions,     \* sequence of the sessions, in the order of the presentation
  Media,        \* sessions whose source sends
  Peers,        \* sessions whose source sends RTCP
  Datagrams,    \* the RTCP datagrams it may send
  Loads,        \* <<members, senders, avg_rtcp_size>> that may be met
  FirstSeqs,    \* numbers a source may start with
  Kinds,        \* how a packet may stand to the one before it
  MaxPackets,   \* bound: packets of a source that are counted
  None          \* no session, no datagram

Session == Range(Sessions)

\* The packets that are counted do not carry a report past its words: the losses of an
\* interval, shifted by the width of the fraction, fit in one (24 bits of losses in 32).
ASSUME SessionsAssumption ==
  /\ Sessions \in Seq(Session) /\ Sessions # <<>> /\ IsInjective(Sessions) /\ None \notin Session
  /\ Media \subseteq Session /\ Peers \subseteq Session
  /\ \A d \in Datagrams : /\ d.words \in Nat \ {0}
                           /\ \A i \in 0 .. d.words - 1 : d.at[i].len \in Nat
  /\ Loads \subseteq Nat \X Nat \X Nat /\ Bandwidth > 1
  /\ FirstSeqs \subseteq 0 .. RTP_SEQ_MOD - 1
  /\ Kinds \subseteq {"next", "skip", "dup"}
  /\ MaxPackets \in Nat \ {0} /\ 2 * MaxPackets + 4 < Word \div 2
  /\ (2 * MaxPackets) * Fraction <= Word /\ RTP_SEQ_MOD > 2

VARIABLES
  head,       \* the event queue: records [sess, left]
  initial,    \* sess_stats.initial
  heard,      \* sessions whose ssrc_queue is not empty
  stats,      \* ssrc_stats of each session's source
  rtp,        \* the RTP thread
  readable,   \* sessions whose RTCP socket has a datagram
  rtcp,       \* the RTCP thread and the locals of its functions
  counted,    \* rtp_session.receive_packets: as of the session's last report
  total,      \* total_receive_packets
  block,      \* the last report block of each session
  ghost       \* what was true: packets meant and received by each source, at
              \* the last report too, and whether the report was undisturbed

vars == <<head, initial, heard, stats, rtp, readable, rtcp, counted, total, block, ghost>>

RtcpIdle == [pc |-> "select", sess |-> None, cycles |-> 0, expected |-> 0, meant |-> 0,
             got |-> 0, fraction |-> 0, todo |-> {}, d |-> None, pos |-> 0, acc |-> 0]

RtpIdle == [pc |-> "select", sess |-> None, seq |-> 0]

NoBlock == [fraction |-> 0, lost |-> 0, last_seq |-> 0]

NoGhost == [meant |-> 0, got |-> 0, meant_prior |-> 0, got_prior |-> 0,
            quiet |-> TRUE, quiet_prior |-> TRUE]

Event == [sess : Session, left : Nat]

Block == [fraction : 0 .. Fraction - 1, lost : -(LostMax + 1) .. LostMax, last_seq : 0 .. Word - 1]

\* The RTCP thread: where it is, and its locals. A datagram is handled in steps;
\* `pos' is the word of the packet in hand.
Handler ==
  [pc : {"start", "select", "test", "cycles", "max", "got", "prior", "lost", "schedule",
         "recv", "parse"},
   sess : Session \cup {None}, cycles : 0 .. Word - 1, expected : 0 .. Word - 1,
   meant : 0 .. Word - 1, got : 0 .. Word - 1, fraction : 0 .. Fraction - 1,
   todo : SUBSET Session, d : Datagrams \cup {None}, pos : Nat, acc : Nat]

TypeOK ==
  /\ head \in Seq(Event)
  /\ initial \in [Session -> BOOLEAN]
  /\ heard \subseteq Session
  /\ stats \in [Session -> Stats]
  /\ rtp \in [pc : {"select", "cycles", "max", "count"}, sess : Session \cup {None}, seq : 0 .. RTP_SEQ_MOD - 1]
  /\ readable \subseteq Peers
  /\ rtcp \in Handler
  /\ counted \in [Session -> Nat] /\ total \in Nat
  /\ block \in [Session -> Block]

-----------------------------------------------------------------------------
(***************************************************************************)
(* The event queue.                                                        *)
(***************************************************************************)

\* Events at the front that are due before `left': rtcp_schedule passes them.
Passed(queue, left) ==
  CHOOSE n \in 0 .. Len(queue) : /\ \A i \in 1 .. n : queue[i].left < left
                                 /\ n < Len(queue) => queue[n + 1].left >= left

\* Mutant: the new event at the front is not linked to those behind it.
rtcp_schedule_alone(queue, s, left) ==
  LET n == Passed(queue, left)
      e == [sess |-> s, left |-> left]
  IN  IF n <= 1 THEN <<e>>
      ELSE SubSeq(queue, 1, n) \o <<e>> \o SubSeq(queue, n + 1, Len(queue))

\* With exactly one event passed, pevent is still the head of the queue and the
\* new event is put before it.
rtcp_schedule(queue, s, left) ==
  LET n == Passed(queue, left)
      e == [sess |-> s, left |-> left]
  IN  IF n <= 1 THEN <<e>> \o queue
      ELSE SubSeq(queue, 1, n) \o <<e>> \o SubSeq(queue, n + 1, Len(queue))

rtcp_deschedule(queue) == Tail(queue)

Interval(s) == UNION {rtcp_interval(l[1], l[2], l[3], initial[s]) : l \in Loads}

\* The RTCP thread starts.
Init ==
  /\ head = <<>>
  /\ initial = [s \in Session |-> TRUE]
  /\ heard = {}
  /\ stats = [s \in Session |-> NoStats]
  /\ rtp = RtpIdle /\ rtcp = [RtcpIdle EXCEPT !.pc = "start"]
  /\ readable = {}
  /\ counted = [s \in Session |-> 0] /\ total = 0
  /\ block = [s \in Session |-> NoBlock]
  /\ ghost = [s \in Session |-> NoGhost]

Tick ==
  /\ \E i \in DOMAIN head : head[i].left > 0
  /\ head' = [i \in DOMAIN head |-> [head[i] EXCEPT !.left = Greatest(0, @ - 1)]]
  /\ UNCHANGED <<initial, heard, stats, rtp, readable, rtcp, counted, total, block, ghost>>

-----------------------------------------------------------------------------
(***************************************************************************)
(* The RTP thread: the first packet starts the source, then each packet    *)
(* changes cycles, max_seq and received, in this order.                    *)
(***************************************************************************)
Busy(s) == rtcp.sess = s /\ rtcp.pc \notin {"start", "select", "schedule", "recv", "parse"}

\* A step of the RTP thread on the source of s disturbs a report in the making.
Disturb(g, s) == [g EXCEPT ![s].quiet = @ /\ ~Busy(s)]

Start(s) ==
  /\ rtp.pc = "select" /\ s \in Media /\ ghost[s].meant = 0
  /\ \E seq \in FirstSeqs :
       stats' = [stats EXCEPT ![s] = [Started(seq) EXCEPT !.received = 1]]
  /\ heard' = heard \cup {s}
  /\ ghost' = Disturb([ghost EXCEPT ![s].meant = 1, ![s].got = 1], s)
  /\ UNCHANGED <<head, initial, rtp, readable, rtcp, counted, total, block>>

\* Where a packet of each kind stands after the highest number seen.
Step == [next |-> 1, skip |-> 2, dup |-> 0]

Packet(s) ==
  /\ rtp.pc = "select" /\ ghost[s].meant > 0
  /\ ghost[s].got < MaxPackets
  /\ \E kind \in Kinds :
       LET seq == (stats[s].max_seq + Step[kind]) % RTP_SEQ_MOD
       IN  /\ rtp' = [pc |-> IF seq < stats[s].max_seq THEN "cycles" ELSE "max", sess |-> s, seq |-> seq]
           /\ ghost' = Disturb([ghost EXCEPT ![s].meant = @ + Step[kind]], s)
  /\ UNCHANGED <<head, initial, heard, stats, readable, rtcp, counted, total, block>>

RtpCycles ==
  /\ rtp.pc = "cycles"
  /\ stats' = [stats EXCEPT ![rtp.sess].cycles = (@ + RTP_SEQ_MOD) % Word]
  /\ rtp' = [rtp EXCEPT !.pc = "max"]
  /\ ghost' = Disturb(ghost, rtp.sess)
  /\ UNCHANGED <<head, initial, heard, readable, rtcp, counted, total, block>>

RtpMax ==
  /\ rtp.pc = "max"
  /\ stats' = [stats EXCEPT ![rtp.sess].max_seq = rtp.seq]
  /\ rtp' = [rtp EXCEPT !.pc = "count"]
  /\ ghost' = Disturb(ghost, rtp.sess)
  /\ UNCHANGED <<head, initial, heard, readable, rtcp, counted, total, block>>

RtpCount ==
  /\ rtp.pc = "count"
  /\ stats' = [stats EXCEPT ![rtp.sess].received = (@ + 1) % Word]
  /\ rtp' = RtpIdle
  /\ ghost' = Disturb([ghost EXCEPT ![rtp.sess].got = @ + 1], rtp.sess)
  /\ UNCHANGED <<head, initial, heard, readable, rtcp, counted, total, block>>

-----------------------------------------------------------------------------
(***************************************************************************)
(* The RTCP thread: when the first event is due and nothing can be read, a *)
(* report is built field by field (rtcp_build_rr) and sent, and the next   *)
(* one is scheduled.                                                       *)
(***************************************************************************)
Go(pc) == rtcp' = [rtcp EXCEPT !.pc = pc]

\* Before its loop the thread schedules a report for every session, in their order;
\* `pos' counts those that are done.
Begin ==
  /\ rtcp.pc = "start"
  /\ LET s == Sessions[rtcp.pos + 1]
     IN  \E left \in Interval(s) : head' = rtcp_schedule(head, s, left)
  /\ rtcp' = IF rtcp.pos + 1 = Len(Sessions) THEN RtcpIdle ELSE [rtcp EXCEPT !.pos = @ + 1]
  /\ UNCHANGED <<initial, heard, stats, rtp, readable, counted, total, block, ghost>>

\* rtcp_handle_event: a session nobody was heard in sends no report.
HandleEvent ==
  /\ rtcp.pc = "select" /\ readable = {}
  /\ head # <<>> /\ Head(head).left = 0
  /\ LET s == Head(head).sess
     IN  rtcp' = [rtcp EXCEPT !.sess = s, !.pc = IF s \in heard THEN "test" ELSE "schedule"]
  /\ UNCHANGED <<head, initial, heard, stats, rtp, readable, counted, total, block, ghost>>

\* A source that nothing was received of since the last report has no block.
ReportTest ==
  /\ rtcp.pc = "test"
  /\ LET s == rtcp.sess
         news == stats[s].received_prior # stats[s].received
     IN  /\ Go(IF news THEN "cycles" ELSE "schedule")
         /\ counted' = [counted EXCEPT ![s] = IF news THEN @ ELSE 0]
         /\ ghost' = [ghost EXCEPT ![s].quiet = rtp.sess # s]
  /\ UNCHANGED <<head, initial, heard, stats, rtp, readable, total, block>>

ReadCycles ==
  /\ rtcp.pc = "cycles"
  /\ rtcp' = [rtcp EXCEPT !.cycles = stats[rtcp.sess].cycles, !.pc = "max"]
  /\ UNCHANGED <<head, initial, heard, stats, rtp, readable, counted, total, block, ghost>>

\* expected, expected_interval and expected_prior.
ReadMax ==
  /\ rtcp.pc = "max"
  /\ LET st == stats[rtcp.sess]
         e  == Expected(rtcp.cycles, st.max_seq, st.base_seq)
     IN  /\ rtcp' = [rtcp EXCEPT !.expected = e, !.meant = (e - st.expected_prior) % Word, !.pc = "got"]
         /\ stats' = [stats EXCEPT ![rtcp.sess].expected_prior = e]
  /\ UNCHANGED <<head, initial, heard, rtp, readable, counted, total, block, ghost>>

\* received_interval.
ReadReceived ==
  /\ rtcp.pc = "got"
  /\ LET st == stats[rtcp.sess]
     IN  rtcp' = [rtcp EXCEPT !.got = (st.received - st.received_prior) % Word, !.pc = "prior"]
  /\ UNCHANGED <<head, initial, heard, stats, rtp, readable, counted, total, block, ghost>>

\* received_prior, from a second read, and the fraction lost.
KeepReceived ==
  /\ rtcp.pc = "prior"
  /\ stats' = [stats EXCEPT ![rtcp.sess].received_prior = stats[rtcp.sess].received]
  /\ rtcp' = [rtcp EXCEPT !.fraction = FractionLost(rtcp.meant, LostInterval(rtcp.meant, rtcp.got)),
                          !.pc = "lost"]
  /\ UNCHANGED <<head, initial, heard, rtp, readable, counted, total, block, ghost>>

\* The cumulative loss and the highest number, from further reads; then the
\* report is sent.
Report ==
  /\ rtcp.pc = "lost"
  /\ LET s  == rtcp.sess
         st == stats[s]
     IN  /\ block' = [block EXCEPT ![s] =
                        [fraction |-> rtcp.fraction,
                         lost |-> CumulativeLost(rtcp.expected, st.received),
                         last_seq |-> (st.cycles + st.max_seq) % Word]]
         /\ counted' = [counted EXCEPT ![s] = st.received]
         /\ ghost' = [ghost EXCEPT ![s].meant_prior = ghost[s].meant, ![s].got_prior = ghost[s].got,
                                       ![s].quiet_prior = ghost[s].quiet]
  /\ Go("schedule")
  /\ UNCHANGED <<head, initial, heard, stats, rtp, readable, total>>

\* The event is taken from the queue and the next one put in; nothing was
\* readable in this round of the loop, so the totals it publishes are 0.
Schedule ==
  /\ rtcp.pc = "schedule"
  /\ \E left \in Interval(rtcp.sess) :
       head' = rtcp_schedule(rtcp_deschedule(head), rtcp.sess, left)
  /\ initial' = [initial EXCEPT ![rtcp.sess] = FALSE]
  /\ rtcp' = RtcpIdle
  /\ total' = 0
  /\ UNCHANGED <<heard, stats, rtp, readable, counted, block, ghost>>

-----------------------------------------------------------------------------
(***************************************************************************)
(* Datagrams: in each round of the loop the readable sessions are read one *)
(* after the other, and what they last reported is added up.               *)
(***************************************************************************)
Arrive(s) ==
  /\ s \notin readable
  /\ readable' = readable \cup {s}
  /\ UNCHANGED <<head, initial, heard, stats, rtp, rtcp, counted, total, block, ghost>>

Select ==
  /\ rtcp.pc = "select" /\ readable # {}
  /\ rtcp' = [rtcp EXCEPT !.pc = "recv", !.todo = readable]
  /\ UNCHANGED <<head, initial, heard, stats, rtp, readable, counted, total, block, ghost>>

\* The session after those that were read, in the order of the presentation.
Current == Sessions[CHOOSE i \in DOMAIN Sessions :
                      Sessions[i] \in rtcp.todo /\ \A j \in 1 .. i - 1 : Sessions[j] \notin rtcp.todo]

\* A datagram is done with: its session's count joins the round's total.
Finished(s) ==
  LET acc  == rtcp.acc + counted[s]
      rest == rtcp.todo \ {s}
  IN  /\ readable' = readable \ {s}
      /\ rtcp' = IF rest = {} THEN RtcpIdle
                 ELSE [rtcp EXCEPT !.pc = "recv", !.todo = rest, !.acc = acc, !.d = None, !.pos = 0]
      /\ total' = IF rest = {} THEN acc ELSE total

Recv ==
  /\ rtcp.pc = "recv"
  /\ \E d \in Datagrams :
       IF rtcp_hdr_val_chk(d)
       THEN /\ rtcp' = [rtcp EXCEPT !.pc = "parse", !.d = d, !.pos = 0]
            /\ heard' = heard \cup {Current}
            /\ UNCHANGED <<readable, total>>
       ELSE Finished(Current) /\ UNCHANGED heard
  /\ UNCHANGED <<head, initial, stats, rtp, counted, block, ghost>>

\* rtcp_parse_pkt: one packet of the datagram; an unknown type ends it.
Parse ==
  /\ rtcp.pc = "parse"
  /\ LET d    == rtcp.d
         next == rtcp.pos + d.at[rtcp.pos].len + 1
     IN  IF d.at[rtcp.pos].pt \in Types /\ next < d.words
         THEN rtcp' = [rtcp EXCEPT !.pos = next] /\ UNCHANGED <<readable, total>>
         ELSE Finished(Current)
  /\ UNCHANGED <<head, initial, heard, stats, rtp, counted, block, ghost>>

-----------------------------------------------------------------------------
RtpThread == (\E s \in Session : Start(s) \/ Packet(s)) \/ RtpCycles \/ RtpMax \/ RtpCount

Reporting == ReportTest \/ ReadCycles \/ ReadMax \/ ReadReceived \/ KeepReceived \/ Report \/ Schedule

Next ==
  \/ Begin \/ Tick \/ RtpThread \/ HandleEvent \/ Reporting
  \/ Select \/ Recv \/ Parse \/ (\E s \in Peers : Arrive(s))

\* Time passes and the RTCP thread runs; its sockets are not readable each time
\* it looks, since those who send wait for seconds between their reports.
Fairness ==
  /\ WF_vars(Begin) /\ WF_vars(Tick) /\ SF_vars(HandleEvent) /\ WF_vars(Reporting)
  /\ WF_vars(Select \/ Recv \/ Parse)

Spec == Init /\ [][Next]_vars /\ Fairness

-----------------------------------------------------------------------------
(***************************************************************************)
(* Properties.                                                             *)
(***************************************************************************)

\* Sessions that have been scheduled.
Scheduled == IF rtcp.pc = "start" THEN {Sessions[i] : i \in 1 .. rtcp.pos} ELSE Session

\* Every session that has been scheduled has one event in the queue, and no other
\* has: rescheduling loses none and doubles none, although it does not keep them
\* in order.
OneEventEach ==
  /\ \A i \in DOMAIN head : head[i].sess \in Scheduled
  /\ \A s \in Scheduled : \E e \in DOMAIN head : head[e].sess = s
  /\ \A i, j \in DOMAIN head : head[i].sess = head[j].sess => i = j

Clamp(n) == Greatest(Least(n, LostMax), -(LostMax + 1))

\* A report that the RTP thread did not disturb is right: the fraction lost is
\* that of the packets since the last report (if that one was not disturbed
\* either, and unless duplicates outnumber the losses), the cumulative loss and
\* the highest number are those of all packets, whatever earlier reports were.
QuietReportsAreRight ==
  [][\A s \in Session :
       (rtcp.pc = "lost" /\ rtcp.sess = s /\ rtcp'.pc = "schedule" /\ ghost[s].quiet) =>
         LET g == ghost[s]
             b == block'[s]
             meant == g.meant - g.meant_prior
             got   == g.got - g.got_prior
         IN  /\ b.lost = Clamp(g.meant - g.got)
             /\ b.last_seq = (stats[s].base_seq + g.meant) % Word
             /\ (g.quiet_prior /\ got <= meant) =>
                  b.fraction = IF meant = 0 THEN 0 ELSE ((meant - got) * Fraction) \div meant]_vars

\* The parser only ever looks at headers the check has looked at, and no packet
\* of an accepted compound datagram reaches past its end.
ParsesWhatWasChecked ==
  rtcp.pc = "parse" =>
    LET d == rtcp.d
    IN  /\ rtcp.pos < d.words /\ d.at[rtcp.pos].ver = 2
        /\ IsCompound(d) => rtcp.pos + d.at[rtcp.pos].len + 1 <= d.words

\* Not so: every session has its turn ("Schedules an event to be handled").
EveryoneReports == \A s \in Session : []<>(rtcp.pc = "schedule" /\ rtcp.sess = s)

\* Not so: the fraction lost is right also when duplicates came.
DuplicatesDoNotCount ==
  [][\A s \in Session :
       (rtcp.pc = "lost" /\ rtcp.sess = s /\ rtcp'.pc = "schedule" /\ ghost[s].quiet /\ ghost[s].quiet_prior) =>
         (ghost[s].got - ghost[s].got_prior >= ghost[s].meant - ghost[s].meant_prior => block'[s].fraction = 0)]_vars
=============================================================================
