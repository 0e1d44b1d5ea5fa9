-------------------------- MODULE SsrcQueueProofs --------------------------
(***************************************************************************)
(* Proofs about SsrcQueue: types, that no thread makes a source for an     *)
(* SSRC twice, that the application only meets sources that are made       *)
(* entirely, and that the members are not overcounted, for any senders,    *)
(* addresses, packets and number of sources.                               *)
(***************************************************************************)
EXTENDS SsrcQueue, NaturalExtrema, FiniteSetTheorems

\* The queue holds the sources that were allocated, newest first.
Numbered == \A i \in DOMAIN ssrc_queue : ssrc_queue[i] = Len(ssrc_queue) + 1 - i

\* What a thread has in hand where it stands in the code.
Hand(t) ==
  /\ th[t].h \in Made \cup {Null}
  /\ th[t].pc \in {"fill", "poinit", "count", "counting", "track", "update", "sdes"} => th[t].h # Null
  /\ th[t].pc \in {"count", "counting"} => th[t].todo # <<>>
  /\ th[t].pc = "counting" => th[t].seen \in Nat
  /\ t = "RTP" => th[t].pc \notin {"parse", "sdes"}
  /\ t = "RTCP" /\ th[t].pc \notin {"none", "select"} => th[t].rest # <<>>

InHand == \A t \in Threads : Hand(t)

\* The application walks over sources.
WalksSources == app.pc = "walking" => app.at \in Handles

\* A source that is not in the queue has no identifier.
Unmade == \A h \in Handles : h \notin Made => src[h].ssrc = Null

\* The source a thread is making is its own, and has no identifier before "poinit".
Making ==
  \A t \in Threads :
    /\ th[t].pc \in {"fill", "poinit"} => src[th[t].h].by = t
    /\ th[t].pc = "fill" => src[th[t].h].ssrc = Null

\* Nobody is about to make a source for the session's own identifier, but a thread
\* that has to because of a collision.
OwnIsFree ==
  /\ \A h \in Made : src[h].ssrc # Null => src[h].ssrc # local_ssrc
  /\ \A t \in Threads :
       /\ th[t].pc \in {"look", "link", "fill"} => th[t].ssrc # local_ssrc
       /\ th[t].pc = "lock" /\ th[t].res # "COLLISION" => th[t].ssrc # local_ssrc

\* A thread that is going to make a source has made none for its identifier.
NoneYet ==
  \A t \in Threads :
    /\ th[t].pc \in {"collide", "renew", "link", "fill"} =>
         \A h \in Made : src[h].by = t /\ src[h].ssrc # Null => src[h].ssrc # th[t].ssrc
    /\ th[t].pc = "lock" /\ th[t].res = "COLLISION" =>
         \A h \in Made : src[h].by = t /\ src[h].ssrc # Null => src[h].ssrc # th[t].ssrc

Structure  == Numbered /\ InHand /\ WalksSources
Identities == Unmade /\ Making /\ OwnIsFree /\ NoneYet /\ MadeOncePerThread
IInv == TypeOK /\ Structure /\ Identities

-----------------------------------------------------------------------------
\* Every source in the queue is a handle; the walk finds one with the identifier if
\* there is one.
LEMMA FindIsMade ==
  ASSUME TypeOK, NEW x
  PROVE  /\ Made \subseteq Handles
         /\ IF \E h \in Made : src[h].ssrc = x THEN Find(x) \in Made /\ src[Find(x)].ssrc = x
            ELSE Find(x) = Null
<1>1. Made \subseteq 1 .. MaxSources
  <2>1. \A i \in DOMAIN ssrc_queue : ssrc_queue[i] \in Handles
    BY DEF TypeOK
  <2>2. QED
    BY <2>1 DEF Made, Handles
<1>2. CASE \E h \in Made : src[h].ssrc = x
  <2> DEFINE S == {h \in Made : src[h].ssrc = x}
  <2>1. \E h \in S : \A k \in S : k <= h
    <3> HIDE DEF S
    <3>1. S \subseteq 1 .. MaxSources /\ S # {}
      BY <1>1, <1>2 DEF S
    <3>2. QED
      BY <3>1, GreatestExists, SourcesAssumption DEF SourcesAssumption
  <2>2. QED
    BY <1>1, <1>2, <2>1 DEF Find, Handles
<1>3. CASE ~ \E h \in Made : src[h].ssrc = x
  BY <1>1, <1>3 DEF Find, Handles
<1>4. QED
  BY <1>2, <1>3

\* An update of one thread, or of one source, by a record of the right type.
LEMMA ThreadMoves ==
  ASSUME TypeOK, NEW t \in Threads, NEW r \in Thread, th' = [th EXCEPT ![t] = r]
  PROVE  th' \in [Threads -> Thread]
BY DEF TypeOK

LEMMA SourceChanges ==
  ASSUME TypeOK, NEW h \in Handles, NEW s \in Source, src' = [src EXCEPT ![h] = s]
  PROVE  src' \in [Handles -> Source]
BY DEF TypeOK

\* What a thread does after rtp_ssrc_check is a place in its code.
LEMMA AfterIsPlace ==
  ASSUME NEW t \in Threads, NEW res
  PROVE  After(t, res) \in {"count", "parse", "select", "track"}
BY DEF After, Threads

LEMMA IdleIsThread == Idle \in Thread
BY DEF Idle, Thread

LEMMA ReceiverTypes ==
  ASSUME TypeOK, Structure, NEW t \in Threads, Receiver(t)
  PROVE  TypeOK'
<1>0. th[t] \in Thread /\ Made \subseteq Handles
  BY FindIsMade DEF TypeOK
<1>1. CASE Receive(t)
  <2>1. [th[t] EXCEPT !.pc = "check"] \in Thread
    BY <1>0 DEF Thread
  <2>2. th' \in [Threads -> Thread]
    BY <1>1, <2>1, ThreadMoves DEF Receive
  <2>3. QED
    BY <1>1, <2>2 DEF Receive, TypeOK
<1>c. CASE Compare(t)
  <2>1. PICK res \in {"COLLISION", "KNOWN"} :
          th' = [th EXCEPT ![t] = [th[t] EXCEPT !.pc = "lock", !.res = res]]
    BY <1>c DEF Compare
  <2>2. [th[t] EXCEPT !.pc = "lock", !.res = res] \in Thread
    BY <1>0 DEF Thread
  <2>3. th' \in [Threads -> Thread]
    BY <2>1, <2>2, ThreadMoves
  <2>4. QED
    BY <1>c, <2>3 DEF Compare, TypeOK, shared
<1>2. CASE Check(t)
  <2>1. First \in Handles \cup {Null}
    BY DEF First, TypeOK
  <2>2. /\ [th[t] EXCEPT !.pc = "collide", !.h = First] \in Thread
        /\ [th[t] EXCEPT !.pc = "look"] \in Thread
    <3>1. [th[t] EXCEPT !.pc = "look"] \in Thread
      BY <1>0 DEF Thread
    <3>2. PICK h \in Handles \cup {Null} : h = First
      BY <2>1
    <3>3. [th[t] EXCEPT !.pc = "collide", !.h = h] \in Thread
      BY <1>0 DEF Thread
    <3>4. QED
      BY <3>1, <3>2, <3>3
  <2>3. \/ th' = [th EXCEPT ![t] = [th[t] EXCEPT !.pc = "collide", !.h = First]]
        \/ th' = [th EXCEPT ![t] = [th[t] EXCEPT !.pc = "look"]]
    BY <1>2 DEF Check
  <2>4. th' \in [Threads -> Thread]
    BY <2>2, <2>3, ThreadMoves
  <2>5. QED
    BY <1>2, <2>4 DEF Check, TypeOK, shared
<1>3. CASE Look(t)
  <2> DEFINE h == Find(th[t].ssrc)
  <2>1. CASE h = Null
    <3>1. [th[t] EXCEPT !.pc = "link", !.res = "NEW"] \in Thread
      BY <1>0 DEF Thread
    <3>2. th' = [th EXCEPT ![t] = [th[t] EXCEPT !.pc = "link", !.res = "NEW"]] /\ src' = src
      BY <1>3, <2>1 DEF Look
    <3>3. th' \in [Threads -> Thread]
      BY <3>1, <3>2, ThreadMoves
    <3>4. QED
      BY <1>3, <3>2, <3>3 DEF Look, TypeOK
  <2>2. CASE h # Null
    <3>1. h \in Handles /\ src[h] \in Source
      BY <1>0, <2>2, FindIsMade DEF TypeOK
    <3> HIDE DEF h
    <3>2. Known(t, h)
      BY <1>3, <2>2 DEF Look, h
    <3>3. PICK res \in {"KNOWN", "RTPNEW", "RTCPNEW", "COLLISION"} :
            th' = [th EXCEPT ![t].h = h, ![t].res = res, ![t].pc = After(t, res)]
      BY <3>2 DEF Known, Announce, Threads
    <3>4. After(t, res) \in {"count", "parse", "select", "track"}
      BY AfterIsPlace
    <3>5. [th[t] EXCEPT !.h = h, !.res = res, !.pc = After(t, res)] \in Thread
      BY <1>0, <3>1, <3>4 DEF Thread
    <3>6. th' \in [Threads -> Thread]
      <4>1. th' = [th EXCEPT ![t] = [th[t] EXCEPT !.h = h, !.res = res, !.pc = After(t, res)]]
        BY <3>3
      <4>2. QED
        BY <3>5, <4>1, ThreadMoves
    <3>7. th[t].addr \in Addrs \cup {Null}
      BY <1>0 DEF Thread
    <3>8. PICK a \in Addrs \cup {Null} :
            src' = [src EXCEPT ![h][From(t)] = a, ![h].rtcp_to = @ \/ t = "RTCP"]
      <4>1. src[h][From(t)] \in Addrs \cup {Null}
        BY <3>1 DEF Source, From
      <4>2. QED
        BY <3>2, <3>7, <4>1 DEF Known
    <3>9. src' \in [Handles -> Source]
      <4>1. CASE t = "RTP"
        <5>1. [src[h] EXCEPT !.rtp_from = a, !.rtcp_to = @ \/ t = "RTCP"] \in Source
          BY <3>1 DEF Source
        <5>2. src' = [src EXCEPT ![h] = [src[h] EXCEPT !.rtp_from = a, !.rtcp_to = @ \/ t = "RTCP"]]
          BY <3>8, <4>1 DEF From
        <5>3. QED
          BY <3>1, <5>1, <5>2, SourceChanges
      <4>2. CASE t = "RTCP"
        <5>1. [src[h] EXCEPT !.rtcp_from = a, !.rtcp_to = @ \/ t = "RTCP"] \in Source
          BY <3>1 DEF Source
        <5>2. src' = [src EXCEPT ![h] = [src[h] EXCEPT !.rtcp_from = a, !.rtcp_to = @ \/ t = "RTCP"]]
          BY <3>8, <4>2 DEF From
        <5>3. QED
          BY <3>1, <5>1, <5>2, SourceChanges
      <4>3. QED
        BY <4>1, <4>2 DEF Threads
    <3>10. QED
      BY <1>3, <3>6, <3>9 DEF Look, TypeOK
  <2>3. QED
    BY <2>1, <2>2
<1>4. CASE Collide(t)
  <2>1. PICK pc \in {"count", "parse", "select", "track", "renew"} :
          th' = [th EXCEPT ![t] = [th[t] EXCEPT !.pc = pc]]
    BY <1>4, AfterIsPlace DEF Collide
  <2>2. [th[t] EXCEPT !.pc = pc] \in Thread
    BY <1>0 DEF Thread
  <2>3. th' \in [Threads -> Thread]
    BY <2>1, <2>2, ThreadMoves
  <2>4. QED
    BY <1>4, <2>3 DEF Collide, TypeOK, shared
<1>5. CASE Renew(t)
  <2>1. [th[t] EXCEPT !.pc = "link"] \in Thread
    BY <1>0 DEF Thread
  <2>2. th' \in [Threads -> Thread]
    BY <1>5, <2>1, ThreadMoves DEF Renew
  <2>3. QED
    BY <1>5, <2>2 DEF Renew, TypeOK, Unused, AllSsrcs
<1>6. CASE Link(t)
  <2> DEFINE h == Len(ssrc_queue) + 1
  <2>1. h \in Handles
    BY <1>6, SourcesAssumption DEF Link, TypeOK, Handles, SourcesAssumption
  <2>2. ssrc_queue' \in Seq(Handles)
    BY <1>6, <2>1 DEF Link, TypeOK
  <2> HIDE DEF h
  <2>3. PICK r \in Thread : r = [th[t] EXCEPT !.h = h, !.pc = "fill"]
    <3>1. PICK b \in Thread : b = [th[t] EXCEPT !.h = h]
      BY <1>0, <2>1 DEF Thread
    <3>2. [b EXCEPT !.pc = "fill"] \in Thread
      BY DEF Thread
    <3>3. QED
      BY <3>1, <3>2
  <2>4. th' = [th EXCEPT ![t].h = h, ![t].pc = "fill"]
    BY <1>6 DEF Link, h
  <2>5. th' \in [Threads -> Thread]
    <3>1. th' = [th EXCEPT ![t] = r]
      BY <2>3, <2>4
    <3>2. QED
      BY <3>1, ThreadMoves
  <2>6. PICK new \in BOOLEAN : src' = [src EXCEPT ![h] = [src[h] EXCEPT !.by = t, !.counted = new]]
    <3>1. (th[t].res = "NEW") \in BOOLEAN
      OBVIOUS
    <3>2. QED
      BY <1>6, <3>1 DEF Link, h
  <2>7. [src[h] EXCEPT !.by = t, !.counted = new] \in Source
    <3>1. src[h] \in Source
      BY <2>1 DEF TypeOK
    <3>2. QED
      BY <3>1 DEF Source
  <2>8. src' \in [Handles -> Source]
    BY <2>1, <2>6, <2>7, SourceChanges
  <2>9. QED
    BY <1>6, <2>2, <2>5, <2>8 DEF Link, TypeOK
<1>7. CASE LinkFails(t)
  <2>1. th' \in [Threads -> Thread]
    BY <1>7, IdleIsThread, ThreadMoves DEF LinkFails
  <2>2. QED
    BY <1>7, <2>1 DEF LinkFails, TypeOK, shared
<1>8. CASE Fill(t)
  <2>1. [th[t] EXCEPT !.pc = "poinit"] \in Thread
    BY <1>0 DEF Thread
  <2>2. th' \in [Threads -> Thread]
    BY <1>8, <2>1, ThreadMoves DEF Fill
  <2>3. th[t].h \in Handles /\ src[th[t].h] \in Source
    BY <1>0, <1>8 DEF Fill, TypeOK, Structure, InHand, Hand
  <2>4. th[t].ssrc \in AllSsrcs \cup {Null} /\ th[t].addr \in Addrs \cup {Null}
    BY <1>0 DEF Thread
  <2>5. src' \in [Handles -> Source]
    <3>1. CASE t = "RTP"
      <4>1. [src[th[t].h] EXCEPT !.ssrc = th[t].ssrc, !.rtp_from = th[t].addr,
                                 !.rtcp_to = th[t].addr = SrcAddr \/ t = "RTCP"] \in Source
        <5>1. PICK a \in Source : a = [src[th[t].h] EXCEPT !.ssrc = th[t].ssrc]
          BY <2>3, <2>4 DEF Source
        <5>2. PICK b \in Source : b = [a EXCEPT !.rtp_from = th[t].addr]
          BY <2>4 DEF Source
        <5>3. PICK to \in BOOLEAN : to = (th[t].addr = SrcAddr \/ t = "RTCP")
          OBVIOUS
        <5>4. [b EXCEPT !.rtcp_to = to] \in Source
          BY DEF Source
        <5>5. QED
          BY <5>1, <5>2, <5>3, <5>4
      <4>2. QED
        BY <1>8, <2>3, <3>1, <4>1, SourceChanges DEF Fill, From
    <3>2. CASE t = "RTCP"
      <4>1. [src[th[t].h] EXCEPT !.ssrc = th[t].ssrc, !.rtcp_from = th[t].addr,
                                 !.rtcp_to = th[t].addr = SrcAddr \/ t = "RTCP"] \in Source
        <5>1. PICK a \in Source : a = [src[th[t].h] EXCEPT !.ssrc = th[t].ssrc]
          BY <2>3, <2>4 DEF Source
        <5>2. PICK b \in Source : b = [a EXCEPT !.rtcp_from = th[t].addr]
          BY <2>4 DEF Source
        <5>3. PICK to \in BOOLEAN : to = (th[t].addr = SrcAddr \/ t = "RTCP")
          OBVIOUS
        <5>4. [b EXCEPT !.rtcp_to = to] \in Source
          BY DEF Source
        <5>5. QED
          BY <5>1, <5>2, <5>3, <5>4
      <4>2. QED
        BY <1>8, <2>3, <3>2, <4>1, SourceChanges DEF Fill, From
    <3>3. QED
      BY <3>1, <3>2 DEF Threads
  <2>6. QED
    BY <1>8, <2>2, <2>5 DEF Fill, TypeOK
<1>9. CASE Poinit(t)
  <2>1. Raises(t) \in Seq({"senders", "members"})
    <3>1. /\ <<"senders", "members">> \in Seq({"senders", "members"})
          /\ <<"members">> \in Seq({"senders", "members"})
      OBVIOUS
    <3>2. QED
      BY <3>1 DEF Raises
  <2>2. th[t].todo \in Seq({"senders", "members"})
    BY <1>0 DEF Thread
  <2>3. PICK todo \in Seq({"senders", "members"}), pc \in {"count", "parse", "select", "track"} :
          th' = [th EXCEPT ![t].pc = pc, ![t].todo = todo]
    <3>1. PICK pc \in {"count", "parse", "select", "track"} : pc = After(t, th[t].res)
      BY AfterIsPlace
    <3>2. PICK todo \in Seq({"senders", "members"}) :
            todo = IF th[t].res = "NEW" THEN Raises(t) ELSE th[t].todo
      BY <2>1, <2>2
    <3>3. th' = [th EXCEPT ![t].pc = pc, ![t].todo = todo]
      BY <1>9, <3>1, <3>2 DEF Poinit
    <3>4. QED
      BY <3>1, <3>2, <3>3
  <2>4. PICK r \in Thread : r = [th[t] EXCEPT !.pc = pc, !.todo = todo]
    <3>1. PICK b \in Thread : b = [th[t] EXCEPT !.pc = pc]
      <4>1. [th[t] EXCEPT !.pc = "count"] \in Thread
        BY <1>0 DEF Thread
      <4>2. [th[t] EXCEPT !.pc = "parse"] \in Thread
        BY <1>0 DEF Thread
      <4>3. [th[t] EXCEPT !.pc = "select"] \in Thread
        BY <1>0 DEF Thread
      <4>4. [th[t] EXCEPT !.pc = "track"] \in Thread
        BY <1>0 DEF Thread
      <4>5. QED
        BY <4>1, <4>2, <4>3, <4>4
    <3>2. [b EXCEPT !.todo = todo] \in Thread
      BY DEF Thread
    <3>3. QED
      BY <3>1, <3>2
  <2>5. th' \in [Threads -> Thread]
    <3>1. th' = [th EXCEPT ![t] = r]
      BY <2>3, <2>4
    <3>2. QED
      BY <3>1, ThreadMoves
  <2>6. th[t].h \in Handles /\ src[th[t].h] \in Source
    BY <1>0, <1>9 DEF Poinit, TypeOK, Structure, InHand, Hand
  <2>7. [src[th[t].h] EXCEPT !.po = TRUE] \in Source
    BY <2>6 DEF Source
  <2>8. src' \in [Handles -> Source]
    BY <1>9, <2>6, <2>7, SourceChanges DEF Poinit
  <2>9. conf_queue' \subseteq Addrs \cup {AnyAddr}
    BY <1>9, SourcesAssumption DEF Poinit, TypeOK, SourcesAssumption
  <2>10. QED
    BY <1>9, <2>5, <2>8, <2>9 DEF Poinit, TypeOK
<1>10. CASE CountRead(t)
  <2>1. PICK n \in Nat : th' = [th EXCEPT ![t] = [th[t] EXCEPT !.seen = n, !.pc = "counting"]]
    BY <1>10 DEF CountRead, TypeOK
  <2>2. [th[t] EXCEPT !.seen = n, !.pc = "counting"] \in Thread
    BY <1>0 DEF Thread
  <2>3. th' \in [Threads -> Thread]
    BY <2>1, <2>2, ThreadMoves
  <2>4. QED
    BY <1>10, <2>3 DEF CountRead, TypeOK, shared
<1>11. CASE CountWrite(t)
  <2>1. th[t].todo \in Seq({"senders", "members"}) /\ th[t].todo # <<>> /\ th[t].seen \in Nat
    BY <1>0, <1>11 DEF CountWrite, Structure, InHand, Hand, Thread
  <2>2. PICK todo \in Seq({"senders", "members"}), pc \in {"count", "track", "parse"} :
          th' = [th EXCEPT ![t] = [th[t] EXCEPT !.todo = todo, !.seen = Null, !.pc = pc]]
    <3> DEFINE todo == Tail(th[t].todo)
               pc   == IF todo # <<>> THEN "count" ELSE IF t = "RTP" THEN "track" ELSE "parse"
    <3>1. todo \in Seq({"senders", "members"}) /\ pc \in {"count", "track", "parse"}
      BY <2>1
    <3>2. th' = [th EXCEPT ![t] = [th[t] EXCEPT !.todo = todo, !.seen = Null, !.pc = pc]]
      BY <1>11 DEF CountWrite
    <3> HIDE DEF todo, pc
    <3>3. QED
      BY <3>1, <3>2
  <2>3. [th[t] EXCEPT !.todo = todo, !.seen = Null, !.pc = pc] \in Thread
    BY <1>0 DEF Thread
  <2>4. th' \in [Threads -> Thread]
    BY <2>2, <2>3, ThreadMoves
  <2>5. members' \in Nat /\ senders' \in Nat
    BY <1>11, <2>1 DEF CountWrite, TypeOK
  <2>6. QED
    BY <1>11, <2>4, <2>5 DEF CountWrite, TypeOK
<1>12. QED
  BY <1>1, <1>c, <1>2, <1>3, <1>4, <1>5, <1>6, <1>7, <1>8, <1>9, <1>10, <1>11 DEF Receiver

LEMMA RtpTypes ==
  ASSUME TypeOK, Structure, StartProbation \/ Track \/ Add
  PROVE  TypeOK'
<1>0. th["RTP"] \in Thread /\ Made \subseteq Handles
  BY FindIsMade DEF TypeOK, Threads
<1>1. CASE StartProbation \/ Track
  <2> DEFINE h == th["RTP"].h
  <2>1. h \in Handles
    BY <1>0, <1>1 DEF StartProbation, Track, Structure, InHand, Hand, Threads
  <2>2. src[h] \in Source
    BY <2>1 DEF TypeOK
  <2>3. src[h].bad \in BOOLEAN
    BY <2>2 DEF Source
  <2> HIDE DEF h
  <2>4. PICK pc \in {"update", "add"} : th' = [th EXCEPT !["RTP"] = [th["RTP"] EXCEPT !.pc = pc]]
    BY <1>1 DEF StartProbation, Track
  <2>5. [th["RTP"] EXCEPT !.pc = pc] \in Thread
    BY <1>0 DEF Thread
  <2>6. th' \in [Threads -> Thread]
    BY <2>4, <2>5, ThreadMoves DEF Threads
  <2>7. ASSUME NEW bad \in BOOLEAN, NEW p \in {0, MIN_SEQUENTIAL - 1, MIN_SEQUENTIAL}, Stats(h, p, bad)
        PROVE  TypeOK'
    <3>1. [src[h] EXCEPT !.probation = p, !.bad = bad] \in Source
      <4>1. p \in 0 .. MIN_SEQUENTIAL
        BY DEF MIN_SEQUENTIAL
      <4>2. QED
        BY <2>2, <4>1 DEF Source
    <3>2. src' = [src EXCEPT ![h] = [src[h] EXCEPT !.probation = p, !.bad = bad]]
      BY <2>7 DEF Stats
    <3>3. src' \in [Handles -> Source]
      BY <2>1, <3>1, <3>2, SourceChanges
    <3>4. QED
      BY <1>1, <2>6, <2>7, <3>3 DEF Stats, StartProbation, Track, TypeOK
  <2>8. ASSUME Enqueues(h, 0)
        PROVE  TypeOK'
    <3>1. PICK n \in {1, 2} :
            src' = [src EXCEPT ![h] = [src[h] EXCEPT !.probation = 0, !.bad = FALSE, !.tracked = n]]
      BY <2>8 DEF Enqueues
    <3>2. [src[h] EXCEPT !.probation = 0, !.bad = FALSE, !.tracked = n] \in Source
      <4>1. 0 \in 0 .. MIN_SEQUENTIAL /\ n \in 0 .. 2
        BY DEF MIN_SEQUENTIAL
      <4>2. QED
        BY <2>2, <4>1 DEF Source
    <3>3. src' \in [Handles -> Source]
      BY <2>1, <3>1, <3>2, SourceChanges
    <3>4. active' \in Handles \cup {Null} /\ next_active' \in [Handles -> Handles \cup {Null}]
      BY <2>1, <2>8 DEF Enqueues, TypeOK
    <3>5. QED
      BY <1>1, <2>6, <3>3, <3>4 DEF StartProbation, Track, TypeOK
  <2>9. \/ Stats(h, MIN_SEQUENTIAL, src[h].bad) \/ Stats(h, MIN_SEQUENTIAL - 1, src[h].bad)
        \/ Stats(h, 0, src[h].bad) \/ Stats(h, 0, TRUE)
        \/ Enqueues(h, 0)
    BY <1>1, Zenon DEF StartProbation, Track, h
  <2>10. QED
    BY <2>3, <2>7, <2>8, <2>9
<1>2. CASE Add
  <2>1. th' \in [Threads -> Thread]
    BY <1>2, IdleIsThread, ThreadMoves DEF Add, Threads
  <2>2. QED
    BY <1>2, <2>1 DEF Add, TypeOK, shared
<1>3. QED
  BY <1>1, <1>2

LEMMA RtcpTypes ==
  ASSUME TypeOK, Structure, Parse \/ SdesRead \/ SdesWrite
  PROVE  TypeOK'
<1> DEFINE T == th["RTCP"]
<1>0. T \in Thread /\ Made \subseteq Handles
  BY FindIsMade DEF TypeOK, Threads
<1>1. T.rest \in Seq({"SR", "RR", "SDES", "BYE"}) /\ T.rest # <<>>
  BY <1>0 DEF Thread, Parse, SdesRead, SdesWrite, Structure, InHand, Hand, Threads
<1>2. NextPacket(Tail(T.rest)) \in Thread
  <2>1. Tail(T.rest) \in Seq({"SR", "RR", "SDES", "BYE"})
    BY <1>1
  <2>2. [T EXCEPT !.rest = Tail(T.rest), !.pc = "parse"] \in Thread
    BY <1>0, <2>1 DEF Thread
  <2>3. QED
    BY <2>2, IdleIsThread DEF NextPacket
<1>3. [T EXCEPT !.pc = "sdes"] \in Thread
  BY <1>0 DEF Thread
<1>4. \/ th' = [th EXCEPT !["RTCP"] = NextPacket(Tail(T.rest))]
      \/ th' = [th EXCEPT !["RTCP"] = [T EXCEPT !.pc = "sdes"]]
  BY DEF Parse, SdesRead, SdesWrite
<1>5. th' \in [Threads -> Thread]
  BY <1>2, <1>3, <1>4, ThreadMoves DEF Threads
<1>6. CASE Parse
  BY <1>5, <1>6 DEF Parse, TypeOK
<1>7. CASE SdesRead
  BY <1>5, <1>7 DEF SdesRead, TypeOK, shared
<1>8. CASE SdesWrite
  <2>1. T.h \in Handles
    BY <1>0, <1>8 DEF SdesWrite, Structure, InHand, Hand, Threads
  <2>2. src[T.h] \in Source
    BY <2>1 DEF TypeOK
  <2>3. [src[T.h] EXCEPT !.probation = 1] \in Source
    BY <2>2 DEF Source, MIN_SEQUENTIAL
  <2>4. src' \in [Handles -> Source]
    BY <1>8, <2>1, <2>3, SourceChanges DEF SdesWrite
  <2>5. QED
    BY <1>5, <1>8, <2>4 DEF SdesWrite, TypeOK
<1>9. QED
  BY <1>6, <1>7, <1>8

LEMMA ArriveTypes ==
  ASSUME TypeOK, NEW t \in Threads, NEW x \in AllSsrcs, NEW a \in Addrs,
         NEW c \in Seq({"SR", "RR", "SDES", "BYE"}), Arrive(t, x, a, c)
  PROVE  TypeOK'
<1>1. [Idle EXCEPT !.pc = "recv", !.ssrc = x, !.addr = a, !.rest = c] \in Thread
  BY IdleIsThread DEF Thread
<1>2. th' \in [Threads -> Thread]
  BY <1>1, ThreadMoves DEF Arrive
<1>3. QED
  BY <1>2 DEF Arrive, TypeOK, shared

LEMMA OtherTypes ==
  ASSUME TypeOK, Structure, Start \/ RtpArrives \/ RtcpArrives \/ LoopArrives \/ Application
  PROVE  TypeOK'
<1>1. CASE Start
  <2>1. th["RTCP"] \in Thread
    BY DEF TypeOK, Threads
  <2>2. [th["RTCP"] EXCEPT !.pc = "select"] \in Thread
    BY <2>1 DEF Thread
  <2>3. th' \in [Threads -> Thread]
    BY <1>1, <2>2, ThreadMoves DEF Start, Threads
  <2>4. QED
    BY <1>1, <2>3 DEF Start, TypeOK
<1>2. CASE RtpArrives
  <2>1. PICK x \in AllSsrcs, a \in Addrs : Arrive("RTP", x, a, <<>>)
    BY <1>2, SourcesAssumption DEF RtpArrives, SourcesAssumption, AllSsrcs
  <2>2. <<>> \in Seq({"SR", "RR", "SDES", "BYE"}) /\ "RTP" \in Threads
    BY DEF Threads
  <2>3. QED
    BY <2>1, <2>2, ArriveTypes
<1>3. CASE RtcpArrives
  <2>1. PICK x \in AllSsrcs, a \in Addrs, c \in Seq({"SR", "RR", "SDES", "BYE"}) :
          Arrive("RTCP", x, a, c)
    BY <1>3, SourcesAssumption DEF RtcpArrives, SourcesAssumption, AllSsrcs
  <2>2. QED
    BY <2>1, ArriveTypes DEF Threads
<1>4. CASE LoopArrives
  <2>1. PICK a \in Addrs : Arrive("RTCP", local_ssrc, a, <<"RR", "SDES">>)
    BY <1>4 DEF LoopArrives
  <2>2. <<"RR", "SDES">> \in Seq({"SR", "RR", "SDES", "BYE"}) /\ "RTCP" \in Threads
    BY DEF Threads
  <2>3. local_ssrc \in AllSsrcs
    BY DEF TypeOK
  <2>4. QED
    BY <2>1, <2>2, <2>3, ArriveTypes
<1>5. CASE Application
  <2>1. app' \in [pc : {"idle", "filling", "walking", "ended"}, at : Handles \cup {Null}]
    <3>1. CASE FillBuffers
      BY <3>1 DEF FillBuffers, TypeOK
    <3>2. CASE Filled
      BY <3>2 DEF Filled, TypeOK
    <3>3. CASE Walk
      <4>1. next_active[app.at] \in Handles \cup {Null}
        BY <3>3 DEF Walk, TypeOK, Structure, WalksSources
      <4>2. QED
        BY <3>3, <4>1 DEF Walk, TypeOK
    <3>4. QED
      BY <1>5, <3>1, <3>2, <3>3 DEF Application
  <2>2. QED
    BY <1>5, <2>1 DEF Application, FillBuffers, Filled, Walk, TypeOK, shared
<1>6. QED
  BY <1>1, <1>2, <1>3, <1>4, <1>5

LEMMA TypesKept ==
  ASSUME TypeOK, Structure, [Next]_vars
  PROVE  TypeOK'
<1>1. CASE RtpThread
  BY <1>1, ReceiverTypes, RtpTypes DEF RtpThread, Threads
<1>2. CASE RtcpThread
  BY <1>2, ReceiverTypes, RtcpTypes DEF RtcpThread, Threads
<1>3. CASE Start \/ RtpArrives \/ RtcpArrives \/ LoopArrives \/ Application
  BY <1>3, OtherTypes
<1>4. CASE UNCHANGED vars
  BY <1>4 DEF vars, TypeOK
<1>5. QED
  BY <1>1, <1>2, <1>3, <1>4 DEF Next

-----------------------------------------------------------------------------
\* A step of thread t after which the sources are who they were, and at whose end
\* the thread is not about to make one.
SameSources ==
  /\ ssrc_queue' = ssrc_queue /\ local_ssrc' = local_ssrc
  /\ \A h \in Handles : src'[h].ssrc = src[h].ssrc /\ src'[h].by = src[h].by

OthersStay(t) == \A u \in Threads \ {t} : th'[u] = th[u]

Quiet(t) ==
  /\ SameSources /\ OthersStay(t)
  /\ th'[t].pc \notin {"lock", "look", "collide", "renew", "link", "fill", "poinit"}

LEMMA SameMade == SameSources => Made' = Made
BY DEF SameSources, Made

\* The parts of Identities that are not about threads.
LEMMA SourcesStay ==
  ASSUME IInv, SameSources
  PROVE  /\ Unmade' /\ MadeOncePerThread'
         /\ \A h \in Made' : src'[h].ssrc # Null => src'[h].ssrc # local_ssrc'
<1>1. Made' = Made /\ Made \subseteq Handles
  BY SameMade, FindIsMade DEF IInv
<1>2. QED
  BY <1>1 DEF IInv, Identities, SameSources, Unmade, MadeOncePerThread, OwnIsFree

\* The other thread keeps its part of them.
LEMMA OthersKeep ==
  ASSUME IInv, SameSources, NEW t \in Threads, OthersStay(t), NEW u \in Threads, u # t
  PROVE  /\ th'[u].pc \in {"fill", "poinit"} => src'[th'[u].h].by = u
         /\ th'[u].pc = "fill" => src'[th'[u].h].ssrc = Null
         /\ th'[u].pc \in {"look", "link", "fill"} => th'[u].ssrc # local_ssrc'
         /\ th'[u].pc \in {"collide", "renew", "link", "fill"} =>
              \A h \in Made' : src'[h].by = u /\ src'[h].ssrc # Null => src'[h].ssrc # th'[u].ssrc
         /\ th'[u].pc = "lock" /\ th'[u].res # "COLLISION" => th'[u].ssrc # local_ssrc'
         /\ th'[u].pc = "lock" /\ th'[u].res = "COLLISION" =>
              \A h \in Made' : src'[h].by = u /\ src'[h].ssrc # Null => src'[h].ssrc # th'[u].ssrc
<1>1. Made' = Made /\ Made \subseteq Handles
  BY SameMade, FindIsMade DEF IInv
<1>2. th'[u] = th[u]
  BY DEF OthersStay
<1>3. th[u].pc \in {"fill", "poinit"} => th[u].h \in Handles
  BY <1>1 DEF IInv, Structure, InHand, Hand
<1>4. QED
  BY <1>1, <1>2, <1>3 DEF IInv, Identities, SameSources, Making, OwnIsFree, NoneYet

\* A step of t keeps Identities if t keeps its part of them.
LEMMA IdentitiesKept ==
  ASSUME IInv, SameSources, NEW t \in Threads, OthersStay(t),
         th'[t].pc \in {"fill", "poinit"} => src'[th'[t].h].by = t,
         th'[t].pc = "fill" => src'[th'[t].h].ssrc = Null,
         th'[t].pc \in {"look", "link", "fill"} => th'[t].ssrc # local_ssrc',
         th'[t].pc \in {"collide", "renew", "link", "fill"} =>
              \A h \in Made' : src'[h].by = t /\ src'[h].ssrc # Null => src'[h].ssrc # th'[t].ssrc,
         th'[t].pc = "lock" /\ th'[t].res # "COLLISION" => th'[t].ssrc # local_ssrc',
         th'[t].pc = "lock" /\ th'[t].res = "COLLISION" =>
              \A h \in Made' : src'[h].by = t /\ src'[h].ssrc # Null => src'[h].ssrc # th'[t].ssrc
  PROVE  Identities'
<1>1. /\ Unmade' /\ MadeOncePerThread'
      /\ \A h \in Made' : src'[h].ssrc # Null => src'[h].ssrc # local_ssrc'
  BY SourcesStay
<1>2. Making'
  BY OthersKeep DEF Making
<1>3. OwnIsFree'
  BY <1>1, OthersKeep DEF OwnIsFree
<1>4. NoneYet'
  BY OthersKeep DEF NoneYet
<1>5. QED
  BY <1>1, <1>2, <1>3, <1>4 DEF Identities

LEMMA QuietKeeps ==
  ASSUME IInv, NEW t \in Threads, Quiet(t)
  PROVE  Identities'
BY IdentitiesKept DEF Quiet

\* A step of t keeps Structure if t keeps its part of it.
LEMMA StructureKept ==
  ASSUME IInv, NEW t \in Threads, OthersStay(t), app' = app, Hand(t)', Numbered', Made \subseteq Made'
  PROVE  Structure'
<1>1. ASSUME NEW u \in Threads, u # t PROVE Hand(u)'
  BY <1>1 DEF OthersStay, Hand, IInv, Structure, InHand
<1>2. InHand'
  BY <1>1 DEF InHand
<1>3. WalksSources'
  BY DEF IInv, Structure, WalksSources
<1>4. QED
  BY <1>2, <1>3 DEF Structure

-----------------------------------------------------------------------------
LEMMA AfterFacts ==
  ASSUME NEW t \in Threads, NEW res
  PROVE  /\ After(t, "NEW") = "count"
         /\ res # "NEW" /\ t = "RTCP" => After(t, res) = "parse"
         /\ res # "NEW" /\ t = "RTP" => After(t, res) \in {"select", "track"}
         /\ After(t, "COLLISION") \notin {"track", "count"}
BY DEF After, Threads

LEMMA IdleHand ==
  ASSUME NEW t \in Threads, th'[t] = Idle
  PROVE  Hand(t)'
BY DEF Hand, Idle

\* The first source of the queue is in the queue.
LEMMA FirstIsMade == TypeOK => First \in Made \cup {Null}
<1> SUFFICES ASSUME TypeOK, ssrc_queue # <<>> PROVE Head(ssrc_queue) \in Made
  BY DEF First
<1>1. 1 \in DOMAIN ssrc_queue /\ Head(ssrc_queue) = ssrc_queue[1]
  BY DEF TypeOK
<1>2. QED
  BY <1>1 DEF Made

\* rtp_ssrc_check up to the point where a source has to be made.
LEMMA CheckKeeps ==
  ASSUME IInv, NEW t \in Threads, Receive(t) \/ Compare(t) \/ Check(t) \/ Collide(t)
  PROVE  Structure' /\ Identities'
<1>0. SameSources /\ OthersStay(t) /\ app' = app /\ Made' = Made /\ Numbered'
  <2>1. SameSources
    BY DEF Receive, Compare, Check, Collide, SameSources, shared
  <2>2. OthersStay(t)
    BY DEF Receive, Compare, Check, Collide, OthersStay, IInv, TypeOK
  <2>3. QED
    BY <2>1, <2>2, SameMade DEF Receive, Compare, Check, Collide, IInv, Structure, Numbered, SameSources
<1>1. /\ th[t] \in Thread
      /\ t = "RTCP" => th[t].rest # <<>>
      /\ th[t].h \in Made \cup {Null}
  BY DEF IInv, TypeOK, Structure, InHand, Hand, Receive, Compare, Check, Collide
<1>2. CASE Receive(t)
  <2>1. th'[t] = [th[t] EXCEPT !.pc = "check"]
    BY <1>2 DEF Receive, IInv, TypeOK
  <2>2. th'[t].pc = "check" /\ th'[t].h = th[t].h /\ th'[t].rest = th[t].rest
    BY <1>1, <2>1 DEF Thread
  <2>3. Hand(t)'
    BY <1>0, <1>1, <2>2 DEF Hand
  <2>4. QED
    BY <1>0, <2>2, <2>3, StructureKept, QuietKeeps DEF Quiet
<1>c. CASE Compare(t)
  <2>1. PICK res \in {"COLLISION", "KNOWN"} :
          /\ th'[t] = [th[t] EXCEPT !.pc = "lock", !.res = res]
          /\ res = "COLLISION" <=> th[t].ssrc = local_ssrc
    BY <1>c DEF Compare, IInv, TypeOK
  <2>2. /\ th'[t].pc = "lock" /\ th'[t].res = res /\ th'[t].h = th[t].h /\ th'[t].rest = th[t].rest
        /\ th'[t].ssrc = th[t].ssrc
    BY <1>1, <2>1 DEF Thread
  <2>3. Hand(t)'
    BY <1>0, <1>1, <2>2 DEF Hand
  <2>4. res = "COLLISION" =>
          \A h \in Made' : src'[h].by = t /\ src'[h].ssrc # Null => src'[h].ssrc # th'[t].ssrc
    BY <1>0, <2>1, <2>2, FindIsMade DEF SameSources, IInv, Identities, OwnIsFree
  <2>5. res # "COLLISION" => th'[t].ssrc # local_ssrc'
    BY <1>0, <2>1, <2>2 DEF SameSources
  <2>6. QED
    BY <1>0, <2>2, <2>3, <2>4, <2>5, StructureKept, IdentitiesKept
<1>3. CASE Check(t)
  <2>1. CASE th[t].res = "COLLISION"
    <3>1. th'[t] = [th[t] EXCEPT !.pc = "collide", !.h = First]
      BY <1>3, <2>1 DEF Check, IInv, TypeOK
    <3>2. th'[t].pc = "collide" /\ th'[t].h = First /\ th'[t].rest = th[t].rest /\ th'[t].ssrc = th[t].ssrc
      BY <1>1, <3>1 DEF Thread
    <3>3. Hand(t)'
      BY <1>0, <1>1, <3>2, FirstIsMade DEF Hand, IInv
    <3>4. \A h \in Made' : src'[h].by = t /\ src'[h].ssrc # Null => src'[h].ssrc # th'[t].ssrc
      <4>1. \A h \in Made : src[h].by = t /\ src[h].ssrc # Null => src[h].ssrc # th[t].ssrc
        BY <1>3, <2>1 DEF Check, IInv, Identities, NoneYet
      <4>2. QED
        BY <1>0, <3>2, <4>1, FindIsMade DEF SameSources, IInv
    <3>5. QED
      BY <1>0, <3>2, <3>3, <3>4, StructureKept, IdentitiesKept
  <2>2. CASE th[t].res # "COLLISION"
    <3>1. th'[t] = [th[t] EXCEPT !.pc = "look"]
      BY <1>3, <2>2 DEF Check, IInv, TypeOK
    <3>2. th'[t].pc = "look" /\ th'[t].h = th[t].h /\ th'[t].rest = th[t].rest /\ th'[t].ssrc = th[t].ssrc
      BY <1>1, <3>1 DEF Thread
    <3>3. Hand(t)'
      BY <1>0, <1>1, <3>2 DEF Hand
    <3>4. th'[t].ssrc # local_ssrc'
      <4>1. th[t].ssrc # local_ssrc
        BY <1>3, <2>2 DEF Check, IInv, Identities, OwnIsFree
      <4>2. QED
        BY <1>0, <3>2, <4>1 DEF SameSources
    <3>5. QED
      BY <1>0, <3>2, <3>3, <3>4, StructureKept, IdentitiesKept
  <2>3. QED
    BY <2>1, <2>2
<1>4. CASE Collide(t)
  <2>1. PICK pc \in {After(t, "COLLISION"), "renew"} :
          th' = [th EXCEPT ![t] = [th[t] EXCEPT !.pc = pc]]
    BY <1>4 DEF Collide
  <2>2. /\ th'[t].pc = pc /\ th'[t].h = th[t].h /\ th'[t].rest = th[t].rest
        /\ th'[t].ssrc = th[t].ssrc
    BY <1>1, <2>1 DEF Thread, IInv, TypeOK
  <2>3. Hand(t)'
    BY <1>0, <1>1, <2>2, AfterFacts DEF Hand, Threads
  <2>4. CASE pc = "renew"
    <3>1. \A h \in Made' : src'[h].by = t /\ src'[h].ssrc # Null => src'[h].ssrc # th'[t].ssrc
      <4>1. \A h \in Made : src[h].by = t /\ src[h].ssrc # Null => src[h].ssrc # th[t].ssrc
        BY <1>4 DEF Collide, IInv, Identities, NoneYet
      <4>2. \A h \in Made : src'[h].by = src[h].by /\ src'[h].ssrc = src[h].ssrc
        BY <1>0, FindIsMade DEF SameSources, IInv
      <4>3. QED
        BY <1>0, <2>2, <4>1, <4>2
    <3>2. QED
      BY <1>0, <2>2, <2>3, <2>4, <3>1, StructureKept, IdentitiesKept
  <2>5. CASE pc # "renew"
    <3>1. pc \in {"select", "parse"}
      BY <2>5, AfterFacts DEF Threads
    <3>2. QED
      BY <1>0, <2>2, <2>3, <3>1, StructureKept, QuietKeeps DEF Quiet
  <2>6. QED
    BY <2>4, <2>5
<1>5. QED
  BY <1>2, <1>c, <1>3, <1>4

LEMMA LookKeeps ==
  ASSUME IInv, NEW t \in Threads, Look(t)
  PROVE  Structure' /\ Identities'
<1> DEFINE h == Find(th[t].ssrc)
<1>1. /\ th[t] \in Thread
      /\ t = "RTCP" => th[t].rest # <<>>
      /\ th[t].h \in Made \cup {Null}
      /\ Made \subseteq Handles /\ Null \notin Made
  BY FindIsMade, SourcesAssumption DEF IInv, TypeOK, Structure, InHand, Hand, Look, SourcesAssumption, Handles
<1>2. /\ h # Null => h \in Made
      /\ h = Null => \A k \in Made : src[k].ssrc # th[t].ssrc
  BY <1>1, FindIsMade DEF IInv
<1> HIDE DEF h
<1>3. CASE h = Null
  <2>1. src' = src /\ th' = [th EXCEPT ![t] = [th[t] EXCEPT !.pc = "link", !.res = "NEW"]]
    BY <1>3 DEF Look, h
  <2>2. /\ th'[t].pc = "link" /\ th'[t].h = th[t].h /\ th'[t].rest = th[t].rest
        /\ th'[t].ssrc = th[t].ssrc
    BY <1>1, <2>1 DEF Thread, IInv, TypeOK
  <2>3. SameSources /\ OthersStay(t) /\ app' = app /\ Made' = Made /\ Numbered'
    <3>1. SameSources
      BY <2>1 DEF Look, SameSources
    <3>2. OthersStay(t)
      BY <2>1 DEF OthersStay, IInv, TypeOK
    <3>3. QED
      BY <3>1, <3>2, SameMade DEF Look, IInv, Structure, Numbered, SameSources
  <2>4. Hand(t)'
    BY <1>1, <2>2, <2>3 DEF Hand
  <2>5. \A k \in Made' : src'[k].ssrc # th'[t].ssrc
    BY <1>2, <1>3, <2>1, <2>2, <2>3
  <2>6. th'[t].ssrc # local_ssrc'
    BY <2>2, <2>3 DEF Look, SameSources, IInv, Identities, OwnIsFree
  <2>7. QED
    BY <2>2, <2>3, <2>4, <2>5, <2>6, StructureKept, IdentitiesKept
<1>4. CASE h # Null
  <2>1. Known(t, h)
    BY <1>4 DEF Look, h
  <2>2. h \in Handles /\ src[h] \in Source
    BY <1>1, <1>2, <1>4 DEF IInv, TypeOK
  <2>3. PICK res \in {"KNOWN", "RTPNEW", "RTCPNEW", "COLLISION"} :
          th' = [th EXCEPT ![t] = [th[t] EXCEPT !.h = h, !.res = res, !.pc = After(t, res)]]
    BY <2>1 DEF Known, Announce, Threads
  <2>4. th'[t].pc = After(t, res) /\ th'[t].h = h /\ th'[t].rest = th[t].rest
    BY <1>1, <2>3 DEF Thread, IInv, TypeOK
  <2>5. th'[t].pc \in {"parse", "select", "track"} /\ (th'[t].pc = "parse" => t = "RTCP")
    BY <2>4, AfterFacts DEF Threads
  <2>6. SameSources
    <3>1. PICK a, b : src' = [src EXCEPT ![h][From(t)] = a, ![h].rtcp_to = b]
      BY <2>1 DEF Known
    <3>2. src'[h].ssrc = src[h].ssrc /\ src'[h].by = src[h].by
      <4>1. src'[h] = [src[h] EXCEPT ![From(t)] = a, !.rtcp_to = b]
        BY <2>2, <3>1 DEF IInv, TypeOK
      <4>2. CASE t = "RTP"
        BY <2>2, <4>1, <4>2 DEF From, Source
      <4>3. CASE t = "RTCP"
        BY <2>2, <4>1, <4>3 DEF From, Source
      <4>4. QED
        BY <4>2, <4>3 DEF Threads
    <3>3. \A k \in Handles : k # h => src'[k] = src[k]
      BY <2>2, <3>1 DEF IInv, TypeOK
    <3>4. QED
      BY <3>2, <3>3 DEF SameSources, Look
  <2>7. OthersStay(t) /\ app' = app /\ Made' = Made /\ Numbered'
    BY <2>3, <2>6, SameMade DEF OthersStay, Look, IInv, TypeOK, Structure, Numbered
  <2>8. Hand(t)'
    BY <1>1, <1>2, <1>4, <2>4, <2>5, <2>7 DEF Hand
  <2>9. QED
    BY <2>5, <2>6, <2>7, <2>8, StructureKept, QuietKeeps DEF Quiet
<1>5. QED
  BY <1>3, <1>4

LEMMA RenewKeeps ==
  ASSUME IInv, NEW t \in Threads, Renew(t)
  PROVE  Structure' /\ Identities'
<1>1. /\ th[t] \in Thread
      /\ t = "RTCP" => th[t].rest # <<>>
      /\ th[t].h \in Made \cup {Null}
  BY DEF IInv, TypeOK, Structure, InHand, Hand, Renew
<1>2. th' = [th EXCEPT ![t] = [th[t] EXCEPT !.pc = "link"]]
  BY DEF Renew
<1>3. /\ th'[t].pc = "link" /\ th'[t].h = th[t].h /\ th'[t].rest = th[t].rest
      /\ th'[t].ssrc = th[t].ssrc
  BY <1>1, <1>2 DEF Thread, IInv, TypeOK
<1>4. Made' = Made /\ src' = src /\ OthersStay(t) /\ Numbered' /\ app' = app
  BY <1>2 DEF Renew, Made, OthersStay, IInv, TypeOK, Structure, Numbered
<1>5. Hand(t)'
  BY <1>1, <1>3, <1>4 DEF Hand
<1>6. /\ \A h \in Made : src[h].ssrc # local_ssrc'
      /\ \A u \in Threads : th[u].ssrc # local_ssrc'
  BY DEF Renew, Unused
<1>7. OwnIsFree'
  <2>1. \A u \in Threads : th'[u].ssrc = th[u].ssrc
    BY <1>3, <1>4 DEF OthersStay
  <2>2. QED
    BY <1>4, <1>6, <2>1 DEF OwnIsFree
<1>8. NoneYet'
  <2>1. \A h \in Made : src[h].by = t /\ src[h].ssrc # Null => src[h].ssrc # th[t].ssrc
    BY DEF Renew, IInv, Identities, NoneYet
  <2>2. QED
    BY <1>3, <1>4, <2>1 DEF OthersStay, NoneYet, IInv, Identities
<1>9. Making'
  BY <1>3, <1>4 DEF OthersStay, Making, IInv, Identities
<1>10. Unmade' /\ MadeOncePerThread'
  BY <1>4 DEF Unmade, MadeOncePerThread, IInv, Identities
<1>11. QED
  BY <1>4, <1>5, <1>7, <1>8, <1>9, <1>10, StructureKept DEF Identities

\* A source put first in the queue is in it, with those that were.
LEMMA PushMade ==
  ASSUME ssrc_queue \in Seq(Handles), NEW n \in Handles, ssrc_queue' = <<n>> \o ssrc_queue
  PROVE  Made' = Made \cup {n}
<1>1. /\ DOMAIN ssrc_queue' = 1 .. (Len(ssrc_queue) + 1)
      /\ ssrc_queue'[1] = n
      /\ \A i \in 1 .. Len(ssrc_queue) : ssrc_queue'[i + 1] = ssrc_queue[i]
  OBVIOUS
<1>2. ASSUME NEW k \in Made PROVE k \in Made'
  <2>1. PICK i \in 1 .. Len(ssrc_queue) : k = ssrc_queue[i]
    BY <1>2 DEF Made
  <2>2. i + 1 \in DOMAIN ssrc_queue' /\ k = ssrc_queue'[i + 1]
    BY <1>1, <2>1
  <2>3. QED
    BY <2>2 DEF Made
<1>3. n \in Made'
  <2>1. 1 \in DOMAIN ssrc_queue'
    BY <1>1
  <2>2. QED
    BY <1>1, <2>1 DEF Made
<1>4. ASSUME NEW k \in Made' PROVE k \in Made \cup {n}
  <2>1. PICK i \in DOMAIN ssrc_queue' : k = ssrc_queue'[i]
    BY <1>4 DEF Made
  <2>2. CASE i = 1
    BY <1>1, <2>1, <2>2
  <2>3. CASE i # 1
    <3>1. i - 1 \in 1 .. Len(ssrc_queue) /\ (i - 1) + 1 = i
      BY <1>1, <2>1, <2>3
    <3>2. k = ssrc_queue[i - 1]
      BY <1>1, <2>1, <3>1
    <3>3. QED
      BY <3>1, <3>2 DEF Made
  <2>4. QED
    BY <2>2, <2>3
<1>5. QED
  BY <1>2, <1>3, <1>4

LEMMA LinkKeeps ==
  ASSUME IInv, NEW t \in Threads, Link(t)
  PROVE  Structure' /\ Identities'
<1> DEFINE n == Len(ssrc_queue) + 1
<1>1. /\ th[t] \in Thread
      /\ t = "RTCP" => th[t].rest # <<>>
      /\ ssrc_queue \in Seq(Handles)
      /\ Made \subseteq Handles
  BY FindIsMade DEF IInv, TypeOK, Structure, InHand, Hand, Link
<1>2. n \in Handles
  BY <1>1, SourcesAssumption DEF Link, Handles, SourcesAssumption
<1>3. n \notin Made
  BY <1>1 DEF IInv, Structure, Numbered, Made
<1>4. ssrc_queue' = <<n>> \o ssrc_queue
  BY DEF Link
<1>5. Made' = Made \cup {n}
  BY <1>1, <1>2, <1>4, PushMade
<1>6. Numbered'
  <2>1. Len(ssrc_queue') = n /\ DOMAIN ssrc_queue' = 1 .. n /\ ssrc_queue'[1] = n
    BY <1>1, <1>2, <1>4
  <2>2. ASSUME NEW i \in DOMAIN ssrc_queue' PROVE ssrc_queue'[i] = n + 1 - i
    <3>1. CASE i = 1
      BY <1>1, <2>1, <3>1
    <3>2. CASE i # 1
      <4>1. i - 1 \in DOMAIN ssrc_queue /\ ssrc_queue'[i] = ssrc_queue[i - 1]
        BY <1>1, <1>2, <1>4, <2>1, <2>2, <3>2
      <4>2. ssrc_queue[i - 1] = n - (i - 1)
        BY <4>1 DEF IInv, Structure, Numbered
      <4>3. QED
        BY <1>1, <2>1, <4>1, <4>2
    <3>3. QED
      BY <3>1, <3>2
  <2>3. QED
    BY <2>1, <2>2 DEF Numbered
<1> HIDE DEF n
<1>7. /\ th' = [th EXCEPT ![t] = [th[t] EXCEPT !.h = n, !.pc = "fill"]]
      /\ \E c : src' = [src EXCEPT ![n] = [src[n] EXCEPT !.by = t, !.counted = c]]
  BY DEF Link, n
<1>8. /\ th'[t].pc = "fill" /\ th'[t].h = n /\ th'[t].rest = th[t].rest
      /\ th'[t].ssrc = th[t].ssrc
  BY <1>1, <1>7 DEF Thread, IInv, TypeOK
<1>9. /\ src'[n].by = t /\ src'[n].ssrc = src[n].ssrc
      /\ \A k \in Handles : k # n => src'[k] = src[k]
  <2>1. src[n] \in Source
    BY <1>2 DEF IInv, TypeOK
  <2>2. QED
    BY <1>2, <1>7, <2>1 DEF Source, IInv, TypeOK
<1>10. src'[n].ssrc = Null
  BY <1>2, <1>3, <1>9 DEF IInv, Identities, Unmade
<1>11. OthersStay(t) /\ app' = app /\ local_ssrc' = local_ssrc
  BY <1>7 DEF Link, OthersStay, IInv, TypeOK
<1>12. n # Null
  BY <1>2, SourcesAssumption DEF Handles, SourcesAssumption
<1>13. Hand(t)'
  BY <1>1, <1>5, <1>8, <1>12 DEF Hand
<1>14. ASSUME NEW u \in Threads, u # t, th[u].pc \in {"fill", "poinit"}
       PROVE  th[u].h \in Made /\ src'[th[u].h] = src[th[u].h]
  BY <1>1, <1>3, <1>9, <1>14 DEF IInv, Structure, InHand, Hand
<1>15. Unmade' /\ MadeOncePerThread'
  BY <1>1, <1>5, <1>9, <1>10 DEF Unmade, MadeOncePerThread, IInv, Identities
<1>16. Making'
  BY <1>8, <1>9, <1>10, <1>11, <1>14 DEF Making, OthersStay, IInv, Identities
<1>17. OwnIsFree'
  <2>1. \A k \in Made' : src'[k].ssrc # Null => src'[k].ssrc # local_ssrc'
    BY <1>1, <1>5, <1>9, <1>10, <1>11 DEF IInv, Identities, OwnIsFree
  <2>2. th[t].ssrc # local_ssrc'
    BY <1>11 DEF Link, IInv, Identities, OwnIsFree
  <2>3. QED
    BY <1>8, <1>11, <2>1, <2>2 DEF OwnIsFree, OthersStay, IInv, Identities
<1>18. NoneYet'
  <2>1. ASSUME NEW k \in Made', src'[k].ssrc # Null
        PROVE  k \in Made /\ src'[k] = src[k]
    BY <1>1, <1>5, <1>9, <1>10, <2>1
  <2>2. \A k \in Made : src[k].by = t /\ src[k].ssrc # Null => src[k].ssrc # th[t].ssrc
    BY DEF Link, IInv, Identities, NoneYet
  <2>3. QED
    BY <1>8, <1>11, <2>1, <2>2 DEF NoneYet, OthersStay, IInv, Identities
<1>19. QED
  BY <1>5, <1>6, <1>11, <1>13, <1>15, <1>16, <1>17, <1>18, StructureKept DEF Identities

LEMMA FillKeeps ==
  ASSUME IInv, NEW t \in Threads, Fill(t)
  PROVE  Structure' /\ Identities'
<1> DEFINE k == th[t].h
<1>1. /\ th[t] \in Thread
      /\ t = "RTCP" => th[t].rest # <<>>
      /\ k \in Made /\ Made \subseteq Handles /\ k # Null
  BY FindIsMade DEF IInv, TypeOK, Structure, InHand, Hand, Fill
<1>2. th' = [th EXCEPT ![t] = [th[t] EXCEPT !.pc = "poinit"]]
  BY DEF Fill
<1>3. /\ th'[t].pc = "poinit" /\ th'[t].h = k /\ th'[t].rest = th[t].rest
  BY <1>1, <1>2 DEF Thread, IInv, TypeOK
<1>4. Made' = Made /\ OthersStay(t) /\ Numbered' /\ app' = app /\ local_ssrc' = local_ssrc
  BY <1>2 DEF Fill, Made, OthersStay, IInv, TypeOK, Structure, Numbered
<1> HIDE DEF k
<1>5. /\ src'[k].ssrc = th[t].ssrc /\ src'[k].by = t
      /\ \A j \in Handles : j # k => src'[j] = src[j]
  <2>1. src[k] \in Source /\ k \in Handles /\ src[k].by = t
    BY <1>1 DEF IInv, TypeOK, Identities, Making, Fill, k
  <2>2. PICK c : src' = [src EXCEPT ![k] = [src[k] EXCEPT !.ssrc = th[t].ssrc, ![From(t)] = th[t].addr,
                                                          !.rtcp_to = c]]
    BY DEF Fill, k
  <2>3. src'[k] = [src[k] EXCEPT !.ssrc = th[t].ssrc, ![From(t)] = th[t].addr, !.rtcp_to = c]
    BY <2>1, <2>2 DEF IInv, TypeOK
  <2>4. src'[k].ssrc = th[t].ssrc /\ src'[k].by = src[k].by
    <3>1. CASE t = "RTP"
      BY <2>1, <2>3, <3>1 DEF From, Source
    <3>2. CASE t = "RTCP"
      BY <2>1, <2>3, <3>2 DEF From, Source
    <3>3. QED
      BY <3>1, <3>2 DEF Threads
  <2>5. QED
    BY <2>1, <2>2, <2>4 DEF IInv, TypeOK
<1>6. Hand(t)'
  BY <1>1, <1>3, <1>4 DEF Hand
<1>7. Unmade'
  BY <1>1, <1>4, <1>5 DEF Unmade, IInv, Identities
<1>8. MadeOncePerThread'
  <2>1. \A j \in Made : src[j].by = t /\ src[j].ssrc # Null => src[j].ssrc # th[t].ssrc
    BY DEF Fill, IInv, Identities, NoneYet
  <2>2. QED
    BY <1>1, <1>4, <1>5, <2>1 DEF MadeOncePerThread, IInv, Identities
<1>9. ASSUME NEW u \in Threads, u # t, th[u].pc \in {"fill", "poinit"}
      PROVE  th[u].h \in Handles /\ src'[th[u].h] = src[th[u].h]
  <2>1. th[u].h \in Made /\ src[th[u].h].by = u /\ src[k].by = t
    BY <1>9 DEF IInv, Structure, InHand, Hand, Identities, Making, Fill, k
  <2>2. QED
    BY <1>1, <1>5, <1>9, <2>1
<1>10. Making'
  BY <1>3, <1>4, <1>5, <1>9 DEF Making, OthersStay, IInv, Identities
<1>11. OwnIsFree'
  <2>1. th[t].ssrc # local_ssrc
    BY DEF Fill, IInv, Identities, OwnIsFree
  <2>2. QED
    BY <1>1, <1>3, <1>4, <1>5, <2>1 DEF OwnIsFree, OthersStay, IInv, Identities
<1>12. NoneYet'
  BY <1>1, <1>3, <1>4, <1>5 DEF NoneYet, OthersStay, IInv, Identities
<1>13. QED
  BY <1>4, <1>6, <1>7, <1>8, <1>10, <1>11, <1>12, StructureKept DEF Identities

LEMMA CountKeeps ==
  ASSUME IInv, NEW t \in Threads, LinkFails(t) \/ Poinit(t) \/ CountRead(t) \/ CountWrite(t)
  PROVE  Structure' /\ Identities'
<1>1. /\ th[t] \in Thread
      /\ t = "RTCP" => th[t].rest # <<>>
      /\ th[t].h \in Made \cup {Null}
      /\ Made \subseteq Handles
  BY FindIsMade
     DEF IInv, TypeOK, Structure, InHand, Hand, LinkFails, Poinit, CountRead, CountWrite
<1>2. SameSources
  <2>1. CASE LinkFails(t) \/ CountRead(t) \/ CountWrite(t)
    BY <2>1 DEF LinkFails, CountRead, CountWrite, SameSources, shared
  <2>2. CASE Poinit(t)
    <3>1. th[t].h \in Handles
      BY <1>1, <2>2 DEF Poinit, IInv, Structure, InHand, Hand
    <3>2. src[th[t].h] \in Source
      BY <3>1 DEF IInv, TypeOK
    <3>3. src' = [src EXCEPT ![th[t].h] = [src[th[t].h] EXCEPT !.po = TRUE]]
      BY <2>2 DEF Poinit
    <3>4. /\ src'[th[t].h].ssrc = src[th[t].h].ssrc /\ src'[th[t].h].by = src[th[t].h].by
          /\ \A k \in Handles : k # th[t].h => src'[k] = src[k]
      BY <3>1, <3>2, <3>3 DEF Source, IInv, TypeOK
    <3>5. QED
      BY <2>2, <3>4 DEF Poinit, SameSources
  <2>3. QED
    BY <2>1, <2>2
<1>3. OthersStay(t) /\ app' = app /\ Made' = Made /\ Numbered'
  BY <1>2, SameMade DEF LinkFails, Poinit, CountRead, CountWrite, shared, OthersStay, IInv, TypeOK,
                        Structure, Numbered, SameSources
<1>4. CASE LinkFails(t)
  <2>1. th'[t] = Idle
    BY <1>4 DEF LinkFails, IInv, TypeOK
  <2>2. Hand(t)' /\ th'[t].pc = "select"
    BY <2>1, IdleHand DEF Idle
  <2>3. QED
    BY <1>2, <1>3, <2>2, StructureKept, QuietKeeps DEF Quiet
<1>5. CASE Poinit(t)
  <2> DEFINE todo == IF th[t].res = "NEW" THEN Raises(t) ELSE th[t].todo
  <2>1. /\ th' = [th EXCEPT ![t] = [th[t] EXCEPT !.pc = After(t, th[t].res), !.todo = todo]]
        /\ th[t].res = "NEW" => todo # <<>>
    <3>1. Raises(t) # <<>>
      BY DEF Raises
    <3>2. QED
      BY <1>5, <3>1 DEF Poinit
  <2> HIDE DEF todo
  <2>2. /\ th'[t].pc = After(t, th[t].res) /\ th'[t].todo = todo /\ th'[t].h = th[t].h
        /\ th'[t].rest = th[t].rest
    BY <1>1, <2>1 DEF Thread, IInv, TypeOK
  <2>3. th[t].h # Null
    BY <1>5 DEF Poinit, IInv, Structure, InHand, Hand
  <2>4. /\ th'[t].pc = "count" => todo # <<>>
        /\ th'[t].pc \in {"count", "parse", "select", "track"}
        /\ th'[t].pc = "parse" => t = "RTCP"
    BY <2>1, <2>2, AfterFacts, AfterIsPlace DEF Threads
  <2>5. Hand(t)'
    BY <1>1, <1>3, <2>2, <2>3, <2>4 DEF Hand
  <2>6. QED
    BY <1>2, <1>3, <2>4, <2>5, StructureKept, QuietKeeps DEF Quiet
<1>6. CASE CountRead(t)
  <2>1. PICK n \in Nat : th' = [th EXCEPT ![t] = [th[t] EXCEPT !.seen = n, !.pc = "counting"]]
    BY <1>6 DEF CountRead, IInv, TypeOK
  <2>2. /\ th'[t].pc = "counting" /\ th'[t].seen = n /\ th'[t].h = th[t].h
        /\ th'[t].rest = th[t].rest /\ th'[t].todo = th[t].todo
    BY <1>1, <2>1 DEF Thread, IInv, TypeOK
  <2>3. th[t].h # Null /\ th[t].todo # <<>>
    BY <1>6 DEF CountRead, IInv, Structure, InHand, Hand
  <2>4. Hand(t)'
    BY <1>1, <1>3, <2>2, <2>3 DEF Hand
  <2>5. QED
    BY <1>2, <1>3, <2>2, <2>4, StructureKept, QuietKeeps DEF Quiet
<1>7. CASE CountWrite(t)
  <2>1. PICK todo, pc :
          /\ th' = [th EXCEPT ![t] = [th[t] EXCEPT !.todo = todo, !.seen = Null, !.pc = pc]]
          /\ \/ pc = "count" /\ todo # <<>>
             \/ pc = "track" /\ t = "RTP"
             \/ pc = "parse" /\ t = "RTCP"
    <3> DEFINE todo == Tail(th[t].todo)
               pc   == IF todo # <<>> THEN "count" ELSE IF t = "RTP" THEN "track" ELSE "parse"
    <3>1. th' = [th EXCEPT ![t] = [th[t] EXCEPT !.todo = todo, !.seen = Null, !.pc = pc]]
      BY <1>7 DEF CountWrite
    <3>2. \/ pc = "count" /\ todo # <<>>
          \/ pc = "track" /\ t = "RTP"
          \/ pc = "parse" /\ t = "RTCP"
      BY DEF Threads
    <3> HIDE DEF todo, pc
    <3>3. QED
      BY <3>1, <3>2
  <2>2. /\ th'[t].pc = pc /\ th'[t].todo = todo /\ th'[t].h = th[t].h /\ th'[t].rest = th[t].rest
    BY <1>1, <2>1 DEF Thread, IInv, TypeOK
  <2>3. th[t].h # Null
    BY <1>7 DEF CountWrite, IInv, Structure, InHand, Hand
  <2>4. Hand(t)'
    BY <1>1, <1>3, <2>1, <2>2, <2>3 DEF Hand
  <2>5. QED
    BY <1>2, <1>3, <2>1, <2>2, <2>4, StructureKept, QuietKeeps DEF Quiet
<1>8. QED
  BY <1>4, <1>5, <1>6, <1>7

LEMMA RtpKeeps ==
  ASSUME IInv, StartProbation \/ Track \/ Add
  PROVE  Structure' /\ Identities'
<1>1. th["RTP"] \in Thread /\ th["RTP"].h \in Made \cup {Null} /\ Made \subseteq Handles
  BY FindIsMade DEF IInv, TypeOK, Structure, InHand, Hand, Threads
<1>2. SameSources
  <2>1. CASE Add
    BY <2>1 DEF Add, SameSources, shared
  <2>2. CASE StartProbation \/ Track
    <3> DEFINE h == th["RTP"].h
    <3>1. h \in Handles
      BY <1>1, <2>2 DEF StartProbation, Track, IInv, Structure, InHand, Hand, Threads
    <3>2. src[h] \in Source
      BY <3>1 DEF IInv, TypeOK
    <3> HIDE DEF h
    <3> DEFINE Tracked == \E p, b, n :
          src' = [src EXCEPT ![h] = [src[h] EXCEPT !.probation = p, !.bad = b, !.tracked = n]]
    <3>3. Tracked
      <4>1. \/ Stats(h, MIN_SEQUENTIAL, src[h].bad) \/ Stats(h, MIN_SEQUENTIAL - 1, src[h].bad)
            \/ Stats(h, 0, src[h].bad) \/ Stats(h, 0, TRUE)
            \/ Enqueues(h, 0)
        BY <2>2, Zenon DEF StartProbation, Track, h
      <4>2. ASSUME NEW p, NEW b, Stats(h, p, b)
            PROVE  Tracked
        <5>1. [src[h] EXCEPT !.probation = p, !.bad = b]
                = [src[h] EXCEPT !.probation = p, !.bad = b, !.tracked = src[h].tracked]
          BY <3>2 DEF Source
        <5>2. src' = [src EXCEPT ![h] = [src[h] EXCEPT !.probation = p, !.bad = b]]
          BY <4>2 DEF Stats
        <5>3. src' = [src EXCEPT ![h] =
                        [src[h] EXCEPT !.probation = p, !.bad = b, !.tracked = src[h].tracked]]
          BY <5>1, <5>2
        <5>4. QED
          BY <5>3
      <4>3. ASSUME Enqueues(h, 0)
            PROVE  Tracked
        BY <4>3 DEF Enqueues
      <4> HIDE DEF StartProbation, Tracked
      <4>4. QED
        BY <4>1, <4>2, <4>3
    <3>4. /\ src'[h].ssrc = src[h].ssrc /\ src'[h].by = src[h].by
          /\ \A k \in Handles : k # h => src'[k] = src[k]
      BY <3>1, <3>2, <3>3 DEF Source, IInv, TypeOK
    <3>5. QED
      BY <2>2, <3>4 DEF StartProbation, Track, SameSources
  <2>3. QED
    BY <2>1, <2>2
<1>3. OthersStay("RTP") /\ app' = app /\ Made' = Made /\ Numbered'
  BY <1>2, SameMade DEF StartProbation, Track, Add, shared, OthersStay, IInv, TypeOK, Structure, Numbered, SameSources
<1>4. CASE StartProbation \/ Track
  <2>1. PICK pc \in {"update", "add"} : th' = [th EXCEPT !["RTP"] = [th["RTP"] EXCEPT !.pc = pc]]
    BY <1>4 DEF StartProbation, Track
  <2>2. th'["RTP"].pc = pc /\ th'["RTP"].h = th["RTP"].h /\ th["RTP"].h # Null
    <3>1. th["RTP"].h # Null
      BY <1>4 DEF StartProbation, Track, IInv, Structure, InHand, Hand, Threads
    <3>2. QED
      BY <1>1, <2>1, <3>1 DEF Thread, IInv, TypeOK, Threads
  <2>3. Hand("RTP")'
    BY <1>1, <1>3, <2>2 DEF Hand
  <2>4. QED
    BY <1>2, <1>3, <2>2, <2>3, StructureKept, QuietKeeps DEF Quiet, Threads
<1>5. CASE Add
  <2>1. th'["RTP"] = Idle
    BY <1>5 DEF Add, IInv, TypeOK, Threads
  <2>2. Hand("RTP")' /\ th'["RTP"].pc = "select"
    BY <2>1, IdleHand DEF Idle, Threads
  <2>3. QED
    BY <1>2, <1>3, <2>2, StructureKept, QuietKeeps DEF Quiet, Threads
<1>6. QED
  BY <1>4, <1>5

LEMMA RtcpKeeps ==
  ASSUME IInv, Parse \/ SdesRead \/ SdesWrite
  PROVE  Structure' /\ Identities'
<1> DEFINE T == th["RTCP"]
<1>1. T \in Thread /\ T.h \in Made \cup {Null} /\ Made \subseteq Handles /\ T.rest # <<>> /\ T.h # Null
  BY FindIsMade DEF IInv, TypeOK, Structure, InHand, Hand, Threads, Parse, SdesRead, SdesWrite
<1>2. SameSources
  <2>1. CASE Parse \/ SdesRead
    BY <2>1 DEF Parse, SdesRead, SameSources, shared
  <2>2. CASE SdesWrite
    <3>1. src[T.h] \in Source /\ T.h \in Handles
      BY <1>1 DEF IInv, TypeOK
    <3>2. src' = [src EXCEPT ![T.h] = [src[T.h] EXCEPT !.probation = 1]]
      BY <2>2 DEF SdesWrite
    <3>3. /\ src'[T.h].ssrc = src[T.h].ssrc /\ src'[T.h].by = src[T.h].by
          /\ \A k \in Handles : k # T.h => src'[k] = src[k]
      BY <3>1, <3>2 DEF Source, IInv, TypeOK
    <3>4. QED
      BY <2>2, <3>3 DEF SdesWrite, SameSources
  <2>3. QED
    BY <2>1, <2>2
<1>3. \/ th'["RTCP"] = NextPacket(Tail(T.rest))
      \/ th'["RTCP"] = [T EXCEPT !.pc = "sdes"]
  BY DEF Parse, SdesRead, SdesWrite, IInv, TypeOK, Threads
<1>4. OthersStay("RTCP") /\ app' = app /\ Made' = Made /\ Numbered'
  <2>1. OthersStay("RTCP")
    BY DEF Parse, SdesRead, SdesWrite, OthersStay, IInv, TypeOK
  <2>2. QED
    BY <1>2, <2>1, SameMade DEF Parse, SdesRead, SdesWrite, shared, IInv, Structure, Numbered, SameSources
<1>5. Hand("RTCP")' /\ th'["RTCP"].pc \in {"select", "parse", "sdes"}
  <2>1. CASE th'["RTCP"] = Idle
    BY <2>1, IdleHand DEF Idle, Threads
  <2>2. CASE Tail(T.rest) # <<>> /\ th'["RTCP"] = [T EXCEPT !.rest = Tail(T.rest), !.pc = "parse"]
    <3>1. /\ th'["RTCP"].pc = "parse" /\ th'["RTCP"].h = T.h
          /\ th'["RTCP"].rest # <<>>
      BY <1>1, <2>2 DEF Thread
    <3>2. QED
      BY <1>1, <1>4, <3>1 DEF Hand
  <2>3. CASE th'["RTCP"] = [T EXCEPT !.pc = "sdes"]
    <3>1. /\ th'["RTCP"].pc = "sdes" /\ th'["RTCP"].h = T.h
          /\ th'["RTCP"].rest = T.rest
      BY <1>1, <2>3 DEF Thread
    <3>2. QED
      BY <1>1, <1>4, <3>1 DEF Hand
  <2>4. QED
    BY <1>3, <2>1, <2>2, <2>3 DEF NextPacket
<1>6. QED
  BY <1>2, <1>4, <1>5, StructureKept, QuietKeeps DEF Quiet, Threads

LEMMA ArriveKeeps ==
  ASSUME IInv, NEW t \in Threads, NEW x, NEW a, NEW c, Arrive(t, x, a, c), t = "RTCP" => c # <<>>
  PROVE  Structure' /\ Identities'
<1>1. SameSources /\ app' = app
  BY DEF Arrive, SameSources, shared
<1>2. OthersStay(t) /\ Made' = Made /\ Numbered'
  BY <1>1, SameMade DEF Arrive, OthersStay, IInv, TypeOK, Structure, Numbered, SameSources
<1>3. th'[t] = [Idle EXCEPT !.pc = "recv", !.ssrc = x, !.addr = a, !.rest = c]
  BY DEF Arrive, IInv, TypeOK
<1>4. th'[t].pc = "recv" /\ th'[t].h = Null /\ th'[t].rest = c
  BY <1>3 DEF Idle
<1>5. Hand(t)'
  BY <1>4 DEF Hand
<1>6. QED
  BY <1>1, <1>2, <1>4, <1>5, StructureKept, QuietKeeps DEF Quiet

LEMMA OtherKeeps ==
  ASSUME IInv, Start \/ RtpArrives \/ RtcpArrives \/ LoopArrives \/ Application
  PROVE  Structure' /\ Identities'
<1>1. CASE Start
  <2>1. SameSources /\ app' = app
    BY <1>1 DEF Start, SameSources
  <2>2. OthersStay("RTCP") /\ Made' = Made /\ Numbered'
    BY <1>1, <2>1, SameMade DEF Start, OthersStay, IInv, TypeOK, Structure, Numbered, SameSources
  <2>3. th["RTCP"] \in Thread /\ th'["RTCP"] = [th["RTCP"] EXCEPT !.pc = "select"]
    BY <1>1 DEF Start, IInv, TypeOK, Threads
  <2>4. th'["RTCP"].pc = "select" /\ th'["RTCP"].h = th["RTCP"].h
    BY <2>3 DEF Thread
  <2>5. Hand("RTCP")'
    BY <2>2, <2>4 DEF Hand, IInv, Structure, InHand, Threads
  <2>6. QED
    BY <2>1, <2>2, <2>4, <2>5, StructureKept, QuietKeeps DEF Quiet, Threads
<1>2. CASE RtpArrives
  BY <1>2, ArriveKeeps DEF RtpArrives, Threads
<1>3. CASE RtcpArrives
  <2>1. PICK p \in RtcpPackets, c \in Compounds : Arrive("RTCP", p[1], p[2], c)
    BY <1>3 DEF RtcpArrives
  <2>2. c # <<>>
    BY SourcesAssumption DEF SourcesAssumption
  <2>3. QED
    BY <2>1, <2>2, ArriveKeeps DEF Threads
<1>4. CASE LoopArrives
  <2>1. PICK a : Arrive("RTCP", local_ssrc, a, <<"RR", "SDES">>)
    BY <1>4 DEF LoopArrives
  <2>2. <<"RR", "SDES">> # <<>>
    OBVIOUS
  <2>3. QED
    BY <2>1, <2>2, ArriveKeeps DEF Threads
<1>5. CASE Application
  <2>1. SameSources /\ th' = th
    BY <1>5 DEF Application, FillBuffers, Filled, Walk, SameSources, shared
  <2>2. Made' = Made /\ Numbered'
    BY <2>1, SameMade DEF IInv, Structure, Numbered, SameSources
  <2>3. Identities'
    <3>1. Unmade' /\ MadeOncePerThread'
      BY <2>1, SourcesStay
    <3>2. src' = src /\ local_ssrc' = local_ssrc
      BY <1>5 DEF Application, FillBuffers, Filled, Walk, shared
    <3>3. Making' /\ OwnIsFree' /\ NoneYet'
      BY <2>1, <2>2, <3>2 DEF Making, OwnIsFree, NoneYet, IInv, Identities
    <3>4. QED
      BY <3>1, <3>3 DEF Identities
  <2>4. InHand'
    BY <2>1, <2>2 DEF InHand, Hand, IInv, Structure
  <2>5. WalksSources'
    <3>1. CASE FillBuffers
      BY <3>1 DEF FillBuffers, WalksSources, IInv, TypeOK
    <3>2. CASE Filled
      BY <3>2 DEF Filled, WalksSources, IInv, TypeOK
    <3>3. CASE Walk
      <4>1. next_active[app.at] \in Handles \cup {Null}
        BY <3>3 DEF Walk, IInv, TypeOK, Structure, WalksSources
      <4>2. QED
        BY <3>3, <4>1 DEF Walk, WalksSources, IInv, TypeOK
    <3>4. QED
      BY <1>5, <3>1, <3>2, <3>3 DEF Application
  <2>6. QED
    BY <2>2, <2>3, <2>4, <2>5 DEF Structure
<1>6. QED
  BY <1>1, <1>2, <1>3, <1>4, <1>5

-----------------------------------------------------------------------------
LEMMA InitIInv == Init => IInv
<1> SUFFICES ASSUME Init PROVE IInv
  OBVIOUS
<1>1. Made = {}
  BY DEF Init, Made
<1>2. TypeOK
  <2>1. Blank \in Source
    BY DEF Blank, Source, MIN_SEQUENTIAL
  <2>2. [Idle EXCEPT !.pc = "none"] \in Thread
    BY IdleIsThread DEF Thread
  <2>3. th \in [Threads -> Thread]
    BY <2>2, IdleIsThread DEF Init
  <2>4. local_ssrc \in AllSsrcs
    BY SourcesAssumption DEF Init, AllSsrcs, SourcesAssumption
  <2>5. src \in [Handles -> Source] /\ next_active \in [Handles -> Handles \cup {Null}]
    BY <2>1 DEF Init
  <2>6. ssrc_queue \in Seq(Handles)
    BY DEF Init
  <2>7. app \in [pc : {"idle", "filling", "walking", "ended"}, at : Handles \cup {Null}]
    BY DEF Init
  <2>8. QED
    BY <2>3, <2>4, <2>5, <2>6, <2>7 DEF Init, TypeOK
<1>3. Structure
  <2>1. \A t \in Threads : th[t].pc \in {"select", "none"} /\ th[t].h = Null
    BY DEF Init, Idle
  <2>2. \A t \in Threads : Hand(t)
    BY <2>1 DEF Hand
  <2>3. Numbered /\ WalksSources
    BY DEF Init, Numbered, WalksSources
  <2>4. QED
    BY <2>2, <2>3 DEF Structure, InHand
<1>4. Identities
  <2>1. \A t \in Threads : th[t].pc \in {"select", "none"}
    BY DEF Init, Idle
  <2>2. \A h \in Handles : src[h].ssrc = Null
    BY DEF Init, Blank
  <2>3. QED
    BY <1>1, <2>1, <2>2 DEF Identities, Unmade, Making, OwnIsFree, NoneYet, MadeOncePerThread
<1>5. QED
  BY <1>2, <1>3, <1>4 DEF IInv

LEMMA NextIInv == IInv /\ [Next]_vars => IInv'
<1> SUFFICES ASSUME IInv, [Next]_vars PROVE IInv'
  OBVIOUS
<1>1. TypeOK'
  BY TypesKept DEF IInv
<1>2. Structure' /\ Identities'
  <2>1. ASSUME NEW t \in Threads, Receiver(t) PROVE Structure' /\ Identities'
    BY <2>1, CheckKeeps, LookKeeps, RenewKeeps, LinkKeeps, FillKeeps, CountKeeps DEF Receiver
  <2>2. CASE RtpThread
    BY <2>1, <2>2, RtpKeeps DEF RtpThread, Threads
  <2>3. CASE RtcpThread
    BY <2>1, <2>3, RtcpKeeps DEF RtcpThread, Threads
  <2>4. CASE Start \/ RtpArrives \/ RtcpArrives \/ LoopArrives \/ Application
    BY <2>4, OtherKeeps
  <2>5. CASE UNCHANGED vars
    <3>1. Made' = Made
      BY <2>5 DEF vars, Made
    <3>2. Structure'
      BY <2>5, <3>1 DEF vars, IInv, Structure, Numbered, InHand, Hand, WalksSources
    <3>3. Identities'
      BY <2>5, <3>1 DEF vars, IInv, Identities, Unmade, Making, OwnIsFree, NoneYet, MadeOncePerThread
    <3>4. QED
      BY <3>2, <3>3
  <2>6. QED
    BY <2>2, <2>3, <2>4, <2>5 DEF Next
<1>3. QED
  BY <1>1, <1>2 DEF IInv

\* Types, whatever the threads do.
THEOREM TypeCorrect == Spec => []TypeOK
<1>1. IInv => TypeOK
  BY DEF IInv
<1>2. QED
  BY InitIInv, NextIInv, <1>1, PTL DEF Spec

\* No thread makes two sources for one SSRC, although rtp_ssrc_check looks for the
\* source without the lock under which it makes one.
THEOREM OncePerThread == Spec => []MadeOncePerThread
<1>1. IInv => MadeOncePerThread
  BY DEF IInv, Identities
<1>2. QED
  BY InitIInv, NextIInv, <1>1, PTL DEF Spec

-----------------------------------------------------------------------------
(***************************************************************************)
(* Whole sources: what the application meets when it walks the active      *)
(* queue. rtp_ssrc_check waits for the mutex before it looks without it;   *)
(* the walk is safe because of that alone.                                 *)
(***************************************************************************)
Whole(h) == src[h].po /\ src[h].rtp_from # Null

Building(h) == \E t \in Threads : th[t].pc \in {"fill", "poinit"} /\ th[t].h = h

\* A source without a playout buffer is being made.
Unfinished == \A h \in Made : src[h].po \/ Building(h)

\* A source that is not in the queue has no sender.
NoSender == \A h \in Handles : h \notin Made => src[h].rtp_from = Null

\* Once the RTP thread has waited for the mutex, the sources it knows are finished:
\* those that the RTCP thread makes meanwhile have no RTP address.
LookSees == th["RTP"].pc = "look" => \A h \in Made : src[h].rtp_from # Null => src[h].po

Answer(t) ==
  /\ th[t].pc \in {"collide", "renew", "link", "fill", "poinit", "count", "counting"} => th[t].res \in {"NEW", "COLLISION"}
  /\ t = "RTP" /\ th[t].pc # "select" => th[t].addr # Null
  /\ t = "RTP" /\ th[t].pc = "track" /\ th[t].res = "KNOWN" => Whole(th[t].h)

TrackedWhole == \A h \in Handles : src[h].tracked > 0 => Whole(h)

QueueTracked ==
  /\ active # Null => src[active].tracked > 0
  /\ \A h \in Handles : next_active[h] # Null => src[next_active[h]].tracked > 0
  /\ app.at # Null => src[app.at].tracked > 0

WInv ==
  /\ MakesUnderLock /\ Unfinished /\ NoSender /\ LookSees
  /\ (\A t \in Threads : Answer(t)) /\ TrackedWhole /\ QueueTracked

\* The fields WInv is about stay what they are.
SameWhole ==
  /\ \A h \in Handles : /\ src'[h].po = src[h].po /\ src'[h].rtp_from = src[h].rtp_from
                        /\ src'[h].tracked = src[h].tracked
  /\ active' = active /\ next_active' = next_active /\ app' = app
  /\ ssrc_queue' = ssrc_queue

\* What every step leaves of WInv that leaves these fields.
LEMMA SameWholeKeeps ==
  ASSUME IInv, WInv, SameWhole
  PROVE  /\ Made' = Made /\ NoSender' /\ TrackedWhole' /\ QueueTracked'
         /\ \A h \in Handles : Whole(h)' <=> Whole(h)
<1>1. Made' = Made
  BY DEF SameWhole, Made
<1>2. \A h \in Handles : Whole(h)' <=> Whole(h)
  BY DEF SameWhole, Whole
<1>3. NoSender' /\ TrackedWhole'
  BY <1>1, <1>2 DEF SameWhole, NoSender, TrackedWhole, WInv
<1>4. QueueTracked'
  <2>1. /\ active \in Handles \cup {Null} /\ next_active \in [Handles -> Handles \cup {Null}]
        /\ app.at \in Handles \cup {Null}
    BY DEF IInv, TypeOK
  <2>2. QED
    BY <2>1 DEF SameWhole, QueueTracked, WInv
<1>5. QED
  BY <1>1, <1>2, <1>3, <1>4

LEMMA OtherAnswers ==
  ASSUME IInv, WInv, NEW t \in Threads, OthersStay(t), NEW u \in Threads, u # t,
         \A h \in Handles : Whole(h) => Whole(h)'
  PROVE  Answer(u)'
<1>1. th'[u] = th[u]
  BY DEF OthersStay
<1>2. th[u].pc = "track" => th[u].h \in Handles
  <2>1. th[u].pc = "track" => th[u].h \in Made
    BY DEF IInv, Structure, InHand, Hand
  <2>2. QED
    BY <2>1, FindIsMade DEF IInv
<1>3. Answer(u)
  BY DEF WInv
<1>4. QED
  BY <1>1, <1>2, <1>3 DEF Answer

\* A step that neither starts to look, nor starts or ends making a source.
LEMMA CalmKeeps ==
  ASSUME IInv, WInv, SameWhole, NEW t \in Threads, OthersStay(t), syn' = syn,
         th[t].pc \notin {"fill", "poinit"},
         th'[t].pc \notin {"look", "fill", "poinit"},
         Answer(t)'
  PROVE  WInv'
<1>1. /\ Made' = Made /\ NoSender' /\ TrackedWhole' /\ QueueTracked'
      /\ \A h \in Handles : Whole(h)' <=> Whole(h)
  BY SameWholeKeeps
<1>2. \A u \in Threads : u # t => th'[u] = th[u]
  BY DEF OthersStay
<1>3. Made \subseteq Handles
  BY FindIsMade DEF IInv
<1>4. MakesUnderLock'
  BY <1>2 DEF MakesUnderLock, WInv
<1>5. Unfinished'
  <2>1. \A h : Building(h) => Building(h)'
    BY <1>2 DEF Building
  <2>2. QED
    BY <1>1, <1>3, <2>1 DEF Unfinished, SameWhole, WInv
<1>6. LookSees'
  BY <1>1, <1>2, <1>3 DEF LookSees, SameWhole, WInv, Threads
<1>7. \A u \in Threads : Answer(u)'
  BY <1>1, OtherAnswers
<1>8. QED
  BY <1>1, <1>4, <1>5, <1>6, <1>7 DEF WInv

\* What a thread's record becomes keeps its part of WInv.
LEMMA CalmSteps ==
  ASSUME IInv, WInv, NEW t \in Threads,
         \/ Receive(t) \/ Compare(t) \/ Collide(t) \/ Renew(t) \/ LinkFails(t) \/ CountRead(t) \/ CountWrite(t)
  PROVE  WInv'
<1>0. th[t] \in Thread /\ th \in [Threads -> Thread] /\ Answer(t)
  BY DEF IInv, TypeOK, WInv
<1>1. SameWhole /\ syn' = syn
  BY DEF Receive, Compare, Collide, Renew, LinkFails, CountRead, CountWrite, shared, SameWhole
<1>2. OthersStay(t)
  BY <1>0 DEF Receive, Compare, Collide, Renew, LinkFails, CountRead, CountWrite, OthersStay
<1>3. th[t].pc \in {"recv", "check", "collide", "renew", "link", "count", "counting"}
  BY DEF Receive, Compare, Collide, Renew, LinkFails, CountRead, CountWrite
<1>4. Answer(t)' /\ th'[t].pc \notin {"look", "fill", "poinit"}
  <2>1. CASE Receive(t)
    <3>1. th'[t] = [th[t] EXCEPT !.pc = "check"]
      BY <1>0, <2>1 DEF Receive
    <3>2. th'[t].pc = "check" /\ th'[t].addr = th[t].addr
      BY <1>0, <3>1 DEF Thread
    <3>3. QED
      BY <1>0, <1>3, <3>2 DEF Answer
  <2>c. CASE Compare(t)
    <3>1. PICK res : th'[t] = [th[t] EXCEPT !.pc = "lock", !.res = res]
      BY <1>0, <2>c DEF Compare
    <3>2. th'[t].pc = "lock" /\ th'[t].addr = th[t].addr
      BY <1>0, <3>1 DEF Thread
    <3>3. th[t].pc = "check"
      BY <2>c DEF Compare
    <3>4. QED
      BY <1>0, <3>2, <3>3 DEF Answer
  <2>2. CASE Collide(t)
    <3>1. PICK pc \in {After(t, "COLLISION"), "renew"} :
            th'[t] = [th[t] EXCEPT !.pc = pc] /\ th[t].pc = "collide"
      BY <1>0, <2>2 DEF Collide
    <3>2. th'[t].pc = pc /\ th'[t].res = th[t].res /\ th'[t].addr = th[t].addr
      BY <1>0, <3>1 DEF Thread
    <3>3. pc \in {"renew", "select", "parse"}
      BY <3>1, AfterFacts, AfterIsPlace DEF Threads
    <3>4. QED
      BY <1>0, <3>1, <3>2, <3>3 DEF Answer
  <2>3. CASE Renew(t)
    <3>1. th'[t] = [th[t] EXCEPT !.pc = "link"]
      BY <1>0, <2>3 DEF Renew
    <3>2. th'[t].pc = "link" /\ th'[t].res = th[t].res /\ th'[t].addr = th[t].addr
      BY <1>0, <3>1 DEF Thread
    <3>3. th[t].pc = "renew"
      BY <2>3 DEF Renew
    <3>4. QED
      BY <1>0, <3>2, <3>3 DEF Answer
  <2>4. CASE LinkFails(t)
    <3>1. th'[t].pc = "select"
      BY <1>0, <2>4 DEF LinkFails, Idle
    <3>2. QED
      BY <3>1 DEF Answer
  <2>5. CASE CountRead(t)
    <3>1. PICK n : th'[t] = [th[t] EXCEPT !.seen = n, !.pc = "counting"]
      BY <1>0, <2>5 DEF CountRead
    <3>2. th'[t].pc = "counting" /\ th'[t].res = th[t].res /\ th'[t].addr = th[t].addr
      BY <1>0, <3>1 DEF Thread
    <3>3. th[t].pc = "count"
      BY <2>5 DEF CountRead
    <3>4. QED
      BY <1>0, <3>2, <3>3 DEF Answer
  <2>6. CASE CountWrite(t)
    <3>1. PICK pc \in {"count", "track", "parse"} :
            th'[t] = [th[t] EXCEPT !.todo = Tail(th[t].todo), !.seen = Null, !.pc = pc]
      BY <1>0, <2>6 DEF CountWrite
    <3>2. th'[t].pc = pc /\ th'[t].res = th[t].res /\ th'[t].addr = th[t].addr
      BY <1>0, <3>1 DEF Thread
    <3>3. th[t].pc = "counting"
      BY <2>6 DEF CountWrite
    <3>4. QED
      BY <1>0, <3>2, <3>3 DEF Answer
  <2>7. QED
    BY <2>1, <2>c, <2>2, <2>3, <2>4, <2>5, <2>6
<1>5. QED
  BY <1>1, <1>2, <1>3, <1>4, CalmKeeps

\* The mutex is free: nobody is making a source.
LEMMA CheckWhole ==
  ASSUME IInv, WInv, NEW t \in Threads, Check(t)
  PROVE  WInv'
<1>0. th[t] \in Thread /\ th \in [Threads -> Thread] /\ Answer(t)
  BY DEF IInv, TypeOK, WInv
<1>1. SameWhole /\ syn' = syn /\ src' = src
  BY DEF Check, shared, SameWhole
<1>2. /\ Made' = Made /\ NoSender' /\ TrackedWhole' /\ QueueTracked'
      /\ \A h \in Handles : Whole(h)' <=> Whole(h)
  BY <1>1, SameWholeKeeps
<1>3. OthersStay(t)
  BY <1>0 DEF Check, OthersStay
<1>5. /\ th'[t].pc \in {"collide", "look"} /\ th'[t].addr = th[t].addr /\ th'[t].res = th[t].res
      /\ th'[t].pc = "collide" => th[t].res = "COLLISION"
  <2>1. CASE th[t].res = "COLLISION"
    BY <1>0, <2>1 DEF Check, Thread
  <2>2. CASE th[t].res # "COLLISION"
    BY <1>0, <2>2 DEF Check, Thread
  <2>3. QED
    BY <2>1, <2>2
<1>6. \A u \in Threads : th[u].pc \notin {"fill", "poinit"}
  <2>1. syn \notin Threads
    BY DEF Check, Threads
  <2>2. QED
    BY <2>1 DEF WInv, MakesUnderLock
<1>7. \A h \in Made : src[h].po
  BY <1>6 DEF WInv, Unfinished, Building
<1>8. Unfinished' /\ LookSees'
  BY <1>1, <1>2, <1>7 DEF Unfinished, LookSees
<1>9. MakesUnderLock'
  <2>1. th'[t].pc \notin {"fill", "poinit"} /\ syn \notin Threads /\ syn' = syn
    BY <1>1, <1>5 DEF Check, Threads
  <2>2. \A u \in Threads : u # t => th'[u] = th[u]
    BY <1>3 DEF OthersStay
  <2>3. QED
    BY <2>1, <2>2 DEF WInv, MakesUnderLock
<1>10. Answer(t)'
  BY <1>0, <1>5 DEF Answer, Check
<1>11. \A u \in Threads : Answer(u)'
  BY <1>2, <1>3, <1>10, OtherAnswers
<1>12. QED
  BY <1>2, <1>8, <1>9, <1>11 DEF WInv

\* The looked-for source is known, or has to be made.
LEMMA LookWhole ==
  ASSUME IInv, WInv, NEW t \in Threads, Look(t)
  PROVE  WInv'
<1> DEFINE h == Find(th[t].ssrc)
<1>1. /\ th[t] \in Thread /\ th \in [Threads -> Thread] /\ src \in [Handles -> Source] /\ Answer(t)
      /\ Made \subseteq Handles /\ Null \notin Made /\ th[t].pc = "look"
  BY FindIsMade, SourcesAssumption
     DEF IInv, TypeOK, WInv, Look, SourcesAssumption, Handles
<1>2. h # Null => h \in Made
  BY <1>1, FindIsMade DEF IInv
<1>3. syn' = syn /\ ssrc_queue' = ssrc_queue /\ active' = active /\ next_active' = next_active /\ app' = app
  BY DEF Look
<1> HIDE DEF h
<1>4. CASE h = Null
  <2>1. src' = src /\ th' = [th EXCEPT ![t] = [th[t] EXCEPT !.pc = "link", !.res = "NEW"]]
    BY <1>4 DEF Look, h
  <2>2. th'[t].pc = "link" /\ th'[t].res = "NEW" /\ th'[t].addr = th[t].addr
    BY <1>1, <2>1 DEF Thread
  <2>3. SameWhole
    BY <1>3, <2>1 DEF SameWhole
  <2>4. OthersStay(t)
    BY <1>1, <2>1 DEF OthersStay
  <2>5. Answer(t)'
    BY <1>1, <2>2 DEF Answer
  <2>6. QED
    BY <1>1, <1>3, <2>2, <2>3, <2>4, <2>5, CalmKeeps
<1>5. CASE h # Null
  <2>1. Known(t, h)
    BY <1>5 DEF Look, h
  <2>2. h \in Made /\ h \in Handles /\ src[h] \in Source
    BY <1>1, <1>2, <1>5
  <2> DEFINE first == src[h][From(t)] = Null
             res == IF first THEN Announce(t)
                    ELSE IF src[h][From(t)] # th[t].addr THEN "COLLISION" ELSE "KNOWN"
  <2>3. th' = [th EXCEPT ![t] = [th[t] EXCEPT !.h = h, !.res = res, !.pc = After(t, res)]]
    BY <2>1 DEF Known
  <2>4. res \in {"KNOWN", "RTPNEW", "RTCPNEW", "COLLISION"} /\ (res = "KNOWN" => src[h][From(t)] # Null)
    BY DEF Announce, Threads
  <2> HIDE DEF res
  <2>5. /\ th'[t].pc = After(t, res) /\ th'[t].h = h /\ th'[t].res = res /\ th'[t].addr = th[t].addr
    BY <1>1, <2>3 DEF Thread
  <2>6. th'[t].pc \in {"parse", "select", "track"} /\ (th'[t].pc = "track" => t = "RTP")
    BY <2>4, <2>5, AfterFacts DEF Threads
  <2>7. OthersStay(t)
    BY <1>1, <2>3 DEF OthersStay
  <2>8. /\ \A k \in Handles : k # h => src'[k] = src[k]
        /\ src'[h].po = src[h].po /\ src'[h].tracked = src[h].tracked
        /\ src[h].rtp_from # Null => src'[h].rtp_from # Null
        /\ src'[h].rtp_from # src[h].rtp_from => t = "RTP" /\ src[h].rtp_from = Null
    <3>1. PICK b : src' = [src EXCEPT ![h] = [src[h] EXCEPT ![From(t)] = IF first THEN th[t].addr ELSE @,
                                                            !.rtcp_to = b]]
      BY <2>1, <2>2 DEF Known
    <3>2. src'[h] = [src[h] EXCEPT ![From(t)] = IF first THEN th[t].addr ELSE @, !.rtcp_to = b]
      BY <1>1, <2>2, <3>1
    <3>3. CASE t = "RTP"
      <4>1. src'[h] = [src[h] EXCEPT !.rtp_from = IF src[h].rtp_from = Null THEN th[t].addr ELSE @, !.rtcp_to = b]
        BY <3>2, <3>3 DEF From
      <4>2. QED
        BY <1>1, <2>2, <3>1, <3>3, <4>1 DEF Source
    <3>4. CASE t = "RTCP"
      <4>1. PICK a : src'[h] = [src[h] EXCEPT !.rtcp_from = a, !.rtcp_to = b]
        BY <3>2, <3>4 DEF From
      <4>2. QED
        BY <1>1, <2>2, <3>1, <3>4, <4>1 DEF Source
    <3>5. QED
      BY <3>3, <3>4 DEF Threads
  <2>9. \A k \in Handles : /\ src'[k].po = src[k].po /\ src'[k].tracked = src[k].tracked
                           /\ src[k].rtp_from # Null => src'[k].rtp_from # Null
                           /\ Whole(k) => Whole(k)'
    BY <2>8 DEF Whole
  <2>10. Made' = Made
    BY <1>3 DEF Made
  <2>11. MakesUnderLock'
    BY <1>1, <1>3, <2>6, <2>7 DEF MakesUnderLock, OthersStay, WInv
  <2>12. Unfinished'
    <3>1. \A k : Building(k) => Building(k)'
      BY <1>1, <2>7 DEF Building, OthersStay
    <3>2. QED
      BY <1>1, <2>9, <2>10, <3>1 DEF Unfinished, WInv
  <2>13. NoSender'
    BY <2>2, <2>8, <2>10 DEF NoSender, WInv
  <2>14. LookSees'
    <3>1. CASE t = "RTP"
      BY <2>5, <2>6, <3>1 DEF LookSees
    <3>2. CASE t = "RTCP"
      <4>1. \A k \in Handles : src'[k].rtp_from = src[k].rtp_from
        BY <2>8, <3>2
      <4>2. th'["RTP"] = th["RTP"]
        BY <2>7, <3>2 DEF OthersStay, Threads
      <4>3. QED
        BY <1>1, <2>9, <2>10, <4>1, <4>2 DEF LookSees, WInv
    <3>3. QED
      BY <3>1, <3>2 DEF Threads
  <2>15. Answer(t)'
    <3>1. t = "RTP" /\ res = "KNOWN" => Whole(h)
      <4>1. t = "RTP" /\ res = "KNOWN" => src[h].rtp_from # Null
        BY <2>4 DEF From
      <4>2. QED
        BY <1>1, <2>2, <4>1 DEF Whole, LookSees, WInv
    <3>2. QED
      BY <1>1, <2>2, <2>5, <2>6, <2>9, <3>1 DEF Answer
  <2>16. \A u \in Threads : Answer(u)'
    BY <2>7, <2>9, <2>15, OtherAnswers
  <2>17. TrackedWhole'
    BY <2>9 DEF TrackedWhole, WInv
  <2>18. QueueTracked'
    <3>1. /\ active \in Handles \cup {Null} /\ next_active \in [Handles -> Handles \cup {Null}]
          /\ app.at \in Handles \cup {Null}
      BY DEF IInv, TypeOK
    <3>2. QED
      BY <1>3, <2>9, <3>1 DEF QueueTracked, WInv
  <2>19. QED
    BY <2>11, <2>12, <2>13, <2>14, <2>16, <2>17, <2>18 DEF WInv
<1>6. QED
  BY <1>4, <1>5

\* A new source has no sender yet, and its maker holds the mutex.
LEMMA LinkWhole ==
  ASSUME IInv, WInv, NEW t \in Threads, Link(t)
  PROVE  WInv'
<1> DEFINE n == Len(ssrc_queue) + 1
<1>1. /\ th[t] \in Thread /\ th \in [Threads -> Thread] /\ src \in [Handles -> Source] /\ Answer(t)
      /\ ssrc_queue \in Seq(Handles) /\ Made \subseteq Handles /\ th[t].pc = "link" /\ syn = "free"
  BY FindIsMade DEF IInv, TypeOK, WInv, Link
<1>2. n \in Handles
  BY <1>1, SourcesAssumption DEF Link, Handles, SourcesAssumption
<1>3. n \notin Made
  BY <1>1 DEF IInv, Structure, Numbered, Made
<1>4. Made' = Made \cup {n}
  <2>1. ssrc_queue' = <<n>> \o ssrc_queue
    BY DEF Link
  <2>2. QED
    BY <1>1, <1>2, <2>1, PushMade
<1> HIDE DEF n
<1>5. /\ th' = [th EXCEPT ![t] = [th[t] EXCEPT !.h = n, !.pc = "fill"]]
      /\ \E c : src' = [src EXCEPT ![n] = [src[n] EXCEPT !.by = t, !.counted = c]]
      /\ syn' = t /\ active' = active /\ next_active' = next_active /\ app' = app
  BY DEF Link, n
<1>6. th'[t].pc = "fill" /\ th'[t].h = n /\ th'[t].res = th[t].res /\ th'[t].addr = th[t].addr
  BY <1>1, <1>5 DEF Thread
<1>7. \A k \in Handles : /\ src'[k].po = src[k].po /\ src'[k].rtp_from = src[k].rtp_from
                         /\ src'[k].tracked = src[k].tracked
  <2>1. src[n] \in Source
    BY <1>1, <1>2
  <2>2. src'[n].po = src[n].po /\ src'[n].rtp_from = src[n].rtp_from /\ src'[n].tracked = src[n].tracked
    BY <1>1, <1>2, <1>5, <2>1 DEF Source
  <2>3. \A k \in Handles : k # n => src'[k] = src[k]
    BY <1>1, <1>2, <1>5
  <2>4. QED
    BY <2>2, <2>3
<1>8. \A k \in Handles : Whole(k)' <=> Whole(k)
  BY <1>7 DEF Whole
<1>9. OthersStay(t)
  BY <1>1, <1>5 DEF OthersStay
<1>10. MakesUnderLock'
  <2>1. \A u \in Threads : th[u].pc \notin {"fill", "poinit"}
    BY <1>1 DEF WInv, MakesUnderLock, Threads
  <2>2. QED
    BY <1>5, <1>6, <1>9, <2>1 DEF MakesUnderLock, OthersStay
<1>11. Unfinished'
  <2>1. \A k : Building(k) => Building(k)'
    BY <1>1, <1>9 DEF Building, OthersStay
  <2> SUFFICES ASSUME NEW k \in Made', ~src'[k].po
               PROVE  Building(k)'
    BY DEF Unfinished
  <2>2. CASE k = n
    BY <1>6, <2>2 DEF Building
  <2>3. CASE k # n
    BY <1>1, <1>4, <1>7, <2>1, <2>3 DEF Unfinished, WInv
  <2>4. QED
    BY <2>2, <2>3
<1>12. NoSender' /\ TrackedWhole'
  BY <1>4, <1>7, <1>8 DEF NoSender, TrackedWhole, WInv
<1>13. LookSees'
  <2>1. src'[n].rtp_from = Null
    BY <1>2, <1>3, <1>7 DEF NoSender, WInv
  <2>2. CASE t = "RTP"
    BY <1>6, <2>2 DEF LookSees
  <2>3. CASE t = "RTCP"
    <3>1. th'["RTP"] = th["RTP"]
      BY <1>9, <2>3 DEF OthersStay, Threads
    <3>2. QED
      BY <1>1, <1>4, <1>7, <2>1, <3>1 DEF LookSees, WInv
  <2>4. QED
    BY <2>2, <2>3 DEF Threads
<1>14. Answer(t)'
  BY <1>1, <1>6 DEF Answer
<1>15. \A u \in Threads : Answer(u)'
  BY <1>8, <1>9, <1>14, OtherAnswers
<1>16. QueueTracked'
  <2>1. /\ active \in Handles \cup {Null} /\ next_active \in [Handles -> Handles \cup {Null}]
        /\ app.at \in Handles \cup {Null}
    BY DEF IInv, TypeOK
  <2>2. QED
    BY <1>5, <1>7, <2>1 DEF QueueTracked, WInv
<1>17. QED
  BY <1>10, <1>11, <1>12, <1>13, <1>15, <1>16 DEF WInv

\* The source gets its first address, and then its playout buffer.
LEMMA FillWhole ==
  ASSUME IInv, WInv, NEW t \in Threads, Fill(t) \/ Poinit(t)
  PROVE  WInv'
<1> DEFINE k == th[t].h
<1>1. /\ th[t] \in Thread /\ th \in [Threads -> Thread] /\ src \in [Handles -> Source] /\ Answer(t)
      /\ k \in Made /\ Made \subseteq Handles /\ th[t].pc \in {"fill", "poinit"} /\ syn = t
  <2>1. /\ th[t].pc \in {"fill", "poinit"} /\ th[t].h \in Made \cup {Null} /\ th[t].h # Null
    BY DEF IInv, Structure, InHand, Hand, Fill, Poinit
  <2>2. syn = t
    BY <2>1 DEF WInv, MakesUnderLock
  <2>3. QED
    BY <2>1, <2>2, FindIsMade DEF IInv, TypeOK, WInv
<1>2. src[k] \in Source /\ k \in Handles
  BY <1>1
<1>3. ssrc_queue' = ssrc_queue /\ active' = active /\ next_active' = next_active /\ app' = app
  BY DEF Fill, Poinit
<1>4. Made' = Made
  BY <1>3 DEF Made
<1>5. \A u \in Threads : u # t => th[u].pc \notin {"fill", "poinit"}
  BY <1>1 DEF WInv, MakesUnderLock
<1>6. \A j \in Made : j # k => src[j].po
  BY <1>5 DEF WInv, Unfinished, Building
<1> HIDE DEF k
<1>7. CASE Fill(t)
  <2>1. th' = [th EXCEPT ![t] = [th[t] EXCEPT !.pc = "poinit"]] /\ syn' = syn /\ th[t].pc = "fill"
    BY <1>7 DEF Fill
  <2>2. th'[t].pc = "poinit" /\ th'[t].h = k /\ th'[t].res = th[t].res /\ th'[t].addr = th[t].addr
    BY <1>1, <2>1 DEF Thread, k
  <2>3. OthersStay(t)
    BY <1>1, <2>1 DEF OthersStay
  <2>4. /\ \A j \in Handles : j # k => src'[j] = src[j]
        /\ src'[k].po = src[k].po /\ src'[k].tracked = src[k].tracked
        /\ IF t = "RTP" THEN src'[k].rtp_from = th[t].addr ELSE src'[k].rtp_from = src[k].rtp_from
    <3>1. PICK c : src' = [src EXCEPT ![k] = [src[k] EXCEPT !.ssrc = th[t].ssrc, ![From(t)] = th[t].addr,
                                                            !.rtcp_to = c]]
      BY <1>7 DEF Fill, k
    <3>2. src'[k] = [src[k] EXCEPT !.ssrc = th[t].ssrc, ![From(t)] = th[t].addr, !.rtcp_to = c]
      BY <1>1, <1>2, <3>1
    <3>3. CASE t = "RTP"
      BY <1>1, <1>2, <3>1, <3>2, <3>3 DEF From, Source
    <3>4. CASE t = "RTCP"
      BY <1>1, <1>2, <3>1, <3>2, <3>4 DEF From, Source
    <3>5. QED
      BY <3>3, <3>4 DEF Threads
  <2>5. t = "RTP" => th[t].addr # Null
    BY <1>1, <2>1 DEF Answer
  <2>6. \A j \in Handles : /\ src'[j].po = src[j].po /\ src'[j].tracked = src[j].tracked
                           /\ Whole(j) => Whole(j)'
    BY <2>4, <2>5 DEF Whole
  <2>7. MakesUnderLock'
    BY <1>1, <2>1, <2>2, <2>3 DEF MakesUnderLock, OthersStay, WInv
  <2>8. Unfinished'
    <3>1. \A j : Building(j) => Building(j)'
      BY <1>1, <2>2, <2>3 DEF Building, OthersStay, k
    <3>2. QED
      BY <1>1, <1>4, <2>6, <3>1 DEF Unfinished, WInv
  <2>9. NoSender'
    BY <1>1, <1>4, <2>4 DEF NoSender, WInv
  <2>10. LookSees'
    <3>1. CASE t = "RTP"
      BY <2>2, <3>1 DEF LookSees
    <3>2. CASE t = "RTCP"
      <4>1. th'["RTP"] = th["RTP"]
        BY <2>3, <3>2 DEF OthersStay, Threads
      <4>2. \A j \in Handles : src'[j].rtp_from = src[j].rtp_from
        BY <2>4, <3>2
      <4>3. QED
        BY <1>1, <1>4, <2>6, <4>1, <4>2 DEF LookSees, WInv
    <3>3. QED
      BY <3>1, <3>2 DEF Threads
  <2>11. Answer(t)'
    BY <1>1, <2>1, <2>2 DEF Answer
  <2>12. \A u \in Threads : Answer(u)'
    BY <2>3, <2>6, <2>11, OtherAnswers
  <2>13. TrackedWhole' /\ QueueTracked'
    <3>1. /\ active \in Handles \cup {Null} /\ next_active \in [Handles -> Handles \cup {Null}]
          /\ app.at \in Handles \cup {Null}
      BY DEF IInv, TypeOK
    <3>2. QED
      BY <1>3, <2>6, <3>1 DEF TrackedWhole, QueueTracked, WInv
  <2>14. QED
    BY <2>7, <2>8, <2>9, <2>10, <2>12, <2>13 DEF WInv
<1>8. CASE Poinit(t)
  <2>1. PICK pc, todo : th' = [th EXCEPT ![t] = [th[t] EXCEPT !.pc = pc, !.todo = todo]] /\ pc = After(t, th[t].res)
    BY <1>8 DEF Poinit
  <2>2. syn' = "free" /\ th[t].pc = "poinit" /\ src' = [src EXCEPT ![k] = [src[k] EXCEPT !.po = TRUE]]
    BY <1>8 DEF Poinit, k
  <2>3. th'[t].pc = pc /\ th'[t].h = k /\ th'[t].res = th[t].res /\ th'[t].addr = th[t].addr
    BY <1>1, <2>1 DEF Thread, k
  <2>4. pc \in {"count", "parse", "select", "track"} /\ th[t].res \in {"NEW", "COLLISION"}
    BY <1>1, <2>1, <2>2, AfterIsPlace DEF Answer
  <2>5. OthersStay(t)
    BY <1>1, <2>1 DEF OthersStay
  <2>6. /\ \A j \in Handles : j # k => src'[j] = src[j]
        /\ src'[k].po /\ src'[k].tracked = src[k].tracked /\ src'[k].rtp_from = src[k].rtp_from
    BY <1>1, <1>2, <2>2 DEF Source
  <2>7. \A j \in Handles : /\ src'[j].rtp_from = src[j].rtp_from /\ src'[j].tracked = src[j].tracked
                           /\ Whole(j) => Whole(j)'
    BY <2>6 DEF Whole
  <2>8. \A j \in Made : src'[j].po
    BY <1>1, <1>6, <2>6
  <2>9. MakesUnderLock'
    BY <1>5, <2>2, <2>3, <2>4, <2>5 DEF MakesUnderLock, OthersStay, Threads
  <2>10. Unfinished' /\ LookSees'
    BY <1>4, <2>8 DEF Unfinished, LookSees
  <2>11. NoSender'
    BY <1>4, <2>7 DEF NoSender, WInv
  <2>12. Answer(t)'
    BY <1>1, <2>2, <2>3, <2>4 DEF Answer
  <2>13. \A u \in Threads : Answer(u)'
    BY <2>5, <2>7, <2>12, OtherAnswers
  <2>14. TrackedWhole' /\ QueueTracked'
    <3>1. /\ active \in Handles \cup {Null} /\ next_active \in [Handles -> Handles \cup {Null}]
          /\ app.at \in Handles \cup {Null}
      BY DEF IInv, TypeOK
    <3>2. QED
      BY <1>3, <2>7, <3>1 DEF TrackedWhole, QueueTracked, WInv
  <2>15. QED
    BY <2>9, <2>10, <2>11, <2>13, <2>14 DEF WInv
<1>9. QED
  BY <1>7, <1>8

\* A source is on probation only once it has a playout buffer, but for one that the RTCP
\* thread is making; one that SDES shortened the probation of has it already.
HasBuffer ==
  \A h \in Handles : src[h].probation > 0 =>
    src[h].po \/ (th["RTCP"].pc \in {"fill", "poinit"} /\ th["RTCP"].h = h)

SdesKnows == th["RTCP"].pc = "sdes" => src[th["RTCP"].h].po

RtpKnows ==
  /\ th["RTP"].pc \in {"poinit", "count", "counting", "track", "update"} => src[th["RTP"].h].rtp_from # Null
  /\ th["RTP"].pc = "update" =>
       src[th["RTP"].h].probation = MIN_SEQUENTIAL \/ src[th["RTP"].h].po

PInv == HasBuffer /\ SdesKnows /\ RtpKnows

\* A source becomes active that answered as known, or whose probation an SDES packet of
\* the RTCP thread has shortened.
LEMMA TrackWhole ==
  ASSUME IInv, WInv, PInv, Track
  PROVE  WInv'
<1> DEFINE h == th["RTP"].h
<1>1. /\ th["RTP"] \in Thread /\ th \in [Threads -> Thread] /\ src \in [Handles -> Source] /\ Answer("RTP")
      /\ h \in Handles /\ th["RTP"].pc \in {"track", "update"} /\ Made \subseteq Handles
  <2>1. th["RTP"].h \in Made \cup {Null} /\ th["RTP"].h # Null
    BY DEF IInv, Structure, InHand, Hand, Track, Threads
  <2>2. QED
    BY <2>1, FindIsMade DEF IInv, TypeOK, WInv, Threads, Track
<1>2. src[h] \in Source
  BY <1>1
<1>3. th'["RTP"] = [th["RTP"] EXCEPT !.pc = "add"] /\ OthersStay("RTP")
  BY <1>1 DEF Track, OthersStay, Threads
<1>4. th'["RTP"].pc = "add" /\ th'["RTP"].addr = th["RTP"].addr
  BY <1>1, <1>3 DEF Thread
<1>5. Answer("RTP")'
  BY <1>1, <1>4 DEF Answer
<1>6. ssrc_queue' = ssrc_queue /\ syn' = syn /\ app' = app
  BY DEF Track
<1> HIDE DEF h
<1>7. \/ Stats(h, MIN_SEQUENTIAL - 1, src[h].bad)
      \/ Stats(h, 0, src[h].bad) \/ Stats(h, 0, TRUE)
      \/ Enqueues(h, 0) /\ th["RTP"].pc = "track" /\ th["RTP"].res = "KNOWN"
      \/ Enqueues(h, 0) /\ th["RTP"].pc = "update" /\ src[h].probation \in {0, 1}
  BY Zenon DEF Track, h
<1>8. ASSUME NEW p, NEW b, Stats(h, p, b) PROVE WInv'
  <2>1. src' = [src EXCEPT ![h] = [src[h] EXCEPT !.probation = p, !.bad = b]]
    BY <1>8 DEF Stats
  <2>2. /\ src'[h].po = src[h].po /\ src'[h].rtp_from = src[h].rtp_from /\ src'[h].tracked = src[h].tracked
        /\ \A k \in Handles : k # h => src'[k] = src[k]
    BY <1>1, <1>2, <2>1 DEF Source
  <2>3. SameWhole
    BY <1>6, <1>8, <2>2 DEF SameWhole, Stats
  <2>4. QED
    BY <1>1, <1>3, <1>4, <1>5, <1>6, <2>3, CalmKeeps DEF Threads
<1>9. CASE \/ Enqueues(h, 0) /\ th["RTP"].pc = "track" /\ th["RTP"].res = "KNOWN"
           \/ Enqueues(h, 0) /\ th["RTP"].pc = "update" /\ src[h].probation \in {0, 1}
  <2>1. PICK n \in {1, 2} :
          src' = [src EXCEPT ![h] = [src[h] EXCEPT !.probation = 0, !.bad = FALSE, !.tracked = n]]
    BY <1>9 DEF Enqueues
  <2>2. /\ src'[h].po = src[h].po /\ src'[h].rtp_from = src[h].rtp_from /\ src'[h].tracked = n
        /\ \A k \in Handles : k # h => src'[k] = src[k]
    BY <1>1, <1>2, <2>1 DEF Source
  <2>3. Whole(h)
    <3>1. CASE th["RTP"].pc = "track" /\ th["RTP"].res = "KNOWN"
      BY <1>1, <3>1 DEF Answer, h
    <3>2. CASE th["RTP"].pc = "update" /\ src[h].probation \in {0, 1}
      BY <3>2 DEF PInv, RtpKnows, Whole, MIN_SEQUENTIAL, h
    <3>3. QED
      BY <1>9, <3>1, <3>2
  <2>4. \A k \in Handles : /\ src'[k].po = src[k].po /\ src'[k].rtp_from = src[k].rtp_from
                           /\ src[k].tracked > 0 => src'[k].tracked > 0
                           /\ Whole(k)' <=> Whole(k)
    BY <2>2 DEF Whole
  <2>5. Made' = Made
    BY <1>6 DEF Made
  <2>6. \A u \in Threads : u # "RTP" => th'[u] = th[u]
    BY <1>3 DEF OthersStay
  <2>7. MakesUnderLock'
    BY <1>1, <1>4, <1>6, <2>6 DEF MakesUnderLock, WInv
  <2>8. Unfinished'
    <3>1. \A k : Building(k) => Building(k)'
      BY <1>1, <2>6 DEF Building
    <3>2. QED
      BY <1>1, <2>4, <2>5, <3>1 DEF Unfinished, WInv
  <2>9. NoSender' /\ LookSees'
    BY <1>4, <2>4, <2>5 DEF NoSender, LookSees, WInv
  <2>10. \A u \in Threads : Answer(u)'
    BY <1>3, <1>5, <2>4, OtherAnswers DEF Threads
  <2>11. TrackedWhole'
    BY <2>2, <2>3, <2>4 DEF TrackedWhole, WInv
  <2>12. QueueTracked'
    <3>1. /\ active \in Handles \cup {Null} /\ next_active \in [Handles -> Handles \cup {Null}]
          /\ app.at \in Handles \cup {Null}
      BY DEF IInv, TypeOK
    <3>2. active' = h /\ next_active' = [next_active EXCEPT ![h] = active]
      BY <1>9 DEF Enqueues
    <3>3. src'[h].tracked > 0
      BY <2>2
    <3>4. \A k \in Handles : next_active'[k] = next_active[k] \/ next_active'[k] = active
      BY <3>1, <3>2
    <3>5. QED
      BY <1>1, <1>6, <2>4, <3>1, <3>2, <3>3, <3>4 DEF QueueTracked, WInv
  <2>13. QED
    BY <2>7, <2>8, <2>9, <2>10, <2>11, <2>12 DEF WInv
<1>10. QED
  BY <1>7, <1>8, <1>9

\* The other steps of the threads, and arrivals.
LEMMA RestCalm ==
  ASSUME IInv, WInv,
         StartProbation \/ Add \/ Parse \/ SdesRead \/ SdesWrite \/ Start \/ RtpArrives \/ RtcpArrives \/ LoopArrives
  PROVE  WInv'
<1>0. th \in [Threads -> Thread] /\ src \in [Handles -> Source] /\ \A t \in Threads : Answer(t)
  BY DEF IInv, TypeOK, WInv
<1>s. CASE StartProbation
  <2>1. th["RTP"] \in Thread /\ th["RTP"].h \in Handles /\ th["RTP"].pc = "track"
    <3>1. th["RTP"].h \in Made \cup {Null} /\ th["RTP"].h # Null
      BY <1>s DEF StartProbation, IInv, Structure, InHand, Hand, Threads
    <3>2. QED
      BY <1>0, <1>s, <3>1, FindIsMade DEF StartProbation, IInv, Threads
  <2>2. th'["RTP"] = [th["RTP"] EXCEPT !.pc = "update"] /\ OthersStay("RTP")
    BY <1>0, <1>s DEF StartProbation, OthersStay, Threads
  <2>3. th'["RTP"].pc = "update" /\ th'["RTP"].addr = th["RTP"].addr
    BY <2>1, <2>2 DEF Thread
  <2>4. SameWhole /\ syn' = syn
    <3>1. PICK h \in Handles : h = th["RTP"].h
      BY <2>1
    <3>2. Stats(h, MIN_SEQUENTIAL, src[h].bad)
      BY <1>s, <3>1 DEF StartProbation
    <3>3. src[h] \in Source
         /\ src' = [src EXCEPT ![h] = [src[h] EXCEPT !.probation = MIN_SEQUENTIAL, !.bad = src[h].bad]]
      BY <1>0, <3>2 DEF Stats
    <3>4. /\ src'[h].po = src[h].po /\ src'[h].rtp_from = src[h].rtp_from /\ src'[h].tracked = src[h].tracked
          /\ \A k \in Handles : k # h => src'[k] = src[k]
      BY <1>0, <3>3 DEF Source
    <3>5. QED
      BY <1>s, <3>2, <3>4 DEF StartProbation, Stats, SameWhole
  <2>5. Answer("RTP")'
    BY <1>0, <2>1, <2>3 DEF Answer, Threads
  <2>6. QED
    BY <2>1, <2>2, <2>3, <2>4, <2>5, CalmKeeps DEF Threads
<1>1. CASE Add
  <2>1. SameWhole /\ syn' = syn /\ OthersStay("RTP")
    BY <1>0, <1>1 DEF Add, shared, SameWhole, OthersStay
  <2>2. th'["RTP"].pc = "select"
    BY <1>0, <1>1 DEF Add, Idle, Threads
  <2>3. Answer("RTP")'
    BY <2>2 DEF Answer
  <2>4. QED
    BY <1>1, <2>1, <2>2, <2>3, CalmKeeps DEF Add, Threads
<1>2. CASE Parse \/ SdesRead \/ SdesWrite
  <2> DEFINE T == th["RTCP"]
  <2>1. T \in Thread /\ T.h \in Handles /\ T.pc \in {"parse", "sdes"}
    <3>1. T.h \in Made \cup {Null} /\ T.h # Null
      BY <1>2 DEF Parse, SdesRead, SdesWrite, IInv, Structure, InHand, Hand, Threads
    <3>2. QED
      BY <1>0, <1>2, <3>1, FindIsMade DEF Parse, SdesRead, SdesWrite, IInv, Threads
  <2>2. th'["RTCP"].pc \in {"select", "parse", "sdes"} /\ OthersStay("RTCP")
    <3>1. \/ th' = [th EXCEPT !["RTCP"] = NextPacket(Tail(T.rest))]
          \/ th' = [th EXCEPT !["RTCP"] = [T EXCEPT !.pc = "sdes"]]
      BY <1>2 DEF Parse, SdesRead, SdesWrite
    <3>2. NextPacket(Tail(T.rest)).pc \in {"select", "parse"}
      BY <2>1 DEF NextPacket, Idle, Thread
    <3>3. [T EXCEPT !.pc = "sdes"].pc = "sdes"
      BY <2>1 DEF Thread
    <3>4. QED
      BY <1>0, <3>1, <3>2, <3>3 DEF OthersStay, Threads
  <2>3. SameWhole /\ syn' = syn
    <3>1. CASE Parse \/ SdesRead
      BY <3>1 DEF Parse, SdesRead, shared, SameWhole
    <3>2. CASE SdesWrite
      <4>1. src[T.h] \in Source /\ src' = [src EXCEPT ![T.h] = [src[T.h] EXCEPT !.probation = 1]]
        BY <1>0, <2>1, <3>2 DEF SdesWrite
      <4>2. /\ src'[T.h].po = src[T.h].po /\ src'[T.h].rtp_from = src[T.h].rtp_from
            /\ src'[T.h].tracked = src[T.h].tracked
            /\ \A k \in Handles : k # T.h => src'[k] = src[k]
        BY <1>0, <2>1, <4>1 DEF Source
      <4>3. QED
        BY <3>2, <4>2 DEF SdesWrite, SameWhole
    <3>3. QED
      BY <1>2, <3>1, <3>2
  <2>4. Answer("RTCP")'
    BY <2>2 DEF Answer
  <2>5. QED
    BY <2>1, <2>2, <2>3, <2>4, CalmKeeps DEF Threads
<1>3. CASE Start
  <2>1. SameWhole /\ syn' = syn /\ OthersStay("RTCP")
    BY <1>0, <1>3 DEF Start, SameWhole, OthersStay
  <2>2. th'["RTCP"].pc = "select"
    BY <1>0, <1>3 DEF Start, Thread, Threads
  <2>3. Answer("RTCP")'
    BY <2>2 DEF Answer
  <2>4. QED
    BY <1>3, <2>1, <2>2, <2>3, CalmKeeps DEF Start, Threads
<1>4. ASSUME NEW t \in Threads, NEW x, NEW a \in Addrs, NEW c, Arrive(t, x, a, c) PROVE WInv'
  <2>1. SameWhole /\ syn' = syn /\ OthersStay(t)
    BY <1>0, <1>4 DEF Arrive, shared, SameWhole, OthersStay
  <2>2. th'[t] = [Idle EXCEPT !.pc = "recv", !.ssrc = x, !.addr = a, !.rest = c]
    BY <1>0, <1>4 DEF Arrive
  <2>3. th'[t].pc = "recv" /\ th'[t].addr = a
    BY <2>2 DEF Idle
  <2>4. a # Null
    BY SourcesAssumption DEF SourcesAssumption
  <2>5. Answer(t)'
    BY <2>3, <2>4 DEF Answer
  <2>6. QED
    BY <1>4, <2>1, <2>3, <2>5, CalmKeeps DEF Arrive
<1>5. CASE RtpArrives
  BY <1>4, <1>5, SourcesAssumption DEF RtpArrives, SourcesAssumption, Threads
<1>6. CASE RtcpArrives
  <2>0. PICK p \in RtcpPackets : \E c \in Compounds : Arrive("RTCP", p[1], p[2], c)
    BY <1>6 DEF RtcpArrives
  <2>1. PICK c \in Compounds : Arrive("RTCP", p[1], p[2], c)
    BY <2>0
  <2>2. p[2] \in Addrs
    BY SourcesAssumption DEF SourcesAssumption
  <2>3. QED
    BY <1>4, <2>1, <2>2 DEF Threads
<1>7. CASE LoopArrives
  BY <1>4, <1>7 DEF LoopArrives, Threads
<1>8. QED
  BY <1>s, <1>1, <1>2, <1>3, <1>5, <1>6, <1>7

\* The application moves along the active queue.
LEMMA ApplicationWhole ==
  ASSUME IInv, WInv, Application
  PROVE  WInv'
<1>1. UNCHANGED <<shared, th>>
  BY DEF Application, FillBuffers, Filled, Walk
<1>2. Made' = Made /\ src' = src /\ th' = th /\ syn' = syn /\ active' = active /\ next_active' = next_active
  BY <1>1 DEF shared, Made
<1>3. /\ MakesUnderLock' /\ Unfinished' /\ NoSender' /\ LookSees' /\ TrackedWhole'
      /\ \A t \in Threads : Answer(t)'
  BY <1>2 DEF WInv, MakesUnderLock, Unfinished, Building, NoSender, LookSees, TrackedWhole, Whole, Answer
<1>4. app'.at \in {app.at, Null, active} \/ (app.at \in Handles /\ app'.at = next_active[app.at])
  <2>1. app \in [pc : {"idle", "filling", "walking", "ended"}, at : Handles \cup {Null}]
    BY DEF IInv, TypeOK
  <2>2. CASE FillBuffers
    BY <2>1, <2>2 DEF FillBuffers
  <2>3. CASE Filled
    BY <2>1, <2>3 DEF Filled
  <2>4. CASE Walk
    <3>1. app.at \in Handles
      BY <2>4 DEF Walk, IInv, Structure, WalksSources
    <3>2. QED
      BY <2>1, <2>4, <3>1 DEF Walk
  <2>5. QED
    BY <2>2, <2>3, <2>4 DEF Application
<1>5. QueueTracked'
  BY <1>2, <1>4 DEF QueueTracked, WInv
<1>6. QED
  BY <1>3, <1>5 DEF WInv

\* What is known of a source stays known while packets are matched with sources.
LEMMA ReceiverKnows ==
  ASSUME IInv, WInv, NEW t \in Threads, Receiver(t)
  PROVE  \A k \in Handles : /\ src'[k].probation = src[k].probation
                            /\ src[k].po => src'[k].po
                            /\ src[k].rtp_from # Null => src'[k].rtp_from # Null
<1>0. th[t] \in Thread /\ src \in [Handles -> Source] /\ Answer(t)
  BY DEF IInv, TypeOK, WInv
<1>1. ASSUME NEW h \in Handles,
             \A k \in Handles : k # h => src'[k] = src[k],
             /\ src'[h].probation = src[h].probation
             /\ src[h].po => src'[h].po
             /\ src[h].rtp_from # Null => src'[h].rtp_from # Null
      PROVE  \A k \in Handles : /\ src'[k].probation = src[k].probation
                                /\ src[k].po => src'[k].po
                                /\ src[k].rtp_from # Null => src'[k].rtp_from # Null
  BY <1>1
<1>2. CASE Look(t)
  <2>1. CASE src' = src
    BY <2>1
  <2>2. CASE src' # src
    <3>1. PICK h \in Handles : Known(t, h)
      <4>1. Find(th[t].ssrc) = Null \/ Find(th[t].ssrc) \in Handles
        BY FindIsMade DEF IInv
      <4>2. QED
        BY <1>2, <2>2, <4>1 DEF Look
    <3>2. PICK b : src' = [src EXCEPT ![h] = [src[h] EXCEPT
                             ![From(t)] = IF src[h][From(t)] = Null THEN th[t].addr ELSE @, !.rtcp_to = b]]
      BY <1>0, <3>1 DEF Known
    <3>3. src[h] \in Source /\ \A k \in Handles : k # h => src'[k] = src[k]
      BY <1>0, <3>2
    <3>4. src'[h] = [src[h] EXCEPT ![From(t)] = IF src[h][From(t)] = Null THEN th[t].addr ELSE @, !.rtcp_to = b]
      BY <1>0, <3>2
    <3>5. CASE t = "RTP"
      <4>1. src'[h] = [src[h] EXCEPT !.rtp_from = IF src[h].rtp_from = Null THEN th[t].addr ELSE @, !.rtcp_to = b]
        BY <3>4, <3>5 DEF From
      <4>2. QED
        <5>1. /\ src'[h].probation = src[h].probation /\ src'[h].po = src[h].po
              /\ src[h].rtp_from # Null => src'[h].rtp_from # Null
          BY <3>3, <4>1 DEF Source
        <5>2. QED
          BY <1>1, <3>3, <4>1, <5>1
    <3>6. CASE t = "RTCP"
      <4>1. PICK a : src'[h] = [src[h] EXCEPT !.rtcp_from = a, !.rtcp_to = b]
        BY <3>4, <3>6 DEF From
      <4>2. QED
        <5>1. /\ src'[h].probation = src[h].probation /\ src'[h].po = src[h].po
              /\ src[h].rtp_from # Null => src'[h].rtp_from # Null
          BY <3>3, <4>1 DEF Source
        <5>2. QED
          BY <1>1, <3>3, <4>1, <5>1
    <3>7. QED
      BY <3>5, <3>6 DEF Threads
  <2>3. QED
    BY <2>1, <2>2
<1>3. CASE Link(t)
  <2>1. PICK h \in Handles, c \in BOOLEAN : src' = [src EXCEPT ![h].by = t, ![h].counted = c]
    <3>1. ssrc_queue \in Seq(Handles)
      BY DEF IInv, TypeOK
    <3>2. Len(ssrc_queue) + 1 \in Handles
      BY <1>3, <3>1, SourcesAssumption DEF Link, Handles, SourcesAssumption
    <3>3. QED
      BY <1>3, <3>2 DEF Link
  <2>2. src[h] \in Source /\ src'[h] = [src[h] EXCEPT !.by = t, !.counted = c]
    BY <1>0, <2>1
  <2>3. QED
    <3>1. /\ src'[h].probation = src[h].probation /\ src'[h].po = src[h].po
          /\ src'[h].rtp_from = src[h].rtp_from
      BY <2>2 DEF Source
    <3>2. \A k \in Handles : k # h => src'[k] = src[k]
      BY <1>0, <2>1
    <3>3. QED
      BY <1>1, <3>1, <3>2
<1>4. CASE Fill(t) \/ Poinit(t)
  <2>1. PICK h \in Handles : h = th[t].h
    BY <1>4, FindIsMade DEF IInv, Structure, InHand, Hand, Fill, Poinit
  <2>2. src[h] \in Source
    BY <1>0
  <2>3. CASE Poinit(t)
    <3>1. src' = [src EXCEPT ![h].po = TRUE]
      BY <2>1, <2>3 DEF Poinit
    <3>2. src'[h] = [src[h] EXCEPT !.po = TRUE] /\ \A k \in Handles : k # h => src'[k] = src[k]
      BY <1>0, <3>1
    <3>3. QED
      <4>1. /\ src'[h].probation = src[h].probation /\ src'[h].po
            /\ src[h].rtp_from # Null => src'[h].rtp_from # Null
        BY <2>2, <3>2 DEF Source
      <4>2. QED
        BY <1>1, <2>2, <3>2, <4>1
  <2>4. CASE Fill(t)
    <3>1. PICK c : src' = [src EXCEPT ![h] = [src[h] EXCEPT !.ssrc = th[t].ssrc, ![From(t)] = th[t].addr,
                                                            !.rtcp_to = c]]
      BY <2>1, <2>4 DEF Fill
    <3>2. /\ src'[h] = [src[h] EXCEPT !.ssrc = th[t].ssrc, ![From(t)] = th[t].addr, !.rtcp_to = c]
          /\ \A k \in Handles : k # h => src'[k] = src[k]
      BY <1>0, <3>1
    <3>3. CASE t = "RTP"
      <4>1. src'[h] = [src[h] EXCEPT !.ssrc = th[t].ssrc, !.rtp_from = th[t].addr, !.rtcp_to = c]
        BY <3>2, <3>3 DEF From
      <4>2. th[t].addr # Null
        BY <1>0, <2>4, <3>3 DEF Answer, Fill
      <4>3. QED
        <5>1. /\ src'[h].probation = src[h].probation /\ src'[h].po = src[h].po
              /\ src[h].rtp_from # Null => src'[h].rtp_from # Null
          BY <2>2, <4>1, <4>2 DEF Source
        <5>2. QED
          BY <1>1, <2>2, <3>2, <4>1, <4>2, <5>1
    <3>4. CASE t = "RTCP"
      <4>1. src'[h] = [src[h] EXCEPT !.ssrc = th[t].ssrc, !.rtcp_from = th[t].addr, !.rtcp_to = c]
        BY <3>2, <3>4 DEF From
      <4>2. QED
        <5>1. /\ src'[h].probation = src[h].probation /\ src'[h].po = src[h].po
              /\ src[h].rtp_from # Null => src'[h].rtp_from # Null
          BY <2>2, <4>1 DEF Source
        <5>2. QED
          BY <1>1, <2>2, <3>2, <4>1, <5>1
    <3>5. QED
      BY <3>3, <3>4 DEF Threads
  <2>5. QED
    BY <1>4, <2>3, <2>4
<1>5. CASE src' = src
  BY <1>5
<1>6. QED
  BY <1>2, <1>3, <1>4, <1>5
     DEF Receiver, Receive, Compare, Check, Collide, Renew, LinkFails, CountRead, CountWrite, shared

\* Where matching a packet with its source leaves a thread, and the source it has in hand.
LEMMA ReceiverMoves ==
  ASSUME IInv, NEW t \in Threads, Receiver(t)
  PROVE  /\ th'[t].pc \notin {"update", "sdes"}
         /\ Poinit(t) \/ CountRead(t) \/ CountWrite(t) => th'[t].h = th[t].h
         /\ \/ Poinit(t) \/ CountRead(t) \/ CountWrite(t) \/ Look(t) \/ Fill(t)
            \/ th'[t].pc \notin {"poinit", "count", "counting", "track"}
<1>0. th \in [Threads -> Thread] /\ th[t] \in Thread
  BY DEF IInv, TypeOK
<1>1. CASE Look(t)
  <2>1. CASE Find(th[t].ssrc) = Null
    <3>1. th'[t] = [th[t] EXCEPT !.pc = "link", !.res = "NEW"]
      BY <1>0, <1>1, <2>1 DEF Look
    <3>2. th'[t].pc = "link"
      BY <1>0, <3>1 DEF Thread
    <3>3. ~ (Poinit(t) \/ CountRead(t) \/ CountWrite(t))
      BY <1>1 DEF Look, Poinit, CountRead, CountWrite
    <3>4. QED
      BY <1>1, <3>2, <3>3
  <2>2. CASE Find(th[t].ssrc) # Null
    <3>1. Known(t, Find(th[t].ssrc))
      BY <1>1, <2>2 DEF Look
    <3>2. PICK r : th'[t] = [th[t] EXCEPT !.h = Find(th[t].ssrc), !.res = r, !.pc = After(t, r)]
      BY <1>0, <3>1 DEF Known
    <3>3. th'[t].pc = After(t, r)
      BY <1>0, <3>2 DEF Thread
    <3>4. ~ (Poinit(t) \/ CountRead(t) \/ CountWrite(t))
      BY <1>1 DEF Look, Poinit, CountRead, CountWrite
    <3>5. QED
      BY <1>1, <3>3, <3>4, AfterIsPlace
  <2>3. QED
    BY <2>1, <2>2
<1>2. CASE Poinit(t)
  <2>1. PICK l : th'[t] = [th[t] EXCEPT !.pc = After(t, th[t].res), !.todo = l]
    BY <1>0, <1>2 DEF Poinit
  <2>2. th'[t].pc = After(t, th[t].res) /\ th'[t].h = th[t].h
    BY <1>0, <2>1 DEF Thread
  <2>3. QED
    BY <1>2, <2>2, AfterIsPlace
<1>3. CASE CountRead(t)
  <2>1. PICK n : th'[t] = [th[t] EXCEPT !.seen = n, !.pc = "counting"]
    BY <1>0, <1>3 DEF CountRead
  <2>2. th'[t].pc = "counting" /\ th'[t].h = th[t].h
    BY <1>0, <2>1 DEF Thread
  <2>3. QED
    BY <1>3, <2>2
<1>4. CASE CountWrite(t)
  <2>1. PICK pc \in {"count", "track", "parse"} :
          th'[t] = [th[t] EXCEPT !.todo = Tail(th[t].todo), !.seen = Null, !.pc = pc]
    BY <1>0, <1>4 DEF CountWrite
  <2>2. th'[t].pc = pc /\ th'[t].h = th[t].h
    BY <1>0, <2>1 DEF Thread
  <2>3. QED
    BY <1>4, <2>1, <2>2
<1>5. CASE Fill(t)
  <2>1. th'[t] = [th[t] EXCEPT !.pc = "poinit"]
    BY <1>0, <1>5 DEF Fill
  <2>2. th'[t].pc = "poinit" /\ th[t].pc = "fill"
    BY <1>0, <1>5, <2>1 DEF Thread, Fill
  <2>3. ~ (Poinit(t) \/ CountRead(t) \/ CountWrite(t))
    BY <2>2 DEF Poinit, CountRead, CountWrite
  <2>4. QED
    BY <1>5, <2>2, <2>3
<1>6. CASE Receive(t) \/ Compare(t) \/ Check(t) \/ Collide(t) \/ Renew(t) \/ Link(t) \/ LinkFails(t)
  <2>1. ~ (Poinit(t) \/ CountRead(t) \/ CountWrite(t))
    BY <1>6 DEF Receive, Compare, Check, Collide, Renew, Link, LinkFails, Poinit, CountRead, CountWrite
  <2>2. th'[t].pc \in {"check", "lock", "collide", "look", "renew", "link", "fill", "select", "parse"}
    <3>1. CASE Receive(t)
      BY <1>0, <3>1 DEF Receive, Thread
    <3>2. CASE Compare(t)
      BY <1>0, <3>2 DEF Compare, Thread
    <3>3. CASE Check(t)
      BY <1>0, <3>3 DEF Check, Thread
    <3>4. CASE Collide(t)
      BY <1>0, <3>4 DEF Collide, After, Thread, Threads
    <3>5. CASE Renew(t)
      BY <1>0, <3>5 DEF Renew, Thread
    <3>6. CASE Link(t)
      BY <1>0, <3>6 DEF Link, Thread
    <3>7. CASE LinkFails(t)
      BY <1>0, <3>7 DEF LinkFails, Idle
    <3>8. QED
      BY <1>6, <3>1, <3>2, <3>3, <3>4, <3>5, <3>6, <3>7
  <2>3. QED
    BY <2>1, <2>2
<1>7. QED
  BY <1>1, <1>2, <1>3, <1>4, <1>5, <1>6 DEF Receiver

\* The RTP thread has noted where the source's packets come from when it goes on with it.
LEMMA RtpNamed ==
  ASSUME IInv, WInv, PInv, Receiver("RTP"), th'["RTP"].pc \in {"poinit", "count", "counting", "track"}
  PROVE  src'[th'["RTP"].h].rtp_from # Null
<1> DEFINE T == th["RTP"]
<1>0. /\ th \in [Threads -> Thread] /\ T \in Thread /\ src \in [Handles -> Source] /\ "RTP" \in Threads
      /\ Answer("RTP")
  BY FindIsMade DEF IInv, TypeOK, WInv, Threads
<1>1. \A k \in Handles : src[k].rtp_from # Null => src'[k].rtp_from # Null
  BY <1>0, ReceiverKnows
<1>2. T.pc \in {"poinit", "count", "counting", "fill"} => T.h \in Handles
  BY FindIsMade DEF IInv, Structure, InHand, Hand, Threads
<1>3. ASSUME T.pc \in {"poinit", "count", "counting"}, th'["RTP"].h = T.h
      PROVE  src'[th'["RTP"].h].rtp_from # Null
  BY <1>1, <1>2, <1>3 DEF PInv, RtpKnows
<1>4. CASE Poinit("RTP") \/ CountRead("RTP") \/ CountWrite("RTP")
  <2>1. th'["RTP"].h = T.h
    BY <1>0, <1>4, ReceiverMoves
  <2>2. QED
    BY <1>3, <1>4, <2>1 DEF Poinit, CountRead, CountWrite
<1>5. CASE Fill("RTP")
  <2>1. PICK h \in Handles : h = T.h
    BY <1>2, <1>5 DEF Fill
  <2>2. th'["RTP"] = [T EXCEPT !.pc = "poinit"]
    BY <1>0, <1>5 DEF Fill
  <2>3. th'["RTP"].h = h
    BY <1>0, <2>1, <2>2 DEF Thread
  <2>4. PICK c : src' = [src EXCEPT ![h] = [src[h] EXCEPT !.ssrc = T.ssrc, !.rtp_from = T.addr, !.rtcp_to = c]]
    BY <1>5, <2>1 DEF Fill, From
  <2>5. src'[h].rtp_from = T.addr
    BY <1>0, <2>4 DEF Source
  <2>6. T.addr # Null
    BY <1>0, <1>5 DEF Answer, Fill
  <2>7. QED
    BY <2>3, <2>5, <2>6
<1>6. CASE Look("RTP")
  <2> DEFINE h == Find(T.ssrc)
  <2>1. h \in Handles \cup {Null}
    BY FindIsMade DEF IInv
  <2> HIDE DEF h
  <2>2. CASE h = Null
    <3>1. th'["RTP"] = [T EXCEPT !.pc = "link", !.res = "NEW"]
      BY <1>0, <1>6, <2>2 DEF Look, h
    <3>2. QED
      BY <1>0, <3>1 DEF Thread
  <2>3. CASE h # Null
    <3>1. Known("RTP", h) /\ h \in Handles
      BY <1>6, <2>1, <2>3 DEF Look, h
    <3>2. PICK r : th'["RTP"] = [T EXCEPT !.h = h, !.res = r, !.pc = After("RTP", r)]
      BY <1>0, <3>1 DEF Known
    <3>3. th'["RTP"].h = h
      BY <1>0, <3>2 DEF Thread
    <3>4. PICK b : src' = [src EXCEPT ![h] = [src[h] EXCEPT
                             !.rtp_from = IF src[h].rtp_from = Null THEN T.addr ELSE @, !.rtcp_to = b]]
      BY <1>0, <3>1 DEF Known, From
    <3>5. src'[h].rtp_from = IF src[h].rtp_from = Null THEN T.addr ELSE src[h].rtp_from
      BY <1>0, <3>1, <3>4 DEF Source
    <3>6. T.addr # Null
      BY <1>0, <1>6 DEF Answer, Look
    <3>7. QED
      BY <3>3, <3>5, <3>6
  <2>4. QED
    BY <2>2, <2>3
<1>7. QED
  BY <1>0, <1>4, <1>5, <1>6, ReceiverMoves

\* Matching packets with sources starts no probation.
LEMMA ReceiverProbation ==
  ASSUME IInv, WInv, PInv, NEW t \in Threads, Receiver(t)
  PROVE  PInv'
<1>0. th \in [Threads -> Thread] /\ th[t] \in Thread /\ src \in [Handles -> Source] /\ Made \subseteq Handles
  BY FindIsMade DEF IInv, TypeOK
<1>1. /\ \A k \in Handles : /\ src'[k].probation = src[k].probation
                            /\ src[k].po => src'[k].po
                            /\ src[k].rtp_from # Null => src'[k].rtp_from # Null
      /\ \A u \in Threads : th[u].h \in Handles \cup {Null}
  BY <1>0, ReceiverKnows DEF IInv, Structure, InHand, Hand
<1>2. OthersStay(t)
  BY <1>0 DEF Receiver, Receive, Compare, Check, Look, Known, Collide, Renew, Link, LinkFails, Fill, Poinit,
              CountRead, CountWrite, OthersStay
<1>3. /\ th[t].pc \notin {"update", "sdes", "track", "add", "parse"}
      /\ th[t].pc = "fill" => Fill(t)
      /\ th[t].pc = "poinit" => Poinit(t)
  BY DEF Receiver, Receive, Compare, Check, Look, Collide, Renew, Link, LinkFails, Fill, Poinit,
         CountRead, CountWrite
<1>4. th'[t].pc \notin {"update", "sdes"}
  BY ReceiverMoves
<1>5. HasBuffer'
  <2> SUFFICES ASSUME NEW h \in Handles, src[h].probation > 0, ~ src'[h].po
               PROVE  th'["RTCP"].pc \in {"fill", "poinit"} /\ th'["RTCP"].h = h
    BY <1>1 DEF HasBuffer
  <2>1. th["RTCP"].pc \in {"fill", "poinit"} /\ th["RTCP"].h = h
    BY <1>1 DEF PInv, HasBuffer
  <2>2. CASE t = "RTP"
    BY <1>2, <2>1, <2>2 DEF OthersStay, Threads
  <2>3. CASE t = "RTCP" /\ Fill(t)
    <3>1. th'[t] = [th[t] EXCEPT !.pc = "poinit"]
      BY <1>0, <2>3 DEF Fill
    <3>2. th'[t].pc = "poinit" /\ th'[t].h = th[t].h
      BY <1>0, <3>1 DEF Thread
    <3>3. QED
      BY <2>1, <2>3, <3>2
  <2>4. CASE t = "RTCP" /\ Poinit(t)
    <3>1. src' = [src EXCEPT ![h].po = TRUE]
      BY <2>1, <2>4 DEF Poinit
    <3>2. src'[h] = [src[h] EXCEPT !.po = TRUE] /\ src[h] \in Source
      BY <1>0, <3>1
    <3>3. src'[h].po
      BY <3>2 DEF Source
    <3>4. QED
      BY <3>3
  <2>5. QED
    BY <1>3, <2>1, <2>2, <2>3, <2>4 DEF Threads
<1>6. SdesKnows'
  <2>1. CASE t = "RTCP"
    BY <1>4, <2>1 DEF SdesKnows
  <2>2. CASE t = "RTP"
    <3>1. th'["RTCP"] = th["RTCP"]
      BY <1>2, <2>2 DEF OthersStay, Threads
    <3>2. th["RTCP"].pc = "sdes" => th["RTCP"].h \in Handles
      BY <1>0 DEF IInv, Structure, InHand, Hand, Threads
    <3>3. QED
      BY <1>1, <3>1, <3>2 DEF SdesKnows, PInv
  <2>3. QED
    BY <2>1, <2>2 DEF Threads
<1>7. RtpKnows'
  <2>1. CASE t = "RTCP"
    <3>1. th'["RTP"] = th["RTP"]
      BY <1>2, <2>1 DEF OthersStay, Threads
    <3>2. th["RTP"].pc \in {"poinit", "count", "counting", "track", "update"} => th["RTP"].h \in Handles
      BY <1>0 DEF IInv, Structure, InHand, Hand, Threads
    <3>3. QED
      BY <1>1, <3>1, <3>2 DEF RtpKnows, PInv
  <2>2. CASE t = "RTP"
    <3>1. SUFFICES ASSUME th'[t].pc \in {"poinit", "count", "counting", "track"}
                   PROVE  src'[th'[t].h].rtp_from # Null
      BY <1>4, <2>2 DEF RtpKnows
    <3>2. QED
      BY <2>2, <3>1, RtpNamed
  <2>3. QED
    BY <2>1, <2>2 DEF Threads
<1>8. QED
  BY <1>5, <1>6, <1>7 DEF PInv

\* A thread that changes no source, makes none, and does not go on with one.
LEMMA QuietProbation ==
  ASSUME IInv, PInv, src' = src, NEW t \in Threads, OthersStay(t), th[t].pc \notin {"fill", "poinit"},
         th'[t].pc \notin {"poinit", "count", "counting", "track", "update"},
         th'[t].pc = "sdes" => src[th'[t].h].po
  PROVE  PInv'
<1>1. \A u \in Threads : u # t => th'[u] = th[u]
  BY DEF OthersStay
<1>2. CASE t = "RTP"
  BY <1>1, <1>2 DEF PInv, HasBuffer, SdesKnows, RtpKnows, Threads
<1>3. CASE t = "RTCP"
  BY <1>1, <1>3 DEF PInv, HasBuffer, SdesKnows, RtpKnows, Threads
<1>4. QED
  BY <1>2, <1>3 DEF Threads

LEMMA StartsProbation ==
  ASSUME IInv, WInv, PInv, StartProbation
  PROVE  PInv'
<1>1. PICK h \in Made : h = th["RTP"].h
  BY DEF StartProbation, IInv, Structure, InHand, Hand, Threads
<1>2. h \in Handles /\ th \in [Threads -> Thread] /\ src \in [Handles -> Source]
  BY <1>1, FindIsMade DEF IInv, TypeOK
<1>3. th["RTP"] \in Thread /\ src[h] \in Source
  BY <1>2 DEF Threads
<1>4. th'["RTP"] = [th["RTP"] EXCEPT !.pc = "update"] /\ th'["RTCP"] = th["RTCP"]
  BY <1>2 DEF StartProbation, Threads
<1>5. th'["RTP"].pc = "update" /\ th'["RTP"].h = h
  BY <1>1, <1>3, <1>4 DEF Thread
<1>6. src' = [src EXCEPT ![h] = [src[h] EXCEPT !.probation = MIN_SEQUENTIAL, !.bad = src[h].bad]]
  BY <1>1 DEF StartProbation, Stats
<1>7. /\ src'[h].probation = MIN_SEQUENTIAL /\ src'[h].po = src[h].po /\ src'[h].rtp_from = src[h].rtp_from
      /\ \A k \in Handles : k # h => src'[k] = src[k]
  BY <1>2, <1>3, <1>6 DEF Source
<1>8. HasBuffer'
  <2>1. src[h].po \/ (th["RTCP"].pc \in {"fill", "poinit"} /\ th["RTCP"].h = h)
    BY <1>1 DEF WInv, Unfinished, Building, StartProbation, Threads
  <2>2. QED
    BY <1>4, <1>7, <2>1 DEF PInv, HasBuffer
<1>9. SdesKnows'
  <2>1. th["RTCP"].pc = "sdes" => th["RTCP"].h \in Handles
    BY FindIsMade DEF IInv, Structure, InHand, Hand, Threads
  <2>2. QED
    BY <1>4, <1>7, <2>1 DEF PInv, SdesKnows
<1>10. RtpKnows'
  BY <1>1, <1>5, <1>7 DEF PInv, RtpKnows, StartProbation
<1>11. QED
  BY <1>8, <1>9, <1>10 DEF PInv

LEMMA TrackProbation ==
  ASSUME IInv, PInv, Track
  PROVE  PInv'
<1>1. PICK h \in Made : h = th["RTP"].h
  BY DEF Track, IInv, Structure, InHand, Hand, Threads
<1>2. h \in Handles /\ th \in [Threads -> Thread] /\ src \in [Handles -> Source]
  BY <1>1, FindIsMade DEF IInv, TypeOK
<1>3. th["RTP"] \in Thread /\ src[h] \in Source
  BY <1>2 DEF Threads
<1>4. th'["RTP"] = [th["RTP"] EXCEPT !.pc = "add"] /\ th'["RTCP"] = th["RTCP"]
  BY <1>2 DEF Track, Threads
<1>5. th'["RTP"].pc = "add"
  BY <1>3, <1>4 DEF Thread
<1>6. \/ src[h].probation > 0 /\ Stats(h, MIN_SEQUENTIAL - 1, src[h].bad)
      \/ Stats(h, 0, src[h].bad) \/ Stats(h, 0, TRUE) \/ Enqueues(h, 0)
  <2>1. src[h].probation > 1 => src[h].probation > 0
    BY <1>3 DEF Source, MIN_SEQUENTIAL
  <2>2. QED
    BY <1>1, <2>1, Zenon DEF Track
<1>7. /\ src'[h].po = src[h].po /\ (src'[h].probation > 0 => src[h].probation > 0)
      /\ \A k \in Handles : k # h => src'[k] = src[k]
  <2>1. ASSUME NEW p \in 0 .. MIN_SEQUENTIAL, NEW b, Stats(h, p, b), p > 0 => src[h].probation > 0
        PROVE  /\ src'[h].po = src[h].po /\ (src'[h].probation > 0 => src[h].probation > 0)
               /\ \A k \in Handles : k # h => src'[k] = src[k]
    <3>1. src' = [src EXCEPT ![h] = [src[h] EXCEPT !.probation = p, !.bad = b]]
      BY <2>1 DEF Stats
    <3>2. src'[h].po = src[h].po /\ src'[h].probation = p /\ \A k \in Handles : k # h => src'[k] = src[k]
      BY <1>2, <1>3, <3>1 DEF Source
    <3>3. QED
      BY <2>1, <3>2
  <2>2. CASE Enqueues(h, 0)
    <3>1. PICK n : src' = [src EXCEPT ![h] = [src[h] EXCEPT !.probation = 0, !.bad = FALSE, !.tracked = n]]
      BY <2>2 DEF Enqueues
    <3>2. src'[h].po = src[h].po /\ src'[h].probation = 0 /\ \A k \in Handles : k # h => src'[k] = src[k]
      BY <1>2, <1>3, <3>1 DEF Source
    <3>3. QED
      BY <3>2
  <2>3. MIN_SEQUENTIAL - 1 \in 0 .. MIN_SEQUENTIAL /\ 0 \in 0 .. MIN_SEQUENTIAL /\ ~ (0 > 0)
    BY DEF MIN_SEQUENTIAL
  <2>4. QED
    BY <1>6, <2>1, <2>2, <2>3
<1>8. HasBuffer'
  BY <1>4, <1>7 DEF PInv, HasBuffer
<1>9. SdesKnows'
  <2>1. th["RTCP"].pc = "sdes" => th["RTCP"].h \in Handles
    BY FindIsMade DEF IInv, Structure, InHand, Hand, Threads
  <2>2. QED
    BY <1>4, <1>7, <2>1 DEF PInv, SdesKnows
<1>10. RtpKnows'
  BY <1>5 DEF RtpKnows
<1>11. QED
  BY <1>8, <1>9, <1>10 DEF PInv

LEMMA RtcpProbation ==
  ASSUME IInv, PInv, Parse \/ SdesRead \/ SdesWrite
  PROVE  PInv'
<1> DEFINE T == th["RTCP"]
           next == NextPacket(Tail(T.rest))
<1>1. PICK h \in Made : h = T.h
  BY DEF Parse, SdesRead, SdesWrite, IInv, Structure, InHand, Hand, Threads
<1>2. h \in Handles /\ th \in [Threads -> Thread] /\ src \in [Handles -> Source] /\ T \in Thread
  BY <1>1, FindIsMade DEF IInv, TypeOK, Threads
<1>3. next.pc \in {"select", "parse"}
  BY <1>2 DEF NextPacket, Idle, Thread
<1>4. T.pc \in {"parse", "sdes"} /\ OthersStay("RTCP")
  BY <1>2 DEF Parse, SdesRead, SdesWrite, OthersStay
<1>5. CASE (Parse \/ SdesRead) /\ th' = [th EXCEPT !["RTCP"] = next]
  <2>1. th'["RTCP"].pc \in {"select", "parse"} /\ src' = src
    BY <1>2, <1>3, <1>5 DEF Parse, SdesRead, shared, Threads
  <2>2. QED
    BY <1>4, <2>1, QuietProbation DEF Threads
<1>6. CASE SdesRead /\ src[h].probation > 0 /\ th' = [th EXCEPT !["RTCP"].pc = "sdes"]
  <2>1. th'["RTCP"] = [T EXCEPT !.pc = "sdes"] /\ src' = src
    BY <1>2, <1>6 DEF SdesRead, shared, Threads
  <2>2. th'["RTCP"].pc = "sdes" /\ th'["RTCP"].h = h
    BY <1>1, <1>2, <2>1 DEF Thread
  <2>3. src[h].po
    BY <1>2, <1>4, <1>6 DEF PInv, HasBuffer
  <2>4. QED
    BY <1>4, <2>1, <2>2, <2>3, QuietProbation DEF Threads
<1>7. CASE SdesWrite
  <2>1. src' = [src EXCEPT ![h] = [src[h] EXCEPT !.probation = 1]] /\ src[h] \in Source
    BY <1>1, <1>2, <1>7 DEF SdesWrite
  <2>2. /\ src'[h].po = src[h].po /\ src'[h].rtp_from = src[h].rtp_from
        /\ \A k \in Handles : k # h => src'[k] = src[k]
    BY <1>2, <2>1 DEF Source
  <2>3. src[h].po
    BY <1>1, <1>7 DEF SdesWrite, PInv, SdesKnows
  <2>4. th'["RTCP"].pc \in {"select", "parse"} /\ th'["RTP"] = th["RTP"]
    BY <1>2, <1>3, <1>7 DEF SdesWrite, Threads
  <2>5. HasBuffer'
    BY <1>4, <2>2, <2>3 DEF PInv, HasBuffer
  <2>6. RtpKnows'
    <3>1. th["RTP"].pc \in {"poinit", "count", "counting", "track", "update"} => th["RTP"].h \in Handles
      BY FindIsMade DEF IInv, Structure, InHand, Hand, Threads
    <3>2. QED
      BY <2>2, <2>3, <2>4, <3>1 DEF PInv, RtpKnows
  <2>7. QED
    BY <2>4, <2>5, <2>6 DEF PInv, SdesKnows
<1>8. QED
  BY <1>1, <1>5, <1>6, <1>7 DEF Parse, SdesRead

LEMMA ArrivalProbation ==
  ASSUME IInv, PInv, Add \/ Start \/ RtpArrives \/ RtcpArrives \/ LoopArrives
  PROVE  PInv'
<1>0. th \in [Threads -> Thread]
  BY DEF IInv, TypeOK
<1>1. CASE Add
  <2>1. th'["RTP"].pc = "select" /\ OthersStay("RTP") /\ src' = src /\ th["RTP"].pc = "add"
    BY <1>0, <1>1 DEF Add, Idle, OthersStay, shared, Threads
  <2>2. QED
    BY <2>1, QuietProbation DEF Threads
<1>2. CASE Start
  <2>1. th'["RTCP"].pc = "select" /\ OthersStay("RTCP") /\ src' = src /\ th["RTCP"].pc = "none"
    BY <1>0, <1>2 DEF Start, Thread, OthersStay, Threads
  <2>2. QED
    BY <2>1, QuietProbation DEF Threads
<1>3. ASSUME NEW t \in Threads, NEW x, NEW a, NEW c, Arrive(t, x, a, c) PROVE PInv'
  <2>1. th'[t] = [Idle EXCEPT !.pc = "recv", !.ssrc = x, !.addr = a, !.rest = c]
    BY <1>0, <1>3 DEF Arrive
  <2>2. th'[t].pc = "recv" /\ OthersStay(t) /\ src' = src /\ th[t].pc = "select"
    BY <1>0, <1>3, <2>1 DEF Arrive, Idle, OthersStay, shared
  <2>3. QED
    BY <1>3, <2>2, QuietProbation
<1>4. QED
  BY <1>1, <1>2, <1>3 DEF RtpArrives, RtcpArrives, LoopArrives, Threads

LEMMA InitPInv == Init => PInv
<1> SUFFICES ASSUME Init PROVE PInv
  OBVIOUS
<1>1. \A t \in Threads : th[t].pc \in {"select", "none"}
  BY DEF Init, Idle
<1>2. \A h \in Handles : ~ (src[h].probation > 0)
  BY DEF Init, Blank
<1>3. QED
  BY <1>1, <1>2 DEF PInv, HasBuffer, SdesKnows, RtpKnows, Threads

LEMMA NextPInv == IInv /\ WInv /\ PInv /\ [Next]_vars => PInv'
<1> SUFFICES ASSUME IInv, WInv, PInv, [Next]_vars PROVE PInv'
  OBVIOUS
<1>1. CASE RtpThread
  BY <1>1, ReceiverProbation, StartsProbation, TrackProbation, ArrivalProbation DEF RtpThread, Threads
<1>2. CASE RtcpThread
  BY <1>2, ReceiverProbation, RtcpProbation DEF RtcpThread, Threads
<1>3. CASE Start \/ RtpArrives \/ RtcpArrives \/ LoopArrives
  BY <1>3, ArrivalProbation
<1>4. CASE Application \/ UNCHANGED vars
  <2>1. th' = th /\ src' = src
    BY <1>4 DEF Application, FillBuffers, Filled, Walk, shared, vars
  <2>2. QED
    BY <2>1 DEF PInv, HasBuffer, SdesKnows, RtpKnows
<1>5. QED
  BY <1>1, <1>2, <1>3, <1>4 DEF Next

LEMMA InitWInv == Init => WInv
<1> SUFFICES ASSUME Init PROVE WInv
  OBVIOUS
<1>1. Made = {}
  BY DEF Init, Made
<1>2. \A t \in Threads : th[t].pc \in {"select", "none"} /\ (t = "RTP" => th[t].pc = "select")
  BY DEF Init, Idle
<1>3. \A h \in Handles : src[h].tracked = 0 /\ src[h].rtp_from = Null
  BY DEF Init, Blank
<1>4. syn \notin Threads
  BY DEF Init, Threads
<1>5. MakesUnderLock
  BY <1>2, <1>4 DEF MakesUnderLock
<1>6. Unfinished /\ NoSender /\ LookSees /\ TrackedWhole
  BY <1>1, <1>3 DEF Unfinished, NoSender, LookSees, TrackedWhole
<1>7. \A t \in Threads : Answer(t)
  BY <1>2 DEF Answer
<1>8. QueueTracked
  BY DEF Init, QueueTracked
<1>9. QED
  BY <1>5, <1>6, <1>7, <1>8 DEF WInv

LEMMA NextWInv == IInv /\ WInv /\ PInv /\ [Next]_vars => WInv'
<1> SUFFICES ASSUME IInv, WInv, PInv, [Next]_vars PROVE WInv'
  OBVIOUS
<1>1. ASSUME NEW t \in Threads, Receiver(t) PROVE WInv'
  BY <1>1, CalmSteps, CheckWhole, LookWhole, LinkWhole, FillWhole DEF Receiver
<1>2. CASE RtpThread
  BY <1>1, <1>2, TrackWhole, RestCalm DEF RtpThread, Threads
<1>3. CASE RtcpThread
  BY <1>1, <1>3, RestCalm DEF RtcpThread, Threads
<1>4. CASE Start \/ RtpArrives \/ RtcpArrives \/ LoopArrives
  BY <1>4, RestCalm
<1>5. CASE Application
  BY <1>5, ApplicationWhole
<1>6. CASE UNCHANGED vars
  <2>1. Made' = Made
    BY <1>6 DEF vars, Made
  <2>2. QED
    BY <1>6, <2>1 DEF vars, WInv, MakesUnderLock, Unfinished, Building, NoSender, LookSees, TrackedWhole, Whole,
                      Answer, QueueTracked
<1>7. QED
  BY <1>2, <1>3, <1>4, <1>5, <1>6 DEF Next

\* The application only meets sources that are made entirely, although it walks the
\* active queue, and the RTP thread looks sources up, without the mutex.
THEOREM WalkIsSafe == Spec => []WalksWholeSources
<1>1. IInv /\ WInv => WalksWholeSources
  <2> SUFFICES ASSUME IInv, WInv, app.at # Null PROVE Whole(app.at)
    BY DEF WalksWholeSources, Whole
  <2>1. app.at \in Handles
    BY DEF IInv, TypeOK
  <2>2. QED
    BY <2>1 DEF WInv, QueueTracked, TrackedWhole
<1>2. QED
  BY InitIInv, NextIInv, InitWInv, NextWInv, InitPInv, NextPInv, <1>1, PTL DEF Spec
-----------------------------------------------------------------------------
(***************************************************************************)
(* The counters. A thread reads and writes one without a lock, so that     *)
(* what the other wrote meanwhile is lost; it never leaves more than there *)
(* are sources. Room is what a counter may be while some threads still owe *)
(* it one for a source they made.                                          *)
(***************************************************************************)
Counters == {"senders", "members"}
Count(X) == IF X = "senders" THEN senders ELSE members
Base(X)  == IF X = "senders" THEN 0 ELSE 1

NewSources == {h \in Made : src[h].counted}

Owes(t, X) ==
  \/ th[t].pc \in {"fill", "poinit"} /\ th[t].res = "NEW"
  \/ th[t].pc \in {"count", "counting"} /\ (X = "members" \/ Head(th[t].todo) = X)

Due(t, X) == IF Owes(t, X) THEN 1 ELSE 0
Room(X)   == Base(X) + Cardinality(NewSources) - Due("RTP", X) - Due("RTCP", X)

\* What a thread is about to write leaves room for what the other owes.
Raising(t) ==
  /\ th[t].pc \in {"count", "counting"} => th[t].todo \in {<<"senders", "members">>, <<"members">>}
  /\ th[t].pc = "counting" => th[t].seen <= Room(Head(th[t].todo))

CInv ==
  /\ \A X \in Counters : Count(X) <= Room(X)
  /\ \A t \in Threads : Raising(t)

LEMMA NewSourcesFinite ==
  IInv => IsFiniteSet(NewSources) /\ Cardinality(NewSources) \in Nat
<1> SUFFICES ASSUME IInv PROVE IsFiniteSet(NewSources) /\ Cardinality(NewSources) \in Nat
  OBVIOUS
<1>1. NewSources \subseteq Handles
  BY FindIsMade DEF IInv, NewSources
<1>2. IsFiniteSet(Handles)
  BY FS_Interval, SourcesAssumption DEF Handles, SourcesAssumption
<1>3. QED
  BY <1>1, <1>2, FS_Subset, FS_CardinalityType

\* There is no less room after a step that lets no thread owe more, and one more for a
\* thread that has paid.
LEMMA RoomKept ==
  ASSUME IInv, IInv', NewSources' = NewSources, NEW X \in Counters,
         \A u \in Threads : Owes(u, X)' => Owes(u, X)
  PROVE  /\ Room(X) \in Int /\ Room(X)' \in Int /\ Room(X) <= Room(X)'
         /\ \A t \in Threads : Owes(t, X) /\ ~ Owes(t, X)' => Room(X) + 1 <= Room(X)'
<1>1. PICK n \in Nat : n = Cardinality(NewSources) /\ n = Cardinality(NewSources')
  BY NewSourcesFinite
<1>2. PICK b \in Nat : b = Base(X)
  BY DEF Base
<1>3. Room(X) = b + n - Due("RTP", X) - Due("RTCP", X)
  BY <1>1, <1>2 DEF Room
<1>4. Room(X)' = b + n - Due("RTP", X)' - Due("RTCP", X)'
  BY <1>1, <1>2 DEF Room, Base
<1>5. PICK i, j, k, l \in 0 .. 1 :
        /\ i = Due("RTP", X) /\ j = Due("RTCP", X) /\ k = Due("RTP", X)' /\ l = Due("RTCP", X)'
  BY DEF Due
<1>6. /\ k <= i /\ l <= j
      /\ Owes("RTP", X) /\ ~ Owes("RTP", X)' => i = 1 /\ k = 0
      /\ Owes("RTCP", X) /\ ~ Owes("RTCP", X)' => j = 1 /\ l = 0
  BY <1>5 DEF Due, Threads
<1>7. Room(X) = b + n - i - j /\ Room(X)' = b + n - k - l
  BY <1>3, <1>4, <1>5
<1>8. QED
  BY <1>6, <1>7 DEF Threads

\* A step of t keeps CInv if there is no less room and t and the counters keep theirs.
LEMMA CInvKept ==
  ASSUME IInv, IInv', CInv, NEW t \in Threads, OthersStay(t), Raising(t)',
         \A X \in Counters : /\ Room(X) \in Int /\ Room(X)' \in Int /\ Room(X) <= Room(X)'
                             /\ Count(X)' <= Room(X)'
  PROVE  CInv'
<1>1. ASSUME NEW u \in Threads, u # t PROVE Raising(u)'
  <2>1. th'[u] = th[u] /\ Raising(u) /\ Hand(u)
    BY <1>1 DEF OthersStay, CInv, IInv, Structure, InHand
  <2>2. CASE th[u].pc = "counting"
    <3>1. PICK X \in Counters : X = Head(th[u].todo)
      BY <2>1, <2>2 DEF Raising, Counters
    <3>2. PICK n \in Nat : n = th[u].seen
      BY <2>1, <2>2 DEF Hand
    <3>3. n <= Room(X)
      BY <2>1, <2>2, <3>1, <3>2 DEF Raising
    <3>4. Room(X) \in Int /\ Room(X)' \in Int /\ Room(X) <= Room(X)'
      OBVIOUS
    <3>5. n <= Room(X)'
      BY <3>3, <3>4
    <3>6. QED
      BY <2>1, <3>1, <3>2, <3>5 DEF Raising
  <2>3. QED
    BY <2>1, <2>2 DEF Raising
<1>2. QED
  BY <1>1 DEF CInv

\* A step of t that makes no source and raises no counter.
LEMMA PaysNothing ==
  ASSUME IInv, IInv', CInv, NEW t \in Threads, OthersStay(t), Raising(t)', NewSources' = NewSources,
         members' = members, senders' = senders,
         \A X \in Counters : Owes(t, X)' => Owes(t, X)
  PROVE  CInv'
<1>1. ASSUME NEW X \in Counters
      PROVE  /\ Room(X) \in Int /\ Room(X)' \in Int /\ Room(X) <= Room(X)'
             /\ Count(X)' <= Room(X)'
  <2>1. \A u \in Threads : Owes(u, X)' => Owes(u, X)
    BY DEF OthersStay, Owes
  <2>2. Room(X) \in Int /\ Room(X)' \in Int /\ Room(X) <= Room(X)'
    BY <2>1, RoomKept
  <2>3. Count(X)' = Count(X) /\ Count(X) \in Nat /\ Count(X) <= Room(X)
    BY DEF Count, IInv, TypeOK, CInv
  <2>4. QED
    BY <2>2, <2>3
<1>2. QED
  BY <1>1, CInvKept

LEMMA NewSourcesKept ==
  ASSUME IInv, ssrc_queue' = ssrc_queue, \A h \in Handles : src'[h].counted = src[h].counted
  PROVE  NewSources' = NewSources
<1>1. Made' = Made /\ Made \subseteq Handles
  BY FindIsMade DEF Made, IInv
<1>2. QED
  BY <1>1 DEF NewSources

\* Nor does it raise one later.
LEMMA OwesNothing ==
  ASSUME IInv, IInv', CInv, NEW t \in Threads, OthersStay(t),
         ssrc_queue' = ssrc_queue, \A h \in Handles : src'[h].counted = src[h].counted,
         members' = members, senders' = senders,
         th'[t].pc \notin {"fill", "poinit", "count", "counting"}
  PROVE  CInv'
<1>1. Raising(t)'
  BY DEF Raising
<1>2. \A X \in Counters : Owes(t, X)' => Owes(t, X)
  BY DEF Owes
<1>3. QED
  BY <1>1, <1>2, NewSourcesKept, PaysNothing

\* The history of a source is written where the source is linked and where it is tracked.
LEMMA HistoryKept ==
  ASSUME IInv, NEW t \in Threads, Receiver(t)
  PROVE  /\ active' = active /\ next_active' = next_active
         /\ \A k \in Handles : /\ src'[k].tracked = src[k].tracked
                               /\ Link(t) \/ src'[k].counted = src[k].counted
<1>0. src \in [Handles -> Source] /\ ssrc_queue \in Seq(Handles)
  BY DEF IInv, TypeOK
<1>1. active' = active /\ next_active' = next_active
  BY DEF Receiver, Receive, Compare, Check, Look, Known, Collide, Renew, Link, LinkFails, Fill, Poinit,
         CountRead, CountWrite, shared
<1>2. CASE src' = src
  BY <1>1, <1>2
<1>3. ASSUME NEW h \in Handles, NEW x, NEW a, NEW b, NEW c, NEW p,
             \/ src' = [src EXCEPT ![h][From(t)] = a, ![h].rtcp_to = b]
             \/ src' = [src EXCEPT ![h] = [@ EXCEPT !.ssrc = x, ![From(t)] = a, !.rtcp_to = b]]
             \/ src' = [src EXCEPT ![h].po = p]
             \/ src' = [src EXCEPT ![h].by = t, ![h].counted = c] /\ Link(t)
      PROVE  \A k \in Handles : /\ src'[k].tracked = src[k].tracked
                                /\ Link(t) \/ src'[k].counted = src[k].counted
  <2>1. src[h] \in Source /\ \A k \in Handles : k # h => src'[k] = src[k]
    BY <1>0, <1>3
  <2>2. \/ src'[h] = [src[h] EXCEPT ![From(t)] = a, !.rtcp_to = b]
        \/ src'[h] = [src[h] EXCEPT !.ssrc = x, ![From(t)] = a, !.rtcp_to = b]
        \/ src'[h] = [src[h] EXCEPT !.po = p]
        \/ src'[h] = [src[h] EXCEPT !.by = t, !.counted = c] /\ Link(t)
    BY <1>0, <1>3
  <2>3. src'[h].tracked = src[h].tracked /\ (Link(t) \/ src'[h].counted = src[h].counted)
    <3>1. From(t) = "rtp_from" \/ From(t) = "rtcp_from"
      BY DEF From
    <3>2. QED
      BY <2>1, <2>2, <3>1 DEF Source
  <2>4. QED
    BY <2>1, <2>3
<1>4. CASE Look(t)
  <2> DEFINE h == Find(th[t].ssrc)
  <2>1. h = Null \/ h \in Handles
    BY FindIsMade DEF IInv
  <2>2. src' = src \/ (Known(t, h) /\ h \in Handles)
    BY <1>4, <2>1 DEF Look
  <2> HIDE DEF h
  <2>3. CASE Known(t, h) /\ h \in Handles
    <3>1. PICK a, b : src' = [src EXCEPT ![h][From(t)] = a, ![h].rtcp_to = b]
      BY <2>3 DEF Known
    <3>2. QED
      BY <1>1, <1>3, <2>3, <3>1
  <2>4. QED
    BY <1>2, <2>2, <2>3
<1>5. CASE Fill(t)
  <2> DEFINE h == th[t].h
  <2>1. h \in Handles
    BY <1>5, FindIsMade DEF IInv, Structure, InHand, Hand, Fill
  <2>2. PICK x, a, b : src' = [src EXCEPT ![h] = [@ EXCEPT !.ssrc = x, ![From(t)] = a, !.rtcp_to = b]]
    BY <1>5 DEF Fill
  <2> HIDE DEF h
  <2>3. QED
    BY <1>1, <1>3, <2>1, <2>2
<1>6. CASE Poinit(t)
  <2> DEFINE h == th[t].h
  <2>1. h \in Handles
    BY <1>6, FindIsMade DEF IInv, Structure, InHand, Hand, Poinit
  <2>2. src' = [src EXCEPT ![h].po = TRUE]
    BY <1>6 DEF Poinit
  <2> HIDE DEF h
  <2>3. QED
    BY <1>1, <1>3, <2>1, <2>2
<1>7. CASE Link(t)
  <2> DEFINE h == Len(ssrc_queue) + 1
  <2>1. h \in Handles
    BY <1>0, <1>7, SourcesAssumption DEF Link, Handles, SourcesAssumption
  <2>2. PICK c : src' = [src EXCEPT ![h].by = t, ![h].counted = c]
    BY <1>7 DEF Link
  <2> HIDE DEF h
  <2>3. QED
    BY <1>1, <1>3, <1>7, <2>1, <2>2
<1>8. QED
  BY <1>2, <1>4, <1>5, <1>6, <1>7
     DEF Receiver, Receive, Compare, Check, Collide, Renew, LinkFails, CountRead, CountWrite, shared

\* rtp_ssrc_check.
LEMMA CheckCounts ==
  ASSUME IInv, IInv', CInv, NEW t \in Threads,
         Receive(t) \/ Compare(t) \/ Check(t) \/ Look(t) \/ Collide(t) \/ Renew(t) \/ LinkFails(t)
  PROVE  CInv'
<1>0. th[t] \in Thread /\ th \in [Threads -> Thread] /\ src \in [Handles -> Source]
  BY DEF IInv, TypeOK
<1>1. /\ ssrc_queue' = ssrc_queue /\ members' = members /\ senders' = senders
      /\ OthersStay(t)
  BY <1>0 DEF Receive, Compare, Check, Look, Known, Collide, Renew, LinkFails, shared, OthersStay
<1>2. CASE Receive(t) \/ Compare(t) \/ Check(t) \/ Renew(t) \/ LinkFails(t)
  <2>1. src' = src /\ th'[t].pc \in {"check", "lock", "collide", "look", "link", "select"}
    BY <1>0, <1>2 DEF Receive, Compare, Check, Renew, LinkFails, shared, Idle, Thread
  <2>2. QED
    BY <1>1, <2>1, OwesNothing
<1>3. CASE Collide(t)
  <2>1. src' = src /\ th'[t].pc \in {After(t, "COLLISION"), "renew"}
    BY <1>0, <1>3 DEF Collide, shared, Thread
  <2>2. After(t, "COLLISION") \in {"parse", "select"}
    BY AfterFacts, AfterIsPlace
  <2>3. QED
    BY <1>1, <2>1, <2>2, OwesNothing
<1>4. CASE Look(t)
  <2> DEFINE h == Find(th[t].ssrc)
  <2>1. CASE h = Null
    <3>1. src' = src /\ th'[t].pc = "link"
      BY <1>0, <1>4, <2>1 DEF Look, Thread
    <3>2. QED
      BY <1>1, <3>1, OwesNothing
  <2>2. CASE h # Null
    <3>1. h \in Handles
      BY <2>2, FindIsMade DEF IInv
    <3> HIDE DEF h
    <3>2. Known(t, h)
      BY <1>4, <2>2 DEF Look, h
    <3>3. PICK res \in {"KNOWN", "RTPNEW", "RTCPNEW", "COLLISION"} :
            th' = [th EXCEPT ![t] = [th[t] EXCEPT !.h = h, !.res = res, !.pc = After(t, res)]]
      <4> DEFINE first == src[h][From(t)] = Null
                 r == IF first THEN Announce(t)
                      ELSE IF src[h][From(t)] # th[t].addr THEN "COLLISION" ELSE "KNOWN"
      <4>1. th' = [th EXCEPT ![t] = [th[t] EXCEPT !.h = h, !.res = r, !.pc = After(t, r)]]
        BY <3>2 DEF Known
      <4>2. r \in {"KNOWN", "RTPNEW", "RTCPNEW", "COLLISION"}
        BY DEF Announce
      <4> HIDE DEF r
      <4>3. QED
        BY <4>1, <4>2
    <3>4. th'[t].pc = After(t, res)
      BY <1>0, <3>3 DEF Thread
    <3>5. After(t, res) \notin {"fill", "poinit", "count", "counting"}
      BY <3>3, AfterFacts, AfterIsPlace DEF Threads
    <3>6. \A k \in Handles : src'[k].counted = src[k].counted
      BY <1>4, HistoryKept DEF Receiver, Look, Link
    <3>7. QED
      BY <1>1, <3>4, <3>5, <3>6, OwesNothing
  <2>3. QED
    BY <2>1, <2>2
<1>5. QED
  BY <1>2, <1>3, <1>4

\* A source is made: there is room for one more.
LEMMA LinkCounts ==
  ASSUME IInv, IInv', CInv, NEW t \in Threads, Link(t)
  PROVE  CInv'
<1> DEFINE n == Len(ssrc_queue) + 1
<1>1. /\ th[t] \in Thread /\ th \in [Threads -> Thread] /\ src \in [Handles -> Source]
      /\ ssrc_queue \in Seq(Handles) /\ Made \subseteq Handles /\ th[t].pc = "link"
  BY FindIsMade DEF IInv, TypeOK, Link
<1>2. n \in Handles
  BY <1>1, SourcesAssumption DEF Link, Handles, SourcesAssumption
<1>3. n \notin Made
  BY <1>1 DEF IInv, Structure, Numbered, Made
<1>4. Made' = Made \cup {n}
  <2>1. ssrc_queue' = <<n>> \o ssrc_queue
    BY DEF Link
  <2>2. QED
    BY <1>1, <1>2, <2>1, PushMade
<1> HIDE DEF n
<1>5. /\ th' = [th EXCEPT ![t] = [th[t] EXCEPT !.h = n, !.pc = "fill"]]
      /\ src' = [src EXCEPT ![n] = [src[n] EXCEPT !.by = t, !.counted = th[t].res = "NEW"]]
      /\ members' = members /\ senders' = senders
  BY DEF Link, n
<1>6. OthersStay(t) /\ th'[t].pc = "fill" /\ th'[t].res = th[t].res
  BY <1>1, <1>5 DEF OthersStay, Thread
<1>7. src'[n].counted = (th[t].res = "NEW") /\ \A k \in Handles : k # n => src'[k] = src[k]
  BY <1>1, <1>2, <1>5 DEF Source
<1>8. NewSources' = IF th[t].res = "NEW" THEN NewSources \cup {n} ELSE NewSources
  BY <1>1, <1>2, <1>3, <1>4, <1>7 DEF NewSources
<1>9. n \notin NewSources
  BY <1>3 DEF NewSources
<1>10. PICK c \in Nat : /\ c = Cardinality(NewSources)
                        /\ Cardinality(NewSources') = IF th[t].res = "NEW" THEN c + 1 ELSE c
  BY <1>8, <1>9, NewSourcesFinite, FS_AddElement
<1>11. Raising(t)'
  BY <1>6 DEF Raising
<1>12. ASSUME NEW X \in Counters
       PROVE  /\ Room(X) \in Int /\ Room(X)' \in Int /\ Room(X) <= Room(X)'
              /\ Count(X)' <= Room(X)'
  <2>1. PICK b \in Nat : b = Base(X)
    BY DEF Base
  <2>2. PICK i, j, k, l \in 0 .. 1 :
          /\ i = Due("RTP", X) /\ j = Due("RTCP", X) /\ k = Due("RTP", X)' /\ l = Due("RTCP", X)'
    BY DEF Due
  <2>3. /\ t = "RTP" => j = l /\ i = 0 /\ (k = 1 => th[t].res = "NEW")
        /\ t = "RTCP" => i = k /\ j = 0 /\ (l = 1 => th[t].res = "NEW")
    BY <1>1, <1>6, <2>2 DEF Due, Owes, OthersStay, Threads
  <2>4. Room(X) = b + c - i - j
    BY <1>10, <2>1, <2>2 DEF Room
  <2>5. Room(X)' = b + Cardinality(NewSources') - k - l
    BY <2>1, <2>2 DEF Room, Base
  <2>6. Room(X) \in Int /\ Room(X)' \in Int /\ Room(X) <= Room(X)'
    BY <1>10, <2>3, <2>4, <2>5 DEF Threads
  <2>7. Count(X)' = Count(X) /\ Count(X) \in Nat /\ Count(X) <= Room(X)
    BY <1>5 DEF Count, IInv, TypeOK, CInv
  <2>8. QED
    BY <2>6, <2>7
<1>13. QED
  BY <1>6, <1>11, <1>12, CInvKept

\* It gets its address, and its playout list; then its thread counts it.
LEMMA FillCounts ==
  ASSUME IInv, IInv', CInv, NEW t \in Threads, Fill(t) \/ Poinit(t)
  PROVE  CInv'
<1>0. /\ th[t] \in Thread /\ th \in [Threads -> Thread] /\ src \in [Handles -> Source]
      /\ th[t].pc \in {"fill", "poinit"} /\ th[t].h \in Handles
  BY FindIsMade DEF IInv, TypeOK, Structure, InHand, Hand, Fill, Poinit
<1>1. ssrc_queue' = ssrc_queue /\ members' = members /\ senders' = senders /\ OthersStay(t)
  BY <1>0 DEF Fill, Poinit, OthersStay
<1>2. \A k \in Handles : src'[k].counted = src[k].counted
  BY <1>0, HistoryKept DEF Receiver, Link
<1>3. CASE Fill(t)
  <2>1. th'[t] = [th[t] EXCEPT !.pc = "poinit"] /\ th[t].pc = "fill"
    BY <1>0, <1>3 DEF Fill
  <2>2. th'[t].pc = "poinit" /\ th'[t].res = th[t].res
    BY <1>0, <2>1 DEF Thread
  <2>3. Raising(t)' /\ \A X \in Counters : Owes(t, X)' => Owes(t, X)
    BY <2>1, <2>2 DEF Raising, Owes
  <2>4. QED
    BY <1>1, <1>2, <2>3, NewSourcesKept, PaysNothing
<1>4. CASE Poinit(t)
  <2>1. CASE th[t].res = "NEW"
    <3>1. th'[t] = [th[t] EXCEPT !.pc = "count", !.todo = Raises(t)] /\ th[t].pc = "poinit"
      <4>1. After(t, "NEW") = "count"
        BY AfterFacts
      <4>2. /\ th' = [th EXCEPT ![t] = [th[t] EXCEPT !.pc = "count", !.todo = Raises(t)]]
            /\ th[t].pc = "poinit"
        BY <1>4, <2>1, <4>1 DEF Poinit
      <4>3. QED
        BY <1>0, <4>2
    <3>2. th'[t].pc = "count" /\ th'[t].todo = Raises(t)
      BY <1>0, <3>1 DEF Thread
    <3>3. Raising(t)' /\ \A X \in Counters : Owes(t, X)' => Owes(t, X)
      BY <2>1, <3>1, <3>2 DEF Raising, Owes, Raises
    <3>4. QED
      BY <1>1, <1>2, <3>3, NewSourcesKept, PaysNothing
  <2>2. CASE th[t].res # "NEW"
    <3>1. th'[t].pc = After(t, th[t].res)
      BY <1>0, <1>4 DEF Poinit, Thread
    <3>2. th'[t].pc \notin {"fill", "poinit", "count", "counting"}
      BY <2>2, <3>1, AfterFacts DEF Threads
    <3>3. QED
      BY <1>1, <1>2, <3>2, OwesNothing
  <2>3. QED
    BY <2>1, <2>2
<1>5. QED
  BY <1>3, <1>4

\* What a thread reads is no more than the counter.
LEMMA ReadCounts ==
  ASSUME IInv, IInv', CInv, NEW t \in Threads, CountRead(t)
  PROVE  CInv'
<1>0. th[t] \in Thread /\ th \in [Threads -> Thread] /\ th[t].pc = "count" /\ Raising(t)
  BY DEF IInv, TypeOK, CountRead, CInv
<1>1. /\ ssrc_queue' = ssrc_queue /\ src' = src /\ members' = members /\ senders' = senders
      /\ OthersStay(t)
  BY <1>0 DEF CountRead, shared, OthersStay
<1>2. PICK X \in Counters : X = Head(th[t].todo)
  BY <1>0 DEF Raising, Counters
<1>3. /\ th'[t].pc = "counting" /\ th'[t].seen = Count(X) /\ th'[t].todo = th[t].todo
      /\ th'[t].res = th[t].res
  <2>1. th'[t] = [th[t] EXCEPT !.seen = Count(X), !.pc = "counting"]
    BY <1>0, <1>2 DEF CountRead, Count
  <2>2. QED
    BY <1>0, <2>1 DEF Thread
<1>4. \A Y \in Counters : Owes(t, Y)' => Owes(t, Y)
  BY <1>0, <1>3 DEF Owes
<1>5. Raising(t)'
  <2>1. NewSources' = NewSources
    BY <1>1, NewSourcesKept
  <2>2. \A u \in Threads : Owes(u, X)' => Owes(u, X)
    BY <1>1, <1>4 DEF OthersStay, Owes
  <2>3. Room(X) \in Int /\ Room(X)' \in Int /\ Room(X) <= Room(X)'
    BY <2>1, <2>2, RoomKept
  <2>4. PICK n \in Nat : n = Count(X)
    BY DEF Count, IInv, TypeOK
  <2>5. n <= Room(X)
    BY <2>4 DEF CInv
  <2>6. n <= Room(X)'
    BY <2>3, <2>5
  <2>7. QED
    BY <1>0, <1>2, <1>3, <2>4, <2>6 DEF Raising
<1>6. QED
  BY <1>1, <1>4, <1>5, NewSourcesKept, PaysNothing

\* What it writes is one more than it read: it owes that one no longer.
LEMMA WriteCounts ==
  ASSUME IInv, IInv', CInv, NEW t \in Threads, CountWrite(t)
  PROVE  CInv'
<1>0. /\ th[t] \in Thread /\ th \in [Threads -> Thread] /\ th[t].pc = "counting" /\ Raising(t)
      /\ th[t].seen \in Nat
  BY DEF IInv, TypeOK, CountWrite, CInv, Structure, InHand, Hand
<1>1. ssrc_queue' = ssrc_queue /\ src' = src /\ OthersStay(t)
  BY <1>0 DEF CountWrite, OthersStay
<1>2. PICK X \in Counters : X = Head(th[t].todo)
  BY <1>0 DEF Raising, Counters
<1>3. /\ Count(X)' = th[t].seen + 1 /\ th[t].seen <= Room(X)
      /\ \A Y \in Counters : Y # X => Count(Y)' = Count(Y)
  BY <1>0, <1>2 DEF CountWrite, Count, Counters, Raising
<1>4. PICK pc \in {"count", "track", "parse"} :
        /\ th'[t] = [th[t] EXCEPT !.todo = Tail(th[t].todo), !.seen = Null, !.pc = pc]
        /\ pc = "count" <=> Tail(th[t].todo) # <<>>
  BY <1>0 DEF CountWrite
<1>5. th'[t].pc = pc /\ th'[t].todo = Tail(th[t].todo)
  BY <1>0, <1>4 DEF Thread
<1>6. /\ th[t].todo = <<"senders", "members">> => X = "senders" /\ th'[t].todo = <<"members">>
      /\ th[t].todo = <<"members">> => X = "members" /\ th'[t].todo = <<>>
  <2>1. /\ Head(<<"senders", "members">>) = "senders" /\ Tail(<<"senders", "members">>) = <<"members">>
        /\ Head(<<"members">>) = "members" /\ Tail(<<"members">>) = <<>>
    OBVIOUS
  <2>2. CASE th[t].todo = <<"senders", "members">>
    <3>1. <<"senders", "members">> # <<"members">>
      OBVIOUS
    <3>2. QED
      BY <1>2, <1>5, <2>1, <2>2, <3>1, Zenon
  <2>3. CASE th[t].todo = <<"members">>
    <3>1. <<"senders", "members">> # <<"members">>
      OBVIOUS
    <3>2. QED
      BY <1>2, <1>5, <2>1, <2>3, <3>1, Zenon
  <2>4. QED
    BY <2>2, <2>3
<1>7. pc = "count" => th[t].todo = <<"senders", "members">>
  BY <1>0, <1>4, <1>5, <1>6 DEF Raising
<1>8. Raising(t)'
  BY <1>4, <1>5, <1>6, <1>7 DEF Raising
<1>9. /\ Owes(t, X) /\ ~ Owes(t, X)'
      /\ \A Y \in Counters : Owes(t, Y)' => Owes(t, Y)
  <2>1. Owes(t, X)
    BY <1>0, <1>2 DEF Owes
  <2>2. CASE pc = "count"
    <3>1. Head(<<"members">>) = "members"
      OBVIOUS
    <3>2. QED
      BY <1>0, <1>5, <1>6, <1>7, <2>1, <2>2, <3>1 DEF Owes, Counters
  <2>3. CASE pc # "count"
    BY <1>4, <1>5, <2>1, <2>3 DEF Owes
  <2>4. QED
    BY <2>2, <2>3, <2>1
<1>10. ASSUME NEW Y \in Counters
       PROVE  /\ Room(Y) \in Int /\ Room(Y)' \in Int /\ Room(Y) <= Room(Y)'
              /\ Count(Y)' <= Room(Y)'
  <2>1. NewSources' = NewSources
    BY <1>1, NewSourcesKept
  <2>2. \A u \in Threads : Owes(u, Y)' => Owes(u, Y)
    BY <1>1, <1>9 DEF OthersStay, Owes
  <2>3. /\ Room(Y) \in Int /\ Room(Y)' \in Int /\ Room(Y) <= Room(Y)'
        /\ \A u \in Threads : Owes(u, Y) /\ ~ Owes(u, Y)' => Room(Y) + 1 <= Room(Y)'
    BY <2>1, <2>2, RoomKept
  <2>4. Count(Y) <= Room(Y) /\ Count(Y) \in Nat
    BY DEF CInv, Count, IInv, TypeOK
  <2>5. CASE Y = X
    BY <1>0, <1>3, <1>9, <2>3, <2>5
  <2>6. CASE Y # X
    BY <1>3, <2>3, <2>4, <2>6
  <2>7. QED
    BY <2>3, <2>5, <2>6
<1>11. QED
  BY <1>1, <1>8, <1>10, CInvKept

\* Everything else.
LEMMA RestCounts ==
  ASSUME IInv, IInv', CInv, NEW t \in Threads,
         \/ t = "RTP" /\ (StartProbation \/ Track \/ Add \/ RtpArrives)
         \/ t = "RTCP" /\ (Parse \/ SdesRead \/ SdesWrite \/ RtcpArrives \/ LoopArrives \/ Start)
  PROVE  CInv'
<1>0. /\ th[t] \in Thread /\ th \in [Threads -> Thread] /\ src \in [Handles -> Source]
  BY DEF IInv, TypeOK
<1>1. ssrc_queue' = ssrc_queue /\ members' = members /\ senders' = senders /\ OthersStay(t)
  BY <1>0 DEF StartProbation, Track, Add, Parse, SdesRead, SdesWrite, RtpArrives, RtcpArrives, LoopArrives,
              Arrive, Start, shared, OthersStay, Stats, Enqueues
<1>2. th'[t].pc \in {"update", "add", "select", "recv", "parse", "sdes"}
  <2>1. \A r : NextPacket(r).pc \in {"select", "parse"}
    <3>1. th["RTCP"] \in Thread
      BY <1>0 DEF Threads
    <3>2. \A r : [th["RTCP"] EXCEPT !.rest = r, !.pc = "parse"].pc = "parse" /\ Idle.pc = "select"
      BY <3>1 DEF Thread, Idle
    <3>3. QED
      BY <3>2 DEF NextPacket
  <2>2. Idle.pc = "select" /\ \A pc : [th[t] EXCEPT !.pc = pc].pc = pc
    BY <1>0 DEF Thread, Idle
  <2>3. ASSUME NEW x, NEW a, NEW c, Arrive(t, x, a, c) PROVE th'[t].pc = "recv"
    BY <1>0, <2>3 DEF Arrive, Idle
  <2>4. CASE t = "RTP"
    <3>0. CASE StartProbation
      <4>1. th' = [th EXCEPT !["RTP"].pc = "update"]
        BY <3>0 DEF StartProbation
      <4>2. th'[t] = [th[t] EXCEPT !.pc = "update"]
        BY <1>0, <2>4, <4>1
      <4>3. QED
        BY <2>2, <4>2
    <3>1. CASE Track
      <4>1. th' = [th EXCEPT !["RTP"].pc = "add"]
        BY <3>1 DEF Track
      <4>2. th'[t] = [th[t] EXCEPT !.pc = "add"]
        BY <1>0, <2>4, <4>1
      <4>3. QED
        BY <2>2, <4>2
    <3>2. CASE Add
      BY <1>0, <2>2, <2>4, <3>2 DEF Add
    <3>3. CASE RtpArrives
      BY <2>3, <2>4, <3>3 DEF RtpArrives
    <3>4. QED
      BY <2>4, <3>0, <3>1, <3>2, <3>3
  <2>5. CASE t = "RTCP"
    <3>1. CASE Start
      BY <1>0, <2>2, <2>5, <3>1 DEF Start
    <3>2. CASE Parse \/ SdesWrite
      <4>1. th'[t] = NextPacket(Tail(th["RTCP"].rest))
        BY <1>0, <2>5, <3>2 DEF Parse, SdesWrite
      <4>2. QED
        BY <2>1, <4>1
    <3>3. CASE SdesRead
      <4>1. CASE th'[t] = NextPacket(Tail(th["RTCP"].rest))
        BY <2>1, <4>1
      <4>2. CASE th'[t] = [th[t] EXCEPT !.pc = "sdes"]
        BY <2>2, <4>2
      <4>3. QED
        BY <1>0, <2>5, <3>3, <4>1, <4>2 DEF SdesRead
    <3>4. CASE RtcpArrives \/ LoopArrives
      BY <2>3, <2>5, <3>4 DEF RtcpArrives, LoopArrives
    <3>5. QED
      BY <2>5, <3>1, <3>2, <3>3, <3>4
  <2>6. QED
    BY <2>4, <2>5 DEF Threads
<1>3. \A k \in Handles : src'[k].counted = src[k].counted
  <2>1. CASE StartProbation \/ Track
    <3> DEFINE h == th["RTP"].h
    <3>1. h \in Handles
      BY <2>1, FindIsMade DEF StartProbation, Track, IInv, Structure, InHand, Hand, Threads
    <3> HIDE DEF h
    <3>2. (\E p, b : Stats(h, p, b)) \/ Enqueues(h, 0)
      BY <2>1 DEF StartProbation, Track, h
    <3>3. \/ \E p, b : src' = [src EXCEPT ![h].probation = p, ![h].bad = b]
          \/ \E p, n : src' = [src EXCEPT ![h].probation = p, ![h].bad = FALSE, ![h].tracked = n]
      <4>1. CASE \E p, b : Stats(h, p, b)
        BY <4>1 DEF Stats
      <4>2. CASE Enqueues(h, 0)
        BY <4>2, <1>0, <3>1 DEF Enqueues
      <4>3. QED
        BY <3>2, <4>1, <4>2
    <3>4. CASE \E p, b : src' = [src EXCEPT ![h].probation = p, ![h].bad = b]
      BY <1>0, <3>1, <3>4 DEF Source
    <3>5. CASE \E p, n : src' = [src EXCEPT ![h].probation = p, ![h].bad = FALSE, ![h].tracked = n]
      BY <1>0, <3>1, <3>5 DEF Source
    <3>6. QED
      BY <3>3, <3>4, <3>5
  <2>2. CASE SdesWrite
    <3>1. th["RTCP"].h \in Handles
      BY <2>2, FindIsMade DEF SdesWrite, IInv, Structure, InHand, Hand, Threads
    <3>2. QED
      BY <1>0, <2>2, <3>1 DEF SdesWrite, Source
  <2>3. CASE src' = src
    BY <2>3
  <2>4. QED
    BY <2>1, <2>2, <2>3 DEF Add, Parse, SdesRead, RtpArrives, RtcpArrives, LoopArrives, Arrive, Start, shared
<1>4. QED
  BY <1>1, <1>2, <1>3, OwesNothing

LEMMA NextCInv == IInv /\ IInv' /\ CInv /\ [Next]_vars => CInv'
<1> SUFFICES ASSUME IInv, IInv', CInv, [Next]_vars PROVE CInv'
  OBVIOUS
<1>1. ASSUME NEW t \in Threads, Receiver(t) PROVE CInv'
  BY <1>1, CheckCounts, LinkCounts, FillCounts, ReadCounts, WriteCounts DEF Receiver
<1>2. CASE \/ StartProbation \/ Track \/ Add \/ RtpArrives
           \/ Parse \/ SdesRead \/ SdesWrite \/ RtcpArrives \/ LoopArrives \/ Start
  BY <1>2, RestCounts DEF Threads
<1>3. CASE Application \/ UNCHANGED vars
  <2>1. /\ ssrc_queue' = ssrc_queue /\ src' = src /\ members' = members /\ senders' = senders
        /\ th' = th
    BY <1>3 DEF Application, FillBuffers, Filled, Walk, shared, vars
  <2>2. NewSources' = NewSources
    BY <2>1, NewSourcesKept
  <2>3. \A X : Room(X)' = Room(X) /\ Count(X)' = Count(X)
    BY <2>1, <2>2 DEF Room, Base, Due, Owes, Count
  <2>4. QED
    BY <2>1, <2>3 DEF CInv, Raising
<1>4. QED
  BY <1>1, <1>2, <1>3 DEF Next, RtpThread, RtcpThread, Threads

\* The session never counts more members or senders than there are, although two
\* threads raise both counters without a lock.
THEOREM NeverOvercounts == Spec => []NotOvercounted
<1>1. Init => CInv
  <2> SUFFICES ASSUME Init PROVE CInv
    OBVIOUS
  <2>1. IInv /\ \A t \in Threads : th[t].pc \in {"select", "none"}
    BY InitIInv DEF Init, Idle
  <2>2. PICK n \in Nat : n = Cardinality(NewSources)
    BY <2>1, NewSourcesFinite
  <2>3. \A X : Due("RTP", X) = 0 /\ Due("RTCP", X) = 0
    BY <2>1 DEF Due, Owes, Threads
  <2>4. \A X \in Counters : Room(X) = Base(X) + n
    BY <2>2, <2>3 DEF Room, Base
  <2>5. \A X \in Counters : Count(X) = Base(X)
    BY DEF Init, Count, Base
  <2>6. \A X \in Counters : Count(X) <= Room(X)
    BY <2>4, <2>5 DEF Base
  <2>7. QED
    BY <2>1, <2>6 DEF CInv, Raising
<1>2. IInv /\ CInv => NotOvercounted
  <2> SUFFICES ASSUME IInv, CInv PROVE NotOvercounted
    OBVIOUS
  <2>1. PICK n \in Nat : n = Cardinality(NewSources)
    BY NewSourcesFinite
  <2>2. \A X \in Counters : Room(X) <= Base(X) + n /\ Room(X) \in Int
    BY <2>1 DEF Room, Base, Due
  <2>3. \A X \in Counters : Count(X) <= Base(X) + n
    BY <2>2 DEF CInv, Count, Base, IInv, TypeOK
  <2>4. members <= 1 + n /\ senders <= n
    BY <2>3 DEF Counters, Count, Base, IInv, TypeOK
  <2>5. QED
    BY <2>1, <2>4 DEF NotOvercounted, NewSources
<1>3. QED
  BY InitIInv, NextIInv, NextCInv, <1>1, <1>2, PTL DEF Spec
-----------------------------------------------------------------------------
(***************************************************************************)
(* The active queue, as long as no source is tracked anew: a list along    *)
(* next_active, of the sources that came off probation. Active is what can *)
(* be reached, as the least set that is closed.                            *)
(***************************************************************************)
ActiveList(q) ==
  /\ q \in Seq(Handles)
  /\ active = IF q = <<>> THEN Null ELSE q[1]
  /\ \A i \in 1 .. Len(q) : next_active[q[i]] = IF i < Len(q) THEN q[i + 1] ELSE Null
  /\ \A h \in Handles : src[h].tracked = 1 <=> \E i \in 1 .. Len(q) : q[i] = h

AInv == NeverRestarted => \E q : ActiveList(q)

\* A set that holds the first member of a list, and with each one the next, holds them all.
LEMMA ListClosed ==
  ASSUME NEW q \in Seq(Handles), NEW S, q # <<>> => q[1] \in S,
         \A i \in 1 .. Len(q) : i < Len(q) /\ q[i] \in S => q[i + 1] \in S
  PROVE  \A i \in 1 .. Len(q) : q[i] \in S
<1>1. PICK n \in Nat : n = Len(q) /\ (n # 0 => q # <<>>)
  OBVIOUS
<1> DEFINE T == {i \in 1 .. n : q[i] \notin S}
<1>2. SUFFICES ASSUME T # {} PROVE FALSE
  BY <1>1
<1>3. T \subseteq Nat
  OBVIOUS
<1>4. PICK i \in T : \A j \in T : i <= j
  <2> HIDE DEF T
  <2>1. QED
    BY <1>2, <1>3, LeastExists
<1>5. i \in 1 .. n /\ q[i] \notin S
  BY <1>4
<1>6. i # 1
  BY <1>1, <1>5
<1>7. i - 1 \in 1 .. n /\ i - 1 < n /\ i - 1 + 1 = i /\ ~ (i <= i - 1)
  BY <1>5, <1>6
<1>8. q[i - 1] \in S
  BY <1>4, <1>7
<1>9. QED
  BY <1>1, <1>5, <1>7, <1>8

\* What a walk meets is what the list holds.
LEMMA ActiveIsList ==
  ASSUME IInv, NEW q, ActiveList(q)
  PROVE  Active = {h \in Handles : src[h].tracked = 1}
<1> DEFINE S == {h \in Handles : src[h].tracked = 1}
<1>1. q \in Seq(Handles) /\ Null \notin Handles
  BY SourcesAssumption DEF ActiveList, SourcesAssumption, Handles
<1>2. PICK n \in Nat : n = Len(q) /\ (q = <<>> <=> n = 0) /\ \A i \in 1 .. n : q[i] \in Handles
  BY <1>1
<1>3. \A h \in Handles : h \in S <=> \E i \in 1 .. n : q[i] = h
  BY <1>2 DEF ActiveList
<1>4. ASSUME NEW h \in Active PROVE h \in S
  <2>1. active \in S \cup {Null}
    BY <1>2, <1>3 DEF ActiveList
  <2>2. ASSUME NEW k \in S PROVE next_active[k] \in S \cup {Null}
    <3>1. PICK i \in 1 .. n : q[i] = k
      BY <1>3
    <3>2. next_active[k] = IF i < n THEN q[i + 1] ELSE Null
      BY <1>2, <3>1 DEF ActiveList
    <3>3. i < n => i + 1 \in 1 .. n
      BY <1>2, <3>1
    <3>4. QED
      BY <1>2, <1>3, <3>2, <3>3
  <2>3. S \in SUBSET Handles
    OBVIOUS
  <2> HIDE DEF S
  <2>4. QED
    BY <2>1, <2>2, <2>3 DEF Active
<1>5. ASSUME NEW h \in S PROVE h \in Active
  <2> SUFFICES ASSUME NEW C \in SUBSET Handles, active \in C \cup {Null},
                      \A k \in C : next_active[k] \in C \cup {Null}
               PROVE  h \in C
    BY DEF Active
  <2>1. q # <<>> => q[1] \in C
    <3>1. q # <<>> => 1 \in 1 .. n /\ active = q[1]
      BY <1>2 DEF ActiveList
    <3>2. QED
      BY <1>1, <1>2, <3>1
  <2>2. ASSUME NEW i \in 1 .. n, i < n, q[i] \in C PROVE q[i + 1] \in C
    <3>1. next_active[q[i]] = q[i + 1] /\ i + 1 \in 1 .. n
      BY <1>2, <2>2 DEF ActiveList
    <3>2. QED
      BY <1>1, <1>2, <2>2, <3>1
  <2>3. \A i \in 1 .. n : q[i] \in C
    BY <1>1, <1>2, <2>1, <2>2, ListClosed
  <2>4. PICK i \in 1 .. n : q[i] = h
    BY <1>3
  <2>5. QED
    BY <2>3, <2>4
<1>6. QED
  BY <1>4, <1>5

\* Linking a source first makes the list longer.
LEMMA TrackActive ==
  ASSUME IInv, AInv, StartProbation \/ Track
  PROVE  AInv'
<1>0. PICK h \in Handles : h = th["RTP"].h
  BY FindIsMade DEF IInv, Structure, InHand, Hand, StartProbation, Track, Threads
<1>1. src \in [Handles -> Source] /\ next_active \in [Handles -> Handles \cup {Null}]
  BY DEF IInv, TypeOK
<1>2. src[h] \in Source
  BY <1>1
<1>3. (\E p, b : Stats(h, p, b)) \/ Enqueues(h, 0)
  BY <1>0 DEF StartProbation, Track
<1>4. CASE \E p, b : Stats(h, p, b)
  <2>1. \A k \in Handles : src'[k].tracked = src[k].tracked
    BY <1>1, <1>2, <1>4 DEF Stats, Source
  <2>2. active' = active /\ next_active' = next_active
    BY <1>4 DEF Stats
  <2>3. \A q : ActiveList(q) => ActiveList(q)'
    BY <2>1, <2>2 DEF ActiveList
  <2>4. QED
    BY <2>1, <2>3 DEF AInv, NeverRestarted
<1>5. CASE Enqueues(h, 0)
  <2>1. src' = [src EXCEPT ![h] = [src[h] EXCEPT !.probation = 0, !.bad = FALSE,
                                              !.tracked = IF src[h].tracked = 0 THEN 1 ELSE 2]]
    BY <1>1, <1>5 DEF Enqueues, Source
  <2>2. /\ src'[h].tracked = IF src[h].tracked = 0 THEN 1 ELSE 2
        /\ \A k \in Handles : k # h => src'[k] = src[k]
    BY <1>1, <1>2, <2>1 DEF Source
  <2>3. active' = h /\ next_active' = [next_active EXCEPT ![h] = active]
    BY <1>5 DEF Enqueues
  <2> SUFFICES ASSUME NeverRestarted' PROVE (\E q : ActiveList(q))'
    BY DEF AInv
  <2>4. src[h].tracked = 0 /\ src'[h].tracked = 1
    BY <1>1, <2>2 DEF NeverRestarted
  <2>5. NeverRestarted
    BY <2>2, <2>4 DEF NeverRestarted
  <2>6. PICK q : ActiveList(q)
    BY <2>5 DEF AInv
  <2>7. q \in Seq(Handles)
    BY <2>6 DEF ActiveList
  <2>8. PICK n \in Nat : n = Len(q) /\ (q = <<>> <=> n = 0) /\ \A i \in 1 .. n : q[i] \in Handles
    BY <2>7
  <2>r. PICK r : r = <<h>> \o q
    OBVIOUS
  <2>9. /\ r \in Seq(Handles) /\ Len(r) = n + 1 /\ r # <<>> /\ r[1] = h
        /\ \A i \in 1 .. n : r[i + 1] = q[i]
        /\ \A i \in 2 .. n + 1 : r[i] = q[i - 1] /\ i - 1 \in 1 .. n
    BY <1>1, <2>7, <2>8, <2>r
  <2>10. \A i \in 1 .. n : q[i] # h
    BY <1>1, <2>4, <2>6, <2>8 DEF ActiveList
  <2>11. ASSUME NEW i \in 1 .. n + 1
         PROVE  next_active'[r[i]] = IF i < n + 1 THEN r[i + 1] ELSE Null
    <3>1. CASE i = 1
      <4>1. next_active'[r[i]] = active
        BY <1>1, <2>3, <2>9, <3>1
      <4>2. active = IF n = 0 THEN Null ELSE q[1]
        BY <2>6, <2>8 DEF ActiveList
      <4>3. n # 0 => 1 \in 1 .. n /\ r[1 + 1] = q[1]
        BY <2>9
      <4>4. QED
        BY <2>8, <3>1, <4>1, <4>2, <4>3
    <3>2. CASE i # 1
      <4>1. i - 1 \in 1 .. n /\ r[i] = q[i - 1] /\ i \in 2 .. n + 1
        BY <2>8, <2>9, <3>2
      <4>2. next_active'[r[i]] = next_active[q[i - 1]]
        BY <1>1, <2>3, <2>8, <2>10, <4>1
      <4>3. next_active[q[i - 1]] = IF i - 1 < n THEN q[i - 1 + 1] ELSE Null
        BY <2>6, <2>8, <4>1 DEF ActiveList
      <4>4. i < n + 1 => i \in 1 .. n /\ r[i + 1] = q[i]
        BY <2>8, <2>9, <4>1
      <4>5. (i < n + 1 <=> i - 1 < n) /\ i - 1 + 1 = i
        BY <2>8, <4>1
      <4>6. QED
        BY <4>2, <4>3, <4>4, <4>5
    <3>3. QED
      BY <3>1, <3>2
  <2>12. ASSUME NEW k \in Handles
         PROVE  src'[k].tracked = 1 <=> \E i \in 1 .. n + 1 : r[i] = k
    <3>1. CASE k = h
      <4>1. 1 \in 1 .. n + 1
        BY <2>8
      <4>2. QED
        BY <2>4, <2>9, <3>1, <4>1
    <3>2. CASE k # h
      <4>1. src'[k].tracked = 1 <=> \E i \in 1 .. n : q[i] = k
        BY <2>2, <2>6, <2>8, <3>2 DEF ActiveList
      <4>2. ASSUME NEW i \in 1 .. n, q[i] = k PROVE \E j \in 1 .. n + 1 : r[j] = k
        <5>1. i + 1 \in 1 .. n + 1 /\ r[i + 1] = k
          BY <2>8, <2>9, <4>2
        <5>2. QED
          BY <5>1
      <4>3. ASSUME NEW j \in 1 .. n + 1, r[j] = k PROVE \E i \in 1 .. n : q[i] = k
        <5>1. j # 1
          BY <2>9, <3>2, <4>3
        <5>2. j \in 2 .. n + 1
          BY <2>8, <5>1
        <5>3. QED
          BY <2>9, <4>3, <5>2
      <4>4. QED
        BY <4>1, <4>2, <4>3
    <3>3. QED
      BY <3>1, <3>2
  <2>13. ActiveList(r)'
    BY <2>3, <2>9, <2>11, <2>12 DEF ActiveList
  <2>14. QED
    BY <2>13
<1>6. QED
  BY <1>3, <1>4, <1>5

\* Nothing else touches it.
LEMMA NextAInv == IInv /\ AInv /\ [Next]_vars => AInv'
<1> SUFFICES ASSUME IInv, AInv, [Next]_vars PROVE AInv'
  OBVIOUS
<1>1. ASSUME active' = active, next_active' = next_active,
             \A h \in Handles : src'[h].tracked = src[h].tracked
      PROVE  AInv'
  <2>1. \A q : ActiveList(q) => ActiveList(q)'
    BY <1>1 DEF ActiveList
  <2>2. QED
    BY <1>1, <2>1 DEF AInv, NeverRestarted
<1>2. ASSUME NEW t \in Threads, Receiver(t) PROVE AInv'
  BY <1>1, <1>2, HistoryKept
<1>3. CASE SdesWrite
  <2>1. th["RTCP"].h \in Handles /\ src \in [Handles -> Source]
    BY <1>3, FindIsMade DEF SdesWrite, IInv, TypeOK, Structure, InHand, Hand, Threads
  <2>2. \A h \in Handles : src'[h].tracked = src[h].tracked
    BY <1>3, <2>1 DEF SdesWrite, Source
  <2>3. QED
    BY <1>1, <1>3, <2>2 DEF SdesWrite
<1>4. CASE \/ Start \/ RtpArrives \/ RtcpArrives \/ LoopArrives \/ Application
           \/ Add \/ Parse \/ SdesRead \/ UNCHANGED vars
  <2>1. active' = active /\ next_active' = next_active /\ src' = src
    BY <1>4 DEF Start, RtpArrives, RtcpArrives, LoopArrives, Arrive, Application, FillBuffers, Filled,
                Walk, Add, Parse, SdesRead, vars, shared
  <2>2. QED
    BY <1>1, <2>1
<1>5. QED
  BY <1>2, <1>3, <1>4, TrackActive DEF Next, RtpThread, RtcpThread, Threads

\* The application walks exactly the sources that came off probation, as long as none is
\* put into the queue again.
THEOREM WalkMeetsTheTracked == Spec => []ActiveQueueSound
<1>1. Init => AInv
  <2> SUFFICES ASSUME Init PROVE ActiveList(<<>>)
    BY DEF AInv
  <2>1. /\ <<>> \in Seq(Handles) /\ Len(<<>>) = 0
        /\ \A h \in Handles : src[h].tracked # 1
    BY DEF Init, Blank
  <2>2. QED
    BY <2>1 DEF ActiveList, Init
<1>2. IInv /\ AInv => ActiveQueueSound
  BY ActiveIsList DEF AInv, ActiveQueueSound
<1>3. QED
  BY InitIInv, NextIInv, NextAInv, <1>1, <1>2, PTL DEF Spec
=============================================================================
