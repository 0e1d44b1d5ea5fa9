----------------------------- MODULE RtcpProofs -----------------------------
(***************************************************************************)
(* Proofs about Rtcp: types, that the queue of report events holds each    *)
(* session once, that no header is parsed that was not checked, and that a *)
(* report the RTP thread did not disturb is right, for any presentation,   *)
(* load, traffic and datagrams.                                            *)
(***************************************************************************)
EXTENDS Rtcp, NaturalExtrema, SequenceTheorems

\* Where the RTCP thread stands in its queue and in the presentation.
Standing ==
  /\ rtcp.pc = "start" => rtcp.pos < Len(Sessions)
  /\ rtcp.pc \in {"test", "cycles", "max", "got", "prior", "lost", "schedule"} =>
       rtcp.sess \in Session /\ head # <<>> /\ Head(head).sess = rtcp.sess
  /\ rtcp.pc \in {"recv", "parse"} => rtcp.todo # {}
  /\ rtcp.pc = "parse" => rtcp.d \in Datagrams /\ rtcp.pos < rtcp.d.words
  /\ rtp.pc # "select" => rtp.sess \in Session

IInv == TypeOK /\ Standing /\ OneEventEach

-----------------------------------------------------------------------------
(***************************************************************************)
(* The operators.                                                          *)
(***************************************************************************)

\* The widths are numbers that fit in one another.
LEMMA Widths ==
  /\ Word \in Nat /\ Word > 1 /\ RTP_SEQ_MOD \in Nat /\ RTP_SEQ_MOD > 0 /\ RTP_SEQ_MOD < Word
  /\ Fraction \in Nat /\ Fraction > 0 /\ LostMax \in Nat
BY WidthAssumption DEF WidthAssumption

\* A number modulo a width fits in it.
LEMMA ModFits ==
  ASSUME NEW n \in Int, NEW w \in Nat, w > 0
  PROVE  n % w \in 0 .. w - 1
OBVIOUS

LEMMA FractionFits ==
  ASSUME NEW e \in 0 .. Word - 1, NEW l \in 0 .. Word - 1
  PROVE  FractionLost(e, l) \in 0 .. Fraction - 1
<1>1. CASE e = 0 \/ l = 0
  BY <1>1, Widths DEF FractionLost
<1>2. CASE e # 0 /\ l # 0
  <2> DEFINE n == (l * Fraction) % Word
  <2>1. n \in Nat
    <3>1. l * Fraction \in Int
      BY Widths
    <3>2. QED
      BY <3>1, ModFits, Widths
  <2> HIDE DEF n
  <2>2. e \in Nat /\ e > 0
    BY <1>2, Widths
  <2>3. n \div e \in Int
    BY <2>1, <2>2
  <2>4. (n \div e) % Fraction \in 0 .. Fraction - 1
    BY <2>3, ModFits, Widths
  <2>5. QED
    BY <1>2, <2>4 DEF FractionLost, n
<1>3. QED
  BY <1>1, <1>2

LEMMA CumulativeFits ==
  ASSUME NEW e \in 0 .. Word - 1, NEW r \in 0 .. Word - 1
  PROVE  CumulativeLost(e, r) \in -(LostMax + 1) .. LostMax
<1>1. (e - r - 1) % Word \in 0 .. Word - 1
  BY ModFits, Widths
<1>2. Signed((e - r - 1) % Word) \in Int
  BY <1>1, Widths DEF Signed
<1>3. QED
  BY <1>2, Widths DEF CumulativeLost, Greatest, Least

\* The interval to the next report is a number.
LEMMA IntervalIsNat ==
  ASSUME NEW s \in Session
  PROVE  Interval(s) \subseteq Nat
<1> SUFFICES ASSUME NEW left \in Interval(s) PROVE left \in Nat
  OBVIOUS
<1>1. PICK l \in Loads : left \in rtcp_interval(l[1], l[2], l[3], initial[s])
  BY DEF Interval
<1>2. l[1] \in Nat /\ l[2] \in Nat /\ l[3] \in Nat /\ Bandwidth \in Nat /\ Bandwidth > 1 /\ MinTime \in Nat
  BY SessionsAssumption, WidthAssumption DEF SessionsAssumption, WidthAssumption
<1>3. Deterministic(l[1], l[2], l[3], initial[s]) \in Int
  <2> DEFINE least == IF initial[s] THEN MinTime \div 2 ELSE MinTime
             minority == l[2] > 0 /\ 4 * l[2] < l[1]
             share == IF minority THEN (Bandwidth * 3) \div 4 ELSE Bandwidth
             people == IF minority THEN l[1] - l[2] ELSE l[1]
             octets == l[3] * people
  <2>1. least \in Int
    BY <1>2
  <2>2. share \in Nat /\ share > 0
    BY <1>2
  <2>3. people \in Int
    BY <1>2
  <2>4. octets \in Int
    <3> HIDE DEF people
    <3>1. QED
      BY <1>2, <2>3
  <2>5. octets \div share \in Int
    <3> HIDE DEF octets, share
    <3>1. QED
      BY <2>2, <2>4
  <2>6. Deterministic(l[1], l[2], l[3], initial[s]) = Greatest(least, octets \div share)
    BY DEF Deterministic
  <2> HIDE DEF least, octets, share
  <2>7. QED
    BY <2>1, <2>5, <2>6 DEF Greatest
<1>4. PICK k \in {500, 1000, 1500} :
        left = Greatest(1, (Deterministic(l[1], l[2], l[3], initial[s]) * k) \div 1218)
  BY <1>1 DEF rtcp_interval
<1>5. (Deterministic(l[1], l[2], l[3], initial[s]) * k) \div 1218 \in Int
  BY <1>3
<1>6. QED
  BY <1>4, <1>5 DEF Greatest

\* There is a place for every new event, and it is unique.
LEMMA PassedExists ==
  ASSUME NEW queue \in Seq(Event), NEW left \in Nat
  PROVE  Passed(queue, left) \in 0 .. Len(queue)
<1> DEFINE Late == {m \in 0 .. Len(queue) : m < Len(queue) => queue[m + 1].left >= left}
<1>1. Late \subseteq Nat /\ Len(queue) \in Late
  OBVIOUS
<1>2. PICK n \in Late : \A m \in Late : n <= m
  <2> HIDE DEF Late
  <2>1. QED
    BY <1>1, LeastExists
<1>3. \A i \in 1 .. n : queue[i].left < left
  <2> SUFFICES ASSUME NEW i \in 1 .. n, ~ (queue[i].left < left) PROVE FALSE
    OBVIOUS
  <2>1. n \in 0 .. Len(queue) /\ i \in 1 .. Len(queue)
    BY <1>2
  <2>2. queue[i] \in Event
    BY <2>1
  <2>3. queue[i].left \in Nat
    BY <2>2 DEF Event
  <2>4. i - 1 \in 0 .. Len(queue) /\ (i - 1) + 1 = i /\ queue[i].left >= left
    BY <2>1, <2>3
  <2>5. i - 1 \in Late
    BY <2>4
  <2>6. QED
    BY <1>2, <2>1, <2>5
<1>4. /\ n \in 0 .. Len(queue)
      /\ \A i \in 1 .. n : queue[i].left < left
      /\ n < Len(queue) => queue[n + 1].left >= left
  BY <1>2, <1>3
<1>5. QED
  BY <1>4 DEF Passed

\* What rtcp_schedule does to the queue: the new event is somewhere in it, and the
\* others keep their order around it.
InsertedAt(q, queue, s, p) ==
  /\ q \in Seq(Event) /\ Len(q) = Len(queue) + 1
  /\ \A i \in 1 .. Len(queue) + 1 :
       q[i].sess = IF i <= p THEN queue[i].sess ELSE IF i = p + 1 THEN s ELSE queue[i - 1].sess

LEMMA ScheduleInserts ==
  ASSUME NEW queue \in Seq(Event), NEW s \in Session, NEW left \in Nat
  PROVE  \E p \in 0 .. Len(queue) : InsertedAt(rtcp_schedule(queue, s, left), queue, s, p)
<1> DEFINE n == Passed(queue, left)
           e == [sess |-> s, left |-> left]
           q == rtcp_schedule(queue, s, left)
<1> SUFFICES \E p \in 0 .. Len(queue) : InsertedAt(q, queue, s, p)
  OBVIOUS
<1>1. n \in 0 .. Len(queue)
  BY PassedExists
<1>2. e \in Event
  BY DEF Event
<1>3. q = IF n <= 1 THEN <<e>> \o queue
          ELSE SubSeq(queue, 1, n) \o <<e>> \o SubSeq(queue, n + 1, Len(queue))
  BY DEF rtcp_schedule
<1> HIDE DEF q, n, e
<1>4. e.sess = s
  BY DEF e
<1>5. CASE n <= 1
  <2>1. q = <<e>> \o queue
    BY <1>3, <1>5
  <2>2. q \in Seq(Event) /\ Len(q) = Len(queue) + 1
    BY <1>2, <2>1
  <2>3. \A i \in 1 .. Len(queue) + 1 : q[i] = IF i = 1 THEN e ELSE queue[i - 1]
    BY <1>2, <2>1
  <2>4. \A i \in 1 .. Len(queue) + 1 :
          q[i].sess = IF i <= 0 THEN queue[i].sess ELSE IF i = 0 + 1 THEN s ELSE queue[i - 1].sess
    BY <1>4, <2>3
  <2>5. InsertedAt(q, queue, s, 0)
    BY <2>2, <2>4 DEF InsertedAt
  <2>6. 0 \in 0 .. Len(queue)
    OBVIOUS
  <2>7. QED
    BY <2>5, <2>6
<1>6. CASE n > 1
  <2> DEFINE front == SubSeq(queue, 1, n)
             back  == SubSeq(queue, n + 1, Len(queue))
  <2>1. /\ front \in Seq(Event) /\ Len(front) = n
        /\ \A i \in 1 .. n : front[i] = queue[i]
    BY <1>1, <1>6
  <2>2. /\ back \in Seq(Event) /\ Len(back) = Len(queue) - n
        /\ \A i \in 1 .. Len(queue) - n : back[i] = queue[n + i]
    BY <1>1, <1>6
  <2>3. q = front \o <<e>> \o back
    <3>1. ~ (n <= 1)
      BY <1>1, <1>6
    <3>2. QED
      BY <1>3, <3>1, Zenon
  <2> HIDE DEF front, back
  <2>4. front \o <<e>> \in Seq(Event) /\ Len(front \o <<e>>) = n + 1
    BY <1>1, <1>2, <2>1
  <2>5. \A i \in 1 .. n + 1 : (front \o <<e>>)[i] = IF i <= n THEN queue[i] ELSE e
    BY <1>1, <1>2, <2>1
  <2>6. q \in Seq(Event) /\ Len(q) = Len(queue) + 1
    BY <1>1, <2>2, <2>3, <2>4
  <2>7. \A i \in 1 .. Len(queue) + 1 :
          q[i] = IF i <= n + 1 THEN (front \o <<e>>)[i] ELSE back[i - (n + 1)]
    BY <1>1, <2>2, <2>3, <2>4
  <2>8. ASSUME NEW i \in 1 .. Len(queue) + 1
        PROVE  q[i].sess = IF i <= n THEN queue[i].sess ELSE IF i = n + 1 THEN s ELSE queue[i - 1].sess
    <3>1. CASE i <= n + 1
      <4>0. q[i] = (front \o <<e>>)[i]
        BY <2>7, <3>1, Zenon
      <4>1. i \in 1 .. n + 1
        BY <1>1, <3>1
      <4>2. q[i] = IF i <= n THEN queue[i] ELSE e
        BY <2>5, <4>0, <4>1, Zenon
      <4>3. i <= n \/ i = n + 1
        BY <1>1, <3>1
      <4>4. QED
        BY <1>1, <1>4, <4>2, <4>3
    <3>2. CASE i > n + 1
      <4>1. i - (n + 1) \in 1 .. Len(queue) - n /\ n + (i - (n + 1)) = i - 1
        BY <1>1, <3>2
      <4>2. QED
        BY <1>1, <2>2, <2>7, <3>2, <4>1
    <3>3. QED
      BY <1>1, <3>1, <3>2
  <2>9. InsertedAt(q, queue, s, n)
    BY <2>6, <2>8 DEF InsertedAt
  <2>10. QED
    BY <1>1, <2>9
<1>7. QED
  BY <1>1, <1>5, <1>6

-----------------------------------------------------------------------------
(***************************************************************************)
(* A queue holds a set of sessions when each is in it once, and no other.  *)
(***************************************************************************)
Holds(queue, S) ==
  /\ \A i \in DOMAIN queue : queue[i].sess \in S
  /\ \A s \in S : \E i \in DOMAIN queue : queue[i].sess = s
  /\ \A i, j \in DOMAIN queue : queue[i].sess = queue[j].sess => i = j

LEMMA HoldsIsOneEventEach == OneEventEach <=> Holds(head, Scheduled)
BY DEF OneEventEach, Holds

LEMMA InsertHolds ==
  ASSUME NEW queue \in Seq(Event), NEW S, Holds(queue, S),
         NEW s \in Session, s \notin S, NEW left \in Nat
  PROVE  /\ rtcp_schedule(queue, s, left) \in Seq(Event)
         /\ rtcp_schedule(queue, s, left) # <<>>
         /\ Holds(rtcp_schedule(queue, s, left), S \cup {s})
<1>0. PICK q : q = rtcp_schedule(queue, s, left)
  OBVIOUS
<1>1. PICK p \in 0 .. Len(queue) :
        /\ q \in Seq(Event)
        /\ Len(q) = Len(queue) + 1
        /\ \A i \in 1 .. Len(queue) + 1 :
             q[i].sess = IF i <= p THEN queue[i].sess ELSE IF i = p + 1 THEN s ELSE queue[i - 1].sess
  <2>1. \E p \in 0 .. Len(queue) : InsertedAt(q, queue, s, p)
    BY <1>0, ScheduleInserts
  <2>2. QED
    BY <2>1 DEF InsertedAt
<1> DEFINE n == Len(queue)
<1>2. n \in Nat /\ DOMAIN queue = 1 .. n /\ DOMAIN q = 1 .. n + 1 /\ p \in 0 .. n
  <2>1. n \in Nat /\ DOMAIN queue = 1 .. n
    OBVIOUS
  <2>2. Len(q) = n + 1 /\ q \in Seq(Event)
    BY <1>1
  <2>3. DOMAIN q = 1 .. n + 1
    BY <2>1, <2>2
  <2>4. QED
    BY <2>1, <2>3
<1> DEFINE old == [i \in 1 .. n + 1 |-> IF i <= p THEN i ELSE i - 1]
           new == [i \in 1 .. n |-> IF i <= p THEN i ELSE i + 1]
<1>3. /\ \A i \in 1 .. n + 1 : i # p + 1 => old[i] \in 1 .. n /\ q[i].sess = queue[old[i]].sess
      /\ \A i, j \in 1 .. n + 1 : i # p + 1 /\ j # p + 1 /\ old[i] = old[j] => i = j
      /\ q[p + 1].sess = s
  <2>1. ASSUME NEW i \in 1 .. n + 1, i # p + 1
        PROVE  old[i] \in 1 .. n /\ q[i].sess = queue[old[i]].sess
    <3>1. CASE i <= p
      BY <1>1, <1>2, <2>1, <3>1
    <3>2. CASE ~ (i <= p)
      BY <1>1, <1>2, <2>1, <3>2
    <3>3. QED
      BY <3>1, <3>2
  <2>2. \A i, j \in 1 .. n + 1 : i # p + 1 /\ j # p + 1 /\ old[i] = old[j] => i = j
    BY <1>2
  <2>3. q[p + 1].sess = s
    BY <1>1, <1>2
  <2>4. QED
    BY <2>1, <2>2, <2>3
<1>4. \A i \in 1 .. n : new[i] \in 1 .. n + 1 /\ new[i] # p + 1 /\ old[new[i]] = i
  BY <1>2
<1> HIDE DEF n, old, new
<1>5. \A i \in DOMAIN q : q[i].sess \in S \cup {s}
  BY <1>2, <1>3 DEF Holds
<1>6. \A t \in S \cup {s} : \E i \in DOMAIN q : q[i].sess = t
  <2>1. ASSUME NEW t \in S PROVE \E i \in DOMAIN q : q[i].sess = t
    <3>1. PICK i \in 1 .. n : queue[i].sess = t
      BY <1>2, <2>1 DEF Holds
    <3>2. new[i] \in DOMAIN q /\ q[new[i]].sess = t
      BY <1>2, <1>3, <1>4, <3>1
    <3>3. QED
      BY <3>2
  <2>2. p + 1 \in DOMAIN q
    BY <1>2
  <2>3. QED
    BY <1>3, <2>1, <2>2
<1>7. ASSUME NEW i \in DOMAIN q, NEW j \in DOMAIN q, q[i].sess = q[j].sess PROVE i = j
  <2>1. \A k \in DOMAIN q : k # p + 1 => q[k].sess # s
    BY <1>2, <1>3 DEF Holds
  <2>2. CASE i = p + 1 \/ j = p + 1
    BY <1>3, <1>7, <2>1, <2>2
  <2>3. CASE i # p + 1 /\ j # p + 1
    <3>1. /\ old[i] \in DOMAIN queue /\ q[i].sess = queue[old[i]].sess
          /\ old[j] \in DOMAIN queue /\ q[j].sess = queue[old[j]].sess
      BY <1>2, <1>3, <2>3
    <3>2. queue[old[i]].sess = queue[old[j]].sess
      BY <1>7, <3>1
    <3>3. PICK a \in DOMAIN queue : a = old[i]
      BY <3>1
    <3>4. PICK b \in DOMAIN queue : b = old[j]
      BY <3>1
    <3>5. \A k, l \in DOMAIN queue : queue[k].sess = queue[l].sess => k = l
      BY DEF Holds
    <3>6. a = b
      BY <3>2, <3>3, <3>4, <3>5
    <3>7. old[i] = old[j]
      BY <3>3, <3>4, <3>6
    <3>8. i \in 1 .. n + 1 /\ j \in 1 .. n + 1
      BY <1>2
    <3>9. QED
      BY <1>3, <2>3, <3>7, <3>8
  <2>4. QED
    BY <2>2, <2>3
<1>8. Holds(q, S \cup {s})
  BY <1>5, <1>6, <1>7 DEF Holds
<1>9. q # <<>>
  <2>1. Len(q) > 0
    BY <1>1
  <2>2. QED
    BY <2>1
<1>10. QED
  BY <1>0, <1>1, <1>8, <1>9

LEMMA TailHolds ==
  ASSUME NEW queue \in Seq(Event), queue # <<>>, NEW S, Holds(queue, S)
  PROVE  /\ Tail(queue) \in Seq(Event)
         /\ Head(queue).sess \in S
         /\ Holds(Tail(queue), S \ {Head(queue).sess})
<1> DEFINE n == Len(queue)
           s == Head(queue).sess
           q == Tail(queue)
<1>1. /\ n \in Nat /\ n >= 1 /\ DOMAIN queue = 1 .. n /\ s = queue[1].sess
      /\ q \in Seq(Event) /\ DOMAIN q = 1 .. n - 1 /\ \A i \in 1 .. n - 1 : q[i] = queue[i + 1]
  OBVIOUS
<1> HIDE DEF n, s, q
<1>2. s \in S
  BY <1>1 DEF Holds
<1>3. \A i \in DOMAIN q : q[i].sess \in S \ {s}
  <2> SUFFICES ASSUME NEW i \in DOMAIN q PROVE q[i].sess \in S \ {s}
    OBVIOUS
  <2>1. i + 1 \in DOMAIN queue /\ 1 \in DOMAIN queue /\ i + 1 # 1 /\ q[i] = queue[i + 1]
    BY <1>1
  <2>2. QED
    BY <1>1, <2>1 DEF Holds
<1>4. ASSUME NEW t \in S \ {s} PROVE \E i \in DOMAIN q : q[i].sess = t
  <2>1. PICK j \in DOMAIN queue : queue[j].sess = t
    BY <1>4 DEF Holds
  <2>2. j # 1
    BY <1>1, <1>4, <2>1
  <2>3. j - 1 \in DOMAIN q /\ q[j - 1] = queue[j]
    <3>1. j - 1 \in 1 .. n - 1 /\ (j - 1) + 1 = j
      BY <1>1, <2>2
    <3>2. QED
      BY <1>1, <3>1
  <2>4. QED
    BY <2>1, <2>3
<1>5. ASSUME NEW i \in DOMAIN q, NEW j \in DOMAIN q, q[i].sess = q[j].sess PROVE i = j
  <2>1. i + 1 \in DOMAIN queue /\ j + 1 \in DOMAIN queue /\ q[i] = queue[i + 1] /\ q[j] = queue[j + 1]
    BY <1>1
  <2>2. i + 1 = j + 1
    BY <1>5, <2>1 DEF Holds
  <2>3. QED
    BY <1>1, <2>2
<1>6. QED
  BY <1>1, <1>2, <1>3, <1>4, <1>5 DEF Holds, q, s

-----------------------------------------------------------------------------
(***************************************************************************)
(* The actions.                                                            *)
(***************************************************************************)

\* A step that leaves the queue, and the sessions that have been scheduled.
LEMMA QueueStays ==
  ASSUME OneEventEach, head' = head,
         rtcp' = rtcp \/ (rtcp.pc # "start" /\ rtcp'.pc # "start")
  PROVE  OneEventEach'
<1>1. Scheduled' = Scheduled
  BY DEF Scheduled
<1>2. QED
  BY <1>1 DEF OneEventEach

\* Time passes for all events alike.
LEMMA TickKeeps ==
  ASSUME IInv, Tick
  PROVE  IInv'
<1>1. head \in Seq(Event)
  BY DEF IInv, TypeOK
<1>2. /\ head' \in Seq(Event) /\ DOMAIN head' = DOMAIN head
      /\ \A i \in DOMAIN head : head'[i].sess = head[i].sess
  <2>1. \A i \in DOMAIN head : /\ [head[i] EXCEPT !.left = Greatest(0, @ - 1)] \in Event
                               /\ [head[i] EXCEPT !.left = Greatest(0, @ - 1)].sess = head[i].sess
    <3> SUFFICES ASSUME NEW i \in DOMAIN head
                 PROVE  /\ [head[i] EXCEPT !.left = Greatest(0, @ - 1)] \in Event
                        /\ [head[i] EXCEPT !.left = Greatest(0, @ - 1)].sess = head[i].sess
      OBVIOUS
    <3>1. head[i] \in Event
      BY <1>1
    <3>2. Greatest(0, head[i].left - 1) \in Nat
      BY <3>1 DEF Event, Greatest
    <3>3. QED
      BY <3>1, <3>2 DEF Event
  <2>2. head' = [i \in DOMAIN head |-> [head[i] EXCEPT !.left = Greatest(0, @ - 1)]]
    BY DEF Tick
  <2>3. DOMAIN head = 1 .. Len(head) /\ Len(head) \in Nat
    BY <1>1
  <2>4. head' \in [1 .. Len(head) -> Event]
    BY <2>1, <2>2, <2>3
  <2>5. QED
    <3>1. head' \in Seq(Event)
      BY <2>3, <2>4, SeqDef
    <3>2. QED
      BY <2>1, <2>2, <3>1
<1>3. TypeOK'
  BY <1>2 DEF Tick, IInv, TypeOK
<1>4. Standing'
  <2>1. ASSUME head # <<>> PROVE head' # <<>> /\ Head(head').sess = Head(head).sess
    <3>1. Head(head) = head[1] /\ 1 \in DOMAIN head
      BY <1>1, <2>1
    <3>2. head' # <<>> /\ Head(head') = head'[1]
      BY <1>2, <3>1
    <3>3. QED
      BY <1>2, <3>1, <3>2
  <2>2. QED
    BY <2>1 DEF Tick, IInv, Standing
<1>5. OneEventEach'
  <2>1. Scheduled' = Scheduled
    BY DEF Tick, Scheduled
  <2>2. QED
    BY <1>2, <2>1 DEF IInv, OneEventEach
<1>6. QED
  BY <1>3, <1>4, <1>5 DEF IInv

\* What the RTP thread keeps of IInv: the statistics, and its packet.
Counting ==
  /\ stats \in [Session -> Stats] /\ heard \subseteq Session
  /\ rtp \in [pc : {"select", "cycles", "max", "count"}, sess : Session \cup {None},
              seq : 0 .. RTP_SEQ_MOD - 1]
  /\ rtp.pc # "select" => rtp.sess \in Session

\* A change of one field of a source's statistics.
LEMMA StatsChange ==
  ASSUME Counting, NEW s \in Session, NEW r \in Stats, stats' = [stats EXCEPT ![s] = r]
  PROVE  stats' \in [Session -> Stats]
BY DEF Counting

LEMMA RtpCounts ==
  ASSUME Counting, RtpThread
  PROVE  Counting'
<1>1. ASSUME NEW s \in Session, Start(s) PROVE Counting'
  <2>1. PICK seq \in 0 .. RTP_SEQ_MOD - 1 : stats' = [stats EXCEPT ![s] = [Started(seq) EXCEPT !.received = 1]]
    BY <1>1, SessionsAssumption DEF Start, SessionsAssumption
  <2>2. (seq - 1) % Word \in 0 .. Word - 1
    BY ModFits, Widths
  <2>3. [Started(seq) EXCEPT !.received = 1] \in Stats
    BY <2>2, Widths DEF Started, Stats
  <2>4. stats' \in [Session -> Stats]
    BY <2>1, <2>3, StatsChange
  <2>5. QED
    BY <1>1, <2>4 DEF Start, Counting
<1>2. ASSUME NEW s \in Session, Packet(s) PROVE Counting'
  <2>1. PICK kind \in Kinds :
          LET seq == (stats[s].max_seq + Step[kind]) % RTP_SEQ_MOD
          IN  rtp' = [pc |-> IF seq < stats[s].max_seq THEN "cycles" ELSE "max", sess |-> s, seq |-> seq]
    BY <1>2 DEF Packet
  <2>2. Step[kind] \in Int
    BY SessionsAssumption DEF Step, SessionsAssumption
  <2>3. stats[s].max_seq \in Int
    BY Widths DEF Counting, Stats
  <2>4. (stats[s].max_seq + Step[kind]) % RTP_SEQ_MOD \in 0 .. RTP_SEQ_MOD - 1
    BY <2>2, <2>3, ModFits, Widths
  <2>5. QED
    BY <1>2, <2>1, <2>4 DEF Packet, Counting
<1>3. ASSUME RtpCycles \/ RtpMax \/ RtpCount PROVE Counting'
  <2> DEFINE s == rtp.sess
  <2>1. s \in Session /\ stats[s] \in Stats /\ rtp.seq \in 0 .. RTP_SEQ_MOD - 1
    BY <1>3 DEF Counting, RtpCycles, RtpMax, RtpCount
  <2>2. stats[s].cycles \in Int /\ stats[s].received \in Int
    BY <2>1, Widths DEF Stats
  <2>3. /\ (stats[s].cycles + RTP_SEQ_MOD) % Word \in 0 .. Word - 1
        /\ (stats[s].received + 1) % Word \in 0 .. Word - 1
    BY <2>2, ModFits, Widths
  <2>4. /\ [stats[s] EXCEPT !.cycles = (@ + RTP_SEQ_MOD) % Word] \in Stats
        /\ [stats[s] EXCEPT !.max_seq = rtp.seq] \in Stats
        /\ [stats[s] EXCEPT !.received = (@ + 1) % Word] \in Stats
    BY <2>1, <2>3 DEF Stats
  <2>5. CASE RtpCycles
    <3>1. stats' = [stats EXCEPT ![s] = [stats[s] EXCEPT !.cycles = (@ + RTP_SEQ_MOD) % Word]]
      BY <2>5 DEF RtpCycles
    <3>2. stats' \in [Session -> Stats]
      BY <2>1, <2>4, <3>1, StatsChange
    <3>3. QED
      BY <2>1, <2>5, <3>2 DEF RtpCycles, Counting
  <2>6. CASE RtpMax
    <3>1. stats' = [stats EXCEPT ![s] = [stats[s] EXCEPT !.max_seq = rtp.seq]]
      BY <2>6 DEF RtpMax
    <3>2. stats' \in [Session -> Stats]
      BY <2>1, <2>4, <3>1, StatsChange
    <3>3. QED
      BY <2>1, <2>6, <3>2 DEF RtpMax, Counting
  <2>7. CASE RtpCount
    <3>1. stats' = [stats EXCEPT ![s] = [stats[s] EXCEPT !.received = (@ + 1) % Word]]
      BY <2>7 DEF RtpCount
    <3>2. stats' \in [Session -> Stats]
      BY <2>1, <2>4, <3>1, StatsChange
    <3>3. QED
      BY <2>7, <3>2, Widths DEF RtpCount, RtpIdle, Counting
  <2>8. QED
    BY <1>3, <2>5, <2>6, <2>7
<1>4. QED
  BY <1>1, <1>2, <1>3 DEF RtpThread

\* The RTP thread leaves the queue and the RTCP thread alone.
LEMMA RtpKeeps ==
  ASSUME IInv, RtpThread
  PROVE  IInv'
<1>1. /\ head' = head /\ rtcp' = rtcp /\ initial' = initial /\ readable' = readable
      /\ counted' = counted /\ total' = total /\ block' = block
  BY DEF RtpThread, Start, Packet, RtpCycles, RtpMax, RtpCount
<1>2. OneEventEach'
  BY <1>1, QueueStays DEF IInv
<1>3. Counting'
  BY RtpCounts DEF IInv, TypeOK, Standing, Counting
<1>4. QED
  BY <1>1, <1>2, <1>3 DEF IInv, TypeOK, Standing, Counting

\* The thread's own record is a record of its type after a step.
LEMMA HandlerFields ==
  ASSUME TypeOK
  PROVE  /\ rtcp.sess \in Session \cup {None} /\ rtcp.todo \subseteq Session
         /\ rtcp.d \in Datagrams \cup {None} /\ rtcp.pos \in Nat /\ rtcp.acc \in Nat
         /\ rtcp.cycles \in Int /\ rtcp.expected \in 0 .. Word - 1 /\ rtcp.meant \in 0 .. Word - 1
         /\ rtcp.got \in 0 .. Word - 1 /\ rtcp.fraction \in 0 .. Fraction - 1
BY Widths DEF TypeOK, Handler

\* The walk goes on at another place.
LEMMA CursorMoves ==
  ASSUME NEW h \in Handler, NEW n \in Nat
  PROVE  /\ [h EXCEPT !.pos = n] \in Handler
         /\ [h EXCEPT !.pos = n].pc = h.pc /\ [h EXCEPT !.pos = n].pos = n
BY DEF Handler

LEMMA RtcpIdleTyped == RtcpIdle \in Handler
BY Widths DEF RtcpIdle, Handler

\* The first reports are scheduled, session by session.
LEMMA BeginKeeps ==
  ASSUME IInv, Begin
  PROVE  IInv'
<1> DEFINE n == rtcp.pos
           s == Sessions[n + 1]
<1>1. /\ Sessions \in Seq(Session) /\ Session = {Sessions[i] : i \in DOMAIN Sessions}
      /\ \A i, j \in DOMAIN Sessions : Sessions[i] = Sessions[j] => i = j
  BY SessionsAssumption DEF SessionsAssumption, Session, Range, IsInjective
<1>2. n \in Nat /\ n + 1 \in 1 .. Len(Sessions) /\ DOMAIN Sessions = 1 .. Len(Sessions) /\ Len(Sessions) \in Nat
  <2>1. n \in Nat /\ n < Len(Sessions)
    <3>1. TypeOK
      BY DEF IInv
    <3>2. n < Len(Sessions)
      BY DEF IInv, Standing, Begin
    <3>3. QED
      BY <3>1, <3>2, HandlerFields
  <2>2. Len(Sessions) \in Nat /\ DOMAIN Sessions = 1 .. Len(Sessions)
    BY <1>1
  <2>3. QED
    BY <2>1, <2>2
<1>3. s \in Session /\ s \notin {Sessions[i] : i \in 1 .. n}
  <2>1. n + 1 \in DOMAIN Sessions
    BY <1>2
  <2>2. ASSUME NEW i \in 1 .. n PROVE Sessions[i] # Sessions[n + 1]
    <3>1. i \in DOMAIN Sessions /\ i # n + 1
      BY <1>2
    <3>2. QED
      BY <1>1, <2>1, <3>1
  <2>3. s \in Session
    BY <1>1, <2>1
  <2>4. QED
    BY <2>2, <2>3
<1>4. Holds(head, {Sessions[i] : i \in 1 .. n})
  BY HoldsIsOneEventEach DEF IInv, Begin, Scheduled
<1>5. PICK left \in Nat : head' = rtcp_schedule(head, s, left)
  BY <1>3, IntervalIsNat DEF Begin
<1>6. head' \in Seq(Event) /\ Holds(head', {Sessions[i] : i \in 1 .. n} \cup {s})
  <2>1. head \in Seq(Event)
    BY DEF IInv, TypeOK
  <2>2. QED
    BY <1>3, <1>4, <1>5, <2>1, InsertHolds
<1>7. {Sessions[i] : i \in 1 .. n} \cup {s} = {Sessions[i] : i \in 1 .. n + 1}
  BY <1>2
<1>8. rtcp' \in Handler /\ Scheduled' = {Sessions[i] : i \in 1 .. n + 1} /\ Standing'
  <2>1. CASE n + 1 = Len(Sessions)
    <3>1. rtcp' = RtcpIdle /\ rtp' = rtp
      BY <2>1 DEF Begin
    <3>2. rtcp'.pc = "select"
      BY <3>1 DEF RtcpIdle
    <3>3. Scheduled' = Session
      BY <3>2 DEF Scheduled
    <3>4. QED
      BY <1>1, <1>2, <2>1, <3>1, <3>2, <3>3, RtcpIdleTyped DEF Standing, IInv
  <2>2. CASE n + 1 # Len(Sessions)
    <3>1. rtcp' = [rtcp EXCEPT !.pos = n + 1] /\ rtp' = rtp
      BY <2>2 DEF Begin
    <3>2. rtcp \in Handler /\ rtcp.pc = "start"
      BY DEF Begin, IInv, TypeOK
    <3>3. rtcp' \in Handler /\ rtcp'.pc = "start" /\ rtcp'.pos = n + 1
      <4>1. PICK k \in Nat : k = n + 1
        BY <1>2
      <4>2. rtcp' = [rtcp EXCEPT !.pos = k]
        BY <3>1, <4>1
      <4>3. QED
        BY <3>2, <4>1, <4>2, CursorMoves
    <3>4. n + 1 < Len(Sessions)
      BY <1>2, <2>2
    <3>5. QED
      BY <3>1, <3>3, <3>4 DEF Scheduled, Standing, IInv
  <2>3. QED
    BY <2>1, <2>2
<1>9. TypeOK'
  BY <1>6, <1>8 DEF Begin, IInv, TypeOK
<1>10. Holds(head', Scheduled')
  BY <1>6, <1>7, <1>8
<1>11. OneEventEach'
  BY <1>10 DEF OneEventEach, Holds
<1>12. QED
  BY <1>8, <1>9, <1>11 DEF IInv

\* The thread that takes the first event remembers its session.
LEMMA HandleKeeps ==
  ASSUME IInv, HandleEvent
  PROVE  IInv'
<1> DEFINE s == Head(head).sess
<1>1. s \in Session
  <2>1. Head(head) \in Event
    BY DEF HandleEvent, IInv, TypeOK
  <2>2. QED
    BY <2>1 DEF Event
<1>2. PICK pc \in {"test", "schedule"} : rtcp' = [rtcp EXCEPT !.sess = s, !.pc = pc]
  BY DEF HandleEvent
<1>3. rtcp \in Handler
  BY DEF IInv, TypeOK
<1>4. rtcp' \in Handler /\ rtcp'.sess = s /\ rtcp'.pc = pc
  BY <1>1, <1>2, <1>3 DEF Handler
<1>5. TypeOK'
  BY <1>4 DEF HandleEvent, IInv, TypeOK
<1>6. Standing'
  BY <1>1, <1>4 DEF HandleEvent, IInv, Standing
<1>7. OneEventEach'
  BY <1>4, QueueStays DEF HandleEvent, IInv
<1>8. QED
  BY <1>5, <1>6, <1>7 DEF IInv

\* A report in the making: the queue and the session stay.
LEMMA ReportingStays ==
  ASSUME IInv, rtcp.pc \in {"test", "cycles", "max", "got", "prior", "lost"},
         TypeOK', head' = head, rtp' = rtp, rtcp'.sess = rtcp.sess,
         rtcp'.pc \in {"cycles", "max", "got", "prior", "lost", "schedule"}
  PROVE  IInv'
<1>1. Standing'
  BY DEF IInv, Standing
<1>2. OneEventEach'
  BY QueueStays DEF IInv
<1>3. QED
  BY <1>1, <1>2 DEF IInv

LEMMA ReportingKeeps ==
  ASSUME IInv, ReportTest \/ ReadCycles \/ ReadMax \/ ReadReceived \/ KeepReceived \/ Report
  PROVE  IInv'
<1> DEFINE s == rtcp.sess
           st == stats[s]
<1>1. s \in Session /\ st \in Stats /\ rtcp \in Handler
  BY DEF IInv, TypeOK, Standing, ReportTest, ReadCycles, ReadMax, ReadReceived, KeepReceived, Report
<1>2. /\ st.cycles \in 0 .. Word - 1 /\ st.max_seq \in Int /\ st.base_seq \in Int
      /\ st.received \in 0 .. Word - 1 /\ st.received_prior \in Int /\ st.expected_prior \in Int
  BY <1>1, Widths DEF Stats
<1>3. CASE ReportTest
  <2>1. PICK pc \in {"cycles", "schedule"} : rtcp' = [rtcp EXCEPT !.pc = pc]
    BY <1>3 DEF ReportTest, Go
  <2>2. rtcp' \in Handler /\ rtcp'.sess = rtcp.sess /\ rtcp'.pc = pc
    BY <1>1, <2>1 DEF Handler
  <2>3. counted' \in [Session -> Nat]
    BY <1>1, <1>3 DEF ReportTest, IInv, TypeOK
  <2>4. TypeOK'
    BY <1>3, <2>2, <2>3 DEF ReportTest, IInv, TypeOK
  <2>5. QED
    BY <1>3, <2>2, <2>4, ReportingStays DEF ReportTest
<1>4. CASE ReadCycles
  <2>1. rtcp' = [rtcp EXCEPT !.cycles = st.cycles, !.pc = "max"]
    BY <1>4 DEF ReadCycles
  <2>2. rtcp' \in Handler /\ rtcp'.sess = rtcp.sess /\ rtcp'.pc = "max"
    BY <1>1, <1>2, <2>1 DEF Handler
  <2>3. TypeOK'
    BY <1>4, <2>2 DEF ReadCycles, IInv, TypeOK
  <2>4. QED
    BY <1>4, <2>2, <2>3, ReportingStays DEF ReadCycles
<1>5. CASE ReadMax
  <2> DEFINE e == Expected(rtcp.cycles, st.max_seq, st.base_seq)
  <2>1. e \in 0 .. Word - 1
    <3>1. rtcp.cycles \in Int
      BY HandlerFields DEF IInv
    <3>2. rtcp.cycles + st.max_seq - st.base_seq + 1 \in Int
      BY <1>2, <3>1
    <3>3. QED
      BY <3>2, ModFits, Widths DEF Expected
  <2> HIDE DEF e
  <2>2. (e - st.expected_prior) % Word \in 0 .. Word - 1
    BY <1>2, <2>1, ModFits, Widths
  <2>3. /\ rtcp' = [rtcp EXCEPT !.expected = e, !.meant = (e - st.expected_prior) % Word, !.pc = "got"]
        /\ stats' = [stats EXCEPT ![s] = [st EXCEPT !.expected_prior = e]]
    BY <1>5 DEF ReadMax, e
  <2>4. rtcp' \in Handler /\ rtcp'.sess = rtcp.sess /\ rtcp'.pc = "got"
    BY <1>1, <2>1, <2>2, <2>3 DEF Handler
  <2>5. [st EXCEPT !.expected_prior = e] \in Stats
    BY <1>1, <2>1 DEF Stats
  <2>6. stats' \in [Session -> Stats]
    BY <1>1, <2>3, <2>5 DEF IInv, TypeOK
  <2>7. TypeOK'
    BY <1>5, <2>4, <2>6 DEF ReadMax, IInv, TypeOK
  <2>8. QED
    BY <1>5, <2>4, <2>7, ReportingStays DEF ReadMax
<1>6. CASE ReadReceived
  <2>1. (st.received - st.received_prior) % Word \in 0 .. Word - 1
    BY <1>2, ModFits, Widths
  <2>2. rtcp' = [rtcp EXCEPT !.got = (st.received - st.received_prior) % Word, !.pc = "prior"]
    BY <1>6 DEF ReadReceived
  <2>3. rtcp' \in Handler /\ rtcp'.sess = rtcp.sess /\ rtcp'.pc = "prior"
    BY <1>1, <2>1, <2>2 DEF Handler
  <2>4. TypeOK'
    BY <1>6, <2>3 DEF ReadReceived, IInv, TypeOK
  <2>5. QED
    BY <1>6, <2>3, <2>4, ReportingStays DEF ReadReceived
<1>7. CASE KeepReceived
  <2> DEFINE f == FractionLost(rtcp.meant, LostInterval(rtcp.meant, rtcp.got))
  <2>1. f \in 0 .. Fraction - 1
    <3>1. rtcp.meant \in 0 .. Word - 1 /\ rtcp.got \in 0 .. Word - 1
      BY HandlerFields DEF IInv
    <3>2. LostInterval(rtcp.meant, rtcp.got) \in 0 .. Word - 1
      BY <3>1, ModFits, Widths DEF LostInterval
    <3>3. QED
      BY <3>1, <3>2, FractionFits
  <2> HIDE DEF f
  <2>2. /\ rtcp' = [rtcp EXCEPT !.fraction = f, !.pc = "lost"]
        /\ stats' = [stats EXCEPT ![s] = [st EXCEPT !.received_prior = st.received]]
    BY <1>7 DEF KeepReceived, f
  <2>3. rtcp' \in Handler /\ rtcp'.sess = rtcp.sess /\ rtcp'.pc = "lost"
    BY <1>1, <2>1, <2>2 DEF Handler
  <2>4. [st EXCEPT !.received_prior = st.received] \in Stats
    BY <1>1, <1>2 DEF Stats
  <2>5. stats' \in [Session -> Stats]
    BY <1>1, <2>2, <2>4 DEF IInv, TypeOK
  <2>6. TypeOK'
    BY <1>7, <2>3, <2>5 DEF KeepReceived, IInv, TypeOK
  <2>7. QED
    BY <1>7, <2>3, <2>6, ReportingStays DEF KeepReceived
<1>8. CASE Report
  <2> DEFINE b == [fraction |-> rtcp.fraction,
                   lost |-> CumulativeLost(rtcp.expected, st.received),
                   last_seq |-> (st.cycles + st.max_seq) % Word]
  <2>1. b \in Block
    <3>1. rtcp.fraction \in 0 .. Fraction - 1 /\ rtcp.expected \in 0 .. Word - 1
      BY HandlerFields DEF IInv
    <3>2. CumulativeLost(rtcp.expected, st.received) \in -(LostMax + 1) .. LostMax
      BY <1>2, <3>1, CumulativeFits
    <3>3. (st.cycles + st.max_seq) % Word \in 0 .. Word - 1
      BY <1>2, ModFits, Widths
    <3>4. QED
      BY <3>1, <3>2, <3>3 DEF Block
  <2> HIDE DEF b
  <2>2. block' = [block EXCEPT ![s] = b] /\ rtcp' = [rtcp EXCEPT !.pc = "schedule"]
    BY <1>8 DEF Report, Go, b
  <2>3. rtcp' \in Handler /\ rtcp'.sess = rtcp.sess /\ rtcp'.pc = "schedule"
    BY <1>1, <2>2 DEF Handler
  <2>4. block' \in [Session -> Block]
    BY <1>1, <2>1, <2>2 DEF IInv, TypeOK
  <2>5. counted' \in [Session -> Nat]
    BY <1>1, <1>2, <1>8, Widths DEF Report, IInv, TypeOK
  <2>6. TypeOK'
    BY <1>8, <2>3, <2>4, <2>5 DEF Report, IInv, TypeOK
  <2>7. QED
    BY <1>8, <2>3, <2>6, ReportingStays DEF Report
<1>9. QED
  BY <1>3, <1>4, <1>5, <1>6, <1>7, <1>8

\* Rescheduling: the first event leaves the queue, and its session is put in again.
LEMMA ScheduleKeeps ==
  ASSUME IInv, Schedule
  PROVE  IInv'
<1> DEFINE s == rtcp.sess
<1>1. s \in Session /\ head \in Seq(Event) /\ head # <<>> /\ Head(head).sess = s /\ Scheduled = Session
  BY DEF Schedule, IInv, TypeOK, Standing, Scheduled
<1>2. Holds(head, Session)
  BY <1>1, HoldsIsOneEventEach DEF IInv
<1>3. Tail(head) \in Seq(Event) /\ Holds(Tail(head), Session \ {s})
  BY <1>1, <1>2, TailHolds
<1>4. PICK left \in Nat : head' = rtcp_schedule(Tail(head), s, left)
  BY <1>1, IntervalIsNat DEF Schedule, rtcp_deschedule
<1>5. head' \in Seq(Event) /\ Holds(head', (Session \ {s}) \cup {s})
  <2>1. s \notin Session \ {s}
    OBVIOUS
  <2>2. QED
    BY <1>1, <1>3, <1>4, <2>1, InsertHolds
<1>6. (Session \ {s}) \cup {s} = Session
  BY <1>1
<1>7. rtcp' = RtcpIdle /\ rtcp'.pc = "select"
  BY DEF Schedule, RtcpIdle
<1>8. OneEventEach'
  <2>1. Scheduled' = Session
    BY <1>7 DEF Scheduled
  <2>2. Holds(head', Scheduled')
    BY <1>5, <1>6, <2>1
  <2>3. QED
    BY <2>2 DEF OneEventEach, Holds
<1>9. initial' \in [Session -> BOOLEAN]
  BY <1>1 DEF Schedule, IInv, TypeOK
<1>10. TypeOK'
  BY <1>5, <1>7, <1>9, RtcpIdleTyped DEF Schedule, IInv, TypeOK
<1>11. Standing'
  BY <1>7 DEF Schedule, IInv, Standing
<1>12. QED
  BY <1>8, <1>10, <1>11 DEF IInv

\* The next session to be read is a session of the presentation.
LEMMA CurrentIsSession ==
  ASSUME IInv, rtcp.todo # {}
  PROVE  Current \in rtcp.todo /\ Current \in Session
<1>1. /\ Sessions \in Seq(Session) /\ Session = {Sessions[i] : i \in DOMAIN Sessions}
      /\ rtcp.todo \subseteq Session
  BY SessionsAssumption, HandlerFields DEF SessionsAssumption, Session, Range, IInv
<1> DEFINE T == {i \in DOMAIN Sessions : Sessions[i] \in rtcp.todo}
<1>2. T \subseteq Nat /\ T # {}
  BY <1>1
<1>3. PICK i \in T : \A j \in T : i <= j
  <2> HIDE DEF T
  <2>1. QED
    BY <1>2, LeastExists
<1>4. /\ i \in DOMAIN Sessions /\ Sessions[i] \in rtcp.todo
      /\ \A j \in 1 .. i - 1 : Sessions[j] \notin rtcp.todo
  <2>1. i \in 1 .. Len(Sessions) /\ Len(Sessions) \in Nat /\ DOMAIN Sessions = 1 .. Len(Sessions)
    BY <1>1, <1>3
  <2>2. ASSUME NEW j \in 1 .. i - 1, Sessions[j] \in rtcp.todo PROVE FALSE
    <3>1. j \in T
      BY <2>1, <2>2
    <3>2. i <= j
      BY <1>3, <3>1
    <3>3. QED
      BY <2>1, <3>2
  <2>3. QED
    BY <1>3, <2>2
<1>5. QED
  BY <1>1, <1>4 DEF Current

LEMMA FinishedKeeps ==
  ASSUME IInv, rtcp.pc \in {"recv", "parse"}, NEW s \in Session, Finished(s),
         head' = head, initial' = initial, stats' = stats, rtp' = rtp, counted' = counted, block' = block,
         heard' \subseteq Session
  PROVE  IInv'
<1> DEFINE acc  == rtcp.acc + counted[s]
           rest == rtcp.todo \ {s}
<1>1. acc \in Nat /\ rest \subseteq Session /\ rtcp \in Handler
  <2>1. rtcp.acc \in Nat /\ rtcp.todo \subseteq Session
    BY HandlerFields DEF IInv
  <2>2. counted[s] \in Nat /\ rtcp \in Handler
    BY DEF IInv, TypeOK
  <2>3. QED
    BY <2>1, <2>2
<1> HIDE DEF acc, rest
<1>2. CASE rest = {}
  <2>1. rtcp' = RtcpIdle /\ total' = acc
    BY <1>2 DEF Finished, acc, rest
  <2>2. rtcp'.pc = "select"
    BY <2>1 DEF RtcpIdle
  <2>3. TypeOK'
    BY <1>1, <2>1, RtcpIdleTyped DEF Finished, IInv, TypeOK
  <2>4. Standing'
    BY <2>2 DEF IInv, Standing
  <2>5. QED
    BY <2>2, <2>3, <2>4, QueueStays DEF IInv
<1>3. CASE rest # {}
  <2>1. /\ rtcp' = [rtcp EXCEPT !.pc = "recv", !.todo = rest, !.acc = acc, !.d = None, !.pos = 0]
        /\ total' = total
    BY <1>3 DEF Finished, acc, rest
  <2>2. rtcp' \in Handler /\ rtcp'.pc = "recv" /\ rtcp'.todo = rest
    BY <1>1, <2>1 DEF Handler
  <2>3. TypeOK'
    BY <2>1, <2>2 DEF Finished, IInv, TypeOK
  <2>4. Standing'
    BY <1>3, <2>2 DEF IInv, Standing
  <2>5. QED
    BY <2>2, <2>3, <2>4, QueueStays DEF IInv
<1>4. QED
  BY <1>2, <1>3

\* Datagrams do not touch the queue.
LEMMA ReadingKeeps ==
  ASSUME IInv, Select \/ Recv \/ Parse \/ \E s \in Peers : Arrive(s)
  PROVE  IInv'
<1>0. rtcp \in Handler /\ readable \subseteq Session
  BY SessionsAssumption DEF IInv, TypeOK, SessionsAssumption
<1>1. CASE Select
  <2>1. rtcp' = [rtcp EXCEPT !.pc = "recv", !.todo = readable]
    BY <1>1 DEF Select
  <2>2. rtcp' \in Handler /\ rtcp'.pc = "recv" /\ rtcp'.todo = readable
    BY <1>0, <2>1 DEF Handler
  <2>3. TypeOK' /\ Standing'
    BY <1>1, <2>2 DEF Select, IInv, TypeOK, Standing
  <2>4. QED
    BY <1>1, <2>2, <2>3, QueueStays DEF Select, IInv
<1>2. CASE Recv
  <2>1. Current \in Session
    BY <1>2, CurrentIsSession DEF Recv, IInv, Standing
  <2>2. PICK d \in Datagrams :
          \/ rtcp' = [rtcp EXCEPT !.pc = "parse", !.d = d, !.pos = 0] /\ heard' = heard \cup {Current}
             /\ UNCHANGED <<readable, total>>
          \/ Finished(Current) /\ UNCHANGED heard
    BY <1>2 DEF Recv
  <2>3. CASE Finished(Current) /\ UNCHANGED heard
    <3>1. heard' \subseteq Session
      BY <2>3 DEF IInv, TypeOK
    <3>2. QED
      BY <1>2, <2>1, <2>3, <3>1, FinishedKeeps DEF Recv
  <2>4. CASE /\ rtcp' = [rtcp EXCEPT !.pc = "parse", !.d = d, !.pos = 0]
             /\ heard' = heard \cup {Current} /\ UNCHANGED <<readable, total>>
    <3>1. rtcp' \in Handler /\ rtcp'.pc = "parse" /\ rtcp'.d = d /\ rtcp'.pos = 0 /\ rtcp'.todo = rtcp.todo
      BY <1>0, <2>4 DEF Handler
    <3>2. 0 < d.words
      BY SessionsAssumption DEF SessionsAssumption
    <3>3. TypeOK'
      BY <1>2, <2>1, <2>4, <3>1 DEF Recv, IInv, TypeOK
    <3>4. Standing'
      BY <1>2, <3>1, <3>2 DEF Recv, IInv, Standing
    <3>5. QED
      BY <1>2, <3>1, <3>3, <3>4, QueueStays DEF Recv, IInv
  <2>5. QED
    BY <2>2, <2>3, <2>4
<1>3. CASE Parse
  <2> DEFINE d == rtcp.d
             next == rtcp.pos + d.at[rtcp.pos].len + 1
  <2>1. Current \in Session
    BY <1>3, CurrentIsSession DEF Parse, IInv, Standing
  <2>2. d \in Datagrams /\ rtcp.pos \in 0 .. d.words - 1 /\ d.words \in Nat
    <3>1. d \in Datagrams /\ rtcp.pos < d.words
      BY <1>3 DEF Parse, IInv, Standing
    <3>2. rtcp.pos \in Nat
      BY HandlerFields DEF IInv
    <3>3. d.words \in Nat
      BY <3>1, SessionsAssumption DEF SessionsAssumption
    <3>4. QED
      BY <3>1, <3>2, <3>3
  <2>3. next \in Nat
    <3>1. d.at[rtcp.pos].len \in Nat
      BY <2>2, SessionsAssumption DEF SessionsAssumption
    <3>2. QED
      BY <2>2, <3>1
  <2> HIDE DEF next
  <2>4. \/ next < d.words /\ rtcp' = [rtcp EXCEPT !.pos = next] /\ UNCHANGED <<readable, total>>
        \/ Finished(Current)
    BY <1>3 DEF Parse, next
  <2>5. CASE Finished(Current)
    BY <1>3, <2>1, <2>5, FinishedKeeps DEF Parse, IInv, TypeOK
  <2>6. CASE next < d.words /\ rtcp' = [rtcp EXCEPT !.pos = next] /\ UNCHANGED <<readable, total>>
    <3>1. /\ rtcp' \in Handler /\ rtcp'.pc = rtcp.pc /\ rtcp'.d = d /\ rtcp'.pos = next
          /\ rtcp'.todo = rtcp.todo
      BY <1>0, <2>3, <2>6 DEF Handler
    <3>2. TypeOK'
      BY <1>3, <2>6, <3>1 DEF Parse, IInv, TypeOK
    <3>3. Standing'
      BY <1>3, <2>2, <2>6, <3>1 DEF Parse, IInv, Standing
    <3>4. QED
      BY <1>3, <3>1, <3>2, <3>3, QueueStays DEF Parse, IInv
  <2>7. QED
    BY <2>4, <2>5, <2>6
<1>4. ASSUME NEW s \in Peers, Arrive(s) PROVE IInv'
  <2>1. TypeOK' /\ Standing'
    BY <1>4 DEF Arrive, IInv, TypeOK, Standing
  <2>2. QED
    BY <1>4, <2>1, QueueStays DEF Arrive, IInv
<1>5. QED
  BY <1>1, <1>2, <1>3, <1>4

-----------------------------------------------------------------------------
LEMMA InitIInv == Init => IInv
<1> SUFFICES ASSUME Init PROVE IInv
  OBVIOUS
<1>1. rtcp = [RtcpIdle EXCEPT !.pc = "start"] /\ head = <<>>
  BY DEF Init
<1>2. rtcp \in Handler /\ rtcp.pc = "start" /\ rtcp.pos = 0
  <2>1. rtcp \in Handler /\ rtcp.pc = "start"
    BY <1>1, RtcpIdleTyped DEF Handler
  <2>2. rtcp.pos = 0
    BY <1>1 DEF RtcpIdle
  <2>3. QED
    BY <2>1, <2>2
<1>3. NoStats \in Stats /\ NoBlock \in Block
  BY Widths DEF NoStats, Stats, NoBlock, Block
<1>4. TypeOK
  <2>1. head \in Seq(Event)
    BY <1>1
  <2>2. rtp \in [pc : {"select", "cycles", "max", "count"}, sess : Session \cup {None},
                 seq : 0 .. RTP_SEQ_MOD - 1]
    BY Widths DEF Init, RtpIdle
  <2>3. /\ stats \in [Session -> Stats] /\ block \in [Session -> Block]
        /\ initial \in [Session -> BOOLEAN] /\ counted \in [Session -> Nat]
    BY <1>3 DEF Init
  <2>4. QED
    BY <1>2, <2>1, <2>2, <2>3 DEF Init, TypeOK
<1>5. Standing
  <2>1. 0 < Len(Sessions)
    BY SessionsAssumption DEF SessionsAssumption
  <2>2. rtp.pc = "select"
    BY DEF Init, RtpIdle
  <2>3. QED
    BY <1>2, <2>1, <2>2 DEF Standing
<1>6. OneEventEach
  <2>1. DOMAIN head = {} /\ Scheduled = {}
    BY <1>1, <1>2 DEF Scheduled
  <2>2. QED
    BY <2>1 DEF OneEventEach
<1>7. QED
  BY <1>4, <1>5, <1>6 DEF IInv

LEMMA NextIInv == IInv /\ [Next]_vars => IInv'
<1> SUFFICES ASSUME IInv, [Next]_vars PROVE IInv'
  OBVIOUS
<1>1. CASE Next
  BY <1>1, BeginKeeps, TickKeeps, RtpKeeps, HandleKeeps, ReportingKeeps, ScheduleKeeps, ReadingKeeps
     DEF Next, Reporting
<1>2. CASE UNCHANGED vars
  BY <1>2 DEF vars, IInv, TypeOK, Standing, OneEventEach, Scheduled
<1>3. QED
  BY <1>1, <1>2

\* Types: the fields of a report fit their widths, whatever is counted meanwhile.
THEOREM TypeCorrect == Spec => []TypeOK
<1>1. IInv => TypeOK
  BY DEF IInv
<1>2. QED
  BY InitIInv, NextIInv, <1>1, PTL DEF Spec

\* Rescheduling loses no session's event and doubles none.
THEOREM EventsKept == Spec => []OneEventEach
<1>1. IInv => OneEventEach
  BY DEF IInv
<1>2. QED
  BY InitIInv, NextIInv, <1>1, PTL DEF Spec
-----------------------------------------------------------------------------
(***************************************************************************)
(* What is parsed was checked. The check follows the chain of headers from *)
(* the second packet to the end; the parser's place is always on it.       *)
(***************************************************************************)

\* A step of the check at pos, where f says what it finds further on.
Follow(d, f, pos) ==
  IF pos = d.words \/ d.at[pos].ver # 2 THEN pos
  ELSE IF pos + d.at[pos].len + 1 > d.words THEN d.words + 1
  ELSE f[pos + d.at[pos].len + 1]

Follows(d, f, m) == \A pos \in m .. d.words : f[pos] = Follow(d, f, pos)

OnChain ==
  rtcp.pc = "parse" =>
    LET d    == rtcp.d
        next == rtcp.pos + d.at[rtcp.pos].len + 1
    IN  /\ d.at[rtcp.pos].ver = 2
        /\ IF IsCompound(d) THEN next <= d.words /\ ChainEnd(d)[next] = d.words ELSE rtcp.pos = 0

\* The chain goes forward, so that its ends can be found from the last word on.
LEMMA FollowsExist ==
  ASSUME NEW d \in Datagrams
  PROVE  \E f : Follows(d, f, 0)
<1>1. d.words \in Nat /\ \A pos \in 0 .. d.words - 1 : d.at[pos].len \in Nat
  BY SessionsAssumption DEF SessionsAssumption
<1>2. PICK n \in Nat : n = d.words
  BY <1>1
<1> DEFINE T == {m \in 0 .. n : ~ \E f : Follows(d, f, n - m)}
<1>3. ASSUME T # {} PROVE FALSE
  <2>1. PICK m \in T : \A j \in T : m <= j
    <3>1. T \subseteq Nat
      OBVIOUS
    <3> HIDE DEF T
    <3>2. QED
      BY <1>3, <3>1, LeastExists
  <2>2. m \in 0 .. n /\ ~ \E f : Follows(d, f, n - m)
    BY <2>1
  <2>3. m # 0
    <3> DEFINE f == [pos \in {n} |-> n]
    <3>1. Follows(d, f, n - 0)
      BY <1>2 DEF Follows, Follow
    <3> HIDE DEF f
    <3>2. QED
      BY <2>2, <3>1
  <2>4. m - 1 \in 0 .. n /\ m - 1 \notin T
    BY <2>1, <2>2, <2>3
  <2>5. PICK f : Follows(d, f, n - (m - 1))
    BY <2>4
  <2> DEFINE g == [pos \in n - m .. n |-> IF pos = n - m THEN Follow(d, f, pos) ELSE f[pos]]
  <2>6. \A pos \in n - m .. n : g[pos] = IF pos = n - m THEN Follow(d, f, pos) ELSE f[pos]
    OBVIOUS
  <2> HIDE DEF g
  <2>7. ASSUME NEW pos \in n - m .. n PROVE g[pos] = Follow(d, g, pos)
    <3>1. ASSUME pos # n, ~ (pos + d.at[pos].len + 1 > n)
          PROVE  g[pos + d.at[pos].len + 1] = f[pos + d.at[pos].len + 1]
      <4>1. pos \in 0 .. n - 1
        BY <2>2, <2>7, <3>1
      <4>2. d.at[pos].len \in Nat
        BY <1>1, <1>2, <4>1
      <4>3. pos + d.at[pos].len + 1 \in n - m .. n /\ pos + d.at[pos].len + 1 # n - m
        BY <2>2, <2>7, <3>1, <4>1, <4>2
      <4>4. QED
        BY <2>6, <4>3
    <3>2. Follow(d, g, pos) = Follow(d, f, pos)
      BY <1>2, <3>1 DEF Follow
    <3>3. CASE pos = n - m
      BY <2>6, <3>2, <3>3
    <3>4. CASE pos # n - m
      <4>1. pos \in n - (m - 1) .. n
        BY <2>2, <2>7, <3>4
      <4>2. g[pos] = f[pos] /\ f[pos] = Follow(d, f, pos)
        BY <1>2, <2>5, <2>6, <3>4, <4>1 DEF Follows
      <4>3. QED
        BY <3>2, <4>2
    <3>5. QED
      BY <3>3, <3>4
  <2>8. Follows(d, g, n - m)
    BY <1>2, <2>7 DEF Follows
  <2>9. QED
    BY <2>2, <2>8
<1>4. n \in 0 .. n /\ n - n = 0
  OBVIOUS
<1>5. QED
  BY <1>3, <1>4

\* The check finds at a word what the header there leads to.
LEMMA ChainEndFollows ==
  ASSUME NEW d \in Datagrams, NEW pos \in 0 .. d.words
  PROVE  ChainEnd(d)[pos] = Follow(d, ChainEnd(d), pos)
<1> DEFINE Is(f) == f = [p \in 0 .. d.words |->
                           IF p = d.words \/ d.at[p].ver # 2 THEN p
                           ELSE IF p + d.at[p].len + 1 > d.words THEN d.words + 1
                           ELSE f[p + d.at[p].len + 1]]
<1>1. d.words \in Nat /\ \A p \in 0 .. d.words - 1 : d.at[p].len \in Nat
  BY SessionsAssumption DEF SessionsAssumption
<1>2. PICK f : Follows(d, f, 0)
  BY FollowsExist
<1> DEFINE g == [p \in 0 .. d.words |-> f[p]]
<1>3. Is(g)
  <2>1. \A p \in 0 .. d.words : g[p] = f[p]
    OBVIOUS
  <2>2. g = [p \in 0 .. d.words |-> g[p]]
    OBVIOUS
  <2> HIDE DEF g
  <2>3. ASSUME NEW p \in 0 .. d.words
        PROVE  g[p] = IF p = d.words \/ d.at[p].ver # 2 THEN p
                      ELSE IF p + d.at[p].len + 1 > d.words THEN d.words + 1
                      ELSE g[p + d.at[p].len + 1]
    <3>1. ASSUME p # d.words, ~ (p + d.at[p].len + 1 > d.words)
          PROVE  g[p + d.at[p].len + 1] = f[p + d.at[p].len + 1]
      <4>1. d.at[p].len \in Nat
        BY <1>1, <2>3, <3>1
      <4>2. p + d.at[p].len + 1 \in 0 .. d.words
        BY <1>1, <2>3, <3>1, <4>1
      <4>3. QED
        BY <2>1, <4>2
    <3>2. g[p] = Follow(d, f, p)
      BY <1>2, <2>1 DEF Follows
    <3>3. QED
      BY <3>1, <3>2 DEF Follow
  <2>4. QED
    BY <2>2, <2>3
<1>4. Is(CHOOSE h : Is(h))
  <2> HIDE DEF g, Is
  <2>1. QED
    BY <1>3
<1>5. ChainEnd(d) = CHOOSE h : Is(h)
  BY DEF ChainEnd
<1>6. QED
  <2>1. PICK h : h = ChainEnd(d) /\ Is(h)
    <3> HIDE DEF Is
    <3>1. QED
      BY <1>4, <1>5
  <2>2. h[pos] = Follow(d, h, pos)
    BY <2>1 DEF Follow
  <2>3. QED
    BY <2>1, <2>2

\* A datagram that passes the check is on its chain, and stays on it.
LEMMA ReadingOnChain ==
  ASSUME IInv, IInv', OnChain, Recv \/ Parse
  PROVE  OnChain'
<1>0. rtcp \in Handler
  BY DEF IInv, TypeOK
<1>1. ASSUME NEW s, Finished(s) PROVE OnChain'
  <2>1. rtcp'.pc \in {"select", "recv"}
    BY <1>0, <1>1 DEF Finished, RtcpIdle, Handler
  <2>2. QED
    BY <2>1 DEF OnChain
<1>2. CASE Recv
  <2>1. PICK d \in Datagrams :
          IF rtcp_hdr_val_chk(d) THEN rtcp' = [rtcp EXCEPT !.pc = "parse", !.d = d, !.pos = 0]
          ELSE Finished(Current)
    BY <1>2 DEF Recv
  <2>2. CASE rtcp_hdr_val_chk(d)
    <3>1. rtcp'.pc = "parse" /\ rtcp'.d = d /\ rtcp'.pos = 0
      BY <1>0, <2>1, <2>2 DEF Handler
    <3>2. d.words \in Nat /\ d.words > 0 /\ d.at[0].len \in Nat
      BY SessionsAssumption DEF SessionsAssumption
    <3>3. d.at[0].ver = 2 /\ 0 + d.at[0].len + 1 = d.at[0].len + 1
      BY <2>2, <3>2 DEF rtcp_hdr_val_chk
    <3>4. IsCompound(d) => d.at[0].len + 1 <= d.words /\ ChainEnd(d)[d.at[0].len + 1] = d.words
      BY <2>2, <3>2 DEF rtcp_hdr_val_chk, IsCompound
    <3>5. QED
      BY <3>1, <3>3, <3>4 DEF OnChain
  <2>3. QED
    BY <1>1, <2>1, <2>2
<1>3. CASE Parse
  <2>1. PICK d \in Datagrams, pos \in Nat : d = rtcp.d /\ pos = rtcp.pos /\ pos < d.words
    BY <1>0, <1>3 DEF Parse, IInv, Standing, Handler
  <2>2. d.words \in Nat /\ \A p \in 0 .. d.words - 1 : d.at[p].len \in Nat
    BY SessionsAssumption DEF SessionsAssumption
  <2>3. PICK next : next = pos + d.at[pos].len + 1
    OBVIOUS
  <2>4. next \in Nat
    BY <2>1, <2>2, <2>3
  <2>5. \/ next < d.words /\ rtcp' = [rtcp EXCEPT !.pos = next]
        \/ Finished(Current)
    BY <1>3, <2>1, <2>3 DEF Parse
  <2>6. CASE next < d.words /\ rtcp' = [rtcp EXCEPT !.pos = next]
    <3>1. rtcp'.d = d /\ rtcp'.pos = next
      BY <1>0, <2>1, <2>6 DEF Handler
    <3>2. IF IsCompound(d) THEN next <= d.words /\ ChainEnd(d)[next] = d.words ELSE pos = 0
      BY <1>3, <2>1, <2>3 DEF Parse, OnChain
    <3>3. IsCompound(d)
      <4>1. pos = 0 => d.words > d.at[0].len + 1
        <5>1. d.at[0].len \in Nat
          BY <2>1, <2>2
        <5>2. QED
          BY <2>2, <2>3, <2>6, <5>1
      <4>2. QED
        BY <3>2, <4>1 DEF IsCompound
    <3>4. next \in 0 .. d.words /\ next \in 0 .. d.words - 1 /\ next # d.words
      BY <2>2, <2>4, <2>6
    <3>5. Follow(d, ChainEnd(d), next) = d.words
      BY <3>2, <3>3, <3>4, ChainEndFollows
    <3>6. d.at[next].ver = 2
      BY <3>4, <3>5 DEF Follow
    <3>7. /\ next + d.at[next].len + 1 <= d.words
          /\ ChainEnd(d)[next + d.at[next].len + 1] = d.words
      <4>1. d.at[next].len \in Nat /\ d.words # d.words + 1
        BY <2>2, <3>4
      <4>2. QED
        BY <2>2, <2>4, <3>4, <3>5, <3>6, <4>1 DEF Follow
    <3>8. QED
      BY <3>1, <3>3, <3>6, <3>7 DEF OnChain
  <2>7. QED
    BY <1>1, <2>5, <2>6
<1>4. QED
  BY <1>2, <1>3

LEMMA NextOnChain == IInv /\ IInv' /\ OnChain /\ [Next]_vars => OnChain'
<1> SUFFICES ASSUME IInv, IInv', OnChain, [Next]_vars PROVE OnChain'
  OBVIOUS
<1>0. rtcp \in Handler
  BY DEF IInv, TypeOK
<1>1. ASSUME rtcp' = rtcp PROVE OnChain'
  BY <1>1 DEF OnChain
<1>2. ASSUME rtcp'.pc # "parse" PROVE OnChain'
  BY <1>2 DEF OnChain
<1>3. CASE Begin
  <2>1. rtcp' = RtcpIdle \/ (rtcp.pc = "start" /\ \E n : rtcp' = [rtcp EXCEPT !.pos = n])
    BY <1>3 DEF Begin
  <2>2. rtcp'.pc # "parse"
    BY <1>0, <2>1 DEF RtcpIdle, Handler
  <2>3. QED
    BY <1>2, <2>2
<1>4. CASE HandleEvent \/ Select
  <2>1. rtcp'.pc \in {"test", "schedule", "recv"}
    BY <1>0, <1>4 DEF HandleEvent, Select, Handler
  <2>2. QED
    BY <1>2, <2>1
<1>5. CASE Reporting
  <2>1. rtcp'.pc # "parse"
    <3>1. CASE ReportTest
      <4>1. PICK pc \in {"cycles", "schedule"} : rtcp' = [rtcp EXCEPT !.pc = pc]
        BY <3>1 DEF ReportTest, Go
      <4>2. QED
        BY <1>0, <4>1 DEF Handler
    <3>2. CASE ReadCycles
      BY <1>0, <3>2 DEF ReadCycles, Handler
    <3>3. CASE ReadMax
      <4>1. PICK e, m : rtcp' = [rtcp EXCEPT !.expected = e, !.meant = m, !.pc = "got"]
        BY <3>3 DEF ReadMax
      <4>2. QED
        BY <1>0, <4>1 DEF Handler
    <3>4. CASE ReadReceived
      <4>1. PICK g : rtcp' = [rtcp EXCEPT !.got = g, !.pc = "prior"]
        BY <3>4 DEF ReadReceived
      <4>2. QED
        BY <1>0, <4>1 DEF Handler
    <3>5. CASE KeepReceived
      <4>1. PICK x : rtcp' = [rtcp EXCEPT !.fraction = x, !.pc = "lost"]
        BY <3>5 DEF KeepReceived
      <4>2. QED
        BY <1>0, <4>1 DEF Handler
    <3>6. CASE Report
      BY <1>0, <3>6 DEF Report, Go, Handler
    <3>7. CASE Schedule
      BY <3>7 DEF Schedule, RtcpIdle
    <3>8. QED
      BY <1>5, <3>1, <3>2, <3>3, <3>4, <3>5, <3>6, <3>7 DEF Reporting
  <2>2. QED
    BY <1>2, <2>1
<1>6. CASE Tick \/ RtpThread \/ (\E s \in Peers : Arrive(s)) \/ UNCHANGED vars
  <2>1. rtcp' = rtcp
    BY <1>6 DEF Tick, RtpThread, Start, Packet, RtpCycles, RtpMax, RtpCount, Arrive, vars
  <2>2. QED
    BY <1>1, <2>1
<1>7. QED
  BY <1>3, <1>4, <1>5, <1>6, ReadingOnChain DEF Next

\* rtcp_parse_pkt reads no header that rtcp_hdr_val_chk did not accept, and no packet of
\* a compound datagram reaches past its end, whatever lengths the headers have.
THEOREM ParsesTheChecked == Spec => []ParsesWhatWasChecked
<1>1. Init => OnChain
  BY DEF Init, OnChain, RtcpIdle
<1>2. IInv /\ OnChain => ParsesWhatWasChecked
  BY DEF IInv, Standing, OnChain, ParsesWhatWasChecked
<1>3. QED
  BY InitIInv, NextIInv, NextOnChain, <1>1, <1>2, PTL DEF Spec
-----------------------------------------------------------------------------
(***************************************************************************)
(* A report that was not disturbed is right. What the statistics of a      *)
(* source say of the packets meant and received is an invariant, with the  *)
(* packet the RTP thread has in hand and the report the RTCP thread is at. *)
(***************************************************************************)

\* Where each thread stands with the source of s.
Doing(s) == IF rtp.sess = s THEN rtp.pc ELSE "select"

Making(s) == IF rtcp.sess = s THEN rtcp.pc ELSE "select"

Tally == [meant : Nat, got : Nat, meant_prior : Nat, got_prior : Nat,
          quiet : BOOLEAN, quiet_prior : BOOLEAN]

\* Packets are counted to the bound, each stands for two numbers at most, and
\* what was so at the last report was no more.
Tallied(g, st, doing) ==
  /\ g.got <= MaxPackets /\ st.received = g.got
  /\ g.meant <= 2 * g.got + (IF doing = "select" THEN 0 ELSE 2)
  /\ doing # "select" => g.meant > 0 /\ g.got < MaxPackets
  /\ g.meant_prior <= g.meant /\ g.got_prior <= g.got
  /\ g.meant = 0 => g.got = 0 /\ st.received_prior = 0

\* The extended number the source stands at, the packet in hand included.
Reached(st, doing, seq) ==
  st.cycles + (IF doing = "cycles" THEN RTP_SEQ_MOD ELSE 0)
            + (IF doing \in {"cycles", "max"} THEN seq ELSE st.max_seq)

\* It is as far from the base as packets were meant.
Extended(g, st, doing, seq) ==
  g.meant > 0 => Reached(st, doing, seq) % Word = (st.base_seq + g.meant) % Word

\* What is kept for the next report is of the last one, if that was undisturbed.
Carried(g, st, making) ==
  g.quiet_prior =>
    /\ g.meant > 0 /\ making \notin {"got", "prior", "lost"} => st.expected_prior = g.meant_prior + 1
    /\ making # "lost" => st.received_prior = g.got_prior

\* The report in the making, if it is undisturbed so far: what was read is what
\* the statistics still say.
Undisturbed(g, st, doing, making, r) ==
  making \in {"cycles", "max", "got", "prior", "lost"} =>
    /\ g.meant > 0
    /\ g.quiet =>
         /\ doing = "select"
         /\ g.quiet_prior => g.got_prior < g.got
         /\ making = "max" => r.cycles = st.cycles
         /\ making \in {"got", "prior", "lost"} =>
              /\ r.expected = g.meant + 1 /\ st.expected_prior = g.meant + 1
              /\ g.quiet_prior => r.meant = g.meant - g.meant_prior
         /\ making \in {"prior", "lost"} => (g.quiet_prior => r.got = g.got - g.got_prior)
         /\ making = "lost" =>
              /\ st.received_prior = g.got
              /\ g.quiet_prior /\ r.got <= r.meant =>
                   r.fraction = IF r.meant = 0 THEN 0 ELSE ((r.meant - r.got) * Fraction) \div r.meant

\* All of it, for one source.
Books(g, st, doing, seq, making, r) ==
  /\ g \in Tally
  /\ Tallied(g, st, doing)
  /\ Extended(g, st, doing, seq)
  /\ Carried(g, st, making)
  /\ Undisturbed(g, st, doing, making, r)

BooksKept ==
  /\ ghost \in [Session -> Tally]
  /\ \A s \in Session : Books(ghost[s], stats[s], Doing(s), rtp.seq, Making(s), rtcp)

LEMMA ModMoves ==
  ASSUME NEW a \in Int, NEW b \in Int, NEW c \in Int, NEW w \in Nat, w > 0, a % w = b % w
  PROVE  (a + c) % w = (b + c) % w
OBVIOUS

LEMMA ModIs ==
  ASSUME NEW n \in Int, NEW w \in Nat, w > 0, NEW r \in 0 .. w - 1, NEW k \in Int, n = k * w + r
  PROVE  n % w = r
OBVIOUS

\* A number that fits is not changed.
LEMMA ModSame ==
  ASSUME NEW w \in Nat, NEW r \in 0 .. w - 1
  PROVE  r % w = r
<1>1. w > 0 /\ r \in Int /\ 0 \in Int /\ r = 0 * w + r
  OBVIOUS
<1>2. QED
  BY <1>1, ModIs

LEMMA ModInner ==
  ASSUME NEW a \in Int, NEW c \in Int, NEW w \in Nat, w > 0
  PROVE  ((a % w) + c) % w = (a + c) % w
<1>1. a % w \in 0 .. w - 1
  BY ModFits
<1>2. (a % w) % w = a % w
  BY <1>1, ModSame
<1>3. a % w \in Int
  BY <1>1
<1>4. QED
  BY <1>2, <1>3, ModMoves

LEMMA TimesGrows ==
  ASSUME NEW a \in Nat, NEW b \in Nat, NEW c \in Nat, c > 0, a < b
  PROVE  a * c < b * c /\ a * c \in Nat
OBVIOUS

LEMMA QuotientBelow ==
  ASSUME NEW n \in Nat, NEW m \in Nat, m > 0, NEW f \in Nat, n < m * f
  PROVE  n \div m \in 0 .. f - 1
OBVIOUS

\* The bounds on what is counted.
LEMMA Bounds ==
  /\ MaxPackets \in Nat /\ MaxPackets > 0 /\ 2 * MaxPackets + 4 < Word /\ 4 * MaxPackets + 4 < Word
  /\ (2 * MaxPackets) * Fraction <= Word /\ RTP_SEQ_MOD > 2
<1>1. MaxPackets \in Nat /\ MaxPackets > 0 /\ 2 * MaxPackets + 4 < Word \div 2
      /\ (2 * MaxPackets) * Fraction <= Word /\ RTP_SEQ_MOD > 2
  BY SessionsAssumption DEF SessionsAssumption
<1>2. 2 * (Word \div 2) <= Word /\ Word \div 2 \in Nat
  BY Widths
<1>3. QED
  BY <1>1, <1>2, Widths

-----------------------------------------------------------------------------
\* The steps of the RTP thread on the books of a source.

BusyAt == {"test", "cycles", "max", "got", "prior", "lost"}

LEMMA StatsFields ==
  ASSUME NEW st \in Stats
  PROVE  /\ st.cycles \in 0 .. Word - 1 /\ st.max_seq \in 0 .. RTP_SEQ_MOD - 1 /\ st.base_seq \in 0 .. Word - 1
         /\ st.received \in 0 .. Word - 1 /\ st.received_prior \in 0 .. Word - 1
         /\ st.expected_prior \in 0 .. Word - 1
BY DEF Stats

\* The books do not depend on what they do not speak of.
LEMMA BooksStay ==
  ASSUME NEW g, NEW st, NEW doing, NEW seq, NEW making, NEW r, Books(g, st, doing, seq, making, r),
         NEW seq2, NEW making2, NEW r2,
         doing \in {"cycles", "max"} => seq2 = seq,
         \/ making2 = making /\ r2 = r
         \/ making2 \notin BusyAt \ {"test"} /\ making \notin BusyAt
  PROVE  Books(g, st, doing, seq2, making2, r2)
<1>1. Reached(st, doing, seq2) = Reached(st, doing, seq)
  BY DEF Reached
<1>2. Extended(g, st, doing, seq2)
  BY <1>1 DEF Books, Extended
<1>3. Carried(g, st, making2)
  BY DEF Books, Carried, BusyAt
<1>4. Undisturbed(g, st, doing, making2, r2)
  BY DEF Books, Undisturbed, BusyAt
<1>5. QED
  BY <1>2, <1>3, <1>4 DEF Books

\* A report that was disturbed says nothing.
LEMMA DisturbedSaysNothing ==
  ASSUME NEW g, NEW st, NEW doing, NEW making, NEW r, g.meant > 0, making \in BusyAt => ~ g.quiet
  PROVE  Undisturbed(g, st, doing, making, r)
BY DEF Undisturbed, BusyAt

LEMMA StartBooks ==
  ASSUME NEW g, NEW st \in Stats, NEW seq, NEW making, NEW r, Books(g, st, "select", seq, making, r),
         g.meant = 0, NEW first \in 0 .. RTP_SEQ_MOD - 1, NEW h \in Tally, NEW nst \in Stats,
         h.meant = 1, h.got = 1, h.meant_prior = g.meant_prior, h.got_prior = g.got_prior,
         h.quiet_prior = g.quiet_prior,
         nst = [Started(first) EXCEPT !.received = 1]
  PROVE  Books(h, nst, "select", seq, making, r)
<1>1. /\ nst.cycles = 0 /\ nst.max_seq = first /\ nst.base_seq = (first - 1) % Word /\ nst.received = 1
      /\ nst.received_prior = 0 /\ nst.expected_prior = 1
  BY DEF Started
<1>2. /\ g \in Tally /\ g.got = 0 /\ st.received_prior = 0 /\ g.meant_prior = 0 /\ g.got_prior = 0
      /\ making \notin {"cycles", "max", "got", "prior", "lost"}
  BY DEF Books, Tallied, Undisturbed, Tally
<1>3. Tallied(h, nst, "select")
  BY <1>1, <1>2, Bounds DEF Tallied
<1>4. Extended(h, nst, "select", seq)
  <2>1. Reached(nst, "select", seq) = (first - 1) + 1
    BY <1>1, Widths DEF Reached
  <2>2. (((first - 1) % Word) + 1) % Word = ((first - 1) + 1) % Word
    <3>1. first - 1 \in Int /\ 1 \in Int /\ Word \in Nat /\ Word > 0
      BY Widths
    <3>2. PICK a \in Int : a = first - 1
      BY <3>1
    <3>3. ((a % Word) + 1) % Word = (a + 1) % Word
      BY <3>1, ModInner
    <3>4. QED
      BY <3>2, <3>3
  <2>3. QED
    BY <1>1, <2>1, <2>2 DEF Extended
<1>5. Carried(h, nst, making)
  BY <1>1, <1>2 DEF Carried
<1>6. Undisturbed(h, nst, "select", making, r)
  BY <1>2 DEF Undisturbed
<1>7. QED
  BY <1>3, <1>4, <1>5, <1>6 DEF Books

\* Where a packet stands: at its number, and past a wrap if that is smaller.
LEMMA WrapsOnce ==
  ASSUME NEW max \in 0 .. RTP_SEQ_MOD - 1, NEW step \in 0 .. 2, NEW n, n = (max + step) % RTP_SEQ_MOD
  PROVE  n \in 0 .. RTP_SEQ_MOD - 1 /\ (IF n < max THEN RTP_SEQ_MOD ELSE 0) + n = max + step
<1>1. CASE max + step < RTP_SEQ_MOD
  <2>1. n = max + step
    BY <1>1, ModSame, Widths
  <2>2. QED
    BY <1>1, <2>1, Widths
<1>2. CASE max + step >= RTP_SEQ_MOD
  <2>1. max + step - RTP_SEQ_MOD \in 0 .. RTP_SEQ_MOD - 1 /\ max + step - RTP_SEQ_MOD < max
    BY <1>2, Bounds, Widths
  <2>2. n = max + step - RTP_SEQ_MOD
    <3>1. max + step \in Int /\ max + step = 1 * RTP_SEQ_MOD + (max + step - RTP_SEQ_MOD)
      BY Widths
    <3>2. QED
      BY <2>1, <3>1, ModIs, Widths
  <2>3. QED
    BY <2>1, <2>2, Widths
<1>3. QED
  BY <1>1, <1>2, Widths

LEMMA PacketBooks ==
  ASSUME NEW g, NEW st \in Stats, NEW seq, NEW making, NEW r, Books(g, st, "select", seq, making, r),
         g.meant > 0, g.got < MaxPackets, NEW step \in 0 .. 2, NEW n, n = (st.max_seq + step) % RTP_SEQ_MOD,
         NEW h \in Tally,
         h.meant = g.meant + step, h.got = g.got, h.meant_prior = g.meant_prior, h.got_prior = g.got_prior,
         h.quiet_prior = g.quiet_prior, making \in BusyAt => ~ h.quiet
  PROVE  Books(h, st, IF n < st.max_seq THEN "cycles" ELSE "max", n, making, r)
<1> DEFINE doing == IF n < st.max_seq THEN "cycles" ELSE "max"
<1>1. /\ g \in Tally /\ g.meant \in Nat /\ g.got \in Nat /\ g.meant_prior \in Nat /\ g.meant <= 2 * g.got
      /\ g.meant_prior <= g.meant /\ h.meant > 0
  BY DEF Books, Tallied, Tally
<1>2. Tallied(h, st, doing)
  BY <1>1 DEF Books, Tallied
<1>3. Extended(h, st, doing, n)
  <2>1. /\ st.cycles \in Int /\ st.max_seq \in 0 .. RTP_SEQ_MOD - 1 /\ st.base_seq \in Int
    BY StatsFields, Widths
  <2>2. n \in 0 .. RTP_SEQ_MOD - 1 /\ (IF n < st.max_seq THEN RTP_SEQ_MOD ELSE 0) + n = st.max_seq + step
    BY <2>1, WrapsOnce
  <2>3. Reached(st, doing, n) = (st.cycles + st.max_seq) + step
    <3>1. st.cycles \in Int /\ st.max_seq \in Int /\ n \in Int /\ RTP_SEQ_MOD \in Int
      BY <2>1, <2>2, Widths
    <3>2. CASE n < st.max_seq
      <4>0. doing = "cycles"
        BY <3>2
      <4>1. RTP_SEQ_MOD + n = st.max_seq + step
        BY <2>2, <3>2
      <4>2. Reached(st, "cycles", n) = (st.cycles + RTP_SEQ_MOD) + n
        BY DEF Reached
      <4>3. (st.cycles + RTP_SEQ_MOD) + n = (st.cycles + st.max_seq) + step
        <5>1. PICK a \in Int, b \in Int, c \in Int, d \in Int :
                a = st.cycles /\ b = RTP_SEQ_MOD /\ c = n /\ d = st.max_seq
          BY <3>1
        <5>2. b + c = d + step
          BY <4>1, <5>1
        <5>3. (a + b) + c = (a + d) + step
          BY <5>2
        <5>4. QED
          BY <5>1, <5>3
      <4>4. QED
        BY <4>0, <4>2, <4>3, Zenon
    <3>3. CASE ~ (n < st.max_seq)
      <4>0. doing = "max"
        BY <3>3
      <4>1. n = st.max_seq + step
        BY <2>2, <3>1, <3>3
      <4>2. Reached(st, "max", n) = st.cycles + n
        BY <3>1 DEF Reached
      <4>3. st.cycles + n = (st.cycles + st.max_seq) + step
        BY <3>1, <4>1
      <4>4. QED
        BY <4>0, <4>2, <4>3, Zenon
    <3>4. QED
      BY <3>2, <3>3
  <2>4. (st.cycles + st.max_seq) % Word = (st.base_seq + g.meant) % Word
    BY <2>1, Widths DEF Books, Extended, Reached
  <2>5. ((st.cycles + st.max_seq) + step) % Word = ((st.base_seq + g.meant) + step) % Word
    <3>1. PICK a \in Int, b \in Int : a = st.cycles + st.max_seq /\ b = st.base_seq + g.meant
      BY <1>1, <2>1, Widths
    <3>2. a % Word = b % Word /\ Word \in Nat /\ Word > 0 /\ step \in Int
      BY <2>4, <3>1, Widths
    <3>3. (a + step) % Word = (b + step) % Word
      BY <3>2, ModMoves
    <3>4. QED
      BY <3>1, <3>3
  <2>6. (st.base_seq + g.meant) + step = st.base_seq + h.meant
    BY <1>1, <2>1
  <2>7. QED
    BY <2>3, <2>5, <2>6 DEF Extended
<1>4. Carried(h, st, making)
  BY <1>1 DEF Books, Carried
<1>5. Undisturbed(h, st, doing, making, r)
  BY <1>1, DisturbedSaysNothing
<1>6. QED
  BY <1>2, <1>3, <1>4, <1>5 DEF Books

LEMMA CyclesBooks ==
  ASSUME NEW g, NEW st \in Stats, NEW seq \in 0 .. RTP_SEQ_MOD - 1, NEW making, NEW r,
         Books(g, st, "cycles", seq, making, r), NEW h \in Tally, NEW nst \in Stats,
         h.meant = g.meant, h.got = g.got, h.meant_prior = g.meant_prior, h.got_prior = g.got_prior,
         h.quiet_prior = g.quiet_prior, making \in BusyAt => ~ h.quiet,
         nst = [st EXCEPT !.cycles = (@ + RTP_SEQ_MOD) % Word]
  PROVE  Books(h, nst, "max", seq, making, r)
<1>1. /\ nst.cycles = (st.cycles + RTP_SEQ_MOD) % Word /\ nst.max_seq = st.max_seq /\ nst.base_seq = st.base_seq
      /\ nst.received = st.received /\ nst.received_prior = st.received_prior
      /\ nst.expected_prior = st.expected_prior
  BY DEF Stats
<1>2. g.meant > 0
  BY DEF Books, Tallied
<1>3. Tallied(h, nst, "max")
  BY <1>1 DEF Books, Tallied
<1>4. Extended(h, nst, "max", seq)
  <2>1. PICK c \in Int : c = st.cycles + RTP_SEQ_MOD
    BY StatsFields, Widths
  <2>2. Reached(nst, "max", seq) = (c % Word) + seq
    BY <1>1, <2>1, Widths DEF Reached
  <2>3. Reached(st, "cycles", seq) = c + seq
    BY <2>1 DEF Reached
  <2>4. ((c % Word) + seq) % Word = (c + seq) % Word
    BY ModInner, Widths
  <2>5. Reached(st, "cycles", seq) % Word = (st.base_seq + g.meant) % Word
    BY <1>2 DEF Books, Extended
  <2>6. QED
    BY <1>1, <2>2, <2>3, <2>4, <2>5 DEF Extended
<1>5. Carried(h, nst, making)
  BY <1>1 DEF Books, Carried
<1>6. Undisturbed(h, nst, "max", making, r)
  BY <1>2, DisturbedSaysNothing
<1>7. QED
  BY <1>3, <1>4, <1>5, <1>6 DEF Books

LEMMA MaxBooks ==
  ASSUME NEW g, NEW st \in Stats, NEW seq \in 0 .. RTP_SEQ_MOD - 1, NEW making, NEW r,
         Books(g, st, "max", seq, making, r), NEW h \in Tally, NEW nst \in Stats,
         h.meant = g.meant, h.got = g.got, h.meant_prior = g.meant_prior, h.got_prior = g.got_prior,
         h.quiet_prior = g.quiet_prior, making \in BusyAt => ~ h.quiet,
         nst = [st EXCEPT !.max_seq = seq]
  PROVE  Books(h, nst, "count", seq, making, r)
<1>1. /\ nst.cycles = st.cycles /\ nst.max_seq = seq /\ nst.base_seq = st.base_seq
      /\ nst.received = st.received /\ nst.received_prior = st.received_prior
      /\ nst.expected_prior = st.expected_prior
  BY DEF Stats
<1>2. g.meant > 0
  BY DEF Books, Tallied
<1>3. Tallied(h, nst, "count")
  BY <1>1 DEF Books, Tallied
<1>4. Extended(h, nst, "count", seq)
  <2>1. Reached(nst, "count", seq) = Reached(st, "max", seq)
    BY <1>1 DEF Reached
  <2>2. QED
    BY <1>1, <1>2, <2>1 DEF Books, Extended
<1>5. Carried(h, nst, making)
  BY <1>1 DEF Books, Carried
<1>6. Undisturbed(h, nst, "count", making, r)
  BY <1>2, DisturbedSaysNothing
<1>7. QED
  BY <1>3, <1>4, <1>5, <1>6 DEF Books

LEMMA CountBooks ==
  ASSUME NEW g, NEW st \in Stats, NEW seq, NEW making, NEW r,
         Books(g, st, "count", seq, making, r), NEW h \in Tally, NEW nst \in Stats, NEW seq2,
         h.meant = g.meant, h.got = g.got + 1, h.meant_prior = g.meant_prior, h.got_prior = g.got_prior,
         h.quiet_prior = g.quiet_prior, making \in BusyAt => ~ h.quiet,
         nst = [st EXCEPT !.received = (@ + 1) % Word]
  PROVE  Books(h, nst, "select", seq2, making, r)
<1>1. /\ nst.cycles = st.cycles /\ nst.max_seq = st.max_seq /\ nst.base_seq = st.base_seq
      /\ nst.received = (st.received + 1) % Word /\ nst.received_prior = st.received_prior
      /\ nst.expected_prior = st.expected_prior
  BY DEF Stats
<1>2. /\ g.meant > 0 /\ g.got < MaxPackets /\ g.got \in Nat /\ st.received = g.got /\ g.meant \in Nat
      /\ g.got_prior \in Nat /\ g.got_prior <= g.got /\ g.meant <= 2 * g.got + 2
  BY DEF Books, Tallied, Tally
<1>3. nst.received = g.got + 1
  <2>1. g.got + 1 \in 0 .. Word - 1
    BY <1>2, Bounds, Widths
  <2>2. (g.got + 1) % Word = g.got + 1
    BY <2>1, ModSame, Widths
  <2>3. QED
    BY <1>1, <1>2, <2>2
<1>4. Tallied(h, nst, "select")
  <2>1. g.meant_prior <= g.meant
    BY DEF Books, Tallied
  <2>2. g.got + 1 <= MaxPackets /\ g.meant <= 2 * (g.got + 1) /\ g.got_prior <= g.got + 1
    BY <1>2, Bounds
  <2>3. QED
    BY <1>2, <1>3, <2>1, <2>2 DEF Tallied
<1>5. Extended(h, nst, "select", seq2)
  <2>1. Reached(nst, "select", seq2) = Reached(st, "count", seq)
    BY <1>1 DEF Reached
  <2>2. QED
    BY <1>1, <1>2, <2>1 DEF Books, Extended
<1>6. Carried(h, nst, making)
  BY <1>1 DEF Books, Carried
<1>7. Undisturbed(h, nst, "select", making, r)
  BY <1>2, DisturbedSaysNothing
<1>8. QED
  BY <1>4, <1>5, <1>6, <1>7 DEF Books

-----------------------------------------------------------------------------
\* The steps of a report.

LEMMA TestBooks ==
  ASSUME NEW g, NEW st, NEW doing, NEW seq, NEW r, Books(g, st, doing, seq, "test", r),
         NEW h \in Tally, NEW r2, NEW making,
         h.meant = g.meant, h.got = g.got, h.meant_prior = g.meant_prior, h.got_prior = g.got_prior,
         h.quiet_prior = g.quiet_prior, h.quiet => doing = "select",
         making = IF st.received_prior # st.received THEN "cycles" ELSE "schedule"
  PROVE  Books(h, st, doing, seq, making, r2)
<1>1. Tallied(h, st, doing)
  BY DEF Books, Tallied
<1>2. Extended(h, st, doing, seq)
  BY DEF Books, Extended
<1>3. Carried(h, st, making)
  BY DEF Books, Carried
<1>4. Undisturbed(h, st, doing, making, r2)
  <2>1. CASE making = "schedule"
    BY <2>1 DEF Undisturbed
  <2>2. CASE making = "cycles"
    <3>1. st.received_prior # st.received
      BY <2>2
    <3>2. g.meant > 0
      BY <3>1 DEF Books, Tallied, Tally
    <3>3. g.quiet_prior => g.got_prior < g.got
      BY <3>1 DEF Books, Tallied, Tally, Carried
    <3>4. QED
      BY <2>2, <3>2, <3>3 DEF Undisturbed
  <2>3. QED
    BY <2>1, <2>2
<1>5. QED
  BY <1>1, <1>2, <1>3, <1>4 DEF Books

LEMMA ReadCyclesBooks ==
  ASSUME NEW g, NEW st, NEW doing, NEW seq, NEW r, Books(g, st, doing, seq, "cycles", r),
         NEW r2, r2.cycles = st.cycles
  PROVE  Books(g, st, doing, seq, "max", r2)
<1>1. Carried(g, st, "max")
  BY DEF Books, Carried
<1>2. Undisturbed(g, st, doing, "max", r2)
  BY DEF Books, Undisturbed
<1>3. QED
  BY <1>1, <1>2 DEF Books

LEMMA ReadMaxBooks ==
  ASSUME NEW g, NEW st \in Stats, NEW doing, NEW seq, NEW r, Books(g, st, doing, seq, "max", r),
         NEW r2, NEW nst \in Stats, r.cycles \in Int,
         r2.expected = Expected(r.cycles, st.max_seq, st.base_seq),
         r2.meant = (r2.expected - st.expected_prior) % Word,
         nst = [st EXCEPT !.expected_prior = r2.expected]
  PROVE  Books(g, nst, doing, seq, "got", r2)
<1>1. /\ nst.cycles = st.cycles /\ nst.max_seq = st.max_seq /\ nst.base_seq = st.base_seq
      /\ nst.received = st.received /\ nst.received_prior = st.received_prior
      /\ nst.expected_prior = r2.expected
  BY DEF Stats
<1>2. /\ g \in Tally /\ g.meant > 0 /\ g.meant \in Nat /\ g.meant_prior \in Nat /\ g.meant_prior <= g.meant
      /\ g.meant + 1 \in 0 .. Word - 1
  <2>1. /\ g \in Tally /\ g.meant > 0 /\ g.meant \in Nat /\ g.got \in Nat /\ g.meant_prior \in Nat
        /\ g.meant_prior <= g.meant /\ g.got <= MaxPackets
    BY DEF Books, Tallied, Tally, Undisturbed
  <2>2. g.meant <= 2 * g.got + 2
    BY <2>1 DEF Books, Tallied
  <2>3. g.meant + 1 \in 0 .. Word - 1
    BY <2>1, <2>2, Bounds, Widths
  <2>4. QED
    BY <2>1, <2>3
<1>3. Tallied(g, nst, doing)
  BY <1>1 DEF Books, Tallied
<1>4. Extended(g, nst, doing, seq)
  <2>1. Reached(nst, doing, seq) = Reached(st, doing, seq)
    BY <1>1 DEF Reached
  <2>2. QED
    BY <1>1, <2>1 DEF Books, Extended
<1>5. Carried(g, nst, "got")
  BY <1>1 DEF Books, Carried
<1>6. ASSUME g.quiet PROVE r2.expected = g.meant + 1
  <2>1. doing = "select" /\ r.cycles = st.cycles
    BY <1>6 DEF Books, Undisturbed
  <2>2. st.cycles \in Int /\ st.max_seq \in Int /\ st.base_seq \in Int
    BY StatsFields, Widths
  <2>3. Reached(st, doing, seq) = st.cycles + st.max_seq
    BY <2>1, <2>2 DEF Reached
  <2>4. (st.cycles + st.max_seq) % Word = (st.base_seq + g.meant) % Word
    BY <1>2, <2>3 DEF Books, Extended
  <2>5. PICK a \in Int, b \in Int, c \in Int :
          a = st.cycles + st.max_seq /\ b = st.base_seq + g.meant /\ c = 1 - st.base_seq
    BY <1>2, <2>2
  <2>6. (a + c) % Word = (b + c) % Word
    <3>1. a % Word = b % Word
      BY <2>4, <2>5
    <3>2. QED
      BY <3>1, ModMoves, Widths
  <2>7. b + c = g.meant + 1 /\ a + c = st.cycles + st.max_seq - st.base_seq + 1
    BY <1>2, <2>2, <2>5
  <2>8. (g.meant + 1) % Word = g.meant + 1
    BY <1>2, ModSame, Widths
  <2>9. r2.expected = (a + c) % Word
    BY <2>1, <2>7 DEF Expected
  <2>10. QED
    BY <2>6, <2>7, <2>8, <2>9
<1>7. ASSUME g.quiet, g.quiet_prior PROVE r2.meant = g.meant - g.meant_prior
  <2>1. st.expected_prior = g.meant_prior + 1
    BY <1>2, <1>7 DEF Books, Carried
  <2>2. r2.expected - st.expected_prior = g.meant - g.meant_prior
    BY <1>2, <1>6, <1>7, <2>1
  <2>3. g.meant - g.meant_prior \in 0 .. Word - 1
    BY <1>2, Widths
  <2>4. (g.meant - g.meant_prior) % Word = g.meant - g.meant_prior
    BY <2>3, ModSame, Widths
  <2>5. QED
    BY <2>2, <2>4
<1>8. Undisturbed(g, nst, doing, "got", r2)
  <2>1. g.quiet => doing = "select" /\ (g.quiet_prior => g.got_prior < g.got)
    BY DEF Books, Undisturbed
  <2>2. QED
    BY <1>1, <1>2, <1>6, <1>7, <2>1 DEF Undisturbed
<1>9. QED
  BY <1>2, <1>3, <1>4, <1>5, <1>8 DEF Books

LEMMA ReadReceivedBooks ==
  ASSUME NEW g, NEW st \in Stats, NEW doing, NEW seq, NEW r, Books(g, st, doing, seq, "got", r),
         NEW r2, r2.expected = r.expected, r2.meant = r.meant,
         r2.got = (st.received - st.received_prior) % Word
  PROVE  Books(g, st, doing, seq, "prior", r2)
<1>1. /\ g.got \in Nat /\ g.got_prior \in Nat /\ g.got_prior <= g.got /\ st.received = g.got
      /\ g.got < Word /\ g.meant > 0
  <2>1. /\ g.got \in Nat /\ g.got_prior \in Nat /\ g.got_prior <= g.got /\ st.received = g.got
        /\ g.got <= MaxPackets /\ g.meant > 0
    BY DEF Books, Tallied, Tally, Undisturbed
  <2>2. QED
    BY <2>1, Bounds, Widths
<1>2. ASSUME g.quiet_prior PROVE r2.got = g.got - g.got_prior
  <2>1. st.received_prior = g.got_prior
    BY <1>2 DEF Books, Carried
  <2>2. g.got - g.got_prior \in 0 .. Word - 1
    BY <1>1, Widths
  <2>3. (g.got - g.got_prior) % Word = g.got - g.got_prior
    BY <2>2, ModSame, Widths
  <2>4. QED
    BY <1>1, <2>1, <2>3
<1>3. Carried(g, st, "prior")
  BY DEF Books, Carried
<1>4. Undisturbed(g, st, doing, "prior", r2)
  BY <1>1, <1>2 DEF Books, Undisturbed
<1>5. QED
  BY <1>3, <1>4 DEF Books

\* The fraction, when no more came than was meant and something came.
LEMMA FractionIs ==
  ASSUME NEW meant \in Nat, NEW got \in Nat, got > 0, got <= meant, meant <= 2 * MaxPackets
  PROVE  FractionLost(meant, LostInterval(meant, got))
           = IF meant = 0 THEN 0 ELSE ((meant - got) * Fraction) \div meant
<1>1. PICK l \in Nat : l = meant - got
  OBVIOUS
<1>2. l < meant /\ meant > 0 /\ l < 2 * MaxPackets /\ l \in 0 .. Word - 1
  BY <1>1, Bounds, Widths
<1>3. LostInterval(meant, got) = l
  BY <1>1, <1>2, ModSame, Widths DEF LostInterval
<1>4. PICK n \in Nat : n = l * Fraction
  BY TimesGrows, <1>2, Widths
<1>5. n < Word /\ n < meant * Fraction
  <2>1. l * Fraction < meant * Fraction
    BY <1>2, TimesGrows, Widths
  <2>2. PICK m \in Nat : m = 2 * MaxPackets
    BY Bounds
  <2>3. l * Fraction < m * Fraction /\ m * Fraction <= Word
    BY <1>2, <2>2, TimesGrows, Bounds, Widths
  <2>4. l * Fraction < Word
    <3>1. l * Fraction \in Int /\ m * Fraction \in Int /\ Word \in Int
      BY <2>2, Widths
    <3>2. QED
      BY <2>3, <3>1
  <2>5. QED
    BY <1>4, <2>1, <2>4
<1>6. n \div meant \in 0 .. Fraction - 1
  BY <1>2, <1>5, QuotientBelow, Widths
<1>7. n % Word = n /\ (n \div meant) % Fraction = n \div meant
  <2>1. n \in 0 .. Word - 1
    BY <1>5, Widths
  <2>2. n % Word = n
    BY <2>1, ModSame, Widths
  <2>3. PICK q \in 0 .. Fraction - 1 : q = n \div meant
    BY <1>6
  <2>4. q % Fraction = q
    BY ModSame, Widths
  <2>5. QED
    BY <2>2, <2>3, <2>4
<1>8. CASE l = 0
  <2>1. FractionLost(meant, l) = 0
    BY <1>8 DEF FractionLost
  <2>2. n = 0 /\ n \div meant = 0
    BY <1>2, <1>4, <1>8, Widths
  <2>3. QED
    BY <1>1, <1>2, <1>3, <1>4, <2>1, <2>2
<1>9. CASE l # 0
  <2>1. FractionLost(meant, l) = ((n % Word) \div meant) % Fraction
    BY <1>2, <1>4, <1>9 DEF FractionLost
  <2>2. QED
    BY <1>1, <1>2, <1>3, <1>4, <1>7, <2>1
<1>10. QED
  BY <1>8, <1>9

LEMMA KeepReceivedBooks ==
  ASSUME NEW g, NEW st \in Stats, NEW doing, NEW seq, NEW r, Books(g, st, doing, seq, "prior", r),
         NEW r2, NEW nst \in Stats, r2.expected = r.expected, r2.meant = r.meant, r2.got = r.got,
         r2.fraction = FractionLost(r.meant, LostInterval(r.meant, r.got)),
         nst = [st EXCEPT !.received_prior = st.received]
  PROVE  Books(g, nst, doing, seq, "lost", r2)
<1>1. /\ nst.cycles = st.cycles /\ nst.max_seq = st.max_seq /\ nst.base_seq = st.base_seq
      /\ nst.received = st.received /\ nst.received_prior = st.received
      /\ nst.expected_prior = st.expected_prior
  BY DEF Stats
<1>2. g.meant > 0 /\ g.meant \in Nat /\ g.got \in Nat /\ g.got <= MaxPackets /\ st.received = g.got
  BY DEF Books, Tallied, Tally, Undisturbed
<1>3. Tallied(g, nst, doing)
  BY <1>1, <1>2 DEF Books, Tallied
<1>4. Extended(g, nst, doing, seq)
  <2>1. Reached(nst, doing, seq) = Reached(st, doing, seq)
    BY <1>1 DEF Reached
  <2>2. QED
    BY <1>1, <2>1 DEF Books, Extended
<1>5. Carried(g, nst, "lost")
  BY DEF Carried
<1>6. ASSUME g.quiet, g.quiet_prior, r2.got <= r2.meant
      PROVE  r2.fraction = IF r2.meant = 0 THEN 0 ELSE ((r2.meant - r2.got) * Fraction) \div r2.meant
  <2>1. /\ doing = "select" /\ g.got_prior < g.got /\ r.meant = g.meant - g.meant_prior
        /\ r.got = g.got - g.got_prior
    BY <1>6 DEF Books, Undisturbed
  <2>2. g.meant <= 2 * g.got /\ g.meant_prior <= g.meant /\ g.meant_prior \in Nat /\ g.got_prior \in Nat
    BY <2>1 DEF Books, Tallied, Tally
  <2>3. g.meant <= 2 * MaxPackets
    BY <1>2, <2>2, Bounds
  <2>4. r.meant \in Nat /\ r.got \in Nat /\ r.got > 0 /\ r.meant <= 2 * MaxPackets
    BY <1>2, <2>1, <2>2, <2>3, Bounds
  <2>5. FractionLost(r.meant, LostInterval(r.meant, r.got))
          = IF r.meant = 0 THEN 0 ELSE ((r.meant - r.got) * Fraction) \div r.meant
    BY <1>6, <2>4, FractionIs
  <2>6. QED
    BY <2>5
<1>7. Undisturbed(g, nst, doing, "lost", r2)
  <2>1. g.quiet =>
         /\ doing = "select" /\ (g.quiet_prior => g.got_prior < g.got)
         /\ r2.expected = g.meant + 1 /\ nst.expected_prior = g.meant + 1
         /\ (g.quiet_prior => r2.meant = g.meant - g.meant_prior)
         /\ (g.quiet_prior => r2.got = g.got - g.got_prior)
    BY <1>1 DEF Books, Undisturbed
  <2>2. nst.received_prior = g.got
    BY <1>1, <1>2
  <2>3. QED
    BY <1>2, <1>6, <2>1, <2>2 DEF Undisturbed
<1>8. QED
  BY <1>3, <1>4, <1>5, <1>7 DEF Books

LEMMA ReportBooks ==
  ASSUME NEW g, NEW st, NEW doing, NEW seq, NEW r, Books(g, st, doing, seq, "lost", r),
         NEW h \in Tally, NEW r2,
         h.meant = g.meant, h.got = g.got, h.meant_prior = g.meant, h.got_prior = g.got,
         h.quiet = g.quiet, h.quiet_prior = g.quiet
  PROVE  Books(h, st, doing, seq, "schedule", r2)
<1>1. Tallied(h, st, doing)
  BY DEF Books, Tallied, Tally
<1>2. Extended(h, st, doing, seq)
  BY DEF Books, Extended
<1>3. Carried(h, st, "schedule")
  BY DEF Books, Undisturbed, Carried
<1>4. Undisturbed(h, st, doing, "schedule", r2)
  BY DEF Undisturbed
<1>5. QED
  BY <1>1, <1>2, <1>3, <1>4 DEF Books

\* What an undisturbed report says of the losses and of the highest number.
LEMMA SaysWhatWasLost ==
  ASSUME NEW g, NEW st \in Stats, NEW seq, NEW r, NEW doing, Books(g, st, doing, seq, "lost", r), g.quiet
  PROVE  /\ CumulativeLost(r.expected, st.received) = Clamp(g.meant - g.got)
         /\ (st.cycles + st.max_seq) % Word = (st.base_seq + g.meant) % Word
<1>1. /\ g.meant \in Nat /\ g.got \in Nat /\ g.got <= MaxPackets /\ st.received = g.got /\ g.meant > 0
      /\ doing = "select" /\ r.expected = g.meant + 1
  BY DEF Books, Tallied, Tally, Undisturbed
<1>2. g.meant <= 2 * g.got
  BY <1>1 DEF Books, Tallied
<1>3. (st.cycles + st.max_seq) % Word = (st.base_seq + g.meant) % Word
  <2>1. st.cycles \in Int /\ st.max_seq \in Int
    BY StatsFields, Widths
  <2>2. Reached(st, doing, seq) = st.cycles + st.max_seq
    BY <1>1, <2>1 DEF Reached
  <2>3. QED
    BY <1>1, <2>2 DEF Books, Extended
<1>4. PICK d \in Int : d = g.meant - g.got
  BY <1>1
<1>5. r.expected - st.received - 1 = d /\ 2 * d < Word /\ -Word < 2 * d
  BY <1>1, <1>2, <1>4, Bounds, Widths
<1>6. Signed(d % Word) = d
  <2>1. CASE d >= 0
    <3>1. d \in 0 .. Word - 1
      BY <1>5, <2>1, Widths
    <3>2. d % Word = d
      BY <3>1, ModSame, Widths
    <3>3. QED
      BY <1>5, <2>1, <3>2, Widths DEF Signed
  <2>2. CASE d < 0
    <3>1. d + Word \in 0 .. Word - 1 /\ d = (-1) * Word + (d + Word) /\ 2 * (d + Word) >= Word
      BY <1>5, <2>2, Widths
    <3>2. d % Word = d + Word
      BY <3>1, ModIs, Widths
    <3>3. QED
      BY <1>4, <3>1, <3>2, Widths DEF Signed
  <2>3. QED
    BY <2>1, <2>2
<1>7. CumulativeLost(r.expected, st.received) = Clamp(d)
  BY <1>5, <1>6, Widths DEF CumulativeLost, Clamp
<1>8. QED
  BY <1>3, <1>4, <1>7

-----------------------------------------------------------------------------
\* The steps of the threads keep the books of every session.

\* A step on the source of s leaves the books of the others alone.
LEMMA OneChanges ==
  ASSUME BooksKept, NEW s \in Session,
         NEW h \in Tally, ghost' = [ghost EXCEPT ![s] = h],
         \A t \in Session \ {s} :
           /\ stats'[t] = stats[t] /\ Doing(t)' = Doing(t)
           /\ Doing(t) \in {"cycles", "max"} => rtp'.seq = rtp.seq
           /\ \/ Making(t)' = Making(t) /\ rtcp' = rtcp
              \/ Making(t)' \notin BusyAt /\ Making(t) \notin BusyAt,
         Books(h, stats'[s], Doing(s)', rtp'.seq, Making(s)', rtcp')
  PROVE  BooksKept'
<1>1. ghost \in [Session -> Tally]
  BY DEF BooksKept
<1>2. ghost' \in [Session -> Tally] /\ ghost'[s] = h /\ \A t \in Session \ {s} : ghost'[t] = ghost[t]
  BY <1>1
<1>3. ASSUME NEW t \in Session \ {s}
      PROVE  Books(ghost'[t], stats'[t], Doing(t)', rtp'.seq, Making(t)', rtcp')
  <2>1. Books(ghost[t], stats[t], Doing(t), rtp.seq, Making(t), rtcp)
    BY DEF BooksKept
  <2>2. Books(ghost[t], stats[t], Doing(t), rtp'.seq, Making(t)', rtcp')
    <3>1. CASE Making(t)' = Making(t) /\ rtcp' = rtcp
      BY <2>1, <3>1, BooksStay
    <3>2. CASE Making(t)' \notin BusyAt /\ Making(t) \notin BusyAt
      BY <2>1, <3>2, BooksStay
    <3>3. QED
      BY <3>1, <3>2
  <2>3. QED
    BY <1>2, <2>2
<1>4. \A t \in Session : Books(ghost'[t], stats'[t], Doing(t)', rtp'.seq, Making(t)', rtcp')
  BY <1>2, <1>3
<1>5. QED
  BY <1>2, <1>4 DEF BooksKept

\* A step that touches no source, and that is no part of a report.
LEMMA NoneChanges ==
  ASSUME BooksKept, ghost' = ghost, stats' = stats, rtp' = rtp,
         \/ rtcp' = rtcp
         \/ rtcp.pc \notin BusyAt /\ rtcp'.pc \notin BusyAt \ {"test"}
  PROVE  BooksKept'
<1>1. ASSUME NEW t \in Session
      PROVE  Books(ghost'[t], stats'[t], Doing(t)', rtp'.seq, Making(t)', rtcp')
  <2>1. Books(ghost[t], stats[t], Doing(t), rtp.seq, Making(t), rtcp)
    BY DEF BooksKept
  <2>2. Doing(t)' = Doing(t)
    BY DEF Doing
  <2>3. \/ Making(t)' = Making(t) /\ rtcp' = rtcp
        \/ Making(t)' \notin BusyAt \ {"test"} /\ Making(t) \notin BusyAt
    BY DEF Making, BusyAt
  <2>4. Books(ghost[t], stats[t], Doing(t), rtp.seq, Making(t)', rtcp')
    BY <2>1, <2>3, BooksStay
  <2>5. QED
    BY <2>2, <2>4
<1>2. QED
  BY <1>1 DEF BooksKept

\* Busy says what Making says, and a step of the RTP thread while it holds is remembered.
LEMMA DisturbIs ==
  ASSUME NEW g \in [Session -> Tally], NEW s \in Session
  PROVE  /\ Disturb(g, s) = [g EXCEPT ![s] = [g[s] EXCEPT !.quiet = g[s].quiet /\ ~ Busy(s)]]
         /\ [g[s] EXCEPT !.quiet = g[s].quiet /\ ~ Busy(s)] \in Tally
<1>1. Disturb(g, s) = [g EXCEPT ![s] = [g[s] EXCEPT !.quiet = g[s].quiet /\ ~ Busy(s)]]
  BY DEF Disturb
<1>2. (g[s].quiet /\ ~ Busy(s)) \in BOOLEAN
  BY DEF Tally
<1>3. [g[s] EXCEPT !.quiet = g[s].quiet /\ ~ Busy(s)] \in Tally
  <2>1. PICK q \in BOOLEAN : q = (g[s].quiet /\ ~ Busy(s))
    BY <1>2
  <2>2. [g[s] EXCEPT !.quiet = q] \in Tally
    BY DEF Tally
  <2>3. QED
    BY <2>1, <2>2, Zenon
<1>4. QED
  BY <1>1, <1>3

\* A tally that is counted on, and disturbed if a report is in the making.
LEMMA TallyChanges ==
  ASSUME IInv, ghost \in [Session -> Tally], NEW s \in Session, NEW k \in Tally,
         ghost' = Disturb([ghost EXCEPT ![s] = k], s)
  PROVE  \E h \in Tally :
           /\ ghost' = [ghost EXCEPT ![s] = h]
           /\ h.meant = k.meant /\ h.got = k.got /\ h.meant_prior = k.meant_prior
           /\ h.got_prior = k.got_prior /\ h.quiet_prior = k.quiet_prior
           /\ Making(s) \in BusyAt => ~ h.quiet
<1>1. PICK g \in [Session -> Tally] : g = [ghost EXCEPT ![s] = k]
  OBVIOUS
<1>2. g[s] = k
  BY <1>1
<1>3. PICK h \in Tally : h = [g[s] EXCEPT !.quiet = g[s].quiet /\ ~ Busy(s)]
  BY DisturbIs
<1>4. ghost' = [g EXCEPT ![s] = h]
  BY <1>1, <1>3, DisturbIs
<1>5. ghost' = [ghost EXCEPT ![s] = h]
  BY <1>1, <1>4
<1>6. /\ h.meant = k.meant /\ h.got = k.got /\ h.meant_prior = k.meant_prior
      /\ h.got_prior = k.got_prior /\ h.quiet_prior = k.quiet_prior
  BY <1>2, <1>3 DEF Tally
<1>7. Making(s) \in BusyAt => Busy(s)
  BY DEF Making, BusyAt, Busy
<1>8. Busy(s) => ~ h.quiet
  BY <1>2, <1>3 DEF Tally
<1>9. QED
  BY <1>5, <1>6, <1>7, <1>8

LEMMA TallyGrows ==
  ASSUME NEW g \in Tally, NEW n \in Nat
  PROVE  [g EXCEPT !.meant = n] \in Tally /\ [g EXCEPT !.got = n] \in Tally
BY DEF Tally

LEMMA RtpBooks ==
  ASSUME IInv, BooksKept, RtpThread
  PROVE  BooksKept'
<1>1. /\ rtcp' = rtcp /\ ghost \in [Session -> Tally] /\ stats \in [Session -> Stats]
      /\ \A t \in Session : Making(t)' = Making(t)
  BY DEF RtpThread, Start, Packet, RtpCycles, RtpMax, RtpCount, Making, BooksKept, IInv, TypeOK
<1>2. stats' \in [Session -> Stats]
  BY RtpKeeps DEF IInv, TypeOK
<1>3. ASSUME NEW s \in Session, Start(s) PROVE BooksKept'
  <2>1. PICK first \in 0 .. RTP_SEQ_MOD - 1 :
          stats' = [stats EXCEPT ![s] = [Started(first) EXCEPT !.received = 1]]
    BY <1>3, SessionsAssumption DEF Start, SessionsAssumption
  <2>2. PICK k \in Tally : k = [ghost[s] EXCEPT !.meant = 1, !.got = 1]
    BY <1>1 DEF Tally
  <2>3. ghost' = Disturb([ghost EXCEPT ![s] = k], s)
    BY <1>1, <1>3, <2>2 DEF Start
  <2>4. PICK h \in Tally :
           /\ ghost' = [ghost EXCEPT ![s] = h]
           /\ h.meant = k.meant /\ h.got = k.got /\ h.meant_prior = k.meant_prior
           /\ h.got_prior = k.got_prior /\ h.quiet_prior = k.quiet_prior
           /\ Making(s) \in BusyAt => ~ h.quiet
    BY <1>1, <2>3, TallyChanges
  <2>5. /\ h.meant = 1 /\ h.got = 1 /\ h.meant_prior = ghost[s].meant_prior
        /\ h.got_prior = ghost[s].got_prior /\ h.quiet_prior = ghost[s].quiet_prior
    BY <1>1, <2>2, <2>4 DEF Tally
  <2>6. ghost[s].meant = 0 /\ rtp' = rtp /\ rtp.pc = "select"
    BY <1>3 DEF Start
  <2>7. \A t \in Session : Doing(t)' = Doing(t) /\ Doing(t) = "select"
    BY <2>6 DEF Doing
  <2>8. stats'[s] = [Started(first) EXCEPT !.received = 1] /\ stats'[s] \in Stats /\ stats[s] \in Stats
    BY <1>1, <1>2, <2>1
  <2>9. Books(ghost[s], stats[s], "select", rtp.seq, Making(s), rtcp)
    BY <2>7 DEF BooksKept
  <2>10. Books(h, stats'[s], "select", rtp.seq, Making(s), rtcp)
    BY <2>5, <2>6, <2>8, <2>9, StartBooks
  <2>11. Books(h, stats'[s], Doing(s)', rtp'.seq, Making(s)', rtcp')
    BY <1>1, <2>6, <2>7, <2>10
  <2>12. \A t \in Session \ {s} : stats'[t] = stats[t]
    BY <1>1, <2>1
  <2>13. QED
    BY <1>1, <2>4, <2>6, <2>7, <2>11, <2>12, OneChanges
<1>4. ASSUME NEW s \in Session, Packet(s) PROVE BooksKept'
  <2>1. PICK kind \in Kinds :
          /\ rtp' = [pc |-> IF (stats[s].max_seq + Step[kind]) % RTP_SEQ_MOD < stats[s].max_seq
                            THEN "cycles" ELSE "max",
                     sess |-> s, seq |-> (stats[s].max_seq + Step[kind]) % RTP_SEQ_MOD]
          /\ ghost' = Disturb([ghost EXCEPT ![s].meant = @ + Step[kind]], s)
    BY <1>4 DEF Packet
  <2>2. PICK step \in 0 .. 2 : step = Step[kind]
    BY SessionsAssumption DEF Step, SessionsAssumption
  <2>3. PICK n : n = (stats[s].max_seq + step) % RTP_SEQ_MOD
    OBVIOUS
  <2>4. PICK k \in Tally : k = [ghost[s] EXCEPT !.meant = ghost[s].meant + step]
    <3>1. ghost[s] \in Tally /\ ghost[s].meant + step \in Nat
      BY <1>1 DEF Tally
    <3>2. QED
      BY <3>1, TallyGrows
  <2>5. ghost' = Disturb([ghost EXCEPT ![s] = k], s)
    BY <1>1, <2>1, <2>2, <2>4
  <2>6. PICK h \in Tally :
           /\ ghost' = [ghost EXCEPT ![s] = h]
           /\ h.meant = k.meant /\ h.got = k.got /\ h.meant_prior = k.meant_prior
           /\ h.got_prior = k.got_prior /\ h.quiet_prior = k.quiet_prior
           /\ Making(s) \in BusyAt => ~ h.quiet
    BY <1>1, <2>5, TallyChanges
  <2>7. /\ h.meant = ghost[s].meant + step /\ h.got = ghost[s].got /\ h.meant_prior = ghost[s].meant_prior
        /\ h.got_prior = ghost[s].got_prior /\ h.quiet_prior = ghost[s].quiet_prior
    BY <1>1, <2>4, <2>6 DEF Tally
  <2>8. ghost[s].meant > 0 /\ ghost[s].got < MaxPackets /\ stats' = stats /\ rtp.pc = "select"
    BY <1>4 DEF Packet
  <2>9. \A t \in Session : Doing(t) = "select"
    BY <2>8 DEF Doing
  <2>10. Books(ghost[s], stats[s], "select", rtp.seq, Making(s), rtcp) /\ stats[s] \in Stats
    BY <1>1, <2>9 DEF BooksKept
  <2>11. Books(h, stats[s], IF n < stats[s].max_seq THEN "cycles" ELSE "max", n, Making(s), rtcp)
    BY <2>3, <2>6, <2>7, <2>8, <2>10, PacketBooks
  <2>12. /\ rtp' = [pc |-> IF n < stats[s].max_seq THEN "cycles" ELSE "max", sess |-> s, seq |-> n]
    BY <2>1, <2>2, <2>3
  <2>13. /\ Doing(s)' = (IF n < stats[s].max_seq THEN "cycles" ELSE "max") /\ rtp'.seq = n
         /\ \A t \in Session \ {s} : Doing(t)' = "select"
    BY <2>12 DEF Doing
  <2>14. Books(h, stats'[s], Doing(s)', rtp'.seq, Making(s)', rtcp')
    BY <1>1, <2>8, <2>11, <2>13
  <2>15. QED
    BY <1>1, <2>6, <2>8, <2>9, <2>13, <2>14, OneChanges
<1>5. ASSUME RtpCycles \/ RtpMax \/ RtpCount PROVE BooksKept'
  <2>1. PICK s \in Session : s = rtp.sess
    BY <1>5 DEF IInv, Standing, RtpCycles, RtpMax, RtpCount
  <2>2. Doing(s) = rtp.pc /\ \A t \in Session \ {s} : Doing(t) = "select"
    BY <2>1 DEF Doing
  <2>3. /\ Books(ghost[s], stats[s], Doing(s), rtp.seq, Making(s), rtcp) /\ stats[s] \in Stats
        /\ stats'[s] \in Stats /\ rtp.seq \in 0 .. RTP_SEQ_MOD - 1
    BY <1>1, <1>2 DEF BooksKept, IInv, TypeOK
  <2>4. rtp \in [pc : {"select", "cycles", "max", "count"}, sess : Session \cup {None}, seq : 0 .. RTP_SEQ_MOD - 1]
    BY DEF IInv, TypeOK
  <2>5. CASE RtpCycles \/ RtpMax
    <3>1. PICK k \in Tally : k = ghost[s]
      BY <1>1
    <3>2. ghost' = Disturb([ghost EXCEPT ![s] = k], s)
      <4>1. [ghost EXCEPT ![s] = k] = ghost
        BY <1>1, <3>1
      <4>2. ghost' = Disturb(ghost, s)
        BY <2>1, <2>5 DEF RtpCycles, RtpMax
      <4>3. QED
        BY <4>1, <4>2
    <3>3. PICK h \in Tally :
             /\ ghost' = [ghost EXCEPT ![s] = h]
             /\ h.meant = k.meant /\ h.got = k.got /\ h.meant_prior = k.meant_prior
             /\ h.got_prior = k.got_prior /\ h.quiet_prior = k.quiet_prior
             /\ Making(s) \in BusyAt => ~ h.quiet
      BY <1>1, <3>2, TallyChanges
    <3>4. rtp'.sess = s /\ rtp'.seq = rtp.seq /\ \A t \in Session \ {s} : Doing(t)' = "select"
      BY <2>1, <2>4, <2>5 DEF RtpCycles, RtpMax, Doing
    <3>5. \A t \in Session \ {s} : stats'[t] = stats[t]
      BY <1>1, <2>1, <2>5 DEF RtpCycles, RtpMax
    <3>6. Books(h, stats'[s], Doing(s)', rtp'.seq, Making(s)', rtcp')
      <4>1. CASE RtpCycles
        <5>1. stats'[s] = [stats[s] EXCEPT !.cycles = (@ + RTP_SEQ_MOD) % Word]
          BY <1>1, <2>1, <4>1 DEF RtpCycles
        <5>2. Doing(s) = "cycles" /\ Doing(s)' = "max"
          BY <2>2, <2>4, <3>4, <4>1 DEF RtpCycles, Doing
        <5>3. Books(h, stats'[s], "max", rtp.seq, Making(s), rtcp)
          BY <2>3, <3>1, <3>3, <5>1, <5>2, CyclesBooks
        <5>4. QED
          BY <1>1, <3>4, <5>2, <5>3
      <4>2. CASE RtpMax
        <5>1. stats'[s] = [stats[s] EXCEPT !.max_seq = rtp.seq]
          BY <1>1, <2>1, <4>2 DEF RtpMax
        <5>2. Doing(s) = "max" /\ Doing(s)' = "count"
          BY <2>2, <2>4, <3>4, <4>2 DEF RtpMax, Doing
        <5>3. Books(h, stats'[s], "count", rtp.seq, Making(s), rtcp)
          BY <2>3, <3>1, <3>3, <5>1, <5>2, MaxBooks
        <5>4. QED
          BY <1>1, <3>4, <5>2, <5>3
      <4>3. QED
        BY <2>5, <4>1, <4>2
    <3>7. QED
      BY <1>1, <2>2, <3>3, <3>4, <3>5, <3>6, OneChanges
  <2>6. CASE RtpCount
    <3>1. PICK k \in Tally : k = [ghost[s] EXCEPT !.got = ghost[s].got + 1]
      <4>1. ghost[s] \in Tally /\ ghost[s].got + 1 \in Nat
        BY <1>1 DEF Tally
      <4>2. QED
        BY <4>1, TallyGrows
    <3>2. ghost' = Disturb([ghost EXCEPT ![s] = k], s)
      BY <1>1, <2>1, <2>6, <3>1 DEF RtpCount
    <3>3. PICK h \in Tally :
             /\ ghost' = [ghost EXCEPT ![s] = h]
             /\ h.meant = k.meant /\ h.got = k.got /\ h.meant_prior = k.meant_prior
             /\ h.got_prior = k.got_prior /\ h.quiet_prior = k.quiet_prior
             /\ Making(s) \in BusyAt => ~ h.quiet
      BY <1>1, <3>2, TallyChanges
    <3>4. /\ h.meant = ghost[s].meant /\ h.got = ghost[s].got + 1 /\ h.meant_prior = ghost[s].meant_prior
          /\ h.got_prior = ghost[s].got_prior /\ h.quiet_prior = ghost[s].quiet_prior
      BY <1>1, <3>1, <3>3 DEF Tally
    <3>5. Doing(s) = "count" /\ \A t \in Session : Doing(t)' = "select"
      BY <2>2, <2>6 DEF RtpCount, RtpIdle, Doing
    <3>6. stats'[s] = [stats[s] EXCEPT !.received = (@ + 1) % Word] /\ \A t \in Session \ {s} : stats'[t] = stats[t]
      BY <1>1, <2>1, <2>6 DEF RtpCount
    <3>7. Books(h, stats'[s], "select", rtp'.seq, Making(s), rtcp)
      BY <2>3, <3>3, <3>4, <3>5, <3>6, CountBooks
    <3>8. QED
      BY <1>1, <2>2, <3>3, <3>5, <3>6, <3>7, OneChanges
  <2>7. QED
    BY <1>5, <2>5, <2>6
<1>6. QED
  BY <1>3, <1>4, <1>5 DEF RtpThread

LEMMA ReportingBooks ==
  ASSUME IInv, BooksKept, ReportTest \/ ReadCycles \/ ReadMax \/ ReadReceived \/ KeepReceived \/ Report
  PROVE  BooksKept'
<1>1. PICK s \in Session : s = rtcp.sess
  BY DEF IInv, Standing, ReportTest, ReadCycles, ReadMax, ReadReceived, KeepReceived, Report
<1>2. /\ ghost \in [Session -> Tally] /\ stats \in [Session -> Stats] /\ ghost[s] \in Tally
      /\ stats[s] \in Stats /\ rtcp \in Handler
  BY DEF BooksKept, IInv, TypeOK
<1>3. stats' \in [Session -> Stats] /\ stats'[s] \in Stats
  BY ReportingKeeps DEF IInv, TypeOK
<1>4. Making(s) = rtcp.pc /\ \A t \in Session \ {s} : Making(t) \notin BusyAt
  BY <1>1 DEF Making, BusyAt
<1>5. rtp' = rtp
  BY DEF ReportTest, ReadCycles, ReadMax, ReadReceived, KeepReceived, Report
<1>6. \A t \in Session : Doing(t)' = Doing(t)
  BY <1>5 DEF Doing
<1>7. Books(ghost[s], stats[s], Doing(s), rtp.seq, rtcp.pc, rtcp)
  BY <1>4 DEF BooksKept
<1>8. ASSUME NEW h \in Tally, ghost' = [ghost EXCEPT ![s] = h], rtcp'.sess = s,
             \A t \in Session \ {s} : stats'[t] = stats[t],
             Books(h, stats'[s], Doing(s), rtp.seq, rtcp'.pc, rtcp')
      PROVE  BooksKept'
  <2>1. Making(s)' = rtcp'.pc /\ \A t \in Session \ {s} : Making(t)' \notin BusyAt
    BY <1>8 DEF Making, BusyAt
  <2>2. Books(h, stats'[s], Doing(s)', rtp'.seq, Making(s)', rtcp')
    BY <1>5, <1>6, <1>8, <2>1
  <2>3. QED
    BY <1>4, <1>5, <1>6, <1>8, <2>1, <2>2, OneChanges
<1>9. ghost = [ghost EXCEPT ![s] = ghost[s]]
  BY <1>2
<1>10. CASE ReportTest
  <2>1. PICK making : making = IF stats[s].received_prior # stats[s].received THEN "cycles" ELSE "schedule"
    OBVIOUS
  <2>2. rtcp' = [rtcp EXCEPT !.pc = making] /\ stats' = stats /\ rtcp.pc = "test"
    BY <1>1, <1>10, <2>1 DEF ReportTest, Go
  <2>3. PICK q \in BOOLEAN : q = (rtp.sess # s)
    OBVIOUS
  <2>4. PICK h \in Tally : h = [ghost[s] EXCEPT !.quiet = q]
    BY <1>2 DEF Tally
  <2>5. ghost' = [ghost EXCEPT ![s] = h]
    BY <1>1, <1>2, <1>10, <2>3, <2>4 DEF ReportTest
  <2>6. /\ h.meant = ghost[s].meant /\ h.got = ghost[s].got /\ h.meant_prior = ghost[s].meant_prior
        /\ h.got_prior = ghost[s].got_prior /\ h.quiet_prior = ghost[s].quiet_prior /\ h.quiet = q
    BY <1>2, <2>4 DEF Tally
  <2>7. h.quiet => Doing(s) = "select"
    BY <2>3, <2>6 DEF Doing
  <2>8. Books(ghost[s], stats[s], Doing(s), rtp.seq, "test", rtcp)
    BY <1>7, <2>2
  <2>9. Books(h, stats[s], Doing(s), rtp.seq, making, rtcp')
    BY <2>1, <2>6, <2>7, <2>8, TestBooks
  <2>10. rtcp'.sess = s /\ rtcp'.pc = making
    BY <1>1, <1>2, <2>2 DEF Handler
  <2>11. QED
    BY <1>8, <2>2, <2>5, <2>9, <2>10
<1>11. CASE ReadCycles
  <2>1. /\ rtcp' = [rtcp EXCEPT !.cycles = stats[s].cycles, !.pc = "max"] /\ stats' = stats /\ ghost' = ghost
        /\ rtcp.pc = "cycles"
    BY <1>1, <1>11 DEF ReadCycles
  <2>2. rtcp'.sess = s /\ rtcp'.pc = "max" /\ rtcp'.cycles = stats[s].cycles
    BY <1>1, <1>2, <2>1 DEF Handler
  <2>3. Books(ghost[s], stats[s], Doing(s), rtp.seq, "cycles", rtcp)
    BY <1>7, <2>1
  <2>4. Books(ghost[s], stats[s], Doing(s), rtp.seq, "max", rtcp')
    BY <2>2, <2>3, ReadCyclesBooks
  <2>5. QED
    BY <1>2, <1>8, <1>9, <2>1, <2>2, <2>4
<1>12. CASE ReadMax
  <2>1. PICK e : e = Expected(rtcp.cycles, stats[s].max_seq, stats[s].base_seq)
    OBVIOUS
  <2>2. /\ rtcp' = [rtcp EXCEPT !.expected = e, !.meant = (e - stats[s].expected_prior) % Word, !.pc = "got"]
        /\ stats' = [stats EXCEPT ![s] = [stats[s] EXCEPT !.expected_prior = e]] /\ ghost' = ghost
        /\ rtcp.pc = "max"
    BY <1>1, <1>12, <2>1 DEF ReadMax
  <2>3. /\ rtcp'.sess = s /\ rtcp'.pc = "got" /\ rtcp'.expected = e
        /\ rtcp'.meant = (e - stats[s].expected_prior) % Word
    BY <1>1, <1>2, <2>2 DEF Handler
  <2>4. /\ stats'[s] = [stats[s] EXCEPT !.expected_prior = e]
        /\ \A t \in Session \ {s} : stats'[t] = stats[t]
    BY <1>2, <2>2
  <2>5. Books(ghost[s], stats[s], Doing(s), rtp.seq, "max", rtcp)
    BY <1>7, <2>2
  <2>6. rtcp.cycles \in Int
    BY HandlerFields DEF IInv
  <2>7. Books(ghost[s], stats'[s], Doing(s), rtp.seq, "got", rtcp')
    BY <1>2, <1>3, <2>1, <2>3, <2>4, <2>5, <2>6, ReadMaxBooks
  <2>8. QED
    BY <1>2, <1>8, <1>9, <2>2, <2>3, <2>4, <2>7
<1>13. CASE ReadReceived
  <2>1. PICK n : n = (stats[s].received - stats[s].received_prior) % Word
    OBVIOUS
  <2>2. /\ rtcp' = [rtcp EXCEPT !.got = n, !.pc = "prior"] /\ stats' = stats /\ ghost' = ghost /\ rtcp.pc = "got"
    BY <1>1, <1>13, <2>1 DEF ReadReceived
  <2>3. /\ rtcp'.sess = s /\ rtcp'.pc = "prior" /\ rtcp'.expected = rtcp.expected /\ rtcp'.meant = rtcp.meant
        /\ rtcp'.got = n
    BY <1>1, <1>2, <2>2 DEF Handler
  <2>4. Books(ghost[s], stats[s], Doing(s), rtp.seq, "got", rtcp)
    BY <1>7, <2>2
  <2>5. Books(ghost[s], stats[s], Doing(s), rtp.seq, "prior", rtcp')
    BY <1>2, <2>1, <2>3, <2>4, ReadReceivedBooks
  <2>6. QED
    BY <1>2, <1>8, <1>9, <2>2, <2>3, <2>5
<1>14. CASE KeepReceived
  <2>1. PICK f : f = FractionLost(rtcp.meant, LostInterval(rtcp.meant, rtcp.got))
    OBVIOUS
  <2>2. /\ rtcp' = [rtcp EXCEPT !.fraction = f, !.pc = "lost"]
        /\ stats' = [stats EXCEPT ![s] = [stats[s] EXCEPT !.received_prior = stats[s].received]] /\ ghost' = ghost
        /\ rtcp.pc = "prior"
    BY <1>1, <1>14, <2>1 DEF KeepReceived
  <2>3. /\ rtcp'.sess = s /\ rtcp'.pc = "lost" /\ rtcp'.expected = rtcp.expected /\ rtcp'.meant = rtcp.meant
        /\ rtcp'.got = rtcp.got /\ rtcp'.fraction = f
    BY <1>1, <1>2, <2>2 DEF Handler
  <2>4. /\ stats'[s] = [stats[s] EXCEPT !.received_prior = stats[s].received]
        /\ \A t \in Session \ {s} : stats'[t] = stats[t]
    BY <1>2, <2>2
  <2>5. Books(ghost[s], stats[s], Doing(s), rtp.seq, "prior", rtcp)
    BY <1>7, <2>2
  <2>6. Books(ghost[s], stats'[s], Doing(s), rtp.seq, "lost", rtcp')
    BY <1>2, <1>3, <2>1, <2>3, <2>4, <2>5, KeepReceivedBooks
  <2>7. QED
    BY <1>2, <1>8, <1>9, <2>2, <2>3, <2>4, <2>6
<1>15. CASE Report
  <2>1. /\ rtcp' = [rtcp EXCEPT !.pc = "schedule"] /\ stats' = stats /\ rtcp.pc = "lost"
    BY <1>15 DEF Report, Go
  <2>2. PICK h : h = [ghost[s] EXCEPT !.meant_prior = ghost[s].meant, !.got_prior = ghost[s].got,
                                      !.quiet_prior = ghost[s].quiet]
    OBVIOUS
  <2>3. /\ h \in Tally
        /\ h.meant = ghost[s].meant /\ h.got = ghost[s].got /\ h.meant_prior = ghost[s].meant
        /\ h.got_prior = ghost[s].got /\ h.quiet = ghost[s].quiet /\ h.quiet_prior = ghost[s].quiet
    BY <1>2, <2>2 DEF Tally
  <2>4. ghost' = [ghost EXCEPT ![s] = h]
    BY <1>1, <1>2, <1>15, <2>2 DEF Report
  <2>5. Books(ghost[s], stats[s], Doing(s), rtp.seq, "lost", rtcp)
    BY <1>7, <2>1
  <2>6. Books(h, stats[s], Doing(s), rtp.seq, "schedule", rtcp')
    BY <2>3, <2>5, ReportBooks
  <2>7. rtcp'.sess = s /\ rtcp'.pc = "schedule"
    BY <1>1, <1>2, <2>1 DEF Handler
  <2>8. QED
    BY <1>8, <2>1, <2>3, <2>4, <2>6, <2>7
<1>16. QED
  BY <1>10, <1>11, <1>12, <1>13, <1>14, <1>15

\* The rest of the RTCP thread, and what arrives, is no part of a report.
LEMMA OthersBooks ==
  ASSUME IInv, BooksKept,
         Begin \/ Tick \/ HandleEvent \/ Schedule \/ Select \/ Recv \/ Parse \/ (\E s \in Peers : Arrive(s))
  PROVE  BooksKept'
<1>1. ghost' = ghost /\ stats' = stats /\ rtp' = rtp
  BY DEF Begin, Tick, HandleEvent, Schedule, Select, Recv, Parse, Arrive
<1>2. rtcp \in Handler
  BY DEF IInv, TypeOK
<1>3. CASE Tick \/ (\E s \in Peers : Arrive(s))
  <2>1. rtcp' = rtcp
    BY <1>3 DEF Tick, Arrive
  <2>2. QED
    BY <1>1, <2>1, NoneChanges
<1>4. ASSUME rtcp.pc \in {"start", "select", "schedule", "recv", "parse"},
             rtcp'.pc \in {"start", "select", "schedule", "recv", "parse", "test"}
      PROVE  BooksKept'
  <2>1. rtcp.pc \notin BusyAt /\ rtcp'.pc \notin BusyAt \ {"test"}
    BY <1>4 DEF BusyAt
  <2>2. QED
    BY <1>1, <2>1, NoneChanges
<1>5. CASE Begin
  <2>1. rtcp.pc = "start" /\ (rtcp' = RtcpIdle \/ rtcp' = [rtcp EXCEPT !.pos = rtcp.pos + 1])
    BY <1>5 DEF Begin
  <2>2. rtcp'.pc \in {"start", "select"}
    BY <1>2, <2>1 DEF RtcpIdle, Handler
  <2>3. QED
    BY <1>4, <2>1, <2>2
<1>6. CASE HandleEvent
  <2>1. rtcp.pc = "select" /\ \E s, pc : pc \in {"test", "schedule"} /\ rtcp' = [rtcp EXCEPT !.sess = s, !.pc = pc]
    BY <1>6 DEF HandleEvent
  <2>2. rtcp'.pc \in {"test", "schedule"}
    BY <1>2, <2>1 DEF Handler
  <2>3. QED
    BY <1>4, <2>1, <2>2
<1>7. CASE Schedule
  BY <1>4, <1>7 DEF Schedule, RtcpIdle
<1>8. CASE Select
  <2>1. rtcp.pc = "select" /\ rtcp'.pc = "recv"
    BY <1>2, <1>8 DEF Select, Handler
  <2>2. QED
    BY <1>4, <2>1
<1>9. CASE Recv \/ Parse
  <2>1. rtcp.pc \in {"recv", "parse"}
    BY <1>9 DEF Recv, Parse
  <2>2. ASSUME NEW s, Finished(s) PROVE rtcp'.pc \in {"select", "recv"}
    <3>1. \/ rtcp' = RtcpIdle
          \/ \E todo, acc : rtcp' = [rtcp EXCEPT !.pc = "recv", !.todo = todo, !.acc = acc, !.d = None, !.pos = 0]
      BY <2>2 DEF Finished
    <3>2. CASE rtcp' = RtcpIdle
      BY <3>2 DEF RtcpIdle
    <3>3. ASSUME NEW todo, NEW acc,
                 rtcp' = [rtcp EXCEPT !.pc = "recv", !.todo = todo, !.acc = acc, !.d = None, !.pos = 0]
          PROVE  rtcp'.pc = "recv"
      BY <1>2, <3>3 DEF Handler
    <3>4. QED
      BY <3>1, <3>2, <3>3
  <2>3. \/ Finished(Current)
        \/ \E d : rtcp' = [rtcp EXCEPT !.pc = "parse", !.d = d, !.pos = 0]
        \/ rtcp.pc = "parse" /\ \E n : rtcp' = [rtcp EXCEPT !.pos = n]
    BY <1>9 DEF Recv, Parse
  <2>4. rtcp'.pc \in {"select", "recv", "parse"}
    <3>1. ASSUME NEW d, rtcp' = [rtcp EXCEPT !.pc = "parse", !.d = d, !.pos = 0] PROVE rtcp'.pc = "parse"
      BY <1>2, <3>1 DEF Handler
    <3>2. ASSUME rtcp.pc = "parse", NEW n, rtcp' = [rtcp EXCEPT !.pos = n] PROVE rtcp'.pc = "parse"
      BY <1>2, <3>2 DEF Handler
    <3>3. QED
      BY <2>2, <2>3, <3>1, <3>2
  <2>5. QED
    BY <1>4, <2>1, <2>4
<1>10. QED
  BY <1>3, <1>5, <1>6, <1>7, <1>8, <1>9

LEMMA InitBooks == Init => BooksKept
<1> SUFFICES ASSUME Init PROVE BooksKept
  OBVIOUS
<1>1. /\ ghost = [s \in Session |-> NoGhost] /\ stats = [s \in Session |-> NoStats] /\ rtp = RtpIdle
      /\ rtcp.pc = "start"
  BY DEF Init, RtcpIdle
<1>2. NoGhost \in Tally
  BY DEF NoGhost, Tally
<1>3. ASSUME NEW s \in Session PROVE Books(ghost[s], stats[s], Doing(s), rtp.seq, Making(s), rtcp)
  <2>1. Doing(s) = "select" /\ Making(s) \notin {"cycles", "max", "got", "prior", "lost"}
    BY <1>1 DEF Doing, Making, RtpIdle
  <2>2. /\ NoGhost.meant = 0 /\ NoGhost.got = 0 /\ NoGhost.meant_prior = 0 /\ NoGhost.got_prior = 0
        /\ NoStats.received = 0 /\ NoStats.received_prior = 0
    BY DEF NoGhost, NoStats
  <2>3. Tallied(NoGhost, NoStats, Doing(s))
    BY <2>1, <2>2, Bounds DEF Tallied
  <2>4. Extended(NoGhost, NoStats, Doing(s), rtp.seq) /\ Carried(NoGhost, NoStats, Making(s))
    BY <2>2 DEF Extended, Carried
  <2>5. Undisturbed(NoGhost, NoStats, Doing(s), Making(s), rtcp)
    BY <2>1 DEF Undisturbed
  <2>6. QED
    BY <1>1, <1>2, <2>3, <2>4, <2>5 DEF Books
<1>4. QED
  BY <1>1, <1>2, <1>3 DEF BooksKept

LEMMA NextBooks == IInv /\ BooksKept /\ [Next]_vars => BooksKept'
<1> SUFFICES ASSUME IInv, BooksKept, [Next]_vars PROVE BooksKept'
  OBVIOUS
<1>1. CASE Next
  BY <1>1, RtpBooks, ReportingBooks, OthersBooks DEF Next, Reporting
<1>2. CASE UNCHANGED vars
  BY <1>2, NoneChanges DEF vars
<1>3. QED
  BY <1>1, <1>2

\* A report is sent by the step that takes it from its last read.
LEMMA QuietStep == IInv /\ BooksKept /\ [Next]_vars =>
  \A s \in Session :
    (rtcp.pc = "lost" /\ rtcp.sess = s /\ rtcp'.pc = "schedule" /\ ghost[s].quiet) =>
      LET g == ghost[s]
          b == block'[s]
          meant == g.meant - g.meant_prior
          got   == g.got - g.got_prior
      IN  /\ b.lost = Clamp(g.meant - g.got)
          /\ b.last_seq = (stats[s].base_seq + g.meant) % Word
          /\ (g.quiet_prior /\ got <= meant) =>
               b.fraction = IF meant = 0 THEN 0 ELSE ((meant - got) * Fraction) \div meant
<1> SUFFICES ASSUME IInv, BooksKept, [Next]_vars, NEW s \in Session, rtcp.pc = "lost", rtcp.sess = s,
                    rtcp'.pc = "schedule", ghost[s].quiet
             PROVE  LET g == ghost[s]
                        b == block'[s]
                        meant == g.meant - g.meant_prior
                        got   == g.got - g.got_prior
                    IN  /\ b.lost = Clamp(g.meant - g.got)
                        /\ b.last_seq = (stats[s].base_seq + g.meant) % Word
                        /\ (g.quiet_prior /\ got <= meant) =>
                             b.fraction = IF meant = 0 THEN 0 ELSE ((meant - got) * Fraction) \div meant
  OBVIOUS
<1>1. Report
  <2>1. CASE RtpThread \/ Tick \/ (\E t \in Peers : Arrive(t)) \/ UNCHANGED vars
    <3>1. rtcp' = rtcp
      BY <2>1 DEF RtpThread, Start, Packet, RtpCycles, RtpMax, RtpCount, Tick, Arrive, vars
    <3>2. QED
      BY <3>1
  <2>2. QED
    BY <2>1 DEF Next, Reporting, Begin, HandleEvent, ReportTest, ReadCycles, ReadMax, ReadReceived,
                KeepReceived, Schedule, Select, Recv, Parse
<1>2. stats[s] \in Stats /\ block \in [Session -> Block]
  BY DEF IInv, TypeOK
<1>3. block'[s] = [fraction |-> rtcp.fraction,
                   lost |-> CumulativeLost(rtcp.expected, stats[s].received),
                   last_seq |-> (stats[s].cycles + stats[s].max_seq) % Word]
  BY <1>1, <1>2 DEF Report
<1>4. Books(ghost[s], stats[s], Doing(s), rtp.seq, "lost", rtcp)
  <2>1. Making(s) = "lost"
    BY DEF Making
  <2>2. QED
    BY <2>1 DEF BooksKept
<1>5. /\ CumulativeLost(rtcp.expected, stats[s].received) = Clamp(ghost[s].meant - ghost[s].got)
      /\ (stats[s].cycles + stats[s].max_seq) % Word = (stats[s].base_seq + ghost[s].meant) % Word
  BY <1>2, <1>4, SaysWhatWasLost
<1>6. ASSUME ghost[s].quiet_prior
      PROVE  /\ rtcp.meant = ghost[s].meant - ghost[s].meant_prior /\ rtcp.got = ghost[s].got - ghost[s].got_prior
             /\ rtcp.got <= rtcp.meant =>
                  rtcp.fraction = IF rtcp.meant = 0 THEN 0
                                  ELSE ((rtcp.meant - rtcp.got) * Fraction) \div rtcp.meant
  BY <1>4, <1>6 DEF Books, Undisturbed
<1>7. QED
  BY <1>3, <1>5, <1>6

\* rtcp_build_rr, when no packet comes between its reads: the losses, the highest number
\* and the fraction are those of the packets, however the reports before it fared.
THEOREM UndisturbedReportsAreRight == Spec => QuietReportsAreRight
<1>1. IInv /\ BooksKept /\ [Next]_vars =>
        [\A s \in Session :
           (rtcp.pc = "lost" /\ rtcp.sess = s /\ rtcp'.pc = "schedule" /\ ghost[s].quiet) =>
             LET g == ghost[s]
                 b == block'[s]
                 meant == g.meant - g.meant_prior
                 got   == g.got - g.got_prior
             IN  /\ b.lost = Clamp(g.meant - g.got)
                 /\ b.last_seq = (stats[s].base_seq + g.meant) % Word
                 /\ (g.quiet_prior /\ got <= meant) =>
                      b.fraction = IF meant = 0 THEN 0 ELSE ((meant - got) * Fraction) \div meant]_vars
  BY QuietStep
<1>2. QED
  BY InitIInv, NextIInv, InitBooks, NextBooks, <1>1, PTL DEF Spec, QuietReportsAreRight
=============================================================================
