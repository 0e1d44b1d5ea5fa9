--------------------------- MODULE PlayoutBuffer ---------------------------
(***************************************************************************)
(* One RTP session between the thread that receives its packets and the    *)
(* application thread that plays them.                                     *)
(*                                                                         *)
(* The RTP thread runs rtp_recv: it takes a slot from the pool, reads a    *)
(* packet from the socket into it, tracks the sequence numbers of its      *)
(* source and links the slot into the playout list of the source.  The     *)
(* application thread runs rtp_fill_buffer and the parser it calls (find   *)
(* the oldest packet, use it in place, remove it), and the part of         *)
(* rtsp_seek that empties the lists.  Each action is one critical section  *)
(* (fl_mutex, po_mutex) or one stretch of unlocked code between two.       *)
(*                                                                         *)
(* A packet is its true position ext in what its source sent; the number   *)
(* in its header is HeaderNo.  The library sees the header number only.    *)
(***************************************************************************)
EXTENDS PlayoutList, RtpSequence

CONSTANTS
  Sources,      \* the sources (SSRCs) sending to the session
  FirstExt,     \* position of the first packet a source sends (sets the
                \* first header number)
  MaxExt,       \* bound: the last position a source sends
  MaxSeeks,     \* bound: the number of seeks
  Faults        \* what the network and the server may do: see Deliverable,
                \* RecvError and BadHeader

ASSUME BufferAssumption ==
  /\ FirstExt \in Nat \ {0}
  /\ MaxExt \in Nat
  /\ MaxSeeks \in Nat
  /\ Faults \subseteq {"loss", "duplicate", "late", "recv_error", "bad_header"}

VARIABLES
  bp,       \* the buffer_pool of the session
  packet,   \* what each slot holds: its source, position, header number and
            \* the plays before it was sent; or Blank
  po,       \* the playout_buff of each source
  pktlen,   \* poitem.pktlen of each slot: the packet whose length it is
  stats,    \* rtp_ssrc_stats of each source
  known,    \* the sources in the ssrc_queue
  active,   \* the sources in the active_ssrc_queue
  done_seek,\* rtp_ssrc.done_seek of each source
  recv,     \* the RTP thread: program counter, slot, source, and whether
            \* line 281 saw done_seek for the packet at hand
  app,      \* the application thread: program counter, source, index and
            \* pool generation of the packet pointer, the length it read and
            \* the packet it used, sources left to clear in a seek
  sent,     \* network: highest position each source has sent
  plays,    \* network: the seeks the server has carried out
  played,   \* history: position of the last packet removed, of each source
  leaked    \* history: slots taken from the pool that nothing will free

pool    == <<bp, packet, po, pktlen>>
sources == <<stats, known, active, done_seek>>
network == <<sent, plays>>
history == <<played, leaked>>
vars    == <<pool, sources, recv, app, network, history>>

None  == "none"
Blank == [src |-> None, ext |-> 0, seq |-> 0, era |-> 0]  \* memset by bpfree, bprmv

HeaderNo(ext) == ext % RTP_SEQ_MOD

\* Header numbers of the packets in the slots, as poadd reads them.
HeaderSeq == [i \in Slot |-> packet[i].seq]

Init ==
  /\ bp = bpinit
  /\ packet = [i \in Slot |-> Blank]
  /\ po = [s \in Sources |-> poinit]
  /\ pktlen = [i \in Slot |-> 0]
  /\ stats = [s \in Sources |-> NoStats]
  /\ known = {}
  /\ active = {}
  /\ done_seek = [s \in Sources |-> FALSE]
  /\ recv = [pc |-> "select", slot |-> Nil, src |-> None, reset |-> FALSE]
  /\ app = [pc |-> "idle", src |-> None, index |-> Nil, moved |-> 0,
            len |-> 0, used |-> 0, toclear |-> {}]
  /\ sent = [s \in Sources |-> FirstExt - 1]
  /\ plays = 0
  /\ played = [s \in Sources |-> 0]
  /\ leaked = {}

-----------------------------------------------------------------------------
(***************************************************************************)
(* The network.                                                            *)
(***************************************************************************)
\* Positions of s that may arrive next: the next one; the one after a loss
\* the tracking still follows (packets that socket_clear threw away are such a
\* loss); the newest one again; the one before it.  Packets may be under way
\* throughout a seek: the RTP thread goes on receiving.
Deliverable(s) ==
  {e \in FirstExt .. MaxExt :
     \/ e = sent[s] + 1
     \/ "loss" \in Faults /\ e = sent[s] + MAX_DROPOUT - 1
     \/ "duplicate" \in Faults /\ e = sent[s]
     \/ "late" \in Faults /\ e = sent[s] - 1}

\* select reports the socket of the session.
Readable ==
  \/ \E s \in Sources : Deliverable(s) # {}
  \/ Faults \cap {"recv_error", "bad_header"} # {}

Arrive(s, e) ==
  /\ sent' = [sent EXCEPT ![s] = IF e > @ THEN e ELSE @]
  /\ packet' = [packet EXCEPT ![recv.slot] = [src |-> s, ext |-> e, seq |-> HeaderNo(e), era |-> plays]]

-----------------------------------------------------------------------------
(***************************************************************************)
(* The RTP thread: rtp_recv.                                               *)
(***************************************************************************)
RecvTo(pc) == recv' = [recv EXCEPT !.pc = pc]
RecvDone   == recv' = [recv EXCEPT !.pc = "select", !.slot = Nil, !.src = None]

\* At the test of flhead in bpget.
InBpget == recv.pc = "woken" \/ (recv.pc = "select" /\ Readable)

\* bpget: the pool has, or can get, a free slot.
Get ==
  /\ InBpget
  /\ LET ready == IF bp.flhead = Nil THEN bpenlarge(bp) ELSE bp
     IN  /\ bp.flhead # Nil \/ CanEnlarge(bp)
         /\ bp' = Pop(ready)
         /\ recv' = [recv EXCEPT !.pc = "recvfrom", !.slot = ready.flhead]
  /\ UNCHANGED <<packet, po, pktlen, app, sources, network, history>>

\* bpget: the pool has its maximum size and no slot is free; wait on cond_full.
GetWaits ==
  /\ InBpget
  /\ bp.flhead = Nil /\ ~CanEnlarge(bp)
  /\ RecvTo("waiting")
  /\ UNCHANGED <<app, pool, sources, network, history>>

\* recvfrom fills the slot with a well-formed packet of s, and rtp_ssrc_check
\* finds its source known or creates it.  A source whose first packet this is
\* starts its probation.
RecvFrom(s, e) ==
  /\ recv.pc = "recvfrom"
  /\ e \in Deliverable(s)
  /\ Arrive(s, e)
  /\ known' = known \cup {s}
  /\ IF s \in known
     THEN /\ recv' = [recv EXCEPT !.pc = "known", !.src = s]
          /\ UNCHANGED <<stats, active>>
     ELSE LET seq == HeaderNo(e)
              st  == StartProbation(stats[s], seq)
          IN  /\ recv' = [recv EXCEPT !.pc = "poadd", !.src = s]
              /\ stats' = [stats EXCEPT ![s] = rtp_update_seq(st, seq)]
              /\ active' = active \cup (IF Restarts(st, seq) THEN {s} ELSE {})
  /\ UNCHANGED <<bp, po, pktlen, done_seek, app, plays, history>>

\* recvfrom fails: rtp_recv returns and forgets the slot.
RecvError ==
  /\ "recv_error" \in Faults
  /\ recv.pc = "recvfrom"
  /\ leaked' = leaked \cup {recv.slot}
  /\ RecvDone
  /\ UNCHANGED <<app, played, pool, sources, network>>

\* The packet fails rtp_hdr_val_chk: its slot is about to be freed.
BadHeader ==
  /\ "bad_header" \in Faults
  /\ recv.pc = "recvfrom"
  /\ RecvTo("bpfree")
  /\ UNCHANGED <<app, pool, sources, network, history>>

\* The packet carries the SSRC of s but comes from another address: bprmv is
\* called on a slot that no list holds.  (Only in CollisionSpec.)
Collide(s) ==
  /\ recv.pc = "recvfrom"
  /\ s \in known
  /\ po' = [po EXCEPT ![s] = podel(@, recv.slot)]
  /\ bp' = bpfree(bp, recv.slot)
  /\ packet' = [packet EXCEPT ![recv.slot] = Blank]
  /\ RecvDone
  /\ UNCHANGED <<pktlen, app, sources, network, history>>

\* SSRC_KNOWN, up to the second look at done_seek: after a seek the tracking
\* restarts at this packet; then rtp_update_seq.
Track ==
  /\ recv.pc = "known"
  /\ LET s   == recv.src
         seq == packet[recv.slot].seq
         st  == IF done_seek[s] THEN SeekReset(stats[s], seq) ELSE stats[s]
     IN  /\ stats' = [stats EXCEPT ![s] = rtp_update_seq(st, seq)]
         /\ active' = active \cup (IF Restarts(st, seq) THEN {s} ELSE {})
         /\ recv' = [recv EXCEPT !.pc = "seekdone", !.reset = done_seek[s]]
  /\ UNCHANGED <<known, done_seek, app, pool, network, history>>

\* The second look at done_seek clears it.
SeekDone ==
  /\ recv.pc = "seekdone"
  /\ done_seek' = [done_seek EXCEPT ![recv.src] = FALSE]
  /\ recv' = [recv EXCEPT !.pc = "poadd", !.reset = FALSE]
  /\ UNCHANGED <<stats, known, active, app, pool, network, history>>

\* poadd; a duplicate is about to be freed.
Add ==
  /\ recv.pc = "poadd"
  /\ LET s == recv.src
         r == poadd(po[s], recv.slot, HeaderSeq, stats[s].cycles)
     IN  /\ po' = [po EXCEPT ![s] = r.po]
         /\ RecvTo(IF r.ret = PKT_DUPLICATED THEN "bpfree" ELSE "pktlen")
  /\ UNCHANGED <<bp, packet, pktlen, app, sources, network, history>>

\* The length of the packet is stored after the packet is linked.
SetLength ==
  /\ recv.pc = "pktlen"
  /\ pktlen' = [pktlen EXCEPT ![recv.slot] = packet[recv.slot].ext]
  /\ RecvDone
  /\ UNCHANGED <<bp, packet, po, app, sources, network, history>>

\* Mutant: the slot is not given back.
FreeForgets ==
  /\ recv.pc = "bpfree"
  /\ RecvDone
  /\ UNCHANGED <<app, pool, sources, network, history>>

\* bpfree of a packet that was not linked.
Free ==
  /\ recv.pc = "bpfree"
  /\ bp' = bpfree(bp, recv.slot)
  /\ packet' = [packet EXCEPT ![recv.slot] = Blank]
  /\ RecvDone
  /\ UNCHANGED <<po, pktlen, app, sources, network, history>>

Receiver ==
  \/ Get \/ GetWaits \/ RecvError \/ BadHeader \/ Track \/ SeekDone \/ Add
  \/ SetLength \/ Free
  \/ \E s \in Sources : \E e \in Deliverable(s) : RecvFrom(s, e)

-----------------------------------------------------------------------------

Wake(pc) == IF pc = "waiting" THEN "woken" ELSE pc    \* signal of cond_full

\* Mutant: the last packet of the list is not parsed.
FillTwo(s) ==
  /\ app.pc = "idle"
  /\ s \in active
  /\ ~done_seek[s] /\ po[s].potail # po[s].pohead
  /\ app' = [app EXCEPT !.pc = "get", !.src = s]
  /\ UNCHANGED <<recv, pool, sources, network, history>>

\* rtp_fill_buffer: nothing to do after a seek, or while the list is empty;
\* otherwise call the parser.
Fill(s) ==
  /\ app.pc = "idle"
  /\ s \in active
  /\ ~done_seek[s] /\ po[s].potail # Nil
  /\ app' = [app EXCEPT !.pc = "get", !.src = s]
  /\ UNCHANGED <<recv, pool, sources, network, history>>

\* rtp_get_pkt in the parser: potail is read under po_mutex.
GetPkt ==
  /\ app.pc = "get"
  /\ app' = IF po[app.src].potail = Nil
            THEN [app EXCEPT !.pc = "idle", !.src = None]
            ELSE [app EXCEPT !.pc = "pointer", !.index = po[app.src].potail]
  /\ UNCHANGED <<recv, pool, sources, network, history>>

\* rtp_get_pkt returns the length and a pointer into the pool.
TakePointer ==
  /\ app.pc = "pointer"
  /\ app' = [app EXCEPT !.pc = "use", !.moved = bp.moved, !.len = pktlen[app.index]]
  /\ UNCHANGED <<recv, pool, sources, network, history>>

\* The parser copies the payload through the pointer.
UsePacket ==
  /\ app.pc = "use"
  /\ app' = [app EXCEPT !.pc = "rm", !.used = packet[app.index].ext]
  /\ UNCHANGED <<recv, pool, sources, network, history>>

\* Mutant: the newest packet is removed.
ReadHead ==
  /\ app.pc = "rm"
  /\ app' = [app EXCEPT !.pc = "bprmv", !.index = po[app.src].pohead]
  /\ UNCHANGED <<recv, pool, sources, network, history>>

\* rtp_rm_pkt evaluates potail again, without the lock.
ReadTail ==
  /\ app.pc = "rm"
  /\ app' = [app EXCEPT !.pc = "bprmv", !.index = po[app.src].potail]
  /\ UNCHANGED <<recv, pool, sources, network, history>>

\* bprmv, under both mutexes; the parser asks for another packet (EAGAIN) or
\* has a frame.
RmPkt ==
  /\ app.pc = "bprmv"
  /\ po' = [po EXCEPT ![app.src] = podel(@, app.index)]
  /\ bp' = bpfree(bp, app.index)
  /\ packet' = [packet EXCEPT ![app.index] = Blank]
  /\ recv' = [recv EXCEPT !.pc = Wake(@)]
  /\ \E pc \in {"idle", "get"} :
       app' = [app EXCEPT !.pc = pc, !.index = Nil, !.moved = 0, !.len = 0,
                          !.used = 0, !.src = IF pc = "idle" THEN None ELSE @]
  /\ played' = [played EXCEPT ![app.src] = packet[app.index].ext]
  /\ UNCHANGED <<pktlen, leaked, sources, network>>

(***************************************************************************)
(* The application thread: the part of rtsp_seek between the answer to     *)
(* PAUSE and the call of rtsp_play.                                        *)
(***************************************************************************)
StartSeek ==
  /\ app.pc = "idle"
  /\ plays < MaxSeeks
  /\ app' = [app EXCEPT !.pc = "seek", !.toclear = active]
  /\ UNCHANGED <<recv, pool, sources, network, history>>

MarkSeek(s) ==
  /\ app.pc = "seek"
  /\ s \in app.toclear
  /\ done_seek' = [done_seek EXCEPT ![s] = TRUE]
  /\ app' = [app EXCEPT !.pc = "rmall", !.src = s]
  /\ UNCHANGED <<stats, known, active, recv, pool, network, history>>

\* rtp_rm_all_pkts, under both mutexes.  The slots are not blanked.
RemoveAllPkts ==
  /\ app.pc = "rmall"
  /\ Ends(po[app.src].prev, po[app.src].potail)
  /\ LET r == RemoveAll(bp, po[app.src])
     IN  bp' = r.bp /\ po' = [po EXCEPT ![app.src] = r.po]
  /\ recv' = [recv EXCEPT !.pc = Wake(@)]
  /\ app' = [app EXCEPT !.pc = "seek", !.src = None, !.toclear = @ \ {app.src}]
  /\ UNCHANGED <<packet, pktlen, sources, network, history>>

\* rtsp_play after the lists are empty: the server sends from the new place,
\* its numbers going on.
Play ==
  /\ app.pc = "seek" /\ app.toclear = {}
  /\ app' = [app EXCEPT !.pc = "idle"]
  /\ plays' = plays + 1
  /\ UNCHANGED <<recv, sent, pool, sources, history>>

Player ==
  \/ GetPkt \/ TakePointer \/ UsePacket \/ ReadTail \/ RmPkt
  \/ StartSeek \/ RemoveAllPkts \/ Play
  \/ \E s \in Sources : Fill(s) \/ MarkSeek(s)

Next == Receiver \/ Player

Spec == Init /\ [][Next]_vars

\* The session when other hosts use the SSRCs of its sources.
CollisionSpec == Init /\ [][Next \/ \E s \in Sources : Collide(s)]_vars

\* The two threads keep running; a select that never returns and an
\* application that never plays are left out of the fair behaviours.
FairSpec == Spec /\ WF_vars(Receiver) /\ WF_vars(Player)

-----------------------------------------------------------------------------
(***************************************************************************)
(* Properties.                                                             *)
(***************************************************************************)
\* Everything has its type (bounds of the positions included).
TypeOK ==
  /\ bp \in [freelist : [Slot -> Link], flhead : Link, flcount : 0 .. BP_MAX_SIZE,
             size : 1 .. BP_MAX_SIZE, moved : 0 .. BP_MAX_SIZE]
  /\ packet \in [Slot -> [src : Sources \cup {None}, ext : 0 .. MaxExt, seq : SeqNum,
                         era : 0 .. MaxSeeks]]
  /\ po \in [Sources -> [pohead : Link, potail : Link, pocount : Int, cycles : Nat,
                         prev : [Slot -> Link], next : [Slot -> Link]]]
  /\ pktlen \in [Slot -> 0 .. MaxExt]
  /\ stats \in [Sources -> Stats]
  /\ active \subseteq known /\ known \subseteq Sources
  /\ done_seek \in [Sources -> BOOLEAN]
  /\ recv \in [pc : {"select", "waiting", "woken", "recvfrom", "known", "seekdone",
                    "poadd", "pktlen", "bpfree"},
               slot : Link, src : Sources \cup {None}, reset : BOOLEAN]
  /\ app \in [pc : {"idle", "get", "pointer", "use", "rm", "bprmv", "seek", "rmall"},
              src : Sources \cup {None}, index : Link, moved : 0 .. BP_MAX_SIZE,
              len : 0 .. MaxExt, used : 0 .. MaxExt, toclear : SUBSET Sources]
  /\ sent \in [Sources -> Nat] /\ plays \in 0 .. MaxSeeks
  /\ played \in [Sources -> 0 .. MaxExt]
  /\ leaked \subseteq Slot

\* The slot the RTP thread has taken and not yet linked.
Held == IF recv.slot = Nil \/ recv.pc = "pktlen" THEN {} ELSE {recv.slot}

\* No slot is lost, freed twice or linked while free: the free list, the
\* playout lists, the slot in the RTP thread's hands and the slots forgotten by
\* a failed recvfrom (rtp_recv.c:242) share the pool out, and flcount counts
\* the slots in use.
SlotPartition ==
  LET linked == UNION {Linked(po[s]) : s \in Sources}
  IN  /\ FreeSlots(bp) \cup Held \cup leaked \cup linked = 0 .. bp.size - 1
      /\ FreeSlots(bp) \cap (Held \cup leaked \cup linked) = {}
      /\ Held \cap (leaked \cup linked) = {}
      /\ leaked \cap linked = {}
      /\ \A s, t \in Sources : s # t => Linked(po[s]) \cap Linked(po[t]) = {}
      /\ bp.flcount = bp.size - Cardinality(FreeSlots(bp))

\* Every playout list is a list: its two directions agree, it ends, and
\* pocount is its length, whatever was inserted and removed (poadd, bprmv,
\* rtp_rm_all_pkts).
SoundLists == \A s \in Sources : SoundList(po[s])

\* The playout list is sorted by the order in which the source sent the
\* packets, through wraps of the header number (bufferpool.h:105).
SortedLists ==
  \A s \in Sources :
    LET list == Oldest(po[s])
    IN  \A i, j \in DOMAIN list : i < j => packet[list[i]].ext < packet[list[j]].ext

\* "pocount: List members count" (bufferpool.h:114).
CountsMembers == \A s \in Sources : po[s].pocount = Cardinality(Linked(po[s]))

\* "The pointer returned is the memory space of the slot inside buffer pool",
\* read without a lock "because we suppose that there is only one reader"
\* (rtp_buffer.c:241-247): while the parser reads through it, the pool is where
\* it was.  (Fails when the RTP thread enlarges the pool, PlayoutGrows.)
PointerStable == app.pc = "use" => app.moved = bp.moved

\* "Once the packet is decoded it must be removed from rtp queue"
\* (rtp_buffer.c:243): what rtp_rm_pkt is about to remove is the packet the
\* parser used, although it looks potail up again.  (Fails when a late packet
\* is linked behind it, PlayoutStolen.)
RemovesWhatItUsed == app.pc = "bprmv" => packet[app.index].ext = app.used

\* The length rtp_get_pkt returns is that of the packet it returns
\* (rtp_buffer.c:250), although rtp_recv stores it after linking the packet.
LengthIsOfPacket == app.pc = "rm" => app.len = app.used

\* When rtp_recv clears done_seek ("Seek reset performed", rtp_recv.c:310) it
\* has reset the tracking of the source.
SeekClearedByReset ==
  [][\A s \in Sources : done_seek[s] /\ ~done_seek'[s] => recv.reset]_vars

\* After a seek the application waits "for seek reset and bufferpool clean up"
\* (rtp_buffer.c:75): what it plays was sent after the seek.
PlaysAfterSeek == [][app.pc = "use" /\ app'.pc = "rm" => packet[app.index].era = plays]_vars

\* The threads give the application a queue: packets leave it in the order they
\* were sent, and no slot is in two places (the abstract specification).
Queue ==
  INSTANCE PlayoutQueue WITH
    Slots  <- Slot,
    Keys   <- 0 .. MaxExt,
    unused <- bp.size .. BP_MAX_SIZE - 1,
    free   <- FreeSlots(bp),
    held   <- Held,
    queue  <- [s \in Sources |-> {[slot |-> i, key |-> packet[i].ext] : i \in Linked(po[s])}],
    last   <- played,
    lost   <- leaked

ImplementsQueue == Queue!Spec

\* Playing never goes back to a packet older than one that was played: rtp_get_pkt
\* and rtp_rm_pkt each look potail up (rtp_buffer.c:262, 289) while rtp_recv links
\* packets, and neither knows what the other saw.
PlayedInOrder == [][\A s \in Sources : played'[s] >= played[s]]_vars

\* The RTP thread is not left waiting for a slot: the application empties the
\* list and its bprmv signals cond_full (bprmv.c:65).
WaitEnds == recv.pc = "waiting" ~> recv.pc # "waiting"

\* Everything a playable source has received is played in the end (unless a
\* seek drops it and nothing is sent after it).
AllPlayed ==
  \A s \in Sources : s \in active /\ po[s].potail # Nil ~> po[s].potail = Nil \/ done_seek[s]
=============================================================================
