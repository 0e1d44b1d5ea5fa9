---------------------------- MODULE PlayoutList ----------------------------
(***************************************************************************)
(* The bufferpool library: the pool of fixed-size slots that holds the     *)
(* received RTP packets (free list threaded through an index vector), and  *)
(* the playout list that links the slots of one source (doubly linked by   *)
(* indices; the head is the packet with the highest sequence number, the   *)
(* tail the one to be played next).  -1 delimits both lists.               *)
(*                                                                         *)
(* Each operator is the critical section of the function it is named for,  *)
(* as a function from a pool or a list to its new value; the threads that  *)
(* run them are in PlayoutBuffer.                                          *)
(***************************************************************************)
EXTENDS Integers, SequencesExt

CONSTANTS
  BP_SLOT_NUM,   \* slots of a new pool, and slots added when it is enlarged
  BP_MAX_SIZE    \* slots of the largest pool

ASSUME PoolAssumption ==
  /\ BP_SLOT_NUM \in Nat \ {0}
  /\ BP_MAX_SIZE \in Nat \ {0}
  /\ BP_MAX_SIZE % BP_SLOT_NUM = 0

Slot == 0 .. BP_MAX_SIZE - 1
Nil  == -1
Link == Slot \cup {Nil}

PKT_DUPLICATED == 1
PKT_MISORDERED == 2

(***************************************************************************)
(* Walking a list: the indices from start along next, at most one per slot.*)
(***************************************************************************)
Nth(next, start) ==
  LET w[k \in 0 .. BP_MAX_SIZE] ==
        IF k = 0 THEN start ELSE IF w[k - 1] = Nil THEN Nil ELSE next[w[k - 1]]
  IN  w

Reach(next, start) == {Nth(next, start)[k] : k \in 0 .. BP_MAX_SIZE} \ {Nil}

Ends(next, start) == Nth(next, start)[BP_MAX_SIZE] = Nil

Walk(next, start) ==
  LET w == Nth(next, start)
      n == Cardinality({k \in 0 .. BP_MAX_SIZE : w[k] # Nil})
  IN  [k \in 1 .. n |-> w[k - 1]]

-----------------------------------------------------------------------------
(***************************************************************************)
(* buffer_pool.  moved counts the reallocations of the slot memory: a      *)
(* pointer into the pool is good only while the count it was taken at is   *)
(* current.                                                                *)
(***************************************************************************)
\* Free entries old .. new-1 threaded in order, as bpinit and bpenlarge do.
Threaded(freelist, old, new) ==
  [i \in Slot |-> IF i \in old .. new - 2 THEN i + 1
                  ELSE IF i = new - 1 THEN Nil ELSE freelist[i]]

bpinit ==
  [freelist |-> Threaded([i \in Slot |-> Nil], 0, BP_SLOT_NUM),
   flhead |-> 0, flcount |-> 0, size |-> BP_SLOT_NUM, moved |-> 0]

CanEnlarge(bp) == bp.size < BP_MAX_SIZE

bpenlarge(bp) ==
  [bp EXCEPT !.size = @ + BP_SLOT_NUM,
             !.freelist = Threaded(@, bp.size, bp.size + BP_SLOT_NUM),
             !.flhead = bp.size,
             !.moved = @ + 1]

\* bpget once the free list is not empty; the slot returned is bp.flhead.
Pop(bp) == [bp EXCEPT !.flhead = bp.freelist[bp.flhead], !.flcount = @ + 1]

\* bpfree, and the second half of bprmv.
bpfree(bp, index) ==
  [bp EXCEPT !.freelist[index] = bp.flhead, !.flhead = index, !.flcount = @ - 1]

FreeSlots(bp) == Reach(bp.freelist, bp.flhead)

-----------------------------------------------------------------------------
(***************************************************************************)
(* playout_buff.  len stands for poitem.pktlen.                            *)
(***************************************************************************)
poinit ==
  [pohead |-> Nil, potail |-> Nil, pocount |-> 0, cycles |-> 0,
   prev |-> [i \in Slot |-> 0], next |-> [i \in Slot |-> 0]]

\* A store through an index; one through -1 falls outside the vector.
Store(f, i, x) == IF i = Nil THEN f ELSE [f EXCEPT ![i] = x]

\* Mutant: the tail is not moved when it is removed.
podelKeepsTail(po, index) ==
  LET n == po.next[index]
      p == po.prev[index]
  IN  [po EXCEPT !.prev    = Store(@, n, p),
                 !.next    = Store(@, p, n),
                 !.pohead  = IF p = Nil THEN n ELSE @,
                 !.pocount = @ - 1]

\* The list part of bprmv (podel): unlink index, wherever it claims to be.
podel(po, index) ==
  LET n == po.next[index]
      p == po.prev[index]
  IN  [po EXCEPT !.prev    = Store(@, n, p),
                 !.next    = Store(@, p, n),
                 !.potail  = IF n = Nil THEN p ELSE @,
                 !.pohead  = IF p = Nil THEN n ELSE @,
                 !.pocount = @ - 1]

\* Where the scan of poadd stops: the first index from the head whose number
\* is not above cseq, every stored number read with the list's own cycles.
ScanStop(po, seq, cseq) ==
  LET w == Nth(po.next, po.pohead)
      stops == {k \in 0 .. BP_MAX_SIZE : w[k] = Nil \/ seq[w[k]] + po.cycles <= cseq}
  IN  IF stops = {} THEN Nil ELSE w[CHOOSE k \in stops : \A j \in stops : k <= j]

AddAtHead(po, index, cycles) ==
  [po EXCEPT !.next[index] = po.pohead,
             !.prev = Store([@ EXCEPT ![index] = Nil], po.pohead, index),
             !.pohead = index,
             !.potail = IF po.pohead = Nil THEN index ELSE @,
             !.cycles = cycles,
             !.pocount = @ + 1]

\* Links index after i, which is the tail if the scan found nothing.
AddAfter(po, index, stop) ==
  LET i == IF stop = Nil THEN po.potail ELSE stop
      prev1 == IF stop = Nil THEN po.prev ELSE Store(po.prev, po.next[i], index)
  IN  [po EXCEPT !.potail = IF stop = Nil THEN index ELSE @,
                 !.next = [@ EXCEPT ![index] = po.next[i], ![i] = index],
                 !.prev = [prev1 EXCEPT ![index] = i],
                 !.pocount = @ + 1]

\* Mutant: a duplicate is linked again.
poaddAgain(po, index, seq, cycles) ==
  LET i == ScanStop(po, seq, seq[index] + cycles)
  IN  IF i = po.pohead
      THEN [ret |-> 0, po |-> AddAtHead(po, index, cycles)]
      ELSE [ret |-> PKT_MISORDERED, po |-> AddAfter(po, index, i)]

\* The result code of poadd and the list it leaves; seq[i] is the sequence
\* number in the packet of slot i.
poadd(po, index, seq, cycles) ==
  LET cseq == seq[index] + cycles
      i    == ScanStop(po, seq, cseq)
  IN  IF i # Nil /\ cseq = seq[i] + po.cycles
      THEN [ret |-> PKT_DUPLICATED, po |-> po]
      ELSE IF i = po.pohead
           THEN [ret |-> 0, po |-> AddAtHead(po, index, cycles)]
           ELSE [ret |-> PKT_MISORDERED, po |-> AddAfter(po, index, i)]

\* The slots of the list as the reader meets them, oldest first.
Oldest(po) == Walk(po.prev, po.potail)
Linked(po) == Reach(po.prev, po.potail)

(***************************************************************************)
(* The loop of rtp_rm_all_pkts: unlink and free the tail until there is    *)
(* none.                                                                   *)
(***************************************************************************)
RemoveAll(bp, po) ==
  LET list == Oldest(po)
      done[k \in 0 .. Len(list)] ==
        IF k = 0 THEN [bp |-> bp, po |-> po]
        ELSE [bp |-> bpfree(done[k - 1].bp, list[k]), po |-> podel(done[k - 1].po, list[k])]
  IN  done[Len(list)]

(***************************************************************************)
(* A list is sound when its two directions agree, it ends at both ends and *)
(* its count is right.                                                     *)
(***************************************************************************)
SoundList(po) ==
  /\ Ends(po.prev, po.potail) /\ Ends(po.next, po.pohead)
  /\ Walk(po.next, po.pohead) = Reverse(Walk(po.prev, po.potail))
  /\ po.pocount = Len(Walk(po.prev, po.potail))
=============================================================================
