---------------------------- MODULE PlayoutQueue ----------------------------
(***************************************************************************)
(* What the buffer pool and the playout lists promise the two threads that *)
(* use them: every slot is in one place at a time, and the packets of a    *)
(* source leave its queue in the order in which the source numbered them,  *)
(* if the network does not reorder them (ComesInOrder).  PlayoutBuffer,    *)
(* with such a network, implements it.                                     *)
(***************************************************************************)
EXTENDS Integers, FiniteSets

CONSTANTS
  Slots,     \* slots the pool may ever have
  Sources,   \* sources with a queue
  Keys       \* the numbers packets are ordered by

\* The packets of a queue are ordered by natural numbers.
KeysAssumption == Keys \subseteq Nat /\ 0 \in Keys

VARIABLES
  unused,    \* slots the pool does not have yet
  free,      \* slots of the pool that hold nothing
  held,      \* slots being filled by the RTP thread
  queue,     \* queued packets of each source: records [slot, key]
  last,      \* key of the packet last removed from each queue
  lost       \* slots that will never be free again

vars == <<unused, free, held, queue, last, lost>>

Packet == [slot : Slots, key : Keys]

\* The slots of a set of packets.
SlotsOf(q) == {p.slot : p \in q}

Init ==
  /\ free \in SUBSET Slots
  /\ unused = Slots \ free
  /\ held = {} /\ lost = {}
  /\ queue = [s \in Sources |-> {}]
  /\ last = [s \in Sources |-> 0]

\* A slot is taken for the next packet, the pool growing if need be.
Take(x) ==
  /\ \E grown \in SUBSET unused :
       /\ x \in free \cup grown
       /\ free' = (free \cup grown) \ {x}
       /\ unused' = unused \ grown
  /\ held' = held \cup {x}
  /\ UNCHANGED <<queue, last, lost>>

\* The packet in x joins the queue of s, among the others where its number
\* belongs; a number that is queued already is refused.
Enqueue(s, x, key) ==
  /\ x \in held
  /\ \A p \in queue[s] : p.key # key
  /\ queue' = [queue EXCEPT ![s] = @ \cup {[slot |-> x, key |-> key]}]
  /\ held' = held \ {x}
  /\ UNCHANGED <<unused, free, last, lost>>

\* The packet in x is not wanted.
Discard(x) ==
  /\ x \in held
  /\ held' = held \ {x}
  /\ free' = free \cup {x}
  /\ UNCHANGED <<unused, queue, last, lost>>

\* The slot x is forgotten.
Lose(x) ==
  /\ x \in held
  /\ held' = held \ {x}
  /\ lost' = lost \cup {x}
  /\ UNCHANGED <<unused, free, queue, last>>

\* The oldest packet of s has been played.
Dequeue(s, p) ==
  /\ p \in queue[s]
  /\ \A r \in queue[s] : p.key <= r.key
  /\ queue' = [queue EXCEPT ![s] = @ \ {p}]
  /\ free' = free \cup {p.slot}
  /\ last' = [last EXCEPT ![s] = p.key]
  /\ UNCHANGED <<unused, held, lost>>

\* The queue of s is emptied (a seek).
Clear(s) ==
  /\ queue' = [queue EXCEPT ![s] = {}]
  /\ free' = free \cup SlotsOf(queue[s])
  /\ UNCHANGED <<unused, held, last, lost>>

\* The assumption on the network: no packet overtakes another one.
ComesInOrder(s, key) ==
  /\ key >= last[s]
  /\ \A p \in queue[s] : p.key < key

Next ==
  \/ \E x \in Slots : Take(x) \/ Discard(x) \/ Lose(x)
  \/ \E s \in Sources :
       \/ Clear(s)
       \/ \E p \in queue[s] : Dequeue(s, p)
       \/ \E x \in Slots : \E key \in Keys : ComesInOrder(s, key) /\ Enqueue(s, x, key)

Spec == Init /\ [][Next]_vars
-----------------------------------------------------------------------------
(***************************************************************************)
(* Properties.                                                             *)
(***************************************************************************)
\* Everything has its type.
TypeOK ==
  /\ unused \subseteq Slots /\ free \subseteq Slots
  /\ held \subseteq Slots /\ lost \subseteq Slots
  /\ queue \in [Sources -> SUBSET Packet]
  /\ last \in [Sources -> Keys]

\* x is outside every queue.
Unqueued(x) == \A s \in Sources : \A p \in queue[s] : p.slot # x

\* A slot is in one place: not yet in the pool, free, being filled, lost, or
\* holding one packet of one queue.  (The pool hands no slot to two packets,
\* bpget.c:81, and frees none that is queued, bprmv.c:60.)
OnePlace ==
  /\ unused \cap (free \cup held \cup lost) = {}
  /\ free \cap (held \cup lost) = {}
  /\ held \cap lost = {}
  /\ \A x \in unused \cup free \cup held \cup lost : Unqueued(x)
  /\ \A s, t \in Sources : \A p \in queue[s], r \in queue[t] :
       p.slot = r.slot => s = t /\ p = r

\* No slot vanishes: it can be taken, is in use, or is known to be lost.
NoneVanishes ==
  \A x \in Slots : x \in unused \cup free \cup held \cup lost \/ ~Unqueued(x)

\* Every slot is in exactly one place.
OnePlaceEach == OnePlace /\ NoneVanishes

\* Nothing queued is older than what has been played, and no two packets of
\* a queue have the same number.
Ordered ==
  \A s \in Sources :
    /\ \A p \in queue[s] : last[s] <= p.key
    /\ \A p, r \in queue[s] : p.key = r.key => p = r

\* Playing never goes back (rtp_get_pkt and rtp_rm_pkt work at the tail).
PlayedInOrder == [][\A s \in Sources : last'[s] >= last[s]]_vars
=============================================================================
