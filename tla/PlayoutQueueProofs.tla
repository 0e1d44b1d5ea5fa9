------------------------- MODULE PlayoutQueueProofs -------------------------
(***************************************************************************)
(* Proofs about PlayoutQueue, for every number of slots and sources. The   *)
(* promises of the queue are one invariant, and each operation on the pool *)
(* or a list has a lemma that says it keeps them.                          *)
(***************************************************************************)
EXTENDS PlayoutQueue, TLAPS

\* What the pool and the lists promise between two operations.
Promises == TypeOK /\ OnePlace /\ NoneVanishes /\ Ordered

\* The numbers packets are ordered by.
LEMMA KeysAreNumbers ==
  ASSUME KeysAssumption, TypeOK, NEW s \in Sources
  PROVE  last[s] \in Nat /\ \A p \in queue[s] : p.key \in Nat
<1>1. last[s] \in Keys /\ queue[s] \in SUBSET [slot : Slots, key : Keys]
  BY DEF TypeOK, Packet
<1>2. \A p \in queue[s] : p.key \in Keys
  BY <1>1
<1>3. QED
  BY <1>1, <1>2 DEF KeysAssumption

\* An operation that leaves the lists alone leaves their order alone.
LEMMA OrderStays ==
  ASSUME Ordered, UNCHANGED <<queue, last>>
  PROVE  Ordered'
BY DEF Ordered

LEMMA InitPromises ==
  ASSUME KeysAssumption, Init
  PROVE  Promises
<1>1. TypeOK
  BY DEF KeysAssumption, Init, TypeOK
<1>2. OnePlace /\ NoneVanishes /\ Ordered
  BY DEF Init, OnePlace, NoneVanishes, Unqueued, Ordered
<1>3. QED
  BY <1>1, <1>2 DEF Promises

\* A slot goes to the RTP thread.
LEMMA TakeKeepsPromises ==
  ASSUME Promises, NEW x \in Slots, Take(x)
  PROVE  Promises'
<1>1. TypeOK /\ OnePlace /\ NoneVanishes /\ Ordered
  BY DEF Promises
<1> USE DEF Take
<1>2. TypeOK'
  BY <1>1 DEF TypeOK
<1>3. OnePlace'
  BY <1>1 DEF TypeOK, OnePlace, Unqueued
<1>4. NoneVanishes'
  BY <1>1 DEF TypeOK, NoneVanishes, Unqueued
<1>5. QED
  BY <1>1, <1>2, <1>3, <1>4, OrderStays DEF Promises

\* It comes back unused.
LEMMA DiscardKeepsPromises ==
  ASSUME Promises, NEW x \in Slots, Discard(x)
  PROVE  Promises'
<1>1. TypeOK /\ OnePlace /\ NoneVanishes /\ Ordered
  BY DEF Promises
<1> USE DEF Discard
<1>2. TypeOK'
  BY <1>1 DEF TypeOK
<1>3. OnePlace'
  BY <1>1 DEF TypeOK, OnePlace, Unqueued
<1>4. NoneVanishes'
  BY <1>1 DEF TypeOK, NoneVanishes, Unqueued
<1>5. QED
  BY <1>1, <1>2, <1>3, <1>4, OrderStays DEF Promises

\* It is forgotten, and accounted for as lost.
LEMMA LoseKeepsPromises ==
  ASSUME Promises, NEW x \in Slots, Lose(x)
  PROVE  Promises'
<1>1. TypeOK /\ OnePlace /\ NoneVanishes /\ Ordered
  BY DEF Promises
<1> USE DEF Lose
<1>2. TypeOK'
  BY <1>1 DEF TypeOK
<1>3. OnePlace'
  BY <1>1 DEF TypeOK, OnePlace, Unqueued
<1>4. NoneVanishes'
  BY <1>1 DEF TypeOK, NoneVanishes, Unqueued
<1>5. QED
  BY <1>1, <1>2, <1>3, <1>4, OrderStays DEF Promises

\* Its packet joins a list, newer than the others.
LEMMA EnqueueKeepsPromises ==
  ASSUME KeysAssumption, Promises,
         NEW s \in Sources, NEW x \in Slots, NEW key \in Keys,
         ComesInOrder(s, key), Enqueue(s, x, key)
  PROVE  Promises'
<1> DEFINE new == [slot |-> x, key |-> key]
<1>1. TypeOK /\ OnePlace /\ NoneVanishes /\ Ordered
  BY DEF Promises
<1>2. TypeOK'
  BY <1>1 DEF Enqueue, TypeOK, Packet
<1>3. OnePlace'
  BY <1>1 DEF Enqueue, TypeOK, OnePlace, Unqueued
<1>4. NoneVanishes'
  <2>1. new \in queue'[s] /\ new.slot = x /\ \A t \in Sources : queue[t] \subseteq queue'[t]
    BY <1>1 DEF Enqueue, TypeOK
  <2>2. UNCHANGED <<unused, free, lost>> /\ held' = held \ {x}
    BY DEF Enqueue
  <2>3. ASSUME NEW y \in Slots
        PROVE  y \in unused' \cup free' \cup held' \cup lost' \/ ~Unqueued(y)'
    <3>1. y = x => ~Unqueued(y)'
      BY <2>1 DEF Unqueued
    <3>2. ~Unqueued(y) => ~Unqueued(y)'
      BY <2>1 DEF Unqueued
    <3>3. QED
      BY <1>1, <2>2, <3>1, <3>2 DEF NoneVanishes
  <2>4. QED
    BY <2>3 DEF NoneVanishes
<1>5. Ordered'
  BY <1>1 DEF KeysAssumption, ComesInOrder, Enqueue, TypeOK, Packet, Ordered
<1>6. QED
  BY <1>2, <1>3, <1>4, <1>5 DEF Promises

\* The oldest packet of a list is played and its slot is free again.
LEMMA DequeueKeepsPromises ==
  ASSUME KeysAssumption, Promises, NEW s \in Sources, NEW p \in queue[s], Dequeue(s, p)
  PROVE  Promises'
<1>1. TypeOK /\ OnePlace /\ NoneVanishes /\ Ordered
  BY DEF Promises
<1> USE DEF Dequeue
<1>2. TypeOK'
  BY <1>1 DEF TypeOK, Packet
<1>3. OnePlace'
  BY <1>1 DEF TypeOK, Packet, OnePlace, Unqueued
<1>4. NoneVanishes'
  BY <1>1 DEF TypeOK, NoneVanishes, Unqueued
<1>5. Ordered'
  BY <1>1 DEF KeysAssumption, TypeOK, Packet, Ordered
<1>6. QED
  BY <1>2, <1>3, <1>4, <1>5 DEF Promises

\* A seek frees all slots of a list.
LEMMA ClearKeepsPromises ==
  ASSUME Promises, NEW s \in Sources, Clear(s)
  PROVE  Promises'
<1>1. TypeOK /\ OnePlace /\ NoneVanishes /\ Ordered
  BY DEF Promises
<1> USE DEF Clear
<1>2. TypeOK'
  BY <1>1 DEF TypeOK, Packet, SlotsOf
<1>3. OnePlace'
  BY <1>1 DEF TypeOK, Packet, OnePlace, Unqueued, SlotsOf
<1>4. NoneVanishes'
  BY <1>1 DEF TypeOK, NoneVanishes, Unqueued, SlotsOf
<1>5. Ordered'
  BY <1>1 DEF TypeOK, Ordered
<1>6. QED
  BY <1>2, <1>3, <1>4, <1>5 DEF Promises

LEMMA NextPromises ==
  ASSUME KeysAssumption
  PROVE  Promises /\ [Next]_vars => Promises'
<1>1. Promises /\ Next => Promises'
  BY TakeKeepsPromises, DiscardKeepsPromises, LoseKeepsPromises, EnqueueKeepsPromises,
     DequeueKeepsPromises, ClearKeepsPromises DEF Next
<1>2. Promises /\ UNCHANGED vars => Promises'
  BY DEF vars, Promises, TypeOK, OnePlace, NoneVanishes, Unqueued, Ordered
<1>3. QED
  BY <1>1, <1>2

LEMMA PromisesKept ==
  ASSUME KeysAssumption
  PROVE  Spec => []Promises
BY InitPromises, NextPromises, PTL DEF Spec
-----------------------------------------------------------------------------
\* Every variable keeps its type in every behaviour of the queue.
THEOREM TypeCorrect ==
  ASSUME KeysAssumption
  PROVE  Spec => []TypeOK
<1>1. Promises => TypeOK
  BY DEF Promises
<1>2. QED
  BY <1>1, PromisesKept, PTL

\* Every slot is in exactly one place at any time: free, with the RTP thread, lost,
\* or in one queue. None is handed out twice, freed while a queue holds its packet, or
\* queued twice, and none drops out of the accounts of the pool.
THEOREM SlotsAccounted ==
  ASSUME KeysAssumption
  PROVE  Spec => []OnePlaceEach
<1>1. Promises => OnePlaceEach
  BY DEF Promises, OnePlaceEach
<1>2. QED
  BY <1>1, PromisesKept, PTL

\* What was played last of a source changes only to the number of a packet in its list.
LEMMA PlaysTheQueued ==
  ASSUME TypeOK, [Next]_vars, NEW s \in Sources
  PROVE  last'[s] = last[s] \/ \E p \in queue[s] : last'[s] = p.key
<1>1. ASSUME NEW t \in Sources, NEW p \in queue[t], Dequeue(t, p)
      PROVE  last'[s] = IF s = t THEN p.key ELSE last[s]
  BY <1>1 DEF Dequeue, TypeOK
<1>2. last' = last \/ \E t \in Sources : \E p \in queue[t] : Dequeue(t, p)
  BY DEF Next, Take, Discard, Lose, Clear, Enqueue, vars
<1>3. QED
  BY <1>1, <1>2

\* The application never plays a packet older than one it has played.
THEOREM NeverGoesBack ==
  ASSUME KeysAssumption
  PROVE  Spec => PlayedInOrder
<1>1. ASSUME Promises, [Next]_vars, NEW s \in Sources
      PROVE  last'[s] >= last[s]
  <2>1. TypeOK /\ \A p \in queue[s] : last[s] <= p.key
    BY <1>1 DEF Promises, Ordered
  <2>2. last'[s] = last[s] \/ \E p \in queue[s] : last'[s] = p.key
    BY <1>1, <2>1, PlaysTheQueued
  <2>3. QED
    BY <2>1, <2>2, KeysAreNumbers
<1>2. Promises /\ [Next]_vars => [\A s \in Sources : last'[s] >= last[s]]_vars
  BY <1>1
<1>3. QED
  BY <1>2, PromisesKept, PTL DEF Spec, PlayedInOrder
=============================================================================
