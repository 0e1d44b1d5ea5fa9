------------------------ MODULE PlayoutBufferProofs ------------------------
(***************************************************************************)
(* Proofs about PlayoutBuffer, for every size of the pool, every number of *)
(* sources and packets, and every interleaving of the two threads:         *)
(*   - the list operations of PlayoutList, on chains of slots,             *)
(*   - the inductive invariant, and the safety properties from it,         *)
(*   - that every step is one of PlayoutQueue, or none.                    *)
(* They hold of streams the tracking follows (Tame).                       *)
(***************************************************************************)
EXTENDS PlayoutBuffer, NaturalExtrema, FiniteSetTheorems, TLAPS

(***************************************************************************)
(* Streams for which poadd links every packet at the head of its list or   *)
(* refuses it: no packet comes late, and either the numbers do not wrap,   *)
(* or every packet arrives, at least once, there are no seeks and the      *)
(* first wrap is not within the probation.                                 *)
(***************************************************************************)
Unwrapped == MaxExt < RTP_SEQ_MOD

Complete ==
  /\ "loss" \notin Faults /\ MaxSeeks = 0
  /\ MIN_SEQUENTIAL = 2 /\ HeaderNo(FirstExt) # RTP_SEQ_MOD - 1

Tame == "late" \notin Faults /\ (Unwrapped \/ Complete)

-----------------------------------------------------------------------------
(***************************************************************************)
(* Chains: q is the sequence of the slots from start along f.              *)
(***************************************************************************)
Chain(f, start, q) ==
  /\ q \in Seq(Slot)
  /\ \A i, j \in 1 .. Len(q) : q[i] = q[j] => i = j
  /\ start = IF q = <<>> THEN Nil ELSE q[1]
  /\ \A i \in 1 .. Len(q) : f[q[i]] = IF i < Len(q) THEN q[i + 1] ELSE Nil

\* q is the playout list, from the tail to the head.
PoList(list, q) ==
  /\ Chain(list.prev, list.potail, q)
  /\ Chain(list.next, list.pohead, Reverse(q))
  /\ list.pocount = Len(q)

LEMMA Constants ==
  /\ BP_SLOT_NUM \in Nat \ {0} /\ BP_MAX_SIZE \in Nat \ {0}
  /\ Nil = -1 /\ Nil \notin Slot /\ Slot = 0 .. BP_MAX_SIZE - 1 /\ Link = Slot \cup {Nil}
BY PoolAssumption DEF PoolAssumption, Nil, Slot, Link

LEMMA ChainType ==
  ASSUME NEW f, NEW start, NEW q, Chain(f, start, q)
  PROVE  /\ Len(q) \in Nat /\ q \in [1 .. Len(q) -> Slot]
         /\ q = <<>> <=> Len(q) = 0
         /\ Range(q) = {q[i] : i \in 1 .. Len(q)}
         /\ start \in Link /\ (start = Nil <=> Len(q) = 0)
         /\ \A i \in 1 .. Len(q) : q[i] \in Slot /\ q[i] # Nil
<1>1. Len(q) \in Nat /\ q \in [1 .. Len(q) -> Slot] /\ (q = <<>> <=> Len(q) = 0)
  BY DEF Chain
<1>2. \A i \in 1 .. Len(q) : q[i] \in Slot /\ q[i] # Nil
  BY <1>1, Constants
<1>3. Range(q) = {q[i] : i \in 1 .. Len(q)}
  BY <1>1 DEF Range
<1>4. start = IF Len(q) = 0 THEN Nil ELSE q[1]
  BY <1>1 DEF Chain
<1>5. QED
  BY <1>1, <1>2, <1>3, <1>4, Constants

\* A chain has at most as many slots as there are.
LEMMA ChainLength ==
  ASSUME NEW f, NEW start, NEW q, Chain(f, start, q)
  PROVE  Len(q) \in 0 .. BP_MAX_SIZE
<1>1. Len(q) \in Nat /\ q \in [1 .. Len(q) -> Slot]
  BY ChainType
<1>2. IsFiniteSet(Slot) /\ Cardinality(Slot) = BP_MAX_SIZE
  BY Constants, FS_Interval
<1>3. IsFiniteSet(1 .. Len(q)) /\ Cardinality(1 .. Len(q)) = Len(q)
  BY <1>1, FS_Interval
<1>4. ~(Cardinality(Slot) < Cardinality(1 .. Len(q)))
  BY <1>1, <1>2, <1>3, FS_PigeonHole DEF Chain
<1>5. QED
  BY <1>1, <1>2, <1>3, <1>4, Constants

\* What defines the function Nth(f, start).
NthIs(f, start, w) ==
  w = [k \in 0 .. BP_MAX_SIZE |->
        IF k = 0 THEN start ELSE IF w[k - 1] = Nil THEN Nil ELSE f[w[k - 1]]]

\* Walking a chain meets its slots in their order, then Nil.
LEMMA ChainNth ==
  ASSUME NEW f, NEW start, NEW q, Chain(f, start, q)
  PROVE  Nth(f, start) = [k \in 0 .. BP_MAX_SIZE |-> IF k < Len(q) THEN q[k + 1] ELSE Nil]
<1> DEFINE g == [k \in 0 .. BP_MAX_SIZE |-> IF k < Len(q) THEN q[k + 1] ELSE Nil]
           w == CHOOSE v : NthIs(f, start, v)
<1>0. BP_MAX_SIZE \in Nat /\ Len(q) \in Nat /\ q \in [1 .. Len(q) -> Slot]
  BY Constants, ChainType
<1>1. NthIs(f, start, g)
  <2> SUFFICES ASSUME NEW k \in 0 .. BP_MAX_SIZE
               PROVE  g[k] = IF k = 0 THEN start ELSE IF g[k - 1] = Nil THEN Nil ELSE f[g[k - 1]]
    BY DEF NthIs
  <2>1. CASE k = 0
    BY <1>0, <2>1 DEF Chain
  <2>2. CASE k > 0
    <3>1. k - 1 \in 0 .. BP_MAX_SIZE /\ g[k - 1] = IF k - 1 < Len(q) THEN q[k] ELSE Nil
      BY <1>0, <2>2
    <3>2. \A i \in 1 .. Len(q) : q[i] # Nil
      BY <1>0, ChainType
    <3>3. CASE k - 1 < Len(q)
      BY <1>0, <2>2, <3>1, <3>2, <3>3 DEF Chain
    <3>4. CASE ~(k - 1 < Len(q))
      BY <1>0, <2>2, <3>1, <3>4
    <3>5. QED
      BY <3>3, <3>4
  <2>3. QED
    BY <1>0, <2>1, <2>2
<1>2. NthIs(f, start, w)
  BY <1>1
<1>3. \A k \in 0 .. BP_MAX_SIZE : w[k] = IF k = 0 THEN start ELSE IF w[k - 1] = Nil THEN Nil ELSE f[w[k - 1]]
  BY <1>2 DEF NthIs
<1>4. ASSUME NEW k \in 0 .. BP_MAX_SIZE, w[k] # g[k] PROVE FALSE
  <2> DEFINE T == {j \in 0 .. BP_MAX_SIZE : w[j] # g[j]}
  <2>1. PICK j \in T : \A i \in T : j <= i
    <3> HIDE DEF w, g
    <3>1. T # {} /\ T \subseteq Nat
      BY <1>4
    <3>2. QED
      BY <3>1, LeastExists
  <2> HIDE DEF w, g
  <2>2. j # 0
    BY <1>1, <1>3, <2>1 DEF NthIs
  <2>3. j - 1 \in 0 .. BP_MAX_SIZE /\ w[j - 1] = g[j - 1]
    BY <1>0, <2>1, <2>2
  <2>4. QED
    BY <1>1, <1>3, <2>1, <2>2, <2>3 DEF NthIs
<1>5. w = g
  <2>1. w = [k \in 0 .. BP_MAX_SIZE |-> w[k]]
    BY <1>2 DEF NthIs
  <2> HIDE DEF w
  <2>2. QED
    BY <1>4, <2>1
<1>6. Nth(f, start) = w
  BY DEF Nth, NthIs
<1>7. QED
  BY <1>5, <1>6

\* A chain is what the operators that walk it find.
LEMMA ChainWalk ==
  ASSUME NEW f, NEW start, NEW q, Chain(f, start, q)
  PROVE  Walk(f, start) = q /\ Reach(f, start) = Range(q) /\ Ends(f, start)
<1> DEFINE w == Nth(f, start)
<1>1. Len(q) \in 0 .. BP_MAX_SIZE /\ BP_MAX_SIZE \in Nat /\ q \in [1 .. Len(q) -> Slot]
  BY ChainLength, ChainType, Constants
<1>2. \A k \in 0 .. BP_MAX_SIZE : w[k] = IF k < Len(q) THEN q[k + 1] ELSE Nil
  <2>1. w = [k \in 0 .. BP_MAX_SIZE |-> IF k < Len(q) THEN q[k + 1] ELSE Nil]
    BY ChainNth
  <2> HIDE DEF w
  <2>2. QED
    BY <2>1
<1>3. \A i \in 1 .. Len(q) : q[i] # Nil
  BY ChainType
<1> HIDE DEF w
<1>4. Ends(f, start)
  BY <1>1, <1>2 DEF Ends, w
<1>5. Reach(f, start) = Range(q)
  <2>1. \A x : x \in Reach(f, start) <=> \E k \in 0 .. BP_MAX_SIZE : x = w[k] /\ x # Nil
    BY DEF Reach, w
  <2>2. \A x : x \in Range(q) <=> \E i \in 1 .. Len(q) : x = q[i]
    BY <1>1, ChainType
  <2>3. ASSUME NEW k \in 0 .. BP_MAX_SIZE, w[k] # Nil PROVE \E i \in 1 .. Len(q) : w[k] = q[i]
    <3>1. k < Len(q) /\ w[k] = q[k + 1] /\ k + 1 \in 1 .. Len(q)
      BY <1>1, <1>2, <2>3
    <3>2. QED
      BY <3>1
  <2>4. ASSUME NEW i \in 1 .. Len(q) PROVE \E k \in 0 .. BP_MAX_SIZE : q[i] = w[k] /\ q[i] # Nil
    <3>1. i - 1 \in 0 .. BP_MAX_SIZE /\ w[i - 1] = q[i]
      BY <1>1, <1>2
    <3>2. QED
      BY <1>3, <3>1
  <2>5. \A x : x \in Reach(f, start) <=> x \in Range(q)
    <3> TAKE x
    <3>1. x \in Reach(f, start) => x \in Range(q)
      BY <2>1, <2>2, <2>3
    <3>2. x \in Range(q) => x \in Reach(f, start)
      BY <2>1, <2>2, <2>4
    <3>3. QED
      BY <3>1, <3>2
  <2>6. QED
    BY <2>5
<1>6. Walk(f, start) = q
  <2>1. {k \in 0 .. BP_MAX_SIZE : w[k] # Nil} = 0 .. Len(q) - 1
    <3>1. \A k \in 0 .. BP_MAX_SIZE : w[k] # Nil <=> k < Len(q)
      <4> TAKE k \in 0 .. BP_MAX_SIZE
      <4>1. CASE k < Len(q)
        <5>1. k + 1 \in 1 .. Len(q) /\ w[k] = q[k + 1]
          BY <1>1, <1>2, <4>1
        <5>2. QED
          BY <1>3, <4>1, <5>1
      <4>2. CASE ~(k < Len(q))
        BY <1>2, <4>2
      <4>3. QED
        BY <4>1, <4>2
    <3>2. \A k : k \in 0 .. Len(q) - 1 <=> k \in 0 .. BP_MAX_SIZE /\ k < Len(q)
      BY <1>1
    <3>3. QED
      BY <3>1, <3>2
  <2>2. Cardinality({k \in 0 .. BP_MAX_SIZE : w[k] # Nil}) = Len(q)
    <3>1. Len(q) \in Int /\ 0 \in Int /\ Len(q) - 1 \in Int
      BY <1>1
    <3>2. Cardinality(0 .. Len(q) - 1) = IF 0 > Len(q) - 1 THEN 0 ELSE Len(q) - 1 - 0 + 1
      BY <3>1, FS_Interval
    <3>3. Cardinality(0 .. Len(q) - 1) = Len(q)
      BY <1>1, <3>2
    <3>4. QED
      BY <2>1, <3>3
  <2>3. Walk(f, start) = [k \in 1 .. Len(q) |-> w[k - 1]]
    BY <2>2 DEF Walk, w
  <2>4. \A k \in 1 .. Len(q) : w[k - 1] = q[k]
    <3> TAKE k \in 1 .. Len(q)
    <3>1. k - 1 \in 0 .. BP_MAX_SIZE /\ k - 1 < Len(q) /\ (k - 1) + 1 = k
      BY <1>1
    <3>2. QED
      BY <1>2, <3>1
  <2>5. QED
    BY <1>1, <2>3, <2>4
<1>7. QED
  BY <1>4, <1>5, <1>6

\* There is one chain from a place, so the operators find one in what is one.
LEMMA ChainUnique ==
  ASSUME NEW f, NEW start, NEW q, Chain(f, start, q)
  PROVE  Chain(f, start, Walk(f, start))
BY ChainWalk

\* A chain is changed by no store outside it.
LEMMA ChainKept ==
  ASSUME NEW f, NEW start, NEW q, Chain(f, start, q), NEW g,
         \A x \in Range(q) : g[x] = f[x]
  PROVE  Chain(g, start, q)
<1>1. \A i \in 1 .. Len(q) : q[i] \in Range(q)
  BY ChainType
<1>2. QED
  BY <1>1 DEF Chain

\* The first slot is taken off a chain.
LEMMA ChainTail ==
  ASSUME NEW f, NEW start, NEW q, Chain(f, start, q), q # <<>>
  PROVE  /\ Chain(f, f[start], Tail(q)) /\ Len(Tail(q)) = Len(q) - 1
         /\ start \in Slot /\ start = q[1] /\ start \in Range(q)
         /\ Range(Tail(q)) = Range(q) \ {start}
         /\ \A i \in 1 .. Len(q) - 1 : Tail(q)[i] = q[i + 1]
<1> DEFINE t == Tail(q)
<1>1. /\ Len(q) \in Nat /\ q \in [1 .. Len(q) -> Slot] /\ Len(q) >= 1 /\ q \in Seq(Slot)
      /\ start = q[1] /\ start \in Slot /\ start \in Range(q)
      /\ Range(q) = {q[i] : i \in 1 .. Len(q)}
      /\ \A i, j \in 1 .. Len(q) : q[i] = q[j] => i = j
      /\ \A i \in 1 .. Len(q) : f[q[i]] = IF i < Len(q) THEN q[i + 1] ELSE Nil
  <2>1. Len(q) \in Nat /\ q \in [1 .. Len(q) -> Slot] /\ Range(q) = {q[i] : i \in 1 .. Len(q)} /\ Len(q) # 0
    BY ChainType
  <2>2. QED
    BY <2>1 DEF Chain
<1>2. t \in Seq(Slot) /\ Len(t) = Len(q) - 1 /\ \A i \in 1 .. Len(q) - 1 : t[i] = q[i + 1]
  BY <1>1
<1> HIDE DEF t
<1>3. Len(t) \in Nat /\ (t = <<>> <=> Len(t) = 0) /\ DOMAIN t = 1 .. Len(t)
  BY <1>1, <1>2
<1>4. \A i, j \in 1 .. Len(t) : t[i] = t[j] => i = j
  <2> SUFFICES ASSUME NEW i \in 1 .. Len(q) - 1, NEW j \in 1 .. Len(q) - 1, t[i] = t[j]
               PROVE  i = j
    BY <1>2
  <2>1. i + 1 \in 1 .. Len(q) /\ j + 1 \in 1 .. Len(q) /\ q[i + 1] = q[j + 1]
    <3>1. t[i] = q[i + 1] /\ t[j] = q[j + 1]
      BY <1>2
    <3>2. \A k \in 1 .. Len(q) - 1 : k + 1 \in 1 .. Len(q)
      BY <1>1
    <3>3. QED
      BY <3>1, <3>2
  <2>2. i + 1 = j + 1
    BY <1>1, <2>1
  <2>3. QED
    BY <2>2
<1>5. f[start] = IF t = <<>> THEN Nil ELSE t[1]
  BY <1>1, <1>2, <1>3
<1>6. \A i \in 1 .. Len(t) : f[t[i]] = IF i < Len(t) THEN t[i + 1] ELSE Nil
  <2> SUFFICES ASSUME NEW i \in 1 .. Len(q) - 1
               PROVE  f[t[i]] = IF i < Len(q) - 1 THEN t[i + 1] ELSE Nil
    BY <1>2
  <2>1. i + 1 \in 1 .. Len(q) /\ t[i] = q[i + 1]
    BY <1>1, <1>2
  <2>2. f[t[i]] = IF i + 1 < Len(q) THEN q[i + 1 + 1] ELSE Nil
    BY <1>1, <2>1
  <2>3. i < Len(q) - 1 => t[i + 1] = q[i + 1 + 1]
    <3>1. i < Len(q) - 1 => i + 1 \in 1 .. Len(q) - 1
      BY <1>1
    <3>2. QED
      BY <1>2, <3>1
  <2>4. QED
    BY <1>1, <1>2, <2>2, <2>3
<1>7. Range(t) = Range(q) \ {start}
  <2>1. ASSUME NEW x \in Range(t) PROVE x \in Range(q) \ {start}
    <3>1. PICK i \in 1 .. Len(t) : x = t[i]
      BY <1>3, <2>1 DEF Range
    <3>2. i + 1 \in 1 .. Len(q) /\ x = q[i + 1] /\ i + 1 # 1 /\ 1 \in 1 .. Len(q)
      BY <1>1, <1>2, <3>1
    <3>3. QED
      BY <1>1, <3>2
  <2>2. ASSUME NEW x \in Range(q) \ {start} PROVE x \in Range(t)
    <3>1. PICK i \in 1 .. Len(q) : x = q[i]
      BY <1>1, <2>2
    <3>2. i # 1
      BY <1>1, <2>2, <3>1
    <3>3. i - 1 \in 1 .. Len(t) /\ t[i - 1] = q[i]
      BY <1>1, <1>2, <3>2
    <3>4. QED
      BY <1>3, <3>1, <3>3 DEF Range
  <2>3. QED
    BY <2>1, <2>2
<1>8. Chain(f, f[start], t)
  BY <1>2, <1>4, <1>5, <1>6 DEF Chain
<1>9. QED
  BY <1>1, <1>2, <1>7, <1>8 DEF t

\* A slot is put before a chain.
LEMMA ChainPush ==
  ASSUME NEW f, NEW start, NEW q, Chain(f, start, q), NEW x \in Slot, x \notin Range(q),
         NEW g, g[x] = start, \A y \in Range(q) : g[y] = f[y]
  PROVE  \E r : Chain(g, x, r) /\ Len(r) = Len(q) + 1 /\ Range(r) = Range(q) \cup {x}
<1> DEFINE r == [i \in 1 .. Len(q) + 1 |-> IF i = 1 THEN x ELSE q[i - 1]]
<1>1. /\ Len(q) \in Nat /\ q \in [1 .. Len(q) -> Slot] /\ Range(q) = {q[i] : i \in 1 .. Len(q)}
      /\ start = IF Len(q) = 0 THEN Nil ELSE q[1]
      /\ \A i, j \in 1 .. Len(q) : q[i] = q[j] => i = j
      /\ \A i \in 1 .. Len(q) : f[q[i]] = IF i < Len(q) THEN q[i + 1] ELSE Nil
  <2>1. Len(q) \in Nat /\ q \in [1 .. Len(q) -> Slot] /\ Range(q) = {q[i] : i \in 1 .. Len(q)} /\ (q = <<>> <=> Len(q) = 0)
    BY ChainType
  <2>2. QED
    BY <2>1 DEF Chain
<1>2. \A i \in 1 .. Len(q) + 1 : i # 1 => i - 1 \in 1 .. Len(q)
  BY <1>1
<1>3. r \in Seq(Slot) /\ Len(r) = Len(q) + 1
  <2>1. r \in [1 .. Len(q) + 1 -> Slot]
    BY <1>1, <1>2
  <2>2. QED
    BY <1>1, <2>1
<1>4. /\ \A i \in 1 .. Len(q) + 1 : r[i] = IF i = 1 THEN x ELSE q[i - 1]
      /\ DOMAIN r = 1 .. Len(q) + 1
  OBVIOUS
<1> HIDE DEF r
<1>5. \A i, j \in 1 .. Len(r) : r[i] = r[j] => i = j
  <2> SUFFICES ASSUME NEW i \in 1 .. Len(q) + 1, NEW j \in 1 .. Len(q) + 1, r[i] = r[j]
               PROVE  i = j
    BY <1>3
  <2>1. CASE i = 1 \/ j = 1
    BY <1>1, <1>2, <1>4, <2>1
  <2>2. CASE i # 1 /\ j # 1
    <3>1. i - 1 \in 1 .. Len(q) /\ j - 1 \in 1 .. Len(q) /\ q[i - 1] = q[j - 1]
      BY <1>2, <1>4, <2>2
    <3>2. i - 1 = j - 1
      BY <1>1, <3>1
    <3>3. QED
      BY <3>2
  <2>3. QED
    BY <2>1, <2>2
<1>6. r # <<>> /\ r[1] = x
  BY <1>1, <1>3, <1>4
<1>7. \A i \in 1 .. Len(r) : g[r[i]] = IF i < Len(r) THEN r[i + 1] ELSE Nil
  <2> SUFFICES ASSUME NEW i \in 1 .. Len(q) + 1
               PROVE  g[r[i]] = IF i < Len(q) + 1 THEN r[i + 1] ELSE Nil
    BY <1>3
  <2>1. CASE i = 1
    <3>1. g[r[i]] = start
      BY <1>4, <2>1
    <3>2. Len(q) # 0 => r[i + 1] = q[1]
      BY <1>1, <1>4, <2>1
    <3>3. QED
      BY <1>1, <2>1, <3>1, <3>2
  <2>2. CASE i # 1
    <3>1. i - 1 \in 1 .. Len(q) /\ r[i] = q[i - 1] /\ q[i - 1] \in Range(q)
      BY <1>1, <1>2, <1>4, <2>2
    <3>2. g[r[i]] = IF i - 1 < Len(q) THEN q[i - 1 + 1] ELSE Nil
      BY <1>1, <3>1
    <3>3. i < Len(q) + 1 => r[i + 1] = q[i - 1 + 1]
      BY <1>1, <1>4, <3>1
    <3>4. QED
      BY <1>1, <3>2, <3>3
  <2>3. QED
    BY <2>1, <2>2
<1>8. Range(r) = Range(q) \cup {x}
  <2>1. ASSUME NEW y \in Range(r) PROVE y \in Range(q) \cup {x}
    <3>1. PICK i \in 1 .. Len(q) + 1 : y = r[i]
      BY <1>4, <2>1 DEF Range
    <3>2. QED
      BY <1>1, <1>2, <1>4, <3>1
  <2>2. ASSUME NEW y \in Range(q) \cup {x} PROVE y \in Range(r)
    <3>1. CASE y = x
      BY <1>1, <1>4, <3>1 DEF Range
    <3>2. CASE y \in Range(q)
      <4>1. PICK i \in 1 .. Len(q) : y = q[i]
        BY <1>1, <3>2
      <4>2. i + 1 \in 1 .. Len(q) + 1 /\ r[i + 1] = q[i]
        BY <1>1, <1>4
      <4>3. QED
        BY <1>4, <4>1, <4>2 DEF Range
    <3>3. QED
      BY <2>2, <3>1, <3>2
  <2>3. QED
    BY <2>1, <2>2
<1>9. Chain(g, x, r)
  BY <1>3, <1>5, <1>6, <1>7 DEF Chain
<1>10. QED
  BY <1>3, <1>8, <1>9

PoType == [pohead : Link, potail : Link, pocount : Int, cycles : Nat,
           prev : [Slot -> Link], next : [Slot -> Link]]

LEMMA ReverseFacts ==
  ASSUME NEW q \in Seq(Slot)
  PROVE  /\ Len(q) \in Nat /\ Reverse(q) \in Seq(Slot) /\ Len(Reverse(q)) = Len(q)
         /\ \A i \in 1 .. Len(q) : Reverse(q)[i] = q[(Len(q) - i) + 1]
<1>1. Len(q) \in Nat /\ q \in [1 .. Len(q) -> Slot]
  OBVIOUS
<1>2. \A i \in 1 .. Len(q) : (Len(q) - i) + 1 \in 1 .. Len(q)
  BY <1>1
<1>3. Reverse(q) \in [1 .. Len(q) -> Slot]
  BY <1>1, <1>2 DEF Reverse
<1>4. QED
  BY <1>1, <1>3 DEF Reverse

\* The two directions of a playout list, slot by slot.
LEMMA PoListFacts ==
  ASSUME NEW list, NEW q, PoList(list, q)
  PROVE  /\ Oldest(list) = q /\ Linked(list) = Range(q)
         /\ list.pocount = Len(q) /\ Chain(list.prev, list.potail, q)
         /\ list.pohead = IF Len(q) = 0 THEN Nil ELSE q[Len(q)]
         /\ \A i \in 1 .. Len(q) : list.next[q[i]] = IF i = 1 THEN Nil ELSE q[i - 1]
<1> DEFINE r == Reverse(q)
<1>1. /\ Chain(list.prev, list.potail, q) /\ Chain(list.next, list.pohead, r) /\ list.pocount = Len(q)
  BY DEF PoList
<1>2. q \in Seq(Slot) /\ (q = <<>> <=> Len(q) = 0)
  BY <1>1, ChainType DEF Chain
<1>3. /\ Len(q) \in Nat /\ Len(r) = Len(q)
      /\ \A i \in 1 .. Len(q) : r[i] = q[(Len(q) - i) + 1]
  BY <1>2, ReverseFacts
<1> HIDE DEF r
<1>4. Oldest(list) = q /\ Linked(list) = Range(q)
  BY <1>1, ChainWalk DEF Oldest, Linked
<1>5. list.pohead = IF Len(r) = 0 THEN Nil ELSE r[1]
  BY <1>1, ChainType DEF Chain
<1>6. list.pohead = IF Len(q) = 0 THEN Nil ELSE q[Len(q)]
  <2>1. Len(q) # 0 => r[1] = q[(Len(q) - 1) + 1] /\ (Len(q) - 1) + 1 = Len(q)
    BY <1>3
  <2>2. QED
    BY <1>3, <1>5, <2>1
<1>7. ASSUME NEW i \in 1 .. Len(q)
      PROVE  list.next[q[i]] = IF i = 1 THEN Nil ELSE q[i - 1]
  <2> DEFINE j == (Len(q) - i) + 1
  <2>1. j \in 1 .. Len(q) /\ (Len(q) - j) + 1 = i /\ r[j] = q[i] /\ (j < Len(q) <=> i # 1)
    BY <1>3
  <2>2. i # 1 => j + 1 \in 1 .. Len(q) /\ (Len(q) - (j + 1)) + 1 = i - 1
    BY <1>3
  <2> HIDE DEF j
  <2>3. list.next[r[j]] = IF j < Len(r) THEN r[j + 1] ELSE Nil
    BY <1>1, <1>3, <2>1 DEF Chain
  <2>4. i # 1 => r[j + 1] = q[i - 1]
    BY <1>3, <2>2
  <2>5. QED
    BY <1>3, <2>1, <2>3, <2>4
<1>8. QED
  BY <1>1, <1>4, <1>6, <1>7

LEMMA PoListIntro ==
  ASSUME NEW list, NEW q, Chain(list.prev, list.potail, q), list.pocount = Len(q),
         list.pohead = (IF Len(q) = 0 THEN Nil ELSE q[Len(q)]),
         \A i \in 1 .. Len(q) : list.next[q[i]] = IF i = 1 THEN Nil ELSE q[i - 1]
  PROVE  PoList(list, q)
<1> DEFINE r == Reverse(q)
<1>1. /\ q \in Seq(Slot) /\ (q = <<>> <=> Len(q) = 0)
      /\ \A i, j \in 1 .. Len(q) : q[i] = q[j] => i = j
  BY ChainType DEF Chain
<1>2. /\ Len(q) \in Nat /\ Len(r) = Len(q) /\ r \in Seq(Slot)
      /\ \A i \in 1 .. Len(q) : r[i] = q[(Len(q) - i) + 1]
  BY <1>1, ReverseFacts
<1>3. \A i \in 1 .. Len(q) : (Len(q) - i) + 1 \in 1 .. Len(q)
  BY <1>2
<1> HIDE DEF r
<1>4. \A i, j \in 1 .. Len(r) : r[i] = r[j] => i = j
  <2> SUFFICES ASSUME NEW i \in 1 .. Len(q), NEW j \in 1 .. Len(q), r[i] = r[j]
               PROVE  i = j
    BY <1>2
  <2>1. (Len(q) - i) + 1 = (Len(q) - j) + 1
    <3> DEFINE a == (Len(q) - i) + 1
               b == (Len(q) - j) + 1
    <3>1. a \in 1 .. Len(q) /\ b \in 1 .. Len(q) /\ r[i] = q[a] /\ r[j] = q[b]
      BY <1>2, <1>3
    <3> HIDE DEF a, b
    <3>2. q[a] = q[b] /\ a \in 1 .. Len(q) /\ b \in 1 .. Len(q)
      BY <3>1
    <3>3. PICK k \in 1 .. Len(q), l \in 1 .. Len(q) : k = a /\ l = b
      BY <3>2
    <3>4. k = l
      BY <1>1, <3>2, <3>3
    <3>5. a = b
      BY <3>3, <3>4
    <3>6. QED
      BY <3>5 DEF a, b
  <2>2. PICK n \in Nat : n = Len(q)
    BY <1>2
  <2>3. (n - i) + 1 = (n - j) + 1 /\ i \in Int /\ j \in Int
    BY <2>1, <2>2
  <2>4. QED
    BY <2>2, <2>3
<1>5. list.pohead = IF r = <<>> THEN Nil ELSE r[1]
  <2>1. Len(q) # 0 => r[1] = q[(Len(q) - 1) + 1] /\ (Len(q) - 1) + 1 = Len(q)
    BY <1>2
  <2>2. r = <<>> <=> Len(q) = 0
    BY <1>2
  <2>3. QED
    BY <2>1, <2>2
<1>6. \A i \in 1 .. Len(r) : list.next[r[i]] = IF i < Len(r) THEN r[i + 1] ELSE Nil
  <2> SUFFICES ASSUME NEW i \in 1 .. Len(q)
               PROVE  list.next[r[i]] = IF i < Len(q) THEN r[i + 1] ELSE Nil
    BY <1>2
  <2> DEFINE j == (Len(q) - i) + 1
  <2>1. j \in 1 .. Len(q) /\ r[i] = q[j] /\ (j # 1 <=> i < Len(q))
    BY <1>2
  <2>2. i < Len(q) => i + 1 \in 1 .. Len(q) /\ (Len(q) - (i + 1)) + 1 = j - 1
    BY <1>2
  <2> HIDE DEF j
  <2>3. i < Len(q) => r[i + 1] = q[j - 1]
    BY <1>2, <2>2
  <2>4. QED
    BY <2>1, <2>3
<1>7. Chain(list.next, list.pohead, r)
  BY <1>2, <1>4, <1>5, <1>6 DEF Chain
<1>8. QED
  BY <1>7 DEF PoList, r

\* A playout list is sound (SoundList).
LEMMA PoListSound ==
  ASSUME NEW list, NEW q, PoList(list, q)
  PROVE  SoundList(list)
BY ChainWalk DEF PoList, SoundList

LEMMA EmptyPoList == PoList(poinit, <<>>) /\ poinit \in PoType
<1>1. poinit \in PoType
  <2>1. 0 \in Slot
    BY Constants
  <2>2. QED
    BY <2>1, Constants DEF poinit, PoType
<1>2. <<>> \in Seq(Slot) /\ Len(<<>>) = 0
  OBVIOUS
<1>3. Chain(poinit.prev, poinit.potail, <<>>)
  BY <1>2 DEF Chain, poinit
<1>4. poinit.pocount = 0 /\ poinit.pohead = Nil
  BY DEF poinit
<1>5. QED
  BY <1>1, <1>2, <1>3, <1>4, PoListIntro

\* bprmv on the tail.
LEMMA RemoveTail ==
  ASSUME NEW list \in PoType, NEW q, PoList(list, q), q # <<>>
  PROVE  LET l == podel(list, list.potail)
         IN  /\ PoList(l, Tail(q)) /\ l \in PoType /\ l.cycles = list.cycles
             /\ Len(q) > 1 => l.pohead = list.pohead
             /\ Len(q) = 1 => l.pohead = Nil
<1> DEFINE x == list.potail
           p == list.prev[x]
           l == podel(list, x)
           t == Tail(q)
<1>0. PICK n \in Nat : n = Len(q) /\ n >= 1
  <2>1. Len(q) \in Nat /\ Len(q) # 0
    BY PoListFacts, ChainType
  <2>2. PICK n \in Nat : n = Len(q)
    BY <2>1
  <2>3. n >= 1
    BY <2>1, <2>2
  <2>4. QED
    BY <2>2, <2>3
<1>1. /\ Chain(list.prev, x, q) /\ list.pocount = n
      /\ list.pohead = q[n]
      /\ \A i \in 1 .. n : list.next[q[i]] = IF i = 1 THEN Nil ELSE q[i - 1]
  <2>1. /\ Chain(list.prev, x, q) /\ list.pocount = n
        /\ list.pohead = IF n = 0 THEN Nil ELSE q[n]
        /\ \A i \in 1 .. n : list.next[q[i]] = IF i = 1 THEN Nil ELSE q[i - 1]
    BY <1>0, PoListFacts
  <2>2. n # 0
    BY <1>0
  <2>3. QED
    BY <2>1, <2>2
<1>2. /\ \A i \in 1 .. n : q[i] \in Slot /\ q[i] # Nil
      /\ \A i, j \in 1 .. n : q[i] = q[j] => i = j
  <2>1. \A i \in 1 .. Len(q) : q[i] \in Slot /\ q[i] # Nil
    BY <1>1, ChainType
  <2>2. \A i, j \in 1 .. Len(q) : q[i] = q[j] => i = j
    BY <1>1 DEF Chain
  <2>3. QED
    BY <1>0, <2>1, <2>2
<1>3. /\ Chain(list.prev, p, t) /\ Len(t) = n - 1 /\ x \in Slot /\ x = q[1]
      /\ \A i \in 1 .. n - 1 : t[i] = q[i + 1]
  BY <1>0, <1>1, ChainTail
<1>4. p = IF n = 1 THEN Nil ELSE q[2]
  <2> HIDE DEF p
  <2>1. p = IF 1 < n THEN q[1 + 1] ELSE Nil
    BY <1>0, <1>1, <1>3 DEF Chain, p
  <2>2. 1 < n <=> n # 1
    BY <1>0
  <2>3. QED
    BY <2>1, <2>2
<1>5. list.next[x] = Nil
  BY <1>0, <1>1, <1>3
<1>6. p \in Link /\ (p # Nil => p \in Slot)
  BY <1>3, Constants DEF PoType
<1>7. l = [list EXCEPT !.next = Store(@, p, Nil), !.potail = p,
                       !.pohead = IF p = Nil THEN Nil ELSE @, !.pocount = @ - 1]
  BY <1>5 DEF podel, Store, PoType
<1> HIDE DEF l, t, p, x
<1>8. Store(list.next, p, Nil) \in [Slot -> Link]
  BY <1>6, Constants DEF Store, PoType
<1>9. /\ l.prev = list.prev /\ l.potail = p /\ l.cycles = list.cycles /\ l.pocount = n - 1
      /\ l.next = Store(list.next, p, Nil)
      /\ l.pohead = IF p = Nil THEN Nil ELSE list.pohead
      /\ l \in PoType
  <2> DEFINE y == Store(list.next, p, Nil)
             h == IF p = Nil THEN Nil ELSE list.pohead
             c == n - 1
  <2>1. l = [list EXCEPT !.next = y, !.potail = p, !.pohead = h, !.pocount = c]
    BY <1>1, <1>7 DEF PoType
  <2>2. y \in [Slot -> Link] /\ h \in Link /\ c \in Int
    BY <1>0, <1>8, Constants DEF PoType
  <2> HIDE DEF y, h, c
  <2>3. /\ l.prev = list.prev /\ l.potail = p /\ l.cycles = list.cycles /\ l.pocount = c
        /\ l.next = y /\ l.pohead = h /\ l \in PoType
    BY <1>6, <2>1, <2>2 DEF PoType
  <2>4. QED
    BY <2>3 DEF y, h, c
<1>10. l.pohead = IF Len(t) = 0 THEN Nil ELSE t[Len(t)]
  <2>1. CASE n = 1
    BY <1>3, <1>4, <1>9, <2>1
  <2>2. CASE n # 1
    <3>1. n - 1 \in 1 .. n - 1 /\ 2 \in 1 .. n /\ (n - 1) + 1 = n /\ n - 1 # 0
      BY <1>0, <2>2
    <3>2. p # Nil /\ t[n - 1] = q[n]
      BY <1>2, <1>3, <1>4, <2>2, <3>1
    <3>3. QED
      BY <1>1, <1>3, <1>9, <3>1, <3>2
  <2>3. QED
    BY <2>1, <2>2
<1>11. ASSUME NEW i \in 1 .. n - 1
       PROVE  l.next[t[i]] = IF i = 1 THEN Nil ELSE t[i - 1]
  <2>1. i + 1 \in 1 .. n /\ t[i] = q[i + 1] /\ n # 1 /\ 2 \in 1 .. n
    BY <1>0, <1>3
  <2>2. p = q[2] /\ p # Nil /\ p \in Slot
    BY <1>2, <1>4, <2>1
  <2>3. l.next = [list.next EXCEPT ![p] = Nil] /\ list.next \in [Slot -> Link]
    BY <1>9, <2>2 DEF Store, PoType
  <2>4. CASE i = 1
    BY <2>1, <2>2, <2>3, <2>4
  <2>5. CASE i # 1
    <3>1. q[i + 1] # p /\ q[i + 1] \in Slot
      <4>1. i + 1 # 2
        BY <1>0, <2>5
      <4>2. QED
        BY <1>2, <2>1, <2>2, <4>1
    <3>2. l.next[t[i]] = q[i + 1 - 1]
      <4>1. l.next[t[i]] = list.next[q[i + 1]]
        BY <2>1, <2>3, <3>1
      <4>2. i + 1 # 1
        BY <1>0
      <4>3. QED
        BY <1>1, <2>1, <4>1, <4>2
    <3>3. i - 1 \in 1 .. n - 1 /\ i + 1 - 1 = i - 1 + 1
      BY <1>0, <2>5
    <3>4. QED
      BY <1>3, <2>5, <3>2, <3>3
  <2>6. QED
    BY <2>4, <2>5
<1>12. l.pocount = Len(t)
  BY <1>3, <1>9
<1>13. Chain(l.prev, l.potail, t)
  BY <1>3, <1>9
<1>14. PoList(l, t)
  BY <1>3, <1>10, <1>11, <1>12, <1>13, PoListIntro
<1>15. (n > 1 => l.pohead = list.pohead) /\ (n = 1 => l.pohead = Nil)
  <2>1. n > 1 => n # 1 /\ 2 \in 1 .. n
    BY <1>0
  <2>2. QED
    BY <1>2, <1>4, <1>9, <2>1
<1>16. QED
  BY <1>0, <1>9, <1>14, <1>15 DEF l, t, x

\* poadd of a packet that is newer than all.
LEMMA AddHead ==
  ASSUME NEW list \in PoType, NEW q, PoList(list, q), NEW x \in Slot, x \notin Range(q), NEW c \in Nat
  PROVE  LET l == AddAtHead(list, x, c)
             r == Append(q, x)
         IN  /\ PoList(l, r) /\ l \in PoType /\ l.cycles = c /\ l.pohead = x
             /\ Len(r) = Len(q) + 1 /\ Range(r) = Range(q) \cup {x}
             /\ r[Len(q) + 1] = x /\ \A i \in 1 .. Len(q) : r[i] = q[i]
             /\ list.potail # Nil => l.potail = list.potail
<1> DEFINE l == AddAtHead(list, x, c)
           r == Append(q, x)
           h == list.pohead
<1>0. PICK n \in Nat : n = Len(q)
  BY PoListFacts, ChainType
<1>1. /\ list.pocount = n /\ h = (IF n = 0 THEN Nil ELSE q[n])
      /\ \A i \in 1 .. n : list.next[q[i]] = IF i = 1 THEN Nil ELSE q[i - 1]
      /\ list.potail = (IF n = 0 THEN Nil ELSE q[1])
      /\ \A i \in 1 .. n : list.prev[q[i]] = IF i < n THEN q[i + 1] ELSE Nil
      /\ \A i, j \in 1 .. n : q[i] = q[j] => i = j
      /\ \A i \in 1 .. n : q[i] \in Slot /\ q[i] # Nil /\ q[i] # x
      /\ q \in Seq(Slot) /\ Range(q) = {q[i] : i \in 1 .. n}
  <2>1. Chain(list.prev, list.potail, q)
    BY PoListFacts
  <2>2. /\ list.potail = (IF n = 0 THEN Nil ELSE q[1])
        /\ \A i \in 1 .. n : list.prev[q[i]] = IF i < n THEN q[i + 1] ELSE Nil
        /\ \A i, j \in 1 .. n : q[i] = q[j] => i = j
        /\ q \in Seq(Slot)
    BY <1>0, <2>1, ChainType DEF Chain
  <2>3. \A i \in 1 .. n : q[i] \in Slot /\ q[i] # Nil /\ q[i] # x
    BY <1>0, <2>1, ChainType
  <2>4. Range(q) = {q[i] : i \in 1 .. n}
    BY <1>0, <2>1, ChainType
  <2>5. /\ list.pocount = n /\ h = (IF n = 0 THEN Nil ELSE q[n])
        /\ \A i \in 1 .. n : list.next[q[i]] = IF i = 1 THEN Nil ELSE q[i - 1]
    BY <1>0, PoListFacts
  <2>6. QED
    BY <2>2, <2>3, <2>4, <2>5
<1>2. /\ r \in Seq(Slot) /\ Len(r) = n + 1 /\ r[n + 1] = x
      /\ \A i \in 1 .. n : r[i] = q[i]
  BY <1>0, <1>1
<1> HIDE DEF r
<1>3. h \in Link /\ h # x /\ (h # Nil <=> n # 0) /\ (h # Nil => h \in Slot /\ h = q[n])
  <2>1. n # 0 => n \in 1 .. n
    BY <1>0
  <2>2. QED
    BY <1>0, <1>1, <2>1, Constants
<1> DEFINE prev == Store([list.prev EXCEPT ![x] = Nil], h, x)
           next == [list.next EXCEPT ![x] = h]
<1>4. /\ prev \in [Slot -> Link] /\ prev[x] = Nil
      /\ \A y \in Slot \ {x} : prev[y] = IF y = h THEN x ELSE list.prev[y]
  <2>1. list.prev \in [Slot -> Link] /\ x \in Link /\ Nil \in Link
    BY Constants DEF PoType
  <2>2. CASE h = Nil
    BY <2>1, <2>2, Constants DEF Store
  <2>3. CASE h # Nil
    BY <1>3, <2>1, <2>3 DEF Store
  <2>4. QED
    BY <2>2, <2>3
<1>5. next \in [Slot -> Link] /\ next[x] = h /\ \A y \in Slot \ {x} : next[y] = list.next[y]
  BY <1>3 DEF PoType
<1>6. /\ l.prev = prev /\ l.next = next /\ l.pohead = x /\ l.cycles = c /\ l.pocount = n + 1
      /\ l.potail = (IF h = Nil THEN x ELSE list.potail)
      /\ l \in PoType
  <2> DEFINE t == IF h = Nil THEN x ELSE list.potail
             m == n + 1
  <2>1. l = [list EXCEPT !.next = next, !.prev = prev, !.pohead = x, !.potail = t, !.cycles = c, !.pocount = m]
    BY <1>1 DEF AddAtHead, PoType
  <2>2. t \in Link /\ m \in Int /\ x \in Link
    BY <1>0, Constants DEF PoType
  <2> HIDE DEF prev, next, t, m, l
  <2>3. /\ l.prev = prev /\ l.next = next /\ l.pohead = x /\ l.cycles = c /\ l.pocount = m
        /\ l.potail = t /\ l \in PoType
    BY <1>4, <1>5, <2>1, <2>2 DEF PoType
  <2>4. QED
    BY <2>3 DEF t, m
<1> HIDE DEF prev, next, l, h
<1>7. \A i \in 1 .. n + 1 : r[i] = IF i = n + 1 THEN x ELSE q[i]
  BY <1>0, <1>2
<1>8. \A i \in 1 .. n + 1 : i # n + 1 => i \in 1 .. n
  BY <1>0
<1>9. \A i, j \in 1 .. n + 1 : r[i] = r[j] => i = j
  <2> TAKE i, j \in 1 .. n + 1
  <2>1. CASE i = n + 1 \/ j = n + 1
    BY <1>1, <1>7, <1>8, <2>1
  <2>2. CASE i # n + 1 /\ j # n + 1
    BY <1>1, <1>7, <1>8, <2>2
  <2>3. QED
    BY <2>1, <2>2
<1>10. l.potail = r[1]
  <2>1. CASE n = 0
    <3>1. r[1] = x
      BY <1>2, <2>1
    <3>2. h = Nil
      BY <1>3, <2>1
    <3>3. l.potail = x
      BY <1>6, <3>2
    <3>4. QED
      BY <3>1, <3>3
  <2>2. CASE n # 0
    <3>1. 1 \in 1 .. n
      BY <1>0, <2>2
    <3>2. QED
      BY <1>1, <1>2, <1>3, <1>6, <2>2, <3>1
  <2>3. QED
    BY <2>1, <2>2
<1>11. ASSUME NEW i \in 1 .. n + 1
       PROVE  l.prev[r[i]] = IF i < n + 1 THEN r[i + 1] ELSE Nil
  <2>1. CASE i = n + 1
    BY <1>4, <1>6, <1>7, <2>1
  <2>2. CASE i # n + 1
    <3>1. i \in 1 .. n /\ r[i] = q[i] /\ q[i] \in Slot \ {x} /\ i < n + 1
      BY <1>0, <1>1, <1>7, <1>8, <2>2
    <3>2. CASE i = n
      <4>1. q[i] = h /\ r[i + 1] = x
        BY <1>2, <1>3, <3>1, <3>2
      <4>2. QED
        BY <1>4, <1>6, <3>1, <4>1
    <3>3. CASE i # n
      <4>1. i < n /\ n \in 1 .. n /\ i + 1 \in 1 .. n
        BY <1>0, <3>1, <3>3
      <4>2. q[i] # h
        BY <1>1, <1>3, <3>1, <3>3, <4>1
      <4>3. l.prev[r[i]] = q[i + 1]
        <5>1. l.prev[r[i]] = list.prev[q[i]]
          BY <1>4, <1>6, <3>1, <4>2
        <5>2. QED
          BY <1>1, <3>1, <4>1, <5>1
      <4>4. QED
        BY <1>2, <3>1, <4>1, <4>3
    <3>4. QED
      BY <3>2, <3>3
  <2>3. QED
    BY <2>1, <2>2
<1>12. ASSUME NEW i \in 1 .. n + 1
       PROVE  l.next[r[i]] = IF i = 1 THEN Nil ELSE r[i - 1]
  <2>1. CASE i = n + 1
    <3>1. l.next[r[i]] = h
      BY <1>5, <1>6, <1>7, <2>1
    <3>2. CASE n = 0
      BY <1>3, <2>1, <3>1, <3>2
    <3>3. CASE n # 0
      <4>1. i - 1 = n /\ n \in 1 .. n /\ i # 1
        BY <1>0, <2>1, <3>3
      <4>2. QED
        BY <1>2, <1>3, <3>1, <3>3, <4>1
    <3>4. QED
      BY <3>2, <3>3
  <2>2. CASE i # n + 1
    <3>1. i \in 1 .. n /\ r[i] = q[i] /\ q[i] \in Slot \ {x}
      BY <1>1, <1>7, <1>8, <2>2
    <3>2. l.next[r[i]] = IF i = 1 THEN Nil ELSE q[i - 1]
      <4>1. l.next[r[i]] = list.next[q[i]]
        BY <1>5, <1>6, <3>1
      <4>2. QED
        BY <1>1, <3>1, <4>1
    <3>3. i # 1 => i - 1 \in 1 .. n
      BY <1>0, <3>1
    <3>4. QED
      BY <1>2, <3>2, <3>3
  <2>3. QED
    BY <2>1, <2>2
<1>13. Chain(l.prev, l.potail, r)
  <2>1. r # <<>>
    <3>1. n + 1 # 0
      BY <1>0
    <3>2. QED
      BY <1>2, <3>1
  <2>2. QED
    BY <1>2, <1>9, <1>10, <1>11, <2>1 DEF Chain
<1>14. l.pohead = IF Len(r) = 0 THEN Nil ELSE r[Len(r)]
  <2>1. n + 1 # 0
    BY <1>0
  <2>2. QED
    BY <1>2, <1>6, <2>1
<1>15. PoList(l, r)
  BY <1>2, <1>6, <1>12, <1>13, <1>14, PoListIntro
<1>16. Range(r) = Range(q) \cup {x}
  <2>1. Range(r) = {r[i] : i \in 1 .. n + 1}
    BY <1>2, <1>13, ChainType
  <2>2. ASSUME NEW y \in Range(r) PROVE y \in Range(q) \cup {x}
    <3>1. PICK i \in 1 .. n + 1 : y = r[i]
      BY <2>1
    <3>2. i = n + 1 => y = x
      BY <1>7, <3>1
    <3>3. i # n + 1 => i \in 1 .. n /\ y = q[i]
      BY <1>7, <1>8, <3>1
    <3>4. \A j \in 1 .. n : q[j] \in Range(q)
      BY <1>1
    <3>5. QED
      BY <3>2, <3>3, <3>4
  <2>3. ASSUME NEW y \in Range(q) PROVE y \in Range(r)
    <3>1. PICK i \in 1 .. n : y = q[i]
      BY <1>1
    <3>2. i \in 1 .. n + 1 /\ r[i] = q[i]
      BY <1>0, <1>2, <1>8
    <3>3. QED
      BY <2>1, <3>1, <3>2
  <2>4. x \in Range(r)
    <3>1. n + 1 \in 1 .. n + 1
      BY <1>0
    <3>2. QED
      BY <1>2, <2>1, <3>1
  <2>5. QED
    BY <2>2, <2>3, <2>4
<1>17. list.potail # Nil => l.potail = list.potail
  BY <1>1, <1>3, <1>6
<1>18. QED
  BY <1>0, <1>2, <1>6, <1>15, <1>16, <1>17 DEF l, r

\* poadd when the scan stops at once: the list is empty, or its head is not above the
\* new packet.
LEMMA AddNewest ==
  ASSUME NEW list \in PoType, NEW q, PoList(list, q), NEW x \in Slot,
         NEW seq \in [Slot -> Nat], NEW c \in Nat,
         list.pohead # Nil => seq[list.pohead] + list.cycles <= seq[x] + c
  PROVE  poadd(list, x, seq, c) =
           IF list.pohead # Nil /\ seq[x] + c = seq[list.pohead] + list.cycles
           THEN [ret |-> PKT_DUPLICATED, po |-> list]
           ELSE [ret |-> 0, po |-> AddAtHead(list, x, c)]
<1> DEFINE w == Nth(list.next, list.pohead)
           cseq == seq[x] + c
           stops == {k \in 0 .. BP_MAX_SIZE : w[k] = Nil \/ seq[w[k]] + list.cycles <= cseq}
<1>1. 0 \in 0 .. BP_MAX_SIZE
  BY Constants
<1>2. w[0] = list.pohead
  <2> DEFINE r == Reverse(q)
  <2>1. Chain(list.next, list.pohead, r)
    BY DEF PoList
  <2> HIDE DEF r
  <2>2. w = [k \in 0 .. BP_MAX_SIZE |-> IF k < Len(r) THEN r[k + 1] ELSE Nil]
    BY <2>1, ChainNth
  <2>3. w[0] = IF 0 < Len(r) THEN r[1] ELSE Nil
    <3> HIDE DEF w
    <3>1. QED
      BY <1>1, <2>2
  <2>4. Len(r) \in Nat /\ list.pohead = IF Len(r) = 0 THEN Nil ELSE r[1]
    BY <2>1, ChainType DEF Chain
  <2> HIDE DEF w
  <2>5. QED
    BY <2>3, <2>4
<1> HIDE DEF w
<1>3. 0 \in stops
  BY <1>1, <1>2
<1>4. \A k \in stops : k \in 0 .. BP_MAX_SIZE
  OBVIOUS
<1>5. ScanStop(list, seq, cseq) = IF stops = {} THEN Nil ELSE w[CHOOSE k \in stops : \A j \in stops : k <= j]
  BY DEF ScanStop, w
<1> HIDE DEF stops
<1>6. (CHOOSE k \in stops : \A j \in stops : k <= j) = 0
  <2> DEFINE m == CHOOSE k \in stops : \A j \in stops : k <= j
  <2>1. \A j \in stops : 0 <= j
    BY <1>4, Constants
  <2>2. m \in stops /\ \A j \in stops : m <= j
    BY <1>3, <2>1
  <2> HIDE DEF m
  <2>3. m \in 0 .. BP_MAX_SIZE /\ m <= 0
    BY <1>3, <1>4, <2>2
  <2>4. m = 0
    BY <2>3, Constants
  <2>5. QED
    BY <2>4 DEF m
<1>7. ScanStop(list, seq, cseq) = list.pohead
  BY <1>2, <1>3, <1>5, <1>6
<1> HIDE DEF cseq
<1>8. poadd(list, x, seq, c) =
        IF list.pohead # Nil /\ cseq = seq[list.pohead] + list.cycles
        THEN [ret |-> PKT_DUPLICATED, po |-> list]
        ELSE [ret |-> 0, po |-> AddAtHead(list, x, c)]
  BY <1>7 DEF poadd, cseq
<1>9. QED
  BY <1>8 DEF cseq

\* A chain has as many slots as it is long.
LEMMA ChainCardinality ==
  ASSUME NEW f, NEW start, NEW q, Chain(f, start, q)
  PROVE  Cardinality(Range(q)) = Len(q)
<1>1. PICK n \in Nat : n = Len(q)
  BY ChainType
<1>2. /\ q \in [1 .. n -> Slot] /\ Range(q) = {q[i] : i \in 1 .. n}
      /\ \A i, j \in 1 .. n : q[i] = q[j] => i = j
  BY <1>1, ChainType DEF Chain
<1>3. IsFiniteSet(1 .. n) /\ Cardinality(1 .. n) = n
  BY FS_Interval
<1>4. q \in Surjection(1 .. n, Range(q)) /\ q \in Injection(1 .. n, Range(q))
  BY <1>2 DEF Surjection, Injection, IsInjective
<1>5. Cardinality(Range(q)) = Cardinality(1 .. n) <=> q \in Injection(1 .. n, Range(q))
  BY <1>3, <1>4, FS_Surjection
<1>6. QED
  BY <1>1, <1>3, <1>4, <1>5

\* A chain in a part of the pool is not longer than that part.
LEMMA ChainBound ==
  ASSUME NEW f, NEW start, NEW q, Chain(f, start, q), NEW m \in Nat, Range(q) \subseteq 0 .. m - 1
  PROVE  Len(q) \in 0 .. m
<1>1. IsFiniteSet(0 .. m - 1) /\ Cardinality(0 .. m - 1) = m
  <2>1. 0 \in Int /\ m - 1 \in Int
    OBVIOUS
  <2>2. IsFiniteSet(0 .. m - 1) /\ Cardinality(0 .. m - 1) = IF 0 > m - 1 THEN 0 ELSE m - 1 - 0 + 1
    BY <2>1, FS_Interval
  <2>3. QED
    BY <2>2
<1>2. Cardinality(Range(q)) <= Cardinality(0 .. m - 1)
  BY <1>1, FS_Subset
<1>3. Len(q) \in Nat /\ Cardinality(Range(q)) = Len(q)
  BY ChainType, ChainCardinality
<1>4. Len(q) <= m
  BY <1>1, <1>2, <1>3
<1>5. QED
  BY <1>3, <1>4

PoolType == [freelist : [Slot -> Link], flhead : Link, flcount : Int,
             size : 1 .. BP_MAX_SIZE, moved : 0 .. BP_MAX_SIZE]

\* bpfree of a slot that is not free.
LEMMA FreeSlot ==
  ASSUME NEW b \in PoolType, NEW q, Chain(b.freelist, b.flhead, q), NEW x \in Slot, x \notin Range(q)
  PROVE  LET c == bpfree(b, x)
         IN  /\ c \in PoolType /\ c.size = b.size /\ c.moved = b.moved /\ c.flcount = b.flcount - 1
             /\ \E r : Chain(c.freelist, c.flhead, r) /\ Len(r) = Len(q) + 1 /\ Range(r) = Range(q) \cup {x}
<1> DEFINE c == bpfree(b, x)
           g == [b.freelist EXCEPT ![x] = b.flhead]
           m == b.flcount - 1
<1>1. c = [b EXCEPT !.freelist = g, !.flhead = x, !.flcount = m]
  BY DEF bpfree, PoolType
<1>2. g \in [Slot -> Link] /\ g[x] = b.flhead /\ \A y \in Slot : y # x => g[y] = b.freelist[y]
  BY DEF PoolType
<1>3. m \in Int /\ x \in Link
  BY Constants DEF PoolType
<1> HIDE DEF c, g
<1>4. /\ c.freelist = g /\ c.flhead = x /\ c.flcount = m /\ c.size = b.size /\ c.moved = b.moved
      /\ c \in PoolType
  <2> HIDE DEF m
  <2>1. QED
    BY <1>1, <1>2, <1>3 DEF PoolType
<1>5. \A y \in Range(q) : g[y] = b.freelist[y]
  <2>1. \A y \in Range(q) : y \in Slot /\ y # x
    BY ChainType
  <2>2. QED
    BY <1>2, <2>1
<1>6. PICK r : Chain(g, x, r) /\ Len(r) = Len(q) + 1 /\ Range(r) = Range(q) \cup {x}
  BY <1>2, <1>5, ChainPush
<1>7. QED
  BY <1>4, <1>6 DEF c

\* bpget of a slot from a pool that has one.
LEMMA PopSlot ==
  ASSUME NEW b \in PoolType, NEW q, Chain(b.freelist, b.flhead, q), b.flhead # Nil
  PROVE  LET c == Pop(b)
         IN  /\ c \in PoolType /\ c.size = b.size /\ c.moved = b.moved /\ c.flcount = b.flcount + 1
             /\ b.flhead \in Slot /\ b.flhead \in Range(q)
             /\ \E r : /\ Chain(c.freelist, c.flhead, r) /\ Len(r) = Len(q) - 1
                       /\ Range(r) = Range(q) \ {b.flhead}
<1> DEFINE c == Pop(b)
           h == b.freelist[b.flhead]
           m == b.flcount + 1
<1>0. q # <<>>
  BY DEF Chain
<1>1. /\ Chain(b.freelist, h, Tail(q)) /\ Len(Tail(q)) = Len(q) - 1
      /\ b.flhead \in Slot /\ b.flhead \in Range(q) /\ Range(Tail(q)) = Range(q) \ {b.flhead}
  BY <1>0, ChainTail
<1>2. c = [b EXCEPT !.flhead = h, !.flcount = m]
  BY DEF Pop, PoolType
<1>3. h \in Link /\ m \in Int
  BY <1>1 DEF PoolType
<1> HIDE DEF c, h, m
<1>4. /\ c.freelist = b.freelist /\ c.flhead = h /\ c.flcount = m /\ c.size = b.size /\ c.moved = b.moved
      /\ c \in PoolType
  BY <1>2, <1>3 DEF PoolType
<1>5. QED
  BY <1>1, <1>4 DEF c, m

\* Slots that bpinit and bpenlarge thread make a chain.
LEMMA ThreadedChain ==
  ASSUME NEW f, NEW old \in Nat, NEW new \in Nat, old < new, new <= BP_MAX_SIZE
  PROVE  \E q : /\ Chain(Threaded(f, old, new), old, q) /\ Len(q) = new - old
                /\ Range(q) = old .. new - 1
<1> DEFINE n == new - old
           q == [i \in 1 .. n |-> old + i - 1]
           g == Threaded(f, old, new)
<1>1. n \in Nat /\ n >= 1 /\ n # 0
  OBVIOUS
<1>2. \A i \in 1 .. n : old + i - 1 \in Slot /\ old + i - 1 \in old .. new - 1
  BY Constants
<1>3. q \in Seq(Slot) /\ Len(q) = n /\ q # <<>> /\ DOMAIN q = 1 .. n
  <2>1. q \in [1 .. n -> Slot]
    BY <1>2
  <2> HIDE DEF q
  <2>2. q \in Seq(Slot) /\ Len(q) = n /\ DOMAIN q = 1 .. n
    BY <1>1, <2>1
  <2>3. QED
    BY <1>1, <2>2
<1>4. \A i \in 1 .. n : q[i] = old + i - 1
  OBVIOUS
<1>5. \A x \in Slot : g[x] = IF x \in old .. new - 2 THEN x + 1 ELSE IF x = new - 1 THEN Nil ELSE f[x]
  BY DEF Threaded
<1> HIDE DEF q, g
<1>6. \A i, j \in 1 .. n : q[i] = q[j] => i = j
  BY <1>4
<1>7. ASSUME NEW i \in 1 .. n PROVE g[q[i]] = IF i < n THEN q[i + 1] ELSE Nil
  <2>1. CASE i < n
    <3>1. old + i - 1 \in old .. new - 2 /\ i + 1 \in 1 .. n /\ old + (i + 1) - 1 = old + i - 1 + 1
      BY <2>1
    <3>2. QED
      BY <1>2, <1>4, <1>5, <2>1, <3>1
  <2>2. CASE ~(i < n)
    <3>1. old + i - 1 = new - 1 /\ old + i - 1 \notin old .. new - 2
      BY <2>2
    <3>2. QED
      BY <1>2, <1>4, <1>5, <2>2, <3>1
  <2>3. QED
    BY <2>1, <2>2
<1>8. q[1] = old
  BY <1>1, <1>4
<1>9. Chain(g, old, q)
  BY <1>3, <1>6, <1>7, <1>8 DEF Chain
<1>10. Range(q) = old .. new - 1
  <2>1. Range(q) = {q[i] : i \in 1 .. n}
    BY <1>3 DEF Range
  <2>2. \A i \in 1 .. n : q[i] \in old .. new - 1
    BY <1>2, <1>4
  <2>3. \A x \in old .. new - 1 : x - old + 1 \in 1 .. n /\ old + (x - old + 1) - 1 = x
    OBVIOUS
  <2>4. \A x \in old .. new - 1 : \E i \in 1 .. n : q[i] = x
    BY <1>4, <2>3
  <2>5. QED
    BY <2>1, <2>2, <2>4
<1>11. QED
  BY <1>3, <1>9, <1>10 DEF g

\* The states of RemoveAll's loop, after each of its first m steps.
Steps(b, list, q, w, m) ==
  \A k \in 0 .. m : w[k] = IF k = 0 THEN [bp |-> b, po |-> list]
                           ELSE [bp |-> bpfree(w[k - 1].bp, q[k]), po |-> podel(w[k - 1].po, q[k])]

LEMMA StepsExist ==
  ASSUME NEW b, NEW list, NEW q, NEW n \in Nat
  PROVE  \E w : Steps(b, list, q, w, n)
<1> DEFINE T == {m \in 0 .. n : ~ \E w : Steps(b, list, q, w, m)}
<1>1. ASSUME T # {} PROVE FALSE
  <2>1. PICK m \in T : \A j \in T : m <= j
    <3>1. T \subseteq Nat
      OBVIOUS
    <3> HIDE DEF T
    <3>2. QED
      BY <1>1, <3>1, LeastExists
  <2>2. m # 0
    <3> DEFINE w == [k \in 0 .. 0 |-> [bp |-> b, po |-> list]]
    <3>1. Steps(b, list, q, w, 0)
      BY DEF Steps
    <3> HIDE DEF w
    <3>2. QED
      BY <2>1, <3>1
  <2>3. m - 1 \in 0 .. n /\ m - 1 \notin T
    BY <2>1, <2>2
  <2>4. PICK v : Steps(b, list, q, v, m - 1)
    BY <2>3
  <2> DEFINE w == [k \in 0 .. m |-> IF k = m THEN [bp |-> bpfree(v[m - 1].bp, q[m]), po |-> podel(v[m - 1].po, q[m])]
                                    ELSE v[k]]
  <2>5. \A k \in 0 .. m : w[k] = IF k = m THEN [bp |-> bpfree(v[m - 1].bp, q[m]), po |-> podel(v[m - 1].po, q[m])] ELSE v[k]
    OBVIOUS
  <2> HIDE DEF w
  <2>6. Steps(b, list, q, w, m)
    <3> SUFFICES ASSUME NEW k \in 0 .. m
                 PROVE  w[k] = IF k = 0 THEN [bp |-> b, po |-> list]
                               ELSE [bp |-> bpfree(w[k - 1].bp, q[k]), po |-> podel(w[k - 1].po, q[k])]
      BY DEF Steps
    <3>1. k # 0 => w[k - 1] = v[k - 1]
      BY <2>1, <2>5
    <3>2. CASE k = m
      BY <2>2, <2>5, <3>1, <3>2
    <3>3. CASE k # m
      <4>1. k \in 0 .. m - 1 /\ w[k] = v[k]
        BY <2>1, <2>5, <3>3
      <4>2. QED
        BY <2>4, <3>1, <4>1 DEF Steps
    <3>4. QED
      BY <3>2, <3>3
  <2>7. QED
    BY <2>1, <2>6
<1>2. n \in 0 .. n
  OBVIOUS
<1>3. QED
  BY <1>1, <1>2

\* What RemoveAll does in all.
LEMMA RemoveAllSteps ==
  ASSUME NEW b, NEW list, NEW q, Oldest(list) = q, Len(q) \in Nat
  PROVE  \E w : Steps(b, list, q, w, Len(q)) /\ RemoveAll(b, list) = w[Len(q)]
<1> DEFINE Is(v) == v = [k \in 0 .. Len(q) |->
                           IF k = 0 THEN [bp |-> b, po |-> list]
                           ELSE [bp |-> bpfree(v[k - 1].bp, q[k]), po |-> podel(v[k - 1].po, q[k])]]
           w == CHOOSE v : Is(v)
<1>1. PICK u : Steps(b, list, q, u, Len(q))
  BY StepsExist
<1> DEFINE v == [k \in 0 .. Len(q) |-> u[k]]
<1>2. Is(v)
  <2>1. \A k \in 0 .. Len(q) : v[k] = u[k] /\ (k # 0 => k - 1 \in 0 .. Len(q) /\ v[k - 1] = u[k - 1])
    OBVIOUS
  <2>2. v = [k \in 0 .. Len(q) |-> v[k]]
    OBVIOUS
  <2> HIDE DEF v
  <2>3. \A k \in 0 .. Len(q) : v[k] = IF k = 0 THEN [bp |-> b, po |-> list]
                           ELSE [bp |-> bpfree(v[k - 1].bp, q[k]), po |-> podel(v[k - 1].po, q[k])]
    <3>1. ASSUME NEW k \in 0 .. Len(q), k = 0
          PROVE  v[k] = [bp |-> b, po |-> list]
      BY <1>1, <2>1, <3>1 DEF Steps
    <3>2. ASSUME NEW k \in 0 .. Len(q), k # 0
          PROVE  v[k] = [bp |-> bpfree(v[k - 1].bp, q[k]), po |-> podel(v[k - 1].po, q[k])]
      <4>1. v[k] = u[k] /\ v[k - 1] = u[k - 1]
        BY <2>1, <3>2
      <4>2. u[k] = [bp |-> bpfree(u[k - 1].bp, q[k]), po |-> podel(u[k - 1].po, q[k])]
        BY <1>1, <3>2 DEF Steps
      <4>3. QED
        BY <4>1, <4>2
    <3>3. QED
      BY <3>1, <3>2
  <2>4. QED
    BY <2>2, <2>3
<1> HIDE DEF v
<1>3. Is(w)
  <2> HIDE DEF Is
  <2>1. QED
    BY <1>2
<1>4. RemoveAll(b, list) = w[Len(q)]
  BY DEF RemoveAll
<1> HIDE DEF w
<1>5. Steps(b, list, q, w, Len(q))
  BY <1>3 DEF Steps
<1>6. QED
  BY <1>4, <1>5

\* rtp_rm_all_pkts: all slots of the list are free then, and it is empty.
LEMMA RemoveAllFrees ==
  ASSUME NEW b \in PoolType, NEW F, Chain(b.freelist, b.flhead, F),
         NEW list \in PoType, NEW q, PoList(list, q), Range(F) \cap Range(q) = {}
  PROVE  LET r == RemoveAll(b, list)
         IN  /\ r.bp \in PoolType /\ r.bp.size = b.size /\ r.bp.moved = b.moved
             /\ r.bp.flcount = b.flcount - Len(q)
             /\ \E G : /\ Chain(r.bp.freelist, r.bp.flhead, G) /\ Len(G) = Len(F) + Len(q)
                       /\ Range(G) = Range(F) \cup Range(q)
             /\ r.po \in PoType /\ PoList(r.po, <<>>)
<1>1. PICK n \in Nat : n = Len(q)
  BY PoListFacts, ChainType
<1>2. Oldest(list) = q /\ Chain(list.prev, list.potail, q)
  BY PoListFacts
<1>3. PICK w : Steps(b, list, q, w, n) /\ RemoveAll(b, list) = w[n]
  BY <1>1, <1>2, RemoveAllSteps
<1>4. \A k \in 0 .. n : w[k] = IF k = 0 THEN [bp |-> b, po |-> list]
                               ELSE [bp |-> bpfree(w[k - 1].bp, q[k]), po |-> podel(w[k - 1].po, q[k])]
  BY <1>3 DEF Steps
<1>5. /\ \A i \in 1 .. n : q[i] \in Slot /\ q[i] \in Range(q)
      /\ \A i, j \in 1 .. n : q[i] = q[j] => i = j
      /\ Range(q) = {q[i] : i \in 1 .. n} /\ Len(F) \in Nat
  <2>1. Range(q) = {q[i] : i \in 1 .. Len(q)} /\ \A i \in 1 .. Len(q) : q[i] \in Slot
    BY <1>2, ChainType
  <2>2. \A i, j \in 1 .. Len(q) : q[i] = q[j] => i = j
    BY <1>2 DEF Chain
  <2>3. Len(F) \in Nat
    BY ChainType
  <2>4. QED
    BY <1>1, <2>1, <2>2, <2>3
<1>6. b.flcount \in Int
  BY DEF PoolType
\* After k steps the first k slots are free, the others still linked.
<1> DEFINE Removed(k) == {q[i] : i \in 1 .. k}
           After(k) == /\ w[k].bp \in PoolType /\ w[k].bp.size = b.size /\ w[k].bp.moved = b.moved
                       /\ w[k].bp.flcount = b.flcount - k
                       /\ \E G : /\ Chain(w[k].bp.freelist, w[k].bp.flhead, G) /\ Len(G) = Len(F) + k
                                 /\ Range(G) = Range(F) \cup Removed(k)
                       /\ w[k].po \in PoType
                       /\ \E t : /\ PoList(w[k].po, t) /\ Len(t) = n - k
                                 /\ \A i \in 1 .. n - k : t[i] = q[i + k]
           T == {k \in 0 .. n : ~ After(k)}
<1>7. After(0)
  <2>1. w[0].bp = b /\ w[0].po = list
    <3>1. 0 \in 0 .. n
      OBVIOUS
    <3>2. w[0] = [bp |-> b, po |-> list]
      BY <1>4, <3>1
    <3>3. QED
      BY <3>2
  <2>2. Removed(0) = {}
    OBVIOUS
  <2>3. b.flcount - 0 = b.flcount /\ Len(F) + 0 = Len(F) /\ n - 0 = n /\ \A i \in 1 .. n : q[i + 0] = q[i]
    BY <1>5, <1>6
  <2> HIDE DEF Removed
  <2>4. \E G : /\ Chain(w[0].bp.freelist, w[0].bp.flhead, G) /\ Len(G) = Len(F) + 0
               /\ Range(G) = Range(F) \cup Removed(0)
    BY <2>1, <2>2, <2>3
  <2>5. \E t : PoList(w[0].po, t) /\ Len(t) = n - 0 /\ \A i \in 1 .. n - 0 : t[i] = q[i + 0]
    BY <1>1, <2>1, <2>3
  <2>6. QED
    BY <2>1, <2>3, <2>4, <2>5
<1>8. ASSUME NEW k \in 1 .. n, After(k - 1) PROVE After(k)
  <2> DEFINE c == w[k - 1].bp
             l == w[k - 1].po
  <2>1. k - 1 \in 0 .. n /\ n - (k - 1) = n - k + 1 /\ k # 0 /\ k \in 0 .. n /\ 1 \in 1 .. n - (k - 1) /\ 1 + (k - 1) = k
    OBVIOUS
  <2>2. w[k].bp = bpfree(c, q[k]) /\ w[k].po = podel(l, q[k])
    <3>1. w[k] = [bp |-> bpfree(w[k - 1].bp, q[k]), po |-> podel(w[k - 1].po, q[k])]
      BY <1>4, <2>1
    <3>2. QED
      BY <3>1
  <2>3. c \in PoolType /\ c.size = b.size /\ c.moved = b.moved /\ c.flcount = b.flcount - (k - 1) /\ l \in PoType
    BY <1>8
  <2>4. PICK G : /\ Chain(c.freelist, c.flhead, G) /\ Len(G) = Len(F) + (k - 1)
                 /\ Range(G) = Range(F) \cup Removed(k - 1)
    BY <1>8
  <2>5. PICK t : /\ PoList(l, t) /\ Len(t) = n - (k - 1)
                 /\ \A i \in 1 .. n - (k - 1) : t[i] = q[i + (k - 1)]
    BY <1>8
  <2>6. Removed(k) = Removed(k - 1) \cup {q[k]} /\ q[k] \notin Removed(k - 1)
    <3>1. \A i \in 1 .. k : i = k \/ i \in 1 .. k - 1
      OBVIOUS
    <3>2. \A i \in 1 .. k - 1 : i \in 1 .. k /\ i # k /\ i \in 1 .. n
      OBVIOUS
    <3>3. QED
      BY <1>5, <3>1, <3>2
  <2> HIDE DEF c, l, Removed
  <2>7. q[k] \in Slot /\ q[k] \notin Range(G)
    BY <1>5, <2>4, <2>6
  <2>8. /\ w[k].bp \in PoolType /\ w[k].bp.size = b.size /\ w[k].bp.moved = b.moved
        /\ w[k].bp.flcount = c.flcount - 1
        /\ \E H : /\ Chain(w[k].bp.freelist, w[k].bp.flhead, H) /\ Len(H) = Len(G) + 1
                  /\ Range(H) = Range(G) \cup {q[k]}
    BY <2>2, <2>3, <2>4, <2>7, FreeSlot
  <2>9. w[k].bp.flcount = b.flcount - k
    BY <1>6, <2>3, <2>8
  <2>10. Len(G) + 1 = Len(F) + k
    BY <1>5, <2>4
  <2>11. \E H : /\ Chain(w[k].bp.freelist, w[k].bp.flhead, H) /\ Len(H) = Len(F) + k
                /\ Range(H) = Range(F) \cup Removed(k)
    BY <2>4, <2>6, <2>8, <2>10
  <2>12. t # <<>> /\ l.potail = t[1] /\ t[1] = q[k]
    <3>1. Chain(l.prev, l.potail, t)
      BY <2>5, PoListFacts
    <3>2. n - (k - 1) # 0
      BY <2>1
    <3>3. t # <<>> /\ l.potail = t[1]
      BY <2>5, <3>1, <3>2, ChainType DEF Chain
    <3>4. QED
      BY <2>1, <2>5, <3>3
  <2>13. PoList(w[k].po, Tail(t)) /\ w[k].po \in PoType
    BY <2>2, <2>3, <2>5, <2>12, RemoveTail
  <2>14. Len(Tail(t)) = n - k /\ \A i \in 1 .. n - k : Tail(t)[i] = q[i + k]
    <3>1. Chain(l.prev, l.potail, t)
      BY <2>5, PoListFacts
    <3>2. Len(Tail(t)) = Len(t) - 1 /\ \A i \in 1 .. Len(t) - 1 : Tail(t)[i] = t[i + 1]
      BY <2>12, <3>1, ChainTail
    <3>3. n - (k - 1) - 1 = n - k
      OBVIOUS
    <3>4. \A i \in 1 .. n - k : i + 1 \in 1 .. n - (k - 1) /\ i + 1 + (k - 1) = i + k
      OBVIOUS
    <3>5. QED
      BY <2>5, <3>2, <3>3, <3>4
  <2>15. QED
    BY <2>8, <2>9, <2>11, <2>13, <2>14
<1> HIDE DEF After
<1>9. ASSUME T # {} PROVE FALSE
  <2>1. PICK k \in T : \A j \in T : k <= j
    <3>1. T \subseteq Nat
      OBVIOUS
    <3> HIDE DEF T
    <3>2. QED
      BY <1>9, <3>1, LeastExists
  <2>2. k # 0
    BY <1>7, <2>1
  <2>3. k \in 1 .. n /\ k - 1 \in 0 .. n /\ k - 1 \notin T
    BY <2>1, <2>2
  <2>4. QED
    BY <1>8, <2>1, <2>3
<1>10. After(n)
  BY <1>9
<1>11. Removed(n) = Range(q)
  BY <1>5
<1>12. \E t : PoList(w[n].po, t) /\ Len(t) = 0
  <2>1. n - n = 0
    OBVIOUS
  <2>2. QED
    BY <1>10, <2>1 DEF After
<1>13. PoList(w[n].po, <<>>)
  <2>1. PICK t : PoList(w[n].po, t) /\ Len(t) = 0
    BY <1>12
  <2>2. t = <<>>
    BY <2>1, PoListFacts, ChainType
  <2>3. QED
    BY <2>1, <2>2
<1> HIDE DEF Removed
<1>14. QED
  BY <1>1, <1>3, <1>10, <1>11, <1>13 DEF After

-----------------------------------------------------------------------------
(***************************************************************************)
(* The inductive invariant.                                                *)
(***************************************************************************)
FreeList == Walk(bp.freelist, bp.flhead)

\* The free list is a chain, and the pool has grown by whole steps.
PoolOK ==
  /\ Chain(bp.freelist, bp.flhead, FreeList)
  /\ bp.size = (bp.moved + 1) * BP_SLOT_NUM

ListsOK == \A s \in Sources : PoList(po[s], Oldest(po[s]))

\* Where the threads are, and what they hold there.
ThreadsOK ==
  /\ recv.slot = Nil <=> recv.pc \in {"select", "waiting", "woken"}
  /\ recv.pc \in {"known", "seekdone", "poadd"} => recv.src \in known
  /\ app.pc \in {"get", "pointer", "use", "rm", "bprmv", "rmall"} => app.src \in Sources
  /\ app.pc \in {"pointer", "use", "rm", "bprmv"} =>
       app.index = po[app.src].potail /\ app.index # Nil
  /\ app.pc \in {"seek", "rmall"} => plays < MaxSeeks
  /\ app.pc = "use" => app.moved \in 0 .. bp.moved
  /\ app.pc \in {"rm", "bprmv"} => app.used = packet[app.index].ext

\* The packet with a number by its true position.
Numbered(i, s) == packet[i].src = s /\ packet[i].seq = HeaderNo(packet[i].ext)

\* The packets of a source are linked in the order of their positions, up to the last
\* position sent; none was played that is behind one of them.
OrderOK ==
  \A s \in Sources :
    LET list == Oldest(po[s])
    IN  /\ played[s] \in 0 .. sent[s]
        /\ \A x \in Linked(po[s]) : Numbered(x, s) /\ packet[x].ext \in played[s] .. sent[s]
        /\ \A i, j \in DOMAIN list : i < j => packet[list[i]].ext < packet[list[j]].ext

\* The packet in the RTP thread's hands is the one its source sent last.
HeldOK ==
  recv.pc \in {"known", "seekdone", "poadd"} =>
    Numbered(recv.slot, recv.src) /\ packet[recv.slot].ext = sent[recv.src]

\* The position that has the extended number 0.
Base == IF Unwrapped THEN 0 ELSE FirstExt - HeaderNo(FirstExt)

\* The tracking of a source when the last packet it has seen is at position ext.
Follow(st, ext) ==
  IF Unwrapped THEN st.cycles = 0 /\ st.max_seq <= ext
  ELSE /\ ext >= FirstExt
       /\ st.max_seq = HeaderNo(ext)
       /\ st.cycles + HeaderNo(ext) = ext - Base
       /\ st.probation = 0 \/ (st.probation = 1 /\ ext = FirstExt)

\* A packet of s has arrived that the tracking has not seen.
Untracked(s) == recv.pc = "known" /\ recv.src = s

\* The tracking has followed the sources that are known, and only those.
FollowOK ==
  \A s \in Sources :
    /\ s \notin known => stats[s] = NoStats /\ sent[s] = FirstExt - 1
    /\ s \in known => Follow(stats[s], sent[s]) \/ (Untracked(s) /\ Follow(stats[s], sent[s] - 1))

\* The head of a list, read with the cycles of the list, gives its position.
HeadOK ==
  \A s \in Sources :
    po[s].pohead # Nil =>
      packet[po[s].pohead].seq + po[s].cycles = packet[po[s].pohead].ext - Base

\* Numbers wrap only in streams without seeks.
NoSeekOK == ~Unwrapped => app.pc \notin {"seek", "rmall"} /\ \A s \in Sources : ~done_seek[s]

Inv ==
  /\ TypeOK
  /\ PoolOK /\ ListsOK /\ SlotPartition
  /\ ThreadsOK /\ OrderOK /\ HeldOK
  /\ FollowOK /\ HeadOK /\ NoSeekOK

\* A pool that is not full can grow by a whole step.
LEMMA Growth ==
  ASSUME NEW size \in 1 .. BP_MAX_SIZE, NEW moved \in Nat, size = (moved + 1) * BP_SLOT_NUM
  PROVE  /\ moved < BP_MAX_SIZE
         /\ size < BP_MAX_SIZE => /\ size + BP_SLOT_NUM <= BP_MAX_SIZE
                                  /\ size + BP_SLOT_NUM = (moved + 1 + 1) * BP_SLOT_NUM
<1>1. PICK b \in Nat \ {0} : b = BP_SLOT_NUM
  BY Constants
<1>2. BP_MAX_SIZE \in Nat \ {0} /\ BP_MAX_SIZE % b = 0
  BY <1>1, PoolAssumption DEF PoolAssumption
<1>3. PICK m \in Nat : BP_MAX_SIZE = m * b
  <2>1. BP_MAX_SIZE = (BP_MAX_SIZE \div b) * b /\ BP_MAX_SIZE \div b \in Nat
    BY <1>2
  <2>2. QED
    BY <2>1
<1>4. PICK n \in Nat : n = moved + 1
  OBVIOUS
<1>5. n <= n * b
  <2>1. n * 1 <= n * b
    OBVIOUS
  <2>2. QED
    BY <2>1
<1>6. n * b = size /\ size \in Nat
  BY <1>1, <1>4
<1>7. moved < BP_MAX_SIZE
  BY <1>2, <1>4, <1>5, <1>6
<1>8. ASSUME size < BP_MAX_SIZE PROVE size + b <= BP_MAX_SIZE
  <2>1. n < m
    <3> SUFFICES ASSUME m <= n PROVE FALSE
      OBVIOUS
    <3>1. m * b <= n * b
      OBVIOUS
    <3>2. QED
      BY <1>2, <1>3, <1>6, <1>8, <3>1
  <2>2. n + 1 <= m
    BY <2>1
  <2>3. (n + 1) * b <= m * b
    BY <2>2
  <2>4. (n + 1) * b = n * b + b
    OBVIOUS
  <2>5. QED
    BY <1>3, <1>6, <2>3, <2>4
<1>9. size + b = (n + 1) * b
  <2>1. (n + 1) * b = n * b + b
    OBVIOUS
  <2>2. QED
    BY <1>6, <2>1
<1>10. QED
  BY <1>1, <1>4, <1>7, <1>8, <1>9

\* The remainder is unique.
LEMMA Remainder ==
  ASSUME NEW m \in Nat \ {0}, NEW k \in Nat, NEW r \in 0 .. m - 1
  PROVE  (m * k + r) % m = r
<1> DEFINE x == m * k + r
           q == x \div m
           t == x % m
<1>1. x \in Nat
  <2>1. m * k \in Nat
    OBVIOUS
  <2>2. QED
    BY <2>1
<1>2. x = m * q + t /\ q \in Nat /\ t \in 0 .. m - 1
  <2> HIDE DEF x
  <2>1. QED
    BY <1>1
<1>3. m * k + r = m * q + t
  BY <1>2
<1> HIDE DEF q, t, x
<1>4. ~(q < k)
  <2> SUFFICES ASSUME q + 1 <= k PROVE FALSE
    BY <1>2
  <2>1. m * (q + 1) <= m * k /\ m * (q + 1) = m * q + m
    BY <1>2
  <2>2. m * q \in Nat /\ m * k \in Nat
    BY <1>2
  <2>3. QED
    BY <1>2, <1>3, <2>1, <2>2
<1>5. ~(k < q)
  <2> SUFFICES ASSUME k + 1 <= q PROVE FALSE
    BY <1>2
  <2>1. m * (k + 1) <= m * q /\ m * (k + 1) = m * k + m
    BY <1>2
  <2>2. m * q \in Nat /\ m * k \in Nat
    BY <1>2
  <2>3. QED
    BY <1>2, <1>3, <2>1, <2>2
<1>6. q = k
  BY <1>2, <1>4, <1>5
<1>7. m * k \in Nat
  OBVIOUS
<1>8. t = r
  BY <1>2, <1>3, <1>6, <1>7
<1>9. QED
  BY <1>8 DEF t, x

\* What the numbers of consecutive positions are.
LEMMA HeaderNumbers ==
  /\ RTP_SEQ_MOD \in Nat \ {0, 1}
  /\ \A e \in Nat : HeaderNo(e) \in SeqNum /\ HeaderNo(e) \in Nat /\ (e < RTP_SEQ_MOD => HeaderNo(e) = e)
  /\ \A e \in Nat : HeaderNo(e + 1) = IF HeaderNo(e) = RTP_SEQ_MOD - 1 THEN 0 ELSE HeaderNo(e) + 1
<1>1. PICK m \in Nat \ {0, 1} : m = RTP_SEQ_MOD
  BY SequenceAssumption DEF SequenceAssumption
<1>2. ASSUME NEW e \in Nat PROVE e % m \in 0 .. m - 1 /\ (e < m => e % m = e)
  OBVIOUS
<1>3. ASSUME NEW e \in Nat PROVE (e + 1) % m = IF e % m = m - 1 THEN 0 ELSE (e % m) + 1
  <2> DEFINE d == e \div m
             r == e % m
  <2>1. d \in Nat /\ r \in 0 .. m - 1 /\ e = m * d + r
    <3>1. e = m * (e \div m) + (e % m) /\ e \div m \in Nat /\ e % m \in 0 .. m - 1
      OBVIOUS
    <3>2. QED
      BY <3>1
  <2> HIDE DEF d, r
  <2>2. CASE r = m - 1
    <3>1. e + 1 = m * (d + 1) + 0
      BY <2>1, <2>2
    <3>2. (e + 1) % m = 0
      BY <2>1, <3>1, Remainder
    <3>3. QED
      BY <2>1, <2>2, <3>2 DEF r
  <2>3. CASE r # m - 1
    <3>1. e + 1 = m * d + (r + 1) /\ r + 1 \in 0 .. m - 1
      BY <2>1, <2>3
    <3>2. (e + 1) % m = r + 1
      BY <2>1, <3>1, Remainder
    <3>3. QED
      BY <2>1, <2>3, <3>2 DEF r
  <2>4. QED
    BY <2>2, <2>3
<1>4. QED
  BY <1>1, <1>2, <1>3 DEF HeaderNo, SeqNum

-----------------------------------------------------------------------------
(***************************************************************************)
(* The tracking follows a tame stream.                                     *)
(***************************************************************************)
\* The steps of rtp_update_seq, field by field.
LEMMA UpdateFields ==
  ASSUME NEW st \in Stats, NEW seq \in SeqNum
  PROVE  LET r == rtp_update_seq(st, seq)
         IN  /\ r \in Stats
             /\ st.cycles = 0 /\ st.max_seq <= seq => r.cycles = 0 /\ r.max_seq <= seq
             /\ st.probation > 0 =>
                  /\ r.max_seq = seq
                  /\ r.probation = IF Follows(st, seq) THEN st.probation - 1 ELSE MIN_SEQUENTIAL - 1
                  /\ r.cycles = IF Follows(st, seq) /\ st.probation = 1 THEN 0 ELSE st.cycles
             /\ st.probation = 0 /\ UDelta(st, seq) < MAX_DROPOUT =>
                  /\ r.max_seq = seq /\ r.probation = 0
                  /\ r.cycles = IF seq < st.max_seq THEN st.cycles + RTP_SEQ_MOD ELSE st.cycles
<1> DEFINE r == rtp_update_seq(st, seq)
           Claim == /\ r \in Stats
                    /\ st.cycles = 0 /\ st.max_seq <= seq => r.cycles = 0 /\ r.max_seq <= seq
<1>1. /\ RTP_SEQ_MOD \in Nat \ {0} /\ MIN_SEQUENTIAL \in Nat \ {0} /\ seq \in Nat
      /\ (seq + 1) % RTP_SEQ_MOD \in Nat /\ RTP_SEQ_MOD + 1 \in Nat
  BY SequenceAssumption DEF SequenceAssumption, SeqNum
<1>2. /\ st.max_seq \in SeqNum /\ st.cycles \in Nat /\ st.bad_seq \in Nat
      /\ st.probation \in 0 .. MIN_SEQUENTIAL /\ st.max_seq \in Nat
  BY <1>1 DEF Stats, SeqNum
<1>3. \A t \in Stats : /\ rtp_init_seq(t, seq) \in Stats
                       /\ rtp_init_seq(t, seq).max_seq = seq /\ rtp_init_seq(t, seq).cycles = 0
                       /\ rtp_init_seq(t, seq).probation = t.probation
  BY <1>1 DEF Stats, rtp_init_seq
<1>4. CASE st.probation > 0
  <2> DEFINE p == st.probation - 1
             u == [st EXCEPT !.probation = p, !.max_seq = seq]
             o == MIN_SEQUENTIAL - 1
             v == [st EXCEPT !.probation = o, !.max_seq = seq]
  <2>1. /\ p \in 0 .. MIN_SEQUENTIAL /\ o \in 0 .. MIN_SEQUENTIAL
        /\ p = 0 <=> st.probation = 1
    BY <1>1, <1>2, <1>4
  <2>2. r = Probe(st, seq)
    BY <1>4 DEF rtp_update_seq
  <2>3. Probe(st, seq) = IF Follows(st, seq) THEN IF u.probation = 0 THEN rtp_init_seq(u, seq) ELSE u ELSE v
    BY DEF Probe
  <2> HIDE DEF p, o
  <2>4. u \in Stats /\ u.probation = p /\ u.max_seq = seq /\ u.cycles = st.cycles
    BY <2>1 DEF Stats
  <2>5. v \in Stats /\ v.probation = o /\ v.max_seq = seq /\ v.cycles = st.cycles
    BY <2>1 DEF Stats
  <2> HIDE DEF u, v, r
  <2>6. /\ r \in Stats /\ r.max_seq = seq
        /\ r.probation = IF Follows(st, seq) THEN p ELSE o
        /\ r.cycles = IF Follows(st, seq) /\ p = 0 THEN 0 ELSE st.cycles
    <3>1. CASE Follows(st, seq) /\ p = 0
      BY <1>3, <2>2, <2>3, <2>4, <3>1
    <3>2. CASE Follows(st, seq) /\ p # 0
      BY <2>2, <2>3, <2>4, <3>2
    <3>3. CASE ~Follows(st, seq)
      BY <2>2, <2>3, <2>5, <3>3
    <3>4. QED
      BY <3>1, <3>2, <3>3
  <2>7. QED
    BY <1>1, <1>4, <2>1, <2>6 DEF r, p, o
<1>5. CASE st.probation = 0 /\ UDelta(st, seq) < MAX_DROPOUT
  <2> DEFINE c == IF seq < st.max_seq THEN st.cycles + RTP_SEQ_MOD ELSE st.cycles
  <2>1. r = Advance(st, seq) /\ c \in Nat
    <3>1. c \in Nat
      BY <1>1, <1>2
    <3>2. ~(st.probation > 0)
      BY <1>2, <1>5
    <3>3. ~LargeJump(st, seq)
      <4>1. UDelta(st, seq) \in Int /\ MAX_DROPOUT \in Int
        BY <1>1, <1>2, SequenceAssumption DEF SequenceAssumption, UDelta
      <4>2. QED
        BY <1>5, <4>1 DEF LargeJump
    <3>4. r = Advance(st, seq)
      BY <1>5, <3>2, <3>3 DEF rtp_update_seq
    <3>5. QED
      BY <3>1, <3>4
  <2>2. Advance(st, seq) = [st EXCEPT !.cycles = c, !.max_seq = seq]
    BY DEF Advance
  <2> HIDE DEF c, r
  <2>3. r \in Stats /\ r.max_seq = seq /\ r.probation = 0 /\ r.cycles = c
    BY <1>5, <2>1, <2>2 DEF Stats
  <2>4. QED
    BY <1>1, <1>2, <1>5, <2>3 DEF r, c
<1>6. CASE st.probation = 0 /\ ~(UDelta(st, seq) < MAX_DROPOUT)
  <2> DEFINE bad == (seq + 1) % RTP_SEQ_MOD
             u == [st EXCEPT !.bad_seq = bad]
  <2>1. r \in {rtp_init_seq(st, seq), u, st}
    BY <1>6 DEF rtp_update_seq
  <2>2. bad \in Nat
    BY <1>1
  <2> HIDE DEF bad
  <2>3. u \in Stats /\ u.max_seq = st.max_seq /\ u.cycles = st.cycles
    BY <2>2 DEF Stats
  <2> HIDE DEF u, r
  <2>4. r \in Stats /\ ((r.max_seq = seq /\ r.cycles = 0) \/ (r.max_seq = st.max_seq /\ r.cycles = st.cycles))
    BY <1>3, <2>1, <2>3
  <2>5. QED
    BY <1>1, <1>2, <1>6, <2>4 DEF r
<1>7. QED
  BY <1>2, <1>4, <1>5, <1>6

LEMMA Positions ==
  /\ FirstExt \in Nat \ {0} /\ MaxExt \in Nat
  /\ Tame /\ ~Unwrapped => Complete
  /\ Unwrapped => \A e \in 0 .. MaxExt : HeaderNo(e) = e
  /\ ~Unwrapped => Base = FirstExt - HeaderNo(FirstExt)
  /\ Unwrapped => Base = 0
BY BufferAssumption, HeaderNumbers DEF BufferAssumption, Tame, Unwrapped, Base

\* The first packet of a source.
LEMMA FirstFollowed ==
  ASSUME Tame, NEW e \in 0 .. MaxExt, e >= FirstExt, Unwrapped \/ e = FirstExt
  PROVE  LET st == rtp_update_seq(StartProbation(NoStats, HeaderNo(e)), HeaderNo(e))
         IN  st \in Stats /\ Follow(st, e)
<1> DEFINE seq == HeaderNo(e)
           before == (seq - 1) % RTP_SEQ_MOD
           st == [NoStats EXCEPT !.probation = MIN_SEQUENTIAL, !.max_seq = before]
           r == rtp_update_seq(st, seq)
<1>1. /\ RTP_SEQ_MOD \in Nat \ {0} /\ MIN_SEQUENTIAL \in Nat \ {0}
      /\ e \in Nat /\ seq \in SeqNum /\ seq \in Nat /\ FirstExt \in Nat
  BY HeaderNumbers, Positions, SequenceAssumption DEF SequenceAssumption
<1>2. before \in SeqNum
  BY <1>1 DEF SeqNum
<1> HIDE DEF before, seq
<1>3. st \in Stats /\ st.probation = MIN_SEQUENTIAL /\ st.cycles = 0
  <2>1. NoStats \in Stats /\ NoStats.cycles = 0
    <3>1. 0 \in SeqNum /\ 0 \in 0 .. MIN_SEQUENTIAL
      BY <1>1 DEF SeqNum
    <3>2. QED
      BY <3>1 DEF NoStats, Stats
  <2>2. MIN_SEQUENTIAL \in 0 .. MIN_SEQUENTIAL
    BY <1>1
  <2>3. QED
    BY <1>2, <2>1, <2>2 DEF Stats
<1>4. StartProbation(NoStats, seq) = st
  BY DEF StartProbation, before
<1> HIDE DEF st
<1>5. /\ r \in Stats /\ r.max_seq = seq /\ r.cycles = 0
      /\ r.probation = IF Follows(st, seq) THEN MIN_SEQUENTIAL - 1 ELSE MIN_SEQUENTIAL - 1
  <2>1. st.probation > 0
    BY <1>1, <1>3
  <2>2. QED
    BY <1>1, <1>3, <2>1, UpdateFields
<1> HIDE DEF r
<1>6. CASE Unwrapped
  <2>1. seq = e
    BY <1>6, Positions DEF seq
  <2>2. Follow(r, e)
    BY <1>1, <1>5, <1>6, <2>1 DEF Follow
  <2>3. QED
    BY <1>4, <1>5, <2>2 DEF r, seq
<1>7. CASE ~Unwrapped
  <2>1. e = FirstExt /\ MIN_SEQUENTIAL = 2 /\ Base = FirstExt - seq
    BY <1>7, Positions DEF Complete, seq
  <2>2. Follow(r, e)
    BY <1>1, <1>5, <1>7, <2>1 DEF Follow, seq
  <2>3. QED
    BY <1>4, <1>5, <2>2 DEF r, seq
<1>8. QED
  BY <1>6, <1>7

\* A packet of a known source: the newest again, or the next one.
LEMMA NextFollowed ==
  ASSUME Tame, NEW e \in 0 .. MaxExt, NEW st \in Stats, Follow(st, e) \/ Follow(st, e - 1)
  PROVE  LET r == rtp_update_seq(st, HeaderNo(e))
         IN  r \in Stats /\ Follow(r, e)
<1> DEFINE seq == HeaderNo(e)
           r == rtp_update_seq(st, seq)
<1>1. /\ RTP_SEQ_MOD \in Nat \ {0, 1} /\ MIN_SEQUENTIAL \in Nat \ {0} /\ MAX_DROPOUT \in Nat \ {0, 1}
      /\ e \in Nat /\ seq \in SeqNum /\ seq \in Nat /\ FirstExt \in Nat \ {0}
  BY HeaderNumbers, Positions, SequenceAssumption DEF SequenceAssumption
<1>2. st.max_seq \in SeqNum /\ st.cycles \in Nat /\ st.probation \in Nat /\ st.max_seq \in Nat
  BY <1>1 DEF Stats, SeqNum
<1>3. CASE Unwrapped
  <2>1. seq = e
    BY <1>3, Positions
  <2> HIDE DEF seq
  <2>2. st.cycles = 0 /\ st.max_seq <= seq
    BY <1>1, <1>2, <1>3, <2>1 DEF Follow
  <2>3. r \in Stats /\ r.cycles = 0 /\ r.max_seq <= seq
    BY <1>1, <2>2, UpdateFields
  <2> HIDE DEF r
  <2>4. Follow(r, e)
    BY <1>3, <2>1, <2>3 DEF Follow
  <2>5. QED
    BY <2>3, <2>4 DEF r, seq
<1>4. ASSUME ~Unwrapped PROVE r \in Stats /\ Follow(r, e)
  <2> DEFINE n == st.max_seq
             m == RTP_SEQ_MOD
             b == HeaderNo(FirstExt)
  <2>1. MIN_SEQUENTIAL = 2 /\ b # m - 1 /\ Base = FirstExt - b /\ b \in Nat
    BY <1>4, <1>1, Positions, HeaderNumbers DEF Complete
  <2>2. CASE Follow(st, e)
    <3>1. n = seq /\ e >= FirstExt /\ st.cycles + seq = e - Base /\ (st.probation = 0 \/ (st.probation = 1 /\ e = FirstExt))
      BY <1>4, <2>2 DEF Follow
    <3>2. UDelta(st, seq) = 0 /\ ~Follows(st, seq)
      <4>1. seq - n = 0 /\ 0 % m = 0
        BY <1>1, <3>1
      <4>2. QED
        BY <1>1, <1>2, <3>1, <4>1 DEF UDelta, Follows
    <3>3. r \in Stats /\ r.max_seq = seq /\ r.cycles = st.cycles /\ r.probation = st.probation
      <4> HIDE DEF seq
      <4>1. CASE st.probation = 0
        BY <1>1, <1>2, <3>1, <3>2, <4>1, UpdateFields
      <4>2. CASE st.probation = 1
        BY <1>1, <1>2, <2>1, <3>1, <3>2, <4>2, UpdateFields
      <4>3. QED
        BY <3>1, <4>1, <4>2
    <3> HIDE DEF r
    <3>4. QED
      BY <1>4, <3>1, <3>3 DEF Follow
  <2>3. CASE Follow(st, e - 1)
    <3>1. /\ n = HeaderNo(e - 1) /\ e - 1 >= FirstExt /\ st.cycles + n = (e - 1) - Base
          /\ (st.probation = 0 \/ (st.probation = 1 /\ e - 1 = FirstExt))
      BY <1>4, <2>3 DEF Follow
    <3>2. seq = IF n = m - 1 THEN 0 ELSE n + 1
      <4>1. e - 1 \in Nat /\ e - 1 + 1 = e
        BY <1>1, <3>1
      <4>2. QED
        BY <3>1, <4>1, HeaderNumbers
    <3>3. n \in 0 .. m - 1
      BY <1>2 DEF SeqNum
    <3>4. UDelta(st, seq) = 1
      <4>1. CASE n = m - 1
        <5>1. seq - n = 1 - m
          BY <1>1, <3>2, <4>1
        <5>2. (1 - m) % m = 1
          BY <1>1
        <5>3. QED
          BY <5>1, <5>2 DEF UDelta
      <4>2. CASE n # m - 1
        <5>1. seq - n = 1 /\ 1 % m = 1
          BY <1>1, <3>2, <3>3, <4>2
        <5>2. QED
          BY <5>1 DEF UDelta
      <4>3. QED
        BY <4>1, <4>2
    <3>5. CASE st.probation = 0
      <4>1. r \in Stats /\ r.max_seq = seq /\ r.probation = 0
            /\ r.cycles = IF seq < n THEN st.cycles + m ELSE st.cycles
        <5> HIDE DEF seq
        <5>1. QED
          BY <1>1, <3>4, <3>5, UpdateFields
      <4>2. r.cycles + seq = e - Base
        <5> HIDE DEF r, seq
        <5>0. Base \in Int
          BY <1>1, <2>1
        <5>1. CASE n = m - 1
          BY <1>1, <1>2, <3>1, <3>2, <4>1, <5>0, <5>1
        <5>2. CASE n # m - 1
          BY <1>1, <1>2, <3>1, <3>2, <4>1, <5>0, <5>2
        <5>3. QED
          BY <5>1, <5>2
      <4> HIDE DEF r
      <4>3. e >= FirstExt
        BY <1>1, <3>1
      <4>4. QED
        BY <1>4, <4>1, <4>2, <4>3 DEF Follow
    <3>6. CASE st.probation = 1 /\ e - 1 = FirstExt
      <4>1. n = b /\ seq = b + 1 /\ Follows(st, seq)
        BY <2>1, <3>1, <3>2, <3>6 DEF Follows
      <4>2. r \in Stats /\ r.max_seq = seq /\ r.probation = 0 /\ r.cycles = 0
        <5> HIDE DEF seq
        <5>1. QED
          BY <1>1, <3>6, <4>1, UpdateFields
      <4> HIDE DEF r, b
      <4>3. 0 + seq = e - Base /\ e >= FirstExt
        BY <1>1, <2>1, <3>6, <4>1
      <4>4. QED
        BY <1>4, <4>2, <4>3 DEF Follow
    <3>7. QED
      BY <3>1, <3>5, <3>6
  <2>4. QED
    BY <2>2, <2>3
<1>5. QED
  BY <1>3, <1>4

-----------------------------------------------------------------------------
(***************************************************************************)
(* The slots: where they are, and what the critical sections do to that.   *)
(***************************************************************************)
BpOK == bp \in [freelist : [Slot -> Link], flhead : Link, flcount : 0 .. BP_MAX_SIZE,
                size : 1 .. BP_MAX_SIZE, moved : 0 .. BP_MAX_SIZE]

PoOK == po \in [Sources -> PoType]

\* The parts of the invariant about the slots only.
Structure == BpOK /\ PoOK /\ PoolOK /\ ListsOK /\ SlotPartition

LEMMA Lists ==
  ASSUME Structure, NEW s \in Sources
  PROVE  /\ po[s] \in PoType /\ PoList(po[s], Oldest(po[s]))
         /\ Linked(po[s]) = Range(Oldest(po[s])) /\ Linked(po[s]) \subseteq Slot
<1>1. po[s] \in PoType
  BY DEF Structure, PoOK
<1>2. PoList(po[s], Oldest(po[s]))
  BY DEF Structure, ListsOK
<1>3. Linked(po[s]) = Range(Oldest(po[s])) /\ Chain(po[s].prev, po[s].potail, Oldest(po[s]))
  BY <1>2, PoListFacts
<1>4. Range(Oldest(po[s])) \subseteq Slot
  BY <1>3, ChainType
<1>5. QED
  BY <1>1, <1>2, <1>3, <1>4

LEMMA Pool ==
  ASSUME Structure
  PROVE  /\ bp \in PoolType /\ Chain(bp.freelist, bp.flhead, FreeList)
         /\ FreeSlots(bp) = Range(FreeList) /\ FreeSlots(bp) \subseteq 0 .. bp.size - 1
         /\ bp.flcount = bp.size - Len(FreeList) /\ Len(FreeList) \in Nat
         /\ bp.moved \in Nat /\ bp.size = (bp.moved + 1) * BP_SLOT_NUM
         /\ bp.size \in 1 .. BP_MAX_SIZE /\ 0 .. bp.size - 1 \subseteq Slot
<1>1. bp \in PoolType /\ bp.moved \in Nat /\ bp.size \in 1 .. BP_MAX_SIZE
  BY Constants DEF Structure, BpOK, PoolType
<1>2. Chain(bp.freelist, bp.flhead, FreeList) /\ bp.size = (bp.moved + 1) * BP_SLOT_NUM
  BY DEF Structure, PoolOK
<1>3. FreeSlots(bp) = Range(FreeList)
  BY <1>2, ChainWalk DEF FreeSlots
<1>4. Cardinality(FreeSlots(bp)) = Len(FreeList) /\ Len(FreeList) \in Nat
  BY <1>2, <1>3, ChainCardinality, ChainType
<1>5. FreeSlots(bp) \subseteq 0 .. bp.size - 1 /\ bp.flcount = bp.size - Len(FreeList)
  BY <1>4 DEF Structure, SlotPartition
<1>6. 0 .. bp.size - 1 \subseteq Slot
  BY <1>1, Constants
<1>7. QED
  BY <1>1, <1>2, <1>3, <1>4, <1>5, <1>6

\* What has to be shown of a new pool.
LEMMA PoolIntro ==
  ASSUME NEW b \in PoolType, NEW F, Chain(b.freelist, b.flhead, F),
         Range(F) \subseteq 0 .. b.size - 1, b.flcount = b.size - Len(F)
  PROVE  /\ Chain(b.freelist, b.flhead, Walk(b.freelist, b.flhead))
         /\ FreeSlots(b) = Range(F) /\ b.flcount = b.size - Cardinality(FreeSlots(b))
         /\ b \in [freelist : [Slot -> Link], flhead : Link, flcount : 0 .. BP_MAX_SIZE,
                   size : 1 .. BP_MAX_SIZE, moved : 0 .. BP_MAX_SIZE]
<1>1. Chain(b.freelist, b.flhead, Walk(b.freelist, b.flhead)) /\ FreeSlots(b) = Range(F)
  BY ChainUnique, ChainWalk DEF FreeSlots
<1>2. Cardinality(Range(F)) = Len(F)
  BY ChainCardinality
<1>3. b.size \in 1 .. BP_MAX_SIZE /\ b.size \in Nat /\ BP_MAX_SIZE \in Nat
  BY Constants DEF PoolType
<1>4. Len(F) \in 0 .. b.size
  BY <1>3, ChainBound
<1>5. b.flcount \in 0 .. BP_MAX_SIZE
  BY <1>3, <1>4
<1>6. b \in [freelist : [Slot -> Link], flhead : Link, flcount : 0 .. BP_MAX_SIZE,
             size : 1 .. BP_MAX_SIZE, moved : 0 .. BP_MAX_SIZE]
  BY <1>5 DEF PoolType
<1>7. QED
  BY <1>1, <1>2, <1>6

LEMMA StructureKept ==
  ASSUME Structure, UNCHANGED <<bp, po, leaked>>, Held' = Held
  PROVE  Structure'
<1>1. BpOK' /\ PoOK' /\ PoolOK' /\ ListsOK'
  BY DEF Structure, BpOK, PoOK, PoolOK, ListsOK, FreeList
<1>2. SlotPartition'
  BY DEF Structure, SlotPartition
<1>3. QED
  BY <1>1, <1>2 DEF Structure

Unused == bp.size .. BP_MAX_SIZE - 1

\* bpget: the pool grows if need be, and the first free slot goes to the RTP thread.
LEMMA GetStructure ==
  ASSUME Structure, Held = {}, UNCHANGED <<po, leaked>>,
         NEW ready, ready = IF bp.flhead = Nil THEN bpenlarge(bp) ELSE bp,
         bp.flhead # Nil \/ CanEnlarge(bp), bp' = Pop(ready), Held' = {ready.flhead}
  PROVE  /\ Structure' /\ ready.flhead \in Slot
         /\ \A s \in Sources : ready.flhead \notin Linked(po[s])
         /\ \E grown \in SUBSET Unused : /\ ready.flhead \in FreeSlots(bp) \cup grown
                                         /\ FreeSlots(bp)' = (FreeSlots(bp) \cup grown) \ {ready.flhead}
                                         /\ Unused' = Unused \ grown
         /\ BP_SLOT_NUM = BP_MAX_SIZE => ready = bp
         /\ bp'.moved = ready.moved /\ ready.moved \in Nat /\ bp.moved \in 0 .. ready.moved
<1> DEFINE x == ready.flhead
           grown == bp.size .. ready.size - 1
\* The pool is ready: its free list has a slot.
<1>1. /\ ready \in PoolType /\ ready.size = (ready.moved + 1) * BP_SLOT_NUM
      /\ ready.flhead # Nil /\ ready.size >= bp.size
      /\ ready.flcount = bp.flcount /\ ready.moved \in Nat /\ bp.moved \in 0 .. ready.moved
      /\ BP_SLOT_NUM = BP_MAX_SIZE => ready = bp
      /\ \E F : /\ Chain(ready.freelist, ready.flhead, F) /\ Range(F) = FreeSlots(bp) \cup grown
                /\ Len(F) = Len(FreeList) + (ready.size - bp.size)
  <2>1. CASE bp.flhead # Nil
    <3>1. ready = bp
      BY <2>1
    <3>2. /\ bp \in PoolType /\ bp.size = (bp.moved + 1) * BP_SLOT_NUM /\ bp.size >= bp.size
          /\ Chain(bp.freelist, bp.flhead, FreeList) /\ Range(FreeList) = FreeSlots(bp)
          /\ Len(FreeList) = Len(FreeList) + (bp.size - bp.size)
          /\ bp.moved \in Nat /\ bp.moved \in 0 .. bp.moved
      BY Pool
    <3>3. grown = {}
      BY <3>1, Pool
    <3> HIDE DEF grown
    <3>4. QED
      BY <2>1, <3>1, <3>2, <3>3
  <2>2. CASE bp.flhead = Nil
    <3>1. ready = bpenlarge(bp) /\ bp.size < BP_MAX_SIZE
      BY <2>2 DEF CanEnlarge
    <3>2. /\ bp \in PoolType /\ bp.moved \in Nat /\ bp.size \in 1 .. BP_MAX_SIZE
          /\ bp.size = (bp.moved + 1) * BP_SLOT_NUM
          /\ Chain(bp.freelist, bp.flhead, FreeList) /\ FreeSlots(bp) = Range(FreeList)
      BY Pool
    <3>3. Len(FreeList) = 0 /\ FreeSlots(bp) = {}
      BY <2>2, <3>2, ChainType
    <3>4. PICK new \in Nat : new = bp.size + BP_SLOT_NUM
      BY <3>2, Constants
    <3>5. PICK up \in Nat : up = bp.moved + 1
      BY <3>2
    <3>6. /\ bp.size \in Nat /\ bp.size < new /\ new <= BP_MAX_SIZE /\ new = (up + 1) * BP_SLOT_NUM
          /\ new \in 1 .. BP_MAX_SIZE /\ up \in 0 .. BP_MAX_SIZE
      <4> DEFINE old == bp.size
                 m == bp.moved
      <4>1. old \in 1 .. BP_MAX_SIZE /\ m \in Nat /\ old = (m + 1) * BP_SLOT_NUM /\ old < BP_MAX_SIZE
        BY <3>1, <3>2
      <4>2. new = old + BP_SLOT_NUM /\ up = m + 1 /\ BP_SLOT_NUM \in Nat \ {0} /\ BP_MAX_SIZE \in Nat \ {0}
        BY <3>4, <3>5, Constants
      <4> HIDE DEF old, m
      <4>3. m < BP_MAX_SIZE /\ old + BP_SLOT_NUM <= BP_MAX_SIZE /\ old + BP_SLOT_NUM = (m + 1 + 1) * BP_SLOT_NUM
        BY <4>1, Growth
      <4>4. new = (up + 1) * BP_SLOT_NUM
        BY <4>2, <4>3
      <4>5. old \in Nat /\ old < new /\ new <= BP_MAX_SIZE /\ new \in 1 .. BP_MAX_SIZE /\ up \in 0 .. BP_MAX_SIZE
        BY <4>1, <4>2, <4>3
      <4>6. QED
        BY <4>4, <4>5 DEF old
    <3> DEFINE t == Threaded(bp.freelist, bp.size, new)
    <3>7. PICK F : Chain(t, bp.size, F) /\ Len(F) = new - bp.size /\ Range(F) = bp.size .. new - 1
      <4> DEFINE old == bp.size
                 f == bp.freelist
      <4>1. old \in Nat /\ old < new /\ new <= BP_MAX_SIZE
        BY <3>6
      <4> HIDE DEF old, f
      <4>2. \E F : Chain(Threaded(f, old, new), old, F) /\ Len(F) = new - old /\ Range(F) = old .. new - 1
        <5>1. PICK o \in Nat, n \in Nat : o = old /\ n = new
          BY <4>1, <3>6
        <5>2. o < n /\ n <= BP_MAX_SIZE
          BY <4>1, <5>1
        <5>3. \E F : Chain(Threaded(f, o, n), o, F) /\ Len(F) = n - o /\ Range(F) = o .. n - 1
          BY <5>2, ThreadedChain
        <5>4. QED
          BY <5>1, <5>3
      <4>3. QED
        BY <4>2 DEF old, f
    <3>8. t \in [Slot -> Link]
      <4>1. bp.freelist \in [Slot -> Link] /\ \A i \in bp.size .. new - 2 : i + 1 \in Slot
        BY <3>2, <3>6, Constants DEF PoolType
      <4>2. QED
        BY <4>1, Constants DEF Threaded
    <3>9. bp.size \in Slot
      BY <3>1, <3>2, Constants
    <3>10. ready = [bp EXCEPT !.size = new, !.freelist = t, !.flhead = bp.size, !.moved = up]
      BY <3>1, <3>2, <3>4, <3>5 DEF bpenlarge, PoolType
    <3> HIDE DEF t
    <3>11. /\ ready \in PoolType /\ ready.size = new /\ ready.freelist = t /\ ready.flhead = bp.size
           /\ ready.moved = up /\ ready.flcount = bp.flcount
      BY <3>2, <3>6, <3>8, <3>9, <3>10, Constants DEF PoolType
    <3>12. Len(F) = Len(FreeList) + (ready.size - bp.size)
      BY <3>3, <3>6, <3>7, <3>11
    <3>13. Range(F) = FreeSlots(bp) \cup grown
      BY <3>3, <3>7, <3>11
    <3>14. BP_SLOT_NUM # BP_MAX_SIZE
      <4> DEFINE old == bp.size
      <4>1. old \in 1 .. BP_MAX_SIZE /\ new = old + BP_SLOT_NUM /\ new <= BP_MAX_SIZE
        BY <3>2, <3>4, <3>6
      <4> HIDE DEF old
      <4>2. QED
        BY <4>1, Constants
    <3> HIDE DEF grown
    <3>15. Chain(ready.freelist, ready.flhead, F)
      BY <3>7, <3>11
    <3>16. ready.flhead # Nil
      BY <3>9, <3>11, Constants
    <3>17. ready.size >= bp.size /\ ready.size = (ready.moved + 1) * BP_SLOT_NUM
      BY <3>6, <3>11
    <3>18. ready.moved \in Nat /\ bp.moved \in 0 .. ready.moved
      <4> DEFINE m == bp.moved
      <4>1. m \in Nat /\ up = m + 1 /\ ready.moved = up
        BY <3>2, <3>5, <3>11
      <4> HIDE DEF m
      <4>2. up \in Nat /\ m \in 0 .. up
        BY <4>1
      <4>3. QED
        BY <4>1, <4>2 DEF m
    <3>19. QED
      BY <3>11, <3>12, <3>13, <3>14, <3>15, <3>16, <3>17, <3>18
  <2>3. QED
    BY <2>1, <2>2
<1>2. PICK F : /\ Chain(ready.freelist, ready.flhead, F) /\ Range(F) = FreeSlots(bp) \cup grown
               /\ Len(F) = Len(FreeList) + (ready.size - bp.size)
  BY <1>1
<1>3. /\ bp' \in PoolType /\ bp'.size = ready.size /\ bp'.moved = ready.moved
      /\ bp'.flcount = ready.flcount + 1 /\ x \in Slot /\ x \in Range(F)
  BY <1>1, <1>2, PopSlot
<1>4. PICK G : /\ Chain(bp'.freelist, bp'.flhead, G) /\ Len(G) = Len(F) - 1
               /\ Range(G) = Range(F) \ {x}
  BY <1>1, <1>2, PopSlot
<1>5. /\ bp.size \in 1 .. BP_MAX_SIZE /\ ready.size \in 1 .. BP_MAX_SIZE /\ ready.size >= bp.size
      /\ FreeSlots(bp) \subseteq 0 .. bp.size - 1 /\ bp.flcount = bp.size - Len(FreeList) /\ Len(FreeList) \in Nat
      /\ BP_MAX_SIZE \in Nat
  BY <1>1, Pool, Constants DEF PoolType
<1>6. Range(G) \subseteq 0 .. bp'.size - 1
  <2>1. ready.size \in Nat /\ bp.size \in Nat /\ bp.size <= ready.size
    BY <1>5
  <2>2. 0 .. bp.size - 1 \subseteq 0 .. ready.size - 1 /\ grown \subseteq 0 .. ready.size - 1
    BY <2>1
  <2>3. FreeSlots(bp) \subseteq 0 .. ready.size - 1
    BY <1>5, <2>2, Zenon
  <2> HIDE DEF grown
  <2>4. Range(F) \subseteq 0 .. ready.size - 1
    BY <1>2, <2>2, <2>3, Zenon
  <2>5. Range(G) \subseteq 0 .. ready.size - 1
    BY <1>4, <2>4, Zenon
  <2>6. QED
    BY <1>3, <2>5, Zenon
<1>7. bp'.flcount = bp'.size - Len(G)
  <2> DEFINE old == bp.size
             new == ready.size
             l == Len(FreeList)
             c == bp.flcount
  <2>1. bp'.flcount = c + 1 /\ bp'.size = new /\ Len(G) = (l + (new - old)) - 1 /\ c = old - l
    BY <1>1, <1>2, <1>3, <1>4, <1>5
  <2>2. old \in Nat /\ new \in Nat /\ l \in Nat
    BY <1>5
  <2> HIDE DEF old, new, l, c
  <2>3. (old - l) + 1 = new - ((l + (new - old)) - 1)
    BY <2>2
  <2>4. QED
    BY <2>1, <2>3
<1>8. BpOK' /\ FreeSlots(bp') = Range(G) /\ bp'.flcount = bp'.size - Cardinality(FreeSlots(bp'))
  BY <1>3, <1>4, <1>6, <1>7, PoolIntro DEF BpOK
<1>9. PoolOK'
  <2>1. Chain(bp'.freelist, bp'.flhead, FreeList')
    BY <1>4, ChainUnique DEF FreeList
  <2>2. QED
    BY <1>1, <1>3, <2>1 DEF PoolOK
<1>10. FreeSlots(bp') = (FreeSlots(bp) \cup grown) \ {x}
  BY <1>2, <1>4, <1>8
<1>11. grown \subseteq Unused /\ Unused' = Unused \ grown
  BY <1>3, <1>5 DEF Unused
<1>12. PoOK' /\ ListsOK'
  BY DEF Structure, PoOK, ListsOK
<1>13. x \in FreeSlots(bp) \cup grown
  BY <1>2, <1>3
<1> DEFINE linked == UNION {Linked(po[s]) : s \in Sources}
<1>14. /\ FreeSlots(bp) \cup leaked \cup linked = 0 .. bp.size - 1
       /\ FreeSlots(bp) \cap (leaked \cup linked) = {}
       /\ leaked \cap linked = {}
       /\ \A s, t \in Sources : s # t => Linked(po[s]) \cap Linked(po[t]) = {}
  BY DEF Structure, SlotPartition
<1>15. linked' = linked /\ leaked' = leaked /\ \A s \in Sources : Linked(po[s])' = Linked(po[s]) /\ Linked(po[s]) \subseteq linked
  OBVIOUS
<1>16. grown \cap (0 .. bp.size - 1) = {} /\ 0 .. bp'.size - 1 = (0 .. bp.size - 1) \cup grown
  BY <1>3, <1>5
<1> HIDE DEF grown, linked, x
<1>17. x \notin leaked \cup linked
  BY <1>13, <1>14, <1>16
<1>18. Held' = {x}
  BY DEF x
<1>19. SlotPartition'
  <2>1. FreeSlots(bp') \cup Held' \cup leaked' \cup linked' = 0 .. bp'.size - 1
    BY <1>10, <1>13, <1>14, <1>15, <1>16, <1>17, <1>18
  <2>2. FreeSlots(bp') \cap (Held' \cup leaked' \cup linked') = {}
    BY <1>10, <1>14, <1>15, <1>16, <1>17, <1>18
  <2>3. Held' \cap (leaked' \cup linked') = {} /\ leaked' \cap linked' = {}
    BY <1>14, <1>15, <1>17, <1>18
  <2>4. \A s, t \in Sources : s # t => Linked(po[s])' \cap Linked(po[t])' = {}
    BY <1>14, <1>15
  <2>5. QED
    BY <1>8, <2>1, <2>2, <2>3, <2>4 DEF SlotPartition, linked
<1>20. Structure'
  BY <1>8, <1>9, <1>12, <1>19 DEF Structure
<1>21. x \in Slot /\ \A s \in Sources : x \notin Linked(po[s])
  BY <1>3, <1>15, <1>17
<1>22. QED
  BY <1>1, <1>3, <1>10, <1>11, <1>13, <1>20, <1>21 DEF x

\* The slots of all playout lists.
AllLinked == UNION {Linked(po[s]) : s \in Sources}

LEMMA Partition ==
  ASSUME Structure
  PROVE  /\ FreeSlots(bp) \cup Held \cup leaked \cup AllLinked = 0 .. bp.size - 1
         /\ FreeSlots(bp) \cap (Held \cup leaked \cup AllLinked) = {}
         /\ Held \cap (leaked \cup AllLinked) = {} /\ leaked \cap AllLinked = {}
         /\ \A s, t \in Sources : s # t => Linked(po[s]) \cap Linked(po[t]) = {}
         /\ \A s \in Sources : Linked(po[s]) \subseteq AllLinked
         /\ 0 .. bp.size - 1 \subseteq Slot
<1>1. SlotPartition /\ FreeSlots(bp) \cup Held \cup leaked \cup AllLinked = 0 .. bp.size - 1
  BY DEF Structure, SlotPartition, AllLinked
<1>2. /\ FreeSlots(bp) \cap (Held \cup leaked \cup AllLinked) = {}
      /\ Held \cap (leaked \cup AllLinked) = {} /\ leaked \cap AllLinked = {}
      /\ \A s, t \in Sources : s # t => Linked(po[s]) \cap Linked(po[t]) = {}
  BY <1>1 DEF SlotPartition, AllLinked
<1>3. \A s \in Sources : Linked(po[s]) \subseteq AllLinked
  BY DEF AllLinked
<1>4. 0 .. bp.size - 1 \subseteq Slot
  BY Pool
<1>5. QED
  BY <1>1, <1>2, <1>3, <1>4

\* What is left to show of the lists when the list of s becomes l.
LEMMA ListsIntro ==
  ASSUME Structure, NEW s \in Sources, NEW l \in PoType, NEW q, PoList(l, q),
         po' = [po EXCEPT ![s] = l]
  PROVE  /\ PoOK' /\ ListsOK' /\ Oldest(po[s])' = q /\ Linked(po[s])' = Range(q)
         /\ \A t \in Sources : t # s => po'[t] = po[t]
         /\ \A y : y \in AllLinked' <=> y \in Range(q) \/ \E t \in Sources : t # s /\ y \in Linked(po[t])
<1>1. po \in [Sources -> PoType]
  BY DEF Structure, PoOK
<1>2. PoOK' /\ po'[s] = l /\ \A t \in Sources : t # s => po'[t] = po[t]
  BY <1>1 DEF PoOK
<1>3. Oldest(l) = q /\ Linked(l) = Range(q)
  BY PoListFacts
<1>4. ListsOK'
  BY <1>2, <1>3 DEF Structure, ListsOK
<1>5. QED
  BY <1>2, <1>3, <1>4 DEF AllLinked

\* bpfree of the slot in the RTP thread's hands.
LEMMA FreeStructure ==
  ASSUME Structure, NEW x \in Slot, Held = {x}, UNCHANGED <<po, leaked>>, bp' = bpfree(bp, x), Held' = {}
  PROVE  Structure' /\ FreeSlots(bp)' = FreeSlots(bp) \cup {x} /\ Unused' = Unused /\ bp'.moved = bp.moved
<1>1. /\ bp \in PoolType /\ Chain(bp.freelist, bp.flhead, FreeList) /\ FreeSlots(bp) = Range(FreeList)
      /\ bp.flcount = bp.size - Len(FreeList) /\ Len(FreeList) \in Nat
      /\ bp.size = (bp.moved + 1) * BP_SLOT_NUM /\ bp.size \in 1 .. BP_MAX_SIZE
  BY Pool
<1>2. x \notin Range(FreeList) /\ x \in 0 .. bp.size - 1
  BY <1>1, Partition
<1>3. /\ bp' \in PoolType /\ bp'.size = bp.size /\ bp'.moved = bp.moved /\ bp'.flcount = bp.flcount - 1
      /\ \E F : /\ Chain(bp'.freelist, bp'.flhead, F) /\ Len(F) = Len(FreeList) + 1
                /\ Range(F) = Range(FreeList) \cup {x}
  BY <1>1, <1>2, FreeSlot
<1>4. PICK F : /\ Chain(bp'.freelist, bp'.flhead, F) /\ Len(F) = Len(FreeList) + 1
               /\ Range(F) = Range(FreeList) \cup {x}
  BY <1>3
<1>5. bp'.flcount = bp'.size - Len(F)
  <2> DEFINE n == Len(FreeList)
             z == bp.size
  <2>1. bp'.flcount = (z - n) - 1 /\ Len(F) = n + 1 /\ z \in Nat /\ n \in Nat /\ bp'.size = z
    BY <1>1, <1>3, <1>4
  <2> HIDE DEF n, z
  <2>2. QED
    BY <2>1
<1>6. Range(F) \subseteq 0 .. bp'.size - 1
  BY <1>1, <1>2, <1>3, <1>4, Partition
<1>7. /\ BpOK' /\ FreeSlots(bp') = Range(F) /\ bp'.flcount = bp'.size - Cardinality(FreeSlots(bp'))
      /\ Chain(bp'.freelist, bp'.flhead, FreeList')
  BY <1>3, <1>4, <1>5, <1>6, PoolIntro DEF BpOK, FreeList
<1>8. PoolOK' /\ PoOK' /\ ListsOK'
  BY <1>1, <1>3, <1>7 DEF Structure, PoolOK, PoOK, ListsOK
<1>9. FreeSlots(bp') = FreeSlots(bp) \cup {x}
  BY <1>1, <1>4, <1>7
<1>10. SlotPartition'
  <2>1. AllLinked' = AllLinked /\ leaked' = leaked /\ \A s \in Sources : Linked(po[s])' = Linked(po[s])
    BY DEF AllLinked
  <2>2. /\ FreeSlots(bp') \cup Held' \cup leaked' \cup AllLinked' = 0 .. bp'.size - 1
        /\ FreeSlots(bp') \cap (Held' \cup leaked' \cup AllLinked') = {}
        /\ Held' \cap (leaked' \cup AllLinked') = {} /\ leaked' \cap AllLinked' = {}
    BY <1>3, <1>9, <2>1, Partition
  <2>3. \A s, t \in Sources : s # t => Linked(po[s])' \cap Linked(po[t])' = {}
    BY <2>1, Partition
  <2>4. QED
    BY <1>7, <2>2, <2>3 DEF SlotPartition, AllLinked
<1>11. QED
  BY <1>3, <1>7, <1>8, <1>9, <1>10 DEF Structure, Unused

\* A failed recvfrom forgets the slot.
LEMMA LoseStructure ==
  ASSUME Structure, NEW x \in Slot, Held = {x}, UNCHANGED <<bp, po>>, leaked' = leaked \cup {x}, Held' = {}
  PROVE  Structure'
<1>1. BpOK' /\ PoOK' /\ PoolOK' /\ ListsOK'
  BY DEF Structure, BpOK, PoOK, PoolOK, ListsOK, FreeList
<1>2. AllLinked' = AllLinked /\ FreeSlots(bp)' = FreeSlots(bp) /\ \A s \in Sources : Linked(po[s])' = Linked(po[s])
  BY DEF AllLinked
<1>3. /\ FreeSlots(bp)' \cup Held' \cup leaked' \cup AllLinked' = 0 .. bp'.size - 1
      /\ FreeSlots(bp)' \cap (Held' \cup leaked' \cup AllLinked') = {}
      /\ Held' \cap (leaked' \cup AllLinked') = {} /\ leaked' \cap AllLinked' = {}
  BY <1>2, Partition
<1>4. \A s, t \in Sources : s # t => Linked(po[s])' \cap Linked(po[t])' = {}
  BY <1>2, Partition
<1>5. SlotPartition'
  <2>1. bp'.flcount = bp'.size - Cardinality(FreeSlots(bp'))
    BY DEF Structure, SlotPartition
  <2>2. QED
    BY <1>3, <1>4, <2>1 DEF SlotPartition, AllLinked
<1>6. QED
  BY <1>1, <1>5 DEF Structure

\* poadd of the packet in the RTP thread's hands, at the head.
Links(s, x, c) ==
  /\ Held = {x} /\ UNCHANGED <<bp, leaked>> /\ Held' = {}
  /\ po' = [po EXCEPT ![s] = AddAtHead(@, x, c)]

\* What that leaves behind.
LinkedAt(s, x, c) ==
  /\ Structure' /\ x \notin Linked(po[s])
  /\ Oldest(po[s])' = Append(Oldest(po[s]), x) /\ Linked(po[s])' = Linked(po[s]) \cup {x}
  /\ po'[s].pohead = x /\ po'[s].cycles = c
  /\ po[s].potail # Nil => po'[s].potail = po[s].potail
  /\ \A t \in Sources : t # s => po'[t] = po[t]

LEMMA LinkStructure ==
  ASSUME Structure, NEW s \in Sources, NEW x \in Slot, NEW c \in Nat, Links(s, x, c)
  PROVE  LinkedAt(s, x, c)
<1> USE DEF Links
<1> DEFINE q == Oldest(po[s])
           l == AddAtHead(po[s], x, c)
<1>1. po[s] \in PoType /\ PoList(po[s], q) /\ Linked(po[s]) = Range(q)
  BY Lists
<1>2. x \notin Range(q) /\ x \notin AllLinked
  BY <1>1, Partition
<1> HIDE DEF q
<1> DEFINE r == Append(q, x)
<1>3. /\ PoList(l, r) /\ l \in PoType /\ l.cycles = c /\ l.pohead = x
      /\ Range(r) = Range(q) \cup {x}
      /\ po[s].potail # Nil => l.potail = po[s].potail
  BY <1>1, <1>2, AddHead
<1>4. po' = [po EXCEPT ![s] = l] /\ po'[s] = l
  BY DEF Structure, PoOK
<1> HIDE DEF l, r
<1>5. /\ PoOK' /\ ListsOK' /\ Oldest(po[s])' = r /\ Linked(po[s])' = Range(q) \cup {x}
      /\ \A t \in Sources : t # s => po'[t] = po[t]
      /\ \A y : y \in AllLinked' <=> y \in Range(q) \cup {x} \/ \E t \in Sources : t # s /\ y \in Linked(po[t])
  <2>1. /\ PoOK' /\ ListsOK' /\ Oldest(po[s])' = r /\ Linked(po[s])' = Range(r)
        /\ \A t \in Sources : t # s => po'[t] = po[t]
        /\ \A y : y \in AllLinked' <=> y \in Range(r) \/ \E t \in Sources : t # s /\ y \in Linked(po[t])
    BY <1>3, <1>4, ListsIntro
  <2>2. QED
    BY <1>3, <2>1
<1>6. AllLinked' = AllLinked \cup {x}
  BY <1>1, <1>5 DEF AllLinked
<1>7. BpOK' /\ PoolOK'
  BY DEF Structure, BpOK, PoolOK, FreeList
<1>8. SlotPartition'
  <2>1. FreeSlots(bp)' = FreeSlots(bp) /\ bp' = bp /\ leaked' = leaked
    OBVIOUS
  <2>2. /\ FreeSlots(bp') \cup Held' \cup leaked' \cup AllLinked' = 0 .. bp'.size - 1
        /\ FreeSlots(bp') \cap (Held' \cup leaked' \cup AllLinked') = {}
        /\ Held' \cap (leaked' \cup AllLinked') = {} /\ leaked' \cap AllLinked' = {}
    BY <1>6, <2>1, Partition
  <2>3. ASSUME NEW t \in Sources, NEW u \in Sources, t # u PROVE Linked(po[t])' \cap Linked(po[u])' = {}
    <3>1. Linked(po[t]) \cap Linked(po[u]) = {} /\ x \notin Linked(po[t]) /\ x \notin Linked(po[u])
      BY <1>2, <2>3, Partition
    <3>2. \A v \in Sources : Linked(po[v])' \subseteq Linked(po[v]) \cup (IF v = s THEN {x} ELSE {})
      BY <1>1, <1>5
    <3>3. QED
      BY <2>3, <3>1, <3>2
  <2>4. bp'.flcount = bp'.size - Cardinality(FreeSlots(bp'))
    BY DEF Structure, SlotPartition
  <2>5. QED
    BY <2>2, <2>3, <2>4 DEF SlotPartition, AllLinked
<1>9. QED
  BY <1>1, <1>2, <1>3, <1>4, <1>5, <1>7, <1>8 DEF LinkedAt, Structure, q, r

\* The slots R of the list of s go back to the pool: the list becomes l, with the slots q,
\* and F is the new free list.
Returns(s, R, l, q, F) ==
  /\ l \in PoType /\ PoList(l, q) /\ po' = [po EXCEPT ![s] = l]
  /\ Linked(po[s]) = Range(q) \cup R /\ Range(q) \cap R = {}
  /\ bp' \in PoolType /\ bp'.size = bp.size /\ bp'.moved = bp.moved
  /\ Chain(bp'.freelist, bp'.flhead, F) /\ Range(F) = FreeSlots(bp) \cup R
  /\ bp'.flcount = bp.size - Len(F)

LEMMA ReturnStructure ==
  ASSUME Structure, UNCHANGED leaked, Held' = Held,
         NEW s \in Sources, NEW R, NEW l, NEW q, NEW F, Returns(s, R, l, q, F)
  PROVE  /\ Structure' /\ FreeSlots(bp)' = FreeSlots(bp) \cup R /\ Unused' = Unused
         /\ Oldest(po[s])' = q /\ Linked(po[s])' = Linked(po[s]) \ R
         /\ \A t \in Sources : t # s => po'[t] = po[t]
<1> USE DEF Returns
<1>1. Range(F) \subseteq 0 .. bp'.size - 1
  BY Partition
<1>2. /\ BpOK' /\ FreeSlots(bp') = Range(F) /\ bp'.flcount = bp'.size - Cardinality(FreeSlots(bp'))
      /\ Chain(bp'.freelist, bp'.flhead, FreeList')
  BY <1>1, PoolIntro DEF BpOK, FreeList
<1>3. PoolOK'
  BY <1>2, Pool DEF PoolOK
<1>4. /\ PoOK' /\ ListsOK' /\ Oldest(po[s])' = q /\ Linked(po[s])' = Range(q)
      /\ \A t \in Sources : t # s => po'[t] = po[t]
      /\ \A y : y \in AllLinked' <=> y \in Range(q) \/ \E t \in Sources : t # s /\ y \in Linked(po[t])
  BY ListsIntro
<1>5. AllLinked' = AllLinked \ R /\ R \subseteq AllLinked
  <2>1. \A y : y \in AllLinked <=> \E t \in Sources : y \in Linked(po[t])
    BY DEF AllLinked
  <2>2. \A t \in Sources : t # s => Linked(po[t]) \cap R = {}
    BY Partition
  <2> HIDE DEF AllLinked
  <2>3. \A y : y \in AllLinked' <=> y \in AllLinked /\ y \notin R
    BY <1>4, <2>1, <2>2
  <2>4. QED
    BY <2>1, <2>3
<1>6. SlotPartition'
  <2>1. /\ FreeSlots(bp') \cup Held' \cup leaked' \cup AllLinked' = 0 .. bp'.size - 1
        /\ FreeSlots(bp') \cap (Held' \cup leaked' \cup AllLinked') = {}
        /\ Held' \cap (leaked' \cup AllLinked') = {} /\ leaked' \cap AllLinked' = {}
    BY <1>2, <1>5, Partition
  <2>2. \A t \in Sources : Linked(po[t])' \subseteq Linked(po[t])
    BY <1>4
  <2>3. \A t, u \in Sources : t # u => Linked(po[t])' \cap Linked(po[u])' = {}
    BY <2>2, Partition
  <2>4. QED
    BY <1>2, <2>1, <2>3 DEF SlotPartition, AllLinked
<1>7. QED
  BY <1>2, <1>3, <1>4, <1>6 DEF Structure, Unused

\* bprmv of the oldest packet of s.
Removes(s, x) ==
  /\ UNCHANGED leaked /\ Held' = Held /\ x = po[s].potail /\ x # Nil
  /\ po' = [po EXCEPT ![s] = podel(@, x)] /\ bp' = bpfree(bp, x)

LEMMA RemoveStructure ==
  ASSUME Structure, NEW s \in Sources, NEW x, Removes(s, x)
  PROVE  /\ Structure' /\ FreeSlots(bp)' = FreeSlots(bp) \cup {x} /\ Unused' = Unused
         /\ bp'.moved = bp.moved
         /\ x \in Slot /\ x \in Linked(po[s]) /\ Oldest(po[s]) # <<>> /\ x = Oldest(po[s])[1]
         /\ Oldest(po[s])' = Tail(Oldest(po[s])) /\ Linked(po[s])' = Linked(po[s]) \ {x}
         /\ po'[s].pohead # Nil => /\ po'[s].pohead = po[s].pohead /\ po[s].pohead # x
                                   /\ po'[s].cycles = po[s].cycles
         /\ \A t \in Sources : t # s => po'[t] = po[t]
<1> USE DEF Removes
<1> DEFINE q == Oldest(po[s])
           l == podel(po[s], x)
<1>1. po[s] \in PoType /\ PoList(po[s], q) /\ Linked(po[s]) = Range(q)
  BY Lists
<1>2. po' = [po EXCEPT ![s] = l] /\ po'[s] = l
  BY DEF Structure, PoOK
<1> HIDE DEF q
<1>3. Chain(po[s].prev, po[s].potail, q)
  BY <1>1, PoListFacts
<1>4. q # <<>> /\ x = q[1] /\ x \in Range(q) /\ x \in Slot
  <2>1. q # <<>>
    BY <1>3, ChainType
  <2>2. QED
    BY <1>3, <2>1, ChainTail
<1> DEFINE r == Tail(q)
<1>5. Range(r) = Range(q) \ {x}
  BY <1>3, <1>4, ChainTail
<1>6. /\ PoList(l, r) /\ l \in PoType /\ l.cycles = po[s].cycles
      /\ Len(q) > 1 => l.pohead = po[s].pohead
      /\ Len(q) = 1 => l.pohead = Nil
  <2>1. x = po[s].potail
    BY <1>3, <1>4 DEF Chain
  <2>2. l = podel(po[s], po[s].potail)
    BY <2>1
  <2> HIDE DEF l
  <2>3. QED
    BY <1>1, <1>4, <2>2, RemoveTail
<1> HIDE DEF l, r
<1>7. /\ bp \in PoolType /\ Chain(bp.freelist, bp.flhead, FreeList) /\ FreeSlots(bp) = Range(FreeList)
      /\ bp.flcount = bp.size - Len(FreeList) /\ Len(FreeList) \in Nat /\ bp.size \in 1 .. BP_MAX_SIZE
  BY Pool
<1>8. x \notin Range(FreeList)
  BY <1>1, <1>4, <1>7, Partition
<1>9. /\ bp' \in PoolType /\ bp'.size = bp.size /\ bp'.moved = bp.moved /\ bp'.flcount = bp.flcount - 1
      /\ \E F : /\ Chain(bp'.freelist, bp'.flhead, F) /\ Len(F) = Len(FreeList) + 1
                /\ Range(F) = Range(FreeList) \cup {x}
  BY <1>4, <1>7, <1>8, FreeSlot
<1>10. PICK F : /\ Chain(bp'.freelist, bp'.flhead, F) /\ Len(F) = Len(FreeList) + 1
                /\ Range(F) = Range(FreeList) \cup {x}
  BY <1>9
<1>11. bp'.flcount = bp.size - Len(F)
  <2> DEFINE n == Len(FreeList)
             z == bp.size
  <2>1. bp'.flcount = (z - n) - 1 /\ Len(F) = n + 1 /\ z \in Nat /\ n \in Nat
    BY <1>7, <1>9, <1>10
  <2> HIDE DEF n, z
  <2>2. bp'.flcount = z - Len(F)
    BY <2>1
  <2>3. QED
    BY <2>2 DEF z
<1>12. /\ Linked(po[s]) = Range(r) \cup {x} /\ Range(r) \cap {x} = {} /\ Range(F) = FreeSlots(bp) \cup {x}
  BY <1>1, <1>4, <1>5, <1>7, <1>10
<1>13. /\ Structure' /\ FreeSlots(bp)' = FreeSlots(bp) \cup {x} /\ Unused' = Unused
       /\ Oldest(po[s])' = r /\ Linked(po[s])' = Linked(po[s]) \ {x}
       /\ \A t \in Sources : t # s => po'[t] = po[t]
  <2>1. Returns(s, {x}, l, r, F)
    BY <1>2, <1>6, <1>9, <1>10, <1>11, <1>12 DEF Returns
  <2>2. QED
    BY <2>1, ReturnStructure
<1>14. l.pohead # Nil => l.pohead = po[s].pohead /\ po[s].pohead # x
  <2>1. PICK n \in Nat : n = Len(q)
    BY <1>3, ChainType
  <2>2. n # 0 /\ po[s].pohead = (IF n = 0 THEN Nil ELSE q[n])
    BY <1>1, <1>3, <1>4, <2>1, PoListFacts, ChainType
  <2>3. \A i, j \in 1 .. n : q[i] = q[j] => i = j
    BY <1>3, <2>1 DEF Chain
  <2>4. CASE n = 1
    BY <1>6, <2>1, <2>4
  <2>5. CASE n > 1
    BY <1>4, <1>6, <2>1, <2>2, <2>3, <2>5
  <2>6. QED
    BY <2>2, <2>4, <2>5
<1>15. QED
  BY <1>1, <1>2, <1>4, <1>6, <1>9, <1>13, <1>14 DEF q, r

\* rtp_rm_all_pkts.
Clears(s, r) ==
  /\ UNCHANGED leaked /\ Held' = Held
  /\ r = RemoveAll(bp, po[s]) /\ bp' = r.bp /\ po' = [po EXCEPT ![s] = r.po]

LEMMA ClearStructure ==
  ASSUME Structure, NEW s \in Sources, NEW r, Clears(s, r)
  PROVE  /\ Structure' /\ FreeSlots(bp)' = FreeSlots(bp) \cup Linked(po[s]) /\ Unused' = Unused
         /\ bp'.moved = bp.moved
         /\ Oldest(po[s])' = <<>> /\ Linked(po[s])' = {} /\ po'[s].pohead = Nil
         /\ \A t \in Sources : t # s => po'[t] = po[t]
<1> USE DEF Clears
<1> DEFINE q == Oldest(po[s])
           l == r.po
<1>1. po[s] \in PoType /\ PoList(po[s], q) /\ Linked(po[s]) = Range(q)
  BY Lists
<1>2. po' = [po EXCEPT ![s] = l] /\ po'[s] = l
  BY DEF Structure, PoOK
<1> HIDE DEF q
<1>3. /\ bp \in PoolType /\ Chain(bp.freelist, bp.flhead, FreeList) /\ FreeSlots(bp) = Range(FreeList)
      /\ bp.flcount = bp.size - Len(FreeList) /\ Len(FreeList) \in Nat /\ bp.size \in 1 .. BP_MAX_SIZE
  BY Pool
<1>4. Range(FreeList) \cap Range(q) = {}
  BY <1>1, <1>3, Partition
<1>5. /\ r.bp \in PoolType /\ r.bp.size = bp.size /\ r.bp.moved = bp.moved
      /\ r.bp.flcount = bp.flcount - Len(q)
      /\ \E G : /\ Chain(r.bp.freelist, r.bp.flhead, G) /\ Len(G) = Len(FreeList) + Len(q)
                /\ Range(G) = Range(FreeList) \cup Range(q)
      /\ r.po \in PoType /\ PoList(r.po, <<>>)
  BY <1>1, <1>3, <1>4, RemoveAllFrees
<1>6. PICK F : /\ Chain(r.bp.freelist, r.bp.flhead, F) /\ Len(F) = Len(FreeList) + Len(q)
               /\ Range(F) = Range(FreeList) \cup Range(q)
  BY <1>5
<1>7. bp'.flcount = bp.size - Len(F)
  <2> DEFINE n == Len(FreeList)
             z == bp.size
             k == Len(q)
  <2>1. bp'.flcount = (z - n) - k /\ Len(F) = n + k /\ z \in Nat /\ n \in Nat
    BY <1>3, <1>5, <1>6
  <2>2. k \in Nat
    BY <1>1, PoListFacts, ChainType
  <2> HIDE DEF n, z, k
  <2>3. bp'.flcount = z - Len(F)
    BY <2>1, <2>2
  <2>4. QED
    BY <2>3 DEF z
<1>8. Range(<<>>) = {}
  BY DEF Range
<1>9. Linked(po[s]) = Range(<<>>) \cup Range(q) /\ Range(<<>>) \cap Range(q) = {} /\ Range(F) = FreeSlots(bp) \cup Range(q)
  BY <1>1, <1>3, <1>6, <1>8
<1>10. PICK e : e = <<>>
  OBVIOUS
<1> HIDE DEF l
<1>11. /\ Structure' /\ FreeSlots(bp)' = FreeSlots(bp) \cup Range(q) /\ Unused' = Unused
       /\ Oldest(po[s])' = e /\ Linked(po[s])' = Linked(po[s]) \ Range(q)
       /\ \A t \in Sources : t # s => po'[t] = po[t]
  <2>1. l \in PoType /\ PoList(l, e) /\ bp' \in PoolType /\ bp'.size = bp.size /\ bp'.moved = bp.moved
    BY <1>5, <1>10 DEF l
  <2>2. Returns(s, Range(q), l, e, F)
    BY <1>2, <1>6, <1>7, <1>9, <1>10, <2>1 DEF Returns
  <2>3. QED
    BY <2>2, ReturnStructure
<1>12. l.pohead = Nil
  <2>1. l.pohead = (IF Len(<<>>) = 0 THEN Nil ELSE <<>>[Len(<<>>)])
    BY <1>5, PoListFacts DEF l
  <2>2. QED
    BY <2>1
<1>13. QED
  BY <1>1, <1>2, <1>5, <1>10, <1>11, <1>12

-----------------------------------------------------------------------------
(***************************************************************************)
(* The invariant is inductive.                                             *)
(***************************************************************************)
\* The types of the variables that are not the pool and the lists.
Types ==
  /\ packet \in [Slot -> [src : Sources \cup {None}, ext : 0 .. MaxExt, seq : SeqNum,
                         era : 0 .. MaxSeeks]]
  /\ pktlen \in [Slot -> 0 .. MaxExt]
  /\ stats \in [Sources -> Stats]
  /\ active \subseteq known /\ known \subseteq Sources
  /\ done_seek \in [Sources -> BOOLEAN]
  /\ recv \in [pc : {"select", "waiting", "woken", "recvfrom", "known", "seekdone",
                    "poadd", "pktlen", "bpfree"},
               slot : Link, src : Sources \cup {None}, reset : BOOLEAN]
  /\ app \in [pc : {"idle", "get", "pointer", "use", "rm", "bprmv", "seek", "rmall"},
              src : Sources \cup {None}, index : Link, moved : 0 .. BP_MAX_SIZE,
              len : 0 .. MaxExt, used : 0 .. MaxExt, toclear : SUBSET Sources]
  /\ sent \in [Sources -> Nat] /\ plays \in 0 .. MaxSeeks
  /\ played \in [Sources -> 0 .. MaxExt]
  /\ leaked \subseteq Slot

LEMMA InvParts == Inv <=> /\ Structure /\ Types /\ ThreadsOK /\ OrderOK /\ HeldOK
                          /\ FollowOK /\ HeadOK /\ NoSeekOK
BY DEF Inv, TypeOK, Structure, BpOK, PoOK, PoType, Types

LEMMA InvPartsNext == Inv' <=> /\ Structure' /\ Types' /\ ThreadsOK' /\ OrderOK' /\ HeldOK'
                               /\ FollowOK' /\ HeadOK' /\ NoSeekOK'
BY DEF Inv, TypeOK, Structure, BpOK, PoOK, PoType, Types

\* The constants, as the proofs of the steps use them.
LEMMA Ranges ==
  /\ FirstExt \in Nat \ {0} /\ MaxExt \in Nat /\ MaxSeeks \in Nat
  /\ RTP_SEQ_MOD \in Nat \ {0, 1} /\ MAX_DROPOUT \in Nat \ {0, 1}
  /\ Nil \notin Slot /\ Link = Slot \cup {Nil} /\ 0 \in Slot
  /\ 0 \in SeqNum /\ NoStats \in Stats
<1>1. FirstExt \in Nat \ {0} /\ MaxExt \in Nat /\ MaxSeeks \in Nat
  BY BufferAssumption DEF BufferAssumption
<1>2. RTP_SEQ_MOD \in Nat \ {0, 1} /\ MAX_DROPOUT \in Nat \ {0, 1} /\ MIN_SEQUENTIAL \in Nat \ {0}
  BY HeaderNumbers, SequenceAssumption DEF SequenceAssumption
<1>3. Nil \notin Slot /\ Link = Slot \cup {Nil} /\ 0 \in Slot
  BY Constants
<1>4. 0 \in SeqNum /\ 0 \in 0 .. MIN_SEQUENTIAL
  BY <1>2 DEF SeqNum
<1>5. NoStats \in Stats
  BY <1>4 DEF NoStats, Stats
<1>6. QED
  BY <1>1, <1>2, <1>3, <1>4, <1>5

LEMMA InitInv == Init => Inv
<1> SUFFICES ASSUME Init PROVE Inv
  OBVIOUS
<1> USE DEF Init
<1>1. BpOK /\ PoolOK /\ FreeSlots(bp) = 0 .. bp.size - 1 /\ bp.flcount = bp.size - Cardinality(FreeSlots(bp))
  <2> DEFINE t == Threaded([i \in Slot |-> Nil], 0, BP_SLOT_NUM)
  <2>1. BP_SLOT_NUM \in Nat /\ 0 < BP_SLOT_NUM /\ BP_SLOT_NUM <= BP_MAX_SIZE /\ BP_MAX_SIZE \in Nat
    BY Constants, PoolAssumption DEF PoolAssumption
  <2>2. PICK F : Chain(t, 0, F) /\ Len(F) = BP_SLOT_NUM - 0 /\ Range(F) = 0 .. BP_SLOT_NUM - 1
    BY <2>1, ThreadedChain
  <2>3. t \in [Slot -> Link]
    <3>1. \A i \in 0 .. BP_SLOT_NUM - 2 : i + 1 \in Slot
      BY <2>1, Constants
    <3>2. QED
      BY <3>1, Constants DEF Threaded
  <2>4. bp = [freelist |-> t, flhead |-> 0, flcount |-> 0, size |-> BP_SLOT_NUM, moved |-> 0]
    BY DEF bpinit
  <2> HIDE DEF t
  <2>5. /\ bp \in PoolType /\ bp.size = BP_SLOT_NUM /\ bp.moved = 0 /\ bp.flcount = 0
        /\ bp.freelist = t /\ bp.flhead = 0
    <3>1. BP_SLOT_NUM \in 1 .. BP_MAX_SIZE /\ 0 \in 0 .. BP_MAX_SIZE
      BY <2>1
    <3>2. QED
      BY <2>3, <2>4, <3>1, Ranges DEF PoolType
  <2>6. Chain(bp.freelist, bp.flhead, F) /\ Range(F) = 0 .. bp.size - 1 /\ bp.flcount = bp.size - Len(F)
    BY <2>1, <2>2, <2>5
  <2>7. BpOK /\ FreeSlots(bp) = Range(F) /\ bp.flcount = bp.size - Cardinality(FreeSlots(bp))
        /\ Chain(bp.freelist, bp.flhead, FreeList)
    BY <2>5, <2>6, PoolIntro DEF BpOK, FreeList
  <2>8. bp.size = (bp.moved + 1) * BP_SLOT_NUM
    BY <2>1, <2>5
  <2>9. QED
    BY <2>6, <2>7, <2>8 DEF PoolOK
<1>2. /\ PoOK /\ ListsOK
      /\ \A s \in Sources : Linked(po[s]) = {} /\ Oldest(po[s]) = <<>> /\ po[s].pohead = Nil
  <2>1. PoList(poinit, <<>>) /\ poinit \in PoType
    BY EmptyPoList
  <2>2. Oldest(poinit) = <<>> /\ Linked(poinit) = {} /\ poinit.pohead = Nil
    <3>1. Oldest(poinit) = <<>> /\ Linked(poinit) = Range(<<>>)
      BY <2>1, PoListFacts
    <3>2. Range(<<>>) = {}
      BY DEF Range
    <3>3. QED
      BY <3>1, <3>2 DEF poinit
  <2>3. QED
    BY <2>1, <2>2 DEF PoOK, ListsOK
<1>3. Held = {} /\ leaked = {}
  BY DEF Held
<1>4. SlotPartition
  <2>1. UNION {Linked(po[s]) : s \in Sources} = {}
    BY <1>2
  <2>2. QED
    BY <1>1, <1>2, <1>3, <2>1 DEF SlotPartition
<1>5. Types
  <2>1. Blank \in [src : Sources \cup {None}, ext : 0 .. MaxExt, seq : SeqNum, era : 0 .. MaxSeeks]
    BY Ranges DEF Blank
  <2>2. FirstExt - 1 \in Nat /\ 0 \in 0 .. MaxExt /\ 0 \in 0 .. MaxSeeks /\ 0 \in 0 .. BP_MAX_SIZE
    BY Ranges, Constants
  <2>3. QED
    BY <2>1, <2>2, Ranges DEF Types
<1>6. ThreadsOK
  BY DEF ThreadsOK
<1>7. OrderOK
  <2>1. \A s \in Sources : played[s] \in 0 .. sent[s]
    BY Ranges
  <2>2. DOMAIN <<>> = {}
    OBVIOUS
  <2>3. QED
    BY <1>2, <2>1, <2>2 DEF OrderOK
<1>8. HeldOK /\ FollowOK /\ HeadOK /\ NoSeekOK
  BY <1>2 DEF HeldOK, FollowOK, HeadOK, NoSeekOK
<1>9. QED
  BY <1>1, <1>2, <1>4, <1>5, <1>6, <1>7, <1>8, InvParts DEF Structure

\* The two ends of a list are linked.
LEMMA HeadLinked ==
  ASSUME Structure, NEW s \in Sources
  PROVE  /\ po[s].pohead # Nil => po[s].pohead \in Linked(po[s])
         /\ po[s].potail # Nil => po[s].potail \in Linked(po[s])
         /\ po[s].pohead = Nil => Linked(po[s]) = {}
<1> DEFINE q == Oldest(po[s])
<1>1. PoList(po[s], q) /\ Linked(po[s]) = Range(q)
  BY Lists
<1> HIDE DEF q
<1>2. Chain(po[s].prev, po[s].potail, q) /\ po[s].pohead = IF Len(q) = 0 THEN Nil ELSE q[Len(q)]
  BY <1>1, PoListFacts
<1>3. PICK n \in Nat : n = Len(q)
  BY <1>2, ChainType
<1>4. Range(q) = {q[i] : i \in 1 .. n} /\ (po[s].potail = Nil <=> n = 0) /\ (q = <<>> <=> n = 0) /\ \A i \in 1 .. n : q[i] # Nil
  BY <1>2, <1>3, ChainType
<1>5. po[s].pohead = IF n = 0 THEN Nil ELSE q[n]
  BY <1>2, <1>3
<1>6. po[s].potail # Nil => po[s].potail = q[1]
  BY <1>2, <1>4 DEF Chain
<1>7. n # 0 => 1 \in 1 .. n /\ n \in 1 .. n
  OBVIOUS
<1>8. QED
  BY <1>1, <1>4, <1>5, <1>6, <1>7

\* Steps that change no packet and no list.
LEMMA QuietKept ==
  ASSUME Inv, UNCHANGED <<bp, packet, po, sent, played, leaked>>, Held' = Held
  PROVE  Structure' /\ OrderOK' /\ HeadOK'
<1>1. Structure'
  BY InvParts, StructureKept
<1>2. OrderOK'
  BY InvParts DEF OrderOK, Numbered
<1>3. HeadOK'
  BY InvParts DEF HeadOK
<1>4. QED
  BY <1>1, <1>2, <1>3

\* Steps that change no packet of a list, and nothing else of the lists.
LEMMA OrderKept ==
  ASSUME Inv, UNCHANGED <<po, played>>,
         \A s \in Sources : sent'[s] \in Nat /\ sent'[s] >= sent[s],
         \A s \in Sources : \A x \in Linked(po[s]) : packet'[x] = packet[x]
  PROVE  OrderOK' /\ HeadOK'
<1>1. OrderOK /\ HeadOK /\ Structure /\ Types
  BY InvParts
<1>2. OrderOK'
  <2> SUFFICES ASSUME NEW s \in Sources
               PROVE  LET list == Oldest(po[s])
                      IN  /\ played[s] \in 0 .. sent'[s]
                          /\ \A x \in Linked(po[s]) : Numbered(x, s)' /\ packet'[x].ext \in played[s] .. sent'[s]
                          /\ \A i, j \in DOMAIN list : i < j => packet'[list[i]].ext < packet'[list[j]].ext
    BY DEF OrderOK
  <2> DEFINE list == Oldest(po[s])
  <2>1. \A i \in DOMAIN list : list[i] \in Linked(po[s])
    BY <1>1, Lists DEF Range
  <2>2. sent[s] \in Nat /\ played[s] \in 0 .. sent[s] /\ \A x \in Linked(po[s]) : packet[x].ext \in played[s] .. sent[s]
    BY <1>1 DEF OrderOK, Types
  <2>3. \A x \in Linked(po[s]) : Numbered(x, s)' /\ packet'[x].ext \in played[s] .. sent'[s]
    BY <1>1, <2>2 DEF OrderOK, Numbered
  <2>4. \A i, j \in DOMAIN list : i < j => packet[list[i]].ext < packet[list[j]].ext
    BY <1>1 DEF OrderOK
  <2> HIDE DEF list
  <2>5. \A i, j \in DOMAIN list : i < j => packet'[list[i]].ext < packet'[list[j]].ext
    BY <2>1, <2>4
  <2>6. QED
    BY <2>2, <2>3, <2>5 DEF list
<1>3. \A s \in Sources : po[s].pohead # Nil => po[s].pohead \in Linked(po[s])
  BY <1>1, HeadLinked
<1>4. HeadOK'
  BY <1>1, <1>3 DEF HeadOK
<1>5. QED
  BY <1>2, <1>4

LEMMA GetWaitsStep == ASSUME Tame, Inv, GetWaits PROVE Inv'
<1> USE DEF GetWaits, vars, pool, sources, network, history, RecvTo, InBpget
<1>1. Structure /\ Types /\ ThreadsOK /\ HeldOK /\ FollowOK /\ NoSeekOK
  BY InvParts
<1>2. Held' = Held
  BY <1>1 DEF Held, Types
<1>3. Structure' /\ OrderOK' /\ HeadOK'
  BY <1>2, QuietKept
<1>4. Types'
  BY <1>1, Ranges DEF Types
<1>5. ThreadsOK'
  BY <1>1 DEF ThreadsOK, Types
<1>6. HeldOK'
  BY <1>1 DEF HeldOK, Types, Numbered
<1>7. FollowOK'
  BY <1>1 DEF FollowOK, Untracked, Types
<1>8. NoSeekOK'
  BY <1>1, Positions DEF NoSeekOK, Types, Complete, Tame
<1>9. QED
  BY <1>3, <1>4, <1>5, <1>6, <1>7, <1>8, InvPartsNext

LEMMA BadHeaderStep == ASSUME Tame, Inv, BadHeader PROVE Inv'
<1> USE DEF BadHeader, vars, pool, sources, network, history, RecvTo
<1>1. Structure /\ Types /\ ThreadsOK /\ HeldOK /\ FollowOK /\ NoSeekOK
  BY InvParts
<1>2. Held' = Held
  BY <1>1 DEF Held, Types
<1>3. Structure' /\ OrderOK' /\ HeadOK'
  BY <1>2, QuietKept
<1>4. Types'
  BY <1>1, Ranges DEF Types
<1>5. ThreadsOK'
  BY <1>1 DEF ThreadsOK, Types
<1>6. HeldOK'
  BY <1>1 DEF HeldOK, Types, Numbered
<1>7. FollowOK'
  BY <1>1 DEF FollowOK, Untracked, Types
<1>8. NoSeekOK'
  BY <1>1, Positions DEF NoSeekOK, Types, Complete, Tame
<1>9. QED
  BY <1>3, <1>4, <1>5, <1>6, <1>7, <1>8, InvPartsNext

LEMMA SeekDoneStep == ASSUME Tame, Inv, SeekDone PROVE Inv'
<1> USE DEF SeekDone, vars, pool, sources, network, history
<1>1. Structure /\ Types /\ ThreadsOK /\ HeldOK /\ FollowOK /\ NoSeekOK
  BY InvParts
<1>2. Held' = Held
  BY <1>1 DEF Held, Types
<1>3. Structure' /\ OrderOK' /\ HeadOK'
  BY <1>2, QuietKept
<1>4. Types'
  BY <1>1, Ranges DEF Types
<1>5. ThreadsOK'
  BY <1>1 DEF ThreadsOK, Types
<1>6. HeldOK'
  BY <1>1 DEF HeldOK, Types, Numbered
<1>7. FollowOK'
  BY <1>1 DEF FollowOK, Untracked, Types
<1>8. NoSeekOK'
  BY <1>1, Positions DEF NoSeekOK, Types, Complete, Tame
<1>9. QED
  BY <1>3, <1>4, <1>5, <1>6, <1>7, <1>8, InvPartsNext

LEMMA SetLengthStep == ASSUME Tame, Inv, SetLength PROVE Inv'
<1> USE DEF SetLength, vars, pool, sources, network, history, RecvDone
<1>1. Structure /\ Types /\ ThreadsOK /\ HeldOK /\ FollowOK /\ NoSeekOK
  BY InvParts
<1>2. Held' = Held
  BY <1>1 DEF Held, Types
<1>3. Structure' /\ OrderOK' /\ HeadOK'
  BY <1>2, QuietKept
<1>4. Types'
  BY <1>1, Ranges DEF Types
<1>5. ThreadsOK'
  BY <1>1 DEF ThreadsOK, Types
<1>6. HeldOK'
  BY <1>1 DEF HeldOK, Types, Numbered
<1>7. FollowOK'
  BY <1>1 DEF FollowOK, Untracked, Types
<1>8. NoSeekOK'
  BY <1>1, Positions DEF NoSeekOK, Types, Complete, Tame
<1>9. QED
  BY <1>3, <1>4, <1>5, <1>6, <1>7, <1>8, InvPartsNext

LEMMA GetPktStep == ASSUME Tame, Inv, GetPkt PROVE Inv'
<1> USE DEF GetPkt, vars, pool, sources, network, history
<1>1. Structure /\ Types /\ ThreadsOK /\ HeldOK /\ FollowOK /\ NoSeekOK
  BY InvParts
<1>2. Held' = Held
  BY <1>1 DEF Held, Types
<1>3. Structure' /\ OrderOK' /\ HeadOK'
  BY <1>2, QuietKept
<1>4. Types'
  <2>1. app.src \in Sources
    BY <1>1 DEF ThreadsOK
  <2>2. po[app.src].potail \in Link /\ bp.moved \in 0 .. BP_MAX_SIZE
    BY <1>1, <2>1 DEF Structure, PoOK, PoType, BpOK
  <2>3. app.index \in Link /\ (app.pc \in {"pointer", "use"} => app.index \in Slot)
    BY <1>1, Ranges DEF ThreadsOK, Types
  <2>4. \A i \in Slot : pktlen[i] \in 0 .. MaxExt /\ packet[i].ext \in 0 .. MaxExt
    BY <1>1 DEF Types
  <2>5. app' \in [pc : {"idle", "get", "pointer", "use", "rm", "bprmv", "seek", "rmall"},
                  src : Sources \cup {None}, index : Link, moved : 0 .. BP_MAX_SIZE,
                  len : 0 .. MaxExt, used : 0 .. MaxExt, toclear : SUBSET Sources]
    <3>1. app \in [pc : {"idle", "get", "pointer", "use", "rm", "bprmv", "seek", "rmall"},
                  src : Sources \cup {None}, index : Link, moved : 0 .. BP_MAX_SIZE,
                  len : 0 .. MaxExt, used : 0 .. MaxExt, toclear : SUBSET Sources]
      BY <1>1 DEF Types
    <3>2. QED
      BY <2>2, <2>3, <2>4, <3>1
  <2>6. QED
    BY <1>1, <2>5 DEF Types
<1>5. ThreadsOK'
  BY <1>1 DEF ThreadsOK, Types
<1>6. HeldOK'
  BY <1>1 DEF HeldOK, Types, Numbered
<1>7. FollowOK'
  BY <1>1 DEF FollowOK, Untracked, Types
<1>8. NoSeekOK'
  BY <1>1, Positions DEF NoSeekOK, Types, Complete, Tame
<1>9. QED
  BY <1>3, <1>4, <1>5, <1>6, <1>7, <1>8, InvPartsNext

LEMMA TakePointerStep == ASSUME Tame, Inv, TakePointer PROVE Inv'
<1> USE DEF TakePointer, vars, pool, sources, network, history
<1>1. Structure /\ Types /\ ThreadsOK /\ HeldOK /\ FollowOK /\ NoSeekOK
  BY InvParts
<1>2. Held' = Held
  BY <1>1 DEF Held, Types
<1>3. Structure' /\ OrderOK' /\ HeadOK'
  BY <1>2, QuietKept
<1>4. Types'
  <2>1. app.src \in Sources
    BY <1>1 DEF ThreadsOK
  <2>2. po[app.src].potail \in Link /\ bp.moved \in 0 .. BP_MAX_SIZE
    BY <1>1, <2>1 DEF Structure, PoOK, PoType, BpOK
  <2>3. app.index \in Link /\ (app.pc \in {"pointer", "use"} => app.index \in Slot)
    BY <1>1, Ranges DEF ThreadsOK, Types
  <2>4. \A i \in Slot : pktlen[i] \in 0 .. MaxExt /\ packet[i].ext \in 0 .. MaxExt
    BY <1>1 DEF Types
  <2>5. app' \in [pc : {"idle", "get", "pointer", "use", "rm", "bprmv", "seek", "rmall"},
                  src : Sources \cup {None}, index : Link, moved : 0 .. BP_MAX_SIZE,
                  len : 0 .. MaxExt, used : 0 .. MaxExt, toclear : SUBSET Sources]
    <3>1. app \in [pc : {"idle", "get", "pointer", "use", "rm", "bprmv", "seek", "rmall"},
                  src : Sources \cup {None}, index : Link, moved : 0 .. BP_MAX_SIZE,
                  len : 0 .. MaxExt, used : 0 .. MaxExt, toclear : SUBSET Sources]
      BY <1>1 DEF Types
    <3>2. QED
      BY <2>2, <2>3, <2>4, <3>1
  <2>6. QED
    BY <1>1, <2>5 DEF Types
<1>5. ThreadsOK'
  <2>1. bp.moved \in 0 .. bp.moved
    BY <1>1, Pool
  <2>2. app'.moved = bp.moved /\ app'.pc = "use" /\ app'.index = app.index /\ app'.src = app.src
    BY <1>1 DEF Types
  <2>3. app.index = po[app.src].potail /\ app.index # Nil /\ app.src \in Sources
    BY <1>1 DEF ThreadsOK
  <2>4. QED
    BY <1>1, <2>1, <2>2, <2>3 DEF ThreadsOK
<1>6. HeldOK'
  BY <1>1 DEF HeldOK, Types, Numbered
<1>7. FollowOK'
  BY <1>1 DEF FollowOK, Untracked, Types
<1>8. NoSeekOK'
  BY <1>1, Positions DEF NoSeekOK, Types, Complete, Tame
<1>9. QED
  BY <1>3, <1>4, <1>5, <1>6, <1>7, <1>8, InvPartsNext

LEMMA UsePacketStep == ASSUME Tame, Inv, UsePacket PROVE Inv'
<1> USE DEF UsePacket, vars, pool, sources, network, history
<1>1. Structure /\ Types /\ ThreadsOK /\ HeldOK /\ FollowOK /\ NoSeekOK
  BY InvParts
<1>2. Held' = Held
  BY <1>1 DEF Held, Types
<1>3. Structure' /\ OrderOK' /\ HeadOK'
  BY <1>2, QuietKept
<1>4. Types'
  <2>1. app.src \in Sources
    BY <1>1 DEF ThreadsOK
  <2>2. po[app.src].potail \in Link /\ bp.moved \in 0 .. BP_MAX_SIZE
    BY <1>1, <2>1 DEF Structure, PoOK, PoType, BpOK
  <2>3. app.index \in Link /\ (app.pc \in {"pointer", "use"} => app.index \in Slot)
    BY <1>1, Ranges DEF ThreadsOK, Types
  <2>4. \A i \in Slot : pktlen[i] \in 0 .. MaxExt /\ packet[i].ext \in 0 .. MaxExt
    BY <1>1 DEF Types
  <2>5. app' \in [pc : {"idle", "get", "pointer", "use", "rm", "bprmv", "seek", "rmall"},
                  src : Sources \cup {None}, index : Link, moved : 0 .. BP_MAX_SIZE,
                  len : 0 .. MaxExt, used : 0 .. MaxExt, toclear : SUBSET Sources]
    <3>1. app \in [pc : {"idle", "get", "pointer", "use", "rm", "bprmv", "seek", "rmall"},
                  src : Sources \cup {None}, index : Link, moved : 0 .. BP_MAX_SIZE,
                  len : 0 .. MaxExt, used : 0 .. MaxExt, toclear : SUBSET Sources]
      BY <1>1 DEF Types
    <3>2. QED
      BY <2>2, <2>3, <2>4, <3>1
  <2>6. QED
    BY <1>1, <2>5 DEF Types
<1>5. ThreadsOK'
  BY <1>1 DEF ThreadsOK, Types
<1>6. HeldOK'
  BY <1>1 DEF HeldOK, Types, Numbered
<1>7. FollowOK'
  BY <1>1 DEF FollowOK, Untracked, Types
<1>8. NoSeekOK'
  BY <1>1, Positions DEF NoSeekOK, Types, Complete, Tame
<1>9. QED
  BY <1>3, <1>4, <1>5, <1>6, <1>7, <1>8, InvPartsNext

LEMMA ReadTailStep == ASSUME Tame, Inv, ReadTail PROVE Inv'
<1> USE DEF ReadTail, vars, pool, sources, network, history
<1>1. Structure /\ Types /\ ThreadsOK /\ HeldOK /\ FollowOK /\ NoSeekOK
  BY InvParts
<1>2. Held' = Held
  BY <1>1 DEF Held, Types
<1>3. Structure' /\ OrderOK' /\ HeadOK'
  BY <1>2, QuietKept
<1>4. Types'
  <2>1. app.src \in Sources
    BY <1>1 DEF ThreadsOK
  <2>2. po[app.src].potail \in Link /\ bp.moved \in 0 .. BP_MAX_SIZE
    BY <1>1, <2>1 DEF Structure, PoOK, PoType, BpOK
  <2>3. app.index \in Link /\ (app.pc \in {"pointer", "use"} => app.index \in Slot)
    BY <1>1, Ranges DEF ThreadsOK, Types
  <2>4. \A i \in Slot : pktlen[i] \in 0 .. MaxExt /\ packet[i].ext \in 0 .. MaxExt
    BY <1>1 DEF Types
  <2>5. app' \in [pc : {"idle", "get", "pointer", "use", "rm", "bprmv", "seek", "rmall"},
                  src : Sources \cup {None}, index : Link, moved : 0 .. BP_MAX_SIZE,
                  len : 0 .. MaxExt, used : 0 .. MaxExt, toclear : SUBSET Sources]
    <3>1. app \in [pc : {"idle", "get", "pointer", "use", "rm", "bprmv", "seek", "rmall"},
                  src : Sources \cup {None}, index : Link, moved : 0 .. BP_MAX_SIZE,
                  len : 0 .. MaxExt, used : 0 .. MaxExt, toclear : SUBSET Sources]
      BY <1>1 DEF Types
    <3>2. QED
      BY <2>2, <2>3, <2>4, <3>1
  <2>6. QED
    BY <1>1, <2>5 DEF Types
<1>5. ThreadsOK'
  BY <1>1 DEF ThreadsOK, Types
<1>6. HeldOK'
  BY <1>1 DEF HeldOK, Types, Numbered
<1>7. FollowOK'
  BY <1>1 DEF FollowOK, Untracked, Types
<1>8. NoSeekOK'
  BY <1>1, Positions DEF NoSeekOK, Types, Complete, Tame
<1>9. QED
  BY <1>3, <1>4, <1>5, <1>6, <1>7, <1>8, InvPartsNext

LEMMA StartSeekStep == ASSUME Tame, Inv, StartSeek PROVE Inv'
<1> USE DEF StartSeek, vars, pool, sources, network, history
<1>1. Structure /\ Types /\ ThreadsOK /\ HeldOK /\ FollowOK /\ NoSeekOK
  BY InvParts
<1>2. Held' = Held
  BY <1>1 DEF Held, Types
<1>3. Structure' /\ OrderOK' /\ HeadOK'
  BY <1>2, QuietKept
<1>4. Types'
  BY <1>1, Ranges DEF Types
<1>5. ThreadsOK'
  BY <1>1 DEF ThreadsOK, Types
<1>6. HeldOK'
  BY <1>1 DEF HeldOK, Types, Numbered
<1>7. FollowOK'
  BY <1>1 DEF FollowOK, Untracked, Types
<1>8. NoSeekOK'
  BY <1>1, Positions DEF NoSeekOK, Types, Complete, Tame
<1>9. QED
  BY <1>3, <1>4, <1>5, <1>6, <1>7, <1>8, InvPartsNext

LEMMA PlayStep == ASSUME Tame, Inv, Play PROVE Inv'
<1> USE DEF Play, vars, pool, sources, network, history
<1>1. Structure /\ Types /\ ThreadsOK /\ HeldOK /\ FollowOK /\ NoSeekOK
  BY InvParts
<1>2. Held' = Held
  BY <1>1 DEF Held, Types
<1>3. Structure' /\ OrderOK' /\ HeadOK'
  BY <1>2, QuietKept
<1>4. Types'
  <2>1. plays' \in 0 .. MaxSeeks
    BY <1>1, Ranges DEF ThreadsOK, Types
  <2>2. QED
    BY <1>1, <2>1 DEF Types
<1>5. ThreadsOK'
  BY <1>1 DEF ThreadsOK, Types
<1>6. HeldOK'
  BY <1>1 DEF HeldOK, Types, Numbered
<1>7. FollowOK'
  BY <1>1 DEF FollowOK, Untracked, Types
<1>8. NoSeekOK'
  BY <1>1, Positions DEF NoSeekOK, Types, Complete, Tame
<1>9. QED
  BY <1>3, <1>4, <1>5, <1>6, <1>7, <1>8, InvPartsNext

LEMMA FillStep == ASSUME Tame, Inv, NEW s \in Sources, Fill(s) PROVE Inv'
<1> USE DEF Fill, vars, pool, sources, network, history
<1>1. Structure /\ Types /\ ThreadsOK /\ HeldOK /\ FollowOK /\ NoSeekOK
  BY InvParts
<1>2. Held' = Held
  BY <1>1 DEF Held, Types
<1>3. Structure' /\ OrderOK' /\ HeadOK'
  BY <1>2, QuietKept
<1>4. Types'
  BY <1>1, Ranges DEF Types
<1>5. ThreadsOK'
  BY <1>1 DEF ThreadsOK, Types
<1>6. HeldOK'
  BY <1>1 DEF HeldOK, Types, Numbered
<1>7. FollowOK'
  BY <1>1 DEF FollowOK, Untracked, Types
<1>8. NoSeekOK'
  BY <1>1, Positions DEF NoSeekOK, Types, Complete, Tame
<1>9. QED
  BY <1>3, <1>4, <1>5, <1>6, <1>7, <1>8, InvPartsNext

LEMMA MarkSeekStep == ASSUME Tame, Inv, NEW s \in Sources, MarkSeek(s) PROVE Inv'
<1> USE DEF MarkSeek, vars, pool, sources, network, history
<1>1. Structure /\ Types /\ ThreadsOK /\ HeldOK /\ FollowOK /\ NoSeekOK
  BY InvParts
<1>2. Held' = Held
  BY <1>1 DEF Held, Types
<1>3. Structure' /\ OrderOK' /\ HeadOK'
  BY <1>2, QuietKept
<1>4. Types'
  BY <1>1, Ranges DEF Types
<1>5. ThreadsOK'
  BY <1>1 DEF ThreadsOK, Types
<1>6. HeldOK'
  BY <1>1 DEF HeldOK, Types, Numbered
<1>7. FollowOK'
  BY <1>1 DEF FollowOK, Untracked, Types
<1>8. NoSeekOK'
  BY <1>1, Positions DEF NoSeekOK, Types, Complete, Tame
<1>9. QED
  BY <1>3, <1>4, <1>5, <1>6, <1>7, <1>8, InvPartsNext

LEMMA GetStep == ASSUME Tame, Inv, Get PROVE Inv'
<1> DEFINE ready == IF bp.flhead = Nil THEN bpenlarge(bp) ELSE bp
           x == ready.flhead
<1>1. Structure /\ Types /\ ThreadsOK /\ HeldOK /\ FollowOK /\ NoSeekOK
  BY InvParts
<1>2. /\ recv.pc \in {"woken", "select"} /\ (bp.flhead # Nil \/ CanEnlarge(bp)) /\ bp' = Pop(ready)
      /\ recv' = [recv EXCEPT !.pc = "recvfrom", !.slot = x]
      /\ UNCHANGED <<packet, po, pktlen, app, stats, known, active, done_seek, sent, plays, played, leaked>>
  BY DEF Get, InBpget, sources, network, history
<1>3. x # Nil
  <2>1. CASE bp.flhead = Nil
    <3>1. bp \in PoolType /\ bp.size \in 1 .. BP_MAX_SIZE
      BY <1>1, Pool
    <3>2. x = bp.size
      BY <2>1, <3>1 DEF bpenlarge, PoolType
    <3>3. QED
      BY <3>1, <3>2, Constants
  <2>2. CASE bp.flhead # Nil
    BY <2>2
  <2>3. QED
    BY <2>1, <2>2
<1> HIDE DEF ready
<1>4. recv'.pc = "recvfrom" /\ recv'.slot = x /\ recv'.src = recv.src /\ recv'.reset = recv.reset
  BY <1>1, <1>2 DEF Types
<1>5. Held = {} /\ Held' = {x}
  BY <1>1, <1>2, <1>3, <1>4 DEF Held, ThreadsOK
<1>6. /\ Structure' /\ x \in Slot /\ bp'.moved \in Nat /\ bp.moved \in 0 .. bp'.moved
  BY <1>1, <1>2, <1>5, GetStructure DEF ready
<1> HIDE DEF x
<1>7. OrderOK' /\ HeadOK'
  <2>1. \A s \in Sources : sent'[s] \in Nat /\ sent'[s] >= sent[s]
    BY <1>1, <1>2 DEF Types
  <2>2. QED
    BY <1>2, <2>1, OrderKept
<1>8. Types'
  BY <1>1, <1>2, <1>6, Ranges DEF Types
<1>9. ThreadsOK'
  <2>1. app.pc = "use" => app.moved \in 0 .. bp'.moved
    <3>1. bp.moved \in Nat /\ (app.pc = "use" => app.moved \in 0 .. bp.moved)
      BY <1>1, Pool DEF ThreadsOK
    <3>2. QED
      BY <1>6, <3>1
  <2>2. QED
    BY <1>1, <1>2, <1>3, <1>4, <2>1 DEF ThreadsOK
<1>10. HeldOK' /\ FollowOK' /\ NoSeekOK'
  <2>1. HeldOK' /\ NoSeekOK'
    BY <1>1, <1>2, <1>4 DEF HeldOK, NoSeekOK
  <2>2. FollowOK'
    BY <1>1, <1>2, <1>4 DEF FollowOK, Untracked
  <2>3. QED
    BY <2>1, <2>2
<1>11. QED
  BY <1>6, <1>7, <1>8, <1>9, <1>10, InvPartsNext

LEMMA RecvErrorStep == ASSUME Tame, Inv, RecvError PROVE Inv'
<1> DEFINE x == recv.slot
<1>1. Structure /\ Types /\ ThreadsOK /\ HeldOK /\ FollowOK /\ NoSeekOK
  BY InvParts
<1>2. /\ recv.pc = "recvfrom" /\ leaked' = leaked \cup {x}
      /\ recv' = [recv EXCEPT !.pc = "select", !.slot = Nil, !.src = None]
      /\ UNCHANGED <<bp, packet, po, pktlen, app, stats, known, active, done_seek, sent, plays, played>>
  BY DEF RecvError, RecvDone, pool, sources, network
<1>3. recv'.pc = "select" /\ recv'.slot = Nil
  BY <1>1, <1>2 DEF Types
<1>4. x \in Slot /\ Held = {x} /\ Held' = {}
  BY <1>1, <1>2, <1>3, Ranges DEF Held, ThreadsOK, Types
<1> HIDE DEF x
<1>5. Structure'
  BY <1>1, <1>2, <1>4, LoseStructure
<1>6. OrderOK' /\ HeadOK'
  <2>1. \A s \in Sources : sent'[s] \in Nat /\ sent'[s] >= sent[s]
    BY <1>1, <1>2 DEF Types
  <2>2. QED
    BY <1>2, <2>1, OrderKept
<1>7. Types'
  BY <1>1, <1>2, <1>4, Ranges DEF Types
<1>8. ThreadsOK' /\ HeldOK' /\ NoSeekOK'
  BY <1>1, <1>2, <1>3 DEF ThreadsOK, HeldOK, NoSeekOK
<1>9. FollowOK'
  BY <1>1, <1>2, <1>3 DEF FollowOK, Untracked
<1>10. QED
  BY <1>5, <1>6, <1>7, <1>8, <1>9, InvPartsNext

\* A slot the RTP thread holds is in no list.
LEMMA HeldUnlinked ==
  ASSUME Inv, recv.pc \notin {"select", "waiting", "woken", "pktlen"}
  PROVE  /\ recv.slot \in Slot /\ Held = {recv.slot}
         /\ \A s \in Sources : recv.slot \notin Linked(po[s])
         /\ app.pc \in {"pointer", "use", "rm", "bprmv"} =>
              app.index \in Slot /\ app.index \in Linked(po[app.src]) /\ app.index # recv.slot
<1>1. Structure /\ Types /\ ThreadsOK
  BY InvParts
<1>2. recv.slot \in Slot /\ Held = {recv.slot}
  BY <1>1, Ranges DEF Held, ThreadsOK, Types
<1>3. \A s \in Sources : recv.slot \notin Linked(po[s])
  BY <1>1, <1>2, Partition
<1>4. ASSUME app.pc \in {"pointer", "use", "rm", "bprmv"}
      PROVE  app.index \in Slot /\ app.index \in Linked(po[app.src]) /\ app.index # recv.slot
  <2>1. app.index = po[app.src].potail /\ app.index # Nil /\ app.src \in Sources
    BY <1>1, <1>4 DEF ThreadsOK
  <2>2. app.index \in Linked(po[app.src])
    BY <1>1, <2>1, HeadLinked
  <2>3. QED
    BY <1>1, <1>3, <2>1, <2>2, Lists
<1>5. QED
  BY <1>2, <1>3, <1>4

LEMMA FreeStep == ASSUME Tame, Inv, Free PROVE Inv'
<1> DEFINE x == recv.slot
<1>1. Structure /\ Types /\ ThreadsOK /\ HeldOK /\ FollowOK /\ NoSeekOK
  BY InvParts
<1>2. /\ recv.pc = "bpfree" /\ bp' = bpfree(bp, x) /\ packet' = [packet EXCEPT ![x] = Blank]
      /\ recv' = [recv EXCEPT !.pc = "select", !.slot = Nil, !.src = None]
      /\ UNCHANGED <<po, pktlen, app, stats, known, active, done_seek, sent, plays, played, leaked>>
  BY DEF Free, RecvDone, sources, network, history
<1>3. recv'.pc = "select" /\ recv'.slot = Nil
  BY <1>1, <1>2 DEF Types
<1>4. /\ x \in Slot /\ Held = {x} /\ \A s \in Sources : x \notin Linked(po[s])
      /\ app.pc \in {"pointer", "use", "rm", "bprmv"} => app.index \in Slot /\ app.index # x
  BY <1>2, HeldUnlinked
<1>5. Held' = {}
  BY <1>3 DEF Held
<1> HIDE DEF x
<1>6. Structure' /\ bp'.moved = bp.moved
  BY <1>1, <1>2, <1>4, <1>5, FreeStructure
<1>7. \A y \in Slot : y # x => packet'[y] = packet[y]
  BY <1>1, <1>2 DEF Types
<1>8. OrderOK' /\ HeadOK'
  <2>1. \A s \in Sources : sent'[s] \in Nat /\ sent'[s] >= sent[s]
    BY <1>1, <1>2 DEF Types
  <2>2. \A s \in Sources : \A y \in Linked(po[s]) : packet'[y] = packet[y]
    BY <1>1, <1>4, <1>7, Lists
  <2>3. QED
    BY <1>2, <2>1, <2>2, OrderKept
<1>9. Types'
  <2>1. Blank \in [src : Sources \cup {None}, ext : 0 .. MaxExt, seq : SeqNum, era : 0 .. MaxSeeks]
    BY Ranges DEF Blank
  <2>2. QED
    BY <1>1, <1>2, <2>1, Ranges DEF Types
<1>10. ThreadsOK'
  <2>1. app.pc \in {"rm", "bprmv"} => app.used = packet'[app.index].ext
    BY <1>1, <1>4, <1>7 DEF ThreadsOK
  <2>2. QED
    BY <1>1, <1>2, <1>3, <1>6, <2>1 DEF ThreadsOK
<1>11. HeldOK' /\ NoSeekOK'
  BY <1>1, <1>2, <1>3 DEF HeldOK, NoSeekOK
<1>12. FollowOK'
  BY <1>1, <1>2, <1>3 DEF FollowOK, Untracked
<1>13. QED
  BY <1>6, <1>8, <1>9, <1>10, <1>11, <1>12, InvPartsNext

\* Where the next packet of a tame stream may be.
LEMMA Arrivals ==
  ASSUME Tame, Types, NEW s \in Sources, NEW e \in Deliverable(s)
  PROVE  /\ e \in 0 .. MaxExt /\ e >= FirstExt /\ sent[s] \in Nat /\ e >= sent[s]
         /\ ~Unwrapped => e \in {sent[s], sent[s] + 1}
<1>1. sent[s] \in Nat /\ FirstExt \in Nat \ {0} /\ MaxExt \in Nat /\ MAX_DROPOUT \in Nat \ {0, 1}
  BY Ranges DEF Types
<1>2. /\ e \in FirstExt .. MaxExt
      /\ \/ e = sent[s] + 1
         \/ "loss" \in Faults /\ e = sent[s] + MAX_DROPOUT - 1
         \/ e = sent[s]
  BY DEF Deliverable, Tame
<1>3. ~Unwrapped => "loss" \notin Faults
  BY Positions DEF Complete
<1>4. QED
  BY <1>1, <1>2, <1>3

LEMMA RecvFromStep ==
  ASSUME Tame, Inv, NEW s \in Sources, NEW e \in Deliverable(s), RecvFrom(s, e)
  PROVE  Inv'
<1> DEFINE x == recv.slot
           seq == HeaderNo(e)
           new == [src |-> s, ext |-> e, seq |-> seq, era |-> plays]
           st == StartProbation(NoStats, seq)
<1>1. Structure /\ Types /\ ThreadsOK /\ HeldOK /\ FollowOK /\ NoSeekOK
  BY InvParts
<1>2. /\ recv.pc = "recvfrom" /\ packet' = [packet EXCEPT ![x] = new]
      /\ sent' = [sent EXCEPT ![s] = IF e > @ THEN e ELSE @] /\ known' = known \cup {s}
      /\ s \in known => /\ recv' = [recv EXCEPT !.pc = "known", !.src = s]
                        /\ UNCHANGED <<stats, active>>
      /\ s \notin known =>
           /\ recv' = [recv EXCEPT !.pc = "poadd", !.src = s]
           /\ stats' = [stats EXCEPT ![s] = rtp_update_seq(StartProbation(stats[s], seq), seq)]
           /\ active' \subseteq active \cup {s}
      /\ UNCHANGED <<bp, po, pktlen, done_seek, app, plays, played, leaked>>
  BY DEF RecvFrom, Arrive, history
<1>3. /\ x \in Slot /\ Held = {x} /\ \A t \in Sources : x \notin Linked(po[t])
      /\ app.pc \in {"pointer", "use", "rm", "bprmv"} => app.index \in Slot /\ app.index # x
  BY <1>2, HeldUnlinked
<1>4. /\ e \in 0 .. MaxExt /\ e >= FirstExt /\ sent[s] \in Nat /\ e >= sent[s]
      /\ ~Unwrapped => e \in {sent[s], sent[s] + 1}
  BY <1>1, Arrivals
<1>5. seq \in SeqNum /\ e \in Nat
  BY <1>4, HeaderNumbers
<1>6. sent'[s] = e /\ \A t \in Sources : t # s => sent'[t] = sent[t]
  <2>1. sent \in [Sources -> Nat] /\ sent' = [sent EXCEPT ![s] = IF e > sent[s] THEN e ELSE sent[s]]
    BY <1>1, <1>2 DEF Types
  <2>2. (IF e > sent[s] THEN e ELSE sent[s]) = e
    BY <1>4, <1>5
  <2>3. sent' = [sent EXCEPT ![s] = e]
    BY <2>1, <2>2
  <2>4. QED
    BY <2>1, <2>3
<1>7. /\ recv'.slot = x /\ recv'.src = s
      /\ recv'.pc = IF s \in known THEN "known" ELSE "poadd"
  BY <1>1, <1>2 DEF Types
<1>8. packet'[x] = new /\ \A y \in Slot : y # x => packet'[y] = packet[y]
  BY <1>1, <1>2, <1>3 DEF Types
<1>9. Held' = {x}
  BY <1>3, <1>7, Ranges DEF Held
\* The tracking.
<1>10. s \notin known => /\ stats[s] = NoStats /\ stats' = [stats EXCEPT ![s] = rtp_update_seq(st, seq)]
                         /\ rtp_update_seq(st, seq) \in Stats /\ Follow(rtp_update_seq(st, seq), e)
  <2> SUFFICES ASSUME s \notin known
               PROVE  /\ stats[s] = NoStats /\ stats' = [stats EXCEPT ![s] = rtp_update_seq(st, seq)]
                      /\ rtp_update_seq(st, seq) \in Stats /\ Follow(rtp_update_seq(st, seq), e)
    OBVIOUS
  <2>1. stats[s] = NoStats /\ sent[s] = FirstExt - 1
    BY <1>1 DEF FollowOK
  <2>2. Unwrapped \/ e = FirstExt
    BY <1>4, <2>1, Ranges
  <2>3. rtp_update_seq(st, seq) \in Stats /\ Follow(rtp_update_seq(st, seq), e)
    BY <1>4, <2>2, FirstFollowed
  <2>4. QED
    BY <1>2, <2>1, <2>3
<1>11. s \in known => Follow(stats[s], e) \/ Follow(stats[s], e - 1)
  <2> SUFFICES ASSUME s \in known PROVE Follow(stats[s], e) \/ Follow(stats[s], e - 1)
    OBVIOUS
  <2>1. Follow(stats[s], sent[s])
    BY <1>1, <1>2 DEF FollowOK, Untracked
  <2>2. CASE Unwrapped
    <3>1. stats[s].max_seq \in Nat
      BY <1>1, HeaderNumbers DEF Types, Stats, SeqNum
    <3>2. QED
      BY <1>4, <1>5, <2>1, <2>2, <3>1 DEF Follow
  <2>3. CASE ~Unwrapped
    <3>1. e = sent[s] \/ e - 1 = sent[s]
      BY <1>4, <2>3
    <3>2. QED
      BY <2>1, <3>1
  <2>4. QED
    BY <2>2, <2>3
<1> HIDE DEF x, seq, st
<1>12. FollowOK'
  <2> SUFFICES ASSUME NEW t \in Sources
               PROVE  /\ t \notin known' => stats'[t] = NoStats /\ sent'[t] = FirstExt - 1
                      /\ t \in known' => \/ Follow(stats'[t], sent'[t])
                                         \/ Untracked(t)' /\ Follow(stats'[t], sent'[t] - 1)
    BY DEF FollowOK
  <2>1. CASE t # s
    <3>1. stats'[t] = stats[t] /\ sent'[t] = sent[t] /\ (t \in known' <=> t \in known)
      BY <1>1, <1>2, <1>6, <1>10, <2>1 DEF Types
    <3>2. ~Untracked(t)
      BY <1>2 DEF Untracked
    <3>3. QED
      BY <1>1, <3>1, <3>2 DEF FollowOK
  <2>2. CASE t = s /\ s \in known
    <3>1. stats'[s] = stats[s] /\ Untracked(s)'
      BY <1>2, <1>7, <2>2 DEF Untracked
    <3>2. s \in known'
      BY <1>2
    <3>3. QED
      BY <1>6, <1>11, <2>2, <3>1, <3>2
  <2>3. CASE t = s /\ s \notin known
    <3>1. stats'[s] = rtp_update_seq(st, seq)
      BY <1>1, <1>10, <2>3 DEF Types
    <3>2. s \in known'
      BY <1>2
    <3>3. QED
      BY <1>6, <1>10, <2>3, <3>1, <3>2
  <2>4. QED
    BY <2>1, <2>2, <2>3
<1>13. Structure'
  BY <1>1, <1>2, <1>3, <1>9, StructureKept
<1>14. OrderOK' /\ HeadOK'
  <2>1. \A t \in Sources : sent'[t] \in Nat /\ sent'[t] >= sent[t]
    BY <1>1, <1>4, <1>5, <1>6 DEF Types
  <2>2. \A t \in Sources : \A y \in Linked(po[t]) : packet'[y] = packet[y]
    BY <1>1, <1>3, <1>8, Lists
  <2>3. QED
    BY <1>2, <2>1, <2>2, OrderKept
<1>15. Types'
  <2>1. new \in [src : Sources \cup {None}, ext : 0 .. MaxExt, seq : SeqNum, era : 0 .. MaxSeeks]
    BY <1>1, <1>4, <1>5 DEF Types
  <2> HIDE DEF new
  <2>2. packet' \in [Slot -> [src : Sources \cup {None}, ext : 0 .. MaxExt, seq : SeqNum, era : 0 .. MaxSeeks]]
    BY <1>1, <1>2, <2>1 DEF Types
  <2>3. stats' \in [Sources -> Stats]
    BY <1>1, <1>2, <1>10 DEF Types
  <2>4. active' \subseteq known' /\ known' \subseteq Sources
    BY <1>1, <1>2 DEF Types
  <2>5. sent' \in [Sources -> Nat]
    BY <1>1, <1>2, <1>5 DEF Types
  <2>6. recv' \in [pc : {"select", "waiting", "woken", "recvfrom", "known", "seekdone",
                         "poadd", "pktlen", "bpfree"},
                   slot : Link, src : Sources \cup {None}, reset : BOOLEAN]
    <3>1. recv' = [recv EXCEPT !.pc = IF s \in known THEN "known" ELSE "poadd", !.src = s]
      BY <1>2
    <3>2. QED
      BY <1>1, <3>1 DEF Types
  <2>7. QED
    BY <1>1, <1>2, <2>2, <2>3, <2>4, <2>5, <2>6 DEF Types
<1>16. ThreadsOK'
  <2>1. app.pc \in {"rm", "bprmv"} => app.used = packet'[app.index].ext
    BY <1>1, <1>3, <1>8 DEF ThreadsOK
  <2>2. recv'.slot # Nil /\ recv'.pc \in {"known", "poadd"} /\ recv'.src \in known'
    BY <1>2, <1>3, <1>7, Ranges
  <2>3. QED
    BY <1>1, <1>2, <2>1, <2>2 DEF ThreadsOK
<1>17. HeldOK'
  BY <1>6, <1>7, <1>8 DEF HeldOK, Numbered, seq
<1>18. NoSeekOK'
  BY <1>1, <1>2 DEF NoSeekOK
<1>19. QED
  BY <1>12, <1>13, <1>14, <1>15, <1>16, <1>17, <1>18, InvPartsNext

LEMMA TrackStep == ASSUME Tame, Inv, Track PROVE Inv'
<1> DEFINE s == recv.src
           e == sent[s]
           seq == packet[recv.slot].seq
           st == IF done_seek[s] THEN SeekReset(stats[s], seq) ELSE stats[s]
           r == rtp_update_seq(st, seq)
<1>1. Structure /\ Types /\ ThreadsOK /\ HeldOK /\ FollowOK /\ NoSeekOK
  BY InvParts
<1>2. /\ recv.pc = "known" /\ stats' = [stats EXCEPT ![s] = r] /\ active' \subseteq active \cup {s}
      /\ recv' = [recv EXCEPT !.pc = "seekdone", !.reset = done_seek[s]]
      /\ UNCHANGED <<known, done_seek, app, bp, packet, po, pktlen, sent, plays, played, leaked>>
  BY DEF Track, pool, network, history
<1>3. /\ recv.slot \in Slot /\ s \in known /\ s \in Sources
      /\ seq = HeaderNo(e) /\ packet[recv.slot].ext = e
  BY <1>1, <1>2, HeldUnlinked DEF ThreadsOK, HeldOK, Numbered, Types
<1>4. e \in 0 .. MaxExt /\ e \in Nat /\ stats[s] \in Stats /\ seq \in SeqNum /\ done_seek[s] \in BOOLEAN
  <2>1. e \in 0 .. MaxExt
    BY <1>1, <1>3 DEF Types
  <2>2. QED
    BY <1>1, <1>3, <2>1, HeaderNumbers DEF Types
<1>5. st \in Stats /\ (Follow(st, e) \/ Follow(st, e - 1))
  <2>1. CASE ~done_seek[s]
    BY <1>1, <1>3, <1>4, <2>1 DEF FollowOK
  <2>2. CASE done_seek[s]
    <3>1. Unwrapped
      BY <1>1, <1>3, <2>2 DEF NoSeekOK
    <3>2. seq = e
      BY <1>3, <1>4, <3>1, Positions
    <3>3. SeekReset(stats[s], seq) \in Stats
      <4>1. 0 \in 0 .. MIN_SEQUENTIAL /\ RTP_SEQ_MOD + 1 \in Nat
        BY SequenceAssumption DEF SequenceAssumption
      <4>2. QED
        BY <1>4, <4>1 DEF SeekReset, Stats
    <3>4. SeekReset(stats[s], seq).cycles = 0 /\ SeekReset(stats[s], seq).max_seq = seq
      BY <1>4 DEF SeekReset, Stats
    <3>5. Follow(SeekReset(stats[s], seq), e)
      BY <1>4, <3>1, <3>2, <3>4 DEF Follow
    <3>6. QED
      BY <2>2, <3>3, <3>5
  <2>3. QED
    BY <2>1, <2>2
<1> HIDE DEF st
<1>6. r \in Stats /\ Follow(r, e)
  BY <1>3, <1>4, <1>5, NextFollowed
<1> HIDE DEF r, e, s
<1>7. recv'.pc = "seekdone" /\ recv'.slot = recv.slot /\ recv'.src = recv.src
  BY <1>1, <1>2 DEF Types
<1>8. Held' = Held
  BY <1>2, <1>7 DEF Held
<1>9. Structure' /\ OrderOK' /\ HeadOK'
  BY <1>2, <1>8, QuietKept
<1>10. Types'
  BY <1>1, <1>2, <1>3, <1>4, <1>6 DEF Types
<1>11. ThreadsOK' /\ HeldOK' /\ NoSeekOK'
  BY <1>1, <1>2, <1>3, <1>7 DEF ThreadsOK, HeldOK, NoSeekOK, Numbered
<1>12. FollowOK'
  <2> SUFFICES ASSUME NEW t \in Sources
               PROVE  /\ t \notin known => stats'[t] = NoStats /\ sent[t] = FirstExt - 1
                      /\ t \in known => Follow(stats'[t], sent[t])
    BY <1>2 DEF FollowOK
  <2>1. CASE t # s
    <3>1. stats'[t] = stats[t] /\ ~Untracked(t)
      BY <1>1, <1>2, <2>1 DEF Types, Untracked, s
    <3>2. QED
      BY <1>1, <3>1 DEF FollowOK
  <2>2. CASE t = s
    <3>1. stats'[t] = r /\ t \in known
      BY <1>1, <1>2, <1>3, <2>2 DEF Types
    <3>2. QED
      BY <1>6, <2>2, <3>1 DEF e
  <2>3. QED
    BY <2>1, <2>2
<1>13. QED
  BY <1>9, <1>10, <1>11, <1>12, InvPartsNext

\* Where the packet in the RTP thread's hands is relative to the head of its list.
LEMMA Newest ==
  ASSUME Tame, Inv, recv.pc = "poadd"
  PROVE  LET s == recv.src
             x == recv.slot
         IN  /\ s \in Sources /\ s \in known /\ x \in Slot /\ Held = {x} /\ x \notin Linked(po[s])
             /\ HeaderSeq \in [Slot -> Nat] /\ stats[s].cycles \in Nat
             /\ Base \in Int /\ packet[x].ext = sent[s] /\ Numbered(x, s)
             /\ packet[x].seq + stats[s].cycles = sent[s] - Base
             /\ po[s].pohead # Nil =>
                  /\ po[s].pohead \in Linked(po[s]) /\ po[s].pohead \in Slot
                  /\ packet[po[s].pohead].ext \in 0 .. sent[s]
                  /\ packet[po[s].pohead].seq + po[s].cycles = packet[po[s].pohead].ext - Base
<1> DEFINE s == recv.src
           x == recv.slot
           h == po[s].pohead
<1>1. Structure /\ Types /\ ThreadsOK /\ HeldOK /\ FollowOK /\ HeadOK /\ OrderOK
  BY InvParts
<1>2. s \in Sources /\ s \in known /\ x \in Slot /\ Held = {x} /\ x \notin Linked(po[s])
  BY <1>1, HeldUnlinked DEF ThreadsOK, Types
<1>3. packet[x].ext = sent[s] /\ Numbered(x, s) /\ sent[s] \in 0 .. MaxExt /\ sent[s] \in Nat
  BY <1>1, <1>2 DEF HeldOK, Types
<1>4. \A i \in Slot : packet[i].seq \in Nat
  BY <1>1, HeaderNumbers DEF Types, SeqNum
<1>5. HeaderSeq \in [Slot -> Nat] /\ stats[s].cycles \in Nat
  BY <1>1, <1>2, <1>4 DEF HeaderSeq, Types, Stats
<1>6. Base \in Int
  BY Positions, HeaderNumbers DEF Base
<1>7. Follow(stats[s], sent[s])
  BY <1>1, <1>2 DEF FollowOK, Untracked
<1>8. packet[x].seq + stats[s].cycles = sent[s] - Base
  <2>1. packet[x].seq = HeaderNo(sent[s]) /\ HeaderNo(sent[s]) \in Nat
    BY <1>3, HeaderNumbers DEF Numbered
  <2>2. CASE Unwrapped
    <3>1. HeaderNo(sent[s]) = sent[s] /\ stats[s].cycles = 0 /\ Base = 0
      BY <1>3, <1>7, <2>2, Positions DEF Follow
    <3>2. QED
      BY <1>3, <2>1, <3>1
  <2>3. CASE ~Unwrapped
    <3>1. stats[s].cycles + HeaderNo(sent[s]) = sent[s] - Base
      BY <1>7, <2>3 DEF Follow
    <3>2. QED
      BY <1>3, <1>5, <1>6, <2>1, <3>1
  <2>4. QED
    BY <2>2, <2>3
<1>9. ASSUME h # Nil
      PROVE  /\ h \in Linked(po[s]) /\ h \in Slot /\ packet[h].ext \in 0 .. sent[s]
             /\ packet[h].seq + po[s].cycles = packet[h].ext - Base
  <2>1. h \in Linked(po[s]) /\ h \in Slot
    BY <1>1, <1>2, <1>9, HeadLinked, Lists
  <2>2. packet[h].ext \in played[s] .. sent[s] /\ played[s] \in 0 .. sent[s]
    BY <1>1, <1>2, <2>1 DEF OrderOK
  <2>3. packet[h].ext \in 0 .. sent[s]
    BY <1>3, <2>2
  <2>4. packet[h].seq + po[s].cycles = packet[h].ext - Base
    BY <1>1, <1>2, <1>9 DEF HeadOK
  <2>5. QED
    BY <2>1, <2>3, <2>4
<1>10. QED
  BY <1>2, <1>3, <1>5, <1>6, <1>8, <1>9

\* poadd refuses the packet when it is the one at the head; else it becomes the head.
LEMMA AddCases ==
  ASSUME Tame, Inv, Add
  PROVE  LET s == recv.src
             x == recv.slot
             dup == po[s].pohead # Nil /\ packet[po[s].pohead].ext = sent[s]
         IN  /\ recv.pc = "poadd"
             /\ UNCHANGED <<bp, packet, pktlen, app, stats, known, active, done_seek, sent, plays, played, leaked>>
             /\ dup => po' = po /\ recv' = [recv EXCEPT !.pc = "bpfree"]
             /\ ~dup => /\ po' = [po EXCEPT ![s] = AddAtHead(@, x, stats[s].cycles)]
                        /\ recv' = [recv EXCEPT !.pc = "pktlen"]
<1> DEFINE s == recv.src
           x == recv.slot
           h == po[s].pohead
           c == stats[s].cycles
           r == poadd(po[s], x, HeaderSeq, c)
           dup == h # Nil /\ packet[h].ext = sent[s]
<1>1. /\ recv.pc = "poadd" /\ po' = [po EXCEPT ![s] = r.po]
      /\ recv' = [recv EXCEPT !.pc = IF r.ret = PKT_DUPLICATED THEN "bpfree" ELSE "pktlen"]
      /\ UNCHANGED <<bp, packet, pktlen, app, stats, known, active, done_seek, sent, plays, played, leaked>>
  BY DEF Add, RecvTo, sources, network, history
<1>2. /\ s \in Sources /\ x \in Slot /\ HeaderSeq \in [Slot -> Nat] /\ c \in Nat
      /\ Base \in Int /\ packet[x].seq + c = sent[s] - Base
      /\ h # Nil => /\ h \in Slot /\ packet[h].ext \in 0 .. sent[s]
                    /\ packet[h].seq + po[s].cycles = packet[h].ext - Base
  BY <1>1, Newest
<1>3. Structure /\ sent[s] \in Nat /\ po \in [Sources -> PoType] /\ po[s] \in PoType
  BY <1>2, InvParts DEF Types, Structure, PoOK
<1>4. \A i \in Slot : HeaderSeq[i] = packet[i].seq
  BY DEF HeaderSeq
<1> DEFINE q == Oldest(po[s])
<1>5. PoList(po[s], q)
  BY <1>2, <1>3, Lists
<1> HIDE DEF q
<1>6. h # Nil => /\ HeaderSeq[h] + po[s].cycles <= HeaderSeq[x] + c
                 /\ HeaderSeq[x] + c = HeaderSeq[h] + po[s].cycles <=> packet[h].ext = sent[s]
  <2> SUFFICES ASSUME h # Nil
               PROVE  /\ HeaderSeq[h] + po[s].cycles <= HeaderSeq[x] + c
                      /\ HeaderSeq[x] + c = HeaderSeq[h] + po[s].cycles <=> packet[h].ext = sent[s]
    OBVIOUS
  <2>1. HeaderSeq[h] + po[s].cycles = packet[h].ext - Base /\ HeaderSeq[x] + c = sent[s] - Base
    BY <1>2, <1>4
  <2>2. packet[h].ext \in Nat /\ packet[h].ext <= sent[s] /\ Base \in Int /\ sent[s] \in Nat
    BY <1>2, <1>3
  <2>3. packet[h].ext - Base <= sent[s] - Base /\ (sent[s] - Base = packet[h].ext - Base <=> packet[h].ext = sent[s])
    BY <2>2
  <2>4. QED
    BY <2>1, <2>3
<1>7. r = IF h # Nil /\ HeaderSeq[x] + c = HeaderSeq[h] + po[s].cycles
          THEN [ret |-> PKT_DUPLICATED, po |-> po[s]]
          ELSE [ret |-> 0, po |-> AddAtHead(po[s], x, c)]
  BY <1>2, <1>3, <1>5, <1>6, AddNewest
<1>8. r = IF dup THEN [ret |-> PKT_DUPLICATED, po |-> po[s]] ELSE [ret |-> 0, po |-> AddAtHead(po[s], x, c)]
  BY <1>6, <1>7
<1> HIDE DEF r, dup
<1>9. CASE dup
  <2>1. r.ret = PKT_DUPLICATED /\ r.po = po[s]
    BY <1>8, <1>9
  <2>2. po' = po
    BY <1>1, <1>2, <1>3, <2>1
  <2>3. QED
    BY <1>1, <1>9, <2>1, <2>2 DEF dup
<1>10. CASE ~dup
  <2>1. r.ret = 0 /\ r.po = AddAtHead(po[s], x, c)
    BY <1>8, <1>10
  <2>2. r.ret # PKT_DUPLICATED
    BY <2>1 DEF PKT_DUPLICATED
  <2>3. QED
    BY <1>1, <1>10, <2>1, <2>2 DEF dup
<1>11. QED
  BY <1>9, <1>10

\* A packet that poadd links becomes the newest of its list.
LEMMA AddLinks ==
  ASSUME Tame, Inv, Add, recv' = [recv EXCEPT !.pc = "pktlen"],
         NEW s \in Sources, s = recv.src, NEW x \in Slot, x = recv.slot
  PROVE  /\ Structure' /\ Oldest(po[s])' = Append(Oldest(po[s]), x)
         /\ Linked(po[s])' = Linked(po[s]) \cup {x}
         /\ po'[s].pohead = x /\ po'[s].cycles = stats[s].cycles
         /\ po[s].potail # Nil => po'[s].potail = po[s].potail
         /\ \A t \in Sources : t # s => po'[t] = po[t]
         /\ Held' = {} /\ \A y \in Linked(po[s]) : packet[y].ext < packet[x].ext
<1> DEFINE h == po[s].pohead
           dup == h # Nil /\ packet[h].ext = sent[s]
           q == Oldest(po[s])
<1>1. Structure /\ Types /\ OrderOK
  BY InvParts
<1>2. /\ recv.pc = "poadd"
      /\ UNCHANGED <<bp, packet, pktlen, app, stats, known, active, done_seek, sent, plays, played, leaked>>
      /\ dup => recv' = [recv EXCEPT !.pc = "bpfree"]
      /\ ~dup => po' = [po EXCEPT ![s] = AddAtHead(@, x, stats[s].cycles)]
  BY AddCases
<1>3. /\ Held = {x} /\ x \notin Linked(po[s]) /\ stats[s].cycles \in Nat
      /\ packet[x].ext = sent[s]
      /\ h # Nil => h \in Linked(po[s]) /\ packet[h].ext \in 0 .. sent[s]
  BY <1>2, Newest
<1>4. recv'.slot = x /\ recv'.src = s /\ recv'.pc = "pktlen" /\ ~dup
  BY <1>1, <1>2 DEF Types
<1> HIDE DEF dup, h, q
<1>5. Held' = {}
  BY <1>4 DEF Held
<1>6. /\ Structure' /\ Oldest(po[s])' = Append(Oldest(po[s]), x)
      /\ Linked(po[s])' = Linked(po[s]) \cup {x} /\ po'[s].pohead = x /\ po'[s].cycles = stats[s].cycles
      /\ po[s].potail # Nil => po'[s].potail = po[s].potail
      /\ \A t \in Sources : t # s => po'[t] = po[t]
  <2>1. PICK c \in Nat : c = stats[s].cycles
    BY <1>3
  <2>2. Links(s, x, c)
    BY <1>2, <1>3, <1>4, <1>5, <2>1 DEF Links
  <2>3. LinkedAt(s, x, c)
    BY <1>1, <2>2, LinkStructure
  <2>4. QED
    BY <2>1, <2>3 DEF LinkedAt
<1>7. ASSUME NEW y \in Linked(po[s])
      PROVE  packet[y].ext < packet[x].ext
  <2>1. PICK n \in Nat : n = Len(q)
    BY <1>1, Lists, PoListFacts, ChainType DEF q
  <2>2. /\ q \in [1 .. n -> Slot] /\ Linked(po[s]) = {q[i] : i \in 1 .. n} /\ h = (IF n = 0 THEN Nil ELSE q[n])
        /\ DOMAIN q = 1 .. n
    BY <1>1, <2>1, Lists, PoListFacts, ChainType DEF q, h
  <2>3. PICK i \in 1 .. n : y = q[i]
    BY <1>7, <2>2
  <2>4. h = q[n] /\ h # Nil
    BY <2>2, <2>3, Ranges
  <2>5. packet[h].ext # sent[s] /\ packet[h].ext \in 0 .. sent[s] /\ sent[s] \in Nat
    BY <1>1, <1>3, <1>4, <2>4 DEF dup, Types
  <2>6. i = n \/ packet[q[i]].ext < packet[h].ext
    <3>1. \A j, k \in DOMAIN q : j < k => packet[q[j]].ext < packet[q[k]].ext
      BY <1>1 DEF OrderOK, q
    <3>2. QED
      BY <2>2, <2>4, <3>1
  <2>7. packet[q[i]].ext \in Nat
    BY <1>1, <2>2 DEF Types
  <2>8. QED
    BY <1>3, <2>3, <2>4, <2>5, <2>6, <2>7
<1>8. QED
  BY <1>5, <1>6, <1>7

LEMMA AddStep == ASSUME Tame, Inv, Add PROVE Inv'
<1>a. recv.pc = "poadd" /\ recv.src \in Sources /\ recv.slot \in Slot
  BY AddCases, Newest
<1>b. PICK s \in Sources : s = recv.src
  BY <1>a
<1>c. PICK x \in Slot : x = recv.slot
  BY <1>a
<1> DEFINE h == po[s].pohead
           dup == h # Nil /\ packet[h].ext = sent[s]
           q == Oldest(po[s])
<1>1. Structure /\ Types /\ ThreadsOK /\ HeldOK /\ OrderOK /\ HeadOK /\ FollowOK /\ NoSeekOK
  BY InvParts
<1>2. /\ recv.pc = "poadd"
      /\ UNCHANGED <<bp, packet, pktlen, app, stats, known, active, done_seek, sent, plays, played, leaked>>
      /\ dup => po' = po /\ recv' = [recv EXCEPT !.pc = "bpfree"]
      /\ ~dup => /\ po' = [po EXCEPT ![s] = AddAtHead(@, x, stats[s].cycles)]
                 /\ recv' = [recv EXCEPT !.pc = "pktlen"]
  BY <1>b, <1>c, AddCases
<1>3. /\ s \in Sources /\ x \in Slot /\ Held = {x} /\ x \notin Linked(po[s]) /\ stats[s].cycles \in Nat
      /\ packet[x].ext = sent[s] /\ Numbered(x, s)
      /\ packet[x].seq + stats[s].cycles = packet[x].ext - Base
      /\ h # Nil => h \in Linked(po[s]) /\ packet[h].ext \in 0 .. sent[s]
  BY <1>2, <1>b, <1>c, Newest
<1>4. recv'.slot = x /\ recv'.src = s /\ recv'.pc = IF dup THEN "bpfree" ELSE "pktlen"
  BY <1>1, <1>2, <1>b, <1>c DEF Types
<1> HIDE DEF dup, h, q
<1>5. Types' /\ HeldOK' /\ NoSeekOK'
  BY <1>1, <1>2, <1>4 DEF Types, HeldOK, NoSeekOK
<1>6. FollowOK'
  BY <1>1, <1>2, <1>4 DEF FollowOK, Untracked
<1>7. CASE dup
  <2>1. Held' = Held
    BY <1>2, <1>3, <1>4, <1>7, Ranges DEF Held
  <2>2. Structure' /\ OrderOK' /\ HeadOK'
    BY <1>2, <1>7, <2>1, QuietKept
  <2>3. ThreadsOK'
    BY <1>1, <1>2, <1>3, <1>4, <1>7, Ranges DEF ThreadsOK
  <2>4. QED
    BY <1>5, <1>6, <2>2, <2>3, InvPartsNext
<1>8. CASE ~dup
  <2>1. /\ Structure' /\ Oldest(po[s])' = Append(q, x) /\ Linked(po[s])' = Linked(po[s]) \cup {x}
        /\ po'[s].pohead = x /\ po'[s].cycles = stats[s].cycles
        /\ po[s].potail # Nil => po'[s].potail = po[s].potail
        /\ \A t \in Sources : t # s => po'[t] = po[t]
        /\ Held' = {} /\ \A y \in Linked(po[s]) : packet[y].ext < packet[x].ext
    BY <1>2, <1>8, <1>b, <1>c, AddLinks DEF q
  <2>3. PICK n \in Nat : n = Len(q)
    BY <1>1, <1>3, Lists, PoListFacts, ChainType DEF q
  <2>4. q \in [1 .. n -> Slot] /\ Linked(po[s]) = {q[i] : i \in 1 .. n} /\ DOMAIN q = 1 .. n
    BY <1>1, <1>3, <2>3, Lists, PoListFacts, ChainType DEF q
  <2>5. \A i, j \in 1 .. n : i < j => packet[q[i]].ext < packet[q[j]].ext
    BY <1>1, <1>3, <2>4 DEF OrderOK, q
  <2>6. DOMAIN Append(q, x) = 1 .. n + 1 /\ \A i \in 1 .. n + 1 : Append(q, x)[i] = IF i = n + 1 THEN x ELSE q[i]
    <3>1. q \in Seq(Slot)
      BY <2>3, <2>4
    <3>2. QED
      BY <2>3, <3>1
  <2>7. \A i \in 1 .. n : packet[q[i]].ext < packet[x].ext
    BY <2>1, <2>4
  <2>8. OrderOK'
    <3> SUFFICES ASSUME NEW t \in Sources
                 PROVE  LET list == Oldest(po[t])'
                        IN  /\ played'[t] \in 0 .. sent'[t]
                            /\ \A y \in Linked(po[t])' : Numbered(y, t)' /\ packet'[y].ext \in played'[t] .. sent'[t]
                            /\ \A i, j \in DOMAIN list : i < j => packet'[list[i]].ext < packet'[list[j]].ext
      BY DEF OrderOK
    <3>1. played[t] \in 0 .. sent[t] /\ sent[t] \in Nat
      BY <1>1 DEF OrderOK, Types
    <3>2. CASE t # s
      BY <1>1, <1>2, <2>1, <3>2 DEF OrderOK, Numbered
    <3>3. CASE t = s
      <4>1. \A y \in Linked(po[s])' : Numbered(y, s)' /\ packet'[y].ext \in played'[s] .. sent'[s]
        <5>1. Numbered(x, s) /\ packet[x].ext \in played[s] .. sent[s]
          BY <1>3, <3>1, <3>3
        <5>2. \A y \in Linked(po[s]) : Numbered(y, s) /\ packet[y].ext \in played[s] .. sent[s]
          BY <1>1, <1>3 DEF OrderOK
        <5>3. \A y \in Linked(po[s])' : Numbered(y, s) /\ packet[y].ext \in played[s] .. sent[s]
          BY <2>1, <5>1, <5>2
        <5>4. packet' = packet /\ played' = played /\ sent' = sent
          BY <1>2
        <5>5. QED
          BY <5>3, <5>4 DEF Numbered
      <4>2. ASSUME NEW i \in 1 .. n + 1, NEW j \in 1 .. n + 1, i < j
            PROVE  packet[Append(q, x)[i]].ext < packet[Append(q, x)[j]].ext
        <5>1. i \in 1 .. n /\ i # n + 1 /\ (j = n + 1 \/ (j \in 1 .. n /\ j # n + 1))
          BY <4>2
        <5>2. QED
          BY <2>5, <2>6, <2>7, <4>2, <5>1
      <4>3. Oldest(po[t])' = Append(q, x) /\ packet' = packet /\ played' = played /\ sent' = sent
        BY <1>2, <2>1, <3>3
      <4>4. \A i, j \in DOMAIN Oldest(po[t])' :
              i < j => packet'[Oldest(po[t])'[i]].ext < packet'[Oldest(po[t])'[j]].ext
        BY <2>6, <4>2, <4>3
      <4>5. played'[t] \in 0 .. sent'[t]
        BY <3>1, <4>3
      <4>6. QED
        BY <3>3, <4>1, <4>4, <4>5
    <3>4. QED
      BY <3>2, <3>3
  <2>9. HeadOK'
    BY <1>1, <1>2, <1>3, <2>1 DEF HeadOK
  <2>10. ThreadsOK'
    <3>1. app.pc \in {"pointer", "use", "rm", "bprmv"} => app.index = po'[app.src].potail /\ app.index # Nil
      <4> SUFFICES ASSUME app.pc \in {"pointer", "use", "rm", "bprmv"}
                   PROVE  app.index = po'[app.src].potail /\ app.index # Nil
        OBVIOUS
      <4>1. app.index = po[app.src].potail /\ app.index # Nil /\ app.src \in Sources
        BY <1>1 DEF ThreadsOK
      <4>2. QED
        BY <2>1, <4>1
    <3>2. QED
      BY <1>1, <1>2, <1>3, <1>4, <1>8, <3>1, Ranges DEF ThreadsOK
  <2>11. QED
    BY <1>5, <1>6, <2>1, <2>8, <2>9, <2>10, InvPartsNext
<1>9. QED
  BY <1>7, <1>8

\* The signal of cond_full moves a waiting RTP thread, and nothing else.
LEMMA WakeKept ==
  ASSUME Types, recv' = [recv EXCEPT !.pc = Wake(@)]
  PROVE  /\ recv'.slot = recv.slot /\ recv'.src = recv.src /\ recv'.reset = recv.reset
         /\ recv'.pc = recv.pc \/ (recv.pc = "waiting" /\ recv'.pc = "woken")
         /\ recv' \in [pc : {"select", "waiting", "woken", "recvfrom", "known", "seekdone",
                             "poadd", "pktlen", "bpfree"},
                       slot : Link, src : Sources \cup {None}, reset : BOOLEAN]
         /\ Held' = Held
<1>1. /\ recv'.slot = recv.slot /\ recv'.src = recv.src /\ recv'.reset = recv.reset
      /\ recv'.pc = recv.pc \/ (recv.pc = "waiting" /\ recv'.pc = "woken")
  BY DEF Types, Wake
<1>2. recv' \in [pc : {"select", "waiting", "woken", "recvfrom", "known", "seekdone",
                       "poadd", "pktlen", "bpfree"},
                 slot : Link, src : Sources \cup {None}, reset : BOOLEAN]
  BY DEF Types, Wake
<1>3. Held' = Held
  BY <1>1 DEF Held
<1>4. QED
  BY <1>1, <1>2, <1>3

\* No packet of a list is older than the one at potail.
LEMMA TailOldest ==
  ASSUME Inv, NEW s \in Sources, NEW x, x = po[s].potail, x # Nil
  PROVE  \A y \in Linked(po[s]) : packet[x].ext <= packet[y].ext
<1> DEFINE q == Oldest(po[s])
<1>1. Structure /\ Types /\ OrderOK
  BY InvParts
<1>2. Linked(po[s]) = Range(q) /\ Chain(po[s].prev, po[s].potail, q)
  BY <1>1, Lists, PoListFacts
<1>3. \A i, j \in DOMAIN q : i < j => packet[q[i]].ext < packet[q[j]].ext
  BY <1>1 DEF OrderOK
<1> HIDE DEF q
<1>4. PICK n \in Nat : n = Len(q)
  BY <1>2, ChainType
<1>5. q \in [1 .. n -> Slot] /\ DOMAIN q = 1 .. n /\ Range(q) = {q[i] : i \in 1 .. n} /\ n # 0
  BY <1>2, <1>4, ChainType
<1>6. x = q[1]
  BY <1>2, <1>4, <1>5, ChainType DEF Chain
<1> SUFFICES ASSUME NEW y \in Linked(po[s]) PROVE packet[x].ext <= packet[y].ext
  OBVIOUS
<1>7. PICK i \in 1 .. n : y = q[i]
  BY <1>2, <1>5
<1>8. 1 \in 1 .. n /\ q[1] \in Slot /\ q[i] \in Slot
  BY <1>5
<1>9. packet[q[1]].ext \in Nat /\ packet[q[i]].ext \in Nat
  BY <1>1, <1>8 DEF Types
<1>10. i = 1 \/ packet[q[1]].ext < packet[q[i]].ext
  BY <1>3, <1>5, <1>8
<1>11. QED
  BY <1>6, <1>7, <1>9, <1>10

\* rtp_rm_pkt removes the oldest packet of a list, the one at potail.
LEMMA RmCases ==
  ASSUME Tame, Inv, RmPkt, NEW s \in Sources, s = app.src, NEW x \in Slot, x = app.index
  PROVE  /\ Removes(s, x) /\ packet' = [packet EXCEPT ![x] = Blank]
         /\ recv' = [recv EXCEPT !.pc = Wake(@)]
         /\ played' = [played EXCEPT ![s] = packet[x].ext]
         /\ UNCHANGED <<pktlen, leaked, stats, known, active, done_seek, sent, plays>>
<1>1. Types /\ ThreadsOK
  BY InvParts
<1>2. /\ app.pc = "bprmv" /\ po' = [po EXCEPT ![s] = podel(@, x)] /\ bp' = bpfree(bp, x)
      /\ packet' = [packet EXCEPT ![x] = Blank]
      /\ recv' = [recv EXCEPT !.pc = Wake(@)]
      /\ played' = [played EXCEPT ![s] = packet[x].ext]
      /\ UNCHANGED <<pktlen, leaked, stats, known, active, done_seek, sent, plays>>
  BY DEF RmPkt, sources, network
<1>3. x = po[s].potail /\ x # Nil
  BY <1>1, <1>2 DEF ThreadsOK
<1>4. Held' = Held
  BY <1>1, <1>2, WakeKept
<1>5. QED
  BY <1>2, <1>3, <1>4 DEF Removes

LEMMA RmPktStep == ASSUME Tame, Inv, RmPkt PROVE Inv'
<1>1. Structure /\ Types /\ ThreadsOK /\ HeldOK /\ OrderOK /\ HeadOK /\ FollowOK /\ NoSeekOK
  BY InvParts
<1>2. /\ app.pc = "bprmv"
      /\ \E pc \in {"idle", "get"} :
           app' = [app EXCEPT !.pc = pc, !.index = Nil, !.moved = 0, !.len = 0,
                              !.used = 0, !.src = IF pc = "idle" THEN None ELSE @]
  BY DEF RmPkt
<1>3. app.src \in Sources /\ app.index = po[app.src].potail /\ app.index # Nil
  BY <1>1, <1>2 DEF ThreadsOK
<1>4. app.index \in Slot
  BY <1>1, <1>3, Ranges DEF Types
<1>5. PICK s \in Sources : s = app.src
  BY <1>3
<1>6. PICK x \in Slot : x = app.index
  BY <1>4
<1>7. /\ Removes(s, x) /\ packet' = [packet EXCEPT ![x] = Blank]
      /\ recv' = [recv EXCEPT !.pc = Wake(@)]
      /\ played' = [played EXCEPT ![s] = packet[x].ext]
      /\ UNCHANGED <<pktlen, leaked, stats, known, active, done_seek, sent, plays>>
  BY <1>5, <1>6, RmCases
<1>8. /\ Structure' /\ bp'.moved = bp.moved
      /\ x \in Linked(po[s]) /\ Oldest(po[s]) # <<>> /\ x = Oldest(po[s])[1]
      /\ Oldest(po[s])' = Tail(Oldest(po[s])) /\ Linked(po[s])' = Linked(po[s]) \ {x}
      /\ po'[s].pohead # Nil => /\ po'[s].pohead = po[s].pohead /\ po[s].pohead # x
                                /\ po'[s].cycles = po[s].cycles
      /\ \A t \in Sources : t # s => po'[t] = po[t]
  BY <1>1, <1>7, RemoveStructure
<1>9. /\ recv'.slot = recv.slot /\ recv'.src = recv.src
      /\ recv'.pc = recv.pc \/ (recv.pc = "waiting" /\ recv'.pc = "woken")
      /\ recv' \in [pc : {"select", "waiting", "woken", "recvfrom", "known", "seekdone",
                          "poadd", "pktlen", "bpfree"},
                    slot : Link, src : Sources \cup {None}, reset : BOOLEAN]
  BY <1>1, <1>7, WakeKept
<1>10. /\ \A y \in Slot : y # x => packet'[y] = packet[y]
       /\ \A t \in Sources : played'[t] = IF t = s THEN packet[x].ext ELSE played[t]
  BY <1>1, <1>7 DEF Types
<1>11. /\ app'.pc \in {"idle", "get"} /\ (app'.pc = "get" => app'.src = s)
       /\ app' \in [pc : {"idle", "get", "pointer", "use", "rm", "bprmv", "seek", "rmall"},
                    src : Sources \cup {None}, index : Link, moved : 0 .. BP_MAX_SIZE,
                    len : 0 .. MaxExt, used : 0 .. MaxExt, toclear : SUBSET Sources]
  <2>1. Nil \in Link /\ 0 \in 0 .. MaxExt /\ 0 \in 0 .. BP_MAX_SIZE
    BY Ranges, Constants
  <2>2. app.toclear \in SUBSET Sources
    BY <1>1 DEF Types
  <2>3. PICK pc \in {"idle", "get"}, src \in Sources \cup {None} :
          /\ pc = "get" => src = s
          /\ app' = [app EXCEPT !.pc = pc, !.index = Nil, !.moved = 0, !.len = 0, !.used = 0, !.src = src]
    BY <1>5 DEF RmPkt
  <2>4. app' = [pc |-> pc, src |-> src, index |-> Nil, moved |-> 0, len |-> 0, used |-> 0,
                toclear |-> app.toclear]
    BY <1>1, <2>3 DEF Types
  <2>5. QED
    BY <2>1, <2>2, <2>3, <2>4
<1>12. Types'
  <2>1. Blank \in [src : Sources \cup {None}, ext : 0 .. MaxExt, seq : SeqNum, era : 0 .. MaxSeeks]
    BY Ranges DEF Blank
  <2>2. packet[x].ext \in 0 .. MaxExt
    BY <1>1 DEF Types
  <2>3. QED
    BY <1>1, <1>7, <1>9, <1>11, <2>1, <2>2 DEF Types
<1>13. OrderOK'
  <2> SUFFICES ASSUME NEW t \in Sources
               PROVE  LET list == Oldest(po[t])'
                      IN  /\ played'[t] \in 0 .. sent'[t]
                          /\ \A y \in Linked(po[t])' : Numbered(y, t)' /\ packet'[y].ext \in played'[t] .. sent'[t]
                          /\ \A i, j \in DOMAIN list : i < j => packet'[list[i]].ext < packet'[list[j]].ext
    BY DEF OrderOK
  <2>1. sent' = sent /\ sent[t] \in Nat
    BY <1>1, <1>7 DEF Types
  <2>2. /\ played[t] \in 0 .. sent[t]
        /\ \A y \in Linked(po[t]) : Numbered(y, t) /\ packet[y].ext \in played[t] .. sent[t]
        /\ \A i, j \in DOMAIN Oldest(po[t]) : i < j => packet[Oldest(po[t])[i]].ext < packet[Oldest(po[t])[j]].ext
    BY <1>1 DEF OrderOK
  <2>3. /\ Linked(po[t]) \subseteq Slot
        /\ \A i \in DOMAIN Oldest(po[t]) : Oldest(po[t])[i] \in Linked(po[t])
    BY <1>1, Lists DEF Range
  <2>4. CASE t # s
    <3>1. x \notin Linked(po[t])
      BY <1>1, <1>8, <2>4, Partition
    <3>2. /\ Linked(po[t])' = Linked(po[t]) /\ Oldest(po[t])' = Oldest(po[t]) /\ played'[t] = played[t]
      BY <1>8, <1>10, <2>4
    <3>3. \A y \in Linked(po[t]) : packet'[y] = packet[y]
      BY <1>10, <2>3, <3>1
    <3> DEFINE list == Oldest(po[t])
    <3>4. /\ \A i \in DOMAIN list : list[i] \in Linked(po[t])
          /\ \A i, j \in DOMAIN list : i < j => packet[list[i]].ext < packet[list[j]].ext
      BY <2>2, <2>3
    <3> HIDE DEF list
    <3>5. \A i, j \in DOMAIN list : i < j => packet'[list[i]].ext < packet'[list[j]].ext
      BY <3>3, <3>4
    <3>6. \A y \in Linked(po[t]) : Numbered(y, t)' /\ packet'[y].ext \in played[t] .. sent[t]
      BY <2>2, <3>3 DEF Numbered
    <3>7. QED
      BY <2>1, <2>2, <3>2, <3>5, <3>6 DEF list
  <2>5. CASE t = s
    <3>1. PICK list : list = Oldest(po[s])
      OBVIOUS
    <3>2. PICK n \in Nat : n = Len(list)
      BY <1>1, <3>1, Lists, PoListFacts, ChainType
    <3>3. n # 0 /\ list \in [1 .. n -> Slot] /\ list \in Seq(Slot) /\ DOMAIN list = 1 .. n
      <4>1. Chain(po[s].prev, po[s].potail, list)
        BY <1>1, <3>1, Lists, PoListFacts
      <4>2. list \in [1 .. n -> Slot] /\ (list = <<>> <=> n = 0)
        BY <3>2, <4>1, ChainType
      <4>3. list # <<>>
        BY <1>8, <3>1
      <4>4. QED
        BY <4>2, <4>3
    <3>4. DOMAIN Tail(list) = 1 .. n - 1 /\ \A i \in 1 .. n - 1 : Tail(list)[i] = list[i + 1]
      BY <3>2, <3>3
    <3>5. \A i, j \in 1 .. n : i < j => packet[list[i]].ext < packet[list[j]].ext
      BY <2>2, <2>5, <3>1, <3>3
    <3>6. \A i \in 2 .. n : list[i] # x /\ list[i] \in Slot /\ packet'[list[i]] = packet[list[i]]
      <4>1. x = list[1] /\ packet[x].ext \in Nat
        BY <1>1, <1>8, <3>1 DEF Types
      <4>2. \A i \in 2 .. n : list[i] \in Slot /\ packet[list[1]].ext < packet[list[i]].ext
        BY <3>3, <3>5
      <4>3. \A i \in 2 .. n : list[i] # x
        BY <4>1, <4>2
      <4>4. QED
        BY <1>10, <4>2, <4>3
    <3>7. \A i, j \in 1 .. n - 1 : i < j => packet'[Tail(list)[i]].ext < packet'[Tail(list)[j]].ext
      <4> SUFFICES ASSUME NEW i \in 1 .. n - 1, NEW j \in 1 .. n - 1, i < j
                   PROVE  packet'[Tail(list)[i]].ext < packet'[Tail(list)[j]].ext
        OBVIOUS
      <4>1. i + 1 \in 2 .. n /\ j + 1 \in 2 .. n /\ i + 1 \in 1 .. n /\ j + 1 \in 1 .. n /\ i + 1 < j + 1
        BY <3>3
      <4>2. packet[list[i + 1]].ext < packet[list[j + 1]].ext
        BY <3>5, <4>1
      <4>3. QED
        BY <3>4, <3>6, <4>1, <4>2
    <3>8. \A y \in Linked(po[s]) : packet[x].ext <= packet[y].ext
      BY <1>7, TailOldest DEF Removes
    <3>9. played'[s] = packet[x].ext /\ packet[x].ext \in 0 .. sent[s]
      <4>1. packet[x].ext \in played[s] .. sent[s] /\ played[s] \in 0 .. sent[s]
        BY <1>8, <2>2, <2>5
      <4>2. QED
        BY <1>10, <4>1
    <3>10. \A y \in Linked(po[s]) \ {x} : Numbered(y, s)' /\ packet'[y].ext \in packet[x].ext .. sent[s]
      <4> SUFFICES ASSUME NEW y \in Linked(po[s]), y # x
                   PROVE  Numbered(y, s)' /\ packet'[y].ext \in packet[x].ext .. sent[s]
        OBVIOUS
      <4>1. packet'[y] = packet[y]
        BY <1>10, <2>3, <2>5
      <4>2. Numbered(y, s) /\ packet[y].ext \in played[s] .. sent[s] /\ packet[x].ext <= packet[y].ext
            /\ played[s] \in 0 .. sent[s]
        BY <2>2, <2>5, <3>8
      <4>3. QED
        BY <3>9, <4>1, <4>2 DEF Numbered
    <3>11. Oldest(po[t])' = Tail(list) /\ Linked(po[t])' = Linked(po[s]) \ {x}
      BY <1>8, <2>5, <3>1
    <3>12. \A i, j \in DOMAIN Oldest(po[t])' : i < j => packet'[Oldest(po[t])'[i]].ext < packet'[Oldest(po[t])'[j]].ext
      BY <3>4, <3>7, <3>11
    <3>13. \A y \in Linked(po[t])' : Numbered(y, t)' /\ packet'[y].ext \in played'[t] .. sent'[t]
      BY <2>1, <2>5, <3>9, <3>10, <3>11
    <3>14. QED
      BY <2>1, <2>5, <3>9, <3>12, <3>13
  <2>6. QED
    BY <2>4, <2>5
<1>14. HeadOK'
  <2> SUFFICES ASSUME NEW t \in Sources, po'[t].pohead # Nil
               PROVE  packet'[po'[t].pohead].seq + po'[t].cycles = packet'[po'[t].pohead].ext - Base
    BY DEF HeadOK
  <2>1. po'[t].pohead = po[t].pohead /\ po'[t].cycles = po[t].cycles /\ po[t].pohead # x
    <3>1. CASE t = s
      BY <1>8, <3>1
    <3>2. CASE t # s
      <4>1. po'[t] = po[t] /\ x \notin Linked(po[t])
        BY <1>1, <1>8, <3>2, Partition
      <4>2. po[t].pohead \in Linked(po[t])
        BY <1>1, <4>1, HeadLinked
      <4>3. QED
        BY <4>1, <4>2
    <3>3. QED
      BY <3>1, <3>2
  <2>2. po[t].pohead \in Slot
    BY <1>1, <2>1, HeadLinked, Lists
  <2>3. packet'[po[t].pohead] = packet[po[t].pohead]
    BY <1>10, <2>1, <2>2
  <2>4. QED
    BY <1>1, <2>1, <2>3 DEF HeadOK
<1>15. ThreadsOK'
  BY <1>1, <1>7, <1>8, <1>9, <1>11 DEF ThreadsOK
<1>16. HeldOK'
  <2> SUFFICES ASSUME recv'.pc \in {"known", "seekdone", "poadd"}
               PROVE  Numbered(recv.slot, recv.src)' /\ packet'[recv'.slot].ext = sent'[recv'.src]
    BY DEF HeldOK
  <2>1. recv.pc = recv'.pc
    BY <1>9
  <2>2. recv.slot \in Slot /\ app.index # recv.slot
    BY <1>2, <2>1, HeldUnlinked
  <2>3. packet'[recv.slot] = packet[recv.slot]
    BY <1>6, <1>10, <2>2
  <2>4. QED
    BY <1>1, <1>7, <1>9, <2>1, <2>3 DEF HeldOK, Numbered
<1>17. FollowOK'
  BY <1>1, <1>7, <1>9 DEF FollowOK, Untracked
<1>18. NoSeekOK'
  BY <1>1, <1>7, <1>11 DEF NoSeekOK
<1>19. QED
  BY <1>8, <1>12, <1>13, <1>14, <1>15, <1>16, <1>17, <1>18, InvPartsNext

\* rtp_rm_all_pkts empties a list, in a stream whose numbers do not wrap.
LEMMA RmAllCases ==
  ASSUME Tame, Inv, RemoveAllPkts, NEW s \in Sources, s = app.src
  PROVE  /\ Unwrapped /\ plays < MaxSeeks
         /\ Clears(s, RemoveAll(bp, po[s]))
         /\ recv' = [recv EXCEPT !.pc = Wake(@)]
         /\ app' = [app EXCEPT !.pc = "seek", !.src = None, !.toclear = @ \ {s}]
         /\ UNCHANGED <<packet, pktlen, stats, known, active, done_seek, sent, plays, played, leaked>>
<1>1. Types /\ ThreadsOK /\ NoSeekOK
  BY InvParts
<1>2. /\ app.pc = "rmall"
      /\ bp' = RemoveAll(bp, po[s]).bp /\ po' = [po EXCEPT ![s] = RemoveAll(bp, po[s]).po]
      /\ recv' = [recv EXCEPT !.pc = Wake(@)]
      /\ app' = [app EXCEPT !.pc = "seek", !.src = None, !.toclear = @ \ {s}]
      /\ UNCHANGED <<packet, pktlen, stats, known, active, done_seek, sent, plays, played, leaked>>
  BY DEF RemoveAllPkts, sources, network, history
<1>3. Unwrapped /\ plays < MaxSeeks
  BY <1>1, <1>2 DEF NoSeekOK, ThreadsOK
<1>4. Held' = Held
  BY <1>1, <1>2, WakeKept
<1>5. QED
  BY <1>2, <1>3, <1>4 DEF Clears

LEMMA RemoveAllPktsStep == ASSUME Tame, Inv, RemoveAllPkts PROVE Inv'
<1>1. Structure /\ Types /\ ThreadsOK /\ HeldOK /\ OrderOK /\ HeadOK /\ FollowOK /\ NoSeekOK
  BY InvParts
<1>2. app.src \in Sources
  BY <1>1 DEF ThreadsOK, RemoveAllPkts
<1>3. PICK s \in Sources : s = app.src
  BY <1>2
<1>4. /\ Unwrapped /\ plays < MaxSeeks
      /\ Clears(s, RemoveAll(bp, po[s]))
      /\ recv' = [recv EXCEPT !.pc = Wake(@)]
      /\ app' = [app EXCEPT !.pc = "seek", !.src = None, !.toclear = @ \ {s}]
      /\ UNCHANGED <<packet, pktlen, stats, known, active, done_seek, sent, plays, played, leaked>>
  BY <1>3, RmAllCases
<1>5. /\ Structure' /\ bp'.moved = bp.moved
      /\ Oldest(po[s])' = <<>> /\ Linked(po[s])' = {} /\ po'[s].pohead = Nil
      /\ \A t \in Sources : t # s => po'[t] = po[t]
  <2>1. PICK r : r = RemoveAll(bp, po[s])
    OBVIOUS
  <2>2. Clears(s, r)
    BY <1>4, <2>1
  <2>3. QED
    BY <1>1, <2>2, ClearStructure
<1>6. /\ recv'.slot = recv.slot /\ recv'.src = recv.src
      /\ recv'.pc = recv.pc \/ (recv.pc = "waiting" /\ recv'.pc = "woken")
      /\ recv' \in [pc : {"select", "waiting", "woken", "recvfrom", "known", "seekdone",
                          "poadd", "pktlen", "bpfree"},
                    slot : Link, src : Sources \cup {None}, reset : BOOLEAN]
  BY <1>1, <1>4, WakeKept
<1>7. /\ app'.pc = "seek"
      /\ app' \in [pc : {"idle", "get", "pointer", "use", "rm", "bprmv", "seek", "rmall"},
                   src : Sources \cup {None}, index : Link, moved : 0 .. BP_MAX_SIZE,
                   len : 0 .. MaxExt, used : 0 .. MaxExt, toclear : SUBSET Sources]
  BY <1>1, <1>4 DEF Types
<1>8. Types'
  BY <1>1, <1>4, <1>6, <1>7 DEF Types
<1>9. OrderOK'
  <2> SUFFICES ASSUME NEW t \in Sources
               PROVE  LET list == Oldest(po[t])'
                      IN  /\ played'[t] \in 0 .. sent'[t]
                          /\ \A y \in Linked(po[t])' : Numbered(y, t)' /\ packet'[y].ext \in played'[t] .. sent'[t]
                          /\ \A i, j \in DOMAIN list : i < j => packet'[list[i]].ext < packet'[list[j]].ext
    BY DEF OrderOK
  <2>1. packet' = packet /\ played' = played /\ sent' = sent
    BY <1>4
  <2>2. /\ played[t] \in 0 .. sent[t]
        /\ \A y \in Linked(po[t]) : Numbered(y, t) /\ packet[y].ext \in played[t] .. sent[t]
        /\ \A i, j \in DOMAIN Oldest(po[t]) : i < j => packet[Oldest(po[t])[i]].ext < packet[Oldest(po[t])[j]].ext
    BY <1>1 DEF OrderOK
  <2>3. CASE t # s
    BY <1>5, <2>1, <2>2, <2>3 DEF Numbered
  <2>4. CASE t = s
    <3>1. Oldest(po[t])' = <<>> /\ Linked(po[t])' = {} /\ DOMAIN <<>> = {}
      BY <1>5, <2>4
    <3>2. QED
      BY <2>1, <2>2, <3>1
  <2>5. QED
    BY <2>3, <2>4
<1>10. HeadOK'
  BY <1>1, <1>4, <1>5 DEF HeadOK
<1>11. ThreadsOK'
  BY <1>1, <1>4, <1>6, <1>7 DEF ThreadsOK
<1>12. HeldOK'
  BY <1>1, <1>4, <1>6 DEF HeldOK, Numbered
<1>13. FollowOK'
  BY <1>1, <1>4, <1>6 DEF FollowOK, Untracked
<1>14. NoSeekOK'
  BY <1>1, <1>4 DEF NoSeekOK
<1>15. QED
  BY <1>5, <1>8, <1>9, <1>10, <1>11, <1>12, <1>13, <1>14, InvPartsNext

-----------------------------------------------------------------------------
(***************************************************************************)
(* The invariant, and what follows from it.                                *)
(***************************************************************************)
LEMMA StutterStep == ASSUME Inv, UNCHANGED vars PROVE Inv'
<1> USE DEF vars, pool, sources, network, history
<1>1. Structure /\ Types /\ ThreadsOK /\ HeldOK /\ FollowOK /\ NoSeekOK
  BY InvParts
<1>2. Held' = Held
  BY DEF Held
<1>3. Structure' /\ OrderOK' /\ HeadOK'
  BY <1>2, QuietKept
<1>4. Types'
  BY <1>1 DEF Types
<1>5. ThreadsOK' /\ HeldOK' /\ NoSeekOK'
  BY <1>1 DEF ThreadsOK, HeldOK, NoSeekOK, Numbered
<1>6. FollowOK'
  BY <1>1 DEF FollowOK, Untracked
<1>7. QED
  BY <1>3, <1>4, <1>5, <1>6, InvPartsNext

LEMMA InvStep == ASSUME Tame, Inv, [Next]_vars PROVE Inv'
<1>1. ASSUME Receiver PROVE Inv'
  <2>1. ASSUME NEW s \in Sources, NEW e \in Deliverable(s), RecvFrom(s, e) PROVE Inv'
    BY <2>1, RecvFromStep
  <2>2. QED
    BY <1>1, <2>1, GetStep, GetWaitsStep, RecvErrorStep, BadHeaderStep, TrackStep, SeekDoneStep,
       AddStep, SetLengthStep, FreeStep DEF Receiver
<1>2. ASSUME Player PROVE Inv'
  <2>1. ASSUME NEW s \in Sources, Fill(s) \/ MarkSeek(s) PROVE Inv'
    BY <2>1, FillStep, MarkSeekStep
  <2>2. QED
    BY <1>2, <2>1, GetPktStep, TakePointerStep, UsePacketStep, ReadTailStep, RmPktStep,
       StartSeekStep, RemoveAllPktsStep, PlayStep DEF Player
<1>3. QED
  BY <1>1, <1>2, StutterStep DEF Next

\* Inv is inductive.
LEMMA InvInductive == ASSUME Tame PROVE Spec => []Inv
<1>1. Init => Inv
  BY InitInv
<1>2. Inv /\ [Next]_vars => Inv'
  BY InvStep
<1>3. QED
  BY <1>1, <1>2, PTL DEF Spec

\* The lists, from whichever end they are walked, are lists (SoundLists), in every tame
\* stream, whatever the sizes of the pool and of the sequence space.
THEOREM ListsSound == ASSUME Tame PROVE Spec => []SoundLists
<1>1. Inv => SoundLists
  BY PoListSound DEF Inv, ListsOK, SoundLists
<1>2. QED
  BY <1>1, InvInductive, PTL

\* Every variable has its type; in particular the positions read from the packets stay
\* within what was sent, and flcount within the pool.
THEOREM TypeCorrect == ASSUME Tame PROVE Spec => []TypeOK
<1>1. Inv => TypeOK
  BY DEF Inv
<1>2. QED
  BY <1>1, InvInductive, PTL

\* Every list is sorted by the order in which its source sent the packets
\* (bufferpool.h:105), through the wraps of the header number, and pocount is the number
\* of its members (bufferpool.h:114).
THEOREM ListsSorted == ASSUME Tame PROVE Spec => [](SortedLists /\ CountsMembers)
<1>1. Inv => SortedLists
  BY DEF Inv, OrderOK, SortedLists
<1>2. Inv => CountsMembers
  <2> SUFFICES ASSUME Inv, NEW s \in Sources PROVE po[s].pocount = Cardinality(Linked(po[s]))
    BY DEF CountsMembers
  <2>1. PoList(po[s], Oldest(po[s]))
    BY DEF Inv, ListsOK
  <2>2. QED
    BY <2>1, PoListFacts, ChainCardinality
<1>3. QED
  BY <1>1, <1>2, InvInductive, PTL

\* The free list, the playout lists, the slot in the RTP thread's hands and the slots a failed
\* recvfrom forgot (rtp_recv.c:242) share the pool out.
THEOREM SlotsShared == ASSUME Tame PROVE Spec => []SlotPartition
<1>1. Inv => SlotPartition
  BY DEF Inv
<1>2. QED
  BY <1>1, InvInductive, PTL

-----------------------------------------------------------------------------
(***************************************************************************)
(* The two threads implement PlayoutQueue.                                 *)
(***************************************************************************)
\* The packets of each list, as the abstract queue sees them.
Entry(i) == [slot |-> i, key |-> packet[i].ext]
Queued == [s \in Sources |-> {Entry(i) : i \in Linked(po[s])}]

Mapped == <<Unused, FreeSlots(bp), Held, Queued, played, leaked>>

\* Steps that the abstract queue does not see.
LEMMA QueueKept ==
  ASSUME UNCHANGED <<bp, po, played, leaked>>, Held' = Held,
         \A s \in Sources : \A x \in Linked(po[s]) : packet'[x] = packet[x]
  PROVE  Mapped' = Mapped
<1>1. Unused' = Unused /\ FreeSlots(bp)' = FreeSlots(bp) /\ \A s \in Sources : Linked(po[s])' = Linked(po[s])
  BY DEF Unused
<1>2. ASSUME NEW s \in Sources
      PROVE  {Entry(i) : i \in Linked(po[s])}' = {Entry(i) : i \in Linked(po[s])}
  BY <1>1 DEF Entry
<1>3. Queued' = Queued
  BY <1>2 DEF Queued
<1>4. QED
  BY <1>1, <1>3 DEF Mapped

LEMMA QueueInit == Init => Queue!Init
<1> SUFFICES ASSUME Init PROVE Queue!Init
  OBVIOUS
<1>1. Structure
  BY InitInv, InvParts
<1>2. Held = {} /\ leaked = {} /\ played = [s \in Sources |-> 0]
  BY DEF Init, Held
<1>3. \A s \in Sources : Linked(po[s]) = {}
  BY <1>1, HeadLinked DEF Init, poinit
<1>4. Queued = [s \in Sources |-> {}]
  BY <1>3 DEF Queued
<1>5. FreeSlots(bp) = 0 .. bp.size - 1
  <2>1. FreeSlots(bp) \cup Held \cup leaked \cup AllLinked = 0 .. bp.size - 1
    BY <1>1, Partition
  <2>2. AllLinked = {}
    BY <1>3 DEF AllLinked
  <2>3. QED
    BY <1>2, <2>1, <2>2
<1>6. bp.size \in 1 .. BP_MAX_SIZE /\ BP_MAX_SIZE \in Nat
  BY <1>1, Pool, PoolAssumption DEF PoolAssumption
<1>7. FreeSlots(bp) \in SUBSET Slot /\ Unused = Slot \ FreeSlots(bp)
  BY <1>5, <1>6 DEF Unused, Slot
<1>8. QED
  BY <1>2, <1>4, <1>7 DEF Queue!Init, Queued, Entry, Unused

\* bpget takes a slot; the pool may grow first.
LEMMA GetTakes ==
  ASSUME Tame, Inv, Get
  PROVE  \E x \in Slot : Queue!Take(x)
<1> DEFINE ready == IF bp.flhead = Nil THEN bpenlarge(bp) ELSE bp
           x == ready.flhead
<1>1. Structure /\ Structure' /\ Types /\ ThreadsOK /\ ThreadsOK'
  BY GetStep, InvParts, InvPartsNext
<1>2. /\ recv.pc \in {"woken", "select"} /\ (bp.flhead # Nil \/ CanEnlarge(bp)) /\ bp' = Pop(ready)
      /\ recv' = [recv EXCEPT !.pc = "recvfrom", !.slot = x]
      /\ UNCHANGED <<packet, po, leaked, played>>
  BY DEF Get, InBpget, history
<1> HIDE DEF ready
<1>3. recv'.pc = "recvfrom" /\ recv'.slot = x /\ recv'.slot # Nil
  BY <1>1, <1>2 DEF Types, ThreadsOK
<1>4. Held = {} /\ Held' = {x}
  BY <1>1, <1>2, <1>3 DEF Held, ThreadsOK
<1>5. /\ x \in Slot
      /\ \E grown \in SUBSET Unused : /\ x \in FreeSlots(bp) \cup grown
                                      /\ FreeSlots(bp)' = (FreeSlots(bp) \cup grown) \ {x}
                                      /\ Unused' = Unused \ grown
  BY <1>1, <1>2, <1>4, GetStructure DEF ready
<1> HIDE DEF x
<1>6. Queued' = Queued
  BY <1>2 DEF Queued, Entry
<1>7. Queue!Take(x)
  BY <1>2, <1>4, <1>5, <1>6 DEF Queue!Take, Queued, Entry, Unused
<1>8. QED
  BY <1>5, <1>7

\* A failed recvfrom loses a slot.
LEMMA ErrorLoses ==
  ASSUME Tame, Inv, RecvError
  PROVE  \E x \in Slot : Queue!Lose(x)
<1> DEFINE x == recv.slot
<1>1. Types
  BY InvParts
<1>2. /\ recv.pc = "recvfrom" /\ leaked' = leaked \cup {x} /\ UNCHANGED <<bp, packet, po, played>>
      /\ recv' = [recv EXCEPT !.pc = "select", !.slot = Nil, !.src = None]
  BY DEF RecvError, RecvDone, pool
<1>3. x \in Slot /\ Held = {x}
  BY <1>2, HeldUnlinked
<1>4. Held' = {}
  BY <1>1, <1>2 DEF Held, Types
<1> HIDE DEF x
<1>5. Queued' = Queued /\ Unused' = Unused /\ FreeSlots(bp)' = FreeSlots(bp)
  BY <1>2 DEF Queued, Entry, Unused
<1>6. Queue!Lose(x)
  BY <1>2, <1>3, <1>4, <1>5 DEF Queue!Lose, Queued, Entry, Unused
<1>7. QED
  BY <1>3, <1>6

\* bpfree gives back the slot of a packet that was not linked.
LEMMA FreeDiscards ==
  ASSUME Tame, Inv, Free
  PROVE  \E x \in Slot : Queue!Discard(x)
<1>1. Structure /\ Types
  BY InvParts
<1>2. recv.pc = "bpfree" /\ recv.slot \in Slot
  BY HeldUnlinked DEF Free
<1>3. PICK x \in Slot : x = recv.slot
  BY <1>2
<1>4. /\ bp' = bpfree(bp, x) /\ packet' = [packet EXCEPT ![x] = Blank]
      /\ recv' = [recv EXCEPT !.pc = "select", !.slot = Nil, !.src = None]
      /\ UNCHANGED <<po, played, leaked>>
  BY <1>3 DEF Free, RecvDone, history
<1>5. Held = {x} /\ \A s \in Sources : x \notin Linked(po[s])
  BY <1>2, <1>3, HeldUnlinked
<1>6. Held' = {}
  BY <1>1, <1>4 DEF Held, Types
<1>7. FreeSlots(bp)' = FreeSlots(bp) \cup {x} /\ Unused' = Unused
  BY <1>1, <1>4, <1>5, <1>6, FreeStructure
<1>8. Queued' = Queued
  <2>1. ASSUME NEW s \in Sources
        PROVE  {Entry(i) : i \in Linked(po[s])}' = {Entry(i) : i \in Linked(po[s])}
    <3>1. \A i \in Linked(po[s]) : packet'[i] = packet[i]
      BY <1>1, <1>4, <1>5, Lists DEF Types
    <3>2. Linked(po[s])' = Linked(po[s])
      BY <1>4
    <3>3. QED
      BY <3>1, <3>2 DEF Entry
  <2>2. QED
    BY <2>1 DEF Queued
<1>9. Queue!Discard(x)
  BY <1>4, <1>5, <1>6, <1>7, <1>8 DEF Queue!Discard, Queued, Entry, Unused
<1>10. QED
  BY <1>9

\* poadd queues the packet, or leaves it to bpfree.
LEMMA AddEnqueues ==
  ASSUME Tame, Inv, Add
  PROVE  Mapped' = Mapped \/ \E s \in Sources : \E x \in Slot : \E key \in 0 .. MaxExt :
                             Queue!ComesInOrder(s, key) /\ Queue!Enqueue(s, x, key)
<1>1. Structure /\ Types /\ OrderOK
  BY InvParts
<1>2. recv.pc = "poadd" /\ recv.src \in Sources /\ recv.slot \in Slot /\ UNCHANGED <<bp, packet, played, leaked>>
  BY AddCases, Newest
<1>3. PICK s \in Sources : s = recv.src
  BY <1>2
<1>4. PICK x \in Slot : x = recv.slot
  BY <1>2
<1>5. /\ Held = {x} /\ packet[x].ext = sent[s] /\ played[s] \in 0 .. sent[s] /\ packet[x].ext \in 0 .. MaxExt
      /\ sent[s] \in Nat
  BY <1>1, <1>2, <1>3, <1>4, Newest DEF OrderOK, Types
<1>6. CASE recv' = [recv EXCEPT !.pc = "bpfree"] /\ po' = po
  <2>1. Held' = Held
    BY <1>1, <1>2, <1>6 DEF Held, Types
  <2>2. QED
    BY <1>2, <1>6, <2>1, QueueKept
<1>7. CASE recv' = [recv EXCEPT !.pc = "pktlen"]
  <2>1. /\ Linked(po[s])' = Linked(po[s]) \cup {x} /\ \A t \in Sources : t # s => po'[t] = po[t]
        /\ Held' = {} /\ \A y \in Linked(po[s]) : packet[y].ext < packet[x].ext
    BY <1>3, <1>4, <1>7, AddLinks
  <2>2. PICK key \in 0 .. MaxExt : key = packet[x].ext
    BY <1>5
  <2>3. \A i : Entry(i)' = Entry(i)
    BY <1>2 DEF Entry
  <2>4. Entry(x) = [slot |-> x, key |-> key]
    BY <2>2 DEF Entry
  <2>5. Queued' = [Queued EXCEPT ![s] = @ \cup {[slot |-> x, key |-> key]}]
    <3>1. ASSUME NEW t \in Sources
          PROVE  {Entry(i) : i \in Linked(po[t])}' =
                   IF t = s THEN {Entry(i) : i \in Linked(po[s])} \cup {Entry(x)} ELSE {Entry(i) : i \in Linked(po[t])}
      <4>1. Linked(po[t])' = IF t = s THEN Linked(po[s]) \cup {x} ELSE Linked(po[t])
        BY <2>1
      <4>2. QED
        BY <2>3, <4>1
    <3>2. QED
      BY <2>4, <3>1 DEF Queued
  <2>6. \A p \in Queued[s] : p.key < key
    BY <2>1, <2>2 DEF Queued, Entry
  <2>7. key >= played[s] /\ x \in Held /\ Held' = Held \ {x} /\ Unused' = Unused /\ FreeSlots(bp)' = FreeSlots(bp)
    BY <1>2, <1>5, <2>1, <2>2 DEF Unused
  <2>8. Queue!ComesInOrder(s, key)
    BY <2>6, <2>7 DEF Queue!ComesInOrder, Queued, Entry
  <2>9. \A p \in Queued[s] : p.key # key
    <3>1. \A i \in Linked(po[s]) : packet[i].ext < key
      BY <2>1, <2>2
    <3>2. \A i \in Linked(po[s]) : packet[i].ext # key
      BY <3>1, <2>2
    <3>3. QED
      BY <3>2 DEF Queued, Entry
  <2>10. Queue!Enqueue(s, x, key)
    BY <1>2, <2>5, <2>9, <2>7 DEF Queue!Enqueue, Queued, Entry, Unused
  <2>11. QED
    BY <2>8, <2>10
<1>8. QED
  BY <1>6, <1>7, AddCases

\* bprmv takes the oldest packet out of its queue.
LEMMA RmDequeues ==
  ASSUME Tame, Inv, RmPkt
  PROVE  \E s \in Sources : \E p \in Queued[s] : Queue!Dequeue(s, p)
<1>1. Structure /\ Types /\ ThreadsOK
  BY InvParts
<1>2. app.src \in Sources /\ app.index \in Slot
  BY <1>1, Ranges DEF ThreadsOK, RmPkt, Types
<1>3. PICK s \in Sources : s = app.src
  BY <1>2
<1>4. PICK x \in Slot : x = app.index
  BY <1>2
<1>5. /\ Removes(s, x) /\ packet' = [packet EXCEPT ![x] = Blank]
      /\ played' = [played EXCEPT ![s] = packet[x].ext] /\ UNCHANGED leaked
  BY <1>3, <1>4, RmCases
<1>6. Held' = Held /\ x = po[s].potail /\ x # Nil
  BY <1>5 DEF Removes
<1>7. /\ FreeSlots(bp)' = FreeSlots(bp) \cup {x} /\ Unused' = Unused
      /\ x \in Linked(po[s]) /\ Linked(po[s])' = Linked(po[s]) \ {x}
      /\ \A t \in Sources : t # s => po'[t] = po[t]
  BY <1>1, <1>5, RemoveStructure
<1>8. \A y \in Linked(po[s]) : packet[x].ext <= packet[y].ext
  BY <1>6, TailOldest
<1>9. PICK p : p = Entry(x)
  OBVIOUS
<1>10. p \in Queued[s] /\ p.slot = x /\ p.key = packet[x].ext
  BY <1>7, <1>9 DEF Queued, Entry
<1>11. \A r \in Queued[s] : p.key <= r.key
  BY <1>8, <1>10 DEF Queued, Entry
<1>12. Queued' = [Queued EXCEPT ![s] = @ \ {p}]
  <2>1. ASSUME NEW t \in Sources
        PROVE  {Entry(i) : i \in Linked(po[t])}' =
                 IF t = s THEN {Entry(i) : i \in Linked(po[s])} \ {Entry(x)} ELSE {Entry(i) : i \in Linked(po[t])}
    <3>1. Linked(po[t])' = IF t = s THEN Linked(po[s]) \ {x} ELSE Linked(po[t])
      BY <1>7
    <3>2. x \notin Linked(po[t])'
      BY <1>1, <1>7, <3>1, Partition
    <3>3. \A i \in Linked(po[t])' : Entry(i)' = Entry(i)
      <4>1. \A i \in Linked(po[t])' : i \in Slot /\ i # x
        BY <1>1, <3>1, <3>2, Lists
      <4>2. QED
        BY <1>1, <1>5, <4>1 DEF Entry, Types
    <3>4. \A i : Entry(i) = Entry(x) <=> i = x
      BY DEF Entry
    <3>5. QED
      BY <3>1, <3>3, <3>4
  <2>2. QED
    BY <1>9, <2>1 DEF Queued
<1>13. Queue!Dequeue(s, p)
  BY <1>5, <1>6, <1>7, <1>10, <1>11, <1>12 DEF Queue!Dequeue, Queued, Entry, Unused
<1>14. QED
  BY <1>10, <1>13

\* rtp_rm_all_pkts clears a queue.
LEMMA RmAllClears ==
  ASSUME Tame, Inv, RemoveAllPkts
  PROVE  \E s \in Sources : Queue!Clear(s)
<1>1. Structure /\ Types /\ ThreadsOK
  BY InvParts
<1>2. app.src \in Sources
  BY <1>1 DEF ThreadsOK, RemoveAllPkts
<1>3. PICK s \in Sources : s = app.src
  BY <1>2
<1>4. PICK r : r = RemoveAll(bp, po[s])
  OBVIOUS
<1>5. Clears(s, r) /\ UNCHANGED <<packet, played, leaked>>
  BY <1>3, <1>4, RmAllCases
<1>6. /\ FreeSlots(bp)' = FreeSlots(bp) \cup Linked(po[s]) /\ Unused' = Unused
      /\ Linked(po[s])' = {} /\ \A t \in Sources : t # s => po'[t] = po[t]
  BY <1>1, <1>5, ClearStructure
<1>7. Held' = Held
  BY <1>5 DEF Clears
<1>8. Queued' = [Queued EXCEPT ![s] = {}]
  <2>1. ASSUME NEW t \in Sources
        PROVE  {Entry(i) : i \in Linked(po[t])}' = IF t = s THEN {} ELSE {Entry(i) : i \in Linked(po[t])}
    <3>1. Linked(po[t])' = IF t = s THEN {} ELSE Linked(po[t])
      BY <1>6
    <3>2. QED
      BY <1>5, <3>1 DEF Entry
  <2>2. QED
    BY <2>1 DEF Queued
<1>9. {p.slot : p \in Queued[s]} = Linked(po[s])
  <2>1. Queued[s] = {Entry(i) : i \in Linked(po[s])}
    BY DEF Queued
  <2>2. \A i : Entry(i).slot = i
    BY DEF Entry
  <2>3. QED
    BY <2>1, <2>2
<1>10. Queue!Clear(s)
  BY <1>5, <1>6, <1>7, <1>8, <1>9 DEF Queue!Clear, Queue!SlotsOf, Queued, Entry, Unused
<1>11. QED
  BY <1>10

\* The RTP thread between bpget and poadd, and the parser, change no queue.
LEMMA ReceiverUnseen ==
  ASSUME Tame, Inv,
         GetWaits \/ BadHeader \/ Track \/ SeekDone \/ SetLength
           \/ \E s \in Sources : \E e \in Deliverable(s) : RecvFrom(s, e)
  PROVE  Mapped' = Mapped
<1>1. Types /\ ThreadsOK
  BY InvParts
<1>2. UNCHANGED <<bp, po, played, leaked>>
  BY DEF GetWaits, BadHeader, Track, SeekDone, SetLength, RecvFrom, pool, history
<1>3. CASE GetWaits \/ BadHeader \/ Track \/ SeekDone \/ SetLength
  <2>1. UNCHANGED packet
    BY <1>3 DEF GetWaits, BadHeader, Track, SeekDone, SetLength, pool
  <2>2. Held' = Held
    <3>1. CASE GetWaits
      BY <1>1, <3>1 DEF GetWaits, RecvTo, InBpget, Held, Types, ThreadsOK
    <3>2. CASE BadHeader
      BY <1>1, <3>2 DEF BadHeader, RecvTo, Held, Types
    <3>3. CASE Track
      BY <1>1, <3>3 DEF Track, Held, Types
    <3>4. CASE SeekDone
      BY <1>1, <3>4 DEF SeekDone, Held, Types
    <3>5. CASE SetLength
      BY <1>1, <3>5 DEF SetLength, RecvDone, Held, Types
    <3>6. QED
      BY <1>3, <3>1, <3>2, <3>3, <3>4, <3>5
  <2>3. QED
    BY <1>2, <2>1, <2>2, QueueKept
<1>4. ASSUME NEW s \in Sources, NEW e \in Deliverable(s), RecvFrom(s, e)
      PROVE  Mapped' = Mapped
  <2>1. recv.pc = "recvfrom" /\ \A y \in Slot : y # recv.slot => packet'[y] = packet[y]
    BY <1>1, <1>4 DEF RecvFrom, Arrive, Types
  <2>2. recv'.slot = recv.slot /\ recv'.pc \in {"known", "poadd"}
    <3>1. PICK pc \in {"known", "poadd"} : recv' = [recv EXCEPT !.pc = pc, !.src = s]
      BY <1>4 DEF RecvFrom
    <3>2. QED
      BY <1>1, <3>1 DEF Types
  <2>3. Held' = Held
    BY <2>1, <2>2 DEF Held
  <2>4. \A t \in Sources : recv.slot \notin Linked(po[t]) /\ Linked(po[t]) \subseteq Slot
    BY <2>1, HeldUnlinked, InvParts, Lists
  <2>5. QED
    BY <1>2, <2>1, <2>3, <2>4, QueueKept
<1>5. QED
  BY <1>3, <1>4

LEMMA PlayerUnseen ==
  ASSUME UNCHANGED <<bp, packet, po, recv, played, leaked>>
  PROVE  Mapped' = Mapped
<1>1. Held' = Held
  BY DEF Held
<1>2. QED
  BY <1>1, QueueKept

LEMMA QueueStep ==
  ASSUME Tame, Inv, [Next]_vars
  PROVE  [Queue!Next]_Queue!vars
<1>1. CASE Mapped' = Mapped
  BY <1>1 DEF Mapped, Queue!vars, Queued, Entry, Unused
<1>2. ASSUME Receiver PROVE Mapped' = Mapped \/ Queue!Next
  <2>1. CASE Get
    BY <2>1, GetTakes DEF Queue!Next
  <2>2. CASE RecvError
    BY <2>2, ErrorLoses DEF Queue!Next
  <2>3. CASE Free
    BY <2>3, FreeDiscards DEF Queue!Next
  <2>4. CASE Add
    BY <2>4, AddEnqueues DEF Queue!Next
  <2>5. CASE ~(Get \/ RecvError \/ Free \/ Add)
    BY <1>2, <2>5, ReceiverUnseen DEF Receiver
  <2>6. QED
    BY <2>1, <2>2, <2>3, <2>4, <2>5
<1>3. ASSUME Player PROVE Mapped' = Mapped \/ Queue!Next
  <2>1. CASE RmPkt
    BY <2>1, RmDequeues DEF Queue!Next, Queued, Entry
  <2>2. CASE RemoveAllPkts
    BY <2>2, RmAllClears DEF Queue!Next
  <2>3. CASE ~(RmPkt \/ RemoveAllPkts)
    <3>1. UNCHANGED <<bp, packet, po, recv, played, leaked>>
      BY <1>3, <2>3 DEF Player, GetPkt, TakePointer, UsePacket, ReadTail, StartSeek, Play, Fill, MarkSeek,
         pool, history
    <3>2. QED
      BY <3>1, PlayerUnseen
  <2>4. QED
    BY <2>1, <2>2, <2>3
<1>4. CASE UNCHANGED vars
  BY <1>4, PlayerUnseen, <1>1 DEF vars, pool, history
<1>5. QED
  BY <1>1, <1>2, <1>3, <1>4 DEF Next

\* The two threads, with their lists of indices and their unlocked reads, give the
\* application a queue: packets leave it in the order they were sent, and no slot is
\* in two places.
THEOREM Refinement == ASSUME Tame PROVE Spec => ImplementsQueue
<1>1. Init => Queue!Init
  BY QueueInit
<1>2. Inv /\ [Next]_vars => [Queue!Next]_Queue!vars
  BY QueueStep
<1>3. Spec => []Inv
  BY InvInductive
<1>4. QED
  BY <1>1, <1>2, <1>3, PTL DEF Spec, ImplementsQueue, Queue!Spec

\* What the application plays of a source never goes back (rtp_get_pkt and rtp_rm_pkt look
\* potail up separately, and packets are linked meanwhile).
THEOREM PlaysForward == ASSUME Tame PROVE Spec => PlayedInOrder
<1>1. Inv /\ [Next]_vars => [\A s \in Sources : played'[s] >= played[s]]_vars
  <2> SUFFICES ASSUME Inv, [Next]_vars, ~UNCHANGED vars
               PROVE  \A s \in Sources : played'[s] >= played[s]
    OBVIOUS
  <2>1. OrderOK /\ Types
    BY InvParts
  <2>2. \A s \in Sources : played[s] \in Nat
    BY <2>1, Ranges DEF Types
  <2>3. CASE UNCHANGED played
    BY <2>2, <2>3
  <2>4. ASSUME NEW s \in Sources, NEW p \in Queued[s], Queue!Dequeue(s, p)
        PROVE  \A t \in Sources : played'[t] >= played[t]
    <3>1. played' = [played EXCEPT ![s] = p.key]
      BY <2>4 DEF Queue!Dequeue
    <3>2. PICK i \in Linked(po[s]) : p = Entry(i)
      BY DEF Queued
    <3>3. p.key = packet[i].ext /\ packet[i].ext \in played[s] .. sent[s] /\ sent[s] \in Nat
      BY <2>1, <3>2 DEF OrderOK, Entry, Types
    <3>4. p.key >= played[s]
      BY <2>2, <3>3
    <3>5. QED
      BY <2>1, <2>2, <3>1, <3>4 DEF Types
  <2>5. UNCHANGED played \/ \E s \in Sources : \E p \in Queued[s] : Queue!Dequeue(s, p)
    <3>1. Queue!Next \/ UNCHANGED Queue!vars
      BY QueueStep
    <3>2. QED
      BY <3>1 DEF Queue!vars, Queue!Next, Queue!Take, Queue!Discard, Queue!Lose, Queue!Clear, Queue!Enqueue, Queued, Entry
  <2>6. QED
    BY <2>3, <2>4, <2>5
<1>2. QED
  BY <1>1, InvInductive, PTL DEF Spec, PlayedInOrder
=============================================================================
