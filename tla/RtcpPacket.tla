----------------------------- MODULE RtcpPacket -----------------------------
(***************************************************************************)
(* What RTCP computes: the numbers of a reception report block             *)
(* (rtcp_build_rr), whether a datagram is accepted (rtcp_hdr_val_chk), and *)
(* the interval between reports (rtcp_interval). All are pure; the threads *)
(* that use them are in Rtcp.                                              *)
(*                                                                         *)
(* Numbers keep their width, scaled: unsigned 32-bit fields live modulo    *)
(* Word, sequence numbers modulo RTP_SEQ_MOD, a fraction modulo Fraction,   *)
(* and the 24-bit loss is clamped at LostMax.                              *)
(***************************************************************************)
EXTENDS Integers

CONSTANTS
  Word,         \* 2^32 in the code
  RTP_SEQ_MOD,  \* 2^16
  Fraction,     \* 2^8
  LostMax,      \* 2^23 - 1
  MinTime,      \* RTCP_MIN_TIME in ticks
  Bandwidth     \* octets per tick

ASSUME WidthAssumption ==
  /\ Word \in Nat \ {0} /\ RTP_SEQ_MOD \in Nat \ {0} /\ Fraction \in Nat \ {0} /\ LostMax \in Nat
  /\ RTP_SEQ_MOD < Word /\ 2 * (LostMax + 1) <= Word
  /\ MinTime \in Nat \ {0} /\ Bandwidth \in Nat \ {0}

-----------------------------------------------------------------------------
(***************************************************************************)
(* Reception statistics of a source and the report block made of them.     *)
(***************************************************************************)
Stats ==
  [cycles : 0 .. Word - 1, max_seq : 0 .. RTP_SEQ_MOD - 1, base_seq : 0 .. Word - 1,
   received : 0 .. Word - 1, received_prior : 0 .. Word - 1, expected_prior : 0 .. Word - 1]

\* calloc.
NoStats == [cycles |-> 0, max_seq |-> 0, base_seq |-> 0,
            received |-> 0, received_prior |-> 0, expected_prior |-> 0]

\* rtp_init_seq: base_seq is one less than the first number.
Started(seq) ==
  [cycles |-> 0, max_seq |-> seq, base_seq |-> (seq - 1) % Word,
   received |-> 0, received_prior |-> 0, expected_prior |-> 1]

\* The packets that should have come, and one.
Expected(cycles, max_seq, base_seq) == (cycles + max_seq - base_seq + 1) % Word

\* The packets of an interval that did not come, as an unsigned number.
LostInterval(expected_interval, received_interval) ==
  (expected_interval - received_interval) % Word

\* Mutant: the fraction is not cut to its octet.
FractionLostWide(expected_interval, lost_interval) ==
  IF expected_interval = 0 \/ lost_interval = 0 THEN 0
  ELSE ((lost_interval * Fraction) % Word) \div expected_interval

\* `lost_interval <= 0' on an unsigned number is `lost_interval = 0'.
FractionLost(expected_interval, lost_interval) ==
  IF expected_interval = 0 \/ lost_interval = 0 THEN 0
  ELSE (((lost_interval * Fraction) % Word) \div expected_interval) % Fraction

Signed(n) == IF 2 * n >= Word THEN n - Word ELSE n

Least(m, n) == IF m < n THEN m ELSE n
Greatest(m, n) == IF m > n THEN m ELSE n

\* Mutant: the one that Expected adds is forgotten.
CumulativeLostOffByOne(expected, received) ==
  Greatest(Least(Signed((expected - received) % Word), LostMax), 0 - (LostMax + 1))

\* The cumulative number of packets lost.
CumulativeLost(expected, received) ==
  Greatest(Least(Signed((expected - received - 1) % Word), LostMax), 0 - (LostMax + 1))

-----------------------------------------------------------------------------
(***************************************************************************)
(* The interval to the next report: deterministic in the load, then spread *)
(* by drand48 between one half and three halves, over 1.218.               *)
(***************************************************************************)
Deterministic(members, senders, size, initial) ==
  LET least    == IF initial THEN MinTime \div 2 ELSE MinTime
      minority == senders > 0 /\ 4 * senders < members
      share    == IF minority THEN (Bandwidth * 3) \div 4 ELSE Bandwidth
  IN  Greatest(least, (size * (IF minority THEN members - senders ELSE members)) \div share)

rtcp_interval(members, senders, size, initial) ==
  {Greatest(1, (Deterministic(members, senders, size, initial) * k) \div 1218) : k \in {500, 1000, 1500}}

-----------------------------------------------------------------------------
(***************************************************************************)
(* A datagram: its length in 32-bit words, and the packet header at each   *)
(* word (version, type, and the length field: words less one).             *)
(***************************************************************************)
Types == {"SR", "RR", "SDES", "BYE", "APP"}

IsCompound(d) == d.words > d.at[0].len + 1

\* Where the chain of headers from pos leads: to the end, or to a bad version.
ChainEnd(d) ==
  LET end[pos \in 0 .. d.words] ==
        IF pos = d.words \/ d.at[pos].ver # 2 THEN pos
        ELSE IF pos + d.at[pos].len + 1 > d.words THEN d.words + 1
        ELSE end[pos + d.at[pos].len + 1]
  IN  end

\* Mutant: the chain of a compound packet is not followed.
rtcp_hdr_first_chk(d) ==
  /\ d.words >= 1
  /\ d.at[0].ver = 2 /\ d.at[0].pt \in Types

\* rtcp_hdr_val_chk, TRUE for a good header. The first packet of a compound one
\* must be an SR or an RR without padding, and the lengths must add up. The test
\* of the padding of a single packet compares with the length field unswapped,
\* and rejects nothing that is not absurd: it is left out.
rtcp_hdr_val_chk(d) ==
  /\ d.words >= 1
  /\ IF IsCompound(d)
     THEN /\ d.at[0].ver = 2 /\ ~d.at[0].pad /\ d.at[0].pt \in {"SR", "RR"}
          /\ ChainEnd(d)[d.at[0].len + 1] = d.words
     ELSE d.at[0].ver = 2 /\ d.at[0].pt \in Types
=============================================================================
