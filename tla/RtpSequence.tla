---------------------------- MODULE RtpSequence ----------------------------
(***************************************************************************)
(* Sequence-number tracking of one synchronization source, as rtp_recv.c   *)
(* does it for every packet of a known source: a source is on probation    *)
(* until MIN_SEQUENTIAL packets arrive in a row, then small forward steps  *)
(* are followed (counting a cycle at each wrap), a large jump is believed  *)
(* only when the packet after it follows it, and a small backward step is  *)
(* a duplicate or a misordered packet that changes nothing.                *)
(*                                                                         *)
(* The operators work on the record rtp_ssrc_stats, restricted to the      *)
(* fields the tracking itself reads: max_seq, cycles, bad_seq, probation.  *)
(***************************************************************************)
EXTENDS Integers

CONSTANTS
  RTP_SEQ_MOD,     \* size of the sequence-number space (2^16 in the code)
  MAX_DROPOUT,     \* a forward step smaller than this is followed
  MAX_MISORDER,    \* a backward step of at most this is a late packet
  MIN_SEQUENTIAL   \* packets in a row that end probation

ASSUME SequenceAssumption ==
  /\ RTP_SEQ_MOD \in Nat \ {0}
  /\ MAX_DROPOUT \in Nat \ {0, 1}
  /\ MAX_MISORDER \in Nat
  /\ MIN_SEQUENTIAL \in Nat \ {0}
  /\ MAX_DROPOUT + MAX_MISORDER <= RTP_SEQ_MOD

SeqNum == 0 .. RTP_SEQ_MOD - 1

Stats == [max_seq : SeqNum, cycles : Nat, bad_seq : Nat, probation : 0 .. MIN_SEQUENTIAL]

\* The stats of a source the session has not heard of (calloc).
NoStats == [max_seq |-> 0, cycles |-> 0, bad_seq |-> 0, probation |-> 0]

(***************************************************************************)
(* rtp_init_seq: (re)start tracking at seq.                                *)
(***************************************************************************)
rtp_init_seq(stats, seq) ==
  [stats EXCEPT !.max_seq = seq, !.bad_seq = RTP_SEQ_MOD + 1, !.cycles = 0]

\* The distance from the highest number seen, as the uint16_t udelta.
UDelta(stats, seq) == (seq - stats.max_seq) % RTP_SEQ_MOD

\* seq follows max_seq: compared after promotion to int, so 0 does not
\* follow RTP_SEQ_MOD - 1.
Follows(stats, seq) == seq = stats.max_seq + 1

LargeJump(stats, seq) ==
  /\ UDelta(stats, seq) >= MAX_DROPOUT
  /\ UDelta(stats, seq) <= RTP_SEQ_MOD - MAX_MISORDER

\* The packets for which rtp_update_seq calls rtp_init_seq, which appends
\* the source to the active queue of its session.
Restarts(stats, seq) ==
  \/ stats.probation = 1 /\ Follows(stats, seq)
  \/ stats.probation = 0 /\ LargeJump(stats, seq) /\ seq = stats.bad_seq

(***************************************************************************)
(* rtp_update_seq: the stats after a packet numbered seq.                  *)
(***************************************************************************)
Probe(stats, seq) ==
  IF Follows(stats, seq)
  THEN LET s == [stats EXCEPT !.probation = @ - 1, !.max_seq = seq]
       IN  IF s.probation = 0 THEN rtp_init_seq(s, seq) ELSE s
  ELSE [stats EXCEPT !.probation = MIN_SEQUENTIAL - 1, !.max_seq = seq]

Advance(stats, seq) ==
  [stats EXCEPT !.cycles = IF seq < stats.max_seq THEN @ + RTP_SEQ_MOD ELSE @,
                !.max_seq = seq]

rtp_update_seq(stats, seq) ==
  CASE stats.probation > 0 -> Probe(stats, seq)
    [] stats.probation = 0 /\ UDelta(stats, seq) < MAX_DROPOUT -> Advance(stats, seq)
    [] stats.probation = 0 /\ LargeJump(stats, seq) ->
         IF seq = stats.bad_seq
         THEN rtp_init_seq(stats, seq)
         ELSE [stats EXCEPT !.bad_seq = (seq + 1) % RTP_SEQ_MOD]
    [] OTHER -> stats

(***************************************************************************)
(* What rtp_recv does to the stats on the first packet of a source, and on *)
(* the first packet it sees after a seek.                                  *)
(***************************************************************************)
StartProbation(stats, seq) ==
  [stats EXCEPT !.probation = MIN_SEQUENTIAL, !.max_seq = (seq - 1) % RTP_SEQ_MOD]

SeekReset(stats, seq) ==
  [stats EXCEPT !.probation = 0, !.max_seq = seq, !.bad_seq = RTP_SEQ_MOD + 1, !.cycles = 0]
=============================================================================
