--------------------------- MODULE Depacketizers ---------------------------
(***************************************************************************)
(* The parsers that make frames of RTP packets. Each is a function of what *)
(* it keeps between calls (priv), the playout queue (oldest packet first)  *)
(* and the application's frame, and answers all three with a result code.  *)
(* All are pure; the reader that calls them is in MediaPath.               *)
(*                                                                         *)
(* A payload is a sequence of pieces: NAL units, access units or parts of  *)
(* them, numbered in the order in which they were captured. Only the parts *)
(* of the headers that the parsers look at are kept:                       *)
(*   ts, mark       timestamp and marker of the RTP header                 *)
(*   kind           "single", "aggregate", "fragment" or "other" (a kind   *)
(*                  the parser does not know)                              *)
(*   first, last    the first, the last fragment of a unit                 *)
(*   id, conf       (xiph) the codebook, and that the packet carries one   *)
(*   whole          (mpa) the pieces of the frame, as its header says      *)
(*   data           the pieces                                             *)
(***************************************************************************)
EXTENDS Integers, Sequences, SequencesExt

CONSTANTS
  Junk,     \* memory that holds nothing of the stream
  Conf      \* the configuration of the session description

\* calloc: the pieces joined so far and their timestamp, whether Conf has been put
\* before the first frame (m4v), the units of a packet not yet given out (aac), and
\* those of an aggregate with how many were (xiph); `alias' (xiph): the application's
\* frame points at the parser's buffer.
NoPriv == [buf |-> <<>>, ts |-> 0, configured |-> FALSE, head |-> <<>>,
           id |-> 0, pkts |-> 0, at |-> 0, alias |-> FALSE]

NoFrame == [ts |-> 0, data |-> <<>>]

\* EAGAIN asks the caller to call again at once.
Codes == {"OK", "EAGAIN", "EMPTY", "UNKNOWN", "PARSE_ERROR"}

Result(err, p, q, fr) == [err |-> err, p |-> p, q |-> q, fr |-> fr]
Empty(p, q, fr) == Result("EMPTY", p, q, fr)

-----------------------------------------------------------------------------
(***************************************************************************)
(* H.264. A fragment that does not start a unit must have the timestamp of *)
(* the last fragment; single units and aggregates do not look at what is   *)
(* in the buffer: they are put behind it.                                  *)
(***************************************************************************)

\* Mutant: the buffer is not emptied when a unit is complete.
h264_parse_keeps(p, q, fr) ==
  IF q = <<>> THEN Empty(p, q, fr)
  ELSE LET pkt == Head(q)
           buf == IF pkt.first THEN pkt.data ELSE p.buf \o pkt.data
       IN  CASE pkt.kind \in {"single", "aggregate"} ->
                  Result("OK", p, Tail(q), [fr EXCEPT !.data = p.buf \o pkt.data])
             [] pkt.kind = "fragment" /\ pkt.last ->
                  Result("OK", [p EXCEPT !.ts = pkt.ts], Tail(q), [fr EXCEPT !.data = buf])
             [] pkt.kind = "fragment" /\ ~pkt.last ->
                  Result("EAGAIN", [p EXCEPT !.ts = pkt.ts, !.buf = buf], Tail(q), fr)
             [] OTHER -> Result("UNKNOWN", p, Tail(q), fr)

\* Mutant: a packet of an unknown kind is not removed.
h264_parse_stops(p, q, fr) ==
  IF q # <<>> /\ Head(q).kind = "other" THEN Result("UNKNOWN", p, q, fr)
  ELSE IF q = <<>> THEN Empty(p, q, fr)
  ELSE Result("OK", p, Tail(q), [fr EXCEPT !.data = Head(q).data])

h264_parse(p, q, fr) ==
  IF q = <<>> THEN Empty(p, q, fr)
  ELSE LET pkt == Head(q)
           buf == IF pkt.first THEN pkt.data ELSE p.buf \o pkt.data
       IN  CASE pkt.kind \in {"single", "aggregate"} ->
                  Result("OK", [p EXCEPT !.buf = <<>>], Tail(q), [fr EXCEPT !.data = p.buf \o pkt.data])
             [] pkt.kind = "fragment" /\ ~pkt.first /\ p.ts # pkt.ts ->
                  Result("UNKNOWN", [p EXCEPT !.buf = <<>>], Tail(q), [fr EXCEPT !.data = <<>>])
             [] pkt.kind = "fragment" /\ (pkt.first \/ p.ts = pkt.ts) /\ pkt.last ->
                  Result("OK", [p EXCEPT !.buf = <<>>, !.ts = pkt.ts], Tail(q), [fr EXCEPT !.data = buf])
             [] pkt.kind = "fragment" /\ (pkt.first \/ p.ts = pkt.ts) /\ ~pkt.last ->
                  Result("EAGAIN", [p EXCEPT !.ts = pkt.ts, !.buf = buf], Tail(q), fr)
             [] OTHER -> Result("UNKNOWN", p, Tail(q), fr)

-----------------------------------------------------------------------------
(***************************************************************************)
(* MPEG-4 video, H.263 and MPEG video: packets up to a marker make a frame.*)
(* A packet of another timestamp empties the buffer and stays; the last    *)
(* two drop packets until one that begins a frame.                         *)
(***************************************************************************)

joined(p, q, fr, drops) ==
  IF q = <<>> THEN Empty(p, q, fr)
  ELSE LET pkt == Head(q)
           buf == p.buf \o pkt.data
       IN  IF p.buf # <<>> /\ pkt.ts # p.ts THEN Result("UNKNOWN", [p EXCEPT !.buf = <<>>], q, fr)
           ELSE IF drops /\ p.buf = <<>> /\ ~pkt.first THEN Result("UNKNOWN", p, Tail(q), fr)
           ELSE IF pkt.mark
           THEN Result("OK", [p EXCEPT !.buf = <<>>], Tail(q), [fr EXCEPT !.data = buf])
           ELSE Result("EAGAIN", [p EXCEPT !.buf = buf, !.ts = pkt.ts], Tail(q), fr)

\* The first packet of all that finds the buffer empty is put behind Conf.
m4v_parse(p, q, fr) ==
  IF q # <<>> /\ ~p.configured /\ p.buf = <<>>
  THEN joined([p EXCEPT !.configured = TRUE, !.buf = Conf, !.ts = Head(q).ts], q, fr, FALSE)
  ELSE joined(p, q, fr, FALSE)

h263_parse(p, q, fr) == joined(p, q, fr, TRUE)

mpv_parse(p, q, fr) == joined(p, q, fr, TRUE)

-----------------------------------------------------------------------------
(***************************************************************************)
(* AAC. A packet of another timestamp makes a frame of what is in the      *)
(* buffer, and stays. Otherwise the units of the packet are given out one  *)
(* by one, and the packet is removed with the last one.                    *)
(***************************************************************************)
aac_parse(p, q, fr) ==
  IF q = <<>> THEN Empty(p, q, fr)
  ELSE LET pkt  == Head(q)
           head == IF p.head = <<>> THEN pkt.data ELSE p.head
           buf  == Append(p.buf, Head(head))
           rest == IF Tail(head) = <<>> THEN Tail(q) ELSE q
       IN  IF p.buf # <<>> /\ pkt.ts # p.ts
           THEN Result("OK", [p EXCEPT !.buf = <<>>], q, [fr EXCEPT !.data = p.buf])
           ELSE IF p.head = <<>> /\ Len(pkt.data) > 1 /\ ~pkt.mark THEN Result("UNKNOWN", p, Tail(q), fr)
           ELSE IF pkt.mark
           THEN Result("OK", [p EXCEPT !.buf = <<>>, !.head = Tail(head)], rest, [fr EXCEPT !.data = buf])
           ELSE Result("EAGAIN", [p EXCEPT !.buf = buf, !.head = Tail(head), !.ts = pkt.ts], rest, fr)

-----------------------------------------------------------------------------
(***************************************************************************)
(* MPEG audio. Fragments before the first one of a frame are dropped; then *)
(* packets are taken until the length its header says, as far as they are  *)
(* there and have the timestamp of the call. What is copied for each of    *)
(* them is the data of the first.                                          *)
(***************************************************************************)
mpa_parse(p, q, fr) ==
  LET fromFirst == LET n == SelectInSeq(q, LAMBDA pkt : pkt.first)
                   IN  IF n = 0 THEN <<>> ELSE SubSeq(q, n, Len(q))
      size(n)   == FoldLeft(LAMBDA s, pkt : s + Len(pkt.data), 0, SubSeq(fromFirst, 1, n))
      taken     == CHOOSE n \in 0 .. Len(fromFirst) :
                     /\ \A i \in 1 .. n : fromFirst[i].ts = fr.ts /\ size(i - 1) < Head(fromFirst).whole
                     /\ n < Len(fromFirst) =>
                          fromFirst[n + 1].ts # fr.ts \/ size(n) >= Head(fromFirst).whole
      copied(n) == [j \in 1 .. Len(fromFirst[n].data) |->
                      IF j \in DOMAIN Head(fromFirst).data THEN Head(fromFirst).data[j] ELSE Junk]
  IN  IF fromFirst = <<>> THEN Empty(p, <<>>, fr)
      ELSE IF Head(fromFirst).kind = "other" THEN Result("PARSE_ERROR", p, fromFirst, fr)
      ELSE Result("OK", p, SubSeq(fromFirst, taken + 1, Len(fromFirst)),
                  [fr EXCEPT !.data = FlattenSeq([n \in 1 .. taken |-> copied(n)])])

-----------------------------------------------------------------------------
(***************************************************************************)
(* Vorbis and Theora, whose parsers are the same.                          *)
(***************************************************************************)

\* The unit at p.at. One of another codebook is refused, and stays.
single_parse(p, q, fr) ==
  LET pkt  == Head(q)
      data == IF p.at + 1 \in DOMAIN pkt.data THEN <<pkt.data[p.at + 1]>> ELSE <<Junk>>
  IN  IF p.id # pkt.id /\ ~pkt.conf THEN Result("PARSE_ERROR", p, q, fr)
      ELSE Result(IF pkt.conf THEN "PARSE_ERROR" ELSE "OK",
                  [p EXCEPT !.buf = data, !.pkts = @ - 1, !.alias = TRUE],
                  IF p.pkts = 1 THEN Tail(q) ELSE q, [fr EXCEPT !.data = data])

\* A fragment. The last one fills the application's frame, which keeps its length
\* if it was longer; if it points at the buffer that grew, what it holds is lost.
frag_parse(p, q, fr) ==
  LET pkt  == Head(q)
      buf  == IF pkt.first THEN pkt.data ELSE p.buf \o pkt.data
      size == IF Len(buf) > Len(fr.data) THEN Len(buf) ELSE Len(fr.data)
      data == [i \in 1 .. size |-> IF i \in DOMAIN buf /\ ~p.alias THEN buf[i] ELSE Junk]
  IN  IF pkt.last
      THEN Result(IF pkt.conf THEN "PARSE_ERROR" ELSE "OK", [p EXCEPT !.buf = buf], Tail(q),
                  [fr EXCEPT !.data = data])
      ELSE Result("EAGAIN", [p EXCEPT !.buf = buf], Tail(q), fr)

\* The next unit of an aggregate; whether it was refused is not looked at. (Bound:
\* past the packet, the offset is not counted on.)
pack_parse(p, q, fr) ==
  LET r == single_parse(p, q, fr)
  IN  Result("OK", [r.p EXCEPT !.at = IF @ > Len(Head(q).data) THEN @ ELSE @ + 1], r.q, r.fr)

vorbis_parse(p, q, fr) ==
  IF q = <<>> THEN Empty(p, q, fr)
  ELSE LET pkt  == Head(q)
           pkts == IF pkt.kind = "fragment" THEN 0 ELSE Len(pkt.data)
           new  == [p EXCEPT !.pkts = pkts, !.at = 0]
       IN  CASE p.pkts > 0 -> pack_parse(p, q, fr)
             [] p.pkts = 0 /\ pkts > 0 /\ pkt.conf ->
                  Result("PARSE_ERROR", [p EXCEPT !.pkts = pkts], q, fr)
             [] p.pkts = 0 /\ pkts = 0 -> frag_parse(p, q, fr)
             [] p.pkts = 0 /\ pkts = 1 /\ ~pkt.conf -> single_parse(new, q, fr)
             [] p.pkts = 0 /\ pkts > 1 /\ ~pkt.conf -> pack_parse(new, q, fr)

theora_parse(p, q, fr) == vorbis_parse(p, q, fr)

-----------------------------------------------------------------------------
(***************************************************************************)
(* Speex, a frame in every packet; and the parser of a payload type that   *)
(* has none, which joins the packets of one timestamp that are there.      *)
(***************************************************************************)

\* Mutant: the packet is not removed.
speex_parse_keeps(p, q, fr) ==
  IF q = <<>> THEN Empty(p, q, fr) ELSE Result("OK", p, q, [fr EXCEPT !.data = Head(q).data])

speex_parse(p, q, fr) ==
  IF q = <<>> THEN Empty(p, q, fr)
  ELSE Result("OK", p, Tail(q), [fr EXCEPT !.data = Head(q).data])

rtp_def_parser(p, q, fr) ==
  IF q = <<>> THEN Empty(p, q, fr)
  ELSE LET n == CHOOSE n \in 1 .. Len(q) :
                  /\ \A i \in 2 .. n : q[i].ts = fr.ts
                  /\ n < Len(q) => q[n + 1].ts # fr.ts
       IN  Result("OK", p, SubSeq(q, n + 1, Len(q)),
                  [fr EXCEPT !.data = FlattenSeq([i \in 1 .. n |-> q[i].data])])

-----------------------------------------------------------------------------
Formats == {"h264", "m4v", "h263", "mpv", "aac", "mpa", "vorbis", "theora", "speex", "def"}

\* The parser registered for a payload type (rtp_parsers_init, rtp_parser_reg).
Parser(format, p, q, fr) ==
  CASE format = "h264"   -> h264_parse(p, q, fr)
    [] format = "m4v"    -> m4v_parse(p, q, fr)
    [] format = "h263"   -> h263_parse(p, q, fr)
    [] format = "mpv"    -> mpv_parse(p, q, fr)
    [] format = "aac"    -> aac_parse(p, q, fr)
    [] format = "mpa"    -> mpa_parse(p, q, fr)
    [] format = "vorbis" -> vorbis_parse(p, q, fr)
    [] format = "theora" -> theora_parse(p, q, fr)
    [] format = "speex"  -> speex_parse(p, q, fr)
    [] format = "def"    -> rtp_def_parser(p, q, fr)
=============================================================================
