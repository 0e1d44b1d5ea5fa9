---------------------------- MODULE MCMediaPath ----------------------------
(***************************************************************************)
(* Instances of MediaPath: a short stream of every format, and the frames  *)
(* it is made of. A piece is a number; <<0>> is the configuration.         *)
(***************************************************************************)
EXTENDS MediaPath

MCConf == <<0>>

Packet(ts, kind, first, last, mark, data) ==
  [ts |-> ts, kind |-> kind, first |-> first, last |-> last, mark |-> mark, data |-> data,
   id |-> 0, conf |-> FALSE, whole |-> Len(data)]

Whole(ts, data) == Packet(ts, "single", TRUE, TRUE, TRUE, data)
Begin(ts, data) == Packet(ts, "fragment", TRUE, FALSE, FALSE, data)
Part(ts, data)  == Packet(ts, "fragment", FALSE, FALSE, FALSE, data)
End(ts, data)   == Packet(ts, "fragment", FALSE, TRUE, TRUE, data)
Many(ts, data)  == Packet(ts, "aggregate", TRUE, TRUE, TRUE, data)
Other(ts, data) == Packet(ts, "other", TRUE, TRUE, TRUE, data)

XiphStream == <<Begin(1, <<1>>), Part(1, <<2>>), End(1, <<3>>), Many(2, <<4, 5>>), Whole(3, <<6>>)>>
JoinedStream == <<Begin(1, <<1>>), Part(1, <<2>>), End(1, <<3>>), Begin(2, <<4>>), End(2, <<5>>), Whole(3, <<6>>)>>
SingleStream == <<Whole(1, <<1>>), Whole(2, <<2>>)>>

Frame(ts, data) == [ts |-> ts, data |-> data]

SingleFrames == <<Frame(1, <<1>>), Frame(2, <<2>>)>>
JoinedFrames == <<Frame(1, <<1, 2, 3>>), Frame(2, <<4, 5>>), Frame(3, <<6>>)>>
XiphFrames   == <<Frame(1, <<1, 2, 3>>), Frame(2, <<4>>), Frame(2, <<5>>), Frame(3, <<6>>)>>

MCStream ==
  [h264   |-> <<Begin(1, <<1>>), Part(1, <<2>>), End(1, <<3>>), Other(1, <<>>), Many(2, <<4, 5>>),
                Begin(3, <<6>>), End(3, <<7>>)>>,
   m4v    |-> JoinedStream, h263 |-> JoinedStream, mpv |-> JoinedStream,
   aac    |-> <<Begin(1, <<1>>), End(1, <<2>>), Many(2, <<3, 4>>), Begin(3, <<5>>), End(3, <<6>>)>>,
   mpa    |-> SingleStream, speex |-> SingleStream, def |-> SingleStream,
   vorbis |-> XiphStream, theora |-> XiphStream]

MCFrames ==
  [h264   |-> <<Frame(1, <<1, 2, 3>>), Frame(2, <<4, 5>>), Frame(3, <<6, 7>>)>>,
   m4v    |-> [JoinedFrames EXCEPT ![1].data = MCConf \o @],
   h263   |-> JoinedFrames, mpv |-> JoinedFrames,
   aac    |-> <<Frame(1, <<1, 2>>), Frame(2, <<3>>), Frame(2, <<4>>), Frame(3, <<5, 6>>)>>,
   mpa    |-> SingleFrames, speex |-> SingleFrames, def |-> SingleFrames,
   vorbis |-> XiphFrames, theora |-> XiphFrames]

Scene(proto, delivery, force, formats, commands) ==
  [proto |-> proto, delivery |-> delivery, force |-> force, formats |-> formats, commands |-> commands]

Unicast(force, formats) == Scene("UDP", "unicast", force, formats, FALSE)
Tcp(formats, commands)  == Scene("TCP", "unicast", 0, formats, commands)

\* Datagrams of every format, to given and to other ports, of two media, and of a
\* group; and every format in the control connection, with another one and commands.
MCScenes ==
  {Unicast(5, <<f>>) : f \in Formats} \cup {Tcp(<<f>>, FALSE) : f \in Formats \ {"def", "speex"}} \cup
  {Unicast(0, <<"speex">>), Unicast(4, <<"speex", "def">>), Unicast(5, <<"speex", "def">>),
   Scene("UDP", "multicast", 5, <<"speex">>, FALSE), Tcp(<<"def", "speex">>, TRUE)}

\* A Vorbis stream that changes its codebook, and MPEG audio in fragments.
OtherId == [MCStream EXCEPT !.vorbis = <<Whole(1, <<1>>), [Whole(2, <<2>>) EXCEPT !.id = 1]>>]
OtherIdFrames == [MCFrames EXCEPT !.vorbis = <<Frame(1, <<1>>), Frame(2, <<2>>)>>]
OneVorbis == {Tcp(<<"vorbis">>, FALSE)}

Fragmented == [MCStream EXCEPT !.mpa = <<[Begin(1, <<1>>) EXCEPT !.whole = 2], End(1, <<2>>)>>]
OneMpa == {Tcp(<<"mpa">>, FALSE)}

OneH264 == {Unicast(4, <<"h264">>)}
TwoUdp == {Unicast(0, <<"speex", "def">>)}
OneWaiting == {Tcp(<<"def", "speex">>, TRUE)}
=============================================================================
