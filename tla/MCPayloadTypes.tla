--------------------------- MODULE MCPayloadTypes ---------------------------
(***************************************************************************)
(* Instances of PayloadTypes: two presentations at once, each with one of  *)
(* a few descriptions.                                                     *)
(***************************************************************************)
EXTENDS PayloadTypes, TLC

Symmetry == Permutations(Presentations)

MCPts == {0, 32, 34, 96, 97, 128}

MCStandard == {0, 32, 34}

Medium(fmts, attrs) == [fmts |-> fmts, attrs |-> attrs]

Attr(name, pt, value) == [name |-> name, pt |-> pt, value |-> value]

\* Attributes with the same parameters differ by their profile.
Sets(n)   == ("sprop-parameter-sets" :> "good") @@ ("packetization-mode" :> "good") @@ ("profile" :> n)
Config(n) == ("config" :> "good") @@ ("profile" :> n)
OddConfig == ("config" :> "odd") @@ ("profile" :> 2)
BadMode == "packetization-mode" :> "bad"
Xiph    == "configuration" :> "good"
XiphBad == "configuration" :> "bad"

\* Two dynamic formats, three attributes of one of them, one of which is passed over.
Two == Medium(<<96, 97>>, <<Attr("fmtp", 96, Sets(1)), Attr("rtpmap", 97, "m4v"), Attr("fmtp", 97, Config(1)),
                            Attr("rtpmap", 96, "h264"), Attr("fmtp", 97, OddConfig), Attr("fmtp", 96, Sets(2)),
                            Attr("fmtp", 97, Config(3))>>)

\* A format that is announced twice, and one that is announced again with its attributes.
Again == Medium(<<96, 96>>, <<Attr("rtpmap", 96, "aac"), Attr("fmtp", 96, Config(1)), Attr("med", 96, "same"),
                              Attr("fmtp", 96, Config(2))>>)

\* An rtpmap for a standard type, one without a rate, before an attribute of a type
\* that was not announced, and one of an unknown name.
Static  == Medium(<<32, 0>>, <<Attr("rtpmap", 32, "h264"), Attr("rtpmap", 96, "invalid"), Attr("fmtp", 96, Config(1))>>)
Unknown == Medium(<<96>>, <<Attr("rtpmap", 96, "unknown"), Attr("fmtp", 128, Config(1)), Attr("fmtp", 96, Config(2))>>)

\* Xiph, with a configuration that cannot be read before the one that can.
Vorbis == Medium(<<96, 97>>, <<Attr("rtpmap", 96, "vorbis"), Attr("fmtp", 96, XiphBad), Attr("fmtp", 96, Xiph),
                               Attr("rtpmap", 97, "theora"), Attr("fmtp", 97, Xiph)>>)
H263   == Medium(<<97>>, <<Attr("rtpmap", 97, "h263")>>)

\* Parsers that refuse their attributes, and descriptions that are refused.
BadH264  == Medium(<<97, 96>>, <<Attr("rtpmap", 97, "h263"), Attr("rtpmap", 96, "h264"), Attr("fmtp", 96, BadMode)>>)
NoPt     == Medium(<<97>>, <<Attr("rtpmap", 96, "h264")>>)
BigPt    == Medium(<<128>>, <<>>)
OtherMed == Medium(<<96>>, <<Attr("med", 97, "other")>>)

MCDescriptions ==
  {<<Two, Vorbis>>, <<Again, H263>>, <<Unknown, BadH264>>, <<Two, NoPt>>, <<BigPt>>, <<OtherMed>>, <<Static, H263>>}

\* Two media of the same standard type.
TwoMpv == {<<Medium(<<32>>, <<>>)>>}

\* Four attributes of one type.
Four == {<<Medium(<<96>>, [i \in 1 .. 4 |-> Attr("fmtp", 96, Config(i))])>>, <<H263>>}

\* An attribute of a standard type.
StaticFmtp == {<<Medium(<<34>>, <<Attr("fmtp", 34, Config(1))>>)>>, <<H263>>}
=============================================================================
