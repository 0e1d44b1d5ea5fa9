---------------------------- MODULE PayloadTypes ----------------------------
(***************************************************************************)
(* Payload types, from the session description to the parsers. Every       *)
(* presentation has a controller with an RTSP thread of its own, which     *)
(*   - fills the tables of parsers, which the process has once,            *)
(*   - makes an RTP session of every medium of the description, announces  *)
(*     its formats and applies its attributes in their order               *)
(*     (set_rtsp_media),                                                   *)
(*   - starts the RTP thread and initialises the parser of every announced *)
(*     format (rtp_thread_create), and                                     *)
(*   - when the presentation ends, has the RTP thread clean up             *)
(*     (rtp_clean), or, when it has none yet, forgets its sessions         *)
(*     (rtsp_reinit).                                                      *)
(* The definitions of the standard payload types are static: all sessions  *)
(* of the process point at the same ones. Those of dynamic types are       *)
(* allocated. A definition holds the fmtp attributes and the parser's      *)
(* private data.                                                           *)
(***************************************************************************)
EXTENDS Integers, Sequences, SequencesExt, FiniteSets

CONSTANTS
  Presentations,
  Descriptions,  \* what a server may answer: sequences of media
  Pts,           \* bound: the payload types that occur, numbers of 8 bits
  Standard,      \* those that RFC 3551 defines
  MadeFirst,     \* no controller is made while media are set up
  Null

\* RTP_PARSER_FULL: the parsers with private data of their own, which an init function makes.
Full == {"h264", "h263", "theora", "vorbis", "m4v", "aac", "mpv"}

\* The names rtp_parser_reg knows; and the static payload types that have a parser.
Served == Full \cup {"mpa", "speex"}

StaticParser(pt) == CASE pt = 14 -> "mpa" [] pt = 32 -> "mpv" [] OTHER -> "def"

ASSUME PayloadAssumption ==
  /\ Pts \subseteq 0 .. 255 /\ Standard \subseteq Pts /\ \A pt \in Standard : pt < 96
  /\ \A pt \in Pts : StaticParser(pt) \in Full => pt \in Standard
  /\ MadeFirst \in BOOLEAN /\ Null \notin Nat \cup Full

\* What the parser of SDP makes of an answer.
ASSUME DescriptionsAssumption ==
  \A d \in Descriptions :
    /\ Len(d) \in Nat /\ DOMAIN d = 1 .. Len(d)
    /\ \A m \in DOMAIN d :
         /\ d[m].fmts \in Seq(Pts)
         /\ Len(d[m].attrs) \in Nat /\ DOMAIN d[m].attrs = 1 .. Len(d[m].attrs)
         /\ \A i \in DOMAIN d[m].attrs :
              LET a == d[m].attrs[i]
              IN  a.pt \in Pts /\ (a.name = "rtpmap" => a.value \in Served \cup {"unknown", "invalid"})

VARIABLES
  parsers, inits,  \* rtp_parsers, rtp_parsers_inits
  def,             \* the definitions, by address
  desc,            \* each presentation's description
  phase,           \* where its RTSP thread is
  pos,             \* how far that phase has got: the medium m, and the items i of it that are done
  sess,            \* its RTP sessions
  fault            \* what was done to memory that was freed or is not there

vars == <<parsers, inits, def, desc, phase, pos, sess, fault>>

NoPriv == [format |-> Null, of |-> <<>>, conf |-> <<>>]

NewDef == [name |-> "", data |-> <<>>, allocated |-> 0, freed |-> FALSE, live |-> TRUE, priv |-> NoPriv]

\* Addresses: a standard definition is at its number, an allocated one at a new one.
NewAddr == 256 + Cardinality(DOMAIN def)

Phases ==
  {"new", "cleared", "made", "describe", "refused", "dropped", "start", "failed", "play", "close", "closed"}

TypeOK ==
  /\ Standard \subseteq DOMAIN def
  /\ \A r \in DOMAIN def : /\ def[r].name \in Served \cup {"", "unknown"}
                           /\ def[r].allocated \in 0 .. 3
                           /\ def[r].live \in BOOLEAN /\ def[r].freed \in BOOLEAN
  /\ \A p \in Presentations :
       /\ phase[p] \in Phases
       /\ Len(sess[p]) <= Len(desc[p])
       /\ \A s \in Range(sess[p]) :
            /\ s.rtppt \in Seq(Nat \cup {Null})
            /\ \A pt \in Pts : /\ s.ptdefs[pt] \in DOMAIN def \cup {Null}
                               /\ s.parsers[pt] \in Served \cup {"def"}
                               /\ s.inits[pt] \in Full \cup {Null}
  /\ fault \in {"none", "freed", "null"}

Begin == [m |-> 1, i |-> 0]

Init ==
  /\ parsers = [pt \in Pts |-> "def"] /\ inits = [pt \in Pts |-> Null]
  /\ def = [pt \in Standard |-> NewDef]
  /\ desc \in [Presentations -> Descriptions]
  /\ phase = [p \in Presentations |-> "new"]
  /\ pos = [p \in Presentations |-> Begin]
  /\ sess = [p \in Presentations |-> <<>>]
  /\ fault = "none"

\* Nothing is said of the program after a fault.
At(p, ph) == fault = "none" /\ phase[p] = ph

Moves(p, ph) == phase' = [phase EXCEPT ![p] = ph]

-----------------------------------------------------------------------------
(***************************************************************************)
(* rtp_parsers_init, for every controller: the table of the init functions *)
(* is set to zero, then filled.                                            *)
(***************************************************************************)
ClearInits(p) ==
  /\ At(p, "new")
  /\ MadeFirst => \A q \in Presentations : phase[q] \in {"new", "cleared", "made"}
  /\ inits' = [pt \in Pts |-> Null]
  /\ Moves(p, "cleared")
  /\ UNCHANGED <<parsers, def, desc, pos, sess, fault>>

FillInits(p) ==
  /\ At(p, "cleared")
  /\ parsers' = [pt \in Pts |-> StaticParser(pt)]
  /\ inits' = [pt \in Pts |-> IF StaticParser(pt) \in Full THEN StaticParser(pt) ELSE Null]
  /\ Moves(p, "made")
  /\ UNCHANGED <<def, desc, pos, sess, fault>>

-----------------------------------------------------------------------------
(***************************************************************************)
(* set_rtsp_media: medium after medium, first its formats, then its        *)
(* attributes. An error ends it, and what was made stays as it is.         *)
(***************************************************************************)
Describe(p) ==
  /\ At(p, "made")
  /\ MadeFirst => \A q \in Presentations : phase[q] \notin {"new", "cleared"}
  /\ pos' = [pos EXCEPT ![p] = Begin]
  /\ Moves(p, "describe")
  /\ UNCHANGED <<parsers, inits, def, desc, sess, fault>>

\* The items of a medium: itself, its formats, its attributes.
Current(p)    == desc[p][pos[p].m]
Describing(p) == At(p, "describe") /\ pos[p].m \in DOMAIN desc[p]

Format(p)   == Current(p).fmts[pos[p].i]
AtFormat(p) == Describing(p) /\ pos[p].i \in DOMAIN Current(p).fmts

Nth(p)       == pos[p].i - Len(Current(p).fmts)
Attribute(p) == Current(p).attrs[Nth(p)]
AtAttribute(p, name) == Describing(p) /\ Nth(p) \in DOMAIN Current(p).attrs /\ Attribute(p).name = name

Done(p) == pos' = [pos EXCEPT ![p].i = @ + 1] /\ UNCHANGED phase

MediumDone(p) == pos' = [pos EXCEPT ![p] = [m |-> @.m + 1, i |-> 0]] /\ UNCHANGED phase

Refused(p) == Moves(p, "refused") /\ UNCHANGED pos

NextMedium(p) ==
  /\ Describing(p) /\ Nth(p) > Len(Current(p).attrs)
  /\ MediumDone(p)
  /\ UNCHANGED <<parsers, inits, def, desc, sess, fault>>

\* rtp_session_init: copies of the two tables, and the standard definitions.
NewMedium(p) ==
  /\ Describing(p) /\ pos[p].i = 0
  /\ sess' = [sess EXCEPT ![p] = Append(@, [ptdefs  |-> [pt \in Pts |-> IF pt \in Standard THEN pt ELSE Null],
                                            announced |-> <<>>, rtppt |-> <<>>,
                                            parsers |-> parsers, inits |-> inits])]
  /\ Done(p)
  /\ UNCHANGED <<parsers, inits, def, desc, fault>>

\* Mutant: the definition that was there is not freed.
rtp_dynpt_set_leaks(old) == [r \in (DOMAIN def) \cup {NewAddr} |-> IF r \in DOMAIN def THEN def[r] ELSE NewDef]

\* The definitions when a new one takes the place of an old one, which is freed, but not
\* its attributes and private data.
rtp_dynpt_set(old) ==
  [r \in (DOMAIN def) \cup {NewAddr} |->
     IF r \notin DOMAIN def THEN NewDef ELSE IF r = old THEN [def[r] EXCEPT !.live = FALSE] ELSE def[r]]

\* A dynamic type gets a definition of its own; a standard one has it. The list of
\* announced formats has the number and the definition (rtppt), for good.
rtp_announce_pt(p, pt) ==
  LET m == pos[p].m
      r == IF pt >= 96 THEN NewAddr ELSE sess[p][m].ptdefs[pt]
  IN  IF pt > 127 THEN Refused(p) /\ UNCHANGED <<def, sess>>
      ELSE /\ sess' = [sess EXCEPT ![p][m].announced = Append(@, pt), ![p][m].rtppt = Append(@, r),
                                   ![p][m].ptdefs[pt] = r]
           /\ def' = IF pt >= 96 THEN rtp_dynpt_set(sess[p][m].ptdefs[pt]) ELSE def
           /\ Done(p)

Announce(p) ==
  /\ AtFormat(p)
  /\ rtp_announce_pt(p, Format(p))
  /\ UNCHANGED <<parsers, inits, desc, fault>>

\* a=med: announces a format too; one of another medium is an error.
Med(p) ==
  /\ AtAttribute(p, "med")
  /\ IF Attribute(p).value = "other" THEN Refused(p) /\ UNCHANGED <<def, sess>>
     ELSE rtp_announce_pt(p, Attribute(p).pt)
  /\ UNCHANGED <<parsers, inits, desc, fault>>

\* Mutant: a name that no parser has is registered too.
rtp_parser_reg_any(s, pt, mime) ==
  [s EXCEPT !.parsers[pt] = mime, !.inits[pt] = IF mime \in Full THEN mime ELSE Null]

\* Mutant: the init function is not registered with the parser.
rtp_parser_reg_alone(s, pt, mime) == IF mime \in Served THEN [s EXCEPT !.parsers[pt] = mime] ELSE s

\* An unknown name leaves the parser as it is.
rtp_parser_reg(s, pt, mime) ==
  IF mime \in Served
  THEN [s EXCEPT !.parsers[pt] = mime, !.inits[pt] = IF mime \in Full THEN mime ELSE Null]
  ELSE s

rtp_dynpt_encname(r, name) == [def EXCEPT ![r].name = name]

\* A name for a type that has a definition.
rtp_dynpt_reg(p, m, pt, mime) ==
  LET r == sess[p][m].ptdefs[pt]
  IN  IF r = Null THEN Refused(p) /\ UNCHANGED <<def, sess>>
      ELSE /\ def' = rtp_dynpt_encname(r, mime)
           /\ sess' = [sess EXCEPT ![p][m] = rtp_parser_reg(@, pt, mime)]
           /\ Done(p)

\* a=rtpmap. One for a standard type is not applied; one without a clock rate ends the
\* loop over the attributes of the medium; one for a type that was not announced is an error.
Rtpmap(p) ==
  /\ AtAttribute(p, "rtpmap")
  /\ LET it == Attribute(p)
     IN  IF it.pt \notin 96 .. 127 THEN Done(p) /\ UNCHANGED <<def, sess>>
         ELSE IF it.value = "invalid" THEN MediumDone(p) /\ UNCHANGED <<def, sess>>
         ELSE rtp_dynpt_reg(p, pos[p].m, it.pt, it.value)
  /\ UNCHANGED <<parsers, inits, desc, fault>>

\* Mutant: the attribute takes the place of the one before.
rtp_pt_attr_add_over(d, value) == [d EXCEPT !.data = <<value>>, !.allocated = 1]

\* A full array is made larger, but not above three; the attribute is put behind the last.
rtp_pt_attr_add(d, value) ==
  [d EXCEPT !.data = Append(@, value),
            !.allocated = IF @ = Len(d.data) THEN (IF @ + 1 < 3 THEN @ + 1 ELSE 3) ELSE @]

\* a=fmtp, without a look at whether the type is defined.
Fmtp(p) ==
  /\ AtAttribute(p, "fmtp")
  /\ LET it == Attribute(p)
         r  == sess[p][pos[p].m].ptdefs[it.pt]
     IN  IF it.pt > 127 THEN UNCHANGED <<def, fault>>
         ELSE IF r = Null THEN fault' = "null" /\ UNCHANGED def
         ELSE IF def[r].freed THEN fault' = "freed" /\ UNCHANGED def
         ELSE def' = [def EXCEPT ![r] = rtp_pt_attr_add(@, it.value)] /\ UNCHANGED fault
  /\ Done(p)
  /\ UNCHANGED <<parsers, inits, desc, sess>>

-----------------------------------------------------------------------------
(***************************************************************************)
(* The init functions of the parsers: what they read of the fmtp           *)
(* attributes. An attribute is a function from the parameters it has to    *)
(* "good", "bad": a value that cannot be used, or "odd": hexadecimal       *)
(* digits that are not pairs. The answer is whether it was an error, and   *)
(* the attributes that the configuration is made of.                       *)
(***************************************************************************)
Error == [err |-> TRUE, conf |-> <<>>]
Ok(conf) == [err |-> FALSE, conf |-> conf]

With(attrs, par) == SelectSeq(attrs, LAMBDA a : par \in DOMAIN a)

Bad(attrs, par) == \E a \in Range(With(attrs, par)) : a[par] = "bad"

\* The last parameter sets count.
h264_init_parser(attrs) ==
  LET sets == With(attrs, "sprop-parameter-sets")
  IN  IF Bad(attrs, "packetization-mode") THEN Error
      ELSE Ok(IF sets = <<>> THEN <<>> ELSE <<Last(sets)>>)

\* All of them, one behind the other, but for the odd ones.
Pairs(attrs) == SelectSeq(With(attrs, "config"), LAMBDA a : a["config"] # "odd")

m4v_init_parser(attrs) == IF Bad(attrs, "config") THEN Error ELSE Ok(Pairs(attrs))

aac_init_parser(attrs) ==
  IF \/ \E par \in {"config", "mode", "sizeLength", "indexLength", "indexDeltaLength"} : Bad(attrs, par)
     \/ With(attrs, "constantDuration") # <<>>
  THEN Error
  ELSE Ok(Pairs(attrs))

\* The first one that can be read; there must be one.
vorbis_init_parser(attrs) ==
  LET read == SelectSeq(With(attrs, "configuration"), LAMBDA a : a["configuration"] = "good")
  IN  IF read = <<>> THEN Error ELSE Ok(<<Head(read)>>)

theora_init_parser(attrs) == vorbis_init_parser(attrs)

mpv_init_parser(attrs) == Ok(<<>>)

h263_init_parser(attrs) == Ok(<<>>)

InitParser(format, attrs) ==
  CASE format = "h264"   -> h264_init_parser(attrs)
    [] format = "m4v"    -> m4v_init_parser(attrs)
    [] format = "aac"    -> aac_init_parser(attrs)
    [] format = "vorbis" -> vorbis_init_parser(attrs)
    [] format = "theora" -> theora_init_parser(attrs)
    [] format = "mpv"    -> mpv_init_parser(attrs)
    [] format = "h263"   -> h263_init_parser(attrs)

-----------------------------------------------------------------------------
(***************************************************************************)
(* rtp_thread_create: the RTP thread is started, then the parsers are      *)
(* initialised. (SETUP of the media is MediaPath's subject.)               *)
(***************************************************************************)
Start(p) ==
  /\ At(p, "describe") /\ pos[p].m > Len(desc[p])
  /\ pos' = [pos EXCEPT ![p] = Begin]
  /\ Moves(p, "start")
  /\ UNCHANGED <<parsers, inits, def, desc, sess, fault>>

Starting(p) == At(p, "start") /\ pos[p].m \in DOMAIN sess[p]
Session(p)  == sess[p][pos[p].m]

\* The private data go to the definition, whatever is there.
InitNext(p) ==
  /\ Starting(p) /\ pos[p].i < Len(Session(p).announced)
  /\ LET pt == Session(p).announced[pos[p].i + 1]
         f  == Session(p).inits[pt]
         r  == Session(p).ptdefs[pt]
         a  == InitParser(f, def[r].data)
     IN  IF f = Null THEN Done(p) /\ UNCHANGED def
         ELSE IF a.err THEN Moves(p, "failed") /\ UNCHANGED <<pos, def>>
         ELSE def' = [def EXCEPT ![r].priv = [format |-> f, of |-> <<p, pos[p].m>>, conf |-> a.conf]] /\ Done(p)
  /\ UNCHANGED <<parsers, inits, desc, sess, fault>>

NextSession(p) ==
  /\ Starting(p) /\ pos[p].i = Len(Session(p).announced)
  /\ MediumDone(p)
  /\ UNCHANGED <<parsers, inits, def, desc, sess, fault>>

Run(p) ==
  /\ At(p, "start") /\ pos[p].m > Len(sess[p])
  /\ Moves(p, "play")
  /\ UNCHANGED <<parsers, inits, def, desc, pos, sess, fault>>

-----------------------------------------------------------------------------
\* Without an RTP thread, rtsp_reinit forgets the media one by one, and nothing
\* else refers to their sessions: after a refused description, or when the
\* connection ends before the last SETUP reply starts the threads.
Drop(p) ==
  /\ \/ At(p, "refused")
     \/ At(p, "describe") /\ pos[p].m > Len(desc[p])
  /\ Moves(p, "dropped")
  /\ UNCHANGED <<parsers, inits, def, desc, pos, sess, fault>>

Forget(p) ==
  /\ At(p, "dropped") /\ sess[p] # <<>>
  /\ sess' = [sess EXCEPT ![p] = Tail(@)]
  /\ UNCHANGED <<parsers, inits, def, desc, phase, pos, fault>>

\* rtp_clean, which runs when the RTP thread is cancelled: for every session the
\* attributes of all its definitions are freed, which stay as they are
\* otherwise, then its dynamic definitions.
Close(p) ==
  /\ At(p, "play") \/ At(p, "failed")
  /\ Moves(p, "close")
  /\ UNCHANGED <<parsers, inits, def, desc, pos, sess, fault>>

\* Mutant: all definitions are freed.
FirstDynamicAll == 0

FirstDynamic == 96

Clean(p) ==
  /\ At(p, "close") /\ sess[p] # <<>>
  /\ LET ptdefs == Head(sess[p]).ptdefs
         refs   == Range(ptdefs) \ {Null}
         dyn    == {ptdefs[pt] : pt \in {x \in Pts : x >= FirstDynamic}}
     IN  /\ fault' = IF \E r \in refs : def[r].freed \/ ~def[r].live THEN "freed" ELSE "none"
         /\ def' = [r \in DOMAIN def |->
                      IF r \in refs THEN [def[r] EXCEPT !.freed = @ \/ def[r].data # <<>>, !.live = @ /\ r \notin dyn]
                      ELSE def[r]]
  /\ sess' = [sess EXCEPT ![p] = Tail(@)]
  /\ UNCHANGED <<parsers, inits, desc, phase, pos>>

Closed(p) ==
  /\ At(p, "close") /\ sess[p] = <<>>
  /\ Moves(p, "closed")
  /\ UNCHANGED <<parsers, inits, def, desc, pos, sess, fault>>

Next ==
  \E p \in Presentations :
    \/ ClearInits(p) \/ FillInits(p)
    \/ Describe(p) \/ NewMedium(p) \/ Announce(p) \/ Med(p) \/ Rtpmap(p) \/ Fmtp(p) \/ NextMedium(p)
    \/ Start(p) \/ InitNext(p) \/ NextSession(p) \/ Run(p)
    \/ Drop(p) \/ Forget(p) \/ Close(p) \/ Clean(p) \/ Closed(p)

Spec == Init /\ [][Next]_vars

-----------------------------------------------------------------------------
(***************************************************************************)
(* Properties                                                              *)
(***************************************************************************)

\* Presentations come and go without a second free of a definition or its attributes,
\* or an access after the first one.
NothingFreedIsUsed == fault = "none"

\* Every dynamic definition that is not freed is in the table (ptdefs) of exactly one
\* session, at one payload type, and no table has one that is freed: whatever the order
\* in which formats are announced again (rtp_dynpt_set), parsers refuse them and
\* sessions are cleaned up (rtp_clean). Only sessions that were dropped without an RTP
\* thread leave definitions that nothing refers to. It is about definitions and tables
\* alone: the attributes and private data of a definition that is announced again are
\* lost, and the list of announced formats still has it (AnnouncedLive).
EveryDefinitionOwned ==
  LET places(r) == {x \in UNION {{<<p, m, pt>> : m \in DOMAIN sess[p], pt \in Pts} : p \in Presentations} :
                      sess[x[1]][x[2]].ptdefs[x[3]] = r}
  IN  \A r \in DOMAIN def \ Standard :
        \/ Cardinality(places(r)) = IF def[r].live THEN 1 ELSE 0
        \/ def[r].live /\ places(r) = {} /\ \E p \in Presentations : phase[p] = "dropped"

\* Every announced format has its definition: "Creates and registers a new payload type
\* for a session and appends it to the announced formats list" (rtp_payload_type.c:407).
AnnouncedLive ==
  \A p \in Presentations : \A m \in DOMAIN sess[p] :
    \A r \in Range(sess[p][m].rtppt) \ {Null} : def[r].live

\* An attribute that was added is within the array of its definition: "Adds a new
\* attribute to the given payload type ID", or returns "-1 if failed to allocate the
\* attribute" (rtp_payload_type.c:333, 341).
AttributesFit == \A r \in DOMAIN def : Len(def[r].data) <= def[r].allocated

\* Payload types that the server may send to session m of p.
Sent(p, m) == IF phase[p] = "play" THEN {pt \in Range(sess[p][m].announced) : sess[p][m].parsers[pt] \in Full}
              ELSE {}

Priv(p, m, pt) == def[sess[p][m].ptdefs[pt]].priv

\* When packets come, the parser of every announced type finds private data, which
\* an init function of its own format made, and the name of the type is its name:
\* whatever the order in which formats are announced, named and announced again.
ParserReady ==
  \A p \in Presentations : \A m \in DOMAIN sess[p] : \A pt \in Sent(p, m) :
    LET d == def[sess[p][m].ptdefs[pt]]
    IN  /\ d.live
        /\ d.priv.format = sess[p][m].parsers[pt]
        /\ d.name \in Served => d.name = d.priv.format

\* The attributes of payload type pt that its medium's description gives: those
\* behind the last a=med that announces the type again.
Given(medium, pt) ==
  LET last == SelectLastInSeq(medium.attrs, LAMBDA a : a.name = "med" /\ a.pt = pt)
      of   == SelectSeq(SubSeq(medium.attrs, last + 1, Len(medium.attrs)), LAMBDA a : a.name = "fmtp" /\ a.pt = pt)
  IN  [i \in DOMAIN of |-> of[i].value]

\* A parser's configuration is made of all attributes the description gives its
\* payload type, whatever their order among those of other types.
Configured ==
  \A p \in Presentations : \A m \in DOMAIN sess[p] : \A pt \in Sent(p, m) :
    Priv(p, m, pt) = NoPriv \/ Priv(p, m, pt).conf = InitParser(Priv(p, m, pt).format, Given(desc[p][m], pt)).conf

\* A parser's private data were made for the session they are used in: a frame is not
\* put together from packets of two sessions (rtp.h: the definitions are the session's).
OwnPrivateData ==
  \A p \in Presentations : \A m \in DOMAIN sess[p] : \A pt \in Sent(p, m) :
    Priv(p, m, pt) # NoPriv => Priv(p, m, pt).of = <<p, m>>
=============================================================================
