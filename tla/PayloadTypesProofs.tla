------------------------- MODULE PayloadTypesProofs -------------------------
(***************************************************************************)
(* Proofs about PayloadTypes: who owns the definitions of payload types,   *)
(* that the parsers find their private data, and, when attributes come     *)
(* behind the format they describe, that nothing is used after it was      *)
(* freed; for any presentations, descriptions and payload types.           *)
(***************************************************************************)
EXTENDS PayloadTypes, FiniteSetTheorems, SequenceTheorems, TLAPS

-----------------------------------------------------------------------------
(***************************************************************************)
(* The invariant, part by part. A part that relates definitions and        *)
(* sessions takes them as parameters, d and s.                             *)
(***************************************************************************)

\* The values attributes have.
Values == UNION {UNION {{a[m].attrs[i].value : i \in DOMAIN a[m].attrs} : m \in DOMAIN a} : a \in Descriptions}

Sessions ==
  [ptdefs : [Pts -> Nat \cup {Null}], announced : Seq(Pts), rtppt : Seq(Nat \cup {Null}),
   parsers : [Pts -> Served \cup {"def"}], inits : [Pts -> Full \cup {Null}]]

AllSessions == [Presentations -> Seq(Sessions)]

IsDefinition(x) ==
  x \in [name : Served \cup {"", "unknown"}, data : Seq(Values), allocated : 0 .. 3,
         freed : BOOLEAN, live : BOOLEAN, priv : {x.priv}]

Definitions(d) ==
  /\ DOMAIN d \subseteq Nat /\ IsFiniteSet(DOMAIN d)
  /\ d = [r \in DOMAIN d |-> d[r]]
  /\ \A r \in DOMAIN d : IsDefinition(d[r])

Types ==
  /\ parsers \in [Pts -> Served \cup {"def"}] /\ inits \in [Pts -> Full \cup {Null}]
  /\ Definitions(def)
  /\ desc \in [Presentations -> Descriptions]
  /\ phase \in [Presentations -> Phases]
  /\ pos \in [Presentations -> [m : Nat \ {0}, i : Nat]]
  /\ sess \in AllSessions
  /\ fault \in {"none", "freed", "null"}

\* The cursor is at a medium that has its session, or is about to get it.
CursorOf(p) ==
  /\ phase[p] \in {"new", "cleared", "made"} => sess[p] = <<>>
  /\ Len(sess[p]) <= Len(desc[p])
  /\ phase[p] = "describe" => /\ pos[p].m <= Len(desc[p]) + 1
                              /\ Len(sess[p]) = IF pos[p].i = 0 THEN pos[p].m - 1 ELSE pos[p].m
  /\ phase[p] = "start" => pos[p].m <= Len(sess[p]) + 1

Cursor == \A p \in Presentations : CursorOf(p)

\* A place is a dynamic payload type of a session.
Dynamic == {pt \in Pts : pt >= 96}

\* Types that are not dynamic have the static definitions.
SharedIn(s) ==
  \A p \in Presentations : \A m \in DOMAIN s[p] : \A pt \in Pts \ Dynamic :
    s[p][m].ptdefs[pt] = IF pt \in Standard THEN pt ELSE Null

\* What a place refers to is allocated and not freed.
LiveIn(s, d) ==
  \A p \in Presentations : \A m \in DOMAIN s[p] : \A pt \in Dynamic :
    s[p][m].ptdefs[pt] # Null =>
      /\ s[p][m].ptdefs[pt] \in DOMAIN d \ Standard
      /\ d[s[p][m].ptdefs[pt]].live

\* No two places have the same definition.
OneOwnerIn(s) ==
  \A p, q \in Presentations : \A m \in DOMAIN s[p], n \in DOMAIN s[q] : \A pt, u \in Dynamic :
    s[p][m].ptdefs[pt] # Null /\ s[p][m].ptdefs[pt] = s[q][n].ptdefs[u] => p = q /\ m = n /\ pt = u

\* rtsp_reinit forgot sessions that had no RTP thread.
SomeDropped == \E p \in Presentations : phase[p] = "dropped"

\* Else what is allocated and not freed is the definition of some place.
NoOrphanIn(s, d) ==
  ~SomeDropped =>
    \A r \in DOMAIN d \ Standard :
      d[r].live => \E p \in Presentations : \E m \in DOMAIN s[p] : \E pt \in Dynamic : s[p][m].ptdefs[pt] = r

\* The next address is a new one.
FreshIn(d) == \A r \in DOMAIN d : r < 256 + Cardinality(DOMAIN d) /\ (r \notin Standard => r >= 256)

\* The static definitions stay, and have no name.
StaticIn(d) == \A r \in Standard : r \in DOMAIN d /\ d[r].live /\ d[r].name = ""

OwnersIn(s, d) ==
  SharedIn(s) /\ LiveIn(s, d) /\ OneOwnerIn(s) /\ NoOrphanIn(s, d) /\ FreshIn(d) /\ StaticIn(d)

\* When the controllers are made first, no medium is set up while the tables are empty.
Filled ==
  /\ parsers = [pt \in Pts |-> StaticParser(pt)]
  /\ inits = [pt \in Pts |-> IF StaticParser(pt) \in Full THEN StaticParser(pt) ELSE Null]

Early == {"new", "cleared", "made"}

Tables ==
  /\ (\A q \in Presentations : phase[q] # "cleared") /\ (\E q \in Presentations : phase[q] # "new") => Filled
  /\ (\E q \in Presentations : phase[q] \notin Early) => \A q \in Presentations : phase[q] \notin {"new", "cleared"}

\* In session x a format's init function is registered with its parser, and the name a
\* dynamic type has is its parser's.
MatchesAt(x, d, pt) ==
  /\ x.inits[pt] = IF x.parsers[pt] \in Full THEN x.parsers[pt] ELSE Null
  /\ pt \notin Dynamic => x.parsers[pt] = StaticParser(pt)
  /\ pt \in Dynamic /\ x.ptdefs[pt] # Null /\ d[x.ptdefs[pt]].name \in Served =>
       d[x.ptdefs[pt]].name = x.parsers[pt]

MatchingOf(x, d) == \A pt \in Pts : MatchesAt(x, d, pt)

MatchingIn(s, d) == \A p \in Presentations : \A m \in DOMAIN s[p] : MatchingOf(s[p][m], d)

\* An announced dynamic type has a definition.
AnnouncedOf(x) ==
  \A k \in DOMAIN x.announced : x.announced[k] \in Dynamic => x.ptdefs[x.announced[k]] # Null

AnnouncedIn(s) == \A p \in Presentations : \A m \in DOMAIN s[p] : AnnouncedOf(s[p][m])

\* The parser of the k-th announced type of session m has its private data.
MadeIn(s, d, p, m, k) ==
  LET pt == s[p][m].announced[k]
  IN  s[p][m].parsers[pt] \in Full => d[s[p][m].ptdefs[pt]].priv.format = s[p][m].parsers[pt]

\* The init functions that were called did their work.
InitedOf(p) ==
  \A m \in DOMAIN sess[p] : \A k \in DOMAIN sess[p][m].announced :
    (phase[p] = "play" \/ (phase[p] = "start" /\ (m < pos[p].m \/ (m = pos[p].m /\ k <= pos[p].i))))
    => MadeIn(sess, def, p, m, k)

Inited == \A p \in Presentations : InitedOf(p)

OInv == Types /\ Cursor /\ OwnersIn(sess, def)

RInv == Tables /\ MatchingIn(sess, def) /\ AnnouncedIn(sess) /\ Inited

-----------------------------------------------------------------------------
(***************************************************************************)
(* Attributes that describe what was announced before them.                *)
(***************************************************************************)

\* An rtpmap without a clock rate ends the attributes of its medium.
EndsLoop(a) == a.name = "rtpmap" /\ a.pt \in 96 .. 127 /\ a.value = "invalid"

\* The description has every fmtp behind the announcement of its type, which is dynamic.
AttributesDefined ==
  \A a \in Descriptions : \A m \in DOMAIN a : \A i \in DOMAIN a[m].attrs :
    LET x == a[m].attrs[i]
    IN  x.name = "fmtp" /\ x.pt <= 127 =>
          \/ x.pt \in Dynamic /\ \E k \in DOMAIN a[m].fmts : a[m].fmts[k] = x.pt
          \/ x.pt \in Dynamic /\ \E k \in 1 .. i - 1 : a[m].attrs[k].name = "med" /\ a[m].attrs[k].pt = x.pt
          \/ \E k \in 1 .. i - 1 : EndsLoop(a[m].attrs[k])

\* What is allocated has its attributes, and the static definitions have none.
KeptIn(d) == \A r \in DOMAIN d : (d[r].live => ~d[r].freed) /\ (r \in Standard => d[r].data = <<>>)

\* The formats and attributes that were passed have been announced, and none of them
\* was the last.
PassedOf(p) ==
  phase[p] = "describe" /\ pos[p].i # 0 =>
    LET s == sess[p][pos[p].m]
    IN  /\ \A k \in DOMAIN Current(p).fmts : k < pos[p].i /\ Current(p).fmts[k] \in Dynamic =>
             s.ptdefs[Current(p).fmts[k]] # Null
        /\ \A k \in DOMAIN Current(p).attrs : k < Nth(p) =>
             /\ ~EndsLoop(Current(p).attrs[k])
             /\ Current(p).attrs[k].name = "med" /\ Current(p).attrs[k].pt \in Dynamic =>
                  s.ptdefs[Current(p).attrs[k].pt] # Null

Passed == \A p \in Presentations : PassedOf(p)

FInv == KeptIn(def) /\ Passed /\ fault = "none"

-----------------------------------------------------------------------------
(***************************************************************************)
(* Updates of sessions and definitions, field by field.                    *)
(***************************************************************************)

\* t is s but for session m of p.
SameBut(s, t, p, m) ==
  /\ \A q \in Presentations : Len(t[q]) = Len(s[q]) /\ DOMAIN t[q] = DOMAIN s[q]
  /\ \A q \in Presentations : \A n \in DOMAIN s[q] : q # p \/ n # m => t[q][n] = s[q][n]
  /\ \A q \in Presentations : q # p => t[q] = s[q]

WithSession(s, p, m, x) == [s EXCEPT ![p][m] = x]

LEMMA OneSession ==
  ASSUME NEW s \in AllSessions, NEW p \in Presentations, NEW m \in DOMAIN s[p], NEW x \in Sessions
  PROVE  /\ WithSession(s, p, m, x) \in AllSessions
         /\ SameBut(s, WithSession(s, p, m, x), p, m)
         /\ WithSession(s, p, m, x)[p][m] = x
<1>1. s[p] \in Seq(Sessions)
  BY DEF AllSessions
<1>2. PICK n \in Nat : Len(s[p]) = n /\ DOMAIN s[p] = 1 .. n
  BY <1>1
<1>3. PICK u : u = [s[p] EXCEPT ![m] = x]
  OBVIOUS
<1>4. u \in Seq(Sessions) /\ Len(u) = n /\ DOMAIN u = 1 .. n /\ u[m] = x
      /\ \A k \in 1 .. n : k # m => u[k] = s[p][k]
  BY <1>1, <1>2, <1>3
<1>5. PICK t : t = WithSession(s, p, m, x)
  OBVIOUS
<1>6. t = [s EXCEPT ![p] = u]
  BY <1>3, <1>5 DEF WithSession
<1>7. t[p] = u /\ \A q \in Presentations : q # p => t[q] = s[q]
  BY <1>6 DEF AllSessions
<1>8. t \in AllSessions
  BY <1>4, <1>6 DEF AllSessions
<1>9. SameBut(s, t, p, m)
  BY <1>2, <1>4, <1>7 DEF SameBut
<1>10. QED
  BY <1>4, <1>5, <1>7, <1>8, <1>9

\* rtp_announce_pt: the type is announced, and gets definition a.
AnnouncesTo(s, t, p, m, pt, a) ==
  /\ t \in AllSessions /\ SameBut(s, t, p, m)
  /\ t[p][m].announced = Append(s[p][m].announced, pt)
  /\ t[p][m].ptdefs = [s[p][m].ptdefs EXCEPT ![pt] = a]
  /\ t[p][m].parsers = s[p][m].parsers /\ t[p][m].inits = s[p][m].inits

LEMMA AnnouncingSession ==
  ASSUME NEW s \in AllSessions, NEW p \in Presentations, NEW m \in DOMAIN s[p],
         NEW pt \in Pts, NEW a \in Nat \cup {Null},
         NEW t, t = [s EXCEPT ![p][m].announced = Append(@, pt), ![p][m].rtppt = Append(@, a),
                              ![p][m].ptdefs[pt] = a]
  PROVE  AnnouncesTo(s, t, p, m, pt, a)
<1>1. s[p] \in Seq(Sessions)
  BY DEF AllSessions
<1>2. s[p][m] \in Sessions
  BY <1>1, ElementOfSeq
<1>3. PICK x : x = s[p][m]
  OBVIOUS
<1>4. PICK y : y = [[[x EXCEPT !.announced = Append(x.announced, pt)] EXCEPT !.rtppt = Append(x.rtppt, a)]
                    EXCEPT !.ptdefs[pt] = a]
  OBVIOUS
<1>5. /\ x.announced \in Seq(Pts) /\ Append(x.announced, pt) \in Seq(Pts)
      /\ x.rtppt \in Seq(Nat \cup {Null}) /\ Append(x.rtppt, a) \in Seq(Nat \cup {Null})
  <2>1. x.announced \in Seq(Pts) /\ x.rtppt \in Seq(Nat \cup {Null})
    BY <1>2, <1>3 DEF Sessions
  <2>2. QED
    BY <2>1, AppendProperties
<1>6. /\ y.announced = Append(x.announced, pt)
      /\ y.ptdefs = [x.ptdefs EXCEPT ![pt] = a]
      /\ y.parsers = x.parsers /\ y.inits = x.inits
  BY <1>2, <1>3, <1>4 DEF Sessions
<1>7. y \in Sessions
  BY <1>2, <1>3, <1>4, <1>5 DEF Sessions
<1>8. t = WithSession(s, p, m, y)
  <2>1. PICK b : b = [x EXCEPT !.announced = Append(x.announced, pt)]
    OBVIOUS
  <2>2. PICK c : c = [b EXCEPT !.rtppt = Append(x.rtppt, a)]
    OBVIOUS
  <2>3. y = [c EXCEPT !.ptdefs[pt] = a] /\ b.rtppt = x.rtppt
    BY <1>2, <1>3, <1>4, <2>1, <2>2 DEF Sessions
  <2>4. PICK z : z = WithSession(s, p, m, b)
    OBVIOUS
  <2>5. z = [s EXCEPT ![p][m].announced = Append(s[p][m].announced, pt)]
    BY <1>3, <2>1, <2>4 DEF WithSession
  <2>6. PICK w : w = WithSession(z, p, m, c)
    OBVIOUS
  <2>7. z[p][m] = b /\ \A v : WithSession(z, p, m, v) = WithSession(s, p, m, v)
    BY <1>1, <2>4 DEF AllSessions, WithSession
  <2>8. w = [z EXCEPT ![p][m].rtppt = Append(s[p][m].rtppt, a)]
    BY <1>3, <2>2, <2>3, <2>6, <2>7 DEF WithSession
  <2>9. w[p][m] = c /\ \A v : WithSession(w, p, m, v) = WithSession(s, p, m, v)
    BY <1>1, <2>4, <2>6, <2>7 DEF AllSessions, WithSession
  <2>10. WithSession(w, p, m, y) = [w EXCEPT ![p][m].ptdefs[pt] = a]
    BY <2>3, <2>9 DEF WithSession
  <2>11. t = [w EXCEPT ![p][m].ptdefs[pt] = a]
    <3>1. t = [[[s EXCEPT ![p][m].announced = Append(s[p][m].announced, pt)]
                 EXCEPT ![p][m].rtppt = Append(s[p][m].rtppt, a)]
                EXCEPT ![p][m].ptdefs[pt] = a]
      OBVIOUS
    <3>2. QED
      BY <2>5, <2>8, <3>1
  <2>12. QED
    BY <2>9, <2>10, <2>11
<1>9. t \in AllSessions /\ SameBut(s, t, p, m) /\ t[p][m] = y
  <2>1. PICK w : w = WithSession(s, p, m, y)
    OBVIOUS
  <2>2. w \in AllSessions /\ SameBut(s, w, p, m) /\ w[p][m] = y
    BY <1>7, <2>1, OneSession
  <2>3. QED
    BY <1>8, <2>1, <2>2, Zenon
<1>10. QED
  BY <1>3, <1>6, <1>9 DEF AnnouncesTo

\* rtp_parser_reg: the parser and the init function of a type.
RegistersTo(s, t, p, m, pt, mime) ==
  /\ t \in AllSessions /\ SameBut(s, t, p, m)
  /\ t[p][m].announced = s[p][m].announced /\ t[p][m].ptdefs = s[p][m].ptdefs
  /\ t[p][m].parsers = IF mime \in Served THEN [s[p][m].parsers EXCEPT ![pt] = mime] ELSE s[p][m].parsers
  /\ t[p][m].inits = IF mime \in Served
                     THEN [s[p][m].inits EXCEPT ![pt] = IF mime \in Full THEN mime ELSE Null]
                     ELSE s[p][m].inits

LEMMA RegisteringSession ==
  ASSUME NEW s \in AllSessions, NEW p \in Presentations, NEW m \in DOMAIN s[p], NEW pt \in Pts, NEW mime,
         NEW t, t = [s EXCEPT ![p][m] = rtp_parser_reg(@, pt, mime)]
  PROVE  RegistersTo(s, t, p, m, pt, mime)
<1>1. s[p] \in Seq(Sessions)
  BY DEF AllSessions
<1>2. s[p][m] \in Sessions
  BY <1>1
<1>3. PICK x : x = s[p][m]
  OBVIOUS
<1>4. PICK y : y = rtp_parser_reg(x, pt, mime)
  OBVIOUS
<1>5. t = WithSession(s, p, m, y)
  BY <1>3, <1>4 DEF WithSession
<1>6. CASE mime \in Served
  <2>1. PICK f : f = IF mime \in Full THEN mime ELSE Null
    OBVIOUS
  <2>2. f \in Full \cup {Null}
    BY <2>1
  <2>3. y = [x EXCEPT !.parsers[pt] = mime, !.inits[pt] = f]
    BY <1>4, <1>6, <2>1 DEF rtp_parser_reg
  <2>4. /\ y.announced = x.announced /\ y.ptdefs = x.ptdefs
        /\ y.parsers = [x.parsers EXCEPT ![pt] = mime] /\ y.inits = [x.inits EXCEPT ![pt] = f]
    BY <1>2, <1>3, <2>3 DEF Sessions
  <2>5. y \in Sessions
    BY <1>2, <1>3, <1>6, <2>2, <2>3 DEF Sessions
  <2>6. t \in AllSessions /\ SameBut(s, t, p, m) /\ t[p][m] = y
    <3>1. PICK w : w = WithSession(s, p, m, y)
      OBVIOUS
    <3>2. w \in AllSessions /\ SameBut(s, w, p, m) /\ w[p][m] = y
      BY <2>5, <3>1, OneSession
    <3>3. QED
      BY <1>5, <3>1, <3>2, Zenon
  <2>7. QED
    BY <1>3, <1>6, <2>1, <2>4, <2>6 DEF RegistersTo
<1>7. CASE mime \notin Served
  <2>1. y = x
    BY <1>4, <1>7 DEF rtp_parser_reg
  <2>2. y \in Sessions
    BY <1>2, <1>3, <2>1
  <2>3. t \in AllSessions /\ SameBut(s, t, p, m) /\ t[p][m] = y
    <3>1. PICK w : w = WithSession(s, p, m, y)
      OBVIOUS
    <3>2. w \in AllSessions /\ SameBut(s, w, p, m) /\ w[p][m] = y
      BY <2>2, <3>1, OneSession
    <3>3. QED
      BY <1>5, <3>1, <3>2, Zenon
  <2>4. QED
    BY <1>3, <1>7, <2>1, <2>3 DEF RegistersTo
<1>8. QED
  BY <1>6, <1>7

\* rtp_session_init: one session more; and rtp_clean: the first one less.
Adds(s, t, p, x) ==
  /\ t \in AllSessions
  /\ \A q \in Presentations : q # p => t[q] = s[q]
  /\ Len(t[p]) = Len(s[p]) + 1 /\ DOMAIN t[p] = 1 .. Len(s[p]) + 1
  /\ \A n \in DOMAIN s[p] : n \in DOMAIN t[p] /\ t[p][n] = s[p][n]
  /\ t[p][Len(s[p]) + 1] = x

Drops(s, t, p) ==
  /\ t \in AllSessions
  /\ \A q \in Presentations : q # p => t[q] = s[q]
  /\ Len(s[p]) \in Nat \ {0} /\ DOMAIN s[p] = 1 .. Len(s[p]) /\ Head(s[p]) = s[p][1]
  /\ Len(t[p]) = Len(s[p]) - 1 /\ DOMAIN t[p] = 1 .. Len(s[p]) - 1
  /\ \A n \in DOMAIN t[p] : n + 1 \in DOMAIN s[p] /\ t[p][n] = s[p][n + 1]

LEMMA NewSession ==
  ASSUME NEW s \in AllSessions, NEW p \in Presentations, NEW x \in Sessions, NEW t, t = [s EXCEPT ![p] = Append(@, x)]
  PROVE  Adds(s, t, p, x)
<1>1. s[p] \in Seq(Sessions)
  BY DEF AllSessions
<1>2. PICK n \in Nat : Len(s[p]) = n /\ DOMAIN s[p] = 1 .. n
  BY <1>1
<1>3. PICK u : u = Append(s[p], x)
  OBVIOUS
<1>4. u \in Seq(Sessions) /\ Len(u) = n + 1 /\ DOMAIN u = 1 .. n + 1 /\ u[n + 1] = x /\ \A k \in 1 .. n : u[k] = s[p][k]
  BY <1>1, <1>2, <1>3
<1>5. t = [s EXCEPT ![p] = u]
  BY <1>3
<1>6. t[p] = u /\ \A q \in Presentations : q # p => t[q] = s[q]
  BY <1>5 DEF AllSessions
<1>7. t \in AllSessions
  BY <1>4, <1>5 DEF AllSessions
<1>8. QED
  BY <1>2, <1>4, <1>6, <1>7 DEF Adds

LEMMA OldSession ==
  ASSUME NEW s \in AllSessions, NEW p \in Presentations, s[p] # <<>>, NEW t, t = [s EXCEPT ![p] = Tail(@)]
  PROVE  Drops(s, t, p)
<1>1. s[p] \in Seq(Sessions)
  BY DEF AllSessions
<1>2. PICK n \in Nat : Len(s[p]) = n /\ DOMAIN s[p] = 1 .. n
  BY <1>1
<1>3. n # 0
  BY <1>1, <1>2
<1>4. PICK u : u = Tail(s[p])
  OBVIOUS
<1>5. u \in Seq(Sessions) /\ Len(u) = n - 1 /\ DOMAIN u = 1 .. n - 1 /\ \A k \in 1 .. n - 1 : u[k] = s[p][k + 1]
  BY <1>1, <1>2, <1>3, <1>4
<1>6. t = [s EXCEPT ![p] = u]
  BY <1>4
<1>7. t[p] = u /\ \A q \in Presentations : q # p => t[q] = s[q]
  BY <1>6 DEF AllSessions
<1>8. t \in AllSessions
  BY <1>5, <1>6 DEF AllSessions
<1>9. \A k \in 1 .. n - 1 : k + 1 \in 1 .. n
  BY <1>2
<1>10. Head(s[p]) = s[p][1]
  BY <1>1, <1>2, <1>3
<1>11. QED
  BY <1>2, <1>3, <1>5, <1>7, <1>8, <1>9, <1>10 DEF Drops
LEMMA NewDefinition == IsDefinition(NewDef) /\ NewDef.live /\ ~NewDef.freed /\ NewDef.name = "" /\ NewDef.data = <<>>
                       /\ NewDef.allocated = 0
<1>1. <<>> \in Seq(Values)
  OBVIOUS
<1>2. QED
  BY <1>1 DEF IsDefinition, NewDef

\* e is d but for the definition at r, which stays where it is and is not freed or renamed.
Updates(d, e, r) ==
  /\ Definitions(e) /\ DOMAIN e = DOMAIN d /\ r \in DOMAIN d
  /\ \A x \in DOMAIN d : x # r => e[x] = d[x]
  /\ e[r].freed = d[r].freed /\ e[r].live = d[r].live

LEMMA OneDefinition ==
  ASSUME NEW d, Definitions(d), NEW r \in DOMAIN d, NEW x, IsDefinition(x),
         x.freed = d[r].freed, x.live = d[r].live, NEW e, e = [d EXCEPT ![r] = x]
  PROVE  Updates(d, e, r) /\ e[r] = x
<1>1. DOMAIN e = DOMAIN d
  OBVIOUS
<1>2. e[r] = x /\ \A y \in DOMAIN d : y # r => e[y] = d[y]
  OBVIOUS
<1>3. e = [y \in DOMAIN e |-> e[y]]
  BY <1>1
<1>4. QED
  BY <1>1, <1>2, <1>3 DEF Updates, Definitions

\* rtp_dynpt_set: a is new, and old is freed.
Replaces(d, e, old, a) ==
  /\ Definitions(e) /\ FreshIn(e)
  /\ a \in Nat /\ a \notin DOMAIN d \cup Standard
  /\ DOMAIN e = DOMAIN d \cup {a} /\ e[a] = NewDef
  /\ \A r \in DOMAIN d : /\ r # old => e[r] = d[r]
                         /\ r = old => ~e[r].live
                         /\ e[r].freed = d[r].freed /\ e[r].name = d[r].name
                         /\ e[r].data = d[r].data /\ e[r].allocated = d[r].allocated /\ e[r].priv = d[r].priv

Replacement(d, old, a) ==
  [r \in (DOMAIN d) \cup {a} |->
     IF r \notin DOMAIN d THEN NewDef ELSE IF r = old THEN [d[r] EXCEPT !.live = FALSE] ELSE d[r]]

LEMMA ReplacingDefinition ==
  ASSUME NEW d, Definitions(d), FreshIn(d), Standard \subseteq DOMAIN d,
         NEW old, NEW a, a = 256 + Cardinality(DOMAIN d), NEW e, e = Replacement(d, old, a)
  PROVE  Replaces(d, e, old, a)
<1>1. Cardinality(DOMAIN d) \in Nat
  BY FS_CardinalityType DEF Definitions
<1>2. a \in Nat /\ a \notin DOMAIN d \cup Standard
  BY <1>1 DEF FreshIn, Definitions
<1>3. DOMAIN e = DOMAIN d \cup {a} /\ e = [r \in DOMAIN e |-> e[r]]
  BY DEF Replacement
<1>4. e[a] = NewDef
  BY <1>2 DEF Replacement
<1>5. PICK f : f = [r \in DOMAIN d |-> [d[r] EXCEPT !.live = FALSE]]
  OBVIOUS
<1>6. \A r \in DOMAIN d : e[r] = IF r = old THEN f[r] ELSE d[r]
  BY <1>2, <1>5 DEF Replacement
<1>7. \A r \in DOMAIN d : IsDefinition(f[r]) /\ ~f[r].live /\ f[r].freed = d[r].freed /\ f[r].name = d[r].name
                          /\ f[r].data = d[r].data /\ f[r].allocated = d[r].allocated /\ f[r].priv = d[r].priv
  <2>1. ASSUME NEW r \in DOMAIN d
        PROVE  IsDefinition(f[r]) /\ ~f[r].live /\ f[r].freed = d[r].freed /\ f[r].name = d[r].name
                 /\ f[r].data = d[r].data /\ f[r].allocated = d[r].allocated /\ f[r].priv = d[r].priv
    <3>1. PICK x : x = d[r]
      OBVIOUS
    <3>2. IsDefinition(x)
      BY <3>1 DEF Definitions
    <3>3. f[r] = [x EXCEPT !.live = FALSE]
      BY <1>5, <3>1
    <3>4. /\ IsDefinition(f[r])
          /\ ~f[r].live /\ f[r].freed = x.freed /\ f[r].name = x.name
          /\ f[r].data = x.data /\ f[r].allocated = x.allocated /\ f[r].priv = x.priv
      BY <3>2, <3>3 DEF IsDefinition
    <3>5. QED
      BY <3>1, <3>4
  <2>2. QED
    BY <2>1
<1>8. IsFiniteSet(DOMAIN e) /\ Cardinality(DOMAIN e) = Cardinality(DOMAIN d) + 1
  BY <1>2, <1>3, FS_AddElement DEF Definitions
<1>9. \A r \in DOMAIN e : IsDefinition(e[r])
  <2>1. IsDefinition(e[a])
    BY <1>4, NewDefinition
  <2>2. ASSUME NEW r \in DOMAIN d PROVE IsDefinition(e[r])
    <3>1. IsDefinition(d[r]) /\ IsDefinition(f[r])
      BY <1>7 DEF Definitions
    <3>2. e[r] = d[r] \/ e[r] = f[r]
      BY <1>6
    <3>3. QED
      BY <3>1, <3>2, Zenon
  <2>3. QED
    BY <1>3, <2>1, <2>2
<1>10. Definitions(e)
  BY <1>2, <1>3, <1>8, <1>9 DEF Definitions
<1>11. FreshIn(e)
  BY <1>1, <1>3, <1>8 DEF FreshIn, Definitions
<1>12. QED
  BY <1>2, <1>3, <1>4, <1>6, <1>7, <1>10, <1>11 DEF Replaces

\* rtp_clean: attributes of the definitions refs are freed, and the dynamic ones, dyn.
Cleans(d, e, refs, dyn) ==
  /\ Definitions(e) /\ DOMAIN e = DOMAIN d
  /\ \A r \in DOMAIN d : /\ r \notin refs => e[r] = d[r]
                         /\ e[r].name = d[r].name /\ e[r].data = d[r].data /\ e[r].priv = d[r].priv
                         /\ e[r].allocated = d[r].allocated
                         /\ e[r].live = (d[r].live /\ ~(r \in refs /\ r \in dyn))
                         /\ r \in refs => e[r].freed = (d[r].freed \/ d[r].data # <<>>)

Cleaned(d, refs, dyn) ==
  [r \in DOMAIN d |->
     IF r \in refs THEN [d[r] EXCEPT !.freed = @ \/ d[r].data # <<>>, !.live = @ /\ r \notin dyn] ELSE d[r]]

LEMMA CleaningDefinitions ==
  ASSUME NEW d, Definitions(d), NEW refs, NEW dyn, NEW e, e = Cleaned(d, refs, dyn)
  PROVE  Cleans(d, e, refs, dyn)
<1>1. DOMAIN e = DOMAIN d /\ e = [r \in DOMAIN e |-> e[r]]
  BY DEF Cleaned
<1>2. ASSUME NEW r \in DOMAIN d
      PROVE  /\ r \notin refs => e[r] = d[r]
             /\ e[r].name = d[r].name /\ e[r].data = d[r].data /\ e[r].priv = d[r].priv
             /\ e[r].allocated = d[r].allocated
             /\ e[r].live = (d[r].live /\ ~(r \in refs /\ r \in dyn))
             /\ r \in refs => e[r].freed = (d[r].freed \/ d[r].data # <<>>)
             /\ IsDefinition(e[r])
  <2>1. IsDefinition(d[r])
    BY DEF Definitions
  <2>2. CASE r \in refs
    <3>1. PICK v \in BOOLEAN : v = (d[r].freed \/ d[r].data # <<>>)
      OBVIOUS
    <3>2. PICK w \in BOOLEAN : w = (d[r].live /\ r \notin dyn)
      OBVIOUS
    <3>3. e[r] = [d[r] EXCEPT !.freed = v, !.live = w]
      BY <2>2, <3>1, <3>2 DEF Cleaned
    <3>4. QED
      BY <2>1, <2>2, <3>1, <3>2, <3>3 DEF IsDefinition
  <2>3. CASE r \notin refs
    <3>1. e[r] = d[r]
      BY <2>3 DEF Cleaned
    <3>2. d[r].live \in BOOLEAN
      BY <2>1 DEF IsDefinition
    <3>3. QED
      BY <2>1, <2>3, <3>1, <3>2
  <2>4. QED
    BY <2>2, <2>3
<1>3. Definitions(e)
  BY <1>1, <1>2 DEF Definitions
<1>4. QED
  BY <1>1, <1>2, <1>3 DEF Cleans
-----------------------------------------------------------------------------
(***************************************************************************)
(* Who owns the definitions, operation by operation.                       *)
(***************************************************************************)

LEMMA Numbers ==
  /\ \A pt \in Pts : pt \in 0 .. 255 /\ pt # Null
  /\ \A pt \in Dynamic : pt \in Pts /\ pt >= 96 /\ pt \notin Standard
  /\ \A r \in Standard : r \in Pts \ Dynamic /\ r < 96 /\ r # Null
<1>1. \A r \in Nat : r # Null
  BY PayloadAssumption DEF PayloadAssumption
<1>2. \A pt \in Pts : pt \in 0 .. 255 /\ pt # Null
  BY <1>1, PayloadAssumption DEF PayloadAssumption
<1>3. \A r \in Standard : r \in Pts /\ r < 96
  BY PayloadAssumption DEF PayloadAssumption
<1>4. QED
  BY <1>2, <1>3 DEF Dynamic

LEMMA SameOwners ==
  ASSUME NEW s, NEW d, OwnersIn(s, d), NEW t, NEW e,
         \A q \in Presentations : DOMAIN t[q] = DOMAIN s[q],
         \A q \in Presentations : \A n \in DOMAIN s[q] : t[q][n].ptdefs = s[q][n].ptdefs,
         DOMAIN e = DOMAIN d,
         \A r \in DOMAIN d : e[r].live = d[r].live /\ (r \in Standard => e[r].name = d[r].name)
  PROVE  OwnersIn(t, e)
<1>1. SharedIn(t)
  BY DEF OwnersIn, SharedIn
<1>2. LiveIn(t, e)
  BY DEF OwnersIn, LiveIn
<1>3. OneOwnerIn(t)
  BY DEF OwnersIn, OneOwnerIn
<1>4. NoOrphanIn(t, e)
  BY DEF OwnersIn, NoOrphanIn
<1>5. FreshIn(e)
  BY DEF OwnersIn, FreshIn
<1>6. StaticIn(e)
  BY DEF OwnersIn, StaticIn
<1>7. QED
  BY <1>1, <1>2, <1>3, <1>4, <1>5, <1>6 DEF OwnersIn

\* A definition of its own for an announced type, in the place of the old one.
LEMMA AnnouncedOwners ==
  ASSUME NEW s \in AllSessions, NEW d, Definitions(d), OwnersIn(s, d), NEW t, NEW e,
         NEW p \in Presentations, NEW m \in DOMAIN s[p], NEW pt \in Dynamic, NEW old, old = s[p][m].ptdefs[pt], NEW a,
         AnnouncesTo(s, t, p, m, pt, a), Replaces(d, e, old, a)
  PROVE  OwnersIn(t, e)
<1>1. a \in Nat /\ a # Null /\ a \notin DOMAIN d \cup Standard
  BY PayloadAssumption DEF Replaces, PayloadAssumption
<1>2. t[p][m].ptdefs[pt] = a /\ \A u \in Pts : u # pt => t[p][m].ptdefs[u] = s[p][m].ptdefs[u]
  <2>1. s[p] \in Seq(Sessions)
    BY DEF AllSessions
  <2>2. s[p][m] \in Sessions
    BY <2>1
  <2>3. DOMAIN s[p][m].ptdefs = Pts
    BY <2>2 DEF Sessions
  <2>4. QED
    BY <2>3 DEF AnnouncesTo, Dynamic
<1>3. \A q \in Presentations : DOMAIN t[q] = DOMAIN s[q]
  BY DEF AnnouncesTo, SameBut
<1>4. \A q \in Presentations : \A n \in DOMAIN s[q] : \A u \in Pts :
        ~(q = p /\ n = m /\ u = pt) => t[q][n].ptdefs[u] = s[q][n].ptdefs[u]
  <2>1. ASSUME NEW q \in Presentations, NEW n \in DOMAIN s[q], NEW u \in Pts, ~(q = p /\ n = m /\ u = pt)
        PROVE  t[q][n].ptdefs[u] = s[q][n].ptdefs[u]
    <3>1. CASE q = p /\ n = m
      BY <1>2, <2>1, <3>1
    <3>2. CASE ~(q = p /\ n = m)
      <4>1. t[q][n] = s[q][n]
        BY <3>2 DEF AnnouncesTo, SameBut
      <4>2. QED
        BY <4>1
    <3>3. QED
      BY <3>1, <3>2
  <2>2. QED
    BY <2>1
<1>5. DOMAIN e = DOMAIN d \cup {a} /\ e[a].live
  BY NewDefinition DEF Replaces
<1>6. \A r \in DOMAIN d : r # old => e[r] = d[r]
  BY DEF Replaces
<1>7. \A q \in Presentations : \A n \in DOMAIN s[q] : \A u \in Dynamic :
        s[q][n].ptdefs[u] # Null /\ s[q][n].ptdefs[u] = old => q = p /\ n = m /\ u = pt
  BY DEF OwnersIn, OneOwnerIn
<1>8. \A q \in Presentations : \A n \in DOMAIN s[q] : \A u \in Dynamic :
        s[q][n].ptdefs[u] # Null => /\ s[q][n].ptdefs[u] \in DOMAIN d \ Standard
                                    /\ d[s[q][n].ptdefs[u]].live /\ s[q][n].ptdefs[u] # a
  BY <1>1 DEF OwnersIn, LiveIn
<1>9. SharedIn(t)
  BY <1>3, <1>4 DEF OwnersIn, SharedIn, Dynamic
<1>10. LiveIn(t, e)
  <2>1. ASSUME NEW q \in Presentations, NEW n \in DOMAIN s[q], NEW u \in Dynamic, t[q][n].ptdefs[u] # Null
        PROVE  t[q][n].ptdefs[u] \in DOMAIN e \ Standard /\ e[t[q][n].ptdefs[u]].live
    <3>1. CASE q = p /\ n = m /\ u = pt
      BY <1>1, <1>2, <1>5, <3>1
    <3>2. CASE ~(q = p /\ n = m /\ u = pt)
      <4>1. t[q][n].ptdefs[u] = s[q][n].ptdefs[u]
        BY <1>4, <3>2 DEF Dynamic
      <4>2. s[q][n].ptdefs[u] # old
        BY <1>7, <2>1, <3>2, <4>1
      <4>3. QED
        BY <1>5, <1>6, <1>8, <2>1, <4>1, <4>2
    <3>3. QED
      BY <3>1, <3>2
  <2>2. QED
    BY <1>3, <2>1 DEF LiveIn
<1>11. OneOwnerIn(t)
  <2>1. ASSUME NEW q \in Presentations, NEW n \in DOMAIN s[q], NEW u \in Dynamic,
               NEW r \in Presentations, NEW k \in DOMAIN s[r], NEW v \in Dynamic,
               t[q][n].ptdefs[u] # Null, t[q][n].ptdefs[u] = t[r][k].ptdefs[v]
        PROVE  q = r /\ n = k /\ u = v
    <3>1. CASE q = p /\ n = m /\ u = pt
      <4>1. CASE r = p /\ k = m /\ v = pt
        BY <3>1, <4>1
      <4>2. CASE ~(r = p /\ k = m /\ v = pt)
        <5>1. t[r][k].ptdefs[v] = s[r][k].ptdefs[v]
          BY <1>4, <4>2 DEF Dynamic
        <5>2. QED
          BY <1>2, <1>8, <2>1, <3>1, <5>1
      <4>3. QED
        BY <4>1, <4>2
    <3>2. CASE ~(q = p /\ n = m /\ u = pt)
      <4>1. t[q][n].ptdefs[u] = s[q][n].ptdefs[u]
        BY <1>4, <3>2 DEF Dynamic
      <4>2. CASE r = p /\ k = m /\ v = pt
        <5>1. t[r][k].ptdefs[v] = a
          BY <1>2, <4>2
        <5>2. s[q][n].ptdefs[u] # a
          BY <1>8, <2>1, <4>1
        <5>3. QED
          BY <2>1, <4>1, <5>1, <5>2
      <4>3. CASE ~(r = p /\ k = m /\ v = pt)
        <5>1. t[r][k].ptdefs[v] = s[r][k].ptdefs[v]
          BY <1>4, <4>3 DEF Dynamic
        <5>2. s[q][n].ptdefs[u] # Null /\ s[q][n].ptdefs[u] = s[r][k].ptdefs[v]
          BY <2>1, <4>1, <5>1
        <5>3. OneOwnerIn(s)
          BY DEF OwnersIn
        <5>4. QED
          BY <5>2, <5>3 DEF OneOwnerIn
      <4>4. QED
        BY <4>2, <4>3
    <3>3. QED
      BY <3>1, <3>2
  <2>2. QED
    BY <1>3, <2>1 DEF OneOwnerIn
<1>12. NoOrphanIn(t, e)
  <2>1. ASSUME ~SomeDropped, NEW r \in DOMAIN e \ Standard, e[r].live
        PROVE  \E q \in Presentations : \E n \in DOMAIN t[q] : \E u \in Dynamic : t[q][n].ptdefs[u] = r
    <3>1. CASE r = a
      BY <1>2, <1>3, <3>1
    <3>2. CASE r # a
      <4>1. r \in DOMAIN d \ Standard /\ r # old /\ d[r].live
        BY <1>5, <1>6, <2>1, <3>2 DEF Replaces
      <4>2. PICK q \in Presentations : \E n \in DOMAIN s[q] : \E u \in Dynamic : s[q][n].ptdefs[u] = r
        BY <2>1, <4>1 DEF OwnersIn, NoOrphanIn
      <4>3. PICK n \in DOMAIN s[q] : \E u \in Dynamic : s[q][n].ptdefs[u] = r
        BY <4>2
      <4>4. PICK u \in Dynamic : s[q][n].ptdefs[u] = r
        BY <4>3
      <4>5. ~(q = p /\ n = m /\ u = pt)
        BY <4>1, <4>4
      <4>6. t[q][n].ptdefs[u] = r
        BY <1>4, <4>4, <4>5 DEF Dynamic
      <4>7. QED
        BY <1>3, <4>6
    <3>3. QED
      BY <3>1, <3>2
  <2>2. QED
    BY <2>1 DEF NoOrphanIn
<1>13. StaticIn(e)
  <2>1. ASSUME NEW r \in Standard
        PROVE  r \in DOMAIN e /\ e[r].live /\ e[r].name = ""
    <3>1. r \in DOMAIN d /\ d[r].live /\ d[r].name = ""
      BY DEF OwnersIn, StaticIn
    <3>2. r # old
      <4>1. old # Null => old \notin Standard
        BY DEF OwnersIn, LiveIn
      <4>2. r # Null
        BY Numbers
      <4>3. QED
        BY <4>1, <4>2
    <3>3. QED
      BY <1>5, <1>6, <3>1, <3>2
  <2>2. QED
    BY <2>1 DEF StaticIn
<1>14. FreshIn(e)
  BY DEF Replaces
<1>15. QED
  BY <1>9, <1>10, <1>11, <1>12, <1>13, <1>14 DEF OwnersIn
LEMMA NewSessionOwners ==
  ASSUME NEW s \in AllSessions, NEW d, OwnersIn(s, d), NEW p \in Presentations, NEW x \in Sessions,
         \A pt \in Pts : x.ptdefs[pt] = IF pt \in Standard THEN pt ELSE Null,
         NEW t, Adds(s, t, p, x)
  PROVE  OwnersIn(t, d)
<1>1. PICK n \in Nat : n = Len(s[p]) /\ DOMAIN s[p] = 1 .. n
  <2>1. s[p] \in Seq(Sessions)
    BY DEF AllSessions
  <2>2. QED
    BY <2>1
<1>2. /\ \A q \in Presentations : q # p => t[q] = s[q]
      /\ DOMAIN t[p] = 1 .. n + 1
      /\ \A k \in DOMAIN s[p] : t[p][k] = s[p][k]
      /\ t[p][n + 1] = x
  BY <1>1 DEF Adds
<1>3. \A q \in Presentations : \A k \in DOMAIN s[q] : k \in DOMAIN t[q] /\ t[q][k] = s[q][k]
  BY <1>1, <1>2
<1>4. \A q \in Presentations : \A k \in DOMAIN t[q] : k \in DOMAIN s[q] \/ (q = p /\ k = n + 1)
  BY <1>1, <1>2
<1>5. \A pt \in Dynamic : t[p][n + 1].ptdefs[pt] = Null
  BY <1>2, Numbers
<1>6. SharedIn(t)
  <2>1. ASSUME NEW q \in Presentations, NEW k \in DOMAIN t[q], NEW pt \in Pts \ Dynamic
        PROVE  t[q][k].ptdefs[pt] = IF pt \in Standard THEN pt ELSE Null
    <3>1. CASE k \in DOMAIN s[q]
      BY <1>3, <3>1 DEF OwnersIn, SharedIn
    <3>2. CASE q = p /\ k = n + 1
      BY <1>2, <3>2
    <3>3. QED
      BY <1>4, <3>1, <3>2
  <2>2. QED
    BY <2>1 DEF SharedIn
<1>7. \A q \in Presentations : \A k \in DOMAIN t[q] : \A pt \in Dynamic :
        t[q][k].ptdefs[pt] # Null => k \in DOMAIN s[q] /\ t[q][k] = s[q][k]
  BY <1>3, <1>4, <1>5
<1>8. LiveIn(t, d)
  <2>1. ASSUME NEW q \in Presentations, NEW k \in DOMAIN t[q], NEW pt \in Dynamic, t[q][k].ptdefs[pt] # Null
        PROVE  t[q][k].ptdefs[pt] \in DOMAIN d \ Standard /\ d[t[q][k].ptdefs[pt]].live
    <3>1. k \in DOMAIN s[q] /\ t[q][k] = s[q][k]
      BY <1>7, <2>1
    <3>2. QED
      BY <2>1, <3>1 DEF OwnersIn, LiveIn
  <2>2. QED
    BY <2>1 DEF LiveIn
<1>9. OneOwnerIn(t)
  <2>1. ASSUME NEW q \in Presentations, NEW k \in DOMAIN t[q], NEW u \in Dynamic,
               NEW r \in Presentations, NEW l \in DOMAIN t[r], NEW v \in Dynamic,
               t[q][k].ptdefs[u] # Null, t[q][k].ptdefs[u] = t[r][l].ptdefs[v]
        PROVE  q = r /\ k = l /\ u = v
    <3>1. k \in DOMAIN s[q] /\ t[q][k] = s[q][k]
      BY <1>7, <2>1
    <3>2. l \in DOMAIN s[r] /\ t[r][l] = s[r][l]
      BY <1>7, <2>1
    <3>3. s[q][k].ptdefs[u] # Null /\ s[q][k].ptdefs[u] = s[r][l].ptdefs[v]
      BY <2>1, <3>1, <3>2
    <3>4. OneOwnerIn(s)
      BY DEF OwnersIn
    <3>5. QED
      BY <3>1, <3>2, <3>3, <3>4 DEF OneOwnerIn
  <2>2. QED
    BY <2>1 DEF OneOwnerIn
<1>10. NoOrphanIn(t, d)
  BY <1>3 DEF OwnersIn, NoOrphanIn
<1>11. QED
  BY <1>6, <1>8, <1>9, <1>10 DEF OwnersIn

\* Without its first session p has the places of the others.
LEMMA RemainingOwners ==
  ASSUME NEW s \in AllSessions, NEW d, SharedIn(s), LiveIn(s, d), OneOwnerIn(s), NEW p \in Presentations,
         NEW t, Drops(s, t, p)
  PROVE  /\ SharedIn(t) /\ LiveIn(t, d) /\ OneOwnerIn(t)
         /\ \A q \in Presentations : \A k \in DOMAIN t[q] :
              \E n \in DOMAIN s[q] : t[q][k] = s[q][n] /\ (q = p => n # 1)
<1>1. PICK n \in Nat \ {0} : n = Len(s[p]) /\ DOMAIN s[p] = 1 .. n
  BY DEF Drops
<1>2. /\ \A q \in Presentations : q # p => t[q] = s[q]
      /\ DOMAIN t[p] = 1 .. n - 1
      /\ \A k \in DOMAIN t[p] : k + 1 \in DOMAIN s[p] /\ t[p][k] = s[p][k + 1]
  BY <1>1 DEF Drops
<1>3. PICK g : g = [q \in Presentations |-> [k \in DOMAIN t[q] |-> IF q = p THEN k + 1 ELSE k]]
  OBVIOUS
<1>4. \A q \in Presentations : \A k \in DOMAIN t[q] :
        g[q][k] \in DOMAIN s[q] /\ t[q][k] = s[q][g[q][k]] /\ (q = p => g[q][k] = k + 1 /\ k \in Nat \ {0}) /\ (q # p => g[q][k] = k)
  <2>1. ASSUME NEW q \in Presentations, NEW k \in DOMAIN t[q]
        PROVE  g[q][k] \in DOMAIN s[q] /\ t[q][k] = s[q][g[q][k]]
               /\ (q = p => g[q][k] = k + 1 /\ k \in Nat \ {0}) /\ (q # p => g[q][k] = k)
    <3>1. g[q][k] = IF q = p THEN k + 1 ELSE k
      BY <1>3
    <3>2. CASE q = p
      BY <1>1, <1>2, <3>1, <3>2
    <3>3. CASE q # p
      BY <1>2, <3>1, <3>3
    <3>4. QED
      BY <3>2, <3>3
  <2>2. QED
    BY <2>1
<1>5. SharedIn(t)
  BY <1>4 DEF OwnersIn, SharedIn
<1>6. OneOwnerIn(t)
  <2>1. ASSUME NEW q \in Presentations, NEW k \in DOMAIN t[q], NEW u \in Dynamic,
               NEW r \in Presentations, NEW l \in DOMAIN t[r], NEW v \in Dynamic,
               t[q][k].ptdefs[u] # Null, t[q][k].ptdefs[u] = t[r][l].ptdefs[v]
        PROVE  q = r /\ k = l /\ u = v
    <3>1. g[q][k] \in DOMAIN s[q] /\ t[q][k] = s[q][g[q][k]]
      BY <1>4
    <3>2. g[r][l] \in DOMAIN s[r] /\ t[r][l] = s[r][g[r][l]]
      BY <1>4
    <3>3. s[q][g[q][k]].ptdefs[u] # Null /\ s[q][g[q][k]].ptdefs[u] = s[r][g[r][l]].ptdefs[v]
      BY <2>1, <3>1, <3>2
    <3>4. OneOwnerIn(s)
      BY DEF OwnersIn
    <3>5. q = r /\ g[q][k] = g[r][l] /\ u = v
      <4>1. PICK x, y : x = g[q][k] /\ y = g[r][l]
        OBVIOUS
      <4>2. /\ x \in DOMAIN s[q] /\ y \in DOMAIN s[r]
            /\ s[q][x].ptdefs[u] # Null /\ s[q][x].ptdefs[u] = s[r][y].ptdefs[v]
        BY <3>1, <3>2, <3>3, <4>1
      <4>3. q = r /\ x = y /\ u = v
        BY <3>4, <4>2 DEF OneOwnerIn
      <4>4. QED
        BY <4>1, <4>3
    <3>6. CASE q = p
      <4>1. g[q][k] = k + 1 /\ g[r][l] = l + 1 /\ k \in Nat /\ l \in Nat
        BY <1>4, <3>5, <3>6
      <4>2. k + 1 = l + 1
        BY <3>5, <4>1, Zenon
      <4>3. k = l
        BY <4>1, <4>2
      <4>4. QED
        BY <3>5, <4>3
    <3>7. CASE q # p
      <4>1. g[q][k] = k /\ g[r][l] = l
        BY <1>4, <3>5, <3>7
      <4>2. QED
        BY <3>5, <4>1
    <3>8. QED
      BY <3>6, <3>7
  <2>2. QED
    BY <2>1 DEF OneOwnerIn
<1>7. LiveIn(t, d)
  BY <1>4 DEF LiveIn
<1>8. ASSUME NEW q \in Presentations, NEW k \in DOMAIN t[q]
      PROVE  \E l \in DOMAIN s[q] : t[q][k] = s[q][l] /\ (q = p => l # 1)
  <2>1. PICK l : l = g[q][k]
    OBVIOUS
  <2>2. l \in DOMAIN s[q] /\ t[q][k] = s[q][l] /\ (q = p => l = k + 1 /\ k \in Nat \ {0})
    BY <1>4, <2>1
  <2>3. QED
    BY <2>2
<1>9. QED
  BY <1>5, <1>6, <1>7, <1>8

\* rtp_clean frees the dynamic definitions of the session it removes, and no others.
LEMMA CleanedOwners ==
  ASSUME NEW s \in AllSessions, NEW d, Definitions(d), OwnersIn(s, d), NEW p \in Presentations,
         NEW t, Drops(s, t, p), NEW refs, NEW dyn,
         refs = Range(s[p][1].ptdefs) \ {Null}, dyn = {s[p][1].ptdefs[pt] : pt \in Dynamic},
         NEW e, Cleans(d, e, refs, dyn)
  PROVE  OwnersIn(t, e)
<1>1. PICK n \in Nat \ {0} : n = Len(s[p]) /\ DOMAIN s[p] = 1 .. n
  BY DEF Drops
<1>2. /\ \A q \in Presentations : q # p => t[q] = s[q]
      /\ DOMAIN t[p] = 1 .. n - 1
      /\ \A k \in DOMAIN t[p] : k + 1 \in DOMAIN s[p] /\ t[p][k] = s[p][k + 1]
  BY <1>1 DEF Drops
<1>3. DOMAIN s[p][1].ptdefs = Pts
  <2>1. s[p] \in Seq(Sessions)
    BY DEF AllSessions
  <2>2. s[p][1] \in Sessions
    BY <1>1, <2>1
  <2>3. QED
    BY <2>2 DEF Sessions
<1>4. \A q \in Presentations : \A k \in DOMAIN t[q] :
        \E l \in DOMAIN s[q] : t[q][k] = s[q][l] /\ (q = p => l # 1)
  BY RemainingOwners DEF OwnersIn
<1>5. LiveIn(t, d)
  BY RemainingOwners DEF OwnersIn
<1>6. SharedIn(t)
  BY RemainingOwners DEF OwnersIn
<1>7. OneOwnerIn(t)
  BY RemainingOwners DEF OwnersIn
<1>8. \A q \in Presentations : \A k \in DOMAIN t[q] : \A u \in Dynamic :
        t[q][k].ptdefs[u] # Null => t[q][k].ptdefs[u] \notin dyn
  <2>1. ASSUME NEW q \in Presentations, NEW k \in DOMAIN t[q], NEW u \in Dynamic, t[q][k].ptdefs[u] # Null,
               NEW v \in Dynamic, t[q][k].ptdefs[u] = s[p][1].ptdefs[v]
        PROVE  FALSE
    <3>1. PICK l \in DOMAIN s[q] : t[q][k] = s[q][l] /\ (q = p => l # 1)
      BY <1>4
    <3>2. s[q][l].ptdefs[u] # Null /\ s[q][l].ptdefs[u] = s[p][1].ptdefs[v] /\ 1 \in DOMAIN s[p]
      BY <1>1, <2>1, <3>1
    <3>3. OneOwnerIn(s)
      BY DEF OwnersIn
    <3>4. q = p /\ l = 1
      BY <3>2, <3>3 DEF OneOwnerIn
    <3>5. QED
      BY <3>1, <3>4
  <2>2. QED
    BY <2>1
<1>9. \A r \in DOMAIN d : e[r].live = (d[r].live /\ ~(r \in refs /\ r \in dyn)) /\ e[r].name = d[r].name
  BY DEF Cleans
<1>10. DOMAIN e = DOMAIN d
  BY DEF Cleans
<1>11. LiveIn(t, e)
  <2>1. ASSUME NEW q \in Presentations, NEW k \in DOMAIN t[q], NEW u \in Dynamic, t[q][k].ptdefs[u] # Null
        PROVE  t[q][k].ptdefs[u] \in DOMAIN e \ Standard /\ e[t[q][k].ptdefs[u]].live
    <3>1. t[q][k].ptdefs[u] \in DOMAIN d \ Standard /\ d[t[q][k].ptdefs[u]].live
      BY <1>5, <2>1 DEF LiveIn
    <3>2. QED
      BY <1>8, <1>9, <1>10, <2>1, <3>1
  <2>2. QED
    BY <2>1 DEF LiveIn
<1>12. NoOrphanIn(t, e)
  <2>1. ASSUME ~SomeDropped, NEW r \in DOMAIN e \ Standard, e[r].live
        PROVE  \E q \in Presentations : \E k \in DOMAIN t[q] : \E u \in Dynamic : t[q][k].ptdefs[u] = r
    <3>1. r \in DOMAIN d \ Standard /\ d[r].live /\ ~(r \in refs /\ r \in dyn)
      BY <1>9, <1>10, <2>1
    <3>2. PICK q \in Presentations : \E k \in DOMAIN s[q] : \E u \in Dynamic : s[q][k].ptdefs[u] = r
      BY <2>1, <3>1 DEF OwnersIn, NoOrphanIn
    <3>3. PICK k \in DOMAIN s[q] : \E u \in Dynamic : s[q][k].ptdefs[u] = r
      BY <3>2
    <3>4. PICK u \in Dynamic : s[q][k].ptdefs[u] = r
      BY <3>3
    <3>5. r # Null
      BY <3>1, PayloadAssumption DEF Definitions, PayloadAssumption
    <3>6. ~(q = p /\ k = 1)
      <4>1. ASSUME q = p /\ k = 1 PROVE FALSE
        <5>1. r \in dyn
          BY <3>4, <4>1
        <5>2. r \in refs
          BY <1>3, <3>4, <3>5, <4>1 DEF Range, Dynamic
        <5>3. QED
          BY <3>1, <5>1, <5>2
      <4>2. QED
        BY <4>1
    <3>7. CASE q # p
      BY <1>2, <3>4, <3>7
    <3>8. CASE q = p
      <4>1. k - 1 \in DOMAIN t[p] /\ t[p][k - 1] = s[p][k]
        BY <1>1, <1>2, <3>6, <3>8
      <4>2. QED
        BY <3>4, <3>8, <4>1
    <3>9. QED
      BY <3>7, <3>8
  <2>2. QED
    BY <2>1 DEF NoOrphanIn
<1>13. FreshIn(e)
  BY <1>10 DEF OwnersIn, FreshIn
<1>14. StaticIn(e)
  <2>1. ASSUME NEW r \in Standard PROVE r \notin dyn
    <3>1. ASSUME NEW u \in Dynamic, r = s[p][1].ptdefs[u] PROVE FALSE
      <4>1. r # Null
        BY Numbers
      <4>2. 1 \in DOMAIN s[p]
        BY <1>1
      <4>3. QED
        BY <3>1, <4>1, <4>2 DEF OwnersIn, LiveIn
    <3>2. QED
      BY <3>1
  <2>2. QED
    BY <1>9, <1>10, <2>1 DEF OwnersIn, StaticIn
<1>15. QED
  BY <1>6, <1>7, <1>11, <1>12, <1>13, <1>14 DEF OwnersIn
-----------------------------------------------------------------------------
(***************************************************************************)
(* What a step does to the cursor, the sessions and the definitions.       *)
(***************************************************************************)

Positions == [Presentations -> [m : Nat \ {0}, i : Nat]]

\* The cursor, and the phase, of p alone may move.
OnlyOf(p) ==
  /\ pos' \in Positions /\ phase' \in [Presentations -> Phases]
  /\ \A q \in Presentations : q # p => pos'[q] = pos[q] /\ phase'[q] = phase[q]

LEMMA MovesOn ==
  ASSUME Types, NEW p \in Presentations
  PROVE  /\ Done(p) => OnlyOf(p) /\ phase' = phase /\ pos'[p].m = pos[p].m /\ pos'[p].i = pos[p].i + 1
         /\ MediumDone(p) => OnlyOf(p) /\ phase' = phase /\ pos'[p].m = pos[p].m + 1 /\ pos'[p].i = 0
         /\ \A ph \in Phases : Moves(p, ph) /\ pos' = pos => OnlyOf(p) /\ phase'[p] = ph
         /\ \A ph \in Phases : Moves(p, ph) /\ pos' = [pos EXCEPT ![p] = Begin] =>
              OnlyOf(p) /\ phase'[p] = ph /\ pos'[p].m = 1 /\ pos'[p].i = 0
<1>1. pos \in Positions /\ phase \in [Presentations -> Phases]
  BY DEF Types, Positions
<1>2. pos[p] \in [m : Nat \ {0}, i : Nat]
  BY <1>1 DEF Positions
<1>3. ASSUME Done(p)
      PROVE  OnlyOf(p) /\ phase' = phase /\ pos'[p].m = pos[p].m /\ pos'[p].i = pos[p].i + 1
  BY <1>1, <1>2, <1>3 DEF Done, OnlyOf, Positions
<1>4. ASSUME MediumDone(p)
      PROVE  OnlyOf(p) /\ phase' = phase /\ pos'[p].m = pos[p].m + 1 /\ pos'[p].i = 0
  BY <1>1, <1>2, <1>4 DEF MediumDone, OnlyOf, Positions
<1>5. ASSUME NEW ph \in Phases, Moves(p, ph), pos' = pos
      PROVE  OnlyOf(p) /\ phase'[p] = ph
  BY <1>1, <1>2, <1>5 DEF Moves, OnlyOf, Positions
<1>6. ASSUME NEW ph \in Phases, Moves(p, ph), pos' = [pos EXCEPT ![p] = Begin]
      PROVE  OnlyOf(p) /\ phase'[p] = ph /\ pos'[p].m = 1 /\ pos'[p].i = 0
  BY <1>1, <1>2, <1>6 DEF Moves, OnlyOf, Positions, Begin
<1>7. QED
  BY <1>3, <1>4, <1>5, <1>6

LEMMA PhasesAre ==
  \A ph \in {"new", "cleared", "made", "describe", "refused", "dropped", "start", "failed", "play", "close", "closed"} :
    ph \in Phases
BY DEF Phases

\* The description of p, as the parser of SDP left it.
LEMMA Described ==
  ASSUME Types, NEW p \in Presentations
  PROVE  /\ desc[p] \in Descriptions /\ Len(desc[p]) \in Nat /\ DOMAIN desc[p] = 1 .. Len(desc[p])
         /\ \A m \in DOMAIN desc[p] :
              /\ desc[p][m].fmts \in Seq(Pts)
              /\ Len(desc[p][m].attrs) \in Nat /\ DOMAIN desc[p][m].attrs = 1 .. Len(desc[p][m].attrs)
              /\ \A i \in DOMAIN desc[p][m].attrs :
                   LET a == desc[p][m].attrs[i]
                   IN  a.pt \in Pts /\ a.value \in Values
                       /\ (a.name = "rtpmap" => a.value \in Served \cup {"unknown", "invalid"})
<1>1. desc[p] \in Descriptions
  BY DEF Types
<1>2. PICK a : a = desc[p]
  OBVIOUS
<1>3. ASSUME NEW m \in DOMAIN a, NEW i \in DOMAIN a[m].attrs PROVE a[m].attrs[i].value \in Values
  BY <1>1, <1>2 DEF Values
<1>4. QED
  BY <1>1, <1>2, <1>3, DescriptionsAssumption DEF DescriptionsAssumption

\* The cursor's item, while a medium is set up: the session it is of.
LEMMA UnderCursor ==
  ASSUME Types, Cursor, NEW p \in Presentations, Describing(p)
  PROVE  /\ phase[p] = "describe" /\ fault = "none"
         /\ pos[p].m \in Nat \ {0} /\ pos[p].i \in Nat /\ pos[p].m \in DOMAIN desc[p]
         /\ DOMAIN sess[p] = 1 .. Len(sess[p]) /\ Len(sess[p]) \in Nat
         /\ pos[p].i = 0 => Len(sess[p]) = pos[p].m - 1
         /\ pos[p].i # 0 => Len(sess[p]) = pos[p].m /\ pos[p].m \in DOMAIN sess[p]
         /\ Current(p).fmts \in Seq(Pts) /\ Len(Current(p).fmts) \in Nat
         /\ DOMAIN Current(p).fmts = 1 .. Len(Current(p).fmts)
         /\ Len(Current(p).attrs) \in Nat /\ DOMAIN Current(p).attrs = 1 .. Len(Current(p).attrs)
         /\ Nth(p) \in Int /\ pos[p].i = Len(Current(p).fmts) + Nth(p)
<1>1. phase[p] = "describe" /\ fault = "none" /\ pos[p].m \in DOMAIN desc[p]
  BY DEF Describing, At
<1>2. pos[p].m \in Nat \ {0} /\ pos[p].i \in Nat
  BY DEF Types
<1>3. sess[p] \in Seq(Sessions)
  BY DEF Types, AllSessions
<1>4. DOMAIN sess[p] = 1 .. Len(sess[p]) /\ Len(sess[p]) \in Nat
  BY <1>3
<1>5. Len(sess[p]) = IF pos[p].i = 0 THEN pos[p].m - 1 ELSE pos[p].m
  BY <1>1 DEF Cursor, CursorOf
<1>6. Current(p).fmts \in Seq(Pts) /\ Len(Current(p).attrs) \in Nat /\ DOMAIN Current(p).attrs = 1 .. Len(Current(p).attrs)
  BY <1>1, Described DEF Current
<1>7. Len(Current(p).fmts) \in Nat /\ DOMAIN Current(p).fmts = 1 .. Len(Current(p).fmts)
  BY <1>6
<1>8. Nth(p) \in Int /\ pos[p].i = Len(Current(p).fmts) + Nth(p)
  BY <1>2, <1>7 DEF Nth
<1>9. QED
  BY <1>1, <1>2, <1>4, <1>5, <1>6, <1>7, <1>8

LEMMA AttributeIs ==
  ASSUME Types, Cursor, NEW p \in Presentations, NEW name, AtAttribute(p, name)
  PROVE  /\ Describing(p) /\ pos[p].i # 0 /\ Nth(p) \in 1 .. Len(Current(p).attrs)
         /\ Attribute(p).name = name /\ Attribute(p).pt \in Pts /\ Attribute(p).value \in Values
         /\ name = "rtpmap" => Attribute(p).value \in Served \cup {"unknown", "invalid"}
<1>1. Describing(p) /\ Nth(p) \in DOMAIN Current(p).attrs /\ Attribute(p).name = name
  BY DEF AtAttribute
<1>2. Nth(p) \in 1 .. Len(Current(p).attrs) /\ pos[p].i # 0
  BY <1>1, UnderCursor
<1>3. pos[p].m \in DOMAIN desc[p]
  BY <1>1 DEF Describing
<1>4. QED
  BY <1>1, <1>2, <1>3, Described DEF Attribute, Current

LEMMA FormatIs ==
  ASSUME Types, Cursor, NEW p \in Presentations, AtFormat(p)
  PROVE  Describing(p) /\ pos[p].i # 0 /\ pos[p].i \in 1 .. Len(Current(p).fmts) /\ Format(p) \in Pts
<1>1. Describing(p) /\ pos[p].i \in DOMAIN Current(p).fmts
  BY DEF AtFormat
<1>2. pos[p].i \in 1 .. Len(Current(p).fmts) /\ pos[p].i # 0
  BY <1>1, UnderCursor
<1>3. Current(p).fmts \in Seq(Pts)
  BY <1>1, UnderCursor
<1>4. QED
  BY <1>1, <1>2, <1>3 DEF Format
\* The places where definitions are.
LEMMA References ==
  ASSUME Types, OwnersIn(sess, def), NEW p \in Presentations, NEW m \in DOMAIN sess[p], NEW pt \in Pts
  PROVE  /\ sess[p][m] \in Sessions
         /\ sess[p][m].ptdefs[pt] # Null => sess[p][m].ptdefs[pt] \in DOMAIN def /\ def[sess[p][m].ptdefs[pt]].live
<1>1. sess[p] \in Seq(Sessions)
  BY DEF Types, AllSessions
<1>2. sess[p][m] \in Sessions
  BY <1>1
<1>3. CASE pt \in Dynamic
  BY <1>2, <1>3 DEF OwnersIn, LiveIn
<1>4. CASE pt \notin Dynamic
  <2>1. sess[p][m].ptdefs[pt] = IF pt \in Standard THEN pt ELSE Null
    BY <1>4 DEF OwnersIn, SharedIn
  <2>2. QED
    BY <1>2, <2>1 DEF OwnersIn, StaticIn
<1>5. QED
  BY <1>3, <1>4

\* rtp_announce_pt refuses a number that is too big.
Announced(p, pt) ==
  /\ Done(p) /\ pt <= 127 /\ pos[p].m \in DOMAIN sess[p]
  /\ pt \in Dynamic => /\ AnnouncesTo(sess, sess', p, pos[p].m, pt, NewAddr)
                       /\ Replaces(def, def', sess[p][pos[p].m].ptdefs[pt], NewAddr)
  /\ pt \notin Dynamic => /\ AnnouncesTo(sess, sess', p, pos[p].m, pt, sess[p][pos[p].m].ptdefs[pt])
                          /\ def' = def

LEMMA Announces ==
  ASSUME Types, Cursor, OwnersIn(sess, def), NEW p \in Presentations, Describing(p), pos[p].i # 0,
         NEW pt \in Pts, rtp_announce_pt(p, pt)
  PROVE  \/ Refused(p) /\ def' = def /\ sess' = sess
         \/ Announced(p, pt)
<1>1. CASE pt > 127
  BY <1>1 DEF rtp_announce_pt
<1>2. CASE ~(pt > 127)
  <2>1. PICK m : m = pos[p].m
    OBVIOUS
  <2>2. m \in DOMAIN sess[p] /\ sess \in AllSessions
    BY <2>1, UnderCursor DEF Types
  <2>3. pt <= 127 /\ pt \in 0 .. 255
    BY <1>2, Numbers
  <2>4. PICK a : a = IF pt >= 96 THEN NewAddr ELSE sess[p][m].ptdefs[pt]
    OBVIOUS
  <2>5. /\ sess' = [sess EXCEPT ![p][m].announced = Append(@, pt), ![p][m].rtppt = Append(@, a),
                                ![p][m].ptdefs[pt] = a]
        /\ def' = IF pt >= 96 THEN rtp_dynpt_set(sess[p][m].ptdefs[pt]) ELSE def
        /\ Done(p)
    BY <1>2, <2>1, <2>4 DEF rtp_announce_pt
  <2>6. CASE pt \in Dynamic
    <3>1. a = NewAddr /\ def' = rtp_dynpt_set(sess[p][m].ptdefs[pt])
      BY <2>4, <2>5, <2>6, Numbers
    <3>2. def' = Replacement(def, sess[p][m].ptdefs[pt], a)
      BY <3>1 DEF rtp_dynpt_set, Replacement
    <3>3. Definitions(def) /\ FreshIn(def) /\ Standard \subseteq DOMAIN def
      BY DEF Types, OwnersIn, StaticIn
    <3>4. a = 256 + Cardinality(DOMAIN def)
      BY <3>1 DEF NewAddr
    <3>5. Replaces(def, def', sess[p][m].ptdefs[pt], a)
      BY <3>2, <3>3, <3>4, ReplacingDefinition
    <3>6. a \in Nat \cup {Null}
      BY <3>5 DEF Replaces
    <3>7. AnnouncesTo(sess, sess', p, m, pt, a)
      BY <2>2, <2>5, <3>6, AnnouncingSession
    <3>8. QED
      BY <2>1, <2>2, <2>3, <2>5, <2>6, <3>1, <3>5, <3>7 DEF Announced
  <2>7. CASE pt \notin Dynamic
    <3>1. ~(pt >= 96)
      BY <2>7 DEF Dynamic
    <3>2. a = sess[p][m].ptdefs[pt] /\ def' = def
      BY <2>4, <2>5, <3>1
    <3>3. sess[p][m] \in Sessions
      BY <2>2, References
    <3>4. a \in Nat \cup {Null}
      BY <3>2, <3>3 DEF Sessions
    <3>5. AnnouncesTo(sess, sess', p, m, pt, a)
      BY <2>2, <2>5, <3>4, AnnouncingSession
    <3>6. QED
      BY <2>1, <2>2, <2>3, <2>5, <2>7, <3>2, <3>5 DEF Announced
  <2>8. QED
    BY <2>6, <2>7
<1>3. QED
  BY <1>1, <1>2
\* A format, or a=med, announces a type, or is refused.
LEMMA AnnouncesOne ==
  ASSUME Types, Cursor, OwnersIn(sess, def), NEW p \in Presentations, Announce(p) \/ Med(p)
  PROVE  /\ parsers' = parsers /\ inits' = inits /\ desc' = desc /\ fault' = fault
         /\ Describing(p) /\ pos[p].i # 0
         /\ \/ Refused(p) /\ def' = def /\ sess' = sess
            \/ \E pt \in Pts : /\ Announced(p, pt)
                              /\ \/ AtFormat(p) /\ pt = Format(p)
                                 \/ AtAttribute(p, "med") /\ pt = Attribute(p).pt
<1>1. parsers' = parsers /\ inits' = inits /\ desc' = desc /\ fault' = fault
  BY DEF Announce, Med
<1>2. CASE Announce(p)
  <2>1. AtFormat(p) /\ rtp_announce_pt(p, Format(p))
    BY <1>2 DEF Announce
  <2>2. Describing(p) /\ pos[p].i # 0 /\ Format(p) \in Pts
    BY <2>1, FormatIs
  <2>3. QED
    BY <1>1, <2>1, <2>2, Announces
<1>3. CASE Med(p)
  <2>1. AtAttribute(p, "med")
        /\ (rtp_announce_pt(p, Attribute(p).pt) \/ (Refused(p) /\ def' = def /\ sess' = sess))
    BY <1>3 DEF Med
  <2>2. Describing(p) /\ pos[p].i # 0 /\ Attribute(p).pt \in Pts
    BY <2>1, AttributeIs
  <2>3. QED
    BY <1>1, <2>1, <2>2, Announces
<1>4. QED
  BY <1>2, <1>3

\* An rtpmap that is not applied; or a name for a type that has a definition.
LEMMA Registers ==
  ASSUME Types, Cursor, OwnersIn(sess, def), NEW p \in Presentations, Rtpmap(p)
  PROVE  \/ def' = def /\ sess' = sess /\ (Refused(p) \/ MediumDone(p) \/ (Done(p) /\ ~EndsLoop(Attribute(p))))
         \/ \E pt \in Dynamic : \E r \in DOMAIN def :
              /\ Done(p) /\ ~EndsLoop(Attribute(p)) /\ pos[p].m \in DOMAIN sess[p]
              /\ r = sess[p][pos[p].m].ptdefs[pt] /\ r # Null
              /\ Updates(def, def', r) /\ def'[r].name = Attribute(p).value
              /\ def'[r].data = def[r].data /\ def'[r].allocated = def[r].allocated /\ def'[r].priv = def[r].priv
              /\ RegistersTo(sess, sess', p, pos[p].m, pt, Attribute(p).value)
<1>1. AtAttribute(p, "rtpmap")
  BY DEF Rtpmap
<1>2. PICK a : a = Attribute(p)
  OBVIOUS
<1>3. a.pt \in Pts /\ a.value \in Served \cup {"unknown", "invalid"} /\ pos[p].m \in DOMAIN sess[p]
  BY <1>1, <1>2, AttributeIs, UnderCursor
<1>4. CASE a.pt \notin 96 .. 127
  BY <1>2, <1>4 DEF Rtpmap, EndsLoop
<1>5. CASE a.pt \in 96 .. 127 /\ a.value = "invalid"
  BY <1>2, <1>5 DEF Rtpmap
<1>6. CASE a.pt \in 96 .. 127 /\ a.value # "invalid"
  <2>1. rtp_dynpt_reg(p, pos[p].m, a.pt, a.value)
    BY <1>2, <1>6 DEF Rtpmap
  <2>2. PICK pt, r, m : pt = a.pt /\ r = sess[p][m].ptdefs[pt] /\ m = pos[p].m
    OBVIOUS
  <2>3. CASE r = Null
    BY <2>1, <2>2, <2>3 DEF rtp_dynpt_reg
  <2>4. CASE r # Null
    <3>1. pt \in Dynamic /\ m \in DOMAIN sess[p]
      BY <1>3, <1>6, <2>2 DEF Dynamic
    <3>2. r \in DOMAIN def
      BY <2>2, <2>4, <3>1, References DEF Dynamic
    <3>3. /\ def' = rtp_dynpt_encname(r, a.value)
          /\ sess' = [sess EXCEPT ![p][m] = rtp_parser_reg(@, pt, a.value)]
          /\ Done(p)
      BY <2>1, <2>2, <2>4 DEF rtp_dynpt_reg
    <3>4. PICK x : x = [def[r] EXCEPT !.name = a.value]
      OBVIOUS
    <3>5. IsDefinition(def[r])
      BY <3>2 DEF Types, Definitions
    <3>6. IsDefinition(x) /\ x.freed = def[r].freed /\ x.live = def[r].live /\ x.name = a.value
          /\ x.data = def[r].data /\ x.allocated = def[r].allocated /\ x.priv = def[r].priv
      BY <1>3, <1>6, <3>4, <3>5 DEF IsDefinition
    <3>7. def' = [def EXCEPT ![r] = x]
      BY <3>3, <3>4 DEF rtp_dynpt_encname
    <3>8. Updates(def, def', r) /\ def'[r] = x
      BY <3>2, <3>6, <3>7, OneDefinition DEF Types
    <3>9. sess \in AllSessions /\ pt \in Pts
      BY <1>3, <2>2 DEF Types
    <3>10. RegistersTo(sess, sess', p, m, pt, a.value)
      BY <3>1, <3>3, <3>9, RegisteringSession
    <3>11. ~EndsLoop(a)
      BY <1>6 DEF EndsLoop
    <3>12. QED
      BY <1>2, <2>2, <2>4, <3>1, <3>2, <3>3, <3>6, <3>8, <3>10, <3>11
  <2>5. QED
    BY <2>3, <2>4
<1>7. QED
  BY <1>4, <1>5, <1>6

\* An attribute of a type that has a definition with its attributes is put behind them.
GetsAttribute(r, v) ==
  /\ r \in DOMAIN def /\ r # Null /\ ~def[r].freed
  /\ Updates(def, def', r) /\ def'[r].name = def[r].name /\ def'[r].priv = def[r].priv
  /\ def[r].data \in Seq(Values) /\ def'[r].data = Append(def[r].data, v)
  /\ def'[r].allocated = IF def[r].allocated = Len(def[r].data)
                         THEN (IF def[r].allocated + 1 < 3 THEN def[r].allocated + 1 ELSE 3)
                         ELSE def[r].allocated

LEMMA Describes ==
  ASSUME Types, Cursor, OwnersIn(sess, def), NEW p \in Presentations, Fmtp(p)
  PROVE  /\ Done(p) /\ sess' = sess /\ pos[p].m \in DOMAIN sess[p] /\ Attribute(p).pt \in Pts
         /\ LET pt == Attribute(p).pt
                r  == sess[p][pos[p].m].ptdefs[pt]
            IN  \/ pt > 127 /\ def' = def /\ fault' = fault
                \/ pt <= 127 /\ r = Null /\ def' = def /\ fault' = "null"
                \/ pt <= 127 /\ r \in DOMAIN def /\ r # Null /\ def[r].freed /\ def' = def /\ fault' = "freed"
                \/ pt <= 127 /\ GetsAttribute(r, Attribute(p).value) /\ fault' = fault
<1>1. AtAttribute(p, "fmtp") /\ Done(p) /\ sess' = sess
  BY DEF Fmtp
<1>2. PICK a : a = Attribute(p)
  OBVIOUS
<1>3. a.pt \in Pts /\ a.value \in Values /\ pos[p].m \in DOMAIN sess[p]
  BY <1>1, <1>2, AttributeIs, UnderCursor
<1>4. PICK r : r = sess[p][pos[p].m].ptdefs[a.pt]
  OBVIOUS
<1>5. IF a.pt > 127 THEN UNCHANGED <<def, fault>>
      ELSE IF r = Null THEN fault' = "null" /\ UNCHANGED def
      ELSE IF def[r].freed THEN fault' = "freed" /\ UNCHANGED def
      ELSE def' = [def EXCEPT ![r] = rtp_pt_attr_add(@, a.value)] /\ UNCHANGED fault
  BY <1>2, <1>4 DEF Fmtp
<1>6. a.pt \in 0 .. 255
  BY <1>3, Numbers
<1>7. r # Null => r \in DOMAIN def
  BY <1>3, <1>4, References
<1>8. CASE a.pt > 127
  <2>1. def' = def /\ fault' = fault
    BY <1>5, <1>8
  <2>2. Attribute(p).pt > 127
    BY <1>2, <1>8, Zenon
  <2>3. Attribute(p).pt \in Pts
    BY <1>2, <1>3, Zenon
  <2>4. QED
    BY <1>1, <1>3, <2>1, <2>2, <2>3, Zenon
<1>9. CASE a.pt <= 127 /\ r = Null
  BY <1>1, <1>2, <1>3, <1>4, <1>5, <1>6, <1>9
<1>10. CASE a.pt <= 127 /\ r # Null /\ def[r].freed
  BY <1>1, <1>2, <1>3, <1>4, <1>5, <1>6, <1>7, <1>10
<1>11. CASE a.pt <= 127 /\ r # Null /\ ~def[r].freed
  <2>1. PICK d : d = def[r]
    OBVIOUS
  <2>2. IsDefinition(d) /\ r \in DOMAIN def
    BY <1>7, <1>11, <2>1 DEF Types, Definitions
  <2>3. d.data \in Seq(Values) /\ d.allocated \in 0 .. 3
    BY <2>2 DEF IsDefinition
  <2>4. PICK v : v = Append(d.data, a.value)
    OBVIOUS
  <2>5. v \in Seq(Values)
    BY <1>3, <2>3, <2>4
  <2>6. PICK n : n = IF d.allocated = Len(d.data) THEN (IF d.allocated + 1 < 3 THEN d.allocated + 1 ELSE 3) ELSE d.allocated
    OBVIOUS
  <2>7. n \in 0 .. 3
    BY <2>3, <2>6
  <2>8. PICK x : x = [d EXCEPT !.data = v, !.allocated = n]
    OBVIOUS
  <2>9. IsDefinition(x) /\ x.freed = d.freed /\ x.live = d.live /\ x.name = d.name /\ x.priv = d.priv
        /\ x.data = v /\ x.allocated = n
    BY <2>2, <2>5, <2>7, <2>8 DEF IsDefinition
  <2>10. rtp_pt_attr_add(d, a.value) = x
    <3>1. [d EXCEPT !.data = v].allocated = d.allocated
      BY <2>2 DEF IsDefinition
    <3>2. QED
      BY <2>4, <2>6, <2>8, <3>1 DEF rtp_pt_attr_add
  <2>11. def' = [def EXCEPT ![r] = x] /\ fault' = fault
    BY <1>5, <1>6, <1>11, <2>1, <2>10
  <2>12. Updates(def, def', r) /\ def'[r] = x
    BY <2>1, <2>2, <2>9, <2>11, OneDefinition DEF Types
  <2>13. GetsAttribute(r, a.value)
    BY <1>11, <2>1, <2>2, <2>3, <2>4, <2>6, <2>9, <2>12 DEF GetsAttribute
  <2>14. QED
    BY <1>1, <1>2, <1>3, <1>4, <1>11, <2>11, <2>13
<1>12. a.pt > 127 \/ a.pt <= 127
  BY <1>6
<1>13. QED
  BY <1>8, <1>9, <1>10, <1>11, <1>12, Zenon
\* A parser that has no init function, or refuses, or puts its private data into the
\* definition of the type.
LEMMA Initialises ==
  ASSUME Types, OwnersIn(sess, def), NEW p \in Presentations, InitNext(p)
  PROVE  /\ sess' = sess /\ phase[p] = "start" /\ pos[p].m \in DOMAIN sess[p]
         /\ pos[p].i \in Nat /\ pos[p].i + 1 \in DOMAIN sess[p][pos[p].m].announced
         /\ LET pt == sess[p][pos[p].m].announced[pos[p].i + 1]
                r  == sess[p][pos[p].m].ptdefs[pt]
                f  == sess[p][pos[p].m].inits[pt]
            IN  /\ pt \in Pts
                /\ \/ f = Null /\ Done(p) /\ def' = def
                   \/ Moves(p, "failed") /\ pos' = pos /\ def' = def
                   \/ f # Null /\ r = Null /\ Done(p) /\ def' = def
                   \/ /\ f # Null /\ r # Null /\ Done(p) /\ r \in DOMAIN def
                      /\ Updates(def, def', r) /\ def'[r].priv.format = f /\ def'[r].name = def[r].name
                      /\ def'[r].data = def[r].data /\ def'[r].allocated = def[r].allocated
<1>1. phase[p] = "start" /\ pos[p].m \in DOMAIN sess[p] /\ pos[p].i < Len(Session(p).announced) /\ sess' = sess
  BY DEF InitNext, Starting, At
<1>2. PICK s : s = sess[p][pos[p].m]
  OBVIOUS
<1>3. s \in Sessions
  <2>1. sess[p] \in Seq(Sessions)
    BY DEF Types, AllSessions
  <2>2. QED
    BY <1>1, <1>2, <2>1
<1>4. s.announced \in Seq(Pts)
  BY <1>3 DEF Sessions
<1>5. pos[p].i \in Nat
  BY DEF Types
<1>6. pos[p].i < Len(s.announced)
  BY <1>1, <1>2 DEF Session
<1>7. pos[p].i + 1 \in DOMAIN s.announced /\ s.announced[pos[p].i + 1] \in Pts
  BY <1>4, <1>5, <1>6
<1>8. PICK pt : pt = s.announced[pos[p].i + 1]
  OBVIOUS
<1>9. PICK f : f = s.inits[pt]
  OBVIOUS
<1>10. PICK r : r = s.ptdefs[pt]
  OBVIOUS
<1>11. PICK a : a = InitParser(f, def[r].data)
  OBVIOUS
<1>12. IF f = Null THEN Done(p) /\ UNCHANGED def
       ELSE IF a.err THEN Moves(p, "failed") /\ UNCHANGED <<pos, def>>
       ELSE def' = [def EXCEPT ![r].priv = [format |-> f, of |-> <<p, pos[p].m>>, conf |-> a.conf]] /\ Done(p)
  BY <1>2, <1>8, <1>9, <1>10, <1>11 DEF InitNext, Session
<1>13. CASE f = Null
  BY <1>1, <1>2, <1>5, <1>7, <1>8, <1>9, <1>12, <1>13
<1>14. CASE f # Null /\ a.err
  BY <1>1, <1>2, <1>5, <1>7, <1>8, <1>12, <1>14
<1>15. CASE f # Null /\ ~a.err
  <2>1. PICK v : v = [format |-> f, of |-> <<p, pos[p].m>>, conf |-> a.conf]
    OBVIOUS
  <2>2. v.format = f
    BY <2>1
  <2>3. def' = [def EXCEPT ![r].priv = v] /\ Done(p)
    BY <1>12, <1>15, <2>1
  <2>4. CASE r = Null
    <3>1. r \notin DOMAIN def
      BY <2>4, PayloadAssumption DEF Types, Definitions, PayloadAssumption
    <3>2. def = [x \in DOMAIN def |-> def[x]]
      BY DEF Types, Definitions
    <3>3. def' = def
      BY <2>3, <3>1, <3>2
    <3>4. QED
      BY <1>1, <1>2, <1>5, <1>7, <1>8, <1>9, <1>10, <1>15, <2>3, <2>4, <3>3
  <2>5. CASE r # Null
    <3>1. r \in DOMAIN def
      BY <1>1, <1>2, <1>7, <1>8, <1>10, <2>5, References
    <3>2. PICK d : d = def[r]
      OBVIOUS
    <3>3. IsDefinition(d)
      BY <3>1, <3>2 DEF Types, Definitions
    <3>4. PICK x : x = [d EXCEPT !.priv = v]
      OBVIOUS
    <3>5. IsDefinition(x) /\ x.freed = d.freed /\ x.live = d.live /\ x.name = d.name /\ x.priv = v
          /\ x.data = d.data /\ x.allocated = d.allocated
      BY <3>3, <3>4 DEF IsDefinition
    <3>6. def' = [def EXCEPT ![r] = x]
      BY <2>3, <3>2, <3>4
    <3>7. Updates(def, def', r) /\ def'[r] = x
      BY <3>1, <3>2, <3>5, <3>6, OneDefinition DEF Types
    <3>8. QED
      BY <1>1, <1>2, <1>5, <1>7, <1>8, <1>9, <1>10, <1>15, <2>2, <2>3, <2>5, <3>1, <3>2, <3>5, <3>7
  <2>6. QED
    BY <2>4, <2>5
<1>16. QED
  BY <1>13, <1>14, <1>15

\* rtp_session_init, with the two tables.
LEMMA SetsUp ==
  ASSUME Types, Cursor, NEW p \in Presentations, NewMedium(p)
  PROVE  /\ Done(p) /\ def' = def /\ pos[p].i = 0 /\ Len(sess[p]) = pos[p].m - 1
         /\ \E x \in Sessions :
              /\ Adds(sess, sess', p, x)
              /\ \A pt \in Pts : x.ptdefs[pt] = IF pt \in Standard THEN pt ELSE Null
              /\ x.announced = <<>> /\ x.parsers = parsers /\ x.inits = inits
<1>1. PICK x : x = [ptdefs |-> [pt \in Pts |-> IF pt \in Standard THEN pt ELSE Null],
                    announced |-> <<>>, rtppt |-> <<>>, parsers |-> parsers, inits |-> inits]
  OBVIOUS
<1>2. Describing(p) /\ pos[p].i = 0 /\ sess' = [sess EXCEPT ![p] = Append(@, x)] /\ Done(p) /\ def' = def
  BY <1>1 DEF NewMedium
<1>3. \A pt \in Pts : x.ptdefs[pt] = IF pt \in Standard THEN pt ELSE Null
  BY <1>1
<1>4. x \in Sessions
  <2>1. <<>> \in Seq(Pts) /\ <<>> \in Seq(Nat \cup {Null})
    OBVIOUS
  <2>2. [pt \in Pts |-> IF pt \in Standard THEN pt ELSE Null] \in [Pts -> Nat \cup {Null}]
    BY Numbers
  <2>3. QED
    BY <1>1, <2>1, <2>2 DEF Types, Sessions
<1>5. Adds(sess, sess', p, x)
  BY <1>2, <1>4, NewSession DEF Types
<1>6. Len(sess[p]) = pos[p].m - 1
  BY <1>2, UnderCursor
<1>7. x.announced = <<>> /\ x.parsers = parsers /\ x.inits = inits
  BY <1>1
<1>8. QED
  BY <1>2, <1>3, <1>4, <1>5, <1>6, <1>7

\* rtsp_reinit, for the first session.
LEMMA Forgets ==
  ASSUME Types, NEW p \in Presentations, Forget(p)
  PROVE  Drops(sess, sess', p) /\ def' = def /\ SomeDropped /\ phase[p] = "dropped"
<1>1. sess[p] # <<>> /\ sess' = [sess EXCEPT ![p] = Tail(@)] /\ def' = def /\ phase[p] = "dropped"
  BY DEF Forget, At
<1>2. Drops(sess, sess', p)
  BY <1>1, OldSession DEF Types
<1>3. QED
  BY <1>1, <1>2 DEF SomeDropped

\* rtp_clean, for the first session.
LEMMA CleansUp ==
  ASSUME Types, NEW p \in Presentations, Clean(p)
  PROVE  \E refs, dyn :
           /\ refs = Range(sess[p][1].ptdefs) \ {Null} /\ dyn = {sess[p][1].ptdefs[pt] : pt \in Dynamic}
           /\ Drops(sess, sess', p) /\ Cleans(def, def', refs, dyn)
           /\ fault' = IF \E r \in refs : def[r].freed \/ ~def[r].live THEN "freed" ELSE "none"
<1>1. sess[p] # <<>> /\ sess' = [sess EXCEPT ![p] = Tail(@)]
  BY DEF Clean
<1>2. Drops(sess, sess', p)
  BY <1>1, OldSession DEF Types
<1>3. Head(sess[p]) = sess[p][1]
  BY <1>2 DEF Drops
<1>4. PICK refs : refs = Range(sess[p][1].ptdefs) \ {Null}
  OBVIOUS
<1>5. PICK dyn : dyn = {sess[p][1].ptdefs[pt] : pt \in Dynamic}
  OBVIOUS
<1>6. def' = Cleaned(def, refs, dyn) /\ fault' = IF \E r \in refs : def[r].freed \/ ~def[r].live THEN "freed" ELSE "none"
  <2>1. {x \in Pts : x >= FirstDynamic} = Dynamic
    BY DEF Dynamic, FirstDynamic
  <2>2. Range(Head(sess[p]).ptdefs) \ {Null} = refs
    BY <1>3, <1>4
  <2>3. {Head(sess[p]).ptdefs[pt] : pt \in {x \in Pts : x >= FirstDynamic}} = dyn
    BY <1>3, <1>5, <2>1
  <2>4. QED
    BY <2>2, <2>3 DEF Clean, Cleaned
<1>7. Cleans(def, def', refs, dyn)
  BY <1>6, CleaningDefinitions DEF Types
<1>8. QED
  BY <1>2, <1>4, <1>5, <1>6, <1>7
-----------------------------------------------------------------------------
(***************************************************************************)
(* Types, the cursor and the owners are kept by every step.                *)
(***************************************************************************)

LEMMA TypesKept ==
  ASSUME OInv, NEW p \in Presentations,
         \/ ClearInits(p) \/ FillInits(p)
         \/ Describe(p) \/ NewMedium(p) \/ Announce(p) \/ Med(p) \/ Rtpmap(p) \/ Fmtp(p) \/ NextMedium(p)
         \/ Start(p) \/ InitNext(p) \/ NextSession(p) \/ Run(p)
         \/ Drop(p) \/ Forget(p) \/ Close(p) \/ Clean(p) \/ Closed(p)
  PROVE  Types'
<1>1. Types /\ Cursor /\ OwnersIn(sess, def)
  BY DEF OInv
<1>2. /\ parsers \in [Pts -> Served \cup {"def"}] /\ inits \in [Pts -> Full \cup {Null}] /\ Definitions(def)
      /\ desc \in [Presentations -> Descriptions] /\ phase \in [Presentations -> Phases] /\ pos \in Positions
      /\ sess \in AllSessions /\ fault \in {"none", "freed", "null"}
  BY <1>1 DEF Types, Positions
<1>3. SUFFICES /\ parsers' \in [Pts -> Served \cup {"def"}] /\ inits' \in [Pts -> Full \cup {Null}]
               /\ Definitions(def') /\ desc' = desc
               /\ phase' \in [Presentations -> Phases] /\ pos' \in Positions /\ sess' \in AllSessions
               /\ fault' \in {"none", "freed", "null"}
  BY <1>2 DEF Types, Positions, Definitions
<1>4. /\ Done(p) => OnlyOf(p)
      /\ MediumDone(p) => OnlyOf(p)
      /\ Refused(p) => OnlyOf(p)
      /\ \A ph \in Phases : Moves(p, ph) /\ pos' = pos => OnlyOf(p)
      /\ \A ph \in Phases : Moves(p, ph) /\ pos' = [pos EXCEPT ![p] = Begin] => OnlyOf(p)
  <2>1. "refused" \in Phases
    BY PhasesAre
  <2>2. QED
    BY <1>1, <2>1, MovesOn DEF Refused
<1>5. OnlyOf(p) => phase' \in [Presentations -> Phases] /\ pos' \in Positions
  BY DEF OnlyOf
<1>6. CASE ClearInits(p)
  <2>1. inits' = [pt \in Pts |-> Null] /\ UNCHANGED <<parsers, def, desc, pos, sess, fault>> /\ Moves(p, "cleared")
    BY <1>6 DEF ClearInits
  <2>2. OnlyOf(p)
    BY <1>4, <2>1, PhasesAre
  <2>3. QED
    BY <1>2, <1>5, <2>1, <2>2
<1>7. CASE FillInits(p)
  <2>1. /\ parsers' = [pt \in Pts |-> StaticParser(pt)]
        /\ inits' = [pt \in Pts |-> IF StaticParser(pt) \in Full THEN StaticParser(pt) ELSE Null]
        /\ UNCHANGED <<def, desc, pos, sess, fault>> /\ Moves(p, "made")
    BY <1>7 DEF FillInits
  <2>2. OnlyOf(p)
    BY <1>4, <2>1, PhasesAre
  <2>3. \A pt \in Pts : StaticParser(pt) \in Served \cup {"def"}
    BY DEF StaticParser, Served, Full
  <2>4. QED
    BY <1>2, <1>5, <2>1, <2>2, <2>3
<1>8. CASE Describe(p)
  <2>1. UNCHANGED <<parsers, inits, def, desc, sess, fault>> /\ Moves(p, "describe") /\ pos' = [pos EXCEPT ![p] = Begin]
    BY <1>8 DEF Describe
  <2>2. OnlyOf(p)
    BY <1>4, <2>1, PhasesAre
  <2>3. QED
    BY <1>2, <1>5, <2>1, <2>2
<1>9. CASE NewMedium(p)
  <2>1. UNCHANGED <<parsers, inits, def, desc, fault>> /\ Done(p)
    BY <1>9 DEF NewMedium
  <2>2. sess' \in AllSessions
    BY <1>1, <1>9, SetsUp DEF Adds
  <2>3. QED
    BY <1>2, <1>4, <1>5, <2>1, <2>2
<1>10. CASE Announce(p) \/ Med(p)
  <2>1. /\ parsers' = parsers /\ inits' = inits /\ desc' = desc /\ fault' = fault
        /\ \/ Refused(p) /\ def' = def /\ sess' = sess
           \/ \E pt \in Pts : Announced(p, pt)
    BY <1>1, <1>10, AnnouncesOne
  <2>2. ASSUME NEW pt \in Pts, Announced(p, pt)
        PROVE  Done(p) /\ Definitions(def') /\ sess' \in AllSessions
    BY <1>2, <2>2 DEF Announced, AnnouncesTo, Replaces
  <2>3. QED
    BY <1>2, <1>4, <1>5, <2>1, <2>2
<1>11. CASE Rtpmap(p)
  <2>1. UNCHANGED <<parsers, inits, desc, fault>>
    BY <1>11 DEF Rtpmap
  <2>2. \/ def' = def /\ sess' = sess /\ (Refused(p) \/ MediumDone(p) \/ Done(p))
        \/ Done(p) /\ Definitions(def') /\ sess' \in AllSessions
    BY <1>1, <1>11, Registers DEF Updates, RegistersTo
  <2>3. QED
    BY <1>2, <1>4, <1>5, <2>1, <2>2
<1>12. CASE Fmtp(p)
  <2>1. UNCHANGED <<parsers, inits, desc, sess>> /\ Done(p)
    BY <1>12 DEF Fmtp
  <2>2. Definitions(def') /\ fault' \in {"none", "freed", "null"}
    BY <1>1, <1>2, <1>12, Describes DEF GetsAttribute, Updates
  <2>3. QED
    BY <1>2, <1>4, <1>5, <2>1, <2>2
<1>13. CASE NextMedium(p)
  BY <1>2, <1>4, <1>5, <1>13 DEF NextMedium
<1>14. CASE Start(p)
  <2>1. UNCHANGED <<parsers, inits, def, desc, sess, fault>> /\ Moves(p, "start") /\ pos' = [pos EXCEPT ![p] = Begin]
    BY <1>14 DEF Start
  <2>2. OnlyOf(p)
    BY <1>4, <2>1, PhasesAre
  <2>3. QED
    BY <1>2, <1>5, <2>1, <2>2
<1>15. CASE InitNext(p)
  <2>1. UNCHANGED <<parsers, inits, desc, sess, fault>>
    BY <1>15 DEF InitNext
  <2>2. Definitions(def') /\ (Done(p) \/ (Moves(p, "failed") /\ pos' = pos))
    BY <1>1, <1>2, <1>15, Initialises DEF Updates
  <2>3. QED
    BY <1>2, <1>4, <1>5, <2>1, <2>2, PhasesAre
<1>16. CASE NextSession(p)
  BY <1>2, <1>4, <1>5, <1>16 DEF NextSession
<1>17. CASE Run(p) \/ Drop(p) \/ Close(p) \/ Closed(p)
  <2>1. UNCHANGED <<parsers, inits, def, desc, pos, sess, fault>> /\ \E ph \in Phases : Moves(p, ph)
    BY <1>17, PhasesAre DEF Run, Drop, Close, Closed
  <2>2. OnlyOf(p)
    BY <1>4, <2>1
  <2>3. QED
    BY <1>2, <1>5, <2>1, <2>2
<1>18. CASE Clean(p)
  <2>1. UNCHANGED <<parsers, inits, desc, phase, pos>>
    BY <1>18 DEF Clean
  <2>2. Definitions(def') /\ sess' \in AllSessions /\ fault' \in {"none", "freed", "null"}
    BY <1>1, <1>18, CleansUp DEF Cleans, Drops
  <2>3. QED
    BY <1>2, <2>1, <2>2
<1>19. CASE Forget(p)
  <2>1. UNCHANGED <<parsers, inits, def, desc, phase, pos, fault>>
    BY <1>19 DEF Forget
  <2>2. sess' \in AllSessions
    BY <1>1, <1>19, Forgets DEF Drops
  <2>3. QED
    BY <1>2, <2>1, <2>2
<1>20. QED
  BY <1>6, <1>7, <1>8, <1>9, <1>10, <1>11, <1>12, <1>13, <1>14, <1>15, <1>16, <1>17, <1>18, <1>19
LEMMA CursorKept ==
  ASSUME OInv, NEW p \in Presentations,
         \/ ClearInits(p) \/ FillInits(p)
         \/ Describe(p) \/ NewMedium(p) \/ Announce(p) \/ Med(p) \/ Rtpmap(p) \/ Fmtp(p) \/ NextMedium(p)
         \/ Start(p) \/ InitNext(p) \/ NextSession(p) \/ Run(p)
         \/ Drop(p) \/ Forget(p) \/ Close(p) \/ Clean(p) \/ Closed(p)
  PROVE  Cursor'
<1>1. Types /\ Cursor /\ OwnersIn(sess, def) /\ CursorOf(p)
  BY DEF OInv, Cursor
<1>2. PICK n, l \in Nat : n = Len(sess[p]) /\ l = Len(desc[p])
  <2>1. sess[p] \in Seq(Sessions)
    BY <1>1 DEF Types, AllSessions
  <2>2. QED
    BY <1>1, <2>1, Described
<1>3. pos[p].m \in Nat \ {0} /\ pos[p].i \in Nat /\ phase[p] \in Phases
  BY <1>1 DEF Types
<1>4. desc' = desc
  BY DEF ClearInits, FillInits, Describe, NewMedium, Announce, Med, Rtpmap, Fmtp, NextMedium,
         Start, InitNext, NextSession, Run, Drop, Forget, Close, Clean, Closed
\* The others' sessions and cursors stay.
<1>5. ASSUME OnlyOf(p), \A q \in Presentations : q # p => sess'[q] = sess[q], CursorOf(p)'
      PROVE  Cursor'
  <2>1. ASSUME NEW q \in Presentations, q # p PROVE CursorOf(q)'
    <3>1. pos'[q] = pos[q] /\ phase'[q] = phase[q] /\ CursorOf(q)
      BY <1>1, <1>5, <2>1 DEF OnlyOf, Cursor
    <3>2. sess'[q] = sess[q]
      BY <1>5, <2>1
    <3>3. QED
      BY <1>4, <3>1, <3>2 DEF CursorOf
  <2>2. QED
    BY <1>5, <2>1 DEF Cursor
<1>6. /\ Done(p) => OnlyOf(p) /\ phase' = phase /\ pos'[p].m = pos[p].m /\ pos'[p].i = pos[p].i + 1
      /\ MediumDone(p) => OnlyOf(p) /\ phase' = phase /\ pos'[p].m = pos[p].m + 1 /\ pos'[p].i = 0
      /\ Refused(p) => OnlyOf(p) /\ phase'[p] = "refused" /\ pos' = pos
      /\ \A ph \in Phases : Moves(p, ph) /\ pos' = pos => OnlyOf(p) /\ phase'[p] = ph
      /\ \A ph \in Phases : Moves(p, ph) /\ pos' = [pos EXCEPT ![p] = Begin] =>
           OnlyOf(p) /\ phase'[p] = ph /\ pos'[p].m = 1 /\ pos'[p].i = 0
  <2>1. "refused" \in Phases
    BY PhasesAre
  <2>2. QED
    BY <1>1, <2>1, MovesOn DEF Refused
\* Within a medium that has its session.
<1>7. ASSUME Done(p), Describing(p), pos[p].i # 0, Len(sess'[p]) = Len(sess[p])
      PROVE  CursorOf(p)'
  <2>1. phase[p] = "describe"
    BY <1>7 DEF Describing, At
  <2>2. phase'[p] = "describe" /\ pos'[p].m = pos[p].m /\ pos'[p].i = pos[p].i + 1
    BY <1>6, <1>7, <2>1
  <2>3. n <= l /\ pos[p].m <= l + 1 /\ n = pos[p].m
    BY <1>1, <1>2, <1>7, <2>1 DEF CursorOf
  <2>4. QED
    BY <1>2, <1>3, <1>4, <1>7, <2>2, <2>3 DEF CursorOf
<1>8. ASSUME MediumDone(p), Describing(p), pos[p].i # 0, sess' = sess
      PROVE  CursorOf(p)'
  <2>1. phase[p] = "describe"
    BY <1>8 DEF Describing, At
  <2>2. phase'[p] = "describe" /\ pos'[p].m = pos[p].m + 1 /\ pos'[p].i = 0
    BY <1>6, <1>8, <2>1
  <2>3. n <= l /\ pos[p].m <= l + 1 /\ n = pos[p].m
    BY <1>1, <1>2, <1>8, <2>1 DEF CursorOf
  <2>4. QED
    BY <1>2, <1>3, <1>4, <1>8, <2>2, <2>3 DEF CursorOf
<1>9. ASSUME Refused(p), sess' = sess
      PROVE  CursorOf(p)'
  BY <1>1, <1>4, <1>6, <1>9 DEF CursorOf
<1>10. CASE ClearInits(p)
  <2>1. Moves(p, "cleared") /\ pos' = pos /\ sess' = sess /\ phase[p] = "new"
    BY <1>10 DEF ClearInits, At
  <2>2. OnlyOf(p) /\ phase'[p] = "cleared"
    BY <1>6, <2>1, PhasesAre
  <2>3. CursorOf(p)'
    BY <1>1, <1>4, <2>1, <2>2 DEF CursorOf
  <2>4. QED
    BY <1>5, <2>1, <2>2, <2>3
<1>11. CASE FillInits(p)
  <2>1. Moves(p, "made") /\ pos' = pos /\ sess' = sess /\ phase[p] = "cleared"
    BY <1>11 DEF FillInits, At
  <2>2. OnlyOf(p) /\ phase'[p] = "made"
    BY <1>6, <2>1, PhasesAre
  <2>3. CursorOf(p)'
    BY <1>1, <1>4, <2>1, <2>2 DEF CursorOf
  <2>4. QED
    BY <1>5, <2>1, <2>2, <2>3
<1>12. CASE Describe(p)
  <2>1. Moves(p, "describe") /\ pos' = [pos EXCEPT ![p] = Begin] /\ sess' = sess /\ phase[p] = "made"
    BY <1>12 DEF Describe, At
  <2>2. OnlyOf(p) /\ phase'[p] = "describe" /\ pos'[p].m = 1 /\ pos'[p].i = 0
    BY <1>6, <2>1, PhasesAre
  <2>3. sess[p] = <<>>
    BY <1>1, <2>1 DEF CursorOf
  <2>4. n = 0
    BY <1>2, <2>3
  <2>5. CursorOf(p)'
    BY <1>2, <1>4, <2>1, <2>2, <2>3, <2>4 DEF CursorOf
  <2>6. QED
    BY <1>5, <2>1, <2>2, <2>5
<1>13. CASE NewMedium(p)
  <2>1. Describing(p) /\ Done(p) /\ pos[p].i = 0 /\ phase[p] = "describe"
    BY <1>13 DEF NewMedium, Describing, At
  <2>2. PICK x \in Sessions : Adds(sess, sess', p, x)
    BY <1>1, <1>13, SetsUp
  <2>3. Len(sess'[p]) = n + 1 /\ \A q \in Presentations : q # p => sess'[q] = sess[q]
    BY <1>2, <2>2 DEF Adds
  <2>4. n = pos[p].m - 1 /\ pos[p].m \in 1 .. l
    BY <1>1, <1>2, <2>1, UnderCursor, Described
  <2>5. OnlyOf(p) /\ phase'[p] = "describe" /\ pos'[p].m = pos[p].m /\ pos'[p].i = 1
    BY <1>3, <1>6, <2>1
  <2>6. CursorOf(p)'
    BY <1>2, <1>3, <1>4, <2>3, <2>4, <2>5 DEF CursorOf
  <2>7. QED
    BY <1>5, <2>3, <2>5, <2>6
<1>14. CASE Announce(p) \/ Med(p)
  <2>1. /\ Describing(p) /\ pos[p].i # 0
        /\ (Refused(p) /\ def' = def /\ sess' = sess) \/ \E pt \in Pts : Announced(p, pt)
    BY <1>1, <1>14, AnnouncesOne
  <2>2. CASE Refused(p) /\ def' = def /\ sess' = sess
    BY <1>5, <1>6, <1>9, <2>2
  <2>3. CASE \E pt \in Pts : Announced(p, pt)
    <3>1. Done(p) /\ \E m \in DOMAIN sess[p] : SameBut(sess, sess', p, m)
      BY <2>3 DEF Announced, AnnouncesTo
    <3>2. PICK m \in DOMAIN sess[p] : SameBut(sess, sess', p, m)
      BY <3>1
    <3>3. \A q \in Presentations : Len(sess'[q]) = Len(sess[q])
      BY <3>2 DEF SameBut
    <3>4. \A q \in Presentations : q # p => sess'[q] = sess[q]
      BY <3>2 DEF SameBut
    <3>5. CursorOf(p)'
      BY <1>7, <2>1, <3>1, <3>3
    <3>6. QED
      BY <1>5, <1>6, <3>1, <3>4, <3>5
  <2>4. QED
    BY <2>1, <2>2, <2>3
<1>15. CASE Rtpmap(p)
  <2>1. Describing(p) /\ pos[p].i # 0
    BY <1>1, <1>15, AttributeIs DEF Rtpmap
  <2>2. \/ def' = def /\ sess' = sess /\ (Refused(p) \/ MediumDone(p) \/ Done(p))
        \/ Done(p) /\ \E m \in DOMAIN sess[p] : SameBut(sess, sess', p, m) /\ sess' \in AllSessions
    BY <1>1, <1>15, Registers DEF RegistersTo
  <2>3. CASE sess' = sess /\ Refused(p)
    BY <1>5, <1>6, <1>9, <2>3
  <2>4. CASE sess' = sess /\ MediumDone(p)
    BY <1>5, <1>6, <1>8, <2>1, <2>4
  <2>5. CASE sess' = sess /\ Done(p)
    BY <1>5, <1>6, <1>7, <2>1, <2>5
  <2>6. CASE Done(p) /\ \E m \in DOMAIN sess[p] : SameBut(sess, sess', p, m) /\ sess' \in AllSessions
    <3>1. PICK m \in DOMAIN sess[p] : SameBut(sess, sess', p, m) /\ sess' \in AllSessions
      BY <2>6
    <3>2. Len(sess'[p]) = Len(sess[p])
      BY <3>1 DEF SameBut
    <3>3. \A q \in Presentations : q # p => sess'[q] = sess[q]
      BY <3>1 DEF SameBut
    <3>4. QED
      BY <1>5, <1>6, <1>7, <2>1, <2>6, <3>2, <3>3
  <2>7. QED
    BY <2>2, <2>3, <2>4, <2>5, <2>6
<1>16. CASE Fmtp(p)
  <2>1. Describing(p) /\ pos[p].i # 0 /\ Done(p) /\ sess' = sess
    BY <1>1, <1>16, AttributeIs DEF Fmtp
  <2>2. QED
    BY <1>5, <1>6, <1>7, <2>1
<1>17. CASE NextMedium(p)
  <2>1. Describing(p) /\ Nth(p) > Len(Current(p).attrs) /\ MediumDone(p) /\ sess' = sess
    BY <1>17 DEF NextMedium
  <2>2. pos[p].i # 0
    BY <1>1, <2>1, UnderCursor
  <2>3. QED
    BY <1>5, <1>6, <1>8, <2>1, <2>2
<1>18. CASE Start(p)
  <2>1. Moves(p, "start") /\ pos' = [pos EXCEPT ![p] = Begin] /\ sess' = sess /\ phase[p] = "describe"
    BY <1>18 DEF Start, At
  <2>2. OnlyOf(p) /\ phase'[p] = "start" /\ pos'[p].m = 1
    BY <1>6, <2>1, PhasesAre
  <2>3. CursorOf(p)'
    BY <1>1, <1>2, <1>4, <2>1, <2>2 DEF CursorOf
  <2>4. QED
    BY <1>5, <2>1, <2>2, <2>3
<1>19. CASE InitNext(p)
  <2>1. sess' = sess /\ phase[p] = "start" /\ (Done(p) \/ (Moves(p, "failed") /\ pos' = pos))
    BY <1>1, <1>19, Initialises
  <2>2. CASE Done(p)
    <3>1. OnlyOf(p) /\ phase'[p] = "start" /\ pos'[p].m = pos[p].m
      BY <1>6, <2>1, <2>2
    <3>2. CursorOf(p)'
      BY <1>1, <1>4, <2>1, <3>1 DEF CursorOf
    <3>3. QED
      BY <1>5, <2>1, <3>1, <3>2
  <2>3. CASE Moves(p, "failed") /\ pos' = pos
    <3>1. OnlyOf(p) /\ phase'[p] = "failed"
      BY <1>6, <2>3, PhasesAre
    <3>2. CursorOf(p)'
      BY <1>1, <1>4, <2>1, <3>1 DEF CursorOf
    <3>3. QED
      BY <1>5, <2>1, <3>1, <3>2
  <2>4. QED
    BY <2>1, <2>2, <2>3
<1>20. CASE NextSession(p)
  <2>1. MediumDone(p) /\ sess' = sess /\ phase[p] = "start" /\ pos[p].m \in DOMAIN sess[p]
    BY <1>20 DEF NextSession, Starting, At
  <2>2. pos[p].m <= n
    <3>1. sess[p] \in Seq(Sessions)
      BY <1>1 DEF Types, AllSessions
    <3>2. QED
      BY <1>2, <2>1, <3>1
  <2>3. OnlyOf(p) /\ phase'[p] = "start" /\ pos'[p].m = pos[p].m + 1
    BY <1>6, <2>1
  <2>4. CursorOf(p)'
    BY <1>1, <1>2, <1>3, <1>4, <2>1, <2>2, <2>3 DEF CursorOf
  <2>5. QED
    BY <1>5, <2>1, <2>3, <2>4
<1>21. CASE Run(p) \/ Drop(p) \/ Close(p) \/ Closed(p)
  <2>1. pos' = pos /\ sess' = sess /\ \E ph \in {"play", "dropped", "close", "closed"} : Moves(p, ph)
    BY <1>21 DEF Run, Drop, Close, Closed
  <2>2. OnlyOf(p) /\ phase'[p] \in {"play", "dropped", "close", "closed"}
    BY <1>6, <2>1, PhasesAre
  <2>3. CursorOf(p)'
    BY <1>1, <1>4, <2>1, <2>2 DEF CursorOf
  <2>4. QED
    BY <1>5, <2>1, <2>2, <2>3
<1>22. CASE Clean(p) \/ Forget(p)
  <2>1. pos' = pos /\ phase' = phase /\ phase[p] \in {"close", "dropped"}
    BY <1>22 DEF Clean, Forget, At
  <2>2. OnlyOf(p)
    BY <1>1, <2>1 DEF OnlyOf, Types, Positions
  <2>3. Drops(sess, sess', p)
    BY <1>1, <1>22, CleansUp, Forgets
  <2>4. Len(sess'[p]) = n - 1 /\ \A q \in Presentations : q # p => sess'[q] = sess[q]
    BY <1>2, <2>3 DEF Drops
  <2>5. CursorOf(p)'
    BY <1>1, <1>2, <1>4, <2>1, <2>4 DEF CursorOf
  <2>6. QED
    BY <1>5, <2>2, <2>4, <2>5
<1>23. QED
  BY <1>10, <1>11, <1>12, <1>13, <1>14, <1>15, <1>16, <1>17, <1>18, <1>19, <1>20, <1>21, <1>22
\* An update of one definition, or of the tables of one session, moves no definition.
LEMMA UpdatedOwners ==
  ASSUME NEW s, NEW d, OwnersIn(s, d), NEW e, NEW r, Updates(d, e, r), r \in Standard => e[r].name = d[r].name
  PROVE  OwnersIn(s, e)
<1>1. DOMAIN e = DOMAIN d
  BY DEF Updates
<1>2. \A x \in DOMAIN d : e[x].live = d[x].live /\ (x \in Standard => e[x].name = d[x].name)
  BY DEF Updates
<1>3. QED
  BY <1>1, <1>2, SameOwners

LEMMA RetabledOwners ==
  ASSUME NEW s, NEW d, OwnersIn(s, d), NEW p, NEW m, NEW t, SameBut(s, t, p, m), t[p][m].ptdefs = s[p][m].ptdefs
  PROVE  OwnersIn(t, d)
<1>1. \A q \in Presentations : DOMAIN t[q] = DOMAIN s[q]
  BY DEF SameBut
<1>2. \A q \in Presentations : \A n \in DOMAIN s[q] : t[q][n].ptdefs = s[q][n].ptdefs
  <2>1. ASSUME NEW q \in Presentations, NEW n \in DOMAIN s[q] PROVE t[q][n].ptdefs = s[q][n].ptdefs
    <3>1. CASE q = p /\ n = m
      BY <3>1
    <3>2. CASE ~(q = p /\ n = m)
      <4>1. t[q][n] = s[q][n]
        BY <3>2 DEF SameBut
      <4>2. QED
        BY <4>1
    <3>3. QED
      BY <3>1, <3>2
  <2>2. QED
    BY <2>1
<1>3. QED
  BY <1>1, <1>2, SameOwners

LEMMA OwnersKept ==
  ASSUME OInv, NEW p \in Presentations,
         \/ ClearInits(p) \/ FillInits(p)
         \/ Describe(p) \/ NewMedium(p) \/ Announce(p) \/ Med(p) \/ Rtpmap(p) \/ Fmtp(p) \/ NextMedium(p)
         \/ Start(p) \/ InitNext(p) \/ NextSession(p) \/ Run(p)
         \/ Drop(p) \/ Forget(p) \/ Close(p) \/ Clean(p) \/ Closed(p)
  PROVE  OwnersIn(sess', def')
<1>1. Types /\ Cursor /\ OwnersIn(sess, def) /\ Definitions(def) /\ sess \in AllSessions
  BY DEF OInv, Types
<1>2. CASE sess' = sess /\ def' = def
  BY <1>1, <1>2
<1>3. CASE \/ ClearInits(p) \/ FillInits(p) \/ Describe(p) \/ NextMedium(p) \/ Start(p) \/ NextSession(p) \/ Run(p)
           \/ Drop(p) \/ Close(p) \/ Closed(p)
  BY <1>2, <1>3 DEF ClearInits, FillInits, Describe, NextMedium, Start, NextSession, Run, Drop, Close, Closed
<1>4. CASE NewMedium(p)
  <2>1. PICK x \in Sessions : /\ Adds(sess, sess', p, x)
                              /\ \A pt \in Pts : x.ptdefs[pt] = IF pt \in Standard THEN pt ELSE Null
    BY <1>1, <1>4, SetsUp
  <2>2. def' = def
    BY <1>1, <1>4, SetsUp
  <2>3. OwnersIn(sess', def)
    BY <1>1, <2>1, NewSessionOwners
  <2>4. QED
    BY <2>2, <2>3
<1>5. CASE Announce(p) \/ Med(p)
  <2>1. ASSUME NEW pt \in Pts, Announced(p, pt) PROVE OwnersIn(sess', def')
    <3>1. PICK m \in DOMAIN sess[p] : m = pos[p].m
      BY <2>1 DEF Announced
    <3>2. CASE pt \in Dynamic
      <4>1. AnnouncesTo(sess, sess', p, m, pt, NewAddr) /\ Replaces(def, def', sess[p][m].ptdefs[pt], NewAddr)
        BY <2>1, <3>1, <3>2 DEF Announced
      <4>2. PICK a, old : a = NewAddr /\ old = sess[p][m].ptdefs[pt]
        OBVIOUS
      <4>3. QED
        BY <1>1, <3>2, <4>1, <4>2, AnnouncedOwners
    <3>3. CASE pt \notin Dynamic
      <4>1. AnnouncesTo(sess, sess', p, m, pt, sess[p][m].ptdefs[pt]) /\ def' = def
        BY <2>1, <3>1, <3>3 DEF Announced
      <4>2. sess'[p][m].ptdefs = sess[p][m].ptdefs
        <5>1. sess[p][m] \in Sessions
          BY <1>1, References
        <5>2. sess[p][m].ptdefs \in [Pts -> Nat \cup {Null}]
          BY <5>1 DEF Sessions
        <5>3. sess'[p][m].ptdefs = [sess[p][m].ptdefs EXCEPT ![pt] = sess[p][m].ptdefs[pt]]
          BY <4>1 DEF AnnouncesTo
        <5>4. QED
          BY <5>2, <5>3
      <4>3. OwnersIn(sess', def)
        BY <1>1, <4>1, <4>2, RetabledOwners DEF AnnouncesTo
      <4>4. QED
        BY <4>1, <4>3
    <3>4. QED
      BY <3>2, <3>3
  <2>2. QED
    BY <1>1, <1>2, <1>5, <2>1, AnnouncesOne
<1>6. CASE Rtpmap(p)
  <2>1. ASSUME NEW pt \in Dynamic, NEW r \in DOMAIN def, pos[p].m \in DOMAIN sess[p], r = sess[p][pos[p].m].ptdefs[pt], r # Null,
               Updates(def, def', r), RegistersTo(sess, sess', p, pos[p].m, pt, Attribute(p).value)
        PROVE  OwnersIn(sess', def')
    <3>1. r \notin Standard
      BY <1>1, <2>1 DEF OwnersIn, LiveIn
    <3>2. OwnersIn(sess, def')
      BY <1>1, <2>1, <3>1, UpdatedOwners
    <3>3. QED
      BY <2>1, <3>2, RetabledOwners DEF RegistersTo
  <2>2. QED
    BY <1>1, <1>2, <1>6, <2>1, Registers
<1>7. CASE Fmtp(p)
  <2>1. PICK r : r = sess[p][pos[p].m].ptdefs[Attribute(p).pt]
    OBVIOUS
  <2>2. sess' = sess /\ (def' = def \/ (Updates(def, def', r) /\ def'[r].name = def[r].name))
    BY <1>1, <1>7, <2>1, Describes DEF GetsAttribute
  <2>3. CASE Updates(def, def', r) /\ def'[r].name = def[r].name
    <3>1. OwnersIn(sess, def')
      BY <1>1, <2>3, UpdatedOwners
    <3>2. QED
      BY <2>2, <3>1
  <2>4. QED
    BY <1>2, <2>2, <2>3
<1>8. CASE InitNext(p)
  <2>1. sess' = sess /\ (def' = def \/ \E r \in DOMAIN def : Updates(def, def', r) /\ def'[r].name = def[r].name)
    BY <1>1, <1>8, Initialises
  <2>2. ASSUME NEW r \in DOMAIN def, Updates(def, def', r) /\ def'[r].name = def[r].name
        PROVE  OwnersIn(sess', def')
    <3>1. OwnersIn(sess, def')
      BY <1>1, <2>2, UpdatedOwners
    <3>2. QED
      BY <2>1, <3>1
  <2>3. QED
    BY <1>2, <2>1, <2>2
<1>9. CASE Clean(p)
  <2>1. PICK refs, dyn :
           /\ refs = Range(sess[p][1].ptdefs) \ {Null} /\ dyn = {sess[p][1].ptdefs[pt] : pt \in Dynamic}
           /\ Drops(sess, sess', p) /\ Cleans(def, def', refs, dyn)
    BY <1>1, <1>9, CleansUp
  <2>2. QED
    BY <1>1, <2>1, CleanedOwners
<1>10. CASE Forget(p)
  <2>1. Drops(sess, sess', p) /\ def' = def /\ SomeDropped
    BY <1>1, <1>10, Forgets
  <2>2. SharedIn(sess') /\ LiveIn(sess', def) /\ OneOwnerIn(sess')
    BY <1>1, <2>1, RemainingOwners DEF OwnersIn
  <2>3. NoOrphanIn(sess', def)
    BY <2>1 DEF NoOrphanIn
  <2>4. QED
    BY <1>1, <2>1, <2>2, <2>3 DEF OwnersIn
<1>11. QED
  BY <1>3, <1>4, <1>5, <1>6, <1>7, <1>8, <1>9, <1>10
\* The steps of one presentation.
StepOf(p) ==
  \/ ClearInits(p) \/ FillInits(p)
  \/ Describe(p) \/ NewMedium(p) \/ Announce(p) \/ Med(p) \/ Rtpmap(p) \/ Fmtp(p) \/ NextMedium(p)
  \/ Start(p) \/ InitNext(p) \/ NextSession(p) \/ Run(p)
  \/ Drop(p) \/ Forget(p) \/ Close(p) \/ Clean(p) \/ Closed(p)

LEMMA OwnersInit == ASSUME Init PROVE OInv
<1>1. IsFiniteSet(Standard) /\ Standard \subseteq Nat
  <2>1. Standard \subseteq 0 .. 255
    BY PayloadAssumption DEF PayloadAssumption
  <2>2. \A a, b \in Int : IsFiniteSet(a .. b)
    BY FS_Interval
  <2>3. PICK n \in Nat : n = 255
    OBVIOUS
  <2>4. PICK I : I = 0 .. n
    OBVIOUS
  <2>5. I \subseteq Nat /\ 0 \in Int /\ n \in Int
    BY <2>4
  <2>6. IsFiniteSet(I)
    BY <2>2, <2>4, <2>5, Zenon
  <2>7. Standard \subseteq I
    BY <2>1, <2>3, <2>4
  <2>8. IsFiniteSet(Standard)
    BY <2>6, <2>7, FS_Subset
  <2>9. QED
    BY <2>5, <2>7, <2>8
<1>2. Cardinality(Standard) \in Nat
  BY <1>1, FS_CardinalityType
<1>3. DOMAIN def = Standard /\ (\A r \in Standard : def[r] = NewDef) /\ def = [r \in DOMAIN def |-> def[r]]
  BY DEF Init
<1>4. Definitions(def)
  BY <1>1, <1>3, NewDefinition DEF Definitions
<1>5. sess \in AllSessions /\ \A p \in Presentations : sess[p] = <<>>
  <2>1. <<>> \in Seq(Sessions)
    OBVIOUS
  <2>2. QED
    BY <2>1 DEF Init, AllSessions
<1>6. Types
  <2>1. Begin \in [m : Nat \ {0}, i : Nat]
    BY DEF Begin
  <2>2. "new" \in Phases
    BY PhasesAre
  <2>3. QED
    BY <1>4, <1>5, <2>1, <2>2 DEF Init, Types
<1>7. Cursor
  <2>1. ASSUME NEW p \in Presentations PROVE CursorOf(p)
    <3>1. phase[p] = "new"
      BY DEF Init
    <3>2. Len(sess[p]) = 0
      BY <1>5
    <3>3. Len(desc[p]) \in Nat
      BY <1>6, Described
    <3>4. QED
      BY <1>5, <3>1, <3>2, <3>3 DEF CursorOf
  <2>2. QED
    BY <2>1 DEF Cursor
<1>8. OwnersIn(sess, def)
  <2>1. \A p \in Presentations : DOMAIN sess[p] = {}
    BY <1>5
  <2>2. SharedIn(sess) /\ OneOwnerIn(sess) /\ LiveIn(sess, def)
    BY <2>1 DEF SharedIn, OneOwnerIn, LiveIn
  <2>3. NoOrphanIn(sess, def)
    BY <1>3 DEF NoOrphanIn
  <2>4. FreshIn(def)
    BY <1>2, <1>3, Numbers DEF FreshIn
  <2>5. StaticIn(def)
    BY <1>3, NewDefinition DEF StaticIn
  <2>6. QED
    BY <2>2, <2>3, <2>4, <2>5 DEF OwnersIn
<1>9. QED
  BY <1>6, <1>7, <1>8 DEF OInv

\* Nothing follows on "dropped".
LEMMA DroppedKept == ASSUME Types, NEW p \in Presentations, StepOf(p), SomeDropped PROVE SomeDropped'
<1>1. PICK q \in Presentations : phase[q] = "dropped"
  BY DEF SomeDropped
<1>2. phase[p] = "dropped" => phase' = phase
  BY DEF StepOf, At, Describing, AtFormat, AtAttribute, Starting, ClearInits, FillInits, Describe, NewMedium, Announce, Med,
         Rtpmap, Fmtp, NextMedium, Start, InitNext, NextSession, Run, Drop, Forget, Close, Clean, Closed
<1>3. \E ph : phase' = [phase EXCEPT ![p] = ph]
  <2>1. phase = [r \in Presentations |-> phase[r]]
    BY DEF Types
  <2>2. phase' = phase \/ \E ph : Moves(p, ph)
    BY DEF StepOf, ClearInits, FillInits, Describe, NewMedium, Announce, Med, Rtpmap, Fmtp, NextMedium, Start,
           InitNext, NextSession, Run, Drop, Forget, Close, Clean, Closed, Done, MediumDone, Refused,
           rtp_announce_pt, rtp_dynpt_reg
  <2>3. phase' = phase => phase' = [phase EXCEPT ![p] = phase[p]]
    BY <2>1
  <2>4. QED
    BY <2>2, <2>3 DEF Moves
<1>4. phase'[q] = "dropped"
  BY <1>1, <1>2, <1>3 DEF Types
<1>5. QED
  BY <1>4 DEF SomeDropped

LEMMA OwnersStep == ASSUME OInv, [Next]_vars PROVE OInv'
<1>1. CASE UNCHANGED vars
  <2>1. Types' /\ Cursor'
    BY <1>1 DEF OInv, vars, Types, Cursor, CursorOf
  <2>2. SomeDropped' = SomeDropped /\ sess' = sess /\ def' = def
    BY <1>1 DEF SomeDropped, vars
  <2>3. OwnersIn(sess, def)'
    BY <2>2 DEF OInv, OwnersIn, NoOrphanIn
  <2>4. QED
    BY <2>1, <2>3 DEF OInv
<1>2. ASSUME NEW p \in Presentations, StepOf(p) PROVE OInv'
  <2>1. Types'
    BY <1>2, TypesKept DEF StepOf
  <2>2. Cursor'
    BY <1>2, CursorKept DEF StepOf
  <2>3. OwnersIn(sess', def')
    BY <1>2, OwnersKept DEF StepOf
  <2>4. SomeDropped => SomeDropped'
    BY <1>2, DroppedKept DEF OInv
  <2>5. OwnersIn(sess, def)'
    BY <2>3, <2>4 DEF OwnersIn, NoOrphanIn
  <2>6. QED
    BY <2>1, <2>2, <2>5 DEF OInv
<1>3. QED
  BY <1>1, <1>2 DEF Next, StepOf

LEMMA OwnersAlways == Spec => []OInv
<1>1. Init => OInv
  BY OwnersInit
<1>2. OInv /\ [Next]_vars => OInv'
  BY OwnersStep
<1>3. QED
  BY <1>1, <1>2, PTL DEF Spec

\* Every dynamic definition that was not freed is in the table of exactly one session,
\* and one that was freed is in none (rtp_dynpt_set, rtp_clean); but for definitions of
\* sessions that rtsp_reinit dropped without an RTP thread, which are in none.
THEOREM Owned == Spec => []EveryDefinitionOwned
<1>1. ASSUME OInv PROVE EveryDefinitionOwned
  <2> DEFINE all == UNION {{<<p, m, pt>> : m \in DOMAIN sess[p], pt \in Pts} : p \in Presentations}
             places(r) == {x \in all : sess[x[1]][x[2]].ptdefs[x[3]] = r}
  <2>1. OwnersIn(sess, def) /\ Types
    BY <1>1 DEF OInv
  <2>2. ASSUME NEW r \in DOMAIN def \ Standard
        PROVE  \/ Cardinality(places(r)) = IF def[r].live THEN 1 ELSE 0
               \/ def[r].live /\ places(r) = {} /\ SomeDropped
    <3>1. r # Null
      BY <2>1, PayloadAssumption DEF Types, Definitions, PayloadAssumption
    <3>2. ASSUME NEW p \in Presentations, NEW m \in DOMAIN sess[p], NEW pt \in Pts, sess[p][m].ptdefs[pt] = r
          PROVE  pt \in Dynamic
      BY <2>1, <3>1, <3>2 DEF OwnersIn, SharedIn
    <3>3. CASE def[r].live /\ places(r) # {}
      <4>1. PICK p \in Presentations : \E m \in DOMAIN sess[p] : \E pt \in Dynamic : sess[p][m].ptdefs[pt] = r
        <5>1. PICK x \in places(r) : TRUE
          BY <3>3
        <5>2. PICK q \in Presentations : x \in {<<q, n, u>> : n \in DOMAIN sess[q], u \in Pts}
          BY <5>1
        <5>3. PICK n \in DOMAIN sess[q], u \in Pts : x = <<q, n, u>>
          BY <5>2
        <5>4. sess[q][n].ptdefs[u] = r
          BY <5>1, <5>3
        <5>5. QED
          BY <3>2, <5>4
      <4>2. PICK m \in DOMAIN sess[p] : \E pt \in Dynamic : sess[p][m].ptdefs[pt] = r
        BY <4>1
      <4>3. PICK pt \in Dynamic : sess[p][m].ptdefs[pt] = r
        BY <4>2
      <4>4. <<p, m, pt>> \in places(r)
        BY <4>3, Numbers
      <4>5. ASSUME NEW x \in places(r) PROVE x = <<p, m, pt>>
        <5>1. PICK q \in Presentations : x \in {<<q, n, u>> : n \in DOMAIN sess[q], u \in Pts}
          BY <4>5
        <5>2. PICK n \in DOMAIN sess[q], u \in Pts : x = <<q, n, u>>
          BY <5>1
        <5>3. sess[q][n].ptdefs[u] = r
          BY <4>5, <5>2
        <5>4. u \in Dynamic
          BY <3>2, <5>3
        <5>5. q = p /\ n = m /\ u = pt
          BY <2>1, <3>1, <4>3, <5>3, <5>4 DEF OwnersIn, OneOwnerIn
        <5>6. QED
          BY <5>2, <5>5
      <4>6. places(r) = {<<p, m, pt>>}
        BY <4>4, <4>5
      <4>7. \A x : Cardinality({x}) = 1
        BY FS_Singleton
      <4> HIDE DEF places
      <4>8. Cardinality(places(r)) = 1
        BY <4>6, <4>7, Zenon
      <4>9. QED
        BY <3>3, <4>8
    <3>4. CASE ~def[r].live
      <4>1. ASSUME NEW x \in places(r) PROVE FALSE
        <5>1. PICK q \in Presentations : x \in {<<q, n, u>> : n \in DOMAIN sess[q], u \in Pts}
          BY <4>1
        <5>2. PICK n \in DOMAIN sess[q], u \in Pts : x = <<q, n, u>>
          BY <5>1
        <5>3. sess[q][n].ptdefs[u] = r
          BY <4>1, <5>2
        <5>4. u \in Dynamic
          BY <3>2, <5>3
        <5>5. QED
          BY <2>1, <3>1, <3>4, <5>3, <5>4 DEF OwnersIn, LiveIn
      <4>2. places(r) = {}
        BY <4>1
      <4>3. Cardinality({}) = 0
        BY FS_EmptySet
      <4> HIDE DEF places
      <4>4. Cardinality(places(r)) = 0
        BY <4>2, <4>3
      <4>5. QED
        BY <3>4, <4>4
    <3>5. CASE def[r].live /\ places(r) = {}
      <4>1. ASSUME NEW p \in Presentations, NEW m \in DOMAIN sess[p], NEW pt \in Dynamic PROVE sess[p][m].ptdefs[pt] # r
        <5>1. <<p, m, pt>> \in all
          BY Numbers
        <5>2. <<p, m, pt>> \notin places(r)
          BY <3>5
        <5>3. QED
          BY <5>1, <5>2
      <4>2. SomeDropped
        BY <2>1, <3>5, <4>1 DEF OwnersIn, NoOrphanIn
      <4>3. QED
        BY <3>5, <4>2
    <3> HIDE DEF places
    <3>6. QED
      BY <3>3, <3>4, <3>5
  <2>3. QED
    BY <2>2 DEF EveryDefinitionOwned, SomeDropped
<1>2. QED
  BY <1>1, OwnersAlways, PTL
-----------------------------------------------------------------------------
(***************************************************************************)
(* The parsers find their private data, when the controllers are made      *)
(* before media are set up.                                                *)
(***************************************************************************)

LEMMA TablesKept ==
  ASSUME MadeFirst, OInv, Tables, NEW p \in Presentations, StepOf(p)
  PROVE  Tables'
<1>1. Types
  BY DEF OInv
<1>2. ASSUME OnlyOf(p), parsers' = parsers, inits' = inits, phase[p] \notin Early, phase'[p] \notin Early
      PROVE  Tables'
  <2>1. phase[p] \notin {"new", "cleared"} /\ phase'[p] \notin {"new", "cleared"}
    BY <1>2 DEF Early
  <2>2. \A q \in Presentations : phase[q] \notin {"new", "cleared"}
    BY <1>2 DEF Tables
  <2>3. Filled
    BY <2>1, <2>2 DEF Tables
  <2>4. \A q \in Presentations : phase'[q] \notin {"new", "cleared"}
    BY <1>2, <2>1, <2>2 DEF OnlyOf
  <2>5. Filled'
    BY <1>2, <2>3 DEF Filled
  <2>6. QED
    BY <2>4, <2>5 DEF Tables
<1>3. CASE ClearInits(p)
  <2>1. Moves(p, "cleared") /\ pos' = pos /\ \A q \in Presentations : phase[q] \in {"new", "cleared", "made"}
    BY <1>3 DEF ClearInits
  <2>2. OnlyOf(p) /\ phase'[p] = "cleared"
    BY <1>1, <2>1, MovesOn, PhasesAre
  <2>3. \A q \in Presentations : phase'[q] \in Early
    BY <2>1, <2>2 DEF OnlyOf, Early
  <2>4. QED
    BY <2>2, <2>3 DEF Tables
<1>4. CASE FillInits(p)
  <2>1. /\ Moves(p, "made") /\ pos' = pos /\ phase[p] = "cleared"
        /\ parsers' = [pt \in Pts |-> StaticParser(pt)]
        /\ inits' = [pt \in Pts |-> IF StaticParser(pt) \in Full THEN StaticParser(pt) ELSE Null]
    BY <1>4 DEF FillInits, At
  <2>2. OnlyOf(p) /\ phase'[p] = "made"
    BY <1>1, <2>1, MovesOn, PhasesAre
  <2>3. \A q \in Presentations : phase[q] \in Early
    BY <2>1 DEF Tables
  <2>4. \A q \in Presentations : phase'[q] \in Early
    BY <2>2, <2>3 DEF OnlyOf, Early
  <2>5. Filled'
    BY <2>1 DEF Filled
  <2>6. QED
    BY <2>4, <2>5 DEF Tables
<1>5. CASE Describe(p)
  <2>1. /\ Moves(p, "describe") /\ pos' = [pos EXCEPT ![p] = Begin] /\ parsers' = parsers /\ inits' = inits
        /\ phase[p] = "made" /\ \A q \in Presentations : phase[q] \notin {"new", "cleared"}
    BY <1>5 DEF Describe, At
  <2>2. OnlyOf(p) /\ phase'[p] = "describe"
    BY <1>1, <2>1, MovesOn, PhasesAre
  <2>3. Filled
    BY <2>1 DEF Tables
  <2>4. Filled'
    BY <2>1, <2>3 DEF Filled
  <2>5. \A q \in Presentations : phase'[q] \notin {"new", "cleared"}
    BY <2>1, <2>2 DEF OnlyOf
  <2>6. QED
    BY <2>4, <2>5 DEF Tables
<1>6. /\ Done(p) => OnlyOf(p) /\ phase' = phase
      /\ MediumDone(p) => OnlyOf(p) /\ phase' = phase
      /\ Refused(p) => OnlyOf(p) /\ phase'[p] = "refused"
      /\ \A ph \in Phases : Moves(p, ph) /\ pos' = pos => OnlyOf(p) /\ phase'[p] = ph
  <2>1. "refused" \in Phases
    BY PhasesAre
  <2>2. QED
    BY <1>1, <2>1, MovesOn DEF Refused
<1>7. Early = {"new", "cleared", "made"}
  BY DEF Early
<1>8. CASE NewMedium(p) \/ Announce(p) \/ Med(p) \/ Rtpmap(p) \/ Fmtp(p) \/ NextMedium(p)
  <2>1. phase[p] = "describe" /\ parsers' = parsers /\ inits' = inits
    BY <1>8 DEF NewMedium, Announce, Med, Rtpmap, Fmtp, NextMedium, AtAttribute, AtFormat, Describing, At
  <2>2. Done(p) \/ MediumDone(p) \/ Refused(p)
    BY <1>8 DEF NewMedium, Announce, Med, Rtpmap, Fmtp, NextMedium, rtp_announce_pt, rtp_dynpt_reg
  <2>3. QED
    BY <1>2, <1>6, <1>7, <2>1, <2>2
<1>9. CASE Start(p)
  <2>1. /\ Moves(p, "start") /\ pos' = [pos EXCEPT ![p] = Begin] /\ parsers' = parsers /\ inits' = inits
        /\ phase[p] = "describe"
    BY <1>9 DEF Start, At
  <2>2. OnlyOf(p) /\ phase'[p] = "start"
    BY <1>1, <2>1, MovesOn, PhasesAre
  <2>3. QED
    BY <1>2, <1>7, <2>1, <2>2
<1>10. CASE InitNext(p) \/ NextSession(p)
  <2>1. phase[p] = "start" /\ parsers' = parsers /\ inits' = inits
    BY <1>10 DEF InitNext, NextSession, Starting, At
  <2>2. Done(p) \/ MediumDone(p) \/ (Moves(p, "failed") /\ pos' = pos)
    BY <1>10 DEF InitNext, NextSession
  <2>3. QED
    BY <1>2, <1>6, <1>7, <2>1, <2>2, PhasesAre
<1>11. CASE Run(p) \/ Drop(p) \/ Close(p) \/ Closed(p)
  <2>1. /\ phase[p] \in {"refused", "describe", "start", "play", "failed", "close"}
        /\ parsers' = parsers /\ inits' = inits /\ pos' = pos
        /\ \E ph \in {"play", "dropped", "close", "closed"} : Moves(p, ph)
    BY <1>11 DEF Run, Drop, Close, Closed, At
  <2>2. OnlyOf(p) /\ phase'[p] \in {"play", "dropped", "close", "closed"}
    BY <1>6, <2>1, PhasesAre
  <2>3. QED
    BY <1>2, <1>7, <2>1, <2>2
<1>12. CASE Clean(p) \/ Forget(p)
  <2>1. phase[p] \in {"close", "dropped"} /\ parsers' = parsers /\ inits' = inits /\ pos' = pos /\ phase' = phase
    BY <1>12 DEF Clean, Forget, At
  <2>2. OnlyOf(p)
    BY <1>1, <2>1 DEF OnlyOf, Types, Positions
  <2>3. QED
    BY <1>2, <1>7, <2>1, <2>2
<1>13. QED
  BY <1>3, <1>4, <1>5, <1>8, <1>9, <1>10, <1>11, <1>12 DEF StepOf

\* While media are set up the tables are filled.
LEMMA TablesFilled ==
  ASSUME Tables, NEW p \in Presentations, phase[p] \notin Early
  PROVE  Filled
BY DEF Tables, Early
\* A session that is not touched keeps matching while no definition is renamed.
LEMMA StillMatching ==
  ASSUME OInv, MatchingIn(sess, def), \A r \in DOMAIN def : def'[r].name = def[r].name,
         NEW p \in Presentations, NEW m \in DOMAIN sess[p]
  PROVE  MatchingOf(sess[p][m], def')
<1>1. PICK x : x = sess[p][m]
  OBVIOUS
<1>2. MatchingOf(x, def)
  BY <1>1 DEF MatchingIn
<1>3. \A pt \in Pts : x.ptdefs[pt] # Null => x.ptdefs[pt] \in DOMAIN def
  BY <1>1, References DEF OInv
<1>4. MatchingOf(x, def')
  BY <1>2, <1>3 DEF MatchingOf, MatchesAt
<1>5. QED
  BY <1>1, <1>4

\* A type that is announced loses its name.
LEMMA AnnouncedMatching ==
  ASSUME NEW x \in Sessions, NEW y, NEW e, NEW pt \in Pts, NEW a \in Nat, MatchingOf(x, e), pt \in Dynamic,
         y.ptdefs = [x.ptdefs EXCEPT ![pt] = a], y.parsers = x.parsers, y.inits = x.inits, e[a].name = ""
  PROVE  MatchingOf(y, e)
<1>1. DOMAIN x.ptdefs = Pts
  BY DEF Sessions
<1>2. y.ptdefs[pt] = a /\ \A u \in Pts : u # pt => y.ptdefs[u] = x.ptdefs[u]
  BY <1>1
<1>3. "" \notin Served
  BY DEF Served, Full
<1>4. ASSUME NEW u \in Pts PROVE MatchesAt(y, e, u)
  <2>1. MatchesAt(x, e, u)
    BY DEF MatchingOf
  <2>2. CASE u = pt
    <3>1. e[y.ptdefs[u]].name \notin Served
      BY <1>2, <1>3, <2>2
    <3>2. QED
      BY <2>1, <2>2, <3>1 DEF MatchesAt
  <2>3. CASE u # pt
    BY <1>2, <2>1, <2>3 DEF MatchesAt
  <2>4. QED
    BY <2>2, <2>3
<1>5. QED
  BY <1>4 DEF MatchingOf

\* A type that is registered gets its name and its parser.
LEMMA RegisteredMatching ==
  ASSUME NEW x \in Sessions, NEW y, NEW e, NEW pt \in Dynamic, NEW mime \in Served \cup {"unknown"},
         \A u \in Pts \ {pt} : MatchesAt(x, e, u),
         x.inits[pt] = IF x.parsers[pt] \in Full THEN x.parsers[pt] ELSE Null,
         y.ptdefs = x.ptdefs,
         y.parsers = IF mime \in Served THEN [x.parsers EXCEPT ![pt] = mime] ELSE x.parsers,
         y.inits = IF mime \in Served THEN [x.inits EXCEPT ![pt] = IF mime \in Full THEN mime ELSE Null] ELSE x.inits,
         e[x.ptdefs[pt]].name = mime
  PROVE  MatchingOf(y, e)
<1>1. DOMAIN x.parsers = Pts /\ DOMAIN x.inits = Pts /\ pt \in Pts
  BY DEF Sessions, Dynamic
<1>2. CASE mime \in Served
  <2>1. PICK f : f = IF mime \in Full THEN mime ELSE Null
    OBVIOUS
  <2>2. y.parsers[pt] = mime /\ \A u \in Pts : u # pt => y.parsers[u] = x.parsers[u]
    BY <1>1, <1>2
  <2>3. y.inits = [x.inits EXCEPT ![pt] = f]
    BY <1>2, <2>1
  <2>4. y.inits[pt] = f /\ \A u \in Pts : u # pt => y.inits[u] = x.inits[u]
    BY <1>1, <2>3
  <2>5. QED
    BY <2>1, <2>2, <2>4 DEF MatchingOf, MatchesAt
<1>3. CASE mime \notin Served
  <2>1. y.parsers = x.parsers /\ y.inits = x.inits
    BY <1>3
  <2>2. QED
    BY <1>3, <2>1 DEF MatchingOf, MatchesAt
<1>4. QED
  BY <1>2, <1>3

LEMMA MatchingKept ==
  ASSUME MadeFirst, OInv, Tables, MatchingIn(sess, def), NEW p \in Presentations, StepOf(p)
  PROVE  MatchingIn(sess', def')
<1>1. Types /\ Cursor /\ OwnersIn(sess, def) /\ sess \in AllSessions
  BY DEF OInv, Types
<1>2. CASE sess' = sess /\ \A r \in DOMAIN def : def'[r].name = def[r].name
  BY <1>2, StillMatching DEF MatchingIn
<1>3. CASE sess' = sess /\ def' = def
  BY <1>3
<1>4. CASE \/ ClearInits(p) \/ FillInits(p) \/ Describe(p) \/ NextMedium(p) \/ Start(p) \/ NextSession(p) \/ Run(p)
           \/ Drop(p) \/ Close(p) \/ Closed(p)
  BY <1>3, <1>4 DEF ClearInits, FillInits, Describe, NextMedium, Start, NextSession, Run, Drop, Close, Closed
<1>5. CASE NewMedium(p)
  <2>1. def' = def
    BY <1>1, <1>5, SetsUp
  <2>2. PICK x \in Sessions : /\ Adds(sess, sess', p, x)
                              /\ \A pt \in Pts : x.ptdefs[pt] = IF pt \in Standard THEN pt ELSE Null
                              /\ x.parsers = parsers /\ x.inits = inits
    BY <1>1, <1>5, SetsUp
  <2>3. phase[p] \notin Early
    BY <1>5 DEF NewMedium, Describing, At, Early
  <2>4. Filled
    BY <2>3, TablesFilled
  <2>5. \A pt \in Pts : /\ x.parsers[pt] = StaticParser(pt)
                        /\ x.inits[pt] = IF StaticParser(pt) \in Full THEN StaticParser(pt) ELSE Null
    BY <2>2, <2>4 DEF Filled
  <2>6. \A pt \in Dynamic : x.ptdefs[pt] = Null
    BY <2>2, Numbers
  <2>7. MatchingOf(x, def)
    BY <2>5, <2>6 DEF MatchingOf, MatchesAt
  <2>8. ASSUME NEW q \in Presentations, NEW n \in DOMAIN sess'[q]
        PROVE  MatchingOf(sess'[q][n], def)
    <3>1. CASE q = p
      <4>1. sess[p] \in Seq(Sessions)
        BY <1>1 DEF AllSessions
      <4>2. PICK l \in Nat : l = Len(sess[p]) /\ DOMAIN sess[p] = 1 .. l
        BY <4>1
      <4>3. n \in DOMAIN sess[p] \/ n = l + 1
        BY <2>2, <2>8, <3>1, <4>2 DEF Adds
      <4>4. QED
        BY <2>2, <2>7, <3>1, <4>2, <4>3 DEF Adds, MatchingIn
    <3>2. CASE q # p
      BY <2>2, <3>2 DEF Adds, MatchingIn
    <3>3. QED
      BY <3>1, <3>2
  <2>9. QED
    BY <2>1, <2>8 DEF MatchingIn
<1>6. CASE Announce(p) \/ Med(p)
  <2>1. ASSUME NEW pt \in Pts, Announced(p, pt) PROVE MatchingIn(sess', def')
    <3>1. PICK m \in DOMAIN sess[p] : m = pos[p].m
      BY <2>1 DEF Announced
    <3>2. PICK a : AnnouncesTo(sess, sess', p, m, pt, a)
      BY <2>1, <3>1 DEF Announced
    <3>3. \A r \in DOMAIN def : def'[r].name = def[r].name
      BY <2>1 DEF Announced, Replaces
    <3>4. PICK x : x = sess[p][m]
      OBVIOUS
    <3>5. PICK y : y = sess'[p][m]
      OBVIOUS
    <3>6. x \in Sessions /\ MatchingOf(x, def')
      BY <1>1, <3>3, <3>4, StillMatching, References
    <3>7. MatchingOf(y, def')
      <4>1. CASE pt \in Dynamic
        <5>1. AnnouncesTo(sess, sess', p, m, pt, NewAddr) /\ Replaces(def, def', sess[p][m].ptdefs[pt], NewAddr)
          BY <2>1, <3>1, <4>1 DEF Announced
        <5>2. PICK b : b = NewAddr
          OBVIOUS
        <5>3. b \in Nat /\ def'[b].name = ""
          BY <5>1, <5>2, NewDefinition DEF Replaces
        <5>4. y.ptdefs = [x.ptdefs EXCEPT ![pt] = b] /\ y.parsers = x.parsers /\ y.inits = x.inits
          BY <3>4, <3>5, <5>1, <5>2 DEF AnnouncesTo
        <5>5. QED
          BY <3>6, <4>1, <5>3, <5>4, AnnouncedMatching
      <4>2. CASE pt \notin Dynamic
        <5>1. AnnouncesTo(sess, sess', p, m, pt, sess[p][m].ptdefs[pt])
          BY <2>1, <3>1, <4>2 DEF Announced
        <5>2. y.ptdefs = [x.ptdefs EXCEPT ![pt] = x.ptdefs[pt]] /\ y.parsers = x.parsers /\ y.inits = x.inits
          BY <3>4, <3>5, <5>1 DEF AnnouncesTo
        <5>3. x.ptdefs \in [Pts -> Nat \cup {Null}]
          BY <3>6 DEF Sessions
        <5>4. y.ptdefs = x.ptdefs
          BY <5>2, <5>3
        <5>5. QED
          BY <3>6, <5>2, <5>4 DEF MatchingOf, MatchesAt
      <4>3. QED
        BY <4>1, <4>2
    <3>8. ASSUME NEW q \in Presentations, NEW n \in DOMAIN sess'[q] PROVE MatchingOf(sess'[q][n], def')
      <4>1. n \in DOMAIN sess[q]
        BY <3>2 DEF AnnouncesTo, SameBut
      <4>2. CASE q = p /\ n = m
        BY <3>5, <3>7, <4>2
      <4>3. CASE ~(q = p /\ n = m)
        <5>1. sess'[q][n] = sess[q][n]
          BY <3>2, <4>1, <4>3 DEF AnnouncesTo, SameBut
        <5>2. MatchingOf(sess[q][n], def')
          BY <3>3, <4>1, StillMatching
        <5>3. QED
          BY <5>1, <5>2
      <4>4. QED
        BY <4>2, <4>3
    <3>9. QED
      BY <3>8 DEF MatchingIn
  <2>2. QED
    BY <1>1, <1>3, <1>6, <2>1, AnnouncesOne
<1>7. CASE Rtpmap(p)
  <2>1. ASSUME NEW pt \in Dynamic, NEW r \in DOMAIN def, pos[p].m \in DOMAIN sess[p], r = sess[p][pos[p].m].ptdefs[pt], r # Null,
               Updates(def, def', r), def'[r].name = Attribute(p).value,
               RegistersTo(sess, sess', p, pos[p].m, pt, Attribute(p).value), def'[r].name # "invalid"
        PROVE  MatchingIn(sess', def')
    <3>1. PICK m \in DOMAIN sess[p] : m = pos[p].m
      BY <2>1
    <3>2. PICK mime : mime = Attribute(p).value
      OBVIOUS
    <3>3. mime \in Served \cup {"unknown"}
      BY <1>1, <1>7, <2>1, <3>2, AttributeIs DEF Rtpmap
    <3>4. PICK x, y : x = sess[p][m] /\ y = sess'[p][m]
      OBVIOUS
    <3>5. x \in Sessions /\ MatchingOf(x, def)
      BY <1>1, <3>4, References, Numbers DEF MatchingIn
    <3>6. ASSUME NEW q \in Presentations, NEW n \in DOMAIN sess[q], NEW u \in Dynamic,
                 ~(q = p /\ n = m /\ u = pt), sess[q][n].ptdefs[u] # Null
          PROVE  def'[sess[q][n].ptdefs[u]].name = def[sess[q][n].ptdefs[u]].name
      <4>1. sess[q][n].ptdefs[u] # r
        <5>1. OneOwnerIn(sess)
          BY <1>1 DEF OwnersIn
        <5>2. sess[p][m].ptdefs[pt] = r
          BY <2>1, <3>1
        <5>3. QED
          BY <3>6, <5>1, <5>2 DEF OneOwnerIn
      <4>2. sess[q][n].ptdefs[u] \in DOMAIN def
        BY <1>1, <3>6 DEF OwnersIn, LiveIn
      <4>3. def'[sess[q][n].ptdefs[u]] = def[sess[q][n].ptdefs[u]]
        BY <2>1, <4>1, <4>2 DEF Updates
      <4>4. QED
        BY <4>3
    <3>7. MatchingOf(y, def')
      <4>1. \A u \in Pts \ {pt} : u \in Dynamic /\ x.ptdefs[u] # Null => def'[x.ptdefs[u]].name = def[x.ptdefs[u]].name
        BY <3>4, <3>6
      <4>2. \A u \in Pts : MatchesAt(x, def, u)
        BY <3>5 DEF MatchingOf
      <4>3. \A u \in Pts \ {pt} : MatchesAt(x, def', u)
        BY <4>1, <4>2 DEF MatchesAt
      <4>4. /\ y.ptdefs = x.ptdefs
            /\ y.parsers = IF mime \in Served THEN [x.parsers EXCEPT ![pt] = mime] ELSE x.parsers
            /\ y.inits = IF mime \in Served THEN [x.inits EXCEPT ![pt] = IF mime \in Full THEN mime ELSE Null]
                         ELSE x.inits
        BY <2>1, <3>1, <3>2, <3>4 DEF RegistersTo
      <4>5. def'[x.ptdefs[pt]].name = mime
        BY <2>1, <3>1, <3>2, <3>4
      <4>6. x.inits[pt] = IF x.parsers[pt] \in Full THEN x.parsers[pt] ELSE Null
        BY <4>2, Numbers DEF MatchesAt
      <4>7. QED
        BY <3>3, <3>5, <4>3, <4>4, <4>5, <4>6, RegisteredMatching
    <3>8. ASSUME NEW q \in Presentations, NEW n \in DOMAIN sess'[q] PROVE MatchingOf(sess'[q][n], def')
      <4>1. n \in DOMAIN sess[q]
        BY <2>1 DEF RegistersTo, SameBut
      <4>2. CASE q = p /\ n = m
        BY <3>4, <3>7, <4>2
      <4>3. CASE ~(q = p /\ n = m)
        <5>1. sess'[q][n] = sess[q][n]
          BY <2>1, <3>1, <4>1, <4>3 DEF RegistersTo, SameBut
        <5>2. MatchingOf(sess[q][n], def)
          BY <4>1 DEF MatchingIn
        <5>3. \A u \in Dynamic : sess[q][n].ptdefs[u] # Null =>
                def'[sess[q][n].ptdefs[u]].name = def[sess[q][n].ptdefs[u]].name
          BY <3>6, <4>1, <4>3
        <5>4. MatchingOf(sess[q][n], def')
          BY <5>2, <5>3 DEF MatchingOf, MatchesAt
        <5>5. QED
          BY <5>1, <5>4
      <4>4. QED
        BY <4>2, <4>3
    <3>9. QED
      BY <3>8 DEF MatchingIn
  <2>2. Attribute(p).value # "invalid" \/ (sess' = sess /\ def' = def)
    BY <1>7 DEF Rtpmap
  <2>3. QED
    BY <1>1, <1>3, <1>7, <2>1, <2>2, Registers
<1>8. CASE Fmtp(p)
  <2>1. PICK r : r = sess[p][pos[p].m].ptdefs[Attribute(p).pt]
    OBVIOUS
  <2>2. sess' = sess /\ (def' = def \/ (Updates(def, def', r) /\ def'[r].name = def[r].name))
    BY <1>1, <1>8, <2>1, Describes DEF GetsAttribute
  <2>3. \A x \in DOMAIN def : def'[x].name = def[x].name
    BY <2>2 DEF Updates
  <2>4. QED
    BY <1>2, <2>2, <2>3
<1>9. CASE InitNext(p)
  <2>1. sess' = sess /\ (def' = def \/ \E r \in DOMAIN def : Updates(def, def', r) /\ def'[r].name = def[r].name)
    BY <1>1, <1>9, Initialises
  <2>2. \A x \in DOMAIN def : def'[x].name = def[x].name
    BY <2>1 DEF Updates
  <2>3. QED
    BY <1>2, <2>1, <2>2
<1>10. CASE Clean(p) \/ Forget(p)
  <2>1. Drops(sess, sess', p) /\ (def' = def \/ \E refs, dyn : Cleans(def, def', refs, dyn))
    BY <1>1, <1>10, CleansUp, Forgets
  <2>2. \A r \in DOMAIN def : def'[r].name = def[r].name
    BY <2>1 DEF Cleans
  <2>3. ASSUME NEW q \in Presentations, NEW n \in DOMAIN sess'[q] PROVE MatchingOf(sess'[q][n], def')
    <3>1. PICK k \in DOMAIN sess[q] : sess'[q][n] = sess[q][k]
      BY <2>1 DEF Drops
    <3>2. MatchingOf(sess[q][k], def')
      BY <2>2, StillMatching
    <3>3. QED
      BY <3>1, <3>2
  <2>4. QED
    BY <2>3 DEF MatchingIn
<1>11. QED
  BY <1>4, <1>5, <1>6, <1>7, <1>8, <1>9, <1>10 DEF StepOf
LEMMA AnnouncedKept ==
  ASSUME OInv, AnnouncedIn(sess), NEW p \in Presentations, StepOf(p)
  PROVE  AnnouncedIn(sess')
<1>1. Types /\ Cursor /\ OwnersIn(sess, def) /\ sess \in AllSessions
  BY DEF OInv, Types
<1>2. CASE sess' = sess
  BY <1>2
<1>3. CASE \/ ClearInits(p) \/ FillInits(p) \/ Describe(p) \/ NextMedium(p) \/ Start(p) \/ NextSession(p) \/ Run(p)
           \/ Drop(p) \/ Close(p) \/ Closed(p) \/ Fmtp(p) \/ InitNext(p)
  BY <1>2, <1>3 DEF ClearInits, FillInits, Describe, NextMedium, Start, NextSession, Run, Drop, Close, Closed, Fmtp, InitNext
<1>4. CASE NewMedium(p)
  <2>1. PICK x \in Sessions : Adds(sess, sess', p, x) /\ x.announced = <<>>
    BY <1>1, <1>4, SetsUp
  <2>2. AnnouncedOf(x)
    BY <2>1 DEF AnnouncedOf
  <2>3. ASSUME NEW q \in Presentations, NEW n \in DOMAIN sess'[q]
        PROVE  AnnouncedOf(sess'[q][n])
    <3>1. CASE q = p
      <4>1. sess[p] \in Seq(Sessions)
        BY <1>1 DEF AllSessions
      <4>2. PICK l \in Nat : l = Len(sess[p]) /\ DOMAIN sess[p] = 1 .. l
        BY <4>1
      <4>3. n \in DOMAIN sess[p] \/ n = l + 1
        BY <2>1, <2>3, <3>1, <4>2 DEF Adds
      <4>4. QED
        BY <2>1, <2>2, <3>1, <4>2, <4>3 DEF Adds, AnnouncedIn
    <3>2. CASE q # p
      BY <2>1, <3>2 DEF Adds, AnnouncedIn
    <3>3. QED
      BY <3>1, <3>2
  <2>4. QED
    BY <2>3 DEF AnnouncedIn
\* A step that changes one session.
<1>5. ASSUME NEW m \in DOMAIN sess[p], SameBut(sess, sess', p, m), AnnouncedOf(sess'[p][m])
      PROVE  AnnouncedIn(sess')
  <2>1. ASSUME NEW q \in Presentations, NEW n \in DOMAIN sess'[q] PROVE AnnouncedOf(sess'[q][n])
    <3>1. n \in DOMAIN sess[q]
      BY <1>5 DEF SameBut
    <3>2. CASE q = p /\ n = m
      BY <1>5, <3>2
    <3>3. CASE ~(q = p /\ n = m)
      <4>1. sess'[q][n] = sess[q][n]
        BY <1>5, <3>1, <3>3 DEF SameBut
      <4>2. AnnouncedOf(sess[q][n])
        BY <3>1 DEF AnnouncedIn
      <4>3. QED
        BY <4>1, <4>2
    <3>4. QED
      BY <3>2, <3>3
  <2>2. QED
    BY <2>1 DEF AnnouncedIn
<1>6. CASE Announce(p) \/ Med(p)
  <2>1. ASSUME NEW pt \in Pts, Announced(p, pt) PROVE AnnouncedIn(sess')
    <3>1. PICK m \in DOMAIN sess[p] : m = pos[p].m
      BY <2>1 DEF Announced
    <3>2. PICK a : /\ AnnouncesTo(sess, sess', p, m, pt, a)
                   /\ a = IF pt \in Dynamic THEN NewAddr ELSE sess[p][m].ptdefs[pt]
      BY <2>1, <3>1 DEF Announced
    <3>3. pt \in Dynamic => a # Null
      BY <2>1, <3>2, PayloadAssumption DEF Announced, Replaces, PayloadAssumption
    <3>4. PICK x, y : x = sess[p][m] /\ y = sess'[p][m]
      OBVIOUS
    <3>5. x \in Sessions /\ AnnouncedOf(x)
      BY <1>1, <3>4, References, Numbers DEF AnnouncedIn
    <3>6. x.announced \in Seq(Pts) /\ DOMAIN x.ptdefs = Pts
      BY <3>5 DEF Sessions
    <3>7. y.announced = Append(x.announced, pt) /\ y.ptdefs = [x.ptdefs EXCEPT ![pt] = a]
      BY <3>2, <3>4 DEF AnnouncesTo
    <3>8. ASSUME NEW k \in DOMAIN y.announced, y.announced[k] \in Dynamic PROVE y.ptdefs[y.announced[k]] # Null
      <4>1. PICK l \in Nat : l = Len(x.announced) /\ DOMAIN x.announced = 1 .. l
        BY <3>6
      <4>2. k \in 1 .. l + 1 /\ (k \in 1 .. l => y.announced[k] = x.announced[k]) /\ (k = l + 1 => y.announced[k] = pt)
        BY <3>6, <3>7, <4>1
      <4>3. CASE y.announced[k] = pt
        BY <3>3, <3>6, <3>7, <3>8, <4>3
      <4>4. CASE y.announced[k] # pt
        <5>1. k \in 1 .. l /\ y.announced[k] = x.announced[k]
          BY <4>2, <4>4
        <5>2. x.ptdefs[x.announced[k]] # Null /\ x.announced[k] \in Pts
          BY <3>5, <3>6, <3>8, <4>1, <5>1 DEF AnnouncedOf
        <5>3. QED
          BY <3>6, <3>7, <4>4, <5>1, <5>2
      <4>5. QED
        BY <4>3, <4>4
    <3>9. AnnouncedOf(y)
      BY <3>8 DEF AnnouncedOf
    <3>10. SameBut(sess, sess', p, m)
      BY <3>2 DEF AnnouncesTo
    <3>11. QED
      BY <1>5, <3>4, <3>9, <3>10
  <2>2. QED
    BY <1>1, <1>2, <1>6, <2>1, AnnouncesOne
<1>7. CASE Rtpmap(p)
  <2>1. ASSUME NEW m \in DOMAIN sess[p], NEW pt, RegistersTo(sess, sess', p, m, pt, Attribute(p).value)
        PROVE  AnnouncedIn(sess')
    <3>1. AnnouncedOf(sess[p][m])
      BY DEF AnnouncedIn
    <3>2. AnnouncedOf(sess'[p][m])
      BY <2>1, <3>1 DEF RegistersTo, AnnouncedOf
    <3>3. QED
      BY <1>5, <2>1, <3>2 DEF RegistersTo
  <2>2. QED
    BY <1>1, <1>2, <1>7, <2>1, Registers
<1>8. CASE Clean(p) \/ Forget(p)
  <2>1. Drops(sess, sess', p)
    BY <1>1, <1>8, CleansUp, Forgets
  <2>2. ASSUME NEW q \in Presentations, NEW n \in DOMAIN sess'[q] PROVE AnnouncedOf(sess'[q][n])
    <3>1. PICK k \in DOMAIN sess[q] : sess'[q][n] = sess[q][k]
      BY <2>1 DEF Drops
    <3>2. QED
      BY <3>1 DEF AnnouncedIn
  <2>3. QED
    BY <2>2 DEF AnnouncedIn
<1>9. QED
  BY <1>3, <1>4, <1>6, <1>7, <1>8 DEF StepOf

\* Session m of p has announced pt, whose parser has private data.
Parsed(p, m, pt) ==
  /\ p \in Presentations /\ m \in DOMAIN sess[p] /\ sess[p][m].parsers[pt] \in Full
  /\ \E k \in DOMAIN sess[p][m].announced : pt = sess[p][m].announced[k]

HasLive(p, m, pt) ==
  /\ pt \in Pts /\ sess[p][m].ptdefs[pt] # Null /\ sess[p][m].ptdefs[pt] \in DOMAIN def
  /\ def[sess[p][m].ptdefs[pt]].live
  /\ pt \notin Dynamic => pt \in Standard /\ sess[p][m].ptdefs[pt] = pt /\ sess[p][m].parsers[pt] = StaticParser(pt)

\* An announced type whose parser has private data has a definition to put them in.
LEMMA ParsedHas ==
  ASSUME OInv, MatchingIn(sess, def), AnnouncedIn(sess), NEW p, NEW m, NEW pt, Parsed(p, m, pt)
  PROVE  HasLive(p, m, pt)
<1>0. SUFFICES ASSUME p \in Presentations, m \in DOMAIN sess[p], sess[p][m].parsers[pt] \in Full,
                      NEW k \in DOMAIN sess[p][m].announced, pt = sess[p][m].announced[k]
               PROVE  HasLive(p, m, pt)
  BY DEF Parsed
<1> USE <1>0 DEF HasLive
<1>1. sess[p][m] \in Sessions
  <2>1. sess[p] \in Seq(Sessions)
    BY DEF OInv, Types, AllSessions
  <2>2. QED
    BY <2>1
<1>2. pt \in Pts
  <2>1. sess[p][m].announced \in Seq(Pts)
    BY <1>1 DEF Sessions
  <2>2. QED
    BY <2>1
<1>3. CASE pt \in Dynamic
  <2>1. AnnouncedOf(sess[p][m])
    BY DEF AnnouncedIn
  <2>2. sess[p][m].ptdefs[pt] # Null
    BY <1>3, <2>1 DEF AnnouncedOf
  <2>3. QED
    BY <1>2, <1>3, <2>2, References DEF OInv
<1>4. CASE pt \notin Dynamic
  <2>1. sess[p][m].parsers[pt] = StaticParser(pt)
    BY <1>2, <1>4 DEF MatchingIn, MatchingOf, MatchesAt
  <2>2. pt \in Standard
    BY <1>2, <2>1, PayloadAssumption DEF PayloadAssumption
  <2>3. sess[p][m].ptdefs[pt] = pt
    BY <1>2, <1>4, <2>2 DEF OInv, OwnersIn, SharedIn
  <2>4. sess[p][m].ptdefs[pt] # Null
    BY <2>2, <2>3, Numbers
  <2>5. QED
    BY <1>2, <1>4, <2>1, <2>2, <2>3, <2>4, References DEF OInv
<1>5. QED
  BY <1>3, <1>4

LEMMA HasDefinition ==
  ASSUME OInv, MatchingIn(sess, def), AnnouncedIn(sess), NEW p \in Presentations, NEW m \in DOMAIN sess[p],
         NEW k \in DOMAIN sess[p][m].announced, NEW pt, pt = sess[p][m].announced[k],
         sess[p][m].parsers[pt] \in Full
  PROVE  /\ pt \in Pts /\ sess[p][m].ptdefs[pt] # Null /\ sess[p][m].ptdefs[pt] \in DOMAIN def
         /\ def[sess[p][m].ptdefs[pt]].live
         /\ pt \notin Dynamic => pt \in Standard /\ sess[p][m].ptdefs[pt] = pt /\ sess[p][m].parsers[pt] = StaticParser(pt)
<1>1. Parsed(p, m, pt)
  BY DEF Parsed
<1>2. HasLive(p, m, pt)
  BY <1>1, ParsedHas
<1>3. QED
  BY <1>2 DEF HasLive

\* The definitions keep their private data; and their attributes.
PrivKept == \A r \in DOMAIN def : r \in DOMAIN def' /\ def'[r].priv = def[r].priv

DataKept ==
  \A r \in DOMAIN def : r \in DOMAIN def' /\ def'[r].data = def[r].data /\ def'[r].allocated = def[r].allocated

\* What a step leaves alone: the other presentations, all private data unless it
\* initialises a parser, and all attributes unless it applies one.
LEMMA OthersKept ==
  ASSUME OInv, NEW p \in Presentations, StepOf(p)
  PROVE  /\ OnlyOf(p)
         /\ \A q \in Presentations : q # p => sess'[q] = sess[q]
         /\ InitNext(p) \/ PrivKept
         /\ Fmtp(p) \/ DataKept
         /\ phase'[p] \in {"start", "play"} => Start(p) \/ InitNext(p) \/ NextSession(p) \/ Run(p)
<1>1. Types /\ Cursor /\ OwnersIn(sess, def)
  BY DEF OInv
<1>2. def' = def => PrivKept /\ DataKept
  BY DEF PrivKept, DataKept
<1>3. CASE \/ ClearInits(p) \/ FillInits(p) \/ Describe(p) \/ NextMedium(p) \/ Start(p) \/ NextSession(p) \/ Run(p)
           \/ Drop(p) \/ Close(p) \/ Closed(p)
  <2>1. sess' = sess /\ def' = def
    BY <1>3 DEF ClearInits, FillInits, Describe, NextMedium, Start, NextSession, Run, Drop, Close, Closed
  <2>2. CASE \/ ClearInits(p) \/ FillInits(p) \/ Describe(p) \/ Drop(p) \/ Close(p) \/ Closed(p)
    <3>1. \E ph \in {"cleared", "made", "describe", "dropped", "close", "closed"} :
            Moves(p, ph) /\ (pos' = pos \/ pos' = [pos EXCEPT ![p] = Begin])
      BY <2>2 DEF ClearInits, FillInits, Describe, Drop, Close, Closed
    <3>2. OnlyOf(p) /\ phase'[p] \in {"cleared", "made", "describe", "dropped", "close", "closed"}
      BY <1>1, <3>1, MovesOn, PhasesAre
    <3>3. QED
      BY <1>2, <2>1, <3>2
  <2>3. CASE NextMedium(p)
    <3>1. OnlyOf(p) /\ phase'[p] = "describe"
      BY <1>1, <2>3, MovesOn DEF NextMedium, Describing, At
    <3>2. QED
      BY <1>2, <2>1, <3>1
  <2>4. CASE Start(p)
    <3>1. OnlyOf(p)
      BY <1>1, <2>4, MovesOn, PhasesAre DEF Start
    <3>2. QED
      BY <1>2, <2>1, <2>4, <3>1
  <2>5. CASE NextSession(p)
    <3>1. OnlyOf(p)
      BY <1>1, <2>5, MovesOn DEF NextSession
    <3>2. QED
      BY <1>2, <2>1, <2>5, <3>1
  <2>6. CASE Run(p)
    <3>1. OnlyOf(p)
      BY <1>1, <2>6, MovesOn, PhasesAre DEF Run
    <3>2. QED
      BY <1>2, <2>1, <2>6, <3>1
  <2>7. QED
    BY <1>3, <2>2, <2>3, <2>4, <2>5, <2>6
\* In set_rtsp_media the thread goes on, or its description is refused.
<1>4. ASSUME Describing(p), Done(p) \/ MediumDone(p) \/ Refused(p)
      PROVE  OnlyOf(p) /\ phase'[p] \notin {"start", "play"}
  <2>1. phase[p] = "describe"
    BY <1>4 DEF Describing, At
  <2>2. CASE Done(p) \/ MediumDone(p)
    BY <1>1, <2>1, <2>2, MovesOn
  <2>3. CASE Refused(p)
    BY <1>1, <2>3, MovesOn, PhasesAre DEF Refused
  <2>4. QED
    BY <1>4, <2>2, <2>3
<1>5. CASE NewMedium(p)
  <2>1. Done(p) /\ def' = def /\ \E x : Adds(sess, sess', p, x)
    BY <1>1, <1>5, SetsUp
  <2>2. Describing(p)
    BY <1>5 DEF NewMedium
  <2>3. QED
    BY <1>2, <1>4, <2>1, <2>2 DEF Adds
<1>6. CASE Announce(p) \/ Med(p)
  <2>1. Describing(p)
    BY <1>1, <1>6, AnnouncesOne
  <2>2. CASE Refused(p) /\ def' = def /\ sess' = sess
    BY <1>2, <1>4, <2>1, <2>2
  <2>3. ASSUME NEW pt \in Pts, Announced(p, pt)
        PROVE  /\ OnlyOf(p) /\ phase'[p] \notin {"start", "play"}
               /\ \A q \in Presentations : q # p => sess'[q] = sess[q]
               /\ PrivKept /\ DataKept
    <3>1. Done(p)
      BY <2>3 DEF Announced
    <3>2. \E a : AnnouncesTo(sess, sess', p, pos[p].m, pt, a)
      BY <2>3 DEF Announced
    <3>3. def' = def \/ \E old, a : Replaces(def, def', old, a)
      BY <2>3 DEF Announced
    <3>4. PrivKept /\ DataKept
      BY <3>3 DEF Replaces, PrivKept, DataKept
    <3>5. \A q \in Presentations : q # p => sess'[q] = sess[q]
      BY <3>2 DEF AnnouncesTo, SameBut
    <3>6. QED
      BY <1>4, <2>1, <3>1, <3>4, <3>5
  <2>4. QED
    BY <1>1, <1>6, <2>2, <2>3, AnnouncesOne
<1>7. CASE Rtpmap(p)
  <2>1. Describing(p)
    BY <1>7 DEF Rtpmap, AtAttribute
  <2>2. CASE def' = def /\ sess' = sess /\ (Refused(p) \/ MediumDone(p) \/ Done(p))
    BY <1>2, <1>4, <2>1, <2>2
  <2>3. ASSUME NEW pt \in Dynamic, NEW r \in DOMAIN def, Done(p), Updates(def, def', r), def'[r].priv = def[r].priv,
               def'[r].data = def[r].data, def'[r].allocated = def[r].allocated,
               RegistersTo(sess, sess', p, pos[p].m, pt, Attribute(p).value)
        PROVE  /\ OnlyOf(p) /\ phase'[p] \notin {"start", "play"}
               /\ \A q \in Presentations : q # p => sess'[q] = sess[q]
               /\ PrivKept /\ DataKept
    <3>1. PrivKept /\ DataKept
      BY <2>3 DEF Updates, PrivKept, DataKept
    <3>2. \A q \in Presentations : q # p => sess'[q] = sess[q]
      BY <2>3 DEF RegistersTo, SameBut
    <3>3. QED
      BY <1>4, <2>1, <2>3, <3>1, <3>2
  <2>4. QED
    BY <1>1, <1>7, <2>2, <2>3, Registers
<1>8. CASE Fmtp(p)
  <2>1. Describing(p) /\ Done(p) /\ sess' = sess
    BY <1>1, <1>8, Describes DEF Fmtp, AtAttribute
  <2>2. PICK r : r = sess[p][pos[p].m].ptdefs[Attribute(p).pt]
    OBVIOUS
  <2>3. def' = def \/ (Updates(def, def', r) /\ def'[r].priv = def[r].priv)
    BY <1>1, <1>8, <2>2, Describes DEF GetsAttribute
  <2>4. PrivKept
    BY <2>3 DEF Updates, PrivKept
  <2>5. QED
    BY <1>4, <1>8, <2>1, <2>4
<1>9. CASE InitNext(p)
  <2>1. sess' = sess /\ (Done(p) \/ (Moves(p, "failed") /\ pos' = pos))
    BY <1>1, <1>9, Initialises
  <2>2. OnlyOf(p)
    BY <1>1, <2>1, MovesOn, PhasesAre
  <2>3. def' = def \/ \E r \in DOMAIN def : /\ Updates(def, def', r) /\ def'[r].data = def[r].data
                                           /\ def'[r].allocated = def[r].allocated
    BY <1>1, <1>9, Initialises
  <2>4. DataKept
    BY <2>3 DEF Updates, DataKept
  <2>5. QED
    BY <1>9, <2>1, <2>2, <2>4
<1>10. CASE Clean(p) \/ Forget(p)
  <2>1. pos' = pos /\ phase' = phase /\ phase[p] \in {"close", "dropped"}
    BY <1>10 DEF Clean, Forget, At
  <2>2. OnlyOf(p)
    BY <1>1, <2>1 DEF OnlyOf, Types, Positions
  <2>3. Drops(sess, sess', p) /\ (def' = def \/ \E refs, dyn : Cleans(def, def', refs, dyn))
    BY <1>1, <1>10, CleansUp, Forgets
  <2>4. PrivKept /\ DataKept
    BY <2>3 DEF Cleans, PrivKept, DataKept
  <2>5. \A q \in Presentations : q # p => sess'[q] = sess[q]
    BY <2>3 DEF Drops
  <2>6. QED
    BY <2>1, <2>2, <2>4, <2>5
<1>11. QED
  BY <1>3, <1>5, <1>6, <1>7, <1>8, <1>9, <1>10 DEF StepOf

\* A definition that two places have is in one place.
LEMMA OneOwnerOf ==
  ASSUME NEW s, OneOwnerIn(s), NEW p \in Presentations, NEW q \in Presentations,
         NEW m \in DOMAIN s[p], NEW n \in DOMAIN s[q], NEW pt \in Dynamic, NEW u \in Dynamic,
         NEW r, r # Null, s[p][m].ptdefs[pt] = r, s[q][n].ptdefs[u] = r
  PROVE  q = p /\ n = m /\ u = pt
<1>1. s[p][m].ptdefs[pt] # Null /\ s[p][m].ptdefs[pt] = s[q][n].ptdefs[u]
  OBVIOUS
<1>2. \A k \in DOMAIN s[p], l \in DOMAIN s[q] : \A i, j \in Dynamic :
        s[p][k].ptdefs[i] # Null /\ s[p][k].ptdefs[i] = s[q][l].ptdefs[j] => p = q /\ k = l /\ i = j
  BY DEF OneOwnerIn
<1>3. QED
  BY <1>1, <1>2

\* Two announced types with one definition have one parser.
LEMMA SameParser ==
  ASSUME OInv, MatchingIn(sess, def), AnnouncedIn(sess),
         NEW p, NEW m, NEW pt, Parsed(p, m, pt), NEW q, NEW n, NEW u, Parsed(q, n, u),
         sess[q][n].ptdefs[u] = sess[p][m].ptdefs[pt]
  PROVE  sess[q][n].parsers[u] = sess[p][m].parsers[pt]
<1>1. /\ pt \in Pts /\ sess[p][m].ptdefs[pt] # Null
      /\ pt \notin Dynamic => pt \in Standard /\ sess[p][m].ptdefs[pt] = pt /\ sess[p][m].parsers[pt] = StaticParser(pt)
  <2>1. HasLive(p, m, pt)
    BY ParsedHas
  <2>2. QED
    BY <2>1 DEF HasLive
<1>2. /\ u \in Pts /\ sess[q][n].ptdefs[u] # Null
      /\ u \notin Dynamic => u \in Standard /\ sess[q][n].ptdefs[u] = u /\ sess[q][n].parsers[u] = StaticParser(u)
  <2>1. HasLive(q, n, u)
    BY ParsedHas
  <2>2. QED
    BY <2>1 DEF HasLive
<1>3. LiveIn(sess, def) /\ OneOwnerIn(sess)
  BY DEF OInv, OwnersIn
<1>4. pt \in Dynamic => sess[p][m].ptdefs[pt] \notin Standard
  BY <1>1, <1>3 DEF LiveIn, Parsed
<1>5. u \in Dynamic => sess[q][n].ptdefs[u] \notin Standard
  BY <1>2, <1>3 DEF LiveIn, Parsed
<1>6. CASE u \in Dynamic
  <2>1. pt \in Dynamic
    BY <1>1, <1>5, <1>6
  <2>2. p \in Presentations /\ m \in DOMAIN sess[p] /\ q \in Presentations /\ n \in DOMAIN sess[q]
    BY DEF Parsed
  <2>3. PICK r : r = sess[p][m].ptdefs[pt]
    OBVIOUS
  <2>4. r # Null /\ sess[p][m].ptdefs[pt] = r /\ sess[q][n].ptdefs[u] = r
    BY <1>1, <2>3
  <2>5. q = p /\ n = m /\ u = pt
    BY <1>3, <1>6, <2>1, <2>2, <2>4, OneOwnerOf
  <2>6. QED
    BY <2>5
<1>7. CASE u \notin Dynamic
  BY <1>1, <1>2, <1>4, <1>7
<1>8. QED
  BY <1>6, <1>7

\* An init function makes the private data of its own type and spoils no other's.
LEMMA InitialisedOne ==
  ASSUME OInv, MatchingIn(sess, def), AnnouncedIn(sess), NEW p \in Presentations, InitNext(p), Done(p)
  PROVE  /\ MadeIn(sess, def', p, pos[p].m, pos[p].i + 1)
         /\ \A q \in Presentations : \A n \in DOMAIN sess[q] : \A k \in DOMAIN sess[q][n].announced :
              MadeIn(sess, def, q, n, k) => MadeIn(sess, def', q, n, k)
<1>1. Types /\ OwnersIn(sess, def)
  BY DEF OInv
<1>2. PICK m \in DOMAIN sess[p] : m = pos[p].m
  BY <1>1, Initialises
<1>3. PICK j \in DOMAIN sess[p][m].announced : j = pos[p].i + 1
  BY <1>1, <1>2, Initialises
<1>4. PICK pt : pt = sess[p][m].announced[j]
  OBVIOUS
<1>5. PICK r : r = sess[p][m].ptdefs[pt]
  OBVIOUS
<1>6. PICK f : f = sess[p][m].inits[pt]
  OBVIOUS
<1>7. /\ pt \in Pts
      /\ \/ f = Null /\ def' = def
         \/ Moves(p, "failed") /\ def' = def
         \/ f # Null /\ r = Null /\ def' = def
         \/ f # Null /\ r # Null /\ Updates(def, def', r) /\ def'[r].priv.format = f
  BY <1>1, <1>2, <1>3, <1>4, <1>5, <1>6, Initialises
<1>8. ~Moves(p, "failed")
  <2>1. phase' = phase
    BY DEF Done
  <2>2. phase[p] = "start"
    BY <1>1, Initialises
  <2>3. Moves(p, "failed") => phase'[p] = "failed"
    BY <1>1 DEF Moves, Types
  <2>4. QED
    BY <2>1, <2>2, <2>3
<1>9. f = IF sess[p][m].parsers[pt] \in Full THEN sess[p][m].parsers[pt] ELSE Null
  BY <1>6, <1>7 DEF MatchingIn, MatchingOf, MatchesAt
<1>10. sess[p][m].parsers[pt] \in Full => r # Null
  BY <1>4, <1>5, HasDefinition
<1>11. MadeIn(sess, def', p, m, j)
  <2>1. SUFFICES ASSUME sess[p][m].parsers[pt] \in Full
                 PROVE  def'[r].priv.format = sess[p][m].parsers[pt]
    BY <1>4, <1>5 DEF MadeIn
  <2>2. f = sess[p][m].parsers[pt] /\ f # Null
    BY <1>9, <2>1, PayloadAssumption DEF PayloadAssumption
  <2>3. QED
    BY <1>7, <1>8, <1>10, <2>1, <2>2
<1>12. ASSUME NEW q \in Presentations, NEW n \in DOMAIN sess[q], NEW k \in DOMAIN sess[q][n].announced,
              MadeIn(sess, def, q, n, k)
       PROVE  MadeIn(sess, def', q, n, k)
  <2>1. PICK u : u = sess[q][n].announced[k]
    OBVIOUS
  <2>2. SUFFICES ASSUME sess[q][n].parsers[u] \in Full
                 PROVE  def'[sess[q][n].ptdefs[u]].priv.format = sess[q][n].parsers[u]
    BY <2>1 DEF MadeIn
  <2>3. PICK x : x = sess[q][n].ptdefs[u]
    OBVIOUS
  <2>4. x \in DOMAIN def /\ def[x].priv.format = sess[q][n].parsers[u]
    BY <1>12, <2>1, <2>2, <2>3, HasDefinition DEF MadeIn
  <2>5. CASE def' = def
    BY <2>3, <2>4, <2>5
  <2>6. CASE f # Null /\ r # Null /\ Updates(def, def', r) /\ def'[r].priv.format = f
    <3>1. CASE x = r
      <4>1. sess[p][m].parsers[pt] \in Full /\ f = sess[p][m].parsers[pt]
        BY <1>9, <2>6
      <4>2. sess[q][n].parsers[u] = sess[p][m].parsers[pt]
        <5>1. sess[q][n].ptdefs[u] = sess[p][m].ptdefs[pt]
          BY <1>5, <2>3, <3>1
        <5>2. Parsed(p, m, pt)
          BY <1>4, <4>1 DEF Parsed
        <5>3. Parsed(q, n, u)
          BY <2>1, <2>2 DEF Parsed
        <5>4. QED
          BY <5>1, <5>2, <5>3, SameParser
      <4>3. QED
        BY <2>3, <2>6, <3>1, <4>1, <4>2
    <3>2. CASE x # r
      <4>1. def'[x] = def[x]
        BY <2>4, <2>6, <3>2 DEF Updates
      <4>2. QED
        BY <2>3, <2>4, <4>1
    <3>3. QED
      BY <3>1, <3>2
  <2>7. QED
    BY <1>7, <1>8, <2>5, <2>6
<1>13. QED
  BY <1>2, <1>3, <1>11, <1>12

LEMMA InitedKept ==
  ASSUME OInv, MatchingIn(sess, def), AnnouncedIn(sess), Inited, NEW p \in Presentations, StepOf(p)
  PROVE  Inited'
<1>1. /\ OnlyOf(p)
      /\ \A q \in Presentations : q # p => sess'[q] = sess[q]
      /\ InitNext(p) \/ PrivKept
      /\ phase'[p] \in {"start", "play"} => Start(p) \/ InitNext(p) \/ NextSession(p) \/ Run(p)
  BY OthersKept
<1>2. Types /\ OwnersIn(sess, def) /\ pos \in Positions
  BY DEF OInv, Types, Positions
\* What was made stays.
<1>3. ASSUME NEW q \in Presentations, sess'[q] = sess[q], ~InitNext(p) \/ Done(p) \/ Moves(p, "failed"),
             NEW n \in DOMAIN sess[q], NEW k \in DOMAIN sess[q][n].announced, MadeIn(sess, def, q, n, k)
      PROVE  MadeIn(sess', def', q, n, k)
  <2>1. CASE ~InitNext(p) \/ def' = def
    <3>1. PICK u : u = sess[q][n].announced[k]
      OBVIOUS
    <3>2. SUFFICES ASSUME sess[q][n].parsers[u] \in Full
                   PROVE  def'[sess[q][n].ptdefs[u]].priv.format = sess[q][n].parsers[u]
      BY <1>3, <3>1 DEF MadeIn
    <3>3. sess[q][n].ptdefs[u] \in DOMAIN def
      BY <3>1, <3>2, HasDefinition
    <3>4. def'[sess[q][n].ptdefs[u]].priv = def[sess[q][n].ptdefs[u]].priv
      BY <1>1, <2>1, <3>3 DEF PrivKept
    <3>5. QED
      BY <1>3, <3>1, <3>2, <3>4 DEF MadeIn
  <2>2. CASE InitNext(p) /\ Done(p)
    <3>1. MadeIn(sess, def', q, n, k)
      BY <1>3, <2>2, InitialisedOne
    <3>2. QED
      BY <1>3, <3>1 DEF MadeIn
  <2>3. CASE InitNext(p) /\ ~Done(p)
    <3>1. def' = def
      BY <1>2, <2>3, Initialises
    <3>2. QED
      BY <2>1, <3>1
  <2>4. QED
    BY <2>1, <2>2, <2>3
<1>4. InitNext(p) => Done(p) \/ Moves(p, "failed")
  BY <1>2, Initialises
<1>5. ASSUME NEW q \in Presentations PROVE InitedOf(q)'
  <2>1. CASE q # p
    <3>1. sess'[q] = sess[q] /\ pos'[q] = pos[q] /\ phase'[q] = phase[q]
      BY <1>1, <2>1 DEF OnlyOf
    <3>2. InitedOf(q)
      BY DEF Inited
    <3>3. QED
      BY <1>3, <1>4, <3>1, <3>2 DEF InitedOf
  <2>2. CASE q = p
    <3>1. CASE phase'[p] \notin {"start", "play"}
      BY <2>2, <3>1 DEF InitedOf
    <3>2. CASE Start(p)
      <4>1. phase'[p] = "start" /\ pos'[p].m = 1 /\ pos'[p].i = 0 /\ sess' = sess
        BY <1>2, <3>2, MovesOn, PhasesAre DEF Start
      <4>2. sess[p] \in Seq(Sessions)
        BY <1>2 DEF Types, AllSessions
      <4>3. ASSUME NEW n \in DOMAIN sess[p], NEW k \in DOMAIN sess[p][n].announced PROVE ~(n < 1) /\ ~(k <= 0)
        <5>1. sess[p][n].announced \in Seq(Pts)
          <6>1. sess[p][n] \in Sessions
            BY <4>2
          <6>2. QED
            BY <6>1 DEF Sessions
        <5>2. n \in Nat \ {0} /\ k \in Nat \ {0}
          BY <4>2, <5>1
        <5>3. QED
          BY <5>2
      <4>4. QED
        BY <2>2, <4>1, <4>3 DEF InitedOf
    <3>3. CASE NextSession(p)
      <4>1. /\ phase' = phase /\ phase[p] = "start" /\ sess' = sess /\ def' = def
            /\ pos'[p].m = pos[p].m + 1 /\ pos'[p].i = 0
        BY <1>2, <3>3, MovesOn DEF NextSession, Starting, At
      <4>2. sess[p] \in Seq(Sessions)
        BY <1>2 DEF Types, AllSessions
      <4>3. pos[p].m \in DOMAIN sess[p] /\ pos[p].i = Len(sess[p][pos[p].m].announced)
        BY <3>3 DEF NextSession, Starting, Session
      <4>4. ASSUME NEW n \in DOMAIN sess[p], NEW k \in DOMAIN sess[p][n].announced,
                   n < pos'[p].m \/ (n = pos'[p].m /\ k <= pos'[p].i)
            PROVE  n < pos[p].m \/ (n = pos[p].m /\ k <= pos[p].i)
        <5>1. sess[p][n].announced \in Seq(Pts)
          <6>1. sess[p][n] \in Sessions
            BY <4>2
          <6>2. QED
            BY <6>1 DEF Sessions
        <5>2. n \in Nat /\ k \in 1 .. Len(sess[p][n].announced) /\ pos[p].m \in Nat
          BY <4>2, <4>3, <5>1
        <5>3. n = pos[p].m => k <= pos[p].i
          BY <4>3, <5>2
        <5>4. n < pos[p].m \/ n = pos[p].m
          BY <4>1, <4>4, <5>2
        <5>5. QED
          BY <5>3, <5>4
      <4>5. InitedOf(p)
        BY DEF Inited
      <4>6. QED
        BY <2>2, <4>1, <4>4, <4>5 DEF InitedOf
    <3>4. CASE Run(p)
      <4>1. phase[p] = "start" /\ sess' = sess /\ def' = def /\ pos[p].m > Len(sess[p])
        BY <3>4 DEF Run, At
      <4>2. sess[p] \in Seq(Sessions)
        BY <1>2 DEF Types, AllSessions
      <4>3. \A n \in DOMAIN sess[p] : n < pos[p].m
        BY <1>2, <4>1, <4>2 DEF Positions
      <4>4. \A n \in DOMAIN sess[p] : \A k \in DOMAIN sess[p][n].announced : MadeIn(sess, def, p, n, k)
        BY <4>1, <4>3 DEF Inited, InitedOf
      <4>5. QED
        BY <2>2, <4>1, <4>4 DEF InitedOf
    <3>5. CASE InitNext(p) /\ Done(p)
      <4>1. /\ phase' = phase /\ phase[p] = "start" /\ sess' = sess
            /\ pos'[p].m = pos[p].m /\ pos'[p].i = pos[p].i + 1
        BY <1>2, <3>5, MovesOn, Initialises
      <4>2. sess[p] \in Seq(Sessions) /\ pos[p].i \in Nat
        BY <1>2 DEF Types, AllSessions, Positions
      <4>3. ASSUME NEW n \in DOMAIN sess[p], NEW k \in DOMAIN sess[p][n].announced,
                   n < pos'[p].m \/ (n = pos'[p].m /\ k <= pos'[p].i)
            PROVE  MadeIn(sess, def', p, n, k)
        <5>1. CASE n = pos[p].m /\ k = pos[p].i + 1
          BY <3>5, <5>1, InitialisedOne
        <5>2. CASE ~(n = pos[p].m /\ k = pos[p].i + 1)
          <6>1. sess[p][n].announced \in Seq(Pts)
            <7>1. sess[p][n] \in Sessions
              BY <4>2
            <7>2. QED
              BY <7>1 DEF Sessions
          <6>2. k \in Nat
            BY <6>1
          <6>3. n < pos[p].m \/ (n = pos[p].m /\ k <= pos[p].i)
            BY <4>1, <4>2, <4>3, <5>2, <6>2
          <6>4. MadeIn(sess, def, p, n, k)
            BY <4>1, <6>3 DEF Inited, InitedOf
          <6>5. QED
            BY <3>5, <6>4, InitialisedOne
        <5>3. QED
          BY <5>1, <5>2
      <4>4. QED
        BY <2>2, <4>1, <4>3 DEF InitedOf
    <3>6. CASE InitNext(p) /\ Moves(p, "failed")
      <4>1. phase'[p] = "failed"
        BY <1>2, <3>6 DEF Moves, Types
      <4>2. QED
        BY <3>1, <4>1
    <3>7. QED
      BY <1>1, <1>4, <3>1, <3>2, <3>3, <3>4, <3>5, <3>6
  <2>3. QED
    BY <2>1, <2>2
<1>6. QED
  BY <1>5 DEF Inited

LEMMA ReadyInit == ASSUME Init PROVE RInv
<1>1. \A p \in Presentations : DOMAIN sess[p] = {}
  BY DEF Init
<1>2. \A q \in Presentations : phase[q] = "new"
  BY DEF Init
<1>3. QED
  BY <1>1, <1>2 DEF RInv, Tables, Early, MatchingIn, AnnouncedIn, Inited, InitedOf

LEMMA ReadyStep == ASSUME MadeFirst, OInv, RInv, [Next]_vars PROVE RInv'
<1>1. CASE UNCHANGED vars
  BY <1>1 DEF vars, RInv, Tables, Filled, MatchingIn, AnnouncedIn, Inited, InitedOf
<1>2. ASSUME NEW p \in Presentations, StepOf(p) PROVE RInv'
  <2>1. Tables /\ MatchingIn(sess, def) /\ AnnouncedIn(sess) /\ Inited
    BY DEF RInv
  <2>2. Tables'
    BY <1>2, <2>1, TablesKept
  <2>3. MatchingIn(sess, def)'
    BY <1>2, <2>1, MatchingKept
  <2>4. AnnouncedIn(sess)'
    BY <1>2, <2>1, AnnouncedKept
  <2>5. Inited'
    BY <1>2, <2>1, InitedKept
  <2>6. QED
    BY <2>2, <2>3, <2>4, <2>5 DEF RInv
<1>3. QED
  BY <1>1, <1>2 DEF Next, StepOf

\* When the controllers are made before media are set up, packets find the parser of
\* their type ready: its private data made by an init function of its own format, in a
\* definition that is not freed and has the parser's name (ParserReady).
THEOREM Ready == ASSUME MadeFirst PROVE Spec => []ParserReady
<1>1. Init => RInv
  BY ReadyInit
<1>2. OInv /\ RInv /\ [Next]_vars => RInv'
  BY ReadyStep
<1>3. OInv /\ RInv => ParserReady
  <2>1. SUFFICES ASSUME OInv, RInv, NEW p \in Presentations, NEW m \in DOMAIN sess[p], NEW pt \in Sent(p, m)
                 PROVE  LET d == def[sess[p][m].ptdefs[pt]]
                        IN  /\ d.live
                            /\ d.priv.format = sess[p][m].parsers[pt]
                            /\ d.name \in Served => d.name = d.priv.format
    BY DEF ParserReady
  <2>2. phase[p] = "play" /\ pt \in Range(sess[p][m].announced) /\ sess[p][m].parsers[pt] \in Full
    BY <2>1 DEF Sent
  <2>3. PICK k \in DOMAIN sess[p][m].announced : pt = sess[p][m].announced[k]
    BY <2>2 DEF Range
  <2>4. MatchingIn(sess, def) /\ AnnouncedIn(sess) /\ Inited
    BY <2>1 DEF RInv
  <2>5. PICK r : r = sess[p][m].ptdefs[pt]
    OBVIOUS
  <2>6. /\ pt \in Pts /\ r # Null /\ def[r].live
        /\ pt \notin Dynamic => pt \in Standard /\ r = pt
    <3>1. /\ pt \in Pts /\ sess[p][m].ptdefs[pt] # Null /\ def[sess[p][m].ptdefs[pt]].live
          /\ pt \notin Dynamic => pt \in Standard /\ sess[p][m].ptdefs[pt] = pt
      <4>1. Parsed(p, m, pt)
        BY <2>1, <2>2, <2>3 DEF Parsed
      <4>2. HasLive(p, m, pt)
        BY <2>1, <2>4, <4>1, ParsedHas
      <4>3. QED
        BY <4>2 DEF HasLive
    <3>2. QED
      BY <2>5, <3>1
  <2>7. def[r].priv.format = sess[p][m].parsers[pt]
    BY <2>2, <2>3, <2>4, <2>5 DEF Inited, InitedOf, MadeIn
  <2>8. def[r].name \in Served => def[r].name = sess[p][m].parsers[pt]
    <3>1. CASE pt \in Dynamic
      BY <2>4, <2>5, <2>6, <3>1 DEF MatchingIn, MatchingOf, MatchesAt
    <3>2. CASE pt \notin Dynamic
      <4>1. def[r].name = ""
        BY <2>1, <2>6, <3>2 DEF OInv, OwnersIn, StaticIn
      <4>2. QED
        BY <4>1 DEF Served, Full
    <3>3. QED
      BY <3>1, <3>2
  <2>9. QED
    BY <2>5, <2>6, <2>7, <2>8
<1>4. QED
  BY <1>1, <1>2, <1>3, OwnersAlways, PTL DEF Spec

-----------------------------------------------------------------------------
(***************************************************************************)
(* With attributes behind the announcement of their type nothing is used   *)
(* after it was freed.                                                     *)
(***************************************************************************)

\* The definitions announced in p's session stay.
StillAnnounced(p) ==
  \A u \in Dynamic : sess[p][pos[p].m].ptdefs[u] # Null => sess'[p][pos[p].m].ptdefs[u] # Null

\* A medium is described item by item, by these five.
LEMMA Proceeds ==
  ASSUME OInv, NEW p \in Presentations, StepOf(p), phase'[p] = "describe", pos'[p].i # 0
  PROVE  /\ Describing(p) /\ Done(p) /\ desc' = desc
         /\ \/ NewMedium(p)
            \/ pos[p].i # 0 /\ (Announce(p) \/ Med(p) \/ Rtpmap(p) \/ Fmtp(p))
<1>1. Types /\ Cursor /\ OwnersIn(sess, def)
  BY DEF OInv
<1>2. ASSUME MediumDone(p) PROVE FALSE
  BY <1>1, <1>2, MovesOn
<1>3. ASSUME NEW ph \in Phases, Moves(p, ph), ph # "describe" PROVE FALSE
  <2>1. phase'[p] = ph
    BY <1>1, <1>3 DEF Moves, Types
  <2>2. QED
    BY <1>3, <2>1
<1>4. ~Describe(p)
  <2>1. Describe(p) => Moves(p, "describe") /\ pos' = [pos EXCEPT ![p] = Begin]
    BY DEF Describe
  <2>2. QED
    BY <1>1, <2>1, MovesOn, PhasesAre
<1>5. ~ClearInits(p) /\ ~FillInits(p) /\ ~Start(p) /\ ~Run(p) /\ ~Drop(p) /\ ~Close(p) /\ ~Closed(p)
  BY <1>3, PhasesAre DEF ClearInits, FillInits, Start, Run, Drop, Close, Closed
<1>6. ~NextMedium(p) /\ ~NextSession(p)
  BY <1>2 DEF NextMedium, NextSession
<1>7. ~Clean(p) /\ ~Forget(p)
  BY DEF Clean, Forget, At
<1>8. ~InitNext(p)
  <2>1. ASSUME InitNext(p) PROVE FALSE
    <3>1. phase[p] = "start" /\ (Done(p) \/ Moves(p, "failed"))
      BY <1>1, <2>1, Initialises
    <3>2. ~Moves(p, "failed")
      BY <1>3, PhasesAre
    <3>3. QED
      BY <3>1, <3>2 DEF Done
  <2>2. QED
    BY <2>1
<1>9. ~Refused(p)
  BY <1>3, PhasesAre DEF Refused
<1>10. CASE NewMedium(p)
  BY <1>10 DEF NewMedium
<1>11. CASE Announce(p) \/ Med(p)
  <2>1. Describing(p) /\ pos[p].i # 0 /\ desc' = desc
    BY <1>1, <1>11, AnnouncesOne
  <2>2. Done(p)
    BY <1>1, <1>9, <1>11, AnnouncesOne DEF Announced
  <2>3. QED
    BY <1>11, <2>1, <2>2
<1>12. CASE Rtpmap(p)
  <2>1. Describing(p) /\ pos[p].i # 0
    BY <1>1, <1>12, AttributeIs DEF Rtpmap
  <2>2. Done(p)
    BY <1>1, <1>2, <1>9, <1>12, Registers
  <2>3. desc' = desc
    BY <1>12 DEF Rtpmap
  <2>4. QED
    BY <1>12, <2>1, <2>2, <2>3
<1>13. CASE Fmtp(p)
  <2>1. Describing(p) /\ pos[p].i # 0
    BY <1>1, <1>13, AttributeIs DEF Fmtp
  <2>2. QED
    BY <1>13, <2>1 DEF Fmtp
<1>14. QED
  BY <1>4, <1>5, <1>6, <1>7, <1>8, <1>10, <1>11, <1>12, <1>13 DEF StepOf

\* Where the cursor goes, and that no definition is taken away.
LEMMA ProceedsBy ==
  ASSUME OInv, NEW p \in Presentations, Describing(p), Done(p), desc' = desc
  PROVE  /\ phase' = phase /\ pos'[p].m = pos[p].m /\ pos'[p].i = pos[p].i + 1
         /\ Current(p)' = Current(p) /\ Nth(p)' = Nth(p) + 1
<1>1. Types /\ Cursor
  BY DEF OInv
<1>2. phase' = phase /\ pos'[p].m = pos[p].m /\ pos'[p].i = pos[p].i + 1
  BY <1>1, MovesOn
<1>3. Current(p)' = Current(p)
  BY <1>2 DEF Current
<1>4. pos[p].i \in Nat /\ Len(Current(p).fmts) \in Nat
  BY <1>1, UnderCursor
<1>5. Nth(p)' = Nth(p) + 1
  BY <1>2, <1>3, <1>4 DEF Nth
<1>6. QED
  BY <1>2, <1>3, <1>5

\* An announced type has its definition.
LEMMA AnnouncedHas ==
  ASSUME OInv, NEW p \in Presentations, NEW pt \in Pts, Announced(p, pt)
  PROVE  /\ StillAnnounced(p)
         /\ pt \in Dynamic => sess'[p][pos[p].m].ptdefs[pt] # Null
<1>1. Types /\ OwnersIn(sess, def)
  BY DEF OInv
<1>2. PICK m \in DOMAIN sess[p] : m = pos[p].m
  BY DEF Announced
<1>3. PICK a : /\ AnnouncesTo(sess, sess', p, m, pt, a)
               /\ pt \in Dynamic => a \in Nat
               /\ pt \notin Dynamic => a = sess[p][m].ptdefs[pt]
  <2>1. CASE pt \in Dynamic
    <3>1. PICK a : a = NewAddr
      OBVIOUS
    <3>2. AnnouncesTo(sess, sess', p, m, pt, a) /\ Replaces(def, def', sess[p][m].ptdefs[pt], a)
      BY <1>2, <2>1, <3>1 DEF Announced
    <3>3. a \in Nat
      BY <3>2 DEF Replaces
    <3>4. QED
      BY <2>1, <3>2, <3>3
  <2>2. CASE pt \notin Dynamic
    BY <1>2, <2>2 DEF Announced
  <2>3. QED
    BY <2>1, <2>2
<1>4. DOMAIN sess[p][m].ptdefs = Pts
  <2>1. sess[p][m] \in Sessions
    BY <1>1, References
  <2>2. QED
    BY <2>1 DEF Sessions
<1>5. sess'[p][m].ptdefs[pt] = a /\ \A u \in Pts : u # pt => sess'[p][m].ptdefs[u] = sess[p][m].ptdefs[u]
  BY <1>3, <1>4 DEF AnnouncesTo
<1>6. pt \in Dynamic => a # Null
  BY <1>3, PayloadAssumption DEF PayloadAssumption
<1>7. QED
  BY <1>2, <1>3, <1>5, <1>6, Numbers DEF StillAnnounced

\* No step changes a description.
LEMMA DescKept ==
  ASSUME NEW p, StepOf(p)
  PROVE  desc' = desc
<1>1. CASE ClearInits(p) \/ FillInits(p) \/ Describe(p) \/ NewMedium(p) \/ NextMedium(p)
  BY <1>1 DEF ClearInits, FillInits, Describe, NewMedium, NextMedium
<1>2. CASE Announce(p) \/ Med(p) \/ Rtpmap(p) \/ Fmtp(p)
  BY <1>2 DEF Announce, Med, Rtpmap, Fmtp
<1>3. CASE Start(p) \/ InitNext(p) \/ NextSession(p) \/ Run(p)
  BY <1>3 DEF Start, InitNext, NextSession, Run
<1>4. CASE Drop(p) \/ Forget(p) \/ Close(p) \/ Clean(p) \/ Closed(p)
  BY <1>4 DEF Drop, Forget, Close, Clean, Closed
<1>5. QED
  BY <1>1, <1>2, <1>3, <1>4 DEF StepOf

LEMMA PassedKept ==
  ASSUME OInv, Passed, NEW p \in Presentations, StepOf(p)
  PROVE  Passed'
<1>1. Types /\ Cursor /\ OwnersIn(sess, def)
  BY DEF OInv
<1>2. OnlyOf(p) /\ \A q \in Presentations : q # p => sess'[q] = sess[q]
  BY OthersKept
<1>3. desc' = desc
  BY DescKept
<1>4. ASSUME NEW q \in Presentations, q # p PROVE PassedOf(q)'
  <2>1. sess'[q] = sess[q] /\ pos'[q] = pos[q] /\ phase'[q] = phase[q] /\ desc'[q] = desc[q]
    BY <1>2, <1>3, <1>4 DEF OnlyOf
  <2>2. PassedOf(q)
    BY DEF Passed
  <2>3. QED
    BY <2>1, <2>2 DEF PassedOf, Current, Nth
<1>5. PassedOf(p)'
  <2>1. SUFFICES ASSUME phase'[p] = "describe", pos'[p].i # 0 PROVE PassedOf(p)'
    BY DEF PassedOf
  <2>2. /\ Describing(p) /\ Done(p)
        /\ \/ NewMedium(p)
           \/ pos[p].i # 0 /\ (Announce(p) \/ Med(p) \/ Rtpmap(p) \/ Fmtp(p))
    BY <2>1, Proceeds
  <2>3. /\ phase' = phase /\ pos'[p].m = pos[p].m /\ pos'[p].i = pos[p].i + 1
        /\ Current(p)' = Current(p) /\ Nth(p)' = Nth(p) + 1
    BY <1>3, <2>2, ProceedsBy
  <2>4. PICK c, f, i, n : c = Current(p) /\ f = Len(c.fmts) /\ i = pos[p].i /\ n = Nth(p)
    OBVIOUS
  <2>5. /\ f \in Nat /\ i \in Nat /\ n \in Int /\ i = f + n
        /\ DOMAIN c.fmts = 1 .. f /\ DOMAIN c.attrs = 1 .. Len(c.attrs) /\ Len(c.attrs) \in Nat
    BY <1>1, <2>2, <2>4, UnderCursor
  <2>6. CASE NewMedium(p)
    <3>1. i = 0
      BY <2>4, <2>6 DEF NewMedium
    <3>2. \A k \in DOMAIN c.fmts : ~(k < i + 1)
      BY <2>5, <3>1
    <3>3. \A k \in DOMAIN c.attrs : ~(k < n + 1)
      BY <2>5, <3>1
    <3>4. QED
      BY <2>3, <2>4, <3>2, <3>3 DEF PassedOf
  <2>7. ASSUME i # 0, StillAnnounced(p),
               i \in DOMAIN c.fmts /\ c.fmts[i] \in Dynamic => sess'[p][pos[p].m].ptdefs[c.fmts[i]] # Null,
               n \in DOMAIN c.attrs => ~EndsLoop(c.attrs[n]),
               n \in DOMAIN c.attrs /\ c.attrs[n].name = "med" /\ c.attrs[n].pt \in Dynamic =>
                 sess'[p][pos[p].m].ptdefs[c.attrs[n].pt] # Null
        PROVE  PassedOf(p)'
    <3>1. PassedOf(p) /\ phase[p] = "describe"
      BY <2>2 DEF Passed, Describing, At
    <3>2. ASSUME NEW k \in DOMAIN c.fmts, k < i + 1, c.fmts[k] \in Dynamic
          PROVE  sess'[p][pos[p].m].ptdefs[c.fmts[k]] # Null
      <4>1. CASE k = i
        BY <2>7, <3>2, <4>1
      <4>2. CASE k # i
        <5>1. k < i
          BY <2>5, <3>2, <4>2
        <5>2. sess[p][pos[p].m].ptdefs[c.fmts[k]] # Null
          BY <2>4, <2>7, <3>1, <3>2, <5>1 DEF PassedOf
        <5>3. QED
          BY <2>7, <3>2, <5>2 DEF StillAnnounced
      <4>3. QED
        BY <4>1, <4>2
    <3>3. ASSUME NEW k \in DOMAIN c.attrs, k < n + 1
          PROVE  /\ ~EndsLoop(c.attrs[k])
                 /\ c.attrs[k].name = "med" /\ c.attrs[k].pt \in Dynamic =>
                      sess'[p][pos[p].m].ptdefs[c.attrs[k].pt] # Null
      <4>1. CASE k = n
        BY <2>7, <3>3, <4>1
      <4>2. CASE k # n
        <5>1. k < n
          BY <2>5, <3>3, <4>2
        <5>2. /\ ~EndsLoop(c.attrs[k])
              /\ c.attrs[k].name = "med" /\ c.attrs[k].pt \in Dynamic =>
                   sess[p][pos[p].m].ptdefs[c.attrs[k].pt] # Null
          BY <2>4, <2>7, <3>1, <3>3, <5>1 DEF PassedOf
        <5>3. QED
          BY <2>7, <5>2 DEF StillAnnounced
      <4>3. QED
        BY <4>1, <4>2
    <3>4. QED
      BY <2>3, <2>4, <3>2, <3>3 DEF PassedOf
  <2>8. CASE pos[p].i # 0 /\ (Announce(p) \/ Med(p))
    <3>1. ~Refused(p)
      <4>1. Refused(p) => phase'[p] = "refused"
        BY <1>1 DEF Refused, Moves, Types
      <4>2. QED
        BY <2>1, <4>1
    <3>2. PICK pt \in Pts : /\ Announced(p, pt)
                            /\ \/ AtFormat(p) /\ pt = Format(p)
                               \/ AtAttribute(p, "med") /\ pt = Attribute(p).pt
      BY <1>1, <2>8, <3>1, AnnouncesOne
    <3>3. StillAnnounced(p) /\ (pt \in Dynamic => sess'[p][pos[p].m].ptdefs[pt] # Null)
      BY <3>2, AnnouncedHas
    <3>4. CASE AtFormat(p) /\ pt = Format(p)
      <4>1. i \in DOMAIN c.fmts /\ pt = c.fmts[i]
        BY <2>4, <3>4 DEF AtFormat, Format
      <4>2. n \notin DOMAIN c.attrs
        BY <2>5, <4>1
      <4>3. QED
        BY <2>4, <2>7, <2>8, <3>3, <4>1, <4>2
    <3>5. CASE AtAttribute(p, "med") /\ pt = Attribute(p).pt
      <4>1. n \in DOMAIN c.attrs /\ pt = c.attrs[n].pt /\ c.attrs[n].name = "med"
        BY <2>4, <3>5 DEF AtAttribute, Attribute
      <4>2. i \notin DOMAIN c.fmts
        BY <2>5, <4>1
      <4>3. ~EndsLoop(c.attrs[n])
        BY <4>1 DEF EndsLoop
      <4>4. QED
        BY <2>4, <2>7, <2>8, <3>3, <4>1, <4>2, <4>3
    <3>6. QED
      BY <3>2, <3>4, <3>5
  <2>9. CASE pos[p].i # 0 /\ Rtpmap(p)
    <3>1. n \in DOMAIN c.attrs /\ c.attrs[n].name = "rtpmap" /\ Attribute(p) = c.attrs[n]
      BY <2>4, <2>9 DEF Rtpmap, AtAttribute, Attribute
    <3>2. i \notin DOMAIN c.fmts
      BY <2>5, <3>1
    <3>3. StillAnnounced(p) /\ ~EndsLoop(c.attrs[n])
      <4>1. ~Refused(p) /\ ~MediumDone(p)
        <5>1. Refused(p) => phase'[p] = "refused"
          BY <1>1 DEF Refused, Moves, Types
        <5>2. MediumDone(p) => pos'[p].i = 0
          BY <1>1, MovesOn
        <5>3. QED
          BY <2>1, <5>1, <5>2
      <4>2. \/ sess' = sess /\ ~EndsLoop(Attribute(p))
            \/ \E pt \in Dynamic : /\ ~EndsLoop(Attribute(p))
                                   /\ RegistersTo(sess, sess', p, pos[p].m, pt, Attribute(p).value)
        BY <1>1, <2>9, <4>1, Registers
      <4>3. QED
        BY <3>1, <4>2 DEF StillAnnounced, RegistersTo
    <3>4. QED
      BY <2>4, <2>7, <2>9, <3>1, <3>2, <3>3
  <2>10. CASE pos[p].i # 0 /\ Fmtp(p)
    <3>1. n \in DOMAIN c.attrs /\ c.attrs[n].name = "fmtp"
      BY <2>4, <2>10 DEF Fmtp, AtAttribute, Attribute
    <3>2. i \notin DOMAIN c.fmts
      BY <2>5, <3>1
    <3>3. ~EndsLoop(c.attrs[n])
      BY <3>1 DEF EndsLoop
    <3>4. StillAnnounced(p)
      BY <2>10 DEF Fmtp, StillAnnounced
    <3>5. QED
      BY <2>4, <2>7, <2>10, <3>1, <3>2, <3>3, <3>4
  <2>11. QED
    BY <2>2, <2>6, <2>8, <2>9, <2>10
<1>6. QED
  BY <1>4, <1>5 DEF Passed

\* An fmtp attribute finds the definition of its type, a dynamic one.
LEMMA AttributeDefined ==
  ASSUME AttributesDefined, OInv, Passed, NEW p \in Presentations, Fmtp(p), Attribute(p).pt <= 127
  PROVE  Attribute(p).pt \in Dynamic /\ sess[p][pos[p].m].ptdefs[Attribute(p).pt] # Null
<1>1. Types /\ Cursor
  BY DEF OInv
<1>2. /\ Describing(p) /\ phase[p] = "describe" /\ pos[p].i # 0 /\ pos[p].m \in DOMAIN desc[p]
      /\ AtAttribute(p, "fmtp")
  BY <1>1, AttributeIs, UnderCursor DEF Fmtp
<1>3. PICK c, f, i, n, x : c = Current(p) /\ f = Len(c.fmts) /\ i = pos[p].i /\ n = Nth(p) /\ x = Attribute(p)
  OBVIOUS
<1>4. /\ f \in Nat /\ i \in Nat /\ n \in Int /\ i = f + n
      /\ DOMAIN c.fmts = 1 .. f /\ DOMAIN c.attrs = 1 .. Len(c.attrs)
  BY <1>1, <1>2, <1>3, UnderCursor
<1>5. n \in DOMAIN c.attrs /\ x = c.attrs[n] /\ x.name = "fmtp" /\ x.pt <= 127
  BY <1>2, <1>3 DEF AtAttribute, Attribute
<1>6. desc[p] \in Descriptions /\ c = desc[p][pos[p].m]
  BY <1>1, <1>3, Described DEF Current
<1>7. \/ x.pt \in Dynamic /\ \E k \in DOMAIN c.fmts : c.fmts[k] = x.pt
      \/ x.pt \in Dynamic /\ \E k \in 1 .. n - 1 : c.attrs[k].name = "med" /\ c.attrs[k].pt = x.pt
      \/ \E k \in 1 .. n - 1 : EndsLoop(c.attrs[k])
  BY <1>2, <1>5, <1>6 DEF AttributesDefined
<1>8. \A k \in DOMAIN c.fmts : k < i
  BY <1>4, <1>5
<1>9. \A k \in 1 .. n - 1 : k \in DOMAIN c.attrs /\ k < n
  BY <1>4, <1>5
<1>10. /\ \A k \in DOMAIN c.fmts : k < i /\ c.fmts[k] \in Dynamic => sess[p][pos[p].m].ptdefs[c.fmts[k]] # Null
       /\ \A k \in DOMAIN c.attrs : k < n =>
            /\ ~EndsLoop(c.attrs[k])
            /\ c.attrs[k].name = "med" /\ c.attrs[k].pt \in Dynamic => sess[p][pos[p].m].ptdefs[c.attrs[k].pt] # Null
  BY <1>2, <1>3 DEF Passed, PassedOf
<1>11. CASE x.pt \in Dynamic /\ \E k \in DOMAIN c.fmts : c.fmts[k] = x.pt
  BY <1>3, <1>8, <1>10, <1>11
<1>12. CASE x.pt \in Dynamic /\ \E k \in 1 .. n - 1 : c.attrs[k].name = "med" /\ c.attrs[k].pt = x.pt
  BY <1>3, <1>9, <1>10, <1>12
<1>13. CASE \E k \in 1 .. n - 1 : EndsLoop(c.attrs[k])
  BY <1>9, <1>10, <1>13
<1>14. QED
  BY <1>7, <1>11, <1>12, <1>13

\* So it is applied, to a definition that is not static, or its type is not a valid one.
LEMMA Applies ==
  ASSUME AttributesDefined, OInv, FInv, NEW p \in Presentations, Fmtp(p)
  PROVE  /\ fault' = fault /\ sess' = sess /\ Done(p)
         /\ \/ Attribute(p).pt > 127 /\ def' = def
            \/ /\ Attribute(p).pt \in Dynamic
               /\ GetsAttribute(sess[p][pos[p].m].ptdefs[Attribute(p).pt], Attribute(p).value)
               /\ sess[p][pos[p].m].ptdefs[Attribute(p).pt] \notin Standard
<1>1. Types /\ Cursor /\ OwnersIn(sess, def) /\ Passed /\ KeptIn(def)
  BY DEF OInv, FInv
<1>2. PICK pt, r : pt = Attribute(p).pt /\ r = sess[p][pos[p].m].ptdefs[pt]
  OBVIOUS
<1>3. PICK m \in DOMAIN sess[p] : m = pos[p].m
  BY <1>1, Describes
<1>4. /\ Done(p) /\ sess' = sess /\ pt \in Pts
      /\ \/ pt > 127 /\ def' = def /\ fault' = fault
         \/ pt <= 127 /\ r = Null
         \/ pt <= 127 /\ r \in DOMAIN def /\ r # Null /\ def[r].freed
         \/ pt <= 127 /\ GetsAttribute(r, Attribute(p).value) /\ fault' = fault
  BY <1>1, <1>2, Describes
<1>5. pt <= 127 => pt \in Dynamic /\ r # Null
  BY <1>1, <1>2, AttributeDefined
<1>6. pt <= 127 => r \in DOMAIN def /\ r \notin Standard /\ def[r].live /\ ~def[r].freed
  <2>1. LiveIn(sess, def)
    BY <1>1 DEF OwnersIn
  <2>2. pt <= 127 => r \in DOMAIN def \ Standard /\ def[r].live
    BY <1>2, <1>3, <1>5, <2>1 DEF LiveIn
  <2>3. QED
    BY <1>1, <2>2 DEF KeptIn
<1>7. CASE pt > 127 /\ def' = def /\ fault' = fault
  BY <1>2, <1>4, <1>7
<1>8. CASE pt <= 127 /\ GetsAttribute(r, Attribute(p).value) /\ fault' = fault
  BY <1>2, <1>4, <1>5, <1>6, <1>8
<1>9. QED
  BY <1>4, <1>5, <1>6, <1>7, <1>8

\* What is not freed keeps its attributes.
LEMMA AttributesKept ==
  ASSUME AttributesDefined, OInv, FInv, NEW p \in Presentations, StepOf(p)
  PROVE  KeptIn(def') /\ fault' = "none"
<1>1. Types /\ Cursor /\ OwnersIn(sess, def) /\ KeptIn(def) /\ fault = "none"
  BY DEF OInv, FInv
<1>2. def' = def => KeptIn(def')
  BY <1>1
<1>3. ASSUME NEW r \in DOMAIN def, Updates(def, def', r), r \in Standard => def'[r].data = def[r].data
      PROVE  KeptIn(def')
  BY <1>1, <1>3 DEF KeptIn, Updates
<1>4. CASE \/ ClearInits(p) \/ FillInits(p) \/ Describe(p) \/ NewMedium(p) \/ NextMedium(p) \/ Start(p)
           \/ NextSession(p) \/ Run(p) \/ Drop(p) \/ Forget(p) \/ Close(p) \/ Closed(p)
  BY <1>1, <1>2, <1>4
     DEF ClearInits, FillInits, Describe, NewMedium, NextMedium, Start, NextSession, Run, Drop, Forget, Close, Closed
<1>5. CASE Announce(p) \/ Med(p)
  <2>1. fault' = "none"
    BY <1>1, <1>5, AnnouncesOne
  <2>2. def' = def \/ \E old, a : Replaces(def, def', old, a)
    BY <1>1, <1>5, AnnouncesOne DEF Announced
  <2>3. ASSUME NEW old, NEW a, Replaces(def, def', old, a) PROVE KeptIn(def')
    <3>1. ASSUME NEW r \in DOMAIN def'
          PROVE  (def'[r].live => ~def'[r].freed) /\ (r \in Standard => def'[r].data = <<>>)
      <4>1. CASE r = a
        BY <2>3, <4>1, NewDefinition DEF Replaces
      <4>2. CASE r # a
        <5>1. r \in DOMAIN def
          BY <2>3, <4>2 DEF Replaces
        <5>2. def'[r].freed = def[r].freed /\ def'[r].data = def[r].data
          BY <2>3, <5>1 DEF Replaces
        <5>3. def'[r].live => def[r].live
          BY <2>3, <5>1 DEF Replaces
        <5>4. QED
          BY <1>1, <5>1, <5>2, <5>3 DEF KeptIn
      <4>3. QED
        BY <4>1, <4>2
    <3>2. QED
      BY <3>1 DEF KeptIn
  <2>4. QED
    BY <1>2, <2>1, <2>2, <2>3
<1>6. CASE Rtpmap(p)
  <2>1. def' = def \/ \E r \in DOMAIN def : Updates(def, def', r) /\ def'[r].data = def[r].data
    BY <1>1, <1>6, Registers
  <2>2. fault' = "none"
    BY <1>1, <1>6 DEF Rtpmap
  <2>3. QED
    BY <1>2, <1>3, <2>1, <2>2
<1>7. CASE Fmtp(p)
  <2>1. fault' = "none"
    BY <1>1, <1>7, Applies
  <2>2. def' = def \/ \E r \in DOMAIN def : Updates(def, def', r) /\ r \notin Standard
    BY <1>7, Applies DEF GetsAttribute
  <2>3. QED
    BY <1>2, <1>3, <2>1, <2>2
<1>8. CASE InitNext(p)
  <2>1. def' = def \/ \E r \in DOMAIN def : Updates(def, def', r) /\ def'[r].data = def[r].data
    BY <1>1, <1>8, Initialises
  <2>2. fault' = "none"
    BY <1>1, <1>8 DEF InitNext
  <2>3. QED
    BY <1>2, <1>3, <2>1, <2>2
<1>9. CASE Clean(p)
  <2>1. PICK refs, dyn :
          /\ refs = Range(sess[p][1].ptdefs) \ {Null} /\ dyn = {sess[p][1].ptdefs[pt] : pt \in Dynamic}
          /\ Drops(sess, sess', p) /\ Cleans(def, def', refs, dyn)
          /\ fault' = IF \E r \in refs : def[r].freed \/ ~def[r].live THEN "freed" ELSE "none"
    BY <1>1, <1>9, CleansUp
  <2>2. 1 \in DOMAIN sess[p]
    BY <2>1 DEF Drops
  <2>3. DOMAIN sess[p][1].ptdefs = Pts
    <3>1. sess[p] \in Seq(Sessions)
      BY <1>1 DEF Types, AllSessions
    <3>2. sess[p][1] \in Sessions
      BY <2>2, <3>1
    <3>3. QED
      BY <3>2 DEF Sessions
  <2>4. ASSUME NEW r \in refs
        PROVE  r \in DOMAIN def /\ def[r].live /\ ~def[r].freed /\ (r \notin dyn => r \in Standard)
    <3>1. PICK pt \in Pts : r = sess[p][1].ptdefs[pt]
      BY <2>1, <2>3, <2>4 DEF Range
    <3>2. r # Null
      BY <2>1, <2>4
    <3>3. r \in DOMAIN def /\ def[r].live
      BY <1>1, <2>2, <3>1, <3>2, References
    <3>4. r \notin dyn => pt \notin Dynamic
      BY <2>1, <3>1
    <3>5. pt \notin Dynamic => r \in Standard
      BY <1>1, <2>2, <3>1, <3>2 DEF OwnersIn, SharedIn
    <3>6. QED
      BY <1>1, <3>3, <3>4, <3>5 DEF KeptIn
  <2>5. fault' = "none"
    BY <2>1, <2>4
  <2>6. ASSUME NEW r \in DOMAIN def'
        PROVE  (def'[r].live => ~def'[r].freed) /\ (r \in Standard => def'[r].data = <<>>)
    <3>1. /\ r \in DOMAIN def /\ def'[r].data = def[r].data
          /\ def'[r].live = (def[r].live /\ ~(r \in refs /\ r \in dyn))
      BY <2>1, <2>6 DEF Cleans
    <3>2. (def[r].live => ~def[r].freed) /\ (r \in Standard => def[r].data = <<>>)
      BY <1>1, <3>1 DEF KeptIn
    <3>3. CASE r \notin refs
      <4>1. def'[r] = def[r]
        BY <2>1, <3>1, <3>3 DEF Cleans
      <4>2. QED
        BY <3>2, <4>1
    <3>4. CASE r \in refs /\ r \in dyn
      BY <3>1, <3>2, <3>4
    <3>5. CASE r \in refs /\ r \notin dyn
      <4>1. r \in Standard /\ ~def[r].freed
        BY <2>4, <3>5
      <4>2. def'[r].freed = (def[r].freed \/ def[r].data # <<>>)
        BY <2>1, <3>1, <3>5 DEF Cleans
      <4>3. QED
        BY <3>1, <3>2, <4>1, <4>2
    <3>6. QED
      BY <3>3, <3>4, <3>5
  <2>7. QED
    BY <2>5, <2>6 DEF KeptIn
<1>10. QED
  BY <1>4, <1>5, <1>6, <1>7, <1>8, <1>9 DEF StepOf

LEMMA KeptInit == ASSUME Init PROVE FInv
<1>1. KeptIn(def)
  BY NewDefinition DEF Init, KeptIn
<1>2. Passed
  BY DEF Init, Passed, PassedOf
<1>3. QED
  BY <1>1, <1>2 DEF Init, FInv

LEMMA KeptStep == ASSUME AttributesDefined, OInv, FInv, [Next]_vars PROVE FInv'
<1>1. CASE UNCHANGED vars
  BY <1>1 DEF vars, FInv, KeptIn, Passed, PassedOf, Current, Nth
<1>2. ASSUME NEW p \in Presentations, StepOf(p) PROVE FInv'
  <2>1. KeptIn(def') /\ fault' = "none"
    BY <1>2, AttributesKept
  <2>2. Passed
    BY DEF FInv
  <2>3. Passed'
    BY <1>2, <2>2, PassedKept
  <2>4. QED
    BY <2>1, <2>3 DEF FInv
<1>3. QED
  BY <1>1, <1>2 DEF Next, StepOf

LEMMA KeptAlways == ASSUME AttributesDefined PROVE Spec => []FInv
<1>1. Init => FInv
  BY KeptInit
<1>2. OInv /\ FInv /\ [Next]_vars => FInv'
  BY KeptStep
<1>3. QED
  BY <1>1, <1>2, OwnersAlways, PTL DEF Spec

\* When descriptions give attributes behind the announcement of their type, nothing is
\* freed twice, used after it was freed, or used though it is not there (NothingFreedIsUsed).
THEOREM NothingFreed == ASSUME AttributesDefined PROVE Spec => []NothingFreedIsUsed
<1>1. FInv => NothingFreedIsUsed
  BY DEF FInv, NothingFreedIsUsed
<1>2. Spec => []FInv
  BY KeptAlways
<1>3. QED
  BY <1>1, <1>2, PTL

-----------------------------------------------------------------------------
\* The variables of every reachable state are of their types (TypeOK): tables refer to
\* definitions there are, names and parsers are known ones, and an array of attributes
\* is made for no more than three (rtp_pt_attr_add).
THEOREM TypeCorrect == Spec => []TypeOK
<1>1. ASSUME OInv PROVE TypeOK
  <2>1. Types /\ Cursor /\ OwnersIn(sess, def)
    BY <1>1 DEF OInv
  <2>2. \A r \in DOMAIN def : /\ def[r].name \in Served \cup {"", "unknown"} /\ def[r].allocated \in 0 .. 3
                              /\ def[r].live \in BOOLEAN /\ def[r].freed \in BOOLEAN
    BY <2>1 DEF Types, Definitions, IsDefinition
  <2>3. Standard \subseteq DOMAIN def
    BY <2>1 DEF OwnersIn, StaticIn
  <2>4. ASSUME NEW p \in Presentations, NEW s \in Range(sess[p])
        PROVE  /\ s.rtppt \in Seq(Nat \cup {Null})
               /\ \A pt \in Pts : s.ptdefs[pt] \in DOMAIN def \cup {Null} /\ s.parsers[pt] \in Served \cup {"def"}
                                   /\ s.inits[pt] \in Full \cup {Null}
    <3>1. PICK m \in DOMAIN sess[p] : s = sess[p][m]
      BY <2>4 DEF Range
    <3>2. sess[p] \in Seq(Sessions)
      BY <2>1 DEF Types, AllSessions
    <3>3. s \in Sessions
      BY <3>1, <3>2
    <3>4. \A pt \in Pts : s.ptdefs[pt] \in DOMAIN def \cup {Null}
      BY <2>1, <3>1, References
    <3>5. QED
      BY <3>3, <3>4 DEF Sessions
  <2>5. \A p \in Presentations : phase[p] \in Phases /\ Len(sess[p]) <= Len(desc[p])
    BY <2>1 DEF Types, Cursor, CursorOf
  <2>6. fault \in {"none", "freed", "null"}
    BY <2>1 DEF Types
  <2>7. QED
    BY <2>2, <2>3, <2>4, <2>5, <2>6 DEF TypeOK
<1>2. QED
  BY <1>1, OwnersAlways, PTL
=============================================================================
