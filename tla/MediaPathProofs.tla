-------------------------- MODULE MediaPathProofs --------------------------
(***************************************************************************)
(* Proofs about MediaPath: SETUP gives every medium its own pair of        *)
(* descriptors and of ports or channels, and what the server sends to is   *)
(* what the client listens on; for any number of media, ports and channels.*)
(***************************************************************************)
EXTENDS MediaPath, NaturalExtrema, TLAPS

-----------------------------------------------------------------------------
(***************************************************************************)
(* Scenes in which the ports can be had, and servers that keep to the      *)
(* channels asked for.                                                     *)
(***************************************************************************)

\* The even port the media of a scene start from.
FirstPort(sc) == IF sc.force % 2 = 1 THEN sc.force + 1 ELSE sc.force

\* The ports its media may ask for.
PortsOf(sc) ==
  FirstPort(sc) .. FirstPort(sc) + 2 * Len(sc.formats) - 1 \cup RandomPorts \cup {p + 1 : p \in RandomPorts}

\* One medium may be anywhere and in a group; more of them have given ports, which do not
\* go past the last one there is.
Orderly ==
  /\ ~OtherWays
  /\ \A sc \in Scenes :
       IF sc.proto = "TCP" THEN sc.delivery = "unicast"
       ELSE /\ Taken \cap PortsOf(sc) = {}
            /\ IF Len(sc.formats) = 1 THEN FirstPort(sc) < PortMod
               ELSE /\ sc.delivery = "unicast" /\ sc.force # 0
                    /\ FirstPort(sc) + 2 * Len(sc.formats) <= PortMod

-----------------------------------------------------------------------------
(***************************************************************************)
(* The inductive invariant.                                                *)
(***************************************************************************)
Count == Len(scene.formats)

\* How many media have their sockets.
Bound == IF asked = NotSet THEN medium - 1 ELSE medium

Fresh(m) == NewTransport(scene.delivery, Peer, Local, m)

Parameters ==
  {"SOCKTYPE", "DELIVERY", "SRCADDR", "DSTADDR", "LAYERS", "MODE", "APPEND", "TTL", "MCSRTP", "MCSRTCP",
   "CLIRTP", "CLIRTCP", "SRVRTP", "SRVRTCP", "ILVDRTP", "ILVDRTCP", "STREAMRTP", "STREAMRTCP", "SSRC"}

IsTransport(t) == DOMAIN t = Parameters /\ t = [x \in Parameters |-> t[x]]

SceneOK ==
  /\ scene \in Scenes
  /\ medium \in 1 .. Count + 1 /\ (asked # NotSet => medium \in Media)
  /\ DOMAIN way = Media

\* Descriptors are handed out from the lowest on, two to a medium.
SocketsOK ==
  /\ fd = [m \in Media |-> IF m <= Bound THEN [rtp |-> 2 * m - 1, rtcp |-> 2 * m]
                           ELSE [rtp |-> Closed, rtcp |-> Closed]]
  /\ DOMAIN open = Fds /\ open = [n \in Fds |-> open[n]]
  /\ \A n \in Fds : open[n] = Closed <=> n > 2 * Bound

\* A medium without sockets has the transport it was made with, and no reply changes how
\* the packets are delivered.
TransportOK ==
  /\ DOMAIN tr = Media /\ tr = [m \in Media |-> tr[m]]
  /\ \A m \in Media : IF m > Bound THEN tr[m] = Fresh(m)
                      ELSE IsTransport(tr[m]) /\ tr[m].DELIVERY = scene.delivery

WayOK(m, w) == way[m] # NotSet => m < medium /\ way[m] = w

UdpOK ==
  /\ Bound > 0 => open[1] \in Nat /\ open[1] % 2 = 0 /\ (Count > 1 => open[1] = FirstPort(scene))
  /\ IF scene.delivery = "unicast" THEN \A n \in 1 .. 2 * Bound : open[n] = open[1] + n - 1
     ELSE Bound > 0 => open[2] \in Nat /\ open[2] % 2 = 1
  /\ asked # NotSet => /\ asked.type = "UDP" /\ asked.delivery = scene.delivery
                       /\ asked.client_port = <<open[2 * medium - 1], open[2 * medium]>>
  /\ \A m \in Media : WayOK(m, <<open[2 * m - 1], open[2 * m - 1] + 1>>)
  /\ Bound < Count => force_rtp_port = IF Bound = 0 THEN scene.force ELSE FirstPort(scene) + 2 * Bound

\* The entry of a medium in the table of channels.
Entry(m) == [rtp_ch |-> 2 * m - 2, rtcp_ch |-> 2 * m - 1, rtp_fd |-> 2 * m - 1, rtcp_fd |-> 2 * m]

TcpOK ==
  /\ next_ilvd_ch = 2 * Bound
  /\ interleaved = [j \in 1 .. Bound |-> Entry(Bound + 1 - j)]
  /\ asked # NotSet => asked.type = "TCP" /\ asked.interleaved = <<2 * medium - 2, 2 * medium - 1>>
  /\ \A m \in Media : WayOK(m, <<2 * m - 2, 2 * m - 1>>)

PInv ==
  /\ SceneOK /\ SocketsOK /\ TransportOK
  /\ IF scene.proto = "TCP" THEN TcpOK ELSE UdpOK

\* What the assumptions say of the scene.
LEMMA SceneFacts ==
  ASSUME scene \in Scenes
  PROVE  /\ Count \in Nat \ {0} /\ Media = 1 .. Count /\ Fds = 1 .. 4 * Count
         /\ scene.proto \in {"UDP", "TCP"} /\ scene.delivery \in {"unicast", "multicast"}
         /\ PortMod \in Nat /\ scene.force \in 0 .. PortMod - 1
<1>1. scene.formats \in Seq(Formats) /\ scene.formats # <<>>
  BY PathAssumption DEF PathAssumption
<1>2. Len(scene.formats) \in Nat /\ DOMAIN scene.formats = 1 .. Len(scene.formats)
  BY <1>1
<1>3. Len(scene.formats) # 0
  BY <1>1
<1>4. QED
  BY <1>2, <1>3, PathAssumption DEF PathAssumption, Count, Media, Fds

\* And of ports, descriptors and headers.
LEMMA PortFacts ==
  /\ PortMod \in Nat /\ RandomPorts \subseteq 1 .. PortMod - 1
  /\ \A p \in RandomPorts : p \in Nat /\ p # 0 /\ p % 2 = 0
  /\ Closed \notin Nat /\ Pair2 \notin Nat /\ Pair2 # Closed /\ NotSet \notin Nat /\ NotSet \notin Header
BY PathAssumption DEF PathAssumption

\* A number below the modulus.
LEMMA SmallMod ==
  ASSUME NEW n \in Nat, NEW a \in Nat, a < n
  PROVE  a % n = a
OBVIOUS

\* The lowest free descriptor, when those up to b are taken.
LEMMA LowestFree ==
  ASSUME NEW N \in Nat, NEW b \in Nat, b < N, NEW o, DOMAIN o = 1 .. N,
         \A n \in 1 .. N : o[n] = Closed <=> n > b
  PROVE  Lowest(o) = b + 1
<1>1. b + 1 \in DOMAIN o /\ o[b + 1] = Closed /\ \A k \in 1 .. (b + 1) - 1 : o[k] # Closed
  OBVIOUS
<1>2. ASSUME NEW n \in DOMAIN o, o[n] = Closed, \A k \in 1 .. n - 1 : o[k] # Closed
      PROVE  n = b + 1
  <2>1. n \in 1 .. N /\ n > b
    BY <1>2
  <2>2. ~(b + 1 \in 1 .. n - 1)
    BY <1>1, <1>2
  <2>3. QED
    BY <2>1, <2>2
<1>3. QED
  BY <1>1, <1>2 DEF Lowest

\* A table of N descriptors of which those up to b are taken, and the one in which the
\* next one is bound to a port.
Table(o, N, b) == DOMAIN o = 1 .. N /\ o = [n \in 1 .. N |-> o[n]] /\ \A n \in 1 .. N : o[n] = Closed <=> n > b

With(o, N, n, port) == [k \in 1 .. N |-> IF k = n THEN port ELSE o[k]]

\* A socket bound to a port nobody else holds.
LEMMA Binds ==
  ASSUME NEW N \in Nat, NEW b \in Nat, b < N, NEW o, Table(o, N, b), NEW port \in Nat, port \notin Taken,
         NEW s, s = sock_bind(o, port)
  PROVE  s.fd = b + 1 /\ s.open = With(o, N, b + 1, port) /\ Table(s.open, N, b + 1)
<1>1. Lowest(o) = b + 1
  BY LowestFree DEF Table
<1>2. s.fd = b + 1 /\ s.open = [o EXCEPT ![b + 1] = port]
  BY <1>1 DEF sock_bind
<1>3. s.open = With(o, N, b + 1, port)
  BY <1>2 DEF Table, With
<1>4. \A n \in 1 .. N : s.open[n] = IF n = b + 1 THEN port ELSE o[n]
  BY <1>3 DEF With
<1>5. \A n \in 1 .. N : s.open[n] = Closed <=> n > b + 1
  BY <1>4, PortFacts DEF Table
<1>6. Table(s.open, N, b + 1)
  BY <1>3, <1>5 DEF Table, With
<1>7. QED
  BY <1>2, <1>3, <1>6

-----------------------------------------------------------------------------
(***************************************************************************)
(* Transports.                                                             *)
(***************************************************************************)
\* A new transport is one, of the delivery of the scene.
LEMMA FreshFacts ==
  ASSUME NEW m
  PROVE  IsTransport(Fresh(m)) /\ Fresh(m).DELIVERY = scene.delivery
BY DEF Fresh, NewTransport, Parameters, IsTransport

\* The parameters that are set here.
SetHere ==
  {"SOCKTYPE", "CLIPORTS", "SRVPORTS", "INTERLEAVED", "ILVDRTP", "SRCADDRSTR", "DSTADDRSTR", "SSRC", "TTL", "LAYERS"}

\* The pairs that are set here.
LEMMA PairFacts ==
  /\ {"CLIPORTS", "SRVPORTS", "INTERLEAVED"} \subseteq DOMAIN Pair
  /\ Pair["CLIPORTS"][1] = "CLIRTP" /\ Pair["CLIPORTS"][2] = "CLIRTCP"
  /\ Pair["SRVPORTS"][1] = "SRVRTP" /\ Pair["SRVPORTS"][2] = "SRVRTCP"
  /\ Pair["INTERLEAVED"][1] = "ILVDRTP" /\ Pair["INTERLEAVED"][2] = "ILVDRTCP"
  /\ \A par \in SetHere : par \in DOMAIN Pair => par \in {"CLIPORTS", "SRVPORTS", "INTERLEAVED"}
BY DEF Pair, SetHere

\* None of them changes how packets are delivered.
LEMMA SetKeepsDelivery ==
  ASSUME NEW t, IsTransport(t), NEW par \in SetHere, NEW v
  PROVE  /\ IsTransport(rtp_transport_set(t, par, v))
         /\ rtp_transport_set(t, par, v).DELIVERY = t.DELIVERY
<1>1. CASE par \in {"CLIPORTS", "SRVPORTS", "INTERLEAVED"}
  <2>1. rtp_transport_set(t, par, v) = [t EXCEPT ![Pair[par][1]] = v[1], ![Pair[par][2]] = v[2]]
    BY <1>1, PairFacts DEF rtp_transport_set
  <2>2. /\ Pair[par][1] \in Parameters \ {"DELIVERY"} /\ Pair[par][2] \in Parameters \ {"DELIVERY"}
        /\ "DELIVERY" \in Parameters
    BY <1>1, PairFacts DEF Parameters
  <2>3. QED
    BY <2>1, <2>2 DEF IsTransport
<1>a. ASSUME NEW k \in Parameters \ {"DELIVERY"}, NEW x, NEW s, s = [t EXCEPT ![k] = x]
      PROVE  IsTransport(s) /\ s.DELIVERY = t.DELIVERY
  <2>1. DOMAIN t = Parameters /\ "DELIVERY" \in Parameters /\ t = [y \in Parameters |-> t[y]]
    BY DEF IsTransport, Parameters
  <2>2. QED
    BY <1>a, <2>1 DEF IsTransport
<1>b. "SRCADDR" \in Parameters \ {"DELIVERY"} /\ "DSTADDR" \in Parameters \ {"DELIVERY"}
  BY DEF Parameters
<1>2. CASE par \in {"SRCADDRSTR", "DSTADDRSTR"}
  <2>1. CASE par = "SRCADDRSTR"
    <3>1. PICK x : rtp_transport_set(t, par, v) = [t EXCEPT !["SRCADDR"] = x]
      BY <2>1 DEF rtp_transport_set, Pair
    <3>2. QED
      BY <1>a, <1>b, <3>1
  <2>2. CASE par = "DSTADDRSTR"
    <3>1. PICK x : rtp_transport_set(t, par, v) = [t EXCEPT !["DSTADDR"] = x]
      BY <2>2 DEF rtp_transport_set, Pair
    <3>2. QED
      BY <1>a, <1>b, <3>1
  <2>3. QED
    BY <1>2, <2>1, <2>2
<1>3. CASE par \in {"SOCKTYPE", "ILVDRTP", "SSRC", "TTL", "LAYERS"}
  BY <1>3 DEF rtp_transport_set, Pair, IsTransport, Parameters
<1>4. QED
  BY <1>1, <1>2, <1>3 DEF SetHere

\* The state of the reading of a reply: a transport of the same delivery.
KeepsDelivery(t, s) == IsTransport(s[1]) /\ s[1].DELIVERY = t.DELIVERY

\* Nor does a parameter of a reply.
LEMMA ParamKeepsDelivery ==
  ASSUME NEW t, NEW u, IsTransport(u), u.DELIVERY = t.DELIVERY, NEW param
  PROVE  /\ KeepsDelivery(t, get_transport_str_udp(u, param))
         /\ KeepsDelivery(t, get_transport_str_tcp(u, param))
<1>1. \A par \in SetHere : \A v : /\ IsTransport(rtp_transport_set(u, par, v))
                                  /\ rtp_transport_set(u, par, v).DELIVERY = t.DELIVERY
  BY SetKeepsDelivery
<1>2. KeepsDelivery(t, get_transport_str_udp(u, param))
  BY <1>1 DEF get_transport_str_udp, KeepsDelivery, SetHere
<1>3. KeepsDelivery(t, get_transport_str_tcp(u, param))
  BY <1>1 DEF get_transport_str_tcp, KeepsDelivery, SetHere
<1>4. QED
  BY <1>2, <1>3

\* What the i-th parameter makes of the reading, where f says what came before it.
ReadStep(t, r, f, i) ==
  IF i = 0 THEN <<rtp_transport_set(t, "SOCKTYPE", r.type), TRUE>>
  ELSE IF ~f[i - 1][2] THEN f[i - 1]
  ELSE IF r.type = "UDP" THEN get_transport_str_udp(f[i - 1][1], r.params[i])
  ELSE get_transport_str_tcp(f[i - 1][1], r.params[i])

ReadSteps(t, r, f, n) == \A i \in 0 .. n : f[i] = ReadStep(t, r, f, i)

\* The recursion that reads a reply has a solution for every number of parameters.
LEMMA ReadStepsExist ==
  ASSUME NEW t, NEW r, NEW n \in Nat
  PROVE  \E f : ReadSteps(t, r, f, n)
<1> DEFINE T == {m \in 0 .. n : ~ \E f : ReadSteps(t, r, f, m)}
<1>1. ASSUME T # {} PROVE FALSE
  <2>1. PICK m \in T : \A j \in T : m <= j
    <3>1. T \subseteq Nat
      OBVIOUS
    <3> HIDE DEF T
    <3>2. QED
      BY <1>1, <3>1, LeastExists
  <2>2. m \in 0 .. n /\ ~ \E f : ReadSteps(t, r, f, m)
    BY <2>1
  <2>3. m # 0
    <3> DEFINE f == [i \in {0} |-> ReadStep(t, r, [j \in {} |-> 0], 0)]
    <3>1. f[0] = ReadStep(t, r, f, 0)
      BY DEF ReadStep
    <3> HIDE DEF f
    <3>2. ReadSteps(t, r, f, 0)
      BY <3>1 DEF ReadSteps
    <3>3. QED
      BY <2>2, <3>2
  <2>4. m - 1 \in 0 .. n /\ m - 1 \notin T
    BY <2>1, <2>2, <2>3
  <2>5. PICK f : ReadSteps(t, r, f, m - 1)
    BY <2>4
  <2> DEFINE g == [i \in 0 .. m |-> IF i = m THEN ReadStep(t, r, f, m) ELSE f[i]]
  <2>6. \A i \in 0 .. m : g[i] = IF i = m THEN ReadStep(t, r, f, m) ELSE f[i]
    OBVIOUS
  <2> HIDE DEF g
  <2>7. ASSUME NEW i \in 0 .. m PROVE g[i] = ReadStep(t, r, g, i)
    <3>1. i # 0 => g[i - 1] = f[i - 1]
      BY <2>2, <2>6
    <3>2. ReadStep(t, r, g, i) = ReadStep(t, r, f, i)
      BY <3>1 DEF ReadStep
    <3>3. i # m => f[i] = ReadStep(t, r, f, i)
      BY <2>2, <2>5 DEF ReadSteps
    <3>4. QED
      BY <2>6, <3>2, <3>3
  <2>8. QED
    BY <2>2, <2>7 DEF ReadSteps
<1>2. n \in 0 .. n
  OBVIOUS
<1>3. QED
  BY <1>1, <1>2

\* The reading of a reply goes from one parameter to the next.
LEMMA ReadGoesOn ==
  ASSUME NEW t, NEW r, Len(r.params) \in Nat
  PROVE  ReadSteps(t, r, Read(t, r), Len(r.params))
<1> DEFINE Is(f) == f = [i \in 0 .. Len(r.params) |->
                           IF i = 0 THEN <<rtp_transport_set(t, "SOCKTYPE", r.type), TRUE>>
                           ELSE IF ~f[i - 1][2] THEN f[i - 1]
                           ELSE IF r.type = "UDP" THEN get_transport_str_udp(f[i - 1][1], r.params[i])
                           ELSE get_transport_str_tcp(f[i - 1][1], r.params[i])]
<1>1. PICK n \in Nat : n = Len(r.params)
  OBVIOUS
<1>2. PICK f : ReadSteps(t, r, f, n)
  BY ReadStepsExist
<1> DEFINE g == [i \in 0 .. n |-> f[i]]
<1>3. Is(g)
  <2>1. \A i \in 0 .. n : g[i] = f[i]
    OBVIOUS
  <2>2. g = [i \in 0 .. n |-> g[i]]
    OBVIOUS
  <2> HIDE DEF g
  <2>3. ASSUME NEW i \in 0 .. n
        PROVE  g[i] = IF i = 0 THEN <<rtp_transport_set(t, "SOCKTYPE", r.type), TRUE>>
                      ELSE IF ~g[i - 1][2] THEN g[i - 1]
                      ELSE IF r.type = "UDP" THEN get_transport_str_udp(g[i - 1][1], r.params[i])
                      ELSE get_transport_str_tcp(g[i - 1][1], r.params[i])
    <3>1. i # 0 => g[i - 1] = f[i - 1]
      BY <2>1
    <3>2. g[i] = ReadStep(t, r, f, i)
      BY <1>2, <2>1 DEF ReadSteps
    <3>3. QED
      BY <3>1, <3>2 DEF ReadStep
  <2>4. QED
    BY <1>1, <2>2, <2>3
<1>4. Is(CHOOSE h : Is(h))
  <2> HIDE DEF g, Is
  <2>1. QED
    BY <1>3
<1>5. Read(t, r) = CHOOSE h : Is(h)
  BY DEF Read
<1> DEFINE h == Read(t, r)
<1>6. Is(h)
  <2> HIDE DEF Is
  <2>1. QED
    BY <1>4, <1>5
<1> HIDE DEF h
<1>7. \A i \in 0 .. n : h[i] = ReadStep(t, r, h, i)
  BY <1>1, <1>6 DEF ReadStep
<1>8. QED
  BY <1>1, <1>7 DEF ReadSteps, h

\* No reply changes how the packets of a medium are delivered.
LEMMA ReplyKeepsDelivery ==
  ASSUME NEW t, IsTransport(t), NEW r, Len(r.params) \in Nat
  PROVE  IsTransport(get_transport_str(t, r)) /\ get_transport_str(t, r).DELIVERY = t.DELIVERY
<1>1. PICK n \in Nat : n = Len(r.params)
  OBVIOUS
<1>2. PICK f : f = Read(t, r) /\ ReadSteps(t, r, f, n)
  BY <1>1, ReadGoesOn
<1> DEFINE T == {i \in 0 .. n : ~KeepsDelivery(t, f[i])}
<1>3. ASSUME T # {} PROVE FALSE
  <2>1. PICK i \in T : \A j \in T : i <= j
    <3>1. T \subseteq Nat
      OBVIOUS
    <3> HIDE DEF T
    <3>2. QED
      BY <1>3, <3>1, LeastExists
  <2>2. i \in 0 .. n /\ ~KeepsDelivery(t, f[i]) /\ f[i] = ReadStep(t, r, f, i)
    BY <1>2, <2>1 DEF ReadSteps
  <2>3. CASE i = 0
    <3>1. f[i] = <<rtp_transport_set(t, "SOCKTYPE", r.type), TRUE>>
      BY <2>2, <2>3 DEF ReadStep
    <3>2. "SOCKTYPE" \in SetHere
      BY DEF SetHere
    <3>3. QED
      BY <2>2, <3>1, <3>2, SetKeepsDelivery DEF KeepsDelivery
  <2>4. CASE i # 0
    <3>1. KeepsDelivery(t, f[i - 1])
      BY <2>1, <2>2, <2>4
    <3>2. /\ KeepsDelivery(t, get_transport_str_udp(f[i - 1][1], r.params[i]))
          /\ KeepsDelivery(t, get_transport_str_tcp(f[i - 1][1], r.params[i]))
      BY <3>1, ParamKeepsDelivery DEF KeepsDelivery
    <3>3. QED
      BY <2>2, <2>4, <3>1, <3>2 DEF ReadStep
  <2>5. QED
    BY <2>3, <2>4
<1>4. KeepsDelivery(t, f[n])
  BY <1>3
<1>5. QED
  BY <1>1, <1>2, <1>4 DEF get_transport_str, KeepsDelivery

\* A reply for a group sets the port of the group.
LEMMA GroupPort ==
  ASSUME NEW t, IsTransport(t), NEW w, NEW r, r.type = "UDP",
         r.params = <<<<"destination", Group>>, <<"port", w>>, <<"ttl", 1>>>>
  PROVE  get_transport_str(t, r).SRVRTP = w[1]
<1>1. Len(r.params) = 3
  OBVIOUS
<1>2. PICK f : f = Read(t, r) /\ ReadSteps(t, r, f, 3)
  BY <1>1, ReadGoesOn
<1>3. /\ f[0] = ReadStep(t, r, f, 0) /\ f[1] = ReadStep(t, r, f, 1)
      /\ f[2] = ReadStep(t, r, f, 2) /\ f[3] = ReadStep(t, r, f, 3)
  BY <1>2 DEF ReadSteps
<1>a. /\ r.params[1] = <<"destination", Group>> /\ r.params[2] = <<"port", w>>
      /\ r.params[3] = <<"ttl", 1>>
  OBVIOUS
<1>b. PICK t0 : t0 = rtp_transport_set(t, "SOCKTYPE", r.type)
  OBVIOUS
<1>c. PICK t1 : t1 = rtp_transport_set(t0, "DSTADDRSTR", Group)
  OBVIOUS
<1>d. PICK t2 : t2 = rtp_transport_set(t1, "SRVPORTS", w)
  OBVIOUS
<1>e. PICK t3 : t3 = rtp_transport_set(t2, "TTL", 1)
  OBVIOUS
<1>4. f[0] = <<t0, TRUE>>
  BY <1>3, <1>b DEF ReadStep
<1>5. f[1] = <<t1, TRUE>>
  <2>1. f[1] = get_transport_str_udp(t0, <<"destination", Group>>)
    <3>1. f[1 - 1] = f[0] /\ 1 # 0
      OBVIOUS
    <3>2. f[1 - 1][1] = t0 /\ f[1 - 1][2]
      BY <1>4, <3>1
    <3>3. QED
      BY <1>3, <1>a, <3>1, <3>2, Zenon DEF ReadStep
  <2>2. Group # BadAddr
    BY PathAssumption DEF PathAssumption
  <2>3. get_transport_str_udp(t0, <<"destination", Group>>) = <<rtp_transport_set(t0, "DSTADDRSTR", Group), TRUE>>
    BY <2>2 DEF get_transport_str_udp
  <2>4. QED
    BY <2>1, <2>3, <1>c, Zenon
<1>6. f[2] = <<t2, TRUE>>
  <2>1. f[2] = get_transport_str_udp(t1, <<"port", w>>)
    <3>1. f[2 - 1] = f[1] /\ 2 # 0
      OBVIOUS
    <3>2. f[2 - 1][1] = t1 /\ f[2 - 1][2]
      BY <1>5, <3>1
    <3>3. QED
      BY <1>3, <1>a, <3>1, <3>2, Zenon DEF ReadStep
  <2>2. get_transport_str_udp(t1, <<"port", w>>) = <<rtp_transport_set(t1, "SRVPORTS", w), TRUE>>
    BY DEF get_transport_str_udp
  <2>3. QED
    BY <2>1, <2>2, <1>d, Zenon
<1>7. f[3] = <<t3, TRUE>>
  <2>1. f[3] = get_transport_str_udp(t2, <<"ttl", 1>>)
    <3>1. f[3 - 1] = f[2] /\ 3 # 0
      OBVIOUS
    <3>2. f[3 - 1][1] = t2 /\ f[3 - 1][2]
      BY <1>6, <3>1
    <3>3. QED
      BY <1>3, <1>a, <3>1, <3>2, Zenon DEF ReadStep
  <2>2. get_transport_str_udp(t2, <<"ttl", 1>>) = <<rtp_transport_set(t2, "TTL", 1), TRUE>>
    BY DEF get_transport_str_udp
  <2>3. QED
    BY <2>1, <2>2, <1>e, Zenon
<1>8. get_transport_str(t, r) = t3
  BY <1>1, <1>2, <1>7 DEF get_transport_str
<1>9. IsTransport(t1)
  <2>1. IsTransport(t0)
    BY <1>b, SetKeepsDelivery DEF SetHere
  <2>2. QED
    BY <1>c, <2>1, SetKeepsDelivery DEF SetHere
<1>10. t2 = [t1 EXCEPT !["SRVRTP"] = w[1], !["SRVRTCP"] = w[2]]
  BY <1>d, PairFacts DEF rtp_transport_set
<1>11. IsTransport(t2) /\ t2.SRVRTP = w[1]
  <2>1. t2.SRVRTP = w[1]
    BY <1>9, <1>10 DEF IsTransport, Parameters
  <2>2. QED
    BY <1>d, <1>9, <2>1, SetKeepsDelivery DEF SetHere
<1>12. t3 = [t2 EXCEPT !["TTL"] = 1]
  <2>1. "TTL" \notin DOMAIN Pair
    BY DEF Pair
  <2>2. QED
    BY <1>e, <2>1 DEF rtp_transport_set
<1>13. QED
  BY <1>8, <1>11, <1>12 DEF IsTransport, Parameters

-----------------------------------------------------------------------------
(***************************************************************************)
(* SETUP and its reply.                                                    *)
(***************************************************************************)

\* What is asked of the server when a medium got its ports.
LEMMA AsksForPorts ==
  ASSUME scene.delivery \in {"unicast", "multicast"}, NEW m \in Nat \ {0}, NEW p \in Nat, NEW q \in Nat, p # 0, q # 0
  PROVE  LET t == rtp_transport_set(Fresh(m), "CLIPORTS", <<p, q>>)
             h == set_transport_str(t)
         IN  /\ IsTransport(t) /\ t.DELIVERY = scene.delivery
             /\ h.type = "UDP" /\ h.delivery = scene.delivery /\ h.client_port = <<p, q>> /\ h # NotSet
<1> DEFINE t == rtp_transport_set(Fresh(m), "CLIPORTS", <<p, q>>)
           h == set_transport_str(t)
<1>1. IsTransport(t) /\ t.DELIVERY = scene.delivery
  BY FreshFacts, SetKeepsDelivery DEF SetHere
<1>2. t = [Fresh(m) EXCEPT !["CLIRTP"] = p, !["CLIRTCP"] = q]
  BY PairFacts DEF rtp_transport_set
<1>3. /\ t.SOCKTYPE = "UDP" /\ t.LAYERS = 0 /\ t.TTL = 0 /\ t.MCSRTP = 0 /\ t.CLIRTP = p /\ t.CLIRTCP = q
      /\ t.MODE = "play" /\ t.APPEND = 0 /\ t.SSRC = m
  BY <1>2 DEF Fresh, NewTransport
<1> HIDE DEF t
<1>4. rtp_transport_get(t, "CLIPORTS") = [i \in 1 .. 2 |-> t[Pair["CLIPORTS"][i]]]
  BY <1>3, PairFacts DEF rtp_transport_get
<1>5. rtp_transport_get(t, "CLIPORTS") = <<p, q>>
  BY <1>3, <1>4, PairFacts
<1>6. rtp_transport_get(t, "MCSPORTS") = NotSet
  BY <1>3 DEF rtp_transport_get, Pair, NotSetIfZero
<1>7. rtp_transport_get(t, "LAYERS") = NotSet /\ rtp_transport_get(t, "TTL") = NotSet /\ rtp_transport_get(t, "APPEND") = NotSet
  BY <1>3 DEF rtp_transport_get, Pair, NotSetIfZero
<1>8. rtp_transport_get(t, "SSRC") = m
  BY <1>3 DEF rtp_transport_get, Pair, NotSetIfZero
<1>9. h = [type |-> "UDP", delivery |-> scene.delivery, layers |-> NotSet, ttl |-> NotSet, port |-> NotSet,
           client_port |-> <<p, q>>, interleaved |-> NotSet, mode |-> "play", append |-> NotSet, ssrc |-> m]
  BY <1>1, <1>3, <1>5, <1>6, <1>7, <1>8 DEF set_transport_str
<1>10. h \in Header
  BY <1>9 DEF Header
<1>11. QED
  BY <1>1, <1>9, <1>10, PortFacts DEF t

\* What is asked of the server when a medium got its channels.
LEMMA AsksForChannels ==
  ASSUME scene.delivery \in {"unicast", "multicast"}, NEW m \in Nat \ {0}, NEW c \in Nat
  PROVE  LET t == rtp_transport_set(rtp_transport_set(Fresh(m), "SOCKTYPE", "TCP"), "INTERLEAVED", <<c, c + 1>>)
             h == set_transport_str(t)
         IN  /\ IsTransport(t) /\ t.DELIVERY = scene.delivery
             /\ h.type = "TCP" /\ h.interleaved = <<c, c + 1>> /\ h # NotSet
<1> DEFINE u == rtp_transport_set(Fresh(m), "SOCKTYPE", "TCP")
           t == rtp_transport_set(u, "INTERLEAVED", <<c, c + 1>>)
           h == set_transport_str(t)
<1>1. IsTransport(u) /\ u.DELIVERY = scene.delivery
  BY FreshFacts, SetKeepsDelivery DEF SetHere
<1>2. IsTransport(t) /\ t.DELIVERY = scene.delivery
  <2> HIDE DEF u
  <2>1. QED
    BY <1>1, SetKeepsDelivery DEF SetHere
<1>3. u = [Fresh(m) EXCEPT !["SOCKTYPE"] = "TCP"]
  BY DEF rtp_transport_set, Pair
<1>4. u.SOCKTYPE = "TCP" /\ u.MODE = "play" /\ u.APPEND = 0 /\ u.SSRC = m
  BY <1>3 DEF Fresh, NewTransport
<1> HIDE DEF u
<1>5. t = [u EXCEPT !["ILVDRTP"] = c, !["ILVDRTCP"] = c + 1]
  BY PairFacts DEF rtp_transport_set
<1>6. /\ t.SOCKTYPE = "TCP" /\ t.MODE = "play" /\ t.APPEND = 0 /\ t.SSRC = m
      /\ t.ILVDRTP = c /\ t.ILVDRTCP = c + 1
  BY <1>1, <1>4, <1>5 DEF IsTransport, Parameters
<1> HIDE DEF t
<1>7. rtp_transport_get(t, "INTERLEAVED") = [i \in 1 .. 2 |-> t[Pair["INTERLEAVED"][i]]]
  BY <1>6, PairFacts DEF rtp_transport_get, NotSetIfZero
<1>8. rtp_transport_get(t, "INTERLEAVED") = <<c, c + 1>>
  BY <1>6, <1>7, PairFacts
<1>9. rtp_transport_get(t, "APPEND") = NotSet /\ rtp_transport_get(t, "SSRC") = m
  BY <1>6 DEF rtp_transport_get, Pair, NotSetIfZero
<1>10. h = [type |-> "TCP", delivery |-> "unicast", layers |-> NotSet, ttl |-> NotSet, port |-> NotSet,
            client_port |-> NotSet, interleaved |-> <<c, c + 1>>, mode |-> "play", append |-> NotSet, ssrc |-> m]
  BY <1>6, <1>8, <1>9 DEF set_transport_str
<1>11. h \in Header
  BY <1>10 DEF Header
<1>12. QED
  BY <1>2, <1>10, <1>11, PortFacts DEF t, u

\* The invariant holds at first.
LEMMA InitHolds ==
  ASSUME Init
  PROVE  PInv
<1>1. scene \in Scenes /\ asked = NotSet /\ medium = 1 /\ Bound = 0
  BY DEF Init, Bound
<1>2. Count \in Nat \ {0} /\ Media = 1 .. Count /\ Fds = 1 .. 4 * Count /\ scene.proto \in {"UDP", "TCP"}
  BY <1>1, SceneFacts
<1>3. SceneOK
  BY <1>1, <1>2 DEF SceneOK, Init
<1>4. SocketsOK
  BY <1>1, <1>2 DEF SocketsOK, Init
<1>5. TransportOK
  <2>1. tr = [m \in Media |-> Fresh(m)]
    BY DEF Init, Fresh
  <2>2. QED
    BY <1>1, <1>2, <2>1 DEF TransportOK
<1>6. way = [m \in Media |-> NotSet] /\ force_rtp_port = scene.force /\ next_ilvd_ch = 0 /\ interleaved = <<>>
  BY DEF Init
<1>7. UdpOK
  BY <1>1, <1>2, <1>6 DEF UdpOK, WayOK
<1>8. TcpOK
  BY <1>1, <1>2, <1>6 DEF TcpOK, WayOK
<1>9. QED
  BY <1>3, <1>4, <1>5, <1>7, <1>8 DEF PInv

\* Two descriptors are left for every medium that has none yet.
LEMMA SetupFacts ==
  ASSUME PInv, ~Playing, asked = NotSet
  PROVE  /\ Count \in Nat \ {0} /\ Media = 1 .. Count /\ Fds = 1 .. 4 * Count
         /\ medium \in 1 .. Count /\ Bound = medium - 1 /\ tr[medium] = Fresh(medium)
         /\ 2 * Bound \in Nat /\ 2 * Bound + 1 < 4 * Count
         /\ DOMAIN open = 1 .. 4 * Count /\ open = [n \in 1 .. 4 * Count |-> open[n]]
         /\ \A n \in 1 .. 4 * Count : open[n] = Closed <=> n > 2 * Bound
<1>1. Count \in Nat \ {0} /\ Media = 1 .. Count /\ Fds = 1 .. 4 * Count
  BY SceneFacts DEF PInv, SceneOK
<1>2. medium \in 1 .. Count /\ Bound = medium - 1
  BY <1>1 DEF PInv, SceneOK, Playing, Count, Bound
<1>3. tr[medium] = Fresh(medium)
  BY <1>1, <1>2 DEF PInv, TransportOK
<1>4. 2 * Bound \in Nat /\ 2 * Bound + 1 < 4 * Count
  BY <1>1, <1>2
<1>5. QED
  BY <1>1, <1>2, <1>3, <1>4 DEF PInv, SocketsOK

\* Whatever the two descriptors are bound to, they are the medium's.
LEMMA GetsDescriptors ==
  ASSUME PInv, ~Playing, asked = NotSet, NEW p, NEW q, p # Closed, q # Closed,
         fd' = [fd EXCEPT ![medium] = [rtp |-> 2 * medium - 1, rtcp |-> 2 * medium]],
         open' = [n \in 1 .. 4 * Count |-> IF n = 2 * medium - 1 THEN p ELSE IF n = 2 * medium THEN q ELSE open[n]],
         NEW t, IsTransport(t), t.DELIVERY = scene.delivery, tr' = [tr EXCEPT ![medium] = t],
         asked' # NotSet, UNCHANGED <<scene, medium, way>>
  PROVE  /\ SceneOK' /\ SocketsOK' /\ TransportOK'
         /\ Bound' = medium /\ Count' = Count /\ Media' = Media
<1>1. /\ Count \in Nat \ {0} /\ Media = 1 .. Count /\ Fds = 1 .. 4 * Count
      /\ medium \in 1 .. Count /\ Bound = medium - 1
      /\ \A n \in 1 .. 4 * Count : open[n] = Closed <=> n > 2 * Bound
  BY SetupFacts
<1>2. Count' = Count /\ Media' = Media /\ Fds' = Fds /\ Bound' = medium
  BY DEF Count, Media, Fds, Bound
<1>3. SceneOK'
  BY <1>1, <1>2 DEF PInv, SceneOK
<1>4. fd' = [m \in Media |-> IF m <= medium THEN [rtp |-> 2 * m - 1, rtcp |-> 2 * m] ELSE [rtp |-> Closed, rtcp |-> Closed]]
  <2>1. fd = [m \in Media |-> IF m <= medium - 1 THEN [rtp |-> 2 * m - 1, rtcp |-> 2 * m]
                              ELSE [rtp |-> Closed, rtcp |-> Closed]]
    BY <1>1 DEF PInv, SocketsOK
  <2>2. fd' = [m \in Media |-> IF m = medium THEN [rtp |-> 2 * medium - 1, rtcp |-> 2 * medium] ELSE fd[m]]
    BY <1>1, <2>1
  <2>3. \A m \in Media : fd'[m] = IF m <= medium THEN [rtp |-> 2 * m - 1, rtcp |-> 2 * m]
                                  ELSE [rtp |-> Closed, rtcp |-> Closed]
    <3> SUFFICES ASSUME NEW m \in Media
                 PROVE  fd'[m] = IF m <= medium THEN [rtp |-> 2 * m - 1, rtcp |-> 2 * m]
                                 ELSE [rtp |-> Closed, rtcp |-> Closed]
      OBVIOUS
    <3>1. CASE m = medium
      BY <1>1, <2>2, <3>1
    <3>2. CASE m # medium
      <4>1. fd'[m] = fd[m] /\ (m <= medium <=> m <= medium - 1)
        BY <1>1, <2>2, <3>2
      <4>2. QED
        BY <2>1, <4>1
    <3>3. QED
      BY <3>1, <3>2
  <2>4. QED
    BY <2>2, <2>3
<1>5. \A n \in Fds : open'[n] = Closed <=> n > 2 * medium
  <2> SUFFICES ASSUME NEW n \in Fds PROVE open'[n] = Closed <=> n > 2 * medium
    OBVIOUS
  <2>1. open'[n] = IF n = 2 * medium - 1 THEN p ELSE IF n = 2 * medium THEN q ELSE open[n]
    BY <1>1
  <2>2. QED
    BY <1>1, <2>1
<1>6. SocketsOK'
  BY <1>1, <1>2, <1>4, <1>5 DEF SocketsOK
<1>7. TransportOK'
  <2>1. DOMAIN tr = Media /\ tr = [m \in Media |-> tr[m]]
    BY DEF PInv, TransportOK
  <2>2. tr' = [m \in Media |-> IF m = medium THEN t ELSE tr[m]]
    BY <1>1, <2>1
  <2>3. \A m \in Media : Fresh(m)' = Fresh(m)
    BY DEF Fresh
  <2>4. \A m \in Media : IF m > medium THEN tr'[m] = Fresh(m)
                         ELSE IsTransport(tr'[m]) /\ tr'[m].DELIVERY = scene.delivery
    BY <1>1, <2>2 DEF PInv, TransportOK
  <2>5. QED
    BY <1>2, <2>2, <2>3, <2>4 DEF TransportOK
<1>8. QED
  BY <1>2, <1>3, <1>6, <1>7

\* A sequence with something put before it.
LEMMA ConsFacts ==
  ASSUME NEW S, NEW k \in Nat, NEW s \in [1 .. k -> S], NEW e \in S
  PROVE  <<e>> \o s = [j \in 1 .. k + 1 |-> IF j = 1 THEN e ELSE s[j - 1]]
<1>1. s \in Seq(S) /\ Len(s) = k /\ <<e>> \in Seq(S) /\ Len(<<e>>) = 1
  OBVIOUS
<1>2. QED
  BY <1>1

\* A medium gets a socketpair for each of its two channels.
LEMMA SetupTcpKeeps ==
  ASSUME PInv, SetupTcp
  PROVE  PInv'
<1>1. /\ Count \in Nat \ {0} /\ Media = 1 .. Count /\ Fds = 1 .. 4 * Count
      /\ medium \in 1 .. Count /\ Bound = medium - 1 /\ tr[medium] = Fresh(medium)
      /\ 2 * Bound \in Nat /\ 2 * Bound + 1 < 4 * Count
      /\ DOMAIN open = 1 .. 4 * Count /\ open = [n \in 1 .. 4 * Count |-> open[n]]
      /\ \A n \in 1 .. 4 * Count : open[n] = Closed <=> n > 2 * Bound
  BY SetupFacts DEF SetupTcp
<1>2. TcpOK /\ scene \in Scenes /\ scene.proto = "TCP"
  BY DEF PInv, SceneOK, SetupTcp
<1>3. Lowest(open) = 2 * medium - 1
  <2>1. PICK N \in Nat, b \in Nat : N = 4 * Count /\ b = 2 * Bound /\ b < N
    BY <1>1
  <2>2. DOMAIN open = 1 .. N /\ \A n \in 1 .. N : open[n] = Closed <=> n > b
    BY <1>1, <2>1
  <2>3. Lowest(open) = b + 1
    BY <2>1, <2>2, LowestFree
  <2>4. b + 1 = 2 * medium - 1
    BY <1>1, <2>1
  <2>5. QED
    BY <2>3, <2>4
<1> DEFINE o == [open EXCEPT ![Lowest(open)] = Pair2]
<1>4. o = [n \in 1 .. 4 * Count |-> IF n = 2 * medium - 1 THEN Pair2 ELSE open[n]]
  BY <1>1, <1>3
<1>5. \A n \in 1 .. 4 * Count : o[n] = Closed <=> n > 2 * Bound + 1
  <2>1. \A n \in 1 .. 4 * Count : o[n] = IF n = 2 * medium - 1 THEN Pair2 ELSE open[n]
    BY <1>4
  <2> HIDE DEF o
  <2>2. /\ \A n \in 1 .. 4 * Count : open[n] = Closed <=> n > 2 * Bound
        /\ 2 * medium - 1 = 2 * Bound + 1 /\ 2 * Bound \in Nat /\ 4 * Count \in Nat
    BY <1>1
  <2>3. PICK N \in Nat, b \in Nat : N = 4 * Count /\ b = 2 * Bound
    BY <2>2
  <2>4. Pair2 # Closed
    BY PortFacts
  <2>5. \A n \in 1 .. N : o[n] = Closed <=> n > b + 1
    BY <2>1, <2>2, <2>3, <2>4
  <2>6. QED
    BY <2>3, <2>5
<1>6. DOMAIN o = 1 .. 4 * Count
  BY <1>4
<1>7. fd' = [fd EXCEPT ![medium] = [rtp |-> Lowest(open), rtcp |-> Lowest(o)]]
      /\ open' = [o EXCEPT ![Lowest(o)] = Pair2]
      /\ interleaved' = <<[rtp_ch |-> next_ilvd_ch, rtcp_ch |-> next_ilvd_ch + 1,
                           rtp_fd |-> Lowest(open), rtcp_fd |-> Lowest(o)]>> \o interleaved
  BY DEF SetupTcp
<1> HIDE DEF o
<1>8. Lowest(o) = 2 * medium
  <2>1. Lowest(o) = (2 * Bound + 1) + 1
    <3>1. 4 * Count \in Nat /\ 2 * Bound + 1 \in Nat /\ 2 * Bound + 1 < 4 * Count
      BY <1>1
    <3>2. PICK N \in Nat, b \in Nat : N = 4 * Count /\ b = 2 * Bound + 1 /\ b < N
      BY <3>1
    <3>3. DOMAIN o = 1 .. N /\ \A n \in 1 .. N : o[n] = Closed <=> n > b
      BY <1>5, <1>6, <3>2
    <3>4. QED
      BY <3>2, <3>3, LowestFree
  <2>2. QED
    BY <1>1, <2>1
<1>9. open' = [n \in 1 .. 4 * Count |-> IF n = 2 * medium - 1 THEN Pair2 ELSE IF n = 2 * medium THEN Pair2 ELSE open[n]]
  BY <1>1, <1>4, <1>7, <1>8
<1> DEFINE t == rtp_transport_set(rtp_transport_set(tr[medium], "SOCKTYPE", "TCP"), "INTERLEAVED",
                                  <<next_ilvd_ch, next_ilvd_ch + 1>>)
<1>10. next_ilvd_ch = 2 * medium - 2 /\ next_ilvd_ch \in Nat
  BY <1>1, <1>2 DEF TcpOK
<1>11. /\ IsTransport(t) /\ t.DELIVERY = scene.delivery
       /\ set_transport_str(t).type = "TCP" /\ set_transport_str(t) # NotSet
       /\ set_transport_str(t).interleaved = <<next_ilvd_ch, next_ilvd_ch + 1>>
  <2>1. scene.delivery \in {"unicast", "multicast"} /\ medium \in Nat \ {0}
    BY <1>1, <1>2, SceneFacts
  <2> DEFINE u == rtp_transport_set(rtp_transport_set(Fresh(medium), "SOCKTYPE", "TCP"), "INTERLEAVED",
                                    <<next_ilvd_ch, next_ilvd_ch + 1>>)
  <2>2. /\ IsTransport(u) /\ u.DELIVERY = scene.delivery
        /\ set_transport_str(u).type = "TCP" /\ set_transport_str(u) # NotSet
        /\ set_transport_str(u).interleaved = <<next_ilvd_ch, next_ilvd_ch + 1>>
    BY <1>10, <2>1, AsksForChannels
  <2>3. t = u
    BY <1>1
  <2> HIDE DEF t, u
  <2>4. QED
    BY <2>2, <2>3
<1>12. tr' = [tr EXCEPT ![medium] = t] /\ asked' = set_transport_str(t)
  BY DEF SetupTcp
<1> HIDE DEF t
<1>13. SceneOK' /\ SocketsOK' /\ TransportOK' /\ Bound' = medium /\ Count' = Count /\ Media' = Media
  <2>1. ~Playing /\ asked = NotSet /\ UNCHANGED <<scene, medium, way>>
    BY DEF SetupTcp
  <2>2. fd' = [fd EXCEPT ![medium] = [rtp |-> 2 * medium - 1, rtcp |-> 2 * medium]]
    BY <1>3, <1>7, <1>8
  <2>3. QED
    BY <1>9, <1>11, <1>12, <2>1, <2>2, PortFacts, GetsDescriptors
<1>14. TcpOK'
  <2>1. next_ilvd_ch' = 2 * medium
    BY <1>1, <1>10 DEF SetupTcp
  <2>2. interleaved' = [j \in 1 .. medium |-> Entry(medium + 1 - j)]
    <3>1. interleaved = [j \in 1 .. medium - 1 |-> Entry(medium - j)]
      BY <1>1, <1>2 DEF TcpOK
    <3>2. interleaved' = <<Entry(medium)>> \o interleaved
      <4>1. 2 * medium - 2 + 1 = 2 * medium - 1
        BY <1>1
      <4>2. QED
        BY <1>3, <1>7, <1>8, <1>10, <4>1 DEF Entry
    <3> DEFINE S == {Entry(j) : j \in Nat}
    <3>3. medium - 1 \in Nat /\ medium = (medium - 1) + 1
      BY <1>1
    <3>4. Entry(medium) \in S /\ \A j \in 1 .. medium - 1 : Entry(medium - j) \in S
      BY <1>1
    <3>5. interleaved \in [1 .. medium - 1 -> S]
      BY <3>1, <3>4
    <3> HIDE DEF S
    <3>6. interleaved' = [j \in 1 .. medium |-> IF j = 1 THEN Entry(medium) ELSE interleaved[j - 1]]
      BY <3>2, <3>3, <3>4, <3>5, ConsFacts
    <3>7. \A j \in 1 .. medium : (IF j = 1 THEN Entry(medium) ELSE interleaved[j - 1]) = Entry(medium + 1 - j)
      <4> SUFFICES ASSUME NEW j \in 1 .. medium
                   PROVE  (IF j = 1 THEN Entry(medium) ELSE interleaved[j - 1]) = Entry(medium + 1 - j)
        OBVIOUS
      <4>1. CASE j = 1
        <5>1. medium + 1 - j = medium
          BY <1>1, <4>1
        <5>2. QED
          BY <4>1, <5>1
      <4>2. CASE j # 1
        <5>1. j - 1 \in 1 .. medium - 1 /\ medium - (j - 1) = medium + 1 - j
          BY <1>1, <4>2
        <5>2. interleaved[j - 1] = Entry(medium - (j - 1))
          BY <3>1, <5>1
        <5>3. QED
          BY <4>2, <5>1, <5>2
      <4>3. QED
        BY <4>1, <4>2
    <3>8. QED
      BY <3>6, <3>7
  <2>3. asked'.type = "TCP" /\ asked'.interleaved = <<2 * medium - 2, 2 * medium - 1>>
    BY <1>1, <1>10, <1>11, <1>12
  <2>4. \A m \in Media : WayOK(m, <<2 * m - 2, 2 * m - 1>>)'
    BY <1>2 DEF TcpOK, WayOK, SetupTcp
  <2>5. medium' = medium
    BY DEF SetupTcp
  <2>6. QED
    BY <1>13, <2>1, <2>2, <2>3, <2>4, <2>5 DEF TcpOK
<1>15. scene'.proto = "TCP"
  BY <1>2 DEF SetupTcp
<1>16. QED
  BY <1>13, <1>14, <1>15 DEF PInv

\* In an orderly scene a medium starts from a port that can be had, the next one too, and
\* the medium after it from two ports further on.
LEMMA StartPort ==
  ASSUME Orderly, PInv, scene.proto = "UDP", ~Playing, asked = NotSet, NEW rnd \in FirstPorts
  PROVE  /\ rnd \in Nat \ {0} /\ rnd % 2 = 0 /\ rnd \in PortsOf(scene) /\ rnd + 1 \in PortsOf(scene)
         /\ Count > 1 => scene.delivery = "unicast" /\ rnd = FirstPort(scene) + 2 * (medium - 1)
         /\ medium < Count => NextForced = FirstPort(scene) + 2 * medium
<1>1. Count \in Nat \ {0} /\ medium \in 1 .. Count /\ Bound = medium - 1
  BY SetupFacts
<1>2. scene \in Scenes /\ PortMod \in Nat /\ scene.force \in 0 .. PortMod - 1 /\ UdpOK
  BY SceneFacts DEF PInv, SceneOK
<1>3. PICK first \in Nat : /\ first = FirstPort(scene) /\ first % 2 = 0
                           /\ scene.force % 2 = 1 => first = scene.force + 1
                           /\ scene.force % 2 # 1 => first = scene.force
  BY <1>2 DEF FirstPort
<1>4. IF Count = 1 THEN first < PortMod
      ELSE scene.delivery = "unicast" /\ scene.force # 0 /\ first + 2 * Count <= PortMod
  BY <1>2, <1>3 DEF Orderly, Count
<1>5. force_rtp_port = IF medium = 1 THEN scene.force ELSE first + 2 * (medium - 1)
  BY <1>1, <1>2, <1>3 DEF UdpOK
<1>6. first .. first + 2 * Count - 1 \subseteq PortsOf(scene) /\ RandomPorts \subseteq PortsOf(scene)
      /\ \A p \in RandomPorts : p + 1 \in PortsOf(scene)
  BY <1>3 DEF PortsOf, Count
<1>7. CASE force_rtp_port = 0
  <2>1. Count = 1
    BY <1>1, <1>3, <1>4, <1>5, <1>7
  <2>2. rnd \in RandomPorts
    BY <1>7 DEF FirstPorts
  <2>3. QED
    BY <1>1, <1>6, <2>1, <2>2, PortFacts
<1>8. CASE force_rtp_port # 0
  <2>1. first + 2 * (medium - 1) < PortMod /\ first + 2 * (medium - 1) \in Nat
    BY <1>1, <1>2, <1>3, <1>4
  <2>2. Even = first + 2 * (medium - 1)
    <3>1. CASE medium = 1
      <4>1. scene.force % 2 = 1 => Even = first
        BY <1>2, <1>3, <1>5, <2>1, <3>1, SmallMod DEF Even
      <4>2. scene.force % 2 # 1 => Even = first
        BY <1>3, <1>5, <3>1 DEF Even
      <4>3. QED
        BY <1>3, <3>1, <4>1, <4>2
    <3>2. CASE medium # 1
      <4>1. (first + 2 * (medium - 1)) % 2 = 0
        BY <1>1, <1>3
      <4>2. QED
        BY <1>5, <3>2, <4>1 DEF Even
    <3>3. QED
      BY <3>1, <3>2
  <2>3. rnd = Even
    BY <1>8 DEF FirstPorts
  <2>4. rnd # 0 /\ rnd % 2 = 0 /\ rnd \in Nat
    BY <1>1, <1>2, <1>3, <1>5, <1>8, <2>2, <2>3
  <2>5. rnd \in first .. first + 2 * Count - 1 /\ rnd + 1 \in first .. first + 2 * Count - 1
    BY <1>1, <2>2, <2>3
  <2>6. ASSUME medium < Count PROVE NextForced = first + 2 * medium
    <3>1. first + 2 * medium < PortMod /\ first + 2 * medium \in Nat /\ Even + 2 = first + 2 * medium
      BY <1>1, <1>2, <1>4, <2>2, <2>6
    <3>2. NextForced = (Even + 2) % PortMod
      BY <1>8, <2>3, <2>4 DEF NextForced
    <3>3. QED
      BY <1>2, <3>1, <3>2, SmallMod
  <2>7. QED
    BY <1>1, <1>3, <1>4, <1>6, <2>2, <2>3, <2>4, <2>5, <2>6
<1>9. QED
  BY <1>7, <1>8

\* A medium gets a socket for each of its two ports.
LEMMA SetupUdpKeeps ==
  ASSUME Orderly, PInv, SetupUdp
  PROVE  PInv'
<1>1. /\ Count \in Nat \ {0} /\ Media = 1 .. Count /\ Fds = 1 .. 4 * Count
      /\ medium \in 1 .. Count /\ Bound = medium - 1 /\ tr[medium] = Fresh(medium)
      /\ 2 * Bound \in Nat /\ 2 * Bound + 1 < 4 * Count
      /\ DOMAIN open = 1 .. 4 * Count /\ open = [n \in 1 .. 4 * Count |-> open[n]]
      /\ \A n \in 1 .. 4 * Count : open[n] = Closed <=> n > 2 * Bound
  BY SetupFacts DEF SetupUdp
<1>a. Count \in Nat \ {0} /\ Media = 1 .. Count /\ medium \in 1 .. Count /\ Bound = medium - 1
  BY <1>1
<1>2. UdpOK /\ scene \in Scenes /\ scene.proto = "UDP" /\ scene.delivery \in {"unicast", "multicast"}
  BY SceneFacts DEF PInv, SceneOK, SetupUdp
<1>b. FirstPort(scene) \in Nat
  BY <1>2, SceneFacts DEF FirstPort
<1>3. PICK rnd \in FirstPorts : \E p \in Asked(rnd), q \in Asked(rnd + 1) :
       LET a == sock_bind(open, p)
           b == sock_bind(a.open, q)
       IN  \E local \in LocalPorts(b.open, a.fd) \X LocalPorts(b.open, b.fd) :
             LET t == rtp_transport_set(tr[medium], "CLIPORTS", local)
             IN  /\ open' = b.open
                 /\ fd' = [fd EXCEPT ![medium] = [rtp |-> a.fd, rtcp |-> b.fd]]
                 /\ tr' = [tr EXCEPT ![medium] = t]
                 /\ asked' = set_transport_str(t)
  BY DEF SetupUdp
<1>4. /\ rnd \in Nat \ {0} /\ rnd % 2 = 0 /\ rnd \in PortsOf(scene) /\ rnd + 1 \in PortsOf(scene)
      /\ Count > 1 => scene.delivery = "unicast" /\ rnd = FirstPort(scene) + 2 * (medium - 1)
      /\ medium < Count => NextForced = FirstPort(scene) + 2 * medium
  BY StartPort DEF SetupUdp
<1>c. rnd \in Nat \ {0} /\ rnd % 2 = 0
  BY <1>4
<1>5. rnd \notin Taken /\ rnd + 1 \notin Taken
  BY <1>2, <1>4 DEF Orderly
<1>6. Asked(rnd) = {rnd} /\ Asked(rnd + 1) = {rnd + 1}
  BY <1>4 DEF Asked
<1>7. PICK a : a = sock_bind(open, rnd)
  OBVIOUS
<1>8. PICK b : b = sock_bind(a.open, rnd + 1)
  OBVIOUS
<1>9. PICK local \in LocalPorts(b.open, a.fd) \X LocalPorts(b.open, b.fd) :
        /\ open' = b.open
        /\ fd' = [fd EXCEPT ![medium] = [rtp |-> a.fd, rtcp |-> b.fd]]
        /\ tr' = [tr EXCEPT ![medium] = rtp_transport_set(tr[medium], "CLIPORTS", local)]
        /\ asked' = set_transport_str(rtp_transport_set(tr[medium], "CLIPORTS", local))
  BY <1>3, <1>6, <1>7, <1>8
<1>10. /\ a.fd = 2 * medium - 1
       /\ a.open = [n \in 1 .. 4 * Count |-> IF n = 2 * medium - 1 THEN rnd ELSE open[n]]
       /\ \A n \in 1 .. 4 * Count : a.open[n] = Closed <=> n > 2 * Bound + 1
  <2>1. 2 * Bound + 1 = 2 * medium - 1 /\ 4 * Count \in Nat /\ 2 * Bound < 4 * Count /\ rnd \in Nat
    BY <1>1, <1>4
  <2>2. PICK N \in Nat, c \in Nat : N = 4 * Count /\ c = 2 * Bound /\ c < N
    BY <1>1, <2>1
  <2>3. Table(open, N, c)
    BY <1>1, <2>2 DEF Table
  <2>4. a.fd = c + 1 /\ a.open = With(open, N, c + 1, rnd) /\ Table(a.open, N, c + 1)
    BY <1>5, <1>7, <2>1, <2>2, <2>3, Binds
  <2>5. QED
    BY <2>1, <2>2, <2>4 DEF Table, With
<1>11. /\ b.fd = 2 * medium
       /\ b.open = [n \in 1 .. 4 * Count |-> IF n = 2 * medium THEN rnd + 1 ELSE a.open[n]]
  <2>1. (2 * Bound + 1) + 1 = 2 * medium /\ 4 * Count \in Nat /\ 2 * Bound + 1 \in Nat /\ rnd + 1 \in Nat
    BY <1>a, <1>c
  <2>2. DOMAIN a.open = 1 .. 4 * Count /\ a.open = [n \in 1 .. 4 * Count |-> a.open[n]]
    BY <1>10
  <2>3. PICK N \in Nat, c \in Nat, q \in Nat : N = 4 * Count /\ c = 2 * Bound + 1 /\ c < N /\ q = rnd + 1
    BY <1>1, <2>1
  <2>4. Table(a.open, N, c)
    BY <1>10, <2>2, <2>3 DEF Table
  <2>5. b.fd = c + 1 /\ b.open = With(a.open, N, c + 1, q)
    BY <1>5, <1>8, <2>3, <2>4, Binds
  <2>6. QED
    BY <2>1, <2>3, <2>5 DEF With
<1>12. \A n \in 1 .. 4 * Count :
         b.open[n] = IF n = 2 * medium - 1 THEN rnd ELSE IF n = 2 * medium THEN rnd + 1 ELSE open[n]
  <2>1. \A n \in 1 .. 4 * Count : b.open[n] = IF n = 2 * medium THEN rnd + 1 ELSE a.open[n]
    BY <1>11
  <2>2. \A n \in 1 .. 4 * Count : a.open[n] = IF n = 2 * medium - 1 THEN rnd ELSE open[n]
    BY <1>10
  <2>3. 2 * medium - 1 # 2 * medium
    BY <1>1
  <2>4. QED
    BY <2>1, <2>2, <2>3
<1>13. 2 * medium - 1 \in 1 .. 4 * Count /\ 2 * medium \in 1 .. 4 * Count /\ 2 * medium - 1 # 2 * medium
  BY <1>1
<1>14. local = <<rnd, rnd + 1>>
  <2>1. b.open[a.fd] = rnd /\ b.open[b.fd] = rnd + 1
    BY <1>10, <1>11, <1>12, <1>13
  <2>2. LocalPorts(b.open, a.fd) = {rnd} /\ LocalPorts(b.open, b.fd) = {rnd + 1}
    BY <1>4, <2>1, PortFacts DEF LocalPorts
  <2>3. QED
    BY <2>2
<1>15. open' = [n \in 1 .. 4 * Count |-> IF n = 2 * medium - 1 THEN rnd ELSE IF n = 2 * medium THEN rnd + 1 ELSE open[n]]
  BY <1>9, <1>11, <1>12
<1> DEFINE t == rtp_transport_set(Fresh(medium), "CLIPORTS", <<rnd, rnd + 1>>)
<1>16. tr' = [tr EXCEPT ![medium] = t] /\ asked' = set_transport_str(t)
  BY <1>1, <1>9, <1>14
<1>17. /\ IsTransport(t) /\ t.DELIVERY = scene.delivery /\ set_transport_str(t) # NotSet
       /\ set_transport_str(t).type = "UDP" /\ set_transport_str(t).delivery = scene.delivery
       /\ set_transport_str(t).client_port = <<rnd, rnd + 1>>
  <2>1. PICK m \in Nat \ {0}, p \in Nat, q \in Nat : m = medium /\ p = rnd /\ q = rnd + 1 /\ p # 0 /\ q # 0
    BY <1>a, <1>c
  <2>2. /\ IsTransport(rtp_transport_set(Fresh(m), "CLIPORTS", <<p, q>>))
        /\ rtp_transport_set(Fresh(m), "CLIPORTS", <<p, q>>).DELIVERY = scene.delivery
    BY <1>2, <2>1, AsksForPorts
  <2>3. LET h == set_transport_str(rtp_transport_set(Fresh(m), "CLIPORTS", <<p, q>>))
        IN  h # NotSet /\ h.type = "UDP" /\ h.delivery = scene.delivery /\ h.client_port = <<p, q>>
    BY <1>2, <2>1, AsksForPorts
  <2>4. QED
    BY <2>1, <2>2, <2>3
<1> HIDE DEF t
<1>18. ~Playing /\ asked = NotSet /\ UNCHANGED <<scene, medium, way>> /\ force_rtp_port' = NextForced
  BY DEF SetupUdp
<1>19. SceneOK' /\ SocketsOK' /\ TransportOK' /\ Bound' = medium /\ Count' = Count /\ Media' = Media
  <2>1. fd' = [fd EXCEPT ![medium] = [rtp |-> 2 * medium - 1, rtcp |-> 2 * medium]]
    BY <1>9, <1>10, <1>11
  <2>2. rnd # Closed /\ rnd + 1 # Closed
    BY <1>4, PortFacts
  <2>3. QED
    BY <1>15, <1>16, <1>17, <1>18, <2>1, <2>2, GetsDescriptors
<1>20. UdpOK'
  <2>1. \A n \in 1 .. 4 * Count :
          open'[n] = IF n = 2 * medium - 1 THEN rnd ELSE IF n = 2 * medium THEN rnd + 1 ELSE open[n]
    BY <1>15
  <2>2. open'[2 * medium - 1] = rnd /\ open'[2 * medium] = rnd + 1
    BY <1>13, <2>1
  <2>3. \A n \in 1 .. 2 * (medium - 1) : open'[n] = open[n]
    BY <1>1, <2>1
  <2>4. medium = 1 => open'[1] = rnd /\ open'[2] = rnd + 1
    BY <2>2
  <2>5. medium # 1 => /\ open'[1] = open[1] /\ Count > 1 /\ open[1] \in Nat /\ open[1] % 2 = 0
                      /\ open[1] = FirstPort(scene) /\ scene.delivery = "unicast"
                      /\ \A n \in 1 .. 2 * (medium - 1) : open[n] = open[1] + n - 1
    <3> SUFFICES ASSUME medium # 1
                 PROVE  /\ open'[1] = open[1] /\ Count > 1 /\ open[1] \in Nat /\ open[1] % 2 = 0
                        /\ open[1] = FirstPort(scene) /\ scene.delivery = "unicast"
                        /\ \A n \in 1 .. 2 * (medium - 1) : open[n] = open[1] + n - 1
      OBVIOUS
    <3>1. Bound > 0 /\ Count > 1 /\ 1 \in 1 .. 2 * (medium - 1)
      BY <1>a
    <3>2. open'[1] = open[1]
      BY <2>3, <3>1
    <3>3. scene.delivery = "unicast"
      BY <1>4, <3>1
    <3>4. open[1] \in Nat /\ open[1] % 2 = 0 /\ open[1] = FirstPort(scene)
      BY <1>2, <3>1 DEF UdpOK
    <3>5. \A n \in 1 .. 2 * (medium - 1) : open[n] = open[1] + n - 1
      BY <1>a, <1>2, <3>3 DEF UdpOK
    <3>6. QED
      BY <3>1, <3>2, <3>3, <3>4, <3>5
  <2>6. open'[1] \in Nat /\ open'[1] % 2 = 0 /\ (Count > 1 => open'[1] = FirstPort(scene))
    <3>1. CASE medium = 1
      <4>1. open'[1] = rnd /\ rnd \in Nat /\ rnd % 2 = 0
        BY <1>4, <2>4, <3>1
      <4>2. Count > 1 => rnd = FirstPort(scene) + 2 * 0
        BY <1>4, <3>1
      <4>3. rnd = FirstPort(scene) + 2 * 0 => rnd = FirstPort(scene)
        BY <1>b
      <4>4. QED
        BY <4>1, <4>2, <4>3
    <3>2. CASE medium # 1
      BY <2>5, <3>2
    <3>3. QED
      BY <3>1, <3>2
  <2>7. scene.delivery = "unicast" => \A n \in 1 .. 2 * medium : open'[n] = open'[1] + n - 1
    <3>1. \A n \in 1 .. 2 * (medium - 1) : open'[n] = open'[1] + n - 1
      BY <1>a, <2>3, <2>5
    <3>2. open'[2 * medium - 1] = open'[1] + (2 * medium - 1) - 1
      BY <1>a, <1>4, <2>2, <2>4, <2>5
    <3>3. open'[2 * medium] = open'[1] + 2 * medium - 1
      <4>1. open'[1] \in Nat
        BY <2>6
      <4>2. open'[2 * medium] = open'[2 * medium - 1] + 1
        BY <2>2
      <4>3. (open'[1] + (2 * medium - 1) - 1) + 1 = open'[1] + 2 * medium - 1
        BY <1>a, <4>1
      <4>4. QED
        BY <3>2, <4>2, <4>3
    <3>4. \A n \in 1 .. 2 * medium : n \in 1 .. 2 * (medium - 1) \/ n = 2 * medium - 1 \/ n = 2 * medium
      BY <1>a
    <3>5. QED
      BY <3>1, <3>2, <3>3, <3>4
  <2>8. scene.delivery # "unicast" => open'[2] \in Nat /\ open'[2] % 2 = 1
    <3>1. CASE medium = 1
      <4>1. open'[2] = rnd + 1 /\ rnd \in Nat /\ rnd % 2 = 0
        BY <1>4, <2>4, <3>1
      <4>2. rnd + 1 \in Nat /\ (rnd + 1) % 2 = 1
        BY <4>1
      <4>3. QED
        BY <4>1, <4>2
    <3>2. CASE medium # 1
      BY <2>5, <3>2
    <3>3. QED
      BY <3>1, <3>2
  <2>9. /\ asked'.type = "UDP" /\ asked'.delivery = scene.delivery
        /\ asked'.client_port = <<open'[2 * medium - 1], open'[2 * medium]>>
    BY <1>16, <1>17, <2>2
  <2>10. ASSUME NEW m \in Media PROVE WayOK(m, <<open[2 * m - 1], open[2 * m - 1] + 1>>)'
    <3>1. WayOK(m, <<open[2 * m - 1], open[2 * m - 1] + 1>>)
      BY <1>2 DEF UdpOK
    <3>2. m < medium => open'[2 * m - 1] = open[2 * m - 1]
      BY <1>a, <2>3
    <3>3. QED
      BY <1>18, <3>1, <3>2 DEF WayOK
  <2>11. medium < Count => force_rtp_port' = IF medium = 0 THEN scene.force ELSE FirstPort(scene) + 2 * medium
    BY <1>a, <1>4, <1>18
  <2>12. scene' = scene /\ medium' = medium
    BY <1>18
  <2>13. QED
    BY <1>a, <1>19, <2>6, <2>7, <2>8, <2>9, <2>10, <2>11, <2>12 DEF UdpOK
<1>21. scene'.proto = "UDP"
  BY <1>2, <1>18
<1>22. QED
  BY <1>19, <1>20, <1>21 DEF PInv

\* Every reply has its parameters, and tells where the server sends to.
LEMMA ReplyFacts ==
  ASSUME NEW r \in Replies, asked.type \in {"UDP", "TCP"}
  PROVE  /\ Len(r.params) \in Nat
         /\ asked.type = "TCP" /\ ~OtherWays => r.to = asked.interleaved
         /\ asked.type = "UDP" /\ asked.delivery # "multicast" => r.to = asked.client_port
         /\ asked.type = "UDP" /\ asked.delivery = "multicast" =>
              /\ r.type = "UDP" /\ \E p \in RandomPorts : r.to = <<p, p + 1>>
              /\ r.params = <<<<"destination", Group>>, <<"port", r.to>>, <<"ttl", 1>>>>
<1>1. CASE asked.type = "TCP"
  BY <1>1 DEF Replies
<1>2. CASE asked.type = "UDP" /\ asked.delivery = "multicast"
  BY <1>2 DEF Replies
<1>3. CASE asked.type = "UDP" /\ asked.delivery # "multicast"
  <2>1. r.to = asked.client_port
    BY <1>3 DEF Replies
  <2>2. r.params = <<<<"source", Peer>>, <<"server_port", <<6, 7>>>>>> \/ r.params = <<<<"source", BadAddr>>>>
    BY <1>3 DEF Replies
  <2>3. Len(r.params) \in Nat
    BY <2>2
  <2>4. QED
    BY <1>3, <2>1, <2>3
<1>4. QED
  BY <1>1, <1>2, <1>3

\* What a reply changes; and the descriptors, when they do not change.
LEMMA ReplyTakes ==
  ASSUME PInv, handle_setup_response
  PROVE  /\ Count \in Nat \ {0} /\ Media = 1 .. Count /\ Fds = 1 .. 4 * Count
         /\ medium \in 1 .. Count /\ Bound = medium
         /\ Bound' = medium /\ Count' = Count /\ Media' = Media /\ scene' = scene
         /\ medium' = medium + 1 /\ asked' = NotSet
         /\ asked.type = scene.proto
         /\ SceneOK' /\ TransportOK'
         /\ open' = open /\ fd' = fd => SocketsOK'
<1>1. Count \in Nat \ {0} /\ Media = 1 .. Count /\ Fds = 1 .. 4 * Count /\ scene.proto \in {"UDP", "TCP"}
  BY SceneFacts DEF PInv, SceneOK
<1>2. medium \in 1 .. Count /\ Bound = medium /\ asked # NotSet
  BY <1>1 DEF PInv, SceneOK, handle_setup_response, Bound
<1>3. scene' = scene /\ medium' = medium + 1 /\ asked' = NotSet
  BY DEF handle_setup_response
<1>4. Bound' = medium /\ Count' = Count /\ Media' = Media /\ Fds' = Fds
  BY <1>2, <1>3 DEF Count, Media, Fds, Bound
<1>5. asked.type = scene.proto
  BY <1>1, <1>2 DEF PInv, TcpOK, UdpOK
<1>6. SceneOK'
  <2>1. DOMAIN way' = DOMAIN way
    BY DEF handle_setup_response
  <2>2. QED
    BY <1>1, <1>2, <1>3, <1>4, <2>1 DEF PInv, SceneOK
<1>7. TransportOK'
  <2>1. PICK r \in Replies : tr' = [tr EXCEPT ![medium] = get_transport_str(tr[medium], r)]
    BY DEF handle_setup_response
  <2>2. DOMAIN tr = Media /\ tr = [m \in Media |-> tr[m]] /\ IsTransport(tr[medium]) /\ tr[medium].DELIVERY = scene.delivery
    BY <1>1, <1>2 DEF PInv, TransportOK
  <2>3. Len(r.params) \in Nat
    BY <1>1, <1>5, ReplyFacts
  <2>4. PICK t : t = get_transport_str(tr[medium], r)
    OBVIOUS
  <2>5. IsTransport(t) /\ t.DELIVERY = scene.delivery
    BY <2>2, <2>3, <2>4, ReplyKeepsDelivery
  <2>6. tr' = [m \in Media |-> IF m = medium THEN t ELSE tr[m]]
    BY <1>1, <1>2, <2>1, <2>2, <2>4
  <2>7. \A m \in Media : Fresh(m)' = Fresh(m)
    BY <1>3 DEF Fresh
  <2>8. \A m \in Media : IF m > medium THEN tr'[m] = Fresh(m)
                         ELSE IsTransport(tr'[m]) /\ tr'[m].DELIVERY = scene.delivery
    <3>1. \A m \in Media : IF m > medium THEN tr[m] = Fresh(m) ELSE IsTransport(tr[m]) /\ tr[m].DELIVERY = scene.delivery
      BY <1>2 DEF PInv, TransportOK
    <3>2. QED
      BY <1>1, <1>2, <2>5, <2>6, <3>1
  <2>9. QED
    BY <1>3, <1>4, <2>6, <2>7, <2>8 DEF TransportOK
<1>8. open' = open /\ fd' = fd => SocketsOK'
  BY <1>2, <1>3, <1>4 DEF PInv, SocketsOK
<1>9. QED
  BY <1>1, <1>2, <1>3, <1>4, <1>5, <1>6, <1>7, <1>8

\* The reply a step took, and what it did to the sockets.
LEMMA ReplyPicks ==
  ASSUME PInv, handle_setup_response
  PROVE  \E r \in Replies :
           /\ get_transport_str(tr[medium], r).DELIVERY = scene.delivery
           /\ way' = [way EXCEPT ![medium] = r.to]
           /\ IF scene.delivery = "multicast"
              THEN LET b == sock_bind([open EXCEPT ![fd[medium].rtp] = Closed], get_transport_str(tr[medium], r).SRVRTP)
                   IN  open' = b.open /\ fd' = [fd EXCEPT ![medium].rtp = b.fd]
              ELSE UNCHANGED <<open, fd>>
<1>1. medium \in 1 .. Count /\ Media = 1 .. Count /\ Bound = medium /\ asked.type = scene.proto
  BY ReplyTakes
<1>2. scene.proto \in {"UDP", "TCP"} /\ Count \in Nat
  BY SceneFacts DEF PInv, SceneOK
<1>3. PICK r \in Replies :
        LET t == get_transport_str(tr[medium], r)
            b == sock_bind([open EXCEPT ![fd[medium].rtp] = Closed], t.SRVRTP)
        IN  /\ IF t.DELIVERY = "multicast"
               THEN /\ open' = b.open
                    /\ fd' = [fd EXCEPT ![medium].rtp = b.fd]
               ELSE UNCHANGED <<open, fd>>
            /\ way' = [way EXCEPT ![medium] = r.to]
  BY DEF handle_setup_response
<1>4. IsTransport(tr[medium]) /\ tr[medium].DELIVERY = scene.delivery
  BY <1>1, <1>2 DEF PInv, TransportOK
<1>5. get_transport_str(tr[medium], r).DELIVERY = scene.delivery
  BY <1>1, <1>2, <1>4, ReplyFacts, ReplyKeepsDelivery
<1>6. QED
  BY <1>3, <1>5

\* The server sends on the channels asked for.
LEMMA ReplyTcpKeeps ==
  ASSUME Orderly, PInv, handle_setup_response, scene.proto = "TCP"
  PROVE  PInv'
<1>1. /\ Count \in Nat \ {0} /\ Media = 1 .. Count /\ medium \in 1 .. Count /\ Bound = medium
      /\ Bound' = medium /\ Media' = Media /\ scene' = scene /\ medium' = medium + 1 /\ asked' = NotSet
      /\ asked.type = "TCP" /\ SceneOK' /\ TransportOK' /\ (open' = open /\ fd' = fd => SocketsOK')
  BY ReplyTakes
<1>2. PICK r \in Replies :
        /\ way' = [way EXCEPT ![medium] = r.to]
        /\ scene.delivery # "multicast" => UNCHANGED <<open, fd>>
  BY ReplyPicks
<1>3. scene \in Scenes /\ DOMAIN way = Media /\ TcpOK /\ asked # NotSet
  BY <1>1 DEF PInv, SceneOK, handle_setup_response
<1>4. scene.delivery = "unicast" /\ ~OtherWays
  BY <1>3 DEF Orderly
<1>5. SocketsOK'
  BY <1>1, <1>2, <1>4
<1>6. r.to = <<2 * medium - 2, 2 * medium - 1>>
  BY <1>1, <1>3, <1>4, ReplyFacts DEF TcpOK
<1>7. UNCHANGED <<next_ilvd_ch, interleaved>>
  BY DEF handle_setup_response
<1>8. ASSUME NEW m \in Media PROVE WayOK(m, <<2 * m - 2, 2 * m - 1>>)'
  <2>1. WayOK(m, <<2 * m - 2, 2 * m - 1>>)
    BY <1>3 DEF TcpOK
  <2>2. CASE m = medium
    BY <1>1, <1>2, <1>3, <1>6, <2>2 DEF WayOK
  <2>3. CASE m # medium
    <3>1. way'[m] = way[m]
      BY <1>2, <1>3, <2>3
    <3>2. QED
      BY <1>1, <2>1, <3>1 DEF WayOK
  <2>4. QED
    BY <2>2, <2>3
<1>9. TcpOK'
  BY <1>1, <1>3, <1>7, <1>8 DEF TcpOK
<1>10. QED
  BY <1>1, <1>5, <1>9 DEF PInv

\* The server sends to the ports asked for.
LEMMA ReplyUnicastKeeps ==
  ASSUME Orderly, PInv, handle_setup_response, scene.proto = "UDP", scene.delivery = "unicast"
  PROVE  PInv'
<1>1. /\ Count \in Nat \ {0} /\ Media = 1 .. Count /\ medium \in 1 .. Count /\ Bound = medium
      /\ Bound' = medium /\ Count' = Count /\ Media' = Media /\ scene' = scene
      /\ medium' = medium + 1 /\ asked' = NotSet
      /\ asked.type = "UDP" /\ SceneOK' /\ TransportOK' /\ (open' = open /\ fd' = fd => SocketsOK')
  BY ReplyTakes
<1>2. PICK r \in Replies : /\ way' = [way EXCEPT ![medium] = r.to] /\ UNCHANGED <<open, fd>>
  BY ReplyPicks
<1>3. DOMAIN way = Media /\ UdpOK /\ asked # NotSet
  BY <1>1 DEF PInv, SceneOK, handle_setup_response
<1>4. r.to = <<open[2 * medium - 1], open[2 * medium]>>
  BY <1>1, <1>3, ReplyFacts DEF UdpOK
<1>5. open[2 * medium] = open[2 * medium - 1] + 1
  <2>1. open[1] \in Nat /\ \A n \in 1 .. 2 * medium : open[n] = open[1] + n - 1
    BY <1>1, <1>3 DEF UdpOK
  <2>2. 2 * medium \in 1 .. 2 * medium /\ 2 * medium - 1 \in 1 .. 2 * medium
    BY <1>1
  <2>3. open[2 * medium] = open[1] + 2 * medium - 1 /\ open[2 * medium - 1] = open[1] + (2 * medium - 1) - 1
    BY <2>1, <2>2
  <2>4. QED
    BY <1>1, <2>1, <2>3
<1>6. force_rtp_port' = force_rtp_port
  BY DEF handle_setup_response
<1>7. ASSUME NEW m \in Media PROVE WayOK(m, <<open[2 * m - 1], open[2 * m - 1] + 1>>)'
  <2>1. WayOK(m, <<open[2 * m - 1], open[2 * m - 1] + 1>>)
    BY <1>3 DEF UdpOK
  <2>2. CASE m = medium
    BY <1>1, <1>2, <1>3, <1>4, <1>5, <2>2 DEF WayOK
  <2>3. CASE m # medium
    <3>1. way'[m] = way[m]
      BY <1>2, <1>3, <2>3
    <3>2. QED
      BY <1>1, <1>2, <2>1, <3>1 DEF WayOK
  <2>4. QED
    BY <2>2, <2>3
<1>8. UdpOK'
  BY <1>1, <1>2, <1>3, <1>6, <1>7 DEF UdpOK
<1>9. scene'.proto = "UDP" /\ SocketsOK'
  BY <1>1, <1>2
<1>10. QED
  BY <1>1, <1>8, <1>9 DEF PInv

\* The medium of a group is the only one; its socket is closed and gets the same
\* descriptor again.
LEMMA ReplyGroupKeeps ==
  ASSUME Orderly, PInv, handle_setup_response, scene.proto = "UDP", scene.delivery = "multicast"
  PROVE  PInv'
<1>1. /\ Count \in Nat \ {0} /\ Media = 1 .. Count /\ Fds = 1 .. 4 * Count /\ medium \in 1 .. Count /\ Bound = medium
      /\ Bound' = medium /\ Count' = Count /\ Media' = Media /\ scene' = scene
      /\ medium' = medium + 1 /\ asked' = NotSet /\ asked.type = "UDP" /\ SceneOK' /\ TransportOK'
  BY ReplyTakes
<1>2. scene \in Scenes /\ DOMAIN way = Media /\ UdpOK /\ asked # NotSet
  BY <1>1 DEF PInv, SceneOK, handle_setup_response
<1>3. Count = 1 /\ medium = 1 /\ Bound = 1
  <2>1. Len(scene.formats) = 1
    BY <1>2 DEF Orderly
  <2>2. QED
    BY <1>1, <2>1 DEF Count
<1>4. PICK r \in Replies :
        /\ way' = [way EXCEPT ![1] = r.to]
        /\ LET b == sock_bind([open EXCEPT ![fd[1].rtp] = Closed], get_transport_str(tr[1], r).SRVRTP)
           IN  open' = b.open /\ fd' = [fd EXCEPT ![1].rtp = b.fd]
  BY <1>3, ReplyPicks
<1>5. PICK p \in RandomPorts : r.to = <<p, p + 1>>
  BY <1>1, <1>2, ReplyFacts DEF UdpOK
<1>6. get_transport_str(tr[1], r).SRVRTP = p
  <2>1. IsTransport(tr[1])
    BY <1>1, <1>3 DEF PInv, TransportOK
  <2>2. r.type = "UDP" /\ r.params = <<<<"destination", Group>>, <<"port", <<p, p + 1>>>>, <<"ttl", 1>>>>
    BY <1>1, <1>2, <1>5, ReplyFacts DEF UdpOK
  <2>3. <<p, p + 1>>[1] = p
    OBVIOUS
  <2>4. PICK w : w = <<p, p + 1>>
    OBVIOUS
  <2>5. get_transport_str(tr[1], r).SRVRTP = w[1]
    BY <2>1, <2>2, <2>4, GroupPort
  <2>6. QED
    BY <2>3, <2>4, <2>5
<1>7. p \in Nat /\ p # 0 /\ p % 2 = 0 /\ p \notin Taken
  BY <1>2, PortFacts DEF Orderly, PortsOf
<1>8. fd = [m \in 1 .. 1 |-> [rtp |-> 1, rtcp |-> 2]]
  BY <1>1, <1>3 DEF PInv, SocketsOK
<1>9. /\ DOMAIN open = 1 .. 4 /\ open = [n \in 1 .. 4 |-> open[n]]
      /\ \A n \in 1 .. 4 : open[n] = Closed <=> n > 2
  BY <1>1, <1>3 DEF PInv, SocketsOK
<1>10. PICK o : o = [open EXCEPT ![1] = Closed]
  OBVIOUS
<1>11. DOMAIN o = 1 .. 4 /\ o = [n \in 1 .. 4 |-> IF n = 1 THEN Closed ELSE open[n]]
  BY <1>9, <1>10
<1>12. Lowest(o) = 1
  <2>1. 1 \in DOMAIN o /\ o[1] = Closed /\ \A k \in 1 .. 1 - 1 : o[k] # Closed
    BY <1>11
  <2>2. ASSUME NEW n \in DOMAIN o, \A k \in 1 .. n - 1 : o[k] # Closed PROVE n = 1
    BY <1>11, <2>1, <2>2
  <2>3. QED
    BY <2>1, <2>2 DEF Lowest
<1>13. fd[1] = [rtp |-> 1, rtcp |-> 2] /\ fd[1].rtp = 1
  BY <1>8
<1>a. PICK b : b = sock_bind(o, p)
  OBVIOUS
<1>b. open' = b.open /\ fd' = [fd EXCEPT ![1].rtp = b.fd]
  BY <1>4, <1>6, <1>10, <1>13, <1>a, Zenon
<1>c. b.open = [o EXCEPT ![1] = p] /\ b.fd = 1
  BY <1>7, <1>12, <1>a DEF sock_bind
<1>14. fd' = fd
  <2>1. [fd[1] EXCEPT !.rtp = b.fd] = [rtp |-> 1, rtcp |-> 2]
    BY <1>13, <1>c
  <2>2. fd' = [fd EXCEPT ![1] = [rtp |-> 1, rtcp |-> 2]]
    BY <1>b, <2>1, Zenon
  <2>3. QED
    BY <1>8, <2>2
<1>15. open' = [n \in 1 .. 4 |-> IF n = 1 THEN p ELSE open[n]]
  BY <1>11, <1>b, <1>c
<1>16. SocketsOK'
  <2>1. \A n \in 1 .. 4 : open'[n] = Closed <=> n > 2
    BY <1>7, <1>9, <1>15, PortFacts
  <2>2. Fds = 1 .. 4 /\ Fds' = Fds
    BY <1>1, <1>3 DEF Fds
  <2>3. QED
    BY <1>1, <1>3, <1>8, <1>14, <1>15, <2>1, <2>2 DEF SocketsOK
<1>17. UdpOK'
  <2>1. open'[1] = p /\ open'[2] = open[2]
    BY <1>15
  <2>2. open[2] \in Nat /\ open[2] % 2 = 1
    BY <1>2, <1>3 DEF UdpOK
  <2>3. ASSUME NEW m \in Media PROVE WayOK(m, <<open[2 * m - 1], open[2 * m - 1] + 1>>)'
    <3>1. m = 1 /\ 2 * m - 1 = 1
      BY <1>1, <1>3
    <3>2. way'[1] = <<p, p + 1>>
      BY <1>1, <1>2, <1>3, <1>4, <1>5
    <3>3. QED
      BY <1>1, <1>3, <2>1, <3>1, <3>2 DEF WayOK
  <2>4. QED
    BY <1>1, <1>3, <1>7, <2>1, <2>2, <2>3 DEF UdpOK
<1>18. scene'.proto = "UDP"
  BY <1>1
<1>19. QED
  BY <1>1, <1>16, <1>17, <1>18 DEF PInv

-----------------------------------------------------------------------------
(***************************************************************************)
(* The invariant, and what follows from it.                                *)
(***************************************************************************)

\* Nothing but SETUP and its reply touches the sockets.
LEMMA NextKeeps ==
  ASSUME Orderly, PInv, [Next]_vars
  PROVE  PInv'
<1>1. UNCHANGED <<scene, setup>> => PInv'
  <2> SUFFICES ASSUME UNCHANGED <<scene, setup>> PROVE PInv'
    OBVIOUS
  <2>1. /\ UNCHANGED <<scene, medium, force_rtp_port, next_ilvd_ch, tr, fd, open, interleaved, asked, way>>
        /\ Bound' = Bound /\ Count' = Count /\ Media' = Media /\ Fds' = Fds
    BY DEF setup, Bound, Count, Media, Fds
  <2>2. SceneOK' = SceneOK /\ SocketsOK' = SocketsOK
    BY <2>1 DEF SceneOK, SocketsOK
  <2>3. TransportOK' = TransportOK
    BY <2>1 DEF TransportOK, Fresh
  <2>4. TcpOK' = TcpOK
    BY <2>1 DEF TcpOK, Entry, WayOK
  <2>5. UdpOK' = UdpOK
    BY <2>1 DEF UdpOK, WayOK
  <2>6. QED
    BY <2>1, <2>2, <2>3, <2>4, <2>5 DEF PInv
<1>2. handle_setup_response => PInv'
  <2>1. scene.proto \in {"UDP", "TCP"} /\ scene.delivery \in {"unicast", "multicast"}
    BY SceneFacts DEF PInv, SceneOK
  <2>2. QED
    BY <2>1, ReplyTcpKeeps, ReplyUnicastKeeps, ReplyGroupKeeps
<1>3. \A m \in Media : SendUdp(m) \/ SendTcp(m) \/ SendReport(m) => UNCHANGED <<scene, setup>>
  BY DEF SendUdp, SendTcp, SendReport
<1>4. Command \/ Reply \/ RtspThread \/ RtpThread \/ Parse => UNCHANGED <<scene, setup>>
  BY DEF Command, Reply, RtspThread, rtsp_recv, handle_packet, handle_reply, RtpThread, Select, rtp_recv, Parse
<1>5. \A m \in Media : rtcp_recv(m) \/ rtp_fill_buffer(m) => UNCHANGED <<scene, setup>>
  BY DEF rtcp_recv, rtp_fill_buffer
<1>6. UNCHANGED vars => UNCHANGED <<scene, setup>>
  BY DEF vars
<1>7. QED
  BY <1>1, <1>2, <1>3, <1>4, <1>5, <1>6, SetupUdpKeeps, SetupTcpKeeps DEF Next

\* A port that one descriptor has is that descriptor's.
LEMMA OwnerIs ==
  ASSUME NEW n \in Fds, Fds \subseteq Nat, NEW port, open[n] = port, \A k \in Fds : open[k] = port => k = n
  PROVE  Owner(port) = n
<1>1. \A k \in Fds : open[k] = port => k <= n
  OBVIOUS
<1>2. QED
  BY <1>1 DEF Owner

\* The channels of a medium lead to its descriptors.
LEMMA RouteIs ==
  ASSUME NEW m \in Nat \ {0}, m <= Bound, Bound \in Nat, TcpOK
  PROVE  Route(2 * m - 2) = 2 * m - 1 /\ Route(2 * m - 1) = 2 * m
<1>1. interleaved = [j \in 1 .. Bound |-> Entry(Bound + 1 - j)] /\ Len(interleaved) = Bound
  BY DEF TcpOK
<1>2. \A j \in 1 .. Bound : /\ interleaved[j].rtp_ch = 2 * (Bound + 1 - j) - 2
                            /\ interleaved[j].rtcp_ch = 2 * (Bound + 1 - j) - 1
                            /\ interleaved[j].rtp_fd = 2 * (Bound + 1 - j) - 1
                            /\ interleaved[j].rtcp_fd = 2 * (Bound + 1 - j)
  BY <1>1 DEF Entry
<1> DEFINE k == Bound + 1 - m
<1>3. k \in 1 .. Bound /\ k # 0 /\ k \in Nat
  OBVIOUS
<1>4. /\ interleaved[k].rtp_ch = 2 * m - 2 /\ interleaved[k].rtcp_ch = 2 * m - 1
      /\ interleaved[k].rtp_fd = 2 * m - 1 /\ interleaved[k].rtcp_fd = 2 * m
  BY <1>2, <1>3
<1>5. ASSUME NEW ch \in {2 * m - 2, 2 * m - 1}
      PROVE  SelectInSeq(interleaved, LAMBDA e : e.rtp_ch = ch \/ e.rtcp_ch = ch) = k
  <2> DEFINE I == {i \in 1 .. Len(interleaved) : interleaved[i].rtp_ch = ch \/ interleaved[i].rtcp_ch = ch}
  <2>1. \A i \in 1 .. Bound : interleaved[i].rtp_ch = ch \/ interleaved[i].rtcp_ch = ch <=> i = k
    <3> HIDE DEF k
    <3>1. ASSUME NEW i \in 1 .. Bound, interleaved[i].rtp_ch = ch \/ interleaved[i].rtcp_ch = ch
          PROVE  i = k
      BY <1>2, <3>1 DEF k
    <3>2. interleaved[k].rtp_ch = ch \/ interleaved[k].rtcp_ch = ch
      BY <1>4
    <3>3. QED
      BY <3>1, <3>2
  <2> HIDE DEF k
  <2>2. I = {k}
    BY <1>1, <1>3, <2>1
  <2> HIDE DEF I
  <2>3. Min(I) = k
    BY <1>3, <2>2 DEF Min
  <2>4. I # {}
    BY <2>2
  <2>5. SelectInSeq(interleaved, LAMBDA e : e.rtp_ch = ch \/ e.rtcp_ch = ch) = IF I # {} THEN Min(I) ELSE 0
    BY DEF SelectInSeq, I
  <2>6. QED
    BY <2>3, <2>4, <2>5
<1> HIDE DEF k
<1>6. \A ch \in {2 * m - 2, 2 * m - 1} :
        Route(ch) = IF interleaved[k].rtcp_ch = ch THEN interleaved[k].rtcp_fd ELSE interleaved[k].rtp_fd
  BY <1>3, <1>5 DEF Route
<1>7. 2 * m - 1 # 2 * m - 2
  OBVIOUS
<1>8. QED
  BY <1>4, <1>6, <1>7

\* What the invariant says of ports and channels is what the server relies on.
LEMMA ListeningHolds ==
  ASSUME Orderly, PInv
  PROVE  Listening
<1>1. /\ Count \in Nat \ {0} /\ Media = 1 .. Count /\ Fds = 1 .. 4 * Count
      /\ scene.proto \in {"UDP", "TCP"} /\ scene.delivery \in {"unicast", "multicast"}
  BY SceneFacts DEF PInv, SceneOK
<1>2. Bound \in 0 .. Count /\ medium <= Bound + 1
  BY <1>1 DEF PInv, SceneOK, Bound
<1>3. \A k \in Media : /\ k <= Bound => fd[k].rtp = 2 * k - 1 /\ fd[k].rtcp = 2 * k
                       /\ ~(k <= Bound) => fd[k].rtp = Closed /\ fd[k].rtcp = Closed
  <2> SUFFICES ASSUME NEW k \in Media
               PROVE  /\ k <= Bound => fd[k].rtp = 2 * k - 1 /\ fd[k].rtcp = 2 * k
                      /\ ~(k <= Bound) => fd[k].rtp = Closed /\ fd[k].rtcp = Closed
    OBVIOUS
  <2>1. fd[k] = IF k <= Bound THEN [rtp |-> 2 * k - 1, rtcp |-> 2 * k] ELSE [rtp |-> Closed, rtcp |-> Closed]
    BY DEF PInv, SocketsOK
  <2>2. k <= Bound => fd[k] = [rtp |-> 2 * k - 1, rtcp |-> 2 * k]
    BY <2>1
  <2>3. ~(k <= Bound) => fd[k] = [rtp |-> Closed, rtcp |-> Closed]
    BY <2>1
  <2>4. QED
    BY <2>2, <2>3
<1>4. SUFFICES ASSUME NEW m \in Media, way[m] # NotSet
               PROVE  /\ IF scene.proto = "TCP" THEN Route(way[m][1]) = fd[m].rtp /\ Route(way[m][2]) = fd[m].rtcp
                         ELSE Owner(way[m][1]) = fd[m].rtp /\ (tr[m].DELIVERY = "unicast" => Owner(way[m][2]) = fd[m].rtcp)
                      /\ way[m][2] = way[m][1] + 1 /\ way[m][1] % 2 = 0
                      /\ \A k \in Media : k # m => fd[k].rtp # fd[m].rtp /\ fd[k].rtcp # fd[m].rtcp
  BY DEF Listening
<1>5. m < medium /\ way[m] = IF scene.proto = "TCP" THEN <<2 * m - 2, 2 * m - 1>> ELSE <<open[2 * m - 1], open[2 * m - 1] + 1>>
  BY <1>4 DEF PInv, TcpOK, UdpOK, WayOK
<1>6. m <= Bound /\ m \in Nat \ {0} /\ m <= Count
  BY <1>1, <1>2, <1>5 DEF PInv, SceneOK
<1>7. fd[m].rtp = 2 * m - 1 /\ fd[m].rtcp = 2 * m
  BY <1>3, <1>6
<1>8. ASSUME NEW k \in Media, k # m PROVE fd[k].rtp # fd[m].rtp /\ fd[k].rtcp # fd[m].rtcp
  <2>1. CASE k <= Bound
    <3>1. fd[k].rtp = 2 * k - 1 /\ fd[k].rtcp = 2 * k
      BY <1>3, <2>1
    <3>2. QED
      BY <1>1, <1>6, <1>7, <1>8, <3>1
  <2>2. CASE ~(k <= Bound)
    <3>1. fd[k].rtp = Closed /\ fd[k].rtcp = Closed
      BY <1>3, <2>2
    <3>2. 2 * m - 1 \in Nat /\ 2 * m \in Nat
      BY <1>6
    <3>3. QED
      BY <1>7, <3>1, <3>2, PortFacts
  <2>3. QED
    BY <2>1, <2>2
<1>9. CASE scene.proto = "TCP"
  <2>1. TcpOK /\ way[m] = <<2 * m - 2, 2 * m - 1>> /\ Bound \in Nat
    BY <1>2, <1>5, <1>9 DEF PInv
  <2>2. Route(2 * m - 2) = 2 * m - 1 /\ Route(2 * m - 1) = 2 * m
    BY <1>6, <2>1, RouteIs
  <2>3. 2 * m - 1 = (2 * m - 2) + 1 /\ (2 * m - 2) % 2 = 0
    BY <1>6
  <2>4. way[m][1] = 2 * m - 2 /\ way[m][2] = 2 * m - 1
    BY <2>1
  <2>5. QED
    BY <1>7, <1>8, <1>9, <2>2, <2>3, <2>4
<1>10. CASE scene.proto # "TCP"
  <2>1. UdpOK /\ way[m][1] = open[2 * m - 1] /\ way[m][2] = open[2 * m - 1] + 1
    BY <1>5, <1>10 DEF PInv
  <2>2. \A n \in Fds : open[n] = Closed <=> n > 2 * Bound
    BY DEF PInv, SocketsOK
  <2>3. 2 * m - 1 \in 1 .. 2 * Bound /\ 2 * m \in 1 .. 2 * Bound /\ 2 * m - 1 \in Fds /\ 2 * m \in Fds /\ Fds \subseteq Nat
    BY <1>1, <1>2, <1>6
  <2>4. open[1] \in Nat /\ open[1] % 2 = 0
    BY <1>2, <1>6, <2>1 DEF UdpOK
  <2>5. CASE scene.delivery = "unicast"
    <3>1. \A n \in 1 .. 2 * Bound : open[n] = open[1] + n - 1
      BY <2>1, <2>5 DEF UdpOK
    <3>2. \A n \in 1 .. 2 * Bound : \A k \in Fds : open[k] = open[n] => k = n
      <4> SUFFICES ASSUME NEW n \in 1 .. 2 * Bound, NEW k \in Fds, open[k] = open[n] PROVE k = n
        OBVIOUS
      <4>1. open[n] \in Nat /\ open[n] = open[1] + n - 1
        BY <1>2, <2>4, <3>1
      <4>2. k \in 1 .. 2 * Bound
        BY <1>1, <1>2, <2>2, <4>1, PortFacts
      <4>3. open[k] = open[1] + k - 1
        BY <3>1, <4>2
      <4>4. QED
        BY <1>2, <2>4, <4>1, <4>2, <4>3
    <3>3. open[2 * m - 1] = open[1] + (2 * m - 1) - 1 /\ open[2 * m] = open[1] + 2 * m - 1
      BY <2>3, <3>1
    <3>4. open[2 * m] = open[2 * m - 1] + 1 /\ open[2 * m - 1] % 2 = 0
      BY <1>6, <2>4, <3>3
    <3>5. Owner(open[2 * m - 1]) = 2 * m - 1 /\ Owner(open[2 * m]) = 2 * m
      BY <2>3, <3>2, OwnerIs
    <3>6. QED
      BY <1>7, <1>8, <1>10, <2>1, <3>4, <3>5
  <2>6. CASE scene.delivery = "multicast"
    <3>1. Count = 1
      <4>1. Len(scene.formats) = 1
        BY <1>1, <1>10, <2>6 DEF Orderly, PInv, SceneOK
      <4>2. QED
        BY <4>1 DEF Count
    <3>2. m = 1 /\ Bound = 1 /\ Fds = 1 .. 4
      BY <1>1, <1>2, <1>6, <3>1
    <3>3. open[2] \in Nat /\ open[2] % 2 = 1
      BY <2>1, <2>6, <3>2 DEF UdpOK
    <3>4. ASSUME NEW k \in Fds, open[k] = open[1] PROVE k = 1
      <4>1. k \in 1 .. 2
        BY <2>2, <2>4, <3>2, <3>4, PortFacts
      <4>2. k # 2
        BY <2>4, <3>3, <3>4
      <4>3. QED
        BY <4>1, <4>2
    <3>5. Owner(open[1]) = 1
      BY <2>3, <3>2, <3>4, OwnerIs
    <3>6. tr[m].DELIVERY = "multicast"
      BY <1>2, <1>6, <2>6 DEF PInv, TransportOK
    <3>7. 2 * m - 1 = 1
      BY <3>2
    <3>8. QED
      BY <1>7, <1>8, <1>10, <2>1, <2>4, <3>5, <3>6, <3>7
  <2>7. QED
    BY <1>1, <2>5, <2>6
<1>11. QED
  BY <1>9, <1>10

\* After its SETUP a medium listens where its server sends, RTP at an even port or
\* channel and RTCP at the next one, and nothing else does: for any number of media, any
\* ports and any channels, as long as the scene is orderly.
THEOREM Listens ==
  ASSUME Orderly
  PROVE  Spec => []Listening
<1>1. Init => PInv
  BY InitHolds
<1>2. PInv /\ [Next]_vars => PInv'
  BY NextKeeps
<1>3. PInv => Listening
  BY ListeningHolds
<1>4. QED
  BY <1>1, <1>2, <1>3, PTL DEF Spec
=============================================================================
