\* One sender, whose RTP and RTCP come at once; the session's own reports may loop back.
SPECIFICATION Spec
CONSTANTS
  x = x
  y = y
  f = f
  g = g
  srv = srv
  oth = oth
  Null = Null
  AnyAddr = AnyAddr
  Ssrcs = {x, y}
  OwnSsrcs = {f, g}
  FirstSsrcs = {f}
  Addrs = {srv, oth}
  SockName = AnyAddr
  SrcAddr = srv
  MaxSources = 2
  RtpPackets <- OneSender
  RtcpPackets <- OneSender
  Compounds <- Reports
  Loops = TRUE
  Positions = {"next", "jump", "afterjump", "other"}
INVARIANTS TypeOK MadeOncePerThread ActiveQueueSound WalksWholeSources NotOvercounted 
PROPERTIES ByeEnds 
