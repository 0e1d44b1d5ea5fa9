\* Three sessions; one source sends packets, one reports.
SPECIFICATION Spec
CONSTANTS
  s1 = s1
  s2 = s2
  s3 = s3
  None = None
  Word = 64
  RTP_SEQ_MOD = 4
  Fraction = 8
  LostMax = 2
  MinTime = 2
  Bandwidth = 100
  Sessions <- Three
  Media = {s1}
  Peers = {s2}
  Datagrams <- AllDatagrams
  Loads <- Light
  FirstSeqs = {2}
  Kinds = {"next", "skip", "dup"}
  MaxPackets = 3
INVARIANTS TypeOK OneEventEach ParsesWhatWasChecked
PROPERTIES QuietReportsAreRight
