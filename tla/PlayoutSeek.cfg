\* One source, packets lost, a pool of fixed size that fills up, two seeks.
SPECIFICATION FairSpec
CONSTANTS
  BP_SLOT_NUM = 3
  BP_MAX_SIZE = 3
  RTP_SEQ_MOD = 8
  MAX_DROPOUT = 3
  MAX_MISORDER = 2
  MIN_SEQUENTIAL = 2
  Sources = {a}
  FirstExt = 1
  MaxExt = 5
  MaxSeeks = 2
  Faults <- Lossy
PROPERTIES  AllPlayed
CHECK_DEADLOCK FALSE
