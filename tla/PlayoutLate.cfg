\* Packets lost and late: poadd has to insert in the middle.
SPECIFICATION Spec
CONSTANTS
  BP_SLOT_NUM = 4
  BP_MAX_SIZE = 4
  RTP_SEQ_MOD = 8
  MAX_DROPOUT = 3
  MAX_MISORDER = 2
  MIN_SEQUENTIAL = 2
  Sources = {a}
  FirstExt = 1
  MaxExt = 4
  MaxSeeks = 0
  Faults <- Reordering
INVARIANTS SoundLists
CHECK_DEADLOCK FALSE
