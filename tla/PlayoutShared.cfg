\* Two sources sharing a pool that grows slot by slot from 1 to 3; packets lost or malformed, recvfrom failing, and one seek.
SPECIFICATION Spec
CONSTANTS
  BP_SLOT_NUM = 1
  BP_MAX_SIZE = 3
  RTP_SEQ_MOD = 8
  MAX_DROPOUT = 3
  MAX_MISORDER = 2
  MIN_SEQUENTIAL = 2
  Sources = {a, b}
  FirstExt = 1
  MaxExt = 2
  MaxSeeks = 1
  Faults <- Failing
INVARIANTS SlotPartition
CHECK_DEADLOCK FALSE
