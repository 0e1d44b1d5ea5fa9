\* One source, packets duplicated but never late; the pool grows from 2 to 4 slots and is filled; the numbers wrap (positions 5 to 9, modulo 8).
SPECIFICATION Spec
CONSTANTS
  BP_SLOT_NUM = 2
  BP_MAX_SIZE = 4
  RTP_SEQ_MOD = 8
  MAX_DROPOUT = 3
  MAX_MISORDER = 2
  MIN_SEQUENTIAL = 2
  Sources = {a}
  FirstExt = 5
  MaxExt = 9
  MaxSeeks = 0
  Faults <- InOrder
INVARIANTS SoundLists
PROPERTIES ImplementsQueue PlayedInOrder
CHECK_DEADLOCK FALSE
