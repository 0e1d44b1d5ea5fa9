\* A presentation that plays is played again: the controller reinitializes itself.
SPECIFICATION Spec
CONSTANTS
  Users = {u}
  Keepers = {}
  Description <- OneMedium
  MaxOpens = 1
  MaxCalls = 3
  Events <- Replayed
PROPERTIES ReinitReported
CHECK_DEADLOCK FALSE
