\* A second thread sends GET_PARAMETER; the server may refuse, redirect, describe badly or hang up.
SPECIFICATION Spec
CONSTANTS
  Users = {u}
  Keepers = {k}
  Description <- OneMedium
  MaxOpens = 2
  MaxCalls = 4
  Events <- Anything
INVARIANTS Connected
CHECK_DEADLOCK FALSE
