\* rtsp_uninit at any time no call is under way, a second thread sending GET_PARAMETER; the connection may break.
SPECIFICATION FairSpec
CONSTANTS
  Users = {u}
  Keepers = {k}
  Description <- Mixed
  MaxOpens = 1
  MaxCalls = 4
  Events <- Cancelled
INVARIANTS NothingLeft
PROPERTIES UninitEndsIfUnread
CHECK_DEADLOCK FALSE
