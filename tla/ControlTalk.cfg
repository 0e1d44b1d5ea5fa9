\* One thread that waits after each command, and may play what plays already; two sessions, three media; a server that may refuse any request but stays up.
SPECIFICATION FairSpec
CONSTANTS
  Users = {u}
  Keepers = {}
  Description <- Mixed
  MaxOpens = 1
  MaxCalls = 6
  Events <- Replaying
INVARIANTS TypeOK Agreed EveryReplyAwaited NothingLost
PROPERTIES AnswersTheCommand WaitEnds
CHECK_DEADLOCK FALSE
