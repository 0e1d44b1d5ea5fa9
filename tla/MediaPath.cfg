\* Every format as datagrams that may be lost, at given and at other ports, and in the control connection; a multicast group.
SPECIFICATION Spec
CONSTANTS
  NotSet = NotSet
  BadAddr = BadAddr
  Unspec = Unspec
  Junk = Junk
  Conf <- MCConf
  Scenes <- MCScenes
  Stream <- MCStream
  Frames <- MCFrames
  PortMod = 20
  RandomPorts = {12, 16}
  Taken = {}
  OtherWays = FALSE
  WireSize = 4
  SocketSize = 1
  PoolSize = 1
  OneThread = FALSE
  Peer = Peer
  Local = Local
  Group = Group
  Closed = Closed
  Pair2 = Pair2
INVARIANTS
  Listening
  WholeUnits
  SoundFrames
PROPERTIES
  CommandsEnd
  AllPlayed
CHECK_DEADLOCK FALSE
