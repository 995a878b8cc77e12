\* Messages that fit into the socket as long as the client is not too slow
SPECIFICATION FairSpec
CONSTANTS
  Base = 3
  Capacity = 32
  RoomList <- OneRoom
  Players <- HostAndJoiner
  Login <- JoinerLogin
  Map <- OneRow
  Objects <- OnePlayer
  Infos = 2
  Orders <- TwoOrders
CHECK_DEADLOCK FALSE
INVARIANTS TypeOK Understood Heard
PROPERTY SessionRuns
