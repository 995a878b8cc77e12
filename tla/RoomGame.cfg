\* Two joiners get to the lobby and into the game, and leave it, as the host may
SPECIFICATION FairSpec
CONSTANTS
  host = host  j1 = j1  j2 = j2  j3 = j3
  Host = host
  Joiners = {j1, j2}
  Junk = junk  ServerFd = server  TimerFd = timer
  HostKeys = {"READY_TO_PLAY"}
  Starting = "complete"
  Active = {j1}
  Leavers = {host, j1, j2}
  Leaving = "game"
CHECK_DEADLOCK FALSE
INVARIANTS TypeOK ProtocolKept WaitingCounts ListsCurrent GameRuns GameComplete
PROPERTIES LobbyReached GameBegins RoomCloses HostGoneCloses
