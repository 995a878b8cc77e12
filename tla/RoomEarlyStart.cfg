\* The host starts whatever the third joiner is doing; nobody leaves
SPECIFICATION Spec
CONSTANTS
  host = host  j1 = j1  j2 = j2  j3 = j3
  Host = host
  Joiners = {j1, j2, j3}
  Junk = junk  ServerFd = server  TimerFd = timer
  HostKeys = {"ASKING_LOGIN", "WRITE_PLAYERS", "READY_TO_PLAY", "WRITE_PLAYERS_NUM"}
  Starting = "any"
  Active = {}
  Leavers = {}
  Leaving = "any"
SYMMETRY Symmetry
CHECK_DEADLOCK FALSE
INVARIANT OneGame
