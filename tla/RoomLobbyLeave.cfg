\* One of three joiners leaves the lobby before the start
SPECIFICATION Spec
CONSTANTS
  host = host  j1 = j1  j2 = j2  j3 = j3
  Host = host
  Joiners = {j1, j2, j3}
  Junk = junk  ServerFd = server  TimerFd = timer
  HostKeys = {"READY_TO_PLAY"}
  Starting = "settled"
  Active = {}
  Leavers = {j3}
  Leaving = "any"
CHECK_DEADLOCK FALSE
CONSTRAINT LeftBeforeStart
INVARIANTS GameRuns
