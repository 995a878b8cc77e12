\* Clients come, leave and start as they like
SPECIFICATION Spec
CONSTANTS
  host = host  j1 = j1  j2 = j2  j3 = j3
  Host = host
  Joiners = {j1, j2}
  Junk = junk  ServerFd = server  TimerFd = timer
  HostKeys = {"READY_TO_PLAY"}
  Starting = "any"
  Active = {}
  Leavers = {host, j1, j2}
  Leaving = "any"
SYMMETRY Symmetry
CHECK_DEADLOCK FALSE
INVARIANTS EventsFindTheirClient NoLeak
PROPERTY HostsContest
