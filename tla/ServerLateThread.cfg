\* The thread of a room runs for the first time when another room has been created
SPECIFICATION Spec
CONSTANTS
  Clients = {c1, c2}
  Rooms = {r1, r2}
  Socket = socket
  Leavers = {}
  LateThreads = TRUE
CHECK_DEADLOCK FALSE
INVARIANT OwnArguments
