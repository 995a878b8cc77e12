\* Two clients who come, go and come again, and a room; one of them may also leave early
SPECIFICATION FairSpec
CONSTANTS
  Clients = {c1, c2}
  Rooms = {r1}
  Socket = socket
  Leavers = {c1}
  LateThreads = FALSE
CHECK_DEADLOCK FALSE
INVARIANTS TypeOK ServedOnce
PROPERTIES LostOnlyWithARoom ListArrives JoinersHandedOver LeaversAreClosed
