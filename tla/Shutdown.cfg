\* A daemon or a program with two rooms, and signals at any time
SPECIFICATION FairSpec
CONSTANTS
  Rooms = {r1, r2}
  StartUps = {"DAEMON", "PROGRAM"}
INVARIANTS NobodyLeftBehind
PROPERTIES ServerEnds RoomsObey
