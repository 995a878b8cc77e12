\* The map of server_settings, in the narrowest window that is enough for it,
\* with as many rooms and players as its 24 rows hold
SPECIFICATION FairSpec
CONSTANTS
  MAX_LOGIN_SIZE = 3
  MapWidth = 44
  MapHeight = 12
  FieldOfView = 6
  Windows <- NarrowWindow
  Rooms = {0, 10}
  Players = {3, 10}
  Places <- OnePlace
  Keys = {"k", "0", "1", "2", "enter", "DELETE", "UP", "F1", "ctrl-q"}
  AnyKeys = {"k", "ctrl-q"}
  KeysAhead = 2
  Infos = 2
CHECK_DEADLOCK FALSE
INVARIANTS TypeOK ScreenHolds CursorFollows KeysStayWhole
PROPERTIES QuitIsHeard EndIsShown
