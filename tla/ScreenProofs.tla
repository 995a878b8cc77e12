----------------------------- MODULE ScreenProofs ----------------------------
(***************************************************************************)
(* How large a window has to be: theorems about the pages of Screen for    *)
(* every window, every length of the lists and every map.  Pages checks    *)
(* a few windows and lists; here are the lengths at which a page stops to  *)
(* fit, and 76 columns and 24 rows are where the commands do.              *)
(***************************************************************************)
EXTENDS Screen, TLAPS

\* A window in which the commands and the notices have room
Enough(columns, rows) ==
  /\ columns \in Nat /\ rows \in Nat
  /\ columns >= 76 /\ rows >= 24

(***************************************************************************)
(* GetHorizontalCoord and GetVerticalCoord stay in the window: a relative  *)
(* coordinate is below 1.                                                  *)
(***************************************************************************)
LEMMA PlaceInside ==
  ASSUME NEW rel \in 0 .. 999, NEW size \in Nat, size > 0
  PROVE  (rel * size) \div 1000 \in 0 .. size - 1
  OBVIOUS

\* The places that the pages use, for a window with room for the commands
LEMMA Columns ==
  ASSUME NEW columns, NEW rows, Enough(columns, rows)
  PROVE  LET screen == <<columns, rows>>
         IN  /\ GetHorizontalCoord(200, screen) \in 15 .. columns - 60
             /\ GetHorizontalCoord(250, screen) \in 19 .. columns - 57
             /\ GetHorizontalCoord(400, screen) \in 30 .. columns - 45
             /\ GetHorizontalCoord(430, screen) \in 32 .. columns - 43
             /\ GetHorizontalCoord(500, screen) \in 38 .. columns - 38
             /\ GetHorizontalCoord(660, screen) \in 50 .. columns - 25
             /\ GetHorizontalCoord(750, screen) \in 57 .. columns - 19
             /\ GetHorizontalCoord(999, screen) \in 75 .. columns - 1
  BY DEF Enough, GetHorizontalCoord

LEMMA Rows ==
  ASSUME NEW columns, NEW rows, Enough(columns, rows)
  PROVE  LET screen == <<columns, rows>>
         IN  /\ GetVerticalCoord(660, screen) \in 15 .. rows - 8
             /\ GetVerticalCoord(840, screen) \in 20 .. rows - 3
             /\ GetVerticalCoord(999, screen) \in 23 .. rows - 1
  BY DEF Enough, GetVerticalCoord

-----------------------------------------------------------------------------
(* Boxes of lists. *)

(***************************************************************************)
(* DrawList does not leave the window when its last border does not.       *)
(***************************************************************************)
LEMMA ListFits ==
  ASSUME NEW columns \in Nat, NEW rows \in Nat,
         NEW x1 \in Nat, NEW y1 \in Nat, NEW x2 \in Nat,
         NEW lines \in Nat, NEW size \in Nat \ {0},
         x1 <= x2, x2 < columns, x1 + size < columns,
         y1 + 2 * lines < rows
  PROVE  Fits(DrawList(x1, y1, x2, lines, size), <<columns, rows>>)
<1>1. ASSUME NEW i \in 1 .. lines
      PROVE  /\ OnScreen(DrawRectangle(x1, y1 + 2 * (i - 1), x2, y1 + 2 * i), <<columns, rows>>)
             /\ OnScreen(DrawString(x1 + 1, y1 + 2 * i - 1, size), <<columns, rows>>)
  BY DEF OnScreen, DrawRectangle, DrawString
<1>2. QED
  BY <1>1 DEF Fits, DrawList

\* The lines that divide the window
LEMMA PanelsFit ==
  ASSUME NEW columns, NEW rows, Enough(columns, rows),
         NEW cross \in 0 .. columns - 25,
         cross <= GetHorizontalCoord(999, <<columns, rows>>)
  PROVE  Fits(Panels(cross, <<columns, rows>>), <<columns, rows>>)
<1> DEFINE screen == <<columns, rows>>
           right == GetHorizontalCoord(999, screen)
           bottom == GetVerticalCoord(999, screen)
           middle == GetVerticalCoord(660, screen)
<1>1. right \in 75 .. columns - 1 /\ cross <= right
  BY Columns
<1>2. bottom \in 23 .. rows - 1 /\ middle \in 15 .. rows - 8
  BY Rows
<1>3. columns \in Nat /\ rows \in Nat /\ columns >= 76 /\ rows >= 24
  BY DEF Enough
<1> HIDE DEF right, bottom, middle
<1>4. /\ OnScreen(DrawHorizontalLine(middle, cross, right), screen)
      /\ OnScreen(DrawHorizontalLine(middle + 1, cross, right), screen)
      /\ OnScreen(DrawVerticalLine(cross, 0, bottom), screen)
      /\ OnScreen(DrawRectangle(0, 0, cross, 2), screen)
      /\ OnScreen(DrawFrame(screen), screen)
  BY <1>1, <1>2, <1>3
     DEF OnScreen, DrawHorizontalLine, DrawVerticalLine, DrawRectangle, DrawFrame
<1>5. QED
  BY <1>4 DEF Fits, Panels, right, bottom, middle

\* The commands on the right of cross
LEMMA CommandsFit ==
  ASSUME NEW columns, NEW rows, Enough(columns, rows),
         NEW cross \in 0 .. columns - 25,
         cross <= GetHorizontalCoord(999, <<columns, rows>>),
         NEW lines \in 0 .. 10, NEW size \in 1 .. 21
  PROVE  Fits(Commands(cross, lines, size, <<columns, rows>>), <<columns, rows>>)
<1> DEFINE screen == <<columns, rows>>
           right == GetHorizontalCoord(999, screen)
           middle == GetVerticalCoord(660, screen)
<1>1. right \in 75 .. columns - 1 /\ cross <= right
  BY Columns
<1>2. middle \in 15 .. rows - 8
  BY Rows
<1>3. columns \in Nat /\ rows \in Nat /\ columns >= 76 /\ rows >= 24
  BY DEF Enough
<1> HIDE DEF right, middle
<1>4. /\ OnScreen(DrawRectangle(cross, 0, right, 2), screen)
      /\ OnScreen(DrawString(cross + 1, 1, 21), screen)
      /\ OnScreen(DrawString(cross + 2, middle + 3, 14), screen)
  BY <1>1, <1>2, <1>3 DEF OnScreen, DrawRectangle, DrawString
<1>5. Fits(DrawList(cross, 2, right, lines, size), screen)
  <2>1. /\ cross <= right /\ right < columns /\ cross + size < columns
        /\ 2 + 2 * lines < rows
        /\ cross \in Nat /\ right \in Nat /\ lines \in Nat /\ size \in Nat \ {0}
    BY <1>1, <1>3
  <2>2. QED
    BY <1>3, <2>1, ListFits
<1>6. QED
  BY <1>4, <1>5 DEF Fits, Commands, right, middle

-----------------------------------------------------------------------------
(* The pages. *)

(***************************************************************************)
(* The pages that wait for any key, and the login, fit into every such     *)
(* window: an exception is always shown to the user (ErrorScreen).         *)
(***************************************************************************)
THEOREM NoticesFit ==
  ASSUME NEW columns, NEW rows, Enough(columns, rows)
  PROVE  LET screen == <<columns, rows>>
         IN  /\ Fits(DrawWelcomeScreen(screen), screen)
             /\ Fits(DrawGoodbyeScreen(screen), screen)
             /\ Fits(DrawErrorScreen(screen), screen)
             /\ Fits(DrawLoginScreen(screen), screen)
             /\ Fits(LoginError(screen), screen)
<1> DEFINE screen == <<columns, rows>>
<1>1. columns \in Nat /\ rows \in Nat /\ columns >= 76 /\ rows >= 24
  BY DEF Enough
<1>2. \A y, size : y \in 0 .. 999 /\ size \in 1 .. 30 =>
        OnScreen(Centered(500, y, size, screen), screen)
  <2> TAKE y, size
  <2> HAVE y \in 0 .. 999 /\ size \in 1 .. 30
  <2>1. GetHorizontalCoord(500, screen) \in 38 .. columns - 38
    BY Columns
  <2>2. GetVerticalCoord(y, screen) \in 0 .. rows - 1
    BY <1>1, PlaceInside DEF GetVerticalCoord
  <2>3. size \div 2 \in 0 .. 15 /\ size - size \div 2 <= 15
    OBVIOUS
  <2>4. QED
    BY <1>1, <2>1, <2>2, <2>3
       DEF Centered, OnScreen, DrawStringCenter, DrawString, DrawRectangle
<1>3. \A y1, y2 :
        y1 \in 0 .. 999 /\ y2 \in 0 .. 999 /\ y1 <= y2 => OnScreen(Relative(250, y1, 750, y2, screen), screen)
  <2> TAKE y1, y2
  <2> HAVE y1 \in 0 .. 999 /\ y2 \in 0 .. 999 /\ y1 <= y2
  <2>1. /\ GetHorizontalCoord(250, screen) \in 19 .. columns - 57
        /\ GetHorizontalCoord(750, screen) \in 57 .. columns - 19
        /\ GetHorizontalCoord(250, screen) <= GetHorizontalCoord(750, screen)
    BY <1>1 DEF GetHorizontalCoord
  <2>2. /\ GetVerticalCoord(y1, screen) \in 0 .. rows - 1
        /\ GetVerticalCoord(y2, screen) \in 0 .. rows - 1
    BY <1>1, PlaceInside DEF GetVerticalCoord
  <2>3. (y1 * rows) \div 1000 <= (y2 * rows) \div 1000
    <3> DEFINE p == y1 * rows
               q == y2 * rows
    <3>1. p \in Nat /\ q \in Nat /\ p <= q
      BY SMTT(30), <1>1
    <3> HIDE DEF p, q
    <3>2. p \div 1000 <= q \div 1000
      BY <3>1
    <3>3. QED
      BY <3>2 DEF p, q
  <2>4. QED
    BY <1>1, <2>1, <2>2, <2>3 DEF Relative, OnScreen, DrawRectangle, GetVerticalCoord
<1>4. OnScreen(DrawFrame(screen), screen)
  BY <1>1 DEF OnScreen, DrawFrame, DrawRectangle
<1> HIDE DEF screen
<1>5. \A top, bottom, texts :
        /\ top \in 0 .. 999 /\ bottom \in 0 .. 999 /\ top <= bottom
        /\ \A text \in texts : text[1] \in 0 .. 999 /\ text[2] \in 1 .. 30
        => Fits(Notice(top, bottom, texts, screen), screen)
  <2> TAKE top, bottom, texts
  <2> HAVE /\ top \in 0 .. 999 /\ bottom \in 0 .. 999 /\ top <= bottom
           /\ \A text \in texts : text[1] \in 0 .. 999 /\ text[2] \in 1 .. 30
  <2>1. \A text \in texts : OnScreen(Centered(500, text[1], text[2], screen), screen)
    BY <1>2
  <2>2. OnScreen(Relative(250, top, 750, bottom, screen), screen)
    BY SMTT(30), <1>3
  <2>3. QED
    BY <1>4, <2>1, <2>2 DEF Fits, Notice
<1>6. Fits(DrawWelcomeScreen(screen), screen) /\ Fits(DrawGoodbyeScreen(screen), screen)
  BY <1>5 DEF DrawWelcomeScreen, DrawGoodbyeScreen
<1>7. Fits(DrawErrorScreen(screen), screen) /\ Fits(DrawLoginScreen(screen), screen)
  BY <1>5 DEF DrawErrorScreen, DrawLoginScreen
<1>8. Fits(LoginError(screen), screen)
  BY <1>2 DEF Fits, LoginError
<1>9. QED
  BY <1>6, <1>7, <1>8 DEF screen

(***************************************************************************)
(* The main page fits as long as every room has its two rows, whatever has *)
(* been written on it.                                                     *)
(***************************************************************************)
THEOREM RoomListFits ==
  ASSUME NEW columns, NEW rows, Enough(columns, rows),
         NEW rooms \in Nat, 2 + 2 * rooms < rows
  PROVE  LET screen == <<columns, rows>>
         IN  /\ Fits(DrawRoomList(rooms, screen), screen)
             /\ Fits(ReadRoomId(screen), screen)
             /\ Fits(MainError(screen), screen)
<1> DEFINE screen == <<columns, rows>>
           cross == MainCross(screen)
<1>1. columns \in Nat /\ rows \in Nat /\ columns >= 76 /\ rows >= 24
  BY DEF Enough
<1>2. cross \in 50 .. columns - 25 /\ cross <= GetHorizontalCoord(999, screen)
  BY <1>1, Columns DEF MainCross, GetHorizontalCoord
<1>3. GetVerticalCoord(660, screen) \in 15 .. rows - 8
  BY Rows
<1> HIDE DEF cross
<1>4. Fits(Panels(cross, screen), screen)
  BY <1>1, <1>2, PanelsFit
<1>5. OnScreen(DrawString(1, 1, 18), screen)
  BY <1>1 DEF OnScreen, DrawString, DrawRectangle
<1>6. Fits(DrawList(0, 2, cross, rooms, 37), screen)
  BY <1>1, <1>2, ListFits
<1>7. Fits(Commands(cross, 3, 18, screen), screen)
  BY <1>1, <1>2, CommandsFit
<1>8. Fits(ReadRoomId(screen), screen)
  BY <1>1, <1>2, <1>3
     DEF Fits, ReadRoomId, RoomIdLine, OnScreen, DrawString, DrawRectangle, cross
<1>9. Fits(MainError(screen), screen)
  <2>1. GetHorizontalCoord(200, screen) \in 15 .. columns - 60
    BY Columns
  <2>2. GetVerticalCoord(900, screen) \in 0 .. rows - 1
    BY <1>1, PlaceInside DEF GetVerticalCoord
  <2>3. QED
    BY <1>1, <2>1, <2>2
       DEF Fits, MainError, Centered, OnScreen, DrawStringCenter, DrawString, DrawRectangle
<1>10. QED
  BY <1>4, <1>5, <1>6, <1>7, <1>8, <1>9 DEF Fits, DrawRoomList, cross

\* Players and lobbies: the lines of the list are what may not fit
LEMMA PlayerListFits ==
  ASSUME NEW columns, NEW rows, Enough(columns, rows),
         NEW players \in Nat \ {0}, NEW size \in Nat \ {0}, MAX_LOGIN_SIZE \in Nat,
         2 + 2 * players < rows, MAX_LOGIN_SIZE + size < columns,
         MAX_LOGIN_SIZE + 8 < columns
  PROVE  Fits(PlayerList(players, size, <<columns, rows>>), <<columns, rows>>)
<1> DEFINE screen == <<columns, rows>>
           cross == Cross(screen)
<1>1. columns \in Nat /\ rows \in Nat /\ columns >= 76 /\ rows >= 24
  BY DEF Enough
<1>2. /\ cross \in 30 .. columns - 45 /\ cross \in 0 .. columns - 25
      /\ cross <= GetHorizontalCoord(999, screen)
  BY <1>1, Columns DEF Cross, GetHorizontalCoord
<1> HIDE DEF cross
<1>3. Fits(Panels(cross, screen), screen)
  BY <1>2, PanelsFit
<1>4. /\ OnScreen(DrawString(1, 1, 7 + MAX_LOGIN_SIZE), screen)
      /\ OnScreen(DrawRectangle(0, 2, cross, 4), screen)
      /\ OnScreen(DrawString(1, 3, 18), screen)
  BY <1>1, <1>2 DEF OnScreen, DrawString, DrawRectangle
<1>5. Fits(DrawList(0, 4, cross, players - 1, MAX_LOGIN_SIZE + size), screen)
  <2> DEFINE lines == players - 1
             length == MAX_LOGIN_SIZE + size
  <2>1. /\ lines \in Nat /\ length \in Nat \ {0}
        /\ 4 + 2 * lines < rows /\ 0 + length < columns
    OBVIOUS
  <2>2. cross \in Nat /\ 0 <= cross /\ cross < columns
    BY <1>1, <1>2
  <2> HIDE DEF lines, length
  <2>3. Fits(DrawList(0, 4, cross, lines, length), screen)
    BY <1>1, <2>1, <2>2, ListFits
  <2>4. QED
    BY <2>3 DEF lines, length
<1>6. QED
  BY <1>3, <1>4, <1>5 DEF Fits, PlayerList, cross

(***************************************************************************)
(* The lobby fits, the host's with its commands too, as long as every      *)
(* joiner has two rows under the host and "Current players".               *)
(***************************************************************************)
THEOREM LobbyFits ==
  ASSUME NEW columns, NEW rows, Enough(columns, rows),
         NEW players \in Nat \ {0}, NEW is_host \in BOOLEAN, MAX_LOGIN_SIZE \in Nat,
         2 + 2 * players < rows, MAX_LOGIN_SIZE + 8 < columns
  PROVE  LET screen == <<columns, rows>>
         IN  /\ Fits(DrawLobbyScreen(players, is_host, screen), screen)
             /\ Fits(LobbyError(screen), screen)
<1> DEFINE screen == <<columns, rows>>
<1>1. columns \in Nat /\ rows \in Nat /\ columns >= 76 /\ rows >= 24
  BY DEF Enough
<1>2. Fits(PlayerList(players, 8, screen), screen)
  <2>1. 8 \in Nat \ {0} /\ MAX_LOGIN_SIZE + 8 < columns
    OBVIOUS
  <2>2. QED
    BY <2>1, PlayerListFits, Zenon
<1>3. Fits(Commands(Cross(screen), 1, 15, screen), screen)
  <2>1. /\ Cross(screen) \in 0 .. columns - 25
        /\ Cross(screen) <= GetHorizontalCoord(999, screen)
    BY <1>1, Columns DEF Cross, GetHorizontalCoord
  <2>2. QED
    BY <2>1, CommandsFit
<1>4. Fits(LobbyError(screen), screen)
  <2>1. /\ GetHorizontalCoord(430, screen) \in 32 .. columns - 43
        /\ GetVerticalCoord(840, screen) \in 20 .. rows - 3
    BY Columns, Rows
  <2>2. QED
    BY <1>1, <2>1 DEF Fits, LobbyError, OnScreen, DrawString, DrawRectangle
<1>5. QED
  BY <1>2, <1>3, <1>4 DEF Fits, DrawLobbyScreen

(***************************************************************************)
(* The game fits for a living player when twice the field of view does, or *)
(* the map if it is less.  A dead player and the host, who have no place,  *)
(* need the whole map to fit: that the page held while the player lived    *)
(* does not say so.                                                        *)
(***************************************************************************)
THEOREM GameScreenFits ==
  ASSUME NEW columns, NEW rows, Enough(columns, rows),
         NEW players \in Nat \ {0}, NEW place, MAX_LOGIN_SIZE \in Nat,
         MapWidth \in Nat \ {0}, MapHeight \in Nat \ {0}, FieldOfView \in Nat \ {0},
         2 + 2 * players < rows, MAX_LOGIN_SIZE + 17 < columns,
         \/ /\ place = <<>>
            /\ Cross(<<columns, rows>>) + 2 + MapWidth <= columns
            /\ MapHeight + 2 <= rows
         \/ /\ place \in (0 .. MapWidth - 1) \X (0 .. MapHeight - 1)
            /\ Cross(<<columns, rows>>) + 2 + Smaller(MapWidth, 2 * FieldOfView) <= columns
            /\ Smaller(MapHeight, 2 * FieldOfView) + 2 <= rows
  PROVE  Fits(DrawGameScreen(players, place, <<columns, rows>>), <<columns, rows>>)
<1> DEFINE screen == <<columns, rows>>
<1>1. columns \in Nat /\ rows \in Nat /\ columns >= 76 /\ rows >= 24
  BY DEF Enough
<1>2. Fits(PlayerList(players, 17, screen), screen)
  <2>1. 17 \in Nat \ {0} /\ MAX_LOGIN_SIZE + 17 < columns /\ MAX_LOGIN_SIZE + 8 < columns
    BY <1>1
  <2>2. QED
    BY <2>1, PlayerListFits, Zenon
<1>3. Cross(screen) \in 30 .. columns - 45
  BY Columns DEF Cross
<1>4. /\ OnScreen(DrawString(Cross(screen) + 2, GetVerticalCoord(660, screen) + 3, 29), screen)
      /\ OnScreen(DrawString(Cross(screen) + 2, GetVerticalCoord(660, screen) + 4, 21), screen)
  <2> DEFINE cross == Cross(screen)
             middle == GetVerticalCoord(660, screen)
  <2>1. cross \in 30 .. columns - 45 /\ middle \in 15 .. rows - 8
    BY <1>3, Rows
  <2> HIDE DEF cross, middle
  <2>2. /\ OnScreen(DrawString(cross + 2, middle + 3, 29), screen)
        /\ OnScreen(DrawString(cross + 2, middle + 4, 21), screen)
    BY <1>1, <2>1 DEF OnScreen, DrawString, DrawRectangle
  <2>3. QED
    BY <2>2 DEF cross, middle
<1>5. \A size, spot :
        size \in Nat \ {0} /\ spot \in 0 .. size - 1 =>
          Seen(size, spot) \in 1 .. Smaller(size, 2 * FieldOfView)
  BY DEF Seen, Bigger, Smaller
<1>6. OnScreen(DrawMap(place, screen), screen)
  <2>1. CASE /\ place = <<>>
             /\ Cross(screen) + 2 + MapWidth <= columns
             /\ MapHeight + 2 <= rows
    BY <1>1, <1>3, <2>1 DEF OnScreen, DrawMap, Map, DrawRectangle
  <2>2. CASE /\ place \in (0 .. MapWidth - 1) \X (0 .. MapHeight - 1)
             /\ Cross(screen) + 2 + Smaller(MapWidth, 2 * FieldOfView) <= columns
             /\ Smaller(MapHeight, 2 * FieldOfView) + 2 <= rows
    <3>1. PICK x \in 0 .. MapWidth - 1, y \in 0 .. MapHeight - 1 : place = <<x, y>>
      BY <2>2
    <3>2. /\ Seen(MapWidth, x) \in 1 .. Smaller(MapWidth, 2 * FieldOfView)
          /\ Seen(MapHeight, y) \in 1 .. Smaller(MapHeight, 2 * FieldOfView)
      BY <1>5, <3>1
    <3>3. DrawMap(place, screen) = Map(Seen(MapWidth, x), Seen(MapHeight, y), screen)
      BY <3>1 DEF DrawMap
    <3> DEFINE width == Seen(MapWidth, x)
               height == Seen(MapHeight, y)
               cross == Cross(screen)
               across == Smaller(MapWidth, 2 * FieldOfView)
               down == Smaller(MapHeight, 2 * FieldOfView)
    <3>4. /\ width \in 1 .. across /\ height \in 1 .. down
          /\ cross \in 30 .. columns - 45
          /\ cross + 2 + across <= columns /\ down + 2 <= rows
          /\ across \in Nat /\ down \in Nat
      <4>1. across \in Nat /\ down \in Nat
        BY DEF Smaller
      <4>2. QED
        BY <1>3, <2>2, <3>2, <4>1, Zenon
    <3> HIDE DEF width, height, cross, across, down
    <3>5. OnScreen(DrawRectangle(cross + 2, 2, cross + 1 + width, 1 + height), screen)
      <4>1. /\ cross + 2 <= cross + 1 + width /\ cross + 1 + width < columns
            /\ 2 <= 1 + height /\ 1 + height < rows /\ 0 <= cross + 2
        BY <1>1, <3>4
      <4>2. QED
        BY <4>1 DEF OnScreen, DrawRectangle
    <3>6. QED
      BY <3>3, <3>5 DEF Map, width, height, cross
  <2>3. QED
    BY <2>1, <2>2, Zenon
<1>7. QED
  BY <1>2, <1>4, <1>6 DEF Fits, DrawGameScreen
=============================================================================
