------------------------------- MODULE Screen -------------------------------
(***************************************************************************)
(* What client/interfaces/output_interface.cpp draws with client/painter.  *)
(* A page is the set of the boxes (lines, rectangles, texts) that its      *)
(* drawing sets; the letters in them do not matter here.  Painter::Set     *)
(* throws outside the screen buffer, so a page with one box that is not    *)
(* on the screen ends in an exception.                                     *)
(***************************************************************************)
EXTENDS Integers, Sequences

CONSTANTS
  MAX_LOGIN_SIZE,  \* how long a login may be
  MapWidth,        \* the map of the server
  MapHeight,
  FieldOfView      \* field_of_view_

\* A box from its left upper corner to the right lower one
DrawRectangle(x1, y1, x2, y2) == [x1 |-> x1, y1 |-> y1, x2 |-> x2, y2 |-> y2]

DrawHorizontalLine(y, x1, x2) == DrawRectangle(x1, y, x2, y)

DrawVerticalLine(x, y1, y2) == DrawRectangle(x, y1, x, y2)

DrawString(x, y, size) == DrawRectangle(x, y, x + size - 1, y)

DrawStringCenter(x, y, size) == DrawString(x - size \div 2, y, size)

\* Painter::Set takes every point of the box, <<columns, rows>> is the screen
OnScreen(box, screen) ==
  /\ 0 <= box.x1 /\ box.x1 <= box.x2 /\ box.x2 < screen[1]
  /\ 0 <= box.y1 /\ box.y1 <= box.y2 /\ box.y2 < screen[2]

Fits(boxes, screen) == \A box \in boxes : OnScreen(box, screen)

\* A place in thousandths of the screen
GetHorizontalCoord(rel, screen) == (rel * screen[1]) \div 1000
GetVerticalCoord(rel, screen) == (rel * screen[2]) \div 1000

DrawFrame(screen) == DrawRectangle(0, 0, screen[1] - 1, screen[2] - 1)

Relative(x1, y1, x2, y2, screen) ==
  DrawRectangle(GetHorizontalCoord(x1, screen), GetVerticalCoord(y1, screen),
                GetHorizontalCoord(x2, screen), GetVerticalCoord(y2, screen))

Centered(x, y, size, screen) ==
  DrawStringCenter(GetHorizontalCoord(x, screen), GetVerticalCoord(y, screen), size)

\* A frame, a box in the middle and two or three lines of text
Notice(top, bottom, texts, screen) ==
  {DrawFrame(screen), Relative(250, top, 750, bottom, screen)}
    \union {Centered(500, text[1], text[2], screen) : text \in texts}

DrawWelcomeScreen(screen) == Notice(333, 666, {<<400, 19>>, <<500, 13>>}, screen)

DrawGoodbyeScreen(screen) == Notice(333, 666, {<<400, 19>>, <<500, 13>>}, screen)

DrawErrorScreen(screen) == Notice(333, 666, {<<400, 20>>, <<480, 30>>, <<560, 21>>}, screen)

DrawLoginScreen(screen) == Notice(400, 600, {<<240, 28>>, <<430, 17>>}, screen)

\* Every line has a box of two rows that share their borders
DrawList(x1, y1, x2, lines, size) ==
  {DrawRectangle(x1, y1 + 2 * (i - 1), x2, y1 + 2 * i) : i \in 1 .. lines}
    \union {DrawString(x1 + 1, y1 + 2 * i - 1, size) : i \in 1 .. lines}

\* The lines between the lists on the left and what is on the right of cross
Panels(cross, screen) ==
  LET right == GetHorizontalCoord(999, screen)
      bottom == GetVerticalCoord(999, screen)
      middle == GetVerticalCoord(660, screen)
  IN  {DrawHorizontalLine(middle, cross, right), DrawHorizontalLine(middle + 1, cross, right),
       DrawVerticalLine(cross, 0, bottom), DrawRectangle(0, 0, cross, 2), DrawFrame(screen)}

\* Where "User Command: " ends
CommandPlace(cross, screen) == <<cross + 16, GetVerticalCoord(660, screen) + 3>>

Commands(cross, lines, size, screen) ==
  LET right == GetHorizontalCoord(999, screen)
  IN  {DrawRectangle(cross, 0, right, 2), DrawString(cross + 1, 1, 21),
       DrawString(cross + 2, GetVerticalCoord(660, screen) + 3, 14)}
        \union DrawList(cross, 2, right, lines, size)

MainCross(screen) == GetHorizontalCoord(660, screen)

\* Ids and numbers of participants with up to three digits
DrawRoomList(rooms, screen) ==
  Panels(MainCross(screen), screen)
    \union {DrawString(1, 1, 18)}
    \union DrawList(0, 2, MainCross(screen), rooms, 37)
    \union Commands(MainCross(screen), 3, 18, screen)

\* Where "Room id: " begins and ends
RoomIdLine(screen) == GetVerticalCoord(660, screen) + 4
RoomIdPlace(screen) == <<MainCross(screen) + 11, RoomIdLine(screen)>>
ReadRoomId(screen) == {DrawString(MainCross(screen) + 2, RoomIdLine(screen), 9)}

Cross(screen) == GetHorizontalCoord(400, screen)

\* The host's login, "Current players" and a line for everybody but the host
PlayerList(players, size, screen) ==
  Panels(Cross(screen), screen)
    \union {DrawString(1, 1, 7 + MAX_LOGIN_SIZE), DrawRectangle(0, 2, Cross(screen), 4),
            DrawString(1, 3, 18)}
    \union DrawList(0, 4, Cross(screen), players - 1, MAX_LOGIN_SIZE + size)

DrawLobbyScreen(players, is_host, screen) ==
  PlayerList(players, 8, screen)
    \union IF is_host THEN Commands(Cross(screen), 1, 15, screen) ELSE {}

Bigger(a, b) == IF a > b THEN a ELSE b

Smaller(a, b) == IF a < b THEN a ELSE b

\* How much of a line of the map is seen from a place in it
Seen(size, place) == Smaller(size, place + FieldOfView) - Bigger(0, place - FieldOfView)

Map(width, height, screen) ==
  DrawRectangle(Cross(screen) + 2, 2, Cross(screen) + 1 + width, 1 + height)

DrawMapTurned(place, screen) ==  \* Fault: the map on its side
  IF place = <<>> THEN Map(MapHeight, MapWidth, screen)
  ELSE Map(Seen(MapHeight, place[2]), Seen(MapWidth, place[1]), screen)

\* Who has no place on the map sees all of it
DrawMap(place, screen) ==
  IF place = <<>> THEN Map(MapWidth, MapHeight, screen)
  ELSE Map(Seen(MapWidth, place[1]), Seen(MapHeight, place[2]), screen)

\* Health with up to four digits
DrawGameScreen(players, place, screen) ==
  PlayerList(players, 17, screen)
    \union {DrawString(Cross(screen) + 2, GetVerticalCoord(660, screen) + 3, 29),
            DrawString(Cross(screen) + 2, GetVerticalCoord(660, screen) + 4, 21),
            DrawMap(place, screen)}

\* WriteError, by scene: drawn, and removed (on the login page somewhere else)
LoginError(screen) == {Centered(500, 750, 23, screen), Centered(500, 200, 23, screen)}

MainError(screen) == {Centered(200, 900, 25, screen)}

LobbyError(screen) ==
  {DrawString(GetHorizontalCoord(430, screen), GetVerticalCoord(840, screen), 40)}
=============================================================================
