----------------------------- MODULE PagesProofs -----------------------------
(***************************************************************************)
(* Proofs about Pages: in a window that is large enough for the longest    *)
(* lists and for the whole map, whatever the user types and the server     *)
(* sends, no drawing throws and the typed line stays where the cursor is.  *)
(* The invariant has two parts: what is known of the server (Known), and   *)
(* what the window shows (Looking).  The last part is about the keys: the  *)
(* bytes that wait are a row of whole keys (WholeRow).                     *)
(***************************************************************************)
EXTENDS Pages, ScreenProofs, SequenceTheorems

\* Windows that hold the longest lists, the longest login and the whole map
Roomy ==
  /\ MapWidth \in Nat \ {0} /\ MapHeight \in Nat \ {0} /\ FieldOfView \in Nat \ {0}
  /\ \A window \in Windows :
       /\ Enough(window[1], window[2])
       /\ MAX_LOGIN_SIZE + 17 < window[1]
       /\ GetHorizontalCoord(300, window) + MAX_LOGIN_SIZE < window[1]
       /\ \A number \in Rooms \union Players : 2 + 2 * number < window[2]
       /\ Cross(window) + 2 + MapWidth <= window[1]
       /\ MapHeight + 2 <= window[2]

-----------------------------------------------------------------------------
(* What fits. *)

NoticesRoomy(window) ==
  /\ Fits(DrawWelcomeScreen(window), window)
  /\ Fits(DrawGoodbyeScreen(window), window)
  /\ Fits(DrawErrorScreen(window), window)
  /\ Fits(DrawLoginScreen(window), window)
  /\ Fits(LoginError(window), window)
  /\ Fits(ReadRoomId(window), window)
  /\ Fits(MainError(window), window)
  /\ Fits(LobbyError(window), window)

RoomListRoomy(window) ==
  \A number \in Rooms \union {0} : Fits(DrawRoomList(number, window), window)

LobbyRoomy(window) ==
  \A number \in Players \union {1}, is_host \in BOOLEAN :
    Fits(DrawLobbyScreen(number, is_host, window), window)

GameRoomy(window) ==
  \A number \in Players \union {1}, spot \in Places \union {<<>>} :
    Fits(DrawGameScreen(number, spot, window), window)

\* Coordinates of what is typed, and of the commands
LinesRoomy(window) ==
  /\ window[1] \in Nat /\ window[2] \in Nat /\ window[1] >= 76 /\ window[2] >= 24
  /\ GetHorizontalCoord(300, window) \in Nat
  /\ GetHorizontalCoord(300, window) + MAX_LOGIN_SIZE < window[1]
  /\ GetVerticalCoord(520, window) \in 0 .. window[2] - 1
  /\ MainCross(window) \in 50 .. window[1] - 25
  /\ Cross(window) \in 30 .. window[1] - 45
  /\ GetVerticalCoord(660, window) \in 15 .. window[2] - 8

(***************************************************************************)
(* In a roomy window every page that the client can come to fits: the      *)
(* theorems about Screen, for the lengths that lists have here.            *)
(***************************************************************************)
LEMMA WindowHolds ==
  ASSUME Roomy, NEW window \in Windows
  PROVE  /\ NoticesRoomy(window) /\ RoomListRoomy(window) /\ LobbyRoomy(window)
         /\ GameRoomy(window) /\ LinesRoomy(window)
<1>1. PICK columns \in Nat, rows \in Nat : window = <<columns, rows>>
  BY PagesAssumption
<1>2. /\ Enough(columns, rows) /\ columns >= 76 /\ rows >= 24
      /\ MAX_LOGIN_SIZE + 17 < columns /\ MAX_LOGIN_SIZE + 8 < columns
      /\ MAX_LOGIN_SIZE \in Nat
      /\ \A number \in Rooms \union Players \union {0, 1} : number \in Nat /\ 2 + 2 * number < rows
  BY <1>1, PagesAssumption DEF Roomy, Enough
<1>3. NoticesRoomy(window)
  <2>1. Fits(ReadRoomId(window), window) /\ Fits(MainError(window), window)
    <3>1. 0 \in Nat /\ 2 + 2 * 0 < rows
      BY <1>2
    <3> QED BY <1>1, <1>2, <3>1, RoomListFits
  <2>2. Fits(LobbyError(window), window)
    <3>1. 1 \in Nat \ {0} /\ 2 + 2 * 1 < rows /\ TRUE \in BOOLEAN
      BY <1>2
    <3> QED BY <1>1, <1>2, <3>1, LobbyFits
  <2> QED BY <1>1, <1>2, <2>1, <2>2, NoticesFit DEF NoticesRoomy
<1>4. RoomListRoomy(window)
  BY <1>1, <1>2, RoomListFits DEF RoomListRoomy
<1>5. \A number \in Players \union {1} : number \in Nat \ {0} /\ 2 + 2 * number < rows
  BY <1>2, PagesAssumption
<1>6. LobbyRoomy(window)
  BY <1>1, <1>2, <1>5, LobbyFits DEF LobbyRoomy
<1>7. GameRoomy(window)
  <2>1. /\ Cross(<<columns, rows>>) + 2 + MapWidth <= columns /\ MapHeight + 2 <= rows
        /\ MapWidth \in Nat \ {0} /\ MapHeight \in Nat \ {0} /\ FieldOfView \in Nat \ {0}
    BY <1>1 DEF Roomy
  <2>2. Cross(<<columns, rows>>) \in Nat
    BY <1>2, Columns DEF Cross
  <2>3. /\ Cross(<<columns, rows>>) + 2 + Smaller(MapWidth, 2 * FieldOfView) <= columns
        /\ Smaller(MapHeight, 2 * FieldOfView) + 2 <= rows
    <3> DEFINE cross == Cross(<<columns, rows>>)
    <3>1. /\ cross + 2 + MapWidth <= columns /\ cross \in Nat
      BY <2>1, <2>2
    <3> HIDE DEF cross
    <3>2. /\ cross + 2 + Smaller(MapWidth, 2 * FieldOfView) <= columns
          /\ Smaller(MapHeight, 2 * FieldOfView) + 2 <= rows
      BY <2>1, <3>1 DEF Smaller
    <3> QED BY <3>2 DEF cross
  <2>4. ASSUME NEW number \in Players \union {1}, NEW spot \in Places \union {<<>>}
        PROVE  Fits(DrawGameScreen(number, spot, window), window)
    <3>1. CASE spot = <<>>
      BY <1>1, <1>2, <1>5, <2>1, <3>1, GameScreenFits
    <3>2. CASE spot \in Places
      <4>1. spot \in (0 .. MapWidth - 1) \X (0 .. MapHeight - 1)
        BY <3>2, PagesAssumption
      <4> QED BY <1>1, <1>2, <1>5, <2>1, <2>3, <4>1, GameScreenFits
    <3> QED BY <3>1, <3>2
  <2> QED BY <2>4 DEF GameRoomy
<1>8. LinesRoomy(window)
  <2>1. /\ MainCross(window) \in 50 .. columns - 25 /\ Cross(window) \in 30 .. columns - 45
    BY <1>1, <1>2, Columns DEF MainCross, Cross
  <2>2. GetVerticalCoord(660, window) \in 15 .. rows - 8
    BY <1>1, <1>2, Rows
  <2>3. /\ GetHorizontalCoord(300, window) \in Nat
        /\ GetVerticalCoord(520, window) \in 0 .. rows - 1
    BY <1>1, <1>2 DEF GetHorizontalCoord, GetVerticalCoord
  <2>4. GetHorizontalCoord(300, window) + MAX_LOGIN_SIZE < columns
    BY <1>1 DEF Roomy
  <2>5. window[1] = columns /\ window[2] = rows
    BY <1>1
  <2> QED BY <1>1, <1>2, <2>1, <2>2, <2>3, <2>4, <2>5 DEF LinesRoomy
<1> QED BY <1>3, <1>4, <1>6, <1>7, <1>8

-----------------------------------------------------------------------------
(* The invariant. *)

\* The pages before the game
Early == {"WELCOME", "LOGIN", "MAIN", "ROOM_ID", "LOBBY", "HOST"}

PageNames == Early \union {"GAME", "GOODBYE", "ERROR", "OUT", "KILLED"}

\* What the client knows of the server, and what is on its way
Known ==
  /\ screen \in Windows
  /\ rooms \in Rooms \union {0} /\ players \in Players \union {1}
  /\ alive \in 0 .. players - 1
  /\ place \in Places \union {<<>>}
  /\ infos \in Seq([alive : 0 .. players - 1, place : Places \union {<<>>}])
  /\ Len(infos) <= Infos
  /\ pipe \in {"open", "closed", "reset"}
  /\ page \in Early => alive = 0 /\ infos = <<>>

\* How much may have been typed on a page
TypedSize(shown) ==
  CASE shown = "LOGIN" -> MAX_LOGIN_SIZE
    [] shown = "ROOM_ID" -> RoomIdSize
    [] shown \in {"OUT", "ERROR"} -> Bigger(MAX_LOGIN_SIZE, RoomIdSize)
    [] OTHER -> 0

\* The places of the window; a cursor may stand right behind its line
Spots == (0 .. screen[1]) \X (0 .. screen[2] - 1)

\* The typed line begins in column x of row y and ends at the cursor
Line(x, y) ==
  /\ cursor = <<x + Len(typed), y>>
  /\ {spot \in echo : spot[2] = y} = {<<x + i - 1, y>> : i \in 1 .. Len(typed)}

LoginX == GetHorizontalCoord(300, screen)
LoginY == GetVerticalCoord(520, screen)
RoomIdX == MainCross(screen) + 11
RoomIdY == GetVerticalCoord(660, screen) + 4

\* What the window shows: on the main page a line that may be typed on begins one row below
Looking ==
  /\ page \in PageNames
  /\ typed \in Seq({"symbol", "junk"}) /\ Len(typed) <= TypedSize(page)
  /\ echo \subseteq Spots /\ cursor \in Spots /\ terminal \in Spots
  /\ page = "LOGIN" => Line(LoginX, LoginY)
  /\ page = "ROOM_ID" => Line(RoomIdX, RoomIdY)
  /\ page = "MAIN" => echo = {} /\ cursor = CommandPlace(MainCross(screen), screen)
  /\ page \in {"LOGIN", "MAIN", "ROOM_ID", "HOST"} => terminal = cursor
  /\ fault \in {"none", "server", "input"}

IInv == Known /\ Looking

-----------------------------------------------------------------------------
(* What drawing does to the window. *)

LEMMA Coordinates ==
  ASSUME Roomy, screen \in Windows
  PROVE  /\ LoginX \in Nat /\ LoginX + MAX_LOGIN_SIZE < screen[1] /\ LoginY \in 0 .. screen[2] - 1
         /\ RoomIdX \in Nat /\ RoomIdX + RoomIdSize < screen[1] /\ RoomIdY \in 0 .. screen[2] - 1
         /\ CommandPlace(MainCross(screen), screen) \in Spots
         /\ CommandPlace(MainCross(screen), screen)[1] < screen[1]
         /\ CommandPlace(MainCross(screen), screen)[2] = RoomIdY - 1
         /\ CommandPlace(Cross(screen), screen) \in Spots
         /\ MAX_LOGIN_SIZE \in Nat /\ screen[1] \in Nat /\ screen[2] \in Nat
<1> DEFINE columns == screen[1]
           rows == screen[2]
           left == GetHorizontalCoord(300, screen)
           top == GetVerticalCoord(520, screen)
           main == MainCross(screen)
           cross == Cross(screen)
           middle == GetVerticalCoord(660, screen)
<1>1. /\ columns \in Nat /\ rows \in Nat /\ columns >= 76 /\ rows >= 24
      /\ left \in Nat /\ left + MAX_LOGIN_SIZE < columns /\ top \in 0 .. rows - 1
      /\ main \in 50 .. columns - 25 /\ cross \in 30 .. columns - 45 /\ middle \in 15 .. rows - 8
  BY WindowHolds DEF LinesRoomy
<1>2. MAX_LOGIN_SIZE \in Nat
  BY PagesAssumption
<1> HIDE DEF columns, rows, left, top, main, cross, middle
<1>3. /\ main + 11 \in Nat /\ main + 11 + RoomIdSize < columns /\ middle + 4 \in 0 .. rows - 1
      /\ main + 16 \in 0 .. columns /\ main + 16 < columns /\ cross + 16 \in 0 .. columns
      /\ middle + 3 \in 0 .. rows - 1 /\ middle + 3 = middle + 4 - 1
  BY <1>1 DEF RoomIdSize
<1>4. <<main + 16, middle + 3>> \in (0 .. columns) \X (0 .. rows - 1)
  BY <1>3
<1>5. <<cross + 16, middle + 3>> \in (0 .. columns) \X (0 .. rows - 1)
  BY <1>3
<1> QED
  BY <1>1, <1>2, <1>3, <1>4, <1>5
     DEF LoginX, LoginY, RoomIdX, RoomIdY, CommandPlace, Spots, columns, rows, left, top, main,
         cross, middle

LEMMA TypedBounded ==
  ASSUME Looking
  PROVE  Len(typed) <= Bigger(MAX_LOGIN_SIZE, RoomIdSize)
<1>1. MAX_LOGIN_SIZE \in Nat /\ Len(typed) \in Nat /\ Len(typed) <= TypedSize(page)
  BY PagesAssumption DEF Looking
<1>2. TypedSize(page) \in {MAX_LOGIN_SIZE, RoomIdSize, Bigger(MAX_LOGIN_SIZE, RoomIdSize), 0}
  BY DEF TypedSize, Looking, PageNames, Early
<1> QED BY <1>1, <1>2 DEF Bigger, RoomIdSize

(***************************************************************************)
(* ErrorScreen, Quit and the end of the game leave the cursors alone.      *)
(***************************************************************************)
LEMMA FailLooks ==
  ASSUME Roomy, screen \in Windows, Looking, UNCHANGED screen,
         typed' = typed \/ typed' = <<>>,
         NEW why \in {"server", "input"}, Fail(why)
  PROVE  Looking' /\ page' = "ERROR"
<1>1. page' = "ERROR" /\ fault' = why /\ UNCHANGED look
  BY WindowHolds DEF Fail, NoticesRoomy
<1>2. typed' \in Seq({"symbol", "junk"}) /\ Len(typed') <= Bigger(MAX_LOGIN_SIZE, RoomIdSize)
  <2>1. CASE typed' = typed
    BY <2>1, TypedBounded DEF Looking
  <2>2. CASE typed' = <<>>
    BY <2>2, PagesAssumption DEF Bigger, RoomIdSize
  <2> QED BY <2>1, <2>2
<1> QED BY <1>1, <1>2 DEF Looking, look, PageNames, TypedSize, Spots

LEMMA FailOrKilledLooks ==
  ASSUME Roomy, screen \in Windows, Looking, UNCHANGED screen, typed' = <<>>, FailOrKilled
  PROVE  Looking'
<1>1. CASE Fail("server")
  BY <1>1, FailLooks
<1>2. CASE page' = "KILLED" /\ UNCHANGED <<look, fault>>
  <2>1. typed' \in Seq({"symbol", "junk"}) /\ Len(typed') = 0
    BY EmptySeq
  <2>2. TypedSize(page') \in {0, Bigger(MAX_LOGIN_SIZE, RoomIdSize)}
    BY <1>2 DEF TypedSize
  <2>3. Len(typed') <= TypedSize(page')
    BY <2>1, <2>2, PagesAssumption DEF Bigger, RoomIdSize
  <2> QED BY <1>2, <2>1, <2>3 DEF Looking, look, PageNames, Spots
<1> QED BY <1>1, <1>2 DEF FailOrKilled

LEMMA QuitLooks ==
  ASSUME Looking, UNCHANGED <<screen, typed>>, Quit
  PROVE  Looking' /\ page' = "OUT"
<1>1. page' = "OUT" /\ UNCHANGED <<fault, look>>
  BY DEF Quit
<1>2. typed' \in Seq({"symbol", "junk"}) /\ Len(typed') <= Bigger(MAX_LOGIN_SIZE, RoomIdSize)
  BY TypedBounded, PagesAssumption DEF Looking, Bigger, RoomIdSize
<1> QED BY <1>1, <1>2 DEF Looking, look, PageNames, TypedSize, Spots

(***************************************************************************)
(* The pages that are drawn from nothing.                                  *)
(***************************************************************************)
LEMMA LoginLooks ==
  ASSUME Roomy, screen \in Windows, Looking, UNCHANGED <<screen, typed>>, typed = <<>>, ShowLogin
  PROVE  Looking' /\ page' = "LOGIN"
<1>1. /\ page' = "LOGIN" /\ echo' = {} /\ fault' = fault
      /\ cursor' = <<LoginX, LoginY>> /\ terminal' = <<LoginX, LoginY>>
  BY WindowHolds DEF ShowLogin, Draw, Show, MoveTo, NoticesRoomy, LoginX, LoginY
<1>2. /\ LoginX \in 0 .. screen[1] /\ LoginY \in 0 .. screen[2] - 1 /\ MAX_LOGIN_SIZE \in Nat
  BY Coordinates
<1>3. LoginX' = LoginX /\ LoginY' = LoginY
  BY DEF LoginX, LoginY
<1>4. Line(LoginX, LoginY)'
  BY <1>1, <1>2, <1>3 DEF Line
<1> QED BY <1>1, <1>2, <1>4 DEF Looking, PageNames, Early, TypedSize, Spots

LEMMA MainLooks ==
  ASSUME Roomy, screen \in Windows, Looking, UNCHANGED screen, typed' = <<>>,
         NEW number \in Rooms \union {0}, NEW error \in {{}, MainError(screen)},
         ShowMain(number, error)
  PROVE  Looking' /\ page' = "MAIN"
<1>1. Fits(DrawRoomList(number, screen) \union error, screen)
  BY WindowHolds DEF RoomListRoomy, NoticesRoomy, Fits
<1>2. /\ page' = "MAIN" /\ echo' = {} /\ fault' = fault
      /\ cursor' = CommandPlace(MainCross(screen), screen) /\ terminal' = cursor'
  BY <1>1 DEF ShowMain, Draw, Show, MoveTo
<1>3. CommandPlace(MainCross(screen), screen) \in Spots
  BY Coordinates
<1> QED BY <1>2, <1>3 DEF Looking, PageNames, Early, TypedSize, Spots

LEMMA LobbyLooks ==
  ASSUME Roomy, screen \in Windows, Looking, UNCHANGED screen, typed' = <<>>,
         NEW number \in Players \union {1}, ShowLobby(number)
  PROVE  Looking' /\ page' = "LOBBY"
<1>1. page' = "LOBBY" /\ echo' = {} /\ fault' = fault /\ UNCHANGED <<cursor, terminal>>
  BY WindowHolds DEF ShowLobby, Draw, Show, LobbyRoomy
<1> QED BY <1>1 DEF Looking, PageNames, Early, TypedSize, Spots

LEMMA HostLooks ==
  ASSUME Roomy, screen \in Windows, Looking, UNCHANGED screen, typed' = <<>>,
         NEW number \in Players \union {1}, ShowHost(number)
  PROVE  Looking' /\ page' = "HOST"
<1>1. /\ page' = "HOST" /\ echo' = {} /\ fault' = fault
      /\ cursor' = CommandPlace(Cross(screen), screen) /\ terminal' = cursor'
  BY WindowHolds DEF ShowHost, Draw, Show, MoveTo, LobbyRoomy
<1>2. CommandPlace(Cross(screen), screen) \in Spots
  BY Coordinates
<1> QED BY <1>1, <1>2 DEF Looking, PageNames, Early, TypedSize, Spots

LEMMA GameLooks ==
  ASSUME Roomy, screen \in Windows, Looking, UNCHANGED screen, typed' = <<>>,
         NEW number \in Players \union {1}, NEW spot \in Places \union {<<>>},
         ShowGame(number, spot)
  PROVE  Looking' /\ page' = "GAME"
<1>1. page' = "GAME" /\ echo' = {} /\ fault' = fault /\ UNCHANGED <<cursor, terminal>>
  BY WindowHolds DEF ShowGame, Draw, Show, GameRoomy
<1> QED BY <1>1 DEF Looking, PageNames, Early, TypedSize, Spots

-----------------------------------------------------------------------------
(* Typing. *)

LEMMA LineGrows ==
  ASSUME NEW x \in Nat, NEW y, NEW n \in Nat
  PROVE  {<<x + i - 1, y>> : i \in 1 .. n + 1} =
           {<<x + i - 1, y>> : i \in 1 .. n} \union {<<x + n, y>>}
<1>1. \A i : i \in 1 .. n + 1 <=> i \in 1 .. n \/ i = n + 1
  OBVIOUS
<1>2. x + (n + 1) - 1 = x + n
  OBVIOUS
<1> QED BY <1>1, <1>2

LEMMA LineShrinks ==
  ASSUME NEW x \in Nat, NEW y, NEW n \in Nat \ {0}
  PROVE  {<<x + i - 1, y>> : i \in 1 .. n - 1} =
           {<<x + i - 1, y>> : i \in 1 .. n} \ {<<x + n - 1, y>>}
<1>1. \A i : i \in 1 .. n - 1 <=> i \in 1 .. n /\ i # n
  OBVIOUS
<1>2. \A i \in 1 .. n : <<x + i - 1, y>> = <<x + n - 1, y>> <=> i = n
  OBVIOUS
<1> QED BY <1>1, <1>2

(***************************************************************************)
(* A symbol that is typed appears where the cursor is and moves both       *)
(* cursors on, one that is removed disappears and moves both back: as long *)
(* as the line ends before the last column they do the same.               *)
(***************************************************************************)
LEMMA SymbolLine ==
  ASSUME NEW x \in Nat, NEW y \in Nat, screen[1] \in Nat, x + Len(typed) + 1 < screen[1],
         typed \in Seq({"symbol", "junk"}), NEW symbol \in {"symbol", "junk"},
         Line(x, y), terminal = cursor, UNCHANGED screen,
         typed' = Append(typed, symbol), WriteSymbol
  PROVE  /\ Line(x, y)' /\ terminal' = cursor' /\ echo' = echo \union {cursor}
         /\ typed' \in Seq({"symbol", "junk"}) /\ Len(typed') = Len(typed) + 1
<1>1. typed' \in Seq({"symbol", "junk"}) /\ Len(typed') = Len(typed) + 1 /\ Len(typed) \in Nat
  OBVIOUS
<1> DEFINE n == Len(typed)
<1>2. cursor = <<x + n, y>>
  BY DEF Line
<1>3. cursor' = <<x + n + 1, y>> /\ terminal' = <<x + n + 1, y>>
  <2>1. Smaller(x + n + 1, screen[1]) = x + n + 1 /\ Smaller(x + n + 1, screen[1] - 1) = x + n + 1
    BY SMTT(30), <1>1 DEF Smaller
  <2>2. cursor' = [cursor EXCEPT ![1] = x + n + 1] /\ terminal' = [cursor EXCEPT ![1] = x + n + 1]
    BY <1>2, <2>1 DEF WriteSymbol
  <2> QED BY <1>2, <2>2
<1>4. echo' = echo \union {<<x + n, y>>}
  BY <1>2 DEF WriteSymbol
<1>5. {spot \in echo' : spot[2] = y} = {<<x + i - 1, y>> : i \in 1 .. n + 1}
  <2>1. {spot \in echo : spot[2] = y} = {<<x + i - 1, y>> : i \in 1 .. n}
    BY DEF Line
  <2>2. {spot \in echo' : spot[2] = y} = {spot \in echo : spot[2] = y} \union {<<x + n, y>>}
    BY <1>4
  <2>3. {<<x + i - 1, y>> : i \in 1 .. n + 1} =
          {<<x + i - 1, y>> : i \in 1 .. n} \union {<<x + n, y>>}
    BY <1>1, LineGrows
  <2> QED BY <2>1, <2>2, <2>3
<1> QED BY <1>1, <1>2, <1>3, <1>4, <1>5 DEF Line

LEMMA DeletedLine ==
  ASSUME NEW x \in Nat, NEW y \in Nat, typed \in Seq({"symbol", "junk"}), typed # <<>>,
         Line(x, y), terminal = cursor, typed' = Front(typed), DeleteSymbol
  PROVE  /\ Line(x, y)' /\ terminal' = cursor' /\ echo' \subseteq echo
         /\ cursor' = <<x + Len(typed) - 1, y>>
         /\ typed' \in Seq({"symbol", "junk"}) /\ Len(typed') = Len(typed) - 1
<1>1. /\ typed' \in Seq({"symbol", "junk"}) /\ Len(typed') = Len(typed) - 1
      /\ Len(typed) \in Nat \ {0}
  <2>1. Len(typed) \in Nat /\ Len(typed) # 0
    BY EmptySeq
  <2>2. typed' = SubSeq(typed, 1, Len(typed) - 1)
    BY DEF Front
  <2>3. Len(typed) - 1 \in Int /\ \A i \in 1 .. Len(typed) - 1 : typed[i] \in {"symbol", "junk"}
    BY <2>1
  <2>4. /\ typed' \in Seq({"symbol", "junk"})
        /\ Len(typed') = IF 1 <= Len(typed) - 1 THEN Len(typed) - 1 - 1 + 1 ELSE 0
    BY <2>2, <2>3, SubSeqProperties
  <2> QED BY SMTT(30), <2>1, <2>4
<1> DEFINE n == Len(typed)
<1>2. cursor = <<x + n, y>>
  BY DEF Line
<1>3. Left(cursor) = <<x + n - 1, y>>
  BY <1>1, <1>2 DEF Left, Bigger
<1>4. /\ cursor' = <<x + n - 1, y>> /\ terminal' = <<x + n - 1, y>>
      /\ echo' = echo \ {<<x + n - 1, y>>}
  BY <1>3 DEF DeleteSymbol
<1>5. {spot \in echo' : spot[2] = y} = {<<x + i - 1, y>> : i \in 1 .. n - 1}
  <2>1. {spot \in echo : spot[2] = y} = {<<x + i - 1, y>> : i \in 1 .. n}
    BY DEF Line
  <2>2. {spot \in echo' : spot[2] = y} = {spot \in echo : spot[2] = y} \ {<<x + n - 1, y>>}
    BY <1>4
  <2>3. {<<x + i - 1, y>> : i \in 1 .. n - 1} =
          {<<x + i - 1, y>> : i \in 1 .. n} \ {<<x + n - 1, y>>}
    BY <1>1, LineShrinks
  <2> QED BY <2>1, <2>2, <2>3
<1> QED BY <1>1, <1>4, <1>5 DEF Line

(***************************************************************************)
(* ReadWriteCursor on a line with room for all that may be typed.          *)
(***************************************************************************)
LEMMA EditLine ==
  ASSUME NEW x \in Nat, NEW y \in Nat, NEW size \in Nat, x + size < screen[1], y < screen[2],
         screen[1] \in Nat, screen[2] \in Nat, UNCHANGED screen,
         typed \in Seq({"symbol", "junk"}), Len(typed) <= size,
         Line(x, y), terminal = cursor, echo \subseteq Spots, cursor \in Spots,
         NEW c, NEW letter_fl, NEW error, Fits(error, screen),
         Edit(c, size, letter_fl, error)
  PROVE  /\ Line(x, y)' /\ terminal' = cursor' /\ echo' \subseteq Spots' /\ cursor' \in Spots'
         /\ typed' \in Seq({"symbol", "junk"}) /\ Len(typed') <= size
         /\ UNCHANGED <<page, fault>>
<1>0. Len(typed) \in Nat /\ Spots' = Spots /\ cursor = <<x + Len(typed), y>>
  BY DEF Spots, Line
<1>1. CASE typed # <<>> /\ typed' = Front(typed) /\ DeleteSymbol /\ UNCHANGED <<page, fault>>
  <2>1. /\ Line(x, y)' /\ terminal' = cursor' /\ echo' \subseteq echo
        /\ cursor' = <<x + Len(typed) - 1, y>>
        /\ typed' \in Seq({"symbol", "junk"}) /\ Len(typed') = Len(typed) - 1
    BY <1>1, DeletedLine
  <2>2. Len(typed) # 0
    BY <1>1, EmptySeq
  <2>3. x + Len(typed) - 1 \in 0 .. screen[1] /\ y \in 0 .. screen[2] - 1
    BY <1>0, <2>2
  <2>4. <<x + Len(typed) - 1, y>> \in Spots
    BY <2>3 DEF Spots
  <2> QED BY <1>0, <1>1, <2>1, <2>2, <2>4
<1>2. CASE UNCHANGED <<typed, look, page, fault>>
  <2>1. /\ typed' = typed /\ cursor' = cursor /\ terminal' = terminal /\ echo' = echo
        /\ UNCHANGED <<page, fault>>
    BY <1>2 DEF look
  <2>2. Line(x, y)'
    BY <2>1 DEF Line
  <2> QED BY <1>0, <2>1, <2>2
<1>3. CASE \E symbol \in {"symbol", "junk"} :
             /\ Len(typed) < size
             /\ typed' = Append(typed, symbol)
             /\ Draw(AtCursor, WriteSymbol /\ UNCHANGED <<page, fault>>)
  <2>1. Fits(AtCursor, screen)
    <3>1. /\ x + Len(typed) < screen[1] /\ y < screen[2] /\ 0 <= x + Len(typed) /\ 0 <= y
          /\ cursor[1] = x + Len(typed) /\ cursor[2] = y
          /\ x + Len(typed) + 1 - 1 = x + Len(typed)
      BY <1>0, <1>3
    <3> QED BY <3>1 DEF Fits, AtCursor, OnScreen, DrawString, DrawRectangle
  <2>2. WriteSymbol /\ UNCHANGED <<page, fault>>
    BY <1>3, <2>1 DEF Draw
  <2>3. /\ Line(x, y)' /\ terminal' = cursor' /\ echo' = echo \union {cursor}
        /\ typed' \in Seq({"symbol", "junk"}) /\ Len(typed') = Len(typed) + 1
    <3>1. x + Len(typed) + 1 < screen[1] \/ x + Len(typed) + 1 = screen[1]
      BY <1>0, <1>3
    <3>2. x + Len(typed) + 1 <= x + size
      BY <1>0, <1>3
    <3>3. x + Len(typed) + 1 < screen[1]
      BY <1>0, <3>2
    <3> QED BY <1>3, <2>2, <3>3, SymbolLine
  <2>4. cursor' \in Spots
    <3>1. x + (Len(typed) + 1) \in 0 .. screen[1] /\ y \in 0 .. screen[2] - 1
      BY <1>0, <1>3
    <3>2. cursor' = <<x + (Len(typed) + 1), y>>
      BY <2>3 DEF Line
    <3> QED BY <3>1, <3>2 DEF Spots
  <2>5. Len(typed') <= size
    BY <1>0, <1>3, <2>3
  <2>6. echo' \subseteq Spots' /\ cursor' \in Spots'
    BY <1>0, <2>3, <2>4
  <2> QED BY <2>2, <2>3, <2>5, <2>6
<1>4. CASE typed' = typed /\ Draw(error, UNCHANGED <<look, page, fault>>)
  BY <1>2, <1>4 DEF Draw
<1> QED BY <1>1, <1>2, <1>3, <1>4 DEF Edit

(***************************************************************************)
(* The two pages with a line to type on.                                   *)
(***************************************************************************)
LEMMA EditLogin ==
  ASSUME Roomy, screen \in Windows, Looking, page = "LOGIN", UNCHANGED screen,
         NEW c, Edit(c, MAX_LOGIN_SIZE, TRUE, LoginError(screen))
  PROVE  Looking' /\ page' = page
<1>1. PICK x, y : x = LoginX /\ y = LoginY
  OBVIOUS
<1>2. /\ x \in Nat /\ x + MAX_LOGIN_SIZE < screen[1] /\ y \in Nat /\ y < screen[2]
      /\ MAX_LOGIN_SIZE \in Nat /\ screen[1] \in Nat /\ screen[2] \in Nat
  BY <1>1, Coordinates
<1>3. PICK error : error = LoginError(screen)
  OBVIOUS
<1>4. Fits(error, screen) /\ Edit(c, MAX_LOGIN_SIZE, TRUE, error)
  <2>1. Fits(error, screen)
    BY <1>3, WindowHolds DEF NoticesRoomy
  <2>2. Edit(c, MAX_LOGIN_SIZE, TRUE, error)
    BY <1>3 DEF Edit
  <2> QED BY <2>1, <2>2
<1>5. /\ Line(x, y) /\ terminal = cursor /\ echo \subseteq Spots /\ cursor \in Spots
      /\ typed \in Seq({"symbol", "junk"}) /\ Len(typed) <= MAX_LOGIN_SIZE
  BY <1>1 DEF Looking, TypedSize
<1>6. /\ Line(x, y)' /\ terminal' = cursor' /\ echo' \subseteq Spots' /\ cursor' \in Spots'
      /\ typed' \in Seq({"symbol", "junk"}) /\ Len(typed') <= MAX_LOGIN_SIZE
      /\ UNCHANGED <<page, fault>>
  BY <1>2, <1>4, <1>5, EditLine
<1>7. Line(LoginX, LoginY)'
  BY <1>1, <1>6 DEF Line, LoginX, LoginY
<1> QED BY <1>6, <1>7 DEF Looking, TypedSize

LEMMA EditRoomId ==
  ASSUME Roomy, screen \in Windows, Looking, page = "ROOM_ID", UNCHANGED screen,
         NEW c, Edit(c, RoomIdSize, FALSE, MainError(screen))
  PROVE  Looking' /\ page' = page
<1>1. PICK x, y : x = RoomIdX /\ y = RoomIdY
  OBVIOUS
<1>2. /\ x \in Nat /\ x + RoomIdSize < screen[1] /\ y \in Nat /\ y < screen[2]
      /\ RoomIdSize \in Nat /\ screen[1] \in Nat /\ screen[2] \in Nat
  <2>1. RoomIdSize \in Nat
    BY DEF RoomIdSize
  <2> QED BY <1>1, <2>1, Coordinates
<1>3. PICK error : error = MainError(screen)
  OBVIOUS
<1>4. Fits(error, screen) /\ Edit(c, RoomIdSize, FALSE, error)
  <2>1. Fits(error, screen)
    BY <1>3, WindowHolds DEF NoticesRoomy
  <2>2. Edit(c, RoomIdSize, FALSE, error)
    BY <1>3 DEF Edit
  <2> QED BY <2>1, <2>2
<1>5. /\ Line(x, y) /\ terminal = cursor /\ echo \subseteq Spots /\ cursor \in Spots
      /\ typed \in Seq({"symbol", "junk"}) /\ Len(typed) <= RoomIdSize
  BY <1>1 DEF Looking, TypedSize
<1>6. /\ Line(x, y)' /\ terminal' = cursor' /\ echo' \subseteq Spots' /\ cursor' \in Spots'
      /\ typed' \in Seq({"symbol", "junk"}) /\ Len(typed') <= RoomIdSize
      /\ UNCHANGED <<page, fault>>
  BY <1>2, <1>4, <1>5, EditLine
<1>7. Line(RoomIdX, RoomIdY)'
  BY SMTT(30), <1>1, <1>6 DEF Line, RoomIdX, RoomIdY
<1> QED BY <1>6, <1>7 DEF Looking, TypedSize

\* The line for the room's id begins below the command, which is written already
LEMMA AskLooks ==
  ASSUME Roomy, screen \in Windows, Looking, page = "MAIN", UNCHANGED <<screen, typed>>,
         AskRoomId
  PROVE  Looking' /\ page' = "ROOM_ID"
<1>1. /\ page' = "ROOM_ID" /\ cursor' = RoomIdPlace(screen) /\ terminal' = RoomIdPlace(screen)
      /\ echo' = echo \union {cursor} /\ fault' = fault
  BY WindowHolds DEF AskRoomId, Draw, MoveTo, NoticesRoomy
<1>2. RoomIdPlace(screen) = <<RoomIdX, RoomIdY>>
  BY DEF RoomIdPlace, RoomIdX, RoomIdY, RoomIdLine
<1>3. /\ typed = <<>> /\ echo = {} /\ cursor = CommandPlace(MainCross(screen), screen)
  BY EmptySeq DEF Looking, TypedSize
<1>4. /\ RoomIdX \in 0 .. screen[1] /\ RoomIdY \in 0 .. screen[2] - 1
      /\ cursor \in Spots /\ cursor[2] # RoomIdY
  BY <1>3, Coordinates DEF RoomIdSize
<1>5. PICK x, y : x = RoomIdX /\ y = RoomIdY /\ x \in Nat /\ y \in Nat
  BY <1>4
<1>6. Line(x, y)'
  <2>1. cursor' = <<x + 0, y>> /\ echo' = {cursor} /\ cursor[2] # y /\ Len(typed') = 0
    BY <1>1, <1>2, <1>3, <1>4, <1>5
  <2>2. 1 .. 0 = {}
    OBVIOUS
  <2> QED BY <2>1, <2>2 DEF Line
<1>7. Line(RoomIdX, RoomIdY)'
  BY <1>5, <1>6 DEF Line, RoomIdX, RoomIdY
<1>8. cursor' \in Spots
  BY <1>1, <1>2, <1>4 DEF Spots
<1> QED BY <1>1, <1>3, <1>4, <1>7, <1>8 DEF Looking, PageNames, Early, TypedSize, Spots, RoomIdSize

-----------------------------------------------------------------------------
(* What is known. *)

LEMMA KnownSame ==
  ASSUME Known, UNCHANGED <<known, network>>, page' \in Early => page \in Early
  PROVE  Known'
  BY DEF Known, known, network

\* Before the game any list may arrive
LEMMA KnownEarly ==
  ASSUME Known, page \in Early, UNCHANGED <<screen, alive, place, network>>,
         rooms' \in Rooms \union {0}, players' \in Players \union {1}
  PROVE  Known'
<1>1. infos' = <<>> /\ alive' = 0 /\ pipe' = pipe
  BY DEF Known, network
<1>2. players' \in Nat \ {0}
  BY PagesAssumption
<1>3. alive' \in 0 .. players' - 1
  <2>1. \A n \in Nat \ {0} : 0 \in 0 .. n - 1 /\ n - 1 \in 0 .. n - 1
    OBVIOUS
  <2> QED BY <1>1, <1>2, <2>1
<1>4. Len(<<>>) = 0 /\ Infos \in Nat
  BY PagesAssumption
<1>5. infos' \in Seq([alive : 0 .. players' - 1, place : Places \union {<<>>}])
  BY <1>1
<1> QED BY <1>1, <1>3, <1>4, <1>5 DEF Known

\* The first description has everybody but the host in it
LEMMA KnownGame ==
  ASSUME Known, page \in Early, page' \notin Early, UNCHANGED <<screen, rooms, network>>,
         players' \in Players \union {1}, alive' = players' - 1, place' \in Places \union {<<>>}
  PROVE  Known'
<1>1. infos' = <<>> /\ pipe' = pipe
  BY DEF Known, network
<1>2. players' \in Nat \ {0}
  BY PagesAssumption
<1>3. alive' \in 0 .. players' - 1
  <2>1. \A n \in Nat \ {0} : 0 \in 0 .. n - 1 /\ n - 1 \in 0 .. n - 1
    OBVIOUS
  <2> QED BY <1>1, <1>2, <2>1
<1>4. Len(<<>>) = 0 /\ Infos \in Nat
  BY PagesAssumption
<1>5. infos' \in Seq([alive : 0 .. players' - 1, place : Places \union {<<>>}])
  BY <1>1
<1> QED BY <1>1, <1>3, <1>4, <1>5 DEF Known

-----------------------------------------------------------------------------
(* The steps. *)

LEMMA LookSame ==
  ASSUME Looking, UNCHANGED <<screen, page, typed, look, fault>>
  PROVE  Looking'
  BY DEF Looking, look, Line, LoginX, LoginY, RoomIdX, RoomIdY, Spots

\* Quit from any page
LEMMA QuitStep ==
  ASSUME IInv, Quit, UNCHANGED <<known, typed, network>>
  PROVE  IInv'
<1>1. UNCHANGED <<screen, typed>>
  BY DEF known
<1>2. Looking' /\ page' = "OUT"
  BY <1>1, QuitLooks DEF IInv
<1> QED BY <1>2, KnownSame DEF IInv, Early

LEMMA AnyKeyStep ==
  ASSUME Roomy, IInv, PressAnyKey
  PROVE  IInv'
<1>1. UNCHANGED <<known, typed, network>> /\ UNCHANGED screen
  BY DEF PressAnyKey, known
<1>2. CASE page = "WELCOME" /\ ShowLogin
  <2>1. typed = <<>>
    BY <1>2, EmptySeq DEF IInv, Looking, TypedSize
  <2>2. Looking' /\ page' = "LOGIN"
    BY <1>1, <1>2, <2>1, LoginLooks DEF IInv, Known
  <2> QED BY <1>1, <1>2, <2>2, KnownSame DEF IInv, Early
<1>3. CASE Quit
  BY <1>1, <1>3, QuitStep
<1> QED BY <1>2, <1>3 DEF PressAnyKey

LEMMA LoginStep ==
  ASSUME Roomy, IInv, Login
  PROVE  IInv'
<1>1. page = "LOGIN" /\ screen \in Windows /\ rooms \in Rooms \union {0}
  BY DEF Login, IInv, Known
<1>2. \/ Quit /\ UNCHANGED <<known, typed, network>>
      \/ \E c : LoginLetter(c)
  BY DEF Login, ReadLetter
<1>3. CASE Quit /\ UNCHANGED <<known, typed, network>>
  BY <1>3, QuitStep
<1>4. ASSUME NEW c, LoginLetter(c)
      PROVE  IInv'
  <2>1. CASE UNCHANGED <<typed, look, page, fault>> /\ UNCHANGED <<known, network>>
    <3>1. Looking'
      BY <2>1, LookSame DEF IInv, known
    <3> QED BY <2>1, <3>1, KnownSame DEF IInv
  <2>2. CASE Edit(c, MAX_LOGIN_SIZE, TRUE, LoginError(screen)) /\ UNCHANGED <<known, network>>
    <3>1. Looking' /\ page' = page
      BY <1>1, <2>2, EditLogin DEF IInv, known
    <3> QED BY <2>2, <3>1, KnownSame DEF IInv
  <2>3. CASE /\ typed' = <<>>
             /\ \/ \E number \in Rooms : rooms' = number /\ ShowMain(number, {})
                \/ Fail("server") /\ UNCHANGED rooms
             /\ UNCHANGED <<screen, players, alive, place, network>>
    <3>1. Looking' /\ rooms' \in Rooms \union {0}
      <4>1. CASE \E number \in Rooms : rooms' = number /\ ShowMain(number, {})
        BY <1>1, <2>3, <4>1, MainLooks DEF IInv
      <4>2. CASE Fail("server") /\ UNCHANGED rooms
        BY <1>1, <2>3, <4>2, FailLooks DEF IInv
      <4> QED BY <2>3, <4>1, <4>2
    <3>2. page \in Early /\ players' \in Players \union {1}
      BY <1>1, <2>3 DEF Early, IInv, Known
    <3> QED BY <2>3, <3>1, <3>2, KnownEarly DEF IInv
  <2> QED BY <1>4, <2>1, <2>2, <2>3 DEF LoginLetter
<1> QED BY <1>2, <1>3, <1>4

LEMMA MainStep ==
  ASSUME Roomy, IInv, Main
  PROVE  IInv'
<1>1. /\ page = "MAIN" /\ screen \in Windows /\ page \in Early /\ typed = <<>>
      /\ rooms \in Rooms \union {0} /\ players \in Players \union {1}
  BY EmptySeq DEF Main, IInv, Known, Early, Looking, TypedSize
<1>2. \/ Quit /\ UNCHANGED <<known, typed, network>>
      \/ \E c : MainLetter(c)
  BY DEF Main, ReadLetter
<1>3. CASE Quit /\ UNCHANGED <<known, typed, network>>
  BY <1>3, QuitStep
<1>4. ASSUME NEW c, MainLetter(c)
      PROVE  IInv'
  <2>1. UNCHANGED <<screen, alive, place, typed, network>> /\ UNCHANGED screen /\ typed' = <<>>
    BY <1>1, <1>4 DEF MainLetter
  <2>2. Fits(AtCursor, screen)
    <3>1. PICK x, y : cursor = <<x, y>> /\ x \in Nat /\ y \in Nat /\ x < screen[1] /\ y < screen[2]
      BY <1>1, Coordinates DEF IInv, Looking, Spots
    <3>2. x + 1 - 1 = x
      BY <3>1
    <3> QED BY <3>1, <3>2 DEF Fits, AtCursor, OnScreen, DrawString, DrawRectangle
  <2>3. CASE Refresh
    <3>1. Looking' /\ rooms' \in Rooms \union {0} /\ players' = players
      <4>1. CASE \E number \in Rooms : rooms' = number /\ ShowMain(number, {})
        BY <1>1, <2>1, <2>3, <4>1, MainLooks DEF IInv, Refresh
      <4>2. CASE Fail("server") /\ UNCHANGED rooms
        BY <1>1, <2>1, <2>3, <4>2, FailLooks DEF IInv, Refresh
      <4> QED BY <2>3, <4>1, <4>2 DEF Refresh
    <3> QED BY <1>1, <2>1, <3>1, KnownEarly DEF IInv
  <2>4. CASE AskRoomId
    <3>1. Looking'
      BY <1>1, <2>1, <2>4, AskLooks DEF IInv
    <3> QED BY <1>1, <2>1, <2>4, <3>1, KnownEarly DEF IInv, AskRoomId
  <2>5. CASE CreateRoom
    <3>1. Looking' /\ players' \in Players \union {1} /\ rooms' = rooms
      <4>1. CASE players' = 1 /\ ShowHost(1)
        BY <1>1, <2>1, <2>5, <4>1, HostLooks DEF IInv, CreateRoom
      <4>2. CASE FailOrKilled /\ UNCHANGED players
        BY <1>1, <2>1, <2>5, <4>2, FailOrKilledLooks DEF IInv, CreateRoom
      <4> QED BY <2>5, <4>1, <4>2 DEF CreateRoom
    <3> QED BY <1>1, <2>1, <3>1, KnownEarly DEF IInv
  <2>6. CASE Draw(MainError(screen), UNCHANGED <<look, page, fault>>) /\ UNCHANGED <<rooms, players>>
    <3>1. UNCHANGED <<look, page, fault>>
      BY <1>1, <2>6, WindowHolds DEF Draw, NoticesRoomy
    <3>2. Looking'
      BY <2>1, <3>1, LookSame DEF IInv
    <3> QED BY <1>1, <2>1, <2>6, <3>2, KnownEarly DEF IInv
  <2> QED BY <1>4, <2>2, <2>3, <2>4, <2>5, <2>6 DEF MainLetter
<1> QED BY <1>2, <1>3, <1>4

LEMMA RoomIdStep ==
  ASSUME Roomy, IInv, RoomId
  PROVE  IInv'
<1>1. /\ page = "ROOM_ID" /\ screen \in Windows /\ page \in Early
      /\ rooms \in Rooms \union {0} /\ players \in Players \union {1}
  BY DEF RoomId, IInv, Known, Early
<1>2. \/ Quit /\ UNCHANGED <<known, typed, network>>
      \/ \E c : RoomIdLetter(c)
  BY DEF RoomId, ReadLetter
<1>3. CASE Quit /\ UNCHANGED <<known, typed, network>>
  BY <1>3, QuitStep
<1>4. ASSUME NEW c, RoomIdLetter(c)
      PROVE  IInv'
  <2>1. CASE UNCHANGED <<typed, look, page, fault>> /\ UNCHANGED <<known, network>>
    <3>1. Looking'
      BY <2>1, LookSame DEF IInv, known
    <3> QED BY <2>1, <3>1, KnownSame DEF IInv
  <2>2. CASE Edit(c, RoomIdSize, FALSE, MainError(screen)) /\ UNCHANGED <<known, network>>
    <3>1. Looking' /\ page' = page
      BY <1>1, <2>2, EditRoomId DEF IInv, known
    <3> QED BY <2>2, <3>1, KnownSame DEF IInv
  <2>3. CASE /\ typed' = <<>>
             /\ \/ Fail("input") /\ UNCHANGED players
                \/ ShowMain(rooms, MainError(screen)) /\ UNCHANGED players
                \/ \E number \in Players : players' = number /\ ShowLobby(number)
                \/ FailOrKilled /\ UNCHANGED players
             /\ UNCHANGED <<screen, rooms, alive, place, network>>
    <3>1. Looking' /\ players' \in Players \union {1}
      <4>1. CASE Fail("input") /\ UNCHANGED players
        BY <1>1, <2>3, <4>1, FailLooks DEF IInv
      <4>2. CASE ShowMain(rooms, MainError(screen)) /\ UNCHANGED players
        <5>1. PICK number, error : number = rooms /\ error = MainError(screen)
          OBVIOUS
        <5>2. ShowMain(number, error)
          BY <4>2, <5>1 DEF ShowMain
        <5> QED BY <1>1, <2>3, <4>2, <5>1, <5>2, MainLooks DEF IInv
      <4>3. CASE \E number \in Players : players' = number /\ ShowLobby(number)
        BY <1>1, <2>3, <4>3, LobbyLooks DEF IInv
      <4>4. CASE FailOrKilled /\ UNCHANGED players
        BY <1>1, <2>3, <4>4, FailOrKilledLooks DEF IInv
      <4> QED BY <2>3, <4>1, <4>2, <4>3, <4>4
    <3> QED BY <1>1, <2>3, <3>1, KnownEarly DEF IInv
  <2> QED BY <1>4, <2>1, <2>2, <2>3 DEF RoomIdLetter
<1> QED BY <1>2, <1>3, <1>4

LEMMA LobbyStep ==
  ASSUME Roomy, IInv, Lobby
  PROVE  IInv'
<1>1. /\ page = "LOBBY" /\ screen \in Windows /\ page \in Early /\ typed = <<>>
      /\ rooms \in Rooms \union {0} /\ players \in Players \union {1}
      /\ UNCHANGED <<screen, rooms, typed, network>>
  BY EmptySeq DEF Lobby, IInv, Known, Early, Looking, TypedSize
<1>2. CASE /\ \E number \in Players : players' = number /\ ShowLobby(number)
           /\ UNCHANGED <<alive, place>>
  <2>1. Looking'
    BY <1>1, <1>2, LobbyLooks DEF IInv
  <2> QED BY <1>1, <1>2, <2>1, KnownEarly DEF IInv
<1>3. CASE (\E spot \in Places : BeginGame(players, spot)) /\ UNCHANGED players
  <2>1. PICK number \in Players \union {1} : number = players
    BY <1>1
  <2>2. PICK spot \in Places : alive' = number - 1 /\ place' = spot /\ ShowGame(number, spot)
    BY <1>3, <2>1 DEF BeginGame, ShowGame
  <2>3. Looking' /\ page' = "GAME"
    BY <1>1, <2>2, GameLooks DEF IInv
  <2>4. /\ page' \notin Early /\ players' \in Players \union {1}
        /\ alive' = players' - 1 /\ place' \in Places \union {<<>>}
    BY <1>1, <1>3, <2>1, <2>2, <2>3 DEF Early
  <2> QED BY <1>1, <2>3, <2>4, KnownGame DEF IInv
<1>4. CASE Fail("server") /\ UNCHANGED <<players, alive, place>>
  <2>1. Looking'
    BY <1>1, <1>4, FailLooks DEF IInv
  <2> QED BY <1>1, <1>4, <2>1, KnownEarly DEF IInv
<1> QED BY <1>2, <1>3, <1>4 DEF Lobby

LEMMA HostStep ==
  ASSUME Roomy, IInv, HostTurn
  PROVE  IInv'
<1>1. /\ page = "HOST" /\ screen \in Windows /\ page \in Early /\ typed = <<>> /\ typed' = <<>>
      /\ rooms \in Rooms \union {0}
      /\ UNCHANGED <<screen, rooms, typed, network>>
  BY EmptySeq DEF HostTurn, IInv, Known, Early, Looking, TypedSize
<1>2. PICK number \in Players \union {1} :
        /\ players' = number
        /\ \/ ShowHost(number) /\ UNCHANGED <<alive, place>>
           \/ Quit /\ UNCHANGED <<alive, place>>
           \/ \E c : HostLetter(c, number)
  BY DEF HostTurn, IInv, Known
<1>3. CASE ShowHost(number) /\ UNCHANGED <<alive, place>>
  <2>1. Looking'
    BY <1>1, <1>3, HostLooks DEF IInv
  <2> QED BY <1>1, <1>2, <1>3, <2>1, KnownEarly DEF IInv
<1>4. CASE Quit /\ UNCHANGED <<alive, place>>
  <2>1. Looking'
    BY <1>1, <1>4, QuitLooks DEF IInv
  <2> QED BY <1>1, <1>2, <1>4, <2>1, KnownEarly DEF IInv
<1>5. CASE HostStart(number)
  <2>1. CASE BeginGame(number, <<>>)
    <3>1. <<>> \in Places \union {<<>>}
      OBVIOUS
    <3>2. ShowGame(number, <<>>) /\ alive' = players' - 1 /\ place' \in Places \union {<<>>}
      BY <1>2, <2>1, <3>1 DEF BeginGame
    <3>3. Looking' /\ page' = "GAME"
      BY <1>1, <3>1, <3>2, GameLooks DEF IInv
    <3>4. page' \notin Early /\ players' \in Players \union {1}
      BY <1>2, <3>3 DEF Early
    <3> QED BY <1>1, <3>2, <3>3, <3>4, KnownGame DEF IInv
  <2>2. CASE Fail("server") /\ UNCHANGED <<alive, place>>
    <3>1. Looking'
      BY <1>1, <2>2, FailLooks DEF IInv
    <3> QED BY <1>1, <1>2, <2>2, <3>1, KnownEarly DEF IInv
  <2> QED BY <1>5, <2>1, <2>2 DEF HostStart
<1>6. CASE Draw(LobbyError(screen), ShowHost(number)) /\ UNCHANGED <<alive, place>>
  <2>1. ShowHost(number)
    BY <1>1, <1>6, WindowHolds DEF Draw, NoticesRoomy
  <2> QED BY <1>3, <1>6, <2>1
<1> QED BY <1>2, <1>3, <1>4, <1>5, <1>6 DEF HostLetter

(***************************************************************************)
(* What the server tells next has no more living players than the last.    *)
(***************************************************************************)
LEMMA InfoStep ==
  ASSUME IInv, ServerInfo
  PROVE  IInv'
<1> DEFINE I == [alive : 0 .. players - 1, place : Places \union {<<>>}]
<1>1. /\ UNCHANGED <<known, page, typed, look, pipe, fault>> /\ page = "GAME"
      /\ UNCHANGED <<screen, rooms, players, alive, place>>
  BY DEF ServerInfo, known
<1>2. infos \in Seq(I) /\ Len(infos) \in Nat /\ players \in Nat \ {0} /\ Infos \in Nat
  BY PagesAssumption DEF IInv, Known
<1>3. Told \in I
  <2>1. CASE infos = <<>>
    BY <2>1 DEF Told, IInv, Known
  <2>2. CASE infos # <<>>
    <3>1. Len(infos) # 0
      BY <1>2, <2>2, EmptySeq
    <3>2. infos[Len(infos)] \in I
      <4>1. Len(infos) \in 1 .. Len(infos)
        BY <1>2, <3>1
      <4> QED BY <1>2, <4>1, ElementOfSeq
    <3> QED BY <2>2, <3>2 DEF Told, Last
  <2> QED BY <2>1, <2>2
<1>4. PICK number \in Fewer(Told.alive), spot \in Places \union {<<>>} :
        infos' = Append(infos, [alive |-> number, place |-> spot])
  BY DEF ServerInfo
<1>5. number \in 0 .. players - 1
  <2>1. PICK most \in 0 .. players - 1 : most = Told.alive
    BY <1>3
  <2>2. number \in {0, 1, 2, most} /\ number <= most
    BY <1>4, <2>1 DEF Fewer
  <2> QED BY <1>2, <2>1, <2>2
<1>6. [alive |-> number, place |-> spot] \in I
  BY <1>4, <1>5
<1>7. infos' \in Seq(I) /\ Len(infos') = Len(infos) + 1
  BY <1>2, <1>4, <1>6, AppendProperties
<1>8. Len(infos') <= Infos
  BY <1>2, <1>7 DEF ServerInfo
<1>9. Looking'
  BY <1>1, LookSame DEF IInv
<1> QED BY <1>1, <1>7, <1>8, <1>9 DEF IInv, Known, Early

LEMMA GameStep ==
  ASSUME Roomy, IInv, GameTurn
  PROVE  IInv'
<1> DEFINE I == [alive : 0 .. players - 1, place : Places \union {<<>>}]
<1>1. /\ page = "GAME" /\ screen \in Windows /\ typed = <<>> /\ typed' = <<>>
      /\ players \in Players \union {1} /\ infos \in Seq(I)
      /\ UNCHANGED <<screen, rooms, players, typed>>
  BY EmptySeq DEF GameTurn, IInv, Known, Looking, TypedSize
<1>2. PICK info \in I :
        /\ alive' = info.alive /\ place' = info.place
        /\ infos' = IF infos = <<>> THEN infos ELSE Tail(infos)
        /\ \/ /\ Draw(DrawGameScreen(players, info.place, screen),
                      IF Finish(info.alive)
                      THEN ShowGoodbye
                      ELSE Show("GAME") /\ UNCHANGED <<cursor, terminal>>)
              /\ UNCHANGED pipe
           \/ Quit /\ UNCHANGED pipe
           \/ \E c : GameLetter(c)
  <2>1. CASE infos = <<>>
    <3>1. [alive |-> alive, place |-> place] \in I
      BY DEF IInv, Known
    <3> QED BY <2>1, <3>1 DEF GameTurn
  <2>2. CASE infos # <<>>
    <3>1. Head(infos) \in I
      BY <1>1, <2>2, HeadTailProperties
    <3> QED BY <2>2, <3>1 DEF GameTurn
  <2> QED BY <2>1, <2>2
<1>3. infos' \in Seq(I) /\ Len(infos') <= Infos
  <2>1. CASE infos = <<>>
    BY <1>1, <1>2, <2>1 DEF IInv, Known
  <2>2. CASE infos # <<>>
    <3>1. Tail(infos) \in Seq(I) /\ Len(Tail(infos)) = Len(infos) - 1
      BY <1>1, <2>2, HeadTailProperties
    <3>2. Len(infos) - 1 <= Infos
      BY <1>1, PagesAssumption DEF IInv, Known
    <3> QED BY <1>2, <2>2, <3>1, <3>2
  <2> QED BY <2>1, <2>2
<1>4. Looking' /\ page' \notin Early /\ pipe' \in {"open", "closed", "reset"}
  <2>1. CASE /\ Draw(DrawGameScreen(players, info.place, screen),
                     IF Finish(info.alive)
                     THEN ShowGoodbye
                     ELSE Show("GAME") /\ UNCHANGED <<cursor, terminal>>)
             /\ UNCHANGED pipe
    <3>1. Fits(DrawGameScreen(players, info.place, screen), screen)
      BY <1>1, <1>2, WindowHolds DEF GameRoomy
    <3>2. Fits(DrawGoodbyeScreen(screen), screen)
      BY <1>1, WindowHolds DEF NoticesRoomy
    <3>3. /\ page' \in {"GAME", "GOODBYE"} /\ echo' = {} /\ fault' = fault
          /\ UNCHANGED <<cursor, terminal, pipe>>
      BY <2>1, <3>1, <3>2 DEF Draw, ShowGoodbye, Show
    <3> QED BY <1>1, <3>3 DEF IInv, Known, Looking, PageNames, Early, TypedSize, Spots
  <2>2. CASE Quit /\ UNCHANGED pipe
    <3>1. Looking' /\ page' = "OUT"
      BY <1>1, <2>2, QuitLooks DEF IInv
    <3> QED BY <2>2, <3>1 DEF Early, IInv, Known
  <2>3. ASSUME NEW c, GameLetter(c)
        PROVE  Looking' /\ page' \notin Early /\ pipe' \in {"open", "closed", "reset"}
    <3>1. /\ page' \in {"GAME", "KILLED"} /\ echo' = {} /\ UNCHANGED <<cursor, terminal, fault>>
      BY <2>3 DEF GameLetter
    <3>2. pipe' \in {"open", "closed", "reset"}
      BY <2>3 DEF GameLetter, IInv, Known
    <3> QED BY <1>1, <3>1, <3>2 DEF IInv, Looking, PageNames, Early, TypedSize, Spots
  <2> QED BY <1>2, <2>1, <2>2, <2>3
<1>5. alive' \in 0 .. players' - 1 /\ place' \in Places \union {<<>>}
  BY <1>1, <1>2
<1> QED BY <1>1, <1>3, <1>4, <1>5 DEF IInv, Known

LEMMA OutsideStep ==
  ASSUME IInv, ServerLeaves \/ \E key \in Keys : Press(key)
  PROVE  IInv'
<1>1. /\ UNCHANGED <<page, typed, look, infos, fault>>
      /\ UNCHANGED <<screen, rooms, players, alive, place>>
  BY DEF ServerLeaves, Press, known, network
<1>2. pipe' \in {"open", "closed", "reset"}
  BY DEF ServerLeaves, Press, network, IInv, Known
<1>3. Looking'
  BY <1>1, LookSame DEF IInv
<1> QED BY <1>1, <1>2, <1>3 DEF IInv, Known

-----------------------------------------------------------------------------
(* The theorems. *)

LEMMA InitIInv ==
  ASSUME Roomy, Init
  PROVE  IInv
<1>1. screen \in Windows /\ page = "WELCOME" /\ fault = "none"
  BY WindowHolds DEF Init, NoticesRoomy
<1>2. screen[1] \in Nat /\ screen[2] \in Nat /\ screen[1] >= 76 /\ screen[2] >= 24
  BY <1>1, WindowHolds DEF LinesRoomy
<1>3. <<0, 0>> \in Spots
  BY <1>2 DEF Spots
<1>4. Looking
  BY <1>1, <1>3 DEF Init, Looking, PageNames, Early, TypedSize
<1>5. Known
  <2>1. Len(<<>>) = 0 /\ Infos \in Nat /\ 0 \in 0 .. 1 - 1
    BY PagesAssumption
  <2> QED BY <1>1, <2>1 DEF Init, Known
<1> QED BY <1>4, <1>5 DEF IInv

(***************************************************************************)
(* The inductive invariant of what is known and what is shown: Run goes    *)
(* from page to page without leaving it.                                   *)
(***************************************************************************)
THEOREM Invariance ==
  ASSUME Roomy
  PROVE  Spec => []IInv
<1>1. Init => IInv
  BY InitIInv
<1>2. IInv /\ [Next]_vars => IInv'
  <2>1. SUFFICES ASSUME IInv, [Next]_vars
                 PROVE  IInv'
    OBVIOUS
  <2>2. CASE UNCHANGED vars
    <3>1. UNCHANGED <<known, page, typed, look, network, fault>> /\ UNCHANGED screen
      BY <2>2 DEF vars, known
    <3>2. Looking'
      BY <2>1, <3>1, LookSame DEF IInv
    <3> QED BY <2>1, <3>1, <3>2, KnownSame DEF IInv
  <2>3. CASE Next
    BY <2>1, <2>3, AnyKeyStep, LoginStep, MainStep, RoomIdStep, LobbyStep, HostStep, InfoStep,
       GameStep, OutsideStep DEF Next, Reading
  <2> QED BY <2>1, <2>2, <2>3
<1> QED BY <1>1, <1>2, PTL DEF Spec

(***************************************************************************)
(* The variables have their types: in particular both cursors and every    *)
(* typed symbol are in the window, and no more is typed than ReadWrite-    *)
(* Cursor is asked for.                                                    *)
(***************************************************************************)
THEOREM TypeCorrect ==
  ASSUME Roomy
  PROVE  Spec => []TypeOK
<1>1. IInv => TypeOK
  <2>1. SUFFICES ASSUME IInv
                 PROVE  TypeOK
    OBVIOUS
  <2>2. page \in AnyKeyPages \union
          {"LOGIN", "MAIN", "ROOM_ID", "LOBBY", "HOST", "GAME", "OUT", "KILLED"}
    BY <2>1 DEF IInv, Looking, PageNames, Early, AnyKeyPages
  <2>3. \A spot \in echo \union {cursor, terminal} :
          spot \in (0 .. screen[1]) \X (0 .. screen[2] - 1)
    BY <2>1 DEF IInv, Looking, Spots
  <2>4. Len(typed) <= (CASE page = "LOGIN" -> MAX_LOGIN_SIZE [] page = "ROOM_ID" -> RoomIdSize
                         [] page \in {"OUT", "ERROR"} -> Bigger(MAX_LOGIN_SIZE, RoomIdSize)
                         [] OTHER -> 0)
    BY <2>1 DEF IInv, Looking, TypedSize
  <2> QED BY <2>1, <2>2, <2>3, <2>4 DEF TypeOK, IInv, Known, Looking
<1> QED BY <1>1, Invariance, PTL

(***************************************************************************)
(* Nothing that the client draws leaves a roomy window, also not what it   *)
(* writes at the cursor or, when its player dies, the whole map: no        *)
(* exception of Painter::Set ends the program.                             *)
(***************************************************************************)
THEOREM NothingOutside ==
  ASSUME Roomy
  PROVE  Spec => []ScreenHolds
<1>1. IInv => ScreenHolds
  BY DEF IInv, Looking, ScreenHolds
<1> QED BY <1>1, Invariance, PTL

(***************************************************************************)
(* Painter's cursor and the terminal's agree where something is typed, and *)
(* the line shows what was typed, after every sequence of edits.           *)
(***************************************************************************)
THEOREM LineFollows ==
  ASSUME Roomy
  PROVE  Spec => []CursorFollows
<1>1. IInv => CursorFollows
  <2>1. SUFFICES ASSUME IInv
                 PROVE  CursorFollows
    OBVIOUS
  <2>2. ASSUME page = "LOGIN"
        PROVE  Line(GetHorizontalCoord(300, screen), GetVerticalCoord(520, screen))
    BY <2>1, <2>2 DEF IInv, Looking, LoginX, LoginY
  <2>3. ASSUME page = "ROOM_ID"
        PROVE  Line(RoomIdPlace(screen)[1], RoomIdPlace(screen)[2])
    <3>1. RoomIdPlace(screen)[1] = RoomIdX /\ RoomIdPlace(screen)[2] = RoomIdY
      BY DEF RoomIdPlace, RoomIdX, RoomIdY, RoomIdLine
    <3> QED BY <2>1, <2>3, <3>1 DEF IInv, Looking
  <2>4. page \in {"LOGIN", "MAIN", "ROOM_ID", "HOST"} => terminal = cursor
    BY <2>1 DEF IInv, Looking
  <2> QED BY <2>2, <2>3, <2>4 DEF CursorFollows, Line
<1> QED BY <1>1, Invariance, PTL

-----------------------------------------------------------------------------
(* The keys.  An escape alone looks like the beginning of another key, and *)
(* a modified one has more bytes than ParseLetter takes: without these,    *)
(* and with keys of one byte where any key is asked for, the input always  *)
(* is a row of whole keys.                                                 *)

EscapeKeys == {"UP", "RIGHT", "DELETE", "PAGE_DOWN", "F1"}

WholeKeys ==
  /\ Keys \intersect {"SHIFT_UP", "ESCAPE", "esc"} = {}
  /\ AnyKeys \intersect EscapeKeys = {}

Bytes == Keys \union {"esc", "[", "A", "C", "3", "6", "~", "O", "P"}

Size(key) == Len(KeyBytes(key))

\* Where the keys end: end[i] bytes are those of the first i keys
Cut(end) ==
  /\ end \in [0 .. Len(keys) -> Nat]
  /\ end[0] = 0 /\ end[Len(keys)] = Len(input)
  /\ \A i, j \in 0 .. Len(keys) : i <= j => end[i] <= end[j]
  /\ \A i \in 1 .. Len(keys) :
       /\ end[i] = end[i - 1] + Size(keys[i])
       /\ \A j \in 1 .. Size(keys[i]) : input[end[i - 1] + j] = KeyBytes(keys[i])[j]

Row ==
  /\ keys \in Seq(Keys) /\ input \in Seq(Bytes)
  /\ \E end : Cut(end)

WholeRow ==
  page \notin {"OUT", "KILLED"} =>
    /\ Row
    /\ page = "WELCOME" => \A i \in 1 .. Len(keys) : keys[i] \in AnyKeys

LEMMA KeySizes ==
  ASSUME WholeKeys, NEW key \in Keys
  PROVE  /\ KeyBytes(key) \in Seq(Bytes)
         /\ Size(key) \in Nat /\ Size(key) >= 1
         /\ key \notin EscapeKeys => Size(key) = 1
         /\ key \in EscapeKeys => Size(key) >= 3
<1>1. CASE key \in {"UP", "RIGHT", "F1"}
  <2>1. PICK a \in Bytes, b \in Bytes : KeyBytes(key) = <<"esc", a, b>>
    BY <1>1 DEF KeyBytes, Bytes
  <2>2. <<"esc", a, b>> \in Seq(Bytes) /\ Len(<<"esc", a, b>>) = 3
    BY DEF Bytes
  <2> QED BY <1>1, <2>1, <2>2 DEF Size, EscapeKeys
<1>2. CASE key \in {"DELETE", "PAGE_DOWN"}
  <2>1. PICK a \in Bytes, b \in Bytes, c \in Bytes : KeyBytes(key) = <<"esc", a, b, c>>
    BY <1>2 DEF KeyBytes, Bytes
  <2>2. <<"esc", a, b, c>> \in Seq(Bytes) /\ Len(<<"esc", a, b, c>>) = 4
    BY DEF Bytes
  <2> QED BY <1>2, <2>1, <2>2 DEF Size, EscapeKeys
<1>3. CASE key \notin EscapeKeys
  <2>1. KeyBytes(key) = <<key>>
    BY <1>3 DEF KeyBytes, WholeKeys, EscapeKeys
  <2>2. <<key>> \in Seq(Bytes) /\ Len(<<key>>) = 1
    BY DEF Bytes
  <2> QED BY <1>3, <2>1, <2>2 DEF Size
<1> QED BY <1>1, <1>2, <1>3 DEF EscapeKeys

\* ParseLetter takes a key from the input that begins with it
LEMMA WholeKey ==
  ASSUME WholeKeys, NEW key \in Keys, NEW bytes \in Seq(Bytes),
         Size(key) <= Len(bytes),
         \A j \in 1 .. Size(key) : bytes[j] = KeyBytes(key)[j]
  PROVE  ParseLetter(bytes).used = Size(key)
<1>0. Len(bytes) \in Nat
  OBVIOUS
<1>1. CASE key \in {"UP", "RIGHT", "F1"}
  <2>1. PICK a, b : /\ KeyBytes(key) = <<"esc", a, b>>
                    /\ a # "[" \/ (a = "[" /\ b \notin Digits)
    <3>1. CASE key = "UP"
      BY <3>1 DEF KeyBytes, Digits
    <3>2. CASE key = "RIGHT"
      BY <3>2 DEF KeyBytes, Digits
    <3>3. CASE key = "F1"
      BY <3>3 DEF KeyBytes
    <3> QED BY <1>1, <3>1, <3>2, <3>3
  <2>2. Size(key) = 3
    BY <2>1 DEF Size
  <2>3. bytes[1] = "esc" /\ bytes[2] = a /\ bytes[3] = b
    BY <2>1, <2>2
  <2>4. ParseSequence(bytes).used = 3
    BY <1>0, <2>1, <2>2, <2>3 DEF ParseSequence, Letter
  <2>5. ParseLetter(bytes) = ParseSequence(bytes)
    BY <2>3 DEF ParseLetter
  <2> QED BY <2>2, <2>4, <2>5
<1>2. CASE key \in {"DELETE", "PAGE_DOWN"}
  <2>1. PICK a, b : KeyBytes(key) = <<"esc", "[", a, b>> /\ a \in Digits
    BY <1>2 DEF KeyBytes, Digits
  <2>2. Size(key) = 4
    BY <2>1 DEF Size
  <2>3. bytes[1] = "esc" /\ bytes[2] = "[" /\ bytes[3] = a
    BY <2>1, <2>2
  <2>4. ParseSequence(bytes).used = 4
    <3>1. Len(bytes) >= 3 /\ ~(Len(bytes) < 3) /\ Len(bytes) # 3
      BY <1>0, <2>2
    <3> QED BY <2>1, <2>3, <3>1 DEF ParseSequence, Letter
  <2>5. ParseLetter(bytes) = ParseSequence(bytes)
    BY <2>3 DEF ParseLetter
  <2> QED BY <2>2, <2>4, <2>5
<1>3. CASE key \notin EscapeKeys
  <2>1. KeyBytes(key) = <<key>> /\ key # "esc"
    BY <1>3 DEF KeyBytes, WholeKeys, EscapeKeys
  <2>2. Size(key) = 1 /\ bytes[1] = key
    BY <2>1 DEF Size
  <2> QED BY <2>1, <2>2 DEF ParseLetter, Letter
<1> QED BY <1>1, <1>2, <1>3 DEF EscapeKeys

-----------------------------------------------------------------------------
(* A key comes and a key goes.                                             *)

\* A key that is not pressed any more leaves the others as they are
LEMMA RowShrinks ==
  ASSUME WholeKeys, Row, keys # <<>>, NEW used, used = Size(keys[1]), Take(used)
  PROVE  /\ Row'
         /\ Len(keys') = Len(keys) - 1
         /\ \A i \in 1 .. Len(keys') : keys'[i] = keys[i + 1]
<1>1. PICK end : Cut(end)
  BY DEF Row
<1>2. /\ keys \in Seq(Keys) /\ input \in Seq(Bytes)
      /\ Len(keys) \in Nat \ {0} /\ Len(input) \in Nat
  BY EmptySeq DEF Row
<1>3. /\ keys' \in Seq(Keys) /\ Len(keys') = Len(keys) - 1
      /\ \A i \in 1 .. Len(keys') : keys'[i] = keys[i + 1]
  BY <1>2, HeadTailProperties DEF Take
<1>4. /\ end \in [0 .. Len(keys) -> Nat]
      /\ end[0] = 0 /\ end[Len(keys)] = Len(input)
      /\ \A i, j \in 0 .. Len(keys) : i <= j => end[i] <= end[j]
      /\ \A i \in 1 .. Len(keys) :
           /\ end[i] = end[i - 1] + Size(keys[i])
           /\ \A j \in 1 .. Size(keys[i]) : input[end[i - 1] + j] = KeyBytes(keys[i])[j]
  BY <1>1 DEF Cut
<1>5. \A i \in 1 .. Len(keys) : keys[i] \in Keys /\ Size(keys[i]) \in Nat
  <2> TAKE i \in 1 .. Len(keys)
  <2>1. keys[i] \in Keys
    BY <1>2, ElementOfSeq
  <2> QED BY <2>1, KeySizes
<1>6. end[1] = used /\ used \in Nat /\ used <= Len(input)
  BY <1>2, <1>4, <1>5
<1>7. \A i \in used + 1 .. Len(input) : input[i] \in Bytes
  BY <1>2, <1>6, ElementOfSeq
<1>8. /\ input' \in Seq(Bytes) /\ Len(input') = Len(input) - used
      /\ \A i \in 1 .. Len(input) - used : input'[i] = input[used + i]
  <2>1. input' = SubSeq(input, used + 1, Len(input)) /\ used + 1 \in Int
    BY <1>6 DEF Take
  <2>2. /\ SubSeq(input, used + 1, Len(input)) \in Seq(Bytes)
        /\ Len(SubSeq(input, used + 1, Len(input))) =
             IF used + 1 <= Len(input) THEN Len(input) - (used + 1) + 1 ELSE 0
        /\ \A i \in 1 .. Len(input) - (used + 1) + 1 :
             SubSeq(input, used + 1, Len(input))[i] = input[used + 1 + i - 1]
    BY <1>2, <1>7, <2>1, SubSeqProperties
  <2>3. Len(input') = Len(input) - used
    BY <1>2, <1>6, <2>1, <2>2
  <2>4. ASSUME NEW i \in 1 .. Len(input) - used
        PROVE  input'[i] = input[used + i]
    <3>1. i \in 1 .. Len(input) - (used + 1) + 1 /\ used + 1 + i - 1 = used + i
      BY <1>2, <1>6
    <3> QED BY <2>1, <2>2, <3>1
  <2> QED BY <2>1, <2>2, <2>3, <2>4
<1>9. PICK n \in Nat : n = Len(keys')
  BY <1>2, <1>3
<1>10. ASSUME NEW i \in 0 .. n
       PROVE  i + 1 \in 1 .. Len(keys) /\ end[i + 1] \in Nat /\ used <= end[i + 1]
  <2>1. i + 1 \in 1 .. Len(keys) /\ i + 1 \in 0 .. Len(keys) /\ 1 \in 0 .. Len(keys)
    BY <1>2, <1>3, <1>9
  <2>2. end[1] <= end[i + 1]
    BY <1>4, <2>1
  <2> QED BY <1>4, <1>6, <2>1, <2>2
<1>11. PICK rest \in [0 .. n -> Nat] : \A i \in 0 .. n : rest[i] = end[i + 1] - used
  <2>1. \A i \in 0 .. n : end[i + 1] - used \in Nat
    BY <1>6, <1>10
  <2> DEFINE f == [i \in 0 .. n |-> end[i + 1] - used]
  <2>2. f \in [0 .. n -> Nat] /\ \A i \in 0 .. n : f[i] = end[i + 1] - used
    BY <2>1
  <2> QED BY <2>2
<1>12. Cut(rest)'
  <2>2. rest[0] = 0 /\ rest[n] = Len(input')
    <3>1. 0 \in 0 .. n /\ n \in 0 .. n /\ n + 1 = Len(keys) /\ 0 + 1 = 1
      BY <1>2, <1>3, <1>9
    <3>2. rest[0] = end[1] - used /\ rest[n] = end[Len(keys)] - used
      BY <1>11, <3>1
    <3> QED BY <1>4, <1>6, <1>8, <3>2
  <2>3. ASSUME NEW i \in 0 .. n, NEW j \in 0 .. n, i <= j
        PROVE  rest[i] <= rest[j]
    <3>1. i + 1 \in 0 .. Len(keys) /\ j + 1 \in 0 .. Len(keys) /\ i + 1 <= j + 1
      BY <1>10, <2>3
    <3>2. end[i + 1] <= end[j + 1]
      BY <1>4, <3>1
    <3> QED BY SMTT(30), <1>6, <1>10, <1>11, <3>2
  <2>4. ASSUME NEW i \in 1 .. n
        PROVE  /\ rest[i] = rest[i - 1] + Size(keys'[i])
               /\ \A j \in 1 .. Size(keys'[i]) :
                    input'[rest[i - 1] + j] = KeyBytes(keys'[i])[j]
    <3>1. /\ i + 1 \in 1 .. Len(keys) /\ i \in 0 .. n /\ i - 1 \in 0 .. n
          /\ (i - 1) + 1 = i /\ (i + 1) - 1 = i
      BY <1>10
    <3>2. rest[i] = end[i + 1] - used /\ rest[i - 1] = end[i] - used /\ keys'[i] = keys[i + 1]
      BY <1>3, <1>9, <1>11, <3>1
    <3>3. end[i] \in Nat /\ used <= end[i] /\ end[i + 1] \in Nat
      BY <1>10, <3>1
    <3>4. /\ end[i + 1] = end[i] + Size(keys[i + 1]) /\ Size(keys[i + 1]) \in Nat
          /\ \A j \in 1 .. Size(keys[i + 1]) : input[end[i] + j] = KeyBytes(keys[i + 1])[j]
      BY <1>4, <1>5, <3>1
    <3>5. end[i + 1] <= Len(input)
      BY <1>2, <1>4, <1>10, <3>1
    <3>6. ASSUME NEW j \in 1 .. Size(keys'[i])
          PROVE  input'[rest[i - 1] + j] = KeyBytes(keys'[i])[j]
      <4>1. PICK k \in Nat : k = rest[i - 1] + j
        BY <1>6, <3>2, <3>3, <3>4
      <4>2. k \in 1 .. Len(input) - used /\ used + k = end[i] + j
        <5>1. j \in Nat /\ 1 <= j /\ j <= Size(keys[i + 1])
          BY <3>2, <3>4
        <5>2. k = end[i] - used + j /\ end[i] + j <= Len(input)
          BY SMTT(30), <1>2, <3>2, <3>3, <3>4, <3>5, <4>1, <5>1
        <5>3. \A u, e, x, l \in Nat :
                u <= e /\ 1 <= x /\ e + x <= l =>
                  e - u + x \in 1 .. l - u /\ u + (e - u + x) = e + x
          OBVIOUS
        <5>4. used \in Nat /\ end[i] \in Nat /\ Len(input) \in Nat /\ used <= end[i]
          BY <1>2, <1>6, <3>3
        <5>5. end[i] - used + j \in 1 .. Len(input) - used
          BY <5>1, <5>2, <5>3, <5>4
        <5>6. used + (end[i] - used + j) = end[i] + j
          BY SMTT(30), <5>1, <5>2, <5>3, <5>4
        <5> QED BY <5>2, <5>5, <5>6
      <4>3. input'[k] = input[end[i] + j]
        BY <1>8, <4>2
      <4> QED BY <3>2, <3>4, <4>1, <4>3
    <3> QED BY SMTT(30), <1>6, <3>2, <3>3, <3>4, <3>6
  <2> QED BY <1>9, <1>11, <2>2, <2>3, <2>4 DEF Cut
<1>13. Row'
  BY <1>3, <1>8, <1>12 DEF Row
<1> QED BY <1>3, <1>13

LEMMA RowGrows ==
  ASSUME WholeKeys, Row, NEW key \in Keys,
         input' = input \o KeyBytes(key), keys' = Append(keys, key)
  PROVE  /\ Row'
         /\ Len(keys') = Len(keys) + 1 /\ keys'[Len(keys) + 1] = key
         /\ \A i \in 1 .. Len(keys) : keys'[i] = keys[i]
<1>1. PICK end : Cut(end)
  BY DEF Row
<1>2. /\ keys \in Seq(Keys) /\ input \in Seq(Bytes)
      /\ Len(keys) \in Nat /\ Len(input) \in Nat
      /\ KeyBytes(key) \in Seq(Bytes) /\ Size(key) \in Nat
  BY KeySizes DEF Row
<1>3. /\ keys' \in Seq(Keys) /\ Len(keys') = Len(keys) + 1 /\ keys'[Len(keys) + 1] = key
      /\ \A i \in 1 .. Len(keys) : keys'[i] = keys[i]
  BY <1>2, AppendProperties
<1>4. /\ end \in [0 .. Len(keys) -> Nat]
      /\ end[0] = 0 /\ end[Len(keys)] = Len(input)
      /\ \A i, j \in 0 .. Len(keys) : i <= j => end[i] <= end[j]
      /\ \A i \in 1 .. Len(keys) :
           /\ end[i] = end[i - 1] + Size(keys[i])
           /\ \A j \in 1 .. Size(keys[i]) : input[end[i - 1] + j] = KeyBytes(keys[i])[j]
  BY <1>1 DEF Cut
<1>5. /\ input' \in Seq(Bytes) /\ Len(input') = Len(input) + Size(key)
      /\ \A i \in 1 .. Len(input) : input'[i] = input[i]
      /\ \A j \in 1 .. Size(key) : input'[Len(input) + j] = KeyBytes(key)[j]
  <2>1. /\ input' \in Seq(Bytes) /\ Len(input') = Len(input) + Size(key)
        /\ \A i \in 1 .. Len(input) + Size(key) :
             input'[i] = IF i <= Len(input) THEN input[i] ELSE KeyBytes(key)[i - Len(input)]
    BY <1>2, ConcatProperties DEF Size
  <2>2. \A i \in 1 .. Len(input) : i \in 1 .. Len(input) + Size(key) /\ i <= Len(input)
    BY <1>2
  <2>3. \A j \in 1 .. Size(key) : /\ Len(input) + j \in 1 .. Len(input) + Size(key)
                                  /\ ~(Len(input) + j <= Len(input))
                                  /\ Len(input) + j - Len(input) = j
    BY <1>2
  <2> QED BY <2>1, <2>2, <2>3
<1>6. PICK n \in Nat : n = Len(keys)
  BY <1>2
<1>7. PICK more \in [0 .. n + 1 -> Nat] :
        (\A i \in 0 .. n : more[i] = end[i]) /\ more[n + 1] = end[n] + Size(key)
  <2> DEFINE f == [i \in 0 .. n + 1 |-> IF i = n + 1 THEN end[n] + Size(key) ELSE end[i]]
  <2>1. end[n] + Size(key) \in Nat /\ \A i \in 0 .. n : end[i] \in Nat /\ i # n + 1
    <3>1. \A i \in 0 .. n : i # n + 1
      OBVIOUS
    <3>2. \A i \in 0 .. n : end[i] \in Nat
      BY <1>4, <1>6
    <3>3. n \in 0 .. n
      OBVIOUS
    <3> QED BY <1>2, <3>1, <3>2, <3>3
  <2>2. f \in [0 .. n + 1 -> Nat]
    <3>1. \A i \in 0 .. n + 1 : i = n + 1 \/ i \in 0 .. n
      OBVIOUS
    <3> QED BY <2>1, <3>1
  <2>3. (\A i \in 0 .. n : f[i] = end[i]) /\ f[n + 1] = end[n] + Size(key)
    BY <2>1
  <2> QED BY <2>2, <2>3
<1>8. Cut(more)'
  <2>1. Len(keys') = n + 1 /\ end[n] = Len(input) /\ n \in 0 .. n /\ 0 \in 0 .. n
    BY <1>3, <1>4, <1>6
  <2>2. more[0] = 0 /\ more[n + 1] = Len(input')
    BY <1>4, <1>5, <1>7, <2>1
  <2>3. ASSUME NEW i \in 0 .. n + 1, NEW j \in 0 .. n + 1, i <= j
        PROVE  more[i] <= more[j]
    <3>1. CASE j \in 0 .. n
      <4>1. i \in 0 .. n
        BY <2>3, <3>1
      <4> QED BY <1>4, <1>6, <1>7, <2>3, <3>1, <4>1
    <3>2. CASE j = n + 1 /\ i \in 0 .. n
      <4>1. end[i] <= end[n] /\ more[i] = end[i]
        BY <1>4, <1>6, <1>7, <2>1, <3>2
      <4>2. end[i] \in Nat /\ end[n] \in Nat
        BY <1>4, <1>6, <2>1, <3>2
      <4> QED BY <1>2, <1>7, <3>2, <4>1, <4>2
    <3>3. CASE j = n + 1 /\ i = n + 1
      BY <3>3
    <3> QED BY <3>1, <3>2, <3>3
  <2>4. ASSUME NEW i \in 1 .. n + 1
        PROVE  /\ more[i] = more[i - 1] + Size(keys'[i])
               /\ \A j \in 1 .. Size(keys'[i]) :
                    input'[more[i - 1] + j] = KeyBytes(keys'[i])[j]
    <3>1. CASE i = n + 1
      <4>1. more[i - 1] = Len(input) /\ keys'[i] = key /\ more[i] = Len(input) + Size(key)
        BY <1>3, <1>6, <1>7, <2>1, <3>1
      <4> QED BY <1>5, <4>1
    <3>2. CASE i \in 1 .. n
      <4>1. i \in 0 .. n /\ i - 1 \in 0 .. n /\ n \in 0 .. n /\ i <= n
        BY <3>2
      <4>2. keys'[i] = keys[i] /\ more[i] = end[i] /\ more[i - 1] = end[i - 1]
        BY <1>3, <1>6, <1>7, <3>2, <4>1
      <4>3. /\ end[i] = end[i - 1] + Size(keys[i])
            /\ \A j \in 1 .. Size(keys[i]) : input[end[i - 1] + j] = KeyBytes(keys[i])[j]
        BY <1>4, <1>6, <3>2
      <4>4. end[i] <= Len(input) /\ end[i - 1] \in Nat /\ Size(keys[i]) \in Nat
        <5>1. keys[i] \in Keys
          BY <1>2, <1>6, <3>2, ElementOfSeq
        <5>2. Size(keys[i]) \in Nat
          BY <5>1, KeySizes
        <5> QED BY <1>4, <1>6, <4>1, <5>2
      <4>5. ASSUME NEW j \in 1 .. Size(keys'[i])
            PROVE  input'[more[i - 1] + j] = KeyBytes(keys'[i])[j]
        <5>1. j \in 1 .. Size(keys[i])
          BY <4>2
        <5>2. PICK k : k = end[i - 1] + j
          OBVIOUS
        <5>3. k \in 1 .. Len(input)
          <6>1. \A e, s, l \in Nat : \A x \in 1 .. s : e + s <= l => e + x \in 1 .. l
            OBVIOUS
          <6>2. end[i - 1] + Size(keys[i]) <= Len(input)
            BY <4>3, <4>4
          <6> QED BY <1>2, <4>4, <5>1, <5>2, <6>1, <6>2
        <5>4. input'[k] = input[k]
          BY <1>5, <5>3
        <5>5. input[k] = KeyBytes(keys[i])[j]
          BY <4>3, <5>1, <5>2
        <5> QED BY <4>2, <5>2, <5>4, <5>5
      <4> QED BY <4>2, <4>3, <4>5
    <3>3. i = n + 1 \/ i \in 1 .. n
      OBVIOUS
    <3> QED BY <3>1, <3>2, <3>3, Zenon
  <2> QED BY <1>7, <2>1, <2>2, <2>3, <2>4 DEF Cut
<1>9. Row'
  BY <1>3, <1>5, <1>8 DEF Row
<1> QED BY <1>3, <1>9

\* With the first key goes what ParseLetter takes, and where any key will do it is one byte
LEMMA FirstKey ==
  ASSUME WholeKeys, Row, input # <<>>
  PROVE  /\ keys # <<>> /\ keys[1] \in Keys
         /\ ParseLetter(input).used = Size(keys[1])
<1>1. PICK end : Cut(end)
  BY DEF Row
<1>2. keys \in Seq(Keys) /\ input \in Seq(Bytes) /\ Len(input) \in Nat \ {0}
  BY EmptySeq DEF Row
<1>3. keys # <<>> /\ Len(keys) \in Nat \ {0}
  <2>1. end[0] = 0 /\ end[Len(keys)] = Len(input)
    BY <1>1 DEF Cut
  <2>2. Len(keys) # 0 /\ Len(keys) \in Nat
    BY <1>2, <2>1
  <2> QED BY <1>2, <2>2, EmptySeq
<1>4. 1 \in 1 .. Len(keys) /\ 1 - 1 = 0 /\ 1 \in 0 .. Len(keys) /\ Len(keys) \in 0 .. Len(keys)
      /\ 1 <= Len(keys)
  BY <1>3
<1>5. keys[1] \in Keys
  BY <1>2, <1>4, ElementOfSeq
<1>6. Size(keys[1]) \in Nat
  BY <1>5, KeySizes
<1>7. end[1] = end[0] + Size(keys[1]) /\ end[0] = 0 /\ end[1] <= end[Len(keys)]
      /\ end[Len(keys)] = Len(input)
      /\ \A j \in 1 .. Size(keys[1]) : input[end[0] + j] = KeyBytes(keys[1])[j]
  BY <1>1, <1>4 DEF Cut
<1>8. Size(keys[1]) <= Len(input)
  BY <1>6, <1>7
<1>9. \A j \in 1 .. Size(keys[1]) : input[j] = KeyBytes(keys[1])[j]
  <2>1. \A j \in 1 .. Size(keys[1]) : end[0] + j = j
    BY <1>6, <1>7
  <2> QED BY <1>7, <2>1
<1> QED BY <1>2, <1>3, <1>5, <1>8, <1>9, WholeKey

-----------------------------------------------------------------------------
(* The steps.                                                              *)

\* Nothing leads back to the first page
LEMMA LetterAway ==
  ASSUME page # "WELCOME", NEW c, NEW number,
         LoginLetter(c) \/ MainLetter(c) \/ RoomIdLetter(c) \/ HostLetter(c, number)
         \/ GameLetter(c)
  PROVE  page' # "WELCOME"
<1> USE DEF Draw, Show, Fail, FailOrKilled
<1>1. CASE LoginLetter(c)
  BY <1>1 DEF LoginLetter, Edit, ShowMain
<1>2. CASE MainLetter(c)
  BY <1>2 DEF MainLetter, Refresh, AskRoomId, CreateRoom, ShowMain, ShowHost
<1>3. CASE RoomIdLetter(c)
  BY <1>3 DEF RoomIdLetter, Edit, ShowMain, ShowLobby
<1>4. CASE HostLetter(c, number)
  BY <1>4 DEF HostLetter, HostStart, BeginGame, ShowGame, ShowHost
<1>5. CASE GameLetter(c)
  BY <1>5 DEF GameLetter
<1> QED BY <1>1, <1>2, <1>3, <1>4, <1>5

LEMMA RowKept ==
  ASSUME WholeRow, page \notin {"OUT", "KILLED"}, UNCHANGED <<input, keys>>,
         page' # "WELCOME" \/ page' = page
  PROVE  WholeRow'
BY SMTT(30) DEF WholeRow, Row, Cut

LEMMA RowRead ==
  ASSUME WholeKeys, WholeRow, page \notin {"OUT", "KILLED"}, input # <<>>,
         Take(ParseLetter(input).used), page' # "WELCOME"
  PROVE  WholeRow'
<1>1. Row
  BY DEF WholeRow
<1>2. keys # <<>> /\ ParseLetter(input).used = Size(keys[1])
  BY <1>1, FirstKey
<1>3. Row'
  BY <1>1, <1>2, RowShrinks
<1> QED BY <1>3 DEF WholeRow

LEMMA AnyKeyRow ==
  ASSUME WholeKeys, WholeRow, PressAnyKey
  PROVE  WholeRow'
<1>1. CASE page = "WELCOME" /\ Head(input) # "ctrl-q"
  <2>1. /\ input # <<>> /\ Take(1) /\ ShowLogin
        /\ Row /\ \A i \in 1 .. Len(keys) : keys[i] \in AnyKeys
    BY <1>1 DEF PressAnyKey, WholeRow
  <2>2. keys # <<>> /\ keys[1] \in Keys
    BY <2>1, FirstKey
  <2>3. 1 \in 1 .. Len(keys)
    BY <2>1, <2>2, EmptySeq DEF Row
  <2>4. Size(keys[1]) = 1
    BY <2>1, <2>2, <2>3, KeySizes DEF WholeKeys
  <2>5. Row'
    BY <2>1, <2>2, <2>4, RowShrinks
  <2>6. page' # "WELCOME"
    BY <2>1 DEF ShowLogin, Draw, Show, Fail
  <2> QED BY <2>5, <2>6 DEF WholeRow
<1>2. CASE ~(page = "WELCOME" /\ Head(input) # "ctrl-q")
  <2>1. page' = "OUT"
    BY <1>2 DEF PressAnyKey, Quit
  <2> QED BY <2>1 DEF WholeRow
<1> QED BY <1>1, <1>2

LEMMA PressRow ==
  ASSUME WholeKeys, WholeRow, NEW key \in Keys, Press(key)
  PROVE  WholeRow'
<1>1. /\ Row /\ page' = page
      /\ input' = input \o KeyBytes(key) /\ keys' = Append(keys, key)
      /\ page = "WELCOME" => key \in AnyKeys /\ \A i \in 1 .. Len(keys) : keys[i] \in AnyKeys
  BY DEF Press, WholeRow, AnyKeyPages
<1>2. /\ Row'
      /\ Len(keys') = Len(keys) + 1 /\ keys'[Len(keys) + 1] = key
      /\ \A i \in 1 .. Len(keys) : keys'[i] = keys[i]
  BY <1>1, RowGrows
<1>3. Len(keys) \in Nat
  BY <1>1 DEF Row
<1>4. ASSUME page = "WELCOME", NEW i \in 1 .. Len(keys')
      PROVE  keys'[i] \in AnyKeys
  <2>1. i = Len(keys) + 1 \/ i \in 1 .. Len(keys)
    BY <1>2, <1>3
  <2> QED BY <1>1, <1>2, <1>4, <2>1
<1> QED BY <1>1, <1>2, <1>4 DEF WholeRow

LEMMA NextRow == WholeKeys /\ WholeRow /\ [Next]_vars => WholeRow'
<1> SUFFICES ASSUME WholeKeys, WholeRow, [Next]_vars
             PROVE  WholeRow'
  OBVIOUS
<1>1. CASE UNCHANGED vars
  BY <1>1 DEF vars, WholeRow, Row, Cut
<1>2. ASSUME NEW key \in Keys, Press(key)
      PROVE  WholeRow'
  BY <1>2, PressRow
<1>3. CASE PressAnyKey
  BY <1>3, AnyKeyRow
<1>4. CASE Login \/ Main \/ RoomId
  <2>1. /\ page \notin {"WELCOME", "OUT", "KILLED"} /\ input # <<>>
        /\ Take(ParseLetter(input).used)
        /\ \/ page' = "OUT"
           \/ \E c : LoginLetter(c) \/ MainLetter(c) \/ RoomIdLetter(c)
    BY <1>4 DEF Login, Main, RoomId, ReadLetter, Quit
  <2>2. page' # "WELCOME"
    BY <2>1, LetterAway
  <2> QED BY <2>1, <2>2, RowRead
<1>5. CASE HostTurn
  <2>1. page = "HOST"
    BY <1>5 DEF HostTurn
  <2>2. PICK number : \/ ShowHost(number) /\ UNCHANGED <<input, keys>>
                      \/ /\ input # <<>> /\ Take(ParseLetter(input).used)
                         /\ Quit \/ \E c : HostLetter(c, number)
    BY <1>5 DEF HostTurn
  <2>3. CASE ShowHost(number) /\ UNCHANGED <<input, keys>>
    <3>1. page' # "WELCOME"
      BY <2>3 DEF ShowHost, Draw, Show, Fail
    <3> QED BY <2>1, <2>3, <3>1, RowKept
  <2>4. CASE /\ input # <<>> /\ Take(ParseLetter(input).used)
             /\ Quit \/ \E c : HostLetter(c, number)
    <3>1. page' # "WELCOME"
      BY <2>1, <2>4, LetterAway DEF Quit
    <3> QED BY <2>1, <2>4, <3>1, RowRead
  <2> QED BY <2>2, <2>3, <2>4
<1>6. CASE GameTurn
  <2>1. /\ page = "GAME"
        /\ \/ page' # "WELCOME" /\ UNCHANGED <<input, keys>>
           \/ /\ input # <<>> /\ Take(ParseLetter(input).used)
              /\ Quit \/ \E c : GameLetter(c)
    BY <1>6 DEF GameTurn, Draw, Show, Fail, ShowGoodbye
  <2>2. CASE page' # "WELCOME" /\ UNCHANGED <<input, keys>>
    BY <2>1, <2>2, RowKept
  <2>3. CASE /\ input # <<>> /\ Take(ParseLetter(input).used)
             /\ Quit \/ \E c : GameLetter(c)
    <3>1. page' # "WELCOME"
      BY <2>1, <2>3, LetterAway DEF Quit
    <3> QED BY <2>1, <2>3, <3>1, RowRead
  <2> QED BY <2>1, <2>2, <2>3
<1>7. CASE Lobby
  <2>1. page = "LOBBY" /\ UNCHANGED <<input, keys>> /\ page' # "WELCOME"
    BY <1>7 DEF Lobby, ShowLobby, BeginGame, ShowGame, Draw, Show, Fail
  <2> QED BY <2>1, RowKept
<1>8. CASE ServerInfo \/ ServerLeaves
  <2>1. page \notin {"OUT", "KILLED"} /\ UNCHANGED <<input, keys, page>>
    BY <1>8 DEF ServerInfo, ServerLeaves
  <2> QED BY <2>1, RowKept
<1> QED BY <1>1, <1>2, <1>3, <1>4, <1>5, <1>6, <1>7, <1>8 DEF Next, Reading

LEMMA InitRow == Init => WholeRow
<1> SUFFICES ASSUME Init
             PROVE  WholeRow
  OBVIOUS
<1>1. keys = <<>> /\ input = <<>>
  BY DEF Init
<1>2. keys \in Seq(Keys) /\ input \in Seq(Bytes) /\ Len(keys) = 0 /\ Len(input) = 0
  BY <1>1, EmptySeq
<1> DEFINE none == [i \in 0 .. 0 |-> 0]
<1>3. none \in [0 .. 0 -> Nat] /\ none[0] = 0 /\ \A i \in 0 .. 0 : i = 0
  OBVIOUS
<1>4. Cut(none)
  <2> HIDE DEF none
  <2> QED BY <1>2, <1>3 DEF Cut
<1> QED BY <1>2, <1>4 DEF WholeRow, Row

\* The cuts without the first, as KeysStayWhole has them
LEMMA RowWhole ==
  ASSUME WholeKeys, WholeRow
  PROVE  KeysStayWhole
<1> SUFFICES ASSUME page \notin {"OUT", "KILLED"}
             PROVE  \E end \in [DOMAIN keys -> 1 .. Len(input)] :
                      /\ Len(input) = IF keys = <<>> THEN 0 ELSE end[Len(keys)]
                      /\ \A i \in DOMAIN keys :
                           SubSeq(input, IF i = 1 THEN 1 ELSE end[i - 1] + 1, end[i])
                             = KeyBytes(keys[i])
  BY DEF KeysStayWhole
<1>1. /\ keys \in Seq(Keys) /\ input \in Seq(Bytes)
      /\ Len(keys) \in Nat /\ Len(input) \in Nat /\ DOMAIN keys = 1 .. Len(keys)
  BY DEF WholeRow, Row
<1>2. PICK full : Cut(full)
  BY DEF WholeRow, Row
<1>3. /\ full \in [0 .. Len(keys) -> Nat]
      /\ full[0] = 0 /\ full[Len(keys)] = Len(input)
      /\ \A i, j \in 0 .. Len(keys) : i <= j => full[i] <= full[j]
      /\ \A i \in 1 .. Len(keys) :
           /\ full[i] = full[i - 1] + Size(keys[i])
           /\ \A j \in 1 .. Size(keys[i]) : input[full[i - 1] + j] = KeyBytes(keys[i])[j]
  BY <1>2 DEF Cut
<1>4. ASSUME NEW i \in 1 .. Len(keys)
      PROVE  /\ full[i - 1] \in Nat /\ full[i] \in 1 .. Len(input)
             /\ Size(keys[i]) \in Nat /\ full[i] = full[i - 1] + Size(keys[i])
             /\ SubSeq(input, full[i - 1] + 1, full[i]) = KeyBytes(keys[i])
  <2>1. keys[i] \in Keys
    BY <1>1, ElementOfSeq
  <2>2. KeyBytes(keys[i]) \in Seq(Bytes) /\ Size(keys[i]) \in Nat /\ Size(keys[i]) >= 1
    BY <2>1, KeySizes
  <2>3. /\ i \in 0 .. Len(keys) /\ i - 1 \in 0 .. Len(keys) /\ Len(keys) \in 0 .. Len(keys)
        /\ i <= Len(keys)
    BY <1>1
  <2>4. full[i - 1] \in Nat /\ full[i] \in Nat /\ full[i] <= Len(input)
    BY <1>3, <2>3
  <2>5. full[i] = full[i - 1] + Size(keys[i]) /\ full[i] \in 1 .. Len(input)
    BY <1>3, <2>2, <2>4
  <2> DEFINE a == full[i - 1]
             b == full[i]
  <2>6. \A j \in 1 .. Size(keys[i]) : input[a + j] = KeyBytes(keys[i])[j]
    BY <1>3
  <2>7. a \in Nat /\ b \in Nat /\ b = a + Size(keys[i]) /\ b <= Len(input)
    BY <2>4, <2>5
  <2> HIDE DEF a, b
  <2>8. \A j \in a + 1 .. b : input[j] \in Bytes
    <3>1. \A j \in a + 1 .. b : j \in 1 .. Len(input)
      BY <1>1, <2>7
    <3> QED BY <1>1, <3>1, ElementOfSeq
  <2>9. /\ SubSeq(input, a + 1, b) \in Seq(Bytes)
        /\ Len(SubSeq(input, a + 1, b)) = IF a + 1 <= b THEN b - (a + 1) + 1 ELSE 0
        /\ \A j \in 1 .. b - (a + 1) + 1 : SubSeq(input, a + 1, b)[j] = input[a + 1 + j - 1]
    BY <2>7, <2>8, SubSeqProperties
  <2>10. Len(SubSeq(input, a + 1, b)) = Size(keys[i])
    BY <2>2, <2>7, <2>9
  <2>11. \A j \in 1 .. Size(keys[i]) : SubSeq(input, a + 1, b)[j] = KeyBytes(keys[i])[j]
    <3> TAKE j \in 1 .. Size(keys[i])
    <3>1. j \in 1 .. b - (a + 1) + 1 /\ a + 1 + j - 1 = a + j
      BY <2>2, <2>7
    <3> QED BY <2>6, <2>9, <3>1
  <2>12. SubSeq(input, a + 1, b) = KeyBytes(keys[i])
    BY <2>2, <2>9, <2>10, <2>11, SeqEqual DEF Size
  <2> QED BY <2>2, <2>4, <2>5, <2>12 DEF a, b
<1> DEFINE end == [i \in DOMAIN keys |-> full[i]]
<1>5. end \in [DOMAIN keys -> 1 .. Len(input)] /\ \A i \in 1 .. Len(keys) : end[i] = full[i]
  BY <1>1, <1>4
<1> HIDE DEF end
<1>6. Len(input) = IF keys = <<>> THEN 0 ELSE end[Len(keys)]
  <2>1. CASE keys = <<>>
    BY <1>3, <2>1, EmptySeq
  <2>2. CASE keys # <<>>
    <3>1. Len(keys) \in 1 .. Len(keys)
      BY <1>1, <2>2, EmptySeq
    <3> QED BY <1>3, <1>5, <2>2, <3>1
  <2> QED BY <2>1, <2>2
<1>7. ASSUME NEW i \in DOMAIN keys
      PROVE  SubSeq(input, IF i = 1 THEN 1 ELSE end[i - 1] + 1, end[i]) = KeyBytes(keys[i])
  <2>1. i \in 1 .. Len(keys) /\ end[i] = full[i]
    BY <1>1, <1>5
  <2>2. CASE i = 1
    <3>1. i - 1 = 0 /\ full[i - 1] + 1 = 1
      BY <1>3, <2>2
    <3> QED BY <1>4, <2>1, <2>2, <3>1
  <2>3. CASE i # 1
    <3>1. i - 1 \in 1 .. Len(keys)
      BY <1>1, <2>1, <2>3
    <3> QED BY <1>4, <1>5, <2>1, <2>3, <3>1
  <2> QED BY <2>2, <2>3
<1> QED BY <1>5, <1>6, <1>7

(***************************************************************************)
(* Whatever the user presses ahead of the client, and wherever it reads:   *)
(* after every letter the input begins with a whole key, so that no part   *)
(* of an arrow or of Delete becomes a command or a symbol of the login.    *)
(***************************************************************************)
THEOREM KeysAreWhole ==
  ASSUME WholeKeys
  PROVE  Spec => []KeysStayWhole
<1>1. Init => WholeRow
  BY InitRow
<1>2. WholeRow /\ [Next]_vars => WholeRow'
  BY NextRow
<1>3. WholeRow => KeysStayWhole
  BY RowWhole
<1> QED BY <1>1, <1>2, <1>3, PTL DEF Spec
=============================================================================
