------------------------------- MODULE Pages --------------------------------
(***************************************************************************)
(* The client as its user meets it: client/client.cpp (Run, JoinRoom,      *)
(* CreateRoom) with client/interfaces/inteface_manager.cpp, over what      *)
(* Screen says of the drawing and Keyboard of the keys.  One thread draws, *)
(* reads keys and waits for the server.                                    *)
(*                                                                         *)
(* An exception ends in ErrorScreen, Ctrl-q leaves at once.  Writing to a  *)
(* server that is gone raises SIGPIPE the second time, and nothing in the  *)
(* client handles it.  The window keeps its size.                          *)
(***************************************************************************)
EXTENDS Screen, Keyboard, FiniteSets, SequencesExt

CONSTANTS
  Windows,    \* the sizes that the window may have, <<columns, rows>>
  Rooms,      \* how many rooms a list may have
  Players,    \* how many entries a list of players may have, the host's included
  Places,     \* where on the map the client's player may be
  Keys,       \* the keys that the user presses
  AnyKeys,    \* those of them pressed when "Press any key" is shown
  KeysAhead,  \* how many keys the user is ahead of the client
  Infos       \* how many descriptions of the game the server is ahead

RoomIdSize == 4

ASSUME PagesAssumption ==
  /\ MAX_LOGIN_SIZE \in Nat \ {0}
  /\ Windows \subseteq (Nat \X Nat)
  /\ Rooms \subseteq Nat /\ Players \subseteq Nat \ {0}
  /\ Places \subseteq (0 .. MapWidth - 1) \X (0 .. MapHeight - 1)
  /\ AnyKeys \subseteq Keys
  /\ KeysAhead \in Nat \ {0} /\ Infos \in Nat \ {0}

VARIABLES
  screen,    \* rows_ and cols_
  page,      \* what is shown and waited for
  rooms,     \* the length of rooms_info
  players,   \* the length of players_info
  alive,     \* the players of players_info with health in game_info
  place,     \* the own player's place in game_info, none when no player is shown there
  typed,     \* the characters of ReadWriteCursor's out
  cursor,    \* Painter::cursor_
  terminal,  \* the cursor that the terminal shows
  echo,      \* the places with a symbol of WriteSymbol on the page
  input,     \* the bytes that wait in the terminal
  keys,      \* the keys that these bytes were sent for
  infos,     \* the descriptions of the game on their way
  pipe,      \* the connection: open, closed by the server, reset by a write after that
  fault      \* why ErrorScreen was shown

known == <<screen, rooms, players, alive, place>>
look == <<cursor, terminal, echo>>
network == <<infos, pipe>>
vars == <<known, page, typed, look, input, keys, network, fault>>

AnyKeyPages == {"WELCOME", "GOODBYE", "ERROR"}

-----------------------------------------------------------------------------
(* Drawing and writing.                                                    *)

\* ErrorScreen gives up when it does not fit either
Fail(why) ==
  /\ fault' = why
  /\ page' = IF Fits(DrawErrorScreen(screen), screen) THEN "ERROR" ELSE "OUT"
  /\ UNCHANGED look

\* Of several writes in a row to a server that is gone the second one raises SIGPIPE
FailOrKilled ==
  \/ Fail("server")
  \/ page' = "KILLED" /\ UNCHANGED <<look, fault>>

\* MoveCursor to a place, on both sides
MoveTo(spot) == cursor' = spot /\ terminal' = spot

\* A page is drawn from nothing; what follows the drawing is up to After
Draw(boxes, After) ==
  IF Fits(boxes, screen) THEN After ELSE Fail("screen")

Show(next) == page' = next /\ echo' = {} /\ UNCHANGED fault

ShowLogin ==
  Draw(DrawLoginScreen(screen),
       /\ Show("LOGIN")
       /\ MoveTo(<<GetHorizontalCoord(300, screen), GetVerticalCoord(520, screen)>>))

\* MainServerPage with what WriteError adds
ShowMain(number, error) ==
  Draw(DrawRoomList(number, screen) \union error,
       Show("MAIN") /\ MoveTo(CommandPlace(MainCross(screen), screen)))

ShowLobby(number) ==
  Draw(DrawLobbyScreen(number, FALSE, screen),
       Show("LOBBY") /\ UNCHANGED <<cursor, terminal>>)

ShowHost(number) ==
  Draw(DrawLobbyScreen(number, TRUE, screen),
       Show("HOST") /\ MoveTo(CommandPlace(Cross(screen), screen)))

ShowGame(number, spot) ==
  Draw(DrawGameScreen(number, spot, screen),
       Show("GAME") /\ UNCHANGED <<cursor, terminal>>)

\* GoodbyeScreen gives up when it does not fit
ShowGoodbye ==
  /\ Show(IF Fits(DrawGoodbyeScreen(screen), screen) THEN "GOODBYE" ELSE "OUT")
  /\ UNCHANGED <<cursor, terminal>>

\* Painter::Set at the cursor
AtCursor == {DrawString(cursor[1], cursor[2], 1)}

\* Painter lets its cursor come to cols_, the terminal stays in its last column
WriteSymbol ==
  /\ echo' = echo \union {cursor}
  /\ cursor' = [cursor EXCEPT ![1] = Smaller(@ + 1, screen[1])]
  /\ terminal' = [terminal EXCEPT ![1] = Smaller(@ + 1, screen[1] - 1)]

Left(spot) == [spot EXCEPT ![1] = Bigger(@ - 1, 0)]

DeleteSymbolHere ==  \* Fault: removed before the cursor moves
  /\ echo' = echo \ {cursor}
  /\ cursor' = Left(cursor) /\ terminal' = Left(terminal)

DeleteSymbol ==
  /\ cursor' = Left(cursor) /\ terminal' = Left(terminal)
  /\ echo' = echo \ {Left(cursor)}

-----------------------------------------------------------------------------
(* Keys.                                                                   *)

Press(key) ==
  /\ page \notin {"OUT", "KILLED"}
  /\ Len(keys) < KeysAhead
  /\ page \in AnyKeyPages => key \in AnyKeys
  /\ input' = input \o KeyBytes(key)
  /\ keys' = Append(keys, key)
  /\ UNCHANGED <<known, page, typed, look, network, fault>>

\* The letter is taken from the input
Take(used) ==
  /\ input' = SubSeq(input, used + 1, Len(input))
  /\ keys' = IF keys = <<>> THEN <<>> ELSE Tail(keys)

\* throw -1 ends Run without a word
Quit == page' = "OUT" /\ UNCHANGED <<look, fault>>

\* ReadLetter and what is done with its letter
ReadLetter(Manage(_)) ==
  /\ input # <<>>
  /\ LET c == ParseLetter(input)
     IN  /\ Take(c.used)
         /\ IF c.letter = "quit"
            THEN Quit /\ UNCHANGED <<known, typed, network>>
            ELSE Manage(c.letter)

\* One byte, whatever it is
PressAnyKey ==
  /\ page \in AnyKeyPages
  /\ input # <<>>
  /\ Take(1)
  /\ IF page = "WELCOME" /\ Head(input) # "ctrl-q"
     THEN ShowLogin
     ELSE Quit
  /\ UNCHANGED <<known, typed, network>>

KeyCodes == {"UNKNOWN_KEY", "ARROW_UP", "ARROW_DOWN", "ARROW_LEFT", "ARROW_RIGHT"}

Letters == {"a", "d", "k", "s", "w", "A", "D", "K", "O", "P", "S", "W"}

\* isalpha and isdigit of a key code read beyond their table
TakenAsSymbol(c, letter_fl) ==
  IF c \in KeyCodes THEN BOOLEAN ELSE {c \in Digits \union (IF letter_fl THEN Letters ELSE {})}

\* The rest of ReadWriteCursor: everything but Enter
Edit(c, size, letter_fl, error) ==
  \/ /\ c = "DEL_KEY" /\ typed # <<>>
     /\ typed' = Front(typed)
     /\ DeleteSymbol
     /\ UNCHANGED <<page, fault>>
  \/ /\ c = "DEL_KEY" /\ typed = <<>>
     /\ UNCHANGED <<typed, look, page, fault>>
  \/ /\ c \notin {"DEL_KEY", "ENTER_KEY"}
     /\ \E symbol \in TakenAsSymbol(c, letter_fl) :
          IF symbol /\ Len(typed) < size
          THEN /\ typed' = Append(typed, IF c \in KeyCodes THEN "junk" ELSE "symbol")
               /\ Draw(AtCursor, WriteSymbol /\ UNCHANGED <<page, fault>>)
          ELSE /\ UNCHANGED typed
               /\ Draw(error, UNCHANGED <<look, page, fault>>)

-----------------------------------------------------------------------------
(* Run.                                                                    *)

\* AskLogin, then Connect and LoadRooms
LoginLetter(c) ==
  \/ /\ c # "ENTER_KEY" \/ typed = <<>>
     /\ IF c = "ENTER_KEY" THEN UNCHANGED <<typed, look, page, fault>>
        ELSE Edit(c, MAX_LOGIN_SIZE, TRUE, LoginError(screen))
     /\ UNCHANGED <<known, network>>
  \/ /\ c = "ENTER_KEY" /\ typed # <<>>
     /\ \/ \E number \in Rooms : rooms' = number /\ ShowMain(number, {})
        \/ Fail("server") /\ UNCHANGED rooms
     /\ typed' = <<>>
     /\ UNCHANGED <<screen, players, alive, place, network>>

Login == page = "LOGIN" /\ ReadLetter(LoginLetter)

Refresh ==
  /\ \/ \E number \in Rooms : rooms' = number /\ ShowMain(number, {})
     \/ Fail("server") /\ UNCHANGED rooms
  /\ UNCHANGED players

\* GetRoomId goes on below the command, which is written already
AskRoomId ==
  /\ Draw(ReadRoomId(screen),
          /\ page' = "ROOM_ID"
          /\ MoveTo(RoomIdPlace(screen)) /\ echo' = echo \union {cursor}
          /\ UNCHANGED fault)
  /\ UNCHANGED <<rooms, players>>

CreateRoom ==
  /\ \/ players' = 1 /\ ShowHost(1)
     \/ FailOrKilled /\ UNCHANGED players
  /\ UNCHANGED rooms

MainLetter(c) ==
  /\ \/ /\ c \in {"0", "1", "2"}
        /\ IF ~Fits(AtCursor, screen)
           THEN Fail("screen") /\ UNCHANGED <<rooms, players>>
           ELSE CASE c = "0" -> Refresh [] c = "1" -> AskRoomId [] c = "2" -> CreateRoom
     \/ /\ c \notin {"0", "1", "2"}
        /\ Draw(MainError(screen), UNCHANGED <<look, page, fault>>)
        /\ UNCHANGED <<rooms, players>>
  /\ UNCHANGED <<screen, alive, place, typed, network>>

Main == page = "MAIN" /\ ReadLetter(MainLetter)

\* GetRoomId and JoinRoom up to the first list of players
RoomIdLetter(c) ==
  \/ /\ c # "ENTER_KEY" \/ typed = <<>>
     /\ IF c = "ENTER_KEY" THEN UNCHANGED <<typed, look, page, fault>>
        ELSE Edit(c, RoomIdSize, FALSE, MainError(screen))
     /\ UNCHANGED <<known, network>>
  \/ /\ c = "ENTER_KEY" /\ typed # <<>>
     /\ typed' = <<>>
     /\ \/ /\ Head(typed) = "junk"  \* stoi throws
           /\ Fail("input") /\ UNCHANGED players
        \/ /\ Head(typed) # "junk"
           /\ ShowMain(rooms, MainError(screen)) /\ UNCHANGED players
        \/ /\ Head(typed) # "junk" /\ rooms > 0
           /\ \/ \E number \in Players : players' = number /\ ShowLobby(number)
              \/ FailOrKilled /\ UNCHANGED players
     /\ UNCHANGED <<screen, rooms, alive, place, network>>

RoomId == page = "ROOM_ID" /\ ReadLetter(RoomIdLetter)

-----------------------------------------------------------------------------
(* The lobby and the game.                                                 *)

BeginGameWithHost(number, spot) ==  \* Fault: the host is counted
  /\ alive' = number /\ place' = spot
  /\ ShowGame(number, spot)

\* The first description of the game: everybody but the host is in it and lives
BeginGame(number, spot) ==
  /\ alive' = number - 1 /\ place' = spot
  /\ ShowGame(number, spot)

\* A joiner waits for the server and reads no keys
Lobby ==
  /\ page = "LOBBY"
  /\ \/ /\ \E number \in Players : players' = number /\ ShowLobby(number)
        /\ UNCHANGED <<alive, place>>
     \/ /\ players > 2
        /\ \E spot \in Places : BeginGame(players, spot)
        /\ UNCHANGED players
     \/ Fail("server") /\ UNCHANGED <<players, alive, place>>
  /\ UNCHANGED <<screen, rooms, typed, input, keys, network>>

\* The host has asked for the start: it reads the first description of the game
HostStart(number) ==
  \/ pipe = "open" /\ BeginGame(number, <<>>)
  \/ Fail("server") /\ UNCHANGED <<alive, place>>

HostLetter(c, number) ==
  \/ /\ c = "0" /\ number > 2
     /\ HostStart(number)
  \/ /\ ~(c = "0" /\ number > 2)
     /\ Draw(LobbyError(screen), ShowHost(number))
     /\ UNCHANGED <<alive, place>>

(***************************************************************************)
(* A turn of the host's loop: a list, if there is one, the page, and a     *)
(* letter, if there is one.  What an error leaves on the page is gone with *)
(* the next turn.                                                          *)
(***************************************************************************)
HostTurn ==
  /\ page = "HOST"
  /\ \E number \in (IF pipe = "open" THEN Players ELSE {}) \union {players} :
       /\ players' = number
       /\ IF input = <<>> \/ ~Fits(DrawLobbyScreen(number, TRUE, screen), screen)
          THEN /\ ShowHost(number)
               /\ UNCHANGED <<alive, place, input, keys>>
          ELSE LET c == ParseLetter(input)
               IN  /\ Take(c.used)
                   /\ IF c.letter = "quit"
                      THEN Quit /\ UNCHANGED <<alive, place>>
                      ELSE HostLetter(c.letter, number)
  /\ UNCHANGED <<screen, rooms, typed, network>>

CommandLetters ==
  {"W", "w", "ARROW_UP", "S", "s", "ARROW_DOWN", "D", "d", "ARROW_RIGHT",
   "A", "a", "ARROW_LEFT", "K", "k", " "}

\* WriteCommand: the first write after the server left resets, the second one kills
GameLetter(c) ==
  /\ pipe' = IF c \in CommandLetters /\ pipe = "closed" THEN "reset" ELSE pipe
  /\ page' = IF c \in CommandLetters /\ pipe = "reset" THEN "KILLED" ELSE "GAME"
  /\ echo' = {}
  /\ UNCHANGED <<cursor, terminal, fault>>

FinishLate(number) == number < 1  \* Fault: waits for the last one to die

Finish(number) == number <= 1

\* A turn in the game: FIONREAD, a description if there is one, the page, a letter
GameTurn ==
  /\ page = "GAME"
  /\ LET info == IF infos = <<>> THEN [alive |-> alive, place |-> place] ELSE Head(infos)
     IN  /\ alive' = info.alive /\ place' = info.place
         /\ infos' = IF infos = <<>> THEN infos ELSE Tail(infos)
         /\ IF \/ input = <<>> \/ Finish(info.alive)
               \/ ~Fits(DrawGameScreen(players, info.place, screen), screen)
            THEN /\ Draw(DrawGameScreen(players, info.place, screen),
                         IF Finish(info.alive)
                         THEN ShowGoodbye
                         ELSE Show("GAME") /\ UNCHANGED <<cursor, terminal>>)
                 /\ UNCHANGED <<input, keys, pipe>>
            ELSE LET c == ParseLetter(input)
                 IN  /\ Take(c.used)
                     /\ IF c.letter = "quit" THEN Quit /\ UNCHANGED pipe
                        ELSE GameLetter(c.letter)
  /\ UNCHANGED <<screen, rooms, players, typed>>

-----------------------------------------------------------------------------
(* The server, as far as the client sees it.                               *)

\* What the client has been told or is about to be
Told == IF infos = <<>> THEN [alive |-> alive, place |-> place] ELSE Last(infos)

\* The client only tells one from more; between them two will do
Fewer(number) == {n \in {0, 1, 2, number} : n <= number}

(***************************************************************************)
(* DrawMap takes the cell of the own player for its place as long as a     *)
(* player is shown there.  That may be another one when the own is dead,   *)
(* so the place may go and come back, but not while nobody lives.          *)
(***************************************************************************)
ServerInfo ==
  /\ page = "GAME" /\ pipe = "open"
  /\ Len(infos) < Infos
  /\ \E number \in Fewer(Told.alive), spot \in Places \union {<<>>} :
       /\ number = 0 => spot = <<>>
       /\ infos' = Append(infos, [alive |-> number, place |-> spot])
  /\ UNCHANGED <<known, page, typed, look, input, keys, pipe, fault>>

\* Where the client only looks whether there is something, it does not see the end
ServerLeaves ==
  /\ page \in {"HOST", "GAME"} /\ pipe = "open"
  /\ pipe' = "closed"
  /\ UNCHANGED <<known, page, typed, look, input, keys, infos, fault>>

-----------------------------------------------------------------------------
Init ==
  /\ screen \in Windows
  /\ page = IF Fits(DrawWelcomeScreen(screen), screen) THEN "WELCOME" ELSE "ERROR"
  /\ fault = IF Fits(DrawWelcomeScreen(screen), screen) THEN "none" ELSE "screen"
  /\ rooms = 0 /\ players = 1 /\ alive = 0 /\ place = <<>>
  /\ typed = <<>>
  /\ cursor = <<0, 0>> /\ terminal = <<0, 0>> /\ echo = {}
  /\ input = <<>> /\ keys = <<>>
  /\ infos = <<>> /\ pipe = "open"

Reading == PressAnyKey \/ Login \/ Main \/ RoomId \/ HostTurn \/ GameTurn

Next ==
  \/ Reading \/ Lobby \/ ServerInfo \/ ServerLeaves
  \/ \E key \in Keys : Press(key)

Spec == Init /\ [][Next]_vars

\* The client's thread goes on when it has something to read
FairSpec == Spec /\ WF_vars(Reading)

-----------------------------------------------------------------------------
(***************************************************************************)
(* The types of the variables.                                             *)
(***************************************************************************)
TypeOK ==
  /\ screen \in Windows
  /\ page \in AnyKeyPages \union
       {"LOGIN", "MAIN", "ROOM_ID", "LOBBY", "HOST", "GAME", "OUT", "KILLED"}
  /\ rooms \in Rooms \union {0} /\ players \in Players \union {1}
  /\ alive \in 0 .. players - 1
  /\ place \in Places \union {<<>>}
  /\ typed \in Seq({"symbol", "junk"})
  /\ Len(typed) <= (CASE page = "LOGIN" -> MAX_LOGIN_SIZE [] page = "ROOM_ID" -> RoomIdSize
                      [] page \in {"OUT", "ERROR"} -> Bigger(MAX_LOGIN_SIZE, RoomIdSize)
                      [] OTHER -> 0)
  /\ \A spot \in echo \union {cursor, terminal} :
       spot \in (0 .. screen[1]) \X (0 .. screen[2] - 1)
  /\ Len(infos) <= Infos
  /\ pipe \in {"open", "closed", "reset"}
  /\ fault \in {"none", "server", "input", "screen"}

(***************************************************************************)
(* A window of any of these sizes is enough for every page the client can  *)
(* come to, for a list or a map as long as they get: no drawing throws     *)
(* (Painter::Set), also not when the player dies and the whole map is      *)
(* drawn in place of the part around it.                                   *)
(***************************************************************************)
ScreenHolds == fault # "screen"

(***************************************************************************)
(* Painter and the terminal keep a cursor each, moved by separate          *)
(* commands.  They agree wherever something is typed, and there the page   *)
(* shows the characters of out, from the place of the cursor at the        *)
(* beginning to where it is now, after every sequence of edits.            *)
(***************************************************************************)
CursorFollows ==
  LET Line(start) ==
        /\ cursor = <<start[1] + Len(typed), start[2]>>
        /\ {spot \in echo : spot[2] = start[2]} =
             {<<start[1] + i - 1, start[2]>> : i \in 1 .. Len(typed)}
  IN  /\ page = "LOGIN" =>
           Line(<<GetHorizontalCoord(300, screen), GetVerticalCoord(520, screen)>>)
      /\ page = "ROOM_ID" => Line(RoomIdPlace(screen))
      /\ page \in {"LOGIN", "MAIN", "ROOM_ID", "HOST"} => terminal = cursor

(***************************************************************************)
(* The parser takes as many bytes as the terminal sent for a key: no part  *)
(* of a key is left to be taken for a command or for a symbol of a login.  *)
(***************************************************************************)
KeysStayWhole ==
  page \notin {"OUT", "KILLED"} =>
    \E end \in [DOMAIN keys -> 1 .. Len(input)] :
      /\ Len(input) = IF keys = <<>> THEN 0 ELSE end[Len(keys)]
      /\ \A i \in DOMAIN keys :
           SubSeq(input, IF i = 1 THEN 1 ELSE end[i - 1] + 1, end[i]) = KeyBytes(keys[i])

(***************************************************************************)
(* Ctrl-q ends the client, wherever it was pressed, unless a joiner waits  *)
(* in the lobby (JoinRoom reads no keys there) or a write kills it first.  *)
(***************************************************************************)
QuitIsHeard ==
  (\E i \in DOMAIN keys : keys[i] = "ctrl-q") ~> (page \in {"OUT", "LOBBY", "KILLED"})

(***************************************************************************)
(* The end of the game reaches the user, also when the server closed the   *)
(* connection before the client read of it.  Only a write that kills the   *)
(* client comes before that.                                               *)
(***************************************************************************)
EndIsShown ==
  (\E i \in DOMAIN infos : infos[i].alive <= 1)
    ~> (page \in {"GOODBYE", "OUT", "ERROR", "KILLED"})
=============================================================================
