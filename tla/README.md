# Verification of the TCP console game

TLA+ modules, TLC configurations and TLAPS proofs for the multi-player console
game in `src/`: a game server (`server/`), the game engine it runs in every room
(`lib/game_lib/`) and a terminal client (`client/`). This file is the map of the
project: what the system consists of, what is modelled where, what the checks and
the proofs establish, and what is left.

## 1. The system

| Part | State it keeps | Operations |
| --- | --- | --- |
| **Server** (game manager, `server/server.cpp`) | `connections_` (per client: state, buffer), `rooms_` (thread, socketpair end, `waiting_clients`, `state`) | `ManageState` (send the rooms, refresh, create, join), `ConnectToRoom`, `CreateRoom`, `AddNewConnection`, hang-ups, notice that a room plays |
| **Start and shutdown** (`server/main.cpp`, `server.cpp`) | `exit_flag_`, signal masks and handlers | daemon mode, signal handlers, destructor: interrupt and join every room |
| **Room** (`server/room.cpp`), one thread each | `state_`, `connections_`, `players_`, `waiting_persons_`, `game_`, `exit_flag_` | lobby: `AddPlayer`, `ManagePlayer`, `UpdatePlayerList`, `RemovePlayer`, `ManageHost`, `StartGame`; game: `ManagePlayerEvent`, `ApplyGameChanges`; `CloseConnection` |
| **IOContext** (`server/io_context.cpp`) | `event_map_`: a `data_t` per registered descriptor | `AddEvent`, `DelEvent`, `ChangeEvent`, `Wait`, `SetTimer` |
| **Game engine** (`lib/game_lib`) | map of objects, players, projectiles, `is_ended_` | `Init`, `MovePlayer`, `ShootProjectile`, `KillPlayer`, `UpdateGame`, `GetInfo` |
| **Pathfinding** (`projectile_game_object.cpp`) | none (two breadth-first searches) | `FindTarget`, `TargetDirection` |
| **TCP utilities, info structures** (`lib/network_utilities`, `lib/info_structures`) | partial buffers, `operation_index` | reads and writes of commands, numbers, strings, lists, maps |
| **Client protocol** (`client/client.cpp`) | page, socket, `rooms_info`, `players_info` | login, room choice, lobby, host page, game loop |
| **Client interface** (`client/interfaces`, painter, terminal) | screen buffer, two cursors, waiting keys | drawing of seven pages, `ParseLetter`, `ReadWriteCursor` |
| **Settings** (`lib/game_settings.cpp`) | constants of the engine | one read at start |

How they meet. The server accepts connections and, when a client creates or joins a
room, takes the descriptor out of its own epoll set and passes it on: for the creator
as the argument of a new thread, for a joiner through a socketpair. From then on the
room's thread serves the client. The room tells the server once, through the same
socketpair, that it plays; the end of the socketpair tells either side that the other
is gone. Server and rooms share no other data, but they share the process: signal
handlers, masks and the two exit flags. A room is a single-threaded event loop; its
`Game` is touched by that loop only. Clients and room exchange unframed bytes: what a
byte means depends on how far each side is.

Where it is hard:

- *Event order.* epoll returns batches; handling one event may close the connection,
  free the `data_t` or change the room's state that a later event of the same batch,
  or the rest of the same handler, relies on (`room.cpp:130`, `:275`, `server.cpp:270`).
- *Interleaving.* Joiners come, log in and leave while the host starts the game
  (`room.cpp:275-290`, `:342`); the start is a countdown, `waiting_persons_`, that
  several handlers share. A room may report its start, or end, while the server holds
  clients for it (`server.cpp:171`, `:194`).
- *Exceptions.* A failed read, write or `ChangeEvent` throws; the exception drops the
  rest of the batch and whatever the handler still had to do (`room.cpp:235`, `:378`).
- *Half-closed connections.* A peer that closed is readable, then its reads give end of
  file, a write to it succeeds once, and only then does it hang up. Its descriptor's
  number comes back for somebody else.
- *Signals.* Both loops test a flag and then sleep; a signal in between wakes nobody
  (`room.cpp:74`, `server.cpp:151`), and any thread may take one.
- *Streams.* Reads and writes move a part; two byte orders are in use; resumed
  operations are given the wrong length (`room.cpp:234`, `:306`).
- *One step, many objects.* In the engine a move or a shot updates the map, the player
  and the projectile set in different places; ticks may stand for several periods.
- *Termination.* The game has to end when the last players die together, the searches
  have to terminate, a room has to close, a start has to start, the server has to stop.
- *Limits.* Pages are drawn without asking whether the window is large enough; the
  painter and the terminal keep a cursor each.

What correct means, per component: for the **engine**, map and objects agree, searches
get only questions they can answer, the dead stay dead, projectiles do not fly for ever,
the end is noticed and final; for the **room**, epoll, `connections_` and `players_`
stay in step, nothing leaks, the game is set up once and completely, messages make sense
to the clients, the start happens, the room closes; for the **server**, every client is
in one thread's care at a time, is served and is noticed when it leaves, and every
joiner is handed over; for **shutdown**, every thread is joined and nothing sleeps for
ever; for **streams and encodings**, what is written is read; for the **client**, every
page fits, the cursor is where the text is, keys are read whole, quitting works and the
end of the game is shown.

Every component is listed in `PROJECT.json` with its status, every hazard with its line.

## 2. Modules

| Module | Models | EXTENDS |
| --- | --- | --- |
| `Grid` | cells, directions, `MapPoint` arithmetic | Integers |
| `Pathfinding` | the results of `FindTarget` (order of discovery) and `TargetDirection` (first step) | Grid |
| `Elimination` | abstract: what a game is to everybody outside the engine | - |
| `Game` | the engine as a room drives it | Grid; instance of Elimination |
| `MCGame` | maps and bounds for TLC | Game, Pathfinding |
| `GameProofs` | theorems about `Game` | Game, TLAPS |
| `Room` | a room's event loop on epoll, its clients, the hand-over, the timer | instance of Elimination |
| `RoomProofs` | theorems about `Room` for every constant | Room, TLAPS, the theorems about sets and sequences |
| `RoomGameProofs` | theorems about `Room` when the start is orderly | RoomProofs |
| `MCRoom` | symmetry and constraints for TLC | Room |
| `Server` | the game manager's event loop, the rooms' threads from outside, the hand-over, clients up to their room | - |
| `ServerProofs` | theorems about `Server` | Server, TLAPS |
| `Shutdown` | the life of the process: start, signals, both kinds of loop, destructor | - |
| `ShutdownProofs` | theorems about `Shutdown` | Shutdown, TLAPS |
| `Wire`, `MCWire` | the byte streams of one joiner's session | SequencesExt |
| `WireProofs` | theorems about `Wire` | Wire, TLAPS, the theorems about finite sets |
| `Screen` | the pages' layout as boxes | Integers |
| `ScreenProofs` | theorems about `Screen` | Screen, TLAPS |
| `Keyboard` | what the terminal sends for a key and what `ParseLetter` makes of it | Integers |
| `Pages`, `MCPages` | the client's control: pages, typing, game loop, connection | Screen, Keyboard |
| `PagesProofs` | theorems about `Pages` | Pages, ScreenProofs |

### Game and Elimination

State: `grid` is `map_`, `health`, `position` and `moved` are the fields of the
`PlayerObject`s, `bullet` the projectiles in flight with `pos`, `target` and `left`
(`movements_left`), `ended` is `is_ended_`. `todo` and `phase` split a tick: the code's
`UpdateGame` walks an `unordered_set`, so the model moves the projectiles of a tick in
any order, one `MoveProjectile` each, between `UpdatePlayers` (the loop over health) and
`FinishUpdate` (removal, `is_ended_`). Commands are not served meanwhile (`Serving`),
since the room has one thread. `connected` are the players whose commands the room
still reads: death does not disconnect, a lost connection kills (`KillPlayer`).

The two searches are constants, `Discovery` and `NextDirection`, with an assumption
about what they may return. `Pathfinding` defines them the way the code computes them,
and TLC evaluates the assumption for every map used: so the proofs hold for every
search that meets it, and the runs use the code's.

Dead players vanish from the map in `GetInfo` (`game_map.cpp:61`), which a tick always
calls: it is part of `FinishUpdate`, as are the removal of finished projectiles and
`IsEnded`.

`Elimination` has two variables, who is alive and whether the game is over: players
only drop out, the game is found to be over only when at most one is left, for good,
and then it is. `Game` implements it (`alive <- Alive`, `over <- ended`), with its
fairness (`PlaysContest`). `Room` keeps no more of the game than these two and
implements it too (`HostsContest`): whatever the room sets up, closes and throws, it
lets nobody back into the game and takes no end back.

### Room

State: `state`, `conn` (the `state` of each entry of `connections_`), `key`
(`key_state`), `players`, `waiting`, and of the game only `alive` and `ended`; the kernel's `interest` (the
registration and its direction), `inbox`, `peer` (how far the close of the other end has
got), `pipe` (the socketpair); the clients' `view` of the protocol. `batch` is the rest
of the array `epoll_wait` filled.

`Wait` takes every ready descriptor, **in any order**. The code's handlers become one action per
branch. `ManagePlayer` falls through from state to state inside one call; each
state is one action, and an action that falls through leaves the event at the head of
the batch, so that the next action of the same handler is the only one of the room that is enabled.
An event carries `data`: what its `data_t` has become. After `DelEvent` it is
`"freed"`, and `Freed` chooses between the outcomes such a read can have: the type
reads as zero, `SERVER`, or as none of the tested ones. `"start"` marks the call of
`StartGame` from within `SendStart`. An exception is `DropBatch` (caught in `Run`), or
`Exit` for the creator, whose handlers are wrapped in their own `catch`.

The environment: `Join` (the server's `ConnectToRoom`), `SendLogin`, `HostReads`,
`HostStart`, `Command`, `Leave` (with and without a reset), `Reset` (the kernel's
answer to a write after a close), `TimerExpires`.

Deliberate abstractions: a command takes at most one life and a tick any number of them
(`Game` says which); messages arrive whole (`Wire` cuts them); sockets do not fill up;
descriptor numbers are not reused (they are in `Server`); SIGPIPE is blocked, as in
daemon mode. A client that `AddPlayer` took in after the game was set up (through freed
data) is not one of the game's players and only reads.

### Server

State: `entry` is `connections_` (the state of each entry), `rooms` and `waiting` are
`rooms_` with its `state` and `waiting_clients`, `args` is the array on `CreateRoom`'s
stack; `interest`, `batch`, `sock`, `inbox`, `pipe` and `notice` are the kernel's;
`thread`, `at` and `serves` say where a room's thread is, which socketpair it took from
its arguments and which clients it has; `page` and `seen` are the clients' programs.
One action per branch of `ManageEvents` and per state of `ManageState`. A batch is a
set: events come in any order. `RoomPlays` drops the rest of it, as the `break` does;
`ReadFails` and `CloseConnection` are the `catch`.

Clients are named by descriptors: `Close` frees the number and the next `Connect` has
it, while entries, lists and threads may still name it. A room's number is its
`input_fd`, which the server never closes, so it is not reused. What a room does in
detail is `Room`'s; here it takes descriptors, starts, drops clients and closes.
`LateThreads` says whether a thread may first run when the next room is being created.

### Shutdown

State: where `main` is between its constructor and its return, `masked`, the two
handlers, the two flags (`signal_exit_flag_` is static: one for all rooms), `rooms_`,
and of every room where its `thread` is and what can wake it (`mode`: the socketpair in
the lobby, the timer in the game, only clients in a start that went nowhere). Both
loops have a place before the test and one before the sleep: a signal that comes between
changes the flag and wakes nobody. `InterruptRoom` is `pthread_kill` and `close` for one
room; `Construct` is where a room's constructor takes SIGINT over for the whole process.

### Wire

Two byte streams between one joiner and the server's side, from the list of rooms to
the commands in the game. Numbers are four bytes of `Base` values in the order in which
the code puts them on the wire (`serialize_uint32` and `write_uint32` differ);
`Format`s say what a reader expects next, so that a vector or a string becomes what its
length says. A read takes any number of bytes that are there, a write any number that
fit. `Send` resumes the write of a buffer the way `SendBuffers` does, from the index but
with the whole length: what it sends beyond the end is `Junk`. `torn` and `overshot`
record that a single `read` or `write` of a number moved a part of it, and that a
resumed write went past its buffer. The model stops at a torn number: the code goes on
with a value of which it has not read every byte.

### Screen, Keyboard, Pages

`Screen` makes every drawing function a set of boxes (lines, rectangles, texts) computed
from window, lists and map with the integer arithmetic of `GetHorizontalCoord`;
`Painter::Set` throws outside the window, so a page is fine when all its boxes are on
the screen. `Keyboard` has the bytes of keys and `ParseLetter`. `Pages` is `Client::Run`
with `InterfaceManager`: each page reads keys, `ReadWriteCursor` moves the painter's
cursor and the terminal's separately, the game loop asks `FIONREAD` for a description,
shows it and sends the command of a key. The server sends lists and descriptions of any
of the given lengths, and may leave; a write then resets the connection, a second one
raises SIGPIPE, which kills the client (`KILLED`); where several writes follow each other
(`CreateRoom`, `JoinRoom`) it is either an error or that. The coordinates are integers,
those of the code are doubles: they differ by one cell at most.

## 3. Runs

`tlc -config <cfg> <module>`. `PROJECT.json` names the properties of each run and, for
each, a change of the code (a dropped guard, a swapped order, a missing reset) that
breaks it.

| Run | Module, cfg | Shows |
| --- | --- | --- |
| `game_field` | MCGame, GameField | Three players and two projectiles around a wall, a health pack and a mine, healing when standing and ticks of two periods. `PlayersOnMap`, `BulletsOnMap`: the map shows exactly the players not yet cleared away and the projectiles in flight. `Pursuit`: no search is asked for a way from a cell to itself or to where there is none. `DeadStayDead`: who is dead between two handlers stays dead (inside one tick it is otherwise, see `game_late_tick`). |
| `game_liveness` | MCGame, GameLiveness | With fair ticks a projectile always vanishes (`BulletsVanish`: hit or not), and the engine implements `Elimination` with its fairness (`PlaysContest`): the end is noticed, also when the last two starve in the same tick. |
| `room_chaos` | MCRoom, RoomChaos | Two joiners and a host come, leave and start as they like, with every outcome of the uses after free. `EventsFindTheirClient`, `NoLeak`, and `HostsContest`: the room goes through one elimination. |
| `room_early_start` | MCRoom, RoomEarlyStart | The host starts with two joiners on its screen while a third is anywhere between the server and the lobby, with every value but one of the uninitialised `key_state`: `OneGame`. |
| `room_game` | MCRoom, RoomGame | Everybody is in the lobby when the host starts; clients leave during the game. `ProtocolKept`, `WaitingCounts`, `ListsCurrent`, `GameRuns`, `GameComplete`; and with fairness `LobbyReached`, `GameBegins`, `RoomCloses`, `HostGoneCloses`. |
| `server` | Server, Server | Clients come, create, join, refresh, leave and come again under reused descriptors, rooms end at any moment, notices and exceptions cut batches short. `ServedOnce`, `LostOnlyWithARoom`, and with fairness `ListArrives`, `JoinersHandedOver`, `LeaversAreClosed`. |
| `shutdown` | Shutdown, Shutdown | Both ways to start, two rooms, SIGTERM and SIGINT at any moment to any thread that takes them. `NobodyLeftBehind`, `ServerEnds`, `RoomsObey`. |
| `wire` | MCWire, Wire | A joiner's session byte by byte, cut anywhere. `Understood` (what the client decodes) and `Heard` (what the server reads) up to the first torn number or overshot write, and `SessionRuns`: without one of them everything arrives. |
| `pages` | MCPages, Pages | The client from the first key to the last, in the smallest window its lists and map fit into. `ScreenHolds`, `CursorFollows`, `KeysStayWhole`, `QuitIsHeard`, `EndIsShown`. |

Every passing run also checks the type invariant of its module where it has no other run
that does. Three runs end in a violation. Each checks one sentence of the repository and
finds that the code does otherwise:

| Run | Sentence | What happens |
| --- | --- | --- |
| `room_lobby_leave` | `README.md:53`, "you can start game, then you want it" | One of three joiners leaves the lobby. It still counts in `waiting_persons_` and gets an entry in `connections_` when the next list is made; the host starts; `StartGame`, or the countdown before it, fails after the state is `PLAYING` and there is never a timer. |
| `server_late_thread` | `server.cpp:311`, "First arg - server fd", "Second arg - creator fd" | The array is a local variable of `CreateRoom`. A thread that first runs when the next room is being created reads that one's arguments: two threads serve one client, and the first client is served by nobody. |
| `game_late_tick` | `README.md:67`, "You lose, when your HP <= 0" | A tick that stands for two periods takes the price of a move first, which leaves a health of zero, and then gives back the other period: the player lives on (`LosesAtZero`). |

### Other disagreements, and how to see them

The passing runs leave these out, by their constants or as an exception that a property
names, so that what they show is about the rest. The change shows the case.

| Change | Then fails | What happens |
| --- | --- | --- |
| `RoomGame`: `Leaving = "any"` | `ListsCurrent` | A client that hangs up in the lobby stays in `players_`; the lists of the others are not renewed (`room.cpp:120`), although `README.md:50` has "list of current players updates automatically". |
| `RoomGame`: `Leaving = "any"` | `LobbyReached`, `GameBegins` | A client goes away before its login is complete: its events throw for ever and those behind them in the batch are not handled (`room.cpp:306`). |
| `RoomGame`: `Starting = "any"` | `GameBegins` | The server hands a joiner to a room that started and no longer reads the socketpair (`server.cpp:283`). |
| `RoomGame`: `HostKeys = {"STARTING_TO_PLAY"}` | `LobbyReached`, `GameBegins` | `key_state` of the creator is never written; with this value the room is deaf to its host (`room.cpp:69`). |
| `GameLiveness`: `PursuesUntilHit` as a property | `PursuesUntilHit` | A player keeps walking away; after ten moves the projectile is removed with nobody hit (`projectile_game_object.cpp:215`), although `README.md:65` has "bullet persue target until bullet collide with player". `BulletsVanish`, which holds, only says that it goes. |
| `Server`: leave `rooms[r] = "PLAYING"` out of `JoinersHandedOver` | `JoinersHandedOver` | A client names a room just before the server reads that it plays, and stays in `waiting_clients` (`server.cpp:194`). |
| `Pages`: add `"SHIFT_UP"` to `Keys` | `KeysStayWhole` | `ParseLetter` takes four of its six bytes; `2A` remains, and `2` creates a room (`input_interface.cpp:31`). |
| `Pages`: `Rooms = {0, 11}`, or `MapWidth = 60` | `ScreenHolds` | The eleventh room, or the whole map shown to a player who died, is drawn outside; the client reports a server error (`output_interface.cpp:359`). |
| `Pages`: leave the `"LOBBY"`, or the `"KILLED"`, out of `QuitIsHeard` | `QuitIsHeard` | A joiner in the lobby reads no keys (`client.cpp:54`); the second write to a server that is gone raises SIGPIPE, and the client ends without restoring the terminal (`client.cpp:87`). |
| `Wire`: leave `torn`, or `overshot`, out of `SessionRuns` | `SessionRuns` | A number that a single `read` or `write` tears, or a resumed write that runs past its buffer, and the session goes no further in the model (`tcp_utilities.cpp:27`, `room.cpp:234`). |
| `Shutdown`: leave `"STUCK"`, or `early`, out of `ServerEnds` | `ServerEnds` | A room whose start failed watches neither socketpair nor timer; a signal that a room's thread takes before its constructor ran goes to the server's handler and the room may sleep on. |

Smaller ones the models contain without a property of their own: a dead player shoots,
since `ShootProjectile` lacks the `IsAlive` of `MovePlayer` (`game.cpp:112`); the error
of the login page is erased elsewhere than it is drawn (`output_interface.cpp:194`,
`:196`); of two players with one login both take themselves for the last of them
(`client.cpp:66`).

### Bounds

- *Map:* six cells, five of them open: a square with a tail. It has a cycle, so that
  players change order along a projectile's way and a shot can meet a corpse or another
  projectile, a dead end, and a pair of cells with a wall between them.
- *Health:* starts at 2 with hits of 1; `HealthBound` (a constraint) stops at 3, since
  standing still heals without limit. What matters is alive, one hit from death, dead.
- *`Movements`:* 3 or 4 in place of 10: less, equal to and more than the distances.
- *`MaxUpdates`:* a tick stands for one or two periods, on time or late.
- *`Bullets`:* two in flight at most (one in `game_liveness`): the second blocks,
  shares a target, or is shot by the target.
- *Settings of the engine:* `game_field` has the shipped ones in small (a step costs,
  standing heals); in `game_liveness` a step costs nothing, so that a
  target can run for ever and only `movements_left` ends the chase, and standing costs a
  point, so that any number of players may starve in one tick.
- *Searches:* TLC evaluates constants again and again; `StraightSteps` is a closed form
  of `FirstSteps` for the maps of the runs, and `StraightStepsAssumption` has TLC
  compare the two.
- *Joiners:* the host starts with three names on its screen (`client.cpp` counts
  the host), hence two joiners; the third one in `room_early_start` and
  `room_lobby_leave` is the one that is late, or leaves.
- *`inbox` of Room:* a client sends its login in two pieces and one command at a time.
- *`HostKeys`:* the value of the uninitialised `key_state`, every one but the one that
  makes a difference in `room_early_start`; one of them in `room_game`, where the theorems of
  `RoomGameProofs` are about all of them.
- *Constraint `LeftBeforeStart`* in `room_lobby_leave` only keeps the counterexample to
  its case: no use of freed memory, nobody leaves after the start.
- *Server:* two clients, so that one can be between any two steps while the other
  comes, with its descriptor or another; one room, two where rooms meet each other's
  arguments. `Leavers` is one of the clients: the other one shows that nobody else's
  leaving stops it.
- *Shutdown:* two rooms: one may be new, asleep, stuck or reaped while the other is
  interrupted. `StartUps` are both.
- *Wire:* bytes of three values (`Base`), a socket of 32 bytes (`Capacity`), which the
  two descriptions and the lists fill when the client is slow, so that writes take a
  part; one room, host and joiner, a map of one row, two orders, of which each can meet
  the other's bytes.
- *Pages:* 76 columns are what the commands at the bottom need, 24 rows what ten rooms
  need; the map of the shipped settings (44 by 12), ten players, two keys typed ahead
  (one being read, one behind it), two descriptions that wait, a login of three, one place
  in the middle of the map, where the surroundings of a player are largest (a place at the
  edge gives a smaller page; `GameScreenFits` is about all of them).

The passing Game and Room runs about safety alone use symmetry of players and projectiles, or of
joiners; runs with liveness do not.

Deadlock is checked in `shutdown`, where a process that is over stutters explicitly
(`Ended`) and any other stop would be a server that sleeps for ever. Elsewhere stopping
is normal: a game that is over, a room that closed, clients who do nothing, a client
program that ended.

### Fairness

- `Game`: weak fairness of `Tick`. The timer is periodic and epoll reports it until it
  is read. Nothing is assumed of players.
- `Room`: weak fairness of `Run`, a thread that runs whenever an event is reported; of
  `SendLogin` and `HostReads`, which the client programs do on their own; of `Reset` and
  `TimerExpires`, the kernel's. Nothing is assumed of joining, starting, commands and
  leaving. Strong fairness of `HangUpFirst`, a batch that starts with a hang-up: in a running
  game only the tick drops a batch, and epoll appends the timer to its ready list when
  it expires anew, so it cannot stay in front of a descriptor that hung up for ever.
- `Server`: weak fairness of `Run`, of each `RoomThread` (it gets to run and takes what
  is in its socketpair) and of `SendRest` (the client sends the login with its command).
  Nothing is assumed of what clients choose, of rooms that start or close. Level-triggered
  epoll with a batch larger than the descriptors makes `Wait` take all that is ready.
- `Shutdown`: weak fairness of main's steps and of a room's constructor and test: threads
  run. Strong fairness of the hang-ups and the timer: the events last, and a signal that
  interrupts the sleep only delays them.
- `Wire`: weak fairness of both programs: whoever can read or write a byte does at last.
- `Pages`: weak fairness of `Reading`, the client's thread when it has something to read.
  Keys, descriptions and the server's leaving are nobody's duty.

## 4. Proofs

`tlapm <module>` checks them. They hold for every value of the constants that meets the
named assumptions; TLC evaluates these assumptions for the instances above.

**`GameProofs`**, for every map, number of players and projectiles, and settings that
meet `GridAssumption`, `SettingsAssumption` and `SearchAssumption`:

| Theorem | States |
| --- | --- |
| `Invariance` | `Spec => []IInv` |
| `TypeCorrect` | `Spec => []TypeOK` |
| `PlayersKept`, `BulletsKept`, `WallsKept` | `Spec => []PlayersOnMap`, `[]BulletsOnMap`, `[]WallsStand` |
| `PursuitHolds` | `Spec => []Pursuit` |
| `DeathIsFinal` | `Spec => DeadStayDead` |
| `LostAtZero` | `Spec => LosesAtZero`, if `MaxUpdates = 1` or `StayDrop >= 0` |
| `EndIsFinal` | `Spec => []EndedForGood` |
| `ImplementsElimination` | `Spec => Contest!Spec` |

`IInv` is the conjunction `TypeOK /\ PlayersOnMap /\ BulletsOnMap /\ WallsStand /\
Pursuit`. None of the parts is inductive alone. A step of a player writes two cells of
`grid`; that it does not erase another player needs `PlayersOnMap` for the others, and
that it does not erase a wall needs `WallsStand`. A player that steps onto a
projectile removes it from `bullet` and from the map, which is right only because
`BulletsOnMap` ties each projectile to one cell; `Pursuit` after a step needs that a
player cannot enter a projectile's cell and leave the projectile flying, and that
reachability does not change along a step, which is what `SearchAssumption` asks of
`NextDirection`. There is one lemma for each action (`MovePlayerIInv`, ...), below it one
step for each part the action can disturb; facts about the objects of the map
(`ObjectFacts`, `MadeObjects`) and about health (`HitNat`, `HitDead`, `DrainedNat`) are
lemmas of their own. `LostAtZero` is the other half of the run `game_late_tick`: what README
says of a health of zero holds also within a tick as long as ticks are on time or standing
still gives nothing back (`PaidWithAll`). `EndIsFinal` uses `DeathIsFinal`'s step lemma: who is alive only
shrinks. `ImplementsElimination` maps the initial state to the initial state and each
step to a step or a stutter: a command may kill, `UpdatePlayers` and `MoveProjectile` may
kill, only `FinishUpdate` decides, and only when at most one is left (`AtMostOne`). It is the safety part; the fair
part is `PlaysContest`.

**`RoomProofs`**, for any number of joiners, every way to start and to leave, and every value
`key_state` and freed data may read as (`RoomAssumption`):

| Theorem | Under | States |
| --- | --- | --- |
| `TypeCorrect` | - | `Spec => []TypeOK` |
| `EventsFound` | - | `Spec => []EventsFindTheirClient` |
| `NothingLeaks` | - | `Spec => []NoLeak` |
| `StartsOnce` | `KeyHarmless` | `Spec => []OneGame` |
| `ContestHosted` | `KeyHarmless` | `Spec => Contest!Spec` |

**`RoomGameProofs`**, in the regime of the run `room_game` (`Regime`: `KeyHarmless`, the host
starts when everybody is in the lobby, clients leave during the game only):

| Theorem | States |
| --- | --- |
| `MessagesInOrder` | `Spec => []ProtocolKept` |
| `CountsTheUntold` | `Spec => []WaitingCounts` |
| `ListsUpToDate` | `Spec => []ListsCurrent` |
| `TimerSet` | `Spec => []GameRuns` |
| `EverybodyIn` | `Spec => []GameComplete` |

The invariant comes in four layers, and each is proved with the ones before it.

- `Shape` holds whatever anybody does. `Batched`: the rest of a batch names each descriptor
  once. `LoginsRead`: how much of its login a client has in its socket follows from its own
  view and from the room's state for it, so that a read finds what it was made for.
  `PipeWaits`: an event of the socketpair is about a descriptor that is in it.
- `Watched` ties epoll, `connections_`, `players_` and the batch together. That a registered
  client has its entry is not inductive: a handler writes `connections_` for the client of
  its event, who may have been closed by an earlier one. So the events need an invariant of
  their own, `EventWatched`: one whose data is intact is about somebody who is still
  registered. There is one exception, the head of the batch between the last list and the
  call of `SendStart`, where the model has one step more than the code has calls. And
  `READY_TO_PLAY` clients must be registered, since it is their descriptor `ManageHost` and
  `UpdatePlayerList` change without looking.
- `Once` is about the start. After it the host has the state that no key can start from
  (`AfterStart`), unless `key_state`, which is never written for the creator, happens to be
  `STARTING_TO_PLAY`: this is `KeyHarmless`. `StartGame` is called when the
  countdown reaches zero, and the one way to take the counter up again is an event of the
  socketpair in the very batch in which the host started. `JoinsCounted` says that as
  long as it is there the counter covers every joiner with an event in the batch, and
  `NoSecondStart` that after the game is set up the rest of the batch cannot reach zero again.
- `Orderly` describes the three phases in the regime: `Gathering` (how far each client is on
  its way into the lobby, by its view and by the room's), `Telling` (whom the countdown has
  reached: it is the number of those who have not been told), and `Playing`.

`KeyHarmless` is needed: without it TLC has a host that is told of the start while no joiner
is after nine states.

`ContestHosted` is the refinement: `StartGame` is the only step that could put somebody into
the game, and by `StartsOnce` it does so from the contest's initial state only.

**`ServerProofs`**, for any number of clients and rooms:

| Theorem | Under | States |
| --- | --- | --- |
| `TypeCorrect` | `~LateThreads` | `Spec => []TypeOK` |
| `OwnedOnce` | `~LateThreads` | `Spec => []ServedOnce` |
| `NobodyIsForgotten` | `~LateThreads` | `Spec => LostOnlyWithARoom` |
| `AlwaysWatching` | - | `Spec => [](Watching /\ Created)` |
| `WatchedRight` | - | `Spec => []WatchedForItsState` |
| `WaitingRoomsWatched` | - | `Spec => []WaitingWatched` |
| `PromptThreadsFindTheirs` | `~LateThreads` | `Spec => []OwnArguments` |

`WaitingWatched` relates `rooms_`, `waiting_clients` and epoll, which different functions
change. Its induction needs `NobodyWaits` (a room that is not in `rooms_` has nobody
waiting, so a new one starts with an empty list) and, since a room may be reaped while
its event is in the batch, `Created`: events are about rooms that were created. `Created`
speaks of the batch that `Wait` makes, so it is proved next to `Watching` from it.
`PromptThreadsFindTheirs` is the other half of the run `server_late_thread`: the array is
right as long as every thread has read it before the next room is created; its invariant
`OneNew` says that then at most one thread has yet to read.

`OwnedOnce` and `NobodyIsForgotten` are about the places that can hold a client's descriptor:
epoll, the list of a room, the socketpair, the arguments of a thread and what a thread
serves. `Held` is the set of these places, with the index in a list, so that a
descriptor twice in one list is in two places. The invariant `Owned` adds that an event in the
batch is about a client whom the server still has (`EventsHeld`), or else `ConnectToRoom` would
hand over somebody who is gone; that nobody holds a descriptor before it is accepted
(`Nowhere`), since `Close` gives the number to the next one; and that a thread that did not read its
arguments serves nobody (`Fresh`). `Cared` states for one step what both theorems
follow from. `TypeCorrect` is more than types: that what a client sent is a prefix
of what its page says (`Sent`) and fits the entry the server has for it (`Awaited`).

**`ShutdownProofs`**, for any number of rooms and either start:

| Theorem | States |
| --- | --- |
| `Invariance` | `Spec => []IInv` |
| `TypeCorrect` | `Spec => []TypeOK` |
| `NobodyIsLeft` | `Spec => []NobodyLeftBehind` |
| `DaemonIsSafe` | `Spec => []DaemonSurvives` |

The type invariant is not repeated in the run of `Shutdown`: it is proved for every set of
rooms. `NobodyLeftBehind` follows from `Listed`, every thread that may still run is in `rooms_`,
because the destructor joins all of `rooms_`; that a room only leaves `rooms_` after its
thread ended is what reaping has to keep. `Prepared` is the order of start: first the
mask, then the handlers; it is why `DaemonSurvives` holds from the first handler on.

**`ScreenProofs`**, about `Screen` for every window with `Enough` room (at least 76
columns and 24 rows), every length of the lists and every map: `NoticesFit`,
`RoomListFits`, `LobbyFits`, `GameScreenFits` give the conditions under which each page
fits (a list of `n` entries while the `2 n` rows under the heading are there; a living
player while twice the field of view is, or the map if that is less; a dead one only while
the whole map is). The run `pages` sits at these limits.

**`PagesProofs`**, about the client as it runs, for every keyboard input, every length of the
lists and any number of descriptions:

| Theorem | Under | States |
| --- | --- | --- |
| `TypeCorrect` | `Roomy` | `Spec => []TypeOK` |
| `NothingOutside` | `Roomy` | `Spec => []ScreenHolds` |
| `LineFollows` | `Roomy` | `Spec => []CursorFollows` |
| `KeysAreWhole` | `WholeKeys` | `Spec => []KeysStayWhole` |

`Roomy` is the smallest of the windows `ScreenProofs` asks for, with the longest lists and the
whole map; `Known` says that what the client has received is no longer than that, and
`WindowHolds` is where the lemmas about single pages meet the client that chooses them.
`CursorFollows` needs `Looking`: on a page where something is typed the symbols on its line
are those of the buffer, from the first column of the field (`Line`), and the terminal's
cursor is the painter's. It is proved for one edit (append, erase, junk) at a time.

`KeysAreWhole` says that the parser never takes a part of a key, however many are typed
ahead: the input is cut where keys begin (`Cut`), and every read takes the bytes up to the
first cut (`WholeKey`). `WholeKeys` excludes what breaks it: an escape alone,
which looks like the beginning of another key; a modified arrow, which has more bytes
than `ParseLetter` takes; an escape sequence where the page asks for any key and one byte is
read.

**`WireProofs`**, for any lists, logins, maps and orders and any room on the way:

| Theorem | States |
| --- | --- |
| `TypeCorrect` | `Spec => []TypeOK` |
| `ClientUnderstands` | `Spec => []Understood` |
| `ServerHears` | `Spec => []Heard` |

`WireAssumption` says what the code's types say: every number and every length fits four
bytes; and that no login and no row of a map is empty (section 5). The bytes of a number are the
digits of it in any base, and both pairs of an encoder and a decoder are inverse to each
other (`ReadsWhatWasWritten` is the one of `write_uint32`).

`Heard` rests on `UpInv`. What the client writes in a session is one stream, given by the
constants (`StreamByte`); the client has written the first `Sent` bytes of it, the server
has taken the first `Taken`, and `up` is what is between them. `ReadLogin` asks for too many
bytes after a login that came in pieces: nothing is behind the login, because
a client in the game was sent four messages (`NotInGame`), so this part needs the other
stream's invariant.

`Understood` rests on `Flow`. The bytes that the client has begun to read, those on their way
and those of the buffer that are still to be sent are, in this order, the bytes of the fields that are
said and not decoded; the formats that the client has in `todo` are those of the rest of
its message (`Expected`), and between two messages it waits for one
that comes (`Stands`). A write of any size moves bytes from one of these pieces to the next
(`FlowSent`), a read takes some off the front; when a format is complete, what it reads is
the next field, and the `Rest` that it asks for matches the rest of the message (`HeadRead`): that
is where the nesting of vectors, strings and numbers is gone through. A
write that goes past its buffer only adds `Junk` behind everything that was said, and the client
stops there (`FlowOvershot`).

A message has any number of fields, and what is said of `FlattenSeq` and of what the formats
match is an induction over it. The library's induction theorems take an operator, which no prover here can
instantiate; `Least`, that a set of numbers which is not empty has a least element, does not, and
`Induction` follows from it for a set. So this is the one
place where what a recursive definition of a community module computes is proved for every input.

Only model-checked: all liveness, with the fairness of the refinements (the provers have no
rules for `ENABLED` and fairness), so for `Wire` that everything arrives (`SessionRuns`); and what
the searches of `Pathfinding` compute (the proofs about `Game` take what they need of them as
`SearchAssumption`).

## 5. Not modelled

- *Settings parser* (`game_settings.cpp`): read once before the first room; what the
  engine needs of the result is `SettingsAssumption`. The parser does not check it: a
  settings file with a hit of 0 or a map without walls around it is accepted.
- *Queues of the two searches*: their results are defined in the order in which the
  queues produce them; the loops are not stepped through.
- *The terminal*: raw mode, the query of the cursor, escape sequences that arrive in two
  parts, a window that changes its size while the client runs.
- *Failures of the kernel*: `malloc`, `epoll_ctl`, `timerfd`, `pipe` and thread creation
  succeed. Descriptors that the server never closes (`input_fd` of rooms that are reaped)
  show only as numbers that are not used again.
- *Empty strings* on the wire (`tcp_utilities.cpp:150` reads one as one zero byte):
  logins and room names are not empty in the client, and a map on which a player can be
  placed has no empty row.
- *`unused_ideas`*: not built.

## 6. Plan

1. **TargetSearch**: the queue loops of the two searches, ending in the values
   `Pathfinding` defines; as recursive functions, and `SearchAssumption` from them by the
   `Induction` of `WireProofs`.
2. **Settings**: which files the parser accepts against `SettingsAssumption`.
