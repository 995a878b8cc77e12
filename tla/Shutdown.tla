------------------------------ MODULE Shutdown ------------------------------
(***************************************************************************)
(* The life of the server's process: main, the constructor, Init, Run and  *)
(* the destructor of GameServer, and as much of Room::Room, Run and ~Room  *)
(* as decides when the thread of a room ends.                              *)
(*                                                                         *)
(* Both loops test a flag and then sleep in epoll_wait.  A signal makes    *)
(* epoll_wait return, unless it comes between the test and the call: then  *)
(* only an event gets the loop to test again.  The kernel gives a signal   *)
(* for the process to the main thread; pthread_kill names the thread.      *)
(* Handlers belong to the process: the constructor of a room takes SIGINT  *)
(* over from the server, for good, and its flag is one for all rooms.      *)
(***************************************************************************)
EXTENDS FiniteSets

CONSTANTS
  Rooms,    \* the rooms that may be created
  StartUps  \* how the server may be started: "DAEMON", "PROGRAM"

ASSUME ShutdownAssumption ==
  /\ IsFiniteSet(Rooms)
  /\ StartUps \subseteq {"DAEMON", "PROGRAM"} /\ StartUps # {}

VARIABLES
  process,           \* "RUNNING", "EXITED", "KILLED" (by a signal) or "ABORTED"
  type,              \* ServerStartUpType
  main,              \* where the main thread is
  masked,            \* all signals but SIGTERM and SIGINT are blocked
  onTerm, onInt,     \* the handlers: "DEFAULT", "SERVER" or "ROOM"
  exit_flag,         \* GameServer::exit_flag_
  signal_exit_flag,  \* Room::signal_exit_flag_
  rooms,             \* the keys of rooms_
  thread,            \* where each room's thread is
  mode,              \* what can wake it besides its clients
  input_open,        \* the rooms whose input_fd is open
  server_open,       \* the rooms that have not closed their server_fd_
  told,              \* the rooms that the destructor has been through
  early              \* those whose constructor had not yet taken the signal over

flags == <<exit_flag, signal_exit_flag>>
handlers == <<masked, onTerm, onInt>>
roomvars == <<rooms, thread, mode, input_open, server_open, told, early>>
vars == <<process, type, main, handlers, flags, roomvars>>

Init ==
  /\ process = "RUNNING"
  /\ type \in StartUps
  /\ main = "LOADED"
  /\ masked = FALSE
  /\ onTerm = "DEFAULT" /\ onInt = "DEFAULT"
  /\ exit_flag = FALSE /\ signal_exit_flag = FALSE
  /\ rooms = {}
  /\ thread = [r \in Rooms |-> "NONE"]
  /\ mode = [r \in Rooms |-> "LOBBY"]
  /\ input_open = {} /\ server_open = {}
  /\ told = {} /\ early = {}

Main(from, to) == process = "RUNNING" /\ main = from /\ main' = to

-----------------------------------------------------------------------------
(* Starting.                                                               *)

\* sigfillset, without SIGTERM and SIGINT
BlocksPipe == type = "DAEMON"

\* The constructor; a daemon goes on in the child of a fork
ConfigureDaemon ==
  /\ Main("LOADED", "MASKED")
  /\ masked' = BlocksPipe
  /\ UNCHANGED <<process, type, onTerm, onInt, flags, roomvars>>

ConfigureSignals ==
  /\ Main("MASKED", "CONFIGURED")
  /\ onTerm' = "SERVER" /\ onInt' = "SERVER"
  /\ UNCHANGED <<process, type, masked, flags, roomvars>>

\* Nobody catches what Init throws when there is no socket or the port is taken
InitServer ==
  /\ \/ Main("CONFIGURED", "TEST") /\ UNCHANGED process
     \/ Main("CONFIGURED", "CONFIGURED") /\ process' = "ABORTED"
  /\ UNCHANGED <<type, handlers, flags, roomvars>>

\* The second write to a client that has left raises SIGPIPE, which nobody handles
Writes == process' \in {"RUNNING"} \union (IF masked THEN {} ELSE {"KILLED"})

-----------------------------------------------------------------------------
(* GameServer::Run.                                                        *)

GoesOn == ~exit_flag

Test ==
  /\ \/ GoesOn /\ Main("TEST", "WAIT")
     \/ ~GoesOn /\ Main("TEST", "CLOSE")
  /\ UNCHANGED <<process, type, handlers, flags, roomvars>>

\* Something of the clients, which keeps the server but creates no room
Serve ==
  /\ Main("WAIT", "TEST")
  /\ Writes
  /\ UNCHANGED <<type, handlers, flags, roomvars>>

CreateRoom(r) ==
  /\ Main("WAIT", "TEST")
  /\ thread[r] = "NONE"
  /\ thread' = [thread EXCEPT ![r] = "NEW"]
  /\ rooms' = rooms \union {r}
  /\ input_open' = input_open \union {r}
  /\ server_open' = server_open \union {r}
  /\ UNCHANGED <<process, type, handlers, flags, mode, told, early>>

\* The hang-up of a room whose thread closed server_fd_: pthread_join, and the entry goes
RoomHangUp(r) ==
  /\ Main("WAIT", "TEST")
  /\ r \in rooms /\ thread[r] = "ENDED"
  /\ rooms' = rooms \ {r}
  /\ UNCHANGED <<process, type, handlers, flags, thread, mode, input_open, server_open,
                 told, early>>

-----------------------------------------------------------------------------
(* The destructor.                                                         *)

\* Closing the connections it has wakes none of the rooms
CloseConnections ==
  /\ Main("CLOSE", "KILL")
  /\ UNCHANGED <<process, type, handlers, flags, roomvars>>

\* What a handler does
Handle(handler) ==
  /\ exit_flag' = (exit_flag \/ handler = "SERVER")
  /\ signal_exit_flag' = (signal_exit_flag \/ handler = "ROOM")

\* A thread that is on its way into epoll_wait sleeps all the same
Interrupted(place, asleep, awake) == IF place = asleep THEN {asleep, awake} ELSE {place}

LeftOpen(r) == input_open  \* Fault: the room's socketpair is not closed

InputClosed(r) == input_open \ {r}

\* pthread_kill and close, for one room after the other
InterruptRoom(r) ==
  /\ Main("KILL", "KILL")
  /\ r \in rooms \ told
  /\ told' = told \union {r}
  /\ Handle(onInt)
  /\ \E place \in Interrupted(thread[r], "SLEEP", "TEST") :
       thread' = [thread EXCEPT ![r] = place]
  /\ input_open' = InputClosed(r)
  /\ early' = (IF thread[r] = "NEW" /\ onInt = "SERVER" THEN early \union {r} ELSE early)
  /\ UNCHANGED <<process, type, handlers, rooms, mode, server_open>>

AllInterrupted ==
  /\ Main("KILL", "JOIN")
  /\ rooms \subseteq told
  /\ UNCHANGED <<process, type, handlers, flags, roomvars>>

JoinedAnyway == TRUE  \* Fault: no pthread_join

Joined == \A r \in rooms : thread[r] = "ENDED"

JoinRooms ==
  /\ Main("JOIN", "DONE")
  /\ Joined
  /\ process' = "EXITED"
  /\ UNCHANGED <<type, handlers, flags, roomvars>>

-----------------------------------------------------------------------------
(* The threads of the rooms.                                               *)

Thread(r, from, to) ==
  /\ process = "RUNNING"
  /\ thread[r] = from
  /\ thread' = [thread EXCEPT ![r] = to]

\* Room::Room
Construct(r) ==
  /\ Thread(r, "NEW", "TEST")
  /\ onInt' = "ROOM"
  /\ UNCHANGED <<process, type, main, masked, onTerm, flags, rooms, mode, input_open,
                 server_open, told, early>>

EndOpen(r) ==  \* Fault: server_fd_ is not closed
  UNCHANGED <<process, type, main, handlers, flags, rooms, mode, input_open, server_open,
              told, early>>

\* Run returns, and the destructor closes server_fd_
End(r) ==
  /\ server_open' = server_open \ {r}
  /\ UNCHANGED <<process, type, main, handlers, flags, rooms, mode, input_open, told, early>>

RoomGoesOnAlways(r) == TRUE  \* Fault: only exit_flag_ is tested

RoomGoesOn(r) == ~signal_exit_flag

RoomTest(r) ==
  \/ /\ RoomGoesOn(r)
     /\ Thread(r, "TEST", "SLEEP")
     /\ UNCHANGED <<process, type, main, handlers, flags, rooms, mode, input_open,
                    server_open, told, early>>
  \/ /\ ~RoomGoesOn(r)
     /\ Thread(r, "TEST", "ENDED")
     /\ End(r)

(***************************************************************************)
(* The clients get the room into a game, into a start that goes nowhere    *)
(* (STARTING with nobody to write to, or PLAYING without a timer), or,     *)
(* when the host leaves, to its end.                                       *)
(***************************************************************************)
ClientEvent(r) ==
  \/ /\ Thread(r, "SLEEP", "TEST")
     /\ \/ UNCHANGED mode
        \/ mode[r] = "LOBBY" /\ mode' = [mode EXCEPT ![r] = "GAME"]
        \/ mode[r] = "LOBBY" /\ mode' = [mode EXCEPT ![r] = "STUCK"]
     /\ Writes
     /\ UNCHANGED <<type, main, handlers, flags, rooms, input_open, server_open, told, early>>
  \/ /\ Thread(r, "SLEEP", "ENDED")
     /\ End(r)

\* A lobby watches server_fd_, and closes it when the server hangs up
ServerHangUp(r) ==
  /\ Thread(r, "SLEEP", "TEST")
  /\ mode[r] = "LOBBY"
  /\ r \in server_open \ input_open
  /\ server_open' = server_open \ {r}
  /\ UNCHANGED <<process, type, main, handlers, flags, rooms, mode, input_open, told, early>>

\* A tick of the game, which may end it
TimerEvent(r) ==
  /\ mode[r] = "GAME"
  /\ \/ /\ Thread(r, "SLEEP", "TEST")
        /\ Writes
        /\ UNCHANGED <<type, main, handlers, flags, rooms, mode, input_open, server_open,
                       told, early>>
     \/ /\ Thread(r, "SLEEP", "ENDED")
        /\ End(r)

-----------------------------------------------------------------------------
(* The administrator.                                                      *)

Deliver(handler) ==
  /\ process = "RUNNING"
  /\ \/ /\ handler = "DEFAULT"
        /\ process' = "KILLED"
        /\ UNCHANGED <<main, flags>>
     \/ /\ handler # "DEFAULT"
        /\ Handle(handler)
        /\ main' \in Interrupted(main, "WAIT", "TEST")
        /\ UNCHANGED process
  /\ UNCHANGED <<type, handlers, roomvars>>

Terminate == Deliver(onTerm)

Interrupt == Deliver(onInt)

-----------------------------------------------------------------------------
Start == ConfigureDaemon \/ ConfigureSignals \/ InitServer

Destroy ==
  \/ CloseConnections
  \/ \E r \in Rooms : InterruptRoom(r)
  \/ AllInterrupted
  \/ JoinRooms

Ended == process # "RUNNING" /\ UNCHANGED vars

Next ==
  \/ Start
  \/ Test
  \/ Serve
  \/ Destroy
  \/ \E r \in Rooms : \/ CreateRoom(r)
                      \/ RoomHangUp(r)
                      \/ Construct(r)
                      \/ RoomTest(r)
                      \/ ClientEvent(r)
                      \/ ServerHangUp(r)
                      \/ TimerEvent(r)
  \/ Terminate
  \/ Interrupt
  \/ Ended

Spec == Init /\ [][Next]_vars

(***************************************************************************)
(* Threads run on, and events that stay are seen: a hang-up, a timer.      *)
(* Nothing is assumed of clients and of the administrator.  Whatever else  *)
(* wakes the server, a hang-up of a room that lasts is in the same batch.  *)
(***************************************************************************)
Fairness ==
  /\ WF_vars(Start) /\ WF_vars(Test) /\ WF_vars(Destroy)
  /\ \A r \in Rooms : /\ SF_vars(RoomHangUp(r))
                      /\ WF_vars(Construct(r))
                      /\ WF_vars(RoomTest(r))
                      /\ SF_vars(ServerHangUp(r))
                      /\ SF_vars(TimerEvent(r))

FairSpec == Spec /\ Fairness

-----------------------------------------------------------------------------
(***************************************************************************)
(* The types of the variables.  A thread that ended has closed its end of  *)
(* the socketpair, which is how the server learns of it.                   *)
(***************************************************************************)
TypeOK ==
  /\ process \in {"RUNNING", "EXITED", "KILLED", "ABORTED"}
  /\ type \in StartUps
  /\ main \in {"LOADED", "MASKED", "CONFIGURED", "TEST", "WAIT", "CLOSE", "KILL", "JOIN",
               "DONE"}
  /\ masked \in BOOLEAN
  /\ onTerm \in {"DEFAULT", "SERVER"} /\ onInt \in {"DEFAULT", "SERVER", "ROOM"}
  /\ exit_flag \in BOOLEAN /\ signal_exit_flag \in BOOLEAN
  /\ rooms \subseteq {r \in Rooms : thread[r] # "NONE"}
  /\ thread \in [Rooms -> {"NONE", "NEW", "TEST", "SLEEP", "ENDED"}]
  /\ mode \in [Rooms -> {"LOBBY", "GAME", "STUCK"}]
  /\ input_open \subseteq Rooms /\ early \subseteq told /\ told \subseteq rooms
  /\ server_open \subseteq {r \in Rooms : thread[r] \notin {"NONE", "ENDED"}}

(***************************************************************************)
(* When main returns no thread is left that would go on using what the     *)
(* process tears down, though rooms come and go until the destructor runs  *)
(* and some are reaped before it.                                          *)
(***************************************************************************)
NobodyLeftBehind == process = "EXITED" => \A r \in Rooms : thread[r] \in {"NONE", "ENDED"}

(***************************************************************************)
(* "Block all signals except SIGTERM and SIGINT" (server.cpp:90), before   *)
(* any thread inherits the mask: once its handlers are there, nothing its  *)
(* clients do kills a daemon.                                              *)
(***************************************************************************)
DaemonSurvives == process = "KILLED" /\ type = "DAEMON" => onTerm = "DEFAULT"

(***************************************************************************)
(* The destructor gets every room to end, wherever its thread was, asleep  *)
(* or just about to be: the lobby is woken by the hang-up of its           *)
(* socketpair, the game by its timer.  There are two ways to sleep on: a   *)
(* start that went nowhere, whose room watches neither, and a thread whose *)
(* constructor ran after the signal that was meant for it.                 *)
(***************************************************************************)
ServerEnds ==
  main = "CLOSE" ~> \/ process # "RUNNING"
                    \/ \E r \in Rooms : mode[r] = "STUCK" \/ r \in early

(***************************************************************************)
(* Once SIGINT has found a room in the process, every running game ends    *)
(* and every later room ends as soon as it begins, for good: the flag is   *)
(* static and nobody resets it.                                            *)
(***************************************************************************)
RoomsObey ==
  \A r \in Rooms :
    signal_exit_flag /\ (thread[r] = "NEW" \/ mode[r] = "GAME")
      ~> thread[r] = "ENDED" \/ process # "RUNNING"
=============================================================================
