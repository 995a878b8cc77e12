-------------------------------- MODULE Room --------------------------------
(***************************************************************************)
(* A room: server/room.cpp over server/io_context.cpp.  One thread waits   *)
(* on epoll and handles the events of a batch one by one; meanwhile the    *)
(* clients, the server thread (which hands joiners over through a          *)
(* socketpair) and the timer go on.  ManagePlayer falls through from state *)
(* to state: each of its states is an action that leaves the event at the  *)
(* head of the batch until the handler returns.                            *)
(*                                                                         *)
(* epoll is level-triggered and reports the ready descriptors in any       *)
(* order.  Sockets do not fill up, descriptor numbers are not reused, and  *)
(* SIGPIPE is blocked (as in the daemon), so a failed write throws.        *)
(*                                                                         *)
(* The code uses a data_t after DelEvent freed it.  malloc has put its own *)
(* pointers there: the type reads as none or as SERVER (0), the descriptor *)
(* as it was or as a number that is no descriptor.                         *)
(***************************************************************************)
EXTENDS Integers, FiniteSets, Sequences, SequencesExt


CONSTANTS
  Host,      \* creator_fd_
  Joiners,   \* the other clients, by the descriptor of their connection
  Junk,      \* a number that is no descriptor, read from freed memory
  ServerFd,  \* server_fd_
  TimerFd,   \* the timer of io_context_
  HostKeys,  \* what the uninitialised key_state of the creator may be
  Starting,  \* when the host starts the game: at "any" time it can, with no list on
             \* its way ("settled"), or also with every joiner on it ("complete")
  Active,    \* the clients that send commands in the game
  Leavers,   \* the clients that may leave
  Leaving    \* when they may: at "any" time, or once the "game" runs for them

Clients == Joiners \union {Host}

Fds == Clients \union {Junk}

Watchable == Clients \union {ServerFd, TimerFd}

PlayerStates ==
  {"ASKING_LOGIN_SIZE", "ASKING_LOGIN", "WRITE_PLAYERS_NUM", "WRITE_PLAYERS",
   "READY_TO_PLAY", "STARTING_TO_PLAY"}

ASSUME RoomAssumption ==
  /\ IsFiniteSet(Joiners)
  /\ Host \notin Joiners
  /\ Junk \notin Clients
  /\ ServerFd \notin Clients \union {Junk}
  /\ TimerFd \notin Clients \union {Junk, ServerFd}
  /\ HostKeys \subseteq PlayerStates /\ HostKeys # {}
  /\ Starting \in {"any", "settled", "complete"}
  /\ Active \subseteq Clients
  /\ Leavers \subseteq Clients
  /\ Leaving \in {"any", "game"}

VARIABLES
  \* the room
  state,     \* state_
  running,   \* the room's thread is in its loop: ~exit_flag_
  conn,      \* connections_: the state of each entry, "NONE" without an entry
  key,       \* key_state of the entries
  players,   \* the keys of players_
  waiting,   \* waiting_persons_
  alive,     \* the living players of game_
  ended,     \* game_.IsEnded()
  handler,   \* "ManageEvents" or "ManageGame", whichever got the last batch
  batch,     \* the events of the batch that are not handled yet
  \* the kernel
  interest,  \* what is registered with epoll: "NONE", "READ" or "WRITE"
  expired,   \* the timer has expired since it was last read
  pipe,      \* descriptors on their way from the server to the room
  inbox,     \* what each client sent and the room has not read
  peer,      \* the client's end: "open", "fin", "poked" (written to after fin), "rst"
  closed,    \* sockets the room closed
  \* the clients
  view,      \* how far a client got through the protocol
  list,      \* the players named in the last list sent to a client
  shown,     \* the players the host sees on its screen
  unread     \* a list sent to the host is not on its screen yet

entries == <<conn, key, players, waiting>>
game == <<alive, ended>>
kernel == <<expired, pipe, inbox, peer, closed>>
clients == <<view, list, shown, unread>>
vars == <<state, running, entries, game, handler, batch, interest, kernel, clients>>

Views == {"OUT", "JOINED", "SIZED", "LOGIN", "LOBBY", "STARTED", "PLAYING", "BROKEN"}

Init ==
  /\ state = "WAITING"
  /\ running = TRUE
  /\ conn = [f \in Fds |-> IF f = Host THEN "ASKING_LOGIN_SIZE" ELSE "NONE"]
  /\ \E k \in HostKeys :
       key = [f \in Fds |-> IF f = Host THEN k ELSE "ASKING_LOGIN_SIZE"]
  /\ players = {}
  /\ waiting = 0
  /\ alive = {} /\ ended = FALSE
  /\ handler = "ManageEvents" /\ batch = <<>>
  /\ interest = [f \in Watchable |-> CASE f = Host -> "WRITE"
                                       [] f = ServerFd -> "READ"
                                       [] OTHER -> "NONE"]
  /\ expired = FALSE
  /\ pipe = <<>>
  \* the server creates the room when more than the command has arrived
  /\ inbox = [f \in Clients |-> IF f = Host THEN <<"SIZE">> ELSE <<>>]
  /\ peer = [f \in Clients |-> "open"]
  /\ closed = {}
  /\ view = [f \in Clients |-> IF f = Host THEN "SIZED" ELSE "OUT"]
  /\ list = [f \in Clients |-> {}]
  /\ shown = {} /\ unread = FALSE

-----------------------------------------------------------------------------
(* epoll.                                                                  *)

\* EPOLLIN, were it asked for
Readable(f) ==
  CASE f = ServerFd -> pipe # <<>>
    [] f = TimerFd -> expired
    [] OTHER -> inbox[f] # <<>> \/ peer[f] # "open"

\* EPOLLHUP or EPOLLERR, reported whether asked for or not
HungUp(f) == f \in Clients /\ peer[f] = "rst"

\* Whoever is watched for reading is readable when its peer is gone
HasEvents(f) ==
  \/ interest[f] = "WRITE"
  \/ interest[f] = "READ" /\ Readable(f)

\* data says what event->data.ptr has become by the time the handler uses it
Event(f) == [fd |-> f, in |-> interest[f] = "READ" /\ Readable(f),
             hup |-> HungUp(f), data |-> "ok"]

\* IOContext::Wait, and the choice Room::Run makes between its two handlers
Wait ==
  /\ running
  /\ batch = <<>>
  /\ \E order \in SetToSeqs({f \in Watchable : HasEvents(f)}) :
       batch' = [i \in DOMAIN order |-> Event(order[i])]
  /\ batch' # <<>>
  /\ handler' = (IF state = "PLAYING" THEN "ManageGame" ELSE "ManageEvents")
  /\ UNCHANGED <<state, running, entries, game, interest, kernel, clients>>

Handling(f, by) ==
  /\ handler = by
  /\ batch # <<>>
  /\ Head(batch).fd = f
  /\ Head(batch).data = "ok"

Goes(f, by) == Handling(f, by) /\ ~Head(batch).hup

\* The handler is done with the event
NextEvent ==
  /\ batch' = Tail(batch)
  /\ UNCHANGED <<running, handler>>

\* The handler goes on with the event
Continue == UNCHANGED <<running, handler, batch>>

\* What is left to do with the event is now decided by data
ContinueWith(data) ==
  /\ batch' = [batch EXCEPT ![1].data = data]
  /\ UNCHANGED <<running, handler>>

\* exit_flag_, and the destructor: every entry of connections_ is closed
Exit ==
  /\ running' = FALSE
  /\ batch' = <<>>
  /\ closed' = closed \union {f \in Clients : conn[f] # "NONE"}
  /\ conn' = [f \in Fds |-> "NONE"]
  /\ interest' = [f \in Watchable |-> "NONE"]
  /\ UNCHANGED handler

\* An exception that only Run catches: the rest of the batch is lost
DropBatch ==
  /\ batch' = <<>>
  /\ UNCHANGED <<running, handler>>

\* For the creator ManageEvents catches it and gives up the room
Throw(f, c, i) ==
  IF f = Host THEN Exit
  ELSE DropBatch /\ conn' = c /\ interest' = i /\ UNCHANGED closed

-----------------------------------------------------------------------------
(* What the clients make of the messages they get.  A list sent after the  *)
(* first one is preceded by the command UPDATE_PLAYERS in the same buffer. *)

After(v, message) ==
  CASE v = "LOGIN" /\ message = "LIST" -> "LOBBY"
    [] v = "LOBBY" /\ message = "UPDATE" -> "LOBBY"
    [] v = "LOBBY" /\ message = "START" -> "STARTED"
    [] v \in {"STARTED", "PLAYING"} /\ message = "INFO" -> "PLAYING"
    [] OTHER -> "BROKEN"

CanWrite(f) == f \in Clients \ closed /\ peer[f] # "rst"

\* A write that reaches a client which has closed its end is answered by a reset
Send(to, message) ==
  /\ view' = [f \in Clients |-> IF f \in to /\ peer[f] = "open"
                                THEN After(view[f], message) ELSE view[f]]
  /\ peer' = [f \in Clients |-> IF f \in to /\ peer[f] = "fin" THEN "poked" ELSE peer[f]]

ReadMessagePeeked(f) == UNCHANGED inbox  \* Fault: what was read stays there

ReadMessage(f) == inbox' = [inbox EXCEPT ![f] = Tail(@)]

-----------------------------------------------------------------------------
(* ManageEvents.                                                           *)

CloseConnectionKept(f) ==  \* Fault: the entry stays in connections_
  /\ interest' = [interest EXCEPT ![f] = "NONE"]
  /\ closed' = closed \union {f}
  /\ UNCHANGED conn

CloseConnectionWatched(f) ==  \* Fault: no DelEvent
  /\ conn' = [conn EXCEPT ![f] = "NONE"]
  /\ closed' = closed \union {f}
  /\ UNCHANGED interest

CloseConnectionOpen(f) ==  \* Fault: no close
  /\ conn' = [conn EXCEPT ![f] = "NONE"]
  /\ interest' = [interest EXCEPT ![f] = "NONE"]
  /\ UNCHANGED closed

\* What is left to read is thrown away
CloseConnection(f) ==
  /\ conn' = [conn EXCEPT ![f] = "NONE"]
  /\ interest' = [interest EXCEPT ![f] = "NONE"]
  /\ closed' = closed \union {f}

UpdatePlayerListNever(c, i) ==  \* Fault: nobody is told
  conn' = c /\ interest' = i

\* UpdatePlayerList, from the entries c and the interest i
UpdatePlayerList(c, i) ==
  LET ready == {f \in Clients : c[f] = "READY_TO_PLAY"}
  IN  /\ conn' = [f \in Fds |-> IF f \in ready THEN "WRITE_PLAYERS_NUM" ELSE c[f]]
      /\ interest' = [f \in Watchable |-> IF f \in ready THEN "WRITE" ELSE i[f]]

HangUp(f) ==
  /\ Handling(f, "ManageEvents")
  /\ Head(batch).hup
  /\ \/ f = Host /\ Exit
     \/ f # Host /\ CloseConnection(f) /\ NextEvent
  /\ UNCHANGED <<state, key, players, waiting, game, expired, pipe, inbox, peer, clients>>

(***************************************************************************)
(* A client that may play is readable: it left.  RemovePlayer frees the    *)
(* data of its event, and ManagePlayer is then called with the descriptor  *)
(* found there, makes an entry for it and cannot read from it.             *)
(***************************************************************************)
PlayerExit(f) ==
  /\ Goes(f, "ManageEvents")
  /\ f \in Joiners
  /\ conn[f] = "READY_TO_PLAY"
  /\ Head(batch).in
  /\ players' = players \ {f}
  /\ closed' = closed \union {f}
  /\ \E g \in {f, Junk} :
       UpdatePlayerList([conn EXCEPT ![f] = "NONE", ![g] = "ASKING_LOGIN_SIZE"],
                        [interest EXCEPT ![f] = "NONE"])
  /\ DropBatch
  /\ UNCHANGED <<state, key, waiting, game, expired, pipe, inbox, peer, clients>>

ReadLoginSizeAnew(f) ==  \* Fault: the state stays, and the login is taken for a size
  /\ Goes(f, "ManageEvents")
  /\ conn[f] = "ASKING_LOGIN_SIZE"
  /\ inbox[f] # <<>>
  /\ ReadMessage(f)
  /\ NextEvent
  /\ UNCHANGED <<state, entries, game, interest, expired, pipe, peer, closed, clients>>

ReadLoginSize(f) ==
  /\ Goes(f, "ManageEvents")
  /\ conn[f] = "ASKING_LOGIN_SIZE"
  /\ \/ /\ inbox[f] # <<>>
        /\ ReadMessage(f)
        /\ conn' = [conn EXCEPT ![f] = "ASKING_LOGIN"]
        /\ Continue
        /\ UNCHANGED <<interest, closed>>
     \/ /\ inbox[f] = <<>>  \* end of file, or nothing there yet
        /\ Throw(f, conn, interest)
        /\ UNCHANGED inbox
  /\ UNCHANGED <<state, key, players, waiting, game, expired, pipe, peer, clients>>

ReadLogin(f) ==
  /\ Goes(f, "ManageEvents")
  /\ conn[f] = "ASKING_LOGIN"
  /\ \/ /\ inbox[f] # <<>>
        /\ ReadMessage(f)
        /\ players' = players \union {f}
        /\ UpdatePlayerList([conn EXCEPT ![f] = "WRITE_PLAYERS_NUM"],
                            [interest EXCEPT ![f] = "WRITE"])
        /\ Continue
        /\ UNCHANGED closed
     \/ /\ inbox[f] = <<>>
        /\ peer[f] = "open"
        /\ NextEvent
        /\ UNCHANGED <<conn, interest, closed, inbox, players>>
     \/ /\ inbox[f] = <<>>
        /\ peer[f] # "open"
        /\ Throw(f, conn, interest)
        /\ UNCHANGED <<inbox, players>>
  /\ UNCHANGED <<state, key, waiting, game, expired, pipe, peer, clients>>

LoggedIn(f) == conn[f] \notin {"NONE", "ASKING_LOGIN_SIZE", "ASKING_LOGIN"}

\* Looking up the state of every player makes the entries that are missing
LookedUp ==
  [f \in Fds |-> IF f \in players /\ conn[f] = "NONE" THEN "ASKING_LOGIN_SIZE"
                                                      ELSE conn[f]]

Starts(f) == key[f] = "STARTING_TO_PLAY"

(***************************************************************************)
(* WRITE_PLAYERS_NUM and WRITE_PLAYERS: the list is made and written.  The *)
(* state WRITE_PLAYERS lasts only when the write failed, and then it fails *)
(* again.                                                                  *)
(***************************************************************************)
SendList(f) ==
  /\ Goes(f, "ManageEvents")
  /\ conn[f] \in {"WRITE_PLAYERS_NUM", "WRITE_PLAYERS"}
  /\ \/ /\ CanWrite(f)
        /\ Send({f}, IF view[f] = "LOGIN" THEN "LIST" ELSE "UPDATE")
        /\ list' = [list EXCEPT ![f] = {Host} \union {p \in players : LoggedIn(p)}]
        /\ unread' = (unread \/ f = Host)
        /\ \/ /\ Starts(f)
              /\ conn' = [LookedUp EXCEPT ![f] = "STARTING_TO_PLAY"]
              /\ interest' = [interest EXCEPT ![f] = "NONE"]
              /\ Continue
           \/ /\ ~Starts(f)
              /\ conn' = [LookedUp EXCEPT ![f] = "READY_TO_PLAY"]
              /\ interest' = [interest EXCEPT ![f] = "READ"]
              /\ NextEvent
        /\ UNCHANGED closed
     \/ /\ ~CanWrite(f)
        /\ Throw(f, [LookedUp EXCEPT ![f] = "WRITE_PLAYERS"], interest)
        /\ UNCHANGED <<view, peer, list, unread>>
  /\ UNCHANGED <<state, key, players, waiting, game, expired, pipe, inbox, shown>>

\* A handler whose event data may have been freed on the way looks at it once more
Return(f) == IF interest[f] = "NONE" THEN ContinueWith("freed") ELSE NextEvent

NobodyWaitsEarly(n) == n <= 1  \* Fault: off by one
NobodyWaitsAgain(n) == n <= 0  \* Fault: also below zero
NobodyWaitsNever(n) == n < 0   \* Fault: one START_GAME too many

NobodyWaits(n) == n = 0

SendStart(f) ==
  /\ Goes(f, "ManageEvents")
  /\ conn[f] = "STARTING_TO_PLAY"
  /\ \/ /\ CanWrite(f)
        /\ Send({f}, "START")
        /\ waiting' = waiting - 1
        /\ IF NobodyWaits(waiting') THEN ContinueWith("start") ELSE Return(f)
        /\ UNCHANGED <<conn, interest, closed>>
     \/ /\ ~CanWrite(f)
        /\ Throw(f, conn, interest)
        /\ UNCHANGED <<view, peer, waiting>>
  /\ UNCHANGED <<state, key, players, game, expired, pipe, inbox, list, shown, unread>>

Entries == {f \in Fds : conn[f] # "NONE"}

Registered(f) == f \in Clients /\ interest[f] # "NONE"

ReadFrom(some) ==
  interest' = [f \in Watchable |-> IF f \in some THEN "READ" ELSE interest[f]]

(***************************************************************************)
(* StartGame.  An entry that is not registered makes ChangeEvent throw     *)
(* when the loop gets there, a connection that was reset makes SendBuffers *)
(* throw; the timer is set when neither happened.                          *)
(***************************************************************************)
StartGame(f) ==
  /\ handler = "ManageEvents"
  /\ batch # <<>>
  /\ Head(batch).fd = f /\ Head(batch).data = "start"
  /\ state' = "PLAYING"
  /\ alive' = players \ {Host}
  /\ \/ /\ \A g \in Entries : Registered(g) /\ CanWrite(g)
        /\ conn' = conn
        /\ interest' = [g \in Watchable |-> IF g \in Entries \union {TimerFd}
                                            THEN "READ" ELSE interest[g]]
        /\ Send(Entries, "INFO")
        /\ NextEvent
        /\ UNCHANGED closed
     \/ /\ \A g \in Entries : Registered(g)
        /\ \E g \in Entries : ~CanWrite(g)
        /\ \E some \in SUBSET {g \in Entries : CanWrite(g)} : Send(some, "INFO")
        /\ Throw(f, conn, [g \in Watchable |-> IF g \in Entries THEN "READ"
                                                                ELSE interest[g]])
     \/ /\ \E g \in Entries : ~Registered(g)
        /\ \E some \in SUBSET {g \in Entries : Registered(g)} :
             Throw(f, conn, [g \in Watchable |-> IF g \in some THEN "READ"
                                                               ELSE interest[g]])
        /\ UNCHANGED <<view, peer>>
  /\ UNCHANGED <<key, players, waiting, ended, expired, pipe, inbox, list, shown, unread>>

(***************************************************************************)
(* ManageHost: the only command is START_GAME_HOST.  The data of server_fd *)
(* is freed, though one of its events may be further down the batch.       *)
(***************************************************************************)
ManageHost ==
  /\ Goes(Host, "ManageEvents")
  /\ conn[Host] = "READY_TO_PLAY"
  /\ \/ /\ inbox[Host] # <<>>
        /\ ReadMessage(Host)
        /\ state' = "STARTING"
        /\ LET ready == {f \in Clients : conn[f] = "READY_TO_PLAY"}
           IN  /\ conn' = [f \in Fds |-> IF f \in ready THEN "STARTING_TO_PLAY"
                                                        ELSE conn[f]]
               /\ key' = [f \in Fds |-> IF conn[f] # "NONE" /\ f \notin ready
                                        THEN "STARTING_TO_PLAY" ELSE key[f]]
               /\ interest' = [f \in Watchable |-> CASE f = ServerFd -> "NONE"
                                                     [] f \in ready \ {Host} -> "WRITE"
                                                     [] OTHER -> interest[f]]
        /\ batch' = [i \in 1 .. Len(batch) - 1 |->
                       IF batch[i + 1].fd = ServerFd
                       THEN [batch[i + 1] EXCEPT !.data = "freed"] ELSE batch[i + 1]]
        /\ UNCHANGED <<running, handler, closed>>
     \/ /\ inbox[Host] = <<>>
        /\ Exit
        /\ UNCHANGED <<state, key, inbox>>
  /\ UNCHANGED <<players, waiting, game, expired, pipe, peer, clients>>

CountedNot(n) == n  \* Fault: waiting_persons_ is not increased

Counted(n) == n + 1

JoinerKeyStarting == "STARTING_TO_PLAY"  \* Fault: as if the host had started

JoinerKey == "READY_TO_PLAY"

AddEvent(f) == [interest EXCEPT ![f] = "READ"]

\* AddEvent throws when the descriptor is closed, no descriptor, or watched already
AddPlayer(f) ==
  /\ conn' = [conn EXCEPT ![f] = "ASKING_LOGIN_SIZE"]
  /\ key' = [key EXCEPT ![f] = JoinerKey]
  /\ players' = players \union {f}
  /\ IF f \in Clients \ closed /\ interest[f] = "NONE"
     THEN /\ interest' = AddEvent(f)
          /\ waiting' = Counted(waiting)
          /\ NextEvent
     ELSE /\ DropBatch
          /\ UNCHANGED <<interest, waiting>>

Receive ==
  /\ Handling(ServerFd, "ManageEvents")
  /\ pipe' = Tail(pipe)
  /\ AddPlayer(Head(pipe))
  /\ UNCHANGED <<state, game, expired, inbox, peer, closed, clients>>

(***************************************************************************)
(* The type of a freed data_t reads as none, and the event is passed over, *)
(* or as SERVER.  Then the descriptor is still server_fd_, or the read     *)
(* fails and player_fd is what an earlier call left on the stack.          *)
(***************************************************************************)
Freed ==
  /\ handler = "ManageEvents"
  /\ batch # <<>>
  /\ Head(batch).data = "freed"
  /\ \/ NextEvent /\ UNCHANGED <<entries, interest, pipe>>
     \/ /\ Head(batch).fd = ServerFd
        /\ pipe' = Tail(pipe)
        /\ AddPlayer(Head(pipe))
     \/ /\ \E g \in (players \ {Host}) \union {Junk} : AddPlayer(g)
        /\ UNCHANGED pipe
  /\ UNCHANGED <<state, game, expired, inbox, peer, closed, clients>>

-----------------------------------------------------------------------------
(* ManageGame.  What commands and ticks do to the players is the subject   *)
(* of module Game; here they only take lives.                              *)

GameHangUpStays(f) ==  \* Fault: the room goes on without its host
  /\ Handling(f, "ManageGame")
  /\ Head(batch).hup
  /\ alive' = alive \ {f} /\ CloseConnection(f) /\ NextEvent
  /\ UNCHANGED <<state, key, players, waiting, ended, expired, pipe, inbox, peer, clients>>

GameHangUp(f) ==
  /\ Handling(f, "ManageGame")
  /\ Head(batch).hup
  /\ \/ f = Host /\ Exit /\ UNCHANGED alive
     \/ f # Host /\ alive' = alive \ {f} /\ CloseConnection(f) /\ NextEvent
  /\ UNCHANGED <<state, key, players, waiting, ended, expired, pipe, inbox, peer, clients>>

\* A command takes at most one life; a client that cannot be read is dropped
ManagePlayerEvent(f) ==
  /\ Goes(f, "ManageGame")
  /\ f \in Joiners
  /\ \/ /\ inbox[f] # <<>>
        /\ ReadMessage(f)
        /\ alive' \in {alive} \union {alive \ {p} : p \in alive}
        /\ UNCHANGED <<conn, interest, closed>>
     \/ /\ inbox[f] = <<>>
        /\ alive' = alive \ {f}
        /\ CloseConnection(f)
        /\ UNCHANGED inbox
  /\ NextEvent
  /\ UNCHANGED <<state, key, players, waiting, ended, expired, pipe, peer, clients>>

\* ManageGame does not read what the creator sends
IgnoreHost ==
  /\ Goes(Host, "ManageGame")
  /\ NextEvent
  /\ UNCHANGED <<state, entries, game, interest, kernel, clients>>

GameOverAtTwo(n) == n <= 2  \* Fault: the last two do not play it out

GameOver(n) == n <= 1

\* SendBuffers may throw half way, and then nobody asks IsEnded
ApplyGameChanges ==
  /\ Handling(TimerFd, "ManageGame")
  /\ expired' = FALSE
  /\ alive' \in SUBSET alive
  /\ ended' = (ended \/ GameOver(Cardinality(alive')))
  /\ \/ /\ \A f \in Entries : CanWrite(f)
        /\ Send(Entries, "INFO")
        /\ IF ended' THEN Exit ELSE NextEvent /\ UNCHANGED <<conn, interest, closed>>
     \/ /\ \E f \in Entries : ~CanWrite(f)
        /\ \E some \in SUBSET {f \in Entries : CanWrite(f)} : Send(some, "INFO")
        /\ DropBatch
        /\ UNCHANGED <<conn, interest, closed>>
  /\ UNCHANGED <<state, key, players, waiting, pipe, inbox, list, shown, unread>>

-----------------------------------------------------------------------------
(* The clients, the server and the timer.                                  *)

room == <<state, running, entries, game, handler, batch, interest>>

\* The server hands over whoever asks to join, also once the game has started
Join(f) ==
  /\ view[f] = "OUT"
  /\ running
  /\ view' = [view EXCEPT ![f] = "JOINED"]
  /\ pipe' = Append(pipe, f)
  /\ UNCHANGED <<room, expired, inbox, peer, closed, list, shown, unread>>

Present(f) == peer[f] = "open" /\ f \notin closed

SendLogin(f) ==
  /\ Present(f)
  /\ \/ /\ view[f] = "JOINED"
        /\ view' = [view EXCEPT ![f] = "SIZED"]
        /\ inbox' = [inbox EXCEPT ![f] = Append(@, "SIZE")]
     \/ /\ view[f] = "SIZED"
        /\ view' = [view EXCEPT ![f] = "LOGIN"]
        /\ inbox' = [inbox EXCEPT ![f] = Append(@, "LOGIN")]
  /\ UNCHANGED <<room, expired, pipe, peer, closed, list, shown, unread>>

\* The host's screen shows the last list
HostReads ==
  /\ Present(Host)
  /\ view[Host] = "LOBBY"
  /\ unread
  /\ shown' = list[Host]
  /\ unread' = FALSE
  /\ UNCHANGED <<room, kernel, view, list>>

(***************************************************************************)
(* The host presses its key.  It sleeps 50 ms between reading a list and   *)
(* looking at the keyboard, so a start with lists on their way takes a     *)
(* slow room or a login at that moment.  A list that the host has not read *)
(* it takes for the description of the game.                               *)
(***************************************************************************)
Settled ==
  \A f \in Clients : conn[f] \notin {"WRITE_PLAYERS_NUM", "WRITE_PLAYERS"}

HostStart ==
  /\ Present(Host)
  /\ view[Host] = "LOBBY"
  /\ Cardinality(shown) >= 3
  /\ Starting # "any" => Settled /\ ~unread
  /\ Starting = "complete" => shown = Clients
  /\ view' = [view EXCEPT ![Host] = IF unread THEN "BROKEN" ELSE "STARTED"]
  /\ inbox' = [inbox EXCEPT ![Host] = Append(@, "START")]
  /\ UNCHANGED <<room, expired, pipe, peer, closed, list, shown, unread>>

\* At most one command of a client is on its way
Command(f) ==
  /\ f \in Active
  /\ Present(f)
  /\ view[f] = "PLAYING"
  /\ inbox[f] = <<>>
  /\ inbox' = [inbox EXCEPT ![f] = <<"COMMAND">>]
  /\ UNCHANGED <<room, expired, pipe, peer, closed, clients>>

\* A client that closes with data unread resets the connection at once
Leave(f) ==
  /\ f \in Leavers
  /\ Present(f)
  /\ view[f] # "OUT"
  /\ Leaving = "game" => view[f] = "PLAYING"
  /\ peer' = [peer EXCEPT ![f] = "fin"] \/ peer' = [peer EXCEPT ![f] = "rst"]
  /\ UNCHANGED <<room, expired, pipe, inbox, closed, clients>>

Reset(f) ==
  /\ peer[f] = "poked"
  /\ peer' = [peer EXCEPT ![f] = "rst"]
  /\ UNCHANGED <<room, expired, pipe, inbox, closed, clients>>

TimerExpires ==
  /\ interest[TimerFd] = "READ"
  /\ expired' = TRUE
  /\ UNCHANGED <<room, pipe, inbox, peer, closed, clients>>

-----------------------------------------------------------------------------
ManageEvents ==
  \/ \E f \in Clients : \/ HangUp(f)
                        \/ ReadLoginSize(f)
                        \/ ReadLogin(f)
                        \/ SendList(f)
                        \/ SendStart(f)
                        \/ StartGame(f)
  \/ \E f \in Joiners : PlayerExit(f)
  \/ ManageHost
  \/ Receive
  \/ Freed

ManageGame ==
  \/ \E f \in Clients : GameHangUp(f)
  \/ \E f \in Joiners : ManagePlayerEvent(f)
  \/ IgnoreHost
  \/ ApplyGameChanges

Run == Wait \/ ManageEvents \/ ManageGame

Environment ==
  \/ \E f \in Joiners : Join(f)
  \/ \E f \in Clients : SendLogin(f) \/ Command(f) \/ Leave(f) \/ Reset(f)
  \/ HostReads
  \/ HostStart
  \/ TimerExpires

Next == Run \/ Environment

Spec == Init /\ [][Next]_vars

(***************************************************************************)
(* The room's thread runs on whenever there is an event.  A descriptor     *)
(* that hangs up is not for ever reported behind others whose handling     *)
(* drops the batch: the timer, the only one of these in a running game,    *)
(* goes to the end of epoll's list each time it expires.  The clients'     *)
(* programs send the login and read lists on their own, the kernel         *)
(* answers a write after a close, and the timer is periodic.               *)
(***************************************************************************)
HangUpFirst == Wait /\ Head(batch').hup

Fairness ==
  /\ WF_vars(Run)
  /\ SF_vars(HangUpFirst)
  /\ \A f \in Clients : WF_vars(SendLogin(f)) /\ WF_vars(Reset(f))
  /\ WF_vars(HostReads)
  /\ WF_vars(TimerExpires)

FairSpec == Spec /\ Fairness

-----------------------------------------------------------------------------
Messages == {"SIZE", "LOGIN", "START", "COMMAND"}

(***************************************************************************)
(* The types of the variables.  A batch has one event of a descriptor, and *)
(* what is left of a login does not get mixed up with what follows it.     *)
(***************************************************************************)
TypeOK ==
  /\ state \in {"WAITING", "STARTING", "PLAYING"}
  /\ running \in BOOLEAN
  /\ conn \in [Fds -> PlayerStates \union {"NONE"}]
  /\ key \in [Fds -> PlayerStates]
  /\ players \subseteq Fds
  /\ waiting \in Int
  /\ alive \subseteq Fds \ {Host}
  /\ ended \in BOOLEAN
  /\ handler \in {"ManageEvents", "ManageGame"}
  /\ batch \in Seq([fd : Watchable, in : BOOLEAN, hup : BOOLEAN,
                    data : {"ok", "freed", "start"}])
  /\ \A i, k \in DOMAIN batch : batch[i].fd = batch[k].fd => i = k
  /\ interest \in [Watchable -> {"NONE", "READ", "WRITE"}]
  /\ expired \in BOOLEAN
  /\ pipe \in Seq(Joiners)
  /\ inbox \in [Clients -> {<<>>, <<"SIZE", "LOGIN">>} \union {<<m>> : m \in Messages}]
  /\ peer \in [Clients -> {"open", "fin", "poked", "rst"}]
  /\ closed \subseteq Clients
  /\ view \in [Clients -> Views]
  /\ list \in [Clients -> SUBSET Fds]
  /\ shown \subseteq Fds
  /\ unread \in BOOLEAN

(***************************************************************************)
(* epoll, connections_ and players_ are kept in step by different          *)
(* functions: an event of a client always finds its entry and, for a       *)
(* joiner, its player, and never a closed descriptor.                      *)
(***************************************************************************)
EventsFindTheirClient ==
  \A f \in Clients : interest[f] # "NONE" =>
    /\ conn[f] # "NONE"
    /\ f \notin closed
    /\ f # Host => f \in players

(***************************************************************************)
(* No descriptor handed to the room is lost: while the client's socket is  *)
(* open it has an entry, and the destructor closes every entry.            *)
(***************************************************************************)
NoLeak ==
  \A f \in Clients :
    (f = Host \/ f \in players) /\ conn[f] = "NONE" => f \in closed

(***************************************************************************)
(* The game is set up once, however waiting_persons_ gets to zero and      *)
(* however often START_GAME is written, and the timer only runs over a     *)
(* game that was set up.                                                   *)
(***************************************************************************)
OneGame ==
  /\ batch # <<>> /\ Head(batch).data = "start" => state = "STARTING"
  /\ interest[TimerFd] # "NONE" => state = "PLAYING"

(***************************************************************************)
(* While the timer runs every living player has a connection, so that its  *)
(* loss is noticed and the game can end, and everybody who is connected    *)
(* was sent the map and is listened to.                                    *)
(***************************************************************************)
GameComplete ==
  interest[TimerFd] # "NONE" =>
    /\ alive \subseteq Entries
    /\ \A f \in Entries : /\ interest[f] = "READ"
                          /\ peer[f] = "open" => view[f] = "PLAYING"

(***************************************************************************)
(* The messages of the room make sense to the clients: START_GAME comes    *)
(* once, no list after it, and the map neither before it nor in its place. *)
(* The host, which is not told START_GAME, gets no list after it asked for *)
(* the game.                                                               *)
(***************************************************************************)
ProtocolKept == \A f \in Clients : view[f] # "BROKEN"

(***************************************************************************)
(* waiting_persons_ counts the joiners that were not told of the start,    *)
(* and all of them are about to be told.                                   *)
(***************************************************************************)
WaitingCounts ==
  state = "STARTING" =>
    /\ waiting = Cardinality({f \in Joiners : view[f] = "LOBBY"})
    /\ \A f \in Joiners : conn[f] = "STARTING_TO_PLAY" /\ interest[f] = "WRITE"

(***************************************************************************)
(* README.md: "Then you in room list of current players updates            *)
(* automatically".  Whoever the room considers up to date was last sent    *)
(* the players that are logged in and connected.                           *)
(***************************************************************************)
ListsCurrent ==
  \A f \in Clients : conn[f] = "READY_TO_PLAY" /\ state = "WAITING" =>
    list[f] = {Host} \union {p \in players : LoggedIn(p)}

(***************************************************************************)
(* README.md: "you can start game, then you want it".  A room that handled *)
(* the start of the game has its timer running.                            *)
(***************************************************************************)
GameRuns ==
  running /\ state = "PLAYING" /\ batch = <<>> => interest[TimerFd] = "READ"

\* Before the game everybody who may join it, through freed memory too, is still in
Contest == INSTANCE Elimination WITH
             Players <- Fds \ {Host},
             alive <- IF state = "PLAYING" THEN alive ELSE Fds \ {Host},
             over <- ended

(***************************************************************************)
(* The room lets nobody into a game that has begun, loses nobody's death   *)
(* and takes no end back, whatever it sets up, closes and is told in which *)
(* order: it goes through the elimination that the engine implements.      *)
(***************************************************************************)
HostsContest == Contest!Spec

\* Whoever joins gets to the lobby while the room waits for the host
LobbyReached ==
  \A f \in Joiners : view[f] = "LOGIN" ~> view[f] # "LOGIN" \/ ~Present(f) \/ ~running

\* Once the host asked for it the game runs, and everybody is in it
GameBegins ==
  (view[Host] = "STARTED" /\ Present(Host)) ~>
     /\ interest[TimerFd] = "READ"
     /\ \A f \in Clients : view[f] = "PLAYING"

(***************************************************************************)
(* The room closes when at most one player lives, even though a client     *)
(* that is gone makes SendBuffers throw before IsEnded is asked.           *)
(***************************************************************************)
RoomCloses ==
  (interest[TimerFd] = "READ" /\ Cardinality(alive) <= 1) ~> ~running

(***************************************************************************)
(* A host that left in the game is noticed, though nothing reads what it   *)
(* sends: the next tick writes to it.                                      *)
(***************************************************************************)
HostGoneCloses == (peer[Host] # "open") ~> ~running
=============================================================================
