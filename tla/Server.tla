------------------------------- MODULE Server -------------------------------
(***************************************************************************)
(* The game manager: server/server.cpp over server/io_context.cpp.  One    *)
(* thread accepts clients, sends each the list of rooms, reads a command,  *)
(* and hands the client's descriptor on: to a thread of its own when it    *)
(* creates a room, or through the room's socketpair when it joins one.     *)
(* The rooms are threads of the same process; what they do is the subject  *)
(* of module Room, here they take descriptors, start, drop clients and     *)
(* close.                                                                  *)
(*                                                                         *)
(* Clients are named by the descriptor of their connection: the kernel     *)
(* gives a closed descriptor to a later client.  Rooms are named by        *)
(* input_fd, which the server never closes, so its number never comes      *)
(* back.  Sockets do not fill up, and SIGPIPE is blocked (as in the        *)
(* daemon), so a failed write throws.                                      *)
(***************************************************************************)
EXTENDS Integers, FiniteSets, Sequences, SequencesExt

CONSTANTS
  Clients,     \* the descriptors accept4 may return
  Rooms,       \* the descriptors socketpair may return for the server's end
  Socket,      \* socket_, where clients arrive
  Leavers,     \* the descriptors whose client may leave the server on its own
  LateThreads  \* whether the thread of a room may first run when the server has gone
               \* on to create another one

ManagerStates == {"START", "WAITING_COMMAND", "JOINING_ROOM", "CREATING_ROOM"}

ASSUME ServerAssumption ==
  /\ IsFiniteSet(Clients) /\ IsFiniteSet(Rooms)
  /\ Clients \intersect Rooms = {}
  /\ Socket \notin Clients \union Rooms
  /\ Leavers \subseteq Clients
  /\ LateThreads \in BOOLEAN

VARIABLES
  \* the server
  entry,     \* connections_: the state of each entry, "NONE" without an entry
  interest,  \* what is registered with epoll: "NONE", "READ", "WRITE" or "READ_WRITE"
  batch,     \* the events of the last epoll_wait that are not handled yet
  rooms,     \* rooms_: the state of each, "NONE" without an entry
  waiting,   \* waiting_clients of the rooms
  args,      \* the two descriptors in CreateRoom's stack frame
  \* the kernel
  sock,      \* the connections: "FREE" number, "BACKLOG", "OPEN", "FIN" or "RST"
  inbox,     \* what each client sent and nobody has read
  pipe,      \* descriptors on their way to a room
  notice,    \* a room wrote that its game starts, and the server has not read it
  \* the rooms' threads
  thread,    \* "NONE", "NEW" (created), "WAITING", "STARTED" or "CLOSED"
  at,        \* the room whose socketpair the thread uses
  serves,    \* the clients of the thread
  \* the clients' programs
  page,      \* "OUT", "LOADING", "MENU", "JOINING", "CREATING" or "ENTERED"
  seen       \* the rooms on the list on a client's screen

server == <<entry, interest, batch, rooms, waiting, args>>
kernel == <<sock, inbox, pipe, notice>>
threads == <<thread, at, serves>>
clients == <<page, seen>>
vars == <<server, kernel, threads, clients>>

Init ==
  /\ entry = [f \in Clients |-> "NONE"]
  /\ interest = [f \in Clients \union Rooms |-> "NONE"]
  /\ batch = {}
  /\ rooms = [r \in Rooms |-> "NONE"]
  /\ waiting = [r \in Rooms |-> <<>>]
  /\ args = <<>>
  /\ sock = [f \in Clients |-> "FREE"]
  /\ inbox = [f \in Clients |-> <<>>]
  /\ pipe = [r \in Rooms |-> <<>>]
  /\ notice = [r \in Rooms |-> FALSE]
  /\ thread = [r \in Rooms |-> "NONE"]
  /\ at = [r \in Rooms |-> r]
  /\ serves = [r \in Rooms |-> {}]
  /\ page = [f \in Clients |-> "OUT"]
  /\ seen = [f \in Clients |-> {}]

-----------------------------------------------------------------------------
(* epoll.  A batch is a set: events come in any order.                     *)

\* The other end of a room's socketpair is closed
Gone(r) == \E t \in Rooms : thread[t] = "CLOSED" /\ at[t] = r

Readable(x) ==
  IF x \in Rooms THEN notice[x] \/ Gone(x)
                 ELSE inbox[x] # <<>> \/ sock[x] # "OPEN"

HungUp(x) == IF x \in Rooms THEN Gone(x) ELSE sock[x] = "RST"

HasEvents(x) ==
  \/ interest[x] \in {"WRITE", "READ_WRITE"}
  \/ interest[x] = "READ" /\ Readable(x)
  \/ interest[x] # "NONE" /\ HungUp(x)

Event(x) == [fd |-> x, in |-> interest[x] # "WRITE" /\ Readable(x), hup |-> HungUp(x)]

Arrived == {f \in Clients : sock[f] = "BACKLOG"}

\* IOContext::Wait
Wait ==
  /\ batch = {}
  /\ batch' = {Event(x) : x \in {y \in Clients \union Rooms : HasEvents(y)}}
              \union {[fd |-> Socket, in |-> TRUE, hup |-> FALSE] : f \in Arrived}
  /\ batch' # {}
  /\ UNCHANGED <<entry, interest, rooms, waiting, args, kernel, threads, clients>>

\* The event of x is the next one; whatever the handler frees, it looks at it no more
Handle(x, hup) ==
  \E e \in batch : /\ e.fd = x /\ e.hup = hup
                   /\ batch' = batch \ {e}

Watch(x, how) == interest' = [interest EXCEPT ![x] = how]

-----------------------------------------------------------------------------
(* Clients.                                                                *)

\* What the kernel and the client make of a close: the number is free again
Close(some) ==
  /\ sock' = [f \in Clients |-> IF f \in some THEN "FREE" ELSE sock[f]]
  /\ inbox' = [f \in Clients |-> IF f \in some THEN <<>> ELSE inbox[f]]
  /\ page' = [f \in Clients |-> IF f \in some THEN "OUT" ELSE page[f]]
  /\ seen' = [f \in Clients |-> IF f \in some THEN {} ELSE seen[f]]

CloseConnection(f) ==
  /\ Watch(f, "NONE")
  /\ entry' = [entry EXCEPT ![f] = "NONE"]
  /\ Close({f})
  /\ UNCHANGED <<rooms, waiting, args, pipe, notice, threads>>

HangUp(f) ==
  /\ Handle(f, TRUE)
  /\ CloseConnection(f)

\* An entry that a joiner left behind is taken over as it is
AddNewConnection ==
  /\ Handle(Socket, FALSE)
  /\ entry' = [f \in Clients |-> IF f \in Arrived THEN "START" ELSE entry[f]]
  /\ interest' = [x \in Clients \union Rooms |-> IF x \in Arrived THEN "WRITE" ELSE interest[x]]
  /\ sock' = [f \in Clients |-> IF f \in Arrived THEN "OPEN" ELSE sock[f]]
  /\ UNCHANGED <<rooms, waiting, args, inbox, pipe, notice, threads, clients>>

In(f, state) == f \in Clients /\ Handle(f, FALSE) /\ entry[f] = state

\* START and SENDING_ROOMS: a write to a client that has left is answered by a reset
SendRooms(f) ==
  /\ In(f, "START")
  /\ \/ /\ sock[f] # "RST"
        /\ entry' = [entry EXCEPT ![f] = "WAITING_COMMAND"]
        /\ Watch(f, "READ")
        /\ IF sock[f] = "OPEN"
           THEN /\ page' = [page EXCEPT ![f] = "MENU"]
                /\ seen' = [seen EXCEPT ![f] = {r \in Rooms : rooms[r] = "WAITING"}]
                /\ UNCHANGED sock
           ELSE /\ sock' = [sock EXCEPT ![f] = "RST"]
                /\ UNCHANGED clients
        /\ UNCHANGED <<rooms, waiting, args, inbox, pipe, notice, threads>>
     \/ /\ sock[f] = "RST"
        /\ CloseConnection(f)

CanRead(f) == inbox[f] # <<>> /\ sock[f] # "RST"

ReadMessagePeeked(f) == UNCHANGED inbox  \* Fault: what was read stays there

ReadMessage(f) == inbox' = [inbox EXCEPT ![f] = Tail(@)]

ReadFailsUnnoticed(f) ==  \* Fault: the end of the stream is taken for nothing there yet
  /\ ~CanRead(f)
  /\ UNCHANGED <<entry, interest, rooms, waiting, args, kernel, threads, clients>>

\* A read that meets the end of the stream, or a reset, throws
ReadFails(f) == ~CanRead(f) /\ CloseConnection(f)

AfterRefreshUnwatched == "READ"  \* Fault: no ChangeEvent

AfterRefresh == "WRITE"

\* A client sends no other command
WaitingCommand(f) ==
  /\ In(f, "WAITING_COMMAND")
  /\ \/ /\ CanRead(f)
        /\ ReadMessage(f)
        /\ \/ /\ Head(inbox[f]) = "REFRESH_ROOMS"
              /\ entry' = [entry EXCEPT ![f] = "START"]
              /\ Watch(f, AfterRefresh)
           \/ /\ Head(inbox[f]) = "CREATE_ROOM"
              /\ entry' = [entry EXCEPT ![f] = "CREATING_ROOM"]
              /\ UNCHANGED interest
           \/ /\ Head(inbox[f]) = "JOIN_ROOM"
              /\ entry' = [entry EXCEPT ![f] = "JOINING_ROOM"]
              /\ UNCHANGED interest
        /\ UNCHANGED <<rooms, waiting, args, sock, pipe, notice, threads, clients>>
     \/ ReadFails(f)

Unused == {r \in Rooms : thread[r] = "NONE"}

Arguments(r, f) == <<r, f>>

(***************************************************************************)
(* CreateRoom runs at the first event after the command.  ManageState goes *)
(* on to look at the state of the erased entry, and ManageEvents at the    *)
(* type of the freed event data: malloc writes to the first 16 bytes of    *)
(* what it frees, so the one still reads CREATING_ROOM and the other is no *)
(* type, and both tests fail.                                              *)
(***************************************************************************)
CreateRoom(f) ==
  /\ In(f, "CREATING_ROOM")
  /\ \A r \in Rooms : thread[r] = "NEW" => LateThreads
  /\ \/ \E r \in Unused :
          /\ interest' = [interest EXCEPT ![f] = "NONE", ![r] = "READ"]
          /\ entry' = [entry EXCEPT ![f] = "NONE"]
          /\ args' = Arguments(r, f)
          /\ thread' = [thread EXCEPT ![r] = "NEW"]
          /\ rooms' = [rooms EXCEPT ![r] = "WAITING"]
          /\ UNCHANGED <<waiting, kernel, at, serves, clients>>
     \/ Unused = {} /\ CloseConnection(f)  \* no descriptor is left for a socketpair

WatchRoomAsBefore(f, r) == Watch(f, "NONE")  \* Fault: no ChangeEvent
StayWatched(f, r) == Watch(r, "READ_WRITE")  \* Fault: no DelEvent

\* The server lets go of the client and waits until the room can be written to
WatchRoom(f, r) == interest' = [interest EXCEPT ![f] = "NONE", ![r] = "READ_WRITE"]

\* The keys of rooms_
Listed == {r \in Rooms : rooms[r] # "NONE"}

\* The entry of the client stays; the state of the room is not asked
JoinRoom(f) ==
  /\ In(f, "JOINING_ROOM")
  /\ \/ /\ CanRead(f)
        /\ LET r == Head(inbox[f])
           IN  \/ /\ r \in Listed
                  /\ ReadMessage(f)
                  /\ waiting' = [waiting EXCEPT ![r] = Append(@, f)]
                  /\ WatchRoom(f, r)
                  /\ UNCHANGED <<entry, rooms, args, sock, pipe, notice, threads, clients>>
               \/ r \notin Listed /\ CloseConnection(f)
     \/ ReadFails(f)

-----------------------------------------------------------------------------
(* Rooms.                                                                  *)

\* pthread_join, and whoever still waits for the room is forgotten
RoomHangUp(r) ==
  /\ Handle(r, TRUE)
  /\ thread[r] = "CLOSED"
  /\ rooms' = [rooms EXCEPT ![r] = "NONE"]
  /\ waiting' = [waiting EXCEPT ![r] = <<>>]
  /\ Watch(r, "NONE")
  /\ UNCHANGED <<entry, args, kernel, threads, clients>>

\* The rest of the batch is dropped
RoomPlays(r) ==
  /\ [fd |-> r, in |-> TRUE, hup |-> FALSE] \in batch
  /\ notice' = [notice EXCEPT ![r] = FALSE]
  /\ rooms' = [rooms EXCEPT ![r] = "PLAYING"]
  /\ Watch(r, "READ")
  /\ batch' = {}
  /\ UNCHANGED <<entry, waiting, args, sock, inbox, pipe, threads, clients>>

HandedOverOne(w) == <<Last(w)>>  \* Fault: the others are popped and not written

\* In the order they are written
HandedOver(w) == Reverse(w)

\* Without the other end of the socketpair the write fails, and a hang-up follows
ConnectToRoom(r) ==
  /\ [fd |-> r, in |-> FALSE, hup |-> FALSE] \in batch
  /\ Handle(r, FALSE)
  /\ \/ /\ ~Gone(r)
        /\ pipe' = [pipe EXCEPT ![r] = @ \o HandedOver(waiting[r])]
        /\ waiting' = [waiting EXCEPT ![r] = <<>>]
        /\ Watch(r, "READ")
     \/ /\ Gone(r)
        /\ UNCHANGED <<pipe, waiting, interest>>
  /\ UNCHANGED <<entry, rooms, args, sock, inbox, notice, threads, clients>>

-----------------------------------------------------------------------------
(* The threads of the rooms.                                               *)

\* RoomTread reads its arguments where CreateRoom left them
RoomStarts(r) ==
  /\ thread[r] = "NEW"
  /\ thread' = [thread EXCEPT ![r] = "WAITING"]
  /\ at' = [at EXCEPT ![r] = args[1]]
  /\ serves' = [serves EXCEPT ![r] = {args[2]}]
  /\ UNCHANGED <<server, kernel, clients>>

\* What the client sent is for the room to read
RoomTakes(r) ==
  /\ thread[r] = "WAITING"
  /\ pipe[at[r]] # <<>>
  /\ LET f == Head(pipe[at[r]])
     IN  /\ pipe' = [pipe EXCEPT ![at[r]] = Tail(@)]
         /\ serves' = [serves EXCEPT ![r] = @ \union {f}]
         /\ inbox' = [inbox EXCEPT ![f] = <<>>]
  /\ UNCHANGED <<server, sock, notice, thread, at, clients>>

\* From here on it does not read the socketpair
RoomBegins(r) ==
  /\ thread[r] = "WAITING"
  /\ thread' = [thread EXCEPT ![r] = "STARTED"]
  /\ notice' = [notice EXCEPT ![at[r]] = TRUE]
  /\ UNCHANGED <<server, sock, inbox, pipe, at, serves, clients>>

RoomDrops(r, f) ==
  /\ f \in serves[r]
  /\ Close({f})
  /\ serves' = [serves EXCEPT ![r] = @ \ {f}]
  /\ UNCHANGED <<server, pipe, notice, thread, at>>

\* The destructor reads what is left in the socketpair and closes it
RoomCloses(r) ==
  /\ thread[r] \in {"WAITING", "STARTED"}
  /\ thread' = [thread EXCEPT ![r] = "CLOSED"]
  /\ Close(serves[r])
  /\ serves' = [serves EXCEPT ![r] = {}]
  /\ pipe' = [pipe EXCEPT ![at[r]] = <<>>]
  /\ UNCHANGED <<server, notice, at>>

-----------------------------------------------------------------------------
(* The clients' programs.                                                  *)

Connect(f) ==
  /\ sock[f] = "FREE"
  /\ sock' = [sock EXCEPT ![f] = "BACKLOG"]
  /\ page' = [page EXCEPT ![f] = "LOADING"]
  /\ UNCHANGED <<server, inbox, pipe, notice, threads, seen>>

Ask(f, command, next) ==
  /\ inbox' = [inbox EXCEPT ![f] = Append(@, command)]
  /\ page' = [page EXCEPT ![f] = next]

Choose(f) ==
  /\ page[f] = "MENU"
  /\ sock[f] = "OPEN"
  /\ \/ Ask(f, "REFRESH_ROOMS", "LOADING") /\ seen' = [seen EXCEPT ![f] = {}]
     \/ Ask(f, "CREATE_ROOM", "CREATING") /\ seen' = [seen EXCEPT ![f] = {}]
     \/ seen[f] # {} /\ Ask(f, "JOIN_ROOM", "JOINING") /\ UNCHANGED seen
  /\ UNCHANGED <<server, sock, pipe, notice, threads>>

\* The room named is one of the list
SendRest(f) ==
  /\ sock[f] = "OPEN"
  /\ \/ /\ page[f] = "CREATING"
        /\ inbox' = [inbox EXCEPT ![f] = @ \o <<"LOGIN">>]
     \/ /\ page[f] = "JOINING"
        /\ \E r \in seen[f] : inbox' = [inbox EXCEPT ![f] = @ \o <<r, "LOGIN">>]
  /\ page' = [page EXCEPT ![f] = "ENTERED"]
  /\ seen' = [seen EXCEPT ![f] = {}]
  /\ UNCHANGED <<server, sock, pipe, notice, threads>>

\* Before a room has it; afterwards RoomDrops stands for it
Leave(f) ==
  /\ f \in Leavers
  /\ sock[f] = "OPEN"
  /\ \A r \in Rooms : f \notin serves[r]
  /\ sock' = [sock EXCEPT ![f] = "FIN"] \/ sock' = [sock EXCEPT ![f] = "RST"]
  /\ UNCHANGED <<server, inbox, pipe, notice, threads, clients>>

-----------------------------------------------------------------------------
ManageState(f) ==
  \/ SendRooms(f)
  \/ WaitingCommand(f)
  \/ CreateRoom(f)
  \/ JoinRoom(f)

ManageEvents ==
  \/ \E f \in Clients : HangUp(f) \/ ManageState(f)
  \/ AddNewConnection
  \/ \E r \in Rooms : RoomHangUp(r) \/ RoomPlays(r) \/ ConnectToRoom(r)

Run == Wait \/ ManageEvents

RoomThread(r) == RoomStarts(r) \/ RoomTakes(r)

Next ==
  \/ Run
  \/ \E r \in Rooms : \/ RoomThread(r)
                      \/ RoomBegins(r)
                      \/ RoomCloses(r)
                      \/ \E f \in Clients : RoomDrops(r, f)
  \/ \E f \in Clients : Connect(f) \/ Choose(f) \/ SendRest(f) \/ Leave(f)

Spec == Init /\ [][Next]_vars

\* The threads run, and a client's program sends what belongs to its command
Fairness ==
  /\ WF_vars(Run)
  /\ \A r \in Rooms : WF_vars(RoomThread(r))
  /\ \A f \in Clients : WF_vars(SendRest(f))

FairSpec == Spec /\ Fairness

-----------------------------------------------------------------------------
Commands == {"REFRESH_ROOMS", "CREATE_ROOM", "JOIN_ROOM"}

(***************************************************************************)
(* The types of the variables.  What a client has sent and nobody read is  *)
(* at most one command with what belongs to it.                            *)
(***************************************************************************)
TypeOK ==
  /\ entry \in [Clients -> ManagerStates \union {"NONE"}]
  /\ interest \in [Clients \union Rooms -> {"NONE", "READ", "WRITE", "READ_WRITE"}]
  /\ batch \subseteq [fd : Clients \union Rooms \union {Socket}, in : BOOLEAN, hup : BOOLEAN]
  /\ \A d, e \in batch : d.fd = e.fd => d = e
  /\ rooms \in [Rooms -> {"NONE", "WAITING", "PLAYING"}]
  /\ waiting \in [Rooms -> Seq(Clients)]
  /\ args \in {<<>>} \union (Rooms \X Clients)
  /\ sock \in [Clients -> {"FREE", "BACKLOG", "OPEN", "FIN", "RST"}]
  /\ \A f \in Clients :
       inbox[f] \in {<<>>, <<"CREATE_ROOM", "LOGIN">>, <<"LOGIN">>}
                   \union {<<c>> : c \in Commands}
                   \union {<<"JOIN_ROOM", r, "LOGIN">> : r \in Rooms}
                   \union {<<r, "LOGIN">> : r \in Rooms}
  /\ pipe \in [Rooms -> Seq(Clients)]
  /\ notice \in [Rooms -> BOOLEAN]
  /\ thread \in [Rooms -> {"NONE", "NEW", "WAITING", "STARTED", "CLOSED"}]
  /\ at \in [Rooms -> Rooms]
  /\ serves \in [Rooms -> SUBSET Clients]
  /\ page \in [Clients -> {"OUT", "LOADING", "MENU", "JOINING", "CREATING", "ENTERED"}]
  /\ seen \in [Clients -> SUBSET Rooms]

Places(f, s) == {i \in DOMAIN s : s[i] = f}

\* The places of room r where the descriptor of f is kept
HeldIn(r, f) ==
  {<<r, "waiting", i>> : i \in Places(f, waiting[r])}
    \union {<<r, "pipe", i>> : i \in Places(f, pipe[r])}
    \union (IF f \in serves[r] THEN {<<r, "serves", 1>>} ELSE {})
    \union (IF thread[r] = "NEW" /\ args[2] = f THEN {<<r, "args", 2>>} ELSE {})

\* The places where the descriptor of f is kept for somebody to read from it
Held(f) ==
  (UNION {HeldIn(r, f) : r \in Rooms})
    \union (IF interest[f] # "NONE" THEN {<<f, "interest", 1>>} ELSE {})

(***************************************************************************)
(* Ownership of a connection moves from the server's epoll to a waiting    *)
(* list, a socketpair and a room, or to a thread's arguments.  It is never *)
(* in two places, or two threads read one stream and close it twice, and   *)
(* a closed number, which the kernel gives to the next client, is nowhere. *)
(***************************************************************************)
ServedOnce ==
  \A f \in Clients : Cardinality(Held(f)) <= IF sock[f] \in {"FREE", "BACKLOG"} THEN 0 ELSE 1

(***************************************************************************)
(* Whoever was in somebody's care stays in it until the connection is      *)
(* closed; only a room that closes, or that is reaped, forgets those who   *)
(* are still on their way into it.                                         *)
(***************************************************************************)
LostOnlyWithARoom ==
  [][\A f \in Clients : Held(f) # {} /\ Held(f)' = {} =>
       \/ sock'[f] = "FREE"
       \/ \E r \in Rooms : \/ f \in ToSet(pipe[r]) /\ ~Gone(r) /\ Gone(r)'
                           \/ f \in ToSet(waiting[r]) /\ rooms'[r] = "NONE"]_vars

(***************************************************************************)
(* The direction a client is watched in fits what ManageState will do: a   *)
(* client that is owed a list is watched for writing, or it gets none, any *)
(* other for reading, or the thread spins; and nobody is watched without   *)
(* an entry.                                                               *)
(***************************************************************************)
WatchedForItsState ==
  \A f \in Clients : interest[f] # "NONE" =>
    /\ entry[f] # "NONE"
    /\ interest[f] = "WRITE" <=> entry[f] = "START"

(***************************************************************************)
(* While the server believes that a room waits, somebody in its waiting    *)
(* list makes the server watch for the chance to hand him over: the list   *)
(* and epoll are changed in different functions, and a notice or a         *)
(* hand-over may come between.                                             *)
(***************************************************************************)
WaitingWatched ==
  \A r \in Rooms : rooms[r] = "WAITING" /\ waiting[r] # <<>> => interest[r] = "READ_WRITE"

(***************************************************************************)
(* "First arg - server fd, Second arg - creator fd" (server.cpp:311): the  *)
(* thread of a room gets its own socketpair and its own creator.           *)
(***************************************************************************)
OwnArguments == \A r \in Rooms : at[r] = r

(***************************************************************************)
(* README.md: "Refresh current list of available rooms".  Whoever connects *)
(* or asks for the list gets it, or its connection is closed.              *)
(***************************************************************************)
ListArrives == \A f \in Clients : page[f] = "LOADING" ~> page[f] # "LOADING"

(***************************************************************************)
(* Whoever waits to be handed over gets to the room, unless the room       *)
(* starts or closes first.                                                 *)
(***************************************************************************)
JoinersHandedOver ==
  \A r \in Rooms, f \in Clients :
    f \in ToSet(waiting[r]) ~> f \notin ToSet(waiting[r]) \/ rooms[r] = "PLAYING"

(***************************************************************************)
(* A client that left while the server had it is noticed and closed, in    *)
(* whatever state it was, or it went to a room which has to notice.        *)
(***************************************************************************)
LeaversAreClosed ==
  \A f \in Clients :
    (sock[f] \in {"FIN", "RST"} /\ interest[f] # "NONE") ~> interest[f] = "NONE"
=============================================================================
