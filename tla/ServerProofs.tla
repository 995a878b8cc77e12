----------------------------- MODULE ServerProofs -----------------------------
(***************************************************************************)
(* Theorems about Server, for any number of clients and rooms: what the    *)
(* server watches fits what it has to do, and a room's thread finds its    *)
(* own arguments as long as it starts before the next room is created.     *)
(***************************************************************************)
EXTENDS Server, FiniteSetTheorems, SequenceTheorems, TLAPS

\* The types that the arguments below need
Typed ==
  /\ entry \in [Clients -> ManagerStates \union {"NONE"}]
  /\ interest \in [Clients \union Rooms -> {"NONE", "READ", "WRITE", "READ_WRITE"}]
  /\ rooms \in [Rooms -> {"NONE", "WAITING", "PLAYING"}]
  /\ DOMAIN waiting = Rooms
  /\ thread \in [Rooms -> {"NONE", "NEW", "WAITING", "STARTED", "CLOSED"}]

\* Nobody waits for a room that is not in rooms_, as one that was never created is not
NobodyWaits ==
  \A r \in Rooms : /\ rooms[r] = "NONE" => waiting[r] = <<>>
                   /\ thread[r] = "NONE" => rooms[r] = "NONE" /\ interest[r] = "NONE"

\* Events are about rooms that were created
Created == \A e \in batch : e.fd \in Rooms => thread[e.fd] # "NONE"

\* The arguments in the stack frame are those of the only thread that has yet to read them
OneNew ==
  /\ \A r, s \in Rooms : thread[r] = "NEW" /\ thread[s] = "NEW" => r = s
  /\ \A r \in Rooms : thread[r] = "NEW" => args[1] = r

Watching == Typed /\ NobodyWaits /\ WatchedForItsState /\ WaitingWatched

LEMMA InitWatching == Init => Watching /\ Created
BY ServerAssumption DEF Init, Watching, Typed, NobodyWaits, WatchedForItsState, WaitingWatched,
       Created

(***************************************************************************)
(* The connection's entry and its event go together.                       *)
(***************************************************************************)
LEMMA CloseWatching ==
  ASSUME Watching, NEW f \in Clients, CloseConnection(f)
  PROVE  Watching'
BY ServerAssumption
DEF Watching, Typed, NobodyWaits, WatchedForItsState, WaitingWatched, CloseConnection,
    Watch, threads

LEMMA ClientEventWatching ==
  ASSUME Watching, NEW f \in Clients, HangUp(f) \/ ManageState(f)
  PROVE  Watching'
<1>1. CASE CloseConnection(f)
  BY <1>1, CloseWatching
<1>2. ASSUME SendRooms(f), ~CloseConnection(f)
      PROVE  Watching'
  BY <1>2, ServerAssumption
  DEF Watching, Typed, NobodyWaits, WatchedForItsState, WaitingWatched, SendRooms, Watch,
      threads, ManagerStates
<1>3. ASSUME WaitingCommand(f), ~CloseConnection(f)
      PROVE  Watching'
  BY <1>3, ServerAssumption
  DEF Watching, Typed, NobodyWaits, WatchedForItsState, WaitingWatched, WaitingCommand, In,
      ReadFails, AfterRefresh, Watch, threads, ManagerStates
<1>4. ASSUME CreateRoom(f), ~CloseConnection(f)
      PROVE  Watching'
  BY <1>4, ServerAssumption
  DEF Watching, Typed, NobodyWaits, WatchedForItsState, WaitingWatched, CreateRoom, Unused
<1>5. ASSUME JoinRoom(f), ~CloseConnection(f)
      PROVE  Watching'
  <2>1. PICK r : /\ r \in Rooms /\ rooms[r] # "NONE"
                 /\ waiting' = [waiting EXCEPT ![r] = Append(@, f)]
                 /\ WatchRoom(f, r)
                 /\ UNCHANGED <<entry, rooms, threads>>
    BY <1>5 DEF JoinRoom, ReadFails, Listed
  <2> QED
    BY <2>1, ServerAssumption
    DEF Watching, Typed, NobodyWaits, WatchedForItsState, WaitingWatched, WatchRoom, threads
<1> QED BY <1>1, <1>2, <1>3, <1>4, <1>5 DEF HangUp, ManageState

LEMMA RoomEventWatching ==
  ASSUME Watching, Created, NEW r \in Rooms,
         RoomHangUp(r) \/ RoomPlays(r) \/ ConnectToRoom(r)
  PROVE  Watching'
<1>0. thread[r] # "NONE"
  BY DEF RoomHangUp, RoomPlays, ConnectToRoom, Created
<1>1. CASE RoomHangUp(r)
  BY <1>1, ServerAssumption
  DEF Watching, Typed, NobodyWaits, WatchedForItsState, WaitingWatched, RoomHangUp, Watch,
      threads
<1>2. CASE RoomPlays(r)
  BY <1>0, <1>2, ServerAssumption
  DEF Watching, Typed, NobodyWaits, WatchedForItsState, WaitingWatched, RoomPlays, Watch,
      threads
<1>3. CASE ConnectToRoom(r)
  BY <1>0, <1>3, ServerAssumption
  DEF Watching, Typed, NobodyWaits, WatchedForItsState, WaitingWatched, ConnectToRoom,
      Watch, threads
<1> QED BY <1>1, <1>2, <1>3

LEMMA NewConnectionWatching ==
  ASSUME Watching, AddNewConnection
  PROVE  Watching'
BY ServerAssumption
DEF Watching, Typed, NobodyWaits, WatchedForItsState, WaitingWatched, AddNewConnection,
    Arrived, threads, ManagerStates

(***************************************************************************)
(* What threads and clients do leaves the server's own data alone.         *)
(***************************************************************************)
LEMMA OutsideWatching ==
  ASSUME Watching, UNCHANGED <<entry, interest, rooms, waiting>>,
         \/ UNCHANGED threads
         \/ \E r \in Rooms : \/ RoomThread(r) \/ RoomBegins(r) \/ RoomCloses(r)
                             \/ \E f \in Clients : RoomDrops(r, f)
  PROVE  Watching'
<1>1. /\ thread' \in [Rooms -> {"NONE", "NEW", "WAITING", "STARTED", "CLOSED"}]
      /\ \A r \in Rooms : thread'[r] = "NONE" => thread[r] = "NONE"
  <2>1. CASE UNCHANGED threads
    BY <2>1 DEF Watching, Typed, threads
  <2>2. ASSUME NEW r \in Rooms, \/ RoomThread(r) \/ RoomBegins(r) \/ RoomCloses(r)
                                \/ \E f \in Clients : RoomDrops(r, f)
        PROVE  /\ thread' \in [Rooms -> {"NONE", "NEW", "WAITING", "STARTED", "CLOSED"}]
               /\ \A s \in Rooms : thread'[s] = "NONE" => thread[s] = "NONE"
    <3>1. \/ UNCHANGED thread
          \/ thread' = [thread EXCEPT ![r] = "WAITING"]
          \/ thread' = [thread EXCEPT ![r] = "STARTED"]
          \/ thread' = [thread EXCEPT ![r] = "CLOSED"]
      BY <2>2 DEF RoomThread, RoomStarts, RoomTakes, RoomBegins, RoomCloses, RoomDrops
    <3> QED BY <3>1 DEF Watching, Typed
  <2> QED BY <2>1, <2>2
<1> QED
  BY <1>1 DEF Watching, Typed, NobodyWaits, WatchedForItsState, WaitingWatched

(***************************************************************************)
(* Handlers take events from the batch; only epoll_wait puts some there.   *)
(***************************************************************************)
LEMMA BatchShrinks ==
  ASSUME [Next]_vars, ~Wait
  PROVE  batch' \subseteq batch
<1>1. CASE ManageEvents
  BY <1>1
  DEF ManageEvents, HangUp, ManageState, SendRooms, WaitingCommand, CreateRoom, JoinRoom, In,
      AddNewConnection, RoomHangUp, RoomPlays, ConnectToRoom, Handle
<1>2. CASE UNCHANGED batch
  BY <1>2
<1> QED
  BY <1>1, <1>2
  DEF Next, Run, RoomThread, RoomStarts, RoomTakes, RoomBegins, RoomCloses, RoomDrops,
      Connect, Choose, SendRest, Leave, vars, server

\* A thread that was created stays so
LEMMA ThreadsStay ==
  ASSUME Typed, [Next]_vars, NEW r \in Rooms, thread[r] # "NONE"
  PROVE  thread'[r] # "NONE"
<1>1. \/ UNCHANGED thread
      \/ \E s \in Rooms, to \in {"NEW", "WAITING", "STARTED", "CLOSED"} :
           thread' = [thread EXCEPT ![s] = to]
  <2>1. CASE ManageEvents
    BY <2>1
    DEF ManageEvents, HangUp, ManageState, SendRooms, WaitingCommand, CreateRoom, JoinRoom,
        Unused, CloseConnection, ReadFails, AddNewConnection, RoomHangUp, RoomPlays,
        ConnectToRoom, threads
  <2>2. CASE \E s \in Rooms : \/ RoomThread(s) \/ RoomBegins(s) \/ RoomCloses(s)
                              \/ \E f \in Clients : RoomDrops(s, f)
    BY <2>2 DEF RoomThread, RoomStarts, RoomTakes, RoomBegins, RoomCloses, RoomDrops
  <2>3. CASE UNCHANGED threads
    BY <2>3 DEF threads
  <2> QED
    BY <2>1, <2>2, <2>3 DEF Next, Run, Wait, Connect, Choose, SendRest, Leave, vars
<1> QED BY <1>1 DEF Typed

LEMMA NextCreated ==
  ASSUME Watching, Created, [Next]_vars
  PROVE  Created'
<1>1. CASE Wait
  <2>1. \A e \in batch' : e.fd \in Rooms => interest[e.fd] # "NONE"
    BY <1>1, ServerAssumption DEF Wait, Event, HasEvents
  <2>2. UNCHANGED thread
    BY <1>1 DEF Wait, threads
  <2> QED BY <2>1, <2>2 DEF Watching, NobodyWaits, Created
<1>2. CASE ~Wait
  BY <1>2, BatchShrinks, ThreadsStay DEF Created, Watching
<1> QED BY <1>1, <1>2

LEMMA NextWatching ==
  ASSUME Watching, Created, [Next]_vars
  PROVE  Watching'
<1>1. CASE ManageEvents
  BY <1>1, ClientEventWatching, RoomEventWatching, NewConnectionWatching DEF ManageEvents
<1>2. CASE Wait
  BY <1>2, OutsideWatching DEF Wait
<1>3. CASE \E r \in Rooms : \/ RoomThread(r) \/ RoomBegins(r) \/ RoomCloses(r)
                            \/ \E f \in Clients : RoomDrops(r, f)
  <2>1. UNCHANGED server
    BY <1>3 DEF RoomThread, RoomStarts, RoomTakes, RoomBegins, RoomCloses, RoomDrops
  <2> QED BY <1>3, <2>1, OutsideWatching DEF server
<1>4. CASE \E f \in Clients : Connect(f) \/ Choose(f) \/ SendRest(f) \/ Leave(f)
  BY <1>4, OutsideWatching DEF Connect, Choose, SendRest, Leave, server
<1>5. CASE UNCHANGED vars
  BY <1>5, OutsideWatching DEF vars, server
<1> QED BY <1>1, <1>2, <1>3, <1>4, <1>5 DEF Next, Run

THEOREM AlwaysWatching == Spec => [](Watching /\ Created)
<1>1. Watching /\ Created /\ [Next]_vars => (Watching /\ Created)'
  BY NextWatching, NextCreated
<1> QED BY <1>1, InitWatching, PTL DEF Spec

(***************************************************************************)
(* The server watches every connection for what ManageState will do with   *)
(* it: for writing when the list of rooms is owed, else for reading, and   *)
(* never without an entry, wherever batches are cut short.                 *)
(***************************************************************************)
THEOREM WatchedRight == Spec => []WatchedForItsState
<1>1. Watching => WatchedForItsState
  BY DEF Watching
<1> QED BY <1>1, AlwaysWatching, PTL

(***************************************************************************)
(* No joiner is forgotten in waiting_clients: while the room is known to   *)
(* wait, the server watches for the chance to hand him over.               *)
(***************************************************************************)
THEOREM WaitingRoomsWatched == Spec => []WaitingWatched
<1>1. Watching => WaitingWatched
  BY DEF Watching
<1> QED BY <1>1, AlwaysWatching, PTL

-----------------------------------------------------------------------------
(* The arguments of RoomTread.                                             *)

Own == DOMAIN at = Rooms /\ DOMAIN thread = Rooms /\ OneNew /\ OwnArguments

LEMMA InitOwn == Init => Own
BY DEF Init, Own, OneNew, OwnArguments

LEMMA NextOwn ==
  ASSUME Own, [Next]_vars, ~LateThreads
  PROVE  Own'
<1>1. ASSUME NEW f \in Clients, CreateRoom(f)
      PROVE  Own'
  <2>1. CASE UNCHANGED threads /\ UNCHANGED args
    BY <2>1 DEF Own, OneNew, OwnArguments, threads
  <2>2. ASSUME NEW r \in Rooms, args' = <<r, f>>, UNCHANGED at,
               thread' = [thread EXCEPT ![r] = "NEW"]
        PROVE  Own'
    <3>1. \A s \in Rooms : thread[s] # "NEW"
      BY <1>1 DEF CreateRoom
    <3> QED BY <2>2, <3>1 DEF Own, OneNew, OwnArguments
  <2> QED BY <1>1, <2>1, <2>2 DEF CreateRoom, CloseConnection, Arguments, Unused
<1>2. ASSUME NEW r \in Rooms, RoomStarts(r)
      PROVE  Own'
  BY <1>2 DEF RoomStarts, Own, OneNew, OwnArguments, server
<1>3. ASSUME NEW r \in Rooms, RoomBegins(r) \/ RoomCloses(r)
      PROVE  Own'
  BY <1>3 DEF RoomBegins, RoomCloses, Own, OneNew, OwnArguments, server
<1>4. CASE UNCHANGED <<thread, at, args>>
  BY <1>4 DEF Own, OneNew, OwnArguments
<1>5. ASSUME ManageEvents, ~UNCHANGED <<thread, at, args>>
      PROVE  \E f \in Clients : CreateRoom(f)
  BY <1>5
  DEF ManageEvents, HangUp, ManageState, SendRooms, WaitingCommand, JoinRoom,
      CloseConnection, ReadFails, AddNewConnection, RoomHangUp, RoomPlays,
      ConnectToRoom, threads
<1>6. ASSUME NEW r \in Rooms, RoomTakes(r) \/ \E f \in Clients : RoomDrops(r, f)
      PROVE  UNCHANGED <<thread, at, args>>
  BY <1>6 DEF RoomTakes, RoomDrops, server
<1>7. ASSUME Wait \/ \E f \in Clients : Connect(f) \/ Choose(f) \/ SendRest(f) \/ Leave(f)
      PROVE  UNCHANGED <<thread, at, args>>
  BY <1>7 DEF Wait, Connect, Choose, SendRest, Leave, server, threads
<1>8. CASE UNCHANGED vars
  BY <1>8, <1>4 DEF vars, server, threads
<1> QED
  BY <1>1, <1>2, <1>3, <1>4, <1>5, <1>6, <1>7, <1>8 DEF Next, Run, RoomThread

(***************************************************************************)
(* server.cpp:311: if every thread gets to read its arguments before the   *)
(* next room is created, every room works on its own socketpair.  Nothing  *)
(* in the code sees to that, and without it the theorem is wrong.          *)
(***************************************************************************)
THEOREM PromptThreadsFindTheirs ==
  ASSUME ~LateThreads
  PROVE  Spec => []OwnArguments
<1>1. Own /\ [Next]_vars => Own'
  BY NextOwn
<1>2. Own => OwnArguments
  BY DEF Own
<1> QED BY <1>1, <1>2, InitOwn, PTL DEF Spec

-----------------------------------------------------------------------------
(* Types.                                                                  *)

\* TypeOK but for what the clients have sent; a thread that has yet to read its arguments
\* finds some
Types ==
  /\ entry \in [Clients -> ManagerStates \union {"NONE"}]
  /\ interest \in [Clients \union Rooms -> {"NONE", "READ", "WRITE", "READ_WRITE"}]
  /\ batch \subseteq [fd : Clients \union Rooms \union {Socket}, in : BOOLEAN, hup : BOOLEAN]
  /\ \A d, e \in batch : d.fd = e.fd => d = e
  /\ rooms \in [Rooms -> {"NONE", "WAITING", "PLAYING"}]
  /\ waiting \in [Rooms -> Seq(Clients)]
  /\ args \in {<<>>} \union (Rooms \X Clients)
  /\ sock \in [Clients -> {"FREE", "BACKLOG", "OPEN", "FIN", "RST"}]
  /\ inbox = [f \in Clients |-> inbox[f]]
  /\ pipe \in [Rooms -> Seq(Clients)]
  /\ notice \in [Rooms -> BOOLEAN]
  /\ thread \in [Rooms -> {"NONE", "NEW", "WAITING", "STARTED", "CLOSED"}]
  /\ at \in [Rooms -> Rooms]
  /\ serves \in [Rooms -> SUBSET Clients]
  /\ page \in [Clients -> {"OUT", "LOADING", "MENU", "JOINING", "CREATING", "ENTERED"}]
  /\ seen \in [Clients -> SUBSET Rooms]
  /\ \A r \in Rooms : thread[r] = "NEW" => args # <<>>

LEMMA InitTypes == Init => Types
<1> SUFFICES ASSUME Init
             PROVE  Types
  OBVIOUS
<1>1. notice \in [Rooms -> BOOLEAN]
  BY Zenon DEF Init
<1>2. waiting \in [Rooms -> Seq(Clients)] /\ pipe \in [Rooms -> Seq(Clients)]
  BY DEF Init
<1>3. /\ entry \in [Clients -> ManagerStates \union {"NONE"}]
      /\ interest \in [Clients \union Rooms -> {"NONE", "READ", "WRITE", "READ_WRITE"}]
      /\ batch = {} /\ args = <<>>
      /\ rooms \in [Rooms -> {"NONE", "WAITING", "PLAYING"}]
      /\ sock \in [Clients -> {"FREE", "BACKLOG", "OPEN", "FIN", "RST"}]
      /\ inbox = [f \in Clients |-> inbox[f]]
      /\ thread = [r \in Rooms |-> "NONE"]
  BY DEF Init
<1>4. /\ at \in [Rooms -> Rooms] /\ serves \in [Rooms -> SUBSET Clients]
      /\ page \in [Clients -> {"OUT", "LOADING", "MENU", "JOINING", "CREATING", "ENTERED"}]
      /\ seen \in [Clients -> SUBSET Rooms]
  BY DEF Init
<1> QED BY <1>1, <1>2, <1>3, <1>4 DEF Types

\* What the handlers take from the batch leaves it typed
LEMMA BatchTyped ==
  ASSUME Types, batch' \subseteq batch
  PROVE  /\ batch' \subseteq
              [fd : Clients \union Rooms \union {Socket}, in : BOOLEAN, hup : BOOLEAN]
         /\ \A d, e \in batch' : d.fd = e.fd => d = e
BY DEF Types

LEMMA WaitTyped ==
  ASSUME Types, Wait
  PROVE  Types'
<1>1. ASSUME NEW e \in batch'
      PROVE  /\ e \in [fd : Clients \union Rooms \union {Socket}, in : BOOLEAN, hup : BOOLEAN]
             /\ \/ e.fd \in Clients \union Rooms /\ e = Event(e.fd)
                \/ e = [fd |-> Socket, in |-> TRUE, hup |-> FALSE]
  <2>1. CASE \E x \in Clients \union Rooms : e = Event(x)
    <3>1. PICK x \in Clients \union Rooms : e = Event(x)
      BY <2>1
    <3>2. e.fd = x
      BY <3>1 DEF Event
    <3>3. e \in [fd : Clients \union Rooms \union {Socket}, in : BOOLEAN, hup : BOOLEAN]
      BY <3>1 DEF Event, Readable, HungUp, Gone, Types
    <3> QED BY <3>1, <3>2, <3>3
  <2>2. CASE e = [fd |-> Socket, in |-> TRUE, hup |-> FALSE]
    BY <2>2
  <2> QED BY <2>1, <2>2 DEF Wait
<1>2. \A d, e \in batch' : d.fd = e.fd => d = e
  BY <1>1, ServerAssumption
<1>3. UNCHANGED <<entry, interest, rooms, waiting, args, kernel, threads, clients>>
  BY DEF Wait
<1> QED BY <1>1, <1>2, <1>3 DEF Types, kernel, threads, clients

LEMMA CloseTyped ==
  ASSUME Types, NEW some, Close(some)
  PROVE  /\ sock' \in [Clients -> {"FREE", "BACKLOG", "OPEN", "FIN", "RST"}]
         /\ inbox' = [f \in Clients |-> inbox'[f]]
         /\ page' \in [Clients -> {"OUT", "LOADING", "MENU", "JOINING", "CREATING", "ENTERED"}]
         /\ seen' \in [Clients -> SUBSET Rooms]
BY DEF Types, Close

LEMMA ClientTyped ==
  ASSUME Types, NEW f \in Clients, HangUp(f) \/ ManageState(f)
  PROVE  Types'
<1>1. /\ batch' \subseteq [fd : Clients \union Rooms \union {Socket}, in : BOOLEAN, hup : BOOLEAN]
      /\ \A d, e \in batch' : d.fd = e.fd => d = e
  BY BatchTyped
     DEF HangUp, ManageState, SendRooms, WaitingCommand, CreateRoom, JoinRoom, In, Handle
<1>2. CASE CloseConnection(f)
  <2>1. /\ interest' \in [Clients \union Rooms -> {"NONE", "READ", "WRITE", "READ_WRITE"}]
        /\ entry' \in [Clients -> ManagerStates \union {"NONE"}]
        /\ Close({f}) /\ UNCHANGED <<rooms, waiting, args, pipe, notice, thread, at, serves>>
    BY <1>2 DEF CloseConnection, Watch, Types, threads
  <2> QED BY <1>1, <2>1, CloseTyped DEF Types
<1>3. ASSUME SendRooms(f), ~CloseConnection(f)
      PROVE  Types'
  <2>1. /\ entry' \in [Clients -> ManagerStates \union {"NONE"}]
        /\ interest' \in [Clients \union Rooms -> {"NONE", "READ", "WRITE", "READ_WRITE"}]
        /\ sock' \in [Clients -> {"FREE", "BACKLOG", "OPEN", "FIN", "RST"}]
        /\ page' \in [Clients -> {"OUT", "LOADING", "MENU", "JOINING", "CREATING", "ENTERED"}]
        /\ seen' \in [Clients -> SUBSET Rooms]
    <3>1. /\ entry' = [entry EXCEPT ![f] = "WAITING_COMMAND"]
          /\ interest' = [interest EXCEPT ![f] = "READ"]
          /\ sock' = sock \/ sock' = [sock EXCEPT ![f] = "RST"]
          /\ page' = page \/ page' = [page EXCEPT ![f] = "MENU"]
          /\ seen' = seen \/ seen' = [seen EXCEPT ![f] = {r \in Rooms : rooms[r] = "WAITING"}]
      BY <1>3 DEF SendRooms, Watch, clients
    <3>2. entry' \in [Clients -> ManagerStates \union {"NONE"}]
      BY <3>1 DEF Types, ManagerStates
    <3>3. interest' \in [Clients \union Rooms -> {"NONE", "READ", "WRITE", "READ_WRITE"}]
      BY <3>1 DEF Types
    <3>4. sock' \in [Clients -> {"FREE", "BACKLOG", "OPEN", "FIN", "RST"}]
      BY <3>1 DEF Types
    <3>5. page' \in [Clients -> {"OUT", "LOADING", "MENU", "JOINING", "CREATING", "ENTERED"}]
      BY <3>1 DEF Types
    <3>6. seen' \in [Clients -> SUBSET Rooms]
      <4>1. {r \in Rooms : rooms[r] = "WAITING"} \in SUBSET Rooms
        OBVIOUS
      <4>2. seen \in [Clients -> SUBSET Rooms]
        BY DEF Types
      <4>3. [seen EXCEPT ![f] = {r \in Rooms : rooms[r] = "WAITING"}] \in [Clients -> SUBSET Rooms]
        BY <4>1, <4>2
      <4> QED BY <3>1, <4>2, <4>3
    <3> QED BY <3>2, <3>3, <3>4, <3>5, <3>6
  <2>2. UNCHANGED <<rooms, waiting, args, inbox, pipe, notice, thread, at, serves>>
    BY <1>3 DEF SendRooms, threads
  <2> QED BY <1>1, <2>1, <2>2 DEF Types
<1>4. ASSUME WaitingCommand(f), ~CloseConnection(f)
      PROVE  Types'
  <2>1. /\ inbox' = [inbox EXCEPT ![f] = Tail(@)]
        /\ \/ entry' = [entry EXCEPT ![f] = "START"] /\ interest' = [interest EXCEPT ![f] = "WRITE"]
           \/ entry' = [entry EXCEPT ![f] = "CREATING_ROOM"] /\ UNCHANGED interest
           \/ entry' = [entry EXCEPT ![f] = "JOINING_ROOM"] /\ UNCHANGED interest
        /\ UNCHANGED <<rooms, waiting, args, sock, pipe, notice, threads, clients>>
    BY <1>4 DEF WaitingCommand, ReadFails, ReadMessage, AfterRefresh, Watch
  <2>2. entry' \in [Clients -> ManagerStates \union {"NONE"}]
    <3>1. entry \in [Clients -> ManagerStates \union {"NONE"}]
      BY DEF Types
    <3>2. PICK s \in {"START", "CREATING_ROOM", "JOINING_ROOM"} : entry' = [entry EXCEPT ![f] = s]
      BY <2>1
    <3> QED BY <3>1, <3>2 DEF ManagerStates
  <2>3. interest' \in [Clients \union Rooms -> {"NONE", "READ", "WRITE", "READ_WRITE"}]
    BY <2>1 DEF Types
  <2>4. inbox' = [g \in Clients |-> inbox'[g]]
    BY <2>1 DEF Types
  <2>5. UNCHANGED <<rooms, waiting, args, sock, pipe, notice, thread, at, serves, page, seen>>
    BY <2>1 DEF threads, clients
  <2> QED BY <1>1, <2>2, <2>3, <2>4, <2>5 DEF Types
<1>5. ASSUME CreateRoom(f), ~CloseConnection(f)
      PROVE  Types'
  <2>1. PICK r \in Rooms : /\ interest' = [interest EXCEPT ![f] = "NONE", ![r] = "READ"]
                           /\ entry' = [entry EXCEPT ![f] = "NONE"]
                           /\ args' = <<r, f>>
                           /\ thread' = [thread EXCEPT ![r] = "NEW"]
                           /\ rooms' = [rooms EXCEPT ![r] = "WAITING"]
                           /\ UNCHANGED <<waiting, kernel, at, serves, clients>>
    BY <1>5 DEF CreateRoom, Unused, Arguments
  <2>2. args' \in Rooms \X Clients /\ args' # <<>>
    BY <2>1
  <2>3. /\ interest' \in [Clients \union Rooms -> {"NONE", "READ", "WRITE", "READ_WRITE"}]
        /\ entry' \in [Clients -> ManagerStates \union {"NONE"}]
        /\ thread' \in [Rooms -> {"NONE", "NEW", "WAITING", "STARTED", "CLOSED"}]
        /\ rooms' \in [Rooms -> {"NONE", "WAITING", "PLAYING"}]
    BY <2>1 DEF Types
  <2>4. UNCHANGED <<waiting, sock, inbox, pipe, notice, at, serves, page, seen>>
    BY <2>1 DEF kernel, clients
  <2> QED BY <1>1, <2>2, <2>3, <2>4 DEF Types
<1>6. ASSUME JoinRoom(f), ~CloseConnection(f)
      PROVE  Types'
  <2>1. PICK r \in Rooms : /\ inbox' = [inbox EXCEPT ![f] = Tail(@)]
                           /\ waiting' = [waiting EXCEPT ![r] = Append(@, f)]
                           /\ interest' = [interest EXCEPT ![f] = "NONE", ![r] = "READ_WRITE"]
                           /\ UNCHANGED <<entry, rooms, args, sock, pipe, notice, threads, clients>>
    BY <1>6 DEF JoinRoom, ReadFails, Listed, ReadMessage, WatchRoom
  <2>2. waiting' \in [Rooms -> Seq(Clients)]
    BY <2>1 DEF Types
  <2>3. interest' \in [Clients \union Rooms -> {"NONE", "READ", "WRITE", "READ_WRITE"}]
    BY <2>1 DEF Types
  <2> QED BY <1>1, <2>1, <2>2, <2>3 DEF Types, threads, clients
<1> QED BY <1>2, <1>3, <1>4, <1>5, <1>6 DEF HangUp, ManageState

LEMMA RoomTyped ==
  ASSUME Types,
         \/ AddNewConnection
         \/ \E r \in Rooms : RoomHangUp(r) \/ RoomPlays(r) \/ ConnectToRoom(r)
  PROVE  Types'
<1>1. /\ batch' \subseteq [fd : Clients \union Rooms \union {Socket}, in : BOOLEAN, hup : BOOLEAN]
      /\ \A d, e \in batch' : d.fd = e.fd => d = e
  <2>1. batch' \subseteq batch
    BY DEF AddNewConnection, RoomHangUp, RoomPlays, ConnectToRoom, Handle
  <2> QED BY <2>1, BatchTyped
<1>2. CASE AddNewConnection
  <2>1. /\ entry' \in [Clients -> ManagerStates \union {"NONE"}]
        /\ interest' \in [Clients \union Rooms -> {"NONE", "READ", "WRITE", "READ_WRITE"}]
        /\ sock' \in [Clients -> {"FREE", "BACKLOG", "OPEN", "FIN", "RST"}]
        /\ UNCHANGED <<rooms, waiting, args, inbox, pipe, notice, threads, clients>>
    BY <1>2 DEF AddNewConnection, Types, ManagerStates
  <2> QED BY <1>1, <2>1 DEF Types, threads, clients
<1>3. ASSUME NEW r \in Rooms, RoomHangUp(r)
      PROVE  Types'
  <2>1. /\ rooms' \in [Rooms -> {"NONE", "WAITING", "PLAYING"}]
        /\ waiting' \in [Rooms -> Seq(Clients)]
        /\ interest' \in [Clients \union Rooms -> {"NONE", "READ", "WRITE", "READ_WRITE"}]
        /\ UNCHANGED <<entry, args, kernel, threads, clients>>
    BY <1>3 DEF RoomHangUp, Watch, Types
  <2> QED BY <1>1, <2>1 DEF Types, kernel, threads, clients
<1>4. ASSUME NEW r \in Rooms, RoomPlays(r)
      PROVE  Types'
  <2>1. /\ rooms' \in [Rooms -> {"NONE", "WAITING", "PLAYING"}]
        /\ interest' \in [Clients \union Rooms -> {"NONE", "READ", "WRITE", "READ_WRITE"}]
        /\ UNCHANGED <<entry, waiting, args, sock, inbox, pipe, threads, clients>>
    BY <1>4 DEF RoomPlays, Watch, Types
  <2>2. notice' \in [Rooms -> BOOLEAN]
    BY <1>4, Zenon DEF RoomPlays, Types
  <2> QED BY <1>1, <2>1, <2>2 DEF Types, threads, clients
<1>5. ASSUME NEW r \in Rooms, ConnectToRoom(r)
      PROVE  Types'
  <2>1. waiting[r] \in Seq(Clients) /\ HandedOver(waiting[r]) \in Seq(Clients)
    BY DEF Types, HandedOver, Reverse
  <2>2. /\ pipe' \in [Rooms -> Seq(Clients)] /\ waiting' \in [Rooms -> Seq(Clients)]
        /\ interest' \in [Clients \union Rooms -> {"NONE", "READ", "WRITE", "READ_WRITE"}]
    <3>1. CASE Gone(r)
      BY <1>5, <3>1 DEF ConnectToRoom, Types
    <3>2. CASE ~Gone(r)
      <4>1. pipe[r] \o HandedOver(waiting[r]) \in Seq(Clients)
        BY <2>1 DEF Types
      <4>2. /\ pipe' = [pipe EXCEPT ![r] = @ \o HandedOver(waiting[r])]
            /\ waiting' = [waiting EXCEPT ![r] = <<>>]
            /\ interest' = [interest EXCEPT ![r] = "READ"]
        BY <1>5, <3>2 DEF ConnectToRoom, Watch
      <4>3. pipe' \in [Rooms -> Seq(Clients)]
        BY <4>1, <4>2 DEF Types
      <4>4. waiting' \in [Rooms -> Seq(Clients)]
        BY <4>2 DEF Types
      <4>5. interest' \in [Clients \union Rooms -> {"NONE", "READ", "WRITE", "READ_WRITE"}]
        BY <4>2 DEF Types
      <4> QED BY <4>3, <4>4, <4>5
    <3> QED BY <3>1, <3>2
  <2>3. UNCHANGED <<entry, rooms, args, sock, inbox, notice, threads, clients>>
    BY <1>5 DEF ConnectToRoom
  <2> QED BY <1>1, <2>2, <2>3 DEF Types, threads, clients
<1> QED BY <1>2, <1>3, <1>4, <1>5

LEMMA ThreadTyped ==
  ASSUME Types, NEW r \in Rooms,
         RoomThread(r) \/ RoomBegins(r) \/ RoomCloses(r) \/ \E f \in Clients : RoomDrops(r, f)
  PROVE  Types'
<1>1. UNCHANGED server
  BY DEF RoomThread, RoomStarts, RoomTakes, RoomBegins, RoomCloses, RoomDrops
<1>2. CASE RoomStarts(r)
  <2>1. args[1] \in Rooms /\ args[2] \in Clients
    BY <1>2 DEF RoomStarts, Types
  <2>2. /\ thread' \in [Rooms -> {"NONE", "NEW", "WAITING", "STARTED", "CLOSED"}]
        /\ at' \in [Rooms -> Rooms]
        /\ serves' \in [Rooms -> SUBSET Clients]
        /\ \A s \in Rooms : thread'[s] = "NEW" => thread[s] = "NEW"
    BY <1>2, <2>1 DEF RoomStarts, Types
  <2> QED BY <1>1, <1>2, <2>2 DEF RoomStarts, Types, server, kernel, clients
<1>3. CASE RoomTakes(r)
  <2> DEFINE f == Head(pipe[at[r]])
  <2>1. at[r] \in Rooms /\ pipe[at[r]] \in Seq(Clients) /\ pipe[at[r]] # <<>>
    BY <1>3 DEF RoomTakes, Types
  <2>2. f \in Clients /\ Tail(pipe[at[r]]) \in Seq(Clients)
    BY <2>1
  <2> HIDE DEF f
  <2>3. /\ pipe' \in [Rooms -> Seq(Clients)]
        /\ serves' \in [Rooms -> SUBSET Clients]
        /\ inbox' = [inbox EXCEPT ![f] = <<>>]
        /\ UNCHANGED <<sock, notice, thread, at, clients>>
    BY <1>3, <2>1, <2>2 DEF RoomTakes, Types, f
  <2> QED BY <1>1, <2>3 DEF Types, server, clients
<1>4. CASE RoomBegins(r)
  <2>1. notice' \in [Rooms -> BOOLEAN]
    BY <1>4, Zenon DEF RoomBegins, Types
  <2>2. /\ thread' \in [Rooms -> {"NONE", "NEW", "WAITING", "STARTED", "CLOSED"}]
        /\ \A s \in Rooms : thread'[s] = "NEW" => thread[s] = "NEW"
    BY <1>4 DEF RoomBegins, Types
  <2> QED BY <1>1, <1>4, <2>1, <2>2 DEF RoomBegins, Types, server, clients
<1>5. CASE RoomCloses(r)
  <2>1. /\ thread' \in [Rooms -> {"NONE", "NEW", "WAITING", "STARTED", "CLOSED"}]
        /\ \A s \in Rooms : thread'[s] = "NEW" => thread[s] = "NEW"
        /\ serves' \in [Rooms -> SUBSET Clients]
        /\ pipe' \in [Rooms -> Seq(Clients)]
        /\ Close(serves[r])
    BY <1>5 DEF RoomCloses, Types
  <2> QED BY <1>1, <1>5, <2>1, CloseTyped DEF RoomCloses, Types, server
<1>6. ASSUME NEW f \in Clients, RoomDrops(r, f)
      PROVE  Types'
  <2>1. serves' \in [Rooms -> SUBSET Clients] /\ Close({f})
    BY <1>6 DEF RoomDrops, Types
  <2> QED BY <1>1, <1>6, <2>1, CloseTyped DEF RoomDrops, Types, server
<1> QED BY <1>2, <1>3, <1>4, <1>5, <1>6 DEF RoomThread

LEMMA ProgramTyped ==
  ASSUME Types, NEW f \in Clients, Connect(f) \/ Choose(f) \/ SendRest(f) \/ Leave(f)
  PROVE  Types'
<1>1. /\ sock' \in [Clients -> {"FREE", "BACKLOG", "OPEN", "FIN", "RST"}]
      /\ inbox' = [g \in Clients |-> inbox'[g]]
      /\ page' \in [Clients -> {"OUT", "LOADING", "MENU", "JOINING", "CREATING", "ENTERED"}]
      /\ seen' \in [Clients -> SUBSET Rooms]
  <2>1. CASE Connect(f)
    BY <2>1 DEF Connect, Types
  <2>2. CASE Choose(f)
    <3>1. PICK next \in {"LOADING", "CREATING", "JOINING"} :
            /\ \E command : inbox' = [inbox EXCEPT ![f] = Append(@, command)]
            /\ page' = [page EXCEPT ![f] = next]
            /\ sock' = sock /\ (seen' = seen \/ seen' = [seen EXCEPT ![f] = {}])
      BY <2>2 DEF Choose, Ask
    <3>2. inbox' = [g \in Clients |-> inbox'[g]]
      BY <3>1 DEF Types
    <3>3. page' \in [Clients -> {"OUT", "LOADING", "MENU", "JOINING", "CREATING", "ENTERED"}]
      BY <3>1 DEF Types
    <3>4. seen' \in [Clients -> SUBSET Rooms]
      BY <3>1 DEF Types
    <3>5. sock' \in [Clients -> {"FREE", "BACKLOG", "OPEN", "FIN", "RST"}]
      BY <3>1 DEF Types
    <3> QED BY <3>2, <3>3, <3>4, <3>5
  <2>3. CASE SendRest(f)
    <3>1. /\ \E rest : inbox' = [inbox EXCEPT ![f] = @ \o rest]
          /\ page' = [page EXCEPT ![f] = "ENTERED"] /\ seen' = [seen EXCEPT ![f] = {}]
          /\ sock' = sock
      BY <2>3 DEF SendRest
    <3>2. inbox' = [g \in Clients |-> inbox'[g]]
      BY <3>1 DEF Types
    <3>3. page' \in [Clients -> {"OUT", "LOADING", "MENU", "JOINING", "CREATING", "ENTERED"}]
      BY <3>1 DEF Types
    <3>4. seen' \in [Clients -> SUBSET Rooms]
      BY <3>1 DEF Types
    <3>5. sock' \in [Clients -> {"FREE", "BACKLOG", "OPEN", "FIN", "RST"}]
      BY <3>1 DEF Types
    <3> QED BY <3>2, <3>3, <3>4, <3>5
  <2>4. CASE Leave(f)
    <3>1. \E to \in {"FIN", "RST"} : sock' = [sock EXCEPT ![f] = to]
      BY <2>4 DEF Leave
    <3>2. UNCHANGED <<inbox, page, seen>>
      BY <2>4 DEF Leave, clients
    <3> QED BY <3>1, <3>2 DEF Types
  <2> QED BY <2>1, <2>2, <2>3, <2>4
<1>2. UNCHANGED <<server, pipe, notice, threads>>
  BY DEF Connect, Choose, Ask, SendRest, Leave
<1> QED BY <1>1, <1>2 DEF Types, server, threads

LEMMA NextTypes ==
  ASSUME Types, [Next]_vars
  PROVE  Types'
<1>1. CASE UNCHANGED vars
  BY <1>1 DEF Types, vars, server, kernel, threads, clients
<1> QED BY <1>1, WaitTyped, ClientTyped, RoomTyped, ThreadTyped, ProgramTyped
        DEF Next, Run, ManageEvents, RoomThread

-----------------------------------------------------------------------------
(* Who has a connection.                                                   *)

\* Events are about connections that are watched
EventsHeld == \A e \in batch : e.fd \in Clients => interest[e.fd] # "NONE"

OneOwner(f) == \A p, q \in Held(f) : p = q

Nowhere(f) == sock[f] \in {"FREE", "BACKLOG"} => Held(f) = {}

\* A thread that did not read its arguments serves nobody
Fresh == \A r \in Rooms : thread[r] \in {"NONE", "NEW"} => serves[r] = {}

Owned == EventsHeld /\ Fresh /\ \A f \in Clients : OneOwner(f) /\ Nowhere(f)

Mine == Own /\ Types

\* What a step does for the client behind f: it is in one place at most, and if it is
\* nowhere any more then there is a reason
Lost(f) ==
  \/ sock'[f] = "FREE"
  \/ \E r \in Rooms : \/ f \in ToSet(pipe[r]) /\ ~Gone(r) /\ Gone(r)'
                      \/ f \in ToSet(waiting[r]) /\ rooms'[r] = "NONE"

Cared(f) == OneOwner(f)' /\ Nowhere(f)' /\ (Held(f) # {} /\ Held(f)' = {} => Lost(f))

HeldSomewhere(f, p) ==
  \/ \E r \in Rooms : \E i \in DOMAIN waiting[r] : waiting[r][i] = f /\ p = <<r, "waiting", i>>
  \/ \E r \in Rooms : \E i \in DOMAIN pipe[r] : pipe[r][i] = f /\ p = <<r, "pipe", i>>
  \/ \E r \in Rooms : f \in serves[r] /\ p = <<r, "serves", 1>>
  \/ \E r \in Rooms : thread[r] = "NEW" /\ args[2] = f /\ p = <<r, "args", 2>>
  \/ interest[f] # "NONE" /\ p = <<f, "interest", 1>>

LEMMA HeldPlaces ==
  ASSUME NEW f
  PROVE  /\ \A p : p \in Held(f) <=> HeldSomewhere(f, p)
         /\ \A p : p \in Held(f)' <=> HeldSomewhere(f, p)'
<1>1. ASSUME NEW p
      PROVE  p \in Held(f) <=> HeldSomewhere(f, p)
  <2>1. p \in Held(f) <=> \/ \E r \in Rooms : p \in HeldIn(r, f)
                          \/ interest[f] # "NONE" /\ p = <<f, "interest", 1>>
    BY DEF Held
  <2>2. ASSUME NEW r \in Rooms
        PROVE  p \in HeldIn(r, f) <=>
                 \/ \E i \in DOMAIN waiting[r] : waiting[r][i] = f /\ p = <<r, "waiting", i>>
                 \/ \E i \in DOMAIN pipe[r] : pipe[r][i] = f /\ p = <<r, "pipe", i>>
                 \/ f \in serves[r] /\ p = <<r, "serves", 1>>
                 \/ thread[r] = "NEW" /\ args[2] = f /\ p = <<r, "args", 2>>
    BY DEF HeldIn, Places
  <2> QED BY <2>1, <2>2 DEF HeldSomewhere
<1>2. ASSUME NEW p
      PROVE  p \in Held(f)' <=> HeldSomewhere(f, p)'
  <2>1. p \in Held(f)' <=> \/ \E r \in Rooms : p \in HeldIn(r, f)'
                           \/ interest'[f] # "NONE" /\ p = <<f, "interest", 1>>
    BY DEF Held
  <2>2. ASSUME NEW r \in Rooms
        PROVE  p \in HeldIn(r, f)' <=>
                 \/ \E i \in DOMAIN waiting'[r] : waiting'[r][i] = f /\ p = <<r, "waiting", i>>
                 \/ \E i \in DOMAIN pipe'[r] : pipe'[r][i] = f /\ p = <<r, "pipe", i>>
                 \/ f \in serves'[r] /\ p = <<r, "serves", 1>>
                 \/ thread'[r] = "NEW" /\ args'[2] = f /\ p = <<r, "args", 2>>
    BY DEF HeldIn, Places
  <2> QED BY <2>1, <2>2 DEF HeldSomewhere
<1> QED BY <1>1, <1>2

LEMMA OnlyThere ==
  ASSUME NEW f, OneOwner(f), NEW p, HeldSomewhere(f, p)
  PROVE  Held(f) = {p} /\ \A q : HeldSomewhere(f, q) => q = p
BY HeldPlaces DEF OneOwner

LEMMA SamePlaces ==
  ASSUME NEW f, UNCHANGED <<waiting, pipe, serves>>, interest'[f] = interest[f],
         \A r \in Rooms :
           (thread'[r] = "NEW" /\ args'[2] = f) <=> (thread[r] = "NEW" /\ args[2] = f)
  PROVE  Held(f)' = Held(f)
<1>1. \A p : HeldSomewhere(f, p)' <=> HeldSomewhere(f, p)
  BY DEF HeldSomewhere
<1> QED BY <1>1, HeldPlaces

LEMMA CaredSame ==
  ASSUME NEW f, OneOwner(f), Nowhere(f), Held(f)' = Held(f),
         sock'[f] \in {"FREE", "BACKLOG"} => sock[f] \in {"FREE", "BACKLOG"}
  PROVE  Cared(f)
BY DEF Cared, OneOwner, Nowhere

LEMMA CaredMoved ==
  ASSUME NEW f, NEW p, Held(f)' = {p}, sock'[f] \notin {"FREE", "BACKLOG"}
  PROVE  Cared(f)
BY DEF Cared, OneOwner, Nowhere

LEMMA CaredGone ==
  ASSUME NEW f, Held(f)' = {}, Lost(f)
  PROVE  Cared(f)
BY DEF Cared, OneOwner, Nowhere

\* The connection of an event that is being handled is the server's alone
LEMMA HandledWatched ==
  ASSUME Owned, NEW f \in Clients, NEW hup, Handle(f, hup)
  PROVE  /\ interest[f] # "NONE"
         /\ Held(f) = {<<f, "interest", 1>>}
         /\ \A q : HeldSomewhere(f, q) => q = <<f, "interest", 1>>
         /\ sock[f] \notin {"FREE", "BACKLOG"}
<1>1. interest[f] # "NONE"
  BY DEF Handle, Owned, EventsHeld
<1>2. HeldSomewhere(f, <<f, "interest", 1>>)
  BY <1>1 DEF HeldSomewhere
<1>3. OneOwner(f) /\ Nowhere(f)
  BY DEF Owned
<1>4. /\ Held(f) = {<<f, "interest", 1>>}
      /\ \A q : HeldSomewhere(f, q) => q = <<f, "interest", 1>>
  BY <1>2, <1>3, OnlyThere
<1> QED BY <1>1, <1>3, <1>4 DEF Nowhere

LEMMA CloseCared ==
  ASSUME Mine, Owned, NEW f \in Clients, NEW hup, Handle(f, hup), CloseConnection(f)
  PROVE  \A g \in Clients : Cared(g)
<1> TAKE g \in Clients
<1>0. OneOwner(g) /\ Nowhere(g)
  BY DEF Owned
<1>1. /\ UNCHANGED <<waiting, pipe, serves, args, thread>>
      /\ interest' = [interest EXCEPT ![f] = "NONE"]
      /\ sock'[f] = "FREE" /\ (g # f => sock'[g] = sock[g])
  BY DEF CloseConnection, Close, Watch, threads
<1>2. f \in DOMAIN interest /\ g \in DOMAIN interest
  BY DEF Mine, Types
<1>3. CASE g = f
  <2>1. interest'[f] = "NONE"
    BY <1>1, <1>2
  <2>2. \A p : HeldSomewhere(f, p)' => HeldSomewhere(f, p) /\ p # <<f, "interest", 1>>
    BY <1>1, <2>1 DEF HeldSomewhere
  <2>3. Held(f)' = {}
    BY <2>2, HandledWatched, HeldPlaces
  <2> QED BY <1>1, <1>3, <2>3, CaredGone DEF Lost
<1>4. CASE g # f
  <2>1. Held(g)' = Held(g)
    BY <1>1, <1>2, <1>4, SamePlaces
  <2> QED BY <1>0, <1>1, <1>4, <2>1, CaredSame
<1> QED BY <1>3, <1>4

LEMMA ClientEventCared ==
  ASSUME Mine, Owned, ~LateThreads, NEW f \in Clients, HangUp(f) \/ ManageState(f)
  PROVE  \A g \in Clients : Cared(g)
<1>1. PICK hup : Handle(f, hup)
  BY DEF HangUp, ManageState, SendRooms, WaitingCommand, CreateRoom, JoinRoom, In
<1>2. CASE CloseConnection(f)
  BY <1>1, <1>2, CloseCared
<1>3. ASSUME ~CloseConnection(f)
      PROVE  \A g \in Clients : Cared(g)
  <2> TAKE g \in Clients
  <2>0. /\ OneOwner(g) /\ Nowhere(g) /\ interest[f] # "NONE"
        /\ f \in DOMAIN interest /\ g \in DOMAIN interest /\ DOMAIN sock = Clients
        /\ Rooms \subseteq DOMAIN interest /\ g \notin Rooms
        /\ DOMAIN thread = Rooms /\ DOMAIN waiting = Rooms
    BY <1>1, HandledWatched, ServerAssumption DEF Owned, Mine, Types
  <2>1. CASE SendRooms(f)
    <3>1. /\ UNCHANGED <<waiting, pipe, serves, args, thread>>
          /\ interest' = [interest EXCEPT ![f] = "READ"]
          /\ sock' = sock \/ sock' = [sock EXCEPT ![f] = "RST"]
      BY <1>3, <2>1 DEF SendRooms, Watch, threads
    <3>2. sock'[g] \in {"FREE", "BACKLOG"} => sock[g] \in {"FREE", "BACKLOG"}
      BY <2>0, <3>1
    <3>3. \A p : HeldSomewhere(g, p)' <=> HeldSomewhere(g, p)
      BY <2>0, <3>1 DEF HeldSomewhere
    <3> QED BY <2>0, <3>2, <3>3, HeldPlaces, CaredSame
  <2>2. CASE WaitingCommand(f)
    <3>1. /\ UNCHANGED <<waiting, pipe, serves, args, thread, sock>>
          /\ interest' = interest \/ interest' = [interest EXCEPT ![f] = "WRITE"]
      BY <1>3, <2>2 DEF WaitingCommand, ReadFails, Watch, AfterRefresh, threads
    <3>3. \A p : HeldSomewhere(g, p)' <=> HeldSomewhere(g, p)
      BY <2>0, <3>1 DEF HeldSomewhere
    <3> QED BY <2>0, <3>1, <3>3, HeldPlaces, CaredSame
  <2>3. CASE CreateRoom(f)
    <3>1. PICK r \in Rooms : /\ interest' = [interest EXCEPT ![f] = "NONE", ![r] = "READ"]
                             /\ args' = <<r, f>>
                             /\ thread' = [thread EXCEPT ![r] = "NEW"]
                             /\ UNCHANGED <<waiting, pipe, sock, serves>>
      BY <1>3, <2>3 DEF CreateRoom, Unused, Arguments, kernel
    <3>2. \A s \in Rooms : thread[s] # "NEW"
      BY <2>3 DEF CreateRoom
    <3>3. CASE g = f
      <4>1. interest'[f] = "NONE"
        BY <2>0, <3>1, <3>3
      <4>2. \A p : HeldSomewhere(f, p)' <=> p = <<r, "args", 2>>
        <5>1. HeldSomewhere(f, <<r, "args", 2>>)'
          BY <2>0, <3>1 DEF HeldSomewhere
        <5>2. ASSUME NEW p, HeldSomewhere(f, p)', p # <<r, "args", 2>>
              PROVE  HeldSomewhere(f, p) /\ p # <<f, "interest", 1>>
          BY <2>0, <3>1, <3>2, <4>1, <5>2 DEF HeldSomewhere
        <5> QED BY <1>1, <5>1, <5>2, HandledWatched
      <4>3. Held(f)' = {<<r, "args", 2>>}
        BY <4>2, HeldPlaces
      <4> QED BY <1>1, <3>1, <3>3, <4>3, CaredMoved, HandledWatched
    <3>4. CASE g # f
      <4>1. interest'[g] = interest[g]
        BY <2>0, <3>1, <3>4
      <4>2. \A s \in Rooms :
              (thread'[s] = "NEW" /\ args'[2] = g) <=> (thread[s] = "NEW" /\ args[2] = g)
        BY <2>0, <3>1, <3>2, <3>4
      <4>3. Held(g)' = Held(g)
        BY <3>1, <4>1, <4>2, SamePlaces
      <4> QED BY <2>0, <3>1, <4>3, CaredSame
    <3> QED BY <3>3, <3>4
  <2>4. CASE JoinRoom(f)
    <3>1. PICK r \in Rooms : /\ interest' = [interest EXCEPT ![f] = "NONE", ![r] = "READ_WRITE"]
                             /\ waiting' = [waiting EXCEPT ![r] = Append(@, f)]
                             /\ UNCHANGED <<args, thread, pipe, sock, serves>>
      BY <1>3, <2>4 DEF JoinRoom, ReadFails, Listed, WatchRoom, threads
    <3>2. /\ waiting[r] \in Seq(Clients) /\ Len(waiting[r]) \in Nat
          /\ waiting'[r] = Append(waiting[r], f)
          /\ DOMAIN waiting[r] = 1..Len(waiting[r])
          /\ DOMAIN waiting'[r] = 1..(Len(waiting[r]) + 1)
          /\ \A i \in 1..Len(waiting[r]) : waiting'[r][i] = waiting[r][i]
          /\ waiting'[r][Len(waiting[r]) + 1] = f
          /\ \A s \in Rooms : s # r => waiting'[s] = waiting[s]
      BY <2>0, <3>1 DEF Mine, Types
    <3>3. CASE g = f
      <4>0. PICK n : n = Len(waiting[r]) + 1
        OBVIOUS
      <4>1. interest'[f] = "NONE"
        BY <2>0, <3>1, <3>3
      <4>2. \A p : HeldSomewhere(f, p)' <=> p = <<r, "waiting", n>>
        <5>1. HeldSomewhere(f, <<r, "waiting", n>>)'
          <6>1. n \in DOMAIN waiting'[r] /\ waiting'[r][n] = f
            BY <3>2, <4>0
          <6> QED BY <6>1 DEF HeldSomewhere
        <5>2. ASSUME NEW p, HeldSomewhere(f, p)', p # <<r, "waiting", n>>
              PROVE  HeldSomewhere(f, p) /\ p # <<f, "interest", 1>>
          <6>1. CASE \E s \in Rooms : \E i \in DOMAIN waiting'[s] :
                       waiting'[s][i] = f /\ p = <<s, "waiting", i>>
            <7>1. PICK s, i : /\ s \in Rooms /\ i \in DOMAIN waiting'[s]
                              /\ waiting'[s][i] = f /\ p = <<s, "waiting", i>>
              BY <6>1
            <7>2. CASE s = r
              <8>1. i \in 1..Len(waiting[r]) /\ waiting[r][i] = f
                BY <3>2, <4>0, <5>2, <7>1, <7>2
              <8> QED BY <3>2, <7>1, <7>2, <8>1 DEF HeldSomewhere
            <7>3. CASE s # r
              <8>1. waiting'[s] = waiting[s]
                BY <3>2, <7>1, <7>3
              <8> QED BY <7>1, <8>1 DEF HeldSomewhere
            <7> QED BY <7>2, <7>3
          <6>2. CASE ~(\E s \in Rooms : \E i \in DOMAIN waiting'[s] :
                         waiting'[s][i] = f /\ p = <<s, "waiting", i>>)
            BY <3>1, <4>1, <5>2, <6>2 DEF HeldSomewhere
          <6> QED BY <6>1, <6>2
        <5> QED BY <1>1, <5>1, <5>2, HandledWatched
      <4>3. Held(f)' = {<<r, "waiting", n>>}
        BY <4>2, HeldPlaces
      <4> QED BY <1>1, <3>1, <3>3, <4>3, CaredMoved, HandledWatched
    <3>4. CASE g # f
      <4>1. interest'[g] = interest[g]
        BY <2>0, <3>1, <3>4
      <4>2. \A s \in Rooms : \A i : i \in DOMAIN waiting'[s] /\ waiting'[s][i] = g <=>
                                    i \in DOMAIN waiting[s] /\ waiting[s][i] = g
        BY SMTT(30), <3>2, <3>4
      <4>3. \A p : HeldSomewhere(g, p)' <=> HeldSomewhere(g, p)
        BY <3>1, <4>1, <4>2 DEF HeldSomewhere
      <4> QED BY <2>0, <3>1, <4>3, HeldPlaces, CaredSame
    <3> QED BY <3>3, <3>4
  <2> QED BY <1>3, <2>1, <2>2, <2>3, <2>4 DEF HangUp, ManageState
<1> QED BY <1>2, <1>3

(***************************************************************************)
(* Where an element of a sequence is after the sequence moved.             *)
(***************************************************************************)
LEMMA TailMovesUp ==
  ASSUME NEW S, NEW q \in Seq(S), q # <<>>
  PROVE  /\ Head(q) = q[1] /\ 1 \in DOMAIN q
         /\ \A i \in DOMAIN Tail(q) : i \in Nat \ {0} /\ i + 1 \in DOMAIN q /\ Tail(q)[i] = q[i + 1]
         /\ \A i \in DOMAIN q : i # 1 => i - 1 \in DOMAIN Tail(q) /\ Tail(q)[i - 1] = q[i]
<1>1. /\ Len(q) \in Nat \ {0} /\ DOMAIN q = 1..Len(q)
      /\ Tail(q) \in Seq(S) /\ Len(Tail(q)) = Len(q) - 1
  OBVIOUS
<1>2. DOMAIN Tail(q) = 1..(Len(q) - 1)
  BY <1>1
<1>3. \A i \in 1..(Len(q) - 1) : Tail(q)[i] = q[i + 1]
  BY <1>1
<1>4. \A i \in DOMAIN Tail(q) : i \in Nat \ {0} /\ i + 1 \in DOMAIN q /\ Tail(q)[i] = q[i + 1]
  BY <1>1, <1>2, <1>3
<1>5. ASSUME NEW i \in DOMAIN q, i # 1
      PROVE  i - 1 \in DOMAIN Tail(q) /\ Tail(q)[i - 1] = q[i]
  <2>1. i - 1 \in 1..(Len(q) - 1) /\ (i - 1) + 1 = i
    BY <1>1, <1>5
  <2> QED BY <1>2, <1>3, <2>1
<1> QED BY <1>1, <1>4, <1>5

\* Where the i-th of w is when w was handed over behind q
PlaceOf(q, w, i) == Len(q) + (Len(w) - i + 1)

\* What c holds if w was
Joined(q, w, c) ==
  /\ \A i \in DOMAIN q : i \in DOMAIN c /\ c[i] = q[i]
  /\ \A i \in DOMAIN w : PlaceOf(q, w, i) \in DOMAIN c /\ c[PlaceOf(q, w, i)] = w[i]
  /\ \A j \in DOMAIN c : j \in DOMAIN q \/ \E i \in DOMAIN w : j = PlaceOf(q, w, i)

LEMMA HandedOverAfter ==
  ASSUME NEW S, NEW q \in Seq(S), NEW w \in Seq(S)
  PROVE  Joined(q, w, q \o HandedOver(w))
<1> DEFINE v == HandedOver(w)
           c == q \o v
<1>1. Len(q) \in Nat /\ Len(w) \in Nat /\ DOMAIN q = 1..Len(q) /\ DOMAIN w = 1..Len(w)
  OBVIOUS
<1>2. v \in Seq(S) /\ Len(v) = Len(w)
  BY DEF HandedOver, Reverse
<1>3. \A i \in 1..Len(w) : v[i] = w[Len(w) - i + 1]
  BY <1>1 DEF HandedOver, Reverse
<1> HIDE DEF v
<1>4. c = q \o v
  OBVIOUS
<1> HIDE DEF c
<1>5. DOMAIN c = 1..(Len(q) + Len(w))
  <2>1. q \o v \in Seq(S) /\ Len(q \o v) = Len(q) + Len(v)
    BY <1>2, ConcatProperties
  <2>2. c \in Seq(S) /\ Len(c) = Len(q) + Len(w)
    BY <1>2, <1>4, <2>1, Zenon
  <2> QED BY <2>2
<1>6. \A i \in 1..Len(q) : c[i] = q[i]
  BY <1>1, <1>2, <1>4
<1>7. \A i \in 1..Len(w) : c[Len(q) + i] = v[i]
  BY <1>1, <1>2, <1>4
<1>8. ASSUME NEW i \in DOMAIN w
      PROVE  /\ Len(q) + (Len(w) - i + 1) \in DOMAIN c
             /\ c[Len(q) + (Len(w) - i + 1)] = w[i]
  <2>1. Len(w) - i + 1 \in 1..Len(w) /\ Len(w) - (Len(w) - i + 1) + 1 = i
    BY <1>1
  <2>2. c[Len(q) + (Len(w) - i + 1)] = v[Len(w) - i + 1] /\ v[Len(w) - i + 1] = w[i]
    BY <1>3, <1>7, <2>1
  <2> QED BY <1>1, <1>5, <2>1, <2>2
<1>9. ASSUME NEW j \in DOMAIN c, j \notin DOMAIN q
      PROVE  \E i \in DOMAIN w : j = Len(q) + (Len(w) - i + 1)
  <2>1. j \in Nat /\ j > Len(q) /\ j <= Len(q) + Len(w)
    BY <1>1, <1>5, <1>9
  <2>2. PICK m \in Nat, n \in Nat : m = Len(q) /\ n = Len(w)
    BY <1>1
  <2>3. m + n - j + 1 \in 1..n /\ j = m + (n - (m + n - j + 1) + 1)
    BY <2>1, <2>2
  <2> QED BY <1>1, <2>2, <2>3
<1>10. Joined(q, w, c)
  BY <1>1, <1>5, <1>6, <1>8, <1>9 DEF Joined, PlaceOf
<1> QED BY <1>10 DEF c, v

LEMMA RoomEventCared ==
  ASSUME Mine, Owned,
         \/ AddNewConnection
         \/ \E r \in Rooms : RoomHangUp(r) \/ RoomPlays(r) \/ ConnectToRoom(r)
  PROVE  \A g \in Clients : Cared(g)
<1> TAKE g \in Clients
<1>0. /\ OneOwner(g) /\ Nowhere(g)
      /\ g \in DOMAIN interest /\ g \notin Rooms
      /\ DOMAIN waiting = Rooms /\ DOMAIN pipe = Rooms
  BY ServerAssumption DEF Owned, Mine, Types
<1>1. CASE AddNewConnection
  <2>1. /\ interest'[g] = IF g \in Arrived THEN "WRITE" ELSE interest[g]
        /\ sock'[g] = IF g \in Arrived THEN "OPEN" ELSE sock[g]
        /\ UNCHANGED <<waiting, args, pipe, thread, serves>>
    BY <1>1 DEF AddNewConnection, threads
  <2>2. CASE g \in Arrived
    <3>1. \A p : ~HeldSomewhere(g, p)
      BY <1>0, <2>2, HeldPlaces DEF Arrived, Nowhere
    <3>2. \A p : HeldSomewhere(g, p)' <=> p = <<g, "interest", 1>>
      BY <2>1, <2>2, <3>1 DEF HeldSomewhere
    <3>3. Held(g)' = {<<g, "interest", 1>>}
      BY <3>2, HeldPlaces
    <3> QED BY <2>1, <2>2, <3>3, CaredMoved
  <2>3. CASE g \notin Arrived
    <3>1. Held(g)' = Held(g)
      BY <2>1, <2>3, SamePlaces
    <3> QED BY <1>0, <2>1, <2>3, <3>1, CaredSame
  <2> QED BY <2>2, <2>3
<1>2. ASSUME NEW r \in Rooms, RoomHangUp(r)
      PROVE  Cared(g)
  <2>1. /\ waiting' = [waiting EXCEPT ![r] = <<>>]
        /\ rooms' = [rooms EXCEPT ![r] = "NONE"]
        /\ interest'[g] = interest[g]
        /\ UNCHANGED <<args, pipe, thread, serves, sock>>
    BY <1>0, <1>2 DEF RoomHangUp, Watch, threads, kernel
  <2>2. CASE \E i \in DOMAIN waiting[r] : waiting[r][i] = g
    <3>1. PICK i \in DOMAIN waiting[r] : waiting[r][i] = g
      BY <2>2
    <3>2. HeldSomewhere(g, <<r, "waiting", i>>)
      BY <3>1 DEF HeldSomewhere
    <3>3. \A p : HeldSomewhere(g, p)' => HeldSomewhere(g, p) /\ p # <<r, "waiting", i>>
      BY <1>0, <2>1 DEF HeldSomewhere
    <3>4. Held(g)' = {}
      BY <1>0, <3>2, <3>3, OnlyThere, HeldPlaces
    <3>5. g \in ToSet(waiting[r]) /\ rooms'[r] = "NONE"
      BY <2>1, <3>1 DEF ToSet, Mine, Types
    <3> QED BY <3>4, <3>5, CaredGone DEF Lost
  <2>3. CASE ~(\E i \in DOMAIN waiting[r] : waiting[r][i] = g)
    <3>1. \A p : HeldSomewhere(g, p)' <=> HeldSomewhere(g, p)
      BY <1>0, <2>1, <2>3 DEF HeldSomewhere
    <3> QED BY <1>0, <2>1, <3>1, HeldPlaces, CaredSame
  <2> QED BY <2>2, <2>3
<1>3. ASSUME NEW r \in Rooms, RoomPlays(r)
      PROVE  Cared(g)
  <2>1. interest'[g] = interest[g] /\ UNCHANGED <<waiting, args, pipe, thread, serves, sock>>
    BY <1>0, <1>3 DEF RoomPlays, Watch, threads
  <2>2. Held(g)' = Held(g)
    BY <2>1, SamePlaces
  <2> QED BY <1>0, <2>1, <2>2, CaredSame
<1>4. ASSUME NEW r \in Rooms, ConnectToRoom(r)
      PROVE  Cared(g)
  <2>1. interest'[g] = interest[g] /\ UNCHANGED <<args, thread, serves, sock>>
    BY <1>0, <1>4 DEF ConnectToRoom, Watch, threads
  <2>2. CASE UNCHANGED <<pipe, waiting>>
    <3>1. Held(g)' = Held(g)
      BY <2>1, <2>2, SamePlaces
    <3> QED BY <1>0, <2>1, <3>1, CaredSame
  <2>3. CASE /\ pipe' = [pipe EXCEPT ![r] = @ \o HandedOver(waiting[r])]
             /\ waiting' = [waiting EXCEPT ![r] = <<>>]
    <3> DEFINE w == waiting[r]
               q == pipe[r]
    <3>1. /\ \A i \in DOMAIN q : i \in DOMAIN pipe'[r] /\ pipe'[r][i] = q[i]
          /\ \A i \in DOMAIN w :
               PlaceOf(q, w, i) \in DOMAIN pipe'[r] /\ pipe'[r][PlaceOf(q, w, i)] = w[i]
          /\ \A j \in DOMAIN pipe'[r] : j \in DOMAIN q \/ \E i \in DOMAIN w : j = PlaceOf(q, w, i)
      <4>1. w \in Seq(Clients) /\ q \in Seq(Clients) /\ pipe'[r] = q \o HandedOver(w)
        BY <1>0, <2>3 DEF Mine, Types
      <4> HIDE DEF w, q
      <4>2. Joined(q, w, pipe'[r])
        BY <4>1, HandedOverAfter
      <4> QED BY <4>2 DEF Joined
    <3>2. /\ \A s \in Rooms : s # r => waiting'[s] = waiting[s] /\ pipe'[s] = pipe[s]
          /\ waiting'[r] = <<>>
      BY <1>0, <2>3
    <3>3. CASE \E i \in DOMAIN w : w[i] = g
      <4>1. PICK i \in DOMAIN w : w[i] = g
        BY <3>3
      <4>2. HeldSomewhere(g, <<r, "waiting", i>>)
        BY <4>1 DEF HeldSomewhere
      <4>3. \A p : HeldSomewhere(g, p) => p = <<r, "waiting", i>>
        BY <1>0, <4>2, OnlyThere
      <4>4. PICK n : n = PlaceOf(q, w, i)
        OBVIOUS
      <4>5. n \in DOMAIN pipe'[r] /\ pipe'[r][n] = g
        BY <3>1, <4>1, <4>4
      <4>6. ASSUME NEW j \in DOMAIN pipe'[r], pipe'[r][j] = g
            PROVE  j = n
        <5>1. CASE j \in DOMAIN q
          <6>1. HeldSomewhere(g, <<r, "pipe", j>>)
            BY <3>1, <4>6, <5>1 DEF HeldSomewhere
          <6> QED BY <4>3, <6>1
        <5>2. CASE \E k \in DOMAIN w : j = PlaceOf(q, w, k)
          <6>1. PICK k \in DOMAIN w : j = PlaceOf(q, w, k)
            BY <5>2
          <6>2. w[k] = g
            BY <3>1, <4>6, <6>1
          <6>3. HeldSomewhere(g, <<r, "waiting", k>>)
            BY <6>2 DEF HeldSomewhere
          <6> QED BY <4>3, <4>4, <6>1, <6>3
        <5> QED BY <3>1, <5>1, <5>2
      <4>7. \A p : HeldSomewhere(g, p)' <=> p = <<r, "pipe", n>>
        <5>1. HeldSomewhere(g, <<r, "pipe", n>>)'
          BY <4>5 DEF HeldSomewhere
        <5>2. ASSUME NEW p, HeldSomewhere(g, p)', p # <<r, "pipe", n>>
              PROVE  HeldSomewhere(g, p) /\ p # <<r, "waiting", i>>
          <6>1. CASE \E s \in Rooms : \E j \in DOMAIN waiting'[s] :
                       waiting'[s][j] = g /\ p = <<s, "waiting", j>>
            BY <3>2, <6>1 DEF HeldSomewhere
          <6>2. CASE \E s \in Rooms : \E j \in DOMAIN pipe'[s] :
                       pipe'[s][j] = g /\ p = <<s, "pipe", j>>
            <7>1. PICK s, j : /\ s \in Rooms /\ j \in DOMAIN pipe'[s]
                              /\ pipe'[s][j] = g /\ p = <<s, "pipe", j>>
              BY <6>2
            <7>2. s # r
              BY <4>6, <5>2, <7>1
            <7> QED BY <3>2, <7>1, <7>2 DEF HeldSomewhere
          <6>3. CASE /\ ~(\E s \in Rooms : \E j \in DOMAIN waiting'[s] :
                            waiting'[s][j] = g /\ p = <<s, "waiting", j>>)
                     /\ ~(\E s \in Rooms : \E j \in DOMAIN pipe'[s] :
                            pipe'[s][j] = g /\ p = <<s, "pipe", j>>)
            BY <2>1, <5>2, <6>3 DEF HeldSomewhere
          <6> QED BY <6>1, <6>2, <6>3
        <5> QED BY <4>3, <5>1, <5>2
      <4>8. Held(g)' = {<<r, "pipe", n>>}
        BY <4>7, HeldPlaces
      <4>9. sock'[g] \notin {"FREE", "BACKLOG"}
        BY <1>0, <2>1, <4>2, HeldPlaces DEF Nowhere
      <4> QED BY <4>8, <4>9, CaredMoved
    <3>4. CASE ~(\E i \in DOMAIN w : w[i] = g)
      <4>1. \A i : i \in DOMAIN pipe'[r] /\ pipe'[r][i] = g <=> i \in DOMAIN q /\ q[i] = g
        BY <3>1, <3>4
      <4>2. \A s \in Rooms : \A i : i \in DOMAIN pipe'[s] /\ pipe'[s][i] = g <=>
                                    i \in DOMAIN pipe[s] /\ pipe[s][i] = g
        BY <3>2, <4>1
      <4>3. \A s \in Rooms : \A i : i \in DOMAIN waiting'[s] /\ waiting'[s][i] = g <=>
                                    i \in DOMAIN waiting[s] /\ waiting[s][i] = g
        BY <3>2, <3>4
      <4>4. \A p : HeldSomewhere(g, p)' <=> HeldSomewhere(g, p)
        BY <2>1, <4>2, <4>3 DEF HeldSomewhere
      <4> QED BY <1>0, <2>1, <4>4, HeldPlaces, CaredSame
    <3> QED BY <3>3, <3>4
  <2> QED BY <1>4, <2>2, <2>3 DEF ConnectToRoom
<1> QED BY <1>1, <1>2, <1>3, <1>4

LEMMA ThreadCared ==
  ASSUME Mine, Owned, NEW r \in Rooms,
         RoomThread(r) \/ RoomBegins(r) \/ RoomCloses(r) \/ \E f \in Clients : RoomDrops(r, f)
  PROVE  \A g \in Clients : Cared(g)
<1> TAKE g \in Clients
<1>0. /\ OneOwner(g) /\ Nowhere(g)
      /\ DOMAIN thread = Rooms /\ DOMAIN pipe = Rooms /\ DOMAIN serves = Rooms /\ DOMAIN at = Rooms
      /\ \A t \in Rooms : at[t] = t
      /\ \A t \in Rooms : pipe[t] \in Seq(Clients)
  BY DEF Owned, Mine, Types, Own, OwnArguments
<1>1. UNCHANGED <<interest, waiting, args>>
  BY DEF RoomThread, RoomStarts, RoomTakes, RoomBegins, RoomCloses, RoomDrops, server
<1>2. CASE RoomStarts(r)
  <2>1. /\ thread' = [thread EXCEPT ![r] = "WAITING"] /\ thread[r] = "NEW"
        /\ serves' = [serves EXCEPT ![r] = {args[2]}] /\ serves[r] = {}
        /\ UNCHANGED <<pipe, sock>>
    BY <1>2 DEF RoomStarts, kernel, Owned, Fresh
  <2>2. CASE g = args[2]
    <3>1. HeldSomewhere(g, <<r, "args", 2>>)
      BY <2>1, <2>2 DEF HeldSomewhere
    <3>2. \A p : HeldSomewhere(g, p) => p = <<r, "args", 2>>
      BY <1>0, <3>1, OnlyThere
    <3>3. HeldSomewhere(g, <<r, "serves", 1>>)'
      BY <1>0, <2>1, <2>2 DEF HeldSomewhere
    <3>4. \A p : HeldSomewhere(g, p)' => p = <<r, "serves", 1>>
      <4>1. ASSUME NEW p, HeldSomewhere(g, p)', p # <<r, "serves", 1>>
            PROVE  HeldSomewhere(g, p) /\ p # <<r, "args", 2>>
        BY <1>0, <1>1, <2>1, <4>1 DEF HeldSomewhere
      <4> QED BY <3>2, <4>1
    <3>5. Held(g)' = {<<r, "serves", 1>>}
      BY <3>3, <3>4, HeldPlaces
    <3>6. sock'[g] \notin {"FREE", "BACKLOG"}
      BY <1>0, <2>1, <3>1, HeldPlaces DEF Nowhere
    <3> QED BY <3>5, <3>6, CaredMoved
  <2>3. CASE g # args[2]
    <3>1. \A p : HeldSomewhere(g, p)' <=> HeldSomewhere(g, p)
      BY <1>0, <1>1, <2>1, <2>3 DEF HeldSomewhere
    <3> QED BY <1>0, <2>1, <3>1, HeldPlaces, CaredSame
  <2> QED BY <2>2, <2>3
<1>3. CASE RoomTakes(r)
  <2> DEFINE q == pipe[r]
  <2>1. /\ pipe' = [pipe EXCEPT ![r] = Tail(q)] /\ q # <<>>
        /\ serves' = [serves EXCEPT ![r] = @ \union {Head(q)}]
        /\ UNCHANGED <<thread, sock>>
    BY <1>0, <1>3 DEF RoomTakes
  <2>2. /\ Head(q) = q[1] /\ 1 \in DOMAIN q
        /\ \A i \in DOMAIN pipe'[r] :
             i \in Nat \ {0} /\ i + 1 \in DOMAIN q /\ pipe'[r][i] = q[i + 1]
        /\ \A i \in DOMAIN q : i # 1 => i - 1 \in DOMAIN pipe'[r] /\ pipe'[r][i - 1] = q[i]
        /\ \A s \in Rooms : s # r => pipe'[s] = pipe[s]
    <3>1. q \in Seq(Clients) /\ pipe'[r] = Tail(q)
      BY <1>0, <2>1
    <3> QED BY <1>0, <2>1, <3>1, TailMovesUp
  <2>3. CASE g = q[1]
    <3>1. HeldSomewhere(g, <<r, "pipe", 1>>)
      <4>1. 1 \in DOMAIN pipe[r] /\ pipe[r][1] = g
        BY <2>2, <2>3
      <4> QED BY <4>1 DEF HeldSomewhere
    <3>2. \A p : HeldSomewhere(g, p) => p = <<r, "pipe", 1>>
      BY <1>0, <3>1, OnlyThere
    <3>3. HeldSomewhere(g, <<r, "serves", 1>>)'
      BY <1>0, <2>1, <2>2, <2>3 DEF HeldSomewhere
    <3>4. \A p : HeldSomewhere(g, p)' => p = <<r, "serves", 1>>
      <4>1. ASSUME NEW p, HeldSomewhere(g, p)', p # <<r, "serves", 1>>
            PROVE  FALSE
        <5>1. CASE \E s \in Rooms : \E i \in DOMAIN pipe'[s] :
                     pipe'[s][i] = g /\ p = <<s, "pipe", i>>
          <6>1. PICK s, i : s \in Rooms /\ i \in DOMAIN pipe'[s] /\ pipe'[s][i] = g
            BY <5>1
          <6>2. CASE s = r
            <7>1. i + 1 \in DOMAIN pipe[r] /\ pipe[r][i + 1] = g /\ i + 1 # 1
              BY <2>2, <6>1, <6>2
            <7>2. HeldSomewhere(g, <<r, "pipe", i + 1>>)
              BY <7>1 DEF HeldSomewhere
            <7> QED BY <3>2, <7>1, <7>2
          <6>3. CASE s # r
            <7>1. HeldSomewhere(g, <<s, "pipe", i>>)
              BY <2>2, <6>1, <6>3 DEF HeldSomewhere
            <7> QED BY <3>2, <6>3, <7>1
          <6> QED BY <6>2, <6>3
        <5>2. CASE ~(\E s \in Rooms : \E i \in DOMAIN pipe'[s] :
                       pipe'[s][i] = g /\ p = <<s, "pipe", i>>)
          <6>1. HeldSomewhere(g, p) /\ \A i : p # <<r, "pipe", i>>
            BY <1>0, <1>1, <2>1, <4>1, <5>2 DEF HeldSomewhere
          <6> QED BY <3>2, <6>1
        <5> QED BY <5>1, <5>2
      <4> QED BY <4>1
    <3>5. Held(g)' = {<<r, "serves", 1>>}
      BY <3>3, <3>4, HeldPlaces
    <3>6. sock'[g] \notin {"FREE", "BACKLOG"}
      BY <1>0, <2>1, <3>1, HeldPlaces DEF Nowhere
    <3> QED BY <3>5, <3>6, CaredMoved
  <2>4. CASE g # q[1]
    \* Who is behind him moves up
    <3>1. ASSUME NEW p, HeldSomewhere(g, p)', \A i : p # <<r, "pipe", i>>
          PROVE  HeldSomewhere(g, p)
      BY <1>0, <1>1, <2>1, <2>2, <2>4, <3>1 DEF HeldSomewhere
    <3>2. ASSUME NEW i, HeldSomewhere(g, <<r, "pipe", i>>)'
          PROVE  i \in Nat /\ HeldSomewhere(g, <<r, "pipe", i + 1>>)
      <4>1. i \in DOMAIN pipe'[r] /\ pipe'[r][i] = g
        BY <3>2 DEF HeldSomewhere
      <4>2. i \in Nat /\ i + 1 \in DOMAIN pipe[r] /\ pipe[r][i + 1] = g
        BY <2>2, <4>1
      <4> QED BY <4>2 DEF HeldSomewhere
    <3>3. ASSUME NEW p, NEW s, HeldSomewhere(g, p)', HeldSomewhere(g, s)'
          PROVE  p = s
      <4>1. CASE \E i, j : p = <<r, "pipe", i>> /\ s = <<r, "pipe", j>>
        <5>1. PICK i, j : p = <<r, "pipe", i>> /\ s = <<r, "pipe", j>>
          BY <4>1
        <5>2. i \in Nat /\ j \in Nat /\ <<r, "pipe", i + 1>> = <<r, "pipe", j + 1>>
          BY <1>0, <3>2, <3>3, <5>1, OnlyThere
        <5> QED BY <5>1, <5>2
      <4>2. CASE /\ \E i : p = <<r, "pipe", i>>
                 /\ \A i : s # <<r, "pipe", i>>
        <5>1. PICK i : p = <<r, "pipe", i>>
          BY <4>2
        <5>2. HeldSomewhere(g, s) /\ HeldSomewhere(g, <<r, "pipe", i + 1>>)
          BY <3>1, <3>2, <3>3, <4>2, <5>1
        <5> QED BY <1>0, <4>2, <5>2, OnlyThere
      <4>3. CASE /\ \E i : s = <<r, "pipe", i>>
                 /\ \A i : p # <<r, "pipe", i>>
        <5>1. PICK i : s = <<r, "pipe", i>>
          BY <4>3
        <5>2. HeldSomewhere(g, p) /\ HeldSomewhere(g, <<r, "pipe", i + 1>>)
          BY <3>1, <3>2, <3>3, <4>3, <5>1
        <5> QED BY <1>0, <4>3, <5>2, OnlyThere
      <4>4. CASE /\ \A i : s # <<r, "pipe", i>>
                 /\ \A i : p # <<r, "pipe", i>>
        BY <1>0, <3>1, <3>3, <4>4, OnlyThere
      <4> QED BY <4>1, <4>2, <4>3, <4>4
    <3>4. OneOwner(g)'
      BY <3>3, HeldPlaces DEF OneOwner
    <3>5. \A p : HeldSomewhere(g, p)' => \E s : HeldSomewhere(g, s)
      BY <3>1, <3>2
    <3>6. Nowhere(g)'
      BY <1>0, <2>1, <3>5, HeldPlaces DEF Nowhere
    <3>7. Held(g) # {} => Held(g)' # {}
      <4>1. ASSUME NEW p, HeldSomewhere(g, p)
            PROVE  \E s : HeldSomewhere(g, s)'
        <5>1. CASE \E i : p = <<r, "pipe", i>>
          <6>1. PICK i : p = <<r, "pipe", i>> /\ i \in DOMAIN pipe[r] /\ pipe[r][i] = g
            BY <4>1, <5>1 DEF HeldSomewhere
          <6>2. i - 1 \in DOMAIN pipe'[r] /\ pipe'[r][i - 1] = g
            BY <2>2, <2>4, <6>1
          <6>3. HeldSomewhere(g, <<r, "pipe", i - 1>>)'
            BY <6>2 DEF HeldSomewhere
          <6> QED BY <6>3
        <5>2. CASE \A i : p # <<r, "pipe", i>>
          <6>1. HeldSomewhere(g, p)'
            BY <1>0, <1>1, <2>1, <2>2, <4>1, <5>2 DEF HeldSomewhere
          <6> QED BY <6>1
        <5> QED BY <5>1, <5>2
      <4> QED BY <4>1, HeldPlaces
    <3> QED BY <3>4, <3>6, <3>7 DEF Cared
  <2> QED BY <2>3, <2>4
<1>4. CASE RoomBegins(r)
  <2>1. /\ thread' = [thread EXCEPT ![r] = "STARTED"] /\ thread[r] = "WAITING"
        /\ UNCHANGED <<serves, pipe, sock>>
    BY <1>4 DEF RoomBegins
  <2>2. \A p : HeldSomewhere(g, p)' <=> HeldSomewhere(g, p)
    BY <1>0, <1>1, <2>1 DEF HeldSomewhere
  <2> QED BY <1>0, <2>1, <2>2, HeldPlaces, CaredSame
<1>5. ASSUME NEW f \in Clients, RoomDrops(r, f)
      PROVE  Cared(g)
  <2>1. /\ serves' = [serves EXCEPT ![r] = @ \ {f}] /\ f \in serves[r]
        /\ UNCHANGED <<thread, pipe>>
        /\ sock'[g] = IF g = f THEN "FREE" ELSE sock[g]
    BY <1>5 DEF RoomDrops, Close
  <2>2. CASE g = f
    <3>1. HeldSomewhere(g, <<r, "serves", 1>>)
      BY <2>1, <2>2 DEF HeldSomewhere
    <3>2. \A p : HeldSomewhere(g, p)' => HeldSomewhere(g, p) /\ p # <<r, "serves", 1>>
      BY <1>0, <1>1, <2>1, <2>2 DEF HeldSomewhere
    <3>3. Held(g)' = {}
      BY <1>0, <3>1, <3>2, OnlyThere, HeldPlaces
    <3> QED BY <2>1, <2>2, <3>3, CaredGone DEF Lost
  <2>3. CASE g # f
    <3>1. \A p : HeldSomewhere(g, p)' <=> HeldSomewhere(g, p)
      BY <1>0, <1>1, <2>1, <2>3 DEF HeldSomewhere
    <3> QED BY <1>0, <2>1, <2>3, <3>1, HeldPlaces, CaredSame
  <2> QED BY <2>2, <2>3
<1>6. CASE RoomCloses(r)
  <2>1. /\ thread' = [thread EXCEPT ![r] = "CLOSED"] /\ thread[r] \in {"WAITING", "STARTED"}
        /\ serves' = [serves EXCEPT ![r] = {}]
        /\ pipe' = [pipe EXCEPT ![r] = <<>>]
        /\ UNCHANGED at
        /\ sock'[g] = IF g \in serves[r] THEN "FREE" ELSE sock[g]
    BY <1>0, <1>6 DEF RoomCloses, Close
  <2>2. ASSUME NEW p, HeldSomewhere(g, p)'
        PROVE  HeldSomewhere(g, p) /\ p # <<r, "serves", 1>> /\ \A i : p # <<r, "pipe", i>>
    BY <1>0, <1>1, <2>1, <2>2 DEF HeldSomewhere
  <2>3. CASE g \in serves[r]
    <3>1. HeldSomewhere(g, <<r, "serves", 1>>)
      BY <2>3 DEF HeldSomewhere
    <3>2. Held(g)' = {}
      BY <1>0, <2>2, <3>1, OnlyThere, HeldPlaces
    <3> QED BY <2>1, <2>3, <3>2, CaredGone DEF Lost
  <2>4. CASE \E i \in DOMAIN pipe[r] : pipe[r][i] = g
    <3>1. PICK i \in DOMAIN pipe[r] : pipe[r][i] = g
      BY <2>4
    <3>2. HeldSomewhere(g, <<r, "pipe", i>>)
      BY <3>1 DEF HeldSomewhere
    <3>3. Held(g)' = {}
      BY <1>0, <2>2, <3>2, OnlyThere, HeldPlaces
    <3>4. g \in ToSet(pipe[r])
      BY <3>1 DEF ToSet
    <3>5. ~Gone(r)
      BY <1>0, <2>1 DEF Gone
    <3>6. Gone(r)'
      BY <1>0, <2>1 DEF Gone
    <3> QED BY <3>3, <3>4, <3>5, <3>6, CaredGone DEF Lost
  <2>5. CASE g \notin serves[r] /\ ~(\E i \in DOMAIN pipe[r] : pipe[r][i] = g)
    <3>1. \A p : HeldSomewhere(g, p)' <=> HeldSomewhere(g, p)
      BY <1>0, <1>1, <2>1, <2>5 DEF HeldSomewhere
    <3> QED BY <1>0, <2>1, <2>5, <3>1, HeldPlaces, CaredSame
  <2> QED BY <2>3, <2>4, <2>5
<1> QED BY <1>2, <1>3, <1>4, <1>5, <1>6 DEF RoomThread

LEMMA ProgramCared ==
  ASSUME Mine, Owned, NEW f \in Clients, Connect(f) \/ Choose(f) \/ SendRest(f) \/ Leave(f)
  PROVE  \A g \in Clients : Cared(g)
<1> TAKE g \in Clients
<1>1. OneOwner(g) /\ Nowhere(g) /\ DOMAIN sock = Clients
  BY DEF Owned, Mine, Types
<1>2. UNCHANGED <<interest, waiting, args, pipe, thread, serves>>
  BY DEF Connect, Choose, SendRest, Leave, server, threads
<1>3. Held(g)' = Held(g)
  BY <1>2, SamePlaces
<1>4. \/ UNCHANGED sock
      \/ sock[f] = "FREE" /\ sock' = [sock EXCEPT ![f] = "BACKLOG"]
      \/ \E to \in {"FIN", "RST"} : sock' = [sock EXCEPT ![f] = to]
  BY DEF Connect, Choose, SendRest, Leave
<1>5. sock'[g] \in {"FREE", "BACKLOG"} => sock[g] \in {"FREE", "BACKLOG"}
  BY <1>1, <1>4
<1> QED BY <1>1, <1>3, <1>5, CaredSame

LEMMA NextCared ==
  ASSUME Mine, Owned, ~LateThreads, [Next]_vars
  PROVE  \A g \in Clients : Cared(g)
<1>1. CASE Wait \/ UNCHANGED vars
  <2> TAKE g \in Clients
  <2>1. UNCHANGED <<interest, waiting, args, pipe, thread, serves, sock>>
    BY <1>1 DEF Wait, vars, server, kernel, threads
  <2>2. Held(g)' = Held(g)
    BY <2>1, SamePlaces
  <2> QED BY <2>1, <2>2, CaredSame DEF Owned
<1>2. CASE ManageEvents
  <2>1. CASE \E f \in Clients : HangUp(f) \/ ManageState(f)
    BY <2>1, ClientEventCared
  <2>2. CASE AddNewConnection \/ \E r \in Rooms : RoomHangUp(r) \/ RoomPlays(r) \/ ConnectToRoom(r)
    BY <2>2, RoomEventCared
  <2> QED BY <1>2, <2>1, <2>2 DEF ManageEvents
<1>3. CASE \E r \in Rooms : \/ RoomThread(r) \/ RoomBegins(r) \/ RoomCloses(r)
                            \/ \E f \in Clients : RoomDrops(r, f)
  BY <1>3, ThreadCared
<1>4. CASE \E f \in Clients : Connect(f) \/ Choose(f) \/ SendRest(f) \/ Leave(f)
  BY <1>4, ProgramCared
<1> QED BY <1>1, <1>2, <1>3, <1>4 DEF Next, Run

\* A handler that lets go of a connection has taken its event
LEMMA NextEventsHeld ==
  ASSUME Mine, EventsHeld, [Next]_vars
  PROVE  EventsHeld'
<1>0. /\ DOMAIN interest = Clients \union Rooms /\ Clients \intersect Rooms = {}
      /\ \A d, e \in batch : d.fd = e.fd => d = e
  BY ServerAssumption DEF Mine, Types
<1>1. CASE Wait
  <2>1. \A e \in batch' : e.fd \in Clients => interest[e.fd] # "NONE"
    BY <1>1, ServerAssumption DEF Wait, Event, HasEvents
  <2>2. UNCHANGED interest
    BY <1>1 DEF Wait
  <2> QED BY <2>1, <2>2 DEF EventsHeld
<1>2. ASSUME NEW f \in Clients, HangUp(f) \/ ManageState(f)
      PROVE  EventsHeld'
  <2>1. PICK e \in batch : e.fd = f /\ batch' = batch \ {e}
    BY <1>2
       DEF HangUp, ManageState, SendRooms, WaitingCommand, CreateRoom, JoinRoom, In, Handle
  <2>2. \A g \in Clients : g # f => interest'[g] = interest[g]
    <3>1. \/ UNCHANGED interest
          \/ \E how : interest' = [interest EXCEPT ![f] = how]
          \/ \E r \in Rooms : \E how : interest' = [interest EXCEPT ![f] = "NONE", ![r] = how]
      <4>1. CASE CloseConnection(f)
        BY <4>1 DEF CloseConnection, Watch
      <4>2. CASE ~CloseConnection(f)
        BY <1>2, <4>2
           DEF HangUp, ManageState, SendRooms, WaitingCommand, CreateRoom, JoinRoom, Watch,
               ReadFails, Unused, Listed, WatchRoom
      <4> QED BY <4>1, <4>2
    <3> QED BY <1>0, <3>1
  <2>3. \A d \in batch' : d \in batch /\ d.fd # f
    BY <1>0, <2>1
  <2> QED BY <2>2, <2>3 DEF EventsHeld
<1>3. CASE AddNewConnection
  BY <1>3 DEF AddNewConnection, Handle, EventsHeld
<1>4. ASSUME NEW r \in Rooms, RoomHangUp(r) \/ RoomPlays(r) \/ ConnectToRoom(r)
      PROVE  EventsHeld'
  <2>1. batch' \subseteq batch
    BY <1>4 DEF RoomHangUp, RoomPlays, ConnectToRoom, Handle
  <2>2. \A g \in Clients : interest'[g] = interest[g]
    BY <1>0, <1>4 DEF RoomHangUp, RoomPlays, ConnectToRoom, Watch
  <2> QED BY <2>1, <2>2 DEF EventsHeld
<1>5. CASE UNCHANGED <<interest, batch>>
  BY <1>5 DEF EventsHeld
<1>6. CASE ~(ManageEvents \/ Wait)
  BY <1>6, <1>5
     DEF Next, Run, RoomThread, RoomStarts, RoomTakes, RoomBegins, RoomCloses, RoomDrops,
         Connect, Choose, SendRest, Leave, vars, server
<1> QED BY <1>1, <1>2, <1>3, <1>4, <1>6 DEF ManageEvents

LEMMA NextFresh ==
  ASSUME Mine, Fresh, [Next]_vars
  PROVE  Fresh'
<1>0. DOMAIN thread = Rooms /\ DOMAIN serves = Rooms
  BY DEF Mine, Types
<1>1. CASE UNCHANGED <<thread, serves>>
  BY <1>1 DEF Fresh
<1>2. ASSUME NEW r \in Rooms, RoomThread(r) \/ RoomBegins(r) \/ RoomCloses(r)
      PROVE  Fresh'
  BY <1>0, <1>2 DEF Fresh, RoomThread, RoomStarts, RoomTakes, RoomBegins, RoomCloses
<1>3. ASSUME NEW r \in Rooms, NEW f \in Clients, RoomDrops(r, f)
      PROVE  Fresh'
  BY <1>0, <1>3 DEF Fresh, RoomDrops
<1>4. ASSUME NEW r \in Unused, UNCHANGED serves, thread' = [thread EXCEPT ![r] = "NEW"]
      PROVE  Fresh'
  BY <1>0, <1>4 DEF Fresh, Unused
<1>5. CASE ManageEvents
  BY <1>1, <1>4, <1>5
     DEF ManageEvents, HangUp, ManageState, SendRooms, WaitingCommand, CreateRoom, JoinRoom,
         CloseConnection, ReadFails, AddNewConnection, RoomHangUp, RoomPlays,
         ConnectToRoom, threads
<1>6. CASE ~ManageEvents /\ ~(\E r \in Rooms : \/ RoomThread(r) \/ RoomBegins(r) \/ RoomCloses(r)
                                               \/ \E f \in Clients : RoomDrops(r, f))
  BY <1>1, <1>6 DEF Next, Run, Wait, Connect, Choose, SendRest, Leave, vars, threads
<1> QED BY <1>2, <1>3, <1>5, <1>6

LEMMA InitOwned == Init => Mine /\ Owned
<1> SUFFICES ASSUME Init
             PROVE  Mine /\ Owned
  OBVIOUS
<1>1. Mine
  BY InitOwn, InitTypes DEF Mine
<1>2. EventsHeld /\ Fresh
  BY DEF Init, EventsHeld, Fresh
<1>3. ASSUME NEW f \in Clients
      PROVE  Held(f) = {}
  <2>1. \A p : ~HeldSomewhere(f, p)
    BY <1>3 DEF Init, HeldSomewhere
  <2> QED BY <2>1, HeldPlaces
<1> QED BY <1>1, <1>2, <1>3 DEF Owned, OneOwner, Nowhere

LEMMA NextOwned ==
  ASSUME Mine, Owned, ~LateThreads, [Next]_vars
  PROVE  (Mine /\ Owned)'
<1>1. Mine'
  BY NextOwn, NextTypes DEF Mine
<1>2. EventsHeld' /\ Fresh'
  BY NextEventsHeld, NextFresh DEF Owned
<1>3. \A f \in Clients : OneOwner(f)' /\ Nowhere(f)'
  BY NextCared DEF Cared
<1> QED BY <1>1, <1>2, <1>3 DEF Owned

LEMMA AlwaysOwned ==
  ASSUME ~LateThreads
  PROVE  Spec => [](Mine /\ Owned)
<1>1. Mine /\ Owned /\ [Next]_vars => (Mine /\ Owned)'
  BY NextOwned
<1> QED BY <1>1, InitOwned, PTL DEF Spec

(***************************************************************************)
(* Ownership passes through five data structures of three kinds of         *)
(* threads, and the connection of a client is never in two of them, twice  *)
(* in one, or in any when its number is free: no stream is read by two     *)
(* threads and no descriptor is closed twice.                              *)
(***************************************************************************)
THEOREM OwnedOnce ==
  ASSUME ~LateThreads
  PROVE  Spec => []ServedOnce
<1>1. ASSUME Owned
      PROVE  ServedOnce
  <2> SUFFICES ASSUME NEW f \in Clients
               PROVE  Cardinality(Held(f)) <= IF sock[f] \in {"FREE", "BACKLOG"} THEN 0 ELSE 1
    BY DEF ServedOnce
  <2>1. OneOwner(f) /\ Nowhere(f)
    BY <1>1 DEF Owned
  <2>2. CASE Held(f) = {}
    BY <2>2, FS_EmptySet
  <2>3. CASE Held(f) # {}
    <3>1. PICK p : p \in Held(f)
      BY <2>3
    <3>2. Held(f) = {p}
      BY <2>1, <3>1 DEF OneOwner
    <3>3. Cardinality(Held(f)) = 1
      BY <3>2, FS_Singleton
    <3> QED BY <2>1, <2>3, <3>3 DEF Nowhere
  <2> QED BY <2>2, <2>3
<1>2. Owned => ServedOnce
  BY <1>1
<1> QED BY <1>2, AlwaysOwned, PTL

(***************************************************************************)
(* Nobody is dropped by accident on the way: a client that the program     *)
(* held a descriptor of and holds none of any more had its connection      *)
(* closed, or was on its way into a room that ended.                       *)
(***************************************************************************)
THEOREM NobodyIsForgotten ==
  ASSUME ~LateThreads
  PROVE  Spec => LostOnlyWithARoom
<1>1. ASSUME Mine, Owned, [Next]_vars
      PROVE  \A f \in Clients : Held(f) # {} /\ Held(f)' = {} => Lost(f)
  BY <1>1, NextCared DEF Cared
<1>2. Mine /\ Owned /\ [Next]_vars =>
        [\A f \in Clients : Held(f) # {} /\ Held(f)' = {} =>
           \/ sock'[f] = "FREE"
           \/ \E r \in Rooms : \/ f \in ToSet(pipe[r]) /\ ~Gone(r) /\ Gone(r)'
                               \/ f \in ToSet(waiting[r]) /\ rooms'[r] = "NONE"]_vars
  BY <1>1 DEF Lost
<1> QED BY <1>2, AlwaysOwned, PTL DEF Spec, LostOnlyWithARoom

-----------------------------------------------------------------------------
(* What the clients have sent.                                             *)

\* By the page the client's program shows
Sent(f) ==
  /\ sock[f] \in {"FREE", "BACKLOG"} \/ page[f] \in {"OUT", "MENU"} => inbox[f] = <<>>
  /\ sock[f] = "BACKLOG" => page[f] = "LOADING"
  /\ page[f] = "LOADING" => inbox[f] \in {<<>>, <<"REFRESH_ROOMS">>}
  /\ page[f] = "JOINING" => inbox[f] \in {<<>>, <<"JOIN_ROOM">>}
  /\ page[f] = "CREATING" => inbox[f] \in {<<>>, <<"CREATE_ROOM">>}
  /\ page[f] = "ENTERED" =>
       \/ inbox[f] \in {<<>>, <<"LOGIN">>, <<"CREATE_ROOM", "LOGIN">>}
       \/ \E r \in Rooms : inbox[f] \in {<<"JOIN_ROOM", r, "LOGIN">>, <<r, "LOGIN">>}

\* By what the server is about to do with it
Awaited(f) ==
  interest[f] # "NONE" =>
    /\ entry[f] # "NONE"
    /\ entry[f] = "START" => page[f] = "LOADING" /\ inbox[f] = <<>>
    /\ entry[f] = "WAITING_COMMAND" =>
         /\ page[f] = "JOINING" => inbox[f] = <<"JOIN_ROOM">>
         /\ page[f] = "CREATING" => inbox[f] = <<"CREATE_ROOM">>
         /\ page[f] = "ENTERED" => \/ inbox[f] = <<"CREATE_ROOM", "LOGIN">>
                                   \/ \E r \in Rooms : inbox[f] = <<"JOIN_ROOM", r, "LOGIN">>
    /\ entry[f] = "JOINING_ROOM" =>
         \/ page[f] = "JOINING" /\ inbox[f] = <<>>
         \/ page[f] = "ENTERED" /\ \E r \in Rooms : inbox[f] = <<r, "LOGIN">>
    /\ entry[f] = "CREATING_ROOM" =>
         \/ page[f] = "CREATING" /\ inbox[f] = <<>>
         \/ page[f] = "ENTERED" /\ inbox[f] = <<"LOGIN">>

Expected == \A f \in Clients : Sent(f) /\ Awaited(f)

(***************************************************************************)
(* The short sequences that are sent and read.                             *)
(***************************************************************************)
LEMMA Added ==
  ASSUME NEW a, NEW b, NEW c
  PROVE  /\ Append(<<>>, a) = <<a>>
         /\ <<>> \o <<a>> = <<a>> /\ <<>> \o <<a, b>> = <<a, b>>
         /\ <<a>> \o <<b>> = <<a, b>> /\ <<a>> \o <<b, c>> = <<a, b, c>>
<1> DEFINE S == {a, b, c}
<1>1. <<a>> \in Seq(S) /\ <<b>> \in Seq(S) /\ <<a, b>> \in Seq(S) /\ <<b, c>> \in Seq(S)
  OBVIOUS
<1>2. Append(<<>>, a) = <<a>>
  OBVIOUS
<1>3. <<>> \o <<a>> = <<a>> /\ <<>> \o <<a, b>> = <<a, b>>
  BY <1>1, ConcatEmptySeq
<1>4. <<a>> \o <<b>> = <<a, b>>
  <2> DEFINE s == <<a>> \o <<b>>
  <2>1. s \in Seq(S) /\ Len(s) = 2 /\ s[1] = a /\ s[2] = b
    BY <1>1, ConcatProperties
  <2> HIDE DEF s
  <2>2. s = <<a, b>>
    BY <2>1
  <2> QED BY <2>2 DEF s
<1>5. <<a>> \o <<b, c>> = <<a, b, c>>
  <2> DEFINE s == <<a>> \o <<b, c>>
  <2>1. s \in Seq(S) /\ Len(s) = 3 /\ s[1] = a /\ s[2] = b /\ s[3] = c
    BY <1>1, ConcatProperties
  <2> HIDE DEF s
  <2>2. s = <<a, b, c>>
    BY <2>1
  <2> QED BY <2>2 DEF s
<1> QED BY <1>2, <1>3, <1>4, <1>5

LEMMA Taken ==
  ASSUME NEW a, NEW b, NEW c
  PROVE  /\ Tail(<<a>>) = <<>> /\ Head(<<a>>) = a
         /\ Tail(<<a, b>>) = <<b>> /\ Head(<<a, b>>) = a
         /\ Tail(<<a, b, c>>) = <<b, c>> /\ Head(<<a, b, c>>) = a
OBVIOUS

LEMMA SentSame ==
  ASSUME NEW f, Sent(f), sock'[f] = sock[f], page'[f] = page[f], inbox'[f] = inbox[f]
  PROVE  Sent(f)'
BY DEF Sent

\* A connection that nobody waits for any more is not expected to send anything
LEMMA AwaitedSame ==
  ASSUME NEW f, Awaited(f),
         \/ interest'[f] = "NONE"
         \/ /\ interest'[f] # "NONE" => interest[f] # "NONE"
            /\ entry'[f] = entry[f] /\ page'[f] = page[f] /\ inbox'[f] = inbox[f]
  PROVE  Awaited(f)'
BY DEF Awaited

\* Close frees the number
LEMMA CloseExpected ==
  ASSUME Expected, NEW some, Close(some),
         \A f \in Clients : IF f \in some THEN interest'[f] = "NONE"
                            ELSE interest'[f] = interest[f] /\ entry'[f] = entry[f]
  PROVE  Expected'
<1> SUFFICES ASSUME NEW g \in Clients
             PROVE  Sent(g)' /\ Awaited(g)'
  BY DEF Expected
<1>1. Sent(g) /\ Awaited(g)
  BY DEF Expected
<1>2. CASE g \in some
  <2>1. sock'[g] = "FREE" /\ inbox'[g] = <<>> /\ page'[g] = "OUT"
    BY <1>2 DEF Close
  <2> QED BY <1>1, <1>2, <2>1, AwaitedSame DEF Sent
<1>3. CASE g \notin some
  <2>1. sock'[g] = sock[g] /\ inbox'[g] = inbox[g] /\ page'[g] = page[g]
    BY <1>3 DEF Close
  <2> QED BY <1>1, <2>1, SentSame, AwaitedSame
<1> QED BY <1>2, <1>3

LEMMA ClientEventExpected ==
  ASSUME Mine, Owned, Expected, NEW f \in Clients, HangUp(f) \/ ManageState(f)
  PROVE  Expected'
<1>1. /\ interest[f] # "NONE" /\ sock[f] \notin {"FREE", "BACKLOG"}
  <2>1. PICK hup : Handle(f, hup)
    BY DEF HangUp, ManageState, SendRooms, WaitingCommand, CreateRoom, JoinRoom, In
  <2> QED BY <2>1, HandledWatched
<1>2. /\ DOMAIN interest = Clients \union Rooms /\ Clients \intersect Rooms = {}
      /\ DOMAIN entry = Clients /\ DOMAIN sock = Clients /\ DOMAIN page = Clients
      /\ DOMAIN inbox = Clients
  BY ServerAssumption DEF Mine, Types
<1>3. Sent(f) /\ Awaited(f)
  BY DEF Expected
<1>4. CASE CloseConnection(f)
  <2>1. /\ Close({f}) /\ interest' = [interest EXCEPT ![f] = "NONE"]
        /\ entry' = [entry EXCEPT ![f] = "NONE"]
    BY <1>4 DEF CloseConnection, Watch
  <2>2. \A g \in Clients : IF g \in {f} THEN interest'[g] = "NONE"
                           ELSE interest'[g] = interest[g] /\ entry'[g] = entry[g]
    BY <1>2, <2>1
  <2> QED BY <2>1, <2>2, CloseExpected
<1>5. ASSUME ~CloseConnection(f)
      PROVE  Expected'
  \* What the others sent is not touched
  <2>1. \A g \in Clients \ {f} : /\ interest'[g] = interest[g] /\ entry'[g] = entry[g]
                                /\ sock'[g] = sock[g] /\ page'[g] = page[g] /\ inbox'[g] = inbox[g]
    <3>1. /\ \/ \E how : interest' = [interest EXCEPT ![f] = how]
             \/ \E r \in Rooms : \E how : interest' = [interest EXCEPT ![f] = "NONE", ![r] = how]
             \/ UNCHANGED interest
          /\ UNCHANGED entry \/ \E to : entry' = [entry EXCEPT ![f] = to]
          /\ UNCHANGED sock \/ sock' = [sock EXCEPT ![f] = "RST"]
          /\ UNCHANGED page \/ page' = [page EXCEPT ![f] = "MENU"]
          /\ UNCHANGED inbox \/ inbox' = [inbox EXCEPT ![f] = Tail(@)]
      <4>1. CASE SendRooms(f)
        BY <1>5, <4>1 DEF SendRooms, Watch, clients
      <4>2. CASE WaitingCommand(f)
        BY <1>5, <4>2 DEF WaitingCommand, ReadFails, ReadMessage, Watch, clients
      <4>3. CASE CreateRoom(f)
        BY <1>5, <4>3 DEF CreateRoom, Unused, kernel, clients
      <4>4. CASE JoinRoom(f)
        BY <1>5, <4>4 DEF JoinRoom, ReadFails, Listed, WatchRoom, ReadMessage, clients
      <4> QED BY <1>5, <4>1, <4>2, <4>3, <4>4 DEF HangUp, ManageState
    <3>2. \A g \in Clients \ {f} : interest'[g] = interest[g]
      BY <1>2, <3>1
    <3>3. \A g \in Clients \ {f} : entry'[g] = entry[g] /\ sock'[g] = sock[g]
      BY <1>2, <3>1
    <3>4. \A g \in Clients \ {f} : page'[g] = page[g] /\ inbox'[g] = inbox[g]
      BY <1>2, <3>1
    <3> QED BY <3>2, <3>3, <3>4
  <2>2. \A g \in Clients \ {f} : Sent(g)' /\ Awaited(g)'
    BY <2>1, SentSame, AwaitedSame DEF Expected
  <2>3. CASE SendRooms(f)
    <3>1. /\ entry'[f] = "WAITING_COMMAND" /\ inbox'[f] = <<>> /\ entry[f] = "START"
          /\ page[f] = "LOADING" /\ inbox[f] = <<>>
          /\ \/ sock'[f] = "OPEN" /\ page'[f] = "MENU"
             \/ sock'[f] = "RST" /\ page'[f] = "LOADING"
      <4>1. entry[f] = "START" /\ page[f] = "LOADING" /\ inbox[f] = <<>>
        BY <1>1, <1>3, <2>3 DEF SendRooms, In, Awaited
      <4>2. /\ entry' = [entry EXCEPT ![f] = "WAITING_COMMAND"] /\ inbox' = inbox
            /\ \/ sock[f] = "OPEN" /\ sock' = sock /\ page' = [page EXCEPT ![f] = "MENU"]
               \/ sock' = [sock EXCEPT ![f] = "RST"] /\ page' = page
        BY <1>5, <2>3 DEF SendRooms, clients
      <4> QED BY <1>2, <4>1, <4>2
    <3>2. Sent(f)' /\ Awaited(f)'
      BY <3>1 DEF Sent, Awaited
    <3> QED BY <2>2, <3>2 DEF Expected
  <2>4. CASE WaitingCommand(f)
    <3>1. /\ entry[f] = "WAITING_COMMAND" /\ inbox[f] # <<>> /\ inbox'[f] = Tail(inbox[f])
          /\ page'[f] = page[f] /\ sock'[f] = sock[f]
          /\ \/ Head(inbox[f]) = "REFRESH_ROOMS" /\ entry'[f] = "START"
             \/ Head(inbox[f]) = "CREATE_ROOM" /\ entry'[f] = "CREATING_ROOM"
             \/ Head(inbox[f]) = "JOIN_ROOM" /\ entry'[f] = "JOINING_ROOM"
      BY <1>2, <1>5, <2>4
         DEF WaitingCommand, In, CanRead, ReadFails, ReadMessage, clients
    <3>2. page[f] \in {"LOADING", "JOINING", "CREATING", "ENTERED"}
      BY <1>3, <3>1 DEF Mine, Types, Sent
    <3>3. CASE page[f] = "LOADING"
      <4>1. inbox[f] = <<"REFRESH_ROOMS">>
        BY <1>3, <3>1, <3>3 DEF Sent
      <4>2. inbox'[f] = <<>> /\ entry'[f] = "START"
        BY <3>1, <4>1, Taken
      <4> QED BY <1>1, <2>2, <3>1, <3>3, <4>2 DEF Expected, Sent, Awaited
    <3>4. CASE page[f] = "JOINING"
      <4>1. inbox[f] = <<"JOIN_ROOM">>
        BY <1>1, <1>3, <3>1, <3>4 DEF Awaited
      <4>2. inbox'[f] = <<>> /\ entry'[f] = "JOINING_ROOM"
        BY <3>1, <4>1, Taken
      <4> QED BY <1>1, <2>2, <3>1, <3>4, <4>2 DEF Expected, Sent, Awaited
    <3>5. CASE page[f] = "CREATING"
      <4>1. inbox[f] = <<"CREATE_ROOM">>
        BY <1>1, <1>3, <3>1, <3>5 DEF Awaited
      <4>2. inbox'[f] = <<>> /\ entry'[f] = "CREATING_ROOM"
        BY <3>1, <4>1, Taken
      <4> QED BY <1>1, <2>2, <3>1, <3>5, <4>2 DEF Expected, Sent, Awaited
    <3>6. CASE page[f] = "ENTERED" /\ inbox[f] = <<"CREATE_ROOM", "LOGIN">>
      <4>1. inbox'[f] = <<"LOGIN">> /\ entry'[f] = "CREATING_ROOM"
        BY <3>1, <3>6, Taken
      <4> QED BY <1>1, <2>2, <3>1, <3>6, <4>1 DEF Expected, Sent, Awaited
    <3>7. CASE page[f] = "ENTERED" /\ \E r \in Rooms : inbox[f] = <<"JOIN_ROOM", r, "LOGIN">>
      <4>1. PICK r \in Rooms : inbox[f] = <<"JOIN_ROOM", r, "LOGIN">>
        BY <3>7
      <4>2. inbox'[f] = <<r, "LOGIN">> /\ entry'[f] = "JOINING_ROOM"
        BY <3>1, <4>1, Taken
      <4>3. page'[f] = "ENTERED" /\ sock'[f] \notin {"FREE", "BACKLOG"}
        BY <1>3, <3>1, <3>7 DEF Sent
      <4>4. Sent(f)'
        BY <4>2, <4>3 DEF Sent
      <4>5. Awaited(f)'
        BY <4>2, <4>3 DEF Awaited
      <4> QED BY <1>1, <2>2, <4>4, <4>5 DEF Expected
    <3> QED BY <1>1, <1>3, <3>1, <3>2, <3>3, <3>4, <3>5, <3>6, <3>7 DEF Awaited
  <2>5. CASE CreateRoom(f)
    <3>1. interest'[f] = "NONE" /\ UNCHANGED <<sock, page, inbox>>
      BY <1>2, <1>5, <2>5 DEF CreateRoom, Unused, kernel, clients
    <3> QED BY <1>3, <2>2, <3>1, SentSame, AwaitedSame DEF Expected
  <2>6. CASE JoinRoom(f)
    <3>1. /\ entry[f] = "JOINING_ROOM" /\ inbox[f] # <<>>
          /\ interest'[f] = "NONE" /\ UNCHANGED <<sock, page>>
          /\ inbox'[f] = Tail(inbox[f])
      BY <1>2, <1>5, <2>6
         DEF JoinRoom, In, CanRead, ReadFails, Listed, WatchRoom, ReadMessage, clients
    <3>2. PICK r \in Rooms : page[f] = "ENTERED" /\ inbox[f] = <<r, "LOGIN">>
      BY <1>1, <1>3, <3>1 DEF Awaited
    <3>3. inbox'[f] = <<"LOGIN">>
      BY <3>1, <3>2, Taken
    <3> QED BY <1>1, <2>2, <3>1, <3>2, <3>3 DEF Expected, Sent, Awaited
  <2> QED BY <1>5, <2>3, <2>4, <2>5, <2>6 DEF HangUp, ManageState
<1> QED BY <1>4, <1>5

LEMMA RoomEventExpected ==
  ASSUME Mine, Owned, Expected,
         \/ AddNewConnection
         \/ \E r \in Rooms : RoomHangUp(r) \/ RoomPlays(r) \/ ConnectToRoom(r)
  PROVE  Expected'
<1> SUFFICES ASSUME NEW g \in Clients
             PROVE  Sent(g)' /\ Awaited(g)'
  BY DEF Expected
<1>1. /\ DOMAIN interest = Clients \union Rooms /\ g \notin Rooms
      /\ Sent(g) /\ Awaited(g)
  BY ServerAssumption DEF Mine, Types, Expected
<1>2. CASE AddNewConnection
  <2>1. /\ entry'[g] = IF g \in Arrived THEN "START" ELSE entry[g]
        /\ interest'[g] = IF g \in Arrived THEN "WRITE" ELSE interest[g]
        /\ sock'[g] = IF g \in Arrived THEN "OPEN" ELSE sock[g]
        /\ inbox'[g] = inbox[g] /\ page'[g] = page[g]
    BY <1>2 DEF AddNewConnection, clients
  <2>2. CASE g \in Arrived
    <3>1. page[g] = "LOADING" /\ inbox[g] = <<>>
      BY <1>1, <2>2 DEF Arrived, Sent
    <3> QED BY <2>1, <2>2, <3>1 DEF Sent, Awaited
  <2>3. CASE g \notin Arrived
    BY <1>1, <2>1, <2>3, SentSame, AwaitedSame
  <2> QED BY <2>2, <2>3
<1>3. ASSUME NEW r \in Rooms, RoomHangUp(r) \/ RoomPlays(r) \/ ConnectToRoom(r)
      PROVE  Sent(g)' /\ Awaited(g)'
  <2>1. interest'[g] = interest[g] /\ UNCHANGED <<entry, sock, inbox, page>>
    BY <1>1, <1>3 DEF RoomHangUp, RoomPlays, ConnectToRoom, Watch, kernel, clients
  <2> QED BY <1>1, <2>1, SentSame, AwaitedSame
<1> QED BY <1>2, <1>3

\* A room has the connections that the server no longer watches
LEMMA ThreadExpected ==
  ASSUME Mine, Owned, Expected, NEW r \in Rooms,
         RoomThread(r) \/ RoomBegins(r) \/ RoomCloses(r) \/ \E f \in Clients : RoomDrops(r, f)
  PROVE  Expected'
<1>0. UNCHANGED <<entry, interest>>
  BY DEF RoomThread, RoomStarts, RoomTakes, RoomBegins, RoomCloses, RoomDrops, server
<1>1. ASSUME NEW f \in Clients, NEW p, HeldSomewhere(f, p), p # <<f, "interest", 1>>
      PROVE  interest[f] = "NONE"
  <2>1. \A q : HeldSomewhere(f, q) => q = p
    BY <1>1, OnlyThere DEF Owned
  <2> QED BY <1>1, <2>1 DEF HeldSomewhere
<1>2. \A f \in serves[r] : f \in Clients /\ interest[f] = "NONE"
  <2>1. ASSUME NEW f \in serves[r]
        PROVE  f \in Clients /\ interest[f] = "NONE"
    <3>1. f \in Clients
      BY DEF Mine, Types
    <3>2. HeldSomewhere(f, <<r, "serves", 1>>)
      BY DEF HeldSomewhere
    <3> QED BY <1>1, <3>1, <3>2
  <2> QED BY <2>1
<1>3. CASE UNCHANGED <<sock, inbox, page>>
  BY <1>0, <1>3, SentSame, AwaitedSame DEF Expected
<1>4. CASE RoomTakes(r)
  <2> DEFINE f == Head(pipe[r])
  <2>1. at[r] = r /\ pipe[r] \in Seq(Clients) /\ pipe[r] # <<>>
    BY <1>4 DEF RoomTakes, Mine, Own, OwnArguments, Types
  <2>2. f = pipe[r][1] /\ 1 \in DOMAIN pipe[r] /\ f \in Clients
    BY <2>1
  <2> HIDE DEF f
  <2>3. interest[f] = "NONE"
    <3>1. HeldSomewhere(f, <<r, "pipe", 1>>)
      BY <2>2 DEF HeldSomewhere
    <3> QED BY <1>1, <2>2, <3>1
  <2>4. inbox' = [inbox EXCEPT ![f] = <<>>] /\ UNCHANGED <<sock, page>>
    BY <1>4, <2>1 DEF RoomTakes, clients, f
  <2>5. ASSUME NEW g \in Clients
        PROVE  Sent(g)' /\ Awaited(g)'
    <3>0. Sent(g) /\ Awaited(g) /\ DOMAIN inbox = Clients
      BY DEF Expected, Mine, Types
    <3>1. CASE g = f
      <4>1. inbox'[g] = <<>> /\ interest'[g] = "NONE"
        BY <1>0, <2>3, <2>4, <3>0, <3>1
      <4> QED BY <2>4, <3>0, <4>1 DEF Sent, Awaited
    <3>2. CASE g # f
      BY <1>0, <2>4, <3>0, <3>2, SentSame, AwaitedSame
    <3> QED BY <3>1, <3>2
  <2> QED BY <2>5 DEF Expected
<1>5. CASE RoomCloses(r)
  <2>1. Close(serves[r])
    BY <1>5 DEF RoomCloses
  <2> QED BY <1>0, <1>2, <2>1, CloseExpected
<1>6. ASSUME NEW f \in Clients, RoomDrops(r, f)
      PROVE  Expected'
  <2>1. Close({f}) /\ f \in serves[r]
    BY <1>6 DEF RoomDrops
  <2> QED BY <1>0, <1>2, <2>1, CloseExpected
<1>7. CASE RoomStarts(r) \/ RoomBegins(r)
  BY <1>3, <1>7 DEF RoomStarts, RoomBegins, kernel, clients
<1> QED BY <1>4, <1>5, <1>6, <1>7 DEF RoomThread

LEMMA ProgramExpected ==
  ASSUME Mine, Owned, Expected, NEW f \in Clients,
         Connect(f) \/ Choose(f) \/ SendRest(f) \/ Leave(f)
  PROVE  Expected'
<1>0. /\ UNCHANGED <<entry, interest>> /\ Sent(f) /\ Awaited(f)
      /\ DOMAIN sock = Clients /\ DOMAIN page = Clients /\ DOMAIN inbox = Clients
      /\ entry[f] \in ManagerStates \union {"NONE"}
  BY DEF Connect, Choose, SendRest, Leave, server, Expected, Mine, Types
<1>1. \A g \in Clients \ {f} : sock'[g] = sock[g] /\ page'[g] = page[g] /\ inbox'[g] = inbox[g]
  <2>1. /\ UNCHANGED sock \/ \E to : sock' = [sock EXCEPT ![f] = to]
        /\ UNCHANGED page \/ \E to : page' = [page EXCEPT ![f] = to]
        /\ UNCHANGED inbox \/ \E to : inbox' = [inbox EXCEPT ![f] = to]
    BY DEF Connect, Choose, Ask, SendRest, Leave, clients
  <2> QED BY <1>0, <2>1
<1>2. \A g \in Clients \ {f} : Sent(g)' /\ Awaited(g)'
  BY <1>0, <1>1, SentSame, AwaitedSame DEF Expected
<1>3. CASE Connect(f)
  <2>1. /\ sock[f] = "FREE" /\ sock'[f] = "BACKLOG" /\ page'[f] = "LOADING" /\ inbox'[f] = inbox[f]
    BY <1>0, <1>3 DEF Connect
  <2>2. interest[f] = "NONE"
    <3>1. Held(f) = {}
      BY <2>1 DEF Owned, Nowhere
    <3>2. ~HeldSomewhere(f, <<f, "interest", 1>>)
      BY <3>1, HeldPlaces
    <3> QED BY <3>2 DEF HeldSomewhere
  <2>3. Sent(f)' /\ Awaited(f)'
    BY <1>0, <2>1, <2>2 DEF Sent, Awaited
  <2> QED BY <1>2, <2>3 DEF Expected
<1>4. CASE Choose(f)
  <2>1. inbox[f] = <<>> /\ page[f] = "MENU" /\ sock'[f] = "OPEN"
    BY <1>0, <1>4 DEF Choose, Sent
  <2>2. interest[f] # "NONE" => entry[f] = "WAITING_COMMAND"
    BY <1>0, <2>1 DEF Awaited, ManagerStates
  <2>3. \/ page'[f] = "LOADING" /\ inbox'[f] = Append(<<>>, "REFRESH_ROOMS")
        \/ page'[f] = "CREATING" /\ inbox'[f] = Append(<<>>, "CREATE_ROOM")
        \/ page'[f] = "JOINING" /\ inbox'[f] = Append(<<>>, "JOIN_ROOM")
    BY <1>0, <1>4, <2>1 DEF Choose, Ask
  <2>4. \/ page'[f] = "LOADING" /\ inbox'[f] = <<"REFRESH_ROOMS">>
        \/ page'[f] = "CREATING" /\ inbox'[f] = <<"CREATE_ROOM">>
        \/ page'[f] = "JOINING" /\ inbox'[f] = <<"JOIN_ROOM">>
    BY <2>3, Added
  <2>5. Sent(f)' /\ Awaited(f)'
    BY <1>0, <2>1, <2>2, <2>4 DEF Sent, Awaited
  <2> QED BY <1>2, <2>5 DEF Expected
<1>5. CASE SendRest(f)
  <2>1. sock'[f] = "OPEN" /\ page'[f] = "ENTERED"
    BY <1>0, <1>5 DEF SendRest
  <2>2. CASE page[f] = "CREATING"
    <3>1. inbox'[f] = inbox[f] \o <<"LOGIN">>
      BY <1>0, <1>5, <2>2 DEF SendRest
    <3>2. CASE inbox[f] = <<"CREATE_ROOM">>
      <4>1. inbox'[f] = <<"CREATE_ROOM", "LOGIN">>
        BY <3>1, <3>2, Added
      <4>2. interest[f] # "NONE" => entry[f] = "WAITING_COMMAND"
        BY <1>0, <2>2, <3>2 DEF Awaited, ManagerStates
      <4> QED BY <1>0, <1>2, <2>1, <4>1, <4>2 DEF Expected, Sent, Awaited
    <3>3. CASE inbox[f] = <<>>
      <4>1. inbox'[f] = <<"LOGIN">>
        BY <3>1, <3>3, Added
      <4>2. interest[f] # "NONE" => entry[f] = "CREATING_ROOM"
        BY <1>0, <2>2, <3>3 DEF Awaited, ManagerStates
      <4> QED BY <1>0, <1>2, <2>1, <4>1, <4>2 DEF Expected, Sent, Awaited
    <3> QED BY <1>0, <2>2, <3>2, <3>3 DEF Sent
  <2>3. CASE page[f] = "JOINING"
    <3>1. PICK r \in Rooms : inbox'[f] = inbox[f] \o <<r, "LOGIN">>
      <4>1. PICK r \in seen[f] : inbox' = [inbox EXCEPT ![f] = @ \o <<r, "LOGIN">>]
        BY <1>5, <2>3 DEF SendRest
      <4>2. seen[f] \subseteq Rooms
        BY DEF Mine, Types
      <4>3. inbox'[f] = inbox[f] \o <<r, "LOGIN">>
        BY <1>0, <4>1
      <4> QED BY <4>1, <4>2, <4>3
    <3>2. CASE inbox[f] = <<"JOIN_ROOM">>
      <4>1. inbox'[f] = <<"JOIN_ROOM", r, "LOGIN">>
        BY <3>1, <3>2, Added
      <4>2. interest[f] # "NONE" => entry[f] = "WAITING_COMMAND"
        BY <1>0, <2>3, <3>2 DEF Awaited, ManagerStates
      <4> QED BY <1>0, <1>2, <2>1, <4>1, <4>2 DEF Expected, Sent, Awaited
    <3>3. CASE inbox[f] = <<>>
      <4>1. inbox'[f] = <<r, "LOGIN">>
        BY <3>1, <3>3, Added
      <4>2. interest[f] # "NONE" => entry[f] = "JOINING_ROOM"
        BY <1>0, <2>3, <3>3 DEF Awaited, ManagerStates
      <4>3. Sent(f)'
        BY <1>0, <2>1, <4>1 DEF Sent
      <4>4. Awaited(f)'
        BY <1>0, <2>1, <4>1, <4>2 DEF Awaited
      <4> QED BY <1>0, <1>2, <4>3, <4>4 DEF Expected
    <3> QED BY <1>0, <2>3, <3>2, <3>3 DEF Sent
  <2> QED BY <1>5, <2>2, <2>3 DEF SendRest
<1>6. CASE Leave(f)
  <2>1. /\ sock[f] = "OPEN" /\ sock'[f] \in {"FIN", "RST"}
        /\ page'[f] = page[f] /\ inbox'[f] = inbox[f]
    BY <1>0, <1>6 DEF Leave, clients
  <2>2. Sent(f)'
    BY <1>0, <2>1 DEF Sent
  <2>3. Awaited(f)'
    BY <1>0, <2>1, AwaitedSame
  <2> QED BY <1>2, <2>2, <2>3 DEF Expected
<1> QED BY <1>3, <1>4, <1>5, <1>6

LEMMA NextExpected ==
  ASSUME Mine, Owned, Expected, [Next]_vars
  PROVE  Expected'
<1>1. CASE Wait \/ UNCHANGED vars
  <2>1. UNCHANGED <<entry, interest, sock, page, inbox>>
    BY <1>1 DEF Wait, vars, server, kernel, clients
  <2> QED BY <2>1, SentSame, AwaitedSame DEF Expected
<1>2. CASE ManageEvents
  BY <1>2, ClientEventExpected, RoomEventExpected DEF ManageEvents
<1>3. CASE \E r \in Rooms : \/ RoomThread(r) \/ RoomBegins(r) \/ RoomCloses(r)
                            \/ \E f \in Clients : RoomDrops(r, f)
  BY <1>3, ThreadExpected
<1>4. CASE \E f \in Clients : Connect(f) \/ Choose(f) \/ SendRest(f) \/ Leave(f)
  BY <1>4, ProgramExpected
<1> QED BY <1>1, <1>2, <1>3, <1>4 DEF Next, Run

(***************************************************************************)
(* The variables keep their types.  The part that takes an argument is     *)
(* inbox: a client sends no second command before the server or a room has *)
(* read what belongs to the first, and whoever reads reads what he is      *)
(* expected to, because nobody else reads from the same connection.        *)
(***************************************************************************)
THEOREM TypeCorrect ==
  ASSUME ~LateThreads
  PROVE  Spec => []TypeOK
<1>1. ASSUME Mine, Expected
      PROVE  TypeOK
  <2>1. ASSUME NEW f \in Clients
        PROVE  inbox[f] \in {<<>>, <<"CREATE_ROOM", "LOGIN">>, <<"LOGIN">>}
                              \union {<<c>> : c \in Commands}
                              \union {<<"JOIN_ROOM", r, "LOGIN">> : r \in Rooms}
                              \union {<<r, "LOGIN">> : r \in Rooms}
    <3>1. \/ inbox[f] \in {<<>>, <<"LOGIN">>, <<"CREATE_ROOM", "LOGIN">>, <<"REFRESH_ROOMS">>,
                           <<"CREATE_ROOM">>, <<"JOIN_ROOM">>}
          \/ \E r \in Rooms : inbox[f] \in {<<"JOIN_ROOM", r, "LOGIN">>, <<r, "LOGIN">>}
      <4>1. page[f] \in {"OUT", "LOADING", "MENU", "JOINING", "CREATING", "ENTERED"} /\ Sent(f)
        BY <1>1 DEF Mine, Types, Expected
      <4> QED BY <4>1 DEF Sent
    <3> QED BY <3>1 DEF Commands
  <2> QED BY <1>1, <2>1 DEF Mine, Types, TypeOK
<1>2. Init => Expected
  BY DEF Init, Expected, Sent, Awaited
<1>3. Mine /\ Owned /\ Expected /\ [Next]_vars => Expected'
  BY NextExpected
<1>4. Mine /\ Expected => TypeOK
  BY <1>1
<1> QED BY <1>2, <1>3, <1>4, AlwaysOwned, PTL DEF Spec
=============================================================================
