---------------------------- MODULE RoomGameProofs ----------------------------
(***************************************************************************)
(* What Room promises of a game that goes the way it is meant to go: the   *)
(* host starts it when everybody is on its list, and nobody leaves before  *)
(* it has been told that it plays (see Regime).  The invariant, Orderly,   *)
(* follows the room through its three states, in each of which the order   *)
(* of joins, logins, lists and starts is still up to chance.               *)
(***************************************************************************)
EXTENDS RoomProofs

Regime == KeyHarmless /\ Starting = "complete" /\ Leaving = "game"

\* Handed over, and not yet read by the room
InPipe == {pipe[i] : i \in DOMAIN pipe}

\* The players a list names
Named == {Host} \union {p \in players : LoggedIn(p)}

(***************************************************************************)
(* While the room waits for the host: how far a client is on its way into  *)
(* the lobby, in its own view and in the room's.                           *)
(***************************************************************************)
Arrives(f) ==
  /\ conn[f] = "NONE" => /\ f # Host /\ f \notin players
                         /\ view[f] \in {"OUT", "JOINED", "SIZED", "LOGIN"}
  /\ conn[f] # "NONE" => f \in players \union {Host} /\ view[f] # "OUT"
  /\ f \in InPipe => conn[f] = "NONE" /\ view[f] # "OUT"
  /\ conn[f] \in {"ASKING_LOGIN_SIZE", "ASKING_LOGIN"} =>
       /\ view[f] \in {"JOINED", "SIZED", "LOGIN"}
       /\ interest[f] = IF f = Host THEN "WRITE" ELSE "READ"
  /\ conn[f] = "WRITE_PLAYERS_NUM" =>
       /\ view[f] \in {"LOGIN", "LOBBY"}
       /\ interest[f] = "WRITE" /\ f \in players
  /\ conn[f] = "READY_TO_PLAY" =>
       /\ view[f] = "LOBBY" \/ (f = Host /\ view[f] = "STARTED")
       /\ interest[f] = "READ" /\ f \in players
       /\ list[f] = Named
  /\ conn[f] # "WRITE_PLAYERS"

\* An event that is still to be handled finds its client in a state that has a use for it
ArrivalEvent(e) ==
  /\ e.fd # TimerFd
  /\ e.fd \in Clients =>
       /\ ~e.hup
       /\ conn[e.fd] = "ASKING_LOGIN_SIZE" => inbox[e.fd] # <<>>
       /\ conn[e.fd] = "READY_TO_PLAY" => e.fd = Host /\ view[Host] = "STARTED"

\* A host that asked for the game is the only one the room hears of
AllThere ==
  view[Host] = "STARTED" =>
    /\ inbox[Host] = <<"START">> /\ Joiners # {}
    /\ \A f \in Clients : conn[f] = "READY_TO_PLAY"

Gathering ==
  /\ \A f \in Clients : Arrives(f)
  /\ \A i, k \in DOMAIN pipe : pipe[i] = pipe[k] => i = k
  /\ conn[Host] = "ASKING_LOGIN_SIZE" => inbox[Host] # <<>>
  /\ \A e \in Events : ArrivalEvent(e)
  /\ AllThere
  /\ list[Host] \subseteq Named /\ shown \subseteq Named
  /\ waiting = Cardinality({f \in Joiners : conn[f] # "NONE"})

(***************************************************************************)
(* Between the host's command and the game: a batch holds an event of      *)
(* every joiner that was not told, and of no other but the one that makes  *)
(* the game start.                                                         *)
(***************************************************************************)
Untold == {f \in Joiners : view[f] = "LOBBY"}

TellingEvent(e) ==
  /\ e.fd \in Joiners /\ ~e.hup
  /\ e.data = "start" \/ (e.data = "ok" /\ view[e.fd] = "LOBBY")

Telling ==
  /\ \A f \in Clients : conn[f] = "STARTING_TO_PLAY"
  /\ view[Host] = "STARTED" /\ inbox[Host] = <<>> /\ interest[Host] = "READ"
  /\ \A f \in Joiners : /\ view[f] \in {"LOBBY", "STARTED"}
                        /\ interest[f] = "WRITE" /\ inbox[f] = <<>>
  /\ waiting = Cardinality(Untold)
  /\ Joiners # {}
  /\ \/ batch = <<>> /\ Untold = Joiners
     \/ /\ batch # <<>>
        /\ \A e \in Events : TellingEvent(e)
        /\ \A f \in Untold : \E e \in Events : e.fd = f

BeforeGame ==
  /\ running
  /\ closed = {}
  /\ conn[Junk] = "NONE" /\ players \subseteq Clients
  /\ \A f \in Clients : peer[f] = "open" /\ view[f] # "PLAYING"

Playing ==
  /\ \A f \in Clients : view[f] = "PLAYING"
  /\ \A e \in Events : e.data = "ok"
  /\ handler = "ManageEvents" => batch = <<>>
  /\ conn[Junk] = "NONE"
  /\ \A f \in Clients : conn[f] # "NONE" => interest[f] = "READ"
  /\ IF running THEN interest[TimerFd] = "READ" /\ alive \subseteq Entries
                ELSE interest[TimerFd] = "NONE"

Orderly ==
  /\ state # "PLAYING" => BeforeGame
  /\ state = "WAITING" => Gathering
  /\ state = "STARTING" => Telling
  /\ state = "PLAYING" => Playing

All == Shape /\ Watched /\ Once /\ Orderly

LEMMA LobbyFacts ==
  ASSUME All, state = "WAITING"
  PROVE  /\ BeforeGame /\ Gathering /\ handler = "ManageEvents"
         /\ \A f \in Fds : conn[f] # "STARTING_TO_PLAY" /\ key[f] # "STARTING_TO_PLAY"
         /\ interest[TimerFd] = "NONE"
         /\ \A e \in Events : e \in EventRecords /\ e.data = "ok"
         /\ conn \in [Fds -> PlayerStates \union {"NONE"}]
         /\ interest \in [Watchable -> {"NONE", "READ", "WRITE"}]
         /\ view \in [Clients -> Views] /\ waiting \in Int
         /\ list \in [Clients -> SUBSET Fds]
         /\ pipe \in Seq(Joiners) /\ inbox = [f \in Clients |-> inbox[f]]
         /\ \A f \in Clients : LoginRead(f)
<1>1. BeforeGame /\ Gathering
  BY DEF All, Orderly
<1>2. /\ handler = "ManageEvents" /\ interest[TimerFd] = "NONE"
      /\ \A f \in Fds : conn[f] # "STARTING_TO_PLAY" /\ key[f] # "STARTING_TO_PLAY"
  BY DEF All, Shape, Typed, Once, BeforeStart, GameHandled
<1>3. \A e \in Events : e \in EventRecords
  BY DEF All, Shape, Batched, Events
<1>4. \A e \in Events : e.data = "ok"
  BY <1>3 DEF All, Once, EventUsed, EventRecords
<1> QED BY <1>1, <1>2, <1>3, <1>4 DEF All, Shape, Typed, LoginsRead

\* While the room waits only these steps can be taken
LEMMA LobbySteps ==
  ASSUME Regime, All, state = "WAITING", [Next]_vars
  PROVE  \/ \E f \in Clients : ReadLoginSize(f) \/ ReadLogin(f) \/ SendList(f)
         \/ ManageHost \/ Receive \/ Wait
         \/ \E f \in Joiners : Join(f)
         \/ \E f \in Clients : SendLogin(f)
         \/ HostReads \/ HostStart \/ UNCHANGED vars
<1>1. ASSUME NEW f \in Clients, HangUp(f)
      PROVE  FALSE
  BY <1>1, LobbyFacts, HeadEvent DEF HangUp, Handling, Gathering, ArrivalEvent, All, Shape
<1>2. ASSUME NEW f \in Joiners, PlayerExit(f)
      PROVE  FALSE
  BY <1>2, LobbyFacts, HeadEvent, RoomAssumption, SetTyped
     DEF PlayerExit, Goes, Handling, Gathering, ArrivalEvent, All, Shape
<1>3. ASSUME NEW f \in Clients, SendStart(f) \/ StartGame(f)
      PROVE  FALSE
  BY <1>3, LobbyFacts, HeadEvent, SetTyped DEF SendStart, StartGame, All, Shape
<1>4. ASSUME Freed \/ ManageGame
      PROVE  FALSE
  <2>1. ~Freed
    BY LobbyFacts, HeadEvent DEF Freed, All, Shape
  <2>2. ~ManageGame
    BY LobbyFacts DEF ManageGame, GameHangUp, ManagePlayerEvent, IgnoreHost, ApplyGameChanges,
       Goes, Handling
  <2> QED BY <1>4, <2>1, <2>2
<1>5. ASSUME (\E f \in Clients : Command(f) \/ Leave(f) \/ Reset(f)) \/ TimerExpires
      PROVE  FALSE
  BY <1>5, LobbyFacts DEF Command, Leave, Reset, TimerExpires, BeforeGame, Regime
<1> QED
  BY <1>1, <1>2, <1>3, <1>4, <1>5 DEF Next, Run, ManageEvents, Environment

\* Who is registered has an event in the batch only in a state in which it was
LEMMA NoEventOf ==
  ASSUME All, state = "WAITING", NEW f \in Clients, conn[f] = "NONE"
  PROVE  interest[f] = "NONE" /\ \A e \in Events : e.fd # f
<1>1. interest[f] = "NONE"
  BY LobbyFacts, SetTyped DEF All, Watched, ClientWatched
<1>2. \A e \in Events : e.fd # f
  BY <1>1, LobbyFacts, SetTyped DEF All, Watched, BatchWatched, EventWatched
<1> QED BY <1>1, <1>2

(***************************************************************************)
(* The login.                                                              *)
(***************************************************************************)
LEMMA SizeGathers ==
  ASSUME All, state = "WAITING", NEW f \in Clients, ReadLoginSize(f)
  PROVE  BeforeGame' /\ Gathering'
<1> USE LobbyFacts
<1>1. /\ conn[f] = "ASKING_LOGIN_SIZE" /\ batch # <<>> /\ Head(batch).fd = f
      /\ Head(batch) \in Events
  BY HeadEvent DEF ReadLoginSize, Goes, Handling, All, Shape
<1>2. inbox[f] # <<>>
  BY <1>1 DEF Gathering, ArrivalEvent
<1>3. /\ conn' = [conn EXCEPT ![f] = "ASKING_LOGIN"]
      /\ inbox' = [inbox EXCEPT ![f] = Tail(@)]
      /\ UNCHANGED <<running, batch, interest, closed, players, waiting, pipe, peer, view, list,
                     shown>>
  BY <1>2 DEF ReadLoginSize, ReadMessage, Continue, clients
<1>4. /\ \A g \in Fds : conn'[g] = IF g = f THEN "ASKING_LOGIN" ELSE conn[g]
      /\ \A g \in Clients \ {f} : inbox'[g] = inbox[g]
  BY <1>3, SetTyped
<1>5. Named' = Named /\ InPipe' = InPipe /\ Events' = Events
  <2>1. \A g \in Fds : LoggedIn(g)' <=> LoggedIn(g)
    BY <1>1, <1>4 DEF LoggedIn
  <2>2. players \subseteq Fds
    BY SetTyped DEF BeforeGame
  <2> QED BY <1>3, <2>1, <2>2 DEF Named, InPipe, Events
<1>6. BeforeGame'
  BY <1>3, <1>4, RoomAssumption DEF BeforeGame, Fds
<1>7. \A g \in Clients : Arrives(g)'
  BY <1>1, <1>3, <1>4, <1>5, SetTyped DEF Gathering, Arrives
<1>8. \A e \in Events' : ArrivalEvent(e)'
  BY <1>3, <1>4, <1>5, SetTyped DEF Gathering, ArrivalEvent
<1>9. AllThere'
  BY <1>1, <1>3 DEF Gathering, AllThere
<1>10. {g \in Joiners : conn'[g] # "NONE"} = {g \in Joiners : conn[g] # "NONE"}
  BY <1>1, <1>4, SetTyped
<1>11. conn'[Host] = "ASKING_LOGIN_SIZE" => inbox'[Host] # <<>>
  BY <1>4, SetTyped DEF Gathering
<1> QED BY <1>3, <1>5, <1>6, <1>7, <1>8, <1>9, <1>10, <1>11 DEF Gathering

LEMMA LoginGathers ==
  ASSUME All, state = "WAITING", NEW f \in Clients, ReadLogin(f)
  PROVE  BeforeGame' /\ Gathering'
<1> USE LobbyFacts
<1>1. conn[f] = "ASKING_LOGIN" /\ batch # <<>>
  BY DEF ReadLogin, Goes, Handling
<1>2. CASE inbox[f] = <<>>
  <2>1. peer[f] = "open"
    BY DEF BeforeGame
  <2>2. /\ batch' = Tail(batch)
        /\ UNCHANGED <<conn, running, inbox, interest, closed, players, waiting, pipe, peer, view,
                       list, shown>>
    BY <1>2, <2>1 DEF ReadLogin, NextEvent, clients
  <2>3. Events' \subseteq Events
    BY <1>1, <2>2, TailEvents DEF All, Shape
  <2>4. Named' = Named /\ InPipe' = InPipe
    BY <2>2 DEF Named, InPipe, LoggedIn
  <2>5. BeforeGame'
    BY <2>2 DEF BeforeGame
  <2>6. \A g \in Clients : Arrives(g)'
    BY <2>2, <2>4 DEF Gathering, Arrives
  <2>7. \A e \in Events' : ArrivalEvent(e)'
    BY <2>2, <2>3 DEF Gathering, ArrivalEvent
  <2>8. AllThere'
    BY <2>2 DEF Gathering, AllThere
  <2> QED BY <2>2, <2>4, <2>5, <2>6, <2>7, <2>8 DEF Gathering
<1>3. CASE inbox[f] # <<>>
  <2> DEFINE c == [conn EXCEPT ![f] = "WRITE_PLAYERS_NUM"]
             i == [interest EXCEPT ![f] = "WRITE"]
  <2>1. /\ UpdatePlayerList(c, i)
        /\ players' = players \union {f}
        /\ inbox' = [inbox EXCEPT ![f] = Tail(@)]
        /\ UNCHANGED <<running, batch, closed, waiting, pipe, peer, view, list, shown>>
    BY <1>3 DEF ReadLogin, ReadMessage, Continue, clients
  <2>2. /\ c \in [Fds -> PlayerStates \union {"NONE"}]
        /\ \A g \in Fds : c[g] = IF g = f THEN "WRITE_PLAYERS_NUM" ELSE conn[g]
        /\ \A g \in Watchable : i[g] = IF g = f THEN "WRITE" ELSE interest[g]
    BY SetTyped DEF PlayerStates
  <2> HIDE DEF c, i
  <2>3. /\ \A g \in Fds : conn'[g] = IF g = f \/ (g \in Clients /\ conn[g] = "READY_TO_PLAY")
                                     THEN "WRITE_PLAYERS_NUM" ELSE conn[g]
        /\ \A g \in Clients : interest'[g] = IF g = f \/ conn[g] = "READY_TO_PLAY"
                                             THEN "WRITE" ELSE interest[g]
    BY <2>1, <2>2, SetTyped DEF UpdatePlayerList
  <2>4. view[f] = "LOGIN" /\ view[Host] # "STARTED"
    BY <1>1, <1>3 DEF Gathering, Arrives, LoginRead, AllThere
  <2>5. BeforeGame'
    BY <2>1, <2>3, RoomAssumption DEF BeforeGame, Fds
  <2>6. Named' = Named \union {f} /\ InPipe' = InPipe /\ Events' = Events
    <3>1. \A g \in Fds : LoggedIn(g)' <=> LoggedIn(g) \/ g = f
      BY <2>3 DEF LoggedIn
    <3>2. players \subseteq Fds
      BY SetTyped DEF BeforeGame
    <3> QED BY <2>1, <3>1, <3>2, SetTyped DEF Named, InPipe, Events
  <2>7. \A g \in Clients : Arrives(g)'
    BY <1>1, <2>1, <2>3, <2>4, <2>6, SetTyped DEF Gathering, Arrives
  <2>8. \A g \in Clients \ {f} : inbox'[g] = inbox[g]
    BY <2>1
  <2>9. \A e \in Events' : ArrivalEvent(e)'
    BY <2>1, <2>3, <2>6, <2>8, SetTyped DEF Gathering, ArrivalEvent
  <2>10. AllThere'
    BY <2>1, <2>4 DEF AllThere
  <2>11. {g \in Joiners : conn'[g] # "NONE"} = {g \in Joiners : conn[g] # "NONE"}
    BY <1>1, <2>3, SetTyped
  <2>12. conn'[Host] = "ASKING_LOGIN_SIZE" => inbox'[Host] # <<>>
    BY <2>3, <2>8, SetTyped DEF Gathering
  <2> QED BY <2>1, <2>5, <2>6, <2>7, <2>9, <2>10, <2>11, <2>12 DEF Gathering
<1> QED BY <1>2, <1>3

(***************************************************************************)
(* The list.  Nothing keeps it from being written, and nobody is to be     *)
(* told of the start in its place.                                         *)
(***************************************************************************)
LEMMA ListGathers ==
  ASSUME All, state = "WAITING", NEW f \in Clients, SendList(f)
  PROVE  BeforeGame' /\ Gathering'
<1> USE LobbyFacts
<1>1. conn[f] = "WRITE_PLAYERS_NUM" /\ batch # <<>> /\ Head(batch).fd = f /\ view[Host] # "STARTED"
  BY SetTyped DEF SendList, Goes, Handling, Gathering, Arrives, AllThere
<1>2. CanWrite(f) /\ ~Starts(f)
  BY SetTyped DEF BeforeGame, CanWrite, Starts
<1>3. LookedUp = conn
  BY DEF LookedUp, Gathering, Arrives, BeforeGame
<1>4. /\ conn' = [conn EXCEPT ![f] = "READY_TO_PLAY"]
      /\ interest' = [interest EXCEPT ![f] = "READ"]
      /\ list' = [list EXCEPT ![f] = Named]
      /\ batch' = Tail(batch)
      /\ Send({f}, IF view[f] = "LOGIN" THEN "LIST" ELSE "UPDATE")
      /\ UNCHANGED <<running, closed, players, waiting, pipe, inbox, shown>>
  BY <1>2, <1>3 DEF SendList, NextEvent, Named
<1>5. /\ \A g \in Fds : conn'[g] = IF g = f THEN "READY_TO_PLAY" ELSE conn[g]
      /\ \A g \in Clients : /\ interest'[g] = IF g = f THEN "READ" ELSE interest[g]
                            /\ list'[g] = IF g = f THEN Named ELSE list[g]
  BY <1>4, SetTyped
<1>6. /\ \A g \in Clients : view'[g] = IF g = f THEN "LOBBY" ELSE view[g]
      /\ \A g \in Clients : peer'[g] = "open"
  <2>1. view[f] \in {"LOGIN", "LOBBY"} /\ \A g \in Clients : peer[g] = "open"
    BY <1>1 DEF Gathering, Arrives, BeforeGame
  <2> QED BY <1>4, <2>1 DEF Send, After
<1>7. Named' = Named /\ InPipe' = InPipe
  <2>1. \A g \in Fds : LoggedIn(g)' <=> LoggedIn(g)
    BY <1>1, <1>5 DEF LoggedIn
  <2>2. players \subseteq Fds
    BY SetTyped DEF BeforeGame
  <2> QED BY <1>4, <2>1, <2>2 DEF Named, InPipe
<1>8. BeforeGame'
  BY <1>4, <1>5, <1>6, RoomAssumption DEF BeforeGame, Fds
<1>9. \A g \in Clients : Arrives(g)'
  BY <1>1, <1>4, <1>5, <1>6, <1>7, SetTyped DEF Gathering, Arrives
<1>10. \A e \in Events' : ArrivalEvent(e)'
  <2>1. Events' = {e \in Events : e.fd # f}
    BY <1>1, <1>4, TailEvents DEF All, Shape
  <2> QED BY <1>1, <1>4, <1>5, <1>6, <2>1, SetTyped DEF Gathering, ArrivalEvent
<1>11. AllThere'
  BY <1>1, <1>6, SetTyped DEF AllThere
<1>12. {g \in Joiners : conn'[g] # "NONE"} = {g \in Joiners : conn[g] # "NONE"}
  BY <1>1, <1>5, SetTyped
<1>13. conn'[Host] = "ASKING_LOGIN_SIZE" => inbox'[Host] # <<>>
  BY <1>4, <1>5, SetTyped DEF Gathering
<1> QED BY <1>4, <1>5, <1>7, <1>8, <1>9, <1>10, <1>11, <1>12, <1>13, SetTyped DEF Gathering

(***************************************************************************)
(* What epoll reports, nothing else and nothing less.                      *)
(***************************************************************************)
LEMMA WaitReports ==
  ASSUME Wait, interest \in [Watchable -> {"NONE", "READ", "WRITE"}]
  PROVE  \A e : e \in Events' <=> \E f \in Watchable : HasEvents(f) /\ e = Event(f)
<1> DEFINE S == {f \in Watchable : HasEvents(f)}
           n == Cardinality(S)
<1>1. IsFiniteSet(S) /\ n \in Nat
  <2>1. IsFiniteSet({Host}) /\ IsFiniteSet({ServerFd}) /\ IsFiniteSet({TimerFd})
    BY FS_Singleton
  <2>2. IsFiniteSet(Clients)
    BY <2>1, RoomAssumption, FS_Union DEF Clients
  <2>3. {ServerFd, TimerFd} = {ServerFd} \union {TimerFd}
    OBVIOUS
  <2>4. IsFiniteSet(Watchable)
    BY <2>1, <2>2, <2>3, FS_Union DEF Watchable
  <2> QED BY <2>4, FS_Subset, FS_CardinalityType
<1>2. PICK order \in SetToSeqs(S) : batch' = [i \in DOMAIN order |-> Event(order[i])]
  BY DEF Wait
<1>3. /\ order \in [1 .. n -> S]
      /\ \A i, k \in 1 .. n : i # k => order[i] # order[k]
  BY <1>2 DEF SetToSeqs
<1> HIDE DEF S
<1>4. ASSUME NEW f \in S
      PROVE  \E i \in 1 .. n : order[i] = f
  <2> SUFFICES ASSUME \A i \in 1 .. n : order[i] # f
               PROVE  FALSE
    OBVIOUS
  <2>1. order \in [1 .. n -> S \ {f}]
    BY <1>3
  <2>2. IsFiniteSet(S \ {f}) /\ Cardinality(S \ {f}) = n - 1
    BY <1>1, FS_RemoveElement
  <2>3. IsFiniteSet(1 .. n) /\ Cardinality(1 .. n) = n
    BY <1>1, FS_Interval
  <2> HIDE DEF n
  <2>4. \E i, k \in 1 .. n : i # k /\ order[i] = order[k]
    BY <1>1, <2>1, <2>2, <2>3, FS_PigeonHole
  <2> QED BY <1>3, <2>4
<1>5. \A e : e \in Events' <=> \E i \in 1 .. n : e = Event(order[i])
  BY <1>2, <1>3 DEF Events
<1>6. \A e : e \in Events' <=> \E f \in S : e = Event(f)
  BY <1>3, <1>4, <1>5
<1> QED BY <1>6 DEF S

LEMMA WaitGathers ==
  ASSUME All, state = "WAITING", Wait
  PROVE  BeforeGame' /\ Gathering'
<1> USE LobbyFacts
<1>1. UNCHANGED <<conn, running, inbox, interest, closed, players, waiting, pipe, peer, view,
                  list, shown>>
  BY DEF Wait, entries, kernel, clients
<1>2. Named' = Named /\ InPipe' = InPipe
  BY <1>1 DEF Named, InPipe, LoggedIn
<1>3. BeforeGame' /\ AllThere' /\ \A f \in Clients : Arrives(f)'
  BY <1>1, <1>2 DEF Gathering, BeforeGame, AllThere, Arrives
<1>4. ASSUME NEW f \in Watchable, HasEvents(f)
      PROVE  ArrivalEvent(Event(f))
  <2>1. Event(f).fd = f /\ Event(f).hup = HungUp(f)
    BY DEF Event
  <2>2. f # TimerFd
    BY <1>4 DEF HasEvents
  <2>3. ASSUME f \in Clients
        PROVE  /\ ~HungUp(f)
               /\ interest[f] = "WRITE" \/ (interest[f] = "READ" /\ inbox[f] # <<>>)
    BY <1>4, <2>3, RoomAssumption DEF HungUp, HasEvents, Readable, BeforeGame
  <2>4. ASSUME f \in Clients, conn[f] = "ASKING_LOGIN_SIZE"
        PROVE  inbox[f] # <<>>
    BY <2>3, <2>4 DEF Gathering, Arrives
  <2>5. ASSUME f \in Clients, conn[f] = "READY_TO_PLAY"
        PROVE  f = Host /\ view[Host] = "STARTED"
    BY <2>3, <2>5 DEF Gathering, Arrives, LoginRead
  <2> QED BY <2>1, <2>2, <2>3, <2>4, <2>5 DEF ArrivalEvent
<1>5. \A e \in Events' : ArrivalEvent(e)
  BY <1>4, WaitReports
<1>6. \A e \in Events' : ArrivalEvent(e)'
  BY <1>1, <1>5 DEF ArrivalEvent
<1> QED BY <1>1, <1>2, <1>3, <1>6 DEF Gathering

(***************************************************************************)
(* A descriptor from the server is one the room does not know yet.         *)
(***************************************************************************)
LEMMA ReceiveGathers ==
  ASSUME All, state = "WAITING", Receive
  PROVE  BeforeGame' /\ Gathering'
<1> USE LobbyFacts
<1> DEFINE g == Head(pipe)
<1>1. batch # <<>> /\ Head(batch).fd = ServerFd /\ pipe # <<>>
  BY HeadEvent DEF Receive, Handling, All, Shape, PipeWaits
<1>2. g \in Joiners /\ g \in InPipe /\ g = pipe[1]
  BY <1>1 DEF InPipe
<1>3. g \in Clients /\ g # Host /\ conn[g] = "NONE" /\ g \notin players
      /\ view[g] \in {"JOINED", "SIZED", "LOGIN"}
  BY <1>2, SetTyped, RoomAssumption DEF Gathering, Arrives
<1>4. interest[g] = "NONE" /\ \A e \in Events : e.fd # g
  BY <1>3, NoEventOf
<1>5. /\ conn' = [conn EXCEPT ![g] = "ASKING_LOGIN_SIZE"]
      /\ interest' = [interest EXCEPT ![g] = "READ"]
      /\ players' = players \union {g}
      /\ waiting' = waiting + 1
      /\ batch' = Tail(batch) /\ pipe' = Tail(pipe)
      /\ UNCHANGED <<running, inbox, closed, peer, view, list, shown>>
  BY <1>3, <1>4 DEF Receive, AddPlayer, AddEvent, Counted, NextEvent, BeforeGame, clients
<1>6. /\ \A f \in Fds : conn'[f] = IF f = g THEN "ASKING_LOGIN_SIZE" ELSE conn[f]
      /\ \A f \in Clients : interest'[f] = IF f = g THEN "READ" ELSE interest[f]
  BY <1>5, SetTyped
<1>7. Named' = Named
  <2>1. \A f \in Fds : LoggedIn(f)' <=> LoggedIn(f)
    BY <1>3, <1>6 DEF LoggedIn
  <2>2. players \subseteq Fds /\ ~LoggedIn(g)
    BY <1>3, SetTyped DEF BeforeGame, LoggedIn
  <2> QED BY <1>3, <1>5, <2>1, <2>2, SetTyped DEF Named
<1>8. /\ DOMAIN pipe' = 1 .. Len(pipe) - 1
      /\ \A i \in DOMAIN pipe' : i + 1 \in DOMAIN pipe /\ i + 1 # 1 /\ pipe'[i] = pipe[i + 1]
  BY <1>1, <1>5, HeadTailProperties
<1>9. /\ InPipe' \subseteq InPipe /\ g \notin InPipe'
      /\ \A i, k \in DOMAIN pipe' : pipe'[i] = pipe'[k] => i = k
  <2>1. \A i, k \in DOMAIN pipe : pipe[i] = pipe[k] => i = k
    BY DEF Gathering
  <2>2. 1 \in DOMAIN pipe
    BY <1>1
  <2> HIDE DEF g
  <2>3. InPipe' \subseteq InPipe /\ g \notin InPipe'
    BY <1>2, <1>8, <2>1, <2>2 DEF InPipe
  <2>4. ASSUME NEW i \in DOMAIN pipe', NEW k \in DOMAIN pipe', pipe'[i] = pipe'[k]
        PROVE  i = k
    BY <1>8, <2>1, <2>4
  <2> QED BY <2>3, <2>4
<1> HIDE DEF g
<1>10. BeforeGame'
  BY <1>3, <1>5, <1>6, RoomAssumption DEF BeforeGame, Fds
<1>11. \A f \in Clients : Arrives(f)'
  BY <1>3, <1>5, <1>6, <1>7, <1>9, SetTyped DEF Gathering, Arrives
<1>12. \A e \in Events' : ArrivalEvent(e)'
  <2>1. Events' \subseteq Events
    BY <1>1, <1>5, TailEvents DEF All, Shape
  <2> QED BY <1>4, <1>5, <1>6, <2>1, SetTyped DEF Gathering, ArrivalEvent
<1>13. AllThere'
  BY <1>3, <1>5 DEF Gathering, AllThere
<1>14. waiting' = Cardinality({f \in Joiners : conn'[f] # "NONE"})
  <2> DEFINE S == {f \in Joiners : conn[f] # "NONE"}
  <2>1. {f \in Joiners : conn'[f] # "NONE"} = S \union {g} /\ g \notin S
    BY <1>2, <1>3, <1>6, SetTyped
  <2>2. IsFiniteSet(S)
    BY RoomAssumption, FS_Subset
  <2>3. waiting = Cardinality(S)
    BY DEF Gathering
  <2> HIDE DEF S
  <2>4. Cardinality(S \union {g}) = Cardinality(S) + 1
    BY <2>1, <2>2, FS_AddElement
  <2> QED BY <1>5, <2>1, <2>3, <2>4
<1>15. conn'[Host] = "ASKING_LOGIN_SIZE" => inbox'[Host] # <<>>
  BY <1>3, <1>5, <1>6, SetTyped DEF Gathering
<1> QED BY <1>5, <1>7, <1>9, <1>10, <1>11, <1>12, <1>13, <1>14, <1>15 DEF Gathering

(***************************************************************************)
(* The clients and the server, while the room waits.                       *)
(***************************************************************************)
LEMMA JoinGathers ==
  ASSUME All, state = "WAITING", NEW f \in Joiners, Join(f)
  PROVE  BeforeGame' /\ Gathering'
<1> USE LobbyFacts
<1>1. f \in Clients /\ f # Host /\ view[f] = "OUT"
  BY SetTyped, RoomAssumption DEF Join
<1>2. conn[f] = "NONE" /\ f \notin InPipe /\ f \notin players
  BY <1>1 DEF Gathering, Arrives
<1>3. interest[f] = "NONE" /\ \A e \in Events : e.fd # f
  BY <1>1, <1>2, NoEventOf
<1>4. /\ view' = [view EXCEPT ![f] = "JOINED"]
      /\ pipe' = Append(pipe, f)
      /\ UNCHANGED <<conn, running, batch, interest, inbox, closed, players, waiting, peer, list,
                     shown>>
  BY DEF Join, room, entries
<1>5. \A g \in Clients : view'[g] = IF g = f THEN "JOINED" ELSE view[g]
  BY <1>4
<1>6. /\ DOMAIN pipe' = 1 .. Len(pipe) + 1
      /\ \A i \in DOMAIN pipe : pipe'[i] = pipe[i]
      /\ pipe'[Len(pipe) + 1] = f
      /\ DOMAIN pipe = 1 .. Len(pipe) /\ Len(pipe) \in Nat
  BY <1>4, AppendProperties
<1>7. InPipe' \subseteq InPipe \union {f}
  BY <1>6 DEF InPipe
<1>8. ASSUME NEW i \in DOMAIN pipe', NEW k \in DOMAIN pipe', pipe'[i] = pipe'[k]
      PROVE  i = k
  <2>1. \A j \in DOMAIN pipe : pipe[j] # f
    BY <1>2 DEF InPipe
  <2>2. \A j \in DOMAIN pipe' : j \in DOMAIN pipe \/ j = Len(pipe) + 1
    BY <1>6
  <2> QED BY <1>6, <1>8, <2>1, <2>2 DEF Gathering
<1>9. Named' = Named /\ Events' = Events
  BY <1>4 DEF Named, LoggedIn, Events
<1>10. BeforeGame'
  BY <1>4, <1>5 DEF BeforeGame
<1>11. \A g \in Clients : Arrives(g)'
  BY <1>1, <1>2, <1>4, <1>5, <1>7, <1>9 DEF Gathering, Arrives
<1>12. view'[Host] = view[Host]
  BY <1>1, <1>5, SetTyped
<1>13. \A e \in Events' : ArrivalEvent(e)'
  BY <1>4, <1>9, <1>12 DEF Gathering, ArrivalEvent
<1>14. AllThere'
  BY <1>4, <1>12 DEF Gathering, AllThere
<1> QED BY <1>4, <1>8, <1>9, <1>10, <1>11, <1>13, <1>14 DEF Gathering

LEMMA SendGathers ==
  ASSUME All, state = "WAITING", NEW f \in Clients, SendLogin(f)
  PROVE  BeforeGame' /\ Gathering'
<1> USE LobbyFacts
<1>1. /\ view[f] \in {"JOINED", "SIZED"} /\ view'[f] \in {"SIZED", "LOGIN"}
      /\ inbox'[f] # <<>>
      /\ \A g \in Clients \ {f} : view'[g] = view[g] /\ inbox'[g] = inbox[g]
      /\ UNCHANGED <<conn, running, batch, interest, closed, players, waiting, pipe, peer, list,
                     shown>>
  <2>1. LoginRead(f)
    OBVIOUS
  <2>2. \A m : Append(inbox[f], m) # <<>>
    BY <2>1, AppendProperties DEF LoginRead, Messages
  <2> QED BY <2>2 DEF SendLogin, room, entries
<1>2. conn[f] \in {"NONE", "ASKING_LOGIN_SIZE", "ASKING_LOGIN"}
  BY <1>1 DEF LoginRead
<1>3. Named' = Named /\ InPipe' = InPipe /\ Events' = Events
  BY <1>1 DEF Named, InPipe, LoggedIn, Events
<1>4. BeforeGame'
  BY <1>1 DEF BeforeGame
<1>5. \A g \in Clients : Arrives(g)'
  BY <1>1, <1>2, <1>3 DEF Gathering, Arrives
<1>6. view'[Host] = "STARTED" => view[Host] = "STARTED" /\ Host # f
  BY <1>1, SetTyped
<1>7. view[Host] = "STARTED" => view'[Host] = "STARTED"
  BY <1>1, SetTyped
<1>8. \A e \in Events' : ArrivalEvent(e)'
  BY <1>1, <1>2, <1>3, <1>7 DEF Gathering, ArrivalEvent
<1>9. AllThere'
  BY <1>1, <1>6, SetTyped DEF Gathering, AllThere
<1>10. conn'[Host] = "ASKING_LOGIN_SIZE" => inbox'[Host] # <<>>
  BY <1>1, SetTyped DEF Gathering
<1> QED BY <1>1, <1>3, <1>4, <1>5, <1>8, <1>9, <1>10 DEF Gathering

LEMMA ReadsGathers ==
  ASSUME All, state = "WAITING", HostReads \/ UNCHANGED vars
  PROVE  BeforeGame' /\ Gathering'
<1> USE LobbyFacts
<1>1. /\ shown' \in {shown, list[Host]}
      /\ UNCHANGED <<conn, running, batch, interest, inbox, closed, players, waiting, pipe, peer,
                     list, view>>
  BY DEF HostReads, room, entries, kernel, clients, vars
<1>2. Named' = Named /\ InPipe' = InPipe /\ Events' = Events
  BY <1>1 DEF Named, InPipe, LoggedIn, Events
<1>3. /\ BeforeGame' /\ AllThere' /\ \A f \in Clients : Arrives(f)'
      /\ \A e \in Events' : ArrivalEvent(e)'
  BY <1>1, <1>2 DEF Gathering, BeforeGame, AllThere, Arrives, ArrivalEvent
<1> QED BY <1>1, <1>2, <1>3 DEF Gathering

(***************************************************************************)
(* The host starts the game with everybody on its screen: by then they are *)
(* all in the lobby, and the room has nothing to do for anybody.           *)
(***************************************************************************)
LEMMA StartGathers ==
  ASSUME Regime, All, state = "WAITING", HostStart
  PROVE  BeforeGame' /\ Gathering'
<1> USE LobbyFacts
<1>1. /\ view[Host] = "LOBBY" /\ Settled /\ ~unread /\ shown = Clients /\ Cardinality(shown) >= 3
      /\ view' = [view EXCEPT ![Host] = "STARTED"]
      /\ inbox' = [inbox EXCEPT ![Host] = Append(@, "START")]
      /\ UNCHANGED <<conn, running, batch, interest, closed, players, waiting, pipe, peer, list,
                     shown>>
  BY DEF HostStart, Regime, room, entries
<1>2. inbox[Host] = <<>> /\ inbox'[Host] = <<"START">>
  <2>1. inbox[Host] = <<>>
    BY <1>1, SetTyped DEF LoginRead
  <2>2. inbox'[Host] = Append(inbox[Host], "START")
    BY <1>1, SetTyped
  <2> QED BY <2>1, <2>2
<1>3. \A g \in Clients : /\ view'[g] = IF g = Host THEN "STARTED" ELSE view[g]
                         /\ g # Host => inbox'[g] = inbox[g]
  BY <1>1
<1>4. ASSUME NEW f \in Clients
      PROVE  conn[f] = "READY_TO_PLAY"
  <2>1. LoggedIn(f)
    BY <1>1, SetTyped DEF Gathering, Arrives, Named, LoggedIn
  <2> QED BY <1>1, <2>1, SetTyped DEF Gathering, Arrives, LoggedIn, Settled, PlayerStates
<1>5. Joiners # {}
  <2> SUFFICES ASSUME Joiners = {}
               PROVE  FALSE
    OBVIOUS
  <2>1. Clients = {Host}
    BY DEF Clients
  <2>2. Cardinality({Host}) = 1
    BY FS_Singleton
  <2> QED BY <1>1, <2>1, <2>2
<1>6. \A e \in Events : e.fd \notin Clients
  BY <1>1, <1>4 DEF Gathering, ArrivalEvent
<1>7. Named' = Named /\ InPipe' = InPipe /\ Events' = Events
  BY <1>1 DEF Named, InPipe, LoggedIn, Events
<1>8. BeforeGame'
  BY <1>1, <1>3 DEF BeforeGame
<1>9. \A g \in Clients : Arrives(g)'
  BY <1>1, <1>3, <1>4, <1>7 DEF Gathering, Arrives
<1>10. \A e \in Events' : ArrivalEvent(e)'
  BY <1>6, <1>7 DEF Gathering, ArrivalEvent
<1>11. AllThere'
  BY <1>1, <1>2, <1>4, <1>5 DEF AllThere
<1> QED BY <1>1, <1>2, <1>7, <1>8, <1>9, <1>10, <1>11 DEF Gathering

LEMMA NextGathers ==
  ASSUME Regime, All, state = "WAITING", [Next]_vars, ~ManageHost
  PROVE  state' = "WAITING" /\ BeforeGame' /\ Gathering'
<1>1. state' = "WAITING"
  BY LobbySteps DEF ReadLoginSize, ReadLogin, SendList, Receive, Wait, Join, SendLogin,
     HostReads, HostStart, room, vars
<1> QED
  BY <1>1, LobbySteps, SizeGathers, LoginGathers, ListGathers, WaitGathers, ReceiveGathers,
     JoinGathers, SendGathers, ReadsGathers, StartGathers

-----------------------------------------------------------------------------
(* The start.                                                              *)

LEMMA HostTells ==
  ASSUME All, state = "WAITING", ManageHost
  PROVE  state' = "STARTING" /\ BeforeGame' /\ Telling'
<1> USE LobbyFacts
<1>1. /\ conn[Host] = "READY_TO_PLAY" /\ batch # <<>> /\ Head(batch).fd = Host
      /\ Head(batch) \in Events
  BY HeadEvent DEF ManageHost, Goes, Handling, All, Shape
<1>2. /\ view[Host] = "STARTED" /\ inbox[Host] = <<"START">> /\ Joiners # {}
      /\ \A f \in Clients : conn[f] = "READY_TO_PLAY"
  BY <1>1, SetTyped DEF Gathering, ArrivalEvent, AllThere
<1>3. {f \in Clients : conn[f] = "READY_TO_PLAY"} = Clients
  BY <1>2
<1>4. /\ state' = "STARTING"
      /\ conn' = [f \in Fds |-> IF f \in Clients THEN "STARTING_TO_PLAY" ELSE conn[f]]
      /\ interest' = [f \in Watchable |-> CASE f = ServerFd -> "NONE"
                                            [] f \in Clients \ {Host} -> "WRITE"
                                            [] OTHER -> interest[f]]
      /\ inbox' = [inbox EXCEPT ![Host] = <<>>]
      /\ DOMAIN batch' = 1 .. Len(batch) - 1
      /\ batch' = [i \in 1 .. Len(batch) - 1 |-> batch'[i]]
      /\ UNCHANGED <<running, closed, players, waiting, peer, view>>
  <2>1. inbox[Host] # <<>> /\ Tail(inbox[Host]) = <<>>
    BY <1>2, Tails
  <2>2. ReadMessage(Host) /\ state' = "STARTING"
    BY <2>1 DEF ManageHost
  <2>3. inbox' = [inbox EXCEPT ![Host] = <<>>]
    BY <2>1, <2>2 DEF ReadMessage
  <2>4. conn' = [f \in Fds |-> IF f \in Clients THEN "STARTING_TO_PLAY" ELSE conn[f]]
    BY <1>3, <2>1 DEF ManageHost
  <2>5. interest' = [f \in Watchable |-> CASE f = ServerFd -> "NONE"
                                           [] f \in Clients \ {Host} -> "WRITE"
                                           [] OTHER -> interest[f]]
    BY <1>3, <2>1 DEF ManageHost
  <2>6. DOMAIN batch' = 1 .. Len(batch) - 1 /\ batch' = [i \in 1 .. Len(batch) - 1 |-> batch'[i]]
    BY <2>1 DEF ManageHost
  <2>7. UNCHANGED <<running, closed, players, waiting, peer, view>>
    BY <2>1 DEF ManageHost, clients
  <2> QED BY <2>2, <2>3, <2>4, <2>5, <2>6, <2>7
<1>5. Len(batch) = 1
  <2>1. ASSUME NEW e \in Events
        PROVE  e = Head(batch)
    <3>1. e \in EventRecords
      OBVIOUS
    <3>2. e.fd # ServerFd
      <4>1. ASSUME e.fd = ServerFd
            PROVE  FALSE
        <5>1. pipe # <<>>
          BY <4>1 DEF All, Shape, PipeWaits
        <5>2. pipe[1] \in InPipe /\ pipe[1] \in Clients
          BY <5>1, SetTyped DEF InPipe
        <5> QED BY <1>2, <5>2 DEF Gathering, Arrives
      <4> QED BY <4>1
    <3>3. e.fd \in Clients
      BY <3>1, <3>2 DEF Gathering, ArrivalEvent, EventRecords, Watchable
    <3>4. e.fd = Host
      BY <1>2, <3>3 DEF Gathering, ArrivalEvent
    <3> QED BY <1>1, <3>4, HeadEvent DEF All, Shape
  <2>2. batch \in Seq(EventRecords)
        /\ \A i, k \in DOMAIN batch : batch[i].fd = batch[k].fd => i = k
    BY DEF All, Shape, Batched
  <2>3. \A i \in DOMAIN batch : batch[i] = batch[1]
    BY <2>1 DEF Events
  <2>4. \A i \in 1 .. Len(batch) : i = 1
    BY SMTT(30), <2>2, <2>3
  <2>5. Len(batch) \in Nat /\ Len(batch) >= 1
    BY <1>1, <2>2
  <2>6. 2 \notin 1 .. Len(batch)
    BY <2>4
  <2>7. \A n \in Nat : n >= 1 /\ 2 \notin 1 .. n => n = 1
    OBVIOUS
  <2> QED BY <2>5, <2>6, <2>7, Zenon
<1>6. batch' = <<>>
  BY <1>4, <1>5
<1>7. /\ \A f \in Clients : conn'[f] = "STARTING_TO_PLAY" /\ interest[f] = "READ"
      /\ \A f \in Joiners : interest'[f] = "WRITE" /\ inbox'[f] = <<>> /\ view[f] = "LOBBY"
      /\ conn'[Junk] = "NONE" /\ inbox'[Host] = <<>> /\ interest'[Host] = "READ"
  <2>1. \A f \in Clients : interest[f] = "READ" /\ (f # Host => view[f] = "LOBBY")
    BY <1>2 DEF Gathering, Arrives
  <2>2. \A f \in Joiners : f \in Clients /\ f # Host /\ f # ServerFd /\ f \in Watchable
    BY SetTyped, RoomAssumption
  <2>3. \A f \in Clients : conn'[f] = "STARTING_TO_PLAY"
    BY <1>4, SetTyped
  <2>4. conn'[Junk] = "NONE"
    BY <1>4, RoomAssumption DEF BeforeGame, Fds
  <2>5. interest'[Host] = "READ"
    BY <1>4, <2>1, SetTyped, RoomAssumption
  <2>6. \A f \in Joiners : interest'[f] = "WRITE"
    BY <1>4, <2>2
  <2>7. \A f \in Joiners : inbox'[f] = <<>>
    BY <1>4, <2>1, <2>2 DEF LoginRead
  <2>8. inbox'[Host] = <<>>
    BY <1>4, SetTyped
  <2> QED BY <2>1, <2>2, <2>3, <2>4, <2>5, <2>6, <2>7, <2>8
<1>8. BeforeGame'
  BY <1>4, <1>7 DEF BeforeGame
<1>9. Untold' = Joiners
  BY <1>4, <1>7 DEF Untold
<1>10. waiting' = Cardinality(Joiners)
  <2>1. {f \in Joiners : conn[f] # "NONE"} = Joiners
    BY <1>2, SetTyped
  <2> QED BY <1>4, <2>1 DEF Gathering
<1>11. waiting' = Cardinality(Untold')
  BY <1>4, <1>9, <1>10
<1>12. view'[Host] = "STARTED" /\ Joiners # {}
  BY <1>2, <1>4
<1>13. \A f \in Joiners : /\ view'[f] \in {"LOBBY", "STARTED"}
                          /\ interest'[f] = "WRITE" /\ inbox'[f] = <<>>
  BY <1>4, <1>7
<1>14. Telling'
  BY <1>6, <1>7, <1>9, <1>11, <1>12, <1>13 DEF Telling
<1> QED BY <1>2, <1>4, <1>8, <1>14

LEMMA TellFacts ==
  ASSUME All, state = "STARTING"
  PROVE  /\ BeforeGame /\ Telling /\ handler = "ManageEvents"
         /\ interest[TimerFd] = "NONE" /\ interest[ServerFd] = "NONE"
         /\ batch # <<>> => Head(batch) \in Events /\ TellingEvent(Head(batch))
         /\ \A e \in Events : e \in EventRecords /\ TellingEvent(e)
         /\ conn \in [Fds -> PlayerStates \union {"NONE"}]
         /\ interest \in [Watchable -> {"NONE", "READ", "WRITE"}]
         /\ view \in [Clients -> Views]
         /\ \A f \in Joiners : f \in Clients /\ f # Host
<1>1. BeforeGame /\ Telling
  BY DEF All, Orderly
<1>2. handler = "ManageEvents" /\ interest[TimerFd] = "NONE" /\ interest[ServerFd] = "NONE"
  BY DEF All, Shape, Typed, Once, AfterStart, GameHandled
<1>3. \A e \in Events : e \in EventRecords
  BY DEF All, Shape, Batched, Events
<1>4. \A e \in Events : TellingEvent(e)
  BY <1>1, NoEvents DEF Telling, Events
<1>5. batch # <<>> => Head(batch) \in Events
  BY HeadEvent DEF All, Shape
<1>6. \A f \in Joiners : f \in Clients /\ f # Host
  BY SetTyped, RoomAssumption
<1> QED BY <1>1, <1>2, <1>3, <1>4, <1>5, <1>6 DEF All, Shape, Typed

\* The clients wait for the room
LEMMA TellSteps ==
  ASSUME Regime, All, state = "STARTING", [Next]_vars
  PROVE  (\E f \in Joiners : SendStart(f) \/ StartGame(f)) \/ Wait \/ UNCHANGED vars
<1> USE TellFacts
<1>1. ASSUME NEW f \in Clients, HangUp(f) \/ ReadLoginSize(f) \/ ReadLogin(f) \/ SendList(f)
      PROVE  FALSE
  BY <1>1 DEF HangUp, ReadLoginSize, ReadLogin, SendList, Goes, Handling, TellingEvent, Telling
<1>2. ASSUME NEW f \in Joiners, PlayerExit(f)
      PROVE  FALSE
  BY <1>2 DEF PlayerExit, Telling
<1>3. ASSUME NEW f \in Clients, SendStart(f) \/ StartGame(f)
      PROVE  f \in Joiners
  BY <1>3 DEF SendStart, StartGame, Goes, Handling, TellingEvent
<1>4. ~ManageHost /\ ~Receive /\ ~Freed
  BY SetTyped, RoomAssumption
     DEF ManageHost, Receive, Freed, Goes, Handling, TellingEvent, Telling
<1>5. ~ManageGame
  BY DEF ManageGame, GameHangUp, ManagePlayerEvent, IgnoreHost, ApplyGameChanges, Goes, Handling
<1>6. ASSUME Environment
      PROVE  FALSE
  <2>1. ASSUME NEW f \in Joiners, Join(f)
        PROVE  FALSE
    BY <2>1 DEF Join, Telling
  <2>2. ASSUME NEW f \in Clients, SendLogin(f) \/ Command(f) \/ Leave(f) \/ Reset(f)
        PROVE  FALSE
    BY <2>2 DEF SendLogin, Command, Leave, Reset, Telling, BeforeGame, Regime, Clients
  <2>3. ~HostReads /\ ~HostStart /\ ~TimerExpires
    BY DEF HostReads, HostStart, TimerExpires, Telling
  <2> QED BY <1>6, <2>1, <2>2, <2>3 DEF Environment
<1> QED
  BY <1>1, <1>2, <1>3, <1>4, <1>5, <1>6 DEF Next, Run, ManageEvents

LEMMA WaitTells ==
  ASSUME All, state = "STARTING", Wait
  PROVE  BeforeGame' /\ Telling'
<1> USE TellFacts
<1>1. /\ UNCHANGED <<conn, running, inbox, interest, closed, players, waiting, peer, view>>
      /\ batch = <<>> /\ batch' # <<>>
  BY DEF Wait, entries, kernel, clients
<1>2. Untold' = Untold /\ Untold = Joiners
  BY <1>1 DEF Untold, Telling
<1>3. ASSUME NEW f \in Watchable, HasEvents(f)
      PROVE  f \in Joiners /\ Event(f).fd = f /\ ~Event(f).hup /\ Event(f).data = "ok"
  <2>1. f \in Clients
    BY <1>3 DEF HasEvents, Watchable
  <2>2. peer[f] = "open"
    BY <2>1 DEF BeforeGame
  <2>3. f # Host
    BY <1>3, <2>1, <2>2, RoomAssumption DEF HasEvents, Readable, Telling
  <2> QED BY <2>1, <2>2, <2>3 DEF Event, HungUp, Clients
<1>4. ASSUME NEW f \in Joiners
      PROVE  f \in Watchable /\ HasEvents(f)
  BY <1>4, SetTyped DEF HasEvents, Telling
<1>5. \A e \in Events' : e.fd \in Joiners /\ ~e.hup /\ e.data = "ok" /\ view[e.fd] = "LOBBY"
  BY <1>2, <1>3, WaitReports DEF Untold
<1>6. \A e \in Events' : TellingEvent(e)'
  BY <1>1, <1>5 DEF TellingEvent
<1>7. \A f \in Untold' : \E e \in Events' : e.fd = f
  BY <1>2, <1>3, <1>4, WaitReports
<1>8. BeforeGame'
  BY <1>1 DEF BeforeGame
<1>9. waiting' = Cardinality(Untold')
  BY <1>1, <1>2 DEF Telling
<1> QED BY <1>1, <1>6, <1>7, <1>8, <1>9 DEF Telling

(***************************************************************************)
(* Each joiner of the batch is told once, and the last one makes the game  *)
(* start.                                                                  *)
(***************************************************************************)
LEMMA StartTells ==
  ASSUME All, state = "STARTING", NEW f \in Joiners, SendStart(f)
  PROVE  BeforeGame' /\ Telling'
<1> USE TellFacts
<1>1. /\ batch # <<>> /\ Head(batch) \in Events /\ Head(batch).fd = f
      /\ f \in Clients /\ view[f] = "LOBBY"
  BY DEF SendStart, Goes, Handling, TellingEvent
<1>2. CanWrite(f) /\ peer[f] = "open"
  BY <1>1 DEF BeforeGame, CanWrite
<1>3. /\ Send({f}, "START")
      /\ waiting' = waiting - 1
      /\ IF waiting' = 0 THEN ContinueWith("start") ELSE Return(f)
      /\ UNCHANGED <<conn, running, inbox, interest, closed, players>>
  BY <1>2 DEF SendStart, NobodyWaits, ContinueWith, Return, NextEvent
<1>4. \A g \in Clients : /\ view'[g] = IF g = f THEN "STARTED" ELSE view[g]
                         /\ peer'[g] = "open"
  <2>1. \A g \in Clients : peer[g] = "open"
    BY DEF BeforeGame
  <2> QED BY <1>1, <1>3, <2>1 DEF Send, After
<1>5. Untold' = Untold \ {f} /\ f \in Untold
  BY <1>1, <1>4 DEF Untold
<1>6. waiting' = Cardinality(Untold') /\ IsFiniteSet(Untold')
  <2>1. IsFiniteSet(Untold)
    BY RoomAssumption, FS_Subset DEF Untold
  <2>2. waiting = Cardinality(Untold)
    BY DEF Telling
  <2> QED BY <1>3, <1>5, <2>1, <2>2, FS_RemoveElement
<1>7. BeforeGame'
  BY <1>3, <1>4 DEF BeforeGame
<1>8. ASSUME NEW e \in Events, e.fd # f
      PROVE  TellingEvent(e)'
  BY <1>4, <1>8 DEF TellingEvent
<1>9. ASSUME NEW g \in Untold'
      PROVE  \E e \in Events : e.fd = g /\ e.fd # f
  <2>1. g \in Untold /\ g # f
    BY <1>5
  <2>2. \E e \in Events : e.fd = g
    BY <1>1, <2>1 DEF Telling, Events
  <2> QED BY <2>1, <2>2
<1>10. /\ \A g \in Clients : conn'[g] = "STARTING_TO_PLAY"
       /\ view'[Host] = "STARTED" /\ inbox'[Host] = <<>> /\ interest'[Host] = "READ"
       /\ \A g \in Joiners : /\ view'[g] \in {"LOBBY", "STARTED"}
                             /\ interest'[g] = "WRITE" /\ inbox'[g] = <<>>
       /\ Joiners # {}
  BY <1>3, <1>4, SetTyped DEF Telling
<1>11. CASE waiting' = 0
  <2>1. batch' = [batch EXCEPT ![1].data = "start"]
    BY <1>3, <1>11 DEF ContinueWith
  <2>2. /\ batch' # <<>> /\ Head(batch') = [Head(batch) EXCEPT !.data = "start"]
        /\ Events' = {e \in Events : e.fd # f} \union {Head(batch')}
    BY <1>1, <2>1, HeadChanges DEF All, Shape
  <2>3. TellingEvent(Head(batch))'
    <3>1. Head(batch') = [Head(batch) EXCEPT !.data = "start"] /\ Head(batch) \in EventRecords
      BY <1>1, <2>2
    <3>2. Head(batch').fd = f /\ Head(batch').data = "start" /\ ~Head(batch').hup
      BY <1>1, <3>1 DEF TellingEvent, EventRecords
    <3> QED BY <3>2 DEF TellingEvent
  <2>4. \A e \in Events' : TellingEvent(e)'
    BY <1>8, <2>2, <2>3
  <2>5. \A g \in Untold' : \E e \in Events' : e.fd = g
    BY <1>9, <2>2
  <2> QED BY <1>6, <1>7, <1>10, <2>2, <2>4, <2>5 DEF Telling
<1>12. CASE waiting' # 0
  <2>1. batch' = Tail(batch)
    BY <1>1, <1>3, <1>12 DEF Return, NextEvent, Telling
  <2>2. Events' = {e \in Events : e.fd # f}
    BY <1>1, <2>1, TailEvents DEF All, Shape
  <2>3. \A g \in Untold' : \E e \in Events' : e.fd = g
    BY <1>9, <2>2
  <2>4. Untold' # {}
    BY <1>6, <1>12, FS_EmptySet
  <2>5. batch' # <<>>
    BY <2>3, <2>4, NoEvents
  <2>6. \A e \in Events' : TellingEvent(e)'
    BY <1>8, <2>2
  <2> QED BY <1>6, <1>7, <1>10, <2>3, <2>5, <2>6 DEF Telling
<1> QED BY <1>11, <1>12

(***************************************************************************)
(* By then everybody has been told, has an entry that is registered, and   *)
(* can be written to.                                                      *)
(***************************************************************************)
LEMMA GameStarts ==
  ASSUME All, state = "STARTING", NEW f \in Joiners, StartGame(f)
  PROVE  state' = "PLAYING" /\ Playing'
<1> USE TellFacts
<1>1. batch # <<>> /\ Head(batch) \in Events /\ Head(batch).data = "start" /\ f \in Clients
  BY DEF StartGame
<1>2. Untold = {}
  <2>1. waiting = 0
    BY <1>1 DEF All, Once, EventUsed
  <2>2. IsFiniteSet(Untold) /\ Cardinality(Untold) = 0
    BY <2>1, RoomAssumption, FS_Subset DEF Untold, Telling
  <2> QED BY <2>2, FS_EmptySet
<1>3. \A g \in Clients : view[g] = "STARTED" /\ peer[g] = "open" /\ interest[g] \in {"READ", "WRITE"}
  BY <1>2 DEF Telling, Untold, BeforeGame, Clients
<1>4. Entries = Clients
  BY DEF Entries, Telling, BeforeGame, Fds
<1>5. \A g \in Entries : Registered(g) /\ CanWrite(g)
  BY <1>3, <1>4 DEF Registered, CanWrite, BeforeGame
<1>6. /\ state' = "PLAYING" /\ alive' = players \ {Host} /\ conn' = conn
      /\ interest' = [g \in Watchable |-> IF g \in Entries \union {TimerFd}
                                          THEN "READ" ELSE interest[g]]
      /\ Send(Entries, "INFO") /\ batch' = Tail(batch) /\ UNCHANGED <<running, handler>>
  BY <1>5 DEF StartGame, NextEvent
<1>7. Events' = {}
  <2>1. Events' = {e \in Events : e.fd # Head(batch).fd}
    BY <1>1, <1>6, TailEvents DEF All, Shape
  <2>2. \A e \in Events : e.data = "start"
    BY <1>2 DEF TellingEvent, Untold
  <2>3. \A e \in Events : e = Head(batch)
    BY <2>2 DEF All, Once, EventUsed
  <2> QED BY <2>1, <2>3
<1>8. batch' = <<>>
  <2>1. Batched'
    BY <1>1, <1>6, TailEvents DEF All, Shape
  <2>2. batch' # <<>> => batch'[1] \in Events'
    BY <2>1 DEF Batched, Events
  <2> QED BY <1>7, <2>2
<1>9. \A g \in Clients : view'[g] = "PLAYING"
  BY <1>3, <1>4, <1>6 DEF Send, After
<1>10. /\ \A g \in Clients : interest'[g] = "READ"
       /\ interest'[TimerFd] = "READ"
  BY <1>4, <1>6, SetTyped DEF Watchable
<1>11. alive' \subseteq Entries' /\ running' /\ conn'[Junk] = "NONE"
  BY <1>4, <1>6, RoomAssumption DEF BeforeGame, Entries
<1> QED BY <1>6, <1>7, <1>8, <1>9, <1>10, <1>11 DEF Playing

LEMMA NextTells ==
  ASSUME Regime, All, state = "STARTING", [Next]_vars
  PROVE  \/ state' = "STARTING" /\ BeforeGame' /\ Telling'
         \/ state' = "PLAYING" /\ Playing'
<1>1. ASSUME UNCHANGED vars
      PROVE  BeforeGame' /\ Telling'
  <2>1. UNCHANGED <<conn, running, batch, inbox, interest, closed, players, waiting, peer, view>>
    BY <1>1 DEF vars, entries, kernel, clients
  <2>2. Untold' = Untold /\ Events' = Events
    BY <2>1 DEF Untold, Events
  <2> QED BY <2>1, <2>2, TellFacts DEF BeforeGame, Telling, TellingEvent
<1>2. ASSUME (\E f \in Joiners : SendStart(f)) \/ Wait \/ UNCHANGED vars
      PROVE  state' = "STARTING"
  BY <1>2 DEF SendStart, Wait, vars
<1> QED BY <1>1, <1>2, TellSteps, WaitTells, StartTells, GameStarts

-----------------------------------------------------------------------------
(* The game.                                                               *)

LEMMA PlayFacts ==
  ASSUME All, state = "PLAYING"
  PROVE  /\ Playing
         /\ batch # <<>> => handler = "ManageGame" /\ running
         /\ conn \in [Fds -> PlayerStates \union {"NONE"}]
         /\ interest \in [Watchable -> {"NONE", "READ", "WRITE"}]
         /\ view \in [Clients -> Views]
         /\ TimerFd \in Watchable \ Clients
<1>1. Playing
  BY DEF All, Orderly
<1>2. batch # <<>> => handler = "ManageGame" /\ running
  BY <1>1 DEF Playing, All, Shape, Typed, Once, Stopped
<1>3. TimerFd \in Watchable \ Clients
  BY RoomAssumption DEF Watchable
<1> QED BY <1>1, <1>2, <1>3 DEF All, Shape, Typed

\* The batch in which the game was set up has been handled, and the clients have said it all
LEMMA PlaySteps ==
  ASSUME All, state = "PLAYING", [Next]_vars
  PROVE  \/ ManageGame \/ Wait \/ TimerExpires \/ UNCHANGED vars
         \/ \E f \in Clients : Command(f) \/ Leave(f) \/ Reset(f)
<1> USE PlayFacts
<1>1. ~ManageEvents
  <2>1. ASSUME NEW f \in Clients,
               HangUp(f) \/ ReadLoginSize(f) \/ ReadLogin(f) \/ SendList(f) \/ SendStart(f)
               \/ StartGame(f) \/ PlayerExit(f)
        PROVE  FALSE
    BY <2>1 DEF HangUp, ReadLoginSize, ReadLogin, SendList, SendStart, StartGame, PlayerExit,
       Goes, Handling
  <2>2. ~ManageHost /\ ~Receive /\ ~Freed
    BY DEF ManageHost, Receive, Freed, Goes, Handling
  <2> QED BY <2>1, <2>2, SetTyped DEF ManageEvents
<1>2. ASSUME NEW f \in Joiners, Join(f)
      PROVE  FALSE
  BY <1>2, SetTyped DEF Join, Playing
<1>3. ASSUME NEW f \in Clients, SendLogin(f)
      PROVE  FALSE
  BY <1>3 DEF SendLogin, Playing
<1>4. ~HostReads /\ ~HostStart
  BY SetTyped DEF HostReads, HostStart, Playing
<1> QED BY <1>1, <1>2, <1>3, <1>4 DEF Next, Run, Environment

LEMMA ExitPlays ==
  ASSUME All, state = "PLAYING", Exit, \A f \in Clients : view'[f] = "PLAYING"
  PROVE  Playing'
<1> USE PlayFacts
<1>1. /\ batch' = <<>> /\ running' = FALSE
      /\ conn' = [f \in Fds |-> "NONE"]
      /\ interest' = [f \in Watchable |-> "NONE"]
  BY DEF Exit
<1>2. Events' = {} /\ conn'[Junk] = "NONE" /\ interest'[TimerFd] = "NONE"
  BY <1>1, NoEvents DEF Fds
<1>3. \A f \in Clients : conn'[f] = "NONE"
  BY <1>1, SetTyped
<1> QED BY <1>1, <1>2, <1>3 DEF Playing

\* The rest of the batch, and what of it a handler drops
LEMMA RestPlays ==
  ASSUME All, state = "PLAYING", batch # <<>>, batch' = Tail(batch) \/ batch' = <<>>,
         UNCHANGED <<running, handler>>
  PROVE  (\A e \in Events' : e.data = "ok") /\ handler' = "ManageGame" /\ running'
<1>1. Events' \subseteq Events
  BY TailEvents, NoEvents DEF All, Shape
<1> QED BY <1>1, PlayFacts DEF Playing

LEMMA ClosePlays ==
  ASSUME All, state = "PLAYING", NEW f \in Joiners, batch # <<>>,
         CloseConnection(f), NextEvent, alive' = alive \ {f}, UNCHANGED view
  PROVE  Playing'
<1> USE PlayFacts
<1>1. /\ conn' = [conn EXCEPT ![f] = "NONE"]
      /\ interest' = [interest EXCEPT ![f] = "NONE"]
      /\ batch' = Tail(batch) /\ UNCHANGED <<running, handler>>
  BY DEF CloseConnection, NextEvent
<1>2. /\ \A g \in Fds : conn'[g] = IF g = f THEN "NONE" ELSE conn[g]
      /\ \A g \in Clients : interest'[g] = IF g = f THEN "NONE" ELSE interest[g]
      /\ interest'[TimerFd] = interest[TimerFd]
  BY <1>1, SetTyped
<1>3. (\A e \in Events' : e.data = "ok") /\ handler' = "ManageGame" /\ running'
  BY <1>1, RestPlays
<1>4. conn'[Junk] = "NONE" /\ \A g \in Clients : conn'[g] # "NONE" => interest'[g] = "READ"
  BY <1>2, SetTyped DEF Playing, Fds
<1>5. alive' \subseteq Entries'
  BY <1>2, <1>3, PlayFacts DEF Playing, Entries
<1> QED BY <1>1, <1>2, <1>3, <1>4, <1>5 DEF Playing

LEMMA GamePlays ==
  ASSUME All, state = "PLAYING", ManageGame
  PROVE  Playing'
<1> USE PlayFacts
<1>1. ASSUME NEW f \in Clients, GameHangUp(f)
      PROVE  Playing'
  <2>1. batch # <<>> /\ UNCHANGED view
    BY <1>1 DEF GameHangUp, Handling, clients
  <2>2. CASE f = Host
    BY <1>1, <2>1, <2>2, ExitPlays DEF GameHangUp, Playing
  <2>3. CASE f # Host
    <3>1. f \in Joiners
      BY <2>3 DEF Clients
    <3> QED BY <1>1, <2>1, <2>3, <3>1, ClosePlays DEF GameHangUp
  <2> QED BY <2>2, <2>3
<1>2. ASSUME NEW f \in Joiners, ManagePlayerEvent(f)
      PROVE  Playing'
  <2>1. batch # <<>> /\ UNCHANGED view /\ NextEvent
    BY <1>2 DEF ManagePlayerEvent, Goes, Handling, clients
  <2>2. CASE inbox[f] # <<>>
    <3>1. alive' \subseteq alive /\ UNCHANGED <<conn, interest>>
      BY <1>2, <2>2 DEF ManagePlayerEvent
    <3>2. (\A e \in Events' : e.data = "ok") /\ handler' = "ManageGame" /\ running'
      BY <2>1, RestPlays DEF NextEvent
    <3>3. UNCHANGED running
      BY <2>1 DEF NextEvent
    <3> QED BY <2>1, <3>1, <3>2, <3>3 DEF Playing, Entries
  <2>3. CASE inbox[f] = <<>>
    BY <1>2, <2>1, <2>3, ClosePlays DEF ManagePlayerEvent
  <2> QED BY <2>2, <2>3
<1>3. ASSUME IgnoreHost
      PROVE  Playing'
  <2>1. batch # <<>> /\ NextEvent /\ UNCHANGED <<conn, interest, view, alive>>
    BY <1>3 DEF IgnoreHost, Goes, Handling, entries, game, clients
  <2>2. (\A e \in Events' : e.data = "ok") /\ handler' = "ManageGame" /\ UNCHANGED running
    BY <2>1, RestPlays DEF NextEvent
  <2> QED BY <2>1, <2>2 DEF Playing, Entries
<1>4. ASSUME ApplyGameChanges
      PROVE  Playing'
  <2>1. batch # <<>> /\ alive' \subseteq alive
    BY <1>4 DEF ApplyGameChanges, Handling
  <2>2. PICK to : Send(to, "INFO")
    BY <1>4 DEF ApplyGameChanges
  <2>3. \A g \in Clients : view'[g] = "PLAYING"
    BY <2>2 DEF Send, After, Playing
  <2>4. CASE Exit
    BY <2>3, <2>4, ExitPlays
  <2>5. CASE ~Exit
    <3>1. /\ batch' = Tail(batch) \/ batch' = <<>>
          /\ UNCHANGED <<conn, interest, running, handler>>
      BY <1>4, <2>5 DEF ApplyGameChanges, NextEvent, DropBatch
    <3>2. (\A e \in Events' : e.data = "ok") /\ handler' = "ManageGame"
      BY <2>1, <3>1, RestPlays
    <3> QED BY <2>1, <2>3, <3>1, <3>2 DEF Playing, Entries
  <2> QED BY <2>4, <2>5
<1> QED BY <1>1, <1>2, <1>3, <1>4 DEF ManageGame

LEMMA NextPlays ==
  ASSUME All, state = "PLAYING", [Next]_vars
  PROVE  state' = "PLAYING" /\ Playing'
<1> USE PlayFacts
<1>1. state' = "PLAYING"
  BY PlaySteps DEF ManageGame, GameHangUp, ManagePlayerEvent, IgnoreHost, ApplyGameChanges, Wait,
     TimerExpires, Command, Leave, Reset, room, vars
<1>2. ASSUME Wait
      PROVE  Playing'
  <2>1. \A e \in Events' : e.data = "ok"
    BY <1>2, WaitBatched
  <2>2. handler' = "ManageGame" /\ UNCHANGED <<conn, interest, view, alive, running>>
    BY <1>2 DEF Wait, entries, game, clients
  <2> QED BY <2>1, <2>2 DEF Playing, Entries
<1>3. ASSUME \/ TimerExpires \/ UNCHANGED vars
             \/ \E f \in Clients : Command(f) \/ Leave(f) \/ Reset(f)
      PROVE  Playing'
  <2>1. UNCHANGED <<conn, interest, view, alive, running, batch, handler>>
    BY <1>3 DEF TimerExpires, Command, Leave, Reset, room, entries, game, clients, vars
  <2>2. Events' = Events
    BY <2>1 DEF Events
  <2> QED BY <2>1, <2>2 DEF Playing, Entries
<1> QED BY <1>1, <1>2, <1>3, PlaySteps, GamePlays

-----------------------------------------------------------------------------
(* All of it.                                                              *)

LEMMA InitOrderly == Init => Orderly
<1> SUFFICES ASSUME Init
             PROVE  BeforeGame /\ Gathering
  BY DEF Init, Orderly
<1>1. /\ \A f \in Clients : /\ conn[f] = IF f = Host THEN "ASKING_LOGIN_SIZE" ELSE "NONE"
                            /\ view[f] = IF f = Host THEN "SIZED" ELSE "OUT"
                            /\ peer[f] = "open"
      /\ conn[Junk] = "NONE"
      /\ interest[Host] = "WRITE" /\ inbox[Host] = <<"SIZE">> /\ list[Host] = {}
  BY SetTyped, RoomAssumption DEF Init, Fds
<1>2. running /\ closed = {} /\ players = {} /\ waiting = 0 /\ shown = {} /\ pipe = <<>>
  BY DEF Init
<1>3. Events = {} /\ InPipe = {}
  BY DEF Init, Events, InPipe
<1>4. BeforeGame
  BY <1>1, <1>2 DEF BeforeGame
<1>5. \A f \in Clients : Arrives(f)
  BY <1>1, <1>2, <1>3 DEF Arrives
<1>6. waiting = Cardinality({f \in Joiners : conn[f] # "NONE"})
  <2>1. {f \in Joiners : conn[f] # "NONE"} = {}
    BY <1>1, SetTyped, RoomAssumption
  <2> QED BY <1>2, <2>1, FS_EmptySet
<1>7. AllThere
  BY <1>1, SetTyped DEF AllThere
<1> QED BY <1>1, <1>2, <1>3, <1>4, <1>5, <1>6, <1>7 DEF Gathering

LEMMA NextOrderly ==
  ASSUME Regime, All, [Next]_vars
  PROVE  Orderly'
<1>1. CASE state = "WAITING"
  BY <1>1, NextGathers, HostTells DEF Orderly
<1>2. CASE state = "STARTING"
  BY <1>2, NextTells DEF Orderly
<1>3. CASE state = "PLAYING"
  BY <1>3, NextPlays DEF Orderly
<1> QED BY <1>1, <1>2, <1>3 DEF All, Shape, Typed

LEMMA AlwaysOrderly ==
  ASSUME Regime
  PROVE  Spec => []All
<1>1. KeyHarmless
  BY DEF Regime
<1>2. Shape /\ Watched /\ Once /\ Orderly /\ [Next]_vars => Orderly'
  BY NextOrderly DEF All
<1>3. Init => Orderly
  BY InitOrderly
<1>4. Spec => [](Shape /\ Watched /\ Once)
  BY <1>1, AlwaysShape, AlwaysWatched, AlwaysOnce, PTL
<1>5. Spec => []Orderly
  BY <1>2, <1>3, <1>4, PTL DEF Spec
<1>6. Shape /\ Watched /\ Once /\ Orderly => All
  BY DEF All
<1> QED BY <1>4, <1>5, <1>6, PTL

(***************************************************************************)
(* The messages of SendList, SendStart and StartGame, put together in      *)
(* ManagePlayer's falling through, reach every client in the order its     *)
(* program reads them in, whatever order the room's batches come in.       *)
(***************************************************************************)
THEOREM MessagesInOrder ==
  ASSUME Regime
  PROVE  Spec => []ProtocolKept
<1>1. All => ProtocolKept
  <2> SUFFICES ASSUME All
               PROVE  ProtocolKept
    OBVIOUS
  <2>1. CASE state = "WAITING"
    BY <2>1, LobbyFacts, SetTyped DEF Gathering, Arrives, ProtocolKept, PlayerStates
  <2>2. CASE state = "STARTING"
    BY <2>2, TellFacts DEF Telling, ProtocolKept, Clients
  <2>3. CASE state = "PLAYING"
    BY <2>3, PlayFacts DEF Playing, ProtocolKept
  <2> QED BY <2>1, <2>2, <2>3 DEF All, Shape, Typed
<1> QED BY <1>1, AlwaysOrderly, PTL

(***************************************************************************)
(* waiting_persons_, incremented when a descriptor is handed over and      *)
(* decremented when START_GAME is written, is in between the number of     *)
(* those still to be told, who are all registered for writing.             *)
(***************************************************************************)
THEOREM CountsTheUntold ==
  ASSUME Regime
  PROVE  Spec => []WaitingCounts
<1>1. All => WaitingCounts
  BY TellFacts DEF Telling, Untold, WaitingCounts
<1> QED BY <1>1, AlwaysOrderly, PTL

(***************************************************************************)
(* UpdatePlayerList reaches whoever was up to date before a login; who     *)
(* logs in or is handed over while a list is on its way makes no list out  *)
(* of date that nobody will replace.                                       *)
(***************************************************************************)
THEOREM ListsUpToDate ==
  ASSUME Regime
  PROVE  Spec => []ListsCurrent
<1>1. All => ListsCurrent
  BY LobbyFacts DEF Gathering, Arrives, Named, ListsCurrent
<1> QED BY <1>1, AlwaysOrderly, PTL

(***************************************************************************)
(* StartGame gets to the end: nothing it changes the registration of is    *)
(* unregistered, and nobody it writes to is gone, so it sets the timer.    *)
(***************************************************************************)
THEOREM TimerSet ==
  ASSUME Regime
  PROVE  Spec => []GameRuns
<1>1. All => GameRuns
  BY PlayFacts DEF Playing, GameRuns
<1> QED BY <1>1, AlwaysOrderly, PTL

(***************************************************************************)
(* While the game runs every living player has an entry, so that the room  *)
(* hears of its end, and every entry is listened to and was sent the map,  *)
(* whoever leaves, in whatever way.                                        *)
(***************************************************************************)
THEOREM EverybodyIn ==
  ASSUME Regime
  PROVE  Spec => []GameComplete
<1>1. All => GameComplete
  <2> SUFFICES ASSUME All, interest[TimerFd] # "NONE"
               PROVE  /\ alive \subseteq Entries
                      /\ \A f \in Entries : interest[f] = "READ" /\ view[f] = "PLAYING"
    BY DEF GameComplete
  <2>1. state = "PLAYING"
    BY DEF All, Once, GameHandled
  <2>2. \A f \in Entries : f \in Clients /\ conn[f] # "NONE"
    BY <2>1, PlayFacts DEF Playing, Entries, Fds
  <2> QED BY <2>1, <2>2, PlayFacts DEF Playing
<1> QED BY <1>1, AlwaysOrderly, PTL
=============================================================================
