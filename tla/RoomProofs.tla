------------------------------ MODULE RoomProofs ------------------------------
(***************************************************************************)
(* Proofs about Room, for any number of joiners.  The inductive invariant  *)
(* has three layers, each proved from the ones before it:                  *)
(*                                                                         *)
(* Shape    types, the events of a batch, how far a login has been read;   *)
(* Watched  connections_, players_, the registration with epoll and the    *)
(*          events of the batch agree;                                     *)
(* Once     what waiting_persons_ counts, so that the game starts once.    *)
(*                                                                         *)
(* The first two hold whatever the uninitialised key_state of the creator  *)
(* is, the third needs it not to be STARTING_TO_PLAY.                      *)
(***************************************************************************)
EXTENDS Room, FiniteSetTheorems, SequenceTheorems, TLAPS

-----------------------------------------------------------------------------
(* The batch.                                                              *)

EventRecords == [fd : Watchable, in : BOOLEAN, hup : BOOLEAN, data : {"ok", "freed", "start"}]

\* The events of the batch that are left
Events == {batch[i] : i \in DOMAIN batch}

\* What TypeOK says of the batch
Batched ==
  /\ batch \in Seq(EventRecords)
  /\ \A i, k \in DOMAIN batch : batch[i].fd = batch[k].fd => i = k

LEMMA WaitBatched ==
  ASSUME Wait, interest \in [Watchable -> {"NONE", "READ", "WRITE"}]
  PROVE  /\ Batched'
         /\ \A e \in Events' : /\ e.data = "ok"
                               /\ interest[e.fd] # "NONE"
<1>1. IsFiniteSet(Watchable)
  <2>1. IsFiniteSet({Host}) /\ IsFiniteSet({ServerFd}) /\ IsFiniteSet({TimerFd})
    BY FS_Singleton
  <2>2. IsFiniteSet(Clients)
    BY <2>1, RoomAssumption, FS_Union DEF Clients
  <2>3. {ServerFd, TimerFd} = {ServerFd} \union {TimerFd}
    OBVIOUS
  <2> QED
    BY <2>1, <2>2, <2>3, FS_Union DEF Watchable
<1> DEFINE S == {f \in Watchable : HasEvents(f)}
<1>2. IsFiniteSet(S) /\ Cardinality(S) \in Nat
  BY <1>1, FS_Subset, FS_CardinalityType
<1>3. PICK order \in SetToSeqs(S) : batch' = [i \in DOMAIN order |-> Event(order[i])]
  BY DEF Wait
<1>4. /\ order \in [1 .. Cardinality(S) -> S]
      /\ \A i, k \in 1 .. Cardinality(S) : i # k => order[i] # order[k]
  BY <1>3 DEF SetToSeqs
<1>5. ASSUME NEW f \in S
      PROVE  Event(f) \in EventRecords /\ Event(f).fd = f /\ Event(f).data = "ok"
             /\ interest[f] # "NONE"
  BY RoomAssumption DEF HasEvents, Event, EventRecords, HungUp
<1> HIDE DEF S
<1>6. /\ DOMAIN batch' = 1 .. Cardinality(S)
      /\ \A i \in 1 .. Cardinality(S) : order[i] \in S /\ batch'[i] = Event(order[i])
  BY <1>2, <1>3, <1>4
<1>7. Batched'
  <2>1. batch' \in [1 .. Cardinality(S) -> EventRecords]
    BY <1>3, <1>4, <1>5, <1>6
  <2>2. batch' \in Seq(EventRecords)
    BY <2>1, <1>2
  <2> QED BY <2>2, <1>4, <1>5, <1>6 DEF Batched
<1> QED BY <1>5, <1>6, <1>7 DEF Events

LEMMA HeadEvent ==
  ASSUME Batched, batch # <<>>
  PROVE  /\ Head(batch) \in Events
         /\ Events \subseteq EventRecords
         /\ \A e \in Events : e.fd = Head(batch).fd => e = Head(batch)
BY DEF Batched, Events

LEMMA NoEvents ==
  ASSUME batch' = <<>>
  PROVE  Batched' /\ Events' = {}
BY DEF Batched, Events

LEMMA TailEvents ==
  ASSUME Batched, batch # <<>>, batch' = Tail(batch)
  PROVE  Batched' /\ Events' = {e \in Events : e.fd # Head(batch).fd}
<1>1. /\ batch' \in Seq(EventRecords)
      /\ Len(batch') = Len(batch) - 1
      /\ \A i \in 1 .. Len(batch) - 1 : batch'[i] = batch[i + 1]
  BY HeadTailProperties DEF Batched
<1>2. \A i \in 2 .. Len(batch) : batch[i] = batch'[i - 1] /\ batch[i].fd # Head(batch).fd
  BY <1>1 DEF Batched
<1>3. Batched'
  BY <1>1 DEF Batched
<1>4. Events' \subseteq {e \in Events : e.fd # Head(batch).fd}
  BY <1>1, <1>2 DEF Events, Batched
<1>5. ASSUME NEW e \in Events, e.fd # Head(batch).fd
      PROVE  e \in Events'
  <2>1. PICK i \in DOMAIN batch : e = batch[i]
    BY DEF Events
  <2>2. i \in 2 .. Len(batch)
    BY <1>5, <2>1 DEF Batched
  <2>3. i - 1 \in DOMAIN batch' /\ e = batch'[i - 1]
    BY <1>1, <1>2, <2>1, <2>2 DEF Batched
  <2> QED BY <2>3 DEF Events
<1> QED BY <1>3, <1>4, <1>5

LEMMA HeadChanges ==
  ASSUME Batched, batch # <<>>, NEW d \in {"ok", "freed", "start"},
         batch' = [batch EXCEPT ![1].data = d]
  PROVE  /\ Batched'
         /\ batch' # <<>>
         /\ Head(batch') = [Head(batch) EXCEPT !.data = d]
         /\ Events' = {e \in Events : e.fd # Head(batch).fd} \union {Head(batch')}
<1>1. /\ batch' \in Seq(EventRecords)
      /\ Len(batch') = Len(batch)
      /\ batch'[1] = [batch[1] EXCEPT !.data = d]
      /\ \A i \in 2 .. Len(batch) : batch'[i] = batch[i]
  <2>1. 1 \in 1 .. Len(batch) /\ batch[1] \in EventRecords
    BY DEF Batched
  <2>2. [batch[1] EXCEPT !.data = d] \in EventRecords
    BY <2>1 DEF EventRecords
  <2> QED BY <2>1, <2>2, ExceptSeq DEF Batched
<1>2. batch'[1].fd = batch[1].fd
  BY <1>1, HeadEvent DEF Batched, EventRecords
<1>3. Batched' /\ batch' # <<>> /\ Head(batch') = batch'[1]
  BY <1>1, <1>2 DEF Batched
<1>4. \A i \in DOMAIN batch : batch[i].fd = Head(batch).fd <=> i = 1
  BY DEF Batched
<1>5. \A e : e \in Events' <=> e = batch'[1] \/ \E i \in 2 .. Len(batch) : e = batch[i]
  BY <1>1 DEF Events, Batched
<1>6. \A e : (e \in Events /\ e.fd # Head(batch).fd) <=> \E i \in 2 .. Len(batch) : e = batch[i]
  BY <1>4 DEF Events, Batched
<1> QED BY <1>1, <1>3, <1>5, <1>6

\* The rest of TypeOK
Typed ==
  /\ state \in {"WAITING", "STARTING", "PLAYING"}
  /\ running \in BOOLEAN
  /\ conn \in [Fds -> PlayerStates \union {"NONE"}]
  /\ key \in [Fds -> PlayerStates]
  /\ players \subseteq Fds
  /\ waiting \in Int
  /\ alive \subseteq Fds \ {Host}
  /\ ended \in BOOLEAN
  /\ handler \in {"ManageEvents", "ManageGame"}
  /\ interest \in [Watchable -> {"NONE", "READ", "WRITE"}]
  /\ expired \in BOOLEAN
  /\ pipe \in Seq(Joiners)
  /\ peer \in [Clients -> {"open", "fin", "poked", "rst"}]
  /\ closed \subseteq Clients
  /\ view \in [Clients -> Views]
  /\ list \in [Clients -> SUBSET Fds]
  /\ shown \subseteq Fds
  /\ unread \in BOOLEAN

(***************************************************************************)
(* What a client sent, what of it was read, and how far the room takes it  *)
(* to be: a client in the lobby has nothing under way that a command could *)
(* be mixed up with.                                                       *)
(***************************************************************************)
LoginRead(f) ==
  /\ inbox[f] \in {<<>>, <<"SIZE", "LOGIN">>} \union {<<m>> : m \in Messages}
  /\ view[f] \in {"OUT", "JOINED"} =>
       inbox[f] = <<>> /\ conn[f] \in {"NONE", "ASKING_LOGIN_SIZE"}
  /\ view[f] = "SIZED" =>
       \/ inbox[f] = <<"SIZE">> /\ conn[f] \in {"NONE", "ASKING_LOGIN_SIZE"}
       \/ inbox[f] = <<>> /\ conn[f] \in {"NONE", "ASKING_LOGIN_SIZE", "ASKING_LOGIN"}
  /\ view[f] = "LOGIN" =>
       \/ inbox[f] = <<"SIZE", "LOGIN">> /\ conn[f] \in {"NONE", "ASKING_LOGIN_SIZE"}
       \/ inbox[f] = <<"LOGIN">> /\ conn[f] \in {"NONE", "ASKING_LOGIN_SIZE", "ASKING_LOGIN"}
       \/ inbox[f] = <<>>
  /\ view[f] = "LOBBY" => inbox[f] = <<>>

LoginsRead == inbox = [f \in Clients |-> inbox[f]] /\ \A f \in Clients : LoginRead(f)

\* An event of the socketpair means that there is a descriptor in it, until it is handled
PipeWaits ==
  /\ interest[ServerFd] # "WRITE"
  /\ \A e \in Events : e.fd = ServerFd => pipe # <<>>

Shape == Typed /\ Batched /\ LoginsRead /\ PipeWaits

LEMMA ShapeTypes == Shape => TypeOK
BY DEF Shape, Typed, Batched, LoginsRead, LoginRead, TypeOK, EventRecords

LEMMA InitShape == Init => Shape
<1> SUFFICES ASSUME Init
             PROVE  Shape
  OBVIOUS
<1>1. Typed
  <2>1. /\ conn \in [Fds -> PlayerStates \union {"NONE"}]
        /\ key \in [Fds -> PlayerStates]
        /\ interest \in [Watchable -> {"NONE", "READ", "WRITE"}]
    BY RoomAssumption DEF Init, PlayerStates
  <2>2. /\ peer \in [Clients -> {"open", "fin", "poked", "rst"}]
        /\ view \in [Clients -> Views]
        /\ list \in [Clients -> SUBSET Fds]
    BY DEF Init, Views
  <2>3. /\ state \in {"WAITING", "STARTING", "PLAYING"}
        /\ players \subseteq Fds /\ waiting \in Int /\ alive \subseteq Fds \ {Host}
        /\ handler \in {"ManageEvents", "ManageGame"}
        /\ pipe \in Seq(Joiners) /\ closed \subseteq Clients /\ shown \subseteq Fds
    BY DEF Init
  <2>4. {running, ended, expired, unread} \subseteq BOOLEAN
    BY Zenon DEF Init
  <2> QED BY <2>1, <2>2, <2>3, <2>4 DEF Typed
<1>2. Batched
  BY DEF Init, Batched
<1>3. LoginsRead
  BY RoomAssumption DEF Init, LoginsRead, LoginRead, Fds, Clients, Messages
<1>4. PipeWaits
  BY RoomAssumption DEF Init, PipeWaits, Events, Watchable, Clients
<1> QED BY <1>1, <1>2, <1>3, <1>4 DEF Shape

(***************************************************************************)
(* The batch stays a sequence of events of different descriptors.          *)
(***************************************************************************)
LEMMA HostEvents ==
  ASSUME Shape, ManageHost
  PROVE  /\ Batched'
         /\ Events' \subseteq
              {IF e.fd = ServerFd THEN [e EXCEPT !.data = "freed"] ELSE e :
                 e \in {d \in Events : d.fd # Host}}
<1>1. batch # <<>> /\ Head(batch).fd = Host
  BY DEF ManageHost, Goes, Handling
<1>2. CASE batch' = <<>>
  BY <1>2, NoEvents
<1>3. CASE batch' = [i \in 1 .. Len(batch) - 1 |->
                       IF batch[i + 1].fd = ServerFd
                       THEN [batch[i + 1] EXCEPT !.data = "freed"] ELSE batch[i + 1]]
  <2>1. Len(batch) \in Nat /\ Len(batch) > 0 /\ DOMAIN batch = 1 .. Len(batch)
    BY <1>1 DEF Shape, Batched
  <2>2. \A i \in 1 .. Len(batch) - 1 : /\ batch[i + 1] \in EventRecords
                                       /\ batch[i + 1] \in Events /\ batch[i + 1].fd # Host
    BY <1>1, <2>1 DEF Shape, Batched, Events
  <2>3. \A i \in 1 .. Len(batch) - 1 : batch'[i] \in EventRecords /\ batch'[i].fd = batch[i + 1].fd
    BY <1>3, <2>2 DEF EventRecords
  <2>4. batch' \in Seq(EventRecords) /\ DOMAIN batch' = 1 .. Len(batch) - 1
    BY <1>3, <2>1, <2>3
  <2>5. Batched'
    <3>1. ASSUME NEW i \in DOMAIN batch', NEW k \in DOMAIN batch', batch'[i].fd = batch'[k].fd
          PROVE  i = k
      <4>1. /\ i \in 1 .. Len(batch) - 1 /\ k \in 1 .. Len(batch) - 1
            /\ i + 1 \in DOMAIN batch /\ k + 1 \in DOMAIN batch
        BY <2>1, <2>4
      <4>2. batch[i + 1].fd = batch[k + 1].fd
        BY <2>3, <3>1, <4>1
      <4> QED BY <4>1, <4>2 DEF Shape, Batched
    <3> QED BY <2>4, <3>1 DEF Batched
  <2>6. ASSUME NEW i \in 1 .. Len(batch) - 1
        PROVE  batch'[i] \in {IF e.fd = ServerFd THEN [e EXCEPT !.data = "freed"] ELSE e :
                                e \in {d \in Events : d.fd # Host}}
    BY <1>3, <2>2, <2>4
  <2> QED BY <2>4, <2>5, <2>6 DEF Events
<1> QED BY <1>2, <1>3 DEF ManageHost, Exit

\* What every other step does to the batch
Handled == \/ UNCHANGED batch \/ batch' = <<>>
           \/ batch # <<>> /\ batch' = Tail(batch)
           \/ batch # <<>> /\ \E d \in {"ok", "freed", "start"} :
                                batch' = [batch EXCEPT ![1].data = d]

LEMMA StepHandled ==
  ASSUME [Next]_vars
  PROVE  Wait \/ ManageHost \/ Handled
<1>4. ASSUME NEW f \in Clients, SendStart(f)
      PROVE  Handled
  BY <1>4 DEF SendStart, Goes, Handling, ContinueWith, Return, NextEvent, Throw, Exit,
     DropBatch, Handled
<1>5. ASSUME NEW f \in Clients,
             HangUp(f) \/ ReadLoginSize(f) \/ ReadLogin(f) \/ SendList(f) \/ StartGame(f)
             \/ PlayerExit(f)
      PROVE  Handled
  BY <1>5 DEF HangUp, ReadLoginSize, ReadLogin, SendList, StartGame, PlayerExit, Goes, Handling,
      NextEvent, Continue, Throw, Exit, DropBatch, Handled
<1>6. ASSUME Receive \/ Freed
      PROVE  Handled
  BY <1>6 DEF Receive, Freed, AddPlayer, Handling, NextEvent, DropBatch, Handled
<1>7. ASSUME ManageGame
      PROVE  Handled
  BY <1>7 DEF ManageGame, GameHangUp, ManagePlayerEvent, IgnoreHost, ApplyGameChanges, Goes,
      Handling, NextEvent, Exit, DropBatch, Handled
<1>8. ASSUME Environment \/ UNCHANGED vars
      PROVE  Handled
  BY <1>8 DEF Environment, Join, SendLogin, Command, Leave, Reset, HostReads, HostStart,
      TimerExpires, room, vars, Handled
<1> QED
  BY <1>4, <1>5, <1>6, <1>7, <1>8 DEF Next, Run, ManageEvents, Clients

LEMMA HandledEvents ==
  ASSUME Shape, Handled
  PROVE  /\ Batched'
         /\ \A e \in Events' : \E d \in Events : d.fd = e.fd
<1>1. CASE UNCHANGED batch
  BY <1>1 DEF Shape, Batched, Events
<1>2. CASE batch' = <<>>
  BY <1>2, NoEvents
<1>3. CASE batch # <<>> /\ batch' = Tail(batch)
  BY <1>3, TailEvents DEF Shape
<1>4. ASSUME batch # <<>>, NEW d \in {"ok", "freed", "start"},
             batch' = [batch EXCEPT ![1].data = d]
      PROVE  Batched' /\ \A e \in Events' : \E x \in Events : x.fd = e.fd
  <2>1. Head(batch) \in Events /\ Head(batch) \in EventRecords
    BY <1>4, HeadEvent DEF Shape
  <2>2. Head(batch').fd = Head(batch).fd
    BY <1>4, <2>1, HeadChanges DEF Shape, EventRecords
  <2> QED BY <1>4, <2>1, <2>2, HeadChanges DEF Shape
<1> QED BY <1>1, <1>2, <1>3, <1>4 DEF Handled

LEMMA NextBatched ==
  ASSUME Shape, [Next]_vars
  PROVE  Batched'
BY StepHandled, HandledEvents, WaitBatched, HostEvents DEF Shape, Typed

(***************************************************************************)
(* What a handler does to the entries and to the registration is typed.    *)
(***************************************************************************)
ConnTyped == conn' \in [Fds -> PlayerStates \union {"NONE"}]

InterestTyped == interest' \in [Watchable -> {"NONE", "READ", "WRITE"}]

RoomTyped ==
  ConnTyped /\ InterestTyped /\ closed' \subseteq Clients /\ running' \in BOOLEAN /\ UNCHANGED handler

LEMMA SetTyped ==
  Clients \subseteq Fds /\ Clients \subseteq Watchable /\ Host \in Clients /\ Joiners \subseteq Clients
BY DEF Clients, Fds, Watchable

LEMMA ThrowTyped ==
  ASSUME Shape, NEW f \in Clients,
         NEW c \in [Fds -> PlayerStates \union {"NONE"}],
         NEW i \in [Watchable -> {"NONE", "READ", "WRITE"}],
         Throw(f, c, i)
  PROVE  /\ ConnTyped /\ InterestTyped
         /\ closed' \subseteq Clients
         /\ running' \in BOOLEAN /\ UNCHANGED handler
         /\ batch' = <<>>
         /\ \/ conn' = c
            \/ conn' = [g \in Fds |-> "NONE"]
BY SetTyped DEF Throw, Exit, DropBatch, Shape, Typed, ConnTyped, InterestTyped

LEMMA UpdateTyped ==
  ASSUME NEW c \in [Fds -> PlayerStates \union {"NONE"}],
         NEW i \in [Watchable -> {"NONE", "READ", "WRITE"}],
         UpdatePlayerList(c, i)
  PROVE  ConnTyped /\ InterestTyped
BY SetTyped DEF UpdatePlayerList, ConnTyped, InterestTyped, PlayerStates

LEMMA CloseTyped ==
  ASSUME Shape, NEW f \in Clients, CloseConnection(f) \/ Exit
  PROVE  /\ ConnTyped /\ InterestTyped /\ closed' \subseteq Clients
         /\ \A g \in Clients : conn'[g] \in {conn[g], "NONE"}
BY SetTyped DEF CloseConnection, Exit, Shape, Typed, ConnTyped, InterestTyped

LEMMA SendTyped ==
  ASSUME Shape, NEW to, NEW message, Send(to, message)
  PROVE  /\ view' \in [Clients -> Views]
         /\ peer' \in [Clients -> {"open", "fin", "poked", "rst"}]
BY DEF Send, After, Shape, Typed, Views

LEMMA RunTyped ==
  ASSUME Shape, NEW f \in Clients,
         HangUp(f) \/ ReadLoginSize(f) \/ ReadLogin(f) \/ SendList(f) \/ SendStart(f)
         \/ StartGame(f) \/ (PlayerExit(f) /\ f \in Joiners)
  PROVE  Typed'
<1> USE DEF Shape
<1>1. CASE HangUp(f)
  <2>1. ConnTyped /\ InterestTyped /\ closed' \subseteq Clients
    BY <1>1, CloseTyped DEF HangUp
  <2> QED BY <1>1, <2>1 DEF HangUp, NextEvent, Exit, Typed, ConnTyped, InterestTyped, RoomTyped,
     clients, game
<1>2. CASE ReadLoginSize(f)
  <2>1. [conn EXCEPT ![f] = "ASKING_LOGIN"] \in [Fds -> PlayerStates \union {"NONE"}]
    BY SetTyped DEF Typed, PlayerStates
  <2>2. RoomTyped
    BY <1>2, <2>1, ThrowTyped DEF ReadLoginSize, Continue, Typed, ConnTyped, InterestTyped, RoomTyped
  <2> QED BY <1>2, <2>2 DEF ReadLoginSize, Typed, ConnTyped, InterestTyped, RoomTyped, clients, game
<1>3. CASE ReadLogin(f)
  <2>1. /\ [conn EXCEPT ![f] = "WRITE_PLAYERS_NUM"] \in [Fds -> PlayerStates \union {"NONE"}]
        /\ [interest EXCEPT ![f] = "WRITE"] \in [Watchable -> {"NONE", "READ", "WRITE"}]
    BY SetTyped DEF Typed, PlayerStates
  <2>2. CASE inbox[f] # <<>>
    <3>1. ConnTyped /\ InterestTyped
      BY <1>3, <2>1, <2>2, UpdateTyped DEF ReadLogin
    <3>2. UNCHANGED <<closed, running, handler>> /\ players' \subseteq Fds
      BY <1>3, <2>2, SetTyped DEF ReadLogin, Continue, Typed
    <3> QED BY <1>3, <3>1, <3>2 DEF ReadLogin, Typed, ConnTyped, InterestTyped, RoomTyped, clients, game
  <2>3. CASE inbox[f] = <<>>
    <3>1. UNCHANGED players
      BY <1>3, <2>3 DEF ReadLogin
    <3>2. RoomTyped
      <4>1. CASE peer[f] = "open"
        BY <1>3, <2>3, <4>1 DEF ReadLogin, NextEvent, Typed, ConnTyped, InterestTyped, RoomTyped
      <4>2. CASE peer[f] # "open"
        <5>1. Throw(f, conn, interest)
          BY <1>3, <2>3, <4>2 DEF ReadLogin
        <5> QED BY <5>1, ThrowTyped DEF Typed, RoomTyped
      <4> QED BY <4>1, <4>2
    <3> QED BY <1>3, <3>1, <3>2
            DEF ReadLogin, Typed, ConnTyped, InterestTyped, RoomTyped, clients, game
  <2> QED BY <2>2, <2>3
<1>4. CASE SendList(f)
  <2>1. LookedUp \in [Fds -> PlayerStates \union {"NONE"}]
    BY DEF LookedUp, Typed, PlayerStates
  <2>2. \A s \in PlayerStates : [LookedUp EXCEPT ![f] = s] \in [Fds -> PlayerStates \union {"NONE"}]
    BY <2>1, SetTyped
  <2>3. \A s \in {"NONE", "READ"} : [interest EXCEPT ![f] = s] \in [Watchable -> {"NONE", "READ", "WRITE"}]
    BY SetTyped DEF Typed
  <2>4. RoomTyped
    <3>1. CASE CanWrite(f) /\ Starts(f)
      <4>1. /\ conn' = [LookedUp EXCEPT ![f] = "STARTING_TO_PLAY"]
            /\ interest' = [interest EXCEPT ![f] = "NONE"]
            /\ UNCHANGED <<closed, running, handler>>
        BY <1>4, <3>1 DEF SendList, Continue
      <4> QED BY <2>2, <2>3, <4>1 DEF Typed, ConnTyped, InterestTyped, RoomTyped, PlayerStates
    <3>2. CASE CanWrite(f) /\ ~Starts(f)
      <4>1. /\ conn' = [LookedUp EXCEPT ![f] = "READY_TO_PLAY"]
            /\ interest' = [interest EXCEPT ![f] = "READ"]
            /\ UNCHANGED <<closed, running, handler>>
        BY <1>4, <3>2 DEF SendList, NextEvent
      <4> QED BY <2>2, <2>3, <4>1 DEF Typed, ConnTyped, InterestTyped, RoomTyped, PlayerStates
    <3>3. CASE ~CanWrite(f)
      <4>1. Throw(f, [LookedUp EXCEPT ![f] = "WRITE_PLAYERS"], interest)
        BY <1>4, <3>3 DEF SendList
      <4>2. [LookedUp EXCEPT ![f] = "WRITE_PLAYERS"] \in [Fds -> PlayerStates \union {"NONE"}]
        BY <2>2 DEF PlayerStates
      <4> QED BY <4>1, <4>2, ThrowTyped DEF Typed, RoomTyped
    <3> QED BY <3>1, <3>2, <3>3
  <2>5. /\ view' \in [Clients -> Views]
        /\ peer' \in [Clients -> {"open", "fin", "poked", "rst"}]
    BY <1>4, SendTyped DEF SendList, Typed
  <2>6. list' \in [Clients -> SUBSET Fds]
    <3>1. {Host} \union {p \in players : LoggedIn(p)} \subseteq Fds
      BY SetTyped DEF Typed
    <3> QED BY <1>4, <3>1 DEF SendList, Typed
  <2>7. unread' \in BOOLEAN
    BY <1>4, Zenon DEF SendList, Typed
  <2> QED BY <1>4, <2>4, <2>5, <2>6, <2>7 DEF SendList, Typed, ConnTyped, InterestTyped, RoomTyped, game
<1>5. CASE SendStart(f)
  <2>4. RoomTyped
        /\ waiting' \in Int
    BY <1>5, ThrowTyped DEF SendStart, ContinueWith, Return, NextEvent, Typed, ConnTyped,
       InterestTyped, RoomTyped
  <2>5. /\ view' \in [Clients -> Views]
        /\ peer' \in [Clients -> {"open", "fin", "poked", "rst"}]
    BY <1>5, SendTyped DEF SendStart, Typed
  <2> QED BY <1>5, <2>4, <2>5 DEF SendStart, Typed, ConnTyped, InterestTyped, RoomTyped, game
<1>6. CASE StartGame(f)
  <2>1. \A some : [g \in Watchable |-> IF g \in some THEN "READ" ELSE interest[g]]
                     \in [Watchable -> {"NONE", "READ", "WRITE"}]
    BY DEF Typed
  <2>4. RoomTyped
    BY <1>6, <2>1, ThrowTyped DEF StartGame, NextEvent, Typed, ConnTyped, InterestTyped, RoomTyped
  <2>5. /\ view' \in [Clients -> Views]
        /\ peer' \in [Clients -> {"open", "fin", "poked", "rst"}]
    BY <1>6, SendTyped DEF StartGame, Typed
  <2> QED BY <1>6, <2>4, <2>5 DEF StartGame, Typed, ConnTyped, InterestTyped, RoomTyped
<1>7. CASE PlayerExit(f)
  <2>1. /\ \A g \in {f, Junk} : [conn EXCEPT ![f] = "NONE", ![g] = "ASKING_LOGIN_SIZE"]
                                  \in [Fds -> PlayerStates \union {"NONE"}]
        /\ [interest EXCEPT ![f] = "NONE"] \in [Watchable -> {"NONE", "READ", "WRITE"}]
    BY SetTyped DEF Typed, PlayerStates, Fds
  <2>2. ConnTyped /\ InterestTyped
    BY <1>7, <2>1, UpdateTyped DEF PlayerExit
  <2> QED BY <1>7, <2>2, SetTyped DEF PlayerExit, DropBatch, Typed, ConnTyped, InterestTyped, RoomTyped,
     clients, game
<1> QED BY <1>1, <1>2, <1>3, <1>4, <1>5, <1>6, <1>7

LEMMA HostTyped ==
  ASSUME Shape, ManageHost
  PROVE  Typed'
<1>1. CASE Exit
  <2>1. ConnTyped /\ InterestTyped /\ closed' \subseteq Clients
    BY <1>1, CloseTyped, SetTyped
  <2>2. running' \in BOOLEAN /\ UNCHANGED handler
    BY <1>1 DEF Exit
  <2>3. state' \in {"WAITING", "STARTING", "PLAYING"} /\ key' \in [Fds -> PlayerStates]
    <3>1. CASE inbox[Host] # <<>>
      BY <3>1 DEF ManageHost, Shape, Typed, PlayerStates
    <3>2. CASE inbox[Host] = <<>>
      BY <3>2 DEF ManageHost, Shape, Typed
    <3> QED BY <3>1, <3>2
  <2>4. UNCHANGED <<players, waiting, game, expired, pipe, peer, clients>>
    BY DEF ManageHost
  <2>5. Typed
    BY DEF Shape
  <2> QED BY <2>1, <2>2, <2>3, <2>4, <2>5 DEF Typed, ConnTyped, InterestTyped, clients, game
<1>2. CASE ~Exit
  BY <1>2 DEF ManageHost, Shape, Typed, clients, game, PlayerStates
<1> QED BY <1>1, <1>2

LEMMA AddTyped ==
  ASSUME Shape, NEW f \in Fds, AddPlayer(f)
  PROVE  /\ ConnTyped /\ InterestTyped
         /\ key' \in [Fds -> PlayerStates]
         /\ players' \subseteq Fds /\ waiting' \in Int
         /\ UNCHANGED <<running, handler>>
BY SetTyped
DEF AddPlayer, AddEvent, Counted, JoinerKey, NextEvent, DropBatch, Shape, Typed, ConnTyped,
    InterestTyped, PlayerStates

LEMMA JoinTyped ==
  ASSUME Shape, Receive \/ Freed
  PROVE  Typed'
<1>1. pipe # <<>> => Head(pipe) \in Fds /\ Tail(pipe) \in Seq(Joiners)
  BY SetTyped DEF Shape, Typed
<1>5. Head(batch).fd = ServerFd => pipe # <<>>
  BY HeadEvent DEF Receive, Handling, Freed, Shape, PipeWaits
<1>2. \A g \in (players \ {Host}) \union {Junk} : g \in Fds
  BY DEF Shape, Typed, Fds
<1>3. CASE Receive
  BY <1>1, <1>3, <1>5, AddTyped DEF Receive, Handling, Shape, Typed, ConnTyped,
     InterestTyped, game, clients
<1>4. CASE Freed
  <2>1. CASE \E g \in Fds : AddPlayer(g) /\ pipe' \in Seq(Joiners)
    BY <1>4, <2>1, AddTyped DEF Freed, Shape, Typed, ConnTyped, InterestTyped, game, clients
  <2>2. CASE NextEvent /\ UNCHANGED <<entries, interest, pipe>>
    BY <1>4, <2>2 DEF Freed, NextEvent, entries, Shape, Typed, game, clients
  <2> QED BY <1>1, <1>2, <1>4, <1>5, <2>1, <2>2 DEF Freed, Shape, Typed
<1> QED BY <1>3, <1>4

LEMMA GameTyped ==
  ASSUME Shape, ManageGame
  PROVE  Typed'
<1> USE DEF Shape
<1>1. ASSUME NEW f \in Clients, GameHangUp(f)
      PROVE  Typed'
  <2>1. ConnTyped /\ InterestTyped /\ closed' \subseteq Clients
    BY <1>1, CloseTyped DEF GameHangUp
  <2> QED BY <1>1, <2>1 DEF GameHangUp, NextEvent, Exit, Typed, ConnTyped, InterestTyped,
     clients
<1>2. ASSUME NEW f \in Joiners, ManagePlayerEvent(f)
      PROVE  Typed'
  <2>1. ConnTyped /\ InterestTyped /\ closed' \subseteq Clients
    BY <1>2, CloseTyped, SetTyped DEF ManagePlayerEvent, Typed, ConnTyped, InterestTyped
  <2>2. alive' \subseteq Fds \ {Host}
    BY <1>2 DEF ManagePlayerEvent, Typed
  <2> QED BY <1>2, <2>1, <2>2 DEF ManagePlayerEvent, NextEvent, Typed, ConnTyped,
     InterestTyped, clients
<1>3. CASE IgnoreHost
  BY <1>3 DEF IgnoreHost, NextEvent, Typed, entries, game, kernel, clients
<1>4. CASE ApplyGameChanges
  <2>1. ConnTyped /\ InterestTyped /\ closed' \subseteq Clients /\ UNCHANGED handler
    BY <1>4, CloseTyped, SetTyped DEF ApplyGameChanges, NextEvent, DropBatch, Exit, Typed,
       ConnTyped, InterestTyped
  <2>2. view' \in [Clients -> Views] /\ peer' \in [Clients -> {"open", "fin", "poked", "rst"}]
    BY <1>4, SendTyped DEF ApplyGameChanges, Typed
  <2>3. alive' \subseteq Fds \ {Host}
    BY <1>4 DEF ApplyGameChanges, Typed
  <2>4. {running', ended', expired'} \subseteq BOOLEAN
    BY <1>4 DEF ApplyGameChanges, NextEvent, DropBatch, Exit, Typed
  <2> QED BY <1>4, <2>1, <2>2, <2>3, <2>4 DEF ApplyGameChanges, Typed, ConnTyped, InterestTyped
<1> QED BY <1>1, <1>2, <1>3, <1>4 DEF ManageGame

LEMMA OutsideTyped ==
  ASSUME Shape, Environment \/ Wait \/ UNCHANGED vars
  PROVE  Typed'
<1> USE DEF Shape, room
<1>1. CASE UNCHANGED vars
  BY <1>1 DEF vars, entries, game, kernel, clients, Typed
<1>2. CASE Wait
  BY <1>2 DEF Wait, entries, game, kernel, clients, Typed
<1>3. ASSUME NEW f \in Joiners, Join(f)
      PROVE  Typed'
  BY <1>3, SetTyped DEF Join, Typed, Views, entries, game
<1>4. ASSUME NEW f \in Clients, SendLogin(f) \/ Command(f) \/ Leave(f) \/ Reset(f)
      PROVE  Typed'
  <2>1. CASE SendLogin(f)
    <3>1. UNCHANGED <<room, expired, pipe, peer, closed, list, shown, unread>>
      BY <2>1 DEF SendLogin
    <3>2. view' \in [Clients -> Views]
      BY <2>1 DEF SendLogin, Typed, Views
    <3> QED BY <3>1, <3>2 DEF Typed, entries, game
  <2>2. CASE Command(f)
    BY <2>2 DEF Command, Typed, entries, game, clients
  <2>3. CASE Leave(f) \/ Reset(f)
    BY <2>3 DEF Leave, Reset, Typed, entries, game, clients
  <2> QED BY <1>4, <2>1, <2>2, <2>3
<1>5. CASE HostReads
  <2>1. shown' \subseteq Fds /\ unread' \in BOOLEAN
    BY <1>5, SetTyped DEF HostReads, Typed
  <2> QED BY <1>5, <2>1 DEF HostReads, Typed, entries, game, kernel
<1>6. CASE HostStart
  BY <1>6, SetTyped DEF HostStart, Typed, Views, entries, game
<1>7. CASE TimerExpires
  BY <1>7 DEF TimerExpires, Typed, entries, game, clients
<1> QED BY <1>1, <1>2, <1>3, <1>4, <1>5, <1>6, <1>7 DEF Environment

(***************************************************************************)
(* A client keeps its place in the login unless it sends, is read, or gets *)
(* its first list.                                                         *)
(***************************************************************************)
Unread(g) ==
  /\ inbox'[g] = inbox[g]
  /\ view'[g] \in {view[g], "BROKEN", "STARTED", "PLAYING"}
  /\ \/ conn'[g] \in {conn[g], "NONE", "ASKING_LOGIN_SIZE"}
     \/ conn[g] \notin {"NONE", "ASKING_LOGIN_SIZE", "ASKING_LOGIN"}
     \/ view[g] \notin {"OUT", "JOINED", "SIZED", "LOGIN"}

LEMMA LoginKept ==
  ASSUME Shape, NEW g \in Clients, Unread(g)
  PROVE  LoginRead(g)'
BY DEF Shape, LoginsRead, LoginRead, Unread

LEMMA AllKept ==
  ASSUME Shape, inbox' = inbox, \A g \in Clients : Unread(g)
  PROVE  LoginsRead'
BY LoginKept DEF LoginsRead, Shape

LEMMA SendView ==
  ASSUME Shape, NEW to, NEW message \in {"UPDATE", "START", "INFO"}, Send(to, message)
  PROVE  \A g \in Clients : \/ view'[g] \in {view[g], "BROKEN", "STARTED", "PLAYING"}
                            \/ view[g] = "LOBBY" /\ view'[g] = "LOBBY"
BY DEF Send, After, Shape, Typed

LEMMA ThrowUnread ==
  ASSUME Shape, NEW f \in Clients, NEW c, NEW i, Throw(f, c, i),
         c \in {conn, LookedUp} \union {[LookedUp EXCEPT ![f] = "WRITE_PLAYERS"]}
  PROVE  \A g \in Clients : \/ conn'[g] \in {conn[g], "NONE", "ASKING_LOGIN_SIZE"}
                            \/ g = f /\ conn'[g] = c[g]
<1>1. ASSUME NEW g \in Clients
      PROVE  \/ c[g] \in {conn[g], "NONE", "ASKING_LOGIN_SIZE"}
             \/ g = f
  BY SetTyped DEF LookedUp, Shape, Typed
<1>2. conn' = c \/ conn' = [g \in Fds |-> "NONE"]
  BY DEF Throw, Exit
<1> QED BY <1>1, <1>2, SetTyped

LEMMA Tails ==
  /\ Tail(<<"SIZE", "LOGIN">>) = <<"LOGIN">>
  /\ \A m : Tail(<<m>>) = <<>>
OBVIOUS

LEMMA OneRead ==
  ASSUME NEW f, LoginRead(f), inbox[f] # <<>>
  PROVE  Tail(inbox[f]) \in {<<>>, <<"LOGIN">>}
<1>1. CASE inbox[f] = <<"SIZE", "LOGIN">>
  BY <1>1, Tails
<1>2. CASE inbox[f] # <<"SIZE", "LOGIN">>
  <2>1. PICK m \in Messages : inbox[f] = <<m>>
    BY <1>2 DEF LoginRead
  <2> QED BY <2>1, Tails
<1> QED BY <1>1, <1>2

LEMMA Appended ==
  ASSUME NEW m, NEW n
  PROVE  Append(<<m>>, n) = <<m, n>>
<1> DEFINE s == Append(<<m>>, n)
<1>1. <<m>> \in Seq({m, n}) /\ Len(<<m>>) = 1 /\ <<m>>[1] = m
  OBVIOUS
<1>2. s \in Seq({m, n}) /\ Len(s) = 2 /\ s[1] = m /\ s[2] = n
  BY <1>1, AppendProperties
<1> HIDE DEF s
<1>3. s = <<m, n>>
  BY <1>2
<1> QED BY <1>3 DEF s

LEMMA RunLogins ==
  ASSUME Shape, NEW f \in Clients,
         HangUp(f) \/ ReadLoginSize(f) \/ ReadLogin(f) \/ SendList(f) \/ SendStart(f)
         \/ StartGame(f) \/ (PlayerExit(f) /\ f \in Joiners)
  PROVE  LoginsRead'
<1>0. LoginRead(f) /\ inbox = [g \in Clients |-> inbox[g]]
  BY DEF Shape, LoginsRead
<1>1. CASE HangUp(f)
  BY <1>1, CloseTyped, AllKept DEF HangUp, Unread, clients
<1>2. CASE ReadLoginSize(f)
  <2>1. CASE inbox[f] = <<>>
    BY <1>2, <2>1, ThrowUnread, AllKept, ThrowTyped DEF ReadLoginSize, Unread, clients
  <2>2. CASE inbox[f] # <<>>
    <3>1. /\ inbox' = [inbox EXCEPT ![f] = Tail(@)]
          /\ conn' = [conn EXCEPT ![f] = "ASKING_LOGIN"] /\ conn[f] = "ASKING_LOGIN_SIZE"
          /\ UNCHANGED view
      BY <1>2, <2>2 DEF ReadLoginSize, ReadMessage, clients
    <3>2. LoginRead(f)'
      <4>1. inbox'[f] = Tail(inbox[f]) /\ view'[f] = view[f]
        BY <1>0, <3>1
      <4>2. conn'[f] = "ASKING_LOGIN"
        BY <3>1, SetTyped DEF Shape, Typed
      <4>3. inbox'[f] \in {<<>>, <<"LOGIN">>}
        BY <1>0, <2>2, <4>1, OneRead
      <4>4. /\ view[f] \notin {"OUT", "JOINED", "LOBBY"}
            /\ view[f] = "SIZED" => inbox'[f] = <<>>
        BY <1>0, <2>2, <3>1, <4>1, Tails DEF LoginRead
      <4> QED BY <4>1, <4>2, <4>3, <4>4, Tails DEF LoginRead, Messages
    <3>3. \A g \in Clients \ {f} : Unread(g)
      BY <3>1, <1>0, SetTyped DEF Unread, Shape, Typed
    <3>4. inbox' = [g \in Clients |-> inbox'[g]]
      BY <1>0, <3>1
    <3> QED BY <3>2, <3>3, <3>4, LoginKept DEF LoginsRead
  <2> QED BY <2>1, <2>2
<1>3. CASE ReadLogin(f)
  <2>1. CASE inbox[f] = <<>>
    BY <1>3, <2>1, ThrowUnread, AllKept DEF ReadLogin, Unread, clients
  <2>2. CASE inbox[f] # <<>>
    <3>1. /\ inbox' = [inbox EXCEPT ![f] = Tail(@)]
          /\ conn[f] = "ASKING_LOGIN" /\ conn'[f] = "WRITE_PLAYERS_NUM"
          /\ \A g \in Clients \ {f} : conn'[g] = conn[g] \/ conn[g] = "READY_TO_PLAY"
          /\ UNCHANGED view
      BY <1>3, <2>2, SetTyped DEF ReadLogin, ReadMessage, UpdatePlayerList, clients, Shape,
         Typed
    <3>2. LoginRead(f)'
      <4>1. inbox'[f] = Tail(inbox[f]) /\ view'[f] = view[f]
        BY <1>0, <3>1
      <4>2. inbox'[f] \in {<<>>} \union {<<m>> : m \in Messages}
        BY <1>0, <2>2, <4>1, Tails DEF LoginRead, Messages
      <4>3. view[f] \notin {"OUT", "JOINED", "SIZED", "LOBBY"}
        BY <1>0, <2>2, <3>1 DEF LoginRead
      <4>4. view[f] = "LOGIN" => inbox[f] = <<"LOGIN">>
        BY <1>0, <2>2, <3>1 DEF LoginRead
      <4> QED BY <4>1, <4>2, <4>3, <4>4, Tails DEF LoginRead
    <3>3. \A g \in Clients \ {f} : Unread(g)
      BY <3>1, <1>0, SetTyped DEF Unread, Shape, Typed
    <3>4. inbox' = [g \in Clients |-> inbox'[g]]
      BY <1>0, <3>1
    <3> QED BY <3>2, <3>3, <3>4, LoginKept DEF LoginsRead
  <2> QED BY <2>1, <2>2
<1>4. CASE SendList(f)
  <2>1. inbox' = inbox /\ conn[f] \in {"WRITE_PLAYERS_NUM", "WRITE_PLAYERS"}
    BY <1>4 DEF SendList
  <2>2. \A g \in Clients : \/ conn'[g] \in {conn[g], "NONE", "ASKING_LOGIN_SIZE"}
                           \/ g = f
    <3>1. CASE CanWrite(f)
      BY <1>4, <3>1, SetTyped DEF SendList, LookedUp, Shape, Typed
    <3>2. CASE ~CanWrite(f)
      BY <1>4, <3>2, ThrowUnread DEF SendList
    <3> QED BY <3>1, <3>2
  <2>3. \A g \in Clients \ {f} : view'[g] = view[g]
    BY <1>4 DEF SendList, Send, Shape, Typed
  <2>4. \A g \in Clients \ {f} : LoginRead(g)'
    BY <2>1, <2>2, <2>3, LoginKept DEF Unread
  <2>5. CASE view'[f] \in {view[f], "BROKEN", "STARTED", "PLAYING"}
    BY <2>1, <2>4, <2>5, LoginKept DEF Unread, LoginsRead, Shape
  <2>6. CASE view[f] = "LOGIN" /\ view'[f] = "LOBBY"
    <3>1. inbox[f] = <<>>
      BY <1>0, <2>1, <2>6 DEF LoginRead
    <3>2. LoginRead(f)'
      BY <2>1, <2>6, <3>1 DEF LoginRead
    <3> QED BY <2>1, <2>4, <3>2, <1>0 DEF LoginsRead
  <2>7. \/ view'[f] \in {view[f], "BROKEN", "STARTED", "PLAYING"}
        \/ view[f] = "LOGIN" /\ view'[f] = "LOBBY"
    BY <1>4 DEF SendList, Send, After, Shape, Typed
  <2> QED BY <2>5, <2>6, <2>7
<1>5. CASE SendStart(f)
  <2>1. inbox' = inbox /\ \A g \in Clients : view'[g] \in {view[g], "BROKEN", "STARTED", "PLAYING"}
    BY <1>5, SendView DEF SendStart
  <2>2. \A g \in Clients : conn'[g] \in {conn[g], "NONE", "ASKING_LOGIN_SIZE"}
    BY <1>5, ThrowUnread DEF SendStart
  <2> QED BY <2>1, <2>2, AllKept DEF Unread
<1>6. CASE StartGame(f)
  <2>1. inbox' = inbox /\ \A g \in Clients : view'[g] \in {view[g], "BROKEN", "STARTED", "PLAYING"}
    BY <1>6, SendView DEF StartGame
  <2>2. \A g \in Clients : conn'[g] \in {conn[g], "NONE", "ASKING_LOGIN_SIZE"}
    BY <1>6, ThrowUnread DEF StartGame
  <2> QED BY <2>1, <2>2, AllKept DEF Unread
<1>7. CASE PlayerExit(f) /\ f \in Joiners
  <2>1. inbox' = inbox /\ view' = view
    BY <1>7 DEF PlayerExit, clients
  <2>2. \A g \in Clients : \/ conn'[g] \in {conn[g], "NONE", "ASKING_LOGIN_SIZE"}
                           \/ conn[g] = "READY_TO_PLAY"
    BY <1>7, SetTyped, RoomAssumption DEF PlayerExit, UpdatePlayerList, Shape, Typed, Fds
  <2> QED BY <2>1, <2>2, AllKept DEF Unread
<1> QED BY <1>1, <1>2, <1>3, <1>4, <1>5, <1>6, <1>7

LEMMA OtherLogins ==
  ASSUME Shape, ManageHost \/ Receive \/ Freed \/ ManageGame
  PROVE  LoginsRead'
<1>0. inbox = [g \in Clients |-> inbox[g]] /\ \A g \in Clients : LoginRead(g)
  BY DEF Shape, LoginsRead
<1>1. CASE ManageHost
  <2>1. UNCHANGED view
    BY <1>1 DEF ManageHost, clients
  <2>2. CASE inbox[Host] = <<>>
    BY <1>1, <2>1, <2>2, CloseTyped, AllKept, SetTyped DEF ManageHost, Unread
  <2>3. CASE inbox[Host] # <<>>
    <3>1. /\ inbox' = [inbox EXCEPT ![Host] = Tail(@)]
          /\ conn[Host] = "READY_TO_PLAY"
          /\ \A g \in Clients : conn'[g] = conn[g] \/ conn[g] = "READY_TO_PLAY"
      BY <1>1, <2>3, SetTyped DEF ManageHost, ReadMessage
    <3>2. inbox'[Host] = Tail(inbox[Host])
      BY <1>0, <3>1, SetTyped
    <3>3. LoginRead(Host)'
      <4>1. inbox'[Host] \in {<<>>} \union {<<m>> : m \in Messages}
        BY <1>0, <2>3, <3>2, Tails, SetTyped DEF LoginRead, Messages
      <4>2. view[Host] \notin {"OUT", "JOINED", "SIZED", "LOGIN"}
        BY <1>0, <2>3, <3>1, SetTyped DEF LoginRead
      <4>3. view[Host] # "LOBBY"
        BY <1>0, <2>3, SetTyped DEF LoginRead
      <4> QED BY <2>1, <4>1, <4>2, <4>3 DEF LoginRead
    <3>4. \A g \in Clients \ {Host} : Unread(g)
      BY <2>1, <3>1, <1>0, SetTyped DEF Unread, Shape, Typed
    <3>5. inbox' = [g \in Clients |-> inbox'[g]]
      BY <1>0, <3>1
    <3> QED BY <3>3, <3>4, <3>5, LoginKept DEF LoginsRead
  <2> QED BY <2>2, <2>3
<1>2. CASE Receive \/ Freed
  <2>1. UNCHANGED <<inbox, view>>
    BY <1>2 DEF Receive, Freed, clients
  <2>2. \A g \in Clients : conn'[g] \in {conn[g], "ASKING_LOGIN_SIZE"}
    BY <1>2, SetTyped DEF Receive, Freed, AddPlayer, entries, Shape, Typed
  <2> QED BY <2>1, <2>2, AllKept DEF Unread
<1>3. CASE ManageGame
  <2>1. ASSUME NEW f \in Clients, GameHangUp(f)
        PROVE  LoginsRead'
    BY <2>1, CloseTyped, AllKept DEF GameHangUp, Unread, clients
  <2>2. ASSUME NEW f \in Joiners, ManagePlayerEvent(f)
        PROVE  LoginsRead'
    <3>1. CASE inbox[f] = <<>>
      BY <2>2, <3>1, CloseTyped, AllKept, SetTyped DEF ManagePlayerEvent, Unread, clients
    <3>2. CASE inbox[f] # <<>>
      <4>1. /\ inbox' = [inbox EXCEPT ![f] = Tail(@)]
            /\ UNCHANGED <<conn, view>>
        BY <2>2, <3>2 DEF ManagePlayerEvent, ReadMessage, clients
      <4>2. inbox'[f] = Tail(inbox[f]) /\ f \in Clients
        BY <1>0, <4>1, SetTyped
      <4>3. LoginRead(f)'
        <5>1. view[f] \notin {"OUT", "JOINED", "LOBBY"}
          BY <1>0, <3>2, <4>2 DEF LoginRead
        <5>2. inbox'[f] \in {<<>>, <<"LOGIN">>}
          BY <1>0, <3>2, <4>2, OneRead
        <5> QED BY <1>0, <3>2, <4>1, <4>2, <5>1, <5>2, Tails DEF LoginRead, Messages
      <4>4. \A g \in Clients \ {f} : Unread(g)
        BY <4>1, <1>0, SetTyped DEF Unread, Shape, Typed
      <4>5. inbox' = [g \in Clients |-> inbox'[g]]
        BY <1>0, <4>1
      <4> QED BY <4>3, <4>4, <4>5, LoginKept DEF LoginsRead
    <3> QED BY <3>1, <3>2
  <2>3. CASE IgnoreHost
    BY <2>3, AllKept DEF IgnoreHost, Unread, entries, kernel, clients
  <2>4. CASE ApplyGameChanges
    <3>1. inbox' = inbox /\ \A g \in Clients : view'[g] \in {view[g], "BROKEN", "STARTED", "PLAYING"}
      BY <2>4, SendView DEF ApplyGameChanges
    <3>2. \A g \in Clients : conn'[g] \in {conn[g], "NONE"}
      BY <2>4, CloseTyped, SetTyped DEF ApplyGameChanges
    <3> QED BY <3>1, <3>2, AllKept DEF Unread
  <2> QED BY <1>3, <2>1, <2>2, <2>3, <2>4 DEF ManageGame
<1> QED BY <1>1, <1>2, <1>3

LEMMA OutsideLogins ==
  ASSUME Shape, Environment \/ Wait \/ UNCHANGED vars
  PROVE  LoginsRead'
<1>0. inbox = [g \in Clients |-> inbox[g]] /\ \A g \in Clients : LoginRead(g)
  BY DEF Shape, LoginsRead
<1>1. CASE UNCHANGED vars \/ Wait \/ HostReads \/ TimerExpires
           \/ \E f \in Clients : Leave(f) \/ Reset(f)
  BY <1>1, AllKept
  DEF Wait, HostReads, TimerExpires, Leave, Reset, Unread, vars, entries, kernel, clients, room
<1>2. ASSUME NEW f \in Joiners, Join(f)
      PROVE  LoginsRead'
  <2>1. inbox' = inbox /\ UNCHANGED conn /\ view[f] = "OUT"
    BY <1>2 DEF Join, room, entries
  <2>2. \A g \in Clients \ {f} : view'[g] = view[g]
    BY <1>2 DEF Join, Shape, Typed
  <2>3. view'[f] = "JOINED" /\ f \in Clients
    BY <1>2, SetTyped DEF Join, Shape, Typed
  <2>4. LoginRead(f)'
    BY <1>0, <2>1, <2>3 DEF LoginRead
  <2> QED BY <1>0, <2>1, <2>2, <2>4, LoginKept DEF Unread, LoginsRead
<1>3. ASSUME NEW f \in Clients, SendLogin(f)
      PROVE  LoginsRead'
  <2>1. UNCHANGED conn /\ view[f] \in {"JOINED", "SIZED"} /\ inbox' = [g \in Clients |-> inbox'[g]]
    BY <1>3, <1>0 DEF SendLogin, room, entries
  <2>2. \A g \in Clients \ {f} : view'[g] = view[g] /\ inbox'[g] = inbox[g]
    BY <1>3, <1>0 DEF SendLogin, Shape, Typed
  <2>3. LoginRead(f)
    BY <1>0
  <2>4. ASSUME view[f] = "JOINED"
        PROVE  LoginRead(f)'
    <3>1. view'[f] = "SIZED" /\ inbox'[f] = Append(inbox[f], "SIZE")
      BY <1>3, <1>0, <2>4 DEF SendLogin, Shape, Typed
    <3>2. inbox[f] = <<>> /\ conn[f] \in {"NONE", "ASKING_LOGIN_SIZE"}
      BY <2>3, <2>4 DEF LoginRead
    <3>3. inbox'[f] = <<"SIZE">>
      BY <3>1, <3>2
    <3> QED BY <3>1, <3>2, <3>3, <2>1 DEF LoginRead, Messages
  <2>5. ASSUME view[f] = "SIZED"
        PROVE  LoginRead(f)'
    <3>1. view'[f] = "LOGIN" /\ inbox'[f] = Append(inbox[f], "LOGIN")
      BY <1>3, <1>0, <2>5 DEF SendLogin, Shape, Typed
    <3>2. \/ inbox[f] = <<"SIZE">> /\ conn[f] \in {"NONE", "ASKING_LOGIN_SIZE"}
          \/ inbox[f] = <<>> /\ conn[f] \in {"NONE", "ASKING_LOGIN_SIZE", "ASKING_LOGIN"}
      BY <2>3, <2>5 DEF LoginRead
    <3>3. Append(<<"SIZE">>, "LOGIN") = <<"SIZE", "LOGIN">>
      BY Appended
    <3>4. Append(<<>>, "LOGIN") = <<"LOGIN">>
      OBVIOUS
    <3> QED BY <3>1, <3>2, <3>3, <3>4, <2>1 DEF LoginRead, Messages
  <2> QED BY <2>1, <2>2, <2>4, <2>5, LoginKept DEF Unread, LoginsRead
<1>4. CASE HostStart
  <2>1. UNCHANGED conn /\ view[Host] = "LOBBY" /\ inbox' = [g \in Clients |-> inbox'[g]]
    BY <1>4, <1>0 DEF HostStart, room, entries
  <2>2. \A g \in Clients \ {Host} : view'[g] = view[g] /\ inbox'[g] = inbox[g]
    BY <1>4, <1>0 DEF HostStart, Shape, Typed
  <2>3. view'[Host] \in {"BROKEN", "STARTED"} /\ inbox'[Host] = Append(inbox[Host], "START")
    BY <1>4, <1>0, SetTyped DEF HostStart, Shape, Typed
  <2>4. inbox[Host] = <<>>
    BY <1>0, <2>1, SetTyped DEF LoginRead
  <2>5. inbox'[Host] = <<"START">>
    BY <2>3, <2>4
  <2>6. LoginRead(Host)'
    BY <2>1, <2>3, <2>5 DEF LoginRead, Messages
  <2> QED BY <2>1, <2>2, <2>6, LoginKept DEF Unread, LoginsRead
<1>5. ASSUME NEW f \in Clients, Command(f)
      PROVE  LoginsRead'
  <2>1. UNCHANGED <<conn, view>> /\ view[f] = "PLAYING" /\ inbox' = [inbox EXCEPT ![f] = <<"COMMAND">>]
    BY <1>5 DEF Command, room, entries, clients
  <2>2. \A g \in Clients \ {f} : inbox'[g] = inbox[g]
    BY <1>0, <2>1
  <2>3. inbox'[f] = <<"COMMAND">> /\ inbox' = [g \in Clients |-> inbox'[g]]
    BY <1>0, <2>1
  <2>4. LoginRead(f)'
    BY <2>1, <2>3 DEF LoginRead, Messages
  <2> QED BY <2>1, <2>2, <2>3, <2>4, LoginKept DEF Unread, LoginsRead
<1> QED BY <1>1, <1>2, <1>3, <1>4, <1>5 DEF Environment

(***************************************************************************)
(* Only Receive and Freed take a descriptor out of the socketpair, and     *)
(* they do it with the only event of it.                                   *)
(***************************************************************************)
LEMMA JoinPipe ==
  ASSUME Shape, Receive \/ Freed
  PROVE  \A e \in Events' : e.fd = ServerFd => pipe' # <<>>
<1>1. CASE UNCHANGED pipe
  <2>1. Handled
    BY StepHandled DEF Receive, Freed, Next, Run, ManageEvents, Handling, AddPlayer,
       NextEvent, DropBatch, Handled
  <2> QED BY <1>1, <2>1, HandledEvents DEF Shape, PipeWaits
<1>2. CASE batch # <<>> /\ Head(batch).fd = ServerFd /\ AddPlayer(Head(pipe))
  <2>1. batch' = <<>> \/ batch' = Tail(batch)
    BY <1>2 DEF AddPlayer, NextEvent, DropBatch
  <2>2. \A e \in Events' : e.fd # ServerFd
    BY <1>2, <2>1, NoEvents, TailEvents DEF Shape
  <2> QED BY <2>2
<1> QED BY <1>1, <1>2 DEF Receive, Freed, Handling

LEMMA ServerInterest ==
  ASSUME Shape, Next
  PROVE  interest'[ServerFd] \in {interest[ServerFd], "NONE", "READ"}
<1>1. ServerFd \in Watchable /\ ServerFd \notin Clients /\ Clients \subseteq Watchable
  BY RoomAssumption DEF Watchable
<1>2. interest \in [Watchable -> {"NONE", "READ", "WRITE"}]
  BY DEF Shape, Typed
<1>3. ASSUME NEW f \in Clients,
             HangUp(f) \/ ReadLoginSize(f) \/ ReadLogin(f) \/ SendList(f)
             \/ (PlayerExit(f) /\ f \in Joiners)
      PROVE  interest'[ServerFd] \in {interest[ServerFd], "NONE", "READ"}
  BY <1>1, <1>2, <1>3 DEF HangUp, ReadLoginSize, ReadLogin, SendList, PlayerExit,
      CloseConnection, UpdatePlayerList, Throw, Exit
<1>4. ASSUME NEW f \in Clients, SendStart(f) \/ StartGame(f)
      PROVE  interest'[ServerFd] \in {interest[ServerFd], "NONE", "READ"}
  BY <1>1, <1>2, <1>4 DEF SendStart, StartGame, Throw, Exit
<1>5. CASE ManageHost
  BY <1>1, <1>2, <1>5 DEF ManageHost, Exit
<1>6. CASE Receive \/ Freed
  BY <1>1, <1>2, <1>6 DEF Receive, Freed, AddPlayer, AddEvent
<1>7. CASE ManageGame
  BY <1>1, <1>2, <1>7, SetTyped DEF ManageGame, GameHangUp, ManagePlayerEvent, IgnoreHost,
     ApplyGameChanges,
     CloseConnection, Exit
<1>8. CASE Environment \/ Wait
  BY <1>1, <1>2, <1>8 DEF Environment, Wait, Join, SendLogin, Command, Leave, Reset, HostReads,
     HostStart, TimerExpires, room
<1> QED BY <1>3, <1>4, <1>5, <1>6, <1>7, <1>8, SetTyped DEF Next, Run, ManageEvents

LEMMA NextPipe ==
  ASSUME Shape, [Next]_vars
  PROVE  PipeWaits'
<1>0. /\ interest \in [Watchable -> {"NONE", "READ", "WRITE"}]
      /\ interest[ServerFd] # "WRITE"
      /\ \A e \in Events : e.fd = ServerFd => pipe # <<>>
  BY DEF Shape, Typed, PipeWaits
<1>1. interest'[ServerFd] # "WRITE"
  BY <1>0, ServerInterest DEF vars
<1>2. \A e \in Events' : e.fd = ServerFd => pipe' # <<>>
  <2>1. CASE Wait
    <3>1. \A e \in Events' : e.fd = ServerFd => Readable(ServerFd)
      <4>1. PICK order \in SetToSeqs({f \in Watchable : HasEvents(f)}) :
              batch' = [i \in DOMAIN order |-> Event(order[i])]
        BY <2>1 DEF Wait
      <4>2. \A i \in DOMAIN order : HasEvents(order[i])
        BY DEF SetToSeqs
      <4>3. ASSUME NEW e \in Events', e.fd = ServerFd
            PROVE  HasEvents(ServerFd)
        BY <4>1, <4>2, <4>3 DEF Events, Event
      <4> QED BY <1>0, <4>3 DEF HasEvents
    <3>2. UNCHANGED pipe
      BY <2>1 DEF Wait, kernel
    <3>3. Readable(ServerFd) => pipe # <<>>
      BY RoomAssumption DEF Readable
    <3> QED BY <3>1, <3>2, <3>3
  <2>2. CASE Receive \/ Freed
    BY <2>2, JoinPipe
  <2>3. CASE ManageHost
    <3>1. \A e \in Events' : \E d \in Events : d.fd = e.fd
      <4>1. batch # <<>>
        BY <2>3 DEF ManageHost, Goes, Handling
      <4>2. \A e \in Events : [e EXCEPT !.data = "freed"].fd = e.fd
        BY <4>1, HeadEvent DEF EventRecords, Shape
      <4> QED BY <2>3, <4>2, HostEvents
    <3> QED BY <1>0, <2>3, <3>1 DEF ManageHost
  <2>4. ASSUME [Next]_vars, ~Wait, ~Receive, ~Freed, ~ManageHost
        PROVE  \A e \in Events' : e.fd = ServerFd => pipe' # <<>>
    <3>1. \A e \in Events' : \E d \in Events : d.fd = e.fd
      BY <2>4, StepHandled, HandledEvents
    <3>2. pipe' = pipe \/ \E f : pipe' = Append(pipe, f)
      <4>1. ASSUME NEW f \in Clients,
                   HangUp(f) \/ ReadLoginSize(f) \/ ReadLogin(f) \/ SendList(f) \/ SendStart(f)
                   \/ StartGame(f) \/ PlayerExit(f)
            PROVE  pipe' = pipe
        BY <4>1 DEF HangUp, ReadLoginSize, ReadLogin, SendList, SendStart, StartGame, PlayerExit
      <4>2. CASE ManageGame \/ UNCHANGED vars
        BY <4>2 DEF ManageGame, GameHangUp, ManagePlayerEvent, IgnoreHost, ApplyGameChanges,
           vars, kernel
      <4>3. CASE Environment
        BY <4>3 DEF Environment, Join, SendLogin, Command, Leave, Reset, HostReads,
           HostStart, TimerExpires, kernel
      <4> QED BY <2>4, <4>1, <4>2, <4>3, SetTyped DEF Next, Run, ManageEvents
    <3>3. \A f : pipe # <<>> => Append(pipe, f) # <<>>
      BY DEF Shape, Typed
    <3> QED BY <1>0, <3>1, <3>2, <3>3
  <2> QED BY <2>1, <2>2, <2>3, <2>4
<1> QED BY <1>1, <1>2 DEF PipeWaits

LEMMA NextShape ==
  ASSUME Shape, [Next]_vars
  PROVE  Shape'
<1>1. Typed'
  BY RunTyped, HostTyped, JoinTyped, GameTyped, OutsideTyped, SetTyped
     DEF Next, Run, ManageEvents
<1>2. LoginsRead'
  BY RunLogins, OtherLogins, OutsideLogins, SetTyped DEF Next, Run, ManageEvents
<1> QED BY <1>1, <1>2, NextBatched, NextPipe DEF Shape

LEMMA AlwaysShape == Spec => []Shape
BY InitShape, NextShape, PTL DEF Spec

(***************************************************************************)
(* The types of the variables.  Over and above the types: a batch has one  *)
(* event of a descriptor whatever is freed and dropped while it is         *)
(* handled, and a command of the game or of the host never follows, in the *)
(* socket, what is left of the login.                                      *)
(***************************************************************************)
THEOREM TypeCorrect == Spec => []TypeOK
BY AlwaysShape, ShapeTypes, PTL

-----------------------------------------------------------------------------
(* connections_, players_, epoll and the batch.                            *)

(***************************************************************************)
(* To keep what is said of a client that is registered, also when its list *)
(* is asked for, a client that may play has to be registered.              *)
(***************************************************************************)
ClientWatched(f) ==
  /\ interest[f] # "NONE" => /\ conn[f] # "NONE"
                             /\ f \notin closed
                             /\ f # Host => f \in players
  /\ (f = Host \/ f \in players) /\ conn[f] = "NONE" => f \in closed
  /\ conn[f] = "READY_TO_PLAY" => interest[f] # "NONE"

(***************************************************************************)
(* Who is taken off the registration has no event left in the batch, but   *)
(* for the one being handled: SendList goes on to SendStart with it.       *)
(***************************************************************************)
EventWatched(e) ==
  e.fd \in Clients /\ e.data = "ok" =>
    \/ interest[e.fd] # "NONE"
    \/ e = Head(batch) /\ conn[e.fd] = "STARTING_TO_PLAY"

BatchWatched == \A e \in Events : EventWatched(e)

Watched == (\A f \in Clients : ClientWatched(f)) /\ BatchWatched

\* A step keeps the registration of everybody but the client it is about
StaysBut(f) == \A g \in Clients \ {f} : interest[g] # "NONE" => interest'[g] # "NONE"

LEMMA TailWatched ==
  ASSUME Shape, BatchWatched, batch # <<>>, batch' = Tail(batch), StaysBut(Head(batch).fd)
  PROVE  BatchWatched'
<1>1. ASSUME NEW e \in Events', e.fd \in Clients, e.data = "ok"
      PROVE  interest'[e.fd] # "NONE"
  <2>1. e \in Events /\ e.fd # Head(batch).fd
    BY <1>1, TailEvents DEF Shape
  <2> QED BY <1>1, <2>1 DEF BatchWatched, EventWatched, StaysBut
<1> QED BY <1>1 DEF BatchWatched, EventWatched

LEMMA HeadWatched ==
  ASSUME Shape, BatchWatched, batch # <<>>, UNCHANGED batch,
         StaysBut(Head(batch).fd),
         Head(batch).fd \in Clients =>
           interest'[Head(batch).fd] # "NONE" \/ conn'[Head(batch).fd] = "STARTING_TO_PLAY"
  PROVE  BatchWatched'
<1>1. Events' = Events
  BY DEF Events
<1>2. ASSUME NEW e \in Events, e.fd \in Clients, e.data = "ok"
      PROVE  \/ interest'[e.fd] # "NONE"
             \/ e = Head(batch) /\ conn'[e.fd] = "STARTING_TO_PLAY"
  <2>1. CASE e.fd = Head(batch).fd
    BY <1>2, <2>1, HeadEvent DEF Shape
  <2>2. CASE e.fd # Head(batch).fd
    BY <1>2, <2>2 DEF BatchWatched, EventWatched, StaysBut
  <2> QED BY <2>1, <2>2
<1> QED BY <1>1, <1>2 DEF BatchWatched, EventWatched

LEMMA ChangedWatched ==
  ASSUME Shape, BatchWatched, batch # <<>>, NEW d \in {"freed", "start"},
         batch' = [batch EXCEPT ![1].data = d], StaysBut(Head(batch).fd)
  PROVE  BatchWatched'
<1>1. /\ Events' = {e \in Events : e.fd # Head(batch).fd} \union {Head(batch')}
      /\ Head(batch') = [Head(batch) EXCEPT !.data = d]
  BY HeadChanges DEF Shape
<1>2. Head(batch').data # "ok"
  BY <1>1, HeadEvent DEF Shape, EventRecords
<1>3. ASSUME NEW e \in Events', e.fd \in Clients, e.data = "ok"
      PROVE  interest'[e.fd] # "NONE"
  <2>1. e \in Events /\ e.fd # Head(batch).fd
    BY <1>1, <1>2, <1>3
  <2> QED BY <1>3, <2>1 DEF BatchWatched, EventWatched, StaysBut
<1> QED BY <1>3 DEF BatchWatched, EventWatched

LEMMA EmptyWatched ==
  ASSUME batch' = <<>>
  PROVE  BatchWatched'
BY NoEvents DEF BatchWatched

\* What is unchanged, for this part
LEMMA SameWatched ==
  ASSUME Shape, Watched, UNCHANGED <<conn, interest, closed, players>>,
         \/ UNCHANGED batch \/ batch' = <<>>
         \/ batch # <<>> /\ batch' = Tail(batch)
         \/ batch # <<>> /\ \E d \in {"freed", "start"} : batch' = [batch EXCEPT ![1].data = d]
  PROVE  Watched'
<1>1. \A f \in Clients : ClientWatched(f)'
  BY DEF Watched, ClientWatched
<1>2. BatchWatched'
  <2>1. CASE UNCHANGED batch
    <3>1. Events' = Events
      BY <2>1 DEF Events
    <3> QED BY <2>1, <3>1 DEF Watched, BatchWatched, EventWatched
  <2> QED BY <2>1, EmptyWatched, TailWatched, ChangedWatched DEF Watched, StaysBut
<1> QED BY <1>1, <1>2 DEF Watched

LEMMA ExitWatched ==
  ASSUME Shape, Watched, Exit, UNCHANGED players
  PROVE  Watched'
<1>1. \A f \in Clients : interest'[f] = "NONE" /\ conn'[f] = "NONE"
  BY SetTyped DEF Exit
<1>2. \A f \in Clients : conn[f] # "NONE" \/ f \in closed => f \in closed'
  BY DEF Exit
<1>3. batch' = <<>>
  BY DEF Exit
<1> QED BY <1>1, <1>2, <1>3, EmptyWatched DEF Watched, ClientWatched

LEMMA ThrowWatched ==
  ASSUME Shape, Watched, UNCHANGED players, NEW f \in Clients,
         NEW c \in [Fds -> PlayerStates \union {"NONE"}],
         NEW i \in [Watchable -> {"NONE", "READ", "WRITE"}],
         \A g \in Clients : /\ c[g] = "NONE" => conn[g] = "NONE"
                            /\ c[g] = "READY_TO_PLAY" => conn[g] = "READY_TO_PLAY"
                            /\ i[g] = "NONE" <=> interest[g] = "NONE",
         Throw(f, c, i)
  PROVE  Watched'
<1>1. CASE f = Host
  BY <1>1, ExitWatched DEF Throw
<1>2. CASE f # Host
  <2>1. conn' = c /\ interest' = i /\ UNCHANGED closed /\ batch' = <<>>
    BY <1>2 DEF Throw, DropBatch
  <2>2. \A g \in Clients : ClientWatched(g)'
    BY <2>1 DEF Watched, ClientWatched
  <2> QED BY <2>1, <2>2, EmptyWatched DEF Watched
<1> QED BY <1>1, <1>2

LEMMA CloseWatched ==
  ASSUME Shape, Watched, batch # <<>>, UNCHANGED players, NEW f \in Clients,
         Head(batch).fd = f, CloseConnection(f), NextEvent
  PROVE  Watched'
<1>1. /\ interest' = [interest EXCEPT ![f] = "NONE"]
      /\ conn' = [conn EXCEPT ![f] = "NONE"]
      /\ closed' = closed \union {f} /\ batch' = Tail(batch)
  BY DEF CloseConnection, NextEvent
<1>2. \A g \in Clients : ClientWatched(g)'
  BY <1>1, SetTyped DEF Watched, ClientWatched, Shape, Typed
<1>3. StaysBut(f)
  BY <1>1, SetTyped DEF StaysBut, Shape, Typed
<1> QED BY <1>1, <1>2, <1>3, TailWatched DEF Watched

(***************************************************************************)
(* UpdatePlayerList only asks for the list of clients that may play, and   *)
(* they are registered.                                                    *)
(***************************************************************************)
LEMMA UpdateWatched ==
  ASSUME NEW c \in [Fds -> PlayerStates \union {"NONE"}],
         NEW i \in [Watchable -> {"NONE", "READ", "WRITE"}],
         UpdatePlayerList(c, i),
         NEW g \in Clients
  PROVE  /\ conn'[g] = "NONE" <=> c[g] = "NONE"
         /\ conn'[g] # "READY_TO_PLAY"
         /\ c[g] # "READY_TO_PLAY" => conn'[g] = c[g] /\ interest'[g] = i[g]
         /\ i[g] # "NONE" => interest'[g] # "NONE"
BY SetTyped DEF UpdatePlayerList

\* The client whose event is handled is registered
LEMMA HandledWatched ==
  ASSUME Shape, Watched, NEW f \in Clients, NEW by, Handling(f, by)
  PROVE  /\ batch # <<>> /\ Head(batch).fd = f
         /\ interest[f] # "NONE" \/ conn[f] = "STARTING_TO_PLAY"
BY HeadEvent DEF Handling, Shape, Watched, BatchWatched, EventWatched

LEMMA LoginWatched ==
  ASSUME Shape, Watched, NEW f \in Clients,
         HangUp(f) \/ ReadLoginSize(f) \/ ReadLogin(f) \/ (PlayerExit(f) /\ f \in Joiners)
  PROVE  Watched'
<1>0. /\ Handling(f, "ManageEvents") /\ batch # <<>> /\ Head(batch).fd = f
      /\ interest[f] # "NONE" \/ conn[f] = "STARTING_TO_PLAY"
  BY HandledWatched DEF HangUp, ReadLoginSize, ReadLogin, PlayerExit, Goes
<1>00. /\ conn \in [Fds -> PlayerStates \union {"NONE"}]
       /\ interest \in [Watchable -> {"NONE", "READ", "WRITE"}]
  BY DEF Shape, Typed
<1>1. CASE HangUp(f)
  BY <1>0, <1>1, CloseWatched, ExitWatched DEF HangUp
<1>2. CASE ReadLoginSize(f)
  <2>1. CASE inbox[f] = <<>>
    BY <1>00, <1>2, <2>1, ThrowWatched DEF ReadLoginSize
  <2>2. CASE inbox[f] # <<>>
    <3>1. /\ conn[f] = "ASKING_LOGIN_SIZE" /\ conn' = [conn EXCEPT ![f] = "ASKING_LOGIN"]
          /\ UNCHANGED <<interest, closed, batch, players>>
      BY <1>2, <2>2 DEF ReadLoginSize, Continue
    <3>2. \A g \in Clients : ClientWatched(g)'
      BY <1>00, <3>1, SetTyped DEF Watched, ClientWatched
    <3> QED BY <1>0, <3>1, <3>2, HeadWatched DEF Watched, StaysBut
  <2> QED BY <2>1, <2>2
<1>3. CASE ReadLogin(f)
  <2>1. CASE inbox[f] # <<>>
    <3> DEFINE c == [conn EXCEPT ![f] = "WRITE_PLAYERS_NUM"]
               i == [interest EXCEPT ![f] = "WRITE"]
    <3>1. /\ c \in [Fds -> PlayerStates \union {"NONE"}]
          /\ i \in [Watchable -> {"NONE", "READ", "WRITE"}]
          /\ \A g \in Clients : c[g] = IF g = f THEN "WRITE_PLAYERS_NUM" ELSE conn[g]
          /\ \A g \in Clients : i[g] = IF g = f THEN "WRITE" ELSE interest[g]
      BY <1>00, SetTyped DEF PlayerStates
    <3>2. /\ UpdatePlayerList(c, i) /\ players' = players \union {f}
          /\ UNCHANGED <<closed, batch>> /\ conn[f] = "ASKING_LOGIN"
      BY <1>3, <2>1 DEF ReadLogin, Continue
    <3> HIDE DEF c, i
    <3>3. \A g \in Clients : ClientWatched(g)'
      BY <1>0, <3>1, <3>2, UpdateWatched DEF Watched, ClientWatched
    <3>4. \A g \in Clients : interest[g] # "NONE" => interest'[g] # "NONE"
      BY <3>1, <3>2, UpdateWatched
    <3>5. interest'[f] # "NONE"
      BY <3>1, <3>2, UpdateWatched
    <3> QED BY <1>0, <3>2, <3>3, <3>4, <3>5, HeadWatched DEF Watched, StaysBut
  <2>2. CASE inbox[f] = <<>> /\ peer[f] = "open"
    BY <1>0, <1>3, <2>2, SameWatched DEF ReadLogin, NextEvent
  <2>3. CASE inbox[f] = <<>> /\ peer[f] # "open"
    BY <1>00, <1>3, <2>3, ThrowWatched DEF ReadLogin
  <2> QED BY <2>1, <2>2, <2>3
<1>4. CASE PlayerExit(f) /\ f \in Joiners
  <2>1. PICK g \in {f, Junk} :
          UpdatePlayerList([conn EXCEPT ![f] = "NONE", ![g] = "ASKING_LOGIN_SIZE"],
                           [interest EXCEPT ![f] = "NONE"])
    BY <1>4 DEF PlayerExit
  <2> DEFINE c == [conn EXCEPT ![f] = "NONE", ![g] = "ASKING_LOGIN_SIZE"]
             i == [interest EXCEPT ![f] = "NONE"]
  <2>2. /\ c \in [Fds -> PlayerStates \union {"NONE"}]
        /\ i \in [Watchable -> {"NONE", "READ", "WRITE"}]
        /\ \A h \in Clients : c[h] = IF h = f THEN c[f] ELSE conn[h]
        /\ c[f] \in {"NONE", "ASKING_LOGIN_SIZE"}
        /\ \A h \in Clients : i[h] = IF h = f THEN "NONE" ELSE interest[h]
    BY <1>00, SetTyped, RoomAssumption DEF PlayerStates
  <2>3. /\ closed' = closed \union {f} /\ players' = players \ {f} /\ batch' = <<>> /\ f # Host
    BY <1>4, RoomAssumption DEF PlayerExit, DropBatch
  <2> HIDE DEF c, i
  <2>4. UpdatePlayerList(c, i)
    BY <2>1 DEF c, i
  <2>5. \A h \in Clients : ClientWatched(h)'
    BY <2>2, <2>3, <2>4, UpdateWatched DEF Watched, ClientWatched
  <2> QED BY <2>3, <2>5, EmptyWatched DEF Watched
<1> QED BY <1>1, <1>2, <1>3, <1>4

LEMMA ListWatched ==
  ASSUME Shape, Watched, NEW f \in Clients, SendList(f)
  PROVE  Watched'
<1>0. /\ batch # <<>> /\ Head(batch).fd = f
      /\ conn[f] \in {"WRITE_PLAYERS_NUM", "WRITE_PLAYERS"}
      /\ interest[f] # "NONE" \/ conn[f] = "STARTING_TO_PLAY"
      /\ UNCHANGED players
  BY HandledWatched DEF SendList, Goes
<1>1. /\ conn \in [Fds -> PlayerStates \union {"NONE"}]
      /\ interest \in [Watchable -> {"NONE", "READ", "WRITE"}]
  BY DEF Shape, Typed
<1>2. /\ LookedUp \in [Fds -> PlayerStates \union {"NONE"}]
      /\ \A s \in PlayerStates : [LookedUp EXCEPT ![f] = s] \in [Fds -> PlayerStates \union {"NONE"}]
      /\ \A s : \A g \in Clients : g # f => [LookedUp EXCEPT ![f] = s][g] = LookedUp[g]
      /\ \A s : [LookedUp EXCEPT ![f] = s][f] = s
      /\ \A g \in Clients : \/ LookedUp[g] = conn[g]
                            \/ LookedUp[g] = "ASKING_LOGIN_SIZE" /\ conn[g] = "NONE"
  BY <1>1, SetTyped DEF LookedUp, PlayerStates
<1>3. CASE CanWrite(f)
  <2>1. /\ UNCHANGED closed /\ f \notin closed
        /\ \/ /\ conn' = [LookedUp EXCEPT ![f] = "STARTING_TO_PLAY"]
              /\ interest' = [interest EXCEPT ![f] = "NONE"]
              /\ UNCHANGED batch
           \/ /\ conn' = [LookedUp EXCEPT ![f] = "READY_TO_PLAY"]
              /\ interest' = [interest EXCEPT ![f] = "READ"]
              /\ batch' = Tail(batch)
    BY <1>3 DEF SendList, CanWrite, Continue, NextEvent
  <2>2. \A g \in Clients \ {f} : /\ interest'[g] = interest[g]
                                 /\ conn'[g] = LookedUp[g]
    BY <1>1, <1>2, <2>1, SetTyped
  <2>3. \/ conn'[f] = "STARTING_TO_PLAY" /\ interest'[f] = "NONE" /\ UNCHANGED batch
        \/ conn'[f] = "READY_TO_PLAY" /\ interest'[f] = "READ" /\ batch' = Tail(batch)
    BY <1>1, <1>2, <2>1, SetTyped
  <2>4. \A g \in Clients : ClientWatched(g)'
    BY <1>0, <1>2, <2>1, <2>2, <2>3 DEF Watched, ClientWatched
  <2>5. BatchWatched'
    BY <1>0, <2>2, <2>3, TailWatched, HeadWatched DEF Watched, StaysBut
  <2> QED BY <2>4, <2>5 DEF Watched
<1>4. CASE ~CanWrite(f)
  <2>1. Throw(f, [LookedUp EXCEPT ![f] = "WRITE_PLAYERS"], interest)
    BY <1>4 DEF SendList
  <2> DEFINE c == [LookedUp EXCEPT ![f] = "WRITE_PLAYERS"]
  <2>2. /\ c \in [Fds -> PlayerStates \union {"NONE"}] /\ c[f] = "WRITE_PLAYERS"
        /\ \A g \in Clients \ {f} : c[g] = LookedUp[g]
    BY <1>1, <1>2, SetTyped DEF PlayerStates
  <2> HIDE DEF c
  <2>3. Throw(f, c, interest)
    BY <2>1 DEF c
  <2> QED BY <1>0, <1>1, <1>2, <2>2, <2>3, ThrowWatched
<1> QED BY <1>3, <1>4

LEMMA StartWatched ==
  ASSUME Shape, Watched, NEW f \in Clients, SendStart(f) \/ StartGame(f)
  PROVE  Watched'
<1>1. /\ conn \in [Fds -> PlayerStates \union {"NONE"}]
      /\ interest \in [Watchable -> {"NONE", "READ", "WRITE"}]
  BY DEF Shape, Typed
<1>2. CASE SendStart(f)
  <2>1. CASE CanWrite(f)
    BY <1>2, <2>1, SameWatched DEF SendStart, Goes, Handling, ContinueWith, Return, NextEvent
  <2>2. CASE ~CanWrite(f)
    BY <1>1, <1>2, <2>2, ThrowWatched DEF SendStart
  <2> QED BY <2>1, <2>2
<1>3. CASE StartGame(f)
  <2>1. batch # <<>> /\ Head(batch).fd = f /\ UNCHANGED players
    BY <1>3 DEF StartGame
  <2>2. CASE /\ \A g \in Entries : Registered(g)
             /\ conn' = conn /\ UNCHANGED closed /\ NextEvent
             /\ interest' = [g \in Watchable |-> IF g \in Entries \union {TimerFd}
                                                 THEN "READ" ELSE interest[g]]
    <3>1. \A g \in Clients : interest'[g] \in {interest[g], "READ"}
                             /\ (interest'[g] # "NONE" <=> interest[g] # "NONE")
      BY <1>1, <2>2, SetTyped, RoomAssumption DEF Registered
    <3>2. \A g \in Clients : ClientWatched(g)'
      BY <2>1, <2>2, <3>1 DEF Watched, ClientWatched
    <3> QED BY <2>1, <2>2, <3>1, <3>2, TailWatched DEF Watched, StaysBut, NextEvent
  <2>3. ASSUME NEW some \in SUBSET Entries, \A g \in some : Registered(g),
               Throw(f, conn, [g \in Watchable |-> IF g \in some THEN "READ" ELSE interest[g]])
        PROVE  Watched'
    <3> DEFINE i == [g \in Watchable |-> IF g \in some THEN "READ" ELSE interest[g]]
    <3>1. /\ i \in [Watchable -> {"NONE", "READ", "WRITE"}]
          /\ \A g \in Clients : i[g] = "NONE" <=> interest[g] = "NONE"
      BY <1>1, <2>3, SetTyped DEF Registered
    <3> HIDE DEF i
    <3>2. Throw(f, conn, i)
      BY <2>3 DEF i
    <3> QED BY <1>1, <2>1, <3>1, <3>2, ThrowWatched
  <2> QED BY <1>3, <2>2, <2>3 DEF StartGame
<1> QED BY <1>2, <1>3

LEMMA HostWatched ==
  ASSUME Shape, Watched, ManageHost
  PROVE  Watched'
<1>1. CASE Exit
  BY <1>1, ExitWatched DEF ManageHost
<1>2. CASE ~Exit
  <2>1. /\ conn \in [Fds -> PlayerStates \union {"NONE"}]
        /\ interest \in [Watchable -> {"NONE", "READ", "WRITE"}]
    BY DEF Shape, Typed
  <2>2. /\ UNCHANGED <<players, closed>>
        /\ \A g \in Clients : /\ conn[g] = "READY_TO_PLAY" => conn'[g] = "STARTING_TO_PLAY"
                              /\ conn[g] # "READY_TO_PLAY" => conn'[g] = conn[g]
    BY <1>2, SetTyped DEF ManageHost
  <2>3. \A g \in Clients : \/ interest'[g] = interest[g]
                           \/ conn[g] = "READY_TO_PLAY" /\ interest'[g] = "WRITE"
    BY <1>2, SetTyped, RoomAssumption DEF ManageHost, Watchable
  <2>4. \A g \in Clients : ClientWatched(g)'
    BY <2>2, <2>3 DEF Watched, ClientWatched
  <2>5. batch # <<>> /\ Head(batch).fd = Host
    BY DEF ManageHost, Goes, Handling
  <2>6. ASSUME NEW e \in Events', e.fd \in Clients, e.data = "ok"
        PROVE  interest'[e.fd] # "NONE"
    <3>1. PICK d \in Events : /\ d.fd # Host
                              /\ e = IF d.fd = ServerFd THEN [d EXCEPT !.data = "freed"] ELSE d
      BY <2>6, HostEvents
    <3>2. d \in EventRecords
      BY <2>5, HeadEvent DEF Shape
    <3>3. e = d
      BY <2>6, <3>1, <3>2, RoomAssumption DEF EventRecords
    <3>4. interest[e.fd] # "NONE"
      BY <2>5, <2>6, <3>1, <3>3 DEF Watched, BatchWatched, EventWatched
    <3> QED BY <2>3, <2>6, <3>4
  <2> QED BY <2>4, <2>6 DEF Watched, BatchWatched, EventWatched
<1> QED BY <1>1, <1>2

(***************************************************************************)
(* Whatever descriptor AddPlayer is called with, it registers only one     *)
(* that is open and was not, and leaves an entry for every other.          *)
(***************************************************************************)
LEMMA AddWatched ==
  ASSUME Shape, Watched, batch # <<>>, NEW f \in Fds, AddPlayer(f), UNCHANGED closed
  PROVE  Watched'
<1>1. /\ conn \in [Fds -> PlayerStates \union {"NONE"}]
      /\ interest \in [Watchable -> {"NONE", "READ", "WRITE"}]
  BY DEF Shape, Typed
<1>2. /\ conn' = [conn EXCEPT ![f] = "ASKING_LOGIN_SIZE"]
      /\ players' = players \union {f}
      /\ \/ /\ f \in Clients \ closed /\ interest[f] = "NONE"
            /\ interest' = [interest EXCEPT ![f] = "READ"] /\ batch' = Tail(batch)
         \/ UNCHANGED interest /\ batch' = <<>>
  BY DEF AddPlayer, AddEvent, NextEvent, DropBatch
<1>3. \A g \in Clients : conn'[g] = IF g = f THEN "ASKING_LOGIN_SIZE" ELSE conn[g]
  BY <1>1, <1>2, SetTyped
<1>4. \A g \in Clients : \/ interest'[g] = interest[g]
                         \/ g = f /\ f \notin closed /\ interest'[g] = "READ"
  BY <1>1, <1>2, SetTyped
<1>5. \A g \in Clients : ClientWatched(g)'
  BY <1>2, <1>3, <1>4 DEF Watched, ClientWatched
<1>6. BatchWatched'
  BY <1>2, <1>4, TailWatched, EmptyWatched DEF Watched, StaysBut
<1> QED BY <1>5, <1>6 DEF Watched

LEMMA JoinWatched ==
  ASSUME Shape, Watched, Receive \/ Freed
  PROVE  Watched'
<1>1. batch # <<>> /\ UNCHANGED closed
  BY DEF Receive, Freed, Handling
<1>2. Head(batch).fd = ServerFd => Head(pipe) \in Fds
  BY <1>1, HeadEvent, SetTyped DEF Shape, PipeWaits, Typed
<1>3. \A g \in (players \ {Host}) \union {Junk} : g \in Fds
  BY DEF Shape, Typed, Fds
<1>4. CASE \E f \in Fds : AddPlayer(f)
  BY <1>1, <1>4, AddWatched
<1>5. CASE NextEvent /\ UNCHANGED <<entries, interest>>
  BY <1>1, <1>5, SameWatched DEF NextEvent, entries
<1> QED BY <1>2, <1>3, <1>4, <1>5 DEF Receive, Freed, Handling

LEMMA GameWatched ==
  ASSUME Shape, Watched, ManageGame
  PROVE  Watched'
<1>1. ASSUME NEW f \in Clients, GameHangUp(f)
      PROVE  Watched'
  BY <1>1, CloseWatched, ExitWatched DEF GameHangUp, Handling
<1>2. ASSUME NEW f \in Joiners, ManagePlayerEvent(f)
      PROVE  Watched'
  <2>1. f \in Clients /\ batch # <<>> /\ Head(batch).fd = f /\ UNCHANGED players /\ NextEvent
    BY <1>2, SetTyped DEF ManagePlayerEvent, Goes, Handling
  <2>2. CloseConnection(f) \/ UNCHANGED <<conn, interest, closed>>
    BY <1>2 DEF ManagePlayerEvent
  <2> QED BY <2>1, <2>2, CloseWatched, SameWatched DEF NextEvent
<1>3. CASE IgnoreHost
  BY <1>3, SameWatched DEF IgnoreHost, Goes, Handling, NextEvent, entries, kernel
<1>4. CASE ApplyGameChanges
  <2>1. batch # <<>> /\ UNCHANGED players
    BY <1>4 DEF ApplyGameChanges, Handling
  <2>2. \/ Exit
        \/ UNCHANGED <<conn, interest, closed>> /\ (NextEvent \/ DropBatch)
    BY <1>4 DEF ApplyGameChanges
  <2> QED BY <2>1, <2>2, ExitWatched, SameWatched DEF NextEvent, DropBatch
<1> QED BY <1>1, <1>2, <1>3, <1>4 DEF ManageGame

LEMMA OutsideWatched ==
  ASSUME Shape, Watched, Environment \/ Wait \/ UNCHANGED vars
  PROVE  Watched'
<1>1. CASE Environment \/ UNCHANGED vars
  <2>1. UNCHANGED <<conn, interest, closed, players, batch>>
    BY <1>1 DEF Environment, Join, SendLogin, Command, Leave, Reset, HostReads, HostStart,
       TimerExpires, room, entries, vars, kernel
  <2> QED BY <2>1, SameWatched
<1>2. CASE Wait
  <2>1. UNCHANGED <<conn, interest, closed, players>>
    BY <1>2 DEF Wait, entries, kernel
  <2>2. \A e \in Events' : interest[e.fd] # "NONE"
    BY <1>2, WaitBatched DEF Shape, Typed
  <2> QED BY <2>1, <2>2 DEF Watched, ClientWatched, BatchWatched, EventWatched
<1> QED BY <1>1, <1>2

LEMMA NextWatched ==
  ASSUME Shape, Watched, [Next]_vars
  PROVE  Watched'
BY LoginWatched, ListWatched, StartWatched, HostWatched, JoinWatched, GameWatched,
   OutsideWatched, SetTyped DEF Next, Run, ManageEvents

LEMMA InitWatched == Init => Watched
<1> SUFFICES ASSUME Init
             PROVE  Watched
  OBVIOUS
<1>1. \A f \in Clients : ClientWatched(f)
  BY SetTyped, RoomAssumption DEF Init, ClientWatched
<1>2. Events = {}
  BY DEF Init, Events
<1> QED BY <1>1, <1>2 DEF Watched, BatchWatched

LEMMA AlwaysWatched == Spec => []Watched
<1>1. Shape /\ Watched /\ [Next]_vars => Watched'
  BY NextWatched
<1> QED BY <1>1, AlwaysShape, InitWatched, PTL DEF Spec

(***************************************************************************)
(* connections_, players_ and the registration with epoll are changed by   *)
(* HangUp, RemovePlayer, AddPlayer, CloseConnection, UpdatePlayerList and  *)
(* the destructor, each two of the three at a time, some of them with a    *)
(* descriptor read from freed memory.  However they are interleaved with   *)
(* what is left of a batch, an event of a client finds its entry, its      *)
(* player and an open socket.                                              *)
(***************************************************************************)
THEOREM EventsFound == Spec => []EventsFindTheirClient
<1>1. Watched => EventsFindTheirClient
  BY DEF Watched, ClientWatched, EventsFindTheirClient
<1> QED BY <1>1, AlwaysWatched, PTL

(***************************************************************************)
(* No way out of the lobby or of the game, thrown or returned, leaves the  *)
(* socket of a client open without an entry for the destructor to close.   *)
(***************************************************************************)
THEOREM NothingLeaks == Spec => []NoLeak
<1>1. Watched => NoLeak
  BY DEF Watched, ClientWatched, NoLeak
<1> QED BY <1>1, AlwaysWatched, PTL

-----------------------------------------------------------------------------
(* The start of the game.  waiting_persons_ counts what StartGame waits    *)
(* for, but ManageHost, SendStart, AddPlayer and the use of freed memory   *)
(* change it or rely on it in any order within a batch.                    *)

\* Before the host started the game nothing is about to be told to anybody, and every
\* joiner that is registered was counted
BeforeStart ==
  state = "WAITING" =>
    /\ \A f \in Fds : key[f] # "STARTING_TO_PLAY" /\ conn[f] # "STARTING_TO_PLAY"
    /\ waiting >= Cardinality({f \in Joiners : interest[f] # "NONE"})

\* Afterwards it cannot start it again, and nobody is handed over any more
AfterStart ==
  state # "WAITING" =>
    /\ running => conn[Host] = "STARTING_TO_PLAY"
    /\ interest[ServerFd] = "NONE"

Stopped == ~running => batch = <<>>

GameHandled ==
  /\ handler = "ManageGame" => state = "PLAYING"
  /\ interest[TimerFd] # "NONE" => state = "PLAYING"

\* An event lower in the batch is as it was, or its data was freed by ManageHost
EventUsed(e) ==
  /\ e.data = "freed" => state # "WAITING" /\ (e.fd = ServerFd \/ e = Head(batch))
  /\ e.data = "start" => e = Head(batch) /\ waiting = 0 /\ state = "STARTING"

Told(f) == \E e \in Events : e.fd = f /\ e.data = "ok"

(***************************************************************************)
(* The one way to count a joiner after the start is the event of the       *)
(* socketpair in the batch in which the host started; it takes the counter *)
(* up again.  As long as it is there every joiner with an event in the     *)
(* batch is counted, so the counter is not at zero before they are told.   *)
(***************************************************************************)
JoinsCounted ==
  state # "WAITING" =>
    \A e \in Events : e.fd = ServerFd =>
      /\ e.data = "freed"
      /\ ~Told(Host)
      /\ waiting >= Cardinality({f \in Joiners : Told(f)})

\* What is left of the batch in which the game was set up cannot set it up again
NoSecondStart ==
  state = "PLAYING" /\ handler = "ManageEvents" /\ batch # <<>> =>
    \/ \A e \in Events : e.fd \notin Clients
    \/ /\ \A e \in Events : e.fd # ServerFd
       /\ waiting <= 0
       /\ Head(batch).data = "freed" => waiting <= -1

Once ==
  /\ BeforeStart /\ AfterStart /\ Stopped /\ GameHandled
  /\ \A e \in Events : EventUsed(e)
  /\ JoinsCounted /\ NoSecondStart

LEMMA FewerJoiners ==
  ASSUME NEW S \in SUBSET Joiners, NEW T \in SUBSET S
  PROVE  /\ Cardinality(T) \in Nat /\ Cardinality(S) \in Nat
         /\ Cardinality(T) <= Cardinality(S)
         /\ \A f \in S \ T : Cardinality(T) <= Cardinality(S) - 1
<1>1. IsFiniteSet(S) /\ IsFiniteSet(T)
  BY RoomAssumption, FS_Subset
<1>2. Cardinality(T) \in Nat /\ Cardinality(S) \in Nat /\ Cardinality(T) <= Cardinality(S)
  BY <1>1, FS_Subset, FS_CardinalityType
<1>3. ASSUME NEW f \in S \ T
      PROVE  Cardinality(T) <= Cardinality(S) - 1
  <2>1. /\ IsFiniteSet(S \ {f}) /\ Cardinality(S \ {f}) = Cardinality(S) - 1
        /\ Cardinality(T) <= Cardinality(S \ {f})
    BY <1>1, FS_RemoveElement, FS_Subset
  <2> QED BY <2>1
<1> QED BY <1>2, <1>3

(***************************************************************************)
(* The rest of the batch.                                                  *)
(***************************************************************************)
LEMMA TailUsed ==
  ASSUME Shape, Once, batch # <<>>, batch' = Tail(batch)
  PROVE  /\ Events' \subseteq {e \in Events : e # Head(batch) /\ e.fd # Head(batch).fd}
         /\ \A e \in Events' : \/ e.data = "ok"
                               \/ e.data = "freed" /\ e.fd = ServerFd /\ state # "WAITING"
         /\ batch' # <<>> => Head(batch') \in Events'
<1>1. Events' = {e \in Events : e.fd # Head(batch).fd} /\ Batched'
  BY TailEvents DEF Shape
<1>2. \A e \in Events' : e \in EventRecords
  BY <1>1, HeadEvent DEF Shape
<1>3. ASSUME batch' # <<>>
      PROVE  Head(batch') \in Events'
  <2>1. 1 \in DOMAIN batch' /\ Head(batch') = batch'[1]
    BY <1>1, <1>3 DEF Batched
  <2> QED BY <2>1 DEF Events
<1> QED BY <1>1, <1>2, <1>3 DEF Once, EventUsed, EventRecords

\* What the handlers do that have no part in the start
Quiet ==
  /\ UNCHANGED <<state, key, waiting, handler>>
  /\ running' = running \/ (running' = FALSE /\ batch' = <<>>)
  /\ \A f \in Fds : conn'[f] = "STARTING_TO_PLAY" =>
                      "STARTING_TO_PLAY" \in {conn[f], key[f]}
  /\ running' /\ conn[Host] = "STARTING_TO_PLAY" => conn'[Host] = "STARTING_TO_PLAY"
  /\ \A f \in Joiners \union {ServerFd, TimerFd} : interest'[f] # "NONE" => interest[f] # "NONE"
  /\ UNCHANGED batch \/ batch' = <<>> \/ (batch # <<>> /\ batch' = Tail(batch))

LEMMA QuietOnce ==
  ASSUME Shape, Once, Quiet
  PROVE  Once'
<1>1. BeforeStart'
  <2>1. ASSUME state = "WAITING"
        PROVE  waiting >= Cardinality({f \in Joiners : interest'[f] # "NONE"})
    <3>1. Cardinality({f \in Joiners : interest'[f] # "NONE"})
            <= Cardinality({f \in Joiners : interest[f] # "NONE"})
      BY FewerJoiners DEF Quiet
    <3>2. /\ Cardinality({f \in Joiners : interest'[f] # "NONE"}) \in Nat
          /\ Cardinality({f \in Joiners : interest[f] # "NONE"}) \in Nat
      BY FewerJoiners
    <3> QED BY <2>1, <3>1, <3>2 DEF Once, BeforeStart, Shape, Typed
  <2> QED BY <2>1 DEF Quiet, Once, BeforeStart
<1>2. AfterStart' /\ Stopped' /\ GameHandled'
  BY DEF Quiet, Once, AfterStart, Stopped, GameHandled, Shape, Typed
<1>3. CASE UNCHANGED batch
  <2>1. Events' = Events
    BY <1>3 DEF Events
  <2>2. \A f : Told(f)' <=> Told(f)
    BY <2>1 DEF Told
  <2>3. JoinsCounted'
    BY <2>1, <2>2 DEF Quiet, Once, JoinsCounted
  <2> QED BY <1>1, <1>2, <1>3, <2>1, <2>3 DEF Quiet, Once, EventUsed, NoSecondStart
<1>4. CASE batch' = <<>>
  BY <1>1, <1>2, <1>4, NoEvents DEF Once, JoinsCounted, NoSecondStart
<1>5. CASE batch # <<>> /\ batch' = Tail(batch)
  <2>1. \A e \in Events' : EventUsed(e)'
    BY <1>5, TailUsed DEF EventUsed, Quiet
  <2>2. \A f : Told(f)' => Told(f)
    BY <1>5, TailUsed DEF Told
  <2>3. JoinsCounted'
    <3>1. /\ Cardinality({f \in Joiners : Told(f)'}) <= Cardinality({f \in Joiners : Told(f)})
          /\ Cardinality({f \in Joiners : Told(f)'}) \in Nat
          /\ Cardinality({f \in Joiners : Told(f)}) \in Nat
      BY <2>2, FewerJoiners
    <3>2. \A e \in Events' : e \in Events
      BY <1>5, TailUsed
    <3> QED BY <2>2, <3>1, <3>2 DEF Quiet, Once, JoinsCounted, Shape, Typed
  <2>4. NoSecondStart'
    BY <1>5, TailUsed DEF Quiet, Once, NoSecondStart
  <2> QED BY <1>1, <1>2, <2>1, <2>3, <2>4 DEF Once
<1> QED BY <1>3, <1>4, <1>5 DEF Quiet

LEMMA ExitQuiet ==
  ASSUME Shape, Exit, UNCHANGED <<state, key, waiting>>
  PROVE  Quiet
BY SetTyped DEF Exit, Quiet, Watchable

LEMMA ThrowQuiet ==
  ASSUME Shape, UNCHANGED <<state, key, waiting>>, NEW f \in Clients,
         NEW c \in [Fds -> PlayerStates \union {"NONE"}],
         NEW i \in [Watchable -> {"NONE", "READ", "WRITE"}],
         \A g \in Fds : c[g] = "STARTING_TO_PLAY" => conn[g] = "STARTING_TO_PLAY",
         conn[Host] = "STARTING_TO_PLAY" => c[Host] = "STARTING_TO_PLAY",
         \A g \in Joiners \union {ServerFd, TimerFd} : i[g] # "NONE" => interest[g] # "NONE",
         Throw(f, c, i)
  PROVE  Quiet
<1>1. CASE f = Host
  BY <1>1, ExitQuiet DEF Throw
<1>2. CASE f # Host
  BY <1>2 DEF Throw, DropBatch, Quiet, Shape, Typed
<1> QED BY <1>1, <1>2

LEMMA CloseQuiet ==
  ASSUME Shape, UNCHANGED <<state, key, waiting>>, batch # <<>>, NEW f \in Clients \ {Host},
         CloseConnection(f), NextEvent
  PROVE  Quiet
<1>1. /\ conn' = [conn EXCEPT ![f] = "NONE"]
      /\ interest' = [interest EXCEPT ![f] = "NONE"]
      /\ batch' = Tail(batch) /\ UNCHANGED <<running, handler>>
  BY DEF CloseConnection, NextEvent
<1>2. /\ conn \in [Fds -> PlayerStates \union {"NONE"}] /\ running \in BOOLEAN
      /\ interest \in [Watchable -> {"NONE", "READ", "WRITE"}]
  BY DEF Shape, Typed
<1>3. \A g \in Fds : conn'[g] = "STARTING_TO_PLAY" => conn[g] = "STARTING_TO_PLAY"
  BY <1>1, <1>2
<1>4. conn'[Host] = conn[Host]
  BY <1>1, <1>2, SetTyped
<1>5. \A g \in Joiners \union {ServerFd, TimerFd} : interest'[g] # "NONE" => interest[g] # "NONE"
  BY <1>1, <1>2, SetTyped DEF Watchable
<1> QED BY <1>1, <1>2, <1>3, <1>4, <1>5 DEF Quiet

LEMMA UpdateQuiet ==
  ASSUME Shape,
         NEW c \in [Fds -> PlayerStates \union {"NONE"}],
         NEW i \in [Watchable -> {"NONE", "READ", "WRITE"}],
         UpdatePlayerList(c, i)
  PROVE  /\ \A g \in Fds : conn'[g] = "STARTING_TO_PLAY" <=> c[g] = "STARTING_TO_PLAY"
         /\ \A g \in Clients : interest'[g] # "NONE" => i[g] # "NONE" \/ c[g] = "READY_TO_PLAY"
         /\ \A g \in {ServerFd, TimerFd} : interest'[g] = i[g]
BY SetTyped, RoomAssumption DEF UpdatePlayerList, Watchable

LEMMA LoginOnce ==
  ASSUME Shape, Watched, Once, NEW f \in Clients,
         HangUp(f) \/ ReadLoginSize(f) \/ ReadLogin(f) \/ (PlayerExit(f) /\ f \in Joiners)
  PROVE  Once'
<1>0. /\ batch # <<>>
      /\ interest[f] # "NONE" \/ conn[f] = "STARTING_TO_PLAY"
  BY HandledWatched DEF HangUp, ReadLoginSize, ReadLogin, PlayerExit, Goes
<1>1. /\ conn \in [Fds -> PlayerStates \union {"NONE"}]
      /\ interest \in [Watchable -> {"NONE", "READ", "WRITE"}]
  BY DEF Shape, Typed
<1>2. UNCHANGED <<state, key, waiting>>
  BY DEF HangUp, ReadLoginSize, ReadLogin, PlayerExit
<1>3. CASE HangUp(f)
  BY <1>0, <1>2, <1>3, ExitQuiet, CloseQuiet, QuietOnce DEF HangUp
<1>4. CASE ReadLoginSize(f)
  <2>1. CASE inbox[f] = <<>>
    BY <1>1, <1>2, <1>4, <2>1, ThrowQuiet, QuietOnce DEF ReadLoginSize
  <2>2. CASE inbox[f] # <<>>
    <3>1. /\ conn[f] = "ASKING_LOGIN_SIZE" /\ conn' = [conn EXCEPT ![f] = "ASKING_LOGIN"]
          /\ UNCHANGED <<interest, batch, running, handler>>
      BY <1>4, <2>2 DEF ReadLoginSize, Continue
    <3>2. Quiet
      BY <1>1, <1>2, <3>1, SetTyped DEF Quiet
    <3> QED BY <3>2, QuietOnce
  <2> QED BY <2>1, <2>2
<1>5. CASE ReadLogin(f)
  <2>1. CASE inbox[f] # <<>>
    <3> DEFINE c == [conn EXCEPT ![f] = "WRITE_PLAYERS_NUM"]
               i == [interest EXCEPT ![f] = "WRITE"]
    <3>1. /\ c \in [Fds -> PlayerStates \union {"NONE"}]
          /\ i \in [Watchable -> {"NONE", "READ", "WRITE"}]
          /\ \A g \in Fds : c[g] = IF g = f THEN "WRITE_PLAYERS_NUM" ELSE conn[g]
          /\ \A g \in Watchable : i[g] = IF g = f THEN "WRITE" ELSE interest[g]
      BY <1>1, SetTyped DEF PlayerStates
    <3>2. /\ UpdatePlayerList(c, i)
          /\ UNCHANGED <<running, handler, batch>> /\ conn[f] = "ASKING_LOGIN"
      BY <1>5, <2>1 DEF ReadLogin, Continue
    <3> HIDE DEF c, i
    <3>3. \A g \in Fds : conn'[g] = "STARTING_TO_PLAY" <=> conn[g] = "STARTING_TO_PLAY"
      BY <3>1, <3>2, UpdateQuiet
    <3>4. \A g \in Joiners : interest'[g] # "NONE" => interest[g] # "NONE"
      BY <1>0, <3>1, <3>2, UpdateQuiet, SetTyped DEF Watched, ClientWatched
    <3>5. \A g \in {ServerFd, TimerFd} : interest'[g] = interest[g]
      BY <3>1, <3>2, UpdateQuiet, RoomAssumption DEF Watchable
    <3>6. Quiet
      BY <1>2, <3>2, <3>3, <3>4, <3>5, SetTyped DEF Quiet
    <3> QED BY <3>6, QuietOnce
  <2>2. CASE inbox[f] = <<>> /\ peer[f] = "open"
    <3>1. Quiet
      BY <1>0, <1>2, <1>5, <2>2, SetTyped DEF ReadLogin, NextEvent, Quiet
    <3> QED BY <3>1, QuietOnce
  <2>3. CASE inbox[f] = <<>> /\ peer[f] # "open"
    BY <1>1, <1>2, <1>5, <2>3, ThrowQuiet, QuietOnce DEF ReadLogin
  <2> QED BY <2>1, <2>2, <2>3
<1>6. CASE PlayerExit(f) /\ f \in Joiners
  <2>1. PICK g \in {f, Junk} :
          UpdatePlayerList([conn EXCEPT ![f] = "NONE", ![g] = "ASKING_LOGIN_SIZE"],
                           [interest EXCEPT ![f] = "NONE"])
    BY <1>6 DEF PlayerExit
  <2> DEFINE c == [conn EXCEPT ![f] = "NONE", ![g] = "ASKING_LOGIN_SIZE"]
             i == [interest EXCEPT ![f] = "NONE"]
  <2>2. /\ c \in [Fds -> PlayerStates \union {"NONE"}]
        /\ i \in [Watchable -> {"NONE", "READ", "WRITE"}]
        /\ \A h \in Fds : c[h] = conn[h] \/ (c[h] \in {"NONE", "ASKING_LOGIN_SIZE"} /\ h \in {f, g})
        /\ \A h \in Watchable : i[h] = IF h = f THEN "NONE" ELSE interest[h]
    BY <1>1, SetTyped DEF PlayerStates
  <2>3. /\ UNCHANGED <<running, handler>> /\ batch' = <<>>
        /\ Host \notin {f, g} /\ conn[f] = "READY_TO_PLAY"
    BY <1>6, RoomAssumption, SetTyped DEF PlayerExit, DropBatch
  <2> HIDE DEF c, i
  <2>4. UpdatePlayerList(c, i)
    BY <2>1 DEF c, i
  <2>5. \A h \in Fds : conn'[h] = "STARTING_TO_PLAY" => conn[h] = "STARTING_TO_PLAY"
    BY <2>2, <2>4, UpdateQuiet
  <2>6. conn[Host] = "STARTING_TO_PLAY" => conn'[Host] = "STARTING_TO_PLAY"
    BY <2>2, <2>3, <2>4, UpdateQuiet, SetTyped
  <2>7. \A h \in Joiners : interest'[h] # "NONE" => interest[h] # "NONE"
    BY <2>2, <2>4, UpdateQuiet, SetTyped DEF Watched, ClientWatched
  <2>8. \A h \in {ServerFd, TimerFd} : interest'[h] = interest[h]
    BY <2>2, <2>4, UpdateQuiet, RoomAssumption, SetTyped DEF Watchable
  <2>9. Quiet
    BY <1>2, <2>3, <2>5, <2>6, <2>7, <2>8 DEF Quiet
  <2> QED BY <2>9, QuietOnce
<1> QED BY <1>3, <1>4, <1>5, <1>6

LEMMA ListOnce ==
  ASSUME Shape, Watched, Once, NEW f \in Clients, SendList(f)
  PROVE  Once'
<1>0. /\ batch # <<>>
      /\ conn[f] \in {"WRITE_PLAYERS_NUM", "WRITE_PLAYERS"}
      /\ interest[f] # "NONE" \/ conn[f] = "STARTING_TO_PLAY"
      /\ UNCHANGED <<state, key, waiting>>
  BY HandledWatched DEF SendList, Goes
<1>1. /\ conn \in [Fds -> PlayerStates \union {"NONE"}]
      /\ interest \in [Watchable -> {"NONE", "READ", "WRITE"}]
  BY DEF Shape, Typed
<1>2. /\ \A s \in PlayerStates : [LookedUp EXCEPT ![f] = s] \in [Fds -> PlayerStates \union {"NONE"}]
      /\ \A s : \A g \in Fds : g # f => [LookedUp EXCEPT ![f] = s][g] = LookedUp[g]
      /\ \A s : [LookedUp EXCEPT ![f] = s][f] = s
      /\ \A g \in Fds : LookedUp[g] = "STARTING_TO_PLAY" <=> conn[g] = "STARTING_TO_PLAY"
  BY <1>1, SetTyped DEF LookedUp, PlayerStates
<1>3. CASE CanWrite(f)
  <2>1. /\ UNCHANGED <<running, handler>>
        /\ \/ /\ conn' = [LookedUp EXCEPT ![f] = "STARTING_TO_PLAY"] /\ Starts(f)
              /\ interest' = [interest EXCEPT ![f] = "NONE"]
              /\ UNCHANGED batch
           \/ /\ conn' = [LookedUp EXCEPT ![f] = "READY_TO_PLAY"]
              /\ interest' = [interest EXCEPT ![f] = "READ"]
              /\ batch' = Tail(batch)
    BY <1>3 DEF SendList, CanWrite, Continue, NextEvent
  <2>2. /\ \A g \in Fds \ {f} : conn'[g] = LookedUp[g]
        /\ \A g \in Watchable \ {f} : interest'[g] = interest[g]
    <3>1. \E s : conn' = [LookedUp EXCEPT ![f] = s]
      BY <2>1
    <3>2. \A g \in Fds \ {f} : conn'[g] = LookedUp[g]
      BY <1>2, <3>1
    <3>3. \A g \in Watchable \ {f} : interest'[g] = interest[g]
      BY <1>1, <2>1
    <3> QED BY <3>2, <3>3
  <2>3. conn'[f] = "STARTING_TO_PLAY" => key[f] = "STARTING_TO_PLAY"
    BY <1>2, <2>1, SetTyped DEF Starts
  <2>4. \A g \in Fds : conn'[g] = "STARTING_TO_PLAY" => "STARTING_TO_PLAY" \in {conn[g], key[g]}
    BY <1>2, <2>2, <2>3
  <2>5. conn[Host] = "STARTING_TO_PLAY" => conn'[Host] = "STARTING_TO_PLAY"
    BY <1>0, <1>2, <2>2, SetTyped
  <2>6. \A g \in Joiners \union {ServerFd, TimerFd} : interest'[g] # "NONE" => interest[g] # "NONE"
    BY <1>0, <2>2, SetTyped, RoomAssumption DEF Watchable
  <2>7. Quiet
    BY <1>0, <2>1, <2>4, <2>5, <2>6 DEF Quiet
  <2> QED BY <2>7, QuietOnce
<1>4. CASE ~CanWrite(f)
  <2> DEFINE c == [LookedUp EXCEPT ![f] = "WRITE_PLAYERS"]
  <2>2. /\ c \in [Fds -> PlayerStates \union {"NONE"}] /\ c[f] = "WRITE_PLAYERS"
        /\ \A g \in Fds \ {f} : c[g] = LookedUp[g]
    BY <1>1, <1>2, SetTyped DEF PlayerStates
  <2>1. Throw(f, c, interest)
    BY <1>4 DEF SendList
  <2> HIDE DEF c
  <2>3. \A g \in Fds : c[g] = "STARTING_TO_PLAY" => conn[g] = "STARTING_TO_PLAY"
    BY <1>2, <2>2
  <2>4. conn[Host] = "STARTING_TO_PLAY" => c[Host] = "STARTING_TO_PLAY"
    BY <1>0, <1>2, <2>2, SetTyped
  <2> QED BY <1>0, <1>1, <2>1, <2>2, <2>3, <2>4, ThrowQuiet, QuietOnce
<1> QED BY <1>3, <1>4

(***************************************************************************)
(* SendStart counts down.  It is not at zero in a game that has begun, and *)
(* nothing is counted again behind a joiner that was told.                 *)
(***************************************************************************)
LEMMA StartOnce ==
  ASSUME Shape, Watched, Once, NEW f \in Clients, SendStart(f)
  PROVE  Once'
<1>0. /\ batch # <<>> /\ Head(batch).fd = f /\ Head(batch).data = "ok" /\ handler = "ManageEvents"
      /\ conn[f] = "STARTING_TO_PLAY" /\ Head(batch) \in Events
      /\ UNCHANGED <<state, key>>
  BY HeadEvent DEF SendStart, Goes, Handling, Shape
<1>1. /\ conn \in [Fds -> PlayerStates \union {"NONE"}]
      /\ interest \in [Watchable -> {"NONE", "READ", "WRITE"}]
      /\ waiting \in Int /\ state \in {"WAITING", "STARTING", "PLAYING"}
      /\ f \in Fds /\ f # ServerFd
  BY SetTyped, RoomAssumption DEF Shape, Typed
<1>2. state # "WAITING"
  BY <1>0, <1>1 DEF Once, BeforeStart
<1>3. CASE ~CanWrite(f)
  BY <1>0, <1>1, <1>3, ThrowQuiet, QuietOnce DEF SendStart
<1>4. CASE CanWrite(f)
  <2>1. /\ waiting' = waiting - 1
        /\ UNCHANGED <<conn, interest, running, handler>>
        /\ \/ waiting' = 0 /\ batch' = [batch EXCEPT ![1].data = "start"]
           \/ waiting' # 0 /\ batch' = [batch EXCEPT ![1].data = "freed"]
           \/ waiting' # 0 /\ batch' = Tail(batch)
    BY <1>1, <1>4 DEF SendStart, NobodyWaits, ContinueWith, Return, NextEvent
  <2>2. state = "PLAYING" => /\ \A e \in Events : e.fd # ServerFd
                             /\ waiting <= 0
    BY <1>0 DEF Once, NoSecondStart
  <2>3. /\ Batched'
        /\ Events' \subseteq {e \in Events : e.fd # f} \union {Head(batch')}
        /\ \/ batch' = Tail(batch) /\ Events' \subseteq {e \in Events : e.fd # f}
           \/ batch' # <<>> /\ Head(batch').fd = f /\ Head(batch').data \in {"start", "freed"}
    <3>1. CASE batch' = Tail(batch)
      BY <1>0, <3>1, TailEvents DEF Shape
    <3>2. ASSUME NEW d \in {"start", "freed"}, batch' = [batch EXCEPT ![1].data = d]
          PROVE  /\ Batched' /\ batch' # <<>>
                 /\ Events' = {e \in Events : e.fd # f} \union {Head(batch')}
                 /\ Head(batch').fd = f /\ Head(batch').data = d
      BY <1>0, <3>2, HeadChanges, HeadEvent DEF Shape, EventRecords
    <3> QED BY <2>1, <3>1, <3>2
  <2>4. ASSUME NEW e \in Events, e.fd # f
        PROVE  e.data = "ok" \/ (e.data = "freed" /\ e.fd = ServerFd)
    BY <1>0, <2>4, HeadEvent DEF Once, EventUsed, EventRecords, Shape
  <2>5. \A e \in Events' : e.fd # f => e \in Events
    BY <2>3
  <2>6. \A e \in Events' : EventUsed(e)'
    <3>1. ASSUME NEW e \in Events', e.fd # f
          PROVE  EventUsed(e)'
      BY <1>0, <1>2, <2>4, <2>5, <3>1 DEF EventUsed
    <3>2. ASSUME NEW e \in Events', e.fd = f
          PROVE  EventUsed(e)'
      <4>1. e = Head(batch')
        BY <2>3, <3>2
      <4>2. e.data = "start" => waiting' = 0
        <5>1. batch' = [batch EXCEPT ![1].data = "freed"] => Head(batch').data = "freed"
          BY <1>0, HeadChanges, HeadEvent DEF Shape, EventRecords
        <5>2. batch' # Tail(batch)
          BY <1>0, <3>2, TailEvents DEF Shape
        <5> QED BY <2>1, <4>1, <5>1, <5>2
      <4>3. waiting' = 0 => state = "STARTING"
        BY <1>1, <1>2, <2>1, <2>2
      <4> QED BY <1>0, <1>2, <4>1, <4>2, <4>3 DEF EventUsed
    <3> QED BY <3>1, <3>2
  <2>7. JoinsCounted'
    <3>1. ASSUME NEW e \in Events', e.fd = ServerFd
          PROVE  /\ e.data = "freed" /\ ~Told(Host)'
                 /\ waiting' >= Cardinality({g \in Joiners : Told(g)'})
      <4>1. e \in Events
        BY <1>1, <2>5, <3>1
      <4>2. /\ e.data = "freed" /\ ~Told(Host)
            /\ waiting >= Cardinality({g \in Joiners : Told(g)})
        BY <1>2, <3>1, <4>1 DEF Once, JoinsCounted
      <4>3. Told(f)
        BY <1>0 DEF Told
      <4>4. f \in Joiners
        BY <4>2, <4>3 DEF Clients
      <4>5. \A x \in Events' : x.data = "ok" => x \in Events /\ x.fd # f
        BY <2>3, <2>5
      <4>6. \A g : Told(g)' => Told(g) /\ g # f
        BY <4>5 DEF Told
      <4>7. /\ Cardinality({g \in Joiners : Told(g)'}) <= Cardinality({g \in Joiners : Told(g)}) - 1
            /\ Cardinality({g \in Joiners : Told(g)'}) \in Nat
            /\ Cardinality({g \in Joiners : Told(g)}) \in Nat
        <5> DEFINE S == {g \in Joiners : Told(g)}
                   T == {g \in Joiners : Told(g)'}
        <5>1. S \in SUBSET Joiners /\ T \in SUBSET S /\ f \in S \ T
          BY <4>3, <4>4, <4>6
        <5> HIDE DEF S, T
        <5>2. Cardinality(T) <= Cardinality(S) - 1 /\ Cardinality(T) \in Nat /\ Cardinality(S) \in Nat
          BY <5>1, FewerJoiners
        <5> QED BY <5>2 DEF S, T
      <4> QED BY <1>1, <2>1, <4>2, <4>6, <4>7
    <3> QED BY <3>1 DEF JoinsCounted
  <2>8. NoSecondStart'
    BY <1>0, <1>1, <2>1, <2>2, <2>5 DEF NoSecondStart
  <2>9. BeforeStart' /\ AfterStart' /\ Stopped' /\ GameHandled'
    BY <1>0, <1>2, <2>1 DEF Once, BeforeStart, AfterStart, Stopped, GameHandled
  <2> QED BY <2>6, <2>7, <2>8, <2>9 DEF Once
<1> QED BY <1>3, <1>4

(***************************************************************************)
(* StartGame runs with nobody waiting, so what is left of the batch is     *)
(* clients of whom the counter goes below zero, or the descriptor of the   *)
(* socketpair alone.                                                       *)
(***************************************************************************)
LEMMA GameStartOnce ==
  ASSUME Shape, Watched, Once, NEW f \in Clients, StartGame(f)
  PROVE  Once'
<1>0. /\ batch # <<>> /\ handler = "ManageEvents"
      /\ Head(batch) \in Events /\ Head(batch).fd = f /\ Head(batch).data = "start"
      /\ state' = "PLAYING" /\ UNCHANGED <<key, waiting>>
  BY HeadEvent DEF StartGame, Shape
<1>1. waiting = 0 /\ state = "STARTING"
  BY <1>0 DEF Once, EventUsed
<1>2. /\ conn \in [Fds -> PlayerStates \union {"NONE"}]
      /\ interest \in [Watchable -> {"NONE", "READ", "WRITE"}]
      /\ Entries \subseteq Fds /\ ServerFd \notin Fds /\ ServerFd # TimerFd
      /\ ServerFd \in Watchable
  BY RoomAssumption DEF Shape, Typed, Entries, Fds, Watchable
<1>3. /\ UNCHANGED handler
      /\ UNCHANGED running \/ (running' = FALSE /\ batch' = <<>>)
      /\ batch' = <<>> \/ (batch' = Tail(batch) /\ UNCHANGED <<running, conn>>)
      /\ running' => conn' = conn
      /\ interest'[ServerFd] \in {interest[ServerFd], "NONE"}
  BY <1>0, <1>2 DEF StartGame, Throw, Exit, DropBatch, NextEvent
<1>4. BeforeStart' /\ AfterStart' /\ Stopped' /\ GameHandled'
  BY <1>0, <1>1, <1>3 DEF Once, BeforeStart, AfterStart, Stopped, GameHandled
<1>5. CASE batch' = <<>>
  BY <1>0, <1>4, <1>5, NoEvents DEF Once, JoinsCounted, NoSecondStart
<1>6. CASE batch' = Tail(batch)
  <2>1. /\ \A e \in Events' : e \in Events
        /\ \A e \in Events' : e.data = "ok" \/ (e.data = "freed" /\ e.fd = ServerFd)
        /\ batch' # <<>> => Head(batch') \in Events'
    BY <1>0, <1>6, TailUsed
  <2>2. \A e \in Events' : EventUsed(e)'
    BY <1>0, <2>1 DEF EventUsed
  <2>3. ASSUME NEW e \in Events', e.fd = ServerFd
        PROVE  /\ e.data = "freed" /\ ~Told(Host)
               /\ \A g \in Joiners : ~Told(g)
    <3>1. /\ e.data = "freed" /\ ~Told(Host)
          /\ waiting >= Cardinality({g \in Joiners : Told(g)})
      BY <1>1, <2>1, <2>3 DEF Once, JoinsCounted
    <3>2. IsFiniteSet({g \in Joiners : Told(g)})
      BY RoomAssumption, FS_Subset
    <3>3. {g \in Joiners : Told(g)} = {}
      BY <1>1, <3>1, <3>2, FS_CardinalityType, FS_EmptySet
    <3> QED BY <3>1, <3>3
  <2>4. \A g : Told(g)' => Told(g)
    BY <2>1 DEF Told
  <2>5. JoinsCounted'
    <3>1. ASSUME NEW e \in Events', e.fd = ServerFd
          PROVE  waiting' >= Cardinality({g \in Joiners : Told(g)'})
      <4>1. {g \in Joiners : Told(g)'} = {}
        BY <2>3, <2>4, <3>1
      <4>2. Cardinality({g \in Joiners : Told(g)'}) = 0
        BY <4>1, FS_EmptySet, Zenon
      <4> QED BY <1>0, <1>1, <4>2
    <3> QED BY <2>3, <2>4, <3>1 DEF JoinsCounted
  <2>6. NoSecondStart'
    <3>1. CASE \E e \in Events' : e.fd = ServerFd
      <4>1. \A g \in Clients : ~Told(g)
        BY <2>3, <3>1 DEF Clients
      <4>2. \A e \in Events' : e.fd \notin Clients
        BY <2>1, <4>1, RoomAssumption DEF Told
      <4> QED BY <4>2 DEF NoSecondStart
    <3>2. CASE ~ \E e \in Events' : e.fd = ServerFd
      BY <1>0, <1>1, <2>1, <3>2 DEF NoSecondStart
    <3> QED BY <3>1, <3>2
  <2> QED BY <1>4, <2>2, <2>5, <2>6 DEF Once
<1> QED BY <1>3, <1>5, <1>6

LEMMA HostOnce ==
  ASSUME Shape, Watched, Once, ManageHost
  PROVE  Once'
<1>0. /\ batch # <<>> /\ Head(batch) \in Events /\ Head(batch).fd = Host
      /\ handler = "ManageEvents" /\ conn[Host] = "READY_TO_PLAY" /\ UNCHANGED waiting
  BY HeadEvent DEF ManageHost, Goes, Handling, Shape
<1>1. CASE inbox[Host] = <<>>
  <2>1. Quiet
    BY <1>1, ExitQuiet DEF ManageHost
  <2> QED BY <2>1, QuietOnce
<1>2. CASE inbox[Host] # <<>>
  <2>1. state = "WAITING"
    BY <1>0 DEF Once, AfterStart, Stopped, Shape, Typed
  <2>2. /\ state' = "STARTING" /\ UNCHANGED <<running, handler>>
        /\ conn'[Host] = "STARTING_TO_PLAY"
        /\ interest'[ServerFd] = "NONE"
        /\ interest'[TimerFd] = interest[TimerFd]
    BY <1>0, <1>2, SetTyped, RoomAssumption DEF ManageHost, Watchable
  <2>3. /\ BeforeStart' /\ AfterStart' /\ GameHandled' /\ NoSecondStart'
        /\ Stopped'
    BY <1>0, <2>1, <2>2 DEF Once, BeforeStart, AfterStart, Stopped, GameHandled, NoSecondStart
  <2>4. ASSUME NEW e \in Events'
        PROVE  /\ e.fd # Host
               /\ e.fd = ServerFd => e.data = "freed"
               /\ e.fd # ServerFd => e \in Events /\ e.data = "ok"
    <3>1. PICK d \in Events : /\ d.fd # Host
                              /\ e = IF d.fd = ServerFd THEN [d EXCEPT !.data = "freed"] ELSE d
      BY HostEvents
    <3>2. d \in EventRecords /\ d.data = "ok"
      BY <1>0, <2>1, HeadEvent DEF Shape, Once, EventUsed, EventRecords
    <3> QED BY <3>1, <3>2 DEF EventRecords
  <2>5. \A e \in Events' : EventUsed(e)'
    BY <2>2, <2>4 DEF EventUsed
  <2>6. \A g \in Joiners : Told(g)' => interest[g] # "NONE"
    <3>1. ASSUME NEW g \in Joiners, NEW e \in Events', e.fd = g
          PROVE  interest[g] # "NONE"
      <4>1. e \in Events /\ e.data = "ok" /\ e.fd # Host /\ g \in Clients
        BY <2>4, <3>1, SetTyped, RoomAssumption
      <4> QED BY <1>0, <3>1, <4>1 DEF Watched, BatchWatched, EventWatched
    <3> QED BY <3>1 DEF Told
  <2>7. waiting' >= Cardinality({g \in Joiners : Told(g)'})
    <3> DEFINE S == {g \in Joiners : interest[g] # "NONE"}
               T == {g \in Joiners : Told(g)'}
    <3>1. S \in SUBSET Joiners /\ T \in SUBSET S
      BY <2>6
    <3>2. waiting >= Cardinality(S) /\ waiting \in Int
      BY <2>1 DEF Once, BeforeStart, Shape, Typed
    <3> HIDE DEF S, T
    <3>3. waiting' >= Cardinality(T)
      BY <1>0, <3>1, <3>2, FewerJoiners
    <3> QED BY <3>3 DEF T
  <2>8. JoinsCounted'
    BY <2>4, <2>7 DEF JoinsCounted, Told
  <2> QED BY <2>3, <2>5, <2>8 DEF Once
<1> QED BY <1>1, <1>2

(***************************************************************************)
(* A joiner that is registered is counted, and one that comes in through   *)
(* the memory freed in SendStart takes the counter to zero at most.        *)
(***************************************************************************)
LEMMA AddOnce ==
  ASSUME Shape, Watched, Once, batch # <<>>, NEW f \in Fds \ {Host}, AddPlayer(f),
         Head(batch).fd = ServerFd \/ Head(batch).data = "freed", UNCHANGED state
  PROVE  Once'
<1>1. /\ conn \in [Fds -> PlayerStates \union {"NONE"}]
      /\ key \in [Fds -> PlayerStates] /\ waiting \in Int
      /\ interest \in [Watchable -> {"NONE", "READ", "WRITE"}]
      /\ Head(batch) \in Events
  BY HeadEvent DEF Shape, Typed
<1>2. /\ conn' = [conn EXCEPT ![f] = "ASKING_LOGIN_SIZE"]
      /\ key' = [key EXCEPT ![f] = "READY_TO_PLAY"]
      /\ UNCHANGED <<running, handler>>
      /\ \/ /\ f \in Clients \ closed
            /\ interest' = [interest EXCEPT ![f] = "READ"] /\ batch' = Tail(batch)
            /\ waiting' = waiting + 1
         \/ UNCHANGED <<interest, waiting>> /\ batch' = <<>>
  BY DEF AddPlayer, AddEvent, NextEvent, DropBatch, JoinerKey, Counted
<1>3. \A g \in Fds : /\ conn'[g] = IF g = f THEN "ASKING_LOGIN_SIZE" ELSE conn[g]
                     /\ key'[g] = IF g = f THEN "READY_TO_PLAY" ELSE key[g]
  BY <1>1, <1>2
<1>4. \/ UNCHANGED <<interest, waiting>>
      \/ /\ f \in Joiners /\ waiting' = waiting + 1
         /\ \A g \in Watchable \ {f} : interest'[g] = interest[g]
  BY <1>1, <1>2 DEF Clients
<1>5. BeforeStart'
  <2>1. ASSUME waiting >= Cardinality({g \in Joiners : interest[g] # "NONE"})
        PROVE  waiting' >= Cardinality({g \in Joiners : interest'[g] # "NONE"})
    <3>1. CASE UNCHANGED <<interest, waiting>>
      BY <2>1, <3>1
    <3>2. CASE /\ f \in Joiners /\ waiting' = waiting + 1
               /\ \A g \in Watchable \ {f} : interest'[g] = interest[g]
      <4> DEFINE S == {g \in Joiners : interest[g] # "NONE"}
                 T == {g \in Joiners : interest'[g] # "NONE"}
      <4>1. T \subseteq S \union {f} /\ S \union {f} \subseteq Joiners /\ S \subseteq Joiners
        BY <3>2, SetTyped
      <4>2. waiting >= Cardinality(S)
        BY <2>1
      <4> HIDE DEF S, T
      <4>3. IsFiniteSet(S) /\ IsFiniteSet(S \union {f}) /\ IsFiniteSet(T)
        BY <4>1, RoomAssumption, FS_Subset
      <4>4. Cardinality(S \union {f}) <= Cardinality(S) + 1
        BY <4>3, FS_AddElement, FS_CardinalityType
      <4>5. Cardinality(T) <= Cardinality(S \union {f})
        BY <4>1, <4>3, FS_Subset
      <4>6. Cardinality(S) \in Nat /\ Cardinality(T) \in Nat /\ Cardinality(S \union {f}) \in Nat
        BY <4>3, FS_CardinalityType
      <4>7. waiting' >= Cardinality(T)
        BY <1>1, <3>2, <4>2, <4>4, <4>5, <4>6
      <4> QED BY <4>7 DEF T
    <3> QED BY <1>4, <3>1, <3>2
  <2> QED BY <1>3, <2>1 DEF Once, BeforeStart
<1>6. AfterStart' /\ Stopped' /\ GameHandled'
  <2>1. interest'[ServerFd] = interest[ServerFd] /\ interest'[TimerFd] = interest[TimerFd]
    BY <1>4, SetTyped, RoomAssumption DEF Watchable
  <2> QED BY <1>2, <1>3, <2>1, SetTyped DEF Once, AfterStart, Stopped, GameHandled
<1>7. CASE batch' = <<>>
  BY <1>5, <1>6, <1>7, NoEvents DEF Once, JoinsCounted, NoSecondStart
<1>8. CASE batch' = Tail(batch)
  <2>1. /\ \A e \in Events' : e \in Events
        /\ \A e \in Events' : \/ e.data = "ok"
                              \/ e.data = "freed" /\ e.fd = ServerFd /\ state # "WAITING"
        /\ batch' # <<>> => Head(batch') \in Events'
    BY <1>8, TailUsed
  <2>2. \A e \in Events' : EventUsed(e)'
    BY <2>1 DEF EventUsed
  <2>3. JoinsCounted'
    <3>1. \A g : Told(g)' => Told(g)
      BY <2>1 DEF Told
    <3>2. /\ Cardinality({g \in Joiners : Told(g)'}) <= Cardinality({g \in Joiners : Told(g)})
          /\ Cardinality({g \in Joiners : Told(g)'}) \in Nat
          /\ Cardinality({g \in Joiners : Told(g)}) \in Nat
      BY <3>1, FewerJoiners
    <3>3. waiting' >= waiting
      BY <1>1, <1>4
    <3> QED BY <1>1, <1>4, <2>1, <3>1, <3>2, <3>3 DEF Once, JoinsCounted
  <2>4. NoSecondStart'
    BY <1>1, <1>2, <1>4, <2>1 DEF Once, NoSecondStart
  <2> QED BY <1>5, <1>6, <2>2, <2>3, <2>4 DEF Once
<1> QED BY <1>2, <1>7, <1>8

LEMMA JoinOnce ==
  ASSUME Shape, Watched, Once, Receive \/ Freed
  PROVE  Once'
<1>1. batch # <<>> /\ UNCHANGED state
  BY DEF Receive, Freed, Handling
<1>2. Head(batch).fd = ServerFd => Head(pipe) \in Fds \ {Host}
  <2>1. Head(batch).fd = ServerFd => Head(pipe) \in Joiners
    BY <1>1, HeadEvent DEF Shape, PipeWaits, Typed
  <2> QED BY <2>1, SetTyped, RoomAssumption
<1>3. \A g \in (players \ {Host}) \union {Junk} : g \in Fds \ {Host}
  BY RoomAssumption, SetTyped DEF Shape, Typed, Fds
<1>4. CASE Receive
  BY <1>1, <1>2, <1>4, AddOnce DEF Receive, Handling
<1>5. CASE Freed
  <2>1. CASE NextEvent /\ UNCHANGED <<entries, interest>>
    <3>1. Quiet
      BY <1>1, <2>1 DEF NextEvent, Quiet, entries
    <3> QED BY <3>1, QuietOnce
  <2>2. CASE \E g \in Fds \ {Host} : AddPlayer(g)
    BY <1>1, <1>5, <2>2, AddOnce DEF Freed
  <2> QED BY <1>2, <1>3, <1>5, <2>1, <2>2 DEF Freed
<1> QED BY <1>4, <1>5

LEMMA GameOnce ==
  ASSUME Shape, Once, ManageGame
  PROVE  Once'
<1>1. ASSUME NEW f \in Clients, GameHangUp(f)
      PROVE  Quiet
  BY <1>1, ExitQuiet, CloseQuiet DEF GameHangUp, Handling
<1>2. ASSUME NEW f \in Joiners, ManagePlayerEvent(f)
      PROVE  Quiet
  <2>1. /\ f \in Clients \ {Host} /\ batch # <<>> /\ NextEvent
        /\ UNCHANGED <<state, key, waiting>>
    BY <1>2, SetTyped, RoomAssumption DEF ManagePlayerEvent, Goes, Handling
  <2>2. CASE CloseConnection(f)
    BY <2>1, <2>2, CloseQuiet
  <2>3. CASE UNCHANGED <<conn, interest, closed>>
    BY <2>1, <2>3 DEF NextEvent, Quiet
  <2> QED BY <1>2, <2>2, <2>3 DEF ManagePlayerEvent
<1>3. CASE IgnoreHost
  <2>1. Quiet
    BY <1>3 DEF IgnoreHost, Goes, Handling, NextEvent, Quiet, entries
  <2> QED BY <2>1, QuietOnce
<1>4. CASE ApplyGameChanges
  <2>1. batch # <<>> /\ UNCHANGED <<state, key, waiting>>
    BY <1>4 DEF ApplyGameChanges, Handling
  <2>2. CASE Exit
    BY <2>1, <2>2, ExitQuiet, QuietOnce
  <2>3. CASE UNCHANGED <<conn, interest>> /\ (NextEvent \/ DropBatch)
    <3>1. Quiet
      BY <2>1, <2>3 DEF NextEvent, DropBatch, Quiet
    <3> QED BY <3>1, QuietOnce
  <2> QED BY <1>4, <2>2, <2>3 DEF ApplyGameChanges
<1> QED BY <1>1, <1>2, <1>3, <1>4, QuietOnce DEF ManageGame

LEMMA OutsideOnce ==
  ASSUME Shape, Once, Environment \/ Wait \/ UNCHANGED vars
  PROVE  Once'
<1>1. CASE Environment \/ UNCHANGED vars
  <2>1. UNCHANGED <<state, key, waiting, handler, running, conn, interest, batch>>
    BY <1>1 DEF Environment, Join, SendLogin, Command, Leave, Reset, HostReads, HostStart,
       TimerExpires, room, entries, vars
  <2>2. Quiet
    BY <2>1 DEF Quiet
  <2> QED BY <2>2, QuietOnce
<1>2. CASE Wait
  <2>1. /\ UNCHANGED <<state, running, conn, key, waiting, interest>>
        /\ running
        /\ handler' = (IF state = "PLAYING" THEN "ManageGame" ELSE "ManageEvents")
    BY <1>2 DEF Wait, entries
  <2>2. \A e \in Events' : e.data = "ok" /\ interest[e.fd] # "NONE"
    BY <1>2, WaitBatched DEF Shape, Typed
  <2>3. BeforeStart' /\ AfterStart' /\ Stopped' /\ GameHandled' /\ NoSecondStart'
    BY <2>1 DEF Once, BeforeStart, AfterStart, Stopped, GameHandled, NoSecondStart
  <2>4. \A e \in Events' : EventUsed(e)'
    BY <2>2 DEF EventUsed
  <2>5. JoinsCounted'
    BY <2>1, <2>2 DEF Once, AfterStart, JoinsCounted
  <2> QED BY <2>3, <2>4, <2>5 DEF Once
<1> QED BY <1>1, <1>2

LEMMA NextOnce ==
  ASSUME Shape, Watched, Once, [Next]_vars
  PROVE  Once'
BY LoginOnce, ListOnce, StartOnce, GameStartOnce, HostOnce, JoinOnce, GameOnce, OutsideOnce,
   SetTyped DEF Next, Run, ManageEvents

(***************************************************************************)
(* key_state of the creator is not initialised.  Were it STARTING_TO_PLAY  *)
(* the host would be told to start as soon as it has logged in.            *)
(***************************************************************************)
KeyHarmless == "STARTING_TO_PLAY" \notin HostKeys

LEMMA InitOnce ==
  ASSUME KeyHarmless, Init
  PROVE  Once
<1>1. \A f \in Fds : key[f] # "STARTING_TO_PLAY" /\ conn[f] # "STARTING_TO_PLAY"
  BY DEF KeyHarmless, Init
<1>2. {f \in Joiners : interest[f] # "NONE"} = {}
  BY SetTyped, RoomAssumption DEF Init
<1>3. Events = {}
  BY DEF Init, Events
<1>4. interest[TimerFd] = "NONE"
  BY SetTyped, RoomAssumption DEF Init, Watchable
<1>5. BeforeStart
  <2>1. Cardinality({f \in Joiners : interest[f] # "NONE"}) = 0
    BY <1>2, FS_EmptySet, Zenon
  <2> QED BY <1>1, <2>1 DEF Init, BeforeStart
<1> QED BY <1>3, <1>4, <1>5
        DEF Init, Once, AfterStart, Stopped, GameHandled, JoinsCounted, NoSecondStart

LEMMA AlwaysOnce ==
  ASSUME KeyHarmless
  PROVE  Spec => []Once
<1>1. Shape /\ Watched /\ Once /\ [Next]_vars => Once'
  BY NextOnce
<1>2. Init => Once
  BY InitOnce
<1> QED BY <1>1, <1>2, AlwaysShape, AlwaysWatched, PTL DEF Spec

(***************************************************************************)
(* waiting_persons_ is decremented by SendStart, incremented by AddPlayer, *)
(* also after the start and also through freed memory, and may go below    *)
(* zero.  Still no batch, of however many joiners, gets it to zero twice:  *)
(* StartGame is called once, and the timer is set for a game that was set  *)
(* up.                                                                     *)
(***************************************************************************)
THEOREM StartsOnce ==
  ASSUME KeyHarmless
  PROVE  Spec => []OneGame
<1>1. Shape /\ Once => OneGame
  BY HeadEvent DEF Shape, Once, EventUsed, GameHandled, OneGame
<1> QED BY <1>1, AlwaysShape, AlwaysOnce, PTL

-----------------------------------------------------------------------------
(* The room implements the elimination.                                    *)

\* What Contest sees of the room
remaining == IF state = "PLAYING" THEN alive ELSE Fds \ {Host}

LEMMA AtMostOne ==
  ASSUME NEW S, IsFiniteSet(S), Cardinality(S) <= 1
  PROVE  \A p, q \in S : p = q
<1>1. Cardinality(S) = 0 \/ Cardinality(S) = 1
  BY FS_CardinalityType
<1>2. CASE Cardinality(S) = 0
  BY <1>2, FS_EmptySet
<1>3. CASE Cardinality(S) = 1
  BY <1>3, FS_Singleton
<1> QED BY <1>1, <1>2, <1>3

LEMMA NextContest ==
  ASSUME Shape, Once, [Next]_vars
  PROVE  [Contest!Next]_<<remaining, ended>>
<1>0. alive \subseteq Fds \ {Host} /\ players \subseteq Fds /\ ended \in BOOLEAN
  BY DEF Shape, Typed
<1>1. ASSUME UNCHANGED <<state, alive, ended>>
      PROVE  UNCHANGED <<remaining, ended>>
  BY <1>1 DEF remaining
<1>2. ASSUME NEW f \in Clients,
             HangUp(f) \/ ReadLoginSize(f) \/ ReadLogin(f) \/ SendList(f) \/ SendStart(f)
             \/ PlayerExit(f)
      PROVE  UNCHANGED <<state, alive, ended>>
  BY <1>2 DEF HangUp, ReadLoginSize, ReadLogin, SendList, SendStart, PlayerExit, game
<1>3. ASSUME Receive \/ Freed \/ Environment \/ Wait \/ UNCHANGED vars \/ IgnoreHost
      PROVE  UNCHANGED <<state, alive, ended>>
  BY <1>3 DEF Receive, Freed, Environment, Join, SendLogin, Command, Leave, Reset, HostReads,
     HostStart, TimerExpires, Wait, IgnoreHost, room, game, vars
<1>4. CASE ManageHost
  <2>1. UNCHANGED <<alive, ended>> /\ state' \in {state, "STARTING"}
    BY <1>4 DEF ManageHost, game
  <2>2. state = "WAITING"
    <3>1. conn[Host] = "READY_TO_PLAY" /\ batch # <<>>
      BY <1>4 DEF ManageHost, Goes, Handling
    <3> QED BY <3>1 DEF Once, AfterStart, Stopped, Shape, Typed
  <2> QED BY <2>1, <2>2 DEF remaining
<1>5. ASSUME NEW f \in Clients, StartGame(f)
      PROVE  Contest!Next
  <2>1. state = "STARTING"
    BY <1>5, HeadEvent DEF StartGame, Shape, Once, EventUsed
  <2>2. state' = "PLAYING" /\ alive' \subseteq Fds \ {Host} /\ UNCHANGED ended
    BY <1>0, <1>5 DEF StartGame
  <2>3. remaining' \in SUBSET remaining
    BY <2>1, <2>2 DEF remaining
  <2> QED BY <2>2, <2>3 DEF Contest!Next, remaining
<1>6. ASSUME (\E f \in Clients : GameHangUp(f)) \/ (\E f \in Joiners : ManagePlayerEvent(f))
             \/ ApplyGameChanges
      PROVE  Contest!Next
  <2>1. state = "PLAYING" /\ state' = state
    BY <1>6 DEF GameHangUp, ManagePlayerEvent, ApplyGameChanges, Goes, Handling, Once,
       GameHandled
  <2>2. remaining = alive /\ remaining' = alive'
    BY <2>1 DEF remaining
  <2>3. alive' \in SUBSET alive
    BY <1>6 DEF GameHangUp, ManagePlayerEvent, ApplyGameChanges
  <2>4. UNCHANGED ended \/ (ended' = TRUE /\ \A p, q \in alive' : p = q)
    <3>1. CASE ApplyGameChanges
      <4>1. IsFiniteSet(alive')
        <5>1. IsFiniteSet(Joiners) /\ IsFiniteSet({Junk})
          BY RoomAssumption, FS_Singleton
        <5>2. alive' \subseteq Joiners \union {Junk}
          BY <1>0, <2>3 DEF Fds, Clients
        <5> QED BY <5>1, <5>2, FS_Union, FS_Subset
      <4>2. ended' = (ended \/ Cardinality(alive') <= 1)
        BY <3>1 DEF ApplyGameChanges, GameOver
      <4>3. CASE Cardinality(alive') <= 1
        BY <4>1, <4>2, <4>3, AtMostOne
      <4>4. CASE ~(Cardinality(alive') <= 1)
        BY <1>0, <4>2, <4>4
      <4> QED BY <4>3, <4>4
    <3>2. CASE ~ApplyGameChanges
      BY <1>6, <3>2 DEF GameHangUp, ManagePlayerEvent
    <3> QED BY <3>1, <3>2
  <2> QED BY <2>1, <2>2, <2>3, <2>4 DEF Contest!Next, Contest!Decided, remaining
<1> QED BY <1>1, <1>2, <1>3, <1>4, <1>5, <1>6, SetTyped DEF Next, Run, ManageEvents, ManageGame

(***************************************************************************)
(* The refinement: to everybody outside, a room is the elimination that    *)
(* the engine (module Game) implements as well.  Nobody is let into a game *)
(* that has begun: StartGame, the only handler that fills game_, runs      *)
(* once, and before it whatever players_ holds was among those who may be. *)
(***************************************************************************)
THEOREM ContestHosted ==
  ASSUME KeyHarmless
  PROVE  Spec => HostsContest
<1>1. Init => Contest!Init
  BY DEF Init, Contest!Init
<1>2. Shape /\ Once /\ [Next]_vars => [Contest!Next]_<<remaining, ended>>
  BY NextContest
<1> QED BY <1>1, <1>2, AlwaysShape, AlwaysOnce, PTL
        DEF Spec, HostsContest, Contest!Spec, remaining
=============================================================================
