---------------------------- MODULE ShutdownProofs ----------------------------
(***************************************************************************)
(* Theorems about Shutdown, for any number of rooms and both ways to start *)
(* the server: types, the order in which main and the rooms end, and why a *)
(* daemon outlives what its clients do.                                    *)
(***************************************************************************)
EXTENDS Shutdown, TLAPS

\* The destructor only goes through rooms after the loop, and never goes back
InOrder == main \in {"LOADED", "MASKED", "CONFIGURED", "TEST", "WAIT", "CLOSE"} => told = {}

\* A thread that may still run is in rooms_, so that it will be joined
Listed == \A r \in Rooms : thread[r] \notin {"NONE", "ENDED"} => r \in rooms

\* The mask is set before the handlers, and a handler for SIGTERM comes with one for SIGINT
Prepared ==
  /\ main = "MASKED" => masked = (type = "DAEMON")
  /\ onTerm # "DEFAULT" => onInt # "DEFAULT" /\ (type = "DAEMON" => masked)

IInv ==
  /\ TypeOK
  /\ InOrder
  /\ Listed
  /\ Prepared
  /\ NobodyLeftBehind
  /\ DaemonSurvives

LEMMA InitIInv == Init => IInv
BY ShutdownAssumption
DEF Init, IInv, TypeOK, InOrder, Listed, Prepared, NobodyLeftBehind, DaemonSurvives

(***************************************************************************)
(* Main's steps: the start, the loop and the destructor.                   *)
(***************************************************************************)
LEMMA MainIInv ==
  ASSUME IInv,
         \/ Start \/ Test \/ Serve \/ Destroy
         \/ \E r \in Rooms : CreateRoom(r) \/ RoomHangUp(r)
  PROVE  IInv'
<1>1. ASSUME Start \/ Test \/ Serve
      PROVE  IInv'
  <2> USE DEF IInv, TypeOK, InOrder, Listed, Prepared, NobodyLeftBehind, DaemonSurvives, Main,
              roomvars, flags, handlers
  <2>1. CASE ConfigureDaemon
    BY <2>1 DEF ConfigureDaemon, BlocksPipe
  <2>2. CASE ConfigureSignals
    BY <2>2 DEF ConfigureSignals
  <2>3. CASE InitServer
    BY <2>3 DEF InitServer
  <2>4. CASE Test
    BY <2>4 DEF Test, GoesOn
  <2>5. CASE Serve
    BY <2>5 DEF Serve, Writes
  <2> QED BY <1>1, <2>1, <2>2, <2>3, <2>4, <2>5 DEF Start
<1>2. ASSUME Destroy
      PROVE  IInv'
  <2>1. ASSUME CloseConnections \/ AllInterrupted \/ JoinRooms
        PROVE  IInv'
    BY <2>1
    DEF IInv, TypeOK, InOrder, Listed, Prepared, NobodyLeftBehind, DaemonSurvives,
        CloseConnections, AllInterrupted, JoinRooms, Joined, Main, roomvars, flags, handlers
  <2>2. ASSUME NEW r \in Rooms, InterruptRoom(r)
        PROVE  IInv'
    <3>1. PICK place \in Interrupted(thread[r], "SLEEP", "TEST") :
            thread' = [thread EXCEPT ![r] = place]
      BY <2>2 DEF InterruptRoom
    <3>2. place = thread[r] \/ (thread[r] = "SLEEP" /\ place = "TEST")
      BY DEF Interrupted
    <3>3. TypeOK'
      BY <2>2, <3>1, <3>2
      DEF InterruptRoom, IInv, TypeOK, Main, Handle, InputClosed, handlers
    <3>4. Listed'
      BY <2>2, <3>1, <3>2 DEF InterruptRoom, IInv, TypeOK, Listed
    <3>5. InOrder' /\ Prepared' /\ NobodyLeftBehind' /\ DaemonSurvives'
      BY <2>2
      DEF InterruptRoom, IInv, InOrder, Prepared, NobodyLeftBehind, DaemonSurvives, Main,
          handlers
    <3> QED BY <3>3, <3>4, <3>5 DEF IInv
  <2> QED BY <1>2, <2>1, <2>2 DEF Destroy
<1>3. ASSUME NEW r \in Rooms, CreateRoom(r) \/ RoomHangUp(r)
      PROVE  IInv'
  BY <1>3
  DEF IInv, TypeOK, InOrder, Listed, Prepared, NobodyLeftBehind, DaemonSurvives,
      CreateRoom, RoomHangUp, Main, flags, handlers
<1> QED BY <1>1, <1>2, <1>3

(***************************************************************************)
(* The steps of a room's thread.                                           *)
(***************************************************************************)
LEMMA RoomIInv ==
  ASSUME IInv, NEW r \in Rooms,
         Construct(r) \/ RoomTest(r) \/ ClientEvent(r) \/ ServerHangUp(r) \/ TimerEvent(r)
  PROVE  IInv'
<1>1. CASE Construct(r)
  BY <1>1
  DEF IInv, TypeOK, InOrder, Listed, Prepared, NobodyLeftBehind, DaemonSurvives,
      Construct, Thread, flags
<1>2. CASE RoomTest(r)
  BY <1>2
  DEF IInv, TypeOK, InOrder, Listed, Prepared, NobodyLeftBehind, DaemonSurvives,
      RoomTest, RoomGoesOn, End, Thread, flags, handlers
<1>3. CASE ClientEvent(r)
  BY <1>3
  DEF IInv, TypeOK, InOrder, Listed, Prepared, NobodyLeftBehind, DaemonSurvives,
      ClientEvent, Writes, End, Thread, flags, handlers
<1>4. CASE ServerHangUp(r)
  BY <1>4
  DEF IInv, TypeOK, InOrder, Listed, Prepared, NobodyLeftBehind, DaemonSurvives,
      ServerHangUp, Thread, flags, handlers
<1>5. CASE TimerEvent(r)
  BY <1>5
  DEF IInv, TypeOK, InOrder, Listed, Prepared, NobodyLeftBehind, DaemonSurvives,
      TimerEvent, Writes, End, Thread, flags, handlers
<1> QED BY <1>1, <1>2, <1>3, <1>4, <1>5

(***************************************************************************)
(* A signal, whichever handler takes it.                                   *)
(***************************************************************************)
LEMMA SignalIInv ==
  ASSUME IInv, Terminate \/ Interrupt
  PROVE  IInv'
<1>1. PICK handler \in {onTerm, onInt} : Deliver(handler)
  BY DEF Terminate, Interrupt
<1>2. main' = main \/ (main = "WAIT" /\ main' = "TEST")
  BY <1>1 DEF Deliver, Interrupted
<1>3. /\ exit_flag' \in BOOLEAN /\ signal_exit_flag' \in BOOLEAN
      /\ process' = process \/ (process' = "KILLED" /\ handler = "DEFAULT")
  BY <1>1 DEF Deliver, Handle, IInv, TypeOK, flags
<1>4. UNCHANGED <<type, handlers, roomvars>>
  BY <1>1 DEF Deliver
<1>5. process = "RUNNING"
  BY <1>1 DEF Deliver
<1> QED
  BY <1>2, <1>3, <1>4, <1>5
  DEF IInv, TypeOK, InOrder, Listed, Prepared, NobodyLeftBehind, DaemonSurvives, handlers,
      roomvars

LEMMA NextIInv == IInv /\ [Next]_vars => IInv'
<1> SUFFICES ASSUME IInv, [Next]_vars
             PROVE  IInv'
  OBVIOUS
<1>1. CASE UNCHANGED vars
  BY <1>1
  DEF IInv, TypeOK, InOrder, Listed, Prepared, NobodyLeftBehind, DaemonSurvives, vars,
      handlers, flags, roomvars
<1>2. CASE \/ Start \/ Test \/ Serve \/ Destroy
           \/ \E r \in Rooms : CreateRoom(r) \/ RoomHangUp(r)
  BY <1>2, MainIInv
<1>3. ASSUME NEW r \in Rooms,
             \/ Construct(r) \/ RoomTest(r) \/ ClientEvent(r) \/ ServerHangUp(r)
             \/ TimerEvent(r)
      PROVE  IInv'
  BY <1>3, RoomIInv
<1>4. CASE Terminate \/ Interrupt
  BY <1>4, SignalIInv
<1> QED BY <1>1, <1>2, <1>3, <1>4 DEF Next, Ended

(***************************************************************************)
(* Every reachable state is well typed and in order.                       *)
(***************************************************************************)
THEOREM Invariance == Spec => []IInv
BY InitIInv, NextIInv, PTL DEF Spec

(***************************************************************************)
(* The variables keep their types; among them, a room's thread that is     *)
(* over has closed its end of the socketpair.                              *)
(***************************************************************************)
THEOREM TypeCorrect == Spec => []TypeOK
<1>1. IInv => TypeOK
  BY DEF IInv
<1> QED BY <1>1, Invariance, PTL

(***************************************************************************)
(* When main returns, every thread that was ever created has ended: the    *)
(* destructor joins those in rooms_, and a room only leaves rooms_ after   *)
(* its thread was joined (server.cpp:170).                                 *)
(***************************************************************************)
THEOREM NobodyIsLeft == Spec => []NobodyLeftBehind
<1>1. IInv => NobodyLeftBehind
  BY DEF IInv
<1> QED BY <1>1, Invariance, PTL

(***************************************************************************)
(* A daemon whose handlers are set is not killed: SIGPIPE was blocked      *)
(* before, for all the threads to come, and both signals that are not      *)
(* blocked have handlers from then on, whoever takes SIGINT over.          *)
(***************************************************************************)
THEOREM DaemonIsSafe == Spec => []DaemonSurvives
<1>1. IInv => DaemonSurvives
  BY DEF IInv
<1> QED BY <1>1, Invariance, PTL
=============================================================================
