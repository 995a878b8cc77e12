-------------------------------- MODULE Wire --------------------------------
(***************************************************************************)
(* The byte streams between a joiner and the server: the encodings of      *)
(* tcp_utilities.cpp, send_command_impl.h and lib/info_structures, and the *)
(* reads and writes that carry them.  A session runs from the list of      *)
(* rooms to the first commands in the game; the manager and the room are   *)
(* one side here.                                                          *)
(*                                                                         *)
(* The client's socket blocks, the server's do not.  A read returns as     *)
(* many bytes as have arrived, a write on the server's side takes as many  *)
(* as fit.  Numbers have the byte order in which the code puts them on the *)
(* wire: serialize_uint32 the last byte first, write_uint32 the first.     *)
(* The host of either is little-endian.                                    *)
(***************************************************************************)
EXTENDS Integers, SequencesExt

CONSTANTS
  Base,      \* the number of values of a byte
  Capacity,  \* how many bytes on their way to the client fit
  RoomList,  \* the rooms, a sequence of <<id, participant_num>>
  Players,   \* the players, a sequence of <<id, login>>
  Login,     \* the login of the client
  Map,       \* the rows of the map
  Objects,   \* the players on the map, <<id, health_value, x_coord, y_coord>>
  Infos,     \* how many descriptions of the game are sent
  Orders     \* the commands the client sends in the game

Byte == 0 .. Base - 1

Word == 0 .. Base * Base * Base * Base - 1  \* uint32_t, four bytes

Junk == -1  \* a byte beyond the end of a buffer

\* AskLogin takes no empty login, and a map on which a player has a place no empty row
Name == {s \in Seq(Byte) : s # <<>> /\ Len(s) \in Word}

ASSUME WireAssumption ==
  /\ Base \in Nat \ {0, 1}
  /\ Capacity \in Nat \ {0}
  /\ RoomList \in Seq(Word \X Word) \ {<<>>}  \* the client joins a listed room
  /\ Players \in Seq(Word \X Name)
  /\ Login \in Name
  /\ Map \in Seq(Name)
  /\ Objects \in Seq(Word \X Word \X Word \X Word)
  /\ {Len(RoomList), Len(Players), Len(Map), Len(Objects)} \subseteq Word
  /\ Infos \in Nat \ {0}
  /\ Orders \in Seq(Word)

VARIABLES
  server,    \* what the server does next
  client,    \* what the client does next
  buffer,    \* TcpConnection::buffer
  index,     \* TcpConnection::operation_index
  down,      \* the bytes on their way to the client
  up,        \* the bytes on their way to the server
  said,      \* the fields of the messages that the server put into its buffer or wrote
  decoded,   \* the fields that the client has read
  todo,      \* what the client has still to read of a message
  got,       \* what read_buffer has read so far
  asked,     \* the fields that the client wrote
  heard,     \* the fields that the server has read
  infos,     \* descriptions of the game sent so far
  orders,    \* commands to the game sent so far
  torn,      \* a single read or write of four bytes moved fewer
  overshot   \* a resumed write went past the end of its buffer

sides == <<server, client>>
vars == <<sides, buffer, index, down, up, said, decoded, todo, got, asked, heard, infos,
          orders, torn, overshot>>

-----------------------------------------------------------------------------
(* Encoding.  A field of a message is a number, a string or a command.     *)

Number(n) == [number |-> n]
String(s) == [string |-> s]
Command(c) == [command |-> c]

BytesOf(n) ==
  <<n % Base, (n \div Base) % Base, (n \div (Base * Base)) % Base,
    (n \div (Base * Base * Base)) % Base>>

ValueOf(b) == b[1] + Base * (b[2] + Base * (b[3] + Base * b[4]))

serialize_uint32Backwards(n) == Reverse(BytesOf(n))  \* Fault: net_value.bytes[0] first

\* htonl turns the bytes in memory round, and they are pushed from the end
serialize_uint32(n) == Reverse(Reverse(BytesOf(n)))

\* They are put into the union from the end, and ntohl turns them round
buff_to_uint32(b) == ValueOf(Reverse(Reverse(b)))

write_uint32Unturned(n) == BytesOf(n)  \* Fault: no htonl

\* htonl, and the memory is written as it is
write_uint32(n) == Reverse(BytesOf(n))

read_uint32(b) == ValueOf(Reverse(b))

START_GAME == 0
UPDATE_PLAYERS == 1
JOIN_ROOM == 1

\* Only a command that other fields follow goes through the buffer
Serialized(field) ==
  CASE "number" \in DOMAIN field -> serialize_uint32(field.number)
    [] "string" \in DOMAIN field -> serialize_uint32(Len(field.string)) \o field.string
    [] OTHER -> serialize_uint32(UPDATE_PLAYERS)

\* WriteBuffer of the structures: their fields one after the other
WriteBuffer(fields) == FlattenSeq([i \in DOMAIN fields |-> Serialized(fields[i])])

write_vector(structures) == <<Number(Len(structures))>> \o FlattenSeq(structures)

Numbers(n) == [i \in DOMAIN n |-> Number(n[i])]

RoomInfos == write_vector([i \in DOMAIN RoomList |-> Numbers(RoomList[i])])

PlayerInfos ==
  write_vector([i \in DOMAIN Players |-> <<Number(Players[i][1]), String(Players[i][2])>>])

GameInfo ==
  write_vector([i \in DOMAIN Map |-> <<String(Map[i])>>])
    \o write_vector([i \in DOMAIN Objects |-> Numbers(Objects[i])])

-----------------------------------------------------------------------------
(* Decoding.  What the client has to read of a message is a sequence of    *)
(* formats; the reading of each begins with a read_buffer of some bytes.   *)

Format(kind, bytes, of) == [kind |-> kind, bytes |-> bytes, of |-> of]

uint32 == Format("numbers", 4, <<>>)
string == Format("string", 4, <<>>)
read_vector(structure) == Format("vector", 4, structure)

RoomsFormat == read_vector(<<Format("numbers", 8, <<>>)>>)
PlayersFormat == read_vector(<<uint32, string>>)
GameFormat == <<read_vector(<<string>>), read_vector(<<uint32, uint32, uint32, uint32>>)>>

\* What the bytes of a format's first read mean
Fields(format, b) ==
  CASE format.kind = "numbers" -> [i \in 1 .. Len(b) \div 4 |->
                                     Number(buff_to_uint32(SubSeq(b, 4 * i - 3, 4 * i)))]
    [] format.kind = "vector" -> <<Number(buff_to_uint32(b))>>
    [] format.kind = "letters" -> <<String(b)>>
    [] OTHER -> IF buff_to_uint32(b) = 0 THEN <<String(<<0>>)>> ELSE <<>>

CopiesAndOne(n, structure) == FlattenSeq([i \in 1 .. n + 1 |-> structure])  \* Fault: off by one

Copies(n, structure) == FlattenSeq([i \in 1 .. n |-> structure])

\* What is read next because of it
Rest(format, b) ==
  CASE format.kind = "vector" -> Copies(buff_to_uint32(b), format.of)
    [] format.kind = "string" /\ buff_to_uint32(b) > 0 ->
         <<Format("letters", buff_to_uint32(b), <<>>)>>
    [] OTHER -> <<>>

-----------------------------------------------------------------------------
\* The command, the room and write_string, in writes that take everything
JoinMessage ==
  [fields |-> <<Number(JOIN_ROOM), Number(RoomList[1][1]), Number(Len(Login)), String(Login)>>,
   bytes |-> write_uint32(JOIN_ROOM) \o write_uint32(RoomList[1][1])
               \o write_uint32(Len(Login)) \o Login]

Init ==
  /\ server = "ROOMS" /\ client = "ROOMS"
  /\ buffer = <<>> /\ index = 0
  /\ down = <<>> /\ up = <<>>
  /\ said = <<>> /\ asked = <<>>
  /\ decoded = <<>> /\ heard = <<>>
  /\ todo = <<RoomsFormat>> /\ got = <<>>
  /\ infos = 0 /\ orders = 0
  /\ torn = FALSE /\ overshot = FALSE

-----------------------------------------------------------------------------
(* The server.                                                             *)

RewoundNot == index  \* Fault: operation_index keeps its value

Rewound == 0

(***************************************************************************)
(* SendBuffers and its copies: write_buffer_some from the index on, asked  *)
(* for as many bytes as the whole buffer has.  next is where the server    *)
(* goes when the buffer is out.                                            *)
(***************************************************************************)
Send(fields, next) ==
  LET whole == buffer \o WriteBuffer(fields)
      space == Capacity - Len(down)
      n == IF Len(whole) < space THEN Len(whole) ELSE space
      beyond == [i \in 1 .. index |-> Junk]
  IN  /\ said' = said \o fields
      /\ down' = down \o SubSeq(whole \o beyond, index + 1, index + n)
      /\ overshot' = (overshot \/ index + n > Len(whole))
      /\ \/ /\ index + n = Len(whole)
            /\ buffer' = <<>> /\ index' = Rewound
            /\ server' = next
         \/ /\ index + n # Len(whole)
            /\ buffer' = whole /\ index' = index + n
            /\ UNCHANGED server

\* A list is put into the buffer once and written until the index meets the size
SendList(here, fields, next) ==
  /\ server = here
  /\ Len(down) < Capacity
  /\ Send(IF buffer = <<>> THEN fields ELSE <<>>, next)
  /\ UNCHANGED <<client, up, decoded, todo, got, asked, heard, infos, orders, torn>>

SendRooms == SendList("ROOMS", RoomInfos, "COMMAND")
SendPlayers == SendList("LIST", PlayerInfos, "UPDATE")
SendUpdate == SendList("UPDATE", <<Command("UPDATE_PLAYERS")>> \o PlayerInfos, "START")

\* WriteCommand: one write, whatever it takes
SendStart ==
  /\ server = "START"
  /\ Len(down) < Capacity
  /\ LET n == IF 4 < Capacity - Len(down) THEN 4 ELSE Capacity - Len(down)
     IN  /\ down' = down \o SubSeq(write_uint32(START_GAME), 1, n)
         /\ torn' = (n < 4)
  /\ said' = Append(said, Command("START_GAME"))
  /\ server' = "GAME"
  /\ UNCHANGED <<client, buffer, index, up, decoded, todo, got, asked, heard, infos, orders,
                 overshot>>

\* UpdateGameInfo adds to what is left in the buffer, also when nothing more fits into the
\* socket; the ticks after the last one of the run only go on with that
SendInfo ==
  /\ server = "GAME"
  /\ \/ /\ infos < Infos
        /\ Send(GameInfo, "GAME")
        /\ infos' = infos + 1
     \/ /\ infos = Infos /\ buffer # <<>>
        /\ Len(down) < Capacity
        /\ Send(<<>>, "GAME")
        /\ UNCHANGED infos
  /\ UNCHANGED <<client, up, decoded, todo, got, asked, heard, orders, torn>>

\* ReadCommand and read_uint32: one read, whatever it returns
ReadNumber(here, next) ==
  /\ server = here
  /\ \E n \in 1 .. Len(up) :
       /\ n <= 4
       /\ torn' = (n < 4)
       /\ heard' = IF n < 4 THEN heard ELSE Append(heard, Number(read_uint32(SubSeq(up, 1, n))))
       /\ up' = SubSeq(up, n + 1, Len(up))
  /\ server' = next
  /\ UNCHANGED <<client, index, down, said, decoded, todo, got, asked, infos, orders, overshot>>

ReadCommand == ReadNumber("COMMAND", "PID") /\ UNCHANGED buffer
ReadPid == ReadNumber("PID", "SIZE") /\ UNCHANGED buffer
ReadLoginSize == ReadNumber("SIZE", "LOGIN") /\ UNCHANGED buffer
ReadOrder == ReadNumber("GAME", "GAME") /\ UNCHANGED buffer

\* read_buffer_some, asked at every call for as many bytes as the whole login has
ReadLogin ==
  /\ server = "LOGIN"
  /\ LET size == Last(heard).number
     IN  \E n \in 1 .. Len(up) :
           /\ n <= size
           /\ up' = SubSeq(up, n + 1, Len(up))
           /\ IF index + n = size
              THEN /\ heard' = Append(heard, String(buffer \o SubSeq(up, 1, n)))
                   /\ buffer' = <<>> /\ index' = Rewound
                   /\ server' = "LIST"
              ELSE /\ buffer' = buffer \o SubSeq(up, 1, n)
                   /\ index' = index + n
                   /\ UNCHANGED <<server, heard>>
  /\ UNCHANGED <<client, down, said, decoded, todo, got, asked, infos, orders, torn, overshot>>

-----------------------------------------------------------------------------
(* The client.                                                             *)

\* The run looks no further than the first byte of junk
Arrived(n) == n <= Len(down) /\ Junk \notin Range(SubSeq(down, 1, n))

(***************************************************************************)
(* One read of a read_buffer, which goes on until it has every byte.       *)
(***************************************************************************)
ReadSome ==
  /\ todo # <<>>
  /\ LET format == Head(todo)
     IN  \E n \in 1 .. format.bytes - Len(got) :
           /\ Arrived(n)
           /\ down' = SubSeq(down, n + 1, Len(down))
           /\ LET b == got \o SubSeq(down, 1, n)
              IN  IF Len(b) < format.bytes
                  THEN got' = b /\ UNCHANGED <<todo, decoded>>
                  ELSE /\ got' = <<>>
                       /\ todo' = Rest(format, b) \o Tail(todo)
                       /\ decoded' = decoded \o Fields(format, b)
  /\ UNCHANGED <<sides, buffer, index, up, said, asked, heard, infos, orders, torn, overshot>>

AskToJoin ==
  /\ client = "ROOMS" /\ todo = <<>>
  /\ asked' = asked \o JoinMessage.fields
  /\ up' = up \o JoinMessage.bytes
  /\ todo' = <<PlayersFormat>>
  /\ client' = "LOBBY"
  /\ UNCHANGED <<server, buffer, index, down, said, decoded, got, heard, infos, orders, torn,
                 overshot>>

\* ReadCommand: whatever is not START_GAME is taken for UPDATE_PLAYERS
ReadUpdate ==
  /\ client = "LOBBY" /\ todo = <<>>
  /\ \E n \in 1 .. 4 :
       /\ Arrived(n)
       /\ down' = SubSeq(down, n + 1, Len(down))
       /\ torn' = (n < 4)
       /\ \/ /\ n < 4
             /\ UNCHANGED <<client, decoded, todo>>
          \/ /\ n = 4
             /\ read_uint32(SubSeq(down, 1, 4)) = START_GAME
             /\ decoded' = Append(decoded, Command("START_GAME"))
             /\ todo' = GameFormat
             /\ client' = "GAME"
          \/ /\ n = 4
             /\ read_uint32(SubSeq(down, 1, 4)) # START_GAME
             /\ decoded' = Append(decoded, Command("UPDATE_PLAYERS"))
             /\ todo' = <<PlayersFormat>>
             /\ UNCHANGED client
  /\ UNCHANGED <<server, buffer, index, up, said, got, asked, heard, infos, orders, overshot>>

\* FIONREAD says that something is there
ReadInfo ==
  /\ client = "GAME" /\ todo = <<>>
  /\ down # <<>>
  /\ todo' = GameFormat
  /\ UNCHANGED <<sides, buffer, index, down, up, said, decoded, got, asked, heard, infos, orders,
                 torn, overshot>>

Order ==
  /\ client = "GAME" /\ todo = <<>>
  /\ orders < Len(Orders)
  /\ orders' = orders + 1
  /\ asked' = Append(asked, Number(Orders[orders + 1]))
  /\ up' = up \o write_uint32(Orders[orders + 1])
  /\ UNCHANGED <<sides, buffer, index, down, said, decoded, todo, got, heard, infos, torn,
                 overshot>>

-----------------------------------------------------------------------------
\* What follows a torn number or junk is not looked at
Server ==
  /\ ~torn /\ ~overshot
  /\ \/ SendRooms \/ SendPlayers \/ SendUpdate \/ SendStart \/ SendInfo
     \/ ReadCommand \/ ReadPid \/ ReadLoginSize \/ ReadLogin \/ ReadOrder

Client ==
  /\ ~torn
  /\ ReadSome \/ AskToJoin \/ ReadUpdate \/ ReadInfo \/ Order

Next == Server \/ Client

Spec == Init /\ [][Next]_vars

\* Bytes arrive, and both sides go on when there are any
FairSpec == Spec /\ WF_vars(Server) /\ WF_vars(Client)

-----------------------------------------------------------------------------
(***************************************************************************)
(* The types of the variables.  Between two messages the index is back at  *)
(* the beginning, and it stays within the buffer until something is lost.  *)
(***************************************************************************)
TypeOK ==
  /\ server \in {"ROOMS", "COMMAND", "PID", "SIZE", "LOGIN", "LIST", "UPDATE", "START", "GAME"}
  /\ client \in {"ROOMS", "LOBBY", "GAME"}
  /\ buffer \in Seq(Byte)
  /\ index \in Nat /\ (index <= Len(buffer) \/ overshot)
  /\ down \in Seq(Byte \union {Junk}) /\ Len(down) <= Capacity
  /\ up \in Seq(Byte)
  /\ got \in Seq(Byte) /\ (got # <<>> => todo # <<>> /\ Len(got) < Head(todo).bytes)
  /\ infos \in 0 .. Infos /\ orders \in 0 .. Len(Orders)
  /\ torn \in BOOLEAN /\ overshot \in BOOLEAN

(***************************************************************************)
(* However the network cuts the stream, the client reads what the server   *)
(* said, field by field, in both byte orders, and START_GAME is taken for  *)
(* itself.  Only two things break it: a number that a single read or write *)
(* tears, and a resumed write that goes past the end of its buffer; up to  *)
(* there everything is right.                                              *)
(***************************************************************************)
Understood == IsPrefix(decoded, said)

(***************************************************************************)
(* The server reads what the client asked, though a login may come in any  *)
(* number of pieces and while the client goes on writing; only a number    *)
(* that is torn ends this.                                                 *)
(***************************************************************************)
Heard == IsPrefix(heard, asked)

(***************************************************************************)
(* Nobody waits for bytes that nobody will send: a session in which no     *)
(* number is torn and nothing is overshot gets into the game, and every    *)
(* map and every order arrives.                                            *)
(***************************************************************************)
SessionRuns ==
  <>(\/ torn \/ overshot
     \/ /\ decoded = said /\ infos = Infos
        /\ heard = asked /\ orders = Len(Orders))
=============================================================================
