---------------------------- MODULE ClientProtocol -----------------------------
(***************************************************************************)
(* The command line client and the server against each other.  The client  *)
(* has two threads: one reads the server's packets and moves the global cs *)
(* from phase to phase, the other reads commands, looks at cs and sends    *)
(* what that command means in that phase.  The server moves through its    *)
(* client states.  Neither end is told which phase a packet was written    *)
(* for, and the opcodes of the phases overlap.                             *)
(*                                                                         *)
(* The server's side is Session for one connection, with typed packets;    *)
(* that a session has one continuation at a time (OneContinuation) is used *)
(* here: `next' is that continuation.  What ends the process is left out:  *)
(* to its clients it is a lost connection.                                 *)
(***************************************************************************)
EXTENDS Packets

CONSTANTS
  Capacity,   \* bound: packets on the wire to the client; the sender waits
  Pipelined   \* bound: packets on the wire to the server

\* No handler sends more than two packets, and some news find room besides.
ASSUME ProtocolAssumption ==
  /\ Capacity \in Nat /\ Capacity > 2
  /\ Pipelined \in Nat \ {0}

VARIABLES
  client,         \* the client's process, and the temper of its user
  cs,             \* its phase, shared by its two threads
  command,        \* the command being typed, << >> or <<packet>>
  asked,          \* has a change of phase been asked for and not answered?
  link,           \* the network
  to_server,      \* packets on the wire, first in first out
  to_client,
  my_sock,        \* the server's side, as in Session
  current_state,
  awaiting,
  next            \* what will run next on behalf of the session

client_side == <<client, cs, command, asked>>
server_side == <<my_sock, current_state, awaiting, next>>
wire == <<link, to_server, to_client>>
protocol_vars == <<client_side, wire, server_side>>

\* A patient user waits until a change of phase is answered.
Users == {"patient", "hasty"}
Running == client \in Users
Exists == current_state # "none"
InWorld == current_state = "ingame" \/ awaiting = "ingame"

ProtocolInit ==
  /\ client = "exited" /\ cs = "preauth" /\ command = << >> /\ asked = FALSE
  /\ link = "lost" /\ to_server = << >> /\ to_client = << >>
  /\ my_sock = "none" /\ current_state = "none" /\ awaiting = "none" /\ next = "none"

(***************************************************************************)
(* The client.                                                             *)
(***************************************************************************)

\* main: the client connects, the server accepts; the command thread starts
\* with the login.
Connect ==
  /\ ~Running /\ ~Exists
  /\ client' \in Users /\ cs' = "preauth" /\ asked' = FALSE
  /\ command' = <<LoginPacket>>
  /\ link' = "up" /\ to_server' = << >> /\ to_client' = << >>
  /\ my_sock' = "open" /\ current_state' = "preauth" /\ awaiting' = "none"
  /\ next' = "read"

\* The command thread has read a command and looks at cs.  In the phase preauth
\* it refuses ("Still awaiting authentication").  The name or message is typed
\* after that.
TypeCommand ==
  /\ Running /\ command = << >>
  /\ client = "patient" => ~asked
  /\ \E c \in CommandsOf[cs] : command' = <<c>>
  /\ UNCHANGED <<client, cs, asked, wire, server_side>>

\* A packet sent on a connection that has ended goes nowhere: the error is
\* ignored.
SendCommand ==
  /\ Running /\ command # << >>
  /\ IF link = "up" /\ my_sock = "open"
       THEN /\ Len(to_server) < Pipelined
            /\ to_server' = to_server \o command
       ELSE UNCHANGED to_server
  /\ command' = << >>
  /\ asked' = (asked \/ ChangesPhase(command[1]))
  /\ UNCHANGED <<client, cs, link, to_client, server_side>>

\* exit(0), or an exception nothing catches: both threads are gone, and what
\* the process has not read is lost.
Exit ==
  /\ client' = "exited" /\ command' = << >> /\ asked' = FALSE
  /\ to_client' = << >>
  /\ UNCHANGED cs

\* A bug in the client: it forgets to enter the game.
NextPhaseStayingInLobby(meaning) ==
  CASE meaning = "good_boy_good_keys" -> "lobby"
    [] meaning = "moved_to_lobby" -> "lobby"
    [] OTHER -> cs

\* Where a packet takes the client.
NextPhase(meaning) ==
  CASE meaning = "good_boy_good_keys" -> "lobby"
    [] meaning = "character_selected" -> "ingame"
    [] meaning = "moved_to_lobby" -> "lobby"
    [] OTHER -> cs

\* on_recv: opcode and fields are read as the phase says.  An opcode unknown in
\* it is only reported; fields that are not there throw in the main thread.
ClientReceives ==
  /\ Running /\ to_client # << >>
  /\ LET packet == Head(to_client)
         meaning == Meaning(packet, cs, "to_client")
     IN IF \/ meaning = "fuck_you_bad_keys"
           \/ meaning # "unknown" /\ ~Readable(packet, ClientReads[cs][meaning])
          THEN Exit
          ELSE /\ cs' = NextPhase(meaning)
               /\ asked' = (asked /\ meaning \notin {"character_selected", "moved_to_lobby"})
               /\ to_client' = Tail(to_client)
               /\ UNCHANGED <<client, command>>
  /\ UNCHANGED <<link, to_server, server_side>>

\* on_error: the connection has ended.  The server closing it may or may not
\* let the client read what was sent before.
ClientError ==
  /\ Running /\ (link = "lost" \/ my_sock # "open")
  /\ Exit
  /\ UNCHANGED <<link, to_server, server_side>>

\* The user ends the process.
ClientQuits ==
  /\ Running
  /\ Exit
  /\ UNCHANGED <<link, to_server, server_side>>

LinkLost ==
  /\ link = "up" /\ Running /\ Exists
  /\ link' = "lost"
  /\ UNCHANGED <<client_side, to_server, to_client, server_side>>

(***************************************************************************)
(* The server: what its handlers are made of.                              *)
(***************************************************************************)

\* send_to_client, of several packets.  On a null_socket it does nothing, on a
\* lost connection the write fails and nobody looks at the error.
Send(packets) ==
  IF my_sock = "open" /\ Running /\ link = "up"
    THEN /\ Len(to_client) + Len(packets) <= Capacity
         /\ to_client' = to_client \o packets
    ELSE UNCHANGED to_client

Receive(state) ==
  /\ next = "read" /\ current_state = state /\ to_server # << >>
  /\ to_server' = Tail(to_server)
  /\ UNCHANGED <<client_side, link>>

\* The packet at the head, as the factory of the current state takes it.
Request == Meaning(Head(to_server), current_state, "to_server")
Complete ==
  /\ Request # "unknown"
  /\ Readable(Head(to_server), ServerReads[current_state][Request])

ReadAgain == next' = "read" /\ UNCHANGED <<my_sock, current_state, awaiting>>

ForceClose ==
  /\ my_sock' = "null" /\ next' = "finalize"
  /\ UNCHANGED <<current_state, awaiting>>

ScheduleTransition(state) ==
  /\ awaiting' = state /\ next' = "transition"
  /\ UNCHANGED <<my_sock, current_state>>

(***************************************************************************)
(* The server: its handlers.                                               *)
(***************************************************************************)

LoginAccepted ==
  /\ Receive("preauth") /\ Complete
  /\ Send(<<ok_response>>)
  /\ ScheduleTransition("lobby")

\* Refused, or not even a login; a key of another size is not answered.
LoginRejected ==
  /\ Receive("preauth")
  /\ Send(<<fuck_you_response>>) \/ UNCHANGED to_client
  /\ ForceClose

\* A bug in the selection: the client is not told.
SelectSilently ==
  /\ Receive("lobby") /\ Complete /\ Request = "select_character"
  /\ UNCHANGED to_client
  /\ ScheduleTransition("ingame")

\* A character of the list is selected.  The ingame_state constructed now tells
\* the client which friends it finds online.
SelectCharacter ==
  /\ Receive("lobby") /\ Complete /\ Request = "select_character"
  /\ \E friends \in {<< >>, <<friend_online_while_you_login>>} :
       Send(<<character_selected>> \o friends)
  /\ ScheduleTransition("ingame")

\* The constructor of ingame_state throws: its finalizer, which exists already,
\* says that the client has moved to the lobby, and the session is closed.
SelectFails ==
  /\ Receive("lobby") /\ Complete /\ Request = "select_character"
  /\ Send(<<character_selected, moved_to_lobby>>)
  /\ ForceClose

CreateCharacter ==
  /\ Receive("lobby") /\ Complete /\ Request = "create_character"
  /\ Send(<<character_created>>) \/ Send(<<character_creation_fail>>)
  /\ ReadAgain

DeleteCharacter ==
  /\ Receive("lobby") /\ Complete /\ Request = "delete_character"
  /\ Send(<<character_list>>)
  /\ ReadAgain

\* Logging off; a character that is not listed, a packet that is too short, an
\* exception of the database.
LobbyClose ==
  /\ Receive("lobby") /\ Request # "unknown"
  /\ ForceClose
  /\ UNCHANGED to_client

\* A bug in the request: the finalizer's packet is sent at once.
LogOffAnnouncedEarly ==
  /\ Receive("ingame") /\ Complete /\ Request = "log_off_to_lobby"
  /\ ScheduleTransition("lobby")
  /\ Send(<<moved_to_lobby>>)

\* A bug in the packet loop: it reads on during the transition.
LogOffReadingOn ==
  /\ Receive("ingame") /\ Complete /\ Request = "log_off_to_lobby"
  /\ awaiting' = "lobby" /\ next' = "read"
  /\ UNCHANGED <<my_sock, current_state, to_client>>

LogOffToLobby ==
  /\ Receive("ingame") /\ Complete /\ Request = "log_off_to_lobby"
  /\ ScheduleTransition("lobby")
  /\ UNCHANGED to_client

\* A chat or friend request; what it makes the server send to this client and
\* to others is in NewsArrive.
InGameRequest ==
  /\ Receive("ingame") /\ Complete /\ Request # "log_off_to_lobby"
  /\ ReadAgain
  /\ UNCHANGED to_client

\* A packet that is too short, or an exception of the database.
InGameClose ==
  /\ Receive("ingame") /\ Request # "unknown" /\ (Complete => Request # "log_off_to_lobby")
  /\ ForceClose
  /\ UNCHANGED to_client

\* null_received_packet: an opcode the phase does not have is ignored.
UnknownRequest ==
  /\ Receive("lobby") \/ Receive("ingame")
  /\ Request = "unknown"
  /\ ReadAgain
  /\ UNCHANGED to_client

RecvError ==
  /\ next = "read" /\ (link = "lost" \/ ~Running)
  /\ ForceClose
  /\ UNCHANGED <<client_side, wire>>

\* The task of schedule_transition.  ~ingame_state sends moved_to_lobby last.
RunTransition ==
  /\ next = "transition"
  /\ Send(IF current_state = "ingame" THEN <<moved_to_lobby>> ELSE << >>)
  /\ current_state' = awaiting /\ awaiting' = "none"
  /\ next' = IF awaiting = "lobby" THEN "query" ELSE "read"
  /\ UNCHANGED <<client_side, link, to_server, my_sock>>

RunDatabase ==
  /\ next = "query"
  /\ next' = "lobby_chars"
  /\ UNCHANGED <<client_side, wire, my_sock, current_state, awaiting>>

RunLobbyChars ==
  /\ next = "lobby_chars"
  /\ Send(<<character_list>>)
  /\ next' = "read"
  /\ UNCHANGED <<client_side, link, to_server, my_sock, current_state, awaiting>>

\* The task of force_close; the packet of ~ingame_state finds a null_socket.
RunFinalize ==
  /\ next = "finalize"
  /\ my_sock' = "none" /\ current_state' = "none" /\ next' = "none"
  /\ to_server' = << >>
  /\ UNCHANGED <<client_side, link, to_client, awaiting>>

\* The chat and the friend system send to the player, because of his own
\* requests or those of others, as long as the ingame_state exists: before it
\* is the current state, and until the transition out of it has run.
NewsArrive ==
  /\ InWorld /\ my_sock = "open"
  /\ Len(to_client) < Capacity - 2
  /\ \E packet \in News : Send(<<packet>>)
  /\ UNCHANGED <<client_side, link, to_server, server_side>>

Handler ==
  \/ LoginAccepted \/ LoginRejected
  \/ SelectCharacter \/ SelectFails \/ CreateCharacter \/ DeleteCharacter \/ LobbyClose
  \/ LogOffToLobby \/ InGameRequest \/ InGameClose
  \/ UnknownRequest
  \/ RecvError

ServerTask == RunTransition \/ RunDatabase \/ RunLobbyChars \/ RunFinalize

Server == Handler \/ ServerTask

ProtocolNext ==
  \/ Connect \/ TypeCommand \/ SendCommand \/ ClientReceives
  \/ ClientError \/ ClientQuits
  \/ LinkLost
  \/ Handler \/ ServerTask \/ NewsArrive

ProtocolSpec == ProtocolInit /\ [][ProtocolNext]_protocol_vars

\* The server goes on with the session, the client's main thread polls without
\* end, its command thread sends what has been typed, a lost connection fails
\* the reads.  The user owes nothing.
ProtocolFairSpec ==
  /\ ProtocolSpec
  /\ WF_protocol_vars(Server)
  /\ WF_protocol_vars(ClientReceives)
  /\ WF_protocol_vars(ClientError)
  /\ WF_protocol_vars(SendCommand)

(***************************************************************************)
(* Properties.                                                             *)
(***************************************************************************)

\* Every variable keeps its type.
ProtocolTypeOK ==
  /\ client \in Users \union {"exited"}
  /\ cs \in Phases
  /\ command = << >> \/ command[1] \in {LoginPacket} \union LobbyCommands \union InGameCommands
  /\ asked \in BOOLEAN
  /\ link \in {"up", "lost"}
  /\ Len(to_server) <= Pipelined /\ Len(to_client) <= Capacity
  /\ my_sock \in {"open", "null", "none"}
  /\ current_state \in Phases \union {"none"}
  /\ awaiting \in Phases \union {"none"}
  /\ next \in {"none", "read", "transition", "finalize", "query", "lobby_chars"}

\* However the user behaves, the client reads every packet in the phase it was
\* written for, with the opcode and the fields the server meant: changes of
\* phase travel in order with everything else, and nothing of the old phase is
\* sent behind one.
AnswersUnderstood ==
  Running /\ to_client # << >> =>
    LET packet == Head(to_client)
        meaning == Meaning(packet, cs, "to_client")
    IN /\ packet.phase = cs
       /\ meaning # "unknown"
       /\ packet.fields = ClientReads[cs][meaning]

\* The phase whose packets the server sends next.
ServerPhase ==
  IF InWorld THEN "ingame" ELSE IF awaiting = "lobby" THEN "lobby" ELSE current_state

\* Packets that take the client from one phase to another, and the phase they
\* lead to, whatever the phase the client is in.
Says(packet) == Meaning(packet, packet.phase, "to_client")
MovesClient(packet) ==
  Says(packet) \in {"good_boy_good_keys", "character_selected", "moved_to_lobby"}
LeadsTo(packet) == IF Says(packet) = "character_selected" THEN "ingame" ELSE "lobby"

\* Once the client has read everything on the wire, it will be in the phase of the
\* server: the last packet that moves it leads there, and without one it is there.
PhasesMeet ==
  Running /\ link = "up" /\ my_sock = "open" =>
    LET moves == {i \in DOMAIN to_client : MovesClient(to_client[i])}
    IN /\ moves = {} => cs = ServerPhase
       /\ \A i \in moves :
            (\A j \in moves : j <= i) => LeadsTo(to_client[i]) = ServerPhase

\* The two ends' phases, with the packets between them, always fit together.
ProtocolInv == ProtocolTypeOK /\ PhasesMeet

\* A user who waits for the answer to what changes the phase is never
\* misunderstood: the server reads a packet in the phase it was typed in, and
\* finds in it what it expects.  (One who does not wait can delete a character
\* with a chat room's name.)
CommandsReadAsMeant ==
  client = "patient" /\ next = "read" /\ to_server # << >> =>
    Head(to_server).phase = current_state /\ Complete

\* A user who asks to enter the world, to leave it or to log off gets there, or
\* the client ends: he never waits for ever.
AskedIsAnswered == asked ~> ~asked

\* The conversation is one of the connections of Session.
TheSession == "session"
ForTheSession(value) == [s \in {TheSession} |-> value]

OneSession == INSTANCE Session WITH
  Sessions <- {TheSession}, Accounts <- {"account"}, Characters <- {"character"},
  Owner <- [c \in {"character"} |-> "account"],
  None <- "nobody", MaxInflight <- Pipelined, Relogin <- "at_any_time",
  FaultsEscape <- FALSE,
  server <- "up",
  peer <- ForTheSession(IF Exists /\ Running /\ link = "up" THEN "up" ELSE "gone"),
  inflight <- ForTheSession(Len(to_server)),
  my_sock <- ForTheSession(my_sock),
  reading <- ForTheSession(next = "read"),
  current_state <- ForTheSession(current_state),
  awaiting <- ForTheSession(awaiting),
  async_state <- ForTheSession(
    IF awaiting # "none" THEN "awaiting_state_transition"
    ELSE IF current_state \in {"lobby", "ingame"} THEN "awaiting_packet_poll"
    ELSE "uninitialised"),
  account <- ForTheSession(
    IF awaiting # "none" \/ current_state \in {"lobby", "ingame"} THEN "account"
    ELSE "nobody"),
  character <- ForTheSession(IF InWorld THEN "character" ELSE "nobody"),
  registry <- [c \in {"character"} |-> IF InWorld THEN TheSession ELSE "nobody"],
  strand <- IF next \in {"transition", "finalize", "lobby_chars"}
              THEN <<[kind |-> next, session |-> TheSession]>> ELSE << >>,
  database_strand <- IF next = "query" THEN <<TheSession>> ELSE << >>

ImplementsSession == OneSession!Spec
===============================================================================
