------------------------------- MODULE Session -------------------------------
(***************************************************************************)
(* The life of one connection: class mmoclient with the three client       *)
(* states it moves through (preauth_state, lobby_state, ingame_state), its *)
(* boost_socket, the game loop strand every handler and posted task runs   *)
(* on, the database strand that answers get_lobby_chars, and the registry  *)
(* of online players an ingame_state enters when it is CONSTRUCTED and     *)
(* leaves when it is DESTROYED.                                            *)
(*                                                                         *)
(* One action is one handler run to completion on the strand.  Packets are *)
(* counted, not typed: what a packet asks for is chosen when it is         *)
(* handled.  The chat, friend and lobby requests that leave the session in *)
(* its state are one action here and have modules of their own.            *)
(***************************************************************************)
EXTENDS Naturals, Sequences, FiniteSets

CONSTANTS
  Sessions,      \* the mmoclient objects that may exist at the same time
  Accounts,      \* logins the authenticator accepts
  Characters,    \* rows of table characters
  Owner,         \* the account that owns each character
  None,          \* no session, no account, no character
  MaxInflight,   \* bound: packets of one client on the wire
  Relogin,       \* when a user logs in again: see LoginAllowed
  FaultsEscape   \* may the database throw where nothing catches it?

ASSUME SessionAssumption ==
  /\ Owner \in [Characters -> Accounts]
  /\ None \notin Sessions \union Accounts \union Characters
  /\ MaxInflight \in Nat
  /\ Relogin \in {"at_any_time", "after_disconnect"}
  /\ FaultsEscape \in BOOLEAN

VARIABLES
  server,          \* the process: running, or how it stopped
  peer,            \* the other end of each connection: up, lost without a word, or gone
  inflight,        \* packets the peer sent that no handler consumed yet
  my_sock,         \* boost_socket ("open"), null_socket ("null") or no session
  reading,         \* is an async_read of this socket outstanding?
  current_state,   \* class of *current_state_; "none": no session object
  awaiting,        \* class of *state_awaiting_transition_
  async_state,     \* async_state_, which the constructor does not initialise
  account,         \* acc_data_ of the lobby or in-game state
  character,       \* my_character_ of the session's ingame_state, if it has one
  registry,        \* world_registrar and friend_system: who plays a character
  strand,          \* tasks posted to the game loop strand, first in first out
  database_strand  \* get_lobby_chars tasks posted to the database strand

connection == <<peer, inflight, my_sock, reading>>
object == <<current_state, awaiting, async_state, account, character>>
vars == <<server, connection, object, registry, strand, database_strand>>

ServerStatus == {"up", "aborted", "terminated", "undefined"}
ClientState == {"preauth", "lobby", "ingame"}
AsyncStatus == {"uninitialised", "awaiting_packet_poll", "awaiting_state_transition"}
TaskKind == {"transition", "finalize", "lobby_chars"}

Up == server = "up"
Exists(s) == current_state[s] # "none"
Task(kind, s) == [kind |-> kind, session |-> s]
Post(task) == strand' = Append(strand, task)
IsNext(task) == strand # << >> /\ Head(strand) = task

Init ==
  /\ server = "up"
  /\ peer = [s \in Sessions |-> "gone"]
  /\ inflight = [s \in Sessions |-> 0]
  /\ my_sock = [s \in Sessions |-> "none"]
  /\ reading = [s \in Sessions |-> FALSE]
  /\ current_state = [s \in Sessions |-> "none"]
  /\ awaiting = [s \in Sessions |-> "none"]
  /\ async_state = [s \in Sessions |-> "uninitialised"]
  /\ account = [s \in Sessions |-> None]
  /\ character = [s \in Sessions |-> None]
  /\ registry = [c \in Characters |-> None]
  /\ strand = << >>
  /\ database_strand = << >>

(***************************************************************************)
(* The clients.                                                            *)
(***************************************************************************)

\* A connection is accepted; preauth_state starts and waits for the first packet.
Accept(s) ==
  /\ Up /\ ~Exists(s)
  /\ peer' = [peer EXCEPT ![s] = "up"]
  /\ my_sock' = [my_sock EXCEPT ![s] = "open"]
  /\ reading' = [reading EXCEPT ![s] = TRUE]
  /\ current_state' = [current_state EXCEPT ![s] = "preauth"]
  /\ UNCHANGED <<server, inflight, awaiting, async_state, account, character,
                 registry, strand, database_strand>>

ClientSends(s) ==
  /\ Up /\ peer[s] = "up" /\ inflight[s] < MaxInflight
  /\ inflight' = [inflight EXCEPT ![s] = @ + 1]
  /\ UNCHANGED <<server, peer, my_sock, reading, object, registry, strand, database_strand>>

\* The client closes its end ("gone"), or the network loses it and the server's
\* TCP hears nothing of that ("silent").  What it sent may still arrive.
PeerLost(s) ==
  /\ Up /\ peer[s] = "up"
  /\ \E how \in {"silent", "gone"} : peer' = [peer EXCEPT ![s] = how]
  /\ UNCHANGED <<server, inflight, my_sock, reading, object, registry, strand, database_strand>>

\* TCP gives up because something sent to the client is not acknowledged.
\* Nothing need be sent, and the sockets have no keep-alive: it may never happen.
NoticeLoss(s) ==
  /\ Up /\ peer[s] = "silent"
  /\ peer' = [peer EXCEPT ![s] = "gone"]
  /\ UNCHANGED <<server, inflight, my_sock, reading, object, registry, strand, database_strand>>

(***************************************************************************)
(* What the handlers are made of.                                          *)
(***************************************************************************)

\* A bug in the receive path: a handler runs without a packet.
ReceiveUnsent(s, state) ==
  /\ Up
  /\ reading[s] /\ current_state[s] = state
  /\ inflight' = [inflight EXCEPT ![s] = @ - 1]
  /\ UNCHANGED peer

\* The outstanding read delivers a packet to handle_network_packet.
Receive(s, state) ==
  /\ Up
  /\ reading[s] /\ inflight[s] > 0 /\ current_state[s] = state
  /\ inflight' = [inflight EXCEPT ![s] = @ - 1]
  /\ UNCHANGED peer

\* do_recv, called by a handler only if async_state_ says so; on a null_socket
\* it does nothing.  An uninitialised async_state_ may compare either way.
ReadAgain(s) ==
  \E read \in IF async_state'[s] = "uninitialised" THEN BOOLEAN
              ELSE {async_state'[s] = "awaiting_packet_poll"} :
    reading' = [reading EXCEPT ![s] = read /\ my_sock'[s] = "open"]

NotReading(s) == reading' = [reading EXCEPT ![s] = FALSE]

\* A bug in force_close: the task that destroys the state is never posted.
ForceCloseWithoutTask(s) ==
  /\ my_sock' = [my_sock EXCEPT ![s] = "null"]
  /\ UNCHANGED <<strand, current_state, awaiting, async_state, account, character>>

\* mmoclient::force_close: the socket goes at once, the state object only when
\* the posted task runs.
ForceClose(s) ==
  /\ my_sock' = [my_sock EXCEPT ![s] = "null"]
  /\ Post(Task("finalize", s))
  /\ UNCHANGED <<current_state, awaiting, async_state, account, character>>

\* mmoclient::schedule_transition: the new state object already exists, the
\* old one stays current until the posted task runs.
ScheduleTransition(s, state) ==
  /\ awaiting' = [awaiting EXCEPT ![s] = state]
  /\ async_state' = [async_state EXCEPT ![s] = "awaiting_state_transition"]
  /\ Post(Task("transition", s))
  /\ UNCHANGED current_state

\* world_registrar::register_me and unregister_me, of both maps at once.
Register(s, c) == registry' = [registry EXCEPT ![c] = s]
Unregister(c) == registry' = [registry EXCEPT ![c] = None]

\* The constructor of ingame_state: the character enters the chat, the friend
\* system and, last, the registry.
EnterWorld(s, c) ==
  /\ character' = [character EXCEPT ![s] = c]
  /\ Register(s, c)

\* A bug in ~ingame_state: the character is never unregistered.
LeaveWorldRegistered(s) ==
  /\ character' = IF current_state[s] = "ingame"
                    THEN [character EXCEPT ![s] = None]
                    ELSE character
  /\ UNCHANGED registry

\* ~ingame_state (nothing to do for the other states): the character leaves
\* the registry, the friend system and the chat.
LeaveWorld(s) ==
  IF current_state[s] = "ingame"
    THEN /\ character' = [character EXCEPT ![s] = None]
         /\ Unregister(character[s])
    ELSE UNCHANGED <<character, registry>>

(***************************************************************************)
(* preauth_state::handle_network_packet.                                   *)
(***************************************************************************)

SomeoneElseUses(a, s) == \E t \in Sessions \ {s} : account[t] = a /\ peer[t] = "up"

\* The server does not check that an account is logged in once ("please don't
\* do it", says the README): any login is accepted at any time.  A user who
\* minds the README waits until his own last connection is closed; he cannot see
\* whether the server is done with it.
LoginAllowed(s, a) == Relogin = "after_disconnect" => ~SomeoneElseUses(a, s)

LoginAccepted(s, a) ==
  /\ Receive(s, "preauth") /\ LoginAllowed(s, a)
  /\ account' = [account EXCEPT ![s] = a]
  /\ ScheduleTransition(s, "lobby")
  /\ NotReading(s)
  /\ UNCHANGED <<server, my_sock, character, registry, database_strand>>

\* Unknown opcode, malformed key or refused login.
LoginRejected(s) ==
  /\ Receive(s, "preauth")
  /\ ForceClose(s)
  /\ NotReading(s)
  /\ UNCHANGED <<server, registry, database_strand>>

\* get_account_data throws a runtime_error, or the packet is empty and the opcode
\* is read outside the try: the handler catches underflow_error only, and only
\* around the login; nothing catches in the worker thread and std::terminate
\* ends the process.
LoginFault(s) ==
  /\ FaultsEscape /\ Receive(s, "preauth")
  /\ server' = "terminated"
  /\ UNCHANGED <<my_sock, reading, object, registry, strand, database_strand>>

(***************************************************************************)
(* lobby_state::handle_network_packet.                                     *)
(***************************************************************************)

\* A bug in the selection: the character is not looked up in the list.
SelectUnlisted(s, c) ==
  /\ Receive(s, "lobby")
  /\ registry[c] = None
  /\ EnterWorld(s, c)
  /\ ScheduleTransition(s, "ingame")
  /\ ReadAgain(s)
  /\ UNCHANGED <<server, my_sock, account, database_strand>>

\* request_character_select of a listed character: the ingame_state is
\* constructed, and the character registered, before the transition runs.
\* Registering it twice fails an assertion.
Select(s, c) ==
  /\ Receive(s, "lobby")
  /\ Owner[c] = account[s]
  /\ IF registry[c] = None
       THEN /\ EnterWorld(s, c)
            /\ ScheduleTransition(s, "ingame")
            /\ ReadAgain(s)
            /\ UNCHANGED <<server, my_sock, account, database_strand>>
       ELSE /\ server' = "aborted"
            /\ UNCHANGED <<my_sock, reading, object, registry, strand, database_strand>>

\* Creating or deleting a character, or an unknown opcode.
LobbyRequest(s) ==
  /\ Receive(s, "lobby")
  /\ UNCHANGED <<server, my_sock, object, registry, strand, database_strand>>
  /\ ReadAgain(s)

\* Logging off, selecting or deleting a character that is not listed, or an
\* exception of the deserializer or the database (one that the constructor of
\* ingame_state throws leaves nothing registered): the session is closed and the
\* do_recv that may follow finds a null_socket.
LobbyClose(s) ==
  /\ Receive(s, "lobby")
  /\ ForceClose(s)
  /\ ReadAgain(s)
  /\ UNCHANGED <<server, registry, database_strand>>

(***************************************************************************)
(* ingame_state::handle_network_packet.                                    *)
(***************************************************************************)

LogOffToLobby(s) ==
  /\ Receive(s, "ingame")
  /\ ScheduleTransition(s, "lobby")
  /\ ReadAgain(s)
  /\ UNCHANGED <<server, my_sock, account, character, registry, database_strand>>

\* A chat or friend request, or an unknown opcode.
InGameRequest(s) ==
  /\ Receive(s, "ingame")
  /\ UNCHANGED <<server, my_sock, object, registry, strand, database_strand>>
  /\ ReadAgain(s)

\* An exception of the deserializer or the database.
InGameClose(s) ==
  /\ Receive(s, "ingame")
  /\ ForceClose(s)
  /\ NotReading(s)
  /\ UNCHANGED <<server, registry, database_strand>>

(***************************************************************************)
(* Reads that fail, and the tasks of the two strands.                      *)
(***************************************************************************)

\* mmoclient::on_error: end of file, reset, or a frame longer than the buffer.
RecvError(s) ==
  /\ Up
  /\ reading[s] /\ peer[s] = "gone"
  /\ ForceClose(s)
  /\ NotReading(s)
  /\ UNCHANGED <<server, peer, inflight, registry, database_strand>>

\* The task posted by schedule_transition.  lobby_state::start asks the
\* database for the characters and does not read yet; ingame_state::start does.
RunTransition(s) ==
  /\ Up /\ IsNext(Task("transition", s))
  /\ strand' = Tail(strand)
  /\ LeaveWorld(s)
  /\ current_state' = [current_state EXCEPT ![s] = awaiting[s]]
  /\ awaiting' = [awaiting EXCEPT ![s] = "none"]
  /\ async_state' = [async_state EXCEPT ![s] = "awaiting_packet_poll"]
  /\ IF awaiting[s] = "lobby"
       THEN /\ database_strand' = Append(database_strand, s)
            /\ UNCHANGED reading
       ELSE /\ reading' = [reading EXCEPT ![s] = my_sock[s] = "open"]
            /\ UNCHANGED database_strand
  /\ UNCHANGED <<server, peer, inflight, my_sock, account>>

\* The task posted by force_close holds the last reference to the session: with
\* the state object gone, so is the session when the task ends.
RunFinalize(s) ==
  /\ Up /\ IsNext(Task("finalize", s))
  /\ strand' = Tail(strand)
  /\ LeaveWorld(s)
  /\ current_state' = [current_state EXCEPT ![s] = "none"]
  /\ my_sock' = [my_sock EXCEPT ![s] = "none"]
  /\ async_state' = [async_state EXCEPT ![s] = "uninitialised"]
  /\ account' = [account EXCEPT ![s] = None]
  /\ inflight' = [inflight EXCEPT ![s] = 0]
  /\ peer' = [peer EXCEPT ![s] = "gone"]
  /\ UNCHANGED <<server, reading, awaiting, database_strand>>

\* The database strand runs in another thread than the game loop.  It answers
\* with a callback that holds a raw pointer to the lobby_state.
RunDatabase ==
  /\ Up /\ database_strand # << >>
  /\ database_strand' = Tail(database_strand)
  /\ Post(Task("lobby_chars", Head(database_strand)))
  /\ UNCHANGED <<server, connection, object, registry>>

\* The query throws, and nothing catches it in the worker thread either.
DatabaseFault ==
  /\ FaultsEscape /\ Up /\ database_strand # << >>
  /\ server' = "terminated"
  /\ UNCHANGED <<connection, object, registry, strand, database_strand>>

\* A bug in the callback: it sends the list but does not read again.
RunLobbyCharsWithoutRead(s) ==
  /\ Up /\ IsNext(Task("lobby_chars", s))
  /\ strand' = Tail(strand)
  /\ UNCHANGED <<server, connection, object, registry, database_strand>>

\* The callback of lobby_state::start: it writes lobby_chars_, sends the list
\* and only now reads.  A lobby_state destroyed in the meantime is undefined
\* behaviour.
RunLobbyChars(s) ==
  /\ Up /\ IsNext(Task("lobby_chars", s))
  /\ strand' = Tail(strand)
  /\ IF current_state[s] = "lobby"
       THEN /\ reading' = [reading EXCEPT ![s] = my_sock[s] = "open"]
            /\ UNCHANGED server
       ELSE /\ server' = "undefined"
            /\ UNCHANGED reading
  /\ UNCHANGED <<peer, inflight, my_sock, object, registry, database_strand>>

Client(s) == Accept(s) \/ ClientSends(s) \/ PeerLost(s) \/ NoticeLoss(s)

Preauth(s) ==
  (\E a \in Accounts : LoginAccepted(s, a)) \/ LoginRejected(s) \/ LoginFault(s)

Lobby(s) ==
  (\E c \in Characters : Select(s, c)) \/ LobbyRequest(s) \/ LobbyClose(s)

InGame(s) == LogOffToLobby(s) \/ InGameRequest(s) \/ InGameClose(s)

GameLoop == \E s \in Sessions : RunTransition(s) \/ RunFinalize(s) \/ RunLobbyChars(s)

Next ==
  \/ \E s \in Sessions :
       Client(s) \/ Preauth(s) \/ Lobby(s) \/ InGame(s) \/ RecvError(s)
  \/ GameLoop
  \/ RunDatabase
  \/ DatabaseFault

Spec == Init /\ [][Next]_vars

\* The worker threads run what is posted to either strand, and a connection that
\* is known to be lost fails the read that waits for it.  Clients owe nothing,
\* and nobody owes that a silent loss is noticed.
Fairness ==
  /\ WF_vars(GameLoop)
  /\ WF_vars(RunDatabase)
  /\ \A s \in Sessions : WF_vars(RecvError(s))

FairSpec == Spec /\ Fairness

(***************************************************************************)
(* Properties.                                                             *)
(***************************************************************************)

\* Every variable keeps its type.
TypeOK ==
  /\ server \in ServerStatus
  /\ peer \in [Sessions -> {"up", "silent", "gone"}]
  /\ inflight \in [Sessions -> 0..MaxInflight]
  /\ my_sock \in [Sessions -> {"open", "null", "none"}]
  /\ reading \in [Sessions -> BOOLEAN]
  /\ current_state \in [Sessions -> ClientState \union {"none"}]
  /\ awaiting \in [Sessions -> ClientState \union {"none"}]
  /\ async_state \in [Sessions -> AsyncStatus]
  /\ account \in [Sessions -> Accounts \union {None}]
  /\ character \in [Sessions -> Characters \union {None}]
  /\ registry \in [Characters -> Sessions \union {None}]
  /\ strand \in Seq([kind : TaskKind, session : Sessions])
  /\ database_strand \in Seq(Sessions)

\* What will next run on behalf of session s: the read that is outstanding, or
\* a task on one of the strands.
Continuations(s) ==
  {<<"read", 0>> : x \in {y \in {s} : reading[y]}}
    \union {<<"strand", i>> : i \in {j \in DOMAIN strand : strand[j].session = s}}
    \union {<<"database", i>> : i \in {j \in DOMAIN database_strand : database_strand[j] = s}}

\* Every session has exactly one continuation and a destroyed session has none.
\* With none a session would hang for ever, its character a ghost in the world;
\* with two a packet could be handled in the middle of a transition, or a task
\* holding a raw pointer could outlive what it points to.  No line of the code
\* says so: each handler's do_recv, schedule_transition or force_close does.
OneContinuation ==
  \A s \in Sessions :
    IF Exists(s) THEN \E x \in Continuations(s) : \A y \in Continuations(s) : x = y
                 ELSE Continuations(s) = {}

\* The registry of online players names exactly the characters of the in-game
\* states that exist, whether current or still waiting to become so: nobody
\* online is missing, and no entry points to a destroyed ingame_state.
RegistryMatchesStates ==
  /\ \A c \in Characters, s \in Sessions : registry[c] = s <=> character[s] = c
  /\ \A s \in Sessions :
       character[s] # None <=> (current_state[s] = "ingame" \/ awaiting[s] = "ingame")

\* Where the rest of the server sees each session.
Place ==
  [s \in Sessions |-> IF ~Exists(s) THEN "offline"
                      ELSE IF character[s] # None THEN "world"
                      ELSE IF account[s] # None THEN "lobby" ELSE "door"]

Lifecycle == INSTANCE SessionLifecycle WITH place <- Place

\* Whatever the order of packets, errors, tasks and logins, what the rest of the
\* server can see of the sessions are the steps of SessionLifecycle: a session is
\* in the world from the construction to the destruction of its ingame_state,
\* with a character of its account that nobody else plays.  The process stops
\* only for an exception nobody catches or because a user who is logged in twice
\* selects the character he plays already; a callback never finds its
\* lobby_state destroyed.
ImplementsLifecycle == Lifecycle!LifecycleSpec

\* In whatever state a session is when its connection is known to be lost, query
\* or transition under way, its object is eventually destroyed (and by
\* RegistryMatchesStates its character goes offline), unless an exception nobody
\* catches ends the whole process.
LostPeerIsForgotten ==
  \A s \in Sessions : peer[s] = "gone" ~> ~Exists(s) \/ ~Up

\* What the assertion in world_registrar::register_me says: nobody registers a
\* character that is registered.
CharacterRegisteredOnce == server # "aborted"
==============================================================================
