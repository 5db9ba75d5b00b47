------------------------------ MODULE StrandSends -------------------------------
(***************************************************************************)
(* Writes that block.  send_to_client writes synchronously, on the strand  *)
(* of the game loop: while a peer's receive buffer is full, no handler of  *)
(* any session runs.  The peer for its part may be stuck in a write,       *)
(* because the server does not read while it writes.  That everyone goes   *)
(* on rests on the client, one thread of which does nothing but read; a    *)
(* peer that is connected and does not read stops the whole server.        *)
(*                                                                         *)
(* Handlers are shown by whom they send to and by how they end: with a new *)
(* read, with a task posted to the strand, or with the session closed.     *)
(* Packets are counted.                                                    *)
(***************************************************************************)
EXTENDS Naturals, Sequences, FiniteSets, SequencesExt

CONSTANTS
  Clients,
  InboxSize,  \* packets the network and the client's buffers hold
  OutboxSize  \* the same, of the other direction

ASSUME SendsAssumption ==
  IsFiniteSet(Clients) /\ InboxSize \in Nat \ {0} /\ OutboxSize \in Nat \ {0}

VARIABLES
  link,     \* "up"; "stopped", connected but not running; "silent", lost but not
            \* noticed; "lost"; "closed" by the server; "none", no session
  typed,    \* does the client's command thread have a packet to write?
  outbox,   \* packets on their way to the server
  inbox,    \* packets on their way to the client
  pending,  \* what a session waits for outside the strand: a read or a query
  strand,   \* handlers that are ready, first in first out
  handler,  \* the handler that runs, or None
  todo      \* the recipients of what it has not sent yet, in its order

client_vars == <<link, typed, outbox, inbox>>
server_vars == <<pending, strand, handler, todo>>
sends_vars == <<client_vars, server_vars>>

\* A null_socket, like a session that does not exist, is sent nothing.
Online == {c \in Clients : link[c] \notin {"none", "closed"}}
Timer == <<"timer">>
None == <<"none">>
Idle == handler = None

SendsInit ==
  /\ link = [c \in Clients |-> "none"]
  /\ typed = [c \in Clients |-> FALSE]
  /\ outbox = [c \in Clients |-> 0]
  /\ inbox = [c \in Clients |-> 0]
  /\ pending = [c \in Clients |-> "nothing"]
  /\ strand = << >> /\ handler = None /\ todo = << >>

(***************************************************************************)
(* The clients and the network.                                            *)
(***************************************************************************)

\* on_accept, a handler like the others.
Connect(c) ==
  /\ Idle /\ link[c] = "none"
  /\ link' = [link EXCEPT ![c] = "up"]
  /\ pending' = [pending EXCEPT ![c] = "read"]
  /\ UNCHANGED <<typed, outbox, inbox, strand, handler, todo>>

Type(c) ==
  /\ link[c] = "up" /\ ~typed[c]
  /\ typed' = [typed EXCEPT ![c] = TRUE]
  /\ UNCHANGED <<link, outbox, inbox, server_vars>>

Write(c) ==
  /\ link[c] = "up" /\ typed[c] /\ outbox[c] < OutboxSize
  /\ typed' = [typed EXCEPT ![c] = FALSE]
  /\ outbox' = [outbox EXCEPT ![c] = @ + 1]
  /\ UNCHANGED <<link, inbox, server_vars>>

\* A bug in the client: one thread types, writes and reads.
ReadBetweenCommands(c) ==
  /\ link[c] = "up" /\ inbox[c] > 0 /\ ~typed[c]
  /\ inbox' = [inbox EXCEPT ![c] = @ - 1]
  /\ UNCHANGED <<link, typed, outbox, server_vars>>

\* io_service.poll() of the client's main thread.
Read(c) ==
  /\ link[c] = "up" /\ inbox[c] > 0
  /\ inbox' = [inbox EXCEPT ![c] = @ - 1]
  /\ UNCHANGED <<link, typed, outbox, server_vars>>

\* The client is suspended and resumed; its TCP stays connected.  (Another
\* program than the client here need never read.)
Stop(c) ==
  /\ link[c] = "up"
  /\ link' = [link EXCEPT ![c] = "stopped"]
  /\ UNCHANGED <<typed, outbox, inbox, server_vars>>

Resume(c) ==
  /\ link[c] = "stopped"
  /\ link' = [link EXCEPT ![c] = "up"]
  /\ UNCHANGED <<typed, outbox, inbox, server_vars>>

\* The client exits or the network fails, and the server is not told.
Vanish(c) ==
  /\ link[c] \in {"up", "stopped"}
  /\ link' = [link EXCEPT ![c] = "silent"]
  /\ typed' = [typed EXCEPT ![c] = FALSE]
  /\ UNCHANGED <<outbox, inbox, server_vars>>

\* The server's TCP is told of the end, or gives up a connection that does not
\* acknowledge what was sent.  What was to be sent is dropped.
Lose(c) ==
  /\ link[c] \in {"up", "stopped"} \/ (link[c] = "silent" /\ inbox[c] > 0)
  /\ link' = [link EXCEPT ![c] = "lost"]
  /\ typed' = [typed EXCEPT ![c] = FALSE]
  /\ inbox' = [inbox EXCEPT ![c] = 0]
  /\ UNCHANGED <<outbox, server_vars>>

(***************************************************************************)
(* What makes a handler ready.                                             *)
(***************************************************************************)

Post(task) == strand' = Append(strand, task)

\* What session c was waiting for is there; its task goes to the strand.
Wake(c, kind) ==
  /\ pending' = [pending EXCEPT ![c] = "nothing"]
  /\ Post(<<kind, c>>)
  /\ UNCHANGED <<handler, todo>>

\* async_read completes with a packet.
ReadPacket(c) ==
  /\ pending[c] = "read" /\ outbox[c] > 0
  /\ outbox' = [outbox EXCEPT ![c] = @ - 1]
  /\ Wake(c, "packet")
  /\ UNCHANGED <<link, typed, inbox>>

\* async_read completes with an error; what was on its way may be gone.
ReadError(c) ==
  /\ pending[c] = "read" /\ link[c] = "lost"
  /\ Wake(c, "error")
  /\ UNCHANGED client_vars

\* The database thread has the characters of the lobby.
AnswerQuery(c) ==
  /\ pending[c] = "query"
  /\ Wake(c, "lobby_chars")
  /\ UNCHANGED client_vars

\* The timer of periodic_broadcast, armed again by its handler.
TimerExpires ==
  /\ handler # Timer /\ Timer \notin Range(strand)
  /\ Post(Timer)
  /\ UNCHANGED <<client_vars, pending, handler, todo>>

(***************************************************************************)
(* The handlers of the game loop.                                          *)
(***************************************************************************)

\* on_error only closes; the callback of get_lobby_chars sends its own client
\* the list.  The others send to members of a room, friends, the sender himself,
\* in the order of the hash tables they are in; a handler that an exception ends
\* has sent to some of them.
Recipients(task) ==
  CASE task[1] = "error" -> {<< >>}
    [] task[1] = "lobby_chars" -> {<<task[2]>>}
    [] OTHER -> UNION {SetToSeqs(players) : players \in SUBSET Online}

Begin ==
  /\ Idle /\ strand # << >>
  /\ handler' = Head(strand) /\ strand' = Tail(strand)
  /\ todo' \in Recipients(Head(strand))
  /\ UNCHANGED <<client_vars, pending>>

\* boost::asio::write returns when all is written, or with an error nobody
\* looks at.
Send ==
  /\ todo # << >>
  /\ LET r == Head(todo)
     IN IF link[r] = "lost"
          THEN UNCHANGED inbox
          ELSE inbox[r] < InboxSize /\ inbox' = [inbox EXCEPT ![r] = @ + 1]
  /\ todo' = Tail(todo)
  /\ UNCHANGED <<link, typed, outbox, pending, strand, handler>>

\* A handler of session c, of one of these kinds, has sent what it had to.
Ends(c, kinds) ==
  /\ handler \in kinds \X {c} /\ todo = << >>
  /\ handler' = None
  /\ UNCHANGED todo

\* A bug in the packet handlers: they leave the next do_recv to others.
EndWithoutRead(c) ==
  /\ Ends(c, {"packet", "transition", "lobby_chars"})
  /\ pending' = [pending EXCEPT ![c] = IF handler[1] = "packet" THEN @ ELSE "read"]
  /\ UNCHANGED <<client_vars, strand>>

\* do_recv, at the end of a packet handler that neither closed the session nor
\* scheduled a transition, of ingame_state::start and of the callback of
\* get_lobby_chars.
EndReading(c) ==
  /\ Ends(c, {"packet", "transition", "lobby_chars"})
  /\ pending' = [pending EXCEPT ![c] = "read"]
  /\ UNCHANGED <<client_vars, strand>>

\* schedule_transition: the packet handler does not read.
EndInTransition(c) ==
  /\ Ends(c, {"packet"})
  /\ Post(<<"transition", c>>)
  /\ UNCHANGED <<client_vars, pending>>

\* lobby_state::start asks the database and does not read yet.
EndQuerying(c) ==
  /\ Ends(c, {"transition"})
  /\ pending' = [pending EXCEPT ![c] = "query"]
  /\ UNCHANGED <<client_vars, strand>>

\* force_close, by on_error, by the catch of a packet handler or by a request to
\* log off: the socket goes at once (whoever writes to it fails), the state with
\* the posted task.
EndClosing(c) ==
  /\ Ends(c, {"packet", "error"})
  /\ link' = [link EXCEPT ![c] = "closed"]
  /\ typed' = [typed EXCEPT ![c] = FALSE]
  /\ outbox' = [outbox EXCEPT ![c] = 0]
  /\ inbox' = [inbox EXCEPT ![c] = 0]
  /\ Post(<<"finalize", c>>)
  /\ UNCHANGED pending

\* The task of force_close has destroyed the state, which may have sent to others,
\* and with it the session.
EndFinalized(c) ==
  /\ Ends(c, {"finalize"})
  /\ link' = [link EXCEPT ![c] = "none"]
  /\ UNCHANGED <<typed, outbox, inbox, pending, strand>>

EndOfBroadcast ==
  /\ handler = Timer /\ todo = << >>
  /\ handler' = None
  /\ UNCHANGED <<client_vars, pending, strand, todo>>

End ==
  \/ EndOfBroadcast
  \/ \E c \in Clients :
       EndReading(c) \/ EndInTransition(c) \/ EndQuerying(c) \/ EndClosing(c) \/ EndFinalized(c)

SendsNext ==
  \/ \E c \in Clients :
       \/ Connect(c) \/ Type(c) \/ Write(c) \/ Read(c)
       \/ Stop(c) \/ Resume(c) \/ Vanish(c) \/ Lose(c)
       \/ ReadPacket(c) \/ ReadError(c) \/ AnswerQuery(c)
  \/ TimerExpires \/ Begin \/ Send \/ End

SendsSpec == SendsInit /\ [][SendsNext]_sends_vars

\* The threads of the server run, and those of a client as long as it is not
\* stopped; reads and queries complete; and TCP does not wait for ever for a lost
\* peer to take what no buffer has room for.  Users and timers owe nothing, and
\* nobody owes that a stopped client is resumed.
SendsFairSpec ==
  /\ SendsSpec
  /\ WF_sends_vars(Begin) /\ WF_sends_vars(Send) /\ WF_sends_vars(End)
  /\ \A c \in Clients :
       /\ WF_sends_vars(Write(c)) /\ WF_sends_vars(Read(c))
       /\ WF_sends_vars(link[c] = "silent" /\ inbox[c] = InboxSize /\ Lose(c))
       /\ WF_sends_vars(ReadPacket(c)) /\ WF_sends_vars(ReadError(c))
       /\ WF_sends_vars(AnswerQuery(c))

(***************************************************************************)
(* Properties.                                                             *)
(***************************************************************************)

SessionTasks == {"packet", "error", "transition", "lobby_chars", "finalize"}
Tasks == {Timer} \union SessionTasks \X Clients

\* Every variable keeps its type; no buffer holds more than it has room for.
SendsTypeOK ==
  /\ link \in [Clients -> {"none", "up", "stopped", "silent", "lost", "closed"}]
  /\ typed \in [Clients -> BOOLEAN]
  /\ pending \in [Clients -> {"nothing", "read", "query"}]
  /\ outbox \in [Clients -> 0..OutboxSize] /\ inbox \in [Clients -> 0..InboxSize]
  /\ strand \in Seq(Tasks) /\ handler \in Tasks \union {None} /\ todo \in Seq(Clients)

Of(c) == SessionTasks \X {c}
Waits(c) == {i \in DOMAIN strand : strand[i] \in Of(c)}

\* A session that is closed waits for its end, and no other does.
FitsLink(task, c) ==
  /\ task[1] = "finalize" <=> link[c] = "closed"
  /\ task[1] = "error" => link[c] = "lost"

\* A session reads or waits for the database, or one task of it waits on the
\* strand, or its handler runs, however long others block the strand; of one that
\* is over nothing is left.
OneTask(c) ==
  /\ \A i, j \in Waits(c) : i = j
  /\ Waits(c) # {} => pending[c] = "nothing" /\ handler \notin Of(c)
  /\ handler \in Of(c) => pending[c] = "nothing" /\ FitsLink(handler, c)
  /\ \A i \in Waits(c) : FitsLink(strand[i], c)
  /\ pending[c] # "nothing" => link[c] # "closed"
  /\ link[c] # "none" <=> pending[c] # "nothing" \/ Waits(c) # {} \/ handler \in Of(c)

\* Whoever is still to be sent something has a session with a socket, and whoever
\* writes is connected.
PeersExist ==
  /\ Idle => todo = << >>
  /\ \A i \in DOMAIN todo : todo[i] \in Online
  /\ \A c \in Clients : typed[c] => link[c] \in {"up", "stopped"}

\* The one state in which the server waits for a peer that owes it nothing: the
\* next recipient is connected, does not run, and its buffers are full.
Stalled ==
  todo # << >> /\ link[Head(todo)] = "stopped" /\ inbox[Head(todo)] = InboxSize

SomethingWaits ==
  \/ ~Idle \/ strand # << >>
  \/ \E c \in Clients :
       \/ typed[c] /\ link[c] = "up"
       \/ link[c] \in {"lost", "closed"}
       \/ pending[c] = "query"

SomethingMoves ==
  \/ todo = << >> /\ ~(Idle /\ strand = << >>)
  \/ todo # << >> /\ (link[Head(todo)] = "lost" \/ inbox[Head(todo)] < InboxSize)
  \/ \E c \in Clients :
       \/ link[c] = "up" /\ (inbox[c] > 0 \/ (typed[c] /\ outbox[c] < OutboxSize))
       \/ link[c] = "silent" /\ inbox[c] = InboxSize
       \/ pending[c] = "read" /\ (outbox[c] > 0 \/ link[c] = "lost")
       \/ pending[c] = "query"

\* As long as a handler, a task, a writer, a query or a lost session waits for its
\* turn, and no stopped client stalls the server, one of those that owe progress
\* can take a step: the strand, a client's two threads, TCP, a read, the database.
NeverStuck == SomethingWaits => Stalled \/ SomethingMoves

\* Through packets that close the session, change its state or are answered, and
\* whoever vanishes or stops: the synchronous writes leave each session its one
\* task, and the server and its clients never all wait for each other, unless the
\* server waits for a stopped client.
SendsInv ==
  SendsTypeOK /\ (\A c \in Clients : OneTask(c)) /\ PeersExist /\ NeverStuck

\* Every handler ends, the slowest recipient, and one who vanished without a
\* word, notwithstanding, unless it has to send to a client that is stopped and
\* whose buffers are full: that one stops the whole game loop until it is resumed.
HandlersEnd == ~Idle ~> Idle \/ Stalled

\* Whatever a running client writes is taken, or the server closes: it waits, with
\* the whole strand before it, but it and the server never wait for each other for
\* ever; only a client that is stopped can keep it waiting.
WritesEnd ==
  \A c \in Clients : typed[c] ~> ~typed[c] \/ link[c] = "stopped" \/ Stalled
===============================================================================
