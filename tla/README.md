# A verification development for tejk_it_izi

`tejk_it_izi` is the server of an online chat: clients connect over TCP, log
in, manage the characters of their account in a lobby and enter the world with
one of them, where they chat in rooms and make friends.  The modules here
describe its core logic in TLA+.  TLC checks them on small instances, and TLAPS
proves every safety property and every refinement for instances of every size.

Paths below are relative to `src/server/` unless they start with `src/`.

## 1. The system

One process, five threads that run one `io_service` (`tejk_it_izi/src/main.cpp`).
All handlers of the sessions, the timers and the posted tasks run on **one
strand**, the game loop: they exclude each other and each runs to completion.
A **second strand** runs the one asynchronous query (`get_lobby_chars`) in
another thread, at the same time as the handlers.  Everything else in the
database is done synchronously from the game loop.

| Component | State it keeps | Operations |
|---|---|---|
| session (`mmoclient`) and its socket | `my_sock_`, the outstanding read, `current_state_`, `state_awaiting_transition_`, `async_state_` | accept, receive, error, `force_close`, `schedule_transition`, the two tasks they post |
| client states `preauth`, `lobby`, `ingame` | account, `lobby_chars_`, character | one packet handler each, `start`, the destructor of `ingame_state` |
| registry (`world_registrar`) | who plays which character, by id and by name | `register_me`, `unregister_me`, lookups |
| chat (`chat_system`) | `entities_` with the rooms each is in, `active_chatrooms_` with the participants of each | register, unregister, join, leave, broadcast, whisper, periodic broadcast |
| friends (`friend_system`) | the friend list of each online player; table `character_friends` | register, unregister, request, remove |
| pending requests (`pending_friend_requests`) | a front map, a back map, a timer | process a request, periodic cleanup |
| lobby and characters | table `characters`, the list of each lobby | load, create, delete, select |
| asynchronous database | tasks on the database strand | `get_lobby_chars` |
| packet encoding (`binary_serializer`, `binary_deserializer`) and framing (`boost_socket`) | a buffer of 2048 bytes, the length being waited for | write, read a length, read that many bytes, deserialize |
| opcodes and packet factories | none: an opcode means what the reader's phase says | build a packet, read a request |
| command line client | the phase `cs`, shared by the thread that reads packets and the thread that reads commands | login, the commands, a handler for each packet |
| login validator, logger | none | see section 7 |

How they interact.  A packet is read by the socket, handed to the session and
by it to its current state, whose handler does everything in one go: it calls
the chat, the friend system or the database, posts a transition or a close, and
decides **by itself** whether the session reads again.  An `ingame_state`
enters the chat, the friend system and the registry in its constructor, and
leaves them in its destructor, one posted task after the packet that caused it.
Nobody checks that a session goes on: it does because every path of every
handler ends in exactly one of `do_recv`, `schedule_transition`, `force_close`.

What is hard here is not data races (one strand excludes most) but *order*:

* tasks that hold raw pointers to a session or a state, posted and run later;
* the time between "closed" and "destroyed", between "constructed" and "current";
* the answer of the database strand, which arrives whenever it does;
* membership and friendship kept twice and changed in several steps;
* a list cached by a lobby and trusted afterwards;
* a timer that is late;
* a statement that fails after memory has been changed;
* parts of an `ingame_state` that register with three systems and are taken
  back in the opposite order, an exception half way included;
* two ends that change their phase independently, with opcodes that mean
  something else in the next phase;
* a byte stream without boundaries, writes that block the only strand, and a
  system clock that people adjust.

`PROJECT.json` lists these hazards one by one, each with its line and the
properties that watch it.

What makes each component correct:

* session: exactly one thing will happen next on its behalf (so no packet is
  handled during a transition, and no session hangs); a client known to be lost
  is forgotten; the registry names exactly the in-game states that exist;
* world: between two handlers chat, friends and registry know the same players,
  and nothing is sent to a player after the farewell;
* chat: rooms and entities agree, no pointer dangles, announcements never leave
  a client with a member who is not there;
* pending requests: a request is found for 20 seconds and not much longer, and
  two players never wait for each other;
* friends: memory and table agree (so friendship is mutual), a pair has one row;
* lobby: the list is the table's, so the limit and the ownership hold;
* protocol: each end reads a packet in the phase it was written for; a user who
  asks for another phase gets there or the client ends;
* packets: the receiver reads the messages that were sent, in order;
* writes: no peer that reads, however slowly, or is gone, however silently,
  stalls the game loop for ever.  (One that stays connected and does not read
  does: section 5.)

## 2. Modules

| Module | Models | Role |
|---|---|---|
| `SessionLifecycle` | sessions at the door, in the lobby, in the world | abstract |
| `Session` | the life of a connection (`mmoclient`, the states, the sockets, both strands, the registry) | detailed, implements `SessionLifecycle` |
| `SessionProofs` | | all its safety properties and the refinement, proved |
| `WorldEntry` | an `ingame_state` built and destroyed part by part: chat, friends, registry, finalizer | composition |
| `WorldEntryProofs` | | its properties, proved |
| `ChatMembership` | rooms as sets of members | abstract |
| `ChatSystem` | `chat_system` with room objects at addresses | detailed, implements `ChatMembership` |
| `ChatSystemProofs` | | all its properties and the refinement, proved |
| `FriendRequestWindow` | one table of waiting requests | abstract |
| `PendingFriendRequests` | two maps and a late timer | detailed, implements `FriendRequestWindow` |
| `AdjustedClock` | `PendingFriendRequests` under a clock that is set back and forth | environment |
| `FriendSystem` | `friend_system`; extends `PendingFriendRequests` with lists, table and notifications | composition |
| `FriendSystemProofs` | | all properties of `PendingFriendRequests`, `FriendSystem` and `AdjustedClock`, and the refinement, proved |
| `LobbyCharacters` | table `characters`, lobbies, queries that take time | detailed |
| `LobbyCharactersProofs` | | all its properties, proved |
| `Packets` | opcodes and fields of every packet, as written and as read | data |
| `ClientProtocol` | the command line client and a server session against each other | composition, implements `Session` for one connection |
| `ClientProtocolProofs` | | its safety properties and the refinement, proved |
| `Codec` | `binary_serializer`, `binary_deserializer` | operators |
| `PacketChannel` | messages in order, until the channel closes | abstract |
| `PacketStream` | lengths, partial reads, truncated and oversized packets | detailed, implements `PacketChannel` |
| `PacketStreamProofs` | | that messages are read back (`Codec`), the invariants of the stream and the refinement, proved |
| `StrandSends` | synchronous writes on the game loop strand, and the ways a handler ends | detailed |
| `StrandSendsProofs` | | that somebody can always go on unless a stopped client stalls the server, proved |
| `MC*` | model values for TLC | instances |

`PROJECT.json` names, for every definition, the lines it stands for.  The names
of the code are kept where TLA+ allows it.  Definitions introduced by "A bug
in ..." are mutated forms of the definition that follows them; no specification
uses them.  They record which mistake each property would find.

### Session

One action is one handler run to completion.  `reading[s]` is the outstanding
`async_read`; `strand` and `database_strand` are the queues of posted tasks,
first in first out, of which only the head may run.  `Receive` is the common
beginning of the handlers, `ReadAgain` their `do_recv` (guarded by
`async_state_`, without effect on a closed socket), `ForceClose`,
`ScheduleTransition`, `EnterWorld` and `LeaveWorld` the four things they do to
the session; `Register` and `Unregister` are the registry's part of the last two.
Packets are counted, not typed: what one asks for is chosen when it is handled.
A client that is lost is "gone" at once or "silent" before: then the server's TCP
may notice it (`NoticeLoss`), or never, as the sockets have no keep-alive.  Chat and friend requests are one action (`InGameRequest`)
because they leave the session as it is.  `server` records how the process
ended: an assertion ("aborted"), an exception nothing catches ("terminated"), a
use of a destroyed object ("undefined").

`SessionLifecycle` is what the rest of the server may rely on: nobody plays a
character of another account, no two sessions play the same one, and a session
is in the world from the construction of its `ingame_state` to its destruction,
whether or not that state is the current one.  It also says when the process
stops: for an exception nobody catches (`Terminate`), or because one of two
sessions of an account selects the character the other one plays
(`EnterTwice`), and for nothing else.

The server does not stop a second login of an account, the README asks users
not to attempt one (`src/README.md:35`).  `Relogin` says what users do: they log
in "at_any_time", which is what the code accepts and what the run and the proofs
assume, or, minding the README as far as they can see, only "after_disconnect"
of their last connection.  The second is not enough, as the run `relogin` shows:
between the close of a connection and the destruction of its `ingame_state` the
character is still registered, and a user who connects again and selects it
makes the assertion of `register_me` (`world_registrar.hpp:28`) fail.  By
`EnterTwice` nobody else can: as long as of each account there is one session at
a time, on the server and not only at its clients, the assertion holds.

### WorldEntry

`doing` is the constructor or destructor that runs, with the steps it has left;
they are steps of their own because an exception may come between them, after
which the parts that were built are destroyed backwards.  Between handlers
`doing` is empty.  `broken` records an assertion that would fail: a character
registered twice, or a friend with a list who is not in the registry.  While
the model's handlers run nothing else does, as on the strand.

### ChatSystem

`active_chatrooms` gives the address of the object of each room;
`participants` is indexed by address and `chatrooms_im_in` holds addresses, as
the code's pointers do.  A room that dies frees its address and the next room
may get it.  `broken` becomes true where an assertion fails, an `at()` throws
or a dangling pointer is followed.  `roster` is not a variable of the server:
it is what each client knows from the announcements it got.

### PendingFriendRequests and FriendSystem

Time is a counter of ticks.  `Tick` may not pass `cleanup_at + MaxLateness`:
the timer's handler waits its turn on the strand, but not longer than that.
`Add`, `AlreadyInBuffer` and `Match` are the three results of
`process_add_friend_request`.

`FriendSystem` extends the module: `process_req_friend_add` calls
`ProcessAddFriendRequest` and, on a match, changes both lists, tells both
players and writes the row, in the code's order, so that a write that fails
leaves the rest done and closes the session.  A closed player stays online
(`closing`) until `unregister_me`.  `told` is what each client knows; `Tell` is
what the notifications of the backends do to it.

### AdjustedClock

`realtime_clock` and `boost::asio::deadline_timer` both follow the system clock.
`Adjust` sets it to any time; everything else is `PendingFriendRequests`.
`cleanups` counts the swaps of the maps since a request was added.

### LobbyCharacters

The query of the database strand has a beginning and an end, between which the
handlers of other sessions run, statements of their own included.  What pqxx
does with two transactions on the one connection is not modelled.
`LoginTwice` permits a second login of an account.  The run sets it to FALSE, as
`src/README.md` asks of users; with TRUE, TLC finds an account with more
characters than the limit, because each lobby compares its own list.

### Packets and ClientProtocol

A packet is an opcode and the kinds of its fields, with the phase it was
written for, which no reader looks at.  `Packets` has the enumerations in the
code's order (the position is the opcode), the fields every constructor writes
and the fields every handler reads, on both sides.  `Readable` says when the
fields read are there; what is redundant is ignored.

In `ClientProtocol` the client's command thread looks at `cs` (`TypeCommand`)
and sends later (`SendCommand`): between the two, the main thread may have
changed the phase.  `next` is the continuation of the server's session, of which
there is exactly one by `OneContinuation`.  A `patient` user waits until a
change of phase is answered, a `hasty` one types ahead.

### Codec and PacketStream

Numbers are written little end first in a fixed number of bytes, strings as a
length and their characters.  The constants make a byte two bits, so that every
cut of a packet is explored.  `SendTruncated` and `SendOversized` are packets of
another program than the client here.  A reader that runs out of data fails and
stays failed, as the underflow exception leaves the handler.

The sizes of the types and the number of values of a byte are arbitrary.
`Rest`, `Serialize` and `GetAll` are functions defined by
recursion, which proofs can reason about.  `Fits` says what a C++ type says: the
number has no more bytes than the type.  `MessagesAssumption` says which messages
there are, one field after the other: the kinds that the handler of the opcode
reads (`Fields`; the list of characters begins with the number of its entries),
each value one of its type.  That such a message is read back from its packet is
not assumed: it is the theorem `ReadBack`.

### StrandSends

Packets are counted and handlers are known by whom they send to and by how they
end: with a new read (`EndReading`), with a transition posted instead of a read
(`EndInTransition`, the guard on `async_state_`), with a query (`EndQuerying`, the
`start` of the lobby), with `force_close` and its posted task (`EndClosing`: the
catch of a packet handler, a request to log off, or `on_error`), or with the
session destroyed (`EndFinalized`).  Which of the ends a packet handler takes is
open, as it depends on the packet.

A handler that sends to a client with a full inbox waits, and the strand with
it.  A client may be "stopped": connected, and not running.  It may also vanish
and leave the server in the belief that it is there ("silent"), which TCP notices
because what was sent is not acknowledged; nothing says that it is noticed if
nothing was sent.

`OneTask` is what `OneContinuation` is for `Session`, with handlers that take
time: a session has its read or its query, or a task that waits, or the handler
that runs.  `Stalled` is the one state in which the server waits for somebody who
owes nothing: the next recipient is stopped and its buffers are full.
`NeverStuck` says that in all others somebody who owes progress can take a step;
it lists them by the guards of their actions.

## 3. Runs

| Run | Instance | Shows |
|---|---|---|
| `session` | 2 sessions, 2 accounts, 3 characters, 2 packets in flight, logins at any time, silent losses, database faults, fair strands | `TypeOK`, `OneContinuation`, `RegistryMatchesStates`, `ImplementsLifecycle`, `LostPeerIsForgotten` |
| `world_entry` | 3 players, one the friend of both others | `WorldInv`, `LookupsSucceed`, `GoodbyeIsLast` |
| `friends` | 2 users, Ttl = Period = 3, lateness 1, 11 ticks, 1 failed pair | `NoRequestBetweenFriends`, `AtMostOneRow`, `NoCrossedRequests`, `MemoryMatchesTable`, `PresenceKnown`, `ImplementsWindow` |
| `adjusted_clock` | 2 users, Ttl = Period = 3, lateness 1, a clock from 0 to 8 set to any time | `OnlySetbacksCross`, `SecondCleanupForgets` |
| `chat` | 4 entities, 2 rooms, 2 addresses | `ChatTypeOK`, `RoomsConsistent`, `NothingBroken`, `RosterSound`, `EarlierKnowsLater`, `ImplementsMembership` |
| `lobby` | 3 clients, 2 accounts, 4 nicknames, limit 2, no double login | `LobbyInv` (with `LTypeOK`, `ListMatchesTable`, `AnswerMatchesTable`, `LoggedInOnce`), `CharacterLimit`, `PlayedCharactersExist`, `OnlyOwnerDeletes` |
| `client` | one client after another, patient or hasty; 1 packet on the wire to the server, 3 to the client | `ProtocolInv` (with `ProtocolTypeOK`, `PhasesMeet`), `AnswersUnderstood`, `CommandsReadAsMeant`, `AskedIsAnswered`, `ImplementsSession` |
| `packets` | 2 messages of 6, buffer of 11 bytes | `StreamTypeOK`, `ClosedForCause`, `ImplementsChannel`, `EverythingIsRead` |
| `blocking_sends` | 2 clients that stop, resume and vanish, 1 packet in each direction | `SendsInv` (with `SendsTypeOK`, `OneTask`, `PeersExist`, `NeverStuck`), `HandlersEnd`, `WritesEnd` |

Three runs show a disagreement between the code and what an assertion, a comment
or a test says of it; each ends in a counterexample.

| Run | Says | Does |
|---|---|---|
| `relogin` | `assert(id_to_character_.count(character.uid()) == 0)` (`world_registrar.hpp:28`) | a user who was disconnected and logs in again may select a character that is still registered |
| `repeated_request` | "the old request didnt expire yet" (`friend_system.cpp:96`) | the repeated request is erased from the map it is found in |
| `leaver_is_told` | `ut/leave_chat_tests.cpp:70` expects `user_left_chat` for the leaver | only those who stay are told |

### Bounds and why they are enough

* `MaxInflight` bounds the packets on the wire.  Two let a client send the next
  ones while the handler's transition or query is still to come, which is when a
  wrong extra read would consume them.
* Two sessions: they interact through the strands and the registry only,
  pairwise, and contend for the two characters of one account; the third
  character is another account's.  The proofs are for any number.
* Two users in `friends`: the lists, the table, the requests and what clients are
  told are about pairs.  That three do not disturb each other, or any number of
  them, is proved (`MemoryIsTheTable`, `PresenceTrue` and the others).
* `MaxTime`: three swaps of the maps, so that an entry is added, moved, found
  in the back map before and after its age limit, and dropped, from
  any phase of the timer.  With Ttl = 3 and lateness 1 both sides of the age
  limit and a front entry older than Ttl occur.  The proofs have no such bound
  other than `MaxTime` itself, which is arbitrary.
* `MaxFailed = 1` pair with a failed write; `MaxRows = 2` lets a duplicate row
  appear if it can.  The properties of `FriendSystem` speak of pairs whose
  writes did not fail.  Without that condition they do not hold: TLC finds a
  pair with two rows after two removals that failed, logins and requests in
  between: the lists forget a friendship that the table keeps, the next one is
  inserted beside it, and nothing in the table forbids that.
* Chat: as many addresses as rooms, so that an address is used again by another
  room.  A fourth entity makes no new kind of state; it is there because it is
  cheap.
* Lobby: limit 2 instead of 5.  Four nicknames let both accounts reach it, or
  one exceed it if it could.

* Client: one packet on the wire to the server and one being typed, so that a
  command is typed and sent ahead of the answer; three to the client, as no
  handler sends more than two.
* Packets: two messages, as nothing but the position in the stream is kept from
  one to the next; the six have no field, an empty string, strings, numbers,
  an empty list and a list.  The buffer holds every one of them, as
  `StreamAssumption` says of all messages.
* `blocking_sends`: with room for one packet each way a buffer is empty or full,
  and the recipients of a handler may be nobody, either client or both, in either
  order.  The proof is for any room.
* Clock: with 8 ticks a request can be made in the future, be overtaken by two
  cleanups, and become young again after its reverse was made.

`session`, `relogin` and `packets` have `CHECK_DEADLOCK FALSE`: there the process may end,
or everything has been sent.  All others check for deadlock.

### Fairness

`Session`: the threads run what has been posted to either strand (`WF` of
`GameLoop` and of `RunDatabase`: `io_service::run` with five threads), and the
read of a connection known to be lost fails (`WF` of `RecvError`, one for each
session).  The clients owe nothing, and neither does TCP: `NoticeLoss` has no
fairness, so nothing is promised of a silent loss that is not noticed.  A fault
nobody catches, or a character selected twice, ends the process, and with it
every session (`~Up`).

`ClientProtocol`: the server goes on with the session (`Server`), the client's
main thread polls (`ClientReceives`, `ClientError`), its command thread sends
what has been typed (`SendCommand`).  The user need not type anything.

`PacketStream`: bytes on the wire arrive, a read whose bytes are there
completes, nobody need send.

`StrandSends`: the server's threads run (`Begin`, `Send`, `End`), those of a
client that is not stopped poll and write (`Read`, `Write`), reads and queries
complete, and TCP gives up a client that vanished if what was sent to it is not
acknowledged (`Lose`, for a silent client whose inbox is full, and for no other).
Nothing makes a stopped client run again.

## 4. Proofs

Checked by TLAPS, for every value of the constants.  The assumptions are the
named ones of the modules (`SessionAssumption`, `ChatAssumption`,
`PendingAssumption`, `FriendAssumption`, `WorldAssumption`,
`ProtocolAssumption`, `LobbyAssumption`, `CodecAssumption`, `StreamAssumption`,
`MessagesAssumption`, `SendsAssumption`), about the constants only, and for the
lobby that nobody logs in twice.  All say how large or of which type a constant is;
none says what a definition computes.  Each module has one inductive invariant or a
few that rest on each other; a lemma for each of the things the actions are made
of says what it does to them, and the step lemma goes through the actions.
`PTypeOK`, `FTypeOK`, `BuffersOrdered`, `ATypeOK`, `OneMapNeverBoth` and
`NoDangling`, which no run lists, are proved and need no model checking.

* `SessionProofs`, for any number of sessions, accounts and characters:
  * `TypeCorrect`: `Spec => []TypeOK`.
  * `OneContinuationEach`: `OneContinuation` is not inductive, because it does
    not say where the one continuation is when.  `ContinuationInv` does: a session
    that reads, or waits for the database, has no task on the game loop strand,
    the tasks there are pairwise of different sessions, and the kind of the task
    fits the state the session is in (a transition only with a state that awaits
    it, a finalization only behind a closed socket).
  * `RegistryTrue` and `CallbackNeverDangles` follow from it with `WorldInv`,
    which says who has an account and a character in which state.  All of this
    holds however users log in.
  * `SessionRefines` (`ImplementsLifecycle`): each handler maps to a step of the
    life cycle or to none.  The handler that selects a character enters the world
    if the registry does not have it; if it does, `RegistryMatchesStates` gives the
    session that plays it, and `WorldInv` its account, so the assertion that fails
    is an `EnterTwice`.  The callback of the query maps to nothing because
    `ContinuationInv` excludes that its lobby is gone.
* `WorldEntryProofs`: `SystemsStayInStep`, `LookupsAlwaysSucceed`,
  `NothingAfterGoodbye`.  `EntryInv` adds to `WorldInv` the station a constructor
  or destructor has reached (`Stations`): which of the chat, the friend system
  and the registry the character is in depends on the steps it has left, also
  while the parts are destroyed backwards after an exception; and that all others
  are in the three at once or in none.
* `ChatSystemProofs`:
  * `ChatTypesCorrect`, `BothSidesAgree`, `NothingBreaks` from `ChatInv`: a
    participant's list and the room's agree, a room that exists has somebody in
    it, two rooms never have the same address.  Removing an entity from all its
    rooms is a step over a set of rooms, some of which die by it.
  * `AnnouncementsTrue` and `FirstComersKnow` from `RosterInv`, which adds that
    only a member knows anything of a room.
  * `ChatRefines`: `ChatSpec => ImplementsMembership`, each action of the objects
    one of the sets, whatever address the memory manager gives a room.
* `FriendSystemProofs`, first the double buffer alone:
  * `PTypeCorrect`: `PSpec => []PTypeOK`.  That no entry is younger than the
    clock is a part of it: the ages subtract the one from the other.
  * `BuffersStayOrdered`: the last cleanup, `cleanup_at - Period`, separates the
    maps.  It is inductive together with `PTypeOK` and explains the design:
    when the timer empties the back map, what is in it is at least `Period = Ttl`
    old.
  * `NeverCrossed`: two opposite requests are never both found.  By induction:
    a request is added only if its reverse is not found, and no other step makes
    a request found that was not (`FoundShrinks`).
  * `FoundOnce` (no request is found in both maps) is needed for the
    refinement: erasing it from one map must erase it from the table.
  * `Refinement`: `PSpec => ImplementsWindow`.  Each action maps to an action of
    `FriendRequestWindow` under `waiting <- Waiting`: the entry of the front map
    or the live entry of the back map.  The cleanup and the clock both map to
    `WTime`, where `BuffersOrdered` gives the two bounds on what is forgotten.
  and then the friend system, which uses the step lemmas of the double buffer:
  * `FriendsNeverCross`, `FriendsWindowRefines`: what was proved of the double
    buffer holds inside the friend system, which calls it only as
    `process_req_friend_add` does.
  * `FriendTypesCorrect`, `MemoryIsTheTable`: the two lists of a pair that is
    online agree with the table unless a write of that pair failed.  `ListsInv`
    adds that nobody is his own friend.
  * `PresenceTrue`: what the notifications tell a client of who is online is true.
  * `FriendsDoNotWait`, `RowsStaySingle`: no request between friends waits and a
    pair has at most one row.  Both rest on `ListsInv`: requests are looked at and
    rows inserted only between players whose lists do not hold each other, and
    then the table has no row for them either; the match that inserts the row
    spends the requests of both.
  and last `AdjustedClock`, for every set of players and every adjustment:
  * `ATypeCorrect`: the types, without the bound that no entry is in the future,
    which fails here.
  * `CrossedBySetbacksOnly`: two players wait for each other only if the clock
    has been set back.  As long as it has not, an entry that was too old when it
    was looked up stays too old, so the argument of `NeverCrossed` holds.
  * `NeverBothInOneMap`: two opposite requests are never in the same map.  A
    cleanup empties the back map, so it ends any crossing.
  * `ForgottenBySecondCleanup`: what is found in the front map has seen no
    cleanup, what is found in the back map one (this is the inductive part).
* `LobbyCharactersProofs`, if nobody logs in twice (`~LoginTwice`):
  * `ListsAreTrue`: `LobbyInv`, inductive as it stands.  The list of a lobby
    alone is not: an answer on its way must be true, too, and no two sessions may
    have one account.  The key is `OthersUntouched`: what one lobby does to the
    table concerns no other account.
  * `LimitHolds`, `PlayedExist` and `OwnersDelete` follow, each from `LobbyInv`
    and an induction of its own (for the limit, that the characters of an account
    are a finite set).
* `ClientProtocolProofs`, for any capacity of the two directions:
  * The packets first, one by one: a packet read in the phase it was written for
    means what it was written for, and its fields are what that reader takes
    (`NewsReported`, `CommandsAnswerable`, ...).
  * `PhasesAlwaysMeet` (`ProtocolInv`) and `AnswersAlwaysUnderstood` from
    `WireInv`: each packet on the wire to the client was written for the phase in
    which it will be read, which is the phase of the client for the first and the
    phase its predecessor leads to for the others (`Chain`), and the last leads to
    the server's phase.  Neither property is inductive without the packets in the
    middle.  `ChainConcat` and `ServerSpeaks` reduce a handler to the packets it
    sends.
  * `PatientUsersUnderstood` (`CommandsReadAsMeant`) from `PatientInv`, one
    question at a time: of a question on the wire, a server that takes the player
    out of the world, and an answer on the wire there is at most one, nothing is
    sent behind a question, and until the answer is read nothing is typed.  The
    login counts as a question; that nothing is typed behind it is because `cs` is
    still `preauth`, not because the user waits.
  * `ConversationRefines`: `ProtocolSpec => ImplementsSession`.  Each handler maps
    to the handler of `Session` for the one session there is; what client and
    network do maps to a packet that arrives, a loss of the peer, or nothing.
* `PacketStreamProofs`, for any messages, any sizes of bytes, numbers and buffers
  and any number of messages:
  * `ReadBack`: whatever is put behind the packet of a message, the deserializer
    reads the message, and of a packet that was cut off it throws.  The parts are
    inductions over data.  The library's induction theorems take an operator,
    which cannot be instantiated here, but that a set of numbers has a smallest
    element follows from `WFMin`, a fact about sets, and gives induction over
    sets (`Induction`): first that the recursive functions are defined
    (`RestExists`, `ValueExists`, `OutExists`, `AfterExists`), then that the bytes
    of a number that fits are that number (`NumberBack`), where the values of a
    packet are (`WhereValuesAre`), and that after each `>>` the deserializer
    `Stands` at the next of them (`ValueIsRead`, `StandsAfterGet`).
  * `StreamTypesCorrect`, `ClosesForCause` and `StreamIsAChannel`
    (`ImplementsChannel`) from `StreamInv`.  None of them is inductive, because
    they say nothing of the bytes on the way.  `InFrames` does: there is a stream,
    everything written so far, and an end in it of every packet sent (`Framed`,
    `FrameAt`: a length, then as many bytes, which carry the message or not all of
    it); what has arrived and what is on the wire are, together, the slice of it
    behind the `Position` of the receiver (`Travelling`), as far as the connection
    carried it; and the length being waited for is the one in front of that
    position.
  * Writing puts a packet behind the stream and moves no earlier one
    (`FrameStays`, `FrameMoves`, `SendsAreFrames`), arriving moves bytes from one
    part of the slice to the other, reading takes its front (`TakenSlice`,
    `LeftSlice`), which is exactly a length (`LengthOfNext`) or exactly the data of
    one packet (`DataOfNext`).  So no cut makes the receiver lose count, and what
    it reads next is the head of the queue of `PacketChannel`.
* `StrandSendsProofs`, for any finite set of clients and any room in the buffers:
  `SendsNeverStick` (`SendsInv`).  `NeverStuck` is not inductive: that a full
  inbox belongs to a client who reads, is stopped or is given up needs `PeersExist`
  (no session ends while a handler still sends to it), and that a full outbox is
  read needs `OneTask`.  The three other parts of `SendsInv` are inductive together
  (`SendsCore`) and give the fourth (`SomebodyGoesOn`).  `OneTask` goes through the
  ways a session passes from one thing it waits for to the next: a task posted
  (`TaskPosted`), begun (`TaskBegun`) and ended (`TaskEnded`).  What is left to
  fairness is that those who can go on do.

Only model-checked:

* the liveness properties (`LostPeerIsForgotten`, `AskedIsAnswered`,
  `EverythingIsRead`, `HandlersEnd`, `WritesEnd`): they are about fairness and
  need `ENABLED`, which the prover does not treat;
* the three runs that end in a counterexample.

## 5. What the runs found

Besides the three disagreements:

* The system relies on a discipline it never states (`OneContinuation`): TLC
  confirms it for every path, including an exception in every handler, a
  close during the query and faults of the database.  A handler that forgot its
  `do_recv`, or called it once too often, would be found by it.
* An empty first packet, or a database error at the login, leaves
  `preauth_state::handle_network_packet` as an exception nothing catches
  (`LoginFault`); so does an error of the asynchronous query (`DatabaseFault`).
  The model lets the process end there.
* A failed write makes a pair of friends inconsistent in memory and in the
  table until a removal succeeds, and touches no other pair.
* Answers are always understood: changes of phase travel in order with
  everything else.  Commands are not: a hasty user's command, typed before the
  client has read of the change, is read with the meaning its opcode has in the
  server's next phase.  One who leaves the world and at once types a command for
  a chat room may delete the character of that name.
  `CommandsReadAsMeant` is therefore about patient users.
* A chat message that nearly fills a packet need not fit into the packet it is
  relayed in, with the name of its author added.  Nothing in the code sees to it,
  and nothing in the repository says how long a message may be, so there is no
  statement to check: the model's messages fit by assumption.
* Setting the clock back lets two requests cross; the next cleanup ends it.
  Setting it forth only makes requests old.
* That synchronous writes never lock up server and client rests on the client:
  one of its threads does nothing but read.  With one thread for both
  (`ReadBetweenCommands`), TLC finds a handler that never ends.  And it rests on
  that thread running: a client that is stopped while it stays connected stalls
  the game loop for everybody, for as long as it stays so, once its buffers are
  full (`Stalled`).  The code has no time limit for a write.
* A client that vanishes without a word is forgotten only if something is sent to
  it, since the sockets have no keep-alive; until then it is online.
* The asynchronous query uses the connection of the database from one thread
  while handlers use it from another.  `LobbyCharacters` shows that the tables
  and lists still agree, if the database treats the two as separate; whether the
  library accepts them at once is outside the repository.

## 6. Plan

1. **Done**: the modules of section 2, with the runs of section 3 and the proofs
   of section 4.
2. **Done**: every safety property and every refinement of the runs is a theorem;
   for `PacketStream` by separating the framing (which bytes belong to which
   message, however they are cut) from what the codec computes, and proving both.
3. **Done**: the safety half of what `StrandSends` is checked for: of the server
   and its clients somebody can always go on, unless a stopped client stalls it,
   whatever the number of clients and the room in the buffers.
4. Left to TLC: liveness, as said in section 4.

## 7. Not modelled

* The login validator (three hard-coded names, no state): `Session` leaves open
  whether a login is accepted.  The logger, which only prints.
* The tick of `tejk_it_izi`, which only arms itself again; the set-up of the
  connection to the database and the SQL text (statements are modelled by what
  they do to the tables); accounts and access levels, which never change.
* A write that ends half way at an error: nobody looks at it, and the connection
  has ended.  An exception of the read path is modelled (`LoginFault`).
* How asio distributes the strands over threads: a strand is a queue here.
* `serializer_skip`, which only tests use; prompts, colours and printing of the
  client; the tests and the build files.
* The writer's buffer of 2048 bytes (`binary_serializer`): a message fits by
  assumption, see section 5.  The reader's is modelled.
* Different sizes of `size_t` at the two ends, which `src/README.md` warns of:
  `SizeOf` is one for both.
