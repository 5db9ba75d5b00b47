------------------------------ MODULE WorldEntry -------------------------------
(***************************************************************************)
(* How an ingame_state enters the world and leaves it.  Its constructor    *)
(* builds the finalizer, the chat_controller and the friend_controller,    *)
(* in this order, and then registers the character as online; its          *)
(* destructor undoes all this backwards.  Each part registers with a       *)
(* system of its own, and the systems look each other's players up.  A     *)
(* constructor that throws destroys the parts it has built, and no more.   *)
(*                                                                         *)
(* All of it happens in one handler or task; the steps are shown one by    *)
(* one because an exception may come between them.                         *)
(***************************************************************************)
EXTENDS Naturals, Sequences, SequencesExt

CONSTANTS
  Players,    \* sessions in the lobby or the world, each with its character
  Friendship  \* pairs of friends, a symmetric relation

ASSUME WorldAssumption ==
  Friendship \subseteq {p \in Players \X Players : p[1] # p[2] /\ <<p[2], p[1]>> \in Friendship}

VARIABLES
  place,     \* "lobby": no ingame_state; "world": one that is complete; "closing"
  chat,      \* entities_ of chat_system
  friends,   \* friendlist_of_id_ of friend_system
  registry,  \* id_to_character_ and name_to_character_ of world_registrar
  doing,     \* the constructor or destructor that runs: <<player, way, steps left>>
  last,      \* the last packet of the visit to the world: "news", "moved_to_lobby"
  broken     \* has an assertion failed?

world_vars == <<place, chat, friends, registry, doing, last, broken>>

Idle == doing = << >>
Player == doing[1]
Way == doing[2]
Steps == doing[3]
Do(p, way, steps) == doing' = IF steps = << >> THEN << >> ELSE <<p, way, steps>>

\* The parts in the order they are built.
Parts == <<"finalizer", "chat", "friends", "registry">>

WorldInit ==
  /\ place = [p \in Players |-> "lobby"]
  /\ chat = {} /\ friends = {} /\ registry = {}
  /\ doing = << >>
  /\ last = [p \in Players |-> "nothing"]
  /\ broken = FALSE

Check(condition) == broken' = (broken \/ ~condition)

\* Both maps of the registrar, which are changed together.
register_me(p) == registry' = registry \union {p} /\ Check(p \notin registry)
unregister_me(p) == registry' = registry \ {p} /\ Check(p \in registry)

Notify(players) ==
  last' = [p \in Players |-> IF p \in players THEN "news" ELSE last[p]]

OnlineFriends(p) == {f \in friends : <<p, f>> \in Friendship}

(***************************************************************************)
(* The constructor.                                                        *)
(***************************************************************************)

\* request_character_select.
Construct(p) ==
  /\ Idle /\ place[p] = "lobby"
  /\ Do(p, "in", Parts)
  /\ last' = [last EXCEPT ![p] = "nothing"]
  /\ UNCHANGED <<place, chat, friends, registry, broken>>

Next(way, part) ==
  /\ ~Idle /\ Way = way /\ Head(Steps) = part
  /\ Do(Player, way, Tail(Steps))

BuildFinalizer ==
  /\ Next("in", "finalizer")
  /\ UNCHANGED <<place, chat, friends, registry, last, broken>>

\* chat_controller::chat_controller.
EnterChat ==
  /\ Next("in", "chat")
  /\ chat' = chat \union {Player}
  /\ Check(Player \notin chat)
  /\ UNCHANGED <<place, friends, registry, last>>

\* A bug in friend_system::register_me: every friend is taken to be registered.
EnterFriendsOfAll ==
  /\ Next("in", "friends")
  /\ LET all == {f \in Players : <<Player, f>> \in Friendship}
     IN /\ Check(Player \notin friends /\ all \subseteq registry)
        /\ Notify(all)
  /\ friends' = friends \union {Player}
  /\ UNCHANGED <<place, chat, registry>>

\* friend_controller::friend_controller: a friend who has a friend list is
\* looked up in the registry for his name, and both are told.
EnterFriends ==
  /\ Next("in", "friends")
  /\ Check(Player \notin friends /\ OnlineFriends(Player) \subseteq registry)
  /\ Notify(OnlineFriends(Player)
              \union {p \in {Player} : OnlineFriends(Player) # {}})
  /\ friends' = friends \union {Player}
  /\ UNCHANGED <<place, chat, registry>>

\* The parts that are built when get_friends_of throws, backwards.
Built == Reverse(SubSeq(Parts, 1, Len(Parts) - Len(Steps)))

\* A bug in the constructor: what registered with the chat is no part of it.
FriendsUnknownStayingInChat ==
  /\ ~Idle /\ Way = "in" /\ Head(Steps) = "friends"
  /\ Do(Player, "out", <<"finalizer">>)
  /\ place' = [place EXCEPT ![Player] = "closing"]
  /\ UNCHANGED <<chat, friends, registry, last, broken>>

\* get_friends_of throws, before the friend list exists; the handler that
\* asked for the ingame_state closes the session.
FriendsUnknown ==
  /\ ~Idle /\ Way = "in" /\ Head(Steps) = "friends"
  /\ Do(Player, "out", Built)
  /\ place' = [place EXCEPT ![Player] = "closing"]
  /\ UNCHANGED <<chat, friends, registry, last, broken>>

EnterRegistry ==
  /\ Next("in", "registry")
  /\ register_me(Player)
  /\ place' = [place EXCEPT ![Player] = "world"]
  /\ UNCHANGED <<chat, friends, last>>

(***************************************************************************)
(* The destructor.                                                         *)
(***************************************************************************)

\* A transition to the lobby or the end of the session: the ingame_state goes.
Destroy(p) ==
  /\ Idle /\ place[p] = "world"
  /\ Do(p, "out", Reverse(Parts))
  /\ \E to \in {"lobby", "closing"} : place' = [place EXCEPT ![p] = to]
  /\ UNCHANGED <<chat, friends, registry, last, broken>>

LeaveRegistry ==
  /\ Next("out", "registry")
  /\ unregister_me(Player)
  /\ UNCHANGED <<place, chat, friends, last>>

\* friend_controller::~friend_controller; whom it tells does not depend on the
\* registry.
LeaveFriends ==
  /\ Next("out", "friends")
  /\ Check(Player \in friends)
  /\ Notify(OnlineFriends(Player))
  /\ friends' = friends \ {Player}
  /\ UNCHANGED <<place, chat, registry>>

\* A bug in chat_system::unregister_me: the rooms are told before the one who
\* leaves is erased, and his entity stays.
LeaveRoomsOnly ==
  /\ Next("out", "chat")
  /\ \E roommates \in SUBSET chat : Notify(roommates)
  /\ UNCHANGED <<place, chat, friends, registry, broken>>

\* chat_controller::~chat_controller: whoever shares a room with him is told.
LeaveChat ==
  /\ Next("out", "chat")
  /\ Check(Player \in chat)
  /\ \E roommates \in SUBSET (chat \ {Player}) : Notify(roommates)
  /\ chat' = chat \ {Player}
  /\ UNCHANGED <<place, friends, registry>>

\* ~finalizer.
SayGoodbye ==
  /\ Next("out", "finalizer")
  /\ last' = [last EXCEPT ![Player] = "moved_to_lobby"]
  /\ UNCHANGED <<place, chat, friends, registry, broken>>

(***************************************************************************)
(* The others, in the meantime.                                            *)
(***************************************************************************)

\* A member of a room broadcasts a message to it.
Broadcast ==
  /\ Idle
  /\ \E room \in SUBSET chat : Notify(room)
  /\ UNCHANGED <<place, chat, friends, registry, doing, broken>>

\* A player found online by his name has an entity in the chat.
Whisper(p, q) ==
  /\ Idle /\ p \in registry /\ q \in registry \ {p}
  /\ Check(p \in chat /\ q \in chat)
  /\ Notify({q})
  /\ UNCHANGED <<place, chat, friends, registry, doing>>

\* A friend request: a player found online by his name has a friend list.
RequestFriend(p, q) ==
  /\ Idle /\ p \in registry /\ q \in registry \ {p}
  /\ Check(p \in friends /\ q \in friends)
  /\ Notify({p, q})
  /\ UNCHANGED <<place, chat, friends, registry, doing>>

\* The session ends, and the user comes back with a new one.
ComeBack(p) ==
  /\ Idle /\ place[p] = "closing"
  /\ place' = [place EXCEPT ![p] = "lobby"]
  /\ UNCHANGED <<chat, friends, registry, doing, last, broken>>

WorldNext ==
  \/ \E p \in Players : Construct(p) \/ Destroy(p) \/ ComeBack(p)
  \/ \E p, q \in Players : Whisper(p, q) \/ RequestFriend(p, q)
  \/ Broadcast
  \/ BuildFinalizer \/ EnterChat \/ EnterFriends \/ FriendsUnknown \/ EnterRegistry
  \/ LeaveRegistry \/ LeaveFriends \/ LeaveChat \/ SayGoodbye

WorldSpec == WorldInit /\ [][WorldNext]_world_vars

(***************************************************************************)
(* Properties.                                                             *)
(***************************************************************************)

\* Every variable keeps its type; parts are built in the order of their
\* declarations and destroyed in the opposite order.
WorldTypeOK ==
  /\ place \in [Players -> {"lobby", "world", "closing"}]
  /\ chat \subseteq Players /\ friends \subseteq Players /\ registry \subseteq Players
  /\ Idle \/ /\ Player \in Players
             /\ \/ Way = "in" /\ IsSuffix(Steps, Parts)
                \/ Way = "out" /\ IsSuffix(Steps, Reverse(Parts))
  /\ last \in [Players -> {"nothing", "news", "moved_to_lobby"}]
  /\ broken \in BOOLEAN

\* Between two handlers the chat, the friend system and the registry know the
\* same players, those with a complete ingame_state, even if a constructor has
\* thrown half way.
SystemsAgree ==
  Idle => /\ chat = friends /\ friends = registry
          /\ registry = {p \in Players : place[p] = "world"}

\* The parts of an ingame_state come and go in their order, so that the systems
\* agree whenever the next handler runs.
WorldInv == WorldTypeOK /\ SystemsAgree

\* No assertion of the registrar, the chat or the friend system fails: not the
\* one that a friend with a friend list is in the registry, while players enter
\* and leave, nor the ones that who is found online has an entity in the chat
\* and a friend list ("invariant!").
LookupsSucceed == ~broken

\* The last packet of a visit to the world is moved_to_lobby, complete or not:
\* nobody sends to a player who has left.
GoodbyeIsLast ==
  Idle => \A p \in Players : place[p] # "world" => last[p] \in {"nothing", "moved_to_lobby"}
===============================================================================
