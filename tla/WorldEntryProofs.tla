--------------------------- MODULE WorldEntryProofs ---------------------------
(***************************************************************************)
(* Proofs about WorldEntry, for any players and any friendships.           *)
(*                                                                         *)
(* The systems agree between two handlers because at every step of a       *)
(* constructor or destructor each of them knows those in the world and, of *)
(* the others, at most the one player whose part it is has been built.     *)
(***************************************************************************)
EXTENDS WorldEntry, TLAPS

(***************************************************************************)
(* The steps that are left of a constructor or a destructor.               *)
(***************************************************************************)

Arrivals ==
  {<<"finalizer", "chat", "friends", "registry">>, <<"chat", "friends", "registry">>,
   <<"friends", "registry">>, <<"registry">>}

Departures ==
  {<<"registry", "friends", "chat", "finalizer">>, <<"friends", "chat", "finalizer">>,
   <<"chat", "finalizer">>, <<"finalizer">>}

\* Nothing is left out and nothing is done twice.
Stations ==
  Idle \/ \E p \in Players : \/ \E steps \in Arrivals : doing = <<p, "in", steps>>
                             \/ \E steps \in Departures : doing = <<p, "out", steps>>

\* The order in which the parts are destroyed.
LEMMA PartsBackwards == Reverse(Parts) = <<"registry", "friends", "chat", "finalizer">>
BY DEF Reverse, Parts

\* What is left of a constructor is the end of the parts, and of a destructor
\* the end of the parts backwards.
LEMMA StationsAreSuffixes ==
  /\ \A steps \in Arrivals : IsSuffix(steps, Parts)
  /\ \A steps \in Departures : IsSuffix(steps, Reverse(Parts))
<1>1. /\ IsSuffix(<<"finalizer", "chat", "friends", "registry">>, Parts)
      /\ IsSuffix(<<"chat", "friends", "registry">>, Parts)
      /\ IsSuffix(<<"friends", "registry">>, Parts)
      /\ IsSuffix(<<"registry">>, Parts)
  BY DEF IsSuffix, IsPrefix, Reverse, Parts
<1> DEFINE backwards == <<"registry", "friends", "chat", "finalizer">>
<1>2. /\ IsSuffix(<<"registry", "friends", "chat", "finalizer">>, backwards)
      /\ IsSuffix(<<"friends", "chat", "finalizer">>, backwards)
      /\ IsSuffix(<<"chat", "finalizer">>, backwards)
      /\ IsSuffix(<<"finalizer">>, backwards)
  BY DEF IsSuffix, IsPrefix, Reverse
<1>3. QED
  BY <1>1, <1>2, PartsBackwards DEF Arrivals, Departures

\* The constructor goes through its parts one by one.
LEMMA InChain ==
  ASSUME Stations, NEW part, Next("in", part)
  PROVE  /\ ~Idle /\ Player \in Players /\ Way = "in" /\ Head(Steps) = part /\ Stations'
         /\ part = "finalizer" => ~Idle' /\ Player' = Player /\ Way' = "in" /\ Head(Steps)' = "chat"
         /\ part = "chat" => ~Idle' /\ Player' = Player /\ Way' = "in" /\ Head(Steps)' = "friends"
         /\ part = "friends" => ~Idle' /\ Player' = Player /\ Way' = "in" /\ Head(Steps)' = "registry"
         /\ part = "registry" => Idle'
         /\ part \in {"finalizer", "chat", "friends", "registry"}
<1> USE DEF Idle, Player, Way, Steps
<1>1. PICK p \in Players, steps \in Arrivals : doing = <<p, "in", steps>>
  BY DEF Stations, Next
<1>2. Head(steps) = part /\ Do(p, "in", Tail(steps))
  BY <1>1 DEF Next
<1>3. CASE steps = <<"finalizer", "chat", "friends", "registry">>
  <2>1. part = "finalizer" /\ doing' = <<p, "in", <<"chat", "friends", "registry">>>>
    BY <1>2, <1>3 DEF Do
  <2>2. QED
    BY <1>1, <1>3, <2>1 DEF Stations, Arrivals
<1>4. CASE steps = <<"chat", "friends", "registry">>
  <2>1. part = "chat" /\ doing' = <<p, "in", <<"friends", "registry">>>>
    BY <1>2, <1>4 DEF Do
  <2>2. QED
    BY <1>1, <1>4, <2>1 DEF Stations, Arrivals
<1>5. CASE steps = <<"friends", "registry">>
  <2>1. part = "friends" /\ doing' = <<p, "in", <<"registry">>>>
    BY <1>2, <1>5 DEF Do
  <2>2. QED
    BY <1>1, <1>5, <2>1 DEF Stations, Arrivals
<1>6. CASE steps = <<"registry">>
  <2>1. part = "registry" /\ doing' = << >>
    BY <1>2, <1>6 DEF Do
  <2>2. QED
    BY <1>1, <1>6, <2>1 DEF Stations
<1>7. QED
  BY <1>3, <1>4, <1>5, <1>6 DEF Arrivals

\* So does the destructor, backwards.
LEMMA OutChain ==
  ASSUME Stations, NEW part, Next("out", part)
  PROVE  /\ ~Idle /\ Player \in Players /\ Way = "out" /\ Head(Steps) = part /\ Stations'
         /\ part = "registry" => ~Idle' /\ Player' = Player /\ Way' = "out" /\ Head(Steps)' = "friends"
         /\ part = "friends" => ~Idle' /\ Player' = Player /\ Way' = "out" /\ Head(Steps)' = "chat"
         /\ part = "chat" => ~Idle' /\ Player' = Player /\ Way' = "out" /\ Head(Steps)' = "finalizer"
         /\ part = "finalizer" => Idle'
         /\ part \in {"finalizer", "chat", "friends", "registry"}
<1> USE DEF Idle, Player, Way, Steps
<1>1. PICK p \in Players, steps \in Departures : doing = <<p, "out", steps>>
  BY DEF Stations, Next
<1>2. Head(steps) = part /\ Do(p, "out", Tail(steps))
  BY <1>1 DEF Next
<1>3. CASE steps = <<"registry", "friends", "chat", "finalizer">>
  <2>1. part = "registry" /\ doing' = <<p, "out", <<"friends", "chat", "finalizer">>>>
    BY <1>2, <1>3 DEF Do
  <2>2. QED
    BY <1>1, <1>3, <2>1 DEF Stations, Departures
<1>4. CASE steps = <<"friends", "chat", "finalizer">>
  <2>1. part = "friends" /\ doing' = <<p, "out", <<"chat", "finalizer">>>>
    BY <1>2, <1>4 DEF Do
  <2>2. QED
    BY <1>1, <1>4, <2>1 DEF Stations, Departures
<1>5. CASE steps = <<"chat", "finalizer">>
  <2>1. part = "chat" /\ doing' = <<p, "out", <<"finalizer">>>>
    BY <1>2, <1>5 DEF Do
  <2>2. QED
    BY <1>1, <1>5, <2>1 DEF Stations, Departures
<1>6. CASE steps = <<"finalizer">>
  <2>1. part = "finalizer" /\ doing' = << >>
    BY <1>2, <1>6 DEF Do
  <2>2. QED
    BY <1>1, <1>6, <2>1 DEF Stations
<1>7. QED
  BY <1>3, <1>4, <1>5, <1>6 DEF Departures

\* A constructor that throws goes on with the destruction of what it has built.
LEMMA ThrowTurnsBack ==
  ASSUME Stations, FriendsUnknown
  PROVE  /\ ~Idle /\ Player \in Players /\ Way = "in" /\ Head(Steps) = "friends" /\ Stations'
         /\ ~Idle' /\ Player' = Player /\ Way' = "out" /\ Head(Steps)' = "chat"
<1> USE DEF Idle, Player, Way, Steps
<1>1. PICK p \in Players, steps \in Arrivals : doing = <<p, "in", steps>>
  BY DEF Stations, FriendsUnknown
<1>2. steps = <<"friends", "registry">>
  BY <1>1 DEF Arrivals, FriendsUnknown
<1>3. Built = <<"chat", "finalizer">>
  <2>1. Len(Parts) - Len(Steps) = 2
    BY <1>1, <1>2 DEF Parts
  <2> DEFINE s == SubSeq(Parts, 1, 2)
  <2>2. Len(s) = 2 /\ s[1] = "finalizer" /\ s[2] = "chat"
    BY DEF Parts
  <2> HIDE DEF s
  <2>3. Reverse(s) = [i \in 1..2 |-> s[(2 - i) + 1]]
    BY <2>2 DEF Reverse
  <2>4. Reverse(s) = <<s[2], s[1]>>
    BY <2>3
  <2>5. Built = Reverse(s)
    BY <2>1 DEF Built, s
  <2>6. QED
    BY <2>2, <2>4, <2>5
<1>4. doing' = <<p, "out", <<"chat", "finalizer">>>>
  BY <1>1, <1>3 DEF FriendsUnknown, Do
<1>5. QED
  BY <1>1, <1>2, <1>4 DEF Stations, Departures

(***************************************************************************)
(* Who is known where.                                                     *)
(***************************************************************************)

Constructing(parts) == ~Idle /\ Way = "in" /\ Head(Steps) \in parts
Destroying(parts) == ~Idle /\ Way = "out" /\ Head(Steps) \in parts

\* Which parts of the player who comes or goes are built, by the step that is next.
InChat == Constructing({"friends", "registry"}) \/ Destroying({"registry", "friends", "chat"})
HasList == Constructing({"registry"}) \/ Destroying({"registry", "friends"})
Registered == Destroying({"registry"})

\* Each system knows the players in the world and the one whose part is built.
EachKnows ==
  /\ Idle \/ place[Player] # "world"
  /\ \A p \in Players :
       /\ p \in chat <=> place[p] = "world" \/ (InChat /\ p = Player)
       /\ p \in friends <=> place[p] = "world" \/ (HasList /\ p = Player)
       /\ p \in registry <=> place[p] = "world" \/ (Registered /\ p = Player)

WorldVarsOK ==
  /\ place \in [Players -> {"lobby", "world", "closing"}]
  /\ chat \subseteq Players /\ friends \subseteq Players /\ registry \subseteq Players
  /\ last \in [Players -> {"nothing", "news", "moved_to_lobby"}]
  /\ broken \in BOOLEAN

EntryInv == WorldVarsOK /\ Stations /\ EachKnows

\* Nobody is in the world in the beginning.
LEMMA EntryStart == WorldInit => EntryInv
BY DEF WorldInit, EntryInv, WorldVarsOK, Stations, EachKnows, Idle,
   InChat, HasList, Registered, Constructing, Destroying

\* Whoever is told, the types stay.
LEMMA NotifyType ==
  ASSUME NEW players, Notify(players), last \in [Players -> {"nothing", "news", "moved_to_lobby"}]
  PROVE  last' \in [Players -> {"nothing", "news", "moved_to_lobby"}]
BY DEF Notify

\* Every step of a constructor or a destructor reaches the next station.
LEMMA EntryStep == EntryInv /\ [WorldNext]_world_vars => EntryInv'
<1> SUFFICES ASSUME EntryInv, [WorldNext]_world_vars PROVE EntryInv'
  OBVIOUS
<1> USE DEF EntryInv, WorldVarsOK, EachKnows, InChat, HasList, Registered, Constructing, Destroying
<1>1. ASSUME NEW p \in Players, Construct(p) PROVE EntryInv'
  <2>1. doing' = <<p, "in", <<"finalizer", "chat", "friends", "registry">>>>
    BY <1>1 DEF Construct, Do, Parts
  <2>2. Stations' /\ ~Idle' /\ Player' = p /\ Way' = "in" /\ Head(Steps)' = "finalizer"
    BY <2>1 DEF Stations, Arrivals, Idle, Player, Way, Steps
  <2>3. QED
    BY <1>1, <2>2 DEF Construct
<1>2. ASSUME NEW p \in Players, Destroy(p) PROVE EntryInv'
  <2>1. doing' = <<p, "out", <<"registry", "friends", "chat", "finalizer">>>>
    BY <1>2, PartsBackwards DEF Destroy, Do
  <2>2. Stations' /\ ~Idle' /\ Player' = p /\ Way' = "out" /\ Head(Steps)' = "registry"
    BY <2>1 DEF Stations, Departures, Idle, Player, Way, Steps
  <2>3. QED
    BY <1>2, <2>2 DEF Destroy
<1>3. ASSUME NEW p \in Players, ComeBack(p) PROVE EntryInv'
  BY <1>3 DEF ComeBack, Stations, Idle
<1>4. ASSUME NEW p \in Players, NEW q \in Players, Whisper(p, q) \/ RequestFriend(p, q)
      PROVE  EntryInv'
  BY <1>4, NotifyType DEF Whisper, RequestFriend, Check, Stations, Idle
<1>5. CASE Broadcast
  BY <1>5, NotifyType DEF Broadcast, Stations, Idle
<1>6. CASE BuildFinalizer
  BY <1>6, InChain DEF BuildFinalizer
<1>7. CASE EnterChat
  BY <1>7, InChain DEF EnterChat, Check
<1>8. CASE EnterFriends
  BY <1>8, InChain, NotifyType DEF EnterFriends, Check
<1>9. CASE FriendsUnknown
  BY <1>9, ThrowTurnsBack DEF FriendsUnknown
<1>10. CASE EnterRegistry
  BY <1>10, InChain DEF EnterRegistry, register_me, Check
<1>11. CASE LeaveRegistry
  BY <1>11, OutChain DEF LeaveRegistry, unregister_me, Check
<1>12. CASE LeaveFriends
  BY <1>12, OutChain, NotifyType DEF LeaveFriends, Check
<1>13. CASE LeaveChat
  BY <1>13, OutChain, NotifyType DEF LeaveChat, Check
<1>14. CASE SayGoodbye
  BY <1>14, OutChain DEF SayGoodbye
<1>15. CASE UNCHANGED world_vars
  BY <1>15 DEF world_vars, Stations, Idle, Player, Way, Steps
<1>16. QED
  BY <1>1, <1>2, <1>3, <1>4, <1>5, <1>6, <1>7, <1>8, <1>9, <1>10, <1>11, <1>12, <1>13,
     <1>14, <1>15 DEF WorldNext

\* So the stations always tell who is known where.
LEMMA EntryKept == WorldSpec => []EntryInv
BY EntryStart, EntryStep, PTL DEF WorldSpec

\* A constructor or destructor has a player and steps it has left.
LEMMA StationsTyped ==
  ASSUME Stations
  PROVE  Idle \/ /\ Player \in Players
                 /\ \/ Way = "in" /\ IsSuffix(Steps, Parts)
                    \/ Way = "out" /\ IsSuffix(Steps, Reverse(Parts))
BY StationsAreSuffixes DEF Stations, Player, Way, Steps

\* Between two handlers the chat, the friend system and the registry know the
\* same players, those in the world.
THEOREM SystemsStayInStep == WorldSpec => []WorldInv
<1>1. EntryInv => WorldTypeOK
  BY StationsTyped DEF EntryInv, WorldVarsOK, WorldTypeOK
<1>2. EntryInv => SystemsAgree
  BY DEF EntryInv, WorldVarsOK, EachKnows, SystemsAgree, InChat, HasList, Registered,
     Constructing, Destroying
<1>3. QED
  BY <1>1, <1>2, EntryKept, PTL DEF WorldInv

(***************************************************************************)
(* The assertions, and the last packet.                                    *)
(***************************************************************************)

\* No assertion of the registrar, the chat or the friend system fails.
THEOREM LookupsAlwaysSucceed == WorldSpec => []LookupsSucceed
<1>1. WorldInit => LookupsSucceed
  BY DEF WorldInit, LookupsSucceed
<1>2. EntryInv /\ LookupsSucceed /\ [WorldNext]_world_vars => LookupsSucceed'
  <2> SUFFICES ASSUME EntryInv, ~broken, [WorldNext]_world_vars PROVE ~broken'
    BY DEF LookupsSucceed
  <2> USE DEF EntryInv, WorldVarsOK, EachKnows, InChat, HasList, Registered,
              Constructing, Destroying, Check
  <2>1. ASSUME NEW p \in Players, NEW q \in Players, Whisper(p, q) \/ RequestFriend(p, q)
        PROVE  ~broken'
    BY <2>1 DEF Whisper, RequestFriend
  <2>2. CASE EnterChat
    BY <2>2, InChain DEF EnterChat
  <2>3. CASE EnterFriends
    BY <2>3, InChain DEF EnterFriends, OnlineFriends
  <2>4. CASE EnterRegistry
    BY <2>4, InChain DEF EnterRegistry, register_me
  <2>5. CASE LeaveRegistry
    BY <2>5, OutChain DEF LeaveRegistry, unregister_me
  <2>6. CASE LeaveFriends
    BY <2>6, OutChain DEF LeaveFriends
  <2>7. CASE LeaveChat
    BY <2>7, OutChain DEF LeaveChat
  <2>8. CASE UNCHANGED broken
    BY <2>8
  <2>9. QED
    BY <2>1, <2>2, <2>3, <2>4, <2>5, <2>6, <2>7, <2>8
       DEF WorldNext, Construct, Destroy, ComeBack, Broadcast, BuildFinalizer,
           FriendsUnknown, SayGoodbye, world_vars
<1>3. QED
  BY <1>1, <1>2, EntryKept, PTL DEF WorldSpec

\* Whoever is neither in the world nor on the way in or out has heard nothing
\* since he left.
Undisturbed ==
  \A p \in Players :
    place[p] # "world" /\ (Idle \/ p # Player) => last[p] \in {"nothing", "moved_to_lobby"}

\* Who is not notified has seen nothing new.
LEMMA NotifyOthers ==
  ASSUME NEW players, Notify(players), NEW p \in Players, p \notin players
  PROVE  last'[p] = last[p]
BY DEF Notify

\* No step sends anything to a player who was told goodbye.
LEMMA UndisturbedStep == EntryInv /\ Undisturbed /\ [WorldNext]_world_vars => Undisturbed'
<1> SUFFICES ASSUME EntryInv, Undisturbed, [WorldNext]_world_vars,
                    NEW p \in Players, place'[p] # "world", Idle' \/ p # Player'
             PROVE  last'[p] \in {"nothing", "moved_to_lobby"}
  BY DEF Undisturbed
<1> USE DEF EntryInv, WorldVarsOK, EachKnows, InChat, HasList, Registered,
            Constructing, Destroying, Undisturbed
<1>1. ASSUME NEW q \in Players, Construct(q) PROVE last'[p] \in {"nothing", "moved_to_lobby"}
  BY <1>1 DEF Construct
<1>2. ASSUME NEW q \in Players, Destroy(q) PROVE last'[p] \in {"nothing", "moved_to_lobby"}
  <2>1. doing' = <<q, "out", Reverse(Parts)>>
    BY <1>2, PartsBackwards DEF Destroy, Do
  <2>2. Player' = q /\ ~Idle'
    BY <2>1 DEF Player, Idle
  <2>3. QED
    BY <1>2, <2>2 DEF Destroy
<1>3. ASSUME NEW q \in Players, ComeBack(q) PROVE last'[p] \in {"nothing", "moved_to_lobby"}
  BY <1>3 DEF ComeBack
<1>4. ASSUME NEW q \in Players, NEW s \in Players, Whisper(q, s) \/ RequestFriend(q, s)
      PROVE  last'[p] \in {"nothing", "moved_to_lobby"}
  BY <1>4, NotifyOthers DEF Whisper, RequestFriend, Idle
<1>5. CASE Broadcast
  BY <1>5, NotifyOthers DEF Broadcast, Idle
<1>6. CASE BuildFinalizer
  BY <1>6, InChain DEF BuildFinalizer
<1>7. CASE EnterChat
  BY <1>7, InChain DEF EnterChat
<1>8. CASE EnterFriends
  <2> DEFINE others == OnlineFriends(Player) \union {q \in {Player} : OnlineFriends(Player) # {}}
  <2>1. Notify(others) /\ place' = place /\ p # Player /\ ~Idle
    BY <1>8, InChain DEF EnterFriends
  <2>2. p \notin others
    BY <1>8, <2>1, InChain DEF EnterFriends, OnlineFriends
  <2> HIDE DEF others
  <2>3. QED
    BY <2>1, <2>2, NotifyOthers
<1>9. CASE FriendsUnknown
  BY <1>9, ThrowTurnsBack DEF FriendsUnknown
<1>10. CASE EnterRegistry
  BY <1>10, InChain DEF EnterRegistry
<1>11. CASE LeaveRegistry
  BY <1>11, OutChain DEF LeaveRegistry
<1>12. CASE LeaveFriends
  <2>1. Notify(OnlineFriends(Player)) /\ place' = place /\ p # Player /\ ~Idle
    BY <1>12, OutChain DEF LeaveFriends
  <2>2. p \notin OnlineFriends(Player)
    BY <1>12, <2>1 DEF LeaveFriends, OnlineFriends
  <2>3. QED
    BY <2>1, <2>2, NotifyOthers
<1>13. CASE LeaveChat
  <2>1. PICK roommates \in SUBSET (chat \ {Player}) : Notify(roommates)
    BY <1>13 DEF LeaveChat
  <2>2. place' = place /\ p # Player /\ ~Idle
    BY <1>13, OutChain DEF LeaveChat
  <2>3. QED
    BY <2>1, <2>2, NotifyOthers
<1>14. CASE SayGoodbye
  BY <1>14, OutChain DEF SayGoodbye
<1>15. CASE UNCHANGED world_vars
  BY <1>15 DEF world_vars, Idle, Player
<1>16. QED
  BY <1>1, <1>2, <1>3, <1>4, <1>5, <1>6, <1>7, <1>8, <1>9, <1>10, <1>11, <1>12, <1>13,
     <1>14, <1>15 DEF WorldNext

\* The last packet of a visit to the world is moved_to_lobby: nobody sends to a
\* player who has left.
THEOREM NothingAfterGoodbye == WorldSpec => []GoodbyeIsLast
<1>1. WorldInit => Undisturbed
  BY DEF WorldInit, Undisturbed
<1>2. Undisturbed => GoodbyeIsLast
  BY DEF Undisturbed, GoodbyeIsLast
<1>3. QED
  BY <1>1, <1>2, UndisturbedStep, EntryKept, PTL DEF WorldSpec
===============================================================================
