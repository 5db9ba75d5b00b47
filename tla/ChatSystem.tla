------------------------------ MODULE ChatSystem ------------------------------
(***************************************************************************)
(* class chat_system.  A room lives in active_chatrooms_ from the first    *)
(* member's join to the last one's leave; each entity keeps raw pointers   *)
(* to the rooms it is in, so a room is known by its name to some functions *)
(* and by its address to others.  Addresses are used again after a room    *)
(* dies.  An assertion that fails, an at() that throws and a dangling      *)
(* pointer that is followed all set `broken'.                              *)
(***************************************************************************)
CONSTANTS
  Entities,   \* characters that may be in the world
  Rooms,      \* room names
  Addresses,  \* where chatroom objects may be allocated
  None        \* no address, no sender, no room

ASSUME ChatAssumption ==
  None \notin Entities \union Rooms \union Addresses

VARIABLES
  entities,          \* keys of entities_ (and of the online player registry)
  active_chatrooms,  \* the address of each room's object, if the room exists
  participants,      \* who is in the room object at each address
  chatrooms_im_in,   \* the room pointers each entity keeps
  sent,              \* messages the last step sent
  roster,            \* per client and room: whom it was told to be there
  broken             \* see above

chvars == <<entities, active_chatrooms, participants, chatrooms_im_in, sent, roster, broken>>

Kinds == {"joined", "left", "message", "whisper"}
Message(to, kind, from, room) == [to |-> to, kind |-> kind, from |-> from, room |-> room]
Messages == [to : Entities, kind : Kinds, from : Entities \union {None}, room : Rooms \union {None}]

ToMembers(kind, from, room, recipients) ==
  {Message(e, kind, from, room) : e \in recipients}

Active(a) == \E r \in Rooms : active_chatrooms[r] = a
Members(r) == IF active_chatrooms[r] = None THEN {} ELSE participants[active_chatrooms[r]]

ChatInit ==
  /\ entities = {}
  /\ active_chatrooms = [r \in Rooms |-> None]
  /\ participants = [a \in Addresses |-> {}]
  /\ chatrooms_im_in = [e \in Entities |-> {}]
  /\ sent = {}
  /\ roster = [e \in Entities |-> [r \in Rooms |-> {}]]
  /\ broken = FALSE

\* What a client knows of its rooms once it has read the messages of this step;
\* of a room it leaves it forgets everything.
Hear(leaver, left) ==
  roster' = [e \in Entities |-> [r \in Rooms |->
    IF e = leaver /\ r \in left THEN {}
    ELSE (roster[e][r] \union {f \in Entities : Message(e, "joined", f, r) \in sent'})
           \ {f \in Entities : Message(e, "left", f, r) \in sent'}]]

register_me(e) ==
  /\ e \notin entities
  /\ entities' = entities \union {e}
  /\ sent' = {}
  /\ UNCHANGED <<active_chatrooms, participants, chatrooms_im_in, roster, broken>>

\* A bug in unregister_from_chatroom: those who stay are not told.
UnregisterUnannounced(e, rooms) ==
  LET names == {r \in Rooms : active_chatrooms[r] \in rooms} IN
  /\ participants' = [a \in Addresses |->
                        IF a \in rooms THEN participants[a] \ {e} ELSE participants[a]]
  /\ active_chatrooms' = [r \in Rooms |->
                        IF r \in names /\ Members(r) \subseteq {e} THEN None
                                                                   ELSE active_chatrooms[r]]
  /\ sent' = {}
  /\ UNCHANGED broken

\* unregister_from_chatroom for each of the rooms at the addresses `rooms':
\* the last to leave destroys the room, and those who stay are told.
UnregisterFromChatrooms(e, rooms) ==
  LET names == {r \in Rooms : active_chatrooms[r] \in rooms} IN
  /\ participants' = [a \in Addresses |->
                        IF a \in rooms THEN participants[a] \ {e} ELSE participants[a]]
  /\ active_chatrooms' = [r \in Rooms |->
                        IF r \in names /\ Members(r) \subseteq {e} THEN None
                                                                   ELSE active_chatrooms[r]]
  /\ sent' = UNION {ToMembers("left", e, r, Members(r) \ {e}) : r \in names}
  /\ broken' = (broken \/ \E a \in rooms :
                  ~Active(a) \/ e \notin participants[a] \/ a \notin chatrooms_im_in[e])

\* A bug in unregister_me: the entity goes but stays in its rooms.
UnregisterStayingInRooms(e) ==
  /\ e \in entities
  /\ entities' = entities \ {e}
  /\ chatrooms_im_in' = [chatrooms_im_in EXCEPT ![e] = {}]
  /\ sent' = {}
  /\ Hear(e, Rooms)
  /\ UNCHANGED <<active_chatrooms, participants, broken>>

unregister_me(e) ==
  /\ e \in entities
  /\ UnregisterFromChatrooms(e, chatrooms_im_in[e])
  /\ entities' = entities \ {e}
  /\ chatrooms_im_in' = [chatrooms_im_in EXCEPT ![e] = {}]
  /\ Hear(e, Rooms)

\* A bug in join_chatroom: a room that does not exist yet is not created.
AddressOfUncreated(r) == {active_chatrooms[r]}

\* Where the room is: found by its name, or allocated now.
AddressOf(r) ==
  IF active_chatrooms[r] = None THEN {a \in Addresses : ~Active(a)} ELSE {active_chatrooms[r]}

\* A bug in join_chatroom: only the one who joins is told.
JoinUnnoticed(e, r) ==
  /\ e \in entities
  /\ e \notin Members(r)
  /\ \E a \in AddressOf(r) :
       /\ active_chatrooms' = [active_chatrooms EXCEPT ![r] = a]
       /\ participants' = [participants EXCEPT ![a] = @ \union {e}]
       /\ chatrooms_im_in' = [chatrooms_im_in EXCEPT ![e] = @ \union {a}]
       /\ sent' = ToMembers("joined", e, r, {e})
  /\ Hear(e, {})
  /\ UNCHANGED <<entities, broken>>

join_chatroom(e, r) ==
  /\ e \in entities
  /\ IF e \in Members(r)
       THEN /\ sent' = {}
            /\ UNCHANGED <<active_chatrooms, participants, chatrooms_im_in, broken>>
       ELSE \E a \in AddressOf(r) :
            /\ active_chatrooms' = [active_chatrooms EXCEPT ![r] = a]
            /\ participants' = [participants EXCEPT ![a] = @ \union {e}]
            /\ chatrooms_im_in' = [chatrooms_im_in EXCEPT ![e] = @ \union {a}]
            /\ sent' = ToMembers("joined", e, r, Members(r) \union {e})
            /\ broken' = (broken \/ a \in chatrooms_im_in[e] \/ ~(Members(r) \subseteq entities))
  /\ Hear(e, {})
  /\ UNCHANGED entities

\* A bug in leave_chatroom: the pointer to the room is kept.
LeaveKeepingPointer(e, r) ==
  /\ e \in entities
  /\ IF e \in Members(r)
       THEN UnregisterFromChatrooms(e, {active_chatrooms[r]})
       ELSE /\ sent' = {}
            /\ UNCHANGED <<active_chatrooms, participants, broken>>
  /\ Hear(e, {r})
  /\ UNCHANGED <<entities, chatrooms_im_in>>

leave_chatroom(e, r) ==
  /\ e \in entities
  /\ IF e \in Members(r)
       THEN /\ UnregisterFromChatrooms(e, {active_chatrooms[r]})
            /\ chatrooms_im_in' = [chatrooms_im_in EXCEPT ![e] = @ \ {active_chatrooms[r]}]
       ELSE /\ sent' = {}
            /\ UNCHANGED <<active_chatrooms, participants, chatrooms_im_in, broken>>
  /\ Hear(e, {r})
  /\ UNCHANGED entities

broadcast_message(e, r) ==
  /\ e \in entities
  /\ IF e \in Members(r)
       THEN /\ sent' = ToMembers("message", e, r, Members(r))
            /\ broken' = (broken \/ active_chatrooms[r] \notin chatrooms_im_in[e]
                                 \/ ~(Members(r) \subseteq entities))
       ELSE sent' = {} /\ UNCHANGED broken
  /\ UNCHANGED <<entities, active_chatrooms, participants, chatrooms_im_in, roster>>

\* The recipient is looked up in the registry of online players, which an
\* ingame_state enters and leaves in the same handlers as the chat.
whisper(e, f) ==
  /\ e \in entities
  /\ sent' = IF f \in entities /\ f # e THEN {Message(f, "whisper", e, None)} ELSE {}
  /\ UNCHANGED <<entities, active_chatrooms, participants, chatrooms_im_in, roster, broken>>

\* Every six seconds, to each room: how many are in it.
periodic_broadcast ==
  /\ sent' = UNION {ToMembers("message", None, r, Members(r)) : r \in Rooms}
  /\ broken' = (broken \/ \E r \in Rooms : ~(Members(r) \subseteq entities))
  /\ UNCHANGED <<entities, active_chatrooms, participants, chatrooms_im_in, roster>>

ChatNext ==
  \/ \E e \in Entities : register_me(e) \/ unregister_me(e)
  \/ \E e \in Entities, r \in Rooms :
       join_chatroom(e, r) \/ leave_chatroom(e, r) \/ broadcast_message(e, r)
  \/ \E e, f \in Entities : whisper(e, f)
  \/ periodic_broadcast

ChatSpec == ChatInit /\ [][ChatNext]_chvars

(***************************************************************************)
(* Properties.                                                             *)
(***************************************************************************)

\* Every variable keeps its type, and a room has one address.
ChatTypeOK ==
  /\ entities \subseteq Entities
  /\ active_chatrooms \in [Rooms -> Addresses \union {None}]
  /\ participants \in [Addresses -> SUBSET Entities]
  /\ chatrooms_im_in \in [Entities -> SUBSET Addresses]
  /\ sent \subseteq Messages
  /\ roster \in [Entities -> [Rooms -> SUBSET Entities]]
  /\ broken \in BOOLEAN

\* The two sides of membership agree: an entity points to exactly the rooms
\* that list it.  A room exists if and only if somebody is in it, no two names
\* share an object, and only registered entities are in rooms: no pointer ever
\* dangles and no empty room is left behind.
RoomsConsistent ==
  /\ \A e \in Entities, a \in Addresses : a \in chatrooms_im_in[e] <=> e \in participants[a]
  /\ \A a \in Addresses : participants[a] # {} <=> Active(a)
  /\ \A r, q \in Rooms :
       active_chatrooms[r] = active_chatrooms[q] /\ active_chatrooms[r] # None => r = q
  /\ \A a \in Addresses : participants[a] \subseteq entities

\* No assertion of chat_system fails, no at() throws, no dangling pointer is
\* followed.
NothingBroken == ~broken

\* From the announcements alone a client never takes anybody for a member who
\* is not: everyone it saw join and did not see leave is there.
RosterSound ==
  \A e \in Entities, r \in Rooms : roster[e][r] \subseteq Members(r)

\* Of any two members of a room at least one knows of the other: whoever was
\* there first was told.
EarlierKnowsLater ==
  \A r \in Rooms : \A e, f \in Members(r) : e \in roster[f][r] \/ f \in roster[e][r]

\* Who is in each room, whatever its address.
MembersByName == [r \in Rooms |-> Members(r)]

Membership == INSTANCE ChatMembership WITH online <- entities, members <- MembersByName

\* Pointers, addresses and the two-sided bookkeeping implement plain rooms.
ImplementsMembership == Membership!CSpec

\* What ut/leave_chat_tests.cpp expects: whoever leaves a room is told so.
LeaverIsTold ==
  [][\A e \in Entities, r \in Rooms :
       e \in Members(r) /\ leave_chatroom(e, r) =>
         Message(e, "left", e, r) \in sent']_chvars
==============================================================================
