--------------------------- MODULE ChatSystemProofs ---------------------------
(***************************************************************************)
(* Proofs about ChatSystem, for any entities, rooms and addresses: the two *)
(* sides of its bookkeeping, the assertions, what a client may conclude    *)
(* from the announcements, and that it implements ChatMembership.          *)
(***************************************************************************)
EXTENDS ChatSystem, TLAPS

(***************************************************************************)
(* Messages.                                                               *)
(***************************************************************************)

\* A message has one recipient, kind, sender and room.
LEMMA MessageParts ==
  ASSUME NEW e, NEW k, NEW f, NEW r, NEW e2, NEW k2, NEW f2, NEW r2,
         Message(e, k, f, r) = Message(e2, k2, f2, r2)
  PROVE  e = e2 /\ k = k2 /\ f = f2 /\ r = r2
<1>1. /\ Message(e, k, f, r).to = e /\ Message(e, k, f, r).kind = k
      /\ Message(e, k, f, r).from = f /\ Message(e, k, f, r).room = r
  BY DEF Message
<1>2. /\ Message(e2, k2, f2, r2).to = e2 /\ Message(e2, k2, f2, r2).kind = k2
      /\ Message(e2, k2, f2, r2).from = f2 /\ Message(e2, k2, f2, r2).room = r2
  BY DEF Message
<1>3. QED
  BY <1>1, <1>2

\* Who is sent what when something is announced to a set of members.
LEMMA ToMembersIff ==
  ASSUME NEW kind, NEW from, NEW room, NEW recipients, NEW e, NEW k, NEW f, NEW r
  PROVE  Message(e, k, f, r) \in ToMembers(kind, from, room, recipients)
         <=> e \in recipients /\ k = kind /\ f = from /\ r = room
<1>1. ASSUME Message(e, k, f, r) \in ToMembers(kind, from, room, recipients)
      PROVE  e \in recipients /\ k = kind /\ f = from /\ r = room
  <2>1. PICK x \in recipients : Message(e, k, f, r) = Message(x, kind, from, room)
    BY <1>1 DEF ToMembers
  <2>2. QED
    BY <2>1, MessageParts
<1>2. QED
  BY <1>1 DEF ToMembers

\* Announcements are messages.
LEMMA ToMembersType ==
  ASSUME NEW kind \in Kinds, NEW from \in Entities \union {None},
         NEW room \in Rooms \union {None}, NEW recipients \in SUBSET Entities
  PROVE  ToMembers(kind, from, room, recipients) \subseteq Messages
  BY DEF ToMembers, Message, Messages

(***************************************************************************)
(* Rooms and their members.                                                *)
(***************************************************************************)

ChatInv == ChatTypeOK /\ RoomsConsistent /\ NothingBroken

\* The members of a room, by its address.
LEMMA MembersType ==
  ASSUME ChatInv, NEW r \in Rooms
  PROVE  /\ Members(r) \subseteq entities /\ Members(r) \subseteq Entities
         /\ \A e \in Entities : e \in Members(r) <=>
              active_chatrooms[r] # None /\ active_chatrooms[r] \in chatrooms_im_in[e]
  BY DEF ChatInv, ChatTypeOK, RoomsConsistent, Members

\* Joining: the room has an address of its own, found or new, and gains a member.
LEMMA JoinEffect ==
  ASSUME ChatInv, NEW e \in Entities, e \in entities, NEW r \in Rooms, e \notin Members(r),
         NEW a \in AddressOf(r),
         active_chatrooms' = [active_chatrooms EXCEPT ![r] = a],
         participants' = [participants EXCEPT ![a] = @ \union {e}],
         chatrooms_im_in' = [chatrooms_im_in EXCEPT ![e] = @ \union {a}],
         entities' = entities
  PROVE  /\ Members(r)' = Members(r) \union {e}
         /\ \A q \in Rooms \ {r} : Members(q)' = Members(q)
         /\ a \notin chatrooms_im_in[e]
         /\ RoomsConsistent'
         /\ active_chatrooms' \in [Rooms -> Addresses \union {None}]
         /\ participants' \in [Addresses -> SUBSET Entities]
         /\ chatrooms_im_in' \in [Entities -> SUBSET Addresses]
<1> USE DEF ChatInv, ChatTypeOK
<1>1. a \in Addresses /\ a # None
  BY ChatAssumption DEF AddressOf
<1>2. \A q \in Rooms \ {r} : active_chatrooms[q] # a
  BY <1>1 DEF AddressOf, Active, RoomsConsistent
<1>3. participants[a] = Members(r)
  BY <1>1 DEF AddressOf, Active, RoomsConsistent, Members
<1>4. active_chatrooms'[r] = a /\ \A q \in Rooms \ {r} : active_chatrooms'[q] = active_chatrooms[q]
  OBVIOUS
<1>5. participants'[a] = participants[a] \union {e}
      /\ \A b \in Addresses \ {a} : participants'[b] = participants[b]
  BY <1>1
<1>6. Members(r)' = Members(r) \union {e}
  BY <1>1, <1>3, <1>4, <1>5 DEF Members
<1>7. ASSUME NEW q \in Rooms \ {r} PROVE Members(q)' = Members(q)
  BY <1>2, <1>4, <1>5 DEF Members
<1>8. a \notin chatrooms_im_in[e]
  BY <1>1, <1>3 DEF RoomsConsistent
<1>9. \A x \in Entities, b \in Addresses : b \in chatrooms_im_in'[x] <=> x \in participants'[b]
  BY <1>1, <1>5 DEF RoomsConsistent
<1>10. ASSUME NEW b \in Addresses PROVE participants'[b] # {} <=> Active(b)'
  <2>1. CASE b = a
    BY <1>4, <1>5, <2>1 DEF Active
  <2>2. CASE b # a
    <3>1. active_chatrooms[r] # b
      BY <2>2, ChatAssumption DEF AddressOf
    <3>2. Active(b)' <=> Active(b)
      BY <1>4, <2>2, <3>1 DEF Active
    <3>3. QED
      BY <1>5, <2>2, <3>2 DEF RoomsConsistent
  <2>3. QED
    BY <2>1, <2>2
<1>11. \A p, q \in Rooms :
         active_chatrooms'[p] = active_chatrooms'[q] /\ active_chatrooms'[p] # None => p = q
  BY <1>2, <1>4 DEF RoomsConsistent
<1>12. \A b \in Addresses : participants'[b] \subseteq entities'
  BY <1>5 DEF RoomsConsistent
<1>13. QED
  BY <1>1, <1>6, <1>7, <1>8, <1>9, <1>10, <1>11, <1>12 DEF RoomsConsistent

\* Leaving the rooms at some addresses of an entity's own: the entity is gone
\* from each, the empty ones are gone, the rest is told, and nothing breaks.
LEMMA LeaveEffect ==
  ASSUME ChatInv, NEW e \in Entities, NEW rooms \in SUBSET chatrooms_im_in[e],
         UnregisterFromChatrooms(e, rooms),
         chatrooms_im_in' = [chatrooms_im_in EXCEPT ![e] = @ \ rooms],
         entities' = entities \/ (entities' = entities \ {e} /\ rooms = chatrooms_im_in[e])
  PROVE  /\ \A r \in Rooms :
              Members(r)' = IF active_chatrooms[r] \in rooms THEN Members(r) \ {e} ELSE Members(r)
         /\ \A x, k, f, r : Message(x, k, f, r) \in sent' <=>
              /\ r \in Rooms /\ active_chatrooms[r] \in rooms
              /\ x \in Members(r) \ {e} /\ k = "left" /\ f = e
         /\ (roster' \in [Entities -> [Rooms -> SUBSET Entities]] => ChatTypeOK')
         /\ RoomsConsistent' /\ NothingBroken'
<1> USE DEF ChatInv, ChatTypeOK
<1> DEFINE names == {r \in Rooms : active_chatrooms[r] \in rooms}
<1>1. participants' = [a \in Addresses |->
                         IF a \in rooms THEN participants[a] \ {e} ELSE participants[a]]
  BY DEF UnregisterFromChatrooms
<1>2. active_chatrooms' = [r \in Rooms |-> IF r \in names /\ Members(r) \subseteq {e}
                                             THEN None ELSE active_chatrooms[r]]
  BY DEF UnregisterFromChatrooms
<1>3. sent' = UNION {ToMembers("left", e, r, Members(r) \ {e}) : r \in names}
  BY DEF UnregisterFromChatrooms
<1>4. rooms \subseteq Addresses /\ None \notin rooms
  BY ChatAssumption
<1>5. \A r \in Rooms : Members(r) = IF active_chatrooms[r] = None THEN {}
                                    ELSE participants[active_chatrooms[r]]
  BY DEF Members
<1>6. ASSUME NEW r \in Rooms
      PROVE  Members(r)' = IF active_chatrooms[r] \in rooms THEN Members(r) \ {e} ELSE Members(r)
  <2>1. Members(r)' = IF active_chatrooms'[r] = None THEN {} ELSE participants'[active_chatrooms'[r]]
    BY DEF Members
  <2>2. CASE active_chatrooms[r] = None
    BY <1>2, <1>4, <1>5, <2>1, <2>2
  <2>3. CASE active_chatrooms[r] # None
    <3>1. active_chatrooms[r] \in Addresses /\ Members(r) = participants[active_chatrooms[r]]
      BY <1>5, <2>3
    <3>2. CASE r \in names /\ Members(r) \subseteq {e}
      BY <1>2, <2>1, <3>1, <3>2
    <3>3. CASE ~(r \in names /\ Members(r) \subseteq {e})
      <4>1. active_chatrooms'[r] = active_chatrooms[r]
        BY <1>2, <3>3
      <4>2. QED
        BY <1>1, <2>1, <2>3, <3>1, <4>1
    <3>4. QED
      BY <3>2, <3>3
  <2>4. QED
    BY <2>2, <2>3
<1>7. ASSUME NEW x, NEW k, NEW f, NEW r
      PROVE  Message(x, k, f, r) \in sent' <=>
              /\ r \in Rooms /\ active_chatrooms[r] \in rooms
              /\ x \in Members(r) \ {e} /\ k = "left" /\ f = e
  <2>1. Message(x, k, f, r) \in sent' <=>
          \E q \in names : Message(x, k, f, r) \in ToMembers("left", e, q, Members(q) \ {e})
    BY <1>3
  <2>2. \A q : Message(x, k, f, r) \in ToMembers("left", e, q, Members(q) \ {e})
               <=> x \in Members(q) \ {e} /\ k = "left" /\ f = e /\ r = q
    BY ToMembersIff
  <2>3. QED
    BY <2>1, <2>2
<1>8. participants' \in [Addresses -> SUBSET Entities]
      /\ active_chatrooms' \in [Rooms -> Addresses \union {None}]
      /\ chatrooms_im_in' \in [Entities -> SUBSET Addresses]
      /\ entities' \subseteq Entities
  BY <1>1, <1>2
<1>9. sent' \subseteq Messages
  <2>1. ASSUME NEW q \in names PROVE ToMembers("left", e, q, Members(q) \ {e}) \subseteq Messages
    BY MembersType, ToMembersType DEF Kinds
  <2>2. QED
    BY <1>3, <2>1
<1>10. NothingBroken' /\ broken' \in BOOLEAN
  <2>1. \A a \in rooms : Active(a) /\ e \in participants[a] /\ a \in chatrooms_im_in[e]
    BY <1>4 DEF RoomsConsistent
  <2>2. broken' = (broken \/ \E a \in rooms :
                  ~Active(a) \/ e \notin participants[a] \/ a \notin chatrooms_im_in[e])
    BY DEF UnregisterFromChatrooms
  <2>3. QED
    BY <2>1, <2>2 DEF NothingBroken
<1>11. \A x \in Entities, a \in Addresses : a \in chatrooms_im_in'[x] <=> x \in participants'[a]
  BY <1>1, <1>4 DEF RoomsConsistent
<1>12. ASSUME NEW a \in Addresses PROVE participants'[a] # {} <=> Active(a)'
  <2>1. CASE Active(a)
    <3>1. PICK r \in Rooms : active_chatrooms[r] = a
      BY <2>1 DEF Active
    <3>2. a # None /\ Members(r) = participants[a]
      BY <1>5, <3>1, ChatAssumption
    <3>3. \A q \in Rooms : active_chatrooms[q] = a => q = r
      BY <3>1, <3>2 DEF RoomsConsistent
    <3>4. \A q \in Rooms : active_chatrooms'[q] = a => q = r
      BY <1>2, <3>2, <3>3
    <3>5. Active(a)' <=> active_chatrooms'[r] = a
      BY <3>4 DEF Active
    <3>6. CASE a \in rooms
      BY <1>1, <1>2, <3>1, <3>2, <3>5, <3>6
    <3>7. CASE a \notin rooms
      <4>1. active_chatrooms'[r] = a /\ participants'[a] = participants[a]
        BY <1>1, <1>2, <3>1, <3>7
      <4>2. QED
        BY <2>1, <3>5, <4>1 DEF RoomsConsistent
    <3>8. QED
      BY <3>6, <3>7
  <2>2. CASE ~Active(a)
    <3>1. participants'[a] = {}
      BY <1>1, <2>2 DEF RoomsConsistent
    <3>2. ~Active(a)'
      BY <1>2, <2>2, ChatAssumption DEF Active
    <3>3. QED
      BY <3>1, <3>2
  <2>3. QED
    BY <2>1, <2>2
<1>13. \A p, q \in Rooms :
         active_chatrooms'[p] = active_chatrooms'[q] /\ active_chatrooms'[p] # None => p = q
  BY <1>2 DEF RoomsConsistent
<1>14. ASSUME NEW a \in Addresses PROVE participants'[a] \subseteq entities'
  <2>1. CASE entities' = entities
    BY <1>1, <2>1 DEF RoomsConsistent
  <2>2. CASE entities' = entities \ {e} /\ rooms = chatrooms_im_in[e]
    BY <1>1, <2>2 DEF RoomsConsistent
  <2>3. QED
    BY <2>1, <2>2
<1>15. RoomsConsistent'
  BY <1>11, <1>12, <1>13, <1>14 DEF RoomsConsistent
<1>16. roster' \in [Entities -> [Rooms -> SUBSET Entities]] => ChatTypeOK'
  BY <1>8, <1>9, <1>10
<1>17. QED
  BY <1>6, <1>7, <1>10, <1>15, <1>16

(***************************************************************************)
(* Types, the bookkeeping and the assertions.                              *)
(***************************************************************************)

\* Whatever a client hears, it keeps a set of entities for each room.
LEMMA HearType ==
  ASSUME ChatTypeOK, NEW e \in Entities, NEW left, Hear(e, left)
  PROVE  roster' \in [Entities -> [Rooms -> SUBSET Entities]]
  BY DEF ChatTypeOK, Hear

\* A step that changes no room.
LEMMA SentOnly ==
  ASSUME ChatInv, UNCHANGED <<active_chatrooms, participants, chatrooms_im_in>>,
         entities \subseteq entities', entities' \subseteq Entities, sent' \subseteq Messages,
         broken' = FALSE, roster' \in [Entities -> [Rooms -> SUBSET Entities]]
  PROVE  ChatInv' /\ \A r \in Rooms : Members(r)' = Members(r)
  BY DEF ChatInv, ChatTypeOK, RoomsConsistent, NothingBroken, Active, Members

\* What the join of a new member does and whom it tells.
LEMMA JoinStep ==
  ASSUME ChatInv, NEW e \in Entities, NEW r \in Rooms, join_chatroom(e, r), e \notin Members(r)
  PROVE  /\ ChatInv' /\ e \in entities /\ entities' = entities
         /\ Members(r)' = Members(r) \union {e}
         /\ \A q \in Rooms \ {r} : Members(q)' = Members(q)
         /\ sent' = ToMembers("joined", e, r, Members(r) \union {e})
<1>1. PICK a \in AddressOf(r) :
        /\ active_chatrooms' = [active_chatrooms EXCEPT ![r] = a]
        /\ participants' = [participants EXCEPT ![a] = @ \union {e}]
        /\ chatrooms_im_in' = [chatrooms_im_in EXCEPT ![e] = @ \union {a}]
        /\ sent' = ToMembers("joined", e, r, Members(r) \union {e})
        /\ broken' = (broken \/ a \in chatrooms_im_in[e] \/ ~(Members(r) \subseteq entities))
  BY DEF join_chatroom
<1>2. e \in entities /\ entities' = entities /\ Hear(e, {})
  BY DEF join_chatroom
<1>3. /\ Members(r)' = Members(r) \union {e}
      /\ \A q \in Rooms \ {r} : Members(q)' = Members(q)
      /\ a \notin chatrooms_im_in[e]
      /\ RoomsConsistent'
      /\ active_chatrooms' \in [Rooms -> Addresses \union {None}]
      /\ participants' \in [Addresses -> SUBSET Entities]
      /\ chatrooms_im_in' \in [Entities -> SUBSET Addresses]
  BY <1>1, <1>2, JoinEffect
<1>4. sent' \subseteq Messages
  BY <1>1, MembersType, ToMembersType DEF Kinds
<1>5. broken' = FALSE
  BY <1>1, <1>3, MembersType DEF ChatInv, ChatTypeOK, NothingBroken
<1>6. roster' \in [Entities -> [Rooms -> SUBSET Entities]]
  BY <1>2, HearType DEF ChatInv
<1>7. ChatInv'
  BY <1>2, <1>3, <1>4, <1>5, <1>6 DEF ChatInv, ChatTypeOK, NothingBroken
<1>8. QED
  BY <1>1, <1>2, <1>3, <1>7

\* Leaving one room, or all of them on the way out of the world.
Leaving(e, rooms, left) ==
  \/ unregister_me(e) /\ rooms = chatrooms_im_in[e] /\ left = Rooms
  \/ \E r \in Rooms : /\ leave_chatroom(e, r) /\ e \in Members(r)
                      /\ rooms = {active_chatrooms[r]} /\ left = {r}

\* What leaving a set of rooms does: to the rooms, to the entity, and who is told.
LEMMA LeaveSteps ==
  ASSUME ChatInv, NEW e \in Entities, NEW rooms, NEW left,
         Leaving(e, rooms, left)
  PROVE  /\ ChatInv' /\ e \in entities /\ rooms \subseteq chatrooms_im_in[e] /\ Hear(e, left)
         /\ \A r \in Rooms : Members(r)' =
              IF active_chatrooms[r] \in rooms THEN Members(r) \ {e} ELSE Members(r)
         /\ \A x, k, f, r : Message(x, k, f, r) \in sent' <=>
              /\ r \in Rooms /\ active_chatrooms[r] \in rooms
              /\ x \in Members(r) \ {e} /\ k = "left" /\ f = e
         /\ \A r \in Rooms : active_chatrooms[r] \in rooms => r \in left
<1>1. /\ e \in entities /\ rooms \subseteq chatrooms_im_in[e] /\ Hear(e, left)
      /\ UnregisterFromChatrooms(e, rooms)
      /\ chatrooms_im_in' = [chatrooms_im_in EXCEPT ![e] = @ \ rooms]
      /\ entities' = entities \/ (entities' = entities \ {e} /\ rooms = chatrooms_im_in[e])
      /\ \A r \in Rooms : active_chatrooms[r] \in rooms => r \in left
  <2>1. CASE unregister_me(e) /\ rooms = chatrooms_im_in[e] /\ left = Rooms
    <3>1. chatrooms_im_in' = [chatrooms_im_in EXCEPT ![e] = {}]
      BY <2>1 DEF unregister_me
    <3>2. chatrooms_im_in[e] \ rooms = {}
      BY <2>1
    <3>3. QED
      BY <2>1, <3>1, <3>2 DEF unregister_me
  <2>2. CASE \E r \in Rooms : /\ leave_chatroom(e, r) /\ e \in Members(r)
                              /\ rooms = {active_chatrooms[r]} /\ left = {r}
    <3>1. PICK r \in Rooms : /\ leave_chatroom(e, r) /\ e \in Members(r)
                             /\ rooms = {active_chatrooms[r]} /\ left = {r}
      BY <2>2
    <3>2. active_chatrooms[r] # None /\ active_chatrooms[r] \in chatrooms_im_in[e]
      BY <3>1, MembersType
    <3>3. \A q \in Rooms : active_chatrooms[q] = active_chatrooms[r] => q = r
      BY <3>2 DEF ChatInv, RoomsConsistent
    <3>4. /\ e \in entities /\ Hear(e, left) /\ UnregisterFromChatrooms(e, rooms)
          /\ chatrooms_im_in' = [chatrooms_im_in EXCEPT ![e] = @ \ rooms]
          /\ entities' = entities
      BY <3>1 DEF leave_chatroom
    <3>5. QED
      BY <3>1, <3>2, <3>3, <3>4
  <2>3. QED
    BY <2>1, <2>2 DEF Leaving
<1>2. rooms \in SUBSET chatrooms_im_in[e]
  BY <1>1
<1>3. /\ \A r \in Rooms : Members(r)' =
           IF active_chatrooms[r] \in rooms THEN Members(r) \ {e} ELSE Members(r)
      /\ \A x, k, f, r : Message(x, k, f, r) \in sent' <=>
           /\ r \in Rooms /\ active_chatrooms[r] \in rooms
           /\ x \in Members(r) \ {e} /\ k = "left" /\ f = e
      /\ (roster' \in [Entities -> [Rooms -> SUBSET Entities]] => ChatTypeOK')
      /\ RoomsConsistent' /\ NothingBroken'
  BY <1>1, <1>2, LeaveEffect
<1>4. roster' \in [Entities -> [Rooms -> SUBSET Entities]]
  BY <1>1, HearType DEF ChatInv
<1>5. ChatInv'
  BY <1>3, <1>4 DEF ChatInv
<1>6. QED
  BY <1>1, <1>3, <1>5

\* A request about a room one is not in, or already in, changes and sends nothing.
LEMMA NoEffect ==
  ASSUME ChatInv, NEW e \in Entities, NEW r \in Rooms,
         \/ join_chatroom(e, r) /\ e \in Members(r)
         \/ leave_chatroom(e, r) /\ e \notin Members(r)
  PROVE  /\ ChatInv' /\ sent' = {} /\ entities' = entities /\ e \in entities
         /\ \A q \in Rooms : Members(q)' = Members(q)
         /\ Hear(e, {}) \/ (Hear(e, {r}) /\ e \notin Members(r))
<1>1. /\ sent' = {} /\ entities' = entities /\ e \in entities
      /\ UNCHANGED <<active_chatrooms, participants, chatrooms_im_in, broken>>
      /\ Hear(e, {}) \/ (Hear(e, {r}) /\ e \notin Members(r))
  BY DEF join_chatroom, leave_chatroom
<1>2. roster' \in [Entities -> [Rooms -> SUBSET Entities]]
  BY <1>1, HearType DEF ChatInv
<1>3. broken' = FALSE
  BY <1>1 DEF ChatInv, ChatTypeOK, NothingBroken
<1>4. ChatInv' /\ \A q \in Rooms : Members(q)' = Members(q)
  BY <1>1, <1>2, <1>3, SentOnly DEF ChatInv, ChatTypeOK
<1>5. QED
  BY <1>1, <1>4

\* The steps that only send, and the entry into the world.
LEMMA TalkStep ==
  ASSUME ChatInv,
         \/ \E e \in Entities : register_me(e)
         \/ \E e \in Entities, r \in Rooms : broadcast_message(e, r)
         \/ \E e, f \in Entities : whisper(e, f)
         \/ periodic_broadcast
  PROVE  ChatInv' /\ roster' = roster /\ \A r \in Rooms : Members(r)' = Members(r)
<1> USE DEF ChatInv, ChatTypeOK, NothingBroken
<1>1. ASSUME NEW e \in Entities, register_me(e)
      PROVE  ChatInv' /\ roster' = roster /\ \A r \in Rooms : Members(r)' = Members(r)
  BY <1>1, SentOnly DEF register_me
<1>2. ASSUME NEW e \in Entities, NEW r \in Rooms, broadcast_message(e, r)
      PROVE  ChatInv' /\ roster' = roster /\ \A q \in Rooms : Members(q)' = Members(q)
  <2>1. sent' \subseteq Messages
    <3>1. ToMembers("message", e, r, Members(r)) \subseteq Messages
      BY MembersType, ToMembersType DEF Kinds
    <3>2. QED
      BY <1>2, <3>1 DEF broadcast_message
  <2>2. broken' = FALSE
    BY <1>2, MembersType DEF broadcast_message
  <2>3. QED
    BY <1>2, <2>1, <2>2, SentOnly DEF broadcast_message
<1>3. ASSUME NEW e \in Entities, NEW f \in Entities, whisper(e, f)
      PROVE  ChatInv' /\ roster' = roster /\ \A r \in Rooms : Members(r)' = Members(r)
  <2>1. sent' \subseteq Messages
    BY <1>3 DEF whisper, Message, Messages, Kinds
  <2>2. QED
    BY <1>3, <2>1, SentOnly DEF whisper
<1>4. CASE periodic_broadcast
  <2>1. \A r \in Rooms : ToMembers("message", None, r, Members(r)) \subseteq Messages
    BY MembersType, ToMembersType DEF Kinds
  <2>2. sent' \subseteq Messages
    BY <1>4, <2>1 DEF periodic_broadcast
  <2>3. broken' = FALSE
    BY <1>4, MembersType DEF periodic_broadcast
  <2>4. QED
    BY <1>4, <2>2, <2>3, SentOnly DEF periodic_broadcast
<1>5. QED
  BY <1>1, <1>2, <1>3, <1>4

\* Every step keeps the bookkeeping consistent and breaks nothing.
LEMMA ChatStep == ChatInv /\ [ChatNext]_chvars => ChatInv'
<1> SUFFICES ASSUME ChatInv, [ChatNext]_chvars PROVE ChatInv'
  OBVIOUS
<1>1. ASSUME NEW e \in Entities, NEW r \in Rooms, join_chatroom(e, r) \/ leave_chatroom(e, r)
      PROVE  ChatInv'
  BY <1>1, JoinStep, LeaveSteps, NoEffect DEF Leaving
<1>2. ASSUME NEW e \in Entities, unregister_me(e) PROVE ChatInv'
  BY <1>2, LeaveSteps DEF Leaving
<1>3. CASE UNCHANGED chvars
  BY <1>3 DEF chvars, ChatInv, ChatTypeOK, RoomsConsistent, NothingBroken, Active, Members
<1>4. QED
  BY <1>1, <1>2, <1>3, TalkStep DEF ChatNext

\* The three theorems that follow share one invariant: the types and the
\* absence of broken pointers are inductive only together with the bookkeeping.
LEMMA ChatInvKept == ChatSpec => []ChatInv
<1>1. ASSUME ChatInit PROVE ChatInv
  <2>1. ChatTypeOK
    <3>1. roster \in [Entities -> [Rooms -> SUBSET Entities]]
      BY <1>1 DEF ChatInit
    <3>2. QED
      BY <1>1, <3>1 DEF ChatInit, ChatTypeOK
  <2>2. RoomsConsistent
    BY <1>1, ChatAssumption DEF ChatInit, RoomsConsistent, Active
  <2>3. QED
    BY <1>1, <2>1, <2>2 DEF ChatInit, ChatInv, NothingBroken
<1>2. QED
  BY <1>1, ChatStep, PTL DEF ChatSpec

\* Every variable of chat_system keeps its type, for any entities, rooms and
\* addresses.
THEOREM ChatTypesCorrect == ChatSpec => []ChatTypeOK
  BY ChatInvKept, PTL DEF ChatInv

\* An entity points to exactly the rooms that list it, a room exists exactly as
\* long as somebody is in it, no two rooms share an object, and only registered
\* entities are in rooms, also when addresses are used again.
THEOREM BothSidesAgree == ChatSpec => []RoomsConsistent
  BY ChatInvKept, PTL DEF ChatInv

\* No assertion of chat_system fails and no dangling room pointer is followed.
THEOREM NothingBreaks == ChatSpec => []NothingBroken
  BY ChatInvKept, PTL DEF ChatInv

(***************************************************************************)
(* What a client may conclude from the announcements.                      *)
(***************************************************************************)

\* Who is not in a room knows nobody there: what a client knew of a room it has
\* left would not be kept up to date.
OnlyMembersKnow == \A e \in Entities, r \in Rooms : roster[e][r] # {} => e \in Members(r)

RosterInv == RosterSound /\ OnlyMembersKnow /\ EarlierKnowsLater

\* A join adds the one who joins to the roster of every member, his own too.
LEMMA JoinRoster ==
  ASSUME ChatInv, RosterInv, NEW e \in Entities, NEW r \in Rooms, join_chatroom(e, r),
         e \notin Members(r)
  PROVE  RosterInv'
<1>1. /\ Members(r)' = Members(r) \union {e}
      /\ \A q \in Rooms \ {r} : Members(q)' = Members(q)
      /\ sent' = ToMembers("joined", e, r, Members(r) \union {e})
      /\ Hear(e, {})
  BY JoinStep DEF join_chatroom
<1>2. \A x, k, f, q : Message(x, k, f, q) \in sent'
        <=> x \in Members(r) \union {e} /\ k = "joined" /\ f = e /\ q = r
  BY <1>1, ToMembersIff
<1>3. ASSUME NEW x \in Entities, NEW q \in Rooms
      PROVE  roster'[x][q] = IF q = r /\ x \in Members(r) \union {e}
                               THEN roster[x][q] \union {e} ELSE roster[x][q]
  <2>1. roster'[x][q] = (roster[x][q] \union {f \in Entities : Message(x, "joined", f, q) \in sent'})
                          \ {f \in Entities : Message(x, "left", f, q) \in sent'}
    BY <1>1 DEF Hear
  <2>2. {f \in Entities : Message(x, "left", f, q) \in sent'} = {}
    BY <1>2
  <2>3. {f \in Entities : Message(x, "joined", f, q) \in sent'} =
          IF q = r /\ x \in Members(r) \union {e} THEN {e} ELSE {}
    BY <1>2
  <2>4. QED
    BY <2>1, <2>2, <2>3
<1>4. ASSUME NEW x \in Entities, NEW q \in Rooms
      PROVE  roster'[x][q] \subseteq Members(q)' /\ (roster'[x][q] # {} => x \in Members(q)')
  <2>1. roster[x][q] \subseteq Members(q) /\ (roster[x][q] # {} => x \in Members(q))
    BY DEF RosterInv, RosterSound, OnlyMembersKnow
  <2>2. CASE q = r
    <3>1. Members(q)' = Members(q) \union {e}
      BY <1>1, <2>2
    <3>2. CASE x \in Members(r) \union {e}
      <4>1. roster'[x][q] = roster[x][q] \union {e}
        BY <1>3, <2>2, <3>2
      <4>2. QED
        BY <2>1, <2>2, <3>1, <3>2, <4>1
    <3>3. CASE x \notin Members(r) \union {e}
      <4>1. roster'[x][q] = roster[x][q]
        BY <1>3, <3>3
      <4>2. QED
        BY <2>1, <3>1, <4>1
    <3>4. QED
      BY <3>2, <3>3
  <2>3. CASE q # r
    <3>1. Members(q)' = Members(q) /\ roster'[x][q] = roster[x][q]
      BY <1>1, <1>3, <2>3
    <3>2. QED
      BY <2>1, <3>1
  <2>4. QED
    BY <2>2, <2>3
<1>5. RosterSound' /\ OnlyMembersKnow'
  BY <1>4 DEF RosterSound, OnlyMembersKnow
<1>6. EarlierKnowsLater'
  <2>1. \A q \in Rooms : Members(q) \subseteq Entities
    BY MembersType
  <2>2. \A x \in Members(r) \union {e} : e \in roster'[x][r]
    BY <1>3, <2>1
  <2>3. \A q \in Rooms, x \in Entities : roster[x][q] \subseteq roster'[x][q]
    BY <1>3
  <2>4. QED
    BY <1>1, <2>1, <2>2, <2>3 DEF RosterInv, EarlierKnowsLater
<1>7. QED
  BY <1>5, <1>6 DEF RosterInv

\* Whoever leaves is struck off every roster of the rooms he leaves.
LEMMA LeaveRoster ==
  ASSUME ChatInv, RosterInv, NEW e \in Entities, NEW rooms, NEW left,
         Leaving(e, rooms, left)
  PROVE  RosterInv'
<1>1. /\ rooms \subseteq chatrooms_im_in[e] /\ Hear(e, left)
      /\ \A r \in Rooms : Members(r)' =
           IF active_chatrooms[r] \in rooms THEN Members(r) \ {e} ELSE Members(r)
      /\ \A x, k, f, r : Message(x, k, f, r) \in sent' <=>
           /\ r \in Rooms /\ active_chatrooms[r] \in rooms
           /\ x \in Members(r) \ {e} /\ k = "left" /\ f = e
      /\ \A r \in Rooms : active_chatrooms[r] \in rooms => r \in left
  BY LeaveSteps
<1>2. \A q \in Rooms : Members(q) \subseteq Entities
  BY MembersType
<1>3. ASSUME NEW x \in Entities, NEW q \in Rooms
      PROVE  roster'[x][q] = IF x = e /\ q \in left THEN {}
                             ELSE IF active_chatrooms[q] \in rooms /\ x \in Members(q) \ {e}
                               THEN roster[x][q] \ {e} ELSE roster[x][q]
  <2>1. roster'[x][q] =
          IF x = e /\ q \in left THEN {}
          ELSE (roster[x][q] \union {f \in Entities : Message(x, "joined", f, q) \in sent'})
                 \ {f \in Entities : Message(x, "left", f, q) \in sent'}
    BY <1>1 DEF Hear
  <2>2. {f \in Entities : Message(x, "joined", f, q) \in sent'} = {}
    BY <1>1
  <2>3. {f \in Entities : Message(x, "left", f, q) \in sent'} =
          IF active_chatrooms[q] \in rooms /\ x \in Members(q) \ {e} THEN {e} ELSE {}
    BY <1>1
  <2>4. QED
    BY <2>1, <2>2, <2>3
<1>4. \A q \in Rooms : active_chatrooms[q] \notin rooms /\ q \in left => e \notin Members(q)
  <2>1. CASE unregister_me(e) /\ rooms = chatrooms_im_in[e] /\ left = Rooms
    BY <2>1, MembersType
  <2>2. CASE \E r \in Rooms : /\ leave_chatroom(e, r) /\ e \in Members(r)
                              /\ rooms = {active_chatrooms[r]} /\ left = {r}
    BY <2>2
  <2>3. QED
    BY <2>1, <2>2 DEF Leaving
<1> DEFINE gone(q) == active_chatrooms[q] \in rooms
<1>5. \A q \in Rooms : /\ gone(q) => q \in left
                       /\ Members(q)' = IF gone(q) THEN Members(q) \ {e} ELSE Members(q)
                       /\ ~gone(q) /\ q \in left => e \notin Members(q)
  BY <1>1, <1>4
<1>6. \A x \in Entities, q \in Rooms :
        roster[x][q] \subseteq Members(q) /\ (roster[x][q] # {} => x \in Members(q))
  BY DEF RosterInv, RosterSound, OnlyMembersKnow
<1>7. \A x \in Entities, q \in Rooms :
        roster'[x][q] = IF x = e /\ q \in left THEN {}
                        ELSE IF gone(q) /\ x \in Members(q) \ {e}
                               THEN roster[x][q] \ {e} ELSE roster[x][q]
  BY <1>3
<1> HIDE DEF gone
<1>8. ASSUME NEW x \in Entities, NEW q \in Rooms
      PROVE  roster'[x][q] \subseteq Members(q)' /\ (roster'[x][q] # {} => x \in Members(q)')
  <2> roster[x][q] \subseteq Members(q) /\ (roster[x][q] # {} => x \in Members(q))
    BY <1>6
  <2>1. CASE x = e /\ q \in left
    <3>1. roster'[x][q] = {}
      BY <1>7, <2>1
    <3>2. QED
      BY <3>1
  <2>2. CASE x # e /\ gone(q)
    <3>1. Members(q)' = Members(q) \ {e}
      BY <1>5, <2>2
    <3>2. roster'[x][q] = IF x \in Members(q) \ {e} THEN roster[x][q] \ {e} ELSE roster[x][q]
      BY <1>7, <2>2
    <3>3. QED
      BY <2>2, <3>1, <3>2
  <2>3. CASE ~(x = e /\ q \in left) /\ ~gone(q)
    <3>1. Members(q)' = Members(q)
      BY <1>5, <2>3
    <3>2. roster'[x][q] = roster[x][q]
      BY <1>7, <2>3
    <3>3. QED
      BY <3>1, <3>2
  <2>4. QED
    BY <1>5, <2>1, <2>2, <2>3
<1>9. ASSUME NEW q \in Rooms, NEW x \in Members(q)', NEW y \in Members(q)'
      PROVE  x \in roster'[y][q] \/ y \in roster'[x][q]
  <2>1. x \in Members(q) /\ y \in Members(q)
    BY <1>5
  <2>2. x \in Entities /\ y \in Entities
    BY <1>2, <2>1
  <2>3. x \in roster[y][q] \/ y \in roster[x][q]
    BY <2>1 DEF RosterInv, EarlierKnowsLater
  <2>4. CASE gone(q)
    <3>1. x # e /\ y # e
      BY <1>5, <2>4
    <3>2. roster'[x][q] = roster[x][q] \ {e} /\ roster'[y][q] = roster[y][q] \ {e}
      BY <1>7, <2>1, <2>2, <2>4, <3>1
    <3>3. QED
      BY <2>3, <3>1, <3>2
  <2>5. CASE ~gone(q)
    <3>1. ~(x = e /\ q \in left) /\ ~(y = e /\ q \in left)
      BY <1>5, <2>1, <2>5
    <3>2. roster'[x][q] = roster[x][q] /\ roster'[y][q] = roster[y][q]
      BY <1>7, <2>2, <2>5, <3>1
    <3>3. QED
      BY <2>3, <3>2
  <2>6. QED
    BY <2>4, <2>5
<1>10. QED
  BY <1>8, <1>9 DEF RosterInv, RosterSound, OnlyMembersKnow, EarlierKnowsLater

\* Every step keeps what clients know true.
LEMMA RosterStep == ChatInv /\ RosterInv /\ [ChatNext]_chvars => RosterInv'
<1> SUFFICES ASSUME ChatInv, RosterInv, [ChatNext]_chvars PROVE RosterInv'
  OBVIOUS
<1>1. ASSUME \A r \in Rooms : Members(r)' = Members(r), roster' = roster PROVE RosterInv'
  BY <1>1 DEF RosterInv, RosterSound, OnlyMembersKnow, EarlierKnowsLater
<1>2. ASSUME NEW e \in Entities, NEW r \in Rooms,
             \/ join_chatroom(e, r) /\ e \in Members(r)
             \/ leave_chatroom(e, r) /\ e \notin Members(r)
      PROVE  RosterInv'
  <2>1. /\ sent' = {} /\ \A q \in Rooms : Members(q)' = Members(q)
        /\ Hear(e, {}) \/ (Hear(e, {r}) /\ e \notin Members(r))
    BY <1>2, NoEffect
  <2>2. ASSUME NEW x \in Entities, NEW q \in Rooms PROVE roster'[x][q] = roster[x][q]
    <3>1. {f \in Entities : Message(x, "joined", f, q) \in sent'} = {}
          /\ {f \in Entities : Message(x, "left", f, q) \in sent'} = {}
      BY <2>1
    <3>2. e \notin Members(r) => roster[e][r] = {}
      BY DEF RosterInv, OnlyMembersKnow
    <3>3. CASE Hear(e, {})
      BY <3>1, <3>3 DEF Hear
    <3>4. CASE Hear(e, {r}) /\ e \notin Members(r)
      BY <3>1, <3>2, <3>4 DEF Hear
    <3>5. QED
      BY <2>1, <3>3, <3>4
  <2>3. roster' = roster
    <3>1. roster' \in [Entities -> [Rooms -> SUBSET Entities]]
      BY <2>1, HearType DEF ChatInv
    <3>2. roster \in [Entities -> [Rooms -> SUBSET Entities]]
      BY DEF ChatInv, ChatTypeOK
    <3>3. \A x \in Entities : roster'[x] = roster[x]
      BY <2>2, <3>1, <3>2
    <3>4. QED
      BY <3>1, <3>2, <3>3
  <2>4. QED
    BY <1>1, <2>1, <2>3
<1>3. ASSUME NEW e \in Entities, NEW r \in Rooms, join_chatroom(e, r) \/ leave_chatroom(e, r)
      PROVE  RosterInv'
  <2>1. CASE join_chatroom(e, r) /\ e \notin Members(r)
    BY <2>1, JoinRoster
  <2>2. CASE leave_chatroom(e, r) /\ e \in Members(r)
    BY <2>2, LeaveRoster DEF Leaving
  <2>3. QED
    BY <1>2, <1>3, <2>1, <2>2
<1>4. ASSUME NEW e \in Entities, unregister_me(e) PROVE RosterInv'
  BY <1>4, LeaveRoster DEF Leaving
<1>5. CASE UNCHANGED chvars
  BY <1>1, <1>5 DEF chvars, Members
<1>6. QED
  BY <1>1, <1>3, <1>4, <1>5, TalkStep DEF ChatNext

\* So it is always true.
LEMMA RosterKept == ChatSpec => []RosterInv
<1>1. ChatInit => RosterInv
  BY DEF ChatInit, RosterInv, RosterSound, OnlyMembersKnow, EarlierKnowsLater, Members
<1>2. QED
  BY <1>1, RosterStep, ChatInvKept, PTL DEF ChatSpec

\* Whoever a client saw join and did not see leave is in the room.
THEOREM AnnouncementsTrue == ChatSpec => []RosterSound
  BY RosterKept, PTL DEF RosterInv

\* Of any two members of a room at least one knows of the other.
THEOREM FirstComersKnow == ChatSpec => []EarlierKnowsLater
  BY RosterKept, PTL DEF RosterInv

(***************************************************************************)
(* The chat implements plain rooms.                                        *)
(***************************************************************************)

\* The two modules build the same announcements.
LEMMA SameMessages ==
  ASSUME NEW kind, NEW from, NEW room, NEW recipients
  PROVE  Membership!ToMembers(kind, from, room, recipients)
         = ToMembers(kind, from, room, recipients)
  BY DEF Membership!ToMembers, ToMembers, Membership!Message, Message

\* A set of announcements is what its messages say.
LEMMA LeftMessages ==
  ASSUME ChatInv, ChatInv', NEW e \in Entities, NEW rooms,
         \A x, k, f, r : Message(x, k, f, r) \in sent' <=>
           /\ r \in Rooms /\ active_chatrooms[r] \in rooms
           /\ x \in Members(r) \ {e} /\ k = "left" /\ f = e,
         \A r \in Rooms : active_chatrooms[r] \in rooms => Members(r)' = Members(r) \ {e}
  PROVE  sent' = UNION {ToMembers("left", e, r, Members(r)') :
                          r \in {q \in Rooms : active_chatrooms[q] \in rooms}}
<1> DEFINE names == {q \in Rooms : active_chatrooms[q] \in rooms}
           told == UNION {ToMembers("left", e, r, Members(r)') : r \in names}
<1>1. \A m \in Messages : m = Message(m.to, m.kind, m.from, m.room)
  BY DEF Message, Messages
<1>2. sent' \subseteq Messages
  BY DEF ChatInv, ChatTypeOK
<1>3. ASSUME NEW m \in sent' PROVE m \in told
  <2>1. m = Message(m.to, m.kind, m.from, m.room)
    BY <1>1, <1>2
  <2>2. m.room \in names /\ m.to \in Members(m.room)' /\ m.kind = "left" /\ m.from = e
    BY <2>1
  <2>3. m \in ToMembers("left", e, m.room, Members(m.room)')
    BY <2>1, <2>2, ToMembersIff
  <2>4. QED
    BY <2>2, <2>3
<1>4. ASSUME NEW m \in told PROVE m \in sent'
  <2>1. PICK r \in names : m \in ToMembers("left", e, r, Members(r)')
    OBVIOUS
  <2>2. PICK x \in Members(r)' : m = Message(x, "left", e, r)
    BY <2>1 DEF ToMembers
  <2>3. QED
    BY <2>1, <2>2
<1>5. QED
  BY <1>3, <1>4

\* A step that changes the members of no room.
LEMMA MembersSame ==
  ASSUME \A r \in Rooms : Members(r)' = Members(r)
  PROVE  MembersByName' = MembersByName
  BY DEF MembersByName

\* Every step of the chat is a step of ChatMembership, under the same name.
LEMMA MembershipStep ==
  ASSUME ChatInv, ChatInv', [ChatNext]_chvars
  PROVE  [Membership!CNext]_(Membership!cvars)
<1>1. \A r \in Rooms : MembersByName[r] = Members(r)
  BY DEF MembersByName
<1>2. ASSUME NEW e \in Entities, register_me(e) PROVE Membership!Enter(e)
  <2>1. MembersByName' = MembersByName
    BY <1>2, TalkStep, MembersSame
  <2>2. QED
    BY <1>1, <1>2, <2>1 DEF register_me, Membership!Enter
<1>3. ASSUME NEW e \in Entities, NEW r \in Rooms, broadcast_message(e, r)
      PROVE  Membership!Say(e, r)
  <2>1. MembersByName' = MembersByName
    BY <1>3, TalkStep, MembersSame
  <2>2. MembersByName[r] = Members(r)
    BY <1>1
  <2>3. QED
    BY <1>1, <1>3, <2>1, <2>2, SameMessages DEF broadcast_message, Membership!Say
<1>4. ASSUME NEW e \in Entities, NEW f \in Entities, whisper(e, f)
      PROVE  Membership!WhisperTo(e, f)
  <2>1. MembersByName' = MembersByName
    BY <1>4, TalkStep, MembersSame
  <2>2. QED
    BY <1>1, <1>4, <2>1 DEF whisper, Membership!WhisperTo, Membership!Message, Message
<1>5. CASE periodic_broadcast
  <2>1. MembersByName' = MembersByName
    BY <1>5, TalkStep, MembersSame
  <2>2. \A r \in Rooms : Membership!ToMembers("message", None, r, MembersByName[r])
                        = ToMembers("message", None, r, Members(r))
    BY <1>1, SameMessages
  <2>3. {ToMembers("message", None, r, Members(r)) : r \in Rooms}
        = {Membership!ToMembers("message", None, r, MembersByName[r]) : r \in Rooms}
    BY <2>2
  <2>4. sent' = UNION {Membership!ToMembers("message", None, r, MembersByName[r]) : r \in Rooms}
    BY <1>5, <2>3 DEF periodic_broadcast
  <2>5. Membership!Announce
    BY <1>5, <2>1, <2>4 DEF periodic_broadcast, Membership!Announce
  <2>6. QED
    BY <2>5 DEF Membership!CNext
<1>6. ASSUME NEW e \in Entities, NEW r \in Rooms, join_chatroom(e, r)
      PROVE  Membership!JoinRoom(e, r)
  <2>1. CASE e \in Members(r)
    <3>1. sent' = {} /\ entities' = entities /\ e \in entities
          /\ \A q \in Rooms : Members(q)' = Members(q)
      BY <1>6, <2>1, NoEffect
    <3>2. MembersByName' = MembersByName
      BY <3>1, MembersSame
    <3>3. MembersByName = [MembersByName EXCEPT ![r] = @ \union {e}]
      <4>1. MembersByName[r] \union {e} = MembersByName[r]
        BY <1>1, <2>1
      <4>2. QED
        BY <4>1 DEF MembersByName
    <3>4. QED
      BY <1>1, <2>1, <3>1, <3>2, <3>3 DEF Membership!JoinRoom
  <2>2. CASE e \notin Members(r)
    <3>1. /\ e \in entities /\ entities' = entities
          /\ Members(r)' = Members(r) \union {e}
          /\ \A q \in Rooms \ {r} : Members(q)' = Members(q)
          /\ sent' = ToMembers("joined", e, r, Members(r) \union {e})
      BY <1>6, <2>2, JoinStep
    <3>2. MembersByName' = [MembersByName EXCEPT ![r] = @ \union {e}] /\ MembersByName'[r] = Members(r) \union {e}
      BY <3>1 DEF MembersByName
    <3>3. sent' = Membership!ToMembers("joined", e, r, MembersByName'[r])
      BY <3>1, <3>2, SameMessages
    <3>4. QED
      BY <1>1, <2>2, <3>1, <3>2, <3>3 DEF Membership!JoinRoom, MembersByName
  <2>3. QED
    BY <2>1, <2>2
<1>7. ASSUME NEW e \in Entities, NEW r \in Rooms, leave_chatroom(e, r)
      PROVE  Membership!LeaveRoom(e, r)
  <2>1. CASE e \notin Members(r)
    <3>1. sent' = {} /\ entities' = entities /\ e \in entities
          /\ \A q \in Rooms : Members(q)' = Members(q)
      BY <1>7, <2>1, NoEffect
    <3>2. MembersByName' = MembersByName
      BY <3>1, MembersSame
    <3>3. MembersByName = [MembersByName EXCEPT ![r] = @ \ {e}]
      <4>1. MembersByName[r] \ {e} = MembersByName[r]
        BY <1>1, <2>1
      <4>2. QED
        BY <4>1 DEF MembersByName
    <3>4. QED
      BY <1>1, <2>1, <3>1, <3>2, <3>3 DEF Membership!LeaveRoom
  <2>2. CASE e \in Members(r)
    <3> DEFINE rooms == {active_chatrooms[r]}
    <3>1. Leaving(e, rooms, {r})
      BY <1>7, <2>2 DEF Leaving
    <3> HIDE DEF rooms
    <3>2. /\ \A q \in Rooms : Members(q)' =
               IF active_chatrooms[q] \in rooms THEN Members(q) \ {e} ELSE Members(q)
          /\ \A x, k, f, q : Message(x, k, f, q) \in sent' <=>
               /\ q \in Rooms /\ active_chatrooms[q] \in rooms
               /\ x \in Members(q) \ {e} /\ k = "left" /\ f = e
          /\ \A q \in Rooms : active_chatrooms[q] \in rooms => q \in {r}
      BY <3>1, LeaveSteps
    <3>3. /\ Members(r)' = Members(r) \ {e}
          /\ \A q \in Rooms \ {r} : Members(q)' = Members(q)
          /\ {q \in Rooms : active_chatrooms[q] \in rooms} = {r}
      BY <3>2 DEF rooms
    <3>4. MembersByName' = [MembersByName EXCEPT ![r] = @ \ {e}] /\ MembersByName'[r] = Members(r)'
      BY <3>3 DEF MembersByName
    <3>5. sent' = ToMembers("left", e, r, Members(r)')
      <4>1. sent' = UNION {ToMembers("left", e, q, Members(q)') :
                     q \in {p \in Rooms : active_chatrooms[p] \in rooms}}
        <5>1. \A q \in Rooms : active_chatrooms[q] \in rooms =>
                Members(q)' = Members(q) \ {e}
          BY <3>2
        <5>2. QED
          BY <3>2, <5>1, LeftMessages
      <4>2. sent' = UNION {ToMembers("left", e, q, Members(q)') : q \in {r}}
        BY <3>3, <4>1
      <4>3. QED
        BY <4>2
    <3>6. entities' = entities /\ e \in entities
      BY <1>7 DEF leave_chatroom
    <3>7. sent' = Membership!ToMembers("left", e, r, MembersByName'[r])
      BY <3>4, <3>5, SameMessages
    <3>8. QED
      BY <1>1, <2>2, <3>4, <3>6, <3>7 DEF Membership!LeaveRoom, MembersByName
  <2>3. QED
    BY <2>1, <2>2
<1>8. ASSUME NEW e \in Entities, unregister_me(e) PROVE Membership!Exit(e)
  <2>1. Leaving(e, chatrooms_im_in[e], Rooms)
    BY <1>8 DEF Leaving
  <2>2. /\ \A q \in Rooms : Members(q)' =
             IF active_chatrooms[q] \in chatrooms_im_in[e] THEN Members(q) \ {e} ELSE Members(q)
        /\ \A x, k, f, q : Message(x, k, f, q) \in sent' <=>
             /\ q \in Rooms /\ active_chatrooms[q] \in chatrooms_im_in[e]
             /\ x \in Members(q) \ {e} /\ k = "left" /\ f = e
    BY <2>1, LeaveSteps
  <2>3. \A q \in Rooms : e \in Members(q) <=> active_chatrooms[q] \in chatrooms_im_in[e]
    <3>1. None \notin chatrooms_im_in[e]
      BY ChatAssumption DEF ChatInv, ChatTypeOK
    <3>2. QED
      BY <3>1, MembersType
  <2>4. \A q \in Rooms : Members(q)' = Members(q) \ {e}
    BY <2>2, <2>3
  <2>5. MembersByName' = [r \in Rooms |-> MembersByName[r] \ {e}]
    BY <2>4 DEF MembersByName
  <2>6. {q \in Rooms : active_chatrooms[q] \in chatrooms_im_in[e]} = {q \in Rooms : e \in MembersByName[q]}
    BY <2>3 DEF MembersByName
  <2>7. sent' = UNION {ToMembers("left", e, r, Members(r)') : r \in {q \in Rooms : e \in MembersByName[q]}}
    <3>1. sent' = UNION {ToMembers("left", e, r, Members(r)') :
                    r \in {q \in Rooms : active_chatrooms[q] \in chatrooms_im_in[e]}}
      BY <2>2, <2>4, LeftMessages
    <3>2. QED
      BY <2>6, <3>1
  <2>8. \A r \in Rooms : Membership!ToMembers("left", e, r, MembersByName'[r])
                        = ToMembers("left", e, r, Members(r)')
    BY SameMessages DEF MembersByName
  <2>9. sent' = UNION {Membership!ToMembers("left", e, r, MembersByName'[r]) :
                  r \in {q \in Rooms : e \in MembersByName[q]}}
    BY <2>7, <2>8
  <2>10. entities' = entities \ {e} /\ e \in entities
    BY <1>8 DEF unregister_me
  <2>11. QED
    BY <2>5, <2>9, <2>10 DEF Membership!Exit, MembersByName
<1>9. CASE UNCHANGED chvars
  BY <1>9 DEF chvars, Membership!cvars, Members, MembersByName
<1>10. QED
  BY <1>2, <1>3, <1>4, <1>5, <1>6, <1>7, <1>8, <1>9 DEF ChatNext, Membership!CNext

\* ChatSystem implements ChatMembership: pointers, addresses and the two-sided
\* bookkeeping are plain sets of members, and the messages sent are the same.
THEOREM ChatRefines == ChatSpec => ImplementsMembership
<1>1. ChatInit => Membership!CInit
  BY DEF ChatInit, Membership!CInit, Members, MembersByName
<1>2. ChatInv /\ ChatInv' /\ [ChatNext]_chvars => [Membership!CNext]_(Membership!cvars)
  BY MembershipStep
<1>3. QED
  BY <1>1, <1>2, ChatInvKept, PTL DEF ChatSpec, ImplementsMembership, Membership!CSpec
==============================================================================
