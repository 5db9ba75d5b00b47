--------------------------- MODULE ChatMembership ---------------------------
(***************************************************************************)
(* What the chat promises: rooms are sets of members, whoever joins or     *)
(* leaves is announced to the members, and only members speak and listen.  *)
(***************************************************************************)
CONSTANTS Entities, Rooms, None

VARIABLES
  online,   \* who is in the world
  members,  \* who is in each room
  sent      \* the messages the last step sent

cvars == <<online, members, sent>>

Message(to, kind, from, room) == [to |-> to, kind |-> kind, from |-> from, room |-> room]

ToMembers(kind, from, room, recipients) ==
  {Message(e, kind, from, room) : e \in recipients}

CInit ==
  /\ online = {}
  /\ members = [r \in Rooms |-> {}]
  /\ sent = {}

Enter(e) ==
  /\ e \notin online
  /\ online' = online \union {e}
  /\ sent' = {}
  /\ UNCHANGED members

\* Whoever goes offline leaves every room, and those who stay are told.
Exit(e) ==
  /\ e \in online
  /\ online' = online \ {e}
  /\ members' = [r \in Rooms |-> members[r] \ {e}]
  /\ sent' = UNION {ToMembers("left", e, r, members'[r]) : r \in {q \in Rooms : e \in members[q]}}

\* The one who joins is told of it too.
JoinRoom(e, r) ==
  /\ e \in online
  /\ members' = [members EXCEPT ![r] = @ \union {e}]
  /\ sent' = IF e \in members[r] THEN {} ELSE ToMembers("joined", e, r, members'[r])
  /\ UNCHANGED online

\* The one who leaves is not.
LeaveRoom(e, r) ==
  /\ e \in online
  /\ members' = [members EXCEPT ![r] = @ \ {e}]
  /\ sent' = IF e \in members[r] THEN ToMembers("left", e, r, members'[r]) ELSE {}
  /\ UNCHANGED online

Say(e, r) ==
  /\ e \in online
  /\ sent' = IF e \in members[r] THEN ToMembers("message", e, r, members[r]) ELSE {}
  /\ UNCHANGED <<online, members>>

WhisperTo(e, f) ==
  /\ e \in online
  /\ sent' = IF f \in online \ {e} THEN {Message(f, "whisper", e, None)} ELSE {}
  /\ UNCHANGED <<online, members>>

Announce ==
  /\ sent' = UNION {ToMembers("message", None, r, members[r]) : r \in Rooms}
  /\ UNCHANGED <<online, members>>

CNext ==
  \/ \E e \in Entities : Enter(e) \/ Exit(e)
  \/ \E e \in Entities, r \in Rooms : JoinRoom(e, r) \/ LeaveRoom(e, r) \/ Say(e, r)
  \/ \E e, f \in Entities : WhisperTo(e, f)
  \/ Announce

CSpec == CInit /\ [][CNext]_cvars
==============================================================================
