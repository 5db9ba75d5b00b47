----------------------------- MODULE FriendSystem -----------------------------
(***************************************************************************)
(* class friend_system on top of PendingFriendRequests (whose variables    *)
(* and actions it extends) and table character_friends: each online player *)
(* has a friend list in memory, loaded at login, changed together with the *)
(* list of the other player and, last of all, with the table.  Players     *)
(* hear of friends who come and go, become friends or cease to be.         *)
(*                                                                         *)
(* A session that is closed, because its connection is lost or because the *)
(* database failed in the middle of a request, stays online but acts no    *)
(* more until the task that destroys it runs.                              *)
(***************************************************************************)
EXTENDS PendingFriendRequests, FiniteSets

CONSTANTS
  MaxRows,   \* bound: rows for one pair (two may only come of failed writes)
  MaxFailed  \* bound: pairs with a failed write

ASSUME FriendAssumption == MaxRows \in Nat /\ MaxFailed \in Nat

VARIABLES
  online,            \* keys of friendlist_of_id_ (and of the registry)
  closing,           \* players whose session is closed but not yet destroyed
  friend_ids,        \* the friend list of each online player
  character_friends, \* how many rows the table has for each pair
  told,              \* per player: the friends its backend was told are online
  failed             \* pairs a write failed for, until a removal succeeds

svars == <<online, closing, friend_ids, character_friends, told, failed>>
fvars == <<pvars, svars>>

Pair(p, q) == {p, q}
Pairs == {Pair(r[1], r[2]) : r \in Requests}

FInit ==
  /\ PInit
  /\ online = {}
  /\ closing = {}
  /\ friend_ids = [p \in Users |-> {}]
  /\ character_friends = [x \in Pairs |-> 0]
  /\ told = [p \in Users |-> {}]
  /\ failed = {}

\* Players who may send requests.
Active == online \ closing

\* get_friends_of: the table has a pair in one order only, the query looks in both.
FriendsInTable(p) == {q \in Users \ {p} : character_friends[Pair(p, q)] > 0}

\* friend_system leaves the pending requests alone.
NoRequest == answer' = NoAnswer /\ UNCHANGED <<now, front, back, cleanup_at>>

\* What the backends make the clients believe: <<q, p>> \in came if q hears that
\* its friend p is online or that p, online, is a friend now; <<q, p>> \in gone if
\* it hears that p left or is no friend any more.
Tell(came, gone) ==
  told' = [q \in Users |-> (told[q] \union {p \in Users : <<q, p>> \in came})
                             \ {p \in Users : <<q, p>> \in gone}]

EachOther(p, others) == ({p} \X others) \union (others \X {p})

\* A bug in register_me: the friends who are online are not told.
LoginUnnoticed(p) ==
  /\ p \notin online
  /\ online' = online \union {p}
  /\ friend_ids' = [friend_ids EXCEPT ![p] = FriendsInTable(p)]
  /\ Tell({p} \X (FriendsInTable(p) \intersect online), {})
  /\ NoRequest
  /\ UNCHANGED <<closing, character_friends, failed>>

\* The newcomer is told which friends are online, and each of them is told of
\* the newcomer: going by the newcomer's list, not by theirs.
register_me(p) ==
  /\ p \notin online
  /\ online' = online \union {p}
  /\ friend_ids' = [friend_ids EXCEPT ![p] = FriendsInTable(p)]
  /\ Tell(EachOther(p, FriendsInTable(p) \intersect online), {})
  /\ NoRequest
  /\ UNCHANGED <<closing, character_friends, failed>>

\* The friends of p, by p's list, are told; what p was told goes with its backend.
unregister_me(p) ==
  /\ p \in online
  /\ online' = online \ {p}
  /\ closing' = closing \ {p}
  /\ friend_ids' = [friend_ids EXCEPT ![p] = {}]
  /\ Tell({}, ({p} \X Users) \union ((friend_ids[p] \intersect online) \X {p}))
  /\ NoRequest
  /\ UNCHANGED <<character_friends, failed>>

\* force_close: the socket of p is gone, p itself is not yet.
SessionCloses(p) ==
  /\ p \in Active
  /\ closing' = closing \union {p}
  /\ NoRequest
  /\ UNCHANGED <<online, friend_ids, character_friends, told, failed>>

\* Refused at once: not online, oneself, or a friend already.
RequestRefused(p, q) ==
  /\ p \in Active
  /\ q \notin online \/ q = p \/ q \in friend_ids[p]
  /\ NoRequest
  /\ UNCHANGED svars

\* The statement at the end of a handler throws: the session of p is closed,
\* what was done before stays done.
WriteFails(p, pair) ==
  /\ Cardinality(failed \union {pair}) <= MaxFailed
  /\ closing' = closing \union {p}
  /\ failed' = failed \union {pair}
  /\ UNCHANGED character_friends

InsertRow(p, pair) ==
  \/ /\ character_friends[pair] < MaxRows
     /\ character_friends' = [character_friends EXCEPT ![pair] = @ + 1]
     /\ UNCHANGED <<closing, failed>>
  \/ WriteFails(p, pair)

DeleteRows(p, pair) ==
  \/ /\ character_friends' = [character_friends EXCEPT ![pair] = 0]
     /\ failed' = failed \ {pair}
     /\ UNCHANGED closing
  \/ WriteFails(p, pair)

MakeFriends(p, q) ==
  /\ friend_ids' = [friend_ids EXCEPT ![p] = @ \union {q}, ![q] = @ \union {p}]
  /\ Tell(EachOther(p, {q}), {})

\* A bug in process_req_friend_add: friends may ask each other again.
FriendAddUnchecked(p, q) ==
  /\ p \in Active /\ q \in online \ {p}
  /\ ProcessAddFriendRequest(<<p, q>>)
  /\ IF answer'.result = "that_was_a_match"
       THEN /\ MakeFriends(p, q)
            /\ InsertRow(p, Pair(p, q))
       ELSE UNCHANGED <<closing, friend_ids, character_friends, told, failed>>
  /\ UNCHANGED online

\* process_req_friend_add for a player who is online and no friend yet.
process_req_friend_add(p, q) ==
  /\ p \in Active /\ q \in online \ {p} /\ q \notin friend_ids[p]
  /\ ProcessAddFriendRequest(<<p, q>>)
  /\ IF answer'.result = "that_was_a_match"
       THEN /\ MakeFriends(p, q)
            /\ InsertRow(p, Pair(p, q))
       ELSE UNCHANGED <<closing, friend_ids, character_friends, told, failed>>
  /\ UNCHANGED online

\* A bug in process_req_friend_remove: the row is deleted only if the other
\* player is online.
RemoveOnlineOnly(p, q) ==
  /\ p \in Active /\ q \in friend_ids[p]
  /\ friend_ids' = [friend_ids EXCEPT ![p] = @ \ {q}, ![q] = @ \ {p}]
  /\ Tell({}, EachOther(p, {q}))
  /\ IF q \in online THEN DeleteRows(p, Pair(p, q))
                    ELSE UNCHANGED <<closing, character_friends, failed>>
  /\ NoRequest
  /\ UNCHANGED online

\* process_req_friend_remove of a friend, online or not (the list of a player
\* who is offline is empty).
process_req_friend_remove(p, q) ==
  /\ p \in Active /\ q \in friend_ids[p]
  /\ friend_ids' = [friend_ids EXCEPT ![p] = @ \ {q}, ![q] = @ \ {p}]
  /\ Tell({}, EachOther(p, {q}))
  /\ DeleteRows(p, Pair(p, q))
  /\ NoRequest
  /\ UNCHANGED online

\* Removing somebody who is unknown or no friend.
RemoveRefused(p, q) ==
  /\ p \in Active /\ q \notin friend_ids[p]
  /\ NoRequest
  /\ UNCHANGED svars

FNext ==
  \/ \E p \in Users : register_me(p) \/ unregister_me(p) \/ SessionCloses(p)
  \/ \E p, q \in Users :
       \/ RequestRefused(p, q) \/ process_req_friend_add(p, q)
       \/ RemoveRefused(p, q) \/ process_req_friend_remove(p, q)
  \/ PeriodicCleanup /\ UNCHANGED svars
  \/ Tick /\ UNCHANGED svars

FSpec == FInit /\ [][FNext]_fvars

(***************************************************************************)
(* Properties.                                                             *)
(***************************************************************************)

\* Every variable keeps its type; who is offline has no list.
FTypeOK ==
  /\ PTypeOK
  /\ online \subseteq Users
  /\ closing \subseteq online
  /\ friend_ids \in [Users -> SUBSET Users]
  /\ \A p \in Users \ online : friend_ids[p] = {} /\ told[p] = {}
  /\ character_friends \in [Pairs -> Nat]
  /\ told \in [Users -> SUBSET Users]
  /\ failed \subseteq Pairs

\* The properties below hold for every pair whose writes succeeded: a failed
\* write leaves the lists, the table and the notifications of that one pair at
\* odds, of no other, and only until the next removal that succeeds.
Sound(p, q) == p # q /\ Pair(p, q) \notin failed

\* The list of each online player is what it would load at its next login.
MemoryMatchesTable ==
  \A p \in online, q \in Users :
    Sound(p, q) => (q \in friend_ids[p] <=> q \in FriendsInTable(p))

\* The friends a connected client believes to be online, from the notifications
\* alone, are exactly those who are (a closed session is online until destroyed).
PresenceKnown ==
  \A p \in Active, q \in Users :
    Sound(p, q) => (q \in told[p] <=> q \in friend_ids[p] /\ q \in online)

\* No request waits between friends.  If one did, it would outlive the end of
\* the friendship, and the next request would be taken for an answer to it.
NoRequestBetweenFriends ==
  \A r \in Requests :
    Sound(r[1], r[2]) /\ character_friends[Pair(r[1], r[2])] > 0 => ~Found(r)

\* Nothing in the table forbids a pair to be inserted twice; the friend lists do.
AtMostOneRow == \A x \in Pairs \ failed : character_friends[x] <= 1
==============================================================================
