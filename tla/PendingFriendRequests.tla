------------------------ MODULE PendingFriendRequests ------------------------
(***************************************************************************)
(* class pending_friend_requests: friend requests wait in two hash maps.   *)
(* New ones go to the front map; a timer empties the back map and swaps    *)
(* the two, so that expired requests need not be searched for.  The timer  *)
(* is armed again when its handler runs, which may be late: the handler    *)
(* queues on the game loop strand behind whatever else runs there.         *)
(*                                                                         *)
(* Time counts ticks of a clock that does not jump; durations compare as   *)
(* the code compares whole seconds.                                        *)
(***************************************************************************)
EXTENDS Integers

CONSTANTS
  Users,        \* players who ask each other to be friends
  Ttl,          \* the age limit of the back map (20 s)
  Period,       \* the period of the timer (20 s)
  MaxLateness,  \* how late the timer's handler may run
  MaxTime       \* bound: the clock stops there

ASSUME PendingAssumption ==
  /\ Ttl \in Nat /\ Period \in Nat /\ MaxLateness \in Nat /\ MaxTime \in Nat
  /\ Period = Ttl /\ Ttl > 0

VARIABLES
  now,         \* the clock
  front,       \* pending_friend_requests_front_: when each request was made
  back,        \* pending_friend_requests_back_
  cleanup_at,  \* when periodic_cleanup_task_ is due
  answer       \* what the last call of process_add_friend_request returned

pvars == <<now, front, back, cleanup_at, answer>>

\* friend_system refuses to befriend oneself before it gets here.
Requests == {r \in Users \X Users : r[1] # r[2]}
Reverse(r) == <<r[2], r[1]>>
Absent == -1
Empty == [r \in Requests |-> Absent]
NoAnswer == [request |-> << >>, result |-> "none"]
Answer(r, result) == [request |-> r, result |-> result]

PInit ==
  /\ now = 0
  /\ front = Empty
  /\ back = Empty
  /\ cleanup_at = Period
  /\ answer = NoAnswer

InFront(r) == front[r] # Absent

\* A bug in the search of the back map: the age is not checked.
InBackAtAnyAge(r) == back[r] # Absent

InBack(r) == back[r] # Absent /\ now - back[r] < Ttl

Found(r) == InFront(r) \/ InBack(r)

\* Erase r from the map it was found in, the front map first.
Erase(r) ==
  IF InFront(r)
    THEN front' = [front EXCEPT ![r] = Absent] /\ UNCHANGED back
    ELSE back' = [back EXCEPT ![r] = Absent] /\ UNCHANGED front

(***************************************************************************)
(* process_add_friend_request, by its three results.                       *)
(***************************************************************************)

Match(r) ==
  /\ Found(Reverse(r))
  /\ Erase(Reverse(r))
  /\ answer' = Answer(r, "that_was_a_match")
  /\ UNCHANGED <<now, cleanup_at>>

AlreadyInBuffer(r) ==
  /\ ~Found(Reverse(r)) /\ Found(r)
  /\ Erase(r)
  /\ answer' = Answer(r, "already_in_buffer")
  /\ UNCHANGED <<now, cleanup_at>>

\* A bug in the order of the lookups: the request is added without a look at
\* the reverse one in the back map.
AddUnmatched(r) ==
  /\ ~InFront(Reverse(r)) /\ ~Found(r)
  /\ front' = [front EXCEPT ![r] = now]
  /\ answer' = Answer(r, "succesfully_added")
  /\ UNCHANGED <<now, back, cleanup_at>>

Add(r) ==
  /\ ~Found(Reverse(r)) /\ ~Found(r)
  /\ front' = [front EXCEPT ![r] = now]
  /\ answer' = Answer(r, "succesfully_added")
  /\ UNCHANGED <<now, back, cleanup_at>>

ProcessAddFriendRequest(r) == Match(r) \/ AlreadyInBuffer(r) \/ Add(r)

(***************************************************************************)
(* The timer and the clock.                                                *)
(***************************************************************************)

\* A bug in periodic_cleanup: the back map is not cleared before the swap.
PeriodicCleanupUncleared ==
  /\ now >= cleanup_at
  /\ front' = back
  /\ back' = front
  /\ cleanup_at' = now + Period
  /\ answer' = NoAnswer
  /\ UNCHANGED now

PeriodicCleanup ==
  /\ now >= cleanup_at
  /\ front' = Empty
  /\ back' = front
  /\ cleanup_at' = now + Period
  /\ answer' = NoAnswer
  /\ UNCHANGED now

Tick ==
  /\ now < cleanup_at + MaxLateness /\ now < MaxTime
  /\ now' = now + 1
  /\ answer' = NoAnswer
  /\ UNCHANGED <<front, back, cleanup_at>>

PNext ==
  \/ \E r \in Requests : ProcessAddFriendRequest(r)
  \/ PeriodicCleanup
  \/ Tick

PSpec == PInit /\ [][PNext]_pvars

(***************************************************************************)
(* Properties.                                                             *)
(***************************************************************************)

Results == {"that_was_a_match", "already_in_buffer", "succesfully_added"}

\* Every variable keeps its type; no request was made in the future.
PTypeOK ==
  /\ now \in Nat
  /\ front \in [Requests -> Int] /\ back \in [Requests -> Int]
  /\ \A r \in Requests : Absent <= front[r] /\ front[r] <= now
  /\ \A r \in Requests : Absent <= back[r] /\ back[r] <= now
  /\ cleanup_at \in Nat
  /\ answer \in [request : Requests, result : Results] \union {NoAnswer}

\* Two players never wait for each other: the later of two opposite requests
\* always meets the earlier one, wherever the timer has moved it.
NoCrossedRequests ==
  \A r \in Requests : ~(Found(r) /\ Found(Reverse(r)))

\* Why the age of a front entry need not be checked, and why clearing the back
\* map loses no live request: every back entry is older than the last cleanup
\* and every front entry younger, and the next cleanup is not overdue.
BuffersOrdered ==
  /\ cleanup_at - Period <= now /\ now <= cleanup_at + MaxLateness
  /\ \A r \in Requests :
       /\ front[r] # Absent => front[r] >= cleanup_at - Period
       /\ back[r] # Absent => back[r] <= cleanup_at - Period

\* The two maps and the timer implement one table in which a request is found
\* for Ttl, and for at most MaxLateness longer, with every answer the table gives.
Waiting == [r \in Requests |-> IF InFront(r) THEN front[r]
                               ELSE IF InBack(r) THEN back[r] ELSE Absent]

Window == INSTANCE FriendRequestWindow WITH
            Grace <- MaxLateness, waiting <- Waiting

ImplementsWindow == Window!WSpec

\* What the comment on already_in_buffer says ("the old request didnt expire
\* yet"): the request the answer speaks of is still waiting.
RepeatedRequestStillWaits ==
  answer.result = "already_in_buffer" => Found(answer.request)
==============================================================================
