------------------------- MODULE FriendRequestWindow -------------------------
(***************************************************************************)
(* What pending_friend_requests promises its caller: one table of waiting  *)
(* requests in which a request is found for at least Ttl after it was made *)
(* and for at most Ttl + Grace, and the three answers a new request gets.  *)
(***************************************************************************)
EXTENDS Integers

CONSTANTS
  Users,   \* players who ask each other to be friends
  Ttl,     \* how long a request waits for an answer
  Grace    \* how much longer it may be found

VARIABLES
  now,      \* the clock
  waiting,  \* when each waiting request was made
  answer    \* the answer just given, if the last step gave one

wvars == <<now, waiting, answer>>

Requests == {r \in Users \X Users : r[1] # r[2]}
Reverse(r) == <<r[2], r[1]>>
Absent == -1
NoAnswer == [request |-> << >>, result |-> "none"]
Answer(r, result) == [request |-> r, result |-> result]

WInit ==
  /\ now = 0
  /\ waiting = [r \in Requests |-> Absent]
  /\ answer = NoAnswer

\* The recipient had asked the sender: both requests are spent.
WMatch(r) ==
  /\ waiting[Reverse(r)] # Absent
  /\ waiting' = [waiting EXCEPT ![Reverse(r)] = Absent]
  /\ answer' = Answer(r, "that_was_a_match")
  /\ UNCHANGED now

\* The same request is waiting: it is answered, and withdrawn.
WRepeat(r) ==
  /\ waiting[Reverse(r)] = Absent /\ waiting[r] # Absent
  /\ waiting' = [waiting EXCEPT ![r] = Absent]
  /\ answer' = Answer(r, "already_in_buffer")
  /\ UNCHANGED now

WAdd(r) ==
  /\ waiting[Reverse(r)] = Absent /\ waiting[r] = Absent
  /\ waiting' = [waiting EXCEPT ![r] = now]
  /\ answer' = Answer(r, "succesfully_added")
  /\ UNCHANGED now

\* Time passes; old requests may be forgotten, very old ones are.
WTime ==
  /\ now' \in {now, now + 1}
  /\ \E forgotten \in SUBSET {r \in Requests : now' - waiting[r] >= Ttl} :
       waiting' = [r \in Requests |-> IF r \in forgotten THEN Absent ELSE waiting[r]]
  /\ \A r \in Requests : waiting'[r] # Absent => now' - waiting'[r] <= Ttl + Grace
  /\ answer' = NoAnswer

WNext ==
  \/ \E r \in Requests : WMatch(r) \/ WRepeat(r) \/ WAdd(r)
  \/ WTime

WSpec == WInit /\ [][WNext]_wvars
==============================================================================
