----------------------------- MODULE AdjustedClock ------------------------------
(***************************************************************************)
(* pending_friend_requests while the system clock is being adjusted.  Both *)
(* realtime_clock and boost::asio::deadline_timer follow it, so a request  *)
(* may grow old at once or become young again, and the cleanup may come    *)
(* early or late.                                                          *)
(***************************************************************************)
EXTENDS PendingFriendRequests

VARIABLES
  setback,   \* has the clock ever been set back?
  cleanups   \* of each request: the cleanups since it was last added, up to 2

avars == <<pvars, setback, cleanups>>

AInit ==
  /\ PInit
  /\ setback = FALSE
  /\ cleanups = [r \in Requests |-> 2]

ARequest(r) ==
  /\ ProcessAddFriendRequest(r)
  /\ cleanups' = IF answer'.result = "succesfully_added"
                   THEN [cleanups EXCEPT ![r] = 0] ELSE cleanups
  /\ UNCHANGED setback

ACleanup ==
  /\ PeriodicCleanup
  /\ cleanups' = [r \in Requests |-> IF cleanups[r] < 2 THEN cleanups[r] + 1 ELSE 2]
  /\ UNCHANGED setback

ATick == Tick /\ UNCHANGED <<setback, cleanups>>

\* The clock is set to any time.
Adjust ==
  /\ now' \in (0..MaxTime) \ {now}
  /\ setback' = (setback \/ now' < now)
  /\ answer' = NoAnswer
  /\ UNCHANGED <<front, back, cleanup_at, cleanups>>

ANext ==
  \/ \E r \in Requests : ARequest(r)
  \/ ACleanup \/ ATick \/ Adjust

ASpec == AInit /\ [][ANext]_avars

(***************************************************************************)
(* Properties.                                                             *)
(***************************************************************************)

\* Every variable keeps its type; a request may have been made in the future.
ATypeOK ==
  /\ now \in 0..MaxTime
  /\ front \in [Requests -> (0..MaxTime) \union {Absent}]
  /\ back \in [Requests -> (0..MaxTime) \union {Absent}]
  /\ cleanup_at \in 0..(MaxTime + Period)
  /\ answer \in [request : Requests, result : Results] \union {NoAnswer}
  /\ setback \in BOOLEAN
  /\ cleanups \in [Requests -> 0..2]

\* Only a clock that is set back can bring two players to wait for each other:
\* then the request in the back map, which was too old when the other one was
\* made, is young again.  Set forth, the clock makes requests too old, and does
\* no other harm.
OnlySetbacksCross == setback \/ NoCrossedRequests

\* Whatever the clock does, two opposite requests are never in the same map: if
\* the two players wait for each other, the next cleanup ends it.
OneMapNeverBoth ==
  \A r \in Requests :
    /\ ~(front[r] # Absent /\ front[Reverse(r)] # Absent)
    /\ ~(back[r] # Absent /\ back[Reverse(r)] # Absent)

\* Whatever the clock does, no request outlives the second cleanup after it was
\* made.
SecondCleanupForgets == \A r \in Requests : Found(r) => cleanups[r] < 2
================================================================================
