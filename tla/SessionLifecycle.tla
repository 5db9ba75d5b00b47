--------------------------- MODULE SessionLifecycle ----------------------------
(***************************************************************************)
(* What the sessions are to the rest of the server, without sockets, tasks *)
(* and transitions: a session is at the door until its user logs in, in    *)
(* the lobby of his account, or in the world with one of its characters.   *)
(* From everywhere it may go offline.  An account may be logged in more    *)
(* than once, a character is in the world at most once: the process does   *)
(* not survive a user who enters twice with the same one.                  *)
(***************************************************************************)
CONSTANTS Sessions, Accounts, Characters, Owner, None

VARIABLES
  server,    \* the process: running, or how it stopped
  place,     \* where each session is
  account,   \* who has logged in
  character  \* whom he plays

session_view == <<place, account, character>>
lifecycle_vars == <<server, session_view>>

LifecycleInit ==
  /\ server = "up"
  /\ place = [s \in Sessions |-> "offline"]
  /\ account = [s \in Sessions |-> None]
  /\ character = [s \in Sessions |-> None]

Go(s, from, to) ==
  /\ server = "up" /\ UNCHANGED server
  /\ place[s] = from /\ place' = [place EXCEPT ![s] = to]

Knock(s) ==
  /\ Go(s, "offline", "door")
  /\ UNCHANGED <<account, character>>

LogIn(s, a) ==
  /\ Go(s, "door", "lobby")
  /\ account' = [account EXCEPT ![s] = a]
  /\ UNCHANGED character

Played(c) == \E t \in Sessions : character[t] = c

Enter(s, c) ==
  /\ Go(s, "lobby", "world")
  /\ Owner[c] = account[s]
  /\ ~Played(c)
  /\ character' = [character EXCEPT ![s] = c]
  /\ UNCHANGED account

\* One of two sessions of an account selects the character the other one plays.
EnterTwice(s, c) ==
  /\ server = "up" /\ server' = "aborted"
  /\ place[s] = "lobby"
  /\ Owner[c] = account[s]
  /\ \E t \in Sessions : place[t] = "world" /\ character[t] = c /\ account[t] = account[s]
  /\ UNCHANGED session_view

Leave(s) ==
  /\ Go(s, "world", "lobby")
  /\ character' = [character EXCEPT ![s] = None]
  /\ UNCHANGED account

Disconnect(s) ==
  /\ server = "up" /\ UNCHANGED server
  /\ place[s] # "offline"
  /\ place' = [place EXCEPT ![s] = "offline"]
  /\ account' = [account EXCEPT ![s] = None]
  /\ character' = [character EXCEPT ![s] = None]

\* An exception that nobody catches.
Terminate ==
  /\ server = "up" /\ server' = "terminated"
  /\ UNCHANGED session_view

LifecycleNext ==
  \/ \E s \in Sessions :
       \/ Knock(s)
       \/ \E a \in Accounts : LogIn(s, a)
       \/ \E c \in Characters : Enter(s, c) \/ EnterTwice(s, c)
       \/ Leave(s)
       \/ Disconnect(s)
  \/ Terminate

LifecycleSpec == LifecycleInit /\ [][LifecycleNext]_lifecycle_vars
===============================================================================
