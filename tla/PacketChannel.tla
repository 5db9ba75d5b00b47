---------------------------- MODULE PacketChannel -----------------------------
(***************************************************************************)
(* What a connection promises its two users, in one direction: messages    *)
(* are handed over whole, unchanged, once and in the order they were sent, *)
(* until the channel ends.  Nothing behind a malformed one is.             *)
(***************************************************************************)
EXTENDS Sequences

CONSTANT Messages

VARIABLES
  queue,      \* sent, not handed over: a message and whether it is well formed
  delivered,  \* handed over
  open        \* has the receiving end not closed the connection?

CInit == queue = << >> /\ delivered = << >> /\ open = TRUE

CSend(entry) ==
  /\ queue' = Append(queue, entry)
  /\ UNCHANGED <<delivered, open>>

CDeliver ==
  /\ open /\ queue # << >> /\ Head(queue).complete
  /\ delivered' = Append(delivered, Head(queue).message)
  /\ queue' = Tail(queue)
  /\ UNCHANGED open

CClose ==
  /\ open /\ open' = FALSE
  /\ UNCHANGED <<queue, delivered>>

CNext ==
  \/ \E entry \in [message : Messages, complete : BOOLEAN] : CSend(entry)
  \/ CDeliver
  \/ CClose

CSpec == CInit /\ [][CNext]_<<queue, delivered, open>>
===============================================================================
