--------------------------- MODULE StrandSendsProofs ---------------------------
(***************************************************************************)
(* Proofs about StrandSends, for any finite set of clients and any room in *)
(* the buffers.                                                            *)
(***************************************************************************)
EXTENDS StrandSends, FiniteSetTheorems, TLAPS

\* No handler runs is no handler of a session, nor the timer's.
LEMMA NoneIsNoTask ==
  None \notin Tasks /\ (\A c \in Clients : None \notin Of(c)) /\ Timer # None
BY DEF None, Tasks, SessionTasks, Timer, Of

\* Sessions have no task in common, and none with the timer.
LEMMA TasksApart ==
  /\ \A c \in Clients : Of(c) \subseteq Tasks /\ Timer \notin Of(c)
  /\ \A c, d \in Clients : c # d => Of(c) \intersect Of(d) = {}
BY DEF Of, Tasks, SessionTasks, Timer

\* Posting a task puts it last and moves no other.
LEMMA Posted ==
  ASSUME SendsTypeOK, NEW task \in Tasks, Post(task), NEW c \in Clients
  PROVE  /\ strand' \in Seq(Tasks)
         /\ task \notin Of(c) => Waits(c)' = Waits(c)
         /\ task \in Of(c) => Waits(c)' = Waits(c) \union {Len(strand) + 1}
         /\ strand'[Len(strand) + 1] = task
         /\ \A i \in Waits(c) : strand'[i] = strand[i] /\ i # Len(strand) + 1
<1>1. /\ strand' = Append(strand, task) /\ strand \in Seq(Tasks)
      /\ Len(strand) \in Nat /\ DOMAIN strand = 1..Len(strand)
  BY DEF Post, SendsTypeOK
<1>2. /\ strand' \in Seq(Tasks) /\ DOMAIN strand' = 1..(Len(strand) + 1)
      /\ strand'[Len(strand) + 1] = task
      /\ \A i \in DOMAIN strand : strand'[i] = strand[i] /\ i # Len(strand) + 1
  BY <1>1
<1>3. task \notin Of(c) => Waits(c)' = Waits(c)
  BY <1>1, <1>2 DEF Waits, Of
<1>4. task \in Of(c) => Waits(c)' = Waits(c) \union {Len(strand) + 1}
  BY <1>1, <1>2 DEF Waits, Of
<1>5. QED
  BY <1>2, <1>3, <1>4 DEF Waits

\* Taking the first task moves each other one place ahead.
LEMMA Begun ==
  ASSUME SendsTypeOK, strand # << >>, strand' = Tail(strand), NEW c \in Clients
  PROVE  /\ strand' \in Seq(Tasks) /\ Head(strand) \in Tasks
         /\ \A i \in Waits(c)' : i + 1 \in Waits(c) /\ strand'[i] = strand[i + 1] /\ i \in Nat
         /\ Head(strand) \notin Of(c) => (Waits(c)' = {} <=> Waits(c) = {})
         /\ Head(strand) \in Of(c) => 1 \in Waits(c) /\ strand[1] = Head(strand)
<1>0. Head(strand) \in Tasks /\ Head(strand) = strand[1]
  BY DEF SendsTypeOK
<1>1. /\ strand \in Seq(Tasks) /\ Len(strand) \in Nat \ {0} /\ DOMAIN strand = 1..Len(strand)
      /\ Head(strand) = strand[1] /\ 1 \in DOMAIN strand
  BY DEF SendsTypeOK
<1>2. /\ strand' \in Seq(Tasks) /\ DOMAIN strand' = 1..(Len(strand) - 1)
      /\ \A i \in DOMAIN strand' : strand'[i] = strand[i + 1] /\ i + 1 \in DOMAIN strand
  BY <1>1
<1>3. \A i \in Waits(c)' : i + 1 \in Waits(c) /\ strand'[i] = strand[i + 1] /\ i \in Nat
  BY <1>1, <1>2 DEF Waits, Of
<1>4. ASSUME Head(strand) \notin Of(c), NEW i \in Waits(c) PROVE i - 1 \in Waits(c)'
  BY <1>1, <1>2, <1>4 DEF Waits, Of
<1>5. Head(strand) \notin Of(c) => (Waits(c)' = {} <=> Waits(c) = {})
  BY <1>3, <1>4
<1>6. Head(strand) \in Of(c) => 1 \in Waits(c)
  BY <1>1 DEF Waits
<1>7. QED
  BY <1>0, <1>2, <1>3, <1>5, <1>6

\* Nobody can be waiting for everybody else.
LEMMA SomebodyGoesOn ==
  ASSUME SendsTypeOK, \A c \in Clients : OneTask(c), PeersExist
  PROVE  NeverStuck
<1> USE SendsAssumption
<1> SUFFICES ASSUME SomethingWaits PROVE Stalled \/ SomethingMoves
  BY DEF NeverStuck
<1>1. CASE ~Idle /\ todo # << >>
  <2> DEFINE r == Head(todo)
  <2>1. r \in Clients /\ link[r] \notin {"none", "closed"}
    BY <1>1 DEF SendsTypeOK, PeersExist, Online
  <2>2. link[r] \in {"up", "stopped", "silent", "lost"} /\ inbox[r] \in 0..InboxSize
    BY <2>1 DEF SendsTypeOK
  <2>3. \/ link[r] = "lost" \/ inbox[r] < InboxSize
        \/ link[r] \in {"up", "stopped", "silent"} /\ inbox[r] = InboxSize /\ inbox[r] > 0
    BY <2>2
  <2>4. QED
    BY <1>1, <2>1, <2>3 DEF Stalled, SomethingMoves
<1>2. CASE todo = << >> /\ ~(Idle /\ strand = << >>)
  BY <1>2 DEF SomethingMoves
<1>3. CASE Idle /\ strand = << >>
  <2>1. ASSUME NEW c \in Clients,
               \/ typed[c] /\ link[c] = "up"
               \/ link[c] \in {"lost", "closed"}
               \/ pending[c] = "query"
        PROVE  \/ link[c] = "up" /\ typed[c] /\ outbox[c] < OutboxSize
               \/ pending[c] = "read" /\ (outbox[c] > 0 \/ link[c] = "lost")
               \/ pending[c] = "query"
    <3>1. Waits(c) = {} /\ handler \notin Of(c)
      BY <1>3, NoneIsNoTask DEF Waits, Idle
    <3>2. pending[c] # "nothing" /\ link[c] # "closed"
      BY <2>1, <3>1 DEF OneTask
    <3>3. pending[c] \in {"read", "query"} /\ outbox[c] \in 0..OutboxSize
      BY <3>2 DEF SendsTypeOK
    <3>4. QED
      BY <2>1, <3>2, <3>3
  <2>2. QED
    BY <1>3, <2>1 DEF SomethingWaits, SomethingMoves
<1>4. QED
  BY <1>1, <1>2, <1>3 DEF PeersExist

SendsCore ==
  SendsTypeOK /\ (\A c \in Clients : OneTask(c)) /\ PeersExist

\* The server starts with no session.
LEMMA CoreAtStart == SendsInit => SendsCore
<1> SUFFICES ASSUME SendsInit PROVE SendsCore
  OBVIOUS
<1>1. SendsTypeOK
  BY SendsAssumption DEF SendsInit, SendsTypeOK
<1>2. ASSUME NEW c \in Clients PROVE OneTask(c)
  <2>1. Waits(c) = {} /\ handler \notin Of(c) /\ pending[c] = "nothing" /\ link[c] = "none"
    BY NoneIsNoTask DEF SendsInit, Waits
  <2>2. QED
    BY <2>1 DEF OneTask
<1>3. PeersExist
  BY DEF SendsInit, PeersExist
<1>4. QED
  BY <1>1, <1>2, <1>3 DEF SendsCore

\* A handler sends to clients, in some order.
LEMMA RecipientsType ==
  ASSUME NEW task \in Tasks, NEW players \in Recipients(task)
  PROVE  players \in Seq(Clients)
<1>1. CASE task[1] = "error"
  BY <1>1 DEF Recipients
<1>2. CASE task[1] = "lobby_chars"
  <2>1. task[2] \in Clients
    BY <1>2 DEF Tasks, Timer
  <2>2. players = <<task[2]>>
    BY <1>2 DEF Recipients
  <2>3. QED
    BY <2>1, <2>2
<1>3. CASE task[1] \notin {"error", "lobby_chars"}
  <2>1. PICK those \in SUBSET Online : players \in SetToSeqs(those)
    BY <1>3 DEF Recipients
  <2>2. IsFiniteSet(those) /\ Cardinality(those) \in Nat
    BY <2>1, SendsAssumption, FS_Subset, FS_CardinalityType DEF Online
  <2>3. players \in [1..Cardinality(those) -> those]
    BY <2>1 DEF SetToSeqs
  <2>4. players \in Seq(those)
    BY <2>2, <2>3
  <2>5. QED
    BY <2>1, <2>4 DEF Online
<1>4. QED
  BY <1>1, <1>2, <1>3

\* Whomever the next handler sends to has a session with a socket.
LEMMA RecipientsAreOnline ==
  ASSUME SendsCore, strand # << >>, NEW players \in Recipients(Head(strand))
  PROVE  \A i \in DOMAIN players : players[i] \in Online
<1> DEFINE task == Head(strand)
<1>1. task \in Tasks /\ 1 \in DOMAIN strand /\ task = strand[1]
  BY DEF SendsCore, SendsTypeOK
<1>2. CASE task[1] = "error"
  <2>1. players = << >>
    BY <1>2 DEF Recipients
  <2>2. QED
    BY <2>1
<1>3. CASE task[1] = "lobby_chars"
  <2>1. PICK c \in Clients : task = <<"lobby_chars", c>>
    BY <1>1, <1>3 DEF Tasks, Timer
  <2>2. 1 \in Waits(c)
    BY <1>1, <2>1 DEF Waits, Of, SessionTasks
  <2>3. link[c] \notin {"none", "closed"}
    BY <1>1, <2>1, <2>2 DEF SendsCore, OneTask, FitsLink
  <2>4. players = <<c>>
    BY <1>3, <2>1 DEF Recipients
  <2>5. QED
    BY <2>3, <2>4 DEF Online
<1>4. CASE task[1] \notin {"error", "lobby_chars"}
  <2>1. PICK those \in SUBSET Online : players \in SetToSeqs(those)
    BY <1>4 DEF Recipients
  <2>2. players \in [1..Cardinality(those) -> those]
    BY <2>1 DEF SetToSeqs
  <2>3. QED
    BY <2>1, <2>2
<1>5. QED
  BY <1>2, <1>3, <1>4

\* Every step keeps the types.
LEMMA SendsTypeStep ==
  SendsTypeOK /\ [SendsNext]_sends_vars => SendsTypeOK'
<1> SUFFICES ASSUME SendsTypeOK, [SendsNext]_sends_vars PROVE SendsTypeOK'
  OBVIOUS
<1> USE SendsAssumption DEF SendsTypeOK, client_vars, server_vars
<1>1. ASSUME NEW c \in Clients, Connect(c) PROVE SendsTypeOK'
  BY <1>1 DEF Connect
<1>2. ASSUME NEW c \in Clients, Type(c) \/ Write(c) \/ Read(c) PROVE SendsTypeOK'
  <2>1. CASE Type(c)
    BY <2>1 DEF Type
  <2>2. CASE Write(c)
    <3>1. outbox'[c] \in 0..OutboxSize
      BY <2>2 DEF Write
    <3>2. QED
      BY <2>2, <3>1 DEF Write
  <2>3. CASE Read(c)
    <3>1. inbox'[c] \in 0..InboxSize
      BY <2>3 DEF Read
    <3>2. QED
      BY <2>3, <3>1 DEF Read
  <2>4. QED
    BY <1>2, <2>1, <2>2, <2>3
<1>3. ASSUME NEW c \in Clients, Stop(c) \/ Resume(c) \/ Vanish(c) \/ Lose(c) PROVE SendsTypeOK'
  <2>1. CASE Stop(c)
    BY <2>1 DEF Stop
  <2>2. CASE Resume(c)
    BY <2>2 DEF Resume
  <2>3. CASE Vanish(c)
    BY <2>3 DEF Vanish
  <2>4. CASE Lose(c)
    BY <2>4 DEF Lose
  <2>5. QED
    BY <1>3, <2>1, <2>2, <2>3, <2>4
<1>4. ASSUME NEW c \in Clients, NEW kind \in SessionTasks, Post(<<kind, c>>)
      PROVE  strand' \in Seq(Tasks)
  BY <1>4 DEF Post, Tasks
<1>5. ASSUME NEW c \in Clients, ReadPacket(c) \/ ReadError(c) \/ AnswerQuery(c)
      PROVE  SendsTypeOK'
  <2>1. strand' \in Seq(Tasks)
    BY <1>4, <1>5 DEF ReadPacket, ReadError, AnswerQuery, Wake, SessionTasks
  <2>2. CASE ReadPacket(c)
    <3>1. outbox[c] - 1 \in 0..OutboxSize
      BY <2>2 DEF ReadPacket
    <3>2. outbox' \in [Clients -> 0..OutboxSize]
      BY <2>2, <3>1 DEF ReadPacket
    <3>3. QED
      BY <2>1, <2>2, <3>2 DEF ReadPacket, Wake
  <2>3. CASE ReadError(c) \/ AnswerQuery(c)
    BY <2>1, <2>3 DEF ReadError, AnswerQuery, Wake
  <2>4. QED
    BY <1>5, <2>2, <2>3
<1>6. CASE TimerExpires
  BY <1>6 DEF TimerExpires, Post, Tasks
<1>7. CASE Begin
  <2>1. Head(strand) \in Tasks /\ strand' \in Seq(Tasks)
    BY <1>7 DEF Begin
  <2>2. todo' \in Seq(Clients)
    BY <1>7, <2>1, RecipientsType DEF Begin
  <2>3. QED
    BY <1>7, <2>1, <2>2 DEF Begin
<1>8. CASE Send
  <2>1. PICK r \in Clients : r = Head(todo)
    BY <1>8 DEF Send
  <2>2. inbox' \in [Clients -> 0..InboxSize]
    <3>1. CASE link[r] = "lost"
      BY <1>8, <2>1, <3>1 DEF Send
    <3>2. CASE link[r] # "lost"
      <4>1. inbox[r] < InboxSize /\ inbox' = [inbox EXCEPT ![r] = @ + 1]
        BY <1>8, <2>1, <3>2 DEF Send
      <4>2. inbox[r] + 1 \in 0..InboxSize
        BY <4>1
      <4>3. QED
        BY <4>1, <4>2
    <3>3. QED
      BY <3>1, <3>2
  <2>3. QED
    BY <1>8, <2>2 DEF Send
<1>9. ASSUME NEW c \in Clients, EndReading(c) \/ EndQuerying(c) \/ EndFinalized(c)
      PROVE  SendsTypeOK'
  BY <1>9 DEF EndReading, EndQuerying, EndFinalized, Ends
<1>10. ASSUME NEW c \in Clients, EndInTransition(c) \/ EndClosing(c) PROVE SendsTypeOK'
  <2>1. strand' \in Seq(Tasks)
    BY <1>4, <1>10 DEF EndInTransition, EndClosing, SessionTasks
  <2>2. CASE EndInTransition(c)
    BY <2>1, <2>2 DEF EndInTransition, Ends
  <2>3. CASE EndClosing(c)
    <3>1. outbox' \in [Clients -> 0..OutboxSize] /\ inbox' \in [Clients -> 0..InboxSize]
      BY <2>3 DEF EndClosing
    <3>2. QED
      BY <2>1, <2>3, <3>1 DEF EndClosing, Ends
  <2>4. QED
    BY <1>10, <2>2, <2>3
<1>11. CASE EndOfBroadcast
  BY <1>11 DEF EndOfBroadcast
<1>12. CASE UNCHANGED sends_vars
  BY <1>12 DEF sends_vars
<1>13. QED
  BY <1>1, <1>2, <1>3, <1>5, <1>6, <1>7, <1>8, <1>9, <1>10, <1>11, <1>12 DEF SendsNext, End

\* A step that leaves the tasks of a session alone, and its link but for a loss.
LEMMA TaskKept ==
  ASSUME NEW c \in Clients, OneTask(c), pending'[c] = pending[c],
         handler' = handler \/ (handler \notin Of(c) /\ handler' \notin Of(c)),
         Waits(c)' = Waits(c), \A i \in Waits(c) : strand'[i] = strand[i],
         link'[c] = "none" <=> link[c] = "none", link'[c] = "closed" <=> link[c] = "closed",
         link[c] = "lost" => link'[c] = "lost"
  PROVE  OneTask(c)'
<1>1. /\ \A i, j \in Waits(c)' : i = j
      /\ Waits(c)' # {} => pending'[c] = "nothing" /\ handler' \notin Of(c)
      /\ pending'[c] # "nothing" => link'[c] # "closed"
      /\ link'[c] # "none" <=> pending'[c] # "nothing" \/ Waits(c)' # {} \/ handler' \in Of(c)
  BY DEF OneTask
<1>2. \A i \in Waits(c)' : /\ strand'[i][1] = "finalize" <=> link'[c] = "closed"
                           /\ strand'[i][1] = "error" => link'[c] = "lost"
  BY DEF OneTask, FitsLink
<1>3. handler' \in Of(c) => /\ pending'[c] = "nothing"
                            /\ handler'[1] = "finalize" <=> link'[c] = "closed"
                            /\ handler'[1] = "error" => link'[c] = "lost"
  BY DEF OneTask, FitsLink
<1>4. QED
  BY <1>1, <1>2, <1>3 DEF OneTask, FitsLink, Of

\* A session whose only task is posted.
LEMMA TaskPosted ==
  ASSUME SendsTypeOK, NEW c \in Clients, NEW task \in Of(c), Post(task), Waits(c) = {},
         handler' \notin Of(c), pending'[c] = "nothing", link'[c] # "none",
         task[1] = "finalize" <=> link'[c] = "closed", task[1] = "error" => link'[c] = "lost"
  PROVE  OneTask(c)'
<1> DEFINE last == Len(strand) + 1
<1>1. task \in Tasks
  BY TasksApart
<1>2. Waits(c)' = {last} /\ strand'[last] = task
  BY <1>1, Posted
<1>3. /\ \A i, j \in Waits(c)' : i = j
      /\ pending'[c] = "nothing" /\ handler' \notin Of(c)
      /\ link'[c] # "none" /\ Waits(c)' # {}
  BY <1>2
<1>4. \A i \in Waits(c)' : /\ strand'[i][1] = "finalize" <=> link'[c] = "closed"
                           /\ strand'[i][1] = "error" => link'[c] = "lost"
  BY <1>2
<1>5. QED
  BY <1>3, <1>4 DEF OneTask, FitsLink, Of

\* The first task becomes the handler.
LEMMA TaskBegun ==
  ASSUME SendsTypeOK, NEW c \in Clients, OneTask(c), Begin
  PROVE  OneTask(c)'
<1>1. /\ strand # << >> /\ strand' = Tail(strand) /\ handler' = Head(strand)
      /\ link'[c] = link[c] /\ pending'[c] = pending[c] /\ handler = None
  BY DEF Begin, Idle, client_vars
<1>2. handler \notin Of(c)
  BY <1>1, NoneIsNoTask
<1>3. /\ \A i \in Waits(c)' : i + 1 \in Waits(c) /\ strand'[i] = strand[i + 1] /\ i \in Nat
      /\ Head(strand) \notin Of(c) => (Waits(c)' = {} <=> Waits(c) = {})
      /\ Head(strand) \in Of(c) => 1 \in Waits(c) /\ strand[1] = Head(strand)
      /\ strand' \in Seq(Tasks)
  BY <1>1, Begun
<1>4. \A i, j \in Waits(c)' : i = j
  BY <1>3 DEF OneTask
<1>5. \A i \in Waits(c)' : /\ strand'[i][1] = "finalize" <=> link'[c] = "closed"
                           /\ strand'[i][1] = "error" => link'[c] = "lost"
  BY <1>1, <1>3 DEF OneTask, FitsLink
<1>6. CASE Head(strand) \in Of(c)
  <2>1. Waits(c)' = {}
    <3>1. Waits(c)' \subseteq Nat \ {0}
      BY <1>3 DEF Waits
    <3>2. \A i \in Waits(c)' : i + 1 = 1
      BY <1>3, <1>6 DEF OneTask
    <3>3. QED
      BY <3>1, <3>2
  <2>2. Waits(c) # {} /\ pending[c] = "nothing" /\ link[c] # "none"
    BY <1>3, <1>6 DEF OneTask
  <2>3. /\ handler'[1] = "finalize" <=> link'[c] = "closed"
        /\ handler'[1] = "error" => link'[c] = "lost"
    BY <1>1, <1>3, <1>6 DEF OneTask, FitsLink
  <2>4. QED
    BY <1>1, <1>6, <2>1, <2>2, <2>3 DEF OneTask, FitsLink, Of
<1>7. CASE Head(strand) \notin Of(c)
  <2>1. /\ Waits(c)' # {} => pending'[c] = "nothing" /\ handler' \notin Of(c)
        /\ handler' \notin Of(c)
        /\ pending'[c] # "nothing" => link'[c] # "closed"
        /\ link'[c] # "none" <=> pending'[c] # "nothing" \/ Waits(c)' # {} \/ handler' \in Of(c)
    BY <1>1, <1>2, <1>3, <1>7 DEF OneTask
  <2>2. QED
    BY <1>4, <1>5, <2>1 DEF OneTask, FitsLink, Of
<1>8. QED
  BY <1>6, <1>7

\* The handler of a session ends without a task: the session waits again, or is over.
LEMMA TaskEnded ==
  ASSUME SendsTypeOK, NEW c \in Clients, OneTask(c), handler \in Of(c),
         handler' = None, strand' = strand,
         \/ pending'[c] # "nothing" /\ link'[c] \notin {"none", "closed"}
         \/ pending'[c] = "nothing" /\ link'[c] = "none"
  PROVE  OneTask(c)'
<1>1. Waits(c)' = {}
  BY DEF OneTask, Waits, Of
<1>2. handler' \notin Of(c)
  BY NoneIsNoTask
<1>3. QED
  BY <1>1, <1>2 DEF OneTask, Of

\* What leaves strand and handler alone leaves each session its task.
LEMMA OneTaskOutside ==
  ASSUME SendsCore, NEW c \in Clients, NEW d \in Clients,
         Connect(d) \/ Type(d) \/ Write(d) \/ Read(d) \/ Stop(d) \/ Resume(d) \/ Vanish(d) \/ Lose(d)
  PROVE  OneTask(c)'
<1> USE DEF client_vars, server_vars
<1>0. OneTask(c) /\ SendsTypeOK
  BY DEF SendsCore
<1>1. handler' = handler /\ strand' = strand
  BY DEF Connect, Type, Write, Read, Stop, Resume, Vanish, Lose
<1>2. Waits(c)' = Waits(c) /\ \A i \in Waits(c) : strand'[i] = strand[i]
  BY <1>1 DEF Waits, Of
<1>3. CASE Connect(d)
  <2>1. CASE c = d
    <3>1. link[c] = "none" /\ link'[c] = "up" /\ pending'[c] = "read"
      BY <1>0, <1>3, <2>1 DEF Connect, SendsTypeOK
    <3>2. Waits(c)' = {} /\ handler' \notin Of(c)
      BY <1>0, <1>1, <1>2, <3>1 DEF OneTask
    <3>3. QED
      BY <3>1, <3>2 DEF OneTask, Of
  <2>2. CASE c # d
    <3>1. link'[c] = link[c] /\ pending'[c] = pending[c]
      BY <1>0, <1>3, <2>2 DEF Connect, SendsTypeOK
    <3>2. QED
      BY <1>0, <1>1, <1>2, <3>1, TaskKept
  <2>3. QED
    BY <2>1, <2>2
<1>4. CASE Type(d) \/ Write(d) \/ Read(d)
  <2>1. link'[c] = link[c] /\ pending'[c] = pending[c]
    BY <1>4 DEF Type, Write, Read
  <2>2. QED
    BY <1>0, <1>1, <1>2, <2>1, TaskKept
<1>5. CASE Stop(d) \/ Resume(d) \/ Vanish(d) \/ Lose(d)
  <2>1. /\ pending'[c] = pending[c]
        /\ link'[c] = link[c] \/ (link[c] \in {"up", "stopped", "silent"}
                                  /\ link'[c] \in {"up", "stopped", "silent", "lost"})
    BY <1>0, <1>5 DEF Stop, Resume, Vanish, Lose, SendsTypeOK
  <2>2. /\ link'[c] = "none" <=> link[c] = "none"
        /\ link'[c] = "closed" <=> link[c] = "closed"
        /\ link[c] = "lost" => link'[c] = "lost"
    BY <2>1
  <2>3. QED
    BY <1>0, <1>1, <1>2, <2>1, <2>2, TaskKept
<1>6. QED
  BY <1>3, <1>4, <1>5

\* A read, a query or the timer that completes posts the one task of its session.
LEMMA OneTaskWoken ==
  ASSUME SendsCore, NEW c \in Clients,
         TimerExpires \/ \E d \in Clients : ReadPacket(d) \/ ReadError(d) \/ AnswerQuery(d)
  PROVE  OneTask(c)'
<1> USE DEF client_vars
<1>0. OneTask(c) /\ SendsTypeOK
  BY DEF SendsCore
<1>1. ASSUME NEW task \in Tasks, task \notin Of(c), Post(task), handler' = handler,
             link' = link, pending'[c] = pending[c]
      PROVE  OneTask(c)'
  <2>1. Waits(c)' = Waits(c) /\ \A i \in Waits(c) : strand'[i] = strand[i]
    BY <1>0, <1>1, Posted
  <2>2. QED
    BY <1>0, <1>1, <2>1, TaskKept
<1>2. CASE TimerExpires
  <2>1. Timer \in Tasks /\ Timer \notin Of(c)
    BY TasksApart DEF Tasks
  <2>2. QED
    BY <1>1, <1>2, <2>1 DEF TimerExpires
<1>3. ASSUME NEW d \in Clients, ReadPacket(d) \/ ReadError(d) \/ AnswerQuery(d)
      PROVE  OneTask(c)'
  <2>1. PICK kind \in {"packet", "error", "lobby_chars"} :
          /\ Wake(d, kind) /\ pending[d] # "nothing" /\ link' = link
          /\ kind = "error" => link[d] = "lost"
    BY <1>3 DEF ReadPacket, ReadError, AnswerQuery
  <2>2. /\ <<kind, d>> \in Of(d) /\ Post(<<kind, d>>) /\ handler' = handler
        /\ pending' = [pending EXCEPT ![d] = "nothing"]
    BY <2>1 DEF Wake, Of, SessionTasks
  <2>3. CASE c = d
    <3>1. /\ Waits(c) = {} /\ handler' \notin Of(c) /\ link'[c] # "none"
          /\ link'[c] # "closed" /\ pending'[c] = "nothing"
      BY <1>0, <2>1, <2>2, <2>3 DEF OneTask, SendsTypeOK
    <3>2. QED
      BY <1>0, <2>1, <2>2, <2>3, <3>1, TaskPosted
  <2>4. CASE c # d
    <3>1. <<kind, d>> \in Tasks /\ <<kind, d>> \notin Of(c) /\ pending'[c] = pending[c]
      BY <1>0, <2>2, <2>4, TasksApart DEF SendsTypeOK
    <3>2. QED
      BY <1>1, <2>1, <2>2, <3>1
  <2>5. QED
    BY <2>3, <2>4
<1>4. QED
  BY <1>2, <1>3

\* However a handler ends, its session reads, asks, has a task posted or is over.
LEMMA OneTaskAtEnd ==
  ASSUME SendsCore, NEW c \in Clients, End
  PROVE  OneTask(c)'
<1> USE DEF client_vars
<1>0. OneTask(c) /\ SendsTypeOK
  BY DEF SendsCore
<1>1. ASSUME handler \notin Of(c), handler' = None, strand' = strand,
             link'[c] = link[c], pending'[c] = pending[c]
      PROVE  OneTask(c)'
  <2>1. Waits(c)' = Waits(c) /\ \A i \in Waits(c) : strand'[i] = strand[i]
    BY <1>1 DEF Waits, Of
  <2>2. handler' \notin Of(c)
    BY <1>1, NoneIsNoTask
  <2>3. QED
    BY <1>0, <1>1, <2>1, <2>2, TaskKept
<1>2. ASSUME NEW task \in Tasks, task \notin Of(c), Post(task), handler \notin Of(c),
             handler' = None, link'[c] = link[c], pending'[c] = pending[c]
      PROVE  OneTask(c)'
  <2>1. Waits(c)' = Waits(c) /\ \A i \in Waits(c) : strand'[i] = strand[i]
    BY <1>0, <1>2, Posted
  <2>2. handler' \notin Of(c)
    BY <1>2, NoneIsNoTask
  <2>3. QED
    BY <1>0, <1>2, <2>1, <2>2, TaskKept
<1>3. CASE EndOfBroadcast
  BY <1>1, <1>3, TasksApart DEF EndOfBroadcast
<1>4. ASSUME NEW d \in Clients, NEW kinds \in SUBSET SessionTasks, Ends(d, kinds)
      PROVE  /\ handler \in Of(d) /\ handler[1] \in kinds /\ handler' = None
             /\ c # d => handler \notin Of(c)
  BY <1>4, TasksApart DEF Ends, Of
<1>5. ASSUME NEW d \in Clients, EndReading(d) \/ EndQuerying(d) PROVE OneTask(c)'
  <2>1. /\ handler \in Of(d) /\ handler[1] # "finalize" /\ handler' = None
        /\ c # d => handler \notin Of(c)
    BY <1>4, <1>5 DEF EndReading, EndQuerying, SessionTasks
  <2>2. /\ strand' = strand /\ link' = link
        /\ \E p \in {"read", "query"} : pending' = [pending EXCEPT ![d] = p]
    BY <1>5 DEF EndReading, EndQuerying
  <2>3. CASE c = d
    <3>1. link[c] \notin {"none", "closed"} /\ pending'[c] # "nothing"
      BY <1>0, <2>1, <2>2, <2>3 DEF OneTask, FitsLink, SendsTypeOK
    <3>2. QED
      BY <1>0, <2>1, <2>2, <2>3, <3>1, TaskEnded
  <2>4. CASE c # d
    BY <1>0, <1>1, <2>1, <2>2, <2>4 DEF SendsTypeOK
  <2>5. QED
    BY <2>3, <2>4
<1>6. ASSUME NEW d \in Clients, EndInTransition(d) \/ EndClosing(d) PROVE OneTask(c)'
  <2>1. /\ handler \in Of(d) /\ handler[1] \in {"packet", "error"} /\ handler' = None
        /\ EndInTransition(d) => handler[1] = "packet"
        /\ c # d => handler \notin Of(c)
    BY <1>4, <1>6 DEF EndInTransition, EndClosing, SessionTasks
  <2>2. PICK kind \in {"transition", "finalize"} :
          /\ Post(<<kind, d>>) /\ pending' = pending
          /\ kind = "transition" => EndInTransition(d) /\ link' = link
          /\ kind = "finalize" => link' = [link EXCEPT ![d] = "closed"]
    BY <1>6 DEF EndInTransition, EndClosing
  <2>3. <<kind, d>> \in Of(d)
    BY DEF Of, SessionTasks
  <2>4. CASE c = d
    <3>1. /\ Waits(c) = {} /\ pending[c] = "nothing" /\ link[c] # "none"
          /\ kind = "transition" => link[c] # "closed"
      BY <1>0, <2>1, <2>2, <2>4 DEF OneTask, FitsLink
    <3>2. link'[c] # "none" /\ (kind = "finalize" <=> link'[c] = "closed")
      BY <1>0, <2>2, <2>4, <3>1 DEF SendsTypeOK
    <3>3. handler' \notin Of(c)
      BY <2>1, NoneIsNoTask
    <3>4. QED
      BY <1>0, <2>2, <2>3, <2>4, <3>1, <3>2, <3>3, TaskPosted
  <2>5. CASE c # d
    <3>1. <<kind, d>> \in Tasks /\ <<kind, d>> \notin Of(c)
      BY <2>3, <2>5, TasksApart
    <3>2. link'[c] = link[c] /\ pending'[c] = pending[c]
      BY <1>0, <2>2, <2>5 DEF SendsTypeOK
    <3>3. QED
      BY <1>2, <2>1, <2>2, <2>5, <3>1, <3>2
  <2>6. QED
    BY <2>4, <2>5
<1>7. ASSUME NEW d \in Clients, EndFinalized(d) PROVE OneTask(c)'
  <2>1. /\ handler \in Of(d) /\ handler' = None
        /\ c # d => handler \notin Of(c)
    BY <1>4, <1>7 DEF EndFinalized, SessionTasks
  <2>2. strand' = strand /\ link' = [link EXCEPT ![d] = "none"] /\ pending' = pending
    BY <1>7 DEF EndFinalized
  <2>3. CASE c = d
    <3>1. link'[c] = "none" /\ pending'[c] = "nothing"
      BY <1>0, <2>1, <2>2, <2>3 DEF OneTask, SendsTypeOK
    <3>2. QED
      BY <1>0, <2>1, <2>2, <2>3, <3>1, TaskEnded
  <2>4. CASE c # d
    BY <1>0, <1>1, <2>1, <2>2, <2>4 DEF SendsTypeOK
  <2>5. QED
    BY <2>3, <2>4
<1>8. QED
  BY <1>3, <1>5, <1>6, <1>7 DEF End

\* No step leaves a session without a task, or gives it a second one.
LEMMA OneTaskStep ==
  ASSUME SendsCore, [SendsNext]_sends_vars, NEW c \in Clients
  PROVE  OneTask(c)'
<1>0. OneTask(c) /\ SendsTypeOK
  BY DEF SendsCore
<1>1. CASE Begin
  BY <1>0, <1>1, TaskBegun
<1>2. CASE Send \/ UNCHANGED sends_vars
  <2>1. /\ link' = link /\ pending' = pending /\ handler' = handler /\ strand' = strand
    BY <1>2 DEF Send, sends_vars, client_vars, server_vars
  <2>2. Waits(c)' = Waits(c) /\ \A i \in Waits(c) : strand'[i] = strand[i]
    BY <2>1 DEF Waits, Of
  <2>3. QED
    BY <1>0, <2>1, <2>2, TaskKept
<1>3. QED
  BY <1>1, <1>2, OneTaskOutside, OneTaskWoken, OneTaskAtEnd DEF SendsNext

\* Recipients keep their sockets, and who writes his connection.
LEMMA PeersStep ==
  ASSUME SendsCore, [SendsNext]_sends_vars
  PROVE  PeersExist'
<1> USE DEF client_vars, server_vars
<1>0. SendsTypeOK /\ PeersExist
  BY DEF SendsCore
<1>1. ASSUME handler' = handler, todo' = todo,
             \A c \in Clients : c \in Online => link'[c] \notin {"none", "closed"},
             \A c \in Clients : typed'[c] => link'[c] \in {"up", "stopped"}
      PROVE  PeersExist'
  <2>1. \A i \in DOMAIN todo' : todo'[i] \in Clients /\ todo'[i] \in Online
    BY <1>0, <1>1 DEF PeersExist, Online
  <2>2. \A i \in DOMAIN todo' : todo'[i] \in Online'
    BY <1>1, <2>1 DEF Online
  <2>3. handler' = None => todo' = << >>
    BY <1>0, <1>1 DEF PeersExist, Idle
  <2>4. QED
    BY <1>1, <2>2, <2>3 DEF PeersExist, Idle
<1>2. ASSUME todo' = << >>, \A c \in Clients : typed'[c] => link'[c] \in {"up", "stopped"}
      PROVE  PeersExist'
  BY <1>2 DEF PeersExist
<1>3. ASSUME NEW d \in Clients,
             Connect(d) \/ Stop(d) \/ Resume(d) \/ Vanish(d) \/ Lose(d)
      PROVE  PeersExist'
  <2>1. handler' = handler /\ todo' = todo
    BY <1>3 DEF Connect, Stop, Resume, Vanish, Lose
  <2>2. \A c \in Clients : c \in Online => link'[c] \notin {"none", "closed"}
    BY <1>0, <1>3 DEF Connect, Stop, Resume, Vanish, Lose, SendsTypeOK, Online
  <2>3. CASE Connect(d) \/ Stop(d) \/ Resume(d)
    <3>1. typed' = typed /\ \E l \in {"up", "stopped"} : link' = [link EXCEPT ![d] = l]
      BY <2>3 DEF Connect, Stop, Resume
    <3>2. \A c \in Clients : typed'[c] => link'[c] \in {"up", "stopped"}
      BY <1>0, <3>1 DEF PeersExist, SendsTypeOK
    <3>3. QED
      BY <1>1, <2>1, <2>2, <3>2
  <2>4. CASE Vanish(d) \/ Lose(d)
    <3>1. /\ typed' = [typed EXCEPT ![d] = FALSE]
          /\ \E l \in {"silent", "lost"} : link' = [link EXCEPT ![d] = l]
      BY <2>4 DEF Vanish, Lose
    <3>2. \A c \in Clients : typed'[c] => link'[c] \in {"up", "stopped"}
      BY <1>0, <3>1 DEF PeersExist, SendsTypeOK
    <3>3. QED
      BY <1>1, <2>1, <2>2, <3>2
  <2>5. QED
    BY <1>3, <2>3, <2>4
<1>4. ASSUME NEW d \in Clients,
             Type(d) \/ Write(d) \/ Read(d) \/ ReadPacket(d) \/ ReadError(d) \/ AnswerQuery(d)
      PROVE  PeersExist'
  <2>1. handler' = handler /\ todo' = todo /\ link' = link
    BY <1>4 DEF Type, Write, Read, ReadPacket, ReadError, AnswerQuery, Wake
  <2>2. \A c \in Clients : typed'[c] => link'[c] \in {"up", "stopped"}
    <3>1. CASE Type(d)
      BY <1>0, <3>1 DEF Type, SendsTypeOK, PeersExist
    <3>2. CASE Write(d)
      BY <1>0, <3>2 DEF Write, SendsTypeOK, PeersExist
    <3>3. CASE Read(d) \/ ReadPacket(d) \/ ReadError(d) \/ AnswerQuery(d)
      BY <1>0, <2>1, <3>3 DEF Read, ReadPacket, ReadError, AnswerQuery, PeersExist
    <3>4. QED
      BY <1>4, <3>1, <3>2, <3>3
  <2>3. QED
    BY <1>1, <2>1, <2>2 DEF Online
<1>5. CASE TimerExpires \/ UNCHANGED sends_vars
  <2>1. handler' = handler /\ todo' = todo /\ link' = link /\ typed' = typed
    BY <1>5 DEF TimerExpires, sends_vars
  <2>2. QED
    BY <1>0, <1>1, <2>1 DEF PeersExist, Online
<1>6. CASE Begin
  <2>1. /\ strand # << >> /\ todo' \in Recipients(Head(strand)) /\ handler' = Head(strand)
        /\ link' = link /\ typed' = typed
    BY <1>6 DEF Begin
  <2>2. handler' \in Tasks
    BY <1>0, <2>1 DEF SendsTypeOK
  <2>3. \A i \in DOMAIN todo' : todo'[i] \in Online
    BY <2>1, RecipientsAreOnline
  <2>4. QED
    BY <1>0, <2>1, <2>2, <2>3, NoneIsNoTask DEF PeersExist, Idle, Online
<1>7. CASE Send
  <2>1. /\ todo # << >> /\ todo' = Tail(todo) /\ handler' = handler /\ link' = link
        /\ typed' = typed
    BY <1>7 DEF Send
  <2>2. \A i \in DOMAIN todo' : i + 1 \in DOMAIN todo /\ todo'[i] = todo[i + 1]
    BY <1>0, <2>1 DEF SendsTypeOK
  <2>3. QED
    BY <1>0, <2>1, <2>2 DEF PeersExist, Idle, Online
<1>8. CASE EndOfBroadcast
  BY <1>0, <1>2, <1>8 DEF EndOfBroadcast, PeersExist
<1>9. ASSUME NEW d \in Clients, EndReading(d) \/ EndInTransition(d) \/ EndQuerying(d)
      PROVE  PeersExist'
  BY <1>0, <1>2, <1>9 DEF EndReading, EndInTransition, EndQuerying, Ends, PeersExist
<1>10. ASSUME NEW d \in Clients, EndClosing(d) PROVE PeersExist'
  <2>1. \A c \in Clients : typed'[c] => link'[c] \in {"up", "stopped"}
    BY <1>0, <1>10 DEF EndClosing, SendsTypeOK, PeersExist
  <2>2. QED
    BY <1>2, <1>10, <2>1 DEF EndClosing, Ends
<1>11. ASSUME NEW d \in Clients, EndFinalized(d) PROVE PeersExist'
  <2>1. handler \in Of(d) /\ handler[1] = "finalize"
    BY <1>11 DEF EndFinalized, Ends, Of, SessionTasks
  <2>2. link[d] = "closed"
    BY <2>1 DEF SendsCore, OneTask, FitsLink
  <2>3. ~typed[d]
    BY <1>0, <2>2 DEF PeersExist
  <2>4. \A c \in Clients : typed'[c] => link'[c] \in {"up", "stopped"}
    BY <1>0, <1>11, <2>3 DEF EndFinalized, SendsTypeOK, PeersExist
  <2>5. QED
    BY <1>2, <1>11, <2>4 DEF EndFinalized, Ends
<1>12. QED
  BY <1>3, <1>4, <1>5, <1>6, <1>7, <1>8, <1>9, <1>10, <1>11 DEF SendsNext, End

\* Through packets that are answered, close the session or change its state, and
\* whatever clients vanish, stop or write, each session keeps exactly one task,
\* recipients have sockets, and as long as anything waits someone who owes progress
\* can take a step, unless a stopped client whose buffers are full is next: with any
\* number of clients and any room in the buffers.
THEOREM SendsNeverStick == SendsSpec => []SendsInv
<1>1. SendsInit => SendsCore
  BY CoreAtStart
<1>2. SendsCore /\ [SendsNext]_sends_vars => SendsCore'
  <2> SUFFICES ASSUME SendsCore, [SendsNext]_sends_vars PROVE SendsCore'
    OBVIOUS
  <2>1. SendsTypeOK'
    BY SendsTypeStep DEF SendsCore
  <2>2. \A c \in Clients : OneTask(c)'
    BY OneTaskStep
  <2>3. PeersExist'
    BY PeersStep
  <2>4. QED
    BY <2>1, <2>2, <2>3 DEF SendsCore
<1>3. SendsCore => SendsInv
  BY SomebodyGoesOn DEF SendsCore, SendsInv
<1>4. QED
  BY <1>1, <1>2, <1>3, PTL DEF SendsSpec
===============================================================================
