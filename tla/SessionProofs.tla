---------------------------- MODULE SessionProofs ----------------------------
(***************************************************************************)
(* Proofs about Session, for every set of sessions, accounts and           *)
(* characters, and whatever the users and the database do: its types, the  *)
(* one continuation of every session, the registry, the callback of the    *)
(* database, and that Session implements SessionLifecycle.                 *)
(***************************************************************************)
EXTENDS Session, SequenceTheorems, TLAPS

Tasks == [kind : TaskKind, session : Sessions]

\* A task posted to the strand is a task, and the strand stays a sequence.
LEMMA PostType ==
  ASSUME strand \in Seq(Tasks), NEW kind \in TaskKind, NEW s \in Sessions,
         Post(Task(kind, s))
  PROVE  strand' \in Seq(Tasks)
<1>1. Task(kind, s) \in Tasks
  BY DEF Task, Tasks
<1>2. QED
  BY <1>1, AppendProperties DEF Post

\* Taking the next task off the strand leaves a sequence of tasks.
LEMMA NextTaskType ==
  ASSUME strand \in Seq(Tasks), NEW task, IsNext(task), strand' = Tail(strand)
  PROVE  strand' \in Seq(Tasks)
  BY HeadTailProperties DEF IsNext

\* force_close keeps the types of what it touches.
LEMMA ForceCloseType ==
  ASSUME TypeOK, NEW s \in Sessions, ForceClose(s)
  PROVE  /\ my_sock' \in [Sessions -> {"open", "null", "none"}]
         /\ strand' \in Seq(Tasks)
<1>1. strand \in Seq(Tasks)
  BY DEF TypeOK, Tasks
<1>2. strand' \in Seq(Tasks)
  BY <1>1, PostType DEF ForceClose, TaskKind
<1>3. QED
  BY <1>2 DEF ForceClose, TypeOK

\* schedule_transition keeps the types of what it touches.
LEMMA ScheduleTransitionType ==
  ASSUME TypeOK, NEW s \in Sessions, NEW state \in ClientState, ScheduleTransition(s, state)
  PROVE  /\ awaiting' \in [Sessions -> ClientState \union {"none"}]
         /\ async_state' \in [Sessions -> AsyncStatus]
         /\ strand' \in Seq(Tasks)
<1>1. strand \in Seq(Tasks)
  BY DEF TypeOK, Tasks
<1>2. strand' \in Seq(Tasks)
  BY <1>1, PostType DEF ScheduleTransition, TaskKind
<1>3. QED
  BY <1>2 DEF ScheduleTransition, TypeOK, AsyncStatus

\* A handler consumes one packet that was sent.
LEMMA ReceiveType ==
  ASSUME TypeOK, NEW s \in Sessions, NEW state, Receive(s, state)
  PROVE  inflight' \in [Sessions -> 0..MaxInflight] /\ peer' = peer
  BY SessionAssumption DEF TypeOK, Receive

\* Whether a handler reads again or not, reading stays Boolean.
LEMMA ReadAgainType ==
  ASSUME TypeOK, NEW s \in Sessions, ReadAgain(s) \/ NotReading(s)
  PROVE  reading' \in [Sessions -> BOOLEAN]
<1>1. CASE ReadAgain(s)
  <2>1. PICK read \in BOOLEAN :
          reading' = [reading EXCEPT ![s] = read /\ my_sock'[s] = "open"]
    BY <1>1, Zenon DEF ReadAgain
  <2>2. (read /\ my_sock'[s] = "open") \in BOOLEAN
    BY Zenon
  <2>3. QED
    BY <2>1, <2>2, Zenon DEF TypeOK
<1>2. CASE NotReading(s)
  BY <1>2 DEF NotReading, TypeOK
<1>3. QED
  BY <1>1, <1>2

\* Leaving the world keeps the registry's and the session's types.
LEMMA LeaveWorldType ==
  ASSUME TypeOK, NEW s \in Sessions, LeaveWorld(s)
  PROVE  /\ character' \in [Sessions -> Characters \union {None}]
         /\ registry' \in [Characters -> Sessions \union {None}]
<1>1. CASE current_state[s] = "ingame"
  <2>1. character' = [character EXCEPT ![s] = None]
        /\ registry' = [registry EXCEPT ![character[s]] = None]
    BY <1>1 DEF LeaveWorld, Unregister
  <2>2. QED
    BY <2>1 DEF TypeOK
<1>2. CASE current_state[s] # "ingame"
  BY <1>2 DEF LeaveWorld, TypeOK
<1>3. QED
  BY <1>1, <1>2

\* No step of a client breaks a type.
LEMMA ClientTypes == ASSUME TypeOK, NEW s \in Sessions, Client(s) PROVE TypeOK'
<1>1. CASE Accept(s)
  BY <1>1 DEF Accept, TypeOK, ClientState
<1>2. CASE ClientSends(s)
  BY <1>2, SessionAssumption DEF ClientSends, object, TypeOK
<1>3. CASE PeerLost(s) \/ NoticeLoss(s)
  BY <1>3 DEF PeerLost, NoticeLoss, object, TypeOK
<1>4. QED
  BY <1>1, <1>2, <1>3 DEF Client

\* No packet handler of preauth_state breaks a type.
LEMMA PreauthTypes == ASSUME TypeOK, NEW s \in Sessions, Preauth(s) PROVE TypeOK'
<1>1. ASSUME NEW a \in Accounts, LoginAccepted(s, a) PROVE TypeOK'
  <2>1. Receive(s, "preauth") /\ ScheduleTransition(s, "lobby") /\ NotReading(s)
        /\ account' = [account EXCEPT ![s] = a]
        /\ UNCHANGED <<server, my_sock, character, registry, database_strand>>
    BY <1>1 DEF LoginAccepted
  <2>2. current_state' = current_state /\ "lobby" \in ClientState
    BY <2>1 DEF ScheduleTransition, ClientState
  <2>3. account' \in [Sessions -> Accounts \union {None}]
    BY <2>1 DEF TypeOK
  <2>4. QED
    BY <2>1, <2>2, <2>3, ReceiveType, ScheduleTransitionType, ReadAgainType DEF TypeOK, Tasks
<1>2. CASE LoginRejected(s)
  <2>1. Receive(s, "preauth") /\ ForceClose(s) /\ NotReading(s)
        /\ UNCHANGED <<server, registry, database_strand>>
    BY <1>2 DEF LoginRejected
  <2>2. UNCHANGED <<current_state, awaiting, async_state, account, character>>
    BY <2>1 DEF ForceClose
  <2>3. QED
    BY <2>1, <2>2, ReceiveType, ForceCloseType, ReadAgainType DEF TypeOK, Tasks
<1>3. CASE LoginFault(s)
  <2>1. inflight' \in [Sessions -> 0..MaxInflight] /\ peer' = peer
    BY <1>3, ReceiveType DEF LoginFault
  <2>2. QED
    BY <1>3, <2>1 DEF LoginFault, object, TypeOK, ServerStatus
<1>4. QED
  BY <1>1, <1>2, <1>3 DEF Preauth

\* No packet handler of lobby_state breaks a type.
LEMMA LobbyTypes == ASSUME TypeOK, NEW s \in Sessions, Lobby(s) PROVE TypeOK'
<1>1. ASSUME NEW c \in Characters, Select(s, c) PROVE TypeOK'
  <2>1. inflight' \in [Sessions -> 0..MaxInflight] /\ peer' = peer
    BY <1>1, ReceiveType DEF Select
  <2>2. CASE registry[c] = None
    <3>1. ScheduleTransition(s, "ingame") /\ ReadAgain(s)
          /\ registry' = [registry EXCEPT ![c] = s]
          /\ character' = [character EXCEPT ![s] = c]
          /\ UNCHANGED <<server, my_sock, account, database_strand>>
      BY <1>1, <2>2 DEF Select, EnterWorld, Register
    <3>2. current_state' = current_state /\ "ingame" \in ClientState
      BY <3>1 DEF ScheduleTransition, ClientState
    <3>3. /\ registry' \in [Characters -> Sessions \union {None}]
          /\ character' \in [Sessions -> Characters \union {None}]
      BY <3>1 DEF TypeOK
    <3>4. QED
      BY <2>1, <3>1, <3>2, <3>3, ScheduleTransitionType, ReadAgainType DEF TypeOK, Tasks
  <2>3. CASE registry[c] # None
    BY <1>1, <2>1, <2>3 DEF Select, object, TypeOK, ServerStatus
  <2>4. QED
    BY <2>2, <2>3
<1>2. CASE LobbyRequest(s)
  <2>1. Receive(s, "lobby") /\ ReadAgain(s)
        /\ UNCHANGED <<server, my_sock, object, registry, strand, database_strand>>
    BY <1>2 DEF LobbyRequest
  <2>2. QED
    BY <2>1, ReceiveType, ReadAgainType DEF TypeOK, object
<1>3. CASE LobbyClose(s)
  <2>1. Receive(s, "lobby") /\ ForceClose(s) /\ ReadAgain(s)
        /\ UNCHANGED <<server, registry, database_strand>>
    BY <1>3 DEF LobbyClose
  <2>2. UNCHANGED <<current_state, awaiting, async_state, account, character>>
    BY <2>1 DEF ForceClose
  <2>3. QED
    BY <2>1, <2>2, ReceiveType, ForceCloseType, ReadAgainType DEF TypeOK, Tasks
<1>4. QED
  BY <1>1, <1>2, <1>3 DEF Lobby

\* No packet handler of ingame_state breaks a type.
LEMMA InGameTypes == ASSUME TypeOK, NEW s \in Sessions, InGame(s) PROVE TypeOK'
<1>1. CASE LogOffToLobby(s)
  <2>1. Receive(s, "ingame") /\ ScheduleTransition(s, "lobby") /\ ReadAgain(s)
        /\ UNCHANGED <<server, my_sock, account, character, registry, database_strand>>
    BY <1>1 DEF LogOffToLobby
  <2>2. current_state' = current_state /\ "lobby" \in ClientState
    BY <2>1 DEF ScheduleTransition, ClientState
  <2>3. QED
    BY <2>1, <2>2, ReceiveType, ScheduleTransitionType, ReadAgainType DEF TypeOK, Tasks
<1>2. CASE InGameRequest(s)
  <2>1. Receive(s, "ingame") /\ ReadAgain(s)
        /\ UNCHANGED <<server, my_sock, object, registry, strand, database_strand>>
    BY <1>2 DEF InGameRequest
  <2>2. QED
    BY <2>1, ReceiveType, ReadAgainType DEF TypeOK, object
<1>3. CASE InGameClose(s)
  <2>1. Receive(s, "ingame") /\ ForceClose(s) /\ NotReading(s)
        /\ UNCHANGED <<server, registry, database_strand>>
    BY <1>3 DEF InGameClose
  <2>2. UNCHANGED <<current_state, awaiting, async_state, account, character>>
    BY <2>1 DEF ForceClose
  <2>3. QED
    BY <2>1, <2>2, ReceiveType, ForceCloseType, ReadAgainType DEF TypeOK, Tasks
<1>4. QED
  BY <1>1, <1>2, <1>3 DEF InGame

\* No task of the game loop strand breaks a type.
LEMMA GameLoopTypes == ASSUME TypeOK, GameLoop PROVE TypeOK'
<1> USE DEF Tasks
<1>1. PICK s \in Sessions : RunTransition(s) \/ RunFinalize(s) \/ RunLobbyChars(s)
  BY DEF GameLoop
<1>2. strand \in Seq(Tasks)
  BY DEF TypeOK
<1>3. CASE RunTransition(s)
  <2>1. strand' \in Seq(Tasks)
    BY <1>2, <1>3, NextTaskType DEF RunTransition
  <2>2. /\ character' \in [Sessions -> Characters \union {None}]
        /\ registry' \in [Characters -> Sessions \union {None}]
    BY <1>3, LeaveWorldType DEF RunTransition
  <2>3. database_strand' \in Seq(Sessions) /\ reading' \in [Sessions -> BOOLEAN]
    <3>1. CASE awaiting[s] = "lobby"
      <4>1. database_strand' = Append(database_strand, s) /\ reading' = reading
        BY <1>3, <3>1 DEF RunTransition
      <4>2. database_strand \in Seq(Sessions) /\ reading \in [Sessions -> BOOLEAN]
        BY DEF TypeOK
      <4>3. QED
        BY <4>1, <4>2, AppendProperties
    <3>2. CASE awaiting[s] # "lobby"
      <4>1. reading' = [reading EXCEPT ![s] = my_sock[s] = "open"]
            /\ database_strand' = database_strand
        BY <1>3, <3>2 DEF RunTransition
      <4>2. (my_sock[s] = "open") \in BOOLEAN
        BY Zenon
      <4>3. QED
        BY <4>1, <4>2, Zenon DEF TypeOK
    <3>3. QED
      BY <3>1, <3>2
  <2>4. /\ current_state' \in [Sessions -> ClientState \union {"none"}]
        /\ awaiting' \in [Sessions -> ClientState \union {"none"}]
        /\ async_state' \in [Sessions -> AsyncStatus]
    BY <1>3 DEF RunTransition, TypeOK, AsyncStatus
  <2>5. UNCHANGED <<server, peer, inflight, my_sock, account>>
    BY <1>3 DEF RunTransition
  <2>6. QED
    BY <2>1, <2>2, <2>3, <2>4, <2>5 DEF TypeOK
<1>4. CASE RunFinalize(s)
  <2>1. strand' \in Seq(Tasks)
    BY <1>2, <1>4, NextTaskType DEF RunFinalize
  <2>2. /\ character' \in [Sessions -> Characters \union {None}]
        /\ registry' \in [Characters -> Sessions \union {None}]
    BY <1>4, LeaveWorldType DEF RunFinalize
  <2>3. /\ current_state' \in [Sessions -> ClientState \union {"none"}]
        /\ my_sock' \in [Sessions -> {"open", "null", "none"}]
        /\ async_state' \in [Sessions -> AsyncStatus]
        /\ account' \in [Sessions -> Accounts \union {None}]
    BY <1>4 DEF RunFinalize, TypeOK, AsyncStatus
  <2>4. inflight' \in [Sessions -> 0..MaxInflight] /\ peer' \in [Sessions -> {"up", "silent", "gone"}]
    BY <1>4, SessionAssumption DEF RunFinalize, TypeOK
  <2>5. QED
    BY <1>4, <2>1, <2>2, <2>3, <2>4 DEF RunFinalize, TypeOK
<1>5. CASE RunLobbyChars(s)
  <2>1. strand' \in Seq(Tasks)
    BY <1>2, <1>5, NextTaskType DEF RunLobbyChars
  <2>2. server' \in ServerStatus /\ reading' \in [Sessions -> BOOLEAN]
    <3>1. CASE current_state[s] = "lobby"
      <4>1. reading' = [reading EXCEPT ![s] = my_sock[s] = "open"] /\ server' = server
        BY <1>5, <3>1 DEF RunLobbyChars
      <4>2. (my_sock[s] = "open") \in BOOLEAN
        BY Zenon
      <4>3. QED
        BY <4>1, <4>2, Zenon DEF TypeOK
    <3>2. CASE current_state[s] # "lobby"
      BY <1>5, <3>2 DEF RunLobbyChars, TypeOK, ServerStatus
    <3>3. QED
      BY <3>1, <3>2
  <2>3. QED
    BY <1>5, <2>1, <2>2 DEF RunLobbyChars, object, TypeOK
<1>6. QED
  BY <1>1, <1>3, <1>4, <1>5

\* TypeOK is an invariant, for every number of sessions, accounts and characters.
THEOREM TypeCorrect == Spec => []TypeOK
<1>1. Init => TypeOK
  <2>1. Init => strand \in Seq([kind : TaskKind, session : Sessions])
                /\ database_strand \in Seq(Sessions)
    BY EmptySeq DEF Init
  <2>2. QED
    BY <2>1, SessionAssumption DEF Init, TypeOK, ServerStatus, AsyncStatus
<1>2. TypeOK /\ [Next]_vars => TypeOK'
  <2> SUFFICES ASSUME TypeOK, [Next]_vars PROVE TypeOK'
    OBVIOUS
  <2>1. ASSUME NEW s \in Sessions, Client(s) \/ Preauth(s) \/ Lobby(s) \/ InGame(s)
        PROVE  TypeOK'
    BY <2>1, ClientTypes, PreauthTypes, LobbyTypes, InGameTypes
  <2>2. ASSUME NEW s \in Sessions, RecvError(s) PROVE TypeOK'
    <3>1. ForceClose(s) /\ NotReading(s)
          /\ UNCHANGED <<server, peer, inflight, registry, database_strand>>
      BY <2>2 DEF RecvError
    <3>2. UNCHANGED <<current_state, awaiting, async_state, account, character>>
      BY <3>1 DEF ForceClose
    <3>3. QED
      BY <3>1, <3>2, ForceCloseType, ReadAgainType DEF TypeOK, Tasks
  <2>3. CASE GameLoop
    BY <2>3, GameLoopTypes
  <2>4. CASE RunDatabase
    <3>1. strand \in Seq(Tasks) /\ database_strand \in Seq(Sessions)
      BY DEF TypeOK, Tasks
    <3>2. Head(database_strand) \in Sessions /\ database_strand' \in Seq(Sessions)
      BY <2>4, <3>1, HeadTailProperties DEF RunDatabase
    <3>3. strand' \in Seq(Tasks)
      BY <2>4, <3>1, <3>2, PostType DEF RunDatabase, TaskKind
    <3>4. QED
      BY <2>4, <3>2, <3>3 DEF RunDatabase, connection, object, TypeOK, Tasks
  <2>5. CASE DatabaseFault
    BY <2>5 DEF DatabaseFault, connection, object, TypeOK, ServerStatus
  <2>6. CASE UNCHANGED vars
    BY <2>6 DEF vars, connection, object, TypeOK
  <2>7. QED
    BY <2>1, <2>2, <2>3, <2>4, <2>5, <2>6 DEF Next
<1>3. QED
  BY <1>1, <1>2, PTL DEF Spec

(***************************************************************************)
(* The inductive invariant: what must be true of a session when its read   *)
(* completes, when its task or its query runs, and in between.             *)
(***************************************************************************)

\* At most one task or query is queued for a session.
OneQueued ==
  /\ \A i, j \in DOMAIN strand : strand[i].session = strand[j].session => i = j
  /\ \A i, j \in DOMAIN database_strand : database_strand[i] = database_strand[j] => i = j
  /\ \A i \in DOMAIN strand, j \in DOMAIN database_strand :
       strand[i].session # database_strand[j]

\* The state a read, a query or a task finds when it ends or runs.
ReadFits(s) ==
  /\ Exists(s) /\ my_sock[s] = "open" /\ awaiting[s] = "none"
  /\ current_state[s] # "preauth" => async_state[s] = "awaiting_packet_poll"

QueryFits(s) ==
  /\ ~reading[s] /\ my_sock[s] = "open" /\ awaiting[s] = "none"
  /\ current_state[s] = "lobby" /\ async_state[s] = "awaiting_packet_poll"

TaskFits(task) ==
  /\ Exists(task.session) /\ ~reading[task.session]
  /\ task.kind = "transition" =>
       my_sock[task.session] = "open" /\ awaiting[task.session] # "none"
  /\ task.kind = "finalize" => awaiting[task.session] = "none"
  /\ task.kind = "lobby_chars" => QueryFits(task.session)

\* Something will run on behalf of s.
Served(s) ==
  \/ reading[s]
  \/ \E i \in DOMAIN strand : strand[i].session = s
  \/ \E i \in DOMAIN database_strand : database_strand[i] = s

\* The states a session moves between, and who is logged in meanwhile.
StateFits(s) ==
  /\ awaiting[s] \in {"none", "lobby", "ingame"}
  /\ awaiting[s] = "lobby" => current_state[s] \in {"preauth", "ingame"}
  /\ awaiting[s] = "ingame" => current_state[s] = "lobby"
  /\ account[s] # None <=> current_state[s] \in {"lobby", "ingame"} \/ awaiting[s] = "lobby"

ContinuationInv ==
  /\ OneQueued
  /\ \A i \in DOMAIN strand : TaskFits(strand[i])
  /\ \A i \in DOMAIN database_strand : QueryFits(database_strand[i])
  /\ \A s \in Sessions : reading[s] => ReadFits(s)
  /\ \A s \in Sessions : Exists(s) => Served(s)
  /\ \A s \in Sessions : StateFits(s)

\* A character is played by its owner.
PlaysOwn == \A s \in Sessions : character[s] # None => Owner[character[s]] = account[s]

(***************************************************************************)
(* How the queues change, and what a step leaves to the other sessions.    *)
(***************************************************************************)

\* What Append does to a queue, entry by entry.
LEMMA Appended ==
  ASSUME NEW S, NEW q \in Seq(S), NEW e \in S
  PROVE  /\ DOMAIN q = 1..Len(q) /\ Len(q) \in Nat
         /\ DOMAIN Append(q, e) = 1..(Len(q) + 1)
         /\ \A i \in DOMAIN q : i \in DOMAIN Append(q, e) /\ Append(q, e)[i] = q[i]
         /\ Len(q) + 1 \in DOMAIN Append(q, e) /\ Append(q, e)[Len(q) + 1] = e
         /\ \A i \in DOMAIN Append(q, e) : i = Len(q) + 1 \/ i \in DOMAIN q
  BY AppendProperties, LenProperties

\* What Tail does to a queue, entry by entry.
LEMMA Tailed ==
  ASSUME NEW S, NEW q \in Seq(S), q # << >>
  PROVE  /\ 1 \in DOMAIN q /\ q[1] = Head(q)
         /\ \A i \in DOMAIN Tail(q) : i \in Nat /\ i + 1 \in DOMAIN q /\ Tail(q)[i] = q[i + 1]
         /\ \A i \in DOMAIN q : i # 1 => i \in Nat /\ i - 1 \in DOMAIN Tail(q)
         /\ \A i \in DOMAIN Tail(q) : i # 0
<1>1. Len(q) \in Nat \ {0} /\ DOMAIN q = 1..Len(q)
  BY EmptySeq, LenProperties
<1>2. /\ Tail(q) \in Seq(S) /\ Len(Tail(q)) = Len(q) - 1
      /\ \A i \in 1..Len(Tail(q)) : Tail(q)[i] = q[i + 1]
  BY HeadTailProperties
<1>3. DOMAIN Tail(q) = 1..(Len(q) - 1)
  BY <1>2, LenProperties
<1>4. QED
  BY <1>1, <1>2, <1>3

\* A step of session s leaves the state of the other sessions alone.
OnlyTouches(s) ==
  \A t \in Sessions \ {s} :
    /\ my_sock'[t] = my_sock[t] /\ (reading'[t] <=> reading[t])
    /\ current_state'[t] = current_state[t] /\ awaiting'[t] = awaiting[t]
    /\ async_state'[t] = async_state[t]
    /\ account'[t] = account[t]

\* Nothing that ContinuationInv speaks of changes.
LEMMA Unmoved ==
  ASSUME ContinuationInv,
         UNCHANGED <<my_sock, reading, current_state, awaiting, async_state, account,
                     strand, database_strand>>
  PROVE  ContinuationInv'
  BY DEF ContinuationInv, OneQueued, ReadFits, QueryFits, TaskFits, Served, StateFits, Exists

\* A handler that ends with schedule_transition or force_close gives up the read
\* for the one task it posts.
LEMMA PostStep ==
  ASSUME TypeOK, ContinuationInv, NEW s \in Sessions, NEW kind \in TaskKind,
         reading[s], ~reading'[s], Post(Task(kind, s)),
         database_strand' = database_strand, OnlyTouches(s),
         TaskFits(Task(kind, s))', StateFits(s)'
  PROVE  ContinuationInv'
<1> DEFINE task == Task(kind, s)
           n == Len(strand) + 1
<1>1. task \in Tasks /\ task.session = s /\ strand \in Seq(Tasks)
      /\ strand' = Append(strand, task)
  BY DEF Task, Tasks, TypeOK, Post
<1>2. /\ DOMAIN strand = 1..Len(strand) /\ Len(strand) \in Nat
      /\ \A i \in DOMAIN strand : i \in DOMAIN strand' /\ strand'[i] = strand[i]
      /\ n \in DOMAIN strand' /\ strand'[n] = task
      /\ \A i \in DOMAIN strand' : i = n \/ i \in DOMAIN strand
  BY <1>1, Appended
<1>3. \A i \in DOMAIN strand : strand[i] \in Tasks /\ strand[i].session \in Sessions \ {s}
  <2>1. \A i \in DOMAIN strand : strand[i] \in Tasks
    BY <1>1, <1>2, ElementOfSeq
  <2>2. QED
    BY <2>1 DEF ContinuationInv, TaskFits, Tasks
<1>4. \A i \in DOMAIN database_strand : database_strand[i] \in Sessions \ {s}
  <2>1. database_strand \in Seq(Sessions)
    BY DEF TypeOK
  <2>2. QED
    BY <2>1, LenProperties, ElementOfSeq DEF ContinuationInv, QueryFits
<1> HIDE DEF task, n
<1>5. OneQueued'
  BY <1>1, <1>2, <1>3, <1>4 DEF ContinuationInv, OneQueued
<1>6. ASSUME NEW i \in DOMAIN strand' PROVE TaskFits(strand[i])'
  <2>1. CASE i = n
    BY <1>2, <2>1 DEF task
  <2>2. CASE i \in DOMAIN strand
    <3>1. strand'[i] = strand[i] /\ TaskFits(strand[i]) /\ strand[i].session \in Sessions \ {s}
      BY <1>2, <1>3, <2>2 DEF ContinuationInv
    <3>2. QED
      BY <3>1 DEF OnlyTouches, TaskFits, QueryFits, Exists
  <2>3. QED
    BY <1>2, <2>1, <2>2
<1>7. ASSUME NEW i \in DOMAIN database_strand' PROVE QueryFits(database_strand[i])'
  BY <1>4 DEF ContinuationInv, OnlyTouches, QueryFits
<1>8. ASSUME NEW t \in Sessions
      PROVE  /\ reading'[t] => ReadFits(t)'
             /\ Exists(t)' => Served(t)'
             /\ StateFits(t)'
  <2>1. CASE t = s
    BY <1>1, <1>2, <2>1 DEF Served
  <2>2. CASE t # s
    <3>1. Exists(t) => Served(t)'
      BY <1>2, <2>2 DEF ContinuationInv, Served, OnlyTouches
    <3>2. QED
      BY <2>2, <3>1 DEF ContinuationInv, OnlyTouches, ReadFits, StateFits, Exists
  <2>3. QED
    BY <2>1, <2>2
<1>9. QED
  BY <1>5, <1>6, <1>7, <1>8 DEF ContinuationInv

\* The next task was the only one of its session, and no query is queued for it;
\* the other tasks move up by one.
LEMMA TaskTaken ==
  ASSUME TypeOK, ContinuationInv, NEW s \in Sessions, NEW kind \in TaskKind,
         IsNext(Task(kind, s)), strand' = Tail(strand)
  PROVE  /\ TaskFits(Task(kind, s))
         /\ \A i \in DOMAIN strand' : /\ i \in Nat /\ i + 1 \in DOMAIN strand
                                      /\ strand'[i] = strand[i + 1]
                                      /\ strand'[i].session \in Sessions \ {s}
         /\ \A i \in DOMAIN strand : strand[i].session # s =>
              i \in Nat /\ i - 1 \in DOMAIN strand' /\ strand'[i - 1] = strand[i]
         /\ \A i \in DOMAIN database_strand : database_strand[i] \in Sessions \ {s}
<1>1. strand \in Seq(Tasks) /\ strand # << >> /\ Head(strand) = Task(kind, s)
      /\ Task(kind, s).session = s
  BY DEF TypeOK, Tasks, IsNext, Task
<1>2. /\ 1 \in DOMAIN strand /\ strand[1] = Task(kind, s)
      /\ \A i \in DOMAIN strand' : /\ i \in Nat /\ i # 0 /\ i + 1 \in DOMAIN strand
                                   /\ strand'[i] = strand[i + 1]
      /\ \A i \in DOMAIN strand : i # 1 => i \in Nat /\ i - 1 \in DOMAIN strand'
  BY <1>1, Tailed
<1>3. \A i \in DOMAIN strand : strand[i].session \in Sessions /\ (strand[i].session = s => i = 1)
  <2>1. \A i \in DOMAIN strand : strand[i] \in Tasks
    BY <1>1, LenProperties, ElementOfSeq
  <2>2. QED
    BY <1>1, <1>2, <2>1 DEF ContinuationInv, OneQueued, Tasks
<1>4. \A i \in DOMAIN database_strand : database_strand[i] \in Sessions \ {s}
  <2>1. database_strand \in Seq(Sessions)
    BY DEF TypeOK
  <2>2. \A i \in DOMAIN database_strand : database_strand[i] \in Sessions
    BY <2>1, LenProperties, ElementOfSeq
  <2>3. QED
    BY <1>1, <1>2, <2>2 DEF ContinuationInv, OneQueued
<1>5. TaskFits(Task(kind, s))
  BY <1>2 DEF ContinuationInv
<1>6. \A i \in DOMAIN strand' : strand'[i].session \in Sessions \ {s}
  <2>1. \A i \in DOMAIN strand' : i + 1 # 1
    BY <1>2
  <2>2. QED
    BY <1>2, <1>3, <2>1
<1>7. \A i \in DOMAIN strand : strand[i].session # s => strand'[i - 1] = strand[i]
  <2>1. ASSUME NEW i \in DOMAIN strand, strand[i].session # s PROVE strand'[i - 1] = strand[i]
    <3>1. i # 1
      BY <1>1, <1>2, <2>1
    <3>2. i \in Nat /\ i - 1 \in DOMAIN strand' /\ (i - 1) + 1 = i
      BY <1>2, <3>1
    <3>3. QED
      BY <1>2, <3>2
  <2>2. QED
    BY <2>1
<1>8. \A i \in DOMAIN strand : strand[i].session # s => i # 1
  BY <1>1, <1>2
<1>9. QED
  BY <1>2, <1>4, <1>5, <1>6, <1>7, <1>8

\* What stays true of the tasks that wait and of the other sessions while the
\* task of s runs.
LEMMA OthersWait ==
  ASSUME TypeOK, ContinuationInv, NEW s \in Sessions, NEW kind \in TaskKind,
         IsNext(Task(kind, s)), strand' = Tail(strand), OnlyTouches(s),
         \A i \in DOMAIN database_strand :
           i \in DOMAIN database_strand' /\ database_strand'[i] = database_strand[i]
  PROVE  /\ \A i, j \in DOMAIN strand' : strand'[i].session = strand'[j].session => i = j
         /\ (\A i \in DOMAIN strand : TaskFits(strand[i]))'
         /\ \A t \in Sessions \ {s} : /\ reading'[t] => ReadFits(t)'
                                      /\ Exists(t)' => Served(t)'
                                      /\ StateFits(t)'
         /\ \A i \in DOMAIN database_strand : QueryFits(database_strand[i])'
<1>1. /\ \A i \in DOMAIN strand' : /\ i \in Nat /\ i + 1 \in DOMAIN strand
                                   /\ strand'[i] = strand[i + 1]
                                   /\ strand'[i].session \in Sessions \ {s}
      /\ \A i \in DOMAIN strand : strand[i].session # s =>
           i \in Nat /\ i - 1 \in DOMAIN strand' /\ strand'[i - 1] = strand[i]
      /\ \A i \in DOMAIN database_strand : database_strand[i] \in Sessions \ {s}
  BY TaskTaken
<1>2. ASSUME NEW i \in DOMAIN strand', NEW j \in DOMAIN strand',
             strand'[i].session = strand'[j].session
      PROVE  i = j
  <2>1. i + 1 = j + 1
    BY <1>1, <1>2 DEF ContinuationInv, OneQueued
  <2>2. QED
    BY <1>1, <2>1
<1>3. ASSUME NEW i \in DOMAIN strand' PROVE TaskFits(strand[i])'
  <2>1. strand'[i] = strand[i + 1] /\ TaskFits(strand[i + 1])
        /\ strand[i + 1].session \in Sessions \ {s}
    BY <1>1 DEF ContinuationInv
  <2>2. QED
    BY <2>1 DEF OnlyTouches, TaskFits, QueryFits, Exists
<1>4. ASSUME NEW t \in Sessions \ {s}
      PROVE  (reading'[t] => ReadFits(t)') /\ (Exists(t)' => Served(t)') /\ StateFits(t)'
  <2>1. Exists(t) => Served(t)'
    <3>1. ASSUME NEW i \in DOMAIN strand, strand[i].session = t
          PROVE  i - 1 \in DOMAIN strand' /\ strand'[i - 1].session = t
      BY <1>1, <3>1
    <3>2. QED
      BY <1>1, <3>1 DEF ContinuationInv, Served, OnlyTouches
  <2>2. QED
    BY <2>1 DEF ContinuationInv, OnlyTouches, ReadFits, StateFits, Exists
<1>5. ASSUME NEW i \in DOMAIN database_strand PROVE QueryFits(database_strand[i])'
  <2>1. database_strand[i] \in Sessions \ {s} /\ QueryFits(database_strand[i])
        /\ database_strand'[i] = database_strand[i]
    BY <1>1 DEF ContinuationInv
  <2>2. QED
    BY <2>1 DEF OnlyTouches, QueryFits
<1>6. QED
  BY <1>2, <1>3, <1>4, <1>5

\* A task that ends with an outstanding read, or with the session destroyed.
LEMMA RunStep ==
  ASSUME TypeOK, ContinuationInv, NEW s \in Sessions, NEW kind \in TaskKind,
         IsNext(Task(kind, s)), strand' = Tail(strand), OnlyTouches(s),
         database_strand' = database_strand,
         reading'[s] => ReadFits(s)', Exists(s)' => reading'[s], StateFits(s)'
  PROVE  ContinuationInv'
<1>1. /\ \A i \in DOMAIN strand' : /\ i \in Nat /\ i + 1 \in DOMAIN strand
                                   /\ strand'[i] = strand[i + 1]
  BY TaskTaken
<1>2. /\ \A i, j \in DOMAIN strand' : strand'[i].session = strand'[j].session => i = j
      /\ (\A i \in DOMAIN strand : TaskFits(strand[i]))'
      /\ \A t \in Sessions \ {s} : /\ reading'[t] => ReadFits(t)'
                                   /\ Exists(t)' => Served(t)'
                                   /\ StateFits(t)'
      /\ \A i \in DOMAIN database_strand : QueryFits(database_strand[i])'
  BY OthersWait
<1>3. OneQueued'
  BY <1>1, <1>2 DEF ContinuationInv, OneQueued
<1>4. (\A i \in DOMAIN database_strand : QueryFits(database_strand[i]))'
  BY <1>2
<1>5. \A t \in Sessions : /\ reading'[t] => ReadFits(t)'
                          /\ Exists(t)' => Served(t)'
                          /\ StateFits(t)'
  BY <1>2 DEF Served
<1>6. QED
  BY <1>2, <1>3, <1>4, <1>5 DEF ContinuationInv

\* The transition to the lobby ends with a query on the other strand instead.
LEMMA QueryStep ==
  ASSUME TypeOK, ContinuationInv, NEW s \in Sessions, NEW kind \in TaskKind,
         IsNext(Task(kind, s)), strand' = Tail(strand), OnlyTouches(s),
         database_strand' = Append(database_strand, s), QueryFits(s)', StateFits(s)'
  PROVE  ContinuationInv'
<1> DEFINE n == Len(database_strand) + 1
<1>1. database_strand \in Seq(Sessions)
  BY DEF TypeOK
<1>2. /\ \A i \in DOMAIN database_strand :
           i \in DOMAIN database_strand' /\ database_strand'[i] = database_strand[i]
      /\ n \in DOMAIN database_strand' /\ database_strand'[n] = s
      /\ \A i \in DOMAIN database_strand' : i = n \/ i \in DOMAIN database_strand
  BY <1>1, Appended
<1> HIDE DEF n
<1>3. /\ \A i \in DOMAIN strand' : /\ i + 1 \in DOMAIN strand /\ strand'[i] = strand[i + 1]
                                   /\ strand'[i].session \in Sessions \ {s}
      /\ \A i \in DOMAIN database_strand : database_strand[i] \in Sessions \ {s}
  BY TaskTaken
<1>4. /\ \A i, j \in DOMAIN strand' : strand'[i].session = strand'[j].session => i = j
      /\ (\A i \in DOMAIN strand : TaskFits(strand[i]))'
      /\ \A t \in Sessions \ {s} : /\ reading'[t] => ReadFits(t)'
                                   /\ Exists(t)' => Served(t)'
                                   /\ StateFits(t)'
      /\ \A i \in DOMAIN database_strand : QueryFits(database_strand[i])'
  BY <1>2, OthersWait
<1>5. OneQueued'
  <2>1. \A i, j \in DOMAIN database_strand' : database_strand'[i] = database_strand'[j] => i = j
    BY <1>2, <1>3 DEF ContinuationInv, OneQueued
  <2>2. \A i \in DOMAIN strand', j \in DOMAIN database_strand' :
          strand'[i].session # database_strand'[j]
    BY <1>2, <1>3 DEF ContinuationInv, OneQueued
  <2>3. QED
    BY <1>4, <2>1, <2>2 DEF OneQueued
<1>6. (\A i \in DOMAIN database_strand : QueryFits(database_strand[i]))'
  BY <1>2, <1>4 DEF QueryFits
<1>7. \A t \in Sessions : /\ reading'[t] => ReadFits(t)'
                          /\ Exists(t)' => Served(t)'
                          /\ StateFits(t)'
  BY <1>2, <1>4 DEF Served, QueryFits
<1>8. QED
  BY <1>4, <1>5, <1>6, <1>7 DEF ContinuationInv

\* The query hands its session over to the game loop strand.
LEMMA AnswerStep ==
  ASSUME TypeOK, ContinuationInv, RunDatabase
  PROVE  ContinuationInv'
<1> DEFINE h == Head(database_strand)
           task == Task("lobby_chars", h)
           n == Len(strand) + 1
<1>1. database_strand \in Seq(Sessions) /\ database_strand # << >> /\ h \in Sessions
  BY HeadTailProperties DEF TypeOK, RunDatabase
<1>2. task \in Tasks /\ task.session = h /\ task.kind = "lobby_chars" /\ strand \in Seq(Tasks)
      /\ strand' = Append(strand, task) /\ database_strand' = Tail(database_strand)
  BY <1>1 DEF Task, Tasks, TaskKind, TypeOK, Post, RunDatabase
<1>3. /\ \A i \in DOMAIN strand : i \in DOMAIN strand' /\ strand'[i] = strand[i]
      /\ n \in DOMAIN strand' /\ strand'[n] = task
      /\ \A i \in DOMAIN strand' : i = n \/ i \in DOMAIN strand
  BY <1>2, Appended
<1>4. /\ 1 \in DOMAIN database_strand /\ database_strand[1] = h
      /\ \A i \in DOMAIN database_strand' : /\ i \in Nat /\ i + 1 \in DOMAIN database_strand
                                            /\ database_strand'[i] = database_strand[i + 1]
                                            /\ i # 0
      /\ \A i \in DOMAIN database_strand : i # 1 => i \in Nat /\ i - 1 \in DOMAIN database_strand'
  BY <1>1, <1>2, Tailed
<1> HIDE DEF h, task, n
<1>5. UNCHANGED <<my_sock, reading, current_state, awaiting, async_state, account>>
  BY DEF RunDatabase, connection, object
<1>6. \A i \in DOMAIN database_strand' : database_strand'[i] # h
  <2>1. ASSUME NEW i \in DOMAIN database_strand', database_strand'[i] = h PROVE FALSE
    <3>1. i + 1 = 1
      BY <1>4, <2>1 DEF ContinuationInv, OneQueued
    <3>2. QED
      BY <1>4, <3>1
  <2>2. QED
    BY <2>1
<1>7. OneQueued'
  <2>1. \A i, j \in DOMAIN strand' : strand'[i].session = strand'[j].session => i = j
    BY <1>2, <1>3, <1>4 DEF ContinuationInv, OneQueued
  <2>2. ASSUME NEW i \in DOMAIN database_strand', NEW j \in DOMAIN database_strand',
               database_strand'[i] = database_strand'[j]
        PROVE  i = j
    <3>1. i + 1 = j + 1
      BY <1>4, <2>2 DEF ContinuationInv, OneQueued
    <3>2. QED
      BY <1>4, <3>1
  <2>3. \A i \in DOMAIN strand', j \in DOMAIN database_strand' :
          strand'[i].session # database_strand'[j]
    BY <1>2, <1>3, <1>4, <1>6 DEF ContinuationInv, OneQueued
  <2>4. QED
    BY <2>1, <2>2, <2>3 DEF OneQueued
<1>8. ASSUME NEW i \in DOMAIN strand' PROVE TaskFits(strand[i])'
  <2>1. CASE i = n
    <3>1. strand'[i] = task /\ QueryFits(h)
      BY <1>3, <1>4, <2>1 DEF ContinuationInv
    <3>2. QED
      BY <1>2, <1>5, <3>1 DEF TaskFits, QueryFits, Exists
  <2>2. CASE i \in DOMAIN strand
    <3>1. strand'[i] = strand[i] /\ TaskFits(strand[i])
      BY <1>3, <2>2 DEF ContinuationInv
    <3>2. QED
      BY <1>5, <3>1 DEF TaskFits, QueryFits, Exists
  <2>3. QED
    BY <1>3, <2>1, <2>2
<1>9. ASSUME NEW i \in DOMAIN database_strand' PROVE QueryFits(database_strand[i])'
  BY <1>4, <1>5 DEF ContinuationInv, QueryFits
<1>10. ASSUME NEW t \in Sessions
       PROVE  (reading'[t] => ReadFits(t)') /\ (Exists(t)' => Served(t)') /\ StateFits(t)'
  <2>1. Exists(t) => Served(t)'
    <3>1. ASSUME NEW i \in DOMAIN database_strand, database_strand[i] = t, t # h
          PROVE  i - 1 \in DOMAIN database_strand' /\ database_strand'[i - 1] = t
      <4>1. i # 1 /\ i \in Nat /\ i - 1 \in DOMAIN database_strand' /\ (i - 1) + 1 = i
        BY <1>4, <3>1
      <4>2. QED
        BY <1>4, <3>1, <4>1
    <3>2. QED
      BY <1>2, <1>3, <1>5, <3>1 DEF ContinuationInv, Served
  <2>2. QED
    BY <1>5, <2>1 DEF ContinuationInv, ReadFits, StateFits, Exists
<1>11. QED
  BY <1>7, <1>8, <1>9, <1>10 DEF ContinuationInv

(***************************************************************************)
(* Every step keeps exactly one continuation.                              *)
(***************************************************************************)

\* A handler that closes the session or schedules a transition does not read
\* again, whether it calls do_recv or not.
LEMMA ReadGivenUp ==
  ASSUME TypeOK, NEW s \in Sessions, ReadAgain(s) \/ NotReading(s),
         \/ my_sock' = [my_sock EXCEPT ![s] = "null"]
         \/ async_state' = [async_state EXCEPT ![s] = "awaiting_state_transition"]
  PROVE  reading' = [reading EXCEPT ![s] = FALSE]
<1>1. CASE ReadAgain(s)
  <2>1. PICK read \in IF async_state'[s] = "uninitialised" THEN BOOLEAN
                      ELSE {async_state'[s] = "awaiting_packet_poll"} :
          reading' = [reading EXCEPT ![s] = read /\ my_sock'[s] = "open"]
    BY <1>1, Zenon DEF ReadAgain
  <2>2. my_sock'[s] = "null" \/ async_state'[s] = "awaiting_state_transition"
    BY DEF TypeOK
  <2>3. read = FALSE \/ my_sock'[s] # "open"
    BY <2>1, <2>2
  <2>4. (read /\ my_sock'[s] = "open") = FALSE
    BY <2>3
  <2>5. QED
    BY <2>1, <2>4, Zenon
<1>2. QED
  BY <1>1 DEF NotReading

\* force_close by the handler of the outstanding read.
LEMMA CloseStep ==
  ASSUME TypeOK, ContinuationInv, NEW s \in Sessions, reading[s], ForceClose(s),
         ReadAgain(s) \/ NotReading(s), database_strand' = database_strand
  PROVE  ContinuationInv'
<1>1. my_sock' = [my_sock EXCEPT ![s] = "null"] /\ Post(Task("finalize", s))
      /\ UNCHANGED <<current_state, awaiting, async_state, account>>
  BY DEF ForceClose
<1>2. reading' = [reading EXCEPT ![s] = FALSE]
  BY <1>1, ReadGivenUp
<1>3. ReadFits(s) /\ StateFits(s)
  BY DEF ContinuationInv
<1>4. ~reading'[s] /\ OnlyTouches(s)
  BY <1>1, <1>2 DEF OnlyTouches, TypeOK
<1>5. TaskFits(Task("finalize", s))'
  BY <1>1, <1>3, <1>4 DEF TaskFits, Task, ReadFits, Exists
<1>6. StateFits(s)'
  BY <1>1, <1>3 DEF StateFits
<1>7. QED
  BY <1>1, <1>4, <1>5, <1>6, PostStep DEF TaskKind

\* schedule_transition by the handler of the outstanding read.
LEMMA ScheduleStep ==
  ASSUME TypeOK, ContinuationInv, NEW s \in Sessions, reading[s],
         NEW state \in {"lobby", "ingame"}, ScheduleTransition(s, state),
         ReadAgain(s) \/ NotReading(s), UNCHANGED <<my_sock, database_strand>>,
         \A t \in Sessions \ {s} : account'[t] = account[t],
         \/ state = "lobby" /\ current_state[s] \in {"preauth", "ingame"}
         \/ state = "ingame" /\ current_state[s] = "lobby",
         account'[s] # None
  PROVE  ContinuationInv'
<1>1. awaiting' = [awaiting EXCEPT ![s] = state] /\ Post(Task("transition", s))
      /\ async_state' = [async_state EXCEPT ![s] = "awaiting_state_transition"]
      /\ current_state' = current_state
  BY DEF ScheduleTransition
<1>2. reading' = [reading EXCEPT ![s] = FALSE]
  BY <1>1, ReadGivenUp
<1>3. ReadFits(s) /\ StateFits(s)
  BY DEF ContinuationInv
<1>4. ~reading'[s] /\ OnlyTouches(s) /\ awaiting'[s] = state
  BY <1>1, <1>2 DEF OnlyTouches, TypeOK
<1>5. TaskFits(Task("transition", s))'
  BY <1>1, <1>3, <1>4 DEF TaskFits, Task, ReadFits, Exists
<1>6. StateFits(s)'
  BY <1>1, <1>4 DEF StateFits
<1>7. QED
  BY <1>1, <1>4, <1>5, <1>6, PostStep DEF TaskKind

\* A request that leaves the session in its state reads again.
LEMMA RequestStep ==
  ASSUME TypeOK, ContinuationInv, NEW s \in Sessions, reading[s],
         current_state[s] # "preauth", ReadAgain(s),
         UNCHANGED <<my_sock, object, strand, database_strand>>
  PROVE  ContinuationInv'
<1>1. ReadFits(s)
  BY DEF ContinuationInv
<1>2. async_state'[s] = "awaiting_packet_poll" /\ my_sock'[s] = "open"
  BY <1>1 DEF ReadFits, object
<1>3. reading' = reading
  <2>1. PICK read \in IF async_state'[s] = "uninitialised" THEN BOOLEAN
                      ELSE {async_state'[s] = "awaiting_packet_poll"} :
          reading' = [reading EXCEPT ![s] = read /\ my_sock'[s] = "open"]
    BY Zenon DEF ReadAgain
  <2>2. (read /\ my_sock'[s] = "open") = TRUE
    BY <1>2, <2>1
  <2>3. reading' = [reading EXCEPT ![s] = TRUE]
    BY <2>1, <2>2, Zenon
  <2>4. reading \in [Sessions -> BOOLEAN] /\ reading[s] = TRUE
    BY DEF TypeOK
  <2>5. QED
    BY <2>3, <2>4
<1>4. QED
  BY <1>3, Unmoved DEF object

\* Every step of a session, and every step of the strands.
LEMMA ContinuationStep ==
  ASSUME TypeOK, ContinuationInv, [Next]_vars
  PROVE  ContinuationInv'
<1>1. ASSUME NEW s \in Sessions, Client(s) PROVE ContinuationInv'
  <2>1. CASE Accept(s)
    <3>1. /\ ~Exists(s) /\ awaiting[s] = "none" /\ account[s] = None
      BY <2>1 DEF Accept, ContinuationInv, StateFits, Exists
    <3>2. /\ my_sock'[s] = "open" /\ reading'[s] /\ current_state'[s] = "preauth"
          /\ UNCHANGED <<awaiting, async_state, account, strand, database_strand>>
      BY <2>1 DEF Accept, TypeOK
    <3>3. OnlyTouches(s)
      BY <2>1 DEF Accept, OnlyTouches, TypeOK
    <3>4. \A i \in DOMAIN strand : strand[i].session \in Sessions \ {s}
      <4>1. strand \in Seq(Tasks)
        BY DEF TypeOK, Tasks
      <4>2. \A i \in DOMAIN strand : strand[i] \in Tasks
        BY <4>1, LenProperties, ElementOfSeq
      <4>3. QED
        BY <3>1, <4>2 DEF Tasks, ContinuationInv, TaskFits
    <3>5. \A i \in DOMAIN database_strand : database_strand[i] \in Sessions \ {s}
      <4>1. database_strand \in Seq(Sessions)
        BY DEF TypeOK
      <4>2. QED
        BY <3>1, <4>1, LenProperties, ElementOfSeq DEF ContinuationInv, QueryFits, Exists
    <3>6. ASSUME NEW i \in DOMAIN strand' PROVE TaskFits(strand[i])'
      BY <3>2, <3>3, <3>4 DEF ContinuationInv, OnlyTouches, TaskFits, QueryFits, Exists
    <3>7. ASSUME NEW i \in DOMAIN database_strand' PROVE QueryFits(database_strand[i])'
      BY <3>2, <3>3, <3>5 DEF ContinuationInv, OnlyTouches, QueryFits
    <3>8. ASSUME NEW t \in Sessions
          PROVE  (reading'[t] => ReadFits(t)') /\ (Exists(t)' => Served(t)') /\ StateFits(t)'
      <4>1. CASE t = s
        BY <3>1, <3>2, <4>1 DEF ReadFits, Served, StateFits, Exists
      <4>2. CASE t # s
        BY <3>2, <3>3, <4>2
           DEF ContinuationInv, OnlyTouches, ReadFits, Served, StateFits, Exists
      <4>3. QED
        BY <4>1, <4>2
    <3>9. OneQueued'
      BY <3>2 DEF ContinuationInv, OneQueued
    <3>10. QED
      BY <3>6, <3>7, <3>8, <3>9 DEF ContinuationInv
  <2>2. CASE ClientSends(s) \/ PeerLost(s) \/ NoticeLoss(s)
    BY <2>2, Unmoved DEF ClientSends, PeerLost, NoticeLoss, object
  <2>3. QED
    BY <1>1, <2>1, <2>2 DEF Client
<1>2. ASSUME NEW s \in Sessions, Preauth(s) PROVE ContinuationInv'
  <2>1. ASSUME NEW a \in Accounts, LoginAccepted(s, a) PROVE ContinuationInv'
    <3>1. a # None /\ account' = [account EXCEPT ![s] = a] /\ reading[s]
          /\ current_state[s] = "preauth"
      BY <2>1, SessionAssumption DEF LoginAccepted, Receive
    <3>2. account'[s] # None /\ \A t \in Sessions \ {s} : account'[t] = account[t]
      BY <3>1 DEF TypeOK
    <3>3. ScheduleTransition(s, "lobby") /\ NotReading(s)
          /\ UNCHANGED <<my_sock, database_strand>>
      BY <2>1 DEF LoginAccepted
    <3>4. QED
      BY <3>1, <3>2, <3>3, ScheduleStep
  <2>2. CASE LoginRejected(s)
    BY <2>2, CloseStep DEF LoginRejected, Receive
  <2>3. CASE LoginFault(s)
    BY <2>3, Unmoved DEF LoginFault, object
  <2>4. QED
    BY <1>2, <2>1, <2>2, <2>3 DEF Preauth
<1>3. ASSUME NEW s \in Sessions, Lobby(s) PROVE ContinuationInv'
  <2>1. ASSUME NEW c \in Characters, Select(s, c) PROVE ContinuationInv'
    <3>1. CASE registry[c] = None
      <4>1. reading[s] /\ current_state[s] = "lobby" /\ ScheduleTransition(s, "ingame")
            /\ ReadAgain(s) /\ UNCHANGED <<my_sock, account, database_strand>>
        BY <2>1, <3>1 DEF Select, Receive
      <4>2. account'[s] # None
        BY <4>1 DEF ContinuationInv, StateFits
      <4>3. QED
        BY <4>1, <4>2, ScheduleStep
    <3>2. CASE registry[c] # None
      BY <2>1, <3>2, Unmoved DEF Select, object
    <3>3. QED
      BY <3>1, <3>2
  <2>2. CASE LobbyRequest(s)
    BY <2>2, RequestStep DEF LobbyRequest, Receive
  <2>3. CASE LobbyClose(s)
    BY <2>3, CloseStep DEF LobbyClose, Receive
  <2>4. QED
    BY <1>3, <2>1, <2>2, <2>3 DEF Lobby
<1>4. ASSUME NEW s \in Sessions, InGame(s) PROVE ContinuationInv'
  <2>1. CASE LogOffToLobby(s)
    <3>1. reading[s] /\ current_state[s] = "ingame" /\ ScheduleTransition(s, "lobby")
          /\ ReadAgain(s) /\ UNCHANGED <<my_sock, account, database_strand>>
      BY <2>1 DEF LogOffToLobby, Receive
    <3>2. account'[s] # None
      BY <3>1 DEF ContinuationInv, StateFits
    <3>3. QED
      BY <3>1, <3>2, ScheduleStep
  <2>2. CASE InGameRequest(s)
    BY <2>2, RequestStep DEF InGameRequest, Receive
  <2>3. CASE InGameClose(s)
    BY <2>3, CloseStep DEF InGameClose, Receive
  <2>4. QED
    BY <1>4, <2>1, <2>2, <2>3 DEF InGame
<1>5. ASSUME NEW s \in Sessions, RecvError(s) PROVE ContinuationInv'
  BY <1>5, CloseStep DEF RecvError
<1>6. ASSUME NEW s \in Sessions, RunTransition(s) PROVE ContinuationInv'
  <2>1. IsNext(Task("transition", s)) /\ strand' = Tail(strand) /\ "transition" \in TaskKind
    BY <1>6 DEF RunTransition, TaskKind
  <2>2. TaskFits(Task("transition", s))
    BY <2>1, TaskTaken
  <2>3. /\ Exists(s) /\ ~reading[s] /\ my_sock[s] = "open" /\ awaiting[s] # "none"
        /\ StateFits(s)
    BY <2>2 DEF TaskFits, Task, ContinuationInv
  <2>4. /\ current_state'[s] = awaiting[s] /\ awaiting'[s] = "none"
        /\ async_state'[s] = "awaiting_packet_poll" /\ UNCHANGED <<my_sock, account>>
        /\ \A t \in Sessions \ {s} : /\ current_state'[t] = current_state[t]
                                     /\ awaiting'[t] = awaiting[t]
                                     /\ async_state'[t] = async_state[t]
    BY <1>6 DEF RunTransition, TypeOK
  <2>5. StateFits(s)'
    BY <2>3, <2>4 DEF StateFits
  <2>6. CASE awaiting[s] = "lobby"
    <3>1. database_strand' = Append(database_strand, s) /\ reading' = reading
      BY <1>6, <2>6 DEF RunTransition
    <3>2. OnlyTouches(s) /\ QueryFits(s)'
      BY <2>3, <2>4, <2>6, <3>1 DEF OnlyTouches, QueryFits
    <3>3. QED
      BY <2>1, <2>5, <3>1, <3>2, QueryStep
  <2>7. CASE awaiting[s] # "lobby"
    <3>1. reading' = [reading EXCEPT ![s] = my_sock[s] = "open"]
          /\ database_strand' = database_strand
      BY <1>6, <2>7 DEF RunTransition
    <3>2. reading' = [reading EXCEPT ![s] = TRUE]
      <4>1. (my_sock[s] = "open") = TRUE
        BY <2>3
      <4>2. QED
        BY <3>1, <4>1, Zenon
    <3>3. reading'[s] /\ OnlyTouches(s) /\ ReadFits(s)'
      BY <2>3, <2>4, <2>7, <3>2 DEF TypeOK, OnlyTouches, ReadFits, Exists
    <3>4. QED
      BY <2>1, <2>5, <3>1, <3>3, RunStep
  <2>8. QED
    BY <2>6, <2>7
<1>7. ASSUME NEW s \in Sessions, RunFinalize(s) PROVE ContinuationInv'
  <2>1. IsNext(Task("finalize", s)) /\ strand' = Tail(strand) /\ "finalize" \in TaskKind
    BY <1>7 DEF RunFinalize, TaskKind
  <2>2. TaskFits(Task("finalize", s))
    BY <2>1, TaskTaken
  <2>3. ~reading[s] /\ awaiting[s] = "none"
    BY <2>2 DEF TaskFits, Task
  <2>4. /\ current_state'[s] = "none" /\ account'[s] = None
        /\ UNCHANGED <<reading, awaiting, database_strand>> /\ OnlyTouches(s)
    BY <1>7 DEF RunFinalize, TypeOK, OnlyTouches
  <2>5. StateFits(s)' /\ ~reading'[s] /\ ~Exists(s)'
    BY <2>3, <2>4 DEF StateFits, Exists
  <2>6. QED
    BY <2>1, <2>4, <2>5, RunStep
<1>8. ASSUME NEW s \in Sessions, RunLobbyChars(s) PROVE ContinuationInv'
  <2>1. IsNext(Task("lobby_chars", s)) /\ strand' = Tail(strand) /\ "lobby_chars" \in TaskKind
    BY <1>8 DEF RunLobbyChars, TaskKind
  <2>2. TaskFits(Task("lobby_chars", s))
    BY <2>1, TaskTaken
  <2>3. QueryFits(s) /\ StateFits(s)
    BY <2>2 DEF TaskFits, Task, ContinuationInv
  <2>4. reading' = [reading EXCEPT ![s] = my_sock[s] = "open"]
        /\ UNCHANGED <<my_sock, object, database_strand>>
    BY <1>8, <2>3 DEF RunLobbyChars, QueryFits
  <2>5. reading' = [reading EXCEPT ![s] = TRUE]
    <3>1. (my_sock[s] = "open") = TRUE
      BY <2>3 DEF QueryFits
    <3>2. QED
      BY <2>4, <3>1, Zenon
  <2>6. reading'[s] /\ OnlyTouches(s) /\ ReadFits(s)' /\ StateFits(s)'
    BY <2>3, <2>4, <2>5 DEF TypeOK, OnlyTouches, object, QueryFits, ReadFits, StateFits, Exists
  <2>7. QED
    BY <2>1, <2>4, <2>6, RunStep
<1>9. CASE DatabaseFault
  BY <1>9, Unmoved DEF DatabaseFault, connection, object
<1>10. CASE UNCHANGED vars
  BY <1>10, Unmoved DEF vars, connection, object
<1>11. QED
  BY <1>1, <1>2, <1>3, <1>4, <1>5, <1>6, <1>7, <1>8, <1>9, <1>10, AnswerStep
     DEF Next, GameLoop

\* Nothing is queued before the first connection.
LEMMA ContinuationInit == Init => ContinuationInv
<1> SUFFICES ASSUME Init PROVE ContinuationInv
  OBVIOUS
<1>1. strand = << >> /\ database_strand = << >> /\ \A i \in DOMAIN << >> : FALSE
  BY DEF Init
<1>2. \A s \in Sessions : /\ ~reading[s] /\ ~Exists(s) /\ StateFits(s)
  BY DEF Init, StateFits, Exists
<1>3. QED
  BY <1>1, <1>2 DEF ContinuationInv, OneQueued

\* With the queues kept that way, the set of a session's continuations has one
\* element, or none.
LEMMA ContinuationsAreOne == TypeOK /\ ContinuationInv => OneContinuation
<1> SUFFICES ASSUME TypeOK, ContinuationInv, NEW s \in Sessions
             PROVE  IF Exists(s)
                      THEN \E x \in Continuations(s) : \A y \in Continuations(s) : x = y
                      ELSE Continuations(s) = {}
  BY DEF OneContinuation
<1> DEFINE reads == {<<"read", 0>> : x \in {y \in {s} : reading[y]}}
           tasks == {<<"strand", i>> : i \in {j \in DOMAIN strand : strand[j].session = s}}
           queries == {<<"database", i>> :
                         i \in {j \in DOMAIN database_strand : database_strand[j] = s}}
<1>1. Continuations(s) = reads \union tasks \union queries
  BY DEF Continuations
<1>2. \A x \in reads : x = <<"read", 0>> /\ reading[s]
  OBVIOUS
<1>3. reading[s] => <<"read", 0>> \in reads
  OBVIOUS
<1>4. \A x \in tasks : \E i \in DOMAIN strand : strand[i].session = s /\ x = <<"strand", i>>
  OBVIOUS
<1>5. \A i \in DOMAIN strand : strand[i].session = s => <<"strand", i>> \in tasks
  OBVIOUS
<1>6. \A x \in queries :
        \E i \in DOMAIN database_strand : database_strand[i] = s /\ x = <<"database", i>>
  OBVIOUS
<1>7. \A i \in DOMAIN database_strand : database_strand[i] = s => <<"database", i>> \in queries
  OBVIOUS
<1> HIDE DEF reads, tasks, queries
<1>8. \A i \in DOMAIN strand : strand[i].session = s => Exists(s) /\ ~reading[s]
  BY DEF ContinuationInv, TaskFits
<1>9. \A i \in DOMAIN database_strand : database_strand[i] = s => Exists(s) /\ ~reading[s]
  BY DEF ContinuationInv, QueryFits, Exists
<1>10. reading[s] => Exists(s)
  BY DEF ContinuationInv, ReadFits
<1>11. CASE ~Exists(s)
  BY <1>1, <1>2, <1>4, <1>6, <1>8, <1>9, <1>10, <1>11
<1>12. CASE Exists(s)
  <2>1. Served(s)
    BY <1>12 DEF ContinuationInv
  <2>2. CASE reading[s]
    BY <1>1, <1>2, <1>3, <1>4, <1>6, <1>8, <1>9, <1>12, <2>2
  <2>3. ASSUME NEW i \in DOMAIN strand, strand[i].session = s
        PROVE  \E x \in Continuations(s) : \A y \in Continuations(s) : x = y
    <3>1. \A j \in DOMAIN strand : strand[j].session = s => j = i
      BY <2>3 DEF ContinuationInv, OneQueued
    <3>2. \A j \in DOMAIN database_strand : database_strand[j] # s
      BY <2>3 DEF ContinuationInv, OneQueued
    <3>3. <<"strand", i>> \in Continuations(s)
      BY <1>1, <1>5, <2>3
    <3>4. \A y \in Continuations(s) : y = <<"strand", i>>
      BY <1>1, <1>2, <1>4, <1>6, <1>8, <2>3, <3>1, <3>2
    <3>5. QED
      BY <3>3, <3>4
  <2>4. ASSUME NEW i \in DOMAIN database_strand, database_strand[i] = s
        PROVE  \E x \in Continuations(s) : \A y \in Continuations(s) : x = y
    <3>1. \A j \in DOMAIN database_strand : database_strand[j] = s => j = i
      BY <2>4 DEF ContinuationInv, OneQueued
    <3>2. \A j \in DOMAIN strand : strand[j].session # s
      BY <2>4 DEF ContinuationInv, OneQueued
    <3>3. <<"database", i>> \in Continuations(s)
      BY <1>1, <1>7, <2>4
    <3>4. \A y \in Continuations(s) : y = <<"database", i>>
      BY <1>1, <1>2, <1>4, <1>6, <1>9, <2>4, <3>1, <3>2
    <3>5. QED
      BY <3>3, <3>4
  <2>5. QED
    BY <1>12, <2>1, <2>2, <2>3, <2>4 DEF Served
<1>13. QED
  BY <1>11, <1>12

\* The inductive invariant itself, for the theorems below.
LEMMA ContinuationsKept == Spec => [](TypeOK /\ ContinuationInv)
<1>1. TypeOK /\ ContinuationInv /\ [Next]_vars => ContinuationInv'
  BY ContinuationStep
<1>2. QED
  BY <1>1, ContinuationInit, TypeCorrect, PTL DEF Spec

\* A session always has exactly one thing that will run on its behalf, and a
\* destroyed one none: however packets, errors, tasks and queries interleave,
\* however many sessions there are, and whatever their users do.
THEOREM OneContinuationEach == Spec => []OneContinuation
  BY ContinuationsKept, ContinuationsAreOne, PTL

(***************************************************************************)
(* The registry and the accounts.                                          *)
(***************************************************************************)

\* A step that builds and destroys no ingame_state keeps the registry true.
LEMMA WorldUnmoved ==
  ASSUME RegistryMatchesStates, UNCHANGED <<character, registry>>,
         \A s \in Sessions : current_state'[s] = "ingame" \/ awaiting'[s] = "ingame"
                         <=> current_state[s] = "ingame" \/ awaiting[s] = "ingame"
  PROVE  RegistryMatchesStates'
  BY DEF RegistryMatchesStates

\* A character leaves the registry with its state.
LEMMA LeaveStep ==
  ASSUME TypeOK, RegistryMatchesStates, NEW s \in Sessions, LeaveWorld(s),
         awaiting'[s] = "none",
         current_state[s] = "ingame" => awaiting[s] # "ingame" /\ current_state'[s] # "ingame",
         current_state[s] # "ingame" => (current_state'[s] = "ingame" <=> awaiting[s] = "ingame"),
         \A t \in Sessions \ {s} :
           current_state'[t] = current_state[t] /\ awaiting'[t] = awaiting[t]
  PROVE  RegistryMatchesStates'
<1>1. CASE current_state[s] = "ingame"
  <2>1. character' = [character EXCEPT ![s] = None]
        /\ registry' = [registry EXCEPT ![character[s]] = None]
    BY <1>1 DEF LeaveWorld, Unregister
  <2>2. character[s] # None /\ character[s] \in Characters
    BY <1>1 DEF RegistryMatchesStates, TypeOK
  <2>3. character'[s] = None /\ (\A t \in Sessions \ {s} : character'[t] = character[t])
        /\ \A c \in Characters : registry'[c] = IF c = character[s] THEN None ELSE registry[c]
    BY <2>1, <2>2 DEF TypeOK
  <2>4. ASSUME NEW c \in Characters, NEW t \in Sessions
        PROVE  registry'[c] = t <=> character'[t] = c
    BY <2>2, <2>3, SessionAssumption DEF RegistryMatchesStates
  <2>5. ASSUME NEW t \in Sessions
        PROVE  character'[t] # None <=> current_state'[t] = "ingame" \/ awaiting'[t] = "ingame"
    BY <1>1, <2>3 DEF RegistryMatchesStates
  <2>6. QED
    BY <2>4, <2>5 DEF RegistryMatchesStates
<1>2. CASE current_state[s] # "ingame"
  <2>1. UNCHANGED <<character, registry>>
    BY <1>2 DEF LeaveWorld
  <2>2. QED
    BY <1>2, <2>1, WorldUnmoved
<1>3. QED
  BY <1>1, <1>2

\* Every step keeps the registry and the in-game states together.
LEMMA RegistryStep ==
  ASSUME TypeOK, ContinuationInv, RegistryMatchesStates, [Next]_vars
  PROVE  RegistryMatchesStates'
<1>1. ASSUME NEW s \in Sessions, Client(s) PROVE RegistryMatchesStates'
  <2>1. CASE Accept(s)
    <3>1. current_state[s] = "none" /\ awaiting' = awaiting
          /\ current_state' = [current_state EXCEPT ![s] = "preauth"]
          /\ UNCHANGED <<character, registry>>
      BY <2>1 DEF Accept, Exists
    <3>2. QED
      BY <3>1, WorldUnmoved DEF TypeOK
  <2>2. CASE ClientSends(s) \/ PeerLost(s) \/ NoticeLoss(s)
    BY <2>2, WorldUnmoved DEF ClientSends, PeerLost, NoticeLoss, object
  <2>3. QED
    BY <1>1, <2>1, <2>2 DEF Client
<1>2. ASSUME NEW s \in Sessions, reading[s], ScheduleTransition(s, "lobby"),
             UNCHANGED <<character, registry>>
      PROVE  RegistryMatchesStates'
  <2>1. awaiting[s] = "none" /\ awaiting' = [awaiting EXCEPT ![s] = "lobby"]
        /\ current_state' = current_state
    BY <1>2 DEF ContinuationInv, ReadFits, ScheduleTransition
  <2>2. QED
    BY <1>2, <2>1, WorldUnmoved DEF TypeOK
<1>3. ASSUME NEW s \in Sessions, ForceClose(s), registry' = registry
      PROVE  RegistryMatchesStates'
  BY <1>3, WorldUnmoved DEF ForceClose
<1>4. ASSUME NEW s \in Sessions, NEW c \in Characters, Select(s, c)
      PROVE  RegistryMatchesStates'
  <2>1. CASE registry[c] = None
    <3>1. reading[s] /\ current_state[s] = "lobby" /\ current_state' = current_state
          /\ awaiting' = [awaiting EXCEPT ![s] = "ingame"]
          /\ character' = [character EXCEPT ![s] = c] /\ registry' = [registry EXCEPT ![c] = s]
      BY <1>4, <2>1 DEF Select, Receive, EnterWorld, Register, ScheduleTransition
    <3>2. character[s] = None
      BY <3>1 DEF RegistryMatchesStates, ContinuationInv, ReadFits
    <3>3. c # None /\ \A t \in Sessions : t # None /\ character[t] # c
      BY <2>1, SessionAssumption DEF RegistryMatchesStates
    <3>4. \A t \in Sessions : /\ character'[t] = IF t = s THEN c ELSE character[t]
                              /\ awaiting'[t] = IF t = s THEN "ingame" ELSE awaiting[t]
      BY <3>1 DEF TypeOK
    <3>5. \A d \in Characters : registry'[d] = IF d = c THEN s ELSE registry[d]
      BY <3>1 DEF TypeOK
    <3>6. ASSUME NEW d \in Characters, NEW t \in Sessions
          PROVE  registry'[d] = t <=> character'[t] = d
      BY <3>2, <3>3, <3>4, <3>5, SessionAssumption DEF RegistryMatchesStates
    <3>7. ASSUME NEW t \in Sessions
          PROVE  character'[t] # None
                 <=> current_state'[t] = "ingame" \/ awaiting'[t] = "ingame"
      BY <3>1, <3>3, <3>4 DEF RegistryMatchesStates
    <3>8. QED
      BY <3>6, <3>7 DEF RegistryMatchesStates
  <2>2. CASE registry[c] # None
    BY <1>4, <2>2, WorldUnmoved DEF Select, object
  <2>3. QED
    BY <2>1, <2>2
<1>5. ASSUME UNCHANGED <<object, registry>> PROVE RegistryMatchesStates'
  BY <1>5, WorldUnmoved DEF object
<1>6. ASSUME NEW s \in Sessions, Preauth(s) \/ Lobby(s) \/ InGame(s) \/ RecvError(s)
      PROVE  RegistryMatchesStates'
  BY <1>2, <1>3, <1>4, <1>5, <1>6
     DEF Preauth, LoginAccepted, LoginRejected, LoginFault, Lobby, LobbyRequest, LobbyClose,
         InGame, LogOffToLobby, InGameRequest, InGameClose, RecvError, Receive
<1>7. ASSUME NEW s \in Sessions, RunTransition(s) PROVE RegistryMatchesStates'
  <2>1. TaskFits(Task("transition", s))
    BY <1>7, TaskTaken DEF RunTransition, TaskKind
  <2>2. awaiting[s] # "none" /\ StateFits(s)
    BY <2>1 DEF TaskFits, Task, ContinuationInv
  <2>3. LeaveWorld(s) /\ current_state' = [current_state EXCEPT ![s] = awaiting[s]]
        /\ awaiting' = [awaiting EXCEPT ![s] = "none"]
    BY <1>7 DEF RunTransition
  <2>4. QED
    BY <2>2, <2>3, LeaveStep DEF TypeOK, StateFits
<1>8. ASSUME NEW s \in Sessions, RunFinalize(s) PROVE RegistryMatchesStates'
  <2>1. TaskFits(Task("finalize", s))
    BY <1>8, TaskTaken DEF RunFinalize, TaskKind
  <2>2. awaiting[s] = "none"
    BY <2>1 DEF TaskFits, Task
  <2>3. LeaveWorld(s) /\ current_state' = [current_state EXCEPT ![s] = "none"]
        /\ awaiting' = awaiting
    BY <1>8 DEF RunFinalize
  <2>4. QED
    BY <2>2, <2>3, LeaveStep DEF TypeOK
<1>9. ASSUME NEW s \in Sessions, RunLobbyChars(s) PROVE RegistryMatchesStates'
  BY <1>5, <1>9 DEF RunLobbyChars
<1>10. CASE RunDatabase \/ DatabaseFault \/ UNCHANGED vars
  BY <1>5, <1>10 DEF RunDatabase, DatabaseFault, vars
<1>11. QED
  BY <1>1, <1>4, <1>6, <1>7, <1>8, <1>9, <1>10 DEF Next, GameLoop

\* The registry of online players and the in-game states always name each other,
\* also while a transition or the destruction of a session waits on the strand.
THEOREM RegistryTrue == Spec => []RegistryMatchesStates
<1>1. Init => RegistryMatchesStates
  BY SessionAssumption DEF Init, RegistryMatchesStates
<1>2. TypeOK /\ ContinuationInv /\ RegistryMatchesStates /\ [Next]_vars
      => RegistryMatchesStates'
  BY RegistryStep
<1>3. QED
  BY <1>1, <1>2, ContinuationsKept, PTL DEF Spec

\* What a step may do to the accounts and the characters of the sessions.
LEMMA WhoStep ==
  ASSUME TypeOK, ContinuationInv, RegistryMatchesStates, [Next]_vars
  PROVE  \/ UNCHANGED <<account, character>>
         \/ \E s \in Sessions, a \in Accounts :
              /\ LoginAccepted(s, a) /\ account[s] = None /\ character[s] = None
              /\ account' = [account EXCEPT ![s] = a] /\ character' = character
         \/ \E s \in Sessions, c \in Characters :
              /\ Select(s, c) /\ registry[c] = None /\ Owner[c] = account[s]
              /\ character' = [character EXCEPT ![s] = c] /\ account' = account
         \/ \E s \in Sessions :
              /\ character' = [character EXCEPT ![s] = None]
              /\ account' = account \/ account' = [account EXCEPT ![s] = None]
<1>1. ASSUME NEW s \in Sessions, NEW a \in Accounts, LoginAccepted(s, a)
      PROVE  /\ account[s] = None /\ character[s] = None
             /\ account' = [account EXCEPT ![s] = a] /\ character' = character
  <2>1. reading[s] /\ current_state[s] = "preauth" /\ character' = character
        /\ account' = [account EXCEPT ![s] = a]
    BY <1>1 DEF LoginAccepted, Receive
  <2>2. QED
    BY <2>1 DEF ContinuationInv, ReadFits, StateFits, RegistryMatchesStates
<1>2. ASSUME NEW s \in Sessions, NEW c \in Characters, Select(s, c)
      PROVE  \/ UNCHANGED <<account, character>>
             \/ /\ registry[c] = None /\ Owner[c] = account[s]
                /\ character' = [character EXCEPT ![s] = c] /\ account' = account
  BY <1>2 DEF Select, EnterWorld, object
<1>3. ASSUME NEW s \in Sessions, LeaveWorld(s)
      PROVE  character' = [character EXCEPT ![s] = None] \/ character' = character
  BY <1>3 DEF LeaveWorld
<1>4. ASSUME NEW s \in Sessions, RunFinalize(s)
      PROVE  /\ character' = [character EXCEPT ![s] = None]
             /\ account' = [account EXCEPT ![s] = None]
  <2>1. LeaveWorld(s) /\ account' = [account EXCEPT ![s] = None]
    BY <1>4 DEF RunFinalize
  <2>2. TaskFits(Task("finalize", s))
    BY <1>4, TaskTaken DEF RunFinalize, TaskKind
  <2>3. CASE current_state[s] # "ingame"
    <3>1. character' = character /\ character[s] = None
      BY <2>1, <2>2, <2>3 DEF LeaveWorld, TaskFits, Task, RegistryMatchesStates
    <3>2. QED
      BY <2>1, <3>1 DEF TypeOK
  <2>4. QED
    BY <2>1, <2>3 DEF LeaveWorld
<1>5. ASSUME NEW s \in Sessions, RunTransition(s)
      PROVE  /\ character' = [character EXCEPT ![s] = None] \/ character' = character
             /\ account' = account
  BY <1>3, <1>5 DEF RunTransition
<1>6. ASSUME NEW s \in Sessions,
             \/ Client(s) \/ LoginRejected(s) \/ LoginFault(s) \/ LobbyRequest(s)
             \/ LobbyClose(s) \/ InGame(s) \/ RecvError(s) \/ RunLobbyChars(s)
      PROVE  UNCHANGED <<account, character>>
  BY <1>6 DEF Client, Accept, ClientSends, PeerLost, NoticeLoss, LoginRejected, LoginFault,
     LobbyRequest, LobbyClose, InGame, LogOffToLobby, InGameRequest, InGameClose, RecvError, RunLobbyChars,
     ForceClose, object
<1>7. CASE RunDatabase \/ DatabaseFault \/ UNCHANGED vars
  BY <1>7 DEF RunDatabase, DatabaseFault, vars, object
<1>8. QED
  BY <1>1, <1>2, <1>4, <1>5, <1>6, <1>7 DEF Next, GameLoop, Preauth, Lobby

\* The character a session plays belongs to the account it is logged in with.
LEMMA OwnStep ==
  ASSUME TypeOK, ContinuationInv, RegistryMatchesStates, PlaysOwn, [Next]_vars
  PROVE  PlaysOwn'
<1> USE DEF TypeOK, PlaysOwn
<1>1. ASSUME NEW s \in Sessions, NEW a \in Accounts, character[s] = None,
             account' = [account EXCEPT ![s] = a], character' = character
      PROVE  PlaysOwn'
  BY <1>1
<1>2. ASSUME NEW s \in Sessions, NEW c \in Characters, Owner[c] = account[s],
             character' = [character EXCEPT ![s] = c], account' = account
      PROVE  PlaysOwn'
  BY <1>2
<1>3. ASSUME NEW s \in Sessions, character' = [character EXCEPT ![s] = None],
             account' = account \/ account' = [account EXCEPT ![s] = None]
      PROVE  PlaysOwn'
  BY <1>3
<1>4. QED
  BY <1>1, <1>2, <1>3, WhoStep

\* The invariants that say who is in the world.
WorldInv == RegistryMatchesStates /\ PlaysOwn

\* The three invariants always hold together.
LEMMA WorldKept == Spec => [](TypeOK /\ ContinuationInv /\ WorldInv)
<1>1. Init => WorldInv
  BY SessionAssumption DEF Init, WorldInv, RegistryMatchesStates, PlaysOwn
<1>2. TypeOK /\ ContinuationInv /\ WorldInv /\ [Next]_vars => WorldInv'
  BY RegistryStep, OwnStep DEF WorldInv
<1>3. QED
  BY <1>1, <1>2, ContinuationsKept, PTL DEF Spec

(***************************************************************************)
(* No callback outlives its lobby_state.                                   *)
(***************************************************************************)

\* The callback of lobby_state::start finds its lobby_state: not even a user who
\* logs in while his last session is being destroyed can make it dangle.
LEMMA CallbackStep ==
  ASSUME TypeOK, ContinuationInv, server # "undefined", [Next]_vars
  PROVE  server' # "undefined"
<1>1. ASSUME NEW s \in Sessions, RunLobbyChars(s) PROVE server' # "undefined"
  <2>1. TaskFits(Task("lobby_chars", s))
    BY <1>1, TaskTaken DEF RunLobbyChars, TaskKind
  <2>2. current_state[s] = "lobby"
    BY <2>1 DEF TaskFits, Task, QueryFits
  <2>3. QED
    BY <1>1, <2>2 DEF RunLobbyChars
<1>2. ASSUME NEW s \in Sessions, Client(s) \/ RecvError(s) PROVE server' # "undefined"
  BY <1>2 DEF Client, Accept, ClientSends, PeerLost, NoticeLoss, RecvError
<1>3. ASSUME NEW s \in Sessions, Preauth(s) \/ Lobby(s) \/ InGame(s)
      PROVE  server' # "undefined"
  BY <1>3 DEF Preauth, LoginAccepted, LoginRejected, LoginFault, Lobby, Select,
     LobbyRequest, LobbyClose, InGame, LogOffToLobby, InGameRequest, InGameClose
<1>4. ASSUME NEW s \in Sessions, RunTransition(s) \/ RunFinalize(s)
      PROVE  server' # "undefined"
  BY <1>4 DEF RunTransition, RunFinalize
<1>5. CASE RunDatabase \/ DatabaseFault \/ UNCHANGED vars
  BY <1>5 DEF RunDatabase, DatabaseFault, vars
<1>6. QED
  BY <1>1, <1>2, <1>3, <1>4, <1>5 DEF Next, GameLoop

\* RunLobbyChars sets this value of server if the object of its callback is gone.
NoDangling == server # "undefined"

\* Whatever the users do, the callback of the database never touches a destroyed
\* lobby_state.
THEOREM CallbackNeverDangles == Spec => []NoDangling
<1>1. Init => NoDangling
  BY DEF Init, NoDangling
<1>2. TypeOK /\ ContinuationInv /\ NoDangling /\ [Next]_vars => NoDangling'
  BY CallbackStep DEF NoDangling
<1>3. QED
  BY <1>1, <1>2, ContinuationsKept, PTL DEF Spec

(***************************************************************************)
(* What the rest of the server sees of a session.                          *)
(***************************************************************************)

\* Every step of a session is a step of its life cycle, or one nobody sees.
LEMMA LifecycleStep ==
  ASSUME TypeOK, ContinuationInv, WorldInv, [Next]_vars
  PROVE  [Lifecycle!LifecycleNext]_(Lifecycle!lifecycle_vars)
<1> DEFINE moves(s, to) == Place' = [Place EXCEPT ![s] = to]
<1>1. ASSUME NEW s \in Sessions, NEW to,
             IF ~Exists(s)' THEN to = "offline"
             ELSE IF character'[s] # None THEN to = "world"
             ELSE IF account'[s] # None THEN to = "lobby" ELSE to = "door",
             \A t \in Sessions \ {s} : /\ current_state'[t] = current_state[t]
                                       /\ character'[t] = character[t]
                                       /\ account'[t] = account[t]
      PROVE  moves(s, to)
  BY <1>1 DEF Place, Exists
<1>2. ASSUME \A s \in Sessions : Exists(s)' <=> Exists(s), UNCHANGED <<account, character>>
      PROVE  UNCHANGED Lifecycle!session_view
  BY <1>2 DEF Place, Exists, Lifecycle!session_view
<1> HIDE DEF moves
<1>3. ASSUME NEW s \in Sessions, Accept(s) PROVE Lifecycle!Knock(s)
  <2>1. ~Exists(s) /\ account[s] = None /\ character[s] = None
        /\ UNCHANGED <<server, account, character>> /\ server = "up"
        /\ current_state' = [current_state EXCEPT ![s] = "preauth"]
    BY <1>3 DEF Accept, Up, Exists, ContinuationInv, StateFits, WorldInv, RegistryMatchesStates
  <2>2. moves(s, "door")
    BY <1>1, <2>1 DEF TypeOK, Exists
  <2>3. Place[s] = "offline"
    BY <2>1 DEF Place
  <2>4. QED
    BY <2>1, <2>2, <2>3 DEF Lifecycle!Knock, Lifecycle!Go, moves
<1>4. ASSUME NEW s \in Sessions, NEW a \in Accounts, LoginAccepted(s, a)
      PROVE  Lifecycle!LogIn(s, a)
  <2>1. reading[s] /\ current_state[s] = "preauth" /\ UNCHANGED <<current_state, character>>
        /\ account' = [account EXCEPT ![s] = a] /\ a # None
        /\ server = "up" /\ UNCHANGED server
    BY <1>4, SessionAssumption DEF LoginAccepted, Receive, ScheduleTransition, Up
  <2>2. account[s] = None /\ character[s] = None /\ Exists(s)
    BY <2>1 DEF ContinuationInv, ReadFits, StateFits, WorldInv, RegistryMatchesStates
  <2>3. moves(s, "lobby")
    BY <1>1, <2>1, <2>2 DEF TypeOK, Exists
  <2>4. Place[s] = "door"
    BY <2>2 DEF Place
  <2>5. QED
    BY <2>1, <2>3, <2>4 DEF Lifecycle!LogIn, Lifecycle!Go, moves
<1>5. ASSUME NEW s \in Sessions, NEW c \in Characters, Select(s, c), registry[c] = None
      PROVE  Lifecycle!Enter(s, c)
  <2>1. reading[s] /\ current_state[s] = "lobby" /\ UNCHANGED <<current_state, account>>
        /\ character' = [character EXCEPT ![s] = c] /\ Owner[c] = account[s]
        /\ server = "up" /\ UNCHANGED server
    BY <1>5 DEF Select, Receive, EnterWorld, ScheduleTransition, Up
  <2>2. character[s] = None /\ account[s] # None /\ Exists(s)
    BY <2>1 DEF ContinuationInv, ReadFits, StateFits, WorldInv, RegistryMatchesStates
  <2>3. c # None /\ \A t \in Sessions : character[t] # c
    BY <1>5, SessionAssumption DEF WorldInv, RegistryMatchesStates
  <2>4. moves(s, "world")
    BY <1>1, <2>1, <2>2, <2>3 DEF TypeOK, Exists
  <2>5. Place[s] = "lobby"
    BY <2>2 DEF Place
  <2>6. QED
    BY <2>1, <2>3, <2>4, <2>5 DEF Lifecycle!Enter, Lifecycle!Played, Lifecycle!Go, moves
<1>6. ASSUME NEW s \in Sessions, NEW c \in Characters, Select(s, c), registry[c] # None
      PROVE  Lifecycle!EnterTwice(s, c)
  <2>1. reading[s] /\ current_state[s] = "lobby" /\ Owner[c] = account[s]
        /\ UNCHANGED <<current_state, account, character>>
        /\ server = "up" /\ server' = "aborted"
    BY <1>6 DEF Select, Receive, Up, object
  <2>2. character[s] = None /\ account[s] # None /\ Exists(s)
    BY <2>1 DEF ContinuationInv, ReadFits, StateFits, WorldInv, RegistryMatchesStates
  <2>3. Place[s] = "lobby"
    BY <2>2 DEF Place
  <2>4. PICK t \in Sessions : registry[c] = t
    BY <1>6 DEF TypeOK
  <2>5. character[t] = c /\ c # None /\ account[t] = account[s]
    BY <2>1, <2>4, SessionAssumption DEF WorldInv, RegistryMatchesStates, PlaysOwn
  <2>6. current_state[t] = "ingame" \/ awaiting[t] = "ingame"
    BY <2>5 DEF WorldInv, RegistryMatchesStates
  <2>7. Exists(t)
    BY <2>6 DEF ContinuationInv, StateFits, Exists
  <2>8. Place[t] = "world"
    BY <2>5, <2>7 DEF Place
  <2>9. UNCHANGED Lifecycle!session_view
    BY <1>2, <2>1 DEF Exists
  <2>10. QED
    BY <2>1, <2>3, <2>5, <2>8, <2>9 DEF Lifecycle!EnterTwice
<1>7. ASSUME NEW s \in Sessions, RunTransition(s)
      PROVE  Lifecycle!Leave(s) \/ UNCHANGED Lifecycle!lifecycle_vars
  <2>1. TaskFits(Task("transition", s))
    BY <1>7, TaskTaken DEF RunTransition, TaskKind
  <2>2. Exists(s) /\ awaiting[s] # "none" /\ StateFits(s)
    BY <2>1 DEF TaskFits, Task, ContinuationInv
  <2>3. current_state' = [current_state EXCEPT ![s] = awaiting[s]] /\ account' = account
        /\ LeaveWorld(s) /\ server = "up" /\ UNCHANGED server
    BY <1>7 DEF RunTransition, Up
  <2>4. CASE current_state[s] = "ingame"
    <3>1. character' = [character EXCEPT ![s] = None] /\ character[s] # None
      BY <2>3, <2>4 DEF LeaveWorld, WorldInv, RegistryMatchesStates
    <3>2. account[s] # None /\ Exists(s)'
      BY <2>2, <2>3, <2>4 DEF StateFits, TypeOK, Exists
    <3>3. moves(s, "lobby")
      BY <1>1, <2>3, <3>1, <3>2 DEF TypeOK
    <3>4. Place[s] = "world"
      BY <2>2, <3>1 DEF Place
    <3>5. QED
      BY <2>3, <3>1, <3>3, <3>4 DEF Lifecycle!Leave, Lifecycle!Go, moves
  <2>5. CASE current_state[s] # "ingame"
    <3>1. character' = character
      BY <2>3, <2>5 DEF LeaveWorld
    <3>2. QED
      BY <1>2, <2>2, <2>3, <3>1 DEF TypeOK, Exists, Lifecycle!lifecycle_vars
  <2>6. QED
    BY <2>4, <2>5
<1>8. ASSUME NEW s \in Sessions, RunFinalize(s) PROVE Lifecycle!Disconnect(s)
  <2>1. TaskFits(Task("finalize", s))
    BY <1>8, TaskTaken DEF RunFinalize, TaskKind
  <2>2. Exists(s) /\ awaiting[s] = "none" /\ StateFits(s)
    BY <2>1 DEF TaskFits, Task, ContinuationInv
  <2>3. current_state' = [current_state EXCEPT ![s] = "none"]
        /\ account' = [account EXCEPT ![s] = None] /\ LeaveWorld(s)
        /\ server = "up" /\ UNCHANGED server
    BY <1>8 DEF RunFinalize, Up
  <2>4. character' = [character EXCEPT ![s] = None]
    <3>1. CASE current_state[s] = "ingame"
      BY <2>3, <3>1 DEF LeaveWorld
    <3>2. CASE current_state[s] # "ingame"
      <4>1. character' = character /\ character[s] = None
        BY <2>2, <2>3, <3>2 DEF LeaveWorld, WorldInv, RegistryMatchesStates
      <4>2. QED
        BY <4>1 DEF TypeOK
    <3>3. QED
      BY <3>1, <3>2
  <2>5. moves(s, "offline")
    BY <1>1, <2>3, <2>4 DEF TypeOK, Exists
  <2>6. Place[s] # "offline"
    BY <2>2 DEF Place
  <2>7. QED
    BY <2>3, <2>4, <2>5, <2>6 DEF Lifecycle!Disconnect, moves
<1>9. ASSUME NEW s \in Sessions,
             \/ ClientSends(s) \/ PeerLost(s) \/ NoticeLoss(s) \/ LoginRejected(s)
             \/ LobbyRequest(s) \/ LobbyClose(s) \/ InGame(s) \/ RecvError(s)
      PROVE  UNCHANGED Lifecycle!lifecycle_vars
  <2>1. UNCHANGED <<server, current_state, account, character>>
    BY <1>9 DEF ClientSends, PeerLost, NoticeLoss, LoginRejected, LobbyRequest, LobbyClose,
       InGame, LogOffToLobby, InGameRequest, InGameClose, RecvError,
       ForceClose, ScheduleTransition, object
  <2>2. QED
    BY <1>2, <2>1 DEF Exists, Lifecycle!lifecycle_vars
<1>10. ASSUME NEW s \in Sessions, RunLobbyChars(s) PROVE UNCHANGED Lifecycle!lifecycle_vars
  <2>1. TaskFits(Task("lobby_chars", s))
    BY <1>10, TaskTaken DEF RunLobbyChars, TaskKind
  <2>2. current_state[s] = "lobby"
    BY <2>1 DEF TaskFits, Task, QueryFits
  <2>3. UNCHANGED <<server, current_state, account, character>>
    BY <1>10, <2>2 DEF RunLobbyChars, object
  <2>4. QED
    BY <1>2, <2>3 DEF Exists, Lifecycle!lifecycle_vars
<1>11. ASSUME NEW s \in Sessions, LoginFault(s) PROVE Lifecycle!Terminate
  <2>1. server = "up" /\ server' = "terminated" /\ UNCHANGED <<current_state, account, character>>
    BY <1>11 DEF LoginFault, Receive, Up, object
  <2>2. QED
    BY <1>2, <2>1 DEF Exists, Lifecycle!Terminate
<1>12. CASE DatabaseFault
  <2>1. server = "up" /\ server' = "terminated" /\ UNCHANGED <<current_state, account, character>>
    BY <1>12 DEF DatabaseFault, Up, object
  <2>2. Lifecycle!Terminate
    BY <1>2, <2>1 DEF Exists, Lifecycle!Terminate
  <2>3. QED
    BY <2>2 DEF Lifecycle!LifecycleNext
<1>13. CASE RunDatabase \/ UNCHANGED vars
  BY <1>2, <1>13 DEF RunDatabase, vars, object, Exists, Lifecycle!lifecycle_vars
<1>14. QED
  BY <1>3, <1>4, <1>5, <1>6, <1>7, <1>8, <1>9, <1>10, <1>11, <1>12, <1>13
     DEF Next, Client, Preauth, Lobby, GameLoop, Lifecycle!LifecycleNext

\* Session implements SessionLifecycle, whenever its users log in and however
\* packets, errors and tasks interleave: a session enters the world once, with a
\* character of its account that nobody else plays, and leaves it once; and the
\* process is aborted only if a user who is logged in twice selects the character
\* he plays already.
THEOREM SessionRefines == Spec => ImplementsLifecycle
<1>1. Init => Lifecycle!LifecycleInit
  <2> SUFFICES ASSUME Init PROVE Lifecycle!LifecycleInit
    OBVIOUS
  <2>1. Place = [s \in Sessions |-> "offline"]
    BY DEF Init, Place, Exists
  <2>2. QED
    BY <2>1 DEF Init, Lifecycle!LifecycleInit
<1>2. TypeOK /\ ContinuationInv /\ WorldInv /\ [Next]_vars
      => [Lifecycle!LifecycleNext]_(Lifecycle!lifecycle_vars)
  BY LifecycleStep
<1>3. QED
  BY <1>1, <1>2, WorldKept, PTL DEF Spec, ImplementsLifecycle, Lifecycle!LifecycleSpec
==============================================================================
