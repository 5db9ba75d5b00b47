-------------------------- MODULE FriendSystemProofs --------------------------
(***************************************************************************)
(* Proofs about FriendSystem and the PendingFriendRequests it extends, for *)
(* any set of users, any period, any lateness of the timer and any bounds. *)
(*                                                                         *)
(* The pending requests come first: what holds of every operation of the   *)
(* double buffer, alone or called by the friend system.                    *)
(*                                                                         *)
(* Then the friends.  The lists in memory and the table agree              *)
(* (MemoryMatchesTable) and nobody is a friend of himself: these two facts *)
(* carry the others.  The list of p holds q exactly when the list of q, if *)
(* q is online, holds p, because both equal the table; so whoever is told  *)
(* by the one list of a friend who comes or goes is whoever should hear of *)
(* it by the other.                                                        *)
(***************************************************************************)
EXTENDS FriendSystem, AdjustedClock, TLAPS

(***************************************************************************)
(* The double buffer of pending requests.                                  *)
(***************************************************************************)

\* The reverse of a request is a request, and the reverse of that the request.
LEMMA ReverseType ==
  ASSUME NEW r \in Requests
  PROVE  Reverse(r) \in Requests /\ Reverse(Reverse(r)) = r /\ Reverse(r) # r
BY DEF Requests, Reverse

\* What erasing a request does to the two maps.
LEMMA EraseEffect ==
  ASSUME PTypeOK, NEW q \in Requests, Erase(q)
  PROVE  /\ front' \in [Requests -> Int] /\ back' \in [Requests -> Int]
         /\ \A r \in Requests : front'[r] = front[r] \/ front'[r] = Absent
         /\ \A r \in Requests : back'[r] = back[r] \/ back'[r] = Absent
         /\ \A r \in Requests : Absent <= front'[r] /\ front'[r] <= now
         /\ \A r \in Requests : Absent <= back'[r] /\ back'[r] <= now
<1>1. /\ front' \in [Requests -> Int] /\ back' \in [Requests -> Int]
      /\ \A r \in Requests : front'[r] = front[r] \/ front'[r] = Absent
      /\ \A r \in Requests : back'[r] = back[r] \/ back'[r] = Absent
  BY DEF PTypeOK, Erase, Absent
<1>2. \A r \in Requests : Absent <= front'[r] /\ front'[r] <= now
  BY <1>1 DEF PTypeOK, Absent
<1>3. \A r \in Requests : Absent <= back'[r] /\ back'[r] <= now
  BY <1>1 DEF PTypeOK, Absent
<1>4. QED
  BY <1>1, <1>2, <1>3

\* Every step keeps the types.
LEMMA PTypeStep ==
  PTypeOK /\ [PNext]_pvars => PTypeOK'
<1> SUFFICES ASSUME PTypeOK, [PNext]_pvars PROVE PTypeOK'
  OBVIOUS
<1> USE PendingAssumption DEF PTypeOK, Absent, Results, NoAnswer, Answer
<1>1. ASSUME NEW r \in Requests, Match(r) PROVE PTypeOK'
  <2>1. Reverse(r) \in Requests /\ Erase(Reverse(r))
    BY <1>1, ReverseType DEF Match
  <2>2. answer' \in [request : Requests, result : Results]
    BY <1>1 DEF Match
  <2>3. now' = now /\ cleanup_at' = cleanup_at
    BY <1>1 DEF Match
  <2>4. QED
    BY <2>1, <2>2, <2>3, EraseEffect
<1>2. ASSUME NEW r \in Requests, AlreadyInBuffer(r) PROVE PTypeOK'
  <2>1. Erase(r)
    BY <1>2 DEF AlreadyInBuffer
  <2>2. answer' \in [request : Requests, result : Results]
    BY <1>2 DEF AlreadyInBuffer
  <2>3. now' = now /\ cleanup_at' = cleanup_at
    BY <1>2 DEF AlreadyInBuffer
  <2>4. QED
    BY <2>1, <2>2, <2>3, EraseEffect
<1>3. ASSUME NEW r \in Requests, Add(r) PROVE PTypeOK'
  BY <1>3 DEF Add
<1>4. CASE PeriodicCleanup
  BY <1>4 DEF PeriodicCleanup, Empty
<1>5. CASE Tick
  BY <1>5 DEF Tick
<1>6. CASE UNCHANGED pvars
  BY <1>6 DEF pvars
<1>7. QED
  BY <1>1, <1>2, <1>3, <1>4, <1>5, <1>6 DEF PNext, ProcessAddFriendRequest

\* Every variable keeps its type.
THEOREM PTypeCorrect == PSpec => []PTypeOK
<1>1. PInit => PTypeOK
  BY PendingAssumption DEF PInit, PTypeOK, Empty, Absent, NoAnswer
<1>2. QED
  BY <1>1, PTypeStep, PTL DEF PSpec

\* Every step keeps the two buffers in order.
LEMMA OrderedStep ==
  PTypeOK /\ BuffersOrdered /\ [PNext]_pvars => BuffersOrdered'
<1> SUFFICES ASSUME PTypeOK, BuffersOrdered, [PNext]_pvars PROVE BuffersOrdered'
  OBVIOUS
<1> USE PendingAssumption DEF BuffersOrdered, Absent
<1>1. ASSUME NEW r \in Requests, Match(r) PROVE BuffersOrdered'
  BY <1>1, ReverseType, EraseEffect DEF Match
<1>2. ASSUME NEW r \in Requests, AlreadyInBuffer(r) PROVE BuffersOrdered'
  BY <1>2, EraseEffect DEF AlreadyInBuffer
<1>3. ASSUME NEW r \in Requests, Add(r) PROVE BuffersOrdered'
  <2>1. \A q \in Requests : front'[q] = front[q] \/ front'[q] = now
    BY <1>3 DEF Add, PTypeOK
  <2>2. now \in Nat /\ cleanup_at \in Nat /\ cleanup_at - Period <= now
    BY DEF PTypeOK
  <2>3. QED
    BY <1>3, <2>1, <2>2 DEF Add
<1>4. CASE PeriodicCleanup
  BY <1>4 DEF PeriodicCleanup, Empty, PTypeOK
<1>5. CASE Tick
  BY <1>5 DEF Tick, PTypeOK
<1>6. CASE UNCHANGED pvars
  BY <1>6 DEF pvars
<1>7. QED
  BY <1>1, <1>2, <1>3, <1>4, <1>5, <1>6 DEF PNext, ProcessAddFriendRequest

\* The timer keeps the two buffers in order: the bound on the age of what is in
\* the front map, and the reason why emptying the back map loses nothing.
THEOREM BuffersStayOrdered == PSpec => []BuffersOrdered
<1>1. PInit => BuffersOrdered
  BY PendingAssumption DEF PInit, BuffersOrdered, Empty
<1>2. QED
  BY <1>1, OrderedStep, PTypeCorrect, PTL DEF PSpec

\* A request is never found that was not found before, unless it is added.
LEMMA FoundShrinks ==
  ASSUME PTypeOK, NEW r \in Requests,
         \/ \E q \in Requests : Match(q) \/ AlreadyInBuffer(q)
         \/ PeriodicCleanup
         \/ Tick
         \/ UNCHANGED pvars
  PROVE  Found(r)' => Found(r)
<1> USE DEF Found, InFront, InBack, Absent
<1>1. ASSUME NEW q \in Requests, Match(q) PROVE Found(r)' => Found(r)
  BY <1>1, ReverseType, EraseEffect DEF Match
<1>2. ASSUME NEW q \in Requests, AlreadyInBuffer(q) PROVE Found(r)' => Found(r)
  BY <1>2, EraseEffect DEF AlreadyInBuffer
<1>3. CASE PeriodicCleanup
  BY <1>3 DEF PeriodicCleanup, Empty
<1>4. CASE Tick
  <2>1. now \in Nat /\ Ttl \in Nat /\ back[r] \in Int
    BY PendingAssumption DEF PTypeOK
  <2>2. QED
    BY <1>4, <2>1 DEF Tick
<1>5. CASE UNCHANGED pvars
  BY <1>5 DEF pvars
<1>6. QED
  BY <1>1, <1>2, <1>3, <1>4, <1>5

\* No step makes two requests wait for each other.
LEMMA CrossedStep ==
  PTypeOK /\ NoCrossedRequests /\ [PNext]_pvars => NoCrossedRequests'
<1> SUFFICES ASSUME PTypeOK, NoCrossedRequests, [PNext]_pvars,
                    NEW r \in Requests
             PROVE  ~(Found(r)' /\ Found(Reverse(r))')
  BY DEF NoCrossedRequests
<1>1. Reverse(r) \in Requests
  BY ReverseType
<1>2. ASSUME NEW q \in Requests, Add(q) PROVE ~(Found(r)' /\ Found(Reverse(r))')
  <2>1. \A s \in Requests : s # q => (Found(s)' <=> Found(s))
    BY <1>2 DEF Add, Found, InFront, InBack, PTypeOK
  <2>2. ~Found(q) /\ ~Found(Reverse(q))
    BY <1>2 DEF Add
  <2>3. CASE r = q
    BY <1>1, <2>1, <2>2, <2>3, ReverseType
  <2>4. CASE Reverse(r) = q
    BY <1>1, <2>1, <2>2, <2>4, ReverseType
  <2>5. CASE r # q /\ Reverse(r) # q
    BY <1>1, <2>1, <2>5 DEF NoCrossedRequests
  <2>6. QED
    BY <2>3, <2>4, <2>5
<1>3. CASE ~\E q \in Requests : Add(q)
  <2>1. (Found(r)' => Found(r)) /\ (Found(Reverse(r))' => Found(Reverse(r)))
    BY <1>1, <1>3, FoundShrinks DEF PNext, ProcessAddFriendRequest
  <2>2. QED
    BY <2>1 DEF NoCrossedRequests
<1>4. QED
  BY <1>2, <1>3

\* Two players never wait for each other.
THEOREM NeverCrossed == PSpec => []NoCrossedRequests
<1>1. PInit => NoCrossedRequests
  BY DEF PInit, NoCrossedRequests, Found, InFront, InBack, Empty, Absent
<1>2. QED
  BY <1>1, CrossedStep, PTypeCorrect, PTL DEF PSpec

\* A request found in the front map is not found in the back map as well.
FoundOnce == \A r \in Requests : ~(InFront(r) /\ InBack(r))

\* No step makes a request found in both maps.
LEMMA FoundOnceStep ==
  PTypeOK /\ FoundOnce /\ [PNext]_pvars => FoundOnce'
<1> USE DEF FoundOnce, InFront, InBack, Absent
<1> SUFFICES ASSUME PTypeOK, FoundOnce, [PNext]_pvars PROVE FoundOnce'
  OBVIOUS
<1>1. ASSUME NEW r \in Requests, Match(r) PROVE FoundOnce'
  BY <1>1, ReverseType, EraseEffect DEF Match
<1>2. ASSUME NEW r \in Requests, AlreadyInBuffer(r) PROVE FoundOnce'
  BY <1>2, EraseEffect DEF AlreadyInBuffer
<1>3. ASSUME NEW r \in Requests, Add(r) PROVE FoundOnce'
  BY <1>3 DEF Add, Found, PTypeOK
<1>4. CASE PeriodicCleanup
  BY <1>4 DEF PeriodicCleanup, Empty
<1>5. CASE Tick
  <2> SUFFICES ASSUME NEW r \in Requests PROVE ~(InFront(r)' /\ InBack(r)')
    OBVIOUS
  <2>1. now \in Nat /\ Ttl \in Nat /\ back[r] \in Int
    BY PendingAssumption DEF PTypeOK
  <2>2. QED
    BY <1>5, <2>1 DEF Tick
<1>6. CASE UNCHANGED pvars
  BY <1>6 DEF pvars
<1>7. QED
  BY <1>1, <1>2, <1>3, <1>4, <1>5, <1>6 DEF PNext, ProcessAddFriendRequest

\* No request is ever found in both maps.
LEMMA NeverFoundTwice == PSpec => []FoundOnce
<1>1. PInit => FoundOnce
  BY DEF PInit, Empty, FoundOnce, InFront, InBack, Absent
<1>2. QED
  BY <1>1, FoundOnceStep, PTypeCorrect, PTL DEF PSpec

(***************************************************************************)
(* The refinement.                                                         *)
(***************************************************************************)

\* The table of the abstract specification, entry by entry.
LEMMA WaitingEntry ==
  ASSUME PTypeOK, NEW r \in Requests
  PROVE  /\ Waiting[r] = IF InFront(r) THEN front[r] ELSE IF InBack(r) THEN back[r] ELSE Absent
         /\ Waiting[r] # Absent <=> Found(r)
BY DEF Waiting, Found, InFront, InBack

\* Erasing a request makes its entry absent, and changes no other.
LEMMA WaitingErased ==
  ASSUME PTypeOK, FoundOnce, NEW q \in Requests, Found(q), Erase(q), now' = now
  PROVE  Waiting' = [Waiting EXCEPT ![q] = Absent]
<1>1. Waiting' = [r \in Requests |-> Waiting'[r]]
  BY DEF Waiting
<1>2. Waiting'[q] = Absent
  BY DEF Waiting, FoundOnce, Found, Erase, InFront, InBack, PTypeOK
<1>3. ASSUME NEW r \in Requests, r # q PROVE Waiting'[r] = Waiting[r]
  BY <1>3 DEF Waiting, Erase, InFront, InBack, PTypeOK
<1>4. Waiting = [r \in Requests |-> Waiting[r]]
  BY DEF Waiting
<1>5. QED
  BY <1>1, <1>2, <1>3, <1>4

\* A match is the match of the window.
LEMMA MatchRefines ==
  ASSUME PTypeOK, FoundOnce, NEW r \in Requests, Match(r)
  PROVE  Window!WMatch(r)
<1>1. Reverse(r) \in Requests /\ Window!Reverse(r) = Reverse(r)
  BY ReverseType DEF Reverse, Window!Reverse
<1>2. Found(Reverse(r)) /\ Erase(Reverse(r)) /\ now' = now
  BY DEF Match
<1>3. Waiting[Reverse(r)] # Absent
  BY <1>1, <1>2, WaitingEntry
<1>4. Waiting' = [Waiting EXCEPT ![Reverse(r)] = Absent]
  BY <1>1, <1>2, WaitingErased
<1>5. QED
  BY <1>1, <1>2, <1>3, <1>4 DEF Match, Window!WMatch, Window!Absent, Absent, Window!Answer, Answer

\* A repeated request is that of the window.
LEMMA RepeatRefines ==
  ASSUME PTypeOK, FoundOnce, NEW r \in Requests, AlreadyInBuffer(r)
  PROVE  Window!WRepeat(r)
<1>1. Reverse(r) \in Requests /\ Window!Reverse(r) = Reverse(r)
  BY ReverseType DEF Reverse, Window!Reverse
<1>2. ~Found(Reverse(r)) /\ Found(r) /\ Erase(r) /\ now' = now
  BY DEF AlreadyInBuffer
<1>3. Waiting[Reverse(r)] = Absent /\ Waiting[r] # Absent
  BY <1>1, <1>2, WaitingEntry
<1>4. Waiting' = [Waiting EXCEPT ![r] = Absent]
  BY <1>2, WaitingErased
<1>5. QED
  BY <1>1, <1>2, <1>3, <1>4
     DEF AlreadyInBuffer, Window!WRepeat, Window!Absent, Absent, Window!Answer, Answer

\* A new request is that of the window.
LEMMA AddRefines ==
  ASSUME PTypeOK, NEW r \in Requests, Add(r)
  PROVE  Window!WAdd(r)
<1>1. Reverse(r) \in Requests /\ Window!Reverse(r) = Reverse(r)
  BY ReverseType DEF Reverse, Window!Reverse
<1>2. Waiting[Reverse(r)] = Absent /\ Waiting[r] = Absent
  BY <1>1, WaitingEntry DEF Add
<1>3. Waiting' = [Waiting EXCEPT ![r] = now]
  <2>1. Waiting' = [q \in Requests |-> Waiting'[q]] /\ Waiting = [q \in Requests |-> Waiting[q]]
    BY DEF Waiting
  <2>2. Waiting'[r] = now
    BY DEF Waiting, Add, InFront, PTypeOK, Absent
  <2>3. ASSUME NEW q \in Requests, q # r PROVE Waiting'[q] = Waiting[q]
    BY <2>3 DEF Waiting, Add, InFront, InBack, PTypeOK
  <2>4. QED
    BY <2>1, <2>2, <2>3
<1>4. QED
  BY <1>1, <1>2, <1>3 DEF Add, Window!WAdd, Window!Absent, Absent, Window!Answer, Answer

\* The timer and the clock forget only what is old, and forget it in time.
LEMMA TimeRefines ==
  ASSUME PTypeOK, BuffersOrdered, PTypeOK', BuffersOrdered',
         PeriodicCleanup \/ Tick
  PROVE  Window!WTime
<1> DEFINE forgotten == {r \in Requests : Waiting[r] # Absent /\ Waiting'[r] = Absent}
<1>1. now' \in {now, now + 1} /\ now' \in Nat /\ answer' = NoAnswer
  BY DEF PeriodicCleanup, Tick, PTypeOK
<1>2. ASSUME NEW r \in Requests
      PROVE  /\ Waiting'[r] = Waiting[r] \/ Waiting'[r] = Absent
             /\ Waiting[r] # Absent /\ Waiting'[r] = Absent => now' - Waiting[r] >= Ttl
             /\ Waiting'[r] # Absent => now' - Waiting'[r] <= Ttl + MaxLateness
  <2>1. /\ Waiting[r] = IF InFront(r) THEN front[r] ELSE IF InBack(r) THEN back[r] ELSE Absent
        /\ Waiting'[r] = IF InFront(r)' THEN front'[r] ELSE IF InBack(r)' THEN back'[r] ELSE Absent
    BY DEF Waiting
  <2>2. /\ front[r] \in Int /\ back[r] \in Int /\ now \in Nat /\ cleanup_at \in Nat
        /\ front'[r] \in Int /\ back'[r] \in Int /\ now' \in Nat /\ cleanup_at' \in Nat
        /\ Ttl \in Nat /\ Period = Ttl /\ MaxLateness \in Nat
    BY PendingAssumption DEF PTypeOK
  <2>3. /\ front[r] # Absent => front[r] >= cleanup_at - Period
        /\ back[r] # Absent => back[r] <= cleanup_at - Period
        /\ front'[r] # Absent => front'[r] >= cleanup_at' - Period
        /\ now' <= cleanup_at' + MaxLateness
    BY DEF BuffersOrdered
  <2>4. CASE PeriodicCleanup
    <3>1. front'[r] = Absent /\ back'[r] = front[r] /\ now' = now /\ now >= cleanup_at
      BY <2>4 DEF PeriodicCleanup, Empty
    <3>2. ~InFront(r)' /\ (InBack(r)' <=> InFront(r) /\ now - front[r] < Ttl)
      BY <3>1 DEF InFront, InBack
    <3>3. ~InBack(r)
      BY <2>2, <2>3, <3>1 DEF InBack
    <3>4. CASE InFront(r)
      BY <2>1, <2>2, <3>1, <3>2, <3>4
    <3>5. CASE ~InFront(r)
      BY <2>1, <3>2, <3>3, <3>5
    <3>6. QED
      BY <3>4, <3>5
  <2>5. CASE Tick
    <3>1. front'[r] = front[r] /\ back'[r] = back[r] /\ now' = now + 1
      BY <2>5 DEF Tick
    <3>2. InFront(r)' <=> InFront(r)
      BY <3>1 DEF InFront
    <3>3. CASE InFront(r)
      <4>1. Waiting[r] = front[r] /\ Waiting'[r] = front[r] /\ front[r] # Absent
        BY <2>1, <3>1, <3>2, <3>3 DEF InFront
      <4>2. front[r] >= cleanup_at' - Ttl
        BY <2>2, <2>3, <3>1, <4>1
      <4>3. now' - front[r] <= Ttl + MaxLateness
        <5> DEFINE later == now'  made == front[r]  due == cleanup_at'
        <5>1. /\ later \in Int /\ made \in Int /\ due \in Int
              /\ Ttl \in Int /\ MaxLateness \in Int
          BY <2>2
        <5>2. made >= due - Ttl
          BY <4>2
        <5>3. later <= due + MaxLateness
          BY <2>3
        <5> HIDE DEF later, made, due
        <5>4. later - made <= Ttl + MaxLateness
          BY <5>1, <5>2, <5>3
        <5>5. QED
          BY <5>4 DEF later, made
      <4>4. QED
        BY <4>1, <4>3
    <3>4. CASE ~InFront(r)
      BY <2>1, <2>2, <3>1, <3>2, <3>4 DEF InBack
    <3>5. QED
      BY <3>3, <3>4
  <2>6. QED
    BY <2>4, <2>5
<1>3. forgotten \in SUBSET {r \in Requests : now' - Waiting[r] >= Ttl}
  BY <1>2
<1>4. Waiting' = [r \in Requests |-> IF r \in forgotten THEN Absent ELSE Waiting[r]]
  <2>1. Waiting' = [r \in Requests |-> Waiting'[r]]
    BY DEF Waiting
  <2>2. \A r \in Requests : Waiting'[r] = IF r \in forgotten THEN Absent ELSE Waiting[r]
    BY <1>2
  <2>3. QED
    BY <2>1, <2>2
<1>5. Window!Requests = Requests /\ Window!Absent = Absent /\ Window!NoAnswer = NoAnswer
  BY DEF Window!Requests, Requests, Window!Absent, Absent, Window!NoAnswer, NoAnswer
<1>6. \E f \in SUBSET {r \in Requests : now' - Waiting[r] >= Ttl} :
        Waiting' = [r \in Requests |-> IF r \in f THEN Absent ELSE Waiting[r]]
  <2> HIDE DEF forgotten
  <2>1. QED
    BY <1>3, <1>4
<1>7. QED
  BY <1>1, <1>2, <1>5, <1>6 DEF Window!WTime

\* Every step is a step of the abstract table.
LEMMA WindowStep ==
  /\ PTypeOK /\ BuffersOrdered /\ FoundOnce /\ PTypeOK' /\ BuffersOrdered' /\ [PNext]_pvars
  => [Window!WNext]_Window!wvars
<1> SUFFICES ASSUME PTypeOK, BuffersOrdered, FoundOnce, PTypeOK', BuffersOrdered', [PNext]_pvars
             PROVE  Window!WNext \/ UNCHANGED Window!wvars
  OBVIOUS
<1>0. Window!Requests = Requests
  BY DEF Window!Requests, Requests
<1>1. ASSUME NEW r \in Requests, Match(r) PROVE Window!WNext
  BY <1>0, <1>1, MatchRefines DEF Window!WNext
<1>2. ASSUME NEW r \in Requests, AlreadyInBuffer(r) PROVE Window!WNext
  BY <1>0, <1>2, RepeatRefines DEF Window!WNext
<1>3. ASSUME NEW r \in Requests, Add(r) PROVE Window!WNext
  BY <1>0, <1>3, AddRefines DEF Window!WNext
<1>4. CASE PeriodicCleanup \/ Tick
  BY <1>4, TimeRefines DEF Window!WNext
<1>5. CASE UNCHANGED pvars
  BY <1>5 DEF pvars, Window!wvars, Waiting, InFront, InBack
<1>6. QED
  BY <1>1, <1>2, <1>3, <1>4, <1>5 DEF PNext, ProcessAddFriendRequest

\* At the start nothing waits.
LEMMA WindowStart == PInit => Window!WInit
<1> SUFFICES ASSUME PInit PROVE Window!WInit
  OBVIOUS
<1>1. \A r \in Requests : Waiting[r] = Absent
  BY DEF PInit, Waiting, InFront, InBack, Empty
<1>2. Waiting = [r \in Requests |-> Absent]
  BY <1>1 DEF Waiting
<1>3. Window!Requests = Requests
  BY DEF Window!Requests, Requests
<1>4. QED
  BY <1>2, <1>3 DEF PInit, Window!WInit, Window!Absent, Absent, Window!NoAnswer, NoAnswer

\* The two maps and the timer implement the table of waiting requests.
THEOREM Refinement == PSpec => ImplementsWindow
BY WindowStart, WindowStep, PTypeCorrect, BuffersStayOrdered, NeverFoundTwice, PTL
   DEF PSpec, ImplementsWindow, Window!WSpec

(***************************************************************************)
(* Pairs of players.                                                       *)
(***************************************************************************)

\* A pair has no order, and determines its two players.
LEMMA PairOrder ==
  ASSUME NEW p \in Users, NEW q \in Users
  PROVE  /\ Pair(p, q) = Pair(q, p)
         /\ \A r, s \in Users : Pair(r, s) = Pair(p, q)
                                 <=> (r = p /\ s = q) \/ (r = q /\ s = p)
BY DEF Pair

\* Two different players make a pair and a request.
LEMMA PairType ==
  ASSUME NEW p \in Users, NEW q \in Users, p # q
  PROVE  Pair(p, q) \in Pairs /\ <<p, q>> \in Requests
<1>1. <<p, q>> \in Requests
  BY DEF Requests
<1>2. Pair(<<p, q>>[1], <<p, q>>[2]) = Pair(p, q)
  BY DEF Pair
<1>3. QED
  BY <1>1, <1>2 DEF Pairs

\* Every pair is a pair of two different players.
LEMMA PairOfTwo ==
  ASSUME NEW x \in Pairs
  PROVE  \E p, q \in Users : p # q /\ x = Pair(p, q)
BY DEF Pairs, Requests

\* Every request has a sender and a recipient, who differ.
LEMMA RequestOfTwo ==
  ASSUME NEW r \in Requests
  PROVE  r[1] \in Users /\ r[2] \in Users /\ r[1] # r[2] /\ r = <<r[1], r[2]>>
BY DEF Requests

(***************************************************************************)
(* The steps of the pending requests.                                      *)
(***************************************************************************)

\* What is known of the pending requests, here as on their own.
PendingInv == PTypeOK /\ BuffersOrdered /\ NoCrossedRequests /\ FoundOnce

\* friend_system uses the pending requests by their own operations only.
LEMMA RequestSteps ==
  ASSUME FNext
  PROVE  \/ NoRequest
         \/ \E p, q \in Users : process_req_friend_add(p, q)
         \/ PeriodicCleanup
         \/ Tick
<1>1. ASSUME NEW p \in Users, register_me(p) \/ unregister_me(p) \/ SessionCloses(p)
      PROVE  NoRequest
  BY <1>1 DEF register_me, unregister_me, SessionCloses
<1>2. ASSUME NEW p \in Users, NEW q \in Users,
             RequestRefused(p, q) \/ RemoveRefused(p, q) \/ process_req_friend_remove(p, q)
      PROVE  NoRequest
  BY <1>2 DEF RequestRefused, RemoveRefused, process_req_friend_remove
<1>3. QED
  BY <1>1, <1>2 DEF FNext

\* Every step of the friend system is one of the double buffer or leaves it.
LEMMA StepOfPending ==
  ASSUME FNext PROVE PNext \/ NoRequest
<1>1. ASSUME NEW p \in Users, NEW q \in Users, process_req_friend_add(p, q)
      PROVE  PNext
  <2>1. ProcessAddFriendRequest(<<p, q>>) /\ p # q
    BY <1>1 DEF process_req_friend_add
  <2>2. QED
    BY <2>1, PairType DEF PNext
<1>2. QED
  BY <1>1, RequestSteps DEF PNext

\* Nothing is found or lost while the pending requests are left alone.
LEMMA QuietFound ==
  ASSUME NoRequest, NEW r \in Requests
  PROVE  Found(r)' <=> Found(r)
BY DEF NoRequest, Found, InFront, InBack

\* So it keeps what was proved of the double buffer,
LEMMA PendingStep ==
  ASSUME PendingInv, [FNext]_fvars
  PROVE  PendingInv'
<1>1. CASE [PNext]_pvars
  BY <1>1, PTypeStep, OrderedStep, CrossedStep, FoundOnceStep DEF PendingInv
<1>2. CASE NoRequest
  <2>1. PTypeOK'
    BY <1>2 DEF PendingInv, NoRequest, PTypeOK
  <2>2. BuffersOrdered' /\ FoundOnce'
    BY <1>2 DEF PendingInv, NoRequest, BuffersOrdered, FoundOnce, InFront, InBack
  <2>3. NoCrossedRequests'
    BY <1>2, QuietFound, ReverseType DEF PendingInv, NoCrossedRequests
  <2>4. QED
    BY <2>1, <2>2, <2>3 DEF PendingInv
<1>3. QED
  BY <1>1, <1>2, StepOfPending DEF fvars

\* which holds in the beginning
LEMMA PendingStart == FInit => PendingInv
BY PendingAssumption DEF FInit, PInit, PendingInv, PTypeOK, BuffersOrdered,
   NoCrossedRequests, FoundOnce, Found, InFront, InBack, Empty, Absent, NoAnswer

\* and always.
LEMMA PendingKept == FSpec => []PendingInv
<1>1. PendingInv /\ [FNext]_fvars => PendingInv'
  BY PendingStep
<1>2. QED
  BY <1>1, PendingStart, PTL DEF FSpec

\* Two players never wait for each other, whatever else friend_system does.
THEOREM FriendsNeverCross == FSpec => []NoCrossedRequests
BY PendingKept, PTL DEF PendingInv

\* While friend_system leaves the requests alone, none of them ages.
LEMMA QuietRefines ==
  ASSUME PTypeOK, BuffersOrdered, NoRequest
  PROVE  Window!WTime
<1>1. Waiting' = Waiting /\ now' = now /\ answer' = NoAnswer
  BY DEF NoRequest, Waiting, InFront, InBack
<1>2. Waiting' = [r \in Requests |-> IF r \in {} THEN Absent ELSE Waiting[r]]
  BY <1>1 DEF Waiting
<1>3. ASSUME NEW r \in Requests, Waiting[r] # Absent
      PROVE  now - Waiting[r] <= Ttl + MaxLateness
  <2>1. Waiting[r] = IF InFront(r) THEN front[r] ELSE IF InBack(r) THEN back[r] ELSE Absent
    BY DEF Waiting
  <2>2. /\ front[r] \in Int /\ back[r] \in Int /\ now \in Nat /\ cleanup_at \in Nat
        /\ Ttl \in Nat /\ Period = Ttl /\ MaxLateness \in Nat
    BY PendingAssumption DEF PTypeOK
  <2>3. CASE InFront(r)
    <3>1. Waiting[r] = front[r]
      BY <2>1, <2>3
    <3>2. front[r] >= cleanup_at - Period /\ now <= cleanup_at + MaxLateness
      BY <2>3 DEF BuffersOrdered, InFront
    <3> DEFINE made == front[r]
    <3>3. made \in Int /\ made >= cleanup_at - Ttl
      BY <2>2, <3>2
    <3> HIDE DEF made
    <3>4. now - made <= Ttl + MaxLateness
      BY <2>2, <3>2, <3>3
    <3>5. QED
      BY <3>1, <3>4 DEF made
  <2>4. CASE ~InFront(r)
    <3>1. Waiting[r] = back[r] /\ now - back[r] < Ttl
      BY <1>3, <2>1, <2>4 DEF InBack
    <3>2. QED
      BY <2>2, <3>1
  <2>5. QED
    BY <2>3, <2>4
<1>4. Window!Requests = Requests /\ Window!Absent = Absent /\ Window!NoAnswer = NoAnswer
  BY DEF Window!Requests, Requests, Window!Absent, Absent, Window!NoAnswer, NoAnswer
<1>5. \E f \in SUBSET {r \in Requests : now' - Waiting[r] >= Ttl} :
        Waiting' = [r \in Requests |-> IF r \in f THEN Absent ELSE Waiting[r]]
  <2>1. {} \in SUBSET {r \in Requests : now' - Waiting[r] >= Ttl}
    OBVIOUS
  <2>2. QED
    BY <1>2, <2>1
<1>6. \A r \in Requests : Waiting'[r] # Absent => now' - Waiting'[r] <= Ttl + MaxLateness
  BY <1>1, <1>3
<1>7. QED
  BY <1>1, <1>4, <1>5, <1>6 DEF Window!WTime

\* With friend_system around them, the two maps and the timer still implement
\* the table of waiting requests.
THEOREM FriendsWindowRefines == FSpec => ImplementsWindow
<1>1. FInit => Window!WInit
  BY WindowStart DEF FInit
<1>2. PendingInv /\ PendingInv' /\ [FNext]_fvars => [Window!WNext]_Window!wvars
  <2> SUFFICES ASSUME PendingInv, PendingInv', [FNext]_fvars
               PROVE  [Window!WNext]_Window!wvars
    OBVIOUS
  <2>1. CASE [PNext]_pvars
    BY <2>1, WindowStep DEF PendingInv
  <2>2. CASE NoRequest
    BY <2>2, QuietRefines DEF PendingInv, Window!WNext
  <2>3. QED
    BY <2>1, <2>2, StepOfPending DEF fvars
<1>3. QED
  BY <1>1, <1>2, PendingKept, PTL DEF FSpec, ImplementsWindow, Window!WSpec

(***************************************************************************)
(* What the steps do to the lists, to the table and to what is told.       *)
(***************************************************************************)

\* Who is told what, player by player.
LEMMA TellEffect ==
  ASSUME told \in [Users -> SUBSET Users], NEW came, NEW gone, Tell(came, gone)
  PROVE  /\ told' \in [Users -> SUBSET Users]
         /\ \A x, y \in Users :
              y \in told'[x] <=> (y \in told[x] \/ <<x, y>> \in came) /\ <<x, y>> \notin gone
BY DEF Tell

\* Who tells whom, of one player and some others.
LEMMA EachOtherPairs ==
  ASSUME NEW p, NEW others, NEW x, NEW y
  PROVE  <<x, y>> \in EachOther(p, others) <=> (x = p /\ y \in others) \/ (y = p /\ x \in others)
BY DEF EachOther

\* Who is in which list after two players became friends.
LEMMA MakeFriendsEffect ==
  ASSUME friend_ids \in [Users -> SUBSET Users], told \in [Users -> SUBSET Users],
         NEW p \in Users, NEW q \in Users, p # q, MakeFriends(p, q)
  PROVE  /\ friend_ids' \in [Users -> SUBSET Users] /\ told' \in [Users -> SUBSET Users]
         /\ \A x, y \in Users :
              /\ y \in friend_ids'[x]
                 <=> y \in friend_ids[x] \/ (x = p /\ y = q) \/ (x = q /\ y = p)
              /\ y \in told'[x] <=> y \in told[x] \/ (x = p /\ y = q) \/ (x = q /\ y = p)
<1>1. /\ friend_ids' = [friend_ids EXCEPT ![p] = @ \union {q}, ![q] = @ \union {p}]
      /\ Tell(EachOther(p, {q}), {})
  BY DEF MakeFriends
<1>2. friend_ids' \in [Users -> SUBSET Users]
  BY <1>1
<1>3. \A x, y \in Users : y \in friend_ids'[x]
                          <=> y \in friend_ids[x] \/ (x = p /\ y = q) \/ (x = q /\ y = p)
  BY <1>1
<1>4. /\ told' \in [Users -> SUBSET Users]
      /\ \A x, y \in Users : y \in told'[x] <=> y \in told[x] \/ <<x, y>> \in EachOther(p, {q})
  BY <1>1, TellEffect
<1>5. \A x, y \in Users : <<x, y>> \in EachOther(p, {q})
                          <=> (x = p /\ y = q) \/ (x = q /\ y = p)
  BY DEF EachOther
<1>6. QED
  BY <1>2, <1>3, <1>4, <1>5

\* Who is in which list after two players ceased to be friends.
LEMMA EndFriendsEffect ==
  ASSUME friend_ids \in [Users -> SUBSET Users], told \in [Users -> SUBSET Users],
         NEW p \in Users, NEW q \in Users, p # q, process_req_friend_remove(p, q)
  PROVE  /\ friend_ids' \in [Users -> SUBSET Users] /\ told' \in [Users -> SUBSET Users]
         /\ \A x, y \in Users :
              /\ y \in friend_ids'[x]
                 <=> y \in friend_ids[x] /\ ~(x = p /\ y = q) /\ ~(x = q /\ y = p)
              /\ y \in told'[x] <=> y \in told[x] /\ ~(x = p /\ y = q) /\ ~(x = q /\ y = p)
<1>1. /\ friend_ids' = [friend_ids EXCEPT ![p] = @ \ {q}, ![q] = @ \ {p}]
      /\ Tell({}, EachOther(p, {q}))
  BY DEF process_req_friend_remove
<1>2. friend_ids' \in [Users -> SUBSET Users]
  BY <1>1
<1>3. \A x, y \in Users : y \in friend_ids'[x]
                          <=> y \in friend_ids[x] /\ ~(x = p /\ y = q) /\ ~(x = q /\ y = p)
  BY <1>1
<1>4. /\ told' \in [Users -> SUBSET Users]
      /\ \A x, y \in Users : y \in told'[x] <=> y \in told[x] /\ <<x, y>> \notin EachOther(p, {q})
  BY <1>1, TellEffect
<1>5. \A x, y \in Users : <<x, y>> \in EachOther(p, {q})
                          <=> (x = p /\ y = q) \/ (x = q /\ y = p)
  BY DEF EachOther
<1>6. QED
  BY <1>2, <1>3, <1>4, <1>5

\* What the statement at the end of a handler does, to the rows of its pair and
\* of no other: n is the number of rows it leaves.
WriteEnds(p, pair, n) ==
  /\ character_friends' \in [Pairs -> Nat]
  /\ \A x \in Pairs \ {pair} :
       character_friends'[x] = character_friends[x] /\ (x \in failed' <=> x \in failed)
  /\ character_friends'[pair] \in {character_friends[pair], n}
  /\ pair \notin failed' => character_friends'[pair] = n
  /\ failed' \subseteq Pairs
  /\ closing \subseteq closing' /\ closing' \subseteq closing \union {p}

\* What inserting a row does: there is one more, or the write failed.
LEMMA InsertEffect ==
  ASSUME FTypeOK, NEW p, NEW pair \in Pairs, InsertRow(p, pair)
  PROVE  /\ WriteEnds(p, pair, character_friends[pair] + 1)
         /\ pair \in failed => pair \in failed'
<1>1. character_friends \in [Pairs -> Nat] /\ failed \subseteq Pairs
  BY DEF FTypeOK
<1>2. CASE /\ character_friends' = [character_friends EXCEPT ![pair] = @ + 1]
           /\ UNCHANGED <<closing, failed>>
  BY <1>1, <1>2 DEF WriteEnds
<1>3. CASE WriteFails(p, pair)
  BY <1>1, <1>3 DEF WriteFails, WriteEnds
<1>4. QED
  BY <1>2, <1>3 DEF InsertRow

\* What deleting the rows of a pair does: there is none, or the write failed.
LEMMA DeleteEffect ==
  ASSUME FTypeOK, NEW p, NEW pair \in Pairs, DeleteRows(p, pair)
  PROVE  WriteEnds(p, pair, 0)
<1>1. character_friends \in [Pairs -> Nat] /\ failed \subseteq Pairs
  BY DEF FTypeOK
<1>2. CASE /\ character_friends' = [character_friends EXCEPT ![pair] = 0]
           /\ failed' = failed \ {pair}
           /\ UNCHANGED closing
  BY <1>1, <1>2 DEF WriteEnds
<1>3. CASE WriteFails(p, pair)
  BY <1>1, <1>3 DEF WriteFails, WriteEnds
<1>4. QED
  BY <1>2, <1>3 DEF DeleteRows

\* Nobody is a friend of himself: what keeps the two ends of a friendship two
\* entries of two lists.
NobodysOwnFriend == \A p \in Users : p \notin friend_ids[p]

\* The steps that can disturb what is proved below: the others change, of
\* friend_system, at most who is closing.
BecomeFriends(p, q) ==
  /\ p \in Active /\ q \in online /\ p # q /\ q \notin friend_ids[p]
  /\ Match(<<p, q>>)
  /\ MakeFriends(p, q)
  /\ InsertRow(p, Pair(p, q))
  /\ UNCHANGED online

\* A session closes, or nothing happens but that a request is added, withdrawn
\* or forgotten.
NoFriends ==
  /\ UNCHANGED <<online, friend_ids, character_friends, told, failed>>
  /\ closing \subseteq closing' /\ closing' \subseteq online

\* The steps that concern friends: a login, a logout, a friendship made or ended.
LEMMA FriendSteps ==
  ASSUME FTypeOK, NobodysOwnFriend, [FNext]_fvars
  PROVE  \/ \E p \in Users : register_me(p) \/ unregister_me(p)
         \/ \E p, q \in Users : BecomeFriends(p, q)
         \/ \E p, q \in Users : p # q /\ process_req_friend_remove(p, q)
         \/ NoFriends
<1>1. closing \subseteq online
  BY DEF FTypeOK
<1>2. ASSUME NEW p \in Users, SessionCloses(p) PROVE NoFriends
  BY <1>1, <1>2 DEF SessionCloses, Active, NoFriends
<1>3. ASSUME UNCHANGED svars PROVE NoFriends
  BY <1>1, <1>3 DEF svars, NoFriends
<1>4. ASSUME NEW p \in Users, NEW q \in Users, process_req_friend_add(p, q)
      PROVE  BecomeFriends(p, q) \/ NoFriends
  <2>1. /\ p \in Active /\ q \in online /\ p # q /\ q \notin friend_ids[p]
        /\ ProcessAddFriendRequest(<<p, q>>)
        /\ UNCHANGED online
    BY <1>4 DEF process_req_friend_add
  <2>2. CASE answer'.result = "that_was_a_match"
    <3>1. MakeFriends(p, q) /\ InsertRow(p, Pair(p, q))
      BY <1>4, <2>2 DEF process_req_friend_add
    <3>2. Match(<<p, q>>)
      BY <2>1, <2>2 DEF ProcessAddFriendRequest, AlreadyInBuffer, Add, Answer
    <3>3. QED
      BY <2>1, <3>1, <3>2 DEF BecomeFriends
  <2>3. CASE answer'.result # "that_was_a_match"
    BY <1>1, <1>4, <2>1, <2>3 DEF process_req_friend_add, NoFriends
  <2>4. QED
    BY <2>2, <2>3
<1>5. ASSUME NEW p \in Users, NEW q \in Users, process_req_friend_remove(p, q)
      PROVE  p # q
  BY <1>5 DEF process_req_friend_remove, NobodysOwnFriend
<1>6. QED
  BY <1>2, <1>3, <1>4, <1>5 DEF FNext, fvars, RequestRefused, RemoveRefused

(***************************************************************************)
(* Types, and the lists in memory against the table.                       *)
(***************************************************************************)

\* The inductive invariant: what is true of the pending requests is not needed
\* for it, only their types.
ListsInv == FTypeOK /\ NobodysOwnFriend /\ MemoryMatchesTable

\* What the table says of a pair, whoever asks.
LEMMA TableSymmetric ==
  ASSUME NEW p \in Users, NEW q \in Users
  PROVE  q \in FriendsInTable(p) <=> p # q /\ character_friends[Pair(p, q)] > 0
BY DEF FriendsInTable

\* A list and the list of the other player hold each other.
LEMMA ListsMirror ==
  ASSUME ListsInv, NEW p \in online, NEW q \in online, Sound(p, q)
  PROVE  Sound(q, p) /\ (q \in friend_ids[p] <=> p \in friend_ids[q])
<1>1. p \in Users /\ q \in Users
  BY DEF ListsInv, FTypeOK
<1>2. Pair(p, q) = Pair(q, p) /\ Sound(q, p)
  BY <1>1, PairOrder DEF Sound
<1>3. QED
  BY <1>1, <1>2, TableSymmetric DEF ListsInv, MemoryMatchesTable

\* A login fetches the list from the table.
LEMMA RegisterLists ==
  ASSUME ListsInv, PTypeOK', NEW p \in Users, register_me(p)
  PROVE  ListsInv'
<1> USE DEF ListsInv
<1>1. /\ p \notin online /\ online' = online \union {p}
      /\ friend_ids' = [friend_ids EXCEPT ![p] = FriendsInTable(p)]
      /\ Tell(EachOther(p, FriendsInTable(p) \intersect online), {})
      /\ UNCHANGED <<closing, character_friends, failed>>
  BY DEF register_me
<1>2. FriendsInTable(p) \subseteq Users /\ p \notin FriendsInTable(p)
  BY DEF FriendsInTable
<1>3. /\ friend_ids' \in [Users -> SUBSET Users]
      /\ friend_ids'[p] = FriendsInTable(p)
      /\ \A x \in Users : x # p => friend_ids'[x] = friend_ids[x]
  BY <1>1, <1>2 DEF FTypeOK
<1>4. /\ told' \in [Users -> SUBSET Users]
      /\ \A x, y \in Users :
           y \in told'[x] <=> y \in told[x] \/ <<x, y>> \in EachOther(p, FriendsInTable(p) \intersect online)
  BY <1>1, TellEffect DEF FTypeOK
<1>5. \A x \in Users \ online' : told'[x] = {}
  <2> SUFFICES ASSUME NEW x \in Users \ online', NEW y \in Users, y \in told'[x] PROVE FALSE
    BY <1>4
  <2>1. x \notin online /\ x # p /\ told[x] = {}
    BY <1>1 DEF FTypeOK
  <2>2. <<x, y>> \in EachOther(p, FriendsInTable(p) \intersect online)
    BY <1>4, <2>1
  <2>3. QED
    BY <2>1, <2>2, EachOtherPairs
<1>6. FTypeOK'
  BY <1>1, <1>3, <1>4, <1>5 DEF FTypeOK
<1>7. NobodysOwnFriend'
  BY <1>2, <1>3 DEF NobodysOwnFriend
<1>8. MemoryMatchesTable'
  <2>1. \A x \in Users : FriendsInTable(x)' = FriendsInTable(x)
    BY <1>1 DEF FriendsInTable
  <2>2. \A x, y \in Users : Sound(x, y)' <=> Sound(x, y)
    BY <1>1 DEF Sound
  <2>3. online \subseteq Users
    BY DEF FTypeOK
  <2>4. QED
    BY <1>1, <1>3, <2>1, <2>2, <2>3 DEF MemoryMatchesTable
<1>9. QED
  BY <1>6, <1>7, <1>8

\* A logout drops the list and leaves the others.
LEMMA UnregisterLists ==
  ASSUME ListsInv, PTypeOK', NEW p \in Users, unregister_me(p)
  PROVE  ListsInv'
<1> USE DEF ListsInv
<1>1. /\ p \in online /\ online' = online \ {p} /\ closing' = closing \ {p}
      /\ friend_ids' = [friend_ids EXCEPT ![p] = {}]
      /\ Tell({}, ({p} \X Users) \union ((friend_ids[p] \intersect online) \X {p}))
      /\ UNCHANGED <<character_friends, failed>>
  BY DEF unregister_me
<1>2. /\ friend_ids' \in [Users -> SUBSET Users]
      /\ friend_ids'[p] = {}
      /\ \A x \in Users : x # p => friend_ids'[x] = friend_ids[x]
  BY <1>1 DEF FTypeOK
<1>3. /\ told' \in [Users -> SUBSET Users]
      /\ \A x, y \in Users : y \in told'[x] => y \in told[x]
      /\ \A y \in Users : y \notin told'[p]
  <2> DEFINE gone == ({p} \X Users) \union ((friend_ids[p] \intersect online) \X {p})
  <2>1. \A y \in Users : <<p, y>> \in gone
    OBVIOUS
  <2>2. told \in [Users -> SUBSET Users] /\ Tell({}, gone)
    BY <1>1 DEF FTypeOK
  <2> HIDE DEF gone
  <2>3. /\ told' \in [Users -> SUBSET Users]
        /\ \A x, y \in Users :
             y \in told'[x] <=> (y \in told[x] \/ <<x, y>> \in {}) /\ <<x, y>> \notin gone
    BY <2>2, TellEffect
  <2>4. QED
    BY <2>1, <2>3
<1>4. told'[p] = {} /\ \A x \in Users \ online : told'[x] = {}
  BY <1>3 DEF FTypeOK
<1>5. FTypeOK'
  BY <1>1, <1>2, <1>3, <1>4 DEF FTypeOK
<1>6. NobodysOwnFriend'
  BY <1>2 DEF NobodysOwnFriend
<1>7. MemoryMatchesTable'
  <2>1. \A x \in Users : FriendsInTable(x)' = FriendsInTable(x)
    BY <1>1 DEF FriendsInTable
  <2>2. \A x, y \in Users : Sound(x, y)' <=> Sound(x, y)
    BY <1>1 DEF Sound
  <2>3. online \subseteq Users
    BY DEF FTypeOK
  <2>4. QED
    BY <1>1, <1>2, <2>1, <2>2, <2>3 DEF MemoryMatchesTable
<1>8. QED
  BY <1>5, <1>6, <1>7

\* A new friendship enters both lists and the table.
LEMMA BecomeLists ==
  ASSUME ListsInv, PTypeOK', NEW p \in Users, NEW q \in Users, BecomeFriends(p, q)
  PROVE  ListsInv'
<1> USE DEF ListsInv
<1> DEFINE pair == Pair(p, q)
<1>1. /\ p \in online /\ q \in online /\ p # q /\ q \notin friend_ids[p]
      /\ MakeFriends(p, q) /\ InsertRow(p, pair) /\ online' = online
  BY DEF BecomeFriends, Active
<1>2. pair \in Pairs
  BY <1>1, PairType
<1>3. /\ friend_ids' \in [Users -> SUBSET Users] /\ told' \in [Users -> SUBSET Users]
      /\ \A x, y \in Users :
           /\ y \in friend_ids'[x]
              <=> y \in friend_ids[x] \/ (x = p /\ y = q) \/ (x = q /\ y = p)
           /\ y \in told'[x] <=> y \in told[x] \/ (x = p /\ y = q) \/ (x = q /\ y = p)
  BY <1>1, MakeFriendsEffect DEF FTypeOK
<1>4. WriteEnds(p, pair, character_friends[pair] + 1)
  BY <1>1, <1>2, InsertEffect
<1>5. FTypeOK'
  <2>1. ASSUME NEW x \in Users \ online PROVE friend_ids'[x] = {} /\ told'[x] = {}
    BY <1>1, <1>3 DEF FTypeOK
  <2>2. closing' \subseteq online' /\ online' \subseteq Users
    BY <1>1, <1>4 DEF FTypeOK, WriteEnds
  <2>3. QED
    BY <1>1, <1>3, <1>4, <2>1, <2>2 DEF FTypeOK, WriteEnds
<1>6. NobodysOwnFriend'
  BY <1>1, <1>3 DEF NobodysOwnFriend
<1>7. MemoryMatchesTable'
  <2> SUFFICES ASSUME NEW x \in online, NEW y \in Users, Sound(x, y)'
               PROVE  y \in friend_ids'[x] <=> y \in FriendsInTable(x)'
    BY <1>1 DEF MemoryMatchesTable
  <2>1. x \in Users /\ x # y /\ Pair(x, y) \notin failed'
    BY DEF FTypeOK, Sound
  <2>2. Pair(x, y) \in Pairs
    BY <2>1, PairType
  <2>3. y \in FriendsInTable(x)' <=> character_friends'[Pair(x, y)] > 0
    BY <2>1 DEF FriendsInTable
  <2>4. CASE Pair(x, y) = pair
    <3>1. y \in friend_ids'[x]
      BY <1>3, <2>1, <2>4, PairOrder
    <3>2. character_friends'[pair] = character_friends[pair] + 1
      BY <1>4, <2>1, <2>4 DEF WriteEnds
    <3>3. character_friends[pair] \in Nat
      BY <1>2 DEF FTypeOK
    <3>4. QED
      BY <2>3, <2>4, <3>1, <3>2, <3>3
  <2>5. CASE Pair(x, y) # pair
    <3>1. ~(x = p /\ y = q) /\ ~(x = q /\ y = p)
      BY <2>5, PairOrder
    <3>2. character_friends'[Pair(x, y)] = character_friends[Pair(x, y)] /\ Pair(x, y) \notin failed
      BY <1>4, <2>1, <2>2, <2>5 DEF WriteEnds
    <3>3. y \in friend_ids[x] <=> character_friends[Pair(x, y)] > 0
      BY <2>1, <3>2, TableSymmetric DEF MemoryMatchesTable, Sound
    <3>4. QED
      BY <1>3, <2>1, <2>3, <3>1, <3>2, <3>3
  <2>6. QED
    BY <2>4, <2>5
<1>8. QED
  BY <1>5, <1>6, <1>7

\* An ended one leaves both lists and the table.
LEMMA EndLists ==
  ASSUME ListsInv, PTypeOK', NEW p \in Users, NEW q \in Users, p # q,
         process_req_friend_remove(p, q)
  PROVE  ListsInv'
<1> USE DEF ListsInv
<1> DEFINE pair == Pair(p, q)
<1>1. p \in online /\ DeleteRows(p, pair) /\ online' = online
  BY DEF process_req_friend_remove, Active
<1>2. pair \in Pairs
  BY PairType
<1>3. /\ friend_ids' \in [Users -> SUBSET Users] /\ told' \in [Users -> SUBSET Users]
      /\ \A x, y \in Users :
           /\ y \in friend_ids'[x]
              <=> y \in friend_ids[x] /\ ~(x = p /\ y = q) /\ ~(x = q /\ y = p)
           /\ y \in told'[x] <=> y \in told[x] /\ ~(x = p /\ y = q) /\ ~(x = q /\ y = p)
  BY EndFriendsEffect DEF FTypeOK
<1>4. WriteEnds(p, pair, 0)
  BY <1>1, <1>2, DeleteEffect
<1>5. FTypeOK'
  <2>1. ASSUME NEW x \in Users \ online PROVE friend_ids'[x] = {} /\ told'[x] = {}
    BY <1>1, <1>3 DEF FTypeOK
  <2>2. closing' \subseteq online' /\ online' \subseteq Users
    BY <1>1, <1>4 DEF FTypeOK, WriteEnds
  <2>3. QED
    BY <1>1, <1>3, <1>4, <2>1, <2>2 DEF FTypeOK, WriteEnds
<1>6. NobodysOwnFriend'
  BY <1>3 DEF NobodysOwnFriend
<1>7. MemoryMatchesTable'
  <2> SUFFICES ASSUME NEW x \in online, NEW y \in Users, Sound(x, y)'
               PROVE  y \in friend_ids'[x] <=> y \in FriendsInTable(x)'
    BY <1>1 DEF MemoryMatchesTable
  <2>1. x \in Users /\ x # y /\ Pair(x, y) \notin failed'
    BY DEF FTypeOK, Sound
  <2>2. Pair(x, y) \in Pairs
    BY <2>1, PairType
  <2>3. y \in FriendsInTable(x)' <=> character_friends'[Pair(x, y)] > 0
    BY <2>1 DEF FriendsInTable
  <2>4. CASE Pair(x, y) = pair
    <3>1. y \notin friend_ids'[x]
      BY <1>3, <2>1, <2>4, PairOrder
    <3>2. character_friends'[pair] = 0
      BY <1>4, <2>1, <2>4 DEF WriteEnds
    <3>3. QED
      BY <2>3, <2>4, <3>1, <3>2
  <2>5. CASE Pair(x, y) # pair
    <3>1. ~(x = p /\ y = q) /\ ~(x = q /\ y = p)
      BY <2>5, PairOrder
    <3>2. character_friends'[Pair(x, y)] = character_friends[Pair(x, y)] /\ Pair(x, y) \notin failed
      BY <1>4, <2>1, <2>2, <2>5 DEF WriteEnds
    <3>3. y \in friend_ids[x] <=> character_friends[Pair(x, y)] > 0
      BY <2>1, <3>2, TableSymmetric DEF MemoryMatchesTable, Sound
    <3>4. QED
      BY <1>3, <2>1, <2>3, <3>1, <3>2, <3>3
  <2>6. QED
    BY <2>4, <2>5
<1>8. QED
  BY <1>5, <1>6, <1>7

\* All other steps leave lists and table alone.
LEMMA NoFriendsLists ==
  ASSUME ListsInv, PTypeOK', NoFriends
  PROVE  ListsInv'
BY DEF ListsInv, NoFriends, FTypeOK, NobodysOwnFriend, MemoryMatchesTable, Sound, FriendsInTable

\* In the beginning nobody is online.
LEMMA ListsStart == FInit => ListsInv
<1> SUFFICES ASSUME FInit PROVE ListsInv
  OBVIOUS
<1>1. PTypeOK
  BY PendingStart DEF PendingInv
<1>2. QED
  BY <1>1 DEF FInit, ListsInv, FTypeOK, NobodysOwnFriend, MemoryMatchesTable

\* Every step keeps lists and table in agreement.
LEMMA ListsStep == ListsInv /\ PTypeOK' /\ [FNext]_fvars => ListsInv'
BY FriendSteps, RegisterLists, UnregisterLists, BecomeLists, EndLists, NoFriendsLists
   DEF ListsInv

\* So they always agree.
LEMMA ListsKept == FSpec => []ListsInv
<1>1. FInit /\ PendingInv => ListsInv
  BY ListsStart
<1>2. ListsInv /\ PendingInv' /\ [FNext]_fvars => ListsInv'
  BY ListsStep DEF PendingInv
<1>3. QED
  BY <1>1, <1>2, PendingKept, PTL DEF FSpec

\* Every variable keeps its type; who is offline has no list and was told nothing.
THEOREM FriendTypesCorrect == FSpec => []FTypeOK
BY ListsKept, PTL DEF ListsInv

\* The list of each online player is what it would load at its next login.
THEOREM MemoryIsTheTable == FSpec => []MemoryMatchesTable
BY ListsKept, PTL DEF ListsInv

(***************************************************************************)
(* Presence.                                                               *)
(***************************************************************************)

\* The newcomer hears of its friends by its own list, they of it by its list
\* too: the right ones, because their lists mirror it.
LEMMA RegisterPresence ==
  ASSUME ListsInv, PresenceKnown, NEW p \in Users, register_me(p)
  PROVE  PresenceKnown'
<1> DEFINE arrivals == EachOther(p, FriendsInTable(p) \intersect online)
<1>1. /\ p \notin online /\ online' = online \union {p}
      /\ friend_ids' = [friend_ids EXCEPT ![p] = FriendsInTable(p)]
      /\ Tell(arrivals, {})
      /\ UNCHANGED <<closing, character_friends, failed>>
  BY DEF register_me
<1>2. /\ online \subseteq Users /\ closing \subseteq online
      /\ friend_ids \in [Users -> SUBSET Users] /\ told \in [Users -> SUBSET Users]
      /\ told[p] = {}
  BY <1>1 DEF ListsInv, FTypeOK
<1>3. \A x, y \in Users :
        <<x, y>> \in arrivals <=> \/ x = p /\ y \in FriendsInTable(p) /\ y \in online
                                  \/ y = p /\ x \in FriendsInTable(p) /\ x \in online
  BY DEF EachOther
<1> HIDE DEF arrivals
<1>4. \A x, y \in Users : y \in told'[x] <=> y \in told[x] \/ <<x, y>> \in arrivals
  BY <1>1, <1>2, TellEffect
<1>5. friend_ids'[p] = FriendsInTable(p) /\ \A x \in Users : x # p => friend_ids'[x] = friend_ids[x]
  BY <1>1, <1>2
<1> SUFFICES ASSUME NEW x \in Active', NEW y \in Users, Sound(x, y)'
             PROVE  y \in told'[x] <=> y \in friend_ids'[x] /\ y \in online'
  BY DEF PresenceKnown
<1>6. x \in Users /\ (x = p \/ x \in Active) /\ x # y /\ Sound(x, y)
  BY <1>1, <1>2 DEF Active, Sound
<1>7. CASE x = p
  BY <1>1, <1>2, <1>3, <1>4, <1>5, <1>6, <1>7
<1>8. CASE x # p /\ y # p
  BY <1>1, <1>3, <1>4, <1>5, <1>6, <1>8 DEF PresenceKnown
<1>9. CASE x # p /\ y = p
  <2>1. p \notin told[x]
    BY <1>1, <1>6, <1>9 DEF PresenceKnown
  <2>2. x \in online
    BY <1>6, <1>9 DEF Active
  <2>3. p \in friend_ids[x] <=> p \in FriendsInTable(x)
    BY <1>6, <1>9, <2>2 DEF ListsInv, MemoryMatchesTable
  <2>4. p \in FriendsInTable(x) <=> x \in FriendsInTable(p)
    BY <1>6, <1>9, PairOrder, TableSymmetric
  <2>5. QED
    BY <1>1, <1>3, <1>4, <1>5, <1>6, <1>9, <2>1, <2>2, <2>3, <2>4
<1>10. QED
  BY <1>6, <1>7, <1>8, <1>9

\* Whoever was told of the one who leaves is in the leaver's list.
LEMMA UnregisterPresence ==
  ASSUME ListsInv, PresenceKnown, NEW p \in Users, unregister_me(p)
  PROVE  PresenceKnown'
<1> DEFINE departures == ({p} \X Users) \union ((friend_ids[p] \intersect online) \X {p})
<1>1. /\ p \in online /\ online' = online \ {p} /\ closing' = closing \ {p}
      /\ friend_ids' = [friend_ids EXCEPT ![p] = {}]
      /\ Tell({}, departures)
      /\ UNCHANGED <<character_friends, failed>>
  BY DEF unregister_me
<1>2. /\ online \subseteq Users
      /\ friend_ids \in [Users -> SUBSET Users] /\ told \in [Users -> SUBSET Users]
  BY DEF ListsInv, FTypeOK
<1>3. \A x, y \in Users : x # p =>
        (<<x, y>> \in departures <=> y = p /\ x \in friend_ids[p] /\ x \in online)
  OBVIOUS
<1> HIDE DEF departures
<1>4. \A x, y \in Users :
        y \in told'[x] <=> (y \in told[x] \/ <<x, y>> \in {}) /\ <<x, y>> \notin departures
  BY <1>1, <1>2, TellEffect
<1>5. \A x \in Users : x # p => friend_ids'[x] = friend_ids[x]
  BY <1>1, <1>2
<1> SUFFICES ASSUME NEW x \in Active', NEW y \in Users, Sound(x, y)'
             PROVE  y \in told'[x] <=> y \in friend_ids'[x] /\ y \in online'
  BY DEF PresenceKnown
<1>6. x \in Users /\ x # p /\ x \in Active /\ x # y /\ Sound(x, y)
  BY <1>1, <1>2 DEF Active, Sound
<1>7. y \in told[x] <=> y \in friend_ids[x] /\ y \in online
  BY <1>6 DEF PresenceKnown
<1>8. CASE y # p
  BY <1>1, <1>3, <1>4, <1>5, <1>6, <1>7, <1>8
<1>9. CASE y = p
  <2>1. x \in online
    BY <1>6 DEF Active
  <2>2. p \in friend_ids[x] <=> x \in friend_ids[p]
    BY <1>1, <1>6, <1>9, <2>1, ListsMirror
  <2>3. QED
    BY <1>1, <1>3, <1>4, <1>6, <1>7, <1>9, <2>1, <2>2
<1>10. QED
  BY <1>8, <1>9

\* New friends are told of each other.
LEMMA BecomePresence ==
  ASSUME ListsInv, PresenceKnown, NEW p \in Users, NEW q \in Users, BecomeFriends(p, q)
  PROVE  PresenceKnown'
<1> DEFINE pair == Pair(p, q)
<1>1. /\ p \in online /\ q \in online /\ p # q
      /\ MakeFriends(p, q) /\ InsertRow(p, pair) /\ online' = online
  BY DEF BecomeFriends, Active
<1>2. pair \in Pairs
  BY <1>1, PairType
<1>3. \A x, y \in Users :
        /\ y \in friend_ids'[x]
           <=> y \in friend_ids[x] \/ (x = p /\ y = q) \/ (x = q /\ y = p)
        /\ y \in told'[x] <=> y \in told[x] \/ (x = p /\ y = q) \/ (x = q /\ y = p)
  BY <1>1, MakeFriendsEffect DEF ListsInv, FTypeOK
<1>4. WriteEnds(p, pair, character_friends[pair] + 1)
  BY <1>1, <1>2, InsertEffect DEF ListsInv
<1> SUFFICES ASSUME NEW x \in Active', NEW y \in Users, Sound(x, y)'
             PROVE  y \in told'[x] <=> y \in friend_ids'[x] /\ y \in online'
  BY DEF PresenceKnown
<1>5. x \in Users /\ x # y /\ x \in Active /\ Pair(x, y) \notin failed'
  BY <1>1, <1>4 DEF Active, Sound, WriteEnds, ListsInv, FTypeOK
<1>6. CASE Pair(x, y) = pair
  <2>1. (x = p /\ y = q) \/ (x = q /\ y = p)
    BY <1>5, <1>6, PairOrder
  <2>2. QED
    BY <1>1, <1>3, <1>5, <2>1
<1>7. CASE Pair(x, y) # pair
  <2>1. ~(x = p /\ y = q) /\ ~(x = q /\ y = p)
    BY <1>7, PairOrder
  <2>2. Sound(x, y)
    BY <1>4, <1>5, <1>7, PairType DEF Sound, WriteEnds
  <2>3. QED
    BY <1>1, <1>3, <1>5, <2>1, <2>2 DEF PresenceKnown
<1>8. QED
  BY <1>6, <1>7

\* Who is no friend any more is forgotten on both sides.
LEMMA EndPresence ==
  ASSUME ListsInv, PresenceKnown, NEW p \in Users, NEW q \in Users, p # q,
         process_req_friend_remove(p, q)
  PROVE  PresenceKnown'
<1> DEFINE pair == Pair(p, q)
<1>1. DeleteRows(p, pair) /\ online' = online
  BY DEF process_req_friend_remove
<1>2. pair \in Pairs
  BY PairType
<1>3. \A x, y \in Users :
        /\ y \in friend_ids'[x]
           <=> y \in friend_ids[x] /\ ~(x = p /\ y = q) /\ ~(x = q /\ y = p)
        /\ y \in told'[x] <=> y \in told[x] /\ ~(x = p /\ y = q) /\ ~(x = q /\ y = p)
  BY EndFriendsEffect DEF ListsInv, FTypeOK
<1>4. WriteEnds(p, pair, 0)
  BY <1>1, <1>2, DeleteEffect DEF ListsInv
<1> SUFFICES ASSUME NEW x \in Active', NEW y \in Users, Sound(x, y)'
             PROVE  y \in told'[x] <=> y \in friend_ids'[x] /\ y \in online'
  BY DEF PresenceKnown
<1>5. x \in Users /\ x # y /\ x \in Active /\ Pair(x, y) \notin failed'
  BY <1>1, <1>4 DEF Active, Sound, WriteEnds, ListsInv, FTypeOK
<1>6. CASE Pair(x, y) = pair
  <2>1. (x = p /\ y = q) \/ (x = q /\ y = p)
    BY <1>5, <1>6, PairOrder
  <2>2. QED
    BY <1>3, <1>5, <2>1
<1>7. CASE Pair(x, y) # pair
  <2>1. ~(x = p /\ y = q) /\ ~(x = q /\ y = p)
    BY <1>7, PairOrder
  <2>2. Sound(x, y)
    BY <1>4, <1>5, <1>7, PairType DEF Sound, WriteEnds
  <2>3. QED
    BY <1>1, <1>3, <1>5, <2>1, <2>2 DEF PresenceKnown
<1>8. QED
  BY <1>6, <1>7

\* All other steps tell nobody anything.
LEMMA NoFriendsPresence ==
  ASSUME PresenceKnown, NoFriends
  PROVE  PresenceKnown'
BY DEF NoFriends, PresenceKnown, Active, Sound

\* The friends a connected client believes to be online are exactly those who
\* are, for every pair whose writes succeeded.
THEOREM PresenceTrue == FSpec => []PresenceKnown
<1>1. FInit => PresenceKnown
  BY DEF FInit, PresenceKnown, Active
<1>2. ListsInv /\ PresenceKnown /\ [FNext]_fvars => PresenceKnown'
  BY FriendSteps, RegisterPresence, UnregisterPresence, BecomePresence, EndPresence,
     NoFriendsPresence DEF ListsInv
<1>3. QED
  BY <1>1, <1>2, ListsKept, PTL DEF FSpec

(***************************************************************************)
(* Requests and rows.                                                      *)
(***************************************************************************)

\* Erasing a request that is found in one map only leaves it in none.
LEMMA ErasedIsNotFound ==
  ASSUME PTypeOK, FoundOnce, NEW r \in Requests, Erase(r), now' = now
  PROVE  ~Found(r)'
BY DEF PTypeOK, FoundOnce, Erase, Found, InFront, InBack, Absent

\* Only adding a request makes it found, and nothing is added between friends.
LEMMA OnlyAddsAreFound ==
  ASSUME PTypeOK, ListsInv, NEW r \in Requests, [FNext]_fvars, Found(r)', ~Found(r)
  PROVE  r[1] \in online /\ r[2] \notin friend_ids[r[1]] /\ NoFriends
<1>1. CASE NoRequest
  BY <1>1, QuietFound
<1>2. CASE [PNext]_pvars /\ ~\E q \in Requests : Add(q)
  BY <1>2, FoundShrinks DEF PNext, ProcessAddFriendRequest
<1>3. ASSUME NEW q \in Requests, Add(q) PROVE r = q
  BY <1>3 DEF Add, Found, InFront, InBack, PTypeOK
<1>4. ASSUME NEW p \in Users, NEW q \in Users, process_req_friend_add(p, q),
             NEW s \in Requests, Add(s)
      PROVE  r[1] \in online /\ r[2] \notin friend_ids[r[1]] /\ NoFriends
  <2>1. /\ p \in online /\ p # q /\ q \notin friend_ids[p]
        /\ ProcessAddFriendRequest(<<p, q>>)
    BY <1>4 DEF process_req_friend_add, Active
  <2>2. answer' = Answer(s, "succesfully_added")
    BY <1>4 DEF Add
  <2>3. s = <<p, q>> /\ answer'.result # "that_was_a_match"
    BY <2>1, <2>2 DEF ProcessAddFriendRequest, Match, AlreadyInBuffer, Add, Answer
  <2>4. NoFriends
    BY <1>4, <2>3 DEF process_req_friend_add, NoFriends, ListsInv, FTypeOK
  <2>5. QED
    BY <1>3, <1>4, <2>1, <2>3, <2>4
<1>5. ASSUME NEW s \in Requests, Add(s) PROVE ~PeriodicCleanup /\ ~Tick /\ ~UNCHANGED fvars
  <2>1. front[s] = Absent /\ front'[s] # Absent /\ answer' # NoAnswer
    BY <1>5 DEF Add, Found, InFront, PTypeOK, Absent, Answer, NoAnswer
  <2>2. QED
    BY <2>1 DEF PeriodicCleanup, Tick, fvars, pvars
<1>6. CASE \E s \in Requests : Add(s)
  BY <1>1, <1>4, <1>5, <1>6, RequestSteps
<1>7. QED
  BY <1>1, <1>2, <1>6, StepOfPending DEF fvars

\* The match that makes two players friends spends the requests between them.
LEMMA MatchSpendsBoth ==
  ASSUME PendingInv, NEW r \in Requests, Match(r)
  PROVE  ~Found(r)' /\ ~Found(Reverse(r))'
<1>1. /\ Reverse(r) \in Requests
      /\ Found(Reverse(r)) /\ Erase(Reverse(r)) /\ now' = now
  BY ReverseType DEF Match
<1>2. ~Found(Reverse(r))'
  BY <1>1, ErasedIsNotFound DEF PendingInv
<1>3. ~Found(r)
  BY <1>1 DEF PendingInv, NoCrossedRequests
<1>4. ~Found(r)'
  BY <1>3, FoundShrinks DEF PendingInv
<1>5. QED
  BY <1>2, <1>4

\* No step leaves a request between friends.
LEMMA BetweenFriendsStep ==
  ASSUME PendingInv, ListsInv, NoRequestBetweenFriends, [FNext]_fvars
  PROVE  NoRequestBetweenFriends'
<1> SUFFICES ASSUME NEW r \in Requests, Sound(r[1], r[2])',
                    character_friends'[Pair(r[1], r[2])] > 0, Found(r)'
             PROVE  FALSE
  BY DEF NoRequestBetweenFriends
<1> DEFINE x == r[1]  y == r[2]
<1>1. x \in Users /\ y \in Users /\ x # y /\ r = <<x, y>>
  BY RequestOfTwo
<1>2. Pair(x, y) \in Pairs /\ Pair(x, y) \notin failed'
  BY <1>1, PairType DEF Sound
<1>3. FTypeOK
  BY DEF ListsInv
<1>4. Found(r) \/ NoFriends
  BY OnlyAddsAreFound DEF PendingInv
<1> HIDE DEF x, y
<1>5. ASSUME UNCHANGED <<character_friends, failed>> PROVE FALSE
  <2>1. Sound(x, y) /\ character_friends[Pair(x, y)] > 0
    BY <1>1, <1>2, <1>5 DEF Sound, x, y
  <2>2. ~Found(r)
    BY <2>1 DEF NoRequestBetweenFriends, x, y
  <2>3. x \in online /\ y \notin friend_ids[x]
    BY <2>2, OnlyAddsAreFound DEF PendingInv, x, y
  <2>4. QED
    BY <1>1, <2>1, <2>3, TableSymmetric DEF ListsInv, MemoryMatchesTable
<1>6. ASSUME NEW p \in Users, NEW q \in Users, NEW n, WriteEnds(p, Pair(p, q), n),
             Pair(x, y) # Pair(p, q), ~NoFriends
      PROVE  FALSE
  <2>1. Sound(x, y) /\ character_friends[Pair(x, y)] > 0
    BY <1>1, <1>2, <1>6 DEF Sound, WriteEnds, x, y
  <2>2. QED
    BY <1>4, <1>6, <2>1 DEF NoRequestBetweenFriends, x, y
<1>7. ASSUME NEW p \in Users, register_me(p) \/ unregister_me(p) PROVE FALSE
  BY <1>5, <1>7 DEF register_me, unregister_me
<1>8. CASE NoFriends
  BY <1>5, <1>8 DEF NoFriends
<1>9. ASSUME NEW p \in Users, NEW q \in Users, BecomeFriends(p, q), ~NoFriends PROVE FALSE
  <2>1. p # q /\ Match(<<p, q>>) /\ InsertRow(p, Pair(p, q))
    BY <1>9 DEF BecomeFriends
  <2>2. Pair(p, q) \in Pairs /\ <<p, q>> \in Requests
    BY <2>1, PairType
  <2>3. Pair(x, y) = Pair(p, q)
    BY <1>3, <1>6, <1>9, <2>1, <2>2, InsertEffect
  <2>4. r = <<p, q>> \/ r = <<q, p>>
    BY <1>1, <2>3, PairOrder
  <2>5. Reverse(<<p, q>>) = <<q, p>>
    BY DEF Reverse
  <2>6. QED
    BY <2>1, <2>2, <2>4, <2>5, MatchSpendsBoth
<1>10. ASSUME NEW p \in Users, NEW q \in Users, p # q, process_req_friend_remove(p, q), ~NoFriends
       PROVE  FALSE
  <2>1. DeleteRows(p, Pair(p, q)) /\ Pair(p, q) \in Pairs
    BY <1>10, PairType DEF process_req_friend_remove
  <2>2. WriteEnds(p, Pair(p, q), 0)
    BY <1>3, <2>1, DeleteEffect
  <2>3. Pair(x, y) = Pair(p, q)
    BY <1>6, <1>10, <2>2
  <2>4. character_friends'[Pair(x, y)] = 0
    BY <1>2, <2>2, <2>3 DEF WriteEnds
  <2>5. QED
    BY <2>4 DEF x, y
<1>11. QED
  BY <1>3, <1>7, <1>8, <1>9, <1>10, FriendSteps DEF ListsInv

\* No request waits between friends: none that was made before survives the
\* match, and none is added after it.
THEOREM FriendsDoNotWait == FSpec => []NoRequestBetweenFriends
<1>1. FInit => NoRequestBetweenFriends
  <2> SUFFICES ASSUME FInit, NEW r \in Requests
               PROVE  ~(character_friends[Pair(r[1], r[2])] > 0)
    BY DEF NoRequestBetweenFriends
  <2>1. Pair(r[1], r[2]) \in Pairs
    BY RequestOfTwo, PairType
  <2>2. QED
    BY <2>1 DEF FInit
<1>2. PendingInv /\ ListsInv /\ NoRequestBetweenFriends /\ [FNext]_fvars
      => NoRequestBetweenFriends'
  BY BetweenFriendsStep
<1>3. QED
  BY <1>1, <1>2, PendingKept, ListsKept, PTL DEF FSpec

\* No step inserts a second row of a pair.
LEMMA OneRowStep ==
  ASSUME ListsInv, AtMostOneRow, [FNext]_fvars
  PROVE  AtMostOneRow'
<1>1. FTypeOK
  BY DEF ListsInv
<1>2. ASSUME UNCHANGED <<character_friends, failed>> PROVE AtMostOneRow'
  BY <1>2 DEF AtMostOneRow
<1>3. ASSUME NEW p \in Users, NEW pair \in Pairs, NEW n \in Nat, WriteEnds(p, pair, n),
             pair \notin failed' => n <= 1
      PROVE  AtMostOneRow'
  BY <1>3 DEF AtMostOneRow, WriteEnds
<1>4. ASSUME NEW p \in Users, NEW q \in Users, BecomeFriends(p, q) PROVE AtMostOneRow'
  <2> DEFINE pair == Pair(p, q)
  <2>1. p \in online /\ p # q /\ q \notin friend_ids[p] /\ InsertRow(p, pair)
    BY <1>4 DEF BecomeFriends, Active
  <2>2. pair \in Pairs
    BY <2>1, PairType
  <2>3. character_friends[pair] \in Nat
    BY <1>1, <2>2 DEF FTypeOK
  <2>4. WriteEnds(p, pair, character_friends[pair] + 1) /\ (pair \in failed => pair \in failed')
    BY <1>1, <2>1, <2>2, InsertEffect
  <2>5. pair \notin failed => ~(character_friends[pair] > 0)
    BY <2>1, TableSymmetric DEF ListsInv, MemoryMatchesTable, Sound
  <2>6. pair \notin failed' => character_friends[pair] + 1 <= 1
    BY <2>3, <2>4, <2>5
  <2> HIDE DEF pair
  <2>7. QED
    BY <1>3, <2>2, <2>3, <2>4, <2>6
<1>5. ASSUME NEW p \in Users, NEW q \in Users, p # q, process_req_friend_remove(p, q)
      PROVE  AtMostOneRow'
  <2>1. DeleteRows(p, Pair(p, q)) /\ Pair(p, q) \in Pairs
    BY <1>5, PairType DEF process_req_friend_remove
  <2>2. WriteEnds(p, Pair(p, q), 0)
    BY <1>1, <2>1, DeleteEffect
  <2>3. QED
    BY <1>3, <2>1, <2>2
<1>6. ASSUME NEW p \in Users, register_me(p) \/ unregister_me(p) PROVE AtMostOneRow'
  BY <1>2, <1>6 DEF register_me, unregister_me
<1>7. CASE NoFriends
  BY <1>2, <1>7 DEF NoFriends
<1>8. QED
  BY <1>1, <1>4, <1>5, <1>6, <1>7, FriendSteps DEF ListsInv

\* A pair that no write failed for has at most one row, though nothing in the
\* table forbids a second.
THEOREM RowsStaySingle == FSpec => []AtMostOneRow
<1>1. FInit => AtMostOneRow
  BY DEF FInit, AtMostOneRow
<1>2. ListsInv /\ AtMostOneRow /\ [FNext]_fvars => AtMostOneRow'
  BY OneRowStep
<1>3. QED
  BY <1>1, <1>2, ListsKept, PTL DEF FSpec

(***************************************************************************)
(* A clock that is being adjusted, by any amount.  Nothing of PTypeOK or   *)
(* BuffersOrdered holds here: what is left are the facts that do not       *)
(* depend on the time.                                                     *)
(***************************************************************************)

\* Erasing leaves each entry as it is or removes it.
LEMMA AEraseEffect ==
  ASSUME ATypeOK, NEW q \in Requests, Erase(q)
  PROVE  /\ front' \in [Requests -> (0..MaxTime) \union {Absent}]
         /\ back' \in [Requests -> (0..MaxTime) \union {Absent}]
         /\ \A r \in Requests : front'[r] = front[r] \/ front'[r] = Absent
         /\ \A r \in Requests : back'[r] = back[r] \/ back'[r] = Absent
BY DEF ATypeOK, Erase, Absent

\* What each kind of step does to the two maps.
LEMMA MapsStep ==
  ASSUME ATypeOK, [ANext]_avars
  PROVE  \/ /\ front' \in [Requests -> (0..MaxTime) \union {Absent}]
            /\ back' \in [Requests -> (0..MaxTime) \union {Absent}]
            /\ \A r \in Requests : front'[r] = front[r] \/ front'[r] = Absent
            /\ \A r \in Requests : back'[r] = back[r] \/ back'[r] = Absent
            /\ cleanups' = cleanups /\ setback' \in BOOLEAN
            /\ now' \in 0..MaxTime /\ (setback' \/ (~setback /\ now' >= now))
         \/ /\ \E q \in Requests : Add(q) /\ cleanups' = [cleanups EXCEPT ![q] = 0]
            /\ setback' = setback
         \/ ACleanup
<1> USE DEF ATypeOK
<1>1. ASSUME NEW q \in Requests, ARequest(q), Match(q) \/ AlreadyInBuffer(q)
      PROVE  /\ \E p \in Requests : Erase(p)
             /\ cleanups' = cleanups /\ setback' = setback /\ now' = now
  <2>1. answer'.result # "succesfully_added"
    BY <1>1 DEF Match, AlreadyInBuffer, Answer
  <2>2. QED
    BY <1>1, <2>1, ReverseType DEF ARequest, Match, AlreadyInBuffer
<1>2. ASSUME NEW q \in Requests, ARequest(q), Add(q)
      PROVE  cleanups' = [cleanups EXCEPT ![q] = 0] /\ setback' = setback
  BY <1>2 DEF ARequest, Add, Answer
<1>3. CASE ATick
  BY <1>3, PendingAssumption DEF ATick, Tick
<1>4. CASE Adjust
  <2>1. now' \in 0..MaxTime /\ now \in 0..MaxTime
    BY <1>4 DEF Adjust
  <2>2. setback' = (setback \/ now' < now) /\ setback \in BOOLEAN
    BY <1>4 DEF Adjust
  <2>3. CASE now' < now
    <3>1. setback' = TRUE
      BY <2>2, <2>3, Zenon
    <3>2. QED
      BY <1>4, <2>1, <3>1 DEF Adjust
  <2>4. CASE ~(now' < now)
    <3>1. setback' = setback
      BY <2>2, <2>4, Zenon
    <3>2. now' >= now
      BY <2>1, <2>4, PendingAssumption
    <3>3. QED
      BY <1>4, <2>1, <3>1, <3>2 DEF Adjust
  <2>5. QED
    BY <2>3, <2>4
<1>5. CASE UNCHANGED avars
  BY <1>5 DEF avars, pvars
<1>6. CASE \E q \in Requests : ARequest(q)
  <2>1. PICK q \in Requests : ARequest(q)
    BY <1>6
  <2>2. CASE Match(q) \/ AlreadyInBuffer(q)
    BY <1>1, <2>1, <2>2, AEraseEffect
  <2>3. CASE Add(q)
    BY <1>2, <2>1, <2>3
  <2>4. QED
    BY <2>1, <2>2, <2>3 DEF ARequest, ProcessAddFriendRequest
<1>7. QED
  BY <1>3, <1>4, <1>5, <1>6 DEF ANext

\* Every variable keeps its type, wherever the clock is set.
THEOREM ATypeCorrect == ASpec => []ATypeOK
<1>1. AInit => ATypeOK
  <2> SUFFICES ASSUME AInit PROVE ATypeOK
    OBVIOUS
  <2>1. now \in 0..MaxTime /\ cleanup_at \in 0..(MaxTime + Period)
    BY PendingAssumption DEF AInit, PInit
  <2>2. /\ front \in [Requests -> (0..MaxTime) \union {Absent}]
        /\ back \in [Requests -> (0..MaxTime) \union {Absent}]
    BY DEF AInit, PInit, Empty
  <2>3. setback \in BOOLEAN
    BY Zenon DEF AInit
  <2>4. cleanups \in [Requests -> 0..2]
    BY DEF AInit
  <2>5. answer \in {NoAnswer}
    BY Zenon DEF AInit, PInit
  <2>6. QED
    BY <2>1, <2>2, <2>3, <2>4, <2>5, Zenon DEF ATypeOK
<1>2. ATypeOK /\ [ANext]_avars => ATypeOK'
  <2> SUFFICES ASSUME ATypeOK, [ANext]_avars PROVE ATypeOK'
    OBVIOUS
  <2> USE PendingAssumption DEF ATypeOK
  <2>1. answer' \in [request : Requests, result : Results] \union {NoAnswer}
    <3>1. ASSUME NEW q \in Requests, ProcessAddFriendRequest(q)
          PROVE  answer' \in [request : Requests, result : Results]
      BY <3>1 DEF ProcessAddFriendRequest, Match, AlreadyInBuffer, Add, Answer, Results
    <3>2. QED
      BY <3>1 DEF ANext, ARequest, ACleanup, ATick, Adjust, PeriodicCleanup, Tick, avars, pvars
  <2>2. cleanup_at' \in 0..(MaxTime + Period)
    BY DEF ANext, ARequest, ProcessAddFriendRequest, Match, AlreadyInBuffer, Add,
           ACleanup, ATick, Adjust, PeriodicCleanup, Tick, avars, pvars
  <2>3. CASE \E q \in Requests : Add(q) /\ cleanups' = [cleanups EXCEPT ![q] = 0] /\ setback' = setback
    BY <2>1, <2>2, <2>3 DEF Add
  <2>4. CASE ACleanup
    BY <2>1, <2>2, <2>4 DEF ACleanup, PeriodicCleanup, Empty
  <2>5. QED
    BY <2>1, <2>2, <2>3, <2>4, MapsStep
<1>3. QED
  BY <1>1, <1>2, PTL DEF ASpec

\* Two opposite requests are never in the same map, wherever the clock is set.
THEOREM NeverBothInOneMap == ASpec => []OneMapNeverBoth
<1>1. AInit => OneMapNeverBoth
  BY ReverseType DEF AInit, PInit, OneMapNeverBoth, Empty
<1>2. ATypeOK /\ OneMapNeverBoth /\ [ANext]_avars => OneMapNeverBoth'
  <2> SUFFICES ASSUME ATypeOK, OneMapNeverBoth, [ANext]_avars, NEW r \in Requests
               PROVE  /\ ~(front'[r] # Absent /\ front'[Reverse(r)] # Absent)
                      /\ ~(back'[r] # Absent /\ back'[Reverse(r)] # Absent)
    BY DEF OneMapNeverBoth
  <2>1. /\ Reverse(r) \in Requests /\ Reverse(Reverse(r)) = r /\ Reverse(r) # r
        /\ ~(front[r] # Absent /\ front[Reverse(r)] # Absent)
        /\ ~(back[r] # Absent /\ back[Reverse(r)] # Absent)
    BY ReverseType DEF OneMapNeverBoth
  <2>2. ASSUME NEW q \in Requests, Add(q)
        PROVE  /\ ~(front'[r] # Absent /\ front'[Reverse(r)] # Absent)
               /\ ~(back'[r] # Absent /\ back'[Reverse(r)] # Absent)
    <3>1. back' = back /\ front' = [front EXCEPT ![q] = now] /\ front[Reverse(q)] = Absent
      BY <2>2 DEF Add, Found, InFront
    <3>2. q = r => front'[Reverse(r)] = Absent
      BY <2>1, <3>1 DEF ATypeOK
    <3>3. q = Reverse(r) => front'[r] = Absent
      BY <2>1, <3>1 DEF ATypeOK
    <3>4. q # r /\ q # Reverse(r) =>
            front'[r] = front[r] /\ front'[Reverse(r)] = front[Reverse(r)]
      BY <2>1, <3>1 DEF ATypeOK
    <3>5. QED
      BY <2>1, <3>1, <3>2, <3>3, <3>4
  <2>3. CASE ACleanup
    BY <2>1, <2>3 DEF ACleanup, PeriodicCleanup, Empty
  <2>4. QED
    BY <2>1, <2>2, <2>3, MapsStep
<1>3. QED
  BY <1>1, <1>2, ATypeCorrect, PTL DEF ASpec

\* A clock that is only set forth crosses no requests.
THEOREM CrossedBySetbacksOnly == ASpec => []OnlySetbacksCross
<1> USE DEF OnlySetbacksCross, NoCrossedRequests
<1>1. AInit => OnlySetbacksCross
  BY DEF AInit, PInit, Found, InFront, InBack, Empty, Absent
<1>2. ATypeOK /\ OnlySetbacksCross /\ [ANext]_avars => OnlySetbacksCross'
  <2> SUFFICES ASSUME ATypeOK, OnlySetbacksCross, [ANext]_avars, ~setback', NEW r \in Requests
               PROVE  ~(Found(r)' /\ Found(Reverse(r))')
    BY DEF OnlySetbacksCross
  <2>1. /\ Reverse(r) \in Requests /\ Reverse(Reverse(r)) = r /\ Reverse(r) # r
    BY ReverseType
  <2>2. ASSUME ~setback PROVE ~(Found(r) /\ Found(Reverse(r)))
    BY <2>2
  <2>3. ASSUME NEW s \in Requests, now' \in 0..MaxTime, now' >= now,
               front'[s] = front[s] \/ front'[s] = Absent,
               back'[s] = back[s] \/ back'[s] = Absent
        PROVE  Found(s)' => Found(s)
    <3>1. now \in Int /\ now' \in Int /\ Ttl \in Int /\ back[s] \in Int
      BY <2>3, PendingAssumption DEF ATypeOK, Absent
    <3>2. QED
      BY <2>3, <3>1 DEF Found, InFront, InBack, Absent
  <2>4. ASSUME NEW q \in Requests, Add(q), setback' = setback
        PROVE  ~(Found(r)' /\ Found(Reverse(r))')
    <3>1. \A s \in Requests : s # q => (Found(s)' <=> Found(s))
      BY <2>4 DEF Add, Found, InFront, InBack, ATypeOK
    <3>2. ~Found(Reverse(q))
      BY <2>4 DEF Add
    <3>3. QED
      BY <2>1, <2>2, <2>4, <3>1, <3>2
  <2>5. CASE ACleanup
    <3>1. ~(Found(r)' /\ Found(Reverse(r))') \/ (Found(r) /\ Found(Reverse(r)))
      BY <2>1, <2>5 DEF ACleanup, PeriodicCleanup, Empty, Found, InFront, InBack
    <3>2. ~setback
      BY <2>5 DEF ACleanup
    <3>3. QED
      BY <2>2, <3>1, <3>2
  <2>6. QED
    BY <2>1, <2>2, <2>3, <2>4, <2>5, MapsStep
<1>3. QED
  BY <1>1, <1>2, ATypeCorrect, PTL DEF ASpec

\* The front map holds requests no cleanup has seen, the back map requests that
\* one has seen.
Generations ==
  \A r \in Requests : /\ front[r] # Absent => cleanups[r] = 0
                      /\ back[r] # Absent => cleanups[r] <= 1

\* No request outlives the second cleanup, wherever the clock is set.
THEOREM ForgottenBySecondCleanup == ASpec => []SecondCleanupForgets
<1>1. AInit => Generations
  BY DEF AInit, PInit, Generations, Empty
<1>2. ATypeOK /\ Generations /\ [ANext]_avars => Generations'
  <2> SUFFICES ASSUME ATypeOK, Generations, [ANext]_avars, NEW r \in Requests
               PROVE  /\ front'[r] # Absent => cleanups'[r] = 0
                      /\ back'[r] # Absent => cleanups'[r] <= 1
    BY DEF Generations
  <2>1. /\ front[r] # Absent => cleanups[r] = 0
        /\ back[r] # Absent => cleanups[r] <= 1
        /\ cleanups[r] \in 0..2
    BY DEF Generations, ATypeOK
  <2>2. ASSUME NEW q \in Requests, Add(q), cleanups' = [cleanups EXCEPT ![q] = 0]
        PROVE  /\ front'[r] # Absent => cleanups'[r] = 0
               /\ back'[r] # Absent => cleanups'[r] <= 1
    BY <2>1, <2>2 DEF Add, ATypeOK
  <2>3. CASE ACleanup
    BY <2>1, <2>3 DEF ACleanup, PeriodicCleanup, Empty
  <2>4. QED
    BY <2>1, <2>2, <2>3, MapsStep
<1>3. ATypeOK /\ Generations => SecondCleanupForgets
  BY DEF ATypeOK, Generations, SecondCleanupForgets, Found, InFront, InBack
<1>4. QED
  BY <1>1, <1>2, <1>3, ATypeCorrect, PTL DEF ASpec
================================================================================
